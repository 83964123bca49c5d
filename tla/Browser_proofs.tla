--------------------------- MODULE Browser_proofs ---------------------------
(***************************************************************************)
(* What the pages of the browser show and hold, each for any number of     *)
(* requests, answers and losses that its constants bound: the lobby and    *)
(* the game page, the chat panel and the call of a game, the puzzle        *)
(* trainer, the review of a finished game, the desk of lists and forms,    *)
(* and the analysis board.                                                 *)
(***************************************************************************)
EXTENDS Play, Chat, Call, Analysis, Puzzle, Review, Desk, FiniteSetTheorems, SequenceTheorems,
        TLAPS

-----------------------------------------------------------------------------
(* The chat panel. *)

\* normalizeMessages lists each number once, ascending: as numbers differ, no two
\* have the same number of smaller ones before them.
LEMMA NormalizeIs ==
    ASSUME NEW ids, ids \subseteq Nat, IsFiniteSet(ids)
    PROVE  /\ Normalize(ids) \in Seq(ids)
           /\ ToSet(Normalize(ids)) = ids
           /\ \A i \in 1..Len(Normalize(ids)) - 1 : Normalize(ids)[i] < Normalize(ids)[i + 1]
<1> DEFINE n == Cardinality(ids)
           Below(p) == {q \in ids : q < p}
           below == [p \in ids |-> Cardinality(Below(p))]
           list == Normalize(ids)
<1>1. n \in Nat
  BY FS_CardinalityType
<1>2. \A p \in ids : IsFiniteSet(Below(p)) /\ Cardinality(Below(p)) \in 0..(n - 1)
  <2> TAKE p \in ids
  <2>1. IsFiniteSet(ids \ {p}) /\ Cardinality(ids \ {p}) = n - 1
    BY FS_RemoveElement
  <2>2. Below(p) \in SUBSET (ids \ {p})
    OBVIOUS
  <2>3. IsFiniteSet(Below(p)) /\ Cardinality(Below(p)) <= n - 1
    BY <2>1, <2>2, FS_Subset
  <2>4. Cardinality(Below(p)) \in Nat
    BY <2>3, FS_CardinalityType
  <2> QED
    BY <2>3, <2>4, <1>1
<1>3. ASSUME NEW p \in ids, NEW q \in ids, p < q
      PROVE  below[p] < below[q]
  <2>1. p \in Below(q) /\ p \notin Below(p)
    BY <1>3
  <2>2. ASSUME NEW r \in Below(p) PROVE r \in Below(q)
    BY <1>3, <2>2
  <2>3. /\ Cardinality(Below(p)) <= Cardinality(Below(q))
        /\ Cardinality(Below(p)) # Cardinality(Below(q))
    <3> HIDE DEF Below
    <3> QED
      BY <2>1, <2>2, <1>2, FS_Subset
  <2> QED
    BY <2>3, <1>2
<1>4. \A p, q \in ids : below[p] = below[q] => p = q
  <2> SUFFICES ASSUME NEW p \in ids, NEW q \in ids, p # q
               PROVE  below[p] # below[q]
    OBVIOUS
  <2>1. (p < q \/ q < p) /\ below[p] \in Nat /\ below[q] \in Nat
    BY <1>2
  <2> QED
    BY <2>1, <1>3
<1>5. \A i \in 0..(n - 1) : \E p \in ids : below[p] = i
  <2>1. below \in Injection(ids, 0..(n - 1))
    BY <1>2, <1>4 DEF Injection, IsInjective
  <2>2. IsFiniteSet(0..(n - 1)) /\ Cardinality(0..(n - 1)) = n
    <3> HIDE DEF n
    <3> QED
      BY <1>1, FS_Interval
  <2>3. below \in Surjection(ids, 0..(n - 1))
    <3> HIDE DEF below
    <3> QED
      BY <1>1, <2>1, <2>2, FS_Injection
  <2> QED
    BY <2>3 DEF Surjection
<1>6. \A i \in 1..n : list[i] \in ids /\ below[list[i]] = i - 1
  <2> TAKE i \in 1..n
  <2>1. PICK p \in ids : below[p] = i - 1
    BY <1>5, <1>1
  <2>2. list[i] = CHOOSE r \in ids : Cardinality(Below(r)) = i - 1
    BY DEF Normalize
  <2> QED
    BY <2>1, <2>2
<1>7. list \in [1..n -> ids]
  <2> DEFINE Choice(i) == CHOOSE p \in ids : Cardinality({q \in ids : q < p}) = i - 1
  <2>1. list = [i \in 1..n |-> Choice(i)]
    BY DEF Normalize
  <2>2. \A i \in 1..n : Choice(i) \in ids
    <3> HIDE DEF Choice
    <3> QED
      BY <2>1, <1>6
  <2> HIDE DEF Choice, list
  <2> QED
    BY <2>1, <2>2
<1> HIDE DEF list, n
<1>8. list \in Seq(ids) /\ Len(list) = n /\ DOMAIN list = 1..n
  BY <1>1, <1>7
<1>9. ASSUME NEW p \in ids PROVE \E i \in 1..n : list[i] = p
  <2>1. below[p] \in 0..(n - 1)
    BY <1>2
  <2>2. below[p] + 1 \in 1..n /\ below[p] = (below[p] + 1) - 1
    BY <2>1, <1>1
  <2>3. list[below[p] + 1] \in ids /\ below[list[below[p] + 1]] = below[p]
    BY <1>6, <2>2
  <2> QED
    BY <2>2, <2>3, <1>4
<1>10. ToSet(list) = ids
  <2> HIDE DEF below, Below
  <2>1. \A p \in ToSet(list) : p \in ids
    BY <1>6, <1>8 DEF ToSet
  <2>2. \A p \in ids : p \in ToSet(list)
    BY <1>8, <1>9 DEF ToSet
  <2> QED
    BY <2>1, <2>2
<1>11. ASSUME NEW i \in 1..Len(list) - 1 PROVE list[i] < list[i + 1]
  <2>1. i \in 1..n /\ i + 1 \in 1..n /\ i \in Nat
    BY <1>1, <1>8
  <2>2. /\ list[i] \in ids /\ list[i + 1] \in ids
        /\ below[list[i]] = i - 1 /\ below[list[i + 1]] = (i + 1) - 1
    BY <2>1, <1>6
  <2>3. ~(list[i + 1] < list[i]) /\ list[i + 1] # list[i]
    <3> HIDE DEF list, below
    <3>1. list[i + 1] # list[i]
      BY <2>1, <2>2
    <3>2. ~(below[list[i + 1]] < below[list[i]])
      BY <2>1, <2>2
    <3> QED
      BY <2>2, <3>1, <3>2, <1>3
  <2>4. list[i] \in Nat /\ list[i + 1] \in Nat
    BY <2>2
  <2> HIDE DEF list
  <2> QED
    BY <2>3, <2>4
<1> QED
  BY SMTT(30), <1>8, <1>10, <1>11 DEF list

\* The numbers of the stored messages.
Numbers == DOMAIN chatLog

\* The messages are shown once each, in order.
Ascending(list) == \A i \in 1..Len(list) - 1 : list[i] < list[i + 1]

\* What the state consists of.
ChatTyped ==
    /\ chatLog \in Seq(Games) /\ unannounced \subseteq Numbers
    /\ lineUp \in BOOLEAN
    /\ chatInbox \in Seq(Numbers) /\ chatOutbox \in Seq(Games)
    /\ room \in Games \cup {NoGame}
    /\ messages \in Seq(Numbers)

\* A history that is live is for the room on show, and has messages of its game.
HistoriesOfRoom ==
    \A h \in histories :
        /\ h \in [game : Games, live : BOOLEAN, ids : SUBSET Numbers, answered : BOOLEAN]
        /\ h.ids \subseteq Stored(h.game)
        /\ h.live => room = h.game

\* Each message of the room is shown, or on its way, or was missed.
NothingLost ==
    room # NoGame => Stored(room) \subseteq unannounced \cup passedBy \cup ToSet(chatInbox) \cup ToSet(messages)

\* The inductive invariant of the panel.
ChatInv ==
    /\ ChatTyped
    /\ Ascending(messages)
    /\ room # NoGame => ToSet(messages) \subseteq Stored(room)
    /\ HistoriesOfRoom
    /\ NothingLost

\* The panel and its server, from the start.
ChatSpec == ChatInit /\ [][ChatNext]_chatVars

\* The elements of a sequence.
LEMMA InSequence ==
    ASSUME NEW S, NEW s \in Seq(S)
    PROVE  /\ ToSet(s) \subseteq S
           /\ s # <<>> => /\ Head(s) \in S /\ Tail(s) \in Seq(S)
                          /\ ToSet(s) = ToSet(Tail(s)) \cup {Head(s)}
           /\ \A e \in S : Append(s, e) \in Seq(S) /\ ToSet(Append(s, e)) = ToSet(s) \cup {e}
<1>1. ToSet(s) \subseteq S
  BY DEF ToSet
<1>2. ASSUME s # <<>>
      PROVE  Head(s) \in S /\ Tail(s) \in Seq(S) /\ ToSet(s) = ToSet(Tail(s)) \cup {Head(s)}
  <2>1. /\ Head(s) \in S /\ Tail(s) \in Seq(S) /\ Len(s) \in Nat \ {0}
        /\ Head(s) = s[1] /\ Len(Tail(s)) = Len(s) - 1
        /\ \A i \in 1..Len(Tail(s)) : Tail(s)[i] = s[i + 1]
    BY <1>2
  <2>2. ASSUME NEW e \in ToSet(s) PROVE e \in ToSet(Tail(s)) \/ e = Head(s)
    <3>1. PICK i \in 1..Len(s) : s[i] = e
      BY DEF ToSet
    <3>2. CASE i = 1
      BY <2>1, <3>1, <3>2
    <3>3. CASE i # 1
      <4>1. i - 1 \in 1..Len(Tail(s)) /\ Tail(s)[i - 1] = e
        <5>1. i - 1 \in 1..Len(Tail(s)) /\ (i - 1) + 1 = i
          BY <2>1, <3>1, <3>3
        <5> QED
          BY <2>1, <3>1, <5>1
      <4>2. i - 1 \in DOMAIN Tail(s)
        BY <2>1, <4>1
      <4> QED
        BY <4>1, <4>2 DEF ToSet
    <3> QED
      BY <3>2, <3>3
  <2>3. ASSUME NEW e \in ToSet(Tail(s)) PROVE e \in ToSet(s)
    <3>1. PICK i \in 1..Len(Tail(s)) : Tail(s)[i] = e
      BY <2>1 DEF ToSet
    <3>2. i + 1 \in 1..Len(s) /\ s[i + 1] = e
      BY <2>1, <3>1
    <3> QED
      BY <3>2 DEF ToSet
  <2>4. Head(s) \in ToSet(s)
    BY <2>1 DEF ToSet
  <2> QED
    BY <2>1, <2>2, <2>3, <2>4
<1>3. ASSUME NEW e \in S
      PROVE  Append(s, e) \in Seq(S) /\ ToSet(Append(s, e)) = ToSet(s) \cup {e}
  <2>1. /\ Append(s, e) \in Seq(S) /\ Len(Append(s, e)) = Len(s) + 1 /\ Len(s) \in Nat
        /\ \A i \in 1..Len(s) : Append(s, e)[i] = s[i]
        /\ Append(s, e)[Len(s) + 1] = e
    OBVIOUS
  <2>2. \A d \in ToSet(Append(s, e)) : d \in ToSet(s) \/ d = e
    BY <2>1 DEF ToSet
  <2>3. \A d \in ToSet(s) : d \in ToSet(Append(s, e))
    BY <2>1 DEF ToSet
  <2>4. e \in ToSet(Append(s, e))
    BY <2>1 DEF ToSet
  <2> QED
    BY <2>1, <2>2, <2>3, <2>4
<1> QED
  BY <1>1, <1>2, <1>3

\* The numbers of a game are numbers of stored messages, of which there are
\* finitely many.
LEMMA NumbersAreFinite ==
    ASSUME ChatTyped, NEW ids, ids \subseteq Numbers
    PROVE  IsFiniteSet(ids) /\ ids \subseteq Nat
<1>1. Numbers = 1..Len(chatLog) /\ Len(chatLog) \in Nat
  BY DEF ChatTyped, Numbers
<1>2. IsFiniteSet(Numbers)
  BY <1>1, FS_Interval
<1>3. ids \subseteq Nat
  BY <1>1
<1> QED
  BY <1>2, <1>3, FS_Subset

\* setMessages and addMessage show what they are given beside what is shown.
LEMMA MessagesMerge ==
    ASSUME ChatInv, NEW ids, ids \subseteq Stored(room), room # NoGame,
           messages' = Normalize(ToSet(messages) \cup ids)
    PROVE  /\ messages' \in Seq(Numbers) /\ Ascending(messages')
           /\ ToSet(messages') = ToSet(messages) \cup ids
           /\ ToSet(messages') \subseteq Stored(room)
<1> DEFINE all == ToSet(messages) \cup ids
<1>1. all \subseteq Stored(room) /\ all \subseteq Numbers
  BY DEF ChatInv, Stored, Numbers
<1>2. IsFiniteSet(all) /\ all \subseteq Nat
  BY <1>1, NumbersAreFinite DEF ChatInv
<1> HIDE DEF all
<1>3. /\ Normalize(all) \in Seq(all) /\ ToSet(Normalize(all)) = all
      /\ \A i \in 1..Len(Normalize(all)) - 1 : Normalize(all)[i] < Normalize(all)[i + 1]
  BY <1>2, NormalizeIs
<1>4. messages' = Normalize(all)
  BY DEF all
<1>5. Normalize(all) \in Seq(Numbers)
  BY <1>1, <1>3
<1> QED
  BY <1>1, <1>3, <1>4, <1>5 DEF Ascending, all

\* The panel is empty and knows of nothing.
LEMMA ChatInitInv == ChatInit => ChatInv
<1> SUFFICES ASSUME ChatInit PROVE ChatInv
  OBVIOUS
<1>1. ToSet(messages) = {} /\ Stored(room) = {}
  BY DEF ChatInit, ToSet, Stored
<1> QED
  BY <1>1 DEF ChatInit, ChatInv, ChatTyped, HistoriesOfRoom, NothingLost, Ascending, Numbers

\* Another room, or the same again, empties the panel or leaves it as it is.
LEMMA EnterRoomInv ==
    ASSUME ChatInv, NEW g \in Games, EnterRoom(g)
    PROVE  ChatInv'
<1>1. /\ room' = g /\ messages' = (IF room = g THEN messages ELSE <<>>)
      /\ histories' = {[h EXCEPT !.live = FALSE] : h \in histories}
                        \cup {[game |-> g, live |-> TRUE, ids |-> {}, answered |-> FALSE]}
      /\ passedBy' = Stored(g) \ (unannounced \cup ToSet(chatInbox) \cup ToSet(messages'))
      /\ UNCHANGED <<chatLog, unannounced, lineUp, chatInbox, chatOutbox>>
  BY DEF EnterRoom
<1>2. ToSet(<<>>) = {} /\ g # NoGame
  BY ChatAssumption DEF ToSet
<1>3. ChatTyped'
  <2>1. <<>> \in Seq(Numbers)
    OBVIOUS
  <2> QED
    BY <1>1, <2>1 DEF ChatInv, ChatTyped, Numbers
<1>4. Ascending(messages)' /\ ToSet(messages)' \subseteq Stored(room)'
  BY <1>1, <1>2 DEF ChatInv, Ascending, Stored
<1>5. HistoriesOfRoom'
  <2> SUFFICES ASSUME NEW h \in histories'
               PROVE  /\ h \in [game : Games, live : BOOLEAN, ids : SUBSET Numbers, answered : BOOLEAN]
                      /\ h.ids \subseteq Stored(h.game)'
                      /\ h.live => room' = h.game
    BY <1>1 DEF HistoriesOfRoom, Numbers
  <2>1. CASE h = [game |-> g, live |-> TRUE, ids |-> {}, answered |-> FALSE]
    BY <1>1, <2>1
  <2>2. CASE \E k \in histories : h = [k EXCEPT !.live = FALSE]
    <3>1. PICK k \in histories : h = [k EXCEPT !.live = FALSE]
      BY <2>2
    <3>2. h.game = k.game /\ h.ids = k.ids /\ ~h.live
      BY <3>1 DEF ChatInv, HistoriesOfRoom
    <3> QED
      BY <1>1, <3>1, <3>2 DEF ChatInv, HistoriesOfRoom, Stored
  <2> QED
    BY <1>1, <2>1, <2>2
<1>6. NothingLost'
  BY <1>1 DEF NothingLost, Stored
<1> QED
  BY <1>3, <1>4, <1>5, <1>6 DEF ChatInv

\* The panel is emptied.
LEMMA LeaveRoomInv ==
    ASSUME ChatInv, LeaveRoom
    PROVE  ChatInv'
<1>1. /\ room' = NoGame /\ messages' = <<>>
      /\ histories' = {[h EXCEPT !.live = FALSE] : h \in histories}
      /\ UNCHANGED <<chatLog, unannounced, lineUp, chatInbox, chatOutbox>>
  BY DEF LeaveRoom
<1>2. ToSet(<<>>) = {} /\ <<>> \in Seq(Numbers)
  BY DEF ToSet
<1>3. ChatTyped'
  BY <1>1, <1>2 DEF ChatInv, ChatTyped, Numbers
<1>4. HistoriesOfRoom'
  <2> SUFFICES ASSUME NEW k \in histories, NEW h, h = [k EXCEPT !.live = FALSE]
               PROVE  /\ h \in [game : Games, live : BOOLEAN, ids : SUBSET Numbers, answered : BOOLEAN]
                      /\ h.ids \subseteq Stored(h.game)
                      /\ ~h.live
    BY <1>1 DEF HistoriesOfRoom, Numbers, Stored
  <2> QED
    BY DEF ChatInv, HistoriesOfRoom
<1> QED
  BY <1>1, <1>2, <1>3, <1>4 DEF ChatInv, Ascending, NothingLost

\* A history that is read, or given up, or was for another room.
LEMMA HistoryInv ==
    ASSUME ChatInv, NEW h \in histories,
           HistoryServed(h) \/ HistoryArrives(h) \/ HistoryFails(h)
    PROVE  ChatInv'
<1>1. UNCHANGED <<chatLog, unannounced, lineUp, chatInbox, chatOutbox, room>>
  BY DEF HistoryServed, HistoryArrives, HistoryFails
<1>2. HistoriesOfRoom'
  <2>1. CASE HistoryServed(h)
    <3> DEFINE k == [h EXCEPT !.answered = TRUE, !.ids = Stored(h.game)]
    <3>1. /\ k \in [game : Games, live : BOOLEAN, ids : SUBSET Numbers, answered : BOOLEAN]
          /\ k.ids = Stored(k.game) /\ k.live = h.live /\ k.game = h.game
      BY DEF ChatInv, HistoriesOfRoom, Stored, Numbers
    <3>2. histories' = (histories \ {h}) \cup {k}
      BY <2>1 DEF HistoryServed
    <3> HIDE DEF k
    <3> QED
      BY <1>1, <3>1, <3>2 DEF ChatInv, HistoriesOfRoom, Stored, Numbers
  <2>2. CASE HistoryArrives(h) \/ HistoryFails(h)
    <3>1. histories' = histories \ {h}
      BY <2>2 DEF HistoryArrives, HistoryFails
    <3> QED
      BY <1>1, <3>1 DEF ChatInv, HistoriesOfRoom, Stored, Numbers
  <2> QED
    BY <2>1, <2>2
<1>3. CASE UNCHANGED <<messages, passedBy>>
  BY <1>1, <1>2, <1>3 DEF ChatInv, ChatTyped, Numbers, Ascending, Stored, NothingLost
<1>4. CASE HistoryArrives(h) /\ h.live
  <2>1. /\ room = h.game /\ room # NoGame /\ h.ids \subseteq Stored(room)
        /\ messages' = Normalize(ToSet(messages) \cup h.ids) /\ passedBy' = passedBy \ h.ids
    BY <1>4, ChatAssumption DEF HistoryArrives, SetMessages, ChatInv, HistoriesOfRoom
  <2>2. /\ messages' \in Seq(Numbers) /\ Ascending(messages')
        /\ ToSet(messages') = ToSet(messages) \cup h.ids
        /\ ToSet(messages') \subseteq Stored(room)
    BY <2>1, MessagesMerge
  <2>3. ChatTyped'
    BY <1>1, <2>2 DEF ChatInv, ChatTyped, Numbers
  <2>4. NothingLost'
    BY <1>1, <2>1, <2>2 DEF ChatInv, NothingLost, Stored
  <2> QED
    BY <1>1, <1>2, <2>2, <2>3, <2>4 DEF ChatInv, Stored, Ascending
<1> QED
  BY <1>3, <1>4 DEF HistoryServed, HistoryArrives, HistoryFails

\* A broadcast is shown if it is of the room.
LEMMA HearMessageInv ==
    ASSUME ChatInv, HearMessage
    PROVE  ChatInv'
<1> DEFINE i == Head(chatInbox)
<1>1. /\ chatInbox # <<>> /\ chatInbox' = Tail(chatInbox)
      /\ messages' = IF chatLog[i] = room THEN Normalize(ToSet(messages) \cup {i}) ELSE messages
      /\ UNCHANGED <<chatLog, unannounced, lineUp, chatOutbox, room, histories, passedBy>>
  BY DEF HearMessage
<1>2. /\ i \in Numbers /\ chatInbox' \in Seq(Numbers)
      /\ ToSet(chatInbox) = ToSet(chatInbox') \cup {i}
  BY <1>1, InSequence DEF ChatInv, ChatTyped
<1> HIDE DEF i
<1>3. HistoriesOfRoom'
  BY <1>1 DEF ChatInv, HistoriesOfRoom, Stored, Numbers
<1>4. CASE chatLog[i] = room
  <2>1. room # NoGame /\ {i} \subseteq Stored(room)
    BY <1>2, <1>4, ChatAssumption DEF ChatInv, ChatTyped, Stored, Numbers
  <2>2. /\ messages' \in Seq(Numbers) /\ Ascending(messages')
        /\ ToSet(messages') = ToSet(messages) \cup {i}
        /\ ToSet(messages') \subseteq Stored(room)
    BY <1>1, <1>4, <2>1, MessagesMerge
  <2>3. ChatTyped'
    BY <1>1, <1>2, <2>2 DEF ChatInv, ChatTyped, Numbers
  <2>4. NothingLost'
    BY <1>1, <1>2, <2>2 DEF ChatInv, NothingLost, Stored
  <2> QED
    BY <1>1, <1>3, <2>2, <2>3, <2>4 DEF ChatInv, Stored, Ascending
<1>5. CASE chatLog[i] # room
  <2>1. messages' = messages /\ i \notin Stored(room)
    BY <1>1, <1>5 DEF Stored
  <2>2. ChatTyped'
    BY <1>1, <1>2, <2>1 DEF ChatInv, ChatTyped, Numbers
  <2>3. NothingLost'
    BY <1>1, <1>2, <2>1 DEF ChatInv, NothingLost, Stored
  <2> QED
    BY <1>1, <1>3, <2>1, <2>2, <2>3 DEF ChatInv, Stored, Ascending
<1> QED
  BY <1>4, <1>5

\* A text is stored, under the next number.
LEMMA StoreInv ==
    ASSUME ChatInv, NEW g \in Games, Store(g), chatOutbox' \in Seq(Games),
           UNCHANGED <<lineUp, chatInbox, room, messages, histories, passedBy>>
    PROVE  ChatInv'
<1> DEFINE n == Len(chatLog) + 1
<1>1. /\ chatLog \in Seq(Games) /\ chatLog' = Append(chatLog, g)
      /\ unannounced' = unannounced \cup {Len(chatLog')}
  BY DEF Store, ChatInv, ChatTyped
<1>2. /\ chatLog' \in Seq(Games) /\ Len(chatLog') = n /\ n \in Nat
      /\ Numbers = 1..(n - 1) /\ Numbers' = 1..n
      /\ chatLog'[n] = g /\ \A i \in Numbers : chatLog'[i] = chatLog[i]
  BY <1>1 DEF Numbers
<1> HIDE DEF n
<1>3. Numbers' = Numbers \cup {n} /\ n \notin Numbers
  <2>1. ASSUME NEW i PROVE i \in 1..n <=> i \in 1..(n - 1) \/ i = n
    <3>1. n \in Nat /\ n >= 1
      BY DEF n, ChatInv, ChatTyped
    <3> QED
      BY <3>1
  <2>2. n \notin 1..(n - 1)
    BY <1>2
  <2> QED
    BY <1>2, <2>1, <2>2
<1>4. \A f : Stored(f)' = Stored(f) \cup (IF f = g THEN {n} ELSE {})
  BY <1>2, <1>3 DEF Stored, Numbers
<1>5. ChatTyped'
  <2>1. Seq(Numbers) \subseteq Seq(Numbers')
    BY <1>3
  <2> QED
    BY <1>1, <1>2, <1>3, <2>1 DEF ChatInv, ChatTyped
<1>6. HistoriesOfRoom'
  BY <1>3, <1>4 DEF ChatInv, HistoriesOfRoom
<1>7. NothingLost'
  BY <1>1, <1>2, <1>4 DEF ChatInv, NothingLost
<1> QED
  BY <1>4, <1>5, <1>6, <1>7 DEF ChatInv, Ascending

\* A broadcast goes out, or the link changes with what is in flight.
LEMMA AnnounceInv ==
    ASSUME ChatInv, NEW i \in unannounced, Announce(i)
    PROVE  ChatInv'
<1>1. /\ unannounced' = unannounced \ {i} /\ i \in Numbers
      /\ UNCHANGED <<chatLog, lineUp, chatOutbox, room, messages, histories>>
      /\ \/ chatInbox' = Append(chatInbox, i) /\ UNCHANGED passedBy
         \/ passedBy' = passedBy \cup OfRoom({i}, room) /\ UNCHANGED chatInbox
  BY DEF Announce, ChatInv, ChatTyped
<1>2. HistoriesOfRoom'
  BY <1>1 DEF ChatInv, HistoriesOfRoom, Stored, Numbers
<1>3. /\ chatInbox' \in Seq(Numbers)
      /\ chatInbox' = Append(chatInbox, i) => ToSet(chatInbox') = ToSet(chatInbox) \cup {i}
  <2>1. chatInbox \in Seq(Numbers)
    BY DEF ChatInv, ChatTyped
  <2>2. Append(chatInbox, i) \in Seq(Numbers) /\ ToSet(Append(chatInbox, i)) = ToSet(chatInbox) \cup {i}
    BY <1>1, <2>1, InSequence
  <2> QED
    BY <1>1, <2>1, <2>2
<1>4. i \in Stored(room) => OfRoom({i}, room) = {i}
  BY DEF Stored, OfRoom
<1>5. ChatTyped'
  BY <1>1, <1>3 DEF ChatInv, ChatTyped, Numbers
<1>6. NothingLost'
  BY <1>1, <1>3, <1>4 DEF ChatInv, NothingLost, Stored
<1> QED
  BY <1>1, <1>2, <1>5, <1>6 DEF ChatInv, Stored, Ascending

\* What was in flight is lost with the link.
LEMMA LineChangesInv ==
    ASSUME ChatInv, LineChanges
    PROVE  ChatInv'
<1>1. /\ lineUp' = ~lineUp /\ chatInbox' = <<>> /\ chatOutbox' = <<>>
      /\ passedBy' = passedBy \cup OfRoom(ToSet(chatInbox), room)
      /\ UNCHANGED <<chatLog, unannounced, room, messages, histories>>
  BY DEF LineChanges
<1>2. HistoriesOfRoom'
  BY <1>1 DEF ChatInv, HistoriesOfRoom, Stored, Numbers
<1>3. ChatTyped'
  <2>1. <<>> \in Seq(Numbers) /\ <<>> \in Seq(Games)
    OBVIOUS
  <2> QED
    BY <1>1, <2>1 DEF ChatInv, ChatTyped, Numbers
<1>4. \A i \in Stored(room) : i \in ToSet(chatInbox) => i \in OfRoom(ToSet(chatInbox), room)
  BY DEF Stored, OfRoom
<1>5. NothingLost'
  BY <1>1, <1>4 DEF ChatInv, NothingLost, Stored
<1> QED
  BY <1>1, <1>2, <1>3, <1>5 DEF ChatInv, Stored, Ascending

\* Every step keeps the invariant.
LEMMA ChatStep == ChatInv /\ [ChatNext]_chatVars => ChatInv'
<1> SUFFICES ASSUME ChatInv, [ChatNext]_chatVars PROVE ChatInv'
  OBVIOUS
<1>1. ASSUME NEW g \in Games, EnterRoom(g) PROVE ChatInv'
  BY <1>1, EnterRoomInv
<1>2. ASSUME NEW g \in Games, StoreOther(g) PROVE ChatInv'
  BY <1>2, StoreInv DEF StoreOther, ChatInv, ChatTyped
<1>3. CASE LeaveRoom
  BY <1>3, LeaveRoomInv
<1>4. ASSUME NEW h \in histories, HistoryServed(h) \/ HistoryArrives(h) \/ HistoryFails(h)
      PROVE  ChatInv'
  BY <1>4, HistoryInv
<1>5. CASE HearMessage
  BY <1>5, HearMessageInv
<1>6. CASE TypeText \/ SendMessage \/ UNCHANGED chatVars
  <2>1. /\ UNCHANGED <<chatLog, unannounced, lineUp, chatInbox, room, messages, histories, passedBy>>
        /\ chatOutbox' = chatOutbox \/ (room # NoGame /\ chatOutbox' = <<room>>)
    BY <1>6 DEF TypeText, SendMessage, chatVars
  <2>2. room # NoGame => room \in Games /\ <<room>> \in Seq(Games)
    BY DEF ChatInv, ChatTyped
  <2>3. chatOutbox' \in Seq(Games)
    BY <2>1, <2>2 DEF ChatInv, ChatTyped
  <2> QED
    BY <2>1, <2>3 DEF ChatInv, ChatTyped, Numbers, Ascending, Stored, HistoriesOfRoom, NothingLost
<1>7. CASE StoreOwn
  <2>1. Head(chatOutbox) \in Games /\ Tail(chatOutbox) \in Seq(Games)
    BY <1>7 DEF StoreOwn, ChatInv, ChatTyped
  <2> QED
    BY <1>7, <2>1, StoreInv DEF StoreOwn
<1>8. ASSUME NEW i \in unannounced, Announce(i) PROVE ChatInv'
  BY <1>8, AnnounceInv
<1>9. CASE LineChanges
  BY <1>9, LineChangesInv
<1> QED
  BY <1>1, <1>2, <1>3, <1>4, <1>5, <1>6, <1>7, <1>8, <1>9 DEF ChatNext

\* With nothing in flight the panel shows its room's messages, each once and in
\* order, but for those it could not hear of (useChat, the message store).
THEOREM ChatShowsTheRoom == ChatSpec => []ChatIsWhole
<1>1. ChatInv => ChatIsWhole
  <2> SUFFICES ASSUME ChatInv PROVE ChatIsWhole
    OBVIOUS
  <2>1. chatInbox = <<>> => ToSet(chatInbox) = {}
    BY DEF ToSet
  <2> QED
    BY <2>1 DEF ChatInv, Ascending, NothingLost, ChatIsWhole
<1> QED
  BY <1>1, ChatInitInv, ChatStep, PTL DEF ChatSpec

-----------------------------------------------------------------------------
(* The camera and the microphone, for any number of visits, signals and losses.  *)
(* The signals between the players do not matter here: what does is that every    *)
(* stream that is live is the one in the store of its side (Held), and that the   *)
(* store is empty between visits.                                                 *)

CallSpec == CallInit /\ [][CallNext]_callVars

(* The part of the state that streams depend on.                           *)
VisitsTyped ==
    /\ visit \in [Sides -> 0..MaxVisits]
    /\ onPage \in [Sides -> BOOLEAN]
    /\ localStream \in [Sides -> 0..MaxVisits]

(* A live stream is the stream in the store, of the visit that is going on.*)
(* Streams of visits beyond the bound do not exist.                        *)
Held ==
    \A e \in live :
        /\ e \in Sides \X (1..MaxVisits)
        /\ onPage[e[1]] /\ visit[e[1]] = e[2] /\ localStream[e[1]] = e[2]

CallInv == VisitsTyped /\ Held

(* The actions that leave the streams and the visits alone.                *)
LEMMA SignalsLeaveStreams ==
    ASSUME CallInv, UNCHANGED <<visit, onPage, live, localStream>>
    PROVE  CallInv'
  BY DEF CallInv, VisitsTyped, Held

LEMMA CallInitInv == CallInit => CallInv
  BY CallAssumption DEF CallInit, CallInv, VisitsTyped, Held, Sides

(* A visit starts while no visit goes on, hence without a live stream.     *)
LEMMA StartVisitInv ==
    ASSUME CallInv, NEW s \in Sides, StartVisit(s)
    PROVE  CallInv'
  <1>1. VisitsTyped'
    BY CallAssumption DEF CallInv, VisitsTyped, StartVisit
  <1>2. Held'
    BY DEF CallInv, VisitsTyped, Held, StartVisit
  <1> QED BY <1>1, <1>2 DEF CallInv

(* A visit ends with the stream in the store stopped, the only one live.   *)
LEMMA EndVisitInv ==
    ASSUME CallInv, NEW s \in Sides, EndVisit(s)
    PROVE  CallInv'
  <1>1. VisitsTyped'
    BY CallAssumption DEF CallInv, VisitsTyped, EndVisit
  <1>2. ASSUME NEW e \in live'
        PROVE  /\ e \in Sides \X (1..MaxVisits)
               /\ onPage'[e[1]] /\ visit'[e[1]] = e[2] /\ localStream'[e[1]] = e[2]
    <2>1. e \in live /\ e # <<s, localStream[s]>>
      BY <1>2 DEF EndVisit
    <2>2. e[1] # s
      BY <2>1 DEF CallInv, Held
    <2> QED BY <2>1, <2>2 DEF CallInv, VisitsTyped, Held, EndVisit
  <1> QED BY <1>1, <1>2 DEF CallInv, Held

(* A stream is granted: kept by the visit that asked, stopped otherwise.   *)
LEMMA MediaGrantedInv ==
    ASSUME CallInv, NEW s \in Sides, NEW v \in 1..MaxVisits, MediaGranted(s, v)
    PROVE  CallInv'
  <1>1. CASE ~(onPage[s] /\ v = visit[s])
    BY <1>1, SignalsLeaveStreams DEF MediaGranted, MediaFor
  <1>2. CASE onPage[s] /\ v = visit[s]
    <2>1. /\ live' = (live \ {<<s, localStream[s]>>}) \cup {<<s, v>>}
          /\ localStream' = [localStream EXCEPT ![s] = v]
          /\ UNCHANGED <<visit, onPage>>
      BY <1>2 DEF MediaGranted, MediaFor
    <2>2. VisitsTyped'
      BY <2>1, CallAssumption DEF CallInv, VisitsTyped
    <2>3. ASSUME NEW e \in live'
          PROVE  /\ e \in Sides \X (1..MaxVisits)
                 /\ onPage'[e[1]] /\ visit'[e[1]] = e[2] /\ localStream'[e[1]] = e[2]
      <3>1. CASE e = <<s, v>>
        BY <3>1, <2>1, <1>2 DEF CallInv, VisitsTyped
      <3>2. CASE e \in live /\ e # <<s, localStream[s]>>
        <4>1. e[1] # s
          BY <3>2 DEF CallInv, Held
        <4> QED BY <4>1, <3>2, <2>1 DEF CallInv, VisitsTyped, Held
      <3> QED BY <2>1, <2>3, <3>1, <3>2
    <2> QED BY <2>2, <2>3 DEF CallInv, Held
  <1> QED BY <1>1, <1>2

LEMMA SignalingInv ==
    ASSUME CallInv, NEW s \in Sides, Signaling(s)
    PROVE  CallInv'
  <1>1. UNCHANGED <<visit, onPage, live, localStream>>
    BY DEF Signaling, CreateOffer, RetryOffer, HandlePendingOffer, Unheard,
           OnOffer, OnAnswer, OnIce, Gather
  <1> QED BY <1>1, SignalsLeaveStreams

LEMMA CallNextInv == CallInv /\ [CallNext]_callVars => CallInv'
  <1> SUFFICES ASSUME CallInv, [CallNext]_callVars PROVE CallInv'
    OBVIOUS
  <1>1. CASE UNCHANGED callVars
    BY <1>1, SignalsLeaveStreams DEF callVars
  <1>2. ASSUME NEW s \in Sides, StartVisit(s) PROVE CallInv'
    BY <1>2, StartVisitInv
  <1>3. ASSUME NEW s \in Sides, EndVisit(s) PROVE CallInv'
    BY <1>3, EndVisitInv
  <1>4. ASSUME NEW s \in Sides, Signaling(s) PROVE CallInv'
    BY <1>4, SignalingInv
  <1>5. ASSUME NEW s \in Sides, NEW v \in 1..MaxVisits, MediaGranted(s, v) PROVE CallInv'
    BY <1>5, MediaGrantedInv
  <1>6. ASSUME NEW s \in Sides, NEW v \in 1..MaxVisits, MediaRefused(s, v) PROVE CallInv'
    BY <1>6, SignalsLeaveStreams DEF MediaRefused
  <1> QED BY <1>1, <1>2, <1>3, <1>4, <1>5, <1>6 DEF CallNext

(* Camera and microphone are on only for the visit that is going on, which *)
(* holds the stream: however late the browser grants them (getUserMedia in *)
(* features/connect-rtc/index.ts) and however often the page is left.      *)
THEOREM CameraIsOffWhenGone == CallSpec => []CameraOffWhenGone
  <1>1. CallInv => CameraOffWhenGone
    BY DEF CallInv, Held, CameraOffWhenGone
  <1> QED BY <1>1, CallInitInv, CallNextInv, PTL DEF CallSpec

-----------------------------------------------------------------------------
(* The puzzle trainer. *)

\* What the server and the page keep of an attempt.
Attempts == [count : Nat, solved : BOOLEAN]

\* The workspaces.
Trainers ==
    [puzzle : Puzzles \cup {NoPuzzle}, index : Nat, state : {"ready", "failed", "solved"},
     failureReported : BOOLEAN, replying : BOOLEAN, attempt : Attempts, heard : BOOLEAN]

\* Only a puzzle is replied to.
Trained(w) == w \in Trainers /\ (w.replying => w.puzzle # NoPuzzle)

\* The reports on their way.
Reports ==
    [id : Nat, puzzle : Puzzles, result : {"solved", "failed"}, stage : {"sent", "read", "saved"},
     row : Attempts, live : BOOLEAN]

\* What the state consists of, as far as attempts go.
PuzzleTyped ==
    /\ attempts \in [Puzzles -> Attempts]
    /\ Trained(trainer)
    /\ \A p \in DOMAIN details \cap Puzzles : details[p] \in Attempts
    /\ \A g \in gets : /\ DOMAIN g = {"what", "exclude", "served", "rows", "passed"}
                       /\ g.served => g.what = "catalog"
    /\ reports \subseteq Reports
    /\ reported \in Nat

\* A workspace that is gone does not hear of its reports.
LiveReports ==
    \A r \in reports : r.live => trainer.puzzle = r.puzzle

\* The server has recorded a report of p that is not answered yet.
Saved(p) == \E r \in reports : r.puzzle = p /\ r.stage = "saved"

\* One report of p at a time, whose row is the server's from when it is saved; the
\* page and the catalog are behind only until then, and a catalog on its way only
\* if the answer will overtake it.
Followed(p) ==
    /\ \A r, s \in reports : r.puzzle = p /\ s.puzzle = p => r = s
    /\ \A r \in reports : r.puzzle = p /\ r.stage = "saved" => r.row = attempts[p]
    /\ \A r \in reports : r.puzzle = p /\ ~r.live /\ trainer.puzzle = p => ~trainer.heard
    /\ ~Saved(p) =>
          /\ trainer.puzzle = p /\ trainer.heard => trainer.attempt = attempts[p]
          /\ p \in DOMAIN catalog => catalog[p] = attempts[p] \/ p \in overtaken
    /\ \A g \in gets : g.served => g.rows[p] = attempts[p] \/ p \in g.passed \/ Saved(p)

\* The inductive invariant of the trainer.
PuzzleInv ==
    /\ PuzzleTyped
    /\ LiveReports
    /\ \A p \in Puzzles \ contended : Followed(p)

\* The trainer and its server, from the start.
PuzzleSpec == PuzzleInit /\ [][PuzzleNext]_puzzleVars

\* Nothing is reported yet.
LEMMA PuzzleInitInv == PuzzleInit => PuzzleInv
<1> SUFFICES ASSUME PuzzleInit PROVE PuzzleInv
  OBVIOUS
<1>1. PuzzleTyped
  BY DEF PuzzleInit, PuzzleTyped, Attempts, Trainers, Trained, Unmounted, PuzzleWorkspace, Fresh, Absent
<1> QED
  BY <1>1 DEF PuzzleInit, PuzzleInv, LiveReports, Followed, Saved, Absent, Unmounted,
              PuzzleWorkspace

\* Another workspace, or none, comes on show: it has heard of nothing yet, and the
\* reports of the one before are not for it.
LEMMA ShowKeeps ==
    ASSUME PuzzleInv, NEW w, Trained(w), ~w.heard, Show(w),
           UNCHANGED <<attempts, catalog, overtaken, reported, contended>>,
           \A p \in DOMAIN details' \cap Puzzles : details'[p] \in Attempts,
           \A g \in gets' : g \in gets \/ (/\ DOMAIN g = {"what", "exclude", "served", "rows", "passed"}
                                           /\ ~g.served)
    PROVE  PuzzleInv'
<1> DEFINE Gone(r) == [r EXCEPT !.live = FALSE]
<1>1. trainer' = w /\ reports' = {Gone(r) : r \in reports}
  BY DEF Show
<1>2. \A r \in reports' : \E s \in reports : r = Gone(s)
  BY <1>1
<1>3. \A r \in reports : Gone(r) \in reports'
  BY <1>1
<1>4. \A s \in reports : /\ Gone(s) \in Reports /\ ~Gone(s).live /\ Gone(s).puzzle = s.puzzle
                         /\ Gone(s).stage = s.stage /\ Gone(s).row = s.row
  BY DEF PuzzleInv, PuzzleTyped, Reports
<1> HIDE DEF Gone
<1>5. PuzzleTyped'
  BY <1>1, <1>2, <1>4 DEF PuzzleInv, PuzzleTyped
<1>6. LiveReports'
  BY <1>2, <1>4 DEF LiveReports
<1>7. ASSUME NEW p \in Puzzles, Followed(p) PROVE Followed(p)'
  <2>1. Saved(p)' <=> Saved(p)
    <3>1. ASSUME NEW r \in reports, r.puzzle = p /\ r.stage = "saved" PROVE Saved(p)'
      BY <1>3, <1>4, <3>1 DEF Saved
    <3>2. ASSUME NEW r \in reports', r.puzzle = p /\ r.stage = "saved" PROVE Saved(p)
      BY <1>2, <1>4, <3>2 DEF Saved
    <3> QED
      BY <3>1, <3>2 DEF Saved
  <2>2. \A r, s \in reports' : r.puzzle = p /\ s.puzzle = p => r = s
    BY <1>2, <1>4, <1>7 DEF Followed
  <2>3. \A r \in reports' : r.puzzle = p /\ r.stage = "saved" => r.row = attempts[p]
    BY <1>2, <1>4, <1>7 DEF Followed
  <2> QED
    BY <1>1, <1>7, <2>1, <2>2, <2>3 DEF Followed
<1> QED
  BY <1>5, <1>6, <1>7 DEF PuzzleInv

\* What a query that is asked for holds.
LEMMA GetsTyped ==
    \A what, exclude : /\ DOMAIN Get(what, exclude) = {"what", "exclude", "served", "rows", "passed"}
                       /\ ~Get(what, exclude).served
  BY DEF Get

\* The workspaces that may come on show.
LEMMA WorkspacesTyped ==
    /\ Trained(Unmounted) /\ ~Unmounted.heard
    /\ \A p \in Puzzles : \A a \in Attempts :
          Trained(PuzzleWorkspace(p, a)) /\ ~PuzzleWorkspace(p, a).heard
  BY DEF Unmounted, PuzzleWorkspace, Trainers, Trained, Fresh, Attempts

\* The queries of the page keep the invariant.
LEMMA QueriesKeep ==
    ASSUME PuzzleInv, UNCHANGED <<attempts, trainer, catalog, overtaken, reports, reported, contended>>,
           \A p \in DOMAIN details' \cap Puzzles : details'[p] \in Attempts,
           \A g \in gets' : \/ g \in gets
                            \/ /\ DOMAIN g = {"what", "exclude", "served", "rows", "passed"}
                               /\ g.served => g.what = "catalog" /\ g.rows = attempts
    PROVE  PuzzleInv'
<1>1. PuzzleTyped'
  BY DEF PuzzleInv, PuzzleTyped
<1>2. ASSUME NEW p \in Puzzles, Followed(p) PROVE Followed(p)'
  BY <1>2 DEF Followed, Saved
<1> QED
  BY <1>1, <1>2 DEF PuzzleInv, LiveReports

\* Going to another puzzle, asking and being answered keep the invariant.
LEMMA NavigationInv ==
    ASSUME PuzzleInv,
           \/ \E p \in Puzzles : SelectPuzzle(p)
           \/ LoadRandomPuzzle \/ LeavePuzzles \/ AskCatalog
           \/ \E g \in gets : PuzzleArrives(g) \/ RandomArrives(g) \/ CatalogServed(g) \/ GetFails(g)
    PROVE  PuzzleInv'
<1> USE GetsTyped, WorkspacesTyped
<1>0. /\ \A p \in Puzzles : attempts[p] \in Attempts
      /\ \A p \in DOMAIN details \cap Puzzles : details[p] \in Attempts
  BY DEF PuzzleInv, PuzzleTyped
<1>1. ASSUME NEW p \in Puzzles, SelectPuzzle(p) PROVE PuzzleInv'
  <2>1. /\ \A g \in gets' : g \in gets \/ g = Get(p, NoPuzzle)
        /\ UNCHANGED <<attempts, details, catalog, reported, contended, overtaken>>
    BY <1>1 DEF SelectPuzzle, Asking
  <2>2. \/ UNCHANGED <<trainer, reports>>
        \/ Show(Unmounted)
        \/ \E a \in Attempts : Show(PuzzleWorkspace(p, a))
    BY <1>0, <1>1 DEF SelectPuzzle
  <2>3. CASE UNCHANGED <<trainer, reports>>
    BY <1>0, <2>1, <2>3, QueriesKeep
  <2>4. CASE Show(Unmounted)
    BY <1>0, <2>1, <2>4, ShowKeeps
  <2>5. ASSUME NEW a \in Attempts, Show(PuzzleWorkspace(p, a)) PROVE PuzzleInv'
    BY <1>0, <2>1, <2>5, ShowKeeps
  <2> QED
    BY <2>2, <2>3, <2>4, <2>5
<1>2. CASE LoadRandomPuzzle
  <2>1. /\ \A g \in gets' : g \in gets \/ g = Get("random", trainer.puzzle)
        /\ UNCHANGED <<attempts, details, catalog, reported, contended, overtaken>>
        /\ Show(Unmounted)
    BY <1>2 DEF LoadRandomPuzzle
  <2> QED
    BY <1>0, <2>1, ShowKeeps
<1>3. CASE LeavePuzzles
  BY <1>0, <1>3, ShowKeeps DEF LeavePuzzles
<1>4. CASE AskCatalog
  <2>1. /\ \A g \in gets' : g \in gets \/ g = Get("catalog", NoPuzzle)
        /\ UNCHANGED <<attempts, trainer, details, catalog, reports, reported, contended, overtaken>>
    BY <1>4 DEF AskCatalog, Asking
  <2> QED
    BY <1>0, <2>1, QueriesKeep
<1>5. ASSUME NEW g \in gets, PuzzleArrives(g) PROVE PuzzleInv'
  <2>1. /\ \A f \in gets' : f \in gets
        /\ UNCHANGED <<attempts, catalog, reported, contended, overtaken>>
        /\ g.what \in Puzzles
        /\ \A p \in DOMAIN details' \cap Puzzles : details'[p] \in Attempts
    BY <1>0, <1>5 DEF PuzzleArrives
  <2>2. UNCHANGED <<trainer, reports>> \/ Show(PuzzleWorkspace(g.what, attempts[g.what]))
    BY <1>5 DEF PuzzleArrives
  <2>3. CASE UNCHANGED <<trainer, reports>>
    BY <2>1, <2>3, QueriesKeep
  <2>4. CASE Show(PuzzleWorkspace(g.what, attempts[g.what]))
    BY <1>0, <2>1, <2>4, ShowKeeps
  <2> QED
    BY <2>2, <2>3, <2>4
<1>6. ASSUME NEW g \in gets, RandomArrives(g) PROVE PuzzleInv'
  <2>1. /\ \A f \in gets' : f \in gets
        /\ UNCHANGED <<attempts, details, catalog, reported, contended, overtaken>>
    BY <1>6 DEF RandomArrives
  <2>2. UNCHANGED <<trainer, reports>> \/ \E p \in Puzzles : Show(PuzzleWorkspace(p, attempts[p]))
    BY <1>6 DEF RandomArrives
  <2>3. CASE UNCHANGED <<trainer, reports>>
    BY <1>0, <2>1, <2>3, QueriesKeep
  <2>4. ASSUME NEW p \in Puzzles, Show(PuzzleWorkspace(p, attempts[p])) PROVE PuzzleInv'
    BY <1>0, <2>1, <2>4, ShowKeeps
  <2> QED
    BY <2>2, <2>3, <2>4
<1>7. ASSUME NEW g \in gets, CatalogServed(g) PROVE PuzzleInv'
  <2> DEFINE f == [g EXCEPT !.served = TRUE, !.rows = attempts]
  <2>1. /\ \A e \in gets' : e \in gets \/ e = f
        /\ UNCHANGED <<attempts, trainer, details, catalog, reports, reported, contended, overtaken>>
    BY <1>7 DEF CatalogServed
  <2>2. DOMAIN f = {"what", "exclude", "served", "rows", "passed"} /\ f.rows = attempts
        /\ f.what = "catalog"
    BY <1>7 DEF CatalogServed, PuzzleInv, PuzzleTyped
  <2> HIDE DEF f
  <2> QED
    BY <1>0, <2>1, <2>2, QueriesKeep
<1>8. ASSUME NEW g \in gets, GetFails(g) PROVE PuzzleInv'
  BY <1>0, <1>8, QueriesKeep DEF GetFails
<1> QED
  BY <1>1, <1>2, <1>3, <1>4, <1>5, <1>6, <1>7, <1>8

\* The catalog shows the rows that were read for it.
LEMMA CatalogInv ==
    ASSUME PuzzleInv, NEW g \in gets, CatalogArrives(g)
    PROVE  PuzzleInv'
<1>1. /\ g.served /\ gets' = gets \ {g} /\ catalog' = g.rows /\ overtaken' = g.passed
      /\ UNCHANGED <<attempts, trainer, details, reports, reported, contended>>
  BY DEF CatalogArrives
<1>2. PuzzleTyped' /\ LiveReports'
  BY <1>1 DEF PuzzleInv, PuzzleTyped, LiveReports
<1>3. ASSUME NEW p \in Puzzles, Followed(p) PROVE Followed(p)'
  BY <1>1, <1>3 DEF Followed, Saved
<1> QED
  BY <1>1, <1>2, <1>3 DEF PuzzleInv

\* A report that overlaps with another one of its puzzle makes it contended.
LEMMA ReportInv ==
    ASSUME PuzzleInv, NEW result \in {"solved", "failed"}, trainer.puzzle \in Puzzles,
           ReportAttempt(result),
           Trained(trainer'), trainer'.puzzle = trainer.puzzle,
           trainer'.attempt = trainer.attempt, trainer'.heard = trainer.heard,
           UNCHANGED <<attempts, details, catalog, gets, overtaken>>
    PROVE  PuzzleInv'
<1> DEFINE here == trainer.puzzle
           new == [id |-> reported', puzzle |-> here, result |-> result,
                   stage |-> "sent", row |-> Fresh, live |-> TRUE]
<1>1. /\ reported' = reported + 1 /\ reports' = reports \cup {new}
      /\ contended' = contended \cup (IF ReportsOf(here) # {} THEN {here} ELSE {})
  BY DEF ReportAttempt
<1>2. new \in Reports /\ new.puzzle = here /\ new.stage = "sent" /\ new.live
  BY <1>1 DEF PuzzleInv, PuzzleTyped, Reports, Fresh, Attempts
<1> HIDE DEF new
<1>3. PuzzleTyped'
  BY <1>1, <1>2 DEF PuzzleInv, PuzzleTyped
<1>4. LiveReports'
  BY <1>1, <1>2 DEF PuzzleInv, LiveReports
<1>5. ASSUME NEW p \in Puzzles \ contended' PROVE Followed(p)'
  <2>1. Followed(p)
    BY <1>1, <1>5 DEF PuzzleInv
  <2>2. Saved(p)' <=> Saved(p)
    BY <1>1, <1>2 DEF Saved
  <2>3. p = here => \A r \in reports : r.puzzle # p
    BY <1>1, <1>5 DEF ReportsOf
  <2>4. \A r, s \in reports' : r.puzzle = p /\ s.puzzle = p => r = s
    BY <1>1, <1>2, <2>1, <2>3 DEF Followed
  <2>5. \A r \in reports' : r.puzzle = p /\ r.stage = "saved" => r.row = attempts[p]
    BY <1>1, <1>2, <2>1 DEF Followed
  <2>6. \A r \in reports' : r.puzzle = p /\ ~r.live /\ trainer'.puzzle = p => ~trainer'.heard
    BY <1>1, <1>2, <2>1 DEF Followed
  <2> QED
    BY <2>1, <2>2, <2>4, <2>5, <2>6 DEF Followed
<1> QED
  BY <1>3, <1>4, <1>5 DEF PuzzleInv

\* A change of the workspace that is none of its attempt.
LEMMA BoardInv ==
    ASSUME PuzzleInv, Trained(trainer'), trainer'.puzzle = trainer.puzzle,
           trainer'.attempt = trainer.attempt, trainer'.heard = trainer.heard,
           UNCHANGED <<attempts, details, catalog, gets, overtaken, reports, reported, contended>>
    PROVE  PuzzleInv'
<1>1. PuzzleTyped' /\ LiveReports'
  BY DEF PuzzleInv, PuzzleTyped, LiveReports
<1>2. ASSUME NEW p \in Puzzles, Followed(p) PROVE Followed(p)'
  BY <1>2 DEF Followed, Saved
<1> QED
  BY <1>1, <1>2 DEF PuzzleInv

\* The moves on the board, and the replies.
LEMMA MovesInv ==
    ASSUME PuzzleInv, MoveRight \/ MoveWrong \/ AutoPlayReplies \/ ResetPuzzle
    PROVE  PuzzleInv'
<1>1. Trained(trainer)
  BY DEF PuzzleInv, PuzzleTyped
<1>2. ASSUME NEW i \in Nat, Advance(i), trainer.puzzle \in Puzzles,
             UNCHANGED <<attempts, details, catalog, gets, overtaken>>
      PROVE  PuzzleInv'
  <2>1. /\ Trained(trainer') /\ trainer'.puzzle = trainer.puzzle
        /\ trainer'.attempt = trainer.attempt /\ trainer'.heard = trainer.heard
    BY ZenonT(30), <1>1, <1>2, PuzzleAssumption DEF Advance, Trainers, Trained
  <2>2. ReportAttempt("solved") \/ UNCHANGED <<reports, reported, contended>>
    BY <1>2 DEF Advance
  <2> QED
    BY <1>2, <2>1, <2>2, ReportInv, BoardInv
<1>3. CASE MoveRight
  <2>1. trainer.puzzle \in Puzzles /\ trainer.index + 1 \in Nat
    BY <1>1, <1>3 DEF MoveRight, MayMove, Trainers, Trained
  <2> QED
    BY <1>2, <1>3, <2>1 DEF MoveRight
<1>4. CASE AutoPlayReplies
  <2>1. trainer.puzzle \in Puzzles /\ trainer.index + 1 \in Nat
    BY <1>1, <1>4 DEF AutoPlayReplies, Trainers, Trained
  <2> QED
    BY <1>2, <1>4, <2>1 DEF AutoPlayReplies
<1>5. CASE MoveWrong
  <2>1. /\ Trained(trainer') /\ trainer'.puzzle = trainer.puzzle /\ trainer.puzzle \in Puzzles
        /\ trainer'.attempt = trainer.attempt /\ trainer'.heard = trainer.heard
    BY <1>1, <1>5 DEF MoveWrong, MayMove, Trainers, Trained
  <2> QED
    BY <1>5, <2>1, ReportInv, BoardInv DEF MoveWrong
<1>6. CASE ResetPuzzle
  <2>1. /\ Trained(trainer') /\ trainer'.puzzle = trainer.puzzle
        /\ trainer'.attempt = trainer.attempt /\ trainer'.heard = trainer.heard
    BY ZenonT(30), <1>1, <1>6 DEF ResetPuzzle, PuzzleWorkspace, Trainers, Trained
  <2> QED
    BY <1>6, <2>1, BoardInv DEF ResetPuzzle
<1> QED
  BY <1>3, <1>4, <1>5, <1>6

\* A report goes on to its next stage, r becoming s, and with it the row of its puzzle.
LEMMA StageInv ==
    ASSUME PuzzleInv, NEW r \in reports, NEW s \in Reports,
           reports' = (reports \ {r}) \cup {s},
           s.puzzle = r.puzzle, s.live = r.live,
           \/ r.stage = "sent" /\ s.stage = "read" /\ attempts' = attempts
           \/ r.stage = "read" /\ s.stage = "saved" /\ attempts' = [attempts EXCEPT ![r.puzzle] = s.row],
           UNCHANGED <<trainer, details, catalog, gets, overtaken, reported, contended>>
    PROVE  PuzzleInv'
<1>1. /\ r \in Reports /\ r.puzzle \in Puzzles /\ s.row \in Attempts
      /\ attempts \in [Puzzles -> Attempts] /\ attempts' \in [Puzzles -> Attempts]
      /\ \A p \in Puzzles : p # r.puzzle => attempts'[p] = attempts[p]
  BY DEF PuzzleInv, PuzzleTyped, Reports
<1>2. PuzzleTyped' /\ LiveReports'
  BY <1>1 DEF PuzzleInv, PuzzleTyped, LiveReports
<1>3. ASSUME NEW p \in Puzzles, Followed(p), p # r.puzzle PROVE Followed(p)'
  <2>1. Saved(p)' <=> Saved(p)
    BY <1>3 DEF Saved
  <2> QED
    BY <1>1, <1>3, <2>1 DEF Followed
<1>4. ASSUME NEW p \in Puzzles, Followed(p), p = r.puzzle PROVE Followed(p)'
  <2>1. \A q \in reports : q.puzzle = p => q = r
    BY <1>4 DEF Followed
  <2>2. \A q \in reports' : q.puzzle = p => q = s
    BY <2>1
  <2>3. ~Saved(p)
    BY <2>1 DEF Saved
  <2>4. CASE s.stage = "read"
    <3>1. ~Saved(p)' /\ attempts' = attempts
      BY <2>2, <2>4 DEF Saved
    <3> QED
      BY <1>4, <2>2, <2>3, <2>4, <3>1 DEF Followed
  <2>5. CASE s.stage = "saved"
    <3>1. Saved(p)' /\ attempts'[p] = s.row
      BY <1>1, <1>4, <2>5 DEF Saved
    <3> QED
      BY <1>4, <2>2, <3>1 DEF Followed
  <2> QED
    BY <2>4, <2>5
<1> QED
  BY <1>2, <1>3, <1>4 DEF PuzzleInv

\* The answer brings the row to the catalog, to the catalogs on their way, and to the
\* workspace it was reported from.
LEMMA AnsweredInv ==
    ASSUME PuzzleInv, NEW r \in reports, AttemptAnswered(r)
    PROVE  PuzzleInv'
<1> DEFINE told(g) == [g EXCEPT !.passed = IF g.what = "catalog" THEN @ \cup {r.puzzle} ELSE @]
           shown == [trainer EXCEPT !.attempt = r.row, !.heard = TRUE]
<1>1. /\ r.stage = "saved" /\ reports' = reports \ {r}
      /\ catalog' = [p \in DOMAIN catalog |-> IF p = r.puzzle THEN r.row ELSE catalog[p]]
      /\ overtaken' = overtaken \ {r.puzzle}
      /\ gets' = {told(g) : g \in gets}
      /\ trainer' = IF r.live THEN shown ELSE trainer
      /\ UNCHANGED <<attempts, details, reported, contended>>
  BY DEF AttemptAnswered, ToCatalog
<1>2. /\ \A g \in gets : /\ DOMAIN told(g) = {"what", "exclude", "served", "rows", "passed"}
                         /\ told(g).what = g.what /\ told(g).served = g.served
                         /\ told(g).rows = g.rows
                         /\ g.passed \subseteq told(g).passed
                         /\ g.what = "catalog" => r.puzzle \in told(g).passed
  BY DEF PuzzleInv, PuzzleTyped
<1>3. \A g \in gets' : \E f \in gets : g = told(f)
  BY <1>1
<1> HIDE DEF told
<1>4. /\ Trained(shown) /\ shown.puzzle = trainer.puzzle
      /\ shown.attempt = r.row /\ shown.heard
  BY DEF PuzzleInv, PuzzleTyped, Trained, Trainers, Reports
<1> HIDE DEF shown
<1>5. Trained(trainer') /\ trainer'.puzzle = trainer.puzzle
  BY <1>1, <1>4 DEF PuzzleInv, PuzzleTyped
<1>6. PuzzleTyped'
  BY <1>1, <1>2, <1>3, <1>5 DEF PuzzleInv, PuzzleTyped
<1>7. LiveReports'
  BY <1>1, <1>5 DEF PuzzleInv, LiveReports
<1>8. ASSUME NEW p \in Puzzles, Followed(p), p # r.puzzle PROVE Followed(p)'
  <2>1. Saved(p)' <=> Saved(p)
    BY <1>1, <1>8 DEF Saved
  <2>2. trainer'.puzzle = p => trainer' = trainer
    BY <1>1, <1>5, <1>8 DEF PuzzleInv, LiveReports
  <2>3. \A g \in gets' : g.served => g.rows[p] = attempts[p] \/ p \in g.passed \/ Saved(p)
    BY <1>2, <1>3, <1>8 DEF Followed
  <2>4. p \in DOMAIN catalog' => p \in DOMAIN catalog /\ catalog'[p] = catalog[p]
    BY <1>1, <1>8
  <2> QED
    BY <1>1, <1>8, <2>1, <2>2, <2>3, <2>4 DEF Followed
<1>9. ASSUME NEW p \in Puzzles, Followed(p), p = r.puzzle PROVE Followed(p)'
  <2>1. \A q \in reports' : q.puzzle # p
    BY <1>1, <1>9 DEF Followed
  <2>2. r.row = attempts[p]
    BY <1>1, <1>9 DEF Followed
  <2>3. trainer'.puzzle = p /\ trainer'.heard => trainer'.attempt = attempts[p]
    <3>1. CASE r.live
      BY <1>1, <1>4, <2>2, <3>1
    <3>2. CASE ~r.live
      BY <1>1, <1>9, <3>2 DEF Followed
    <3> QED
      BY <3>1, <3>2
  <2>4. p \in DOMAIN catalog' => catalog'[p] = attempts[p]
    BY <1>1, <1>9, <2>2
  <2>5. \A g \in gets' : g.served => p \in g.passed
    <3>1. \A g \in gets : g.served => g.what = "catalog"
      BY DEF PuzzleInv, PuzzleTyped
    <3> QED
      BY <1>2, <1>3, <1>9, <3>1
  <2> QED
    BY <1>1, <2>1, <2>3, <2>4, <2>5 DEF Followed
<1> QED
  BY <1>1, <1>6, <1>7, <1>8, <1>9 DEF PuzzleInv

\* The server takes a report, which is answered or lost.
LEMMA ReportsInv ==
    ASSUME PuzzleInv, NEW r \in reports,
           GetAttempt(r) \/ SaveAttempt(r) \/ AttemptAnswered(r) \/ AttemptFails(r)
    PROVE  PuzzleInv'
<1>1. r \in Reports /\ attempts[r.puzzle] \in Attempts
  BY DEF PuzzleInv, PuzzleTyped, Reports
<1>2. CASE GetAttempt(r)
  <2> DEFINE s == [r EXCEPT !.stage = "read", !.row = Record(attempts[r.puzzle], r.result)]
  <2>0. Record(attempts[r.puzzle], r.result) \in Attempts
    BY <1>1 DEF Reports, Record, Attempts
  <2>1. s \in Reports /\ s.puzzle = r.puzzle /\ s.live = r.live /\ s.stage = "read"
    BY <1>1, <2>0 DEF Reports
  <2>2. /\ r.stage = "sent" /\ reports' = (reports \ {r}) \cup {s}
        /\ UNCHANGED <<attempts, trainer, details, catalog, gets, overtaken, reported, contended>>
    BY <1>2 DEF GetAttempt
  <2> HIDE DEF s
  <2> QED
    BY <2>1, <2>2, StageInv
<1>3. CASE SaveAttempt(r)
  <2> DEFINE s == [r EXCEPT !.stage = "saved"]
  <2>1. s \in Reports /\ s.puzzle = r.puzzle /\ s.live = r.live /\ s.stage = "saved" /\ s.row = r.row
    BY <1>1 DEF Reports
  <2>2. /\ r.stage = "read" /\ reports' = (reports \ {r}) \cup {s}
        /\ attempts' = [attempts EXCEPT ![r.puzzle] = r.row]
        /\ UNCHANGED <<trainer, details, catalog, gets, overtaken, reported, contended>>
    BY <1>3 DEF SaveAttempt
  <2> HIDE DEF s
  <2> QED
    BY <2>1, <2>2, StageInv
<1>4. CASE AttemptAnswered(r)
  BY <1>4, AnsweredInv
<1>5. CASE AttemptFails(r)
  <2>1. /\ reports' = reports \ {r} /\ contended' = contended \cup {r.puzzle}
        /\ UNCHANGED <<attempts, trainer, details, catalog, gets, reported, overtaken>>
    BY <1>5 DEF AttemptFails
  <2>2. PuzzleTyped' /\ LiveReports'
    BY <2>1 DEF PuzzleInv, PuzzleTyped, LiveReports
  <2>3. ASSUME NEW p \in Puzzles, Followed(p), p # r.puzzle PROVE Followed(p)'
    <3>1. Saved(p)' <=> Saved(p)
      BY <2>1, <2>3 DEF Saved
    <3> QED
      BY <2>1, <2>3, <3>1 DEF Followed
  <2> QED
    BY <2>1, <2>2, <2>3 DEF PuzzleInv
<1> QED
  BY <1>2, <1>3, <1>4, <1>5

\* Every step keeps the invariant.
LEMMA PuzzleStep == PuzzleInv /\ [PuzzleNext]_puzzleVars => PuzzleInv'
<1> SUFFICES ASSUME PuzzleInv, [PuzzleNext]_puzzleVars PROVE PuzzleInv'
  OBVIOUS
<1>1. CASE UNCHANGED puzzleVars
  BY <1>1 DEF puzzleVars, PuzzleInv, PuzzleTyped, LiveReports, Followed, Saved
<1> QED
  BY <1>1, NavigationInv, CatalogInv, MovesInv, ReportsInv DEF PuzzleNext

\* With no report under way, the page and the catalog show the attempt the server
\* has (reportAttempt and its onSuccess, record_attempt).
THEOREM AttemptsAreOnShow == PuzzleSpec => []AttemptsAreShown
<1>1. PuzzleInv => AttemptsAreShown
  BY DEF PuzzleInv, Followed, Saved, ReportsOf, AttemptsAreShown
<1> QED
  BY <1>1, PuzzleInitInv, PuzzleStep, PTL DEF PuzzleSpec

-----------------------------------------------------------------------------
(* The review of a game. *)

\* The engine's scores of a game: one for each position, and mate only in the last;
\* the choices, one for each position but the last.
ScoredSoFar(g, scores, best) ==
    /\ scores \in Seq(Centipawns \cup {Mated}) /\ best \in Seq(BOOLEAN)
    /\ Len(scores) <= Plies[g] + 1
    /\ Len(scores) <= Plies[g] => Len(best) = Len(scores)
    /\ Len(scores) = Plies[g] + 1 => Len(best) = Plies[g]
    /\ \A i \in 1 .. Plies[g] : i <= Len(scores) => scores[i] \in Centipawns

\* The inductive invariant of the review page: the review under way, and the one on
\* show, are of the game on show unless the replay changed its game.
ReviewInv ==
    /\ gameShown \in ReviewedGames \cup {NoGameYet}
    /\ jumped \in BOOLEAN
    /\ Reviewing =>
          /\ run.game \in ReviewedGames
          /\ ScoredSoFar(run.game, run.scores, run.best)
          /\ ~jumped => run.game = gameShown
          /\ review.of = NoGameYet
    /\ run \in [game : ReviewedGames \cup {NoGameYet}, scores : Seq(Centipawns \cup {Mated}),
                best : Seq(BOOLEAN)]
    /\ review.of # NoGameYet =>
          /\ review.of \in ReviewedGames
          /\ ScoredSoFar(review.of, review.scores, review.best)
          /\ Len(review.scores) = Plies[review.of] + 1
          /\ ~jumped => review.of = gameShown

\* The review page, from the start.
ReviewSpec == ReviewInit /\ [][ReviewNext]_reviewVars

\* A score, turned to either side, has a win probability.
LEMMA ScoreHasProbability ==
    ASSUME NEW s \in Centipawns \cup {Mated}
    PROVE  /\ Score(s) \in DOMAIN WinPermille /\ -Score(s) \in DOMAIN WinPermille
           /\ Score(s) \in Int
BY ReviewAssumption DEF Score

\* The metrics of a move in terms of the engine's scores of the two positions.
LEMMA MetricsAre ==
    ASSUME NEW scores \in Seq(Centipawns \cup {Mated}), NEW i \in 1 .. Len(scores) - 1
    PROVE  LET a == Score(scores[i])
               b == Score(scores[i + 1])
               q == Metrics(Evaluations(scores), i)
           IN  /\ q.before = WinPermille[a]
               /\ q.loss = IF WinPermille[a] - WinPermille[-b] > 0
                           THEN WinPermille[a] - WinPermille[-b] ELSE 0
               /\ q.cp = IF a + b > 0 THEN a + b ELSE 0
<1> DEFINE a == Score(scores[i])
           b == Score(scores[i + 1])
           evaluations == Evaluations(scores)
           mine(e) == IF WhiteToMove(i - 1) THEN e ELSE -e
<1>1. /\ i \in 1 .. Len(scores) /\ i + 1 \in 1 .. Len(scores)
      /\ scores[i] \in Centipawns \cup {Mated} /\ scores[i + 1] \in Centipawns \cup {Mated}
  OBVIOUS
<1>2. a \in Int /\ b \in Int
  BY <1>1, ScoreHasProbability
<1>3. evaluations[i] = ScoreToWhite(i - 1, scores[i])
      /\ evaluations[i + 1] = ScoreToWhite(i + 1 - 1, scores[i + 1])
  BY <1>1 DEF Evaluations
<1>4. i + 1 - 1 = i
  OBVIOUS
<1>5. WhiteToMove(i) <=> ~WhiteToMove(i - 1)
  BY DEF WhiteToMove
<1>6. evaluations[i] = IF WhiteToMove(i - 1) THEN a ELSE -a
  BY <1>3 DEF ScoreToWhite
<1>7. evaluations[i + 1] = IF WhiteToMove(i - 1) THEN -b ELSE b
  BY <1>3, <1>4, <1>5 DEF ScoreToWhite
<1> HIDE DEF a, b, evaluations
<1>8. mine(evaluations[i]) = a /\ mine(evaluations[i + 1]) = -b
  BY <1>2, <1>6, <1>7
<1>9. a > -b <=> a + b > 0
  BY <1>2
<1>10. a - (-b) = a + b
  BY <1>2
<1>11. Metrics(evaluations, i) =
         [before |-> WinPermille[a],
          loss   |-> IF WinPermille[a] - WinPermille[-b] > 0
                     THEN WinPermille[a] - WinPermille[-b] ELSE 0,
          cp     |-> IF a + b > 0 THEN a + b ELSE 0]
  BY <1>8, <1>9, <1>10 DEF Metrics
<1> QED
  BY <1>11 DEF a, b, evaluations

\* A move that cost nothing is no error.
LEMMA FreeMovesAreNoErrors ==
    ASSUME NEW q, q.loss = 0, q.cp = 0, NEW forced, NEW best, NEW sacrifice
    PROVE  Classify(q, forced, best, sacrifice) \notin Errors
BY DEF Classify, Errors, LossOfTwoPercent, LossOfFivePercent

\* A move that cost a pawn, and more than five percent, is one, unless it was forced or
\* the engine's.
LEMMA CostlyMovesAreErrors ==
    ASSUME NEW q, q.loss \in Int, q.cp \in Int, q.cp >= 90, q.loss > LossOfFivePercent,
           NEW sacrifice
    PROVE  Classify(q, FALSE, FALSE, sacrifice) \in Errors
BY DEF Classify, Errors, LossOfTwoPercent, LossOfFivePercent, SevereClass

\* Nothing of a run.
LEMMA NoRunIsTyped ==
    NoRun \in [game : ReviewedGames \cup {NoGameYet}, scores : Seq(Centipawns \cup {Mated}),
               best : Seq(BOOLEAN)]
<1>1. <<>> \in Seq(Centipawns \cup {Mated}) /\ <<>> \in Seq(BOOLEAN)
  OBVIOUS
<1> QED
  BY <1>1 DEF NoRun

\* No review yet.
LEMMA ReviewInitInv == ReviewInit => ReviewInv
<1> SUFFICES ASSUME ReviewInit PROVE ReviewInv
  OBVIOUS
<1>1. gameShown \in ReviewedGames \cup {NoGameYet} /\ jumped \in BOOLEAN
  BY DEF ReviewInit
<1>2. review.of = NoGameYet /\ ~Reviewing
  BY DEF ReviewInit, NoReview, Reviewing
<1>3. run = NoRun
  BY DEF ReviewInit
<1> QED
  BY <1>1, <1>2, <1>3, NoRunIsTyped DEF ReviewInv

\* Every step keeps the invariant.
LEMMA ReviewStep == ReviewInv /\ [ReviewNext]_reviewVars => ReviewInv'
<1> SUFFICES ASSUME ReviewInv, [ReviewNext]_reviewVars PROVE ReviewInv'
  OBVIOUS
<1>0. ASSUME NewReplay, gameShown' \in ReviewedGames \cup {NoGameYet} PROVE ReviewInv'
  <2>1. jumped' \in BOOLEAN /\ run' = NoRun
    BY <1>0 DEF NewReplay
  <2>2. review'.of = NoGameYet /\ ~Reviewing'
    BY <1>0 DEF NewReplay, NoReview, Reviewing
  <2> QED
    BY <1>0, <2>1, <2>2, NoRunIsTyped DEF ReviewInv
<1>1. CASE UNCHANGED reviewVars
  BY <1>1 DEF ReviewInv, reviewVars, Reviewing
<1>2. ASSUME NEW g \in ReviewedGames, OpenReview(g) PROVE ReviewInv'
  <2>1. gameShown' = g /\ gameShown' \in ReviewedGames
    BY <1>2 DEF OpenReview
  <2>3. CASE NewReplay
    BY <1>0, <2>1, <2>3
  <2>4. CASE jumped' = TRUE /\ UNCHANGED <<review, run>>
    BY <2>1, <2>4 DEF ReviewInv, Reviewing
  <2> QED
    BY <1>2, <2>3, <2>4 DEF OpenReview
<1>3. CASE CloseReview
  BY <1>0, <1>3 DEF CloseReview
<1>4. CASE RunStockfishReview
  <2>1. /\ review' = NoReview("running")
        /\ run' = [game |-> gameShown, scores |-> <<>>, best |-> <<>>]
        /\ gameShown \in ReviewedGames /\ UNCHANGED <<gameShown, jumped>>
    BY <1>4 DEF RunStockfishReview, NoRun, ReviewInv
  <2>2. ScoredSoFar(gameShown, <<>>, <<>>)
    BY <2>1, ReviewAssumption DEF ScoredSoFar
  <2> QED
    BY <2>1, <2>2 DEF ReviewInv, NoReview, Reviewing
<1>5. ASSUME NEW g \in ReviewedGames, NEW i \in PositionsOf(g), GoToPly(i) PROVE ReviewInv'
  BY <1>5 DEF GoToPly, ReviewInv, Reviewing
<1>6. CASE AnalyzeFen
  <2> DEFINE final == Len(run.scores) = Plies[run.game]
  <2>1. /\ Reviewing /\ Len(run.scores) <= Plies[run.game] /\ run.game \in ReviewedGames
        /\ ScoredSoFar(run.game, run.scores, run.best)
        /\ Plies[run.game] \in Nat
        /\ UNCHANGED <<gameShown, review, jumped>>
    BY <1>6, ReviewAssumption DEF AnalyzeFen, ReviewInv, Reviewed
  <2>2. PICK score \in Centipawns \cup (IF final THEN {Mated} ELSE {}), found \in BOOLEAN :
           run' = [run EXCEPT !.scores = Append(@, score),
                              !.best = IF final THEN @ ELSE Append(@, found)]
    BY <1>6 DEF AnalyzeFen, Reviewed
  <2>3. /\ run'.game = run.game
        /\ run'.scores = Append(run.scores, score)
        /\ run'.best = IF final THEN run.best ELSE Append(run.best, found)
        /\ run' \in [game : ReviewedGames \cup {NoGameYet},
                     scores : Seq(Centipawns \cup {Mated}), best : Seq(BOOLEAN)]
    <3>1. /\ run.scores \in Seq(Centipawns \cup {Mated}) /\ run.best \in Seq(BOOLEAN)
          /\ score \in Centipawns \cup {Mated}
      BY DEF ReviewInv
    <3>2. /\ Append(run.scores, score) \in Seq(Centipawns \cup {Mated})
          /\ Append(run.best, found) \in Seq(BOOLEAN)
      BY <3>1
    <3> DEFINE more == Append(run.scores, score)
               picked == Append(run.best, found)
    <3> HIDE DEF final, more, picked
    <3>3. run' = [run EXCEPT !.scores = more, !.best = IF final THEN @ ELSE picked]
      BY <2>2 DEF more, picked
    <3>4. /\ run'.game = run.game /\ run'.scores = more
          /\ run'.best = IF final THEN run.best ELSE picked
      BY <3>3 DEF ReviewInv
    <3>5. run' \in [game : ReviewedGames \cup {NoGameYet},
                    scores : Seq(Centipawns \cup {Mated}), best : Seq(BOOLEAN)]
      BY <3>2, <3>3 DEF ReviewInv, more, picked
    <3> QED
      BY <3>4, <3>5 DEF more, picked
  <2>4. ScoredSoFar(run.game, run'.scores, run'.best)
    <3> DEFINE scores == run.scores
               best == run.best
               more == run'.scores
               picked == run'.best
               n == Plies[run.game]
    <3>1. /\ scores \in Seq(Centipawns \cup {Mated}) /\ best \in Seq(BOOLEAN)
          /\ n \in Nat /\ Len(scores) <= n /\ Len(best) = Len(scores)
          /\ \A i \in 1 .. n : i <= Len(scores) => scores[i] \in Centipawns
      BY <2>1 DEF ScoredSoFar
    <3>2. /\ more = Append(scores, score) /\ picked = IF final THEN best ELSE Append(best, found)
          /\ more \in Seq(Centipawns \cup {Mated}) /\ picked \in Seq(BOOLEAN)
          /\ ~final => score \in Centipawns /\ Len(scores) # n
          /\ final => Len(scores) = n
      BY <2>2, <2>3
    <3> HIDE DEF scores, best, more, picked, n, final
    <3>3. /\ Len(more) = Len(scores) + 1
          /\ \A i \in 1 .. Len(scores) : more[i] = scores[i]
          /\ more[Len(scores) + 1] = score
      BY <3>1, <3>2
    <3>4. Len(picked) = IF final THEN n ELSE Len(scores) + 1
      BY <3>1, <3>2
    <3>5. \A i \in 1 .. n : i <= Len(more) => more[i] \in Centipawns
      BY <3>1, <3>2, <3>3
    <3> QED
      BY SMTT(30), <3>1, <3>2, <3>3, <3>4, <3>5 DEF ScoredSoFar, scores, best, more, picked, n
  <2> QED
    BY <2>1, <2>3, <2>4 DEF ReviewInv, Reviewing
<1>7. CASE ReviewDone
  <2>1. /\ Reviewing /\ Len(run.scores) > Plies[run.game] /\ run' = NoRun
        /\ review' = [status |-> "done", of |-> run.game, scores |-> run.scores, best |-> run.best]
        /\ UNCHANGED <<gameShown, jumped>>
    BY <1>7 DEF ReviewDone, Reviewed
  <2>2. /\ ScoredSoFar(run.game, run.scores, run.best)
        /\ run.game \in ReviewedGames /\ Plies[run.game] \in Nat
        /\ Len(run.scores) = Plies[run.game] + 1
    BY <2>1, ReviewAssumption DEF ReviewInv, ScoredSoFar
  <2> QED
    BY <2>1, <2>2 DEF ReviewInv, NoRun, Reviewing
<1>8. CASE ReviewFails
  BY <1>8 DEF ReviewFails, ReviewInv, NoReview, NoRun, Reviewing
<1> QED
  BY <1>1, <1>2, <1>3, <1>4, <1>5, <1>6, <1>7, <1>8 DEF ReviewNext

\* The review on show is just to both players (buildReviewReport, classifyMoves).
THEOREM LabelsAreJust == ReviewSpec => []ReviewIsJust
<1>1. ReviewInv => ReviewIsJust
  <2> SUFFICES ASSUME ReviewInv, review.of # NoGameYet, ~jumped,
                      NEW i \in 1 .. Plies[gameShown], review.scores[i + 1] # Mated
               PROVE  /\ Cost(i) <= 0 => LabelShown(i) \notin Errors
                      /\ (/\ Cost(i) >= 90 /\ ~review.best[i] /\ <<gameShown, i>> \notin Forced
                          /\ WinPermille[Score(review.scores[i])]
                               - WinPermille[-Score(review.scores[i + 1])] > LossOfFivePercent)
                             => LabelShown(i) \in Errors
    BY DEF ReviewInv, ReviewIsJust
  <2> DEFINE g == gameShown
             scores == review.scores
             a == Score(scores[i])
             b == Score(scores[i + 1])
             q == Metrics(Evaluations(scores), i)
             forced == <<g, i>> \in Forced
             best == i \in DOMAIN review.best /\ review.best[i]
             sacrifice == <<g, i>> \in Sacrifices
  <2>1. /\ review.of = g /\ g \in ReviewedGames /\ ScoredSoFar(g, scores, review.best)
        /\ Len(scores) = Plies[g] + 1 /\ Plies[g] \in Nat
    BY ReviewAssumption DEF ReviewInv
  <2>2. /\ scores \in Seq(Centipawns \cup {Mated}) /\ i \in 1 .. Len(scores) - 1
        /\ scores[i] \in Centipawns \cup {Mated} /\ scores[i + 1] \in Centipawns \cup {Mated}
    BY <2>1 DEF ScoredSoFar
  <2>3. /\ a \in DOMAIN WinPermille /\ -b \in DOMAIN WinPermille /\ a \in Int /\ b \in Int
        /\ Cost(i) = a + b
    BY <2>2, ScoreHasProbability DEF Cost
  <2>4. LabelShown(i) = Classify(q, forced, best, sacrifice)
    BY <2>1 DEF LabelShown, Label
  <2>5. /\ q.loss = IF WinPermille[a] - WinPermille[-b] > 0
                    THEN WinPermille[a] - WinPermille[-b] ELSE 0
        /\ q.cp = IF a + b > 0 THEN a + b ELSE 0
    BY <2>2, MetricsAre
  <2>6. WinPermille[a] \in Int /\ WinPermille[-b] \in Int
        /\ (a <= -b => WinPermille[a] <= WinPermille[-b])
    <3> HIDE DEF a, b
    <3>1. \A c \in DOMAIN WinPermille : WinPermille[c] \in 0..1000
      BY ReviewAssumption
    <3>2. \A c, d \in DOMAIN WinPermille : c <= d => WinPermille[c] <= WinPermille[d]
      BY ReviewAssumption
    <3> QED
      BY SMTT(30), <2>3, <3>1, <3>2
  <2> HIDE DEF a, b, q, forced, best, sacrifice
  <2>7. ASSUME Cost(i) <= 0 PROVE LabelShown(i) \notin Errors
    <3>1. q.loss = 0 /\ q.cp = 0
      BY <2>3, <2>5, <2>6, <2>7
    <3> QED
      BY <2>4, <3>1, FreeMovesAreNoErrors
  <2>8. ASSUME Cost(i) >= 90, ~best, ~forced,
               WinPermille[a] - WinPermille[-b] > LossOfFivePercent
        PROVE  LabelShown(i) \in Errors
    <3>1. q.loss \in Int /\ q.cp \in Int /\ q.cp >= 90 /\ q.loss > LossOfFivePercent
      BY <2>3, <2>5, <2>6, <2>8 DEF LossOfFivePercent
    <3>2. Classify(q, FALSE, FALSE, sacrifice) \in Errors
      BY <3>1, CostlyMovesAreErrors
    <3>3. Classify(q, forced, best, sacrifice) = Classify(q, FALSE, FALSE, sacrifice)
      BY <2>8 DEF Classify
    <3> QED
      BY <2>4, <3>2, <3>3
  <2> QED
    BY <2>7, <2>8 DEF a, b, best, forced
<1> QED
  BY <1>1, ReviewInitInv, ReviewStep, PTL DEF ReviewSpec

-----------------------------------------------------------------------------
(* The desk of lists and forms. *)

\* Some table that action a writes shows in q, and its handler does not end with q.
Reaches(a, q) == q \notin a.then /\ \E t \in a.writes : q \in ReadersOf[t]

\* An answer read at that time shows the writes of all actions that are through, and
\* of those whose handlers wait to be.
UpToDate(q, at) ==
    Covers(q, at) /\ \A c \in calls : c.told /\ Reaches(c.act, q) => c.at <= at

\* The calls, the requests and the answers.
CallsMade == [id : Nat, act : Acts, at : Nat, told : BOOLEAN, live : BOOLEAN]
Asks == [query : Queries, at : Nat, awaited : SUBSET Nat]
Answers == [seen : Nat, stale : BOOLEAN]

\* What the state consists of.
DeskTyped ==
    /\ corner \subseteq DOMAIN Shows /\ page \in DOMAIN Shows \cup {"elsewhere"}
    /\ cache \in [Queries -> Answers]
    /\ requests \subseteq Asks
    /\ calls \subseteq CallsMade
    /\ made \in Nat /\ clock \in Nat \ {0}
    /\ own \in [Tables -> Nat]

\* The writes are of the past.
Past ==
    /\ \A t \in Tables : own[t] <= clock
    /\ \A c \in calls : c.at <= clock /\ (c.told => c.at > 0)

\* A query is asked for once at a time.
AskedOnce == \A r, s \in requests : r.query = s.query => r = s

\* What is cached, and what comes, shows what the user has done; what is stale and
\* on show is asked for.
InStep(q) ==
    /\ There(q) /\ ~cache[q].stale => UpToDate(q, cache[q].seen)
    /\ \A r \in requests : r.query = q /\ r.at > 0 => UpToDate(q, r.at)
    /\ There(q) /\ cache[q].stale /\ OnShow(q) => Asked(q)

\* The clubs are filled in, and never told.
ClubsFilled ==
    /\ cache["clubs"].stale => "clubs" \in excused
    /\ ~There("clubs") => own["club"] = 0
    /\ \A c \in calls : c.told => "club" \notin c.act.writes

\* The inductive invariant of the desk.
DeskInv ==
    /\ DeskTyped /\ Past /\ AskedOnce /\ ClubsFilled
    /\ \A q \in Queries \ excused : InStep(q)

\* The desk, from the start.
DeskSpec == DeskInit /\ [][DeskNext]_deskVars

\* The tables and the queries.
LEMMA TablesAre ==
    /\ Tables = {"tournament", "match", "game", "wallet", "goods", "club", "user", "face",
                 "adminCard", "log"}
    /\ \A t \in Tables : ReadersOf[t] \subseteq Queries
    /\ \A t \in Tables : "clubs" \in ReadersOf[t] <=> t = "club"
    /\ "club" \in Tables /\ "clubs" \in Queries
<1>1. Tables = {"tournament", "match", "game", "wallet", "goods", "club", "user", "face",
                "adminCard", "log"}
  BY DEF Tables, ReadersOf
<1>2. \A t \in Tables : ReadersOf[t] \subseteq Queries
  BY DEF Queries
<1>3. \A t \in Tables : "clubs" \in ReadersOf[t] <=> t = "club"
  BY <1>1 DEF ReadersOf
<1> QED
  BY <1>1, <1>2, <1>3

\* The queries by name.
LEMMA QueriesAre ==
    Queries = {"tournaments", "tournament", "dashboard-tournaments", "scheduled-matches",
               "dashboard-history", "history", "profile", "shop-inventory", "clubs",
               "leaderboard", "face-verification-profiles", "admin-card", "admin-logs"}
<1> DEFINE all == {"tournaments", "tournament", "dashboard-tournaments", "scheduled-matches",
                   "dashboard-history", "history", "profile", "shop-inventory", "clubs",
                   "leaderboard", "face-verification-profiles", "admin-card", "admin-logs"}
<1>1. ASSUME NEW q \in Queries PROVE q \in all
  <2>1. PICK t \in Tables : q \in ReadersOf[t]
    BY <1>1 DEF Queries
  <2> QED
    BY <2>1, TablesAre DEF ReadersOf
<1>2. \A t \in Tables : ReadersOf[t] \subseteq Queries
  BY TablesAre
<1>3. all \subseteq Queries
  <2>1. /\ ReadersOf["tournament"] \subseteq Queries /\ ReadersOf["match"] \subseteq Queries
        /\ ReadersOf["game"] \subseteq Queries /\ ReadersOf["wallet"] \subseteq Queries
        /\ ReadersOf["club"] \subseteq Queries /\ ReadersOf["user"] \subseteq Queries
        /\ ReadersOf["face"] \subseteq Queries /\ ReadersOf["adminCard"] \subseteq Queries
        /\ ReadersOf["log"] \subseteq Queries
    BY <1>2, TablesAre
  <2> QED
    BY <2>1 DEF ReadersOf
<1> QED
  BY <1>1, <1>3

\* The pages.
LEMMA PagesShow ==
    /\ "elsewhere" \notin DOMAIN Shows
    /\ \A p \in DOMAIN Shows : Shows[p] \subseteq Queries
BY QueriesAre DEF Shows

\* What a handler does for the queries that show what its action writes: it tells them,
\* fills them or ends with them, unless they are another page's and not its concern.
Tells(a) ==
    /\ a.writes \subseteq Tables /\ a.tells \subseteq Queries /\ a.then \subseteq Queries
    /\ \A t \in a.writes : ReadersOf[t] \subseteq a.tells \cup a.then \cup Fills(a) \cup Untold(a)
    /\ "clubs" \notin a.tells \cup a.then
    /\ Fills(a) \subseteq {"clubs"}
    /\ "club" \in a.writes => Fills(a) = {"clubs"} /\ ~Waits(a)
    /\ Fills(a) # {} => a.writes \subseteq {"club"}
    /\ a.then # {} => a.goes = a.on

\* Every handler does.
LEMMA ActsTell == \A a \in Acts : Tells(a)
<1>0. ASSUME NEW a, a.writes \subseteq Tables,
             \A t \in a.writes : ReadersOf[t] \cap Shows[a.on] \subseteq a.tells \cup a.then \cup Fills(a)
      PROVE  \A t \in a.writes : ReadersOf[t] \subseteq a.tells \cup a.then \cup Fills(a) \cup Untold(a)
  <2> DEFINE reads == UNION {ReadersOf[t] : t \in a.writes}
  <2>4. Untold(a) = reads \ (a.tells \cup a.then \cup Shows[a.on])
    BY Zenon DEF Untold
  <2> HIDE DEF reads
  <2>1. SUFFICES ASSUME NEW t \in a.writes, NEW q \in ReadersOf[t]
                 PROVE  q \in a.tells \cup a.then \cup Fills(a) \cup Untold(a)
    OBVIOUS
  <2>2. q \in reads
    BY DEF reads
  <2>3. q \in Shows[a.on] => q \in a.tells \cup a.then \cup Fills(a)
    BY <1>0
  <2> QED
    BY <2>2, <2>3, <2>4
<1>1. ASSUME NEW a \in TournamentsActs \cup OtbManagerActs PROVE Tells(a)
  <2>1. /\ a.on \in {"TournamentsPage", "OtbManagerPage"} /\ a.goes \in {a.on, "TournamentDetailPage"}
        /\ a.writes = {"tournament"} /\ a.tells = {"tournaments"} /\ a.then = {}
    <3>1. \/ a = [Act("TournamentsPage", "create", {"tournament"}, {"tournaments"})
                   EXCEPT !.goes = "TournamentDetailPage"]
          \/ a = Act("TournamentsPage", "join or leave", {"tournament"}, {"tournaments"})
          \/ a = [Act("OtbManagerPage", "create", {"tournament"}, {"tournaments"})
                   EXCEPT !.goes = "TournamentDetailPage"]
      BY <1>1 DEF TournamentsActs, OtbManagerActs
    <3>2. CASE a = Act("TournamentsPage", "join or leave", {"tournament"}, {"tournaments"})
      BY <3>2 DEF Act
    <3>3. ASSUME NEW on, a = [Act(on, "create", {"tournament"}, {"tournaments"})
                                EXCEPT !.goes = "TournamentDetailPage"]
          PROVE  /\ a.on = on /\ a.goes = "TournamentDetailPage"
                 /\ a.writes = {"tournament"} /\ a.tells = {"tournaments"} /\ a.then = {}
      BY <3>3 DEF Act
    <3> QED
      BY <3>1, <3>2, <3>3
  <2> QED
    BY <1>0, <2>1, TablesAre, QueriesAre DEF Tells, Fills, Shows, ReadersOf
<1>2. ASSUME NEW a \in TournamentDetailActs PROVE Tells(a)
  <2>1. /\ a.on = "TournamentDetailPage" /\ a.goes = a.on /\ a.then = {}
        /\ a.writes \subseteq {"tournament", "game", "wallet"}
        /\ a.tells = {"tournament", "tournaments"} \/ (a.writes = {} /\ a.tells = {})
    <3> DEFINE act(name, writes) == Act("TournamentDetailPage", name, writes, TournamentDetailTells)
    <3>1. \/ a = act("join, leave or addOtb", {"tournament"})
          \/ a = act("start or advance", {"tournament", "game"})
          \/ a = Act("TournamentDetailPage", "reserve", {}, {})
          \/ a = act("simulate", {"tournament", "wallet"})
      BY <1>2 DEF TournamentDetailActs
    <3>2. ASSUME NEW name, NEW writes, writes \subseteq {"tournament", "game", "wallet"},
                 a = act(name, writes)
          PROVE  /\ a.on = "TournamentDetailPage" /\ a.goes = a.on /\ a.then = {}
                 /\ a.writes \subseteq {"tournament", "game", "wallet"}
                 /\ a.tells = {"tournament", "tournaments"}
      BY <3>2 DEF Act, TournamentDetailTells
    <3>3. CASE a = Act("TournamentDetailPage", "reserve", {}, {})
      BY <3>3 DEF Act
    <3> HIDE DEF act
    <3> QED
      BY <3>1, <3>2, <3>3
  <2> QED
    BY <1>0, <2>1, TablesAre, QueriesAre DEF Tells, Fills, Shows, ReadersOf
<1>3. ASSUME NEW a \in ScheduledMatchesActs PROVE Tells(a)
  <2>1. /\ a.on = "ScheduledMatchesPage" /\ a.then = {}
        /\ a.writes \subseteq {"match", "game", "wallet"}
        /\ "scheduled-matches" \in a.tells /\ a.tells \subseteq {"scheduled-matches", "profile"}
    BY <1>3 DEF ScheduledMatchesActs, Act
  <2> QED
    BY <1>0, <2>1, TablesAre, QueriesAre DEF Tells, Fills, Shows, ReadersOf
<1>4. ASSUME NEW a \in ClubsActs PROVE Tells(a)
  <2>1. /\ a.on = "ClubsPage" /\ a.goes = a.on /\ a.then = {} /\ a.writes = {"club"} /\ a.tells = {}
    <3>1. PICK name \in {"create", "join or leave", "update"} :
             a = Act("ClubsPage", name, {"club"}, {})
      BY <1>4 DEF ClubsActs
    <3> QED
      BY <3>1 DEF Act
  <2> QED
    BY <1>0, <2>1, TablesAre, QueriesAre DEF Tells, Fills, Waits, Shows, ReadersOf
<1>5. ASSUME NEW a \in ShopActs \cup ProfileActs PROVE Tells(a)
  <2>1. /\ a.on \in {"ShopPage", "ProfilePage"} /\ a.then = {}
        /\ a.writes \subseteq {"wallet", "goods", "user"}
        /\ "profile" \in a.tells /\ a.tells \subseteq {"profile", "shop-inventory"}
        /\ "user" \notin a.writes => "shop-inventory" \in a.tells
        /\ "user" \in a.writes => a.writes = {"user"} /\ a.on = "ProfilePage"
    BY <1>5 DEF ShopActs, ProfileActs, Act
  <2> QED
    BY <1>0, <2>1, TablesAre, QueriesAre DEF Tells, Fills, Shows, ReadersOf
<1>6. ASSUME NEW a \in SettingsActs \cup AdminActs PROVE Tells(a)
  <2>1. \/ /\ a.on = "SettingsPage" /\ a.goes = a.on /\ a.then = {}
           /\ \/ a.writes = {"face"} /\ a.tells = {"face-verification-profiles"}
              \/ a.writes = {"user"} /\ a.tells = {}
        \/ /\ a.on = "AdminCard" /\ a.goes = a.on /\ a.then = {"admin-logs"}
           /\ a.writes = {"adminCard", "log"} /\ a.tells = {"admin-card"}
    BY <1>6 DEF SettingsActs, AdminActs, Act
  <2> QED
    BY <1>0, <2>1, TablesAre, QueriesAre DEF Tells, Fills, Shows, ReadersOf
<1> QED
  BY <1>1, <1>2, <1>3, <1>4, <1>5, <1>6 DEF Acts

\* A handler that waits fills nothing, and what its action writes is told, ended with,
\* or excused.
LEMMA WaitersTell ==
    ASSUME NEW a \in Acts, NEW q, Reaches(a, q)
    PROVE  /\ q \in Queries
           /\ q \in a.tells \cup Fills(a) \cup Untold(a)
           /\ Waits(a) => Fills(a) = {} /\ "club" \notin a.writes
BY ActsTell, TablesAre DEF Reaches, Tells

\* The start: nothing is cached, asked or done.
LEMMA DeskInitInv == DeskInit => DeskInv
<1> SUFFICES ASSUME DeskInit PROVE DeskInv
  OBVIOUS
<1>1. DeskTyped
  BY DeskAssumption DEF DeskInit, DeskTyped, Asks, Answers
<1>2. Past /\ AskedOnce /\ calls = {} /\ requests = {}
  BY DEF DeskInit, Past, AskedOnce
<1>3. \A q \in Queries : ~There(q) /\ ~cache[q].stale
  BY DEF DeskInit, There
<1>4. ClubsFilled
  BY <1>2, <1>3, TablesAre DEF DeskInit, ClubsFilled
<1> QED
  BY <1>1, <1>2, <1>3, <1>4 DEF DeskInv, InStep

\* What a query's answers must show does not grow, by a step after which there are no
\* more actions told or through.
NoNews ==
    /\ own' = own
    /\ \A d \in calls' : d.told => \E c \in calls : c.told /\ c.act = d.act /\ c.at = d.at

LEMMA UpToDateStays ==
    ASSUME NoNews, NEW q, NEW at, UpToDate(q, at)
    PROVE  UpToDate(q, at)'
BY DEF NoNews, UpToDate, Covers

\* Steps that tell nothing to the cache: more requests, not yet served, and what is
\* stale and comes on show asked for.
LEMMA QuietSteps ==
    ASSUME DeskInv, NoNews, DeskTyped', Past', AskedOnce',
           UNCHANGED <<cache, excused>>,
           \A r \in requests' : r \in requests \/ r.at = 0,
           \A q \in Queries : There(q) /\ cache[q].stale /\ OnShow(q)' =>
                              Asked(q)' \/ (OnShow(q) /\ ~Asked(q))
    PROVE  DeskInv'
<1>1. ClubsFilled'
  BY DEF DeskInv, ClubsFilled, NoNews, There
<1>2. ASSUME NEW q \in Queries, InStep(q) PROVE InStep(q)'
  <2>1. There(q)' <=> There(q)
    BY DEF There
  <2>2. (There(q) /\ ~cache[q].stale => UpToDate(q, cache[q].seen))'
    BY <1>2, <2>1 DEF InStep, UpToDate, Covers, NoNews
  <2>3. \A r \in requests' : r.query = q /\ r.at > 0 => UpToDate(q, r.at)'
    BY <1>2, UpToDateStays DEF InStep, DeskInv, DeskTyped, Asks
  <2>4. There(q)' /\ cache'[q].stale /\ OnShow(q)' => Asked(q)'
    BY <1>2, <2>1 DEF InStep
  <2> QED
    BY <2>2, <2>3, <2>4 DEF InStep
<1> QED
  BY <1>1, <1>2 DEF DeskInv

\* A page that is mounted asks for what is stale.
LEMMA MountAsks ==
    ASSUME DeskTyped, AskedOnce, NEW p \in DOMAIN Shows, NEW acting \in SUBSET calls,
           Mount(p, acting)
    PROVE  /\ page' = p
           /\ requests' \subseteq Asks /\ AskedOnce'
           /\ \A r \in requests' : r \in requests \/ r.at = 0
           /\ \A q \in Shows[p] : There(q) /\ cache[q].stale => Asked(q)'
           /\ calls' \subseteq CallsMade
           /\ \A d \in calls' : \E c \in acting : d.act = c.act /\ d.at = c.at /\ d.told = c.told
<1>1. PICK aged \in SUBSET Shows[p] :
         requests' = requests \cup
             {Request(q, {}) : q \in {q \in Shows[p] : ~Asked(q) /\
                                     (~There(q) \/ cache[q].stale \/ q \in aged)}}
  BY DEF Mount
<1> DEFINE wanted == {q \in Shows[p] : ~Asked(q) /\
                                     (~There(q) \/ cache[q].stale \/ q \in aged)}
<1>2. /\ requests' = requests \cup {Request(q, {}) : q \in wanted}
      /\ wanted \subseteq Queries
      /\ \A q \in wanted : ~Asked(q)
      /\ \A q \in Shows[p] : There(q) /\ cache[q].stale /\ ~Asked(q) => q \in wanted
  BY <1>1, PagesShow
<1> HIDE DEF wanted
<1>3. \A q : Request(q, {}).query = q /\ Request(q, {}).at = 0
  BY DEF Request
<1>4. \A q \in Queries : Request(q, {}) \in Asks
  BY DEF Request, Asks
<1>5. \A r \in requests' : r \in requests \/ \E q \in wanted : r = Request(q, {})
  BY <1>2
<1>6. \A q \in wanted : Request(q, {}) \in requests'
  BY <1>2
<1>7. requests' \subseteq Asks
  BY <1>2, <1>4, <1>5 DEF DeskTyped
<1>8. AskedOnce'
  BY <1>2, <1>3, <1>5 DEF AskedOnce, Asked
<1>9. \A q \in Shows[p] : There(q) /\ cache[q].stale => Asked(q)'
  BY <1>2, <1>3, <1>6 DEF Asked
<1> DEFINE gone(c) == [c EXCEPT !.live = FALSE]
<1>10. calls' = {gone(c) : c \in acting} /\ page' = p
  BY DEF Mount
<1>11. \A c \in acting : /\ gone(c) \in CallsMade
                         /\ gone(c).act = c.act /\ gone(c).at = c.at /\ gone(c).told = c.told
  BY ZenonT(30) DEF DeskTyped, CallsMade
<1>12. \A d \in calls' : \E c \in acting : d = gone(c)
  BY <1>10
<1> HIDE DEF gone
<1>13. /\ calls' \subseteq CallsMade
       /\ \A d \in calls' : \E c \in acting : d.act = c.act /\ d.at = c.at /\ d.told = c.told
  BY <1>11, <1>12
<1> QED
  BY <1>3, <1>5, <1>7, <1>8, <1>9, <1>10, <1>13

\* What is told and on show is asked for.
LEMMA InvalidatedAsks ==
    ASSUME DeskTyped, AskedOnce, NEW tells \in SUBSET Queries, NEW by \in SUBSET Nat,
           requests' = Invalidated(tells, by)
    PROVE  /\ requests' \subseteq Asks /\ AskedOnce'
           /\ \A r \in requests' :
                 r.at = 0 \/ \E k \in Kept(tells) : k.query = r.query /\ k.at = r.at
           /\ Kept(tells) \subseteq requests
           /\ \A q \in tells : There(q) /\ OnShow(q) => Asked(q)'
           /\ \A q : q \notin tells /\ Asked(q) => Asked(q)'
<1> DEFINE wanted == {q \in tells : OnShow(q) /\ (There(q) \/ ~Asked(q))}
           joined(k) == Joined(k, tells, by)
<1>1. requests' = {joined(k) : k \in Kept(tells)} \cup {Request(q, by) : q \in wanted}
  BY DEF Invalidated
<1>2. /\ wanted \subseteq Queries
      /\ \A q \in wanted : q \in tells /\ OnShow(q) /\ (There(q) \/ ~Asked(q))
      /\ \A q \in tells : There(q) /\ OnShow(q) => q \in wanted
  OBVIOUS
<1> HIDE DEF wanted
<1>3. \A q : Request(q, by).query = q /\ Request(q, by).at = 0
  BY DEF Request
<1>4. \A q \in Queries : Request(q, by) \in Asks
  BY DEF Request, Asks
<1>7. /\ Kept(tells) \subseteq requests
      /\ \A r \in Kept(tells) : r.query \in tells => ~OnShow(r.query) \/ ~There(r.query)
      /\ \A r \in requests : r.query \notin tells => r \in Kept(tells)
  BY DEF Kept
<1>12. \A k \in Kept(tells) : joined(k) \in Asks /\ joined(k).query = k.query /\ joined(k).at = k.at
  <2>1. SUFFICES ASSUME NEW k \in Kept(tells)
                 PROVE  joined(k) \in Asks /\ joined(k).query = k.query /\ joined(k).at = k.at
    OBVIOUS
  <2>2. k \in Asks
    BY <1>7 DEF DeskTyped
  <2> QED
    BY <2>2 DEF Joined, Asks
<1>5. \A r \in requests' : \/ \E k \in Kept(tells) : r = joined(k)
                           \/ \E q \in wanted : r = Request(q, by)
  BY <1>1
<1>6. /\ \A q \in wanted : Request(q, by) \in requests'
      /\ \A k \in Kept(tells) : joined(k) \in requests'
  BY <1>1
<1> HIDE DEF joined
<1>8. requests' \subseteq Asks
  BY <1>2, <1>4, <1>5, <1>12
<1>9. AskedOnce'
  <2>1. \A r \in Kept(tells), q \in wanted : r.query # q
    BY <1>2, <1>7 DEF Asked
  <2>2. \A r, s \in Kept(tells) : r.query = s.query => r = s
    BY <1>7 DEF AskedOnce
  <2> QED
    BY <1>3, <1>5, <1>12, <2>1, <2>2 DEF AskedOnce
<1>10. \A q \in tells : There(q) /\ OnShow(q) => Asked(q)'
  BY <1>2, <1>3, <1>6 DEF Asked
<1>11. \A q : q \notin tells /\ Asked(q) => Asked(q)'
  BY <1>6, <1>7, <1>12 DEF Asked
<1>13. \A r \in requests' :
          r.at = 0 \/ \E k \in Kept(tells) : k.query = r.query /\ k.at = r.at
  BY <1>3, <1>5, <1>12
<1> QED
  BY <1>7, <1>8, <1>9, <1>10, <1>11, <1>13

\* An answer that shows all actions but one, and is not older than that one, shows it too.
LEMMA UpToDateAfter ==
    ASSUME DeskTyped, NEW c \in calls, NEW q, NEW at \in Nat, UpToDate(q, at), c.at <= at,
           \A t \in Tables : own'[t] \in {own[t], c.at},
           \A d \in calls' : d.told => d.at = c.at \/
                                       \E e \in calls : e.told /\ e.act = d.act /\ e.at = d.at
    PROVE  UpToDate(q, at)'
BY DEF UpToDate, Covers

\* An answer stays up to date if the action does not show in it.
LEMMA UpToDateBeside ==
    ASSUME NEW q, NEW at, UpToDate(q, at),
           \A t \in Tables : q \in ReadersOf[t] => own'[t] <= own[t] \/ own'[t] <= at,
           \A t \in Tables : own[t] \in Nat /\ own'[t] \in Nat, at \in Nat,
           \A d \in calls' : d.told /\ Reaches(d.act, q) =>
                                 \E e \in calls : e.told /\ e.act = d.act /\ e.at = d.at
    PROVE  UpToDate(q, at)'
BY DEF UpToDate, Covers

\* A request is served.
LEMMA ServedInv ==
    ASSUME DeskInv, NEW r \in requests, RequestServed(r)
    PROVE  DeskInv'
<1> DEFINE s == [r EXCEPT !.at = clock]
<1>1. /\ requests' = (requests \ {r}) \cup {s}
      /\ UNCHANGED <<corner, page, cache, calls, made, clock, own, excused>>
  BY DEF RequestServed
<1>2. s \in Asks /\ s.query = r.query /\ s.at = clock /\ r \in Asks
  BY DEF DeskInv, DeskTyped, Asks
<1> HIDE DEF s
<1>3. DeskTyped' /\ Past' /\ AskedOnce' /\ ClubsFilled'
  BY <1>1, <1>2 DEF DeskInv, DeskTyped, Past, AskedOnce, ClubsFilled, There
<1>4. \A q : Asked(q)' <=> Asked(q)
  BY <1>1, <1>2 DEF Asked
<1>5. \A q \in Queries : UpToDate(q, clock)
  BY DEF DeskInv, Past, UpToDate, Covers
<1>6. ASSUME NEW q \in Queries, InStep(q) PROVE InStep(q)'
  <2>1. \A d \in requests' : d.query = q /\ d.at > 0 => UpToDate(q, d.at)
    BY <1>1, <1>2, <1>5, <1>6 DEF InStep
  <2> QED
    BY <1>1, <1>4, <1>6, <2>1 DEF InStep, UpToDate, Covers, There, OnShow
<1> QED
  BY <1>1, <1>3, <1>6 DEF DeskInv

\* An answer arrives.
LEMMA ArrivesInv ==
    ASSUME DeskInv, NEW r \in requests, RequestArrives(r)
    PROVE  DeskInv'
<1> DEFINE here == r.query
           answer == [seen |-> r.at, stale |-> FALSE]
<1>1. /\ r.at > 0 /\ requests' = requests \ {r}
      /\ cache' = [cache EXCEPT ![here] = answer]
      /\ excused' = IF Covers(here, r.at) /\ \A c \in calls : c.told => c.at <= r.at
                    THEN excused \ {here} ELSE excused
      /\ UNCHANGED <<corner, page, calls, made, clock, own>>
  BY DEF RequestArrives
<1>2. /\ r \in Asks /\ here \in Queries /\ r.at \in Nat
      /\ cache \in [Queries -> Answers] /\ answer \in Answers
  BY DEF DeskInv, DeskTyped, Asks, Answers
<1>3. /\ cache' \in [Queries -> Answers]
      /\ cache'[here].seen = r.at /\ ~cache'[here].stale
      /\ \A q \in Queries : q # here => cache'[q] = cache[q]
  BY <1>1, <1>2
<1> HIDE DEF answer
<1>4. DeskTyped' /\ Past' /\ AskedOnce'
  BY <1>1, <1>3 DEF DeskInv, DeskTyped, Past, AskedOnce
<1>5. There(here)'
  BY <1>1, <1>3 DEF There
<1>6. ClubsFilled'
  BY <1>1, <1>3, <1>5, TablesAre DEF DeskInv, ClubsFilled, There
<1>7. \A d \in requests' : d.query # here
  BY <1>1 DEF DeskInv, AskedOnce
<1>8. ASSUME here \notin excused' PROVE InStep(here)'
  <2>1. UpToDate(here, r.at)
    <3>1. CASE here \notin excused
      BY <1>1, <1>2, <3>1 DEF DeskInv, InStep
    <3>2. CASE here \in excused
      <4>1. Covers(here, r.at) /\ \A c \in calls : c.told => c.at <= r.at
        BY <1>1, <1>8, <3>2
      <4> QED
        BY <4>1 DEF UpToDate
    <3> QED
      BY <3>1, <3>2
  <2>2. UpToDate(here, cache[here].seen)'
    BY <1>1, <1>3, <2>1 DEF UpToDate, Covers
  <2> QED
    BY <1>3, <1>7, <2>2 DEF InStep
<1>9. ASSUME NEW q \in Queries, q # here, InStep(q) PROVE InStep(q)'
  <2>1. Asked(q)' <=> Asked(q)
    BY <1>1, <1>9 DEF Asked
  <2> QED
    BY <1>1, <1>3, <1>9, <2>1 DEF InStep, UpToDate, Covers, There, OnShow
<1> QED
  BY <1>1, <1>4, <1>6, <1>8, <1>9 DEF DeskInv

\* A request fails.
LEMMA FailedInv ==
    ASSUME DeskInv, NEW r \in requests, RequestFails(r)
    PROVE  DeskInv'
<1> DEFINE here == r.query
<1>1. /\ requests' = requests \ {r}
      /\ cache' = [cache EXCEPT ![here].stale = There(here)]
      /\ excused' = excused \cup (IF There(here) THEN {here} ELSE {})
      /\ UNCHANGED <<corner, page, calls, made, clock, own>>
  BY DEF RequestFails
<1>2. /\ r \in Asks /\ here \in Queries /\ cache \in [Queries -> Answers]
      /\ There(here) \in BOOLEAN
  BY DEF DeskInv, DeskTyped, Asks, There
<1>3. /\ cache' \in [Queries -> Answers]
      /\ cache'[here].seen = cache[here].seen /\ cache'[here].stale = There(here)
      /\ \A q \in Queries : q # here => cache'[q] = cache[q]
  BY <1>1, <1>2 DEF Answers
<1>4. DeskTyped' /\ Past' /\ AskedOnce'
  BY <1>1, <1>3 DEF DeskInv, DeskTyped, Past, AskedOnce
<1>5. ClubsFilled'
  BY <1>1, <1>3, TablesAre DEF DeskInv, ClubsFilled, There
<1>6. There(here)' <=> There(here)
  BY <1>3 DEF There
<1>7. ASSUME here \notin excused' PROVE InStep(here)'
  <2>1. ~There(here) /\ InStep(here)
    BY <1>1, <1>2, <1>7 DEF DeskInv
  <2> QED
    BY <1>1, <1>6, <2>1 DEF InStep, UpToDate, Covers
<1>8. ASSUME NEW q \in Queries, q # here, InStep(q) PROVE InStep(q)'
  <2>1. Asked(q)' <=> Asked(q)
    BY <1>1, <1>8 DEF Asked
  <2> QED
    BY <1>1, <1>3, <1>8, <2>1 DEF InStep, UpToDate, Covers, There, OnShow
<1> QED
  BY <1>1, <1>4, <1>5, <1>7, <1>8 DEF DeskInv

\* What becomes stale, and nothing else of the cache.
LEMMA StaleIs ==
    ASSUME cache \in [Queries -> Answers], NEW tells
    PROVE  /\ Stale(tells) \in [Queries -> Answers]
           /\ \A q \in Queries : /\ Stale(tells)[q].seen = cache[q].seen
                                 /\ Stale(tells)[q].stale <=> cache[q].stale \/ (There(q) /\ q \in tells)
<1>1. ASSUME NEW q \in Queries
      PROVE  LET s == [cache[q] EXCEPT !.stale = @ \/ (There(q) /\ q \in tells)]
             IN  /\ s \in Answers /\ s.seen = cache[q].seen
                 /\ s.stale <=> cache[q].stale \/ (There(q) /\ q \in tells)
  BY DEF Answers
<1> QED
  BY <1>1 DEF Stale

\* An action is through: its writes are the newest the user knows of.
LEMMA ThroughIs ==
    ASSUME DeskTyped, NEW c \in calls, Through(c)
    PROVE  /\ own' \in [Tables -> Nat]
           /\ \A t \in Tables : own'[t] \in {own[t], c.at}
           /\ \A t \in Tables : t \notin c.act.writes => own'[t] = own[t]
BY DEF DeskTyped, CallsMade, Through

\* The success handler.
LEMMA SucceedsInv ==
    ASSUME DeskInv, NEW c \in calls, Succeeds(c)
    PROVE  DeskInv'
<1> DEFINE a == c.act
           told == [c EXCEPT !.told = TRUE]
           by == IF Waits(a) THEN {c.id} ELSE {}
<1>1. /\ c.at > 0 /\ ~c.told
      /\ requests' = Invalidated(a.tells, by)
      /\ cache' = [q \in Queries |-> IF q \in Fills(a) THEN [seen |-> c.at, stale |-> FALSE]
                                     ELSE Stale(a.tells)[q]]
      /\ excused' = excused \cup Untold(a) \cup Late(a.tells, c.at) \cup Forgotten(Fills(a), c.at)
      /\ UNCHANGED <<corner, page, made, clock>>
  BY DEF Succeeds
<1>2. \/ Waits(a) /\ calls' = (calls \ {c}) \cup {told} /\ own' = own
      \/ ~Waits(a) /\ calls' = calls \ {c} /\ Through(c)
  BY DEF Succeeds
<1>3. /\ c \in CallsMade /\ a \in Acts /\ c.at \in Nat /\ Tells(a) /\ DeskTyped
      /\ cache \in [Queries -> Answers] /\ a.tells \in SUBSET Queries /\ by \in SUBSET Nat
  BY ActsTell DEF DeskInv, DeskTyped, CallsMade, Tells
<1> HIDE DEF by
<1>4. told \in CallsMade /\ told.act = a /\ told.at = c.at /\ told.told
  BY <1>3 DEF CallsMade
<1> HIDE DEF told
<1>5. /\ own' \in [Tables -> Nat]
      /\ \A t \in Tables : own'[t] \in {own[t], c.at}
      /\ \A t \in Tables : t \notin a.writes => own'[t] = own[t]
      /\ Waits(a) => own' = own
  BY <1>2, <1>3, ThroughIs DEF DeskTyped
<1>6. \A d \in calls' : \/ d \in calls
                        \/ d = told /\ Waits(a)
  BY <1>2
<1>7. /\ requests' \subseteq Asks /\ AskedOnce'
      /\ \A r \in requests' :
            r.at = 0 \/ \E k \in Kept(a.tells) : k.query = r.query /\ k.at = r.at
      /\ Kept(a.tells) \subseteq requests
      /\ \A q \in a.tells : There(q) /\ OnShow(q) => Asked(q)'
      /\ \A q : q \notin a.tells /\ Asked(q) => Asked(q)'
  BY <1>1, <1>3, InvalidatedAsks DEF DeskInv
<1>8. /\ Stale(a.tells) \in [Queries -> Answers]
      /\ \A q \in Queries : /\ Stale(a.tells)[q].seen = cache[q].seen
                            /\ Stale(a.tells)[q].stale <=>
                                  cache[q].stale \/ (There(q) /\ q \in a.tells)
  BY <1>3, StaleIs
<1>9. /\ \A q \in Queries : q \in Fills(a) => cache'[q].seen = c.at /\ ~cache'[q].stale
      /\ \A q \in Queries : q \notin Fills(a) => cache'[q] = Stale(a.tells)[q]
      /\ cache' \in [Queries -> Answers]
  BY <1>1, <1>3, <1>8 DEF Answers
<1>10. \A q \in Queries : /\ q \in Fills(a) => There(q)'
                          /\ q \notin Fills(a) => (There(q)' <=> There(q))
  BY <1>1, <1>8, <1>9 DEF There
<1>11. DeskTyped'
  BY <1>1, <1>4, <1>5, <1>6, <1>7, <1>9 DEF DeskTyped, DeskInv
<1>12. Past'
  BY <1>1, <1>3, <1>4, <1>5, <1>6 DEF Past, DeskInv
<1>13. ClubsFilled'
  <2>1. "clubs" \notin a.tells /\ ("club" \in a.writes => Fills(a) = {"clubs"} /\ ~Waits(a))
    BY <1>3 DEF Tells
  <2>2. cache'["clubs"].stale => cache["clubs"].stale
    BY <1>8, <1>9, <2>1, TablesAre
  <2>3. ~There("clubs")' => ~There("clubs") /\ own'["club"] = own["club"]
    BY <1>5, <1>10, <2>1, TablesAre
  <2>4. \A d \in calls' : d.told => "club" \notin d.act.writes
    BY <1>4, <1>6, <2>1 DEF DeskInv, ClubsFilled
  <2> QED
    BY <1>1, <2>2, <2>3, <2>4 DEF DeskInv, ClubsFilled
<1>14. ASSUME NEW q \in Queries \ excused', q \in Fills(a) PROVE InStep(q)'
  <2>1. /\ q = "clubs" /\ a.writes \subseteq {"club"} /\ InStep(q)
        /\ cache[q].seen <= c.at
        /\ \A r \in requests : r.query = q /\ r.at > 0 => r.at >= c.at
    BY <1>1, <1>3, <1>14 DEF Tells, Forgotten, DeskInv, DeskTyped, Answers, Asks
  <2>2. own["club"] <= c.at
    <3>1. CASE There(q)
      <4>1. Covers(q, cache[q].seen)
        BY <1>1, <1>14, <2>1, <3>1 DEF DeskInv, ClubsFilled, InStep, UpToDate
      <4>2. own["club"] <= cache[q].seen
        BY <2>1, <4>1, TablesAre DEF Covers
      <4> QED
        BY <1>3, <2>1, <4>2, TablesAre DEF DeskTyped, Answers
    <3>2. CASE ~There(q)
      BY <1>3, <2>1, <3>2 DEF DeskInv, ClubsFilled
    <3> QED
      BY <3>1, <3>2
  <2>3. own'["club"] <= c.at
    BY <1>3, <1>5, <2>2, TablesAre
  <2>4. \A t \in Tables : q \in ReadersOf[t] => t = "club"
    BY <2>1, TablesAre
  <2>5. \A d \in calls' : d.told => ~Reaches(d.act, q)
    <3>1. \A d \in calls' : d.told => "club" \notin d.act.writes /\ d.act.writes \subseteq Tables
      BY <1>11, <1>13, ActsTell DEF ClubsFilled, DeskTyped, CallsMade, Tells
    <3> QED
      BY <2>4, <3>1 DEF Reaches
  <2>6. \A at \in Nat : at >= c.at => UpToDate(q, at)'
    BY <1>3, <1>5, <2>3, <2>4, <2>5, TablesAre DEF UpToDate, Covers
  <2>7. \A r \in requests' : r.query = q /\ r.at > 0 => r.at \in Nat /\ r.at >= c.at
    BY <1>7, <2>1 DEF Asks
  <2>8. cache'[q].seen = c.at /\ ~cache'[q].stale
    BY <1>9, <1>14
  <2> QED
    BY <1>3, <2>6, <2>7, <2>8 DEF InStep, UpToDate, Covers
<1>15. ASSUME NEW q \in Queries \ excused', q \notin Fills(a) PROVE InStep(q)'
  <2>1. InStep(q) /\ q \notin Untold(a) /\ q \notin Late(a.tells, c.at)
    BY <1>1, <1>15 DEF DeskInv
  <2>2. ASSUME q \notin a.tells, NEW at \in Nat, UpToDate(q, at) PROVE UpToDate(q, at)'
    <3>1. ~Reaches(a, q)
      BY <1>3, <1>15, <2>1, <2>2, WaitersTell
    <3>2. \A t \in Tables : q \in ReadersOf[t] => own'[t] = own[t]
      <4>1. CASE Waits(a)
        BY <1>5, <4>1
      <4>2. CASE ~Waits(a)
        BY <1>5, <3>1, <4>2 DEF Reaches, Waits
      <4> QED
        BY <4>1, <4>2
    <3>3. \A d \in calls' : d.told /\ Reaches(d.act, q) =>
                                \E e \in calls : e.told /\ e.act = d.act /\ e.at = d.at
      BY <1>4, <1>6, <3>1
    <3>4. \A t \in Tables : own[t] \in Nat /\ own'[t] \in Nat
      BY <1>3, <1>5 DEF DeskTyped
    <3> QED
      BY <2>2, <3>2, <3>3, <3>4, UpToDateBeside
  <2>3. ASSUME NEW at \in Nat, UpToDate(q, at), c.at <= at PROVE UpToDate(q, at)'
    BY <1>3, <1>4, <1>5, <1>6, <2>3, UpToDateAfter
  <2>4. (There(q) /\ ~cache[q].stale => UpToDate(q, cache[q].seen))'
    <3>1. SUFFICES ASSUME There(q)', ~cache'[q].stale PROVE UpToDate(q, cache[q].seen)'
      OBVIOUS
    <3>2. There(q) /\ ~cache[q].stale /\ q \notin a.tells /\ cache'[q].seen = cache[q].seen
      BY <1>8, <1>9, <1>10, <1>15, <3>1
    <3>3. PICK at \in Nat : at = cache[q].seen
      BY <1>3 DEF Answers
    <3>4. UpToDate(q, at)'
      BY <2>1, <2>2, <3>2, <3>3 DEF InStep
    <3> QED
      BY <3>2, <3>3, <3>4 DEF UpToDate, Covers
  <2>5. ASSUME NEW r \in requests', r.query = q, r.at > 0 PROVE UpToDate(q, r.at)'
    <3>3. PICK k \in Kept(a.tells) : k.query = q /\ k.at = r.at
      BY <1>7, <2>5 DEF Asks
    <3>1. k \in requests /\ r.at \in Nat /\ UpToDate(q, r.at)
      BY <1>7, <2>1, <2>5, <3>3 DEF InStep, Asks
    <3>2. q \in a.tells => r.at >= c.at
      BY <1>3, <2>1, <2>5, <3>1, <3>3 DEF Late
    <3> QED
      BY <1>3, <2>2, <2>3, <3>1, <3>2
  <2>6. (There(q) /\ cache[q].stale /\ OnShow(q) => Asked(q))'
    <3>1. OnShow(q)' <=> OnShow(q)
      BY <1>1 DEF OnShow
    <3> QED
      BY <1>7, <1>8, <1>9, <1>10, <1>15, <2>1, <3>1 DEF InStep
  <2> QED
    BY <2>4, <2>5, <2>6 DEF InStep
<1> QED
  BY <1>7, <1>11, <1>12, <1>13, <1>14, <1>15 DEF DeskInv

\* What an answer shows when the handler has ended.
LEMMA EndedShows ==
    ASSUME DeskInv, NEW c \in calls, c.told, Through(c), calls' \subseteq CallsMade,
           \A d \in calls' : \E e \in calls : d.act = e.act /\ d.at = e.at /\ d.told = e.told,
           NEW q \in Queries, NEW at \in Nat, UpToDate(q, at),
           q \in c.act.then => c.at <= at
    PROVE  UpToDate(q, at)'
<1>1. /\ own' \in [Tables -> Nat] /\ own \in [Tables -> Nat] /\ DeskTyped
      /\ \A t \in Tables : own'[t] \in {own[t], c.at}
      /\ \A t \in Tables : t \notin c.act.writes => own'[t] = own[t]
  BY ThroughIs DEF DeskInv, DeskTyped
<1>2. CASE q \in c.act.then
  BY <1>1, <1>2, UpToDateAfter
<1>3. CASE q \notin c.act.then
  <2>1. \A t \in Tables : q \in ReadersOf[t] => own'[t] <= own[t] \/ own'[t] <= at
    <3>1. Reaches(c.act, q) => c.at <= at
      BY DEF UpToDate
    <3> QED
      BY <1>1, <1>3, <3>1 DEF Reaches
  <2> QED
    BY <1>1, <2>1, UpToDateBeside
<1> QED
  BY <1>2, <1>3

\* The handler ends, with the rest of its keys or on another page.
LEMMA EndsInv ==
    ASSUME DeskInv, NEW c \in calls, Ends(c)
    PROVE  DeskInv'
<1> DEFINE a == c.act
<1>1. /\ c.told /\ Through(c)
      /\ cache' = Stale(a.then)
      /\ excused' = excused \cup Late(a.then, c.at)
      /\ UNCHANGED <<corner, made, clock>>
  BY DEF Ends
<1>2. \/ a.then = {} /\ a.goes \in corner /\ Mount(a.goes, calls \ {c})
      \/ calls' = calls \ {c} /\ requests' = Invalidated(a.then, {}) /\ UNCHANGED page
  BY DEF Ends
<1>3. /\ c \in CallsMade /\ a \in Acts /\ c.at \in Nat /\ Tells(a) /\ DeskTyped
      /\ cache \in [Queries -> Answers] /\ a.then \in SUBSET Queries /\ AskedOnce
  BY ActsTell DEF DeskInv, DeskTyped, CallsMade, Tells
<1>4. /\ own' \in [Tables -> Nat]
      /\ \A t \in Tables : own'[t] \in {own[t], c.at}
      /\ \A t \in Tables : t \notin a.writes => own'[t] = own[t]
  BY <1>1, <1>3, ThroughIs
<1>5. /\ cache' \in [Queries -> Answers]
      /\ \A q \in Queries : /\ cache'[q].seen = cache[q].seen
                            /\ cache'[q].stale <=> cache[q].stale \/ (There(q) /\ q \in a.then)
  BY <1>1, <1>3, StaleIs
<1>6. \A q \in Queries : There(q)' <=> There(q)
  BY <1>5 DEF There
<1>7. /\ page' \in DOMAIN Shows \cup {"elsewhere"}
      /\ requests' \subseteq Asks /\ AskedOnce'
      /\ \A r \in requests' :
            r.at = 0 \/ \E k \in requests : /\ k.query = r.query /\ k.at = r.at
                                            /\ r.query \in a.then => k \in Kept(a.then)
      /\ \A q \in Queries : There(q)' /\ cache'[q].stale /\ OnShow(q)' =>
                                Asked(q)' \/ (~Asked(q) /\ OnShow(q) /\ cache[q].stale)
      /\ calls' \subseteq CallsMade
      /\ \A d \in calls' : \E e \in calls : d.act = e.act /\ d.at = e.at /\ d.told = e.told
  <2>1. CASE a.then = {} /\ a.goes \in corner /\ Mount(a.goes, calls \ {c})
    <3> DEFINE p == a.goes
               acting == calls \ {c}
    <3>1. p \in DOMAIN Shows /\ acting \in SUBSET calls
      BY <1>3, <2>1 DEF DeskTyped
    <3> HIDE DEF acting
    <3>2. /\ page' = p /\ requests' \subseteq Asks /\ AskedOnce'
          /\ \A r \in requests' : r \in requests \/ r.at = 0
          /\ \A q \in Shows[p] : There(q) /\ cache[q].stale => Asked(q)'
          /\ calls' \subseteq CallsMade
          /\ \A d \in calls' : \E e \in acting : d.act = e.act /\ d.at = e.at /\ d.told = e.told
      BY <1>3, <2>1, <3>1, MountAsks DEF acting
    <3>3. \A q \in Queries : There(q)' /\ cache'[q].stale /\ OnShow(q)' => Asked(q)'
      BY <1>5, <1>6, <2>1, <3>2 DEF OnShow
    <3> QED
      BY <2>1, <3>1, <3>2, <3>3
  <2>2. CASE calls' = calls \ {c} /\ requests' = Invalidated(a.then, {}) /\ UNCHANGED page
    <3>1. /\ requests' \subseteq Asks /\ AskedOnce'
          /\ \A r \in requests' :
                r.at = 0 \/ \E k \in Kept(a.then) : k.query = r.query /\ k.at = r.at
          /\ Kept(a.then) \subseteq requests
          /\ \A q \in a.then : There(q) /\ OnShow(q) => Asked(q)'
          /\ \A q : q \notin a.then /\ Asked(q) => Asked(q)'
      BY <1>3, <2>2, InvalidatedAsks
    <3>2. \A q \in Queries : There(q)' /\ cache'[q].stale /\ OnShow(q)' =>
                                 Asked(q)' \/ (~Asked(q) /\ OnShow(q) /\ cache[q].stale)
      BY <1>5, <1>6, <2>2, <3>1 DEF OnShow
    <3>3. calls' \subseteq CallsMade /\ page' \in DOMAIN Shows \cup {"elsewhere"}
      BY <1>3, <2>2 DEF DeskTyped
    <3> QED
      BY <2>2, <3>1, <3>2, <3>3
  <2> QED
    BY <1>2, <2>1, <2>2
<1>8. DeskTyped'
  BY <1>1, <1>3, <1>4, <1>5, <1>7 DEF DeskTyped
<1>9. Past'
  BY <1>1, <1>3, <1>4, <1>7 DEF Past, DeskInv
<1>10. ClubsFilled'
  <2>1. "clubs" \notin a.then /\ "club" \notin a.writes
    BY <1>1, <1>3 DEF Tells, DeskInv, ClubsFilled
  <2> QED
    BY <1>1, <1>4, <1>5, <1>6, <1>7, <2>1, TablesAre DEF DeskInv, ClubsFilled
<1>11. ASSUME NEW q \in Queries \ excused' PROVE InStep(q)'
  <2>1. InStep(q) /\ q \notin Late(a.then, c.at)
    BY <1>1, <1>11 DEF DeskInv
  <2>2. ASSUME NEW at \in Nat, UpToDate(q, at), q \in a.then => c.at <= at
        PROVE  UpToDate(q, at)'
    BY <1>1, <1>7, <2>2, EndedShows
  <2>3. (There(q) /\ ~cache[q].stale => UpToDate(q, cache[q].seen))'
    <3>1. SUFFICES ASSUME There(q)', ~cache'[q].stale PROVE UpToDate(q, cache[q].seen)'
      OBVIOUS
    <3>2. There(q) /\ ~cache[q].stale /\ q \notin a.then /\ cache'[q].seen = cache[q].seen
      BY <1>5, <1>6, <3>1
    <3>3. PICK at \in Nat : at = cache[q].seen
      BY <1>3 DEF Answers
    <3>4. UpToDate(q, at)'
      BY <2>1, <2>2, <3>2, <3>3 DEF InStep
    <3> QED
      BY <3>2, <3>3, <3>4 DEF UpToDate, Covers
  <2>4. ASSUME NEW r \in requests', r.query = q, r.at > 0 PROVE UpToDate(q, r.at)'
    <3>3. PICK k \in requests : /\ k.query = q /\ k.at = r.at
                                /\ q \in a.then => k \in Kept(a.then)
      BY <1>7, <2>4 DEF Asks
    <3>1. r.at \in Nat /\ UpToDate(q, r.at)
      BY <1>7, <2>1, <2>4, <3>3 DEF InStep, Asks
    <3>2. q \in a.then => c.at <= r.at
      BY <1>3, <2>1, <2>4, <3>1, <3>3 DEF Late
    <3> QED
      BY <2>2, <3>1, <3>2
  <2>5. (There(q) /\ cache[q].stale /\ OnShow(q) => Asked(q))'
    BY <1>6, <1>7, <2>1 DEF InStep
  <2> QED
    BY <2>3, <2>4, <2>5 DEF InStep
<1> QED
  BY <1>7, <1>8, <1>9, <1>10, <1>11 DEF DeskInv

\* The user goes to a page.
LEMMA VisitInv ==
    ASSUME DeskInv, NEW p \in corner, Visit(p)
    PROVE  DeskInv'
<1>1. Mount(p, calls) /\ UNCHANGED <<corner, cache, made, clock, own, excused>>
  BY DEF Visit
<1>2. p \in DOMAIN Shows /\ DeskTyped /\ AskedOnce /\ calls \in SUBSET calls
  BY DEF DeskInv, DeskTyped
<1>3. /\ page' = p
      /\ requests' \subseteq Asks /\ AskedOnce'
      /\ \A r \in requests' : r \in requests \/ r.at = 0
      /\ \A q \in Shows[p] : There(q) /\ cache[q].stale => Asked(q)'
      /\ calls' \subseteq CallsMade
      /\ \A d \in calls' : \E c \in calls : d.act = c.act /\ d.at = c.at /\ d.told = c.told
  BY <1>1, <1>2, MountAsks
<1>4. DeskTyped' /\ Past'
  BY <1>1, <1>2, <1>3 DEF DeskTyped, Past, DeskInv
<1>5. NoNews
  BY <1>1, <1>3 DEF NoNews
<1>6. \A q \in Queries : There(q) /\ cache[q].stale /\ OnShow(q)' => Asked(q)'
  BY <1>3 DEF OnShow
<1> QED
  BY <1>1, <1>3, <1>4, <1>5, <1>6, QuietSteps

\* The rest: polls, and actions that begin, commit or fail.
LEMMA DeskActsInv ==
    ASSUME DeskInv,
           \/ \E q \in Queries : Refetch(q)
           \/ \E a \in Acts : Do(a)
           \/ \E c \in calls : Commits(c) \/ Fails(c)
    PROVE  DeskInv'
<1>1. ASSUME NEW q \in Queries, Refetch(q) PROVE DeskInv'
  <2>1. /\ requests' = requests \cup {Request(q, {})} /\ ~Asked(q)
        /\ UNCHANGED <<corner, page, cache, calls, made, clock, own, excused>>
    BY <1>1 DEF Refetch
  <2>2. Request(q, {}) \in Asks /\ Request(q, {}).query = q /\ Request(q, {}).at = 0
    BY DEF Request, Asks
  <2>3. DeskTyped' /\ Past' /\ AskedOnce' /\ NoNews
    BY <2>1, <2>2 DEF DeskInv, DeskTyped, Past, AskedOnce, Asked, NoNews
  <2>4. \A k \in Queries : There(k) /\ cache[k].stale /\ OnShow(k)' =>
                               Asked(k)' \/ (OnShow(k) /\ ~Asked(k))
    BY <2>1 DEF OnShow, Asked
  <2> QED
    BY <2>1, <2>2, <2>3, <2>4, QuietSteps
<1>2. ASSUME calls' \subseteq CallsMade, made' \in Nat, clock' \in Nat, clock <= clock',
             \A d \in calls' : d \in calls \/ (~d.told /\ d.at <= clock'),
             UNCHANGED <<corner, page, cache, requests, own, excused>>
      PROVE  DeskInv'
  <2>1. DeskTyped' /\ Past' /\ AskedOnce' /\ NoNews
    BY <1>2 DEF DeskInv, DeskTyped, Past, AskedOnce, NoNews, CallsMade
  <2>2. \A q \in Queries : There(q) /\ cache[q].stale /\ OnShow(q)' =>
                               Asked(q)' \/ (OnShow(q) /\ ~Asked(q))
    BY <1>2 DEF OnShow, Asked
  <2> QED
    BY <1>2, <2>1, <2>2, QuietSteps
<1>3. ASSUME NEW a \in Acts, Do(a) PROVE DeskInv'
  <2> DEFINE new == [id |-> made', act |-> a, at |-> 0, told |-> FALSE, live |-> TRUE]
  <2>1. /\ made' = made + 1 /\ calls' = calls \cup {new}
        /\ UNCHANGED <<corner, page, cache, requests, clock, own, excused>>
    BY <1>3 DEF Do
  <2>2. /\ new \in CallsMade /\ ~new.told /\ new.at = 0 /\ made' \in Nat
        /\ clock' \in Nat /\ clock <= clock' /\ calls \subseteq CallsMade
    BY <2>1 DEF DeskInv, DeskTyped, CallsMade
  <2> HIDE DEF new
  <2> QED
    BY <1>2, <2>1, <2>2
<1>4. ASSUME NEW c \in calls, Commits(c) PROVE DeskInv'
  <2> DEFINE done == [c EXCEPT !.at = clock']
  <2>1. /\ c.at = 0 /\ clock' = clock + 1 /\ calls' = (calls \ {c}) \cup {done}
        /\ UNCHANGED <<corner, page, cache, requests, made, own, excused>>
    BY <1>4 DEF Commits
  <2>2. clock' \in Nat /\ clock <= clock' /\ ~c.told /\ c \in CallsMade /\ calls \subseteq CallsMade
    BY <2>1 DEF DeskInv, DeskTyped, Past
  <2>3. done \in CallsMade /\ ~done.told /\ done.at = clock'
    BY <2>2 DEF CallsMade
  <2> HIDE DEF done
  <2>4. made' \in Nat
    BY <2>1 DEF DeskInv, DeskTyped
  <2> QED
    BY <1>2, <2>1, <2>2, <2>3, <2>4
<1>5. ASSUME NEW c \in calls, Fails(c) PROVE DeskInv'
  <2>1. /\ calls' = calls \ {c}
        /\ UNCHANGED <<corner, page, cache, requests, made, clock, own, excused>>
    BY <1>5 DEF Fails
  <2> QED
    BY <1>2, <2>1 DEF DeskInv, DeskTyped
<1> QED
  BY <1>1, <1>3, <1>4, <1>5

\* Every step keeps the invariant.
LEMMA DeskStep == DeskInv /\ [DeskNext]_deskVars => DeskInv'
<1> SUFFICES ASSUME DeskInv, [DeskNext]_deskVars PROVE DeskInv'
  OBVIOUS
<1>1. CASE UNCHANGED deskVars
  BY <1>1 DEF deskVars, DeskInv, DeskTyped, Past, AskedOnce, ClubsFilled, InStep, UpToDate,
              Covers, There, Asked, OnShow
<1> QED
  BY <1>1, VisitInv, DeskActsInv, ServedInv, ArrivesInv, FailedInv, SucceedsInv, EndsInv
     DEF DeskNext

\* What the user has done shows on the page (the onSuccess handlers of the pages'
\* mutations and the useQuery calls of the pages).
THEOREM ActionsAreOnShow == DeskSpec => []OwnActionsShow
<1>1. DeskInv => OwnActionsShow
  <2> SUFFICES ASSUME DeskInv, page # "elsewhere", NEW q \in Shows[page], There(q), ~Asked(q),
                      q \notin excused
               PROVE  Covers(q, cache[q].seen)
    BY DEF OwnActionsShow
  <2>1. InStep(q) /\ OnShow(q)
    BY PagesShow DEF DeskInv, DeskTyped, OnShow
  <2> QED
    BY <2>1 DEF InStep, UpToDate
<1> QED
  BY <1>1, DeskInitInv, DeskStep, PTL DEF DeskSpec

-----------------------------------------------------------------------------
(* The analysis board. *)

\* What goes to the engine, and what comes from it: questions, and answers to them;
\* positions to search, and lines about them.
Commands == Positions \cup {"uci", "isready", "stop"}
Lines == [kind : {"uciok", "readyok", "info", "bestmove"}, of : Positions \cup {NoFen}]
Question(c) == c \in {"uci", "isready"}
Confirms(l) == l.kind \in {"uciok", "readyok"}
Finding(l) == l.kind \in {"info", "bestmove"}

\* One question at a time is open, going to the engine or coming back answered.
OneQuestion(to, from) ==
    /\ \A i, j \in 1 .. Len(to) : Question(to[i]) /\ Question(to[j]) => i = j
    /\ \A i, j \in 1 .. Len(from) : Confirms(from[i]) /\ Confirms(from[j]) => i = j
    /\ \A i \in 1 .. Len(to), j \in 1 .. Len(from) : ~(Question(to[i]) /\ Confirms(from[j]))

\* Nothing is to be searched.
NoSearch(to) == \A i \in 1 .. Len(to) : to[i] \notin Positions

\* The engine has stopped when it answers, and nothing is searched until that is heard.
StopsFirst(e, to, from) ==
    /\ \A i \in 1 .. Len(to) : Question(to[i]) =>
          /\ \A j \in 1 .. Len(to) : j > i => to[j] \notin Positions
          /\ \/ i > 1 /\ to[i - 1] = "stop"
             \/ e \notin Positions /\ NoSearch(to)
    /\ \A i \in 1 .. Len(from) : Confirms(from[i]) =>
          /\ \A j \in 1 .. Len(from) : j > i => ~Finding(from[j])
          /\ e \notin Positions /\ NoSearch(to)

Orderly(e, to, from) == OneQuestion(to, from) /\ StopsFirst(e, to, from)

\* Everything under way is about position p.
AllAbout(p, e, to, from) ==
    /\ \A i \in 1 .. Len(from) : Finding(from[i]) => from[i].of = p
    /\ e \in Positions => e = p
    /\ \A i \in 1 .. Len(to) : to[i] \in Positions => to[i] = p

\* An engine that is ready has said so before.
Introduced(to, from) ==
    /\ \A i \in 1 .. Len(to) : to[i] # "uci"
    /\ \A i \in 1 .. Len(from) : from[i].kind # "uciok"

\* What is shown is of the position searched last, or of none.
ShownIsTracked ==
    /\ analysis.status \in {"idle", "error"} => analysis.of = NoFen
    /\ analysis.of \in {NoFen, tracking.activeFen, tracking.completedFen}
    /\ NoFen \in {tracking.activeFen, tracking.completedFen}

\* The types of what an effect or the worker changes.
BoardTyped ==
    /\ engine \in Positions \cup {"off", "starting", "idle", "dead"}
    /\ toEngine \in Seq(Commands) /\ fromEngine \in Seq(Lines)
    /\ searchTimer \in Positions \cup {NoFen} /\ queuedSearch \in Positions \cup {NoFen}
    /\ analysis = [status |-> analysis.status, best |-> analysis.best, of |-> analysis.of]

\* Without a worker nothing goes on, and nothing is searched before it is ready.
AtRest ==
    /\ ~Enabled => engine = "off" /\ toEngine = <<>> /\ fromEngine = <<>> /\ ~isEngineReady
    /\ ~isEngineReady => searchTimer = NoFen /\ queuedSearch = NoFen /\ ~isSearchActive

\* What the engine is asked and says belongs together, and so does what is shown.
Together ==
    /\ Orderly(engine, toEngine, fromEngine)
    /\ isEngineReady => Introduced(toEngine, fromEngine)
    /\ ShownIsTracked
    /\ isSearchActive => /\ tracking.activeFen = currentFenRef
                         /\ AllAbout(currentFenRef, engine, toEngine, fromEngine)

AnalysisInv == BoardTyped /\ AtRest /\ (~overlapped => Together)

AnalysisSpec == AnalysisInit /\ [][AnalysisNext]_analysisVars

LEMMA WordsAreNoPositions ==
    \A w \in {"off", "starting", "idle", "dead", "uci", "isready", "stop", NoFen} : w \notin Positions
BY AnalysisAssumption

\* What is posted or said comes after everything else.
LEMMA AppendedIs ==
    ASSUME NEW S, NEW q \in Seq(S), NEW x \in S
    PROVE  /\ Append(q, x) \in Seq(S) /\ Len(Append(q, x)) = Len(q) + 1 /\ Len(q) \in Nat
           /\ \A i \in 1 .. Len(q) : Append(q, x)[i] = q[i]
           /\ Append(q, x)[Len(q) + 1] = x
OBVIOUS

\* What is read was first.
LEMMA TailIs ==
    ASSUME NEW S, NEW q \in Seq(S), q # <<>>
    PROVE  /\ Tail(q) \in Seq(S) /\ Len(q) \in Nat /\ Len(q) > 0 /\ Len(Tail(q)) = Len(q) - 1
           /\ \A i \in 1 .. Len(q) - 1 : Tail(q)[i] = q[i + 1]
           /\ Head(q) = q[1] /\ Head(q) \in S
OBVIOUS

\* postMessage("stop") leaves a stop at the end.
LEMMA StopIsPosted ==
    ASSUME NEW to \in Seq(Commands)
    PROVE  /\ Post(to, "stop") \in Seq(Commands)
           /\ Post(to, "stop") \in {to, Append(to, "stop")}
           /\ Len(Post(to, "stop")) > 0 /\ Post(to, "stop")[Len(Post(to, "stop"))] = "stop"
BY DEF Post, Last, Commands

\* A stop disturbs no order.
LEMMA StopKeeps ==
    ASSUME NEW e, NEW to \in Seq(Commands), NEW from \in Seq(Lines)
    PROVE  /\ Orderly(e, to, from) => Orderly(e, Post(to, "stop"), from)
           /\ Introduced(to, from) => Introduced(Post(to, "stop"), from)
<1> DEFINE more == Append(to, "stop")
<1>1. /\ Len(more) = Len(to) + 1 /\ Len(to) \in Nat
      /\ \A i \in 1 .. Len(to) : more[i] = to[i]
      /\ more[Len(to) + 1] = "stop"
  BY AppendedIs DEF Commands
<1>2. "stop" \notin Positions
  BY WordsAreNoPositions
<1> HIDE DEF more
<1>3. Orderly(e, to, from) => OneQuestion(more, from)
  <2>1. \A i \in 1 .. Len(more) : Question(more[i]) => i \in 1 .. Len(to) /\ Question(to[i])
    <3>1. ~Question("stop")
      BY DEF Question
    <3> QED
      BY SMT, <1>1, <3>1
  <2>2. ASSUME OneQuestion(to, from)
        PROVE  OneQuestion(more, from)
    <3>1. \A i, j \in 1 .. Len(more) : Question(more[i]) /\ Question(more[j]) => i = j
      <4> SUFFICES ASSUME NEW i \in 1 .. Len(more), NEW j \in 1 .. Len(more),
                          Question(more[i]), Question(more[j])
                   PROVE  i = j
        OBVIOUS
      <4>1. i \in 1 .. Len(to) /\ Question(to[i]) /\ j \in 1 .. Len(to) /\ Question(to[j])
        BY Zenon, <2>1
      <4> QED
        BY Zenon, <2>2, <4>1 DEF OneQuestion
    <3>2. \A i \in 1 .. Len(more), j \in 1 .. Len(from) :
             ~(Question(more[i]) /\ Confirms(from[j]))
      BY Zenon, <2>1, <2>2 DEF OneQuestion
    <3> QED
      BY Zenon, <2>2, <3>1, <3>2 DEF OneQuestion
  <2> QED
    BY Zenon, <2>2 DEF Orderly
<1>4. NoSearch(to) => NoSearch(more)
  BY <1>1, <1>2 DEF NoSearch
<1>5. Orderly(e, to, from) => StopsFirst(e, more, from)
  <2> SUFFICES ASSUME Orderly(e, to, from) PROVE StopsFirst(e, more, from)
    OBVIOUS
  <2>1. ASSUME NEW i \in 1 .. Len(more), Question(more[i])
        PROVE  /\ \A j \in 1 .. Len(more) : j > i => more[j] \notin Positions
               /\ \/ i > 1 /\ more[i - 1] = "stop"
                  \/ e \notin Positions /\ NoSearch(more)
    <3>1. i \in 1 .. Len(to) /\ Question(to[i])
      BY <1>1, <2>1 DEF Question
    <3>2. \A j \in 1 .. Len(to) : j > i => to[j] \notin Positions
      BY <3>1 DEF Orderly, StopsFirst
    <3>3. \A j \in 1 .. Len(more) : j > i => more[j] \notin Positions
      BY <1>1, <1>2, <3>1, <3>2
    <3>4. \/ i > 1 /\ to[i - 1] = "stop"
          \/ e \notin Positions /\ NoSearch(to)
      BY <3>1 DEF Orderly, StopsFirst
    <3>5. i > 1 /\ to[i - 1] = "stop" => i > 1 /\ more[i - 1] = "stop"
      BY <1>1, <3>1
    <3> QED
      BY <1>4, <3>3, <3>4, <3>5
  <2> QED
    BY <1>4, <2>1 DEF Orderly, StopsFirst
<1>6. Introduced(to, from) => Introduced(more, from)
  BY <1>1 DEF Introduced
<1> QED
  BY <1>3, <1>5, <1>6, StopIsPosted DEF Orderly, more

\* When no question is open, isready may follow a stop.
LEMMA AskKeeps ==
    ASSUME NEW e, NEW to \in Seq(Commands), NEW from \in Seq(Lines), Orderly(e, to, from),
           \A i \in 1 .. Len(to) : ~Question(to[i]),
           \A i \in 1 .. Len(from) : ~Confirms(from[i]),
           (Len(to) > 0 /\ to[Len(to)] = "stop") \/ (e \notin Positions /\ NoSearch(to))
    PROVE  Orderly(e, Append(to, "isready"), from)
<1> DEFINE more == Append(to, "isready")
<1>1. /\ Len(more) = Len(to) + 1 /\ Len(to) \in Nat
      /\ \A i \in 1 .. Len(to) : more[i] = to[i]
      /\ more[Len(to) + 1] = "isready"
  BY AppendedIs DEF Commands
<1>2. "isready" \notin Positions
  BY WordsAreNoPositions
<1> HIDE DEF more
<1>3. \A i \in 1 .. Len(more) : Question(more[i]) => i = Len(to) + 1
  BY <1>1
<1>4. OneQuestion(more, from)
  BY <1>3 DEF OneQuestion, Orderly
<1>5. NoSearch(to) => NoSearch(more)
  BY <1>1, <1>2 DEF NoSearch
<1>6. StopsFirst(e, more, from)
  <2>1. ASSUME NEW i \in 1 .. Len(more), Question(more[i])
        PROVE  /\ \A j \in 1 .. Len(more) : j > i => more[j] \notin Positions
               /\ \/ i > 1 /\ more[i - 1] = "stop"
                  \/ e \notin Positions /\ NoSearch(more)
    <3>1. i = Len(to) + 1
      BY <1>3, <2>1
    <3>2. \A j \in 1 .. Len(more) : j > i => more[j] \notin Positions
      BY <1>1, <3>1
    <3>3. Len(to) > 0 /\ to[Len(to)] = "stop" => i > 1 /\ more[i - 1] = "stop"
      BY <1>1, <3>1
    <3> QED
      BY <1>5, <3>2, <3>3
  <2> QED
    BY <2>1 DEF StopsFirst
<1> QED
  BY <1>4, <1>6 DEF Orderly, more

\* When no question is open, a search may be started.
LEMMA GoKeeps ==
    ASSUME NEW e, NEW to \in Seq(Commands), NEW from \in Seq(Lines), NEW p \in Positions,
           \A i \in 1 .. Len(to) : ~Question(to[i]),
           \A i \in 1 .. Len(from) : ~Confirms(from[i])
    PROVE  Orderly(e, Append(to, p), from)
<1> DEFINE more == Append(to, p)
<1>1. /\ Len(more) = Len(to) + 1 /\ Len(to) \in Nat
      /\ \A i \in 1 .. Len(to) : more[i] = to[i]
      /\ more[Len(to) + 1] = p
  BY AppendedIs DEF Commands
<1>2. ~Question(p)
  BY AnalysisAssumption DEF Question
<1> HIDE DEF more
<1>3. \A i \in 1 .. Len(more) : ~Question(more[i])
  BY <1>1, <1>2
<1> QED
  BY <1>3 DEF Orderly, OneQuestion, StopsFirst, more

\* A line that is heard leaves the rest in order.
LEMMA HearingKeeps ==
    ASSUME NEW e, NEW to \in Seq(Commands), NEW from \in Seq(Lines), from # <<>>,
           Orderly(e, to, from)
    PROVE  /\ Orderly(e, to, Tail(from))
           /\ \A p : AllAbout(p, e, to, from) => AllAbout(p, e, to, Tail(from))
           /\ Introduced(to, from) => Introduced(to, Tail(from))
<1> DEFINE rest == Tail(from)
<1>1. /\ Len(from) \in Nat /\ Len(from) > 0 /\ Len(rest) = Len(from) - 1
      /\ \A i \in 1 .. Len(rest) : rest[i] = from[i + 1] /\ i + 1 \in 1 .. Len(from)
  BY TailIs
<1> HIDE DEF rest
<1>2. OneQuestion(to, rest)
  <2>1. OneQuestion(to, from)
    BY DEF Orderly
  <2>2. ASSUME NEW i \in 1 .. Len(rest), NEW j \in 1 .. Len(rest),
               Confirms(rest[i]), Confirms(rest[j])
        PROVE  i = j
    <3>1. i + 1 = j + 1
      BY <1>1, <2>1, <2>2 DEF OneQuestion
    <3> QED
      BY <3>1
  <2>3. \A i \in 1 .. Len(to), j \in 1 .. Len(rest) : ~(Question(to[i]) /\ Confirms(rest[j]))
    BY <1>1, <2>1 DEF OneQuestion
  <2> QED
    BY <2>1, <2>2, <2>3 DEF OneQuestion
<1>3. StopsFirst(e, to, rest)
  <2>1. ASSUME NEW i \in 1 .. Len(rest), Confirms(rest[i])
        PROVE  /\ \A j \in 1 .. Len(rest) : j > i => ~Finding(rest[j])
               /\ e \notin Positions /\ NoSearch(to)
    <3>1. i + 1 \in 1 .. Len(from) /\ Confirms(from[i + 1])
      BY <1>1, <2>1
    <3>2. /\ \A j \in 1 .. Len(from) : j > i + 1 => ~Finding(from[j])
          /\ e \notin Positions /\ NoSearch(to)
      BY <3>1 DEF Orderly, StopsFirst
    <3> QED
      BY <1>1, <3>2
  <2> QED
    BY <2>1 DEF Orderly, StopsFirst
<1>4. \A p : AllAbout(p, e, to, from) => AllAbout(p, e, to, rest)
  BY <1>1 DEF AllAbout
<1>5. Introduced(to, from) => Introduced(to, rest)
  BY <1>1 DEF Introduced
<1> QED
  BY <1>2, <1>3, <1>4, <1>5 DEF Orderly, rest

\* Once the engine's answer is heard no question is open, and nothing is searched.
LEMMA AnswerIsLast ==
    ASSUME NEW e, NEW to \in Seq(Commands), NEW from \in Seq(Lines), from # <<>>,
           Orderly(e, to, from), Confirms(Head(from))
    PROVE  /\ \A i \in 1 .. Len(to) : ~Question(to[i])
           /\ \A i \in 1 .. Len(Tail(from)) : ~Confirms(Tail(from)[i]) /\ ~Finding(Tail(from)[i])
           /\ e \notin Positions /\ NoSearch(to)
<1> DEFINE rest == Tail(from)
<1>1. /\ Len(from) \in Nat /\ Len(from) > 0 /\ Len(rest) = Len(from) - 1
      /\ \A i \in 1 .. Len(rest) : rest[i] = from[i + 1] /\ i + 1 \in 1 .. Len(from)
      /\ Head(from) = from[1] /\ 1 \in 1 .. Len(from)
  BY TailIs
<1> HIDE DEF rest
<1>2. \A i \in 1 .. Len(rest) : i + 1 # 1 /\ i + 1 > 1
  BY <1>1
<1>3. \A i \in 1 .. Len(to) : ~Question(to[i])
  BY <1>1 DEF Orderly, OneQuestion
<1>4. \A i \in 1 .. Len(rest) : ~Confirms(rest[i])
  BY <1>1, <1>2 DEF Orderly, OneQuestion
<1>5. \A i \in 1 .. Len(rest) : ~Finding(rest[i])
  BY <1>1, <1>2 DEF Orderly, StopsFirst
<1>6. e \notin Positions /\ NoSearch(to)
  BY <1>1 DEF Orderly, StopsFirst
<1> QED
  BY <1>3, <1>4, <1>5, <1>6 DEF rest

\* A searching engine may say what it finds.
LEMMA SayingKeeps ==
    ASSUME NEW e \in Positions, NEW to \in Seq(Commands), NEW from \in Seq(Lines), NEW l \in Lines,
           Orderly(e, to, from), Finding(l), l.of = e
    PROVE  /\ Append(from, l) \in Seq(Lines)
           /\ Orderly(e, to, Append(from, l))
           /\ Introduced(to, from) => Introduced(to, Append(from, l))
           /\ \A p : AllAbout(p, e, to, from) => AllAbout(p, e, to, Append(from, l))
<1> DEFINE more == Append(from, l)
<1>1. /\ Len(more) = Len(from) + 1 /\ Len(from) \in Nat /\ more \in Seq(Lines)
      /\ \A i \in 1 .. Len(from) : more[i] = from[i]
      /\ more[Len(from) + 1] = l
  BY AppendedIs
<1> HIDE DEF more
<1>2. \A i \in 1 .. Len(from) : ~Confirms(from[i])
  BY DEF Orderly, StopsFirst
<1>3. ~Confirms(l) /\ l.kind # "uciok"
  BY DEF Confirms, Finding
<1>4. \A i \in 1 .. Len(more) : ~Confirms(more[i])
  BY <1>1, <1>2, <1>3
<1>5. Orderly(e, to, more)
  BY <1>4 DEF Orderly, OneQuestion, StopsFirst
<1>6. Introduced(to, from) => Introduced(to, more)
  BY <1>1, <1>3 DEF Introduced
<1>7. \A p : AllAbout(p, e, to, from) => AllAbout(p, e, to, more)
  BY <1>1 DEF AllAbout
<1> QED
  BY <1>1, <1>5, <1>6, <1>7 DEF more

\* A search may end.
LEMMA StoppingKeeps ==
    ASSUME NEW e, NEW to \in Seq(Commands), NEW from \in Seq(Lines)
    PROVE  /\ Orderly(e, to, from) => Orderly("idle", to, from)
           /\ \A p : AllAbout(p, e, to, from) => AllAbout(p, "idle", to, from)
BY WordsAreNoPositions DEF Orderly, StopsFirst, AllAbout

\* The engine reads a stop, or a position to search.
LEMMA ReadingKeeps ==
    ASSUME NEW e, NEW to \in Seq(Commands), NEW from \in Seq(Lines), to # <<>>,
           Orderly(e, to, from), NEW d,
           \/ Head(to) = "stop" /\ d = "idle"
           \/ Head(to) \in Positions /\ d = Head(to)
    PROVE  /\ Orderly(d, Tail(to), from)
           /\ Introduced(to, from) => Introduced(Tail(to), from)
           /\ \A p : AllAbout(p, e, to, from) => AllAbout(p, d, Tail(to), from)
<1> DEFINE rest == Tail(to)
<1>1. /\ Len(to) \in Nat /\ Len(to) > 0 /\ Len(rest) = Len(to) - 1
      /\ \A i \in 1 .. Len(rest) : rest[i] = to[i + 1] /\ i + 1 \in 1 .. Len(to)
      /\ Head(to) = to[1] /\ 1 \in 1 .. Len(to)
  BY TailIs
<1>2. "stop" \notin Positions /\ "idle" \notin Positions
  BY WordsAreNoPositions
<1> HIDE DEF rest
<1>3. OneQuestion(rest, from)
  <2>1. OneQuestion(to, from)
    BY DEF Orderly
  <2>2. ASSUME NEW i \in 1 .. Len(rest), NEW j \in 1 .. Len(rest),
               Question(rest[i]), Question(rest[j])
        PROVE  i = j
    <3>1. i + 1 = j + 1
      BY <1>1, <2>1, <2>2 DEF OneQuestion
    <3> QED
      BY <3>1
  <2>3. \A i \in 1 .. Len(rest), j \in 1 .. Len(from) : ~(Question(rest[i]) /\ Confirms(from[j]))
    BY <1>1, <2>1 DEF OneQuestion
  <2> QED
    BY <2>1, <2>2, <2>3 DEF OneQuestion
<1>4. StopsFirst(d, rest, from)
  <2>1. ASSUME NEW i \in 1 .. Len(rest), Question(rest[i])
        PROVE  /\ \A j \in 1 .. Len(rest) : j > i => rest[j] \notin Positions
               /\ \/ i > 1 /\ rest[i - 1] = "stop"
                  \/ d \notin Positions /\ NoSearch(rest)
    <3>1. /\ i + 1 \in 1 .. Len(to) /\ Question(to[i + 1]) /\ rest[i] = to[i + 1]
      BY <1>1, <2>1
    <3>2. /\ \A j \in 1 .. Len(to) : j > i + 1 => to[j] \notin Positions
          /\ \/ i + 1 > 1 /\ to[(i + 1) - 1] = "stop"
             \/ e \notin Positions /\ NoSearch(to)
      BY <3>1 DEF Orderly, StopsFirst
    <3>3. \A j \in 1 .. Len(rest) : j > i => rest[j] \notin Positions
      BY <1>1, <3>2
    <3>4. CASE NoSearch(to)
      <4>1. NoSearch(rest)
        BY <1>1, <3>4 DEF NoSearch
      <4>2. d \notin Positions
        BY <1>1, <1>2, <3>4 DEF NoSearch
      <4> QED
        BY <3>3, <4>1, <4>2
    <3>5. CASE to[i] = "stop" /\ i > 1
      <4>1. i - 1 \in 1 .. Len(rest)
        BY <3>5
      <4>2. rest[i - 1] = to[(i - 1) + 1] /\ (i - 1) + 1 = i
        BY <1>1, <4>1
      <4> QED
        BY <3>3, <3>5, <4>2
    <3>6. CASE to[i] = "stop" /\ i = 1
      <4>1. d \notin Positions
        BY <1>1, <1>2, <3>6
      <4>2. rest[1] \notin Positions
        BY <2>1, <3>6, WordsAreNoPositions DEF Question
      <4>3. \A j \in 1 .. Len(rest) : j = 1 \/ j > i
        BY <1>1, <3>6
      <4>4. NoSearch(rest)
        BY <3>3, <4>2, <4>3 DEF NoSearch
      <4> QED
        BY <3>3, <4>1, <4>4
    <3>7. (i + 1) - 1 = i /\ (i = 1 \/ i > 1)
      BY <1>1
    <3> QED
      BY <3>2, <3>4, <3>5, <3>6, <3>7
  <2>2. ASSUME NEW i \in 1 .. Len(from), Confirms(from[i])
        PROVE  /\ \A j \in 1 .. Len(from) : j > i => ~Finding(from[j])
               /\ d \notin Positions /\ NoSearch(rest)
    <3>1. /\ \A j \in 1 .. Len(from) : j > i => ~Finding(from[j])
          /\ e \notin Positions /\ NoSearch(to)
      BY <2>2 DEF Orderly, StopsFirst
    <3>2. NoSearch(rest)
      BY <1>1, <3>1 DEF NoSearch
    <3>3. d \notin Positions
      BY <1>1, <1>2, <3>1 DEF NoSearch
    <3> QED
      BY <3>1, <3>2, <3>3
  <2> QED
    BY <2>1, <2>2 DEF StopsFirst
<1>5. Introduced(to, from) => Introduced(rest, from)
  BY <1>1 DEF Introduced
<1>6. \A p : AllAbout(p, e, to, from) => AllAbout(p, d, rest, from)
  BY <1>1, <1>2 DEF AllAbout
<1> QED
  BY <1>3, <1>4, <1>5, <1>6 DEF Orderly, rest

\* The engine reads a question and answers it.
LEMMA AnsweringKeeps ==
    ASSUME NEW e, NEW to \in Seq(Commands), NEW from \in Seq(Lines), to # <<>>,
           Orderly(e, to, from), NEW l \in Lines, Question(Head(to)), Confirms(l), NEW d,
           d \in {e, "idle"}
    PROVE  /\ Append(from, l) \in Seq(Lines)
           /\ Orderly(d, Tail(to), Append(from, l))
           /\ Introduced(to, from) /\ l.kind # "uciok" => Introduced(Tail(to), Append(from, l))
           /\ \A p : AllAbout(p, e, to, from) => AllAbout(p, d, Tail(to), Append(from, l))
<1> DEFINE rest == Tail(to)
           more == Append(from, l)
<1>1. /\ Len(to) \in Nat /\ Len(to) > 0 /\ Len(rest) = Len(to) - 1
      /\ \A i \in 1 .. Len(rest) : rest[i] = to[i + 1] /\ i + 1 \in 1 .. Len(to) /\ i + 1 > 1
      /\ Head(to) = to[1] /\ 1 \in 1 .. Len(to)
  BY TailIs
<1>2. /\ Len(more) = Len(from) + 1 /\ Len(from) \in Nat /\ more \in Seq(Lines)
      /\ \A i \in 1 .. Len(from) : more[i] = from[i]
      /\ more[Len(from) + 1] = l
  BY AppendedIs
<1> HIDE DEF rest, more
<1>3. /\ \A i \in 1 .. Len(rest) : ~Question(rest[i]) /\ rest[i] \notin Positions
      /\ \A i \in 1 .. Len(from) : ~Confirms(from[i])
  <2>1. 1 \in 1 .. Len(to) /\ Question(to[1])
    BY Zenon, <1>1
  <2>2. OneQuestion(to, from) /\ StopsFirst(e, to, from)
    BY Zenon DEF Orderly
  <2>3. ASSUME NEW i \in 1 .. Len(rest)
        PROVE  ~Question(rest[i]) /\ rest[i] \notin Positions
    <3>1. rest[i] = to[i + 1] /\ i + 1 \in 1 .. Len(to) /\ i + 1 > 1 /\ i + 1 # 1
      BY SMT, <1>1
    <3>2. ~Question(to[i + 1])
      BY Zenon, <2>1, <2>2, <3>1 DEF OneQuestion
    <3>3. to[i + 1] \notin Positions
      BY Zenon, <2>1, <2>2, <3>1 DEF StopsFirst
    <3> QED
      BY Zenon, <3>1, <3>2, <3>3
  <2>4. \A i \in 1 .. Len(from) : ~Confirms(from[i])
    BY Zenon, <2>1, <2>2 DEF OneQuestion
  <2> QED
    BY Zenon, <2>3, <2>4
<1>4. e \notin Positions /\ d \notin Positions
  BY <1>1, WordsAreNoPositions DEF Orderly, StopsFirst
<1>5. \A i \in 1 .. Len(more) : Confirms(more[i]) => i = Len(from) + 1
  BY <1>2, <1>3
<1>6. OneQuestion(rest, more)
  BY <1>3, <1>5 DEF OneQuestion
<1>7. StopsFirst(d, rest, more)
  BY <1>2, <1>3, <1>4, <1>5 DEF StopsFirst, NoSearch
<1>8. \A p : AllAbout(p, e, to, from) => AllAbout(p, d, rest, more)
  <2>1. ~Finding(l)
    BY DEF Finding, Confirms
  <2>2. ASSUME NEW i \in 1 .. Len(more), Finding(more[i])
        PROVE  i \in 1 .. Len(from) /\ Finding(from[i]) /\ more[i] = from[i]
    BY <1>2, <2>1, <2>2
  <2> QED
    BY <1>3, <1>4, <2>2 DEF AllAbout
<1>9. Introduced(to, from) /\ l.kind # "uciok" => Introduced(rest, more)
  <2> SUFFICES ASSUME Introduced(to, from), l.kind # "uciok" PROVE Introduced(rest, more)
    OBVIOUS
  <2>1. \A i \in 1 .. Len(rest) : rest[i] # "uci"
    BY <1>3 DEF Question
  <2>2. \A i \in 1 .. Len(from) : from[i].kind # "uciok"
    BY DEF Introduced
  <2>3. \A i \in 1 .. Len(more) : more[i].kind # "uciok"
    BY <1>2, <2>2
  <2> QED
    BY <2>1, <2>3 DEF Introduced
<1> QED
  BY <1>2, <1>6, <1>7, <1>8, <1>9 DEF Orderly, rest, more

\* Nothing is out of order where nothing is under way.
LEMMA QuietIsOrderly ==
    /\ \A e : Orderly(e, <<>>, <<>>) /\ Introduced(<<>>, <<>>)
    /\ \A e, p : e \notin Positions => AllAbout(p, e, <<>>, <<>>)
BY DEF Orderly, OneQuestion, StopsFirst, Introduced, AllAbout

\* Actions of the engine and of the hook leave the board as it is.
LEMMA BoardStays ==
    ASSUME UNCHANGED <<study, studying>>
    PROVE  Fen' = Fen /\ Enabled' = Enabled
<1>1. study' = study /\ studying' = studying
  OBVIOUS
<1>2. Current(study)' = Current(study)
  BY <1>1 DEF Current
<1>3. Fen' = Fen
  BY <1>1, <1>2 DEF Fen
<1> QED
  BY <1>1, <1>3 DEF Enabled

LEMMA AnalysisInitInv == AnalysisInit => AnalysisInv
<1> SUFFICES ASSUME AnalysisInit PROVE AnalysisInv
  OBVIOUS
<1>1. BoardTyped
  BY DEF AnalysisInit, BoardTyped, Blank, Commands, Lines
<1>2. AtRest
  BY DEF AnalysisInit, AtRest
<1>3. Together
  BY QuietIsOrderly DEF AnalysisInit, Together, ShownIsTracked, Blank, NoTracking
<1> QED
  BY <1>1, <1>2, <1>3 DEF AnalysisInv

\* Whatever the user does to the board, the effects keep the hook in order.
LEMMA FollowingKeeps ==
    ASSUME AnalysisInv, EngineFollows
    PROVE  AnalysisInv'
<1>1. Enabled' => Fen' \in Positions
  BY AnalysisAssumption DEF Enabled
<1>2. CASE ~Enabled /\ Enabled' /\ WorkerStarts
  <2> DEFINE to == <<"uci", "stop">>
  <2>1. /\ engine' = "starting" /\ toEngine' = to /\ fromEngine' = <<>>
        /\ queuedSearch' = NoFen /\ isSearchActive' = FALSE
        /\ UNCHANGED <<isEngineReady, searchTimer, tracking, analysis, overlapped>>
        /\ ~isEngineReady /\ searchTimer = NoFen
    BY <1>2 DEF WorkerStarts, AnalysisInv, AtRest
  <2>2. to \in Seq(Commands) /\ <<>> \in Seq(Lines)
    BY DEF Commands
  <2>3. BoardTyped'
    BY <2>1, <2>2 DEF BoardTyped, AnalysisInv
  <2>4. AtRest'
    BY <1>2, <2>1 DEF AtRest
  <2>5. Orderly("starting", to, <<>>)
    <3>1. \A i \in 1 .. Len(to) : Question(to[i]) => i = 1
      BY DEF Question
    <3>2. "starting" \notin Positions /\ NoSearch(to)
      BY WordsAreNoPositions DEF NoSearch
    <3> HIDE DEF to
    <3> QED
      BY <3>1, <3>2 DEF Orderly, OneQuestion, StopsFirst, NoSearch
  <2>6. ~overlapped' => Together'
    BY <2>1, <2>5 DEF Together, AnalysisInv, ShownIsTracked
  <2> QED
    BY <2>3, <2>4, <2>6 DEF AnalysisInv
<1>3. CASE Enabled /\ ~Enabled' /\ WorkerEnds
  <2>1. BoardTyped'
    BY <1>3 DEF WorkerEnds, BoardTyped, AnalysisInv, Commands, Lines
  <2>2. AtRest'
    BY <1>3 DEF WorkerEnds, AtRest
  <2>3. ~overlapped' => Together'
    BY <1>3, QuietIsOrderly DEF WorkerEnds, Together, AnalysisInv, ShownIsTracked
  <2> QED
    BY <2>1, <2>2, <2>3 DEF AnalysisInv
<1>4. CASE Enabled /\ Enabled' /\ Fen' # Fen /\ FenChanges
  <2>1. /\ toEngine' = Post(toEngine, "stop") /\ toEngine' \in Seq(Commands)
        /\ queuedSearch' = NoFen /\ isSearchActive' = FALSE
        /\ searchTimer' = IF isEngineReady THEN Fen' ELSE NoFen
        /\ UNCHANGED <<engine, fromEngine, isEngineReady, tracking, analysis, overlapped>>
    BY <1>4, StopIsPosted DEF FenChanges, FenEffect, AnalysisInv, BoardTyped
  <2>2. BoardTyped'
    BY <1>1, <1>4, <2>1 DEF BoardTyped, AnalysisInv
  <2>3. AtRest'
    BY <1>4, <2>1 DEF AtRest
  <2>4. ~overlapped' => Together'
    BY <2>1, StopKeeps DEF Together, AnalysisInv, BoardTyped, ShownIsTracked
  <2> QED
    BY <2>2, <2>3, <2>4 DEF AnalysisInv
<1>5. CASE Enabled = Enabled' /\ (Enabled => Fen' = Fen) /\ UNCHANGED engineVars
  <2>1. BoardTyped'
    BY <1>5 DEF engineVars, BoardTyped, AnalysisInv
  <2>2. AtRest'
    BY <1>5 DEF engineVars, AtRest, AnalysisInv
  <2>3. ~overlapped' => Together'
    BY <1>5 DEF engineVars, Together, AnalysisInv, ShownIsTracked
  <2> QED
    BY <2>1, <2>2, <2>3 DEF AnalysisInv
<1> QED
  BY <1>2, <1>3, <1>4, <1>5 DEF EngineFollows

\* The user's actions.
LEMMA BoardActs ==
    ASSUME AnalysisInv,
           \/ \E withGame \in BOOLEAN : OpenAnalysis(withGame)
           \/ SourceArrives
           \/ \E p \in Positions : \E m \in DOMAIN After[p] : ApplySandboxMove(m)
           \/ \E i \in 0 .. Len(study.line) : GoToMoveIndex(i)
           \/ \E w \in Pasted : LoadPasted(w)
           \/ ResetStart \/ ClearBoard \/ ToggleMode \/ ApplyEditorPosition
           \/ \E p \in Positions \cup {NoFen} : EditBoard(p)
    PROVE  AnalysisInv'
<1>1. EngineFollows
  BY DEF OpenAnalysis, SourceArrives, ApplySandboxMove, GoToMoveIndex, LoadPasted, ResetStart,
         ClearBoard, ToggleMode, ApplyEditorPosition, EditBoard, Change
<1> QED
  BY <1>1, FollowingKeeps

\* The page goes, and everything with it.
LEMMA LeavingClears == AnalysisInv /\ LeaveAnalysis => AnalysisInv'
<1> SUFFICES ASSUME AnalysisInv, LeaveAnalysis PROVE AnalysisInv'
  OBVIOUS
<1>1. BoardTyped'
  BY DEF LeaveAnalysis, BoardTyped, Blank, Commands, Lines
<1>2. AtRest'
  BY DEF LeaveAnalysis, AtRest
<1>3. Together'
  BY QuietIsOrderly DEF LeaveAnalysis, Together, ShownIsTracked, Blank, NoTracking
<1> QED
  BY <1>1, <1>2, <1>3 DEF AnalysisInv

\* The debounce is over: the question follows a stop, and is the only one, or this is an
\* overlap.
LEMMA TimerKeeps == AnalysisInv /\ TimerFires => AnalysisInv'
<1> SUFFICES ASSUME AnalysisInv, TimerFires PROVE AnalysisInv'
  OBVIOUS
<1> DEFINE stopped == Post(toEngine, "stop")
           posted == Append(stopped, "isready")
<1>1. /\ toEngine' = posted /\ searchTimer' = NoFen /\ queuedSearch' = searchTimer
      /\ isSearchActive' = FALSE
      /\ tracking' = [NoTracking EXCEPT !.queuedFen = searchTimer]
      /\ analysis' = Blank("analyzing")
      /\ overlapped' = (overlapped \/ Unanswered)
      /\ UNCHANGED <<study, studying, engine, fromEngine, isEngineReady>>
      /\ isEngineReady
  BY DEF TimerFires, AnalysisInv, AtRest
<1>2. Enabled /\ Enabled'
  BY <1>1, BoardStays DEF AnalysisInv, AtRest
<1>3. /\ stopped \in Seq(Commands) /\ Len(stopped) > 0 /\ stopped[Len(stopped)] = "stop"
      /\ stopped \in {toEngine, Append(toEngine, "stop")}
      /\ posted \in Seq(Commands)
  BY StopIsPosted, AppendedIs DEF AnalysisInv, BoardTyped, Commands
<1>4. ASSUME ~overlapped'
      PROVE  Orderly(engine, posted, fromEngine) /\ Introduced(posted, fromEngine)
  <2>1. /\ Orderly(engine, stopped, fromEngine) /\ Introduced(stopped, fromEngine)
        /\ fromEngine \in Seq(Lines)
    BY <1>1, <1>4, StopKeeps DEF AnalysisInv, Together, BoardTyped
  <2>2. /\ \A i \in 1 .. Len(toEngine) : toEngine[i] # "isready"
        /\ \A i \in 1 .. Len(fromEngine) : fromEngine[i].kind # "readyok"
    <3>1. /\ toEngine \in Seq(Commands) /\ fromEngine \in Seq(Lines)
          /\ ~Unanswered
      BY <1>1, <1>4 DEF AnalysisInv, BoardTyped
    <3>2. DOMAIN fromEngine = 1 .. Len(fromEngine)
      BY <3>1
    <3>3. \A i \in 1 .. Len(toEngine) : toEngine[i] \in ToSet(toEngine)
      BY <3>1 DEF ToSet
    <3> QED
      BY <3>1, <3>2, <3>3 DEF Unanswered
  <2>3. \A i \in 1 .. Len(stopped) : stopped[i] # "isready"
    <3>1. toEngine \in Seq(Commands) /\ "stop" \in Commands
      BY DEF AnalysisInv, BoardTyped, Commands
    <3>2. /\ Len(Append(toEngine, "stop")) = Len(toEngine) + 1 /\ Len(toEngine) \in Nat
          /\ \A i \in 1 .. Len(toEngine) : Append(toEngine, "stop")[i] = toEngine[i]
          /\ Append(toEngine, "stop")[Len(toEngine) + 1] = "stop"
      BY <3>1, AppendedIs
    <3> HIDE DEF stopped
    <3> QED
      BY <1>3, <2>2, <3>2
  <2>4. \A i \in 1 .. Len(stopped) : ~Question(stopped[i])
    BY <2>1, <2>3 DEF Question, Introduced
  <2>5. \A i \in 1 .. Len(fromEngine) : ~Confirms(fromEngine[i])
    BY <2>1, <2>2 DEF Confirms, Introduced
  <2>6. Orderly(engine, posted, fromEngine)
    BY <1>3, <2>1, <2>4, <2>5, AskKeeps
  <2>7. /\ Len(posted) = Len(stopped) + 1 /\ Len(stopped) \in Nat
        /\ \A i \in 1 .. Len(stopped) : posted[i] = stopped[i]
        /\ posted[Len(stopped) + 1] = "isready"
    BY <1>3, AppendedIs DEF Commands
  <2>8. Introduced(posted, fromEngine)
    <3> HIDE DEF posted, stopped
    <3> QED
      BY <2>1, <2>7 DEF Introduced
  <2> QED
    BY <2>6, <2>8
<1>5. BoardTyped'
  BY <1>1, <1>3 DEF AnalysisInv, BoardTyped, Blank
<1>6. AtRest'
  BY <1>1, <1>2 DEF AtRest
<1>7. ~overlapped' => Together'
  BY <1>1, <1>4 DEF Together, ShownIsTracked, Blank, NoTracking
<1> QED
  BY <1>5, <1>6, <1>7 DEF AnalysisInv

\* A line of the worker reaches the hook.
LEMMA LinesKeep == AnalysisInv /\ LineArrives => AnalysisInv'
<1> SUFFICES ASSUME AnalysisInv, LineArrives PROVE AnalysisInv'
  OBVIOUS
<1> DEFINE rest == Tail(fromEngine)
           line == Head(fromEngine)
<1>1. /\ toEngine \in Seq(Commands) /\ fromEngine \in Seq(Lines)
      /\ fromEngine # <<>> /\ fromEngine' = rest /\ rest \in Seq(Lines) /\ line \in Lines
      /\ UNCHANGED <<study, studying, engine, overlapped>>
      /\ line = fromEngine[1] /\ 1 \in 1 .. Len(fromEngine)
  <2>1. /\ fromEngine # <<>> /\ fromEngine' = rest
        /\ UNCHANGED <<study, studying, engine, overlapped>>
    BY DEF LineArrives, OnUciok, OnFirstReadyok, OnReadyok, OnInfo, OnBestmove, Received
  <2>2. toEngine \in Seq(Commands) /\ fromEngine \in Seq(Lines)
    BY DEF AnalysisInv, BoardTyped
  <2> QED
    BY <2>1, <2>2, TailIs
<1>2. Enabled /\ Enabled' /\ Fen' = Fen /\ Fen \in Positions
  BY <1>1, BoardStays, AnalysisAssumption DEF AnalysisInv, AtRest, Enabled
<1>3. ASSUME ~overlapped
      PROVE  /\ Orderly(engine, toEngine, fromEngine) /\ Orderly(engine, toEngine, rest)
             /\ \A p : AllAbout(p, engine, toEngine, fromEngine) => AllAbout(p, engine, toEngine, rest)
             /\ isEngineReady => Introduced(toEngine, fromEngine) /\ Introduced(toEngine, rest)
             /\ Confirms(line) =>
                   /\ \A i \in 1 .. Len(toEngine) : ~Question(toEngine[i])
                   /\ \A i \in 1 .. Len(rest) : ~Confirms(rest[i]) /\ ~Finding(rest[i])
                   /\ engine \notin Positions /\ NoSearch(toEngine)
  BY <1>1, <1>3, HearingKeeps, AnswerIsLast DEF AnalysisInv, Together
<1> HIDE DEF rest, line
<1>4. CASE OnUciok
  <2> DEFINE posted == Append(toEngine, "isready")
  <2>1. /\ line.kind = "uciok" /\ toEngine' = posted /\ posted \in Seq(Commands)
        /\ UNCHANGED <<isEngineReady, searchTimer, queuedSearch, isSearchActive, currentFenRef,
                       tracking, analysis>>
    BY <1>1, <1>4, AppendedIs DEF OnUciok, Received, Commands, line
  <2>2. ASSUME ~overlapped
        PROVE  ~isEngineReady /\ Orderly(engine, posted, rest)
    <3>1. Confirms(line)
      BY <2>1 DEF Confirms
    <3>2. ~isEngineReady
      BY <1>1, <1>3, <2>1, <2>2 DEF Introduced
    <3> QED
      BY <1>1, <1>3, <2>2, <3>1, <3>2, AskKeeps
  <2> HIDE DEF posted
  <2>3. BoardTyped'
    BY <1>1, <2>1 DEF AnalysisInv, BoardTyped
  <2>4. AtRest'
    BY <1>2, <2>1 DEF AnalysisInv, AtRest
  <2>5. ~overlapped' => Together'
    BY <1>1, <2>1, <2>2 DEF AnalysisInv, AtRest, Together, ShownIsTracked
  <2> QED
    BY <2>3, <2>4, <2>5 DEF AnalysisInv
<1>5. CASE OnFirstReadyok
  <2> DEFINE stopped == Post(toEngine, "stop")
  <2>1. /\ line.kind = "readyok" /\ ~isEngineReady /\ isEngineReady' = TRUE
        /\ toEngine' = stopped /\ stopped \in Seq(Commands)
        /\ queuedSearch' = NoFen /\ isSearchActive' = FALSE /\ searchTimer' = Fen
        /\ analysis' = [analysis EXCEPT !.status = IF @ = "loading" THEN "ready" ELSE @]
        /\ UNCHANGED tracking
    BY <1>1, <1>5, StopIsPosted DEF OnFirstReadyok, Received, FenEffect, line
  <2>2. ASSUME ~overlapped
        PROVE  Orderly(engine, stopped, rest) /\ Introduced(stopped, rest)
    <3>1. Confirms(line)
      BY <2>1 DEF Confirms
    <3>2. Introduced(toEngine, rest)
      BY <1>3, <2>2, <3>1 DEF Introduced, Question, Confirms
    <3> QED
      BY <1>1, <1>3, <2>2, <3>2, StopKeeps
  <2> HIDE DEF stopped
  <2>3. /\ analysis'.of = analysis.of
        /\ analysis'.status \in {"idle", "error"} => analysis'.status = analysis.status
        /\ analysis' = [status |-> analysis'.status, best |-> analysis'.best, of |-> analysis'.of]
    BY <2>1 DEF AnalysisInv, BoardTyped
  <2>4. BoardTyped'
    BY <1>1, <1>2, <2>1, <2>3 DEF AnalysisInv, BoardTyped
  <2>5. AtRest'
    BY <1>2, <2>1 DEF AtRest
  <2>6. ~overlapped' => Together'
    BY <1>1, <2>1, <2>2, <2>3 DEF AnalysisInv, Together, ShownIsTracked
  <2> QED
    BY <2>4, <2>5, <2>6 DEF AnalysisInv
<1>6. CASE OnReadyok /\ queuedSearch = NoFen
  <2>1. /\ UNCHANGED <<toEngine, isEngineReady, searchTimer, queuedSearch, isSearchActive,
                       currentFenRef, tracking, analysis>>
    BY <1>6 DEF OnReadyok
  <2>2. BoardTyped'
    BY <1>1, <2>1 DEF AnalysisInv, BoardTyped
  <2>3. AtRest'
    BY <1>2, <2>1 DEF AnalysisInv, AtRest
  <2>4. ~overlapped' => Together'
    BY <1>1, <1>3, <2>1 DEF AnalysisInv, Together, ShownIsTracked
  <2> QED
    BY <2>2, <2>3, <2>4 DEF AnalysisInv
<1>7. CASE OnReadyok /\ queuedSearch # NoFen
  <2> DEFINE posted == Append(toEngine, queuedSearch)
  <2>1. /\ line.kind = "readyok" /\ isEngineReady /\ queuedSearch \in Positions
        /\ queuedSearch' = NoFen /\ isSearchActive' = TRUE /\ currentFenRef' = queuedSearch
        /\ tracking' = [NoTracking EXCEPT !.activeFen = queuedSearch]
        /\ analysis' = Blank("analyzing")
        /\ toEngine' = posted
        /\ UNCHANGED <<isEngineReady, searchTimer>>
    BY <1>7 DEF OnReadyok, Received, AnalysisInv, BoardTyped, line
  <2>2. /\ posted \in Seq(Commands) /\ Len(posted) = Len(toEngine) + 1 /\ Len(toEngine) \in Nat
        /\ \A i \in 1 .. Len(toEngine) : posted[i] = toEngine[i]
        /\ posted[Len(toEngine) + 1] = queuedSearch
    BY <1>1, <2>1, AppendedIs DEF Commands
  <2>3. ASSUME ~overlapped
        PROVE  /\ Orderly(engine, posted, rest) /\ Introduced(posted, rest)
               /\ AllAbout(queuedSearch, engine, posted, rest)
    <3>1. Confirms(line)
      BY <2>1 DEF Confirms
    <3>2. Orderly(engine, posted, rest)
      BY <1>1, <1>3, <2>1, <2>3, <3>1, GoKeeps
    <3>3. queuedSearch # "uci"
      BY <2>1, WordsAreNoPositions
    <3> HIDE DEF posted
    <3>4. Introduced(posted, rest)
      BY <1>3, <2>1, <2>2, <2>3, <3>3 DEF Introduced
    <3>5. AllAbout(queuedSearch, engine, posted, rest)
      BY <1>3, <2>2, <2>3, <3>1 DEF AllAbout, NoSearch
    <3> QED
      BY <3>2, <3>4, <3>5
  <2> HIDE DEF posted
  <2>4. BoardTyped'
    BY <1>1, <2>1, <2>2 DEF AnalysisInv, BoardTyped, Blank
  <2>5. AtRest'
    BY <1>2, <2>1 DEF AtRest
  <2>6. ~overlapped' => Together'
    BY <1>1, <2>1, <2>3 DEF Together, ShownIsTracked, Blank, NoTracking
  <2> QED
    BY <2>4, <2>5, <2>6 DEF AnalysisInv
<1>8. CASE OnInfo
  <2>1. /\ line.kind = "info"
        /\ \/ analysis' = analysis
           \/ isSearchActive /\ analysis' = [analysis EXCEPT !.status = "analyzing", !.of = line.of]
        /\ UNCHANGED <<toEngine, isEngineReady, searchTimer, queuedSearch, isSearchActive,
                       currentFenRef, tracking>>
    BY <1>8 DEF OnInfo, Received, line
  <2>2. ~overlapped /\ isSearchActive => line.of = tracking.activeFen
    BY <1>1, <2>1 DEF AnalysisInv, Together, AllAbout, Finding
  <2>3. /\ analysis' = [status |-> analysis'.status, best |-> analysis'.best, of |-> analysis'.of]
        /\ \/ analysis' = analysis
           \/ isSearchActive /\ analysis'.status = "analyzing" /\ analysis'.of = line.of
    BY <2>1 DEF AnalysisInv, BoardTyped
  <2>4. BoardTyped'
    BY <1>1, <2>1, <2>3 DEF AnalysisInv, BoardTyped
  <2>5. AtRest'
    BY <1>2, <2>1 DEF AnalysisInv, AtRest
  <2>6. ~overlapped' => Together'
    BY <1>1, <1>3, <2>1, <2>2, <2>3 DEF AnalysisInv, Together, ShownIsTracked
  <2> QED
    BY <2>4, <2>5, <2>6 DEF AnalysisInv
<1>9. CASE OnBestmove
  <2>1. /\ line.kind = "bestmove"
        /\ \/ UNCHANGED <<isSearchActive, tracking, analysis>>
           \/ /\ isSearchActive /\ isSearchActive' = FALSE
              /\ tracking' = [NoTracking EXCEPT !.completedFen = currentFenRef]
              /\ analysis' = [status |-> "done", best |-> Best[line.of], of |-> line.of]
        /\ UNCHANGED <<toEngine, isEngineReady, searchTimer, queuedSearch, currentFenRef>>
    BY <1>9 DEF OnBestmove, Received, line
  <2>2. ~overlapped /\ isSearchActive => line.of = currentFenRef
    BY <1>1, <2>1 DEF AnalysisInv, Together, AllAbout, Finding
  <2>3. BoardTyped'
    BY <1>1, <2>1 DEF AnalysisInv, BoardTyped
  <2>4. AtRest'
    BY <1>2, <2>1 DEF AnalysisInv, AtRest
  <2>5. ~overlapped' => Together'
    BY <1>1, <1>3, <2>1, <2>2 DEF AnalysisInv, Together, ShownIsTracked, NoTracking
  <2> QED
    BY <2>3, <2>4, <2>5 DEF AnalysisInv
<1> QED
  BY <1>4, <1>5, <1>6, <1>7, <1>8, <1>9 DEF LineArrives

\* What a search that ends says comes last.
LEMMA EndedSays ==
    ASSUME NEW from \in Seq(Lines)
    PROVE  from \o Ended = IF engine \in Positions THEN Append(from, Line("bestmove", engine)) ELSE from
<1>1. CASE engine \in Positions
  <2>1. Line("bestmove", engine) \in Lines
    BY <1>1 DEF Line, Lines
  <2>2. Append(from, Line("bestmove", engine)) = from \o <<Line("bestmove", engine)>>
    BY <2>1, AppendIsConcat
  <2> QED
    BY <1>1, <2>2 DEF Ended
<1>2. CASE engine \notin Positions
  <2>1. from \o <<>> = from
    BY ConcatEmptySeq
  <2> QED
    BY <1>2, <2>1 DEF Ended
<1> QED
  BY <1>1, <1>2

\* And one more line after it.
LEMMA LineFollows ==
    ASSUME NEW from \in Seq(Lines), NEW l \in Lines
    PROVE  /\ from \o <<l>> = Append(from, l)
           /\ from \o (Ended \o <<l>>) =
                 Append(IF engine \in Positions THEN Append(from, Line("bestmove", engine)) ELSE from, l)
<1>1. Ended \in Seq(Lines)
  <2>1. engine \in Positions => Line("bestmove", engine) \in Lines
    BY DEF Line, Lines
  <2> QED
    BY <2>1 DEF Ended
<1>2. from \o (Ended \o <<l>>) = (from \o Ended) \o <<l>>
  BY <1>1, ConcatAssociative
<1>3. from \o Ended \in Seq(Lines)
  BY <1>1
<1>4. Append(from \o Ended, l) = (from \o Ended) \o <<l>> /\ Append(from, l) = from \o <<l>>
  BY <1>3, AppendIsConcat
<1> QED
  BY <1>2, <1>4, EndedSays

\* The worker reads, finds, or fails.
LEMMA WorkerKeeps == AnalysisInv /\ (EngineReads \/ EngineFinds \/ EngineFails) => AnalysisInv'
<1> SUFFICES ASSUME AnalysisInv, EngineReads \/ EngineFinds \/ EngineFails PROVE AnalysisInv'
  OBVIOUS
<1> DEFINE to == toEngine
           from == fromEngine
           p == currentFenRef
           c == Head(to)
           found == Append(from, Line("bestmove", engine))
           said == IF engine \in Positions THEN found ELSE from
<1>1. /\ to \in Seq(Commands) /\ from \in Seq(Lines)
      /\ engine \in Positions \cup {"off", "starting", "idle", "dead"}
      /\ UNCHANGED <<study, studying, isEngineReady, searchTimer, queuedSearch,
                     isSearchActive, currentFenRef, tracking, overlapped>>
  BY DEF AnalysisInv, BoardTyped, EngineReads, EngineFinds, EngineFails, EngineSays
<1>2. Enabled /\ Enabled'
  <2>1. engine # "off"
    BY WordsAreNoPositions DEF EngineReads, EngineFinds, EngineFails
  <2> QED
    BY <1>1, <2>1, BoardStays DEF AnalysisInv, AtRest
<1>3. AtRest'
  BY <1>1, <1>2 DEF AnalysisInv, AtRest
<1>4. ASSUME ~overlapped
      PROVE  /\ Orderly(engine, to, from)
             /\ isEngineReady => Introduced(to, from)
             /\ isSearchActive => AllAbout(p, engine, to, from)
             /\ ShownIsTracked
             /\ isSearchActive => tracking.activeFen = p
  BY <1>4 DEF AnalysisInv, Together
<1>5. said \in Seq(Lines)
  <2>1. engine \in Positions => Line("bestmove", engine) \in Lines
    BY DEF Line, Lines
  <2> QED
    BY <1>1, <2>1, AppendedIs
<1>6. ASSUME ~overlapped
      PROVE  /\ Orderly(engine, to, said)
             /\ isEngineReady => Introduced(to, said)
             /\ isSearchActive => AllAbout(p, engine, to, said)
  <2>1. CASE engine \in Positions
    <3>1. /\ Line("bestmove", engine) \in Lines /\ Finding(Line("bestmove", engine))
          /\ Line("bestmove", engine).of = engine
      BY <2>1 DEF Line, Lines, Finding
    <3>2. /\ Orderly(engine, to, found)
          /\ Introduced(to, from) => Introduced(to, found)
          /\ AllAbout(p, engine, to, from) => AllAbout(p, engine, to, found)
      BY <1>1, <1>4, <1>6, <2>1, <3>1, SayingKeeps
    <3> QED
      BY <1>4, <1>6, <2>1, <3>2
  <2>2. CASE engine \notin Positions
    BY <1>4, <1>6, <2>2
  <2> QED
    BY <2>1, <2>2
<1>7. ASSUME UNCHANGED analysis,
             engine' \in Positions \cup {"off", "starting", "idle", "dead"},
             toEngine' \in Seq(Commands), fromEngine' \in Seq(Lines),
             ~overlapped => /\ Orderly(engine', toEngine', fromEngine')
                            /\ isEngineReady => Introduced(toEngine', fromEngine')
                            /\ isSearchActive => AllAbout(p, engine', toEngine', fromEngine')
      PROVE  AnalysisInv'
  <2>1. BoardTyped'
    BY <1>1, <1>7 DEF AnalysisInv, BoardTyped
  <2>2. ~overlapped' => Together'
    BY <1>1, <1>4, <1>7 DEF Together, ShownIsTracked
  <2> QED
    BY <1>3, <2>1, <2>2 DEF AnalysisInv
<1> HIDE DEF said, found
<1>8. ASSUME EngineReads PROVE AnalysisInv'
  <2>1. /\ to # <<>> /\ toEngine' = Tail(to) /\ Tail(to) \in Seq(Commands) /\ c \in Commands
        /\ UNCHANGED analysis
    BY <1>1, <1>8, TailIs DEF EngineReads, EngineSays
  <2>2. CASE c = "uci" /\ engine' = "idle" /\ EngineSays(<<Line("uciok", NoFen)>>)
    <3> DEFINE l == Line("uciok", NoFen)
               more == Append(from, l)
    <3>1. /\ l \in Lines /\ Confirms(l) /\ Question(c)
      BY <2>2 DEF Line, Lines, Confirms, Question
    <3>2. fromEngine' = more
      BY <1>1, <2>2, <3>1, LineFollows DEF EngineSays
    <3>3. more \in Seq(Lines)
      BY <1>1, <3>1, AppendedIs
    <3>4. ASSUME ~overlapped
          PROVE  /\ Orderly("idle", Tail(to), more)
                 /\ ~isEngineReady
                 /\ AllAbout(p, engine, to, from) => AllAbout(p, "idle", Tail(to), more)
      <4>1. ~isEngineReady
        BY <1>1, <1>4, <2>1, <2>2, <3>4, TailIs DEF Introduced
      <4> QED
        BY <1>1, <1>4, <2>1, <3>1, <3>4, <4>1, AnsweringKeeps
    <3> HIDE DEF more
    <3> QED
      BY <1>4, <1>7, <2>1, <2>2, <3>2, <3>3, <3>4
  <2>3. CASE c = "isready" /\ UNCHANGED engine /\ EngineSays(<<Line("readyok", NoFen)>>)
    <3> DEFINE l == Line("readyok", NoFen)
               more == Append(from, l)
    <3>1. /\ l \in Lines /\ Confirms(l) /\ Question(c) /\ l.kind # "uciok"
      BY <2>3 DEF Line, Lines, Confirms, Question
    <3>2. fromEngine' = more
      BY <1>1, <2>3, <3>1, LineFollows DEF EngineSays
    <3>3. more \in Seq(Lines)
      BY <1>1, <3>1, AppendedIs
    <3>4. ASSUME ~overlapped
          PROVE  /\ Orderly(engine, Tail(to), more)
                 /\ Introduced(to, from) => Introduced(Tail(to), more)
                 /\ AllAbout(p, engine, to, from) => AllAbout(p, engine, Tail(to), more)
      BY <1>1, <1>4, <2>1, <3>1, <3>4, AnsweringKeeps
    <3> HIDE DEF more
    <3> QED
      BY <1>1, <1>4, <1>7, <2>1, <2>3, <3>2, <3>3, <3>4
  <2>4. CASE c = "stop" /\ engine' = "idle" /\ EngineSays(Ended)
    <3>1. fromEngine' = said
      BY <1>1, <2>4, EndedSays DEF EngineSays, said, found
    <3>2. ASSUME ~overlapped
          PROVE  /\ Orderly("idle", Tail(to), said)
                 /\ Introduced(to, said) => Introduced(Tail(to), said)
                 /\ AllAbout(p, engine, to, said) => AllAbout(p, "idle", Tail(to), said)
      BY <1>1, <1>5, <1>6, <2>1, <2>4, <3>2, ReadingKeeps
    <3> QED
      BY <1>5, <1>6, <1>7, <2>1, <2>4, <3>1, <3>2
  <2>5. CASE c \in Positions /\ engine' = c /\ EngineSays(Ended \o <<Line("info", c)>>)
    <3> DEFINE l == Line("info", c)
               more == Append(said, l)
    <3>1. l \in Lines /\ Finding(l) /\ l.of = c
      BY <2>5 DEF Line, Lines, Finding
    <3>2. fromEngine' = more
      BY <1>1, <2>5, <3>1, LineFollows DEF EngineSays, said, found
    <3>3. more \in Seq(Lines)
      BY <1>5, <3>1, AppendedIs
    <3>4. ASSUME ~overlapped
          PROVE  /\ Orderly(c, Tail(to), said)
                 /\ Introduced(to, said) => Introduced(Tail(to), said)
                 /\ AllAbout(p, engine, to, said) => AllAbout(p, c, Tail(to), said)
      BY <1>1, <1>5, <1>6, <2>1, <2>5, <3>4, ReadingKeeps
    <3>5. ASSUME ~overlapped
          PROVE  /\ Orderly(c, Tail(to), more)
                 /\ Introduced(Tail(to), said) => Introduced(Tail(to), more)
                 /\ AllAbout(p, c, Tail(to), said) => AllAbout(p, c, Tail(to), more)
      BY <1>5, <2>1, <2>5, <3>1, <3>4, <3>5, SayingKeeps
    <3> HIDE DEF more
    <3> QED
      BY <1>6, <1>7, <2>1, <2>5, <3>2, <3>3, <3>4, <3>5
  <2> QED
    BY <1>8, <2>2, <2>3, <2>4, <2>5 DEF EngineReads
<1>9. ASSUME EngineFinds PROVE AnalysisInv'
  <2>1. /\ engine' = "idle" /\ toEngine' = to /\ fromEngine' = from \o Ended /\ UNCHANGED analysis
    BY <1>9 DEF EngineFinds, EngineSays
  <2>2. fromEngine' = said
    BY <1>1, <2>1, EndedSays DEF said, found
  <2>3. ASSUME ~overlapped
        PROVE  /\ Orderly("idle", to, said)
               /\ AllAbout(p, engine, to, said) => AllAbout(p, "idle", to, said)
    BY <1>1, <1>5, <1>6, <2>3, StoppingKeeps
  <2> QED
    BY <1>1, <1>5, <1>6, <1>7, <2>1, <2>2, <2>3
<1>10. ASSUME EngineFails PROVE AnalysisInv'
  <2>1. /\ engine' = "dead" /\ toEngine' = <<>> /\ fromEngine' = <<>> /\ analysis' = Blank("error")
    BY <1>10 DEF EngineFails
  <2>2. BoardTyped'
    BY <1>1, <2>1 DEF AnalysisInv, BoardTyped, Blank
  <2>3. "dead" \notin Positions
    BY WordsAreNoPositions
  <2>4. ~overlapped' => Together'
    BY <1>1, <1>4, <2>1, <2>3, QuietIsOrderly DEF Together, ShownIsTracked, Blank
  <2> QED
    BY <1>3, <2>2, <2>4 DEF AnalysisInv
<1> QED
  BY <1>8, <1>9, <1>10

LEMMA AnalysisStep == AnalysisInv /\ [AnalysisNext]_analysisVars => AnalysisInv'
<1> SUFFICES ASSUME AnalysisInv, [AnalysisNext]_analysisVars PROVE AnalysisInv'
  OBVIOUS
<1>1. CASE UNCHANGED analysisVars
  <2>1. UNCHANGED <<study, studying>> /\ UNCHANGED engineVars
    BY <1>1 DEF analysisVars
  <2>2. EngineFollows
    BY <2>1, BoardStays DEF EngineFollows
  <2> QED
    BY <2>2, FollowingKeeps
<1>2. CASE AnalysisNext
  BY <1>2, BoardActs, LeavingClears, TimerKeeps, LinesKeep, WorkerKeeps DEF AnalysisNext
<1> QED
  BY <1>1, <1>2

\* The evaluation and the move on show are of the position on the board, unless the
\* engine left a question unanswered for a whole debounce (useStockfishAnalysis).
THEOREM AnalysisIsOfThisPosition == AnalysisSpec => []ShownIsOfThisPosition
<1>1. AnalysisInv => ShownIsOfThisPosition
  <2> SUFFICES ASSUME AnalysisInv, ~overlapped PROVE Shown.of \in {NoFen, Fen}
    BY DEF ShownIsOfThisPosition
  <2>1. /\ ShownIsTracked
        /\ analysis = [status |-> analysis.status, best |-> analysis.best, of |-> analysis.of]
    BY DEF AnalysisInv, Together, BoardTyped
  <2>2. \A s : Blank(s).of = NoFen
    BY DEF Blank
  <2>3. [analysis EXCEPT !.status = "loading"].of = analysis.of
    BY <2>1
  <2>4. Enabled => Fen # NoFen
    BY AnalysisAssumption DEF Enabled
  <2>5. Fen \in {tracking.activeFen, tracking.completedFen} /\ Fen # NoFen
          => analysis.of \in {NoFen, Fen}
    BY <2>1 DEF ShownIsTracked
  <2>6. analysis.status \in {"idle", "error"} => analysis.of = NoFen
    BY <2>1 DEF ShownIsTracked
  <2> QED
    BY <2>2, <2>3, <2>4, <2>5, <2>6 DEF Shown
<1> QED
  BY <1>1, AnalysisInitInv, AnalysisStep, PTL DEF AnalysisSpec

-----------------------------------------------------------------------------
(* The lobby and the game page. *)

\* Rows, answers, events and commands.
GameRows == [plies : Nat, status : Statuses, paused : {"nobody", "me", "opponent"}, ver : Nat,
             me : Colors \cup {"none"}]
Views == [plies : Nat, status : Statuses, paused : BOOLEAN, result : BOOLEAN,
          color : Colors \cup {"none"}, loading : BOOLEAN, premove : BOOLEAN,
          full : Nat, newest : Nat]
Snapshots == [plies : Nat, status : Statuses, paused : BOOLEAN, ver : Nat]
Tellings == {"refused", "NOT_IN_QUEUE"} \cup JoinAnswers
Events == [kind : {"game_state", "game_over"} \cup Tellings, plies : Nat, status : Statuses,
           paused : BOOLEAN, ver : Nat, rated : BOOLEAN]
Orders == [kind : {"queue_join", "queue_leave", "move", "resign"}, seen : Nat]

\* The pages as far as they matter here.
Screens == {"lobby", "game", "elsewhere"}

PlayTyped ==
    /\ game \in GameRows /\ view \in Views
    /\ fetch \in [stage : {"none", "asked", "answered"}, snap : Snapshots]
    /\ inbox \in Seq(Events) /\ outbox \in Seq(Orders)
    /\ gap \in Nat /\ sentFrom \subseteq Nat /\ resent \in BOOLEAN /\ misplaced \in BOOLEAN
    /\ screen \in Screens

\* What is in flight to the browser is on an open line, and the server holds that line.
LineHolds ==
    /\ connectionState = "open" => attached
    /\ unnoticed => connectionState # "open"
    /\ inbox # <<>> => connectionState = "open"

\* A game that has not changed is as it was made, and one without a player has not.
AsMade(g) ==
    /\ g.ver = 0 => g.plies = 0 /\ g.status = "active" /\ g.paused = "nobody"
    /\ g.me = "none" => g.ver = 0

\* An end that leaves the position as it was is on its way.
IsOver(m) == m.kind = "game_over"
EndsInPlace(events) == \E i \in 1 .. Len(events) : IsOver(events[i]) /\ ~events[i].rated

\* A state is of game g: as g is if it is the newest; and where an end that left the
\* position is on its way, in g's position if it is the last before the newest.
Fits(g, events, ver, plies, status, paused) ==
    /\ ver <= g.ver /\ plies <= g.plies
    /\ ver = g.ver => plies = g.plies /\ status = g.status /\ paused = (g.paused # "nobody")
    /\ EndsInPlace(events) /\ ver + 1 = g.ver => plies = g.plies

\* A state event is of game g and, when the game is over, followed by a game_over event;
\* that one is of the newest state; and where there is news the newest comes last.
EventFits(g, events, i) ==
    /\ events[i].kind = "game_state" =>
          /\ events[i].ver > 0
          /\ Fits(g, events, events[i].ver, events[i].plies, events[i].status, events[i].paused)
          /\ events[i].status = "finished" => \E j \in 1 .. Len(events) : j > i /\ IsOver(events[j])
    /\ IsOver(events[i]) =>
          /\ events[i].ver = g.ver /\ g.status = "finished"
          /\ events[i].status = "finished" /\ ~events[i].paused /\ g.paused = "nobody"
    /\ events[i].kind \notin {"game_state", "game_over"} => events[i].ver = 0
    /\ events[i].ver > 0 => \E j \in 1 .. Len(events) : j >= i /\ events[j].ver = g.ver

NewsFit(g, events) == \A i \in 1 .. Len(events) : EventFits(g, events, i)

\* The page shows a state of game g; and the result of a finished one, unless that is to
\* come, or lost.
ViewFits(g, events, v, lost_at) ==
    /\ Fits(g, events, 0, 0, "active", FALSE)
    /\ Fits(g, events, v.full, v.plies, v.status, v.paused)
    /\ v.newest <= g.ver
    /\ v.color \in {"none", g.me}
    /\ v.result => g.status = "finished"
    /\ g.status = "finished" /\ v.full = g.ver =>
          v.result \/ lost_at = g.ver \/ \E i \in 1 .. Len(events) : IsOver(events[i])

\* So does the answer to its request, which starts from an empty page.
FetchFits(g, events, v, f) ==
    /\ f.stage = "answered" =>
          /\ Fits(g, events, f.snap.ver, f.snap.plies, f.snap.status, f.snap.paused)
          /\ f.snap.status = "finished" => g.status = "finished"
    /\ f.stage # "none" => v.full <= v.newest /\ v.color = "none"

\* The newest state was heard of, is on its way, or is known to be lost.
NewestIsHeard(g, events, v, f, lost_at) ==
    \/ f.stage = "asked"
    \/ f.stage = "none" /\ v.color = "none"
    \/ g.ver \in {v.newest, v.full, lost_at}
    \/ f.stage = "answered" /\ f.snap.ver = g.ver
    \/ \E i \in 1 .. Len(events) : events[i].ver = g.ver /\ events[i].ver > 0

\* The page and what it is going to hear are of the server's game.
PageFits ==
    /\ NewsFit(game, inbox)
    /\ ViewFits(game, inbox, view, gap)
    /\ FetchFits(game, inbox, view, fetch)
    /\ screen = "game" => NewestIsHeard(game, inbox, view, fetch, gap)
    /\ screen # "game" => view = FreshGame /\ fetch.stage = "none"
    /\ premoveDue => IsMyTurn(view)

\* As long as no two moves were sent from one position: every move of this player was
\* sent from where it was played, and those on their way are to be played in the present
\* position.
MovesFit(g, sent, orders) ==
    /\ \A q \in Nat : q < g.plies /\ TurnAt(q) = g.me =>
          q \in sent /\ \A k \in 1 .. Len(orders) : orders[k].kind = "move" => orders[k].seen # q
    /\ \A i \in 1 .. Len(orders) : orders[i].kind = "move" =>
          /\ orders[i].seen \in sent /\ orders[i].seen <= g.plies
          /\ TurnAt(orders[i].seen) = g.me
          /\ \A j \in 1 .. Len(orders) :
                orders[j].kind = "move" /\ orders[j].seen = orders[i].seen => j = i

MovesAreAimed == ~resent => ~misplaced /\ MovesFit(game, sentFrom, outbox)

PlayInv == PlayTyped /\ LineHolds /\ AsMade(game) /\ PageFits /\ MovesAreAimed

PlaySafe == Init /\ [][Next]_vars

\* The server's events about a row.
LEMMA EventsAre ==
    ASSUME NEW g \in GameRows, NEW rated \in BOOLEAN
    PROVE  /\ StateEvent(g) \in Events /\ StateEvent(g).kind = "game_state"
           /\ StateEvent(g).ver = g.ver /\ StateEvent(g).plies = g.plies
           /\ StateEvent(g).status = g.status /\ StateEvent(g).paused = (g.paused # "nobody")
           /\ OverEvent(g, rated) \in Events /\ OverEvent(g, rated).kind = "game_over"
           /\ OverEvent(g, rated).ver = g.ver /\ OverEvent(g, rated).plies = g.plies
           /\ OverEvent(g, rated).status = g.status
           /\ OverEvent(g, rated).paused = (g.paused # "nobody")
           /\ OverEvent(g, rated).rated = rated
<1>1. /\ StateEvent(g) \in Events /\ StateEvent(g).kind = "game_state"
      /\ StateEvent(g).ver = g.ver /\ StateEvent(g).plies = g.plies
      /\ StateEvent(g).status = g.status /\ StateEvent(g).paused = (g.paused # "nobody")
  BY DEF StateEvent, Events, GameRows
<1> DEFINE m == StateEvent(g)
<1>2. OverEvent(g, rated) = [m EXCEPT !.kind = "game_over", !.rated = rated]
  BY DEF OverEvent
<1> HIDE DEF m
<1>3. m \in Events
  BY <1>1 DEF m
<1>4. /\ OverEvent(g, rated) \in Events /\ OverEvent(g, rated).kind = "game_over"
      /\ OverEvent(g, rated).ver = m.ver /\ OverEvent(g, rated).plies = m.plies
      /\ OverEvent(g, rated).status = m.status /\ OverEvent(g, rated).paused = m.paused
      /\ OverEvent(g, rated).rated = rated
  BY <1>2, <1>3 DEF Events
<1> QED
  BY <1>1, <1>4 DEF m

\* Once the game has changed, what was a state of it still is one.
LEMMA LaterFits ==
    ASSUME NEW g \in GameRows, NEW h \in GameRows, h.ver = g.ver + 1, g.plies <= h.plies,
           NEW events, NEW more, EndsInPlace(more) => h.plies = g.plies,
           NEW ver \in Nat, NEW plies \in Nat, NEW status, NEW paused,
           Fits(g, events, ver, plies, status, paused)
    PROVE  Fits(h, more, ver, plies, status, paused) /\ ver < h.ver
BY DEF Fits, GameRows

\* So it is when an event is heard or lost.
LEMMA StillFits ==
    ASSUME NEW g, NEW h, h.ver = g.ver, h.plies = g.plies, h.status = g.status,
           h.paused = g.paused,
           NEW events, NEW other, EndsInPlace(other) => EndsInPlace(events),
           NEW ver, NEW plies, NEW status, NEW paused,
           Fits(g, events, ver, plies, status, paused)
    PROVE  Fits(h, other, ver, plies, status, paused)
BY DEF Fits

\* New events come after the others.
LEMMA NewsAreAdded ==
    ASSUME NEW events \in Seq(Events), NEW news \in Seq(Events)
    PROVE  /\ events \o news \in Seq(Events)
           /\ Len(events \o news) = Len(events) + Len(news)
           /\ Len(events) \in Nat /\ Len(news) \in Nat
           /\ \A i \in 1 .. Len(events) : i \in 1 .. Len(events \o news) /\ (events \o news)[i] = events[i]
           /\ \A i \in 1 .. Len(news) : /\ Len(events) + i \in 1 .. Len(events \o news)
                                        /\ (events \o news)[Len(events) + i] = news[i]
           /\ \A k \in 1 .. Len(events \o news) : k \in 1 .. Len(events)
                                            \/ k - Len(events) \in 1 .. Len(news)
BY ConcatProperties

\* News that announce h, the state after g.
Announces(g, h, news) ==
    /\ Len(news) > 0
    /\ \A i \in 1 .. Len(news) :
          /\ news[i].ver = h.ver /\ news[i].kind \in {"game_state", "game_over"}
          /\ news[i].kind = "game_state" =>
                /\ news[i].plies = h.plies /\ news[i].status = h.status
                /\ news[i].paused = (h.paused # "nobody")
                /\ h.status = "finished" => \E j \in 1 .. Len(news) : j > i /\ IsOver(news[j])
          /\ IsOver(news[i]) =>
                /\ h.status = "finished" /\ news[i].status = "finished"
                /\ ~news[i].paused /\ h.paused = "nobody"
                /\ ~news[i].rated => h.plies = g.plies

\* They fit after those of g.
LEMMA NewsOfChange ==
    ASSUME NEW g \in GameRows, NEW h \in GameRows, h.ver = g.ver + 1, g.plies <= h.plies,
           g.status = "active", NEW events \in Seq(Events), NewsFit(g, events),
           NEW news \in Seq(Events), Announces(g, h, news)
    PROVE  /\ NewsFit(h, events \o news)
           /\ EndsInPlace(events \o news) => h.plies = g.plies
           /\ \E i \in 1 .. Len(events \o news) :
                 (events \o news)[i].ver = h.ver /\ (events \o news)[i].ver > 0
<1> DEFINE all == events \o news
           n == Len(events)
<1>1. /\ all \in Seq(Events) /\ Len(all) = n + Len(news) /\ n \in Nat /\ Len(news) \in Nat
      /\ \A i \in 1 .. n : i \in 1 .. Len(all) /\ all[i] = events[i]
      /\ \A i \in 1 .. Len(news) : n + i \in 1 .. Len(all) /\ all[n + i] = news[i]
      /\ \A k \in 1 .. Len(all) : k \in 1 .. n \/ k - n \in 1 .. Len(news)
  BY NewsAreAdded
<1>2. g.ver \in Nat /\ h.ver \in Nat /\ h.ver > 0 /\ g.status # "finished"
  BY DEF GameRows
<1> HIDE DEF all, n
<1>3. \A i \in 1 .. n : ~IsOver(events[i])
  BY <1>1, <1>2 DEF NewsFit, EventFits, n
<1>4. \A k \in 1 .. Len(all) : k - n \in 1 .. Len(news) => n + (k - n) = k
  BY <1>1
<1>5. \A k \in 1 .. Len(all) : k - n \in 1 .. Len(news) => all[k] = news[k - n]
  BY <1>1, <1>4
<1>6. EndsInPlace(all) => h.plies = g.plies
  <2> SUFFICES ASSUME NEW k \in 1 .. Len(all), IsOver(all[k]), ~all[k].rated
               PROVE  h.plies = g.plies
    BY DEF EndsInPlace
  <2>1. k - n \in 1 .. Len(news)
    BY <1>1, <1>3
  <2> QED
    BY <1>5, <2>1 DEF Announces
<1>7. n + 1 \in 1 .. Len(all) /\ all[n + 1].ver = h.ver /\ \A k \in 1 .. n : n + 1 >= k
  BY <1>1 DEF Announces
<1>8. ASSUME NEW k \in 1 .. n
      PROVE  EventFits(h, all, k)
  <2>1. /\ EventFits(g, events, k) /\ all[k] = events[k] /\ events[k] \in Events
        /\ ~IsOver(events[k]) /\ k \in 1 .. Len(all) /\ k \in 1 .. Len(events)
    BY <1>1, <1>3, <1>8 DEF NewsFit, n
  <2>2. CASE events[k].kind = "game_state"
    <3>1. /\ events[k].ver > 0 /\ events[k].status # "finished"
          /\ Fits(g, events, events[k].ver, events[k].plies, events[k].status, events[k].paused)
      BY <1>3, <2>1, <2>2 DEF EventFits, n
    <3>2. Fits(h, all, events[k].ver, events[k].plies, events[k].status, events[k].paused)
      BY <1>6, <2>1, <3>1, LaterFits DEF Events
    <3> QED
      BY <1>7, <2>1, <2>2, <3>1, <3>2 DEF EventFits, IsOver
  <2>3. CASE events[k].kind # "game_state"
    <3>1. events[k].ver = 0
      BY <2>1, <2>3 DEF EventFits, IsOver
    <3> QED
      BY <2>1, <2>3, <3>1 DEF EventFits, IsOver
  <2> QED
    BY <2>2, <2>3
<1>9. ASSUME NEW k \in 1 .. Len(all), k - n \in 1 .. Len(news)
      PROVE  EventFits(h, all, k)
  <2> DEFINE i == k - n
  <2>1. i \in 1 .. Len(news) /\ all[k] = news[i] /\ n + i = k /\ k >= k
    BY <1>1, <1>4, <1>5, <1>9
  <2> HIDE DEF i
  <2>2. /\ all[k].ver = h.ver /\ all[k].kind \in {"game_state", "game_over"}
        /\ IsOver(all[k]) => /\ h.status = "finished" /\ all[k].status = "finished"
                             /\ ~all[k].paused /\ h.paused = "nobody"
    BY <2>1 DEF Announces
  <2>3. CASE all[k].kind = "game_state"
    <3>1. /\ all[k].plies = h.plies /\ all[k].status = h.status
          /\ all[k].paused = (h.paused # "nobody")
      BY <2>1, <2>3 DEF Announces
    <3>2. Fits(h, all, all[k].ver, all[k].plies, all[k].status, all[k].paused)
      BY <1>2, <2>2, <3>1 DEF Fits, GameRows
    <3>3. ASSUME all[k].status = "finished"
          PROVE  \E j \in 1 .. Len(all) : j > k /\ IsOver(all[j])
      <4>1. PICK j \in 1 .. Len(news) : j > i /\ IsOver(news[j])
        BY <2>1, <2>3, <3>1, <3>3 DEF Announces
      <4>2. n + j \in 1 .. Len(all) /\ all[n + j] = news[j]
        BY <1>1
      <4>3. n + j > k
        BY <1>1, <2>1, <4>1
      <4> QED
        BY <4>1, <4>2, <4>3
    <3> QED
      BY <1>2, <2>1, <2>2, <2>3, <3>2, <3>3 DEF EventFits, IsOver
  <2>4. CASE all[k].kind # "game_state"
    BY <2>1, <2>2, <2>4 DEF EventFits, IsOver
  <2> QED
    BY <2>3, <2>4
<1>10. NewsFit(h, all)
  BY <1>1, <1>8, <1>9 DEF NewsFit
<1> QED
  BY <1>2, <1>6, <1>7, <1>10 DEF all

\* News that are no news of the game disturb nothing.
LEMMA NewsOfNothing ==
    ASSUME NEW g \in GameRows, NEW h \in GameRows, h.ver = g.ver, h.plies = g.plies,
           h.status = g.status, h.paused = g.paused,
           NEW events \in Seq(Events), NewsFit(g, events), NEW news \in Seq(Events),
           \A i \in 1 .. Len(news) : /\ news[i].ver = 0
                                     /\ news[i].kind \notin {"game_state", "game_over"}
    PROVE  /\ NewsFit(h, events \o news)
           /\ EndsInPlace(events \o news) => EndsInPlace(events)
           /\ \A i \in 1 .. Len(events) :
                 i \in 1 .. Len(events \o news) /\ (events \o news)[i] = events[i]
<1> DEFINE all == events \o news
           n == Len(events)
<1>1. /\ all \in Seq(Events) /\ Len(all) = n + Len(news) /\ n \in Nat /\ Len(news) \in Nat
      /\ \A i \in 1 .. n : i \in 1 .. Len(all) /\ all[i] = events[i]
      /\ \A i \in 1 .. Len(news) : n + i \in 1 .. Len(all) /\ all[n + i] = news[i]
      /\ \A k \in 1 .. Len(all) : k \in 1 .. n \/ k - n \in 1 .. Len(news)
  BY NewsAreAdded
<1> HIDE DEF all, n
<1>2. \A k \in 1 .. Len(all) : k - n \in 1 .. Len(news) => n + (k - n) = k
  BY <1>1
<1>3. \A k \in 1 .. Len(all) : k - n \in 1 .. Len(news) =>
         all[k].ver = 0 /\ all[k].kind \notin {"game_state", "game_over"}
  BY ZenonT(30), <1>1, <1>2
<1>4. EndsInPlace(all) => EndsInPlace(events)
  BY <1>1, <1>3 DEF EndsInPlace, IsOver, n
<1>5. ASSUME NEW k \in 1 .. n
      PROVE  EventFits(h, all, k)
  <2>1. /\ EventFits(g, events, k) /\ all[k] = events[k]
        /\ \A j \in 1 .. Len(events) : j \in 1 .. Len(all) /\ all[j] = events[j]
    BY <1>1, <1>5 DEF NewsFit, n
  <2>2. ASSUME Fits(g, events, events[k].ver, events[k].plies, events[k].status, events[k].paused)
        PROVE  Fits(h, all, events[k].ver, events[k].plies, events[k].status, events[k].paused)
    BY SMTT(30), <1>4, <2>2, StillFits
  <2> QED
    BY <2>1, <2>2 DEF EventFits
<1>6. ASSUME NEW k \in 1 .. Len(all), k - n \in 1 .. Len(news)
      PROVE  EventFits(h, all, k)
  BY <1>3, <1>6 DEF EventFits, IsOver
<1>7. NewsFit(h, all)
  BY <1>1, <1>5, <1>6 DEF NewsFit
<1> QED
  BY <1>1, <1>4, <1>7 DEF all, n

\* Nor does it disturb anything that an event is heard.
LEMMA NewsAreHeard ==
    ASSUME NEW g, NEW events \in Seq(Events), events # <<>>, NewsFit(g, events)
    PROVE  /\ NewsFit(g, Tail(events))
           /\ EndsInPlace(Tail(events)) => EndsInPlace(events)
<1> DEFINE rest == Tail(events)
<1>1. /\ Len(events) \in Nat /\ Len(events) > 0 /\ Len(rest) = Len(events) - 1
      /\ \A i \in 1 .. Len(rest) : rest[i] = events[i + 1] /\ i + 1 \in 1 .. Len(events)
      /\ \A j \in 1 .. Len(events) : j > 1 => j - 1 \in 1 .. Len(rest) /\ (j - 1) + 1 = j
  OBVIOUS
<1> HIDE DEF rest
<1>2. \A j \in 1 .. Len(events) : j > 1 => rest[j - 1] = events[j]
  BY <1>1
<1>3. EndsInPlace(rest) => EndsInPlace(events)
  BY <1>1 DEF EndsInPlace
<1>4. ASSUME NEW k \in 1 .. Len(rest)
      PROVE  EventFits(g, rest, k)
  <2> DEFINE i == k + 1
  <2>1. i \in 1 .. Len(events) /\ rest[k] = events[i] /\ EventFits(g, events, i) /\ k \in Nat
    BY <1>1 DEF NewsFit
  <2>2. \A j \in 1 .. Len(events) : j > i => j > 1 /\ j - 1 > k
    BY <2>1
  <2>3. \A j \in 1 .. Len(events) : j >= i => j > 1 /\ j - 1 >= k
    BY <2>1
  <2> HIDE DEF i
  <2>4. (\E j \in 1 .. Len(events) : j > i /\ IsOver(events[j]))
          => \E j \in 1 .. Len(rest) : j > k /\ IsOver(rest[j])
    BY <1>1, <1>2, <2>2
  <2>5. (\E j \in 1 .. Len(events) : j >= i /\ events[j].ver = g.ver)
          => \E j \in 1 .. Len(rest) : j >= k /\ rest[j].ver = g.ver
    BY ZenonT(30), <1>1, <1>2, <2>3
  <2>6. ASSUME Fits(g, events, rest[k].ver, rest[k].plies, rest[k].status, rest[k].paused)
        PROVE  Fits(g, rest, rest[k].ver, rest[k].plies, rest[k].status, rest[k].paused)
    BY ZenonT(30), <1>3, <2>6, StillFits
  <2> QED
    BY <2>1, <2>4, <2>5, <2>6 DEF EventFits
<1> QED
  BY <1>3, <1>4 DEF NewsFit, rest

\* The page fits a changed game that it will be told of, or whose state is known to be lost.
LEMMA PageAfterChange ==
    ASSUME PlayTyped, PageFits, game' \in GameRows, game'.ver = game.ver + 1,
           game'.me = game.me, game.plies <= game'.plies, game.status = "active",
           UNCHANGED <<view, fetch, screen, premoveDue>>,
           NEW news \in Seq(Events), Announces(game, game', news),
           \/ inbox' = inbox \o news /\ gap' = gap
           \/ inbox' = <<>> /\ inbox = <<>> /\ gap' = game'.ver
    PROVE  PageFits'
<1>1. /\ game \in GameRows /\ game'.ver \in Nat /\ game.ver \in Nat /\ game.status # "finished"
      /\ inbox \in Seq(Events) /\ view \in Views
      /\ fetch.snap \in Snapshots
  BY DEF PlayTyped, GameRows
<1>2. /\ NewsFit(game', inbox')
      /\ EndsInPlace(inbox') => game'.plies = game.plies
      /\ \/ \E i \in 1 .. Len(inbox') : inbox'[i].ver = game'.ver /\ inbox'[i].ver > 0
         \/ gap' = game'.ver
  <2>1. CASE inbox' = inbox \o news
    BY <1>1, <2>1, NewsOfChange DEF PageFits
  <2>2. CASE inbox' = <<>> /\ gap' = game'.ver
    BY <2>2 DEF NewsFit, EndsInPlace
  <2> QED
    BY <2>1, <2>2
<1>3. \A ver, plies \in Nat : \A status, paused :
         Fits(game, inbox, ver, plies, status, paused)
           => Fits(game', inbox', ver, plies, status, paused) /\ ver < game'.ver
  BY <1>1, <1>2, LaterFits
<1>4. ViewFits(game', inbox', view, gap')
  <2>1. /\ Fits(game, inbox, 0, 0, "active", FALSE)
        /\ Fits(game, inbox, view.full, view.plies, view.status, view.paused)
        /\ view.full \in Nat /\ view.plies \in Nat
    BY <1>1 DEF PageFits, ViewFits, Views
  <2>2. /\ Fits(game', inbox', 0, 0, "active", FALSE)
        /\ Fits(game', inbox', view.full, view.plies, view.status, view.paused)
        /\ view.full < game'.ver
    BY <1>3, <2>1
  <2>3. view.full # game'.ver
    BY <1>1, <2>1, <2>2
  <2>4. view.newest <= game'.ver /\ view.color \in {"none", game'.me} /\ ~view.result
    BY <1>1 DEF PageFits, ViewFits, Views
  <2> QED
    BY <2>2, <2>3, <2>4 DEF ViewFits
<1>5. FetchFits(game', inbox', view, fetch)
  <2>1. fetch.snap.ver \in Nat /\ fetch.snap.plies \in Nat
    BY <1>1 DEF Snapshots
  <2> QED
    BY <1>1, <1>3, <2>1 DEF PageFits, FetchFits
<1>6. NewestIsHeard(game', inbox', view, fetch, gap')
  BY <1>2 DEF NewestIsHeard
<1>7. view' = view /\ fetch' = fetch /\ screen' = screen /\ premoveDue' = premoveDue
  OBVIOUS
<1> QED
  BY <1>2, <1>4, <1>5, <1>6, <1>7 DEF PageFits

\* It fits the same game when something else is said.
LEMMA PageAfterNothing ==
    ASSUME PlayTyped, PageFits, game' \in GameRows, game'.ver = game.ver,
           game.me \in {"none", game'.me}, game'.plies = game.plies,
           game'.status = game.status, game'.paused = game.paused,
           UNCHANGED <<view, fetch, screen, premoveDue, gap>>,
           NEW news \in Seq(Events),
           \A i \in 1 .. Len(news) : /\ news[i].ver = 0
                                     /\ news[i].kind \notin {"game_state", "game_over"},
           inbox' = inbox \o news
    PROVE  PageFits'
<1>1. game \in GameRows /\ inbox \in Seq(Events)
  BY DEF PlayTyped
<1>2. /\ NewsFit(game', inbox')
      /\ EndsInPlace(inbox') => EndsInPlace(inbox)
      /\ \A i \in 1 .. Len(inbox) : i \in 1 .. Len(inbox') /\ inbox'[i] = inbox[i]
  <2>1. NewsFit(game, inbox)
    BY DEF PageFits
  <2> QED
    BY <1>1, <2>1, NewsOfNothing
<1>3. \A ver, plies, status, paused : Fits(game, inbox, ver, plies, status, paused)
                                        => Fits(game', inbox', ver, plies, status, paused)
  BY <1>2, StillFits
<1>4. ViewFits(game', inbox', view, gap)
  BY <1>2, <1>3 DEF PageFits, ViewFits
<1>5. FetchFits(game', inbox', view, fetch)
  BY <1>3 DEF PageFits, FetchFits
<1>6. screen = "game" => NewestIsHeard(game', inbox', view, fetch, gap)
  BY <1>2 DEF PageFits, NewestIsHeard
<1>7. view' = view /\ fetch' = fetch /\ screen' = screen /\ premoveDue' = premoveDue /\ gap' = gap
  OBVIOUS
<1> QED
  BY <1>2, <1>4, <1>5, <1>6, <1>7 DEF PageFits

\* It fits the game when everything on its way is lost, which is noted.
LEMMA PageAfterLoss ==
    ASSUME PlayTyped, AsMade(game), PageFits, LoseInbox,
           UNCHANGED <<game, view, fetch, screen, premoveDue>>
    PROVE  PageFits' /\ inbox' = <<>> /\ gap' \in Nat
<1>1. /\ inbox' = <<>> /\ game.ver \in Nat /\ inbox \in Seq(Events) /\ gap \in Nat
      /\ \/ gap' = game.ver
         \/ gap' = gap /\ \A i \in 1 .. Len(inbox) : ~(inbox[i].ver > 0)
  <2>1. inbox \in Seq(Events) /\ DOMAIN inbox = 1 .. Len(inbox)
    BY DEF PlayTyped
  <2> QED
    BY <2>1 DEF LoseInbox, PlayTyped, GameRows
<1>2. NewsFit(game, <<>>) /\ ~EndsInPlace(<<>>)
  BY DEF NewsFit, EndsInPlace
<1>3. \A ver, plies, status, paused : Fits(game, inbox, ver, plies, status, paused)
                                        => Fits(game, <<>>, ver, plies, status, paused)
  BY <1>2, StillFits
<1>4. \A i \in 1 .. Len(inbox) : IsOver(inbox[i]) => inbox[i].ver > 0
  BY <1>1 DEF PageFits, NewsFit, EventFits, AsMade
<1>5. ViewFits(game, <<>>, view, gap')
  BY <1>1, <1>3, <1>4 DEF PageFits, ViewFits
<1>6. FetchFits(game, <<>>, view, fetch)
  BY <1>3 DEF PageFits, FetchFits
<1>7. screen = "game" => NewestIsHeard(game, <<>>, view, fetch, gap')
  <2> SUFFICES ASSUME screen = "game" PROVE NewestIsHeard(game, <<>>, view, fetch, gap')
    OBVIOUS
  <2>1. NewestIsHeard(game, inbox, view, fetch, gap)
    BY DEF PageFits
  <2>2. CASE gap' = game.ver
    BY <2>2 DEF NewestIsHeard
  <2>3. CASE gap' = gap /\ \A i \in 1 .. Len(inbox) : ~(inbox[i].ver > 0)
    BY <2>1, <2>3 DEF NewestIsHeard
  <2> QED
    BY <1>1, <2>2, <2>3
<1>8. game' = game /\ view' = view /\ fetch' = fetch /\ screen' = screen /\ premoveDue' = premoveDue
  OBVIOUS
<1>9. PageFits'
  BY <1>1, <1>2, <1>5, <1>6, <1>7, <1>8 DEF PageFits
<1> QED
  BY <1>1, <1>9

-----------------------------------------------------------------------------
LEMMA PlayInitInv == Init => PlayInv
<1> SUFFICES ASSUME Init PROVE PlayInv
  OBVIOUS
<1>1. /\ game.plies = 0 /\ game.status = "active" /\ game.paused = "nobody" /\ game.ver = 0
      /\ game.me \in Colors \cup {"none"} /\ game \in GameRows
      /\ view = FreshGame /\ inbox = <<>> /\ outbox = <<>> /\ ~premoveDue
      /\ fetch = IF screen = "game" THEN Requested ELSE NoFetch
      /\ screen \in Screens
  BY DEF Init, GameRows, Statuses, Screens
<1>2. view \in Views /\ fetch \in [stage : {"none", "asked", "answered"}, snap : Snapshots]
  BY <1>1 DEF FreshGame, Views, Requested, NoFetch, Snapshots, Statuses
<1>3. PlayTyped
  <2>1. gap = 0 /\ sentFrom = {} /\ resent = FALSE /\ misplaced = FALSE
    BY DEF Init
  <2>2. <<>> \in Seq(Events) /\ <<>> \in Seq(Orders)
    OBVIOUS
  <2> QED
    BY <1>1, <1>2, <2>1, <2>2 DEF PlayTyped
<1>4. LineHolds /\ AsMade(game)
  BY <1>1 DEF Init, LineHolds, AsMade
<1>5. Fits(game, <<>>, 0, 0, "active", FALSE) /\ NewsFit(game, <<>>)
  BY <1>1 DEF Fits, NewsFit, EndsInPlace
<1>6. ViewFits(game, <<>>, view, gap)
  <2>1. /\ view.full = 0 /\ view.plies = 0 /\ view.status = "active" /\ view.paused = FALSE
        /\ view.newest = 0 /\ view.color = "none" /\ view.result = FALSE
    BY <1>1 DEF FreshGame
  <2>2. Fits(game, <<>>, view.full, view.plies, view.status, view.paused)
    BY <1>5, <2>1
  <2>3. view.newest <= game.ver
    BY <1>1, <2>1
  <2> QED
    BY <1>1, <1>5, <2>1, <2>2, <2>3 DEF ViewFits
<1>7. /\ screen = "game" => fetch.stage = "asked"
      /\ screen # "game" => fetch.stage = "none"
  BY <1>1 DEF Requested, NoFetch
<1>8. FetchFits(game, <<>>, view, fetch)
  BY <1>1, <1>7 DEF FetchFits, FreshGame
<1>9. PageFits
  BY <1>1, <1>5, <1>6, <1>7, <1>8 DEF PageFits, NewestIsHeard
<1>10. MovesAreAimed
  BY <1>1 DEF Init, MovesAreAimed, MovesFit
<1> QED
  BY <1>3, <1>4, <1>9, <1>10 DEF PlayInv

\* Commands that are read or lost, or are no moves, disturb no move.
LEMMA MovesStay ==
    ASSUME NEW g, NEW h, h.plies = g.plies, h.me = g.me, NEW sent,
           NEW orders \in Seq(Orders), MovesFit(g, sent, orders)
    PROVE  /\ MovesFit(h, sent, orders)
           /\ MovesFit(h, sent, <<>>)
           /\ orders # <<>> => MovesFit(h, sent, Tail(orders))
           /\ \A c \in Orders : c.kind # "move" => MovesFit(h, sent, Append(orders, c))
<1>1. MovesFit(h, sent, orders)
  BY DEF MovesFit
<1>2. MovesFit(h, sent, <<>>)
  BY DEF MovesFit
<1>3. ASSUME orders # <<>>
      PROVE  MovesFit(h, sent, Tail(orders))
  <2> DEFINE rest == Tail(orders)
  <2>1. /\ Len(orders) \in Nat /\ Len(rest) = Len(orders) - 1
        /\ \A i \in 1 .. Len(rest) : rest[i] = orders[i + 1] /\ i + 1 \in 1 .. Len(orders)
    BY <1>3
  <2> HIDE DEF rest
  <2>2. \A i, j \in 1 .. Len(rest) : i + 1 = j + 1 => i = j
    BY <2>1
  <2>3. \A q \in Nat : q < h.plies /\ TurnAt(q) = h.me =>
           q \in sent /\ \A k \in 1 .. Len(rest) : rest[k].kind = "move" => rest[k].seen # q
    BY <2>1 DEF MovesFit
  <2>4. ASSUME NEW i \in 1 .. Len(rest), rest[i].kind = "move"
        PROVE  /\ rest[i].seen \in sent /\ rest[i].seen <= h.plies
               /\ TurnAt(rest[i].seen) = h.me
               /\ \A j \in 1 .. Len(rest) : rest[j].kind = "move" /\ rest[j].seen = rest[i].seen => j = i
    <3>1. i + 1 \in 1 .. Len(orders) /\ rest[i] = orders[i + 1]
      BY <2>1
    <3>2. /\ orders[i + 1].seen \in sent /\ orders[i + 1].seen <= g.plies
          /\ TurnAt(orders[i + 1].seen) = g.me
          /\ \A j \in 1 .. Len(orders) :
                orders[j].kind = "move" /\ orders[j].seen = orders[i + 1].seen => j = i + 1
      BY <2>4, <3>1 DEF MovesFit
    <3>3. \A j \in 1 .. Len(rest) : rest[j].kind = "move" /\ rest[j].seen = rest[i].seen => j + 1 = i + 1
      BY <2>1, <3>1, <3>2
    <3> QED
      BY <2>2, <3>1, <3>2, <3>3
  <2>5. MovesFit(h, sent, rest)
    BY <2>3, <2>4 DEF MovesFit
  <2> QED
    BY <2>5 DEF rest
<1>4. ASSUME NEW c \in Orders, c.kind # "move"
      PROVE  MovesFit(h, sent, Append(orders, c))
  <2> DEFINE more == Append(orders, c)
  <2>1. /\ Len(orders) \in Nat /\ Len(more) = Len(orders) + 1
        /\ \A i \in 1 .. Len(orders) : more[i] = orders[i]
        /\ more[Len(orders) + 1] = c
    BY <1>4
  <2> HIDE DEF more
  <2>2. \A i \in 1 .. Len(more) : more[i].kind = "move" => i \in 1 .. Len(orders) /\ more[i] = orders[i]
    BY <1>4, <2>1
  <2>3. MovesFit(h, sent, more)
    BY <1>1, <2>2 DEF MovesFit
  <2> QED
    BY <2>3 DEF more
<1> QED
  BY <1>1, <1>2, <1>3, <1>4

\* A move is sent from the position on show.
LEMMA MoveIsSent ==
    ASSUME NEW g \in GameRows, NEW sent \in SUBSET Nat, NEW orders \in Seq(Orders),
           MovesFit(g, sent, orders), NEW p \in Nat, p <= g.plies, TurnAt(p) = g.me, p \notin sent
    PROVE  MovesFit(g, sent \cup {p}, Append(orders, [kind |-> "move", seen |-> p]))
<1> DEFINE c == [kind |-> "move", seen |-> p]
           more == Append(orders, c)
<1>1. c.seen = p /\ c \in Orders
  BY DEF Orders
<1> HIDE DEF c
<1>2. /\ Len(orders) \in Nat /\ Len(more) = Len(orders) + 1
      /\ \A i \in 1 .. Len(orders) : more[i] = orders[i]
      /\ more[Len(orders) + 1] = c
  BY <1>1
<1> HIDE DEF more
<1>3. \A i \in 1 .. Len(more) : i \in 1 .. Len(orders) \/ i = Len(orders) + 1
  BY <1>2
<1>4. \A i \in 1 .. Len(orders) : orders[i].kind = "move" => orders[i].seen # p
  BY DEF MovesFit
<1>5. g.plies \in Nat
  BY DEF GameRows
<1>6. ASSUME NEW q \in Nat, q < g.plies, TurnAt(q) = g.me
      PROVE  /\ q \in sent \cup {p}
             /\ \A k \in 1 .. Len(more) : more[k].kind = "move" => more[k].seen # q
  <2>1. q \in sent /\ \A k \in 1 .. Len(orders) : orders[k].kind = "move" => orders[k].seen # q
    BY <1>6 DEF MovesFit
  <2> QED
    BY <1>1, <1>2, <1>3, <2>1
<1>7. ASSUME NEW i \in 1 .. Len(more), more[i].kind = "move"
      PROVE  /\ more[i].seen \in sent \cup {p} /\ more[i].seen <= g.plies
             /\ TurnAt(more[i].seen) = g.me
             /\ \A j \in 1 .. Len(more) : more[j].kind = "move" /\ more[j].seen = more[i].seen => j = i
  <2>1. CASE i \in 1 .. Len(orders)
    <3>1. /\ more[i] = orders[i] /\ orders[i].seen \in sent /\ orders[i].seen <= g.plies
          /\ TurnAt(orders[i].seen) = g.me /\ orders[i].seen # p
          /\ \A j \in 1 .. Len(orders) :
                orders[j].kind = "move" /\ orders[j].seen = orders[i].seen => j = i
      BY <1>2, <1>4, <1>7, <2>1 DEF MovesFit
    <3>2. \A j \in 1 .. Len(more) : more[j].kind = "move" /\ more[j].seen = more[i].seen => j = i
      BY <1>1, <1>2, <1>3, <3>1
    <3> QED
      BY <3>1, <3>2
  <2>2. CASE i = Len(orders) + 1
    <3>1. more[i].seen = p
      BY <1>1, <1>2, <2>2
    <3>2. \A j \in 1 .. Len(more) : more[j].kind = "move" /\ more[j].seen = p => j = i
      BY <1>2, <1>3, <1>4, <2>2
    <3> QED
      BY <3>1, <3>2
  <2> QED
    BY <1>3, <2>1, <2>2
<1>8. MovesFit(g, sent \cup {p}, more)
  BY <1>6, <1>7 DEF MovesFit
<1> QED
  BY <1>8 DEF more, c

\* The line goes down, fails or is dialled again.
LEMMA LineKeeps == PlayInv /\ (LinkDown \/ LinkFails \/ LinkRetries) => PlayInv'
<1> SUFFICES ASSUME PlayInv, LinkDown \/ LinkFails \/ LinkRetries PROVE PlayInv'
  OBVIOUS
<1>1. /\ LoseInbox /\ connectionState' # "open"
      /\ outbox' \in {outbox, <<>>}
      /\ UNCHANGED <<attached, game, view, fetch, screen, premoveDue, sentFrom, resent, misplaced>>
  BY DEF LinkDown, LinkFails, LinkRetries, Lose, Fail, Retry, pageVars
<1>2. PageFits' /\ inbox' = <<>> /\ gap' \in Nat
  BY <1>1, PageAfterLoss DEF PlayInv
<1>3. PlayTyped'
  <2>1. <<>> \in Seq(Events) /\ <<>> \in Seq(Orders)
    OBVIOUS
  <2> QED
    BY <1>1, <1>2, <2>1 DEF PlayInv, PlayTyped
<1>4. LineHolds'
  BY <1>1, <1>2 DEF LineHolds
<1>5. AsMade(game)'
  BY <1>1 DEF PlayInv, AsMade
<1>6. MovesAreAimed'
  BY <1>1, MovesStay DEF PlayInv, PlayTyped, MovesAreAimed
<1> QED
  BY <1>2, <1>3, <1>4, <1>5, <1>6 DEF PlayInv

\* The page still fits when only the queued premove changes.
LEMMA PageWithPremove ==
    ASSUME PlayTyped, PageFits, NEW b \in BOOLEAN, screen = "game",
           view' = [view EXCEPT !.premove = b],
           UNCHANGED <<game, inbox, gap, fetch, screen>>, premoveDue' => premoveDue
    PROVE  PageFits' /\ view' \in Views
<1>1. /\ view \in Views /\ view' \in Views
      /\ view'.plies = view.plies /\ view'.status = view.status /\ view'.paused = view.paused
      /\ view'.result = view.result /\ view'.color = view.color
      /\ view'.full = view.full /\ view'.newest = view.newest
  BY DEF PlayTyped, Views
<1>2. /\ ViewFits(game, inbox, view', gap) /\ FetchFits(game, inbox, view', fetch)
      /\ NewestIsHeard(game, inbox, view', fetch, gap)
  BY <1>1 DEF PageFits, ViewFits, FetchFits, NewestIsHeard
<1>3. premoveDue' => IsMyTurn(view')
  BY <1>1 DEF PageFits, IsMyTurn
<1>4. game' = game /\ inbox' = inbox /\ gap' = gap /\ fetch' = fetch /\ screen' = "game"
  OBVIOUS
<1>5. NewsFit(game, inbox)
  BY DEF PageFits
<1> QED
  BY <1>1, <1>2, <1>3, <1>4, <1>5 DEF PageFits

\* So it does when it is mounted.
LEMMA PageMounted ==
    ASSUME AsMade(game), game \in GameRows, Mounted, game' = game, NewsFit(game, inbox'),
           Fits(game, inbox', 0, 0, "active", FALSE), screen' = "game"
    PROVE  /\ PageFits' /\ view' \in Views
           /\ fetch' \in [stage : {"none", "asked", "answered"}, snap : Snapshots]
<1>1. view' = FreshGame /\ fetch' = Requested /\ premoveDue' = FALSE
  BY DEF Mounted
<1>2. /\ FreshGame \in Views
      /\ FreshGame.full = 0 /\ FreshGame.plies = 0 /\ FreshGame.status = "active"
      /\ FreshGame.paused = FALSE /\ FreshGame.newest = 0 /\ FreshGame.color = "none"
      /\ FreshGame.result = FALSE
  BY DEF FreshGame, Views, Statuses
<1>3. /\ Requested \in [stage : {"none", "asked", "answered"}, snap : Snapshots]
      /\ Requested.stage = "asked"
  BY DEF Requested, NoFetch, Snapshots, Statuses
<1>4. game.ver \in Nat /\ (game.status = "finished" => game.ver # 0)
  BY DEF GameRows, AsMade
<1>5. ViewFits(game, inbox', FreshGame, gap')
  <2>1. Fits(game, inbox', FreshGame.full, FreshGame.plies, FreshGame.status, FreshGame.paused)
    BY <1>2
  <2>2. FreshGame.newest <= game.ver
    BY <1>2, <1>4
  <2> QED
    BY <1>2, <1>4, <2>1, <2>2 DEF ViewFits
<1>6. FetchFits(game, inbox', FreshGame, Requested)
  BY <1>2, <1>3 DEF FetchFits
<1>7. NewestIsHeard(game, inbox', FreshGame, Requested, gap')
  BY <1>3 DEF NewestIsHeard
<1> QED
  BY <1>1, <1>2, <1>3, <1>5, <1>6, <1>7 DEF PageFits

\* The page's own steps but moves: buttons, the queued premove, the request for the game.
LEMMA PageKeeps ==
    PlayInv /\ (JoinQueue \/ LeaveQueue \/ LeaveLobby \/ ReturnToLobby \/ Resign \/ SetPremove \/ ClearPremove \/ Remount
                \/ FetchServed \/ FetchFails \/ FetchArrives) => PlayInv'
<1> SUFFICES ASSUME PlayInv,
                    JoinQueue \/ LeaveQueue \/ LeaveLobby \/ ReturnToLobby \/ Resign \/ SetPremove \/ ClearPremove \/ Remount
                    \/ FetchServed \/ FetchFails \/ FetchArrives
             PROVE  PlayInv'
  OBVIOUS
<1>1. /\ PlayTyped /\ LineHolds /\ AsMade(game) /\ PageFits /\ MovesAreAimed
  BY DEF PlayInv
<1>2. /\ game' = game /\ inbox' = inbox /\ UNCHANGED <<attached, unnoticed, sentFrom, resent, misplaced>>
      /\ connectionState' = connectionState \/ (connectionState # "open" /\ connectionState' # "open")
      /\ outbox' = outbox \/ \E k \in {"queue_join", "queue_leave", "resign"} :
                                outbox' = Append(outbox, Command(k))
  BY DEF JoinQueue, LeaveQueue, LeaveLobby, ReturnToLobby, Retry, Resign, SetPremove, ClearPremove,
         Remount, FetchServed, FetchFails, FetchArrives, Send, history, lineVars, linkVars
<1>3. outbox' \in Seq(Orders) /\ MovesAreAimed'
  <2>1. outbox \in Seq(Orders)
    BY <1>1 DEF PlayTyped
  <2>2. CASE outbox' = outbox
    BY <1>1, <1>2, <2>1, <2>2 DEF MovesAreAimed, MovesFit
  <2>3. CASE \E k \in {"queue_join", "queue_leave", "resign"} : outbox' = Append(outbox, Command(k))
    <3>1. PICK k \in {"queue_join", "queue_leave", "resign"} : outbox' = Append(outbox, Command(k))
      BY <2>3
    <3>2. Command(k) \in Orders /\ Command(k).kind # "move"
      BY DEF Command, Orders
    <3>3. resent' = resent /\ misplaced' = misplaced /\ sentFrom' = sentFrom
      BY <1>2
    <3>4. MovesFit(game, sentFrom, outbox) => MovesFit(game', sentFrom', outbox')
      BY <1>2, <2>1, <3>1, <3>2, <3>3, MovesStay
    <3> QED
      BY <1>1, <2>1, <3>1, <3>2, <3>3, <3>4 DEF MovesAreAimed
  <2> QED
    BY <1>2, <2>2, <2>3
<1>4. LineHolds' /\ AsMade(game)'
  BY <1>1, <1>2 DEF LineHolds, AsMade
<1>5. /\ PageFits' /\ view' \in Views /\ gap' \in Nat /\ screen' \in Screens
      /\ fetch' \in [stage : {"none", "asked", "answered"}, snap : Snapshots]
  <2>0. /\ view \in Views /\ gap \in Nat /\ screen \in Screens /\ game \in GameRows
        /\ fetch \in [stage : {"none", "asked", "answered"}, snap : Snapshots]
        /\ inbox \in Seq(Events)
    BY <1>1 DEF PlayTyped
  <2>1. CASE JoinQueue \/ LeaveQueue \/ Resign
    <3>1. UNCHANGED <<game, inbox, screen, view, fetch, premoveDue, gap>>
      BY <2>1 DEF JoinQueue, LeaveQueue, Resign, pageVars, history
    <3> QED
      BY <1>1, <2>0, <3>1 DEF PageFits
  <2>7. CASE LeaveLobby \/ ReturnToLobby
    <3>1. /\ UNCHANGED <<game, inbox, view, fetch, premoveDue, gap>>
          /\ screen # "game" /\ screen' # "game" /\ screen' \in Screens
      BY <2>7 DEF LeaveLobby, ReturnToLobby, lineVars, history, Screens
    <3> QED
      BY <1>1, <2>0, <3>1 DEF PageFits
  <2>2. CASE SetPremove \/ ClearPremove
    <3>1. PICK b \in BOOLEAN : view' = [view EXCEPT !.premove = b]
      BY <2>2 DEF SetPremove, ClearPremove
    <3>2. UNCHANGED <<game, inbox, screen, fetch, premoveDue, gap>> /\ screen = "game"
      BY <2>2 DEF SetPremove, ClearPremove, OnBoard, lineVars, history
    <3> QED
      BY <1>1, <2>0, <3>1, <3>2, PageWithPremove
  <2>3. CASE Remount
    <3>1. Mounted /\ game' = game /\ inbox' = inbox /\ gap' = gap /\ screen' = "game"
      BY <2>3 DEF Remount, lineVars, history
    <3>2. NewsFit(game, inbox') /\ Fits(game, inbox', 0, 0, "active", FALSE)
      BY <1>1, <3>1 DEF PageFits, ViewFits
    <3> QED
      BY <1>1, <2>0, <3>1, <3>2, PageMounted DEF Screens
  <2>4. CASE FetchServed
    <3>1. /\ fetch.stage = "asked" /\ fetch' = [stage |-> "answered", snap |-> Snapshot]
          /\ UNCHANGED <<game, inbox, screen, view, premoveDue, gap>>
      BY <2>4 DEF FetchServed, lineVars, history
    <3>2. /\ Snapshot \in Snapshots /\ Snapshot.ver = game.ver /\ Snapshot.plies = game.plies
          /\ Snapshot.status = game.status /\ Snapshot.paused = (game.paused # "nobody")
      BY <2>0 DEF Snapshot, Snapshots, GameRows
    <3>3. /\ fetch'.stage = "answered" /\ fetch'.snap = Snapshot
          /\ fetch' \in [stage : {"none", "asked", "answered"}, snap : Snapshots]
      BY <3>1, <3>2
    <3>4. game.ver \in Nat /\ game.plies \in Nat
      BY <2>0 DEF GameRows
    <3>5. Fits(game, inbox, Snapshot.ver, Snapshot.plies, Snapshot.status, Snapshot.paused)
      BY <3>2, <3>4 DEF Fits
    <3>6. FetchFits(game, inbox, view, fetch')
      BY <1>1, <3>1, <3>2, <3>3, <3>5 DEF PageFits, FetchFits
    <3>7. NewestIsHeard(game, inbox, view, fetch', gap)
      BY <3>2, <3>3 DEF NewestIsHeard
    <3>8. screen = "game"
      BY <1>1, <3>1 DEF PageFits
    <3>9. NewsFit(game, inbox) /\ ViewFits(game, inbox, view, gap) /\ (premoveDue => IsMyTurn(view))
      BY <1>1 DEF PageFits
    <3>10. PageFits'
      BY <3>1, <3>6, <3>7, <3>8, <3>9 DEF PageFits
    <3> QED
      BY <2>0, <3>1, <3>3, <3>10
  <2>5. CASE FetchFails
    <3>1. /\ fetch.stage = "asked" /\ fetch' = NoFetch /\ view' = [view EXCEPT !.loading = FALSE]
          /\ UNCHANGED <<game, inbox, screen, premoveDue, gap>>
      BY <2>5 DEF FetchFails, lineVars, history
    <3>2. /\ view' \in Views
          /\ view'.plies = view.plies /\ view'.status = view.status /\ view'.paused = view.paused
          /\ view'.result = view.result /\ view'.color = view.color
          /\ view'.full = view.full /\ view'.newest = view.newest
      BY <2>0, <3>1 DEF Views
    <3>3. /\ fetch' \in [stage : {"none", "asked", "answered"}, snap : Snapshots]
          /\ fetch'.stage = "none"
      BY <3>1 DEF NoFetch, Snapshots, Statuses
    <3>4. screen = "game" /\ view.color = "none"
      BY <1>1, <3>1 DEF PageFits, FetchFits
    <3>5. /\ ViewFits(game, inbox, view', gap) /\ FetchFits(game, inbox, view', fetch')
          /\ NewestIsHeard(game, inbox, view', fetch', gap)
          /\ NewsFit(game, inbox)
      BY <1>1, <3>2, <3>3, <3>4 DEF PageFits, ViewFits, FetchFits, NewestIsHeard
    <3>6. premoveDue => IsMyTurn(view')
      BY <1>1, <3>2 DEF PageFits, IsMyTurn
    <3>7. PageFits'
      BY <3>1, <3>4, <3>5, <3>6 DEF PageFits
    <3> QED
      BY <2>0, <3>1, <3>2, <3>3, <3>7
  <2>6. CASE FetchArrives
    <3> DEFINE s == fetch.snap
    <3>1. /\ fetch.stage = "answered" /\ view' = HydrateGame(view, s) /\ fetch' = NoFetch
          /\ premoveDue' = FALSE /\ gap' = IF s.ver >= gap THEN 0 ELSE gap
          /\ UNCHANGED <<game, inbox, screen>>
      BY <2>6 DEF FetchArrives, lineVars
    <3>2. s \in Snapshots
      BY <2>0
    <3> HIDE DEF s
    <3>3. /\ view' \in Views
          /\ view'.plies = s.plies /\ view'.status = s.status /\ view'.paused = s.paused
          /\ view'.result = (s.status = "finished") /\ view'.color = game.me
          /\ view'.full = s.ver /\ view'.newest = view.newest
      BY ZenonT(30), <2>0, <3>1, <3>2 DEF Views, Snapshots, GameRows, HydrateGame
    <3>4. /\ fetch' \in [stage : {"none", "asked", "answered"}, snap : Snapshots]
          /\ fetch'.stage = "none"
      BY <3>1 DEF NoFetch, Snapshots, Statuses
    <3>5. screen = "game"
      BY <1>1, <2>0, <3>1 DEF PageFits
    <3>6. /\ Fits(game, inbox, s.ver, s.plies, s.status, s.paused)
          /\ s.status = "finished" => game.status = "finished"
          /\ view.full <= view.newest /\ view.newest <= game.ver
          /\ view.full \in Nat /\ view.newest \in Nat /\ game.ver \in Nat /\ s.ver \in Nat /\ s.ver <= game.ver
          /\ s.ver = game.ver => s.status = game.status
      BY <1>1, <2>0, <3>1, <3>2 DEF PageFits, FetchFits, ViewFits, Views, GameRows, Snapshots, Fits, s
    <3>7. ViewFits(game, inbox, view', gap')
      BY <1>1, <3>3, <3>6 DEF PageFits, ViewFits
    <3>8. FetchFits(game, inbox, view', fetch')
      BY <3>4 DEF FetchFits
    <3>9. NewestIsHeard(game, inbox, view', fetch', gap')
      <4>1. NewestIsHeard(game, inbox, view, fetch, gap)
        BY <1>1, <3>5 DEF PageFits
      <4>2. CASE game.ver \in {view.newest, view.full}
        BY <3>3, <3>6, <4>2 DEF NewestIsHeard
      <4>3. CASE game.ver = gap
        BY <3>1, <3>3, <3>6, <4>3 DEF NewestIsHeard
      <4>4. CASE s.ver = game.ver
        BY <3>3, <4>4 DEF NewestIsHeard
      <4>5. CASE \E i \in 1 .. Len(inbox) : inbox[i].ver = game.ver /\ inbox[i].ver > 0
        BY <4>5 DEF NewestIsHeard
      <4> QED
        BY <3>1, <4>1, <4>2, <4>3, <4>4, <4>5 DEF NewestIsHeard, s
    <3>10. NewsFit(game, inbox)
      BY <1>1 DEF PageFits
    <3>11. PageFits'
      BY <3>1, <3>5, <3>7, <3>8, <3>9, <3>10 DEF PageFits
    <3>12. gap' \in Nat
      BY <2>0, <3>1
    <3> QED
      BY <2>0, <3>1, <3>3, <3>4, <3>11, <3>12
  <2> QED
    BY <2>1, <2>2, <2>3, <2>4, <2>5, <2>6, <2>7
<1>6. PlayTyped'
  BY <1>1, <1>2, <1>3, <1>5 DEF PlayTyped
<1> QED
  BY <1>3, <1>4, <1>5, <1>6 DEF PlayInv

\* A move is sent from the position on show, which is the player's to move in.
LEMMA MoveKeeps == PlayInv /\ (SubmitMove \/ PremoveEffect) => PlayInv'
<1> SUFFICES ASSUME PlayInv, SubmitMove \/ PremoveEffect PROVE PlayInv'
  OBVIOUS
<1>1. /\ PlayTyped /\ LineHolds /\ AsMade(game) /\ PageFits /\ MovesAreAimed
      /\ view \in Views /\ game \in GameRows /\ outbox \in Seq(Orders) /\ sentFrom \in SUBSET Nat
      /\ screen \in Screens /\ resent \in BOOLEAN
  BY DEF PlayInv, PlayTyped
<1>2. /\ UNCHANGED <<game, inbox, gap, fetch, screen, attached, unnoticed, misplaced, connectionState>>
      /\ IsMyTurn(view)
      /\ premoveDue' => premoveDue
      /\ SendMove \/ UNCHANGED <<outbox, sentFrom, resent>>
  BY <1>1 DEF SubmitMove, PremoveEffect, linkVars, PageFits
<1>3. TurnAt(view.plies) \in Colors /\ view.color = TurnAt(view.plies) /\ view.plies \in Nat
  BY <1>1, <1>2 DEF IsMyTurn, TurnAt, Colors, Views
<1>4. screen = "game" /\ TurnAt(view.plies) = game.me /\ view.plies <= game.plies
  <2>1. view # FreshGame
    BY <1>3 DEF FreshGame, Colors
  <2>2. view.color \in {"none", game.me}
    BY <1>1 DEF PageFits, ViewFits
  <2>3. view.plies <= game.plies
    BY <1>1 DEF PageFits, ViewFits, Fits
  <2> QED
    BY <1>1, <1>3, <2>1, <2>2, <2>3 DEF PageFits, Colors
<1>5. PageFits' /\ view' \in Views
  <2>1. PICK b \in BOOLEAN : view' = [view EXCEPT !.premove = b]
    <3>1. CASE view' = view
      <4>1. view' = [view EXCEPT !.premove = view.premove] /\ view.premove \in BOOLEAN
        BY <1>1, <3>1 DEF Views
      <4> QED
        BY <4>1
    <3>2. CASE view' = [view EXCEPT !.premove = FALSE]
      BY <3>2
    <3> QED
      BY <3>1, <3>2 DEF SubmitMove, PremoveEffect
  <2> QED
    BY <1>1, <1>2, <1>4, <2>1, PageWithPremove
<1>6. outbox' \in Seq(Orders) /\ sentFrom' \subseteq Nat /\ resent' \in BOOLEAN /\ MovesAreAimed'
  <2>1. CASE UNCHANGED <<outbox, sentFrom, resent>>
    BY <1>1, <1>2, <2>1 DEF MovesAreAimed, MovesFit
  <2>2. CASE SendMove
    <3> DEFINE p == view.plies
    <3>1. /\ outbox' = Append(outbox, [kind |-> "move", seen |-> p])
          /\ sentFrom' = sentFrom \cup {p} /\ resent' = (resent \/ p \in sentFrom)
      BY <2>2 DEF SendMove, Send
    <3>2. p \in Nat /\ TurnAt(p) = game.me /\ p <= game.plies
      BY <1>3, <1>4
    <3> HIDE DEF p
    <3>3. [kind |-> "move", seen |-> p] \in Orders
      BY <3>2 DEF Orders
    <3>4. ASSUME ~resent'
          PROVE  ~misplaced' /\ MovesFit(game', sentFrom', outbox')
      <4>1. ~resent /\ p \notin sentFrom
        BY <1>1, <3>1, <3>4
      <4>2. ~misplaced /\ MovesFit(game, sentFrom, outbox)
        BY <1>1, <4>1 DEF MovesAreAimed
      <4>3. MovesFit(game, sentFrom \cup {p}, Append(outbox, [kind |-> "move", seen |-> p]))
        BY <1>1, <3>2, <4>1, <4>2, MoveIsSent
      <4> QED
        BY <1>2, <3>1, <4>2, <4>3
    <3>5. resent' \in BOOLEAN
      BY <1>1, <3>1
    <3> QED
      BY <1>1, <3>1, <3>2, <3>3, <3>4, <3>5 DEF MovesAreAimed
  <2> QED
    BY <1>2, <2>1, <2>2
<1>7. PlayTyped' /\ LineHolds' /\ AsMade(game)'
  <2>1. PlayTyped'
    BY <1>1, <1>2, <1>5, <1>6 DEF PlayTyped
  <2> QED
    BY <1>1, <1>2, <2>1 DEF LineHolds, AsMade
<1> QED
  BY <1>5, <1>6, <1>7 DEF PlayInv

\* A state event is heard.
LEMMA PageAfterState ==
    ASSUME PlayTyped, PageFits, inbox # <<>>, Head(inbox).kind = "game_state", screen = "game",
           inbox' = Tail(inbox), view' = UpdateState(view, Head(inbox)),
           gap' = IF Head(inbox).ver > gap THEN 0 ELSE gap,
           UNCHANGED <<game, fetch, screen>>, premoveDue' => IsMyTurn(view')
    PROVE  PageFits' /\ view' \in Views
<1> DEFINE m == Head(inbox)
           rest == Tail(inbox)
<1>1. /\ inbox \in Seq(Events) /\ game \in GameRows /\ view \in Views /\ gap \in Nat
      /\ NewsFit(game, inbox) /\ ViewFits(game, inbox, view, gap)
      /\ FetchFits(game, inbox, view, fetch)
  BY DEF PlayTyped, PageFits
<1>2. NewsFit(game, rest) /\ (EndsInPlace(rest) => EndsInPlace(inbox))
  BY <1>1, NewsAreHeard
<1>3. /\ m \in Events /\ m = inbox[1] /\ 1 \in 1 .. Len(inbox)
      /\ \A j \in 1 .. Len(inbox) : j > 1 => j - 1 \in 1 .. Len(rest) /\ rest[j - 1] = inbox[j]
  BY <1>1
<1> HIDE DEF m, rest
<1>4. EventFits(game, inbox, 1)
  BY <1>1, <1>3 DEF NewsFit
<1>5. /\ m.ver > 0 /\ Fits(game, inbox, m.ver, m.plies, m.status, m.paused)
      /\ m.status = "finished" => \E j \in 1 .. Len(rest) : IsOver(rest[j])
      /\ m.ver = game.ver \/ \E j \in 1 .. Len(rest) : rest[j].ver = game.ver
  <2>1. m.kind = "game_state"
    BY DEF m
  <2>2. /\ m.ver > 0 /\ Fits(game, inbox, m.ver, m.plies, m.status, m.paused)
        /\ m.status = "finished" => \E j \in 1 .. Len(inbox) : j > 1 /\ IsOver(inbox[j])
        /\ \E j \in 1 .. Len(inbox) : j >= 1 /\ inbox[j].ver = game.ver
    BY <1>3, <1>4, <2>1 DEF EventFits
  <2>3. \A j \in 1 .. Len(inbox) : j > 1 \/ j = 1
    BY <1>1
  <2> QED
    BY <1>3, <2>2, <2>3
<1>6. m.ver <= game.ver /\ game.ver \in Nat /\ m.ver \in Nat /\ game.ver > 0
  BY <1>1, <1>3, <1>5 DEF Fits, GameRows, Events
<1>7. /\ view' \in Views
      /\ view'.plies = m.plies /\ view'.status = m.status /\ view'.paused = m.paused
      /\ view'.result = view.result /\ view'.color = view.color
      /\ view'.full = m.ver /\ view'.newest = m.ver
  <2>1. view' = UpdateState(view, m)
    BY DEF m
  <2> QED
    BY <1>1, <1>3, <2>1 DEF UpdateState, Views, Events
<1>8. ViewFits(game, rest, view', gap')
  <2>1. /\ Fits(game, rest, 0, 0, "active", FALSE)
        /\ Fits(game, rest, m.ver, m.plies, m.status, m.paused)
    BY <1>1, <1>2, <1>5, StillFits DEF ViewFits
  <2>2. game.status = "finished" /\ m.ver = game.ver => m.status = "finished"
    BY <1>5 DEF Fits
  <2>3. game.status = "finished" /\ m.ver = game.ver => \E i \in 1 .. Len(rest) : IsOver(rest[i])
    BY <1>5, <2>2
  <2>4. view.color \in {"none", game.me} /\ (view.result => game.status = "finished")
    BY <1>1 DEF ViewFits
  <2> QED
    BY <1>6, <1>7, <2>1, <2>3, <2>4 DEF ViewFits
<1>9. FetchFits(game, rest, view', fetch)
  <2>0. \A ver, plies, status, paused : Fits(game, inbox, ver, plies, status, paused)
                                          => Fits(game, rest, ver, plies, status, paused)
    BY <1>2, StillFits
  <2>1. ASSUME fetch.stage = "answered"
        PROVE  Fits(game, rest, fetch.snap.ver, fetch.snap.plies, fetch.snap.status, fetch.snap.paused)
    BY <1>1, <2>0, <2>1 DEF FetchFits
  <2> QED
    BY <1>1, <1>6, <1>7, <2>1 DEF FetchFits
<1>10. NewestIsHeard(game, rest, view', fetch, gap')
  BY <1>5, <1>6, <1>7 DEF NewestIsHeard
<1>11. inbox' = rest /\ game' = game /\ fetch' = fetch /\ screen' = "game"
  BY DEF rest
<1>12. PageFits'
  BY <1>2, <1>8, <1>9, <1>10, <1>11 DEF PageFits
<1> QED
  BY <1>7, <1>12

\* The end of a game that was not rated is heard: the position on show is the final one
\* unless something was missed.
LEMMA PageAfterOver ==
    ASSUME PlayTyped, PageFits, inbox # <<>>, IsOver(Head(inbox)), ~Head(inbox).rated,
           screen = "game", inbox' = Tail(inbox), view' = SetGameOver(view, Head(inbox)),
           UNCHANGED <<game, gap, fetch, screen>>, premoveDue' => IsMyTurn(view')
    PROVE  PageFits' /\ view' \in Views
<1> DEFINE m == Head(inbox)
           rest == Tail(inbox)
<1>1. /\ inbox \in Seq(Events) /\ game \in GameRows /\ view \in Views /\ gap \in Nat
      /\ NewsFit(game, inbox) /\ ViewFits(game, inbox, view, gap)
      /\ FetchFits(game, inbox, view, fetch)
  BY DEF PlayTyped, PageFits
<1>2. NewsFit(game, rest) /\ (EndsInPlace(rest) => EndsInPlace(inbox))
  BY <1>1, NewsAreHeard
<1>3. m \in Events /\ m = inbox[1] /\ 1 \in 1 .. Len(inbox)
  BY <1>1
<1> HIDE DEF m, rest
<1>4. EventFits(game, inbox, 1) /\ IsOver(m) /\ ~m.rated /\ EndsInPlace(inbox)
  <2>1. IsOver(m) /\ ~m.rated
    BY DEF m
  <2> QED
    BY <1>1, <1>3, <2>1 DEF NewsFit, EndsInPlace
<1>5. /\ m.ver = game.ver /\ game.status = "finished" /\ m.status = "finished" /\ ~m.paused
      /\ game.paused = "nobody" /\ m.paused = FALSE
  BY <1>3, <1>4 DEF EventFits, Events
<1>6. /\ game.ver \in Nat /\ m.ver \in Nat /\ view.full \in Nat /\ view.full <= game.ver
      /\ view.plies <= game.plies
      /\ view.full + 1 >= game.ver => view.full = game.ver \/ view.full + 1 = game.ver
      /\ view.full + 1 >= game.ver => view.plies = game.plies
  <2>1. game.ver \in Nat /\ view.full \in Nat /\ m.ver = game.ver
    BY <1>1, <1>5 DEF Views, GameRows
  <2>2. /\ view.full <= game.ver /\ view.plies <= game.plies
        /\ view.full = game.ver => view.plies = game.plies
        /\ view.full + 1 = game.ver => view.plies = game.plies
    BY <1>1, <1>4 DEF ViewFits, Fits
  <2> QED
    BY <2>1, <2>2
<1> DEFINE full == IF view.full + 1 >= m.ver THEN m.ver ELSE view.full
<1>7. /\ view' \in Views
      /\ view'.plies = view.plies /\ view'.status = "finished" /\ view'.paused = FALSE
      /\ view'.result = TRUE /\ view'.color = view.color
      /\ view'.full = full /\ view'.newest = m.ver
  <2>1. view' = SetGameOver(view, m)
    BY DEF m
  <2>2. view' = [view EXCEPT !.status = m.status, !.paused = m.paused, !.result = TRUE,
                             !.premove = FALSE, !.newest = m.ver, !.full = full]
    BY <2>1 DEF SetGameOver
  <2>3. full \in Nat
    BY <1>6
  <2> HIDE DEF full
  <2> QED
    BY ZenonT(30), <1>1, <1>3, <1>5, <2>2, <2>3 DEF Views, Events
<1>8. full <= game.ver /\ Fits(game, rest, full, view.plies, "finished", FALSE)
  <2>1. full <= game.ver /\ full \in Nat
    BY <1>5, <1>6
  <2>2. full = game.ver => view.plies = game.plies
    BY <1>5, <1>6
  <2>3. full + 1 # game.ver
    BY <1>5, <1>6
  <2> HIDE DEF full
  <2> QED
    BY <1>5, <1>6, <2>1, <2>2, <2>3 DEF Fits
<1> HIDE DEF full
<1>9. ViewFits(game, rest, view', gap)
  <2>1. Fits(game, rest, 0, 0, "active", FALSE)
    BY <1>1, <1>2, StillFits DEF ViewFits
  <2>2. view.color \in {"none", game.me}
    BY <1>1 DEF ViewFits
  <2>3. Fits(game, rest, view'.full, view'.plies, view'.status, view'.paused)
    BY <1>7, <1>8
  <2>4. /\ view'.newest <= game.ver /\ view'.color \in {"none", game.me} /\ view'.result
        /\ game.status = "finished"
    BY <1>5, <1>6, <1>7, <2>2
  <2> QED
    BY <2>1, <2>3, <2>4 DEF ViewFits
<1>10. FetchFits(game, rest, view', fetch)
  <2>0. \A ver, plies, status, paused : Fits(game, inbox, ver, plies, status, paused)
                                          => Fits(game, rest, ver, plies, status, paused)
    BY <1>2, StillFits
  <2>1. ASSUME fetch.stage = "answered"
        PROVE  Fits(game, rest, fetch.snap.ver, fetch.snap.plies, fetch.snap.status, fetch.snap.paused)
    BY <1>1, <2>0, <2>1 DEF FetchFits
  <2> QED
    BY <1>1, <1>5, <1>7, <1>8, <2>1 DEF FetchFits
<1>11. NewestIsHeard(game, rest, view', fetch, gap)
  BY <1>5, <1>7 DEF NewestIsHeard
<1>12. inbox' = rest /\ game' = game /\ gap' = gap /\ fetch' = fetch /\ screen' = "game"
  BY DEF rest
<1>13. PageFits'
  BY <1>2, <1>9, <1>10, <1>11, <1>12 DEF PageFits
<1> QED
  BY <1>7, <1>13

\* An event is heard that the page has no use for.
LEMMA PageAfterOther ==
    ASSUME PlayTyped, AsMade(game), PageFits, inbox # <<>>,
           screen # "game" \/ Head(inbox).kind \notin {"game_state", "game_over"},
           inbox' = Tail(inbox), UNCHANGED <<game, view, fetch, screen>>,
           gap' = gap \/ screen # "game", premoveDue' => premoveDue
    PROVE  PageFits'
<1> DEFINE m == Head(inbox)
           rest == Tail(inbox)
<1>1. /\ inbox \in Seq(Events) /\ game \in GameRows /\ screen \in Screens
      /\ NewsFit(game, inbox) /\ ViewFits(game, inbox, view, gap)
      /\ FetchFits(game, inbox, view, fetch)
  BY DEF PlayTyped, PageFits
<1>2. NewsFit(game, rest) /\ (EndsInPlace(rest) => EndsInPlace(inbox))
  BY <1>1, NewsAreHeard
<1>3. /\ m = inbox[1] /\ 1 \in 1 .. Len(inbox) /\ Len(inbox) \in Nat
      /\ \A j \in 1 .. Len(inbox) : j > 1 => j - 1 \in 1 .. Len(rest) /\ rest[j - 1] = inbox[j]
      /\ \A j \in 1 .. Len(inbox) : j > 1 \/ j = 1
  BY <1>1
<1>4. screen = "game" => m.kind \notin {"game_state", "game_over"}
  BY <1>1
<1> HIDE DEF m, rest
<1>5. screen = "game" => m.ver = 0 /\ ~IsOver(m)
  BY <1>1, <1>3, <1>4 DEF NewsFit, EventFits, IsOver
<1>6. \A ver, plies, status, paused : Fits(game, inbox, ver, plies, status, paused)
                                        => Fits(game, rest, ver, plies, status, paused)
  BY <1>2, StillFits
<1>7. ViewFits(game, rest, view, gap')
  <2>1. CASE screen = "game"
    <3>1. (\E i \in 1 .. Len(inbox) : IsOver(inbox[i])) => \E i \in 1 .. Len(rest) : IsOver(rest[i])
      BY <1>3, <1>5, <2>1
    <3>2. gap' = gap
      BY <2>1
    <3> QED
      BY <1>1, <1>6, <3>1, <3>2 DEF ViewFits
  <2>2. CASE screen # "game"
    <3>1. view.full = 0
      BY <2>2 DEF PageFits, FreshGame
    <3>2. game.status = "finished" => game.ver # 0
      BY DEF AsMade
    <3> QED
      BY <1>1, <1>6, <3>1, <3>2 DEF ViewFits
  <2> QED
    BY <1>1, <2>1, <2>2
<1>8. FetchFits(game, rest, view, fetch)
  BY <1>1, <1>6 DEF FetchFits
<1>9. screen = "game" => NewestIsHeard(game, rest, view, fetch, gap')
  <2> SUFFICES ASSUME screen = "game" PROVE NewestIsHeard(game, rest, view, fetch, gap')
    OBVIOUS
  <2>1. gap' = gap /\ NewestIsHeard(game, inbox, view, fetch, gap)
    BY DEF PageFits
  <2>2. (\E i \in 1 .. Len(inbox) : inbox[i].ver = game.ver /\ inbox[i].ver > 0)
          => \E i \in 1 .. Len(rest) : rest[i].ver = game.ver /\ rest[i].ver > 0
    <3>1. inbox[1].ver = 0
      BY <1>3, <1>5
    <3>2. \A i \in 1 .. Len(inbox) : inbox[i].ver > 0 => i > 1
      BY <1>3, <3>1
    <3> QED
      BY <1>3, <3>2
  <2> QED
    BY <2>1, <2>2 DEF NewestIsHeard
<1>10. inbox' = rest /\ game' = game /\ view' = view /\ fetch' = fetch /\ screen' = screen
  BY DEF rest
<1>11. /\ screen # "game" => view = FreshGame /\ fetch.stage = "none"
       /\ premoveDue' => IsMyTurn(view)
  BY DEF PageFits
<1> QED
  BY <1>2, <1>7, <1>8, <1>9, <1>10, <1>11 DEF PageFits

\* An event reaches the page.
LEMMA EventReaches == PlayInv /\ Deliver => PlayInv'
<1> SUFFICES ASSUME PlayInv, Deliver PROVE PlayInv'
  OBVIOUS
<1> DEFINE m == Head(inbox)
<1>1. /\ PlayTyped /\ LineHolds /\ AsMade(game) /\ PageFits /\ MovesAreAimed
      /\ game \in GameRows /\ view \in Views /\ inbox \in Seq(Events) /\ gap \in Nat
      /\ fetch \in [stage : {"none", "asked", "answered"}, snap : Snapshots]
      /\ screen \in Screens
  BY DEF PlayInv, PlayTyped
<1>2. /\ inbox # <<>> /\ inbox' = Tail(inbox) /\ (ToLobby(m) \/ ToGame(m) \/ ToAnotherPage(m)) /\ ~premoveDue
      /\ gap' = IF m.kind = "game_state" /\ m.ver > gap THEN 0 ELSE gap
      /\ UNCHANGED <<attached, unnoticed, outbox, game, sentFrom, resent, misplaced, connectionState>>
  BY DEF Deliver, Hear
<1>3. /\ inbox' \in Seq(Events) /\ gap' \in Nat
      /\ inbox' # <<>> => inbox # <<>>
  BY <1>1, <1>2
<1>4. Mounted /\ screen' = "game" =>
         /\ PageFits' /\ view' \in Views
         /\ fetch' \in [stage : {"none", "asked", "answered"}, snap : Snapshots]
  <2>1. NewsFit(game, inbox') /\ (EndsInPlace(inbox') => EndsInPlace(inbox))
    BY <1>1, <1>2, NewsAreHeard DEF PageFits
  <2>2. Fits(game, inbox, 0, 0, "active", FALSE)
    BY <1>1 DEF PageFits, ViewFits
  <2>3. Fits(game, inbox', 0, 0, "active", FALSE)
    BY <2>1, <2>2, StillFits
  <2>4. game' = game
    BY <1>2
  <2> QED
    BY <1>1, <2>1, <2>3, <2>4, PageMounted
<1> HIDE DEF m
<1>5. /\ PageFits' /\ view' \in Views /\ screen' \in Screens
      /\ fetch' \in [stage : {"none", "asked", "answered"}, snap : Snapshots]
  <2>1. CASE Mounted /\ screen' = "game"
    BY <1>3, <1>4, <2>1 DEF Screens
  <2>2. CASE /\ UNCHANGED <<view, fetch, screen, premoveDue>>
             /\ screen # "game" \/ m.kind \notin {"game_state", "game_over"}
    <3>1. gap' = gap \/ screen # "game"
      BY <1>2, <2>2
    <3>2. PageFits'
      BY <1>1, <1>2, <2>2, <3>1, PageAfterOther DEF m
    <3> QED
      BY <1>1, <2>2, <3>2
  <2>3. CASE ToLobby(m)
    BY <2>1, <2>2, <2>3 DEF ToLobby, pageVars
  <2>5. CASE ToAnotherPage(m)
    BY <2>2, <2>5 DEF ToAnotherPage, pageVars
  <2>4. CASE ToGame(m)
    <3>1. screen = "game" /\ screen' = screen
      BY <2>4 DEF ToGame
    <3>2. CASE m.kind = "game_over" /\ m.rated
      BY <2>1, <2>4, <3>1, <3>2 DEF ToGame
    <3>3. CASE ~(m.kind = "game_over" /\ m.rated)
      <4>1. /\ fetch' = fetch /\ (premoveDue' => IsMyTurn(view'))
            /\ m.kind = "game_state" => view' = UpdateState(view, m)
            /\ m.kind = "game_over" => view' = SetGameOver(view, m)
            /\ m.kind \notin {"game_state", "game_over"} =>
                  view' = view /\ (premoveDue' => premoveDue)
        BY <2>4, <3>3 DEF ToGame, Due
      <4>2. CASE m.kind = "game_state"
        <5>1. PageFits' /\ view' \in Views
          BY <1>1, <1>2, <3>1, <4>1, <4>2, PageAfterState DEF m
        <5> QED
          BY <1>1, <3>1, <4>1, <5>1
      <4>3. CASE m.kind = "game_over"
        <5>1. ~m.rated /\ gap' = gap
          BY <1>2, <3>3, <4>3
        <5>2. PageFits' /\ view' \in Views
          BY <1>1, <1>2, <3>1, <4>1, <4>3, <5>1, PageAfterOver DEF m, IsOver
        <5> QED
          BY <1>1, <3>1, <4>1, <5>2
      <4>4. CASE m.kind \notin {"game_state", "game_over"}
        <5>1. gap' = gap /\ UNCHANGED <<view, fetch, screen>> /\ (premoveDue' => premoveDue)
          BY <1>2, <3>1, <4>1, <4>4
        <5>2. PageFits'
          BY <1>1, <1>2, <4>4, <5>1, PageAfterOther DEF m
        <5> QED
          BY <1>1, <5>1, <5>2
      <4> QED
        BY <4>2, <4>3, <4>4
    <3> QED
      BY <3>2, <3>3
  <2> QED
    BY <1>2, <2>3, <2>4, <2>5
<1>6. PlayTyped'
  BY <1>1, <1>2, <1>3, <1>5 DEF PlayTyped
<1>7. LineHolds' /\ AsMade(game)' /\ MovesAreAimed'
  BY <1>1, <1>2, <1>3 DEF LineHolds, AsMade, MovesAreAimed, MovesFit
<1> QED
  BY <1>5, <1>6, <1>7 DEF PlayInv

-----------------------------------------------------------------------------
\* What the server sends is added to what is on its way, or nothing is on its way.
LEMMA PushTells ==
    ASSUME PlayTyped, LineHolds, NEW g \in GameRows, NEW news \in Seq(Events), Push(news, g)
    PROVE  /\ inbox' \in Seq(Events) /\ gap' \in Nat
           /\ inbox' # <<>> => connectionState = "open"
           /\ \/ inbox' = inbox \o news /\ gap' = gap
              \/ /\ inbox' = <<>> /\ inbox = <<>>
                 /\ gap' = IF g.ver > game.ver THEN g.ver ELSE gap
<1>1. inbox \in Seq(Events) /\ gap \in Nat /\ g.ver \in Nat
  BY DEF PlayTyped, GameRows
<1>2. CASE Linked
  <2>1. inbox' = inbox \o news /\ gap' = gap
    BY <1>2 DEF Push
  <2>2. inbox \o news \in Seq(Events)
    BY <1>1, NewsAreAdded
  <2> QED
    BY <1>1, <1>2, <2>1, <2>2 DEF Linked
<1>3. CASE ~Linked
  <2>1. inbox' = inbox /\ gap' = IF g.ver > game.ver THEN g.ver ELSE gap
    BY <1>3 DEF Push
  <2>2. inbox = <<>>
    BY <1>3 DEF Linked, LineHolds
  <2> QED
    BY <1>1, <2>1, <2>2
<1> QED
  BY <1>2, <1>3

\* The news of a move, of an end and of a pause.
LEMMA NewsAreMade ==
    ASSUME NEW g \in GameRows, NEW h \in GameRows, NEW rated \in BOOLEAN
    PROVE  /\ <<StateEvent(h)>> \in Seq(Events) /\ <<OverEvent(h, rated)>> \in Seq(Events)
           /\ <<StateEvent(h), OverEvent(h, TRUE)>> \in Seq(Events)
           /\ h.status = "active" => Announces(g, h, <<StateEvent(h)>>)
           /\ h.status = "finished" /\ h.paused = "nobody" =>
                 /\ Announces(g, h, <<StateEvent(h), OverEvent(h, TRUE)>>)
                 /\ h.plies = g.plies => Announces(g, h, <<OverEvent(h, rated)>>)
<1> DEFINE s == StateEvent(h)
           o == OverEvent(h, rated)
           w == OverEvent(h, TRUE)
<1>1. /\ s \in Events /\ s.kind = "game_state" /\ s.ver = h.ver /\ s.plies = h.plies
      /\ s.status = h.status /\ s.paused = (h.paused # "nobody")
      /\ o \in Events /\ o.kind = "game_over" /\ o.ver = h.ver
      /\ o.status = h.status /\ o.paused = (h.paused # "nobody")
      /\ w \in Events /\ w.kind = "game_over" /\ w.ver = h.ver
      /\ w.status = h.status /\ w.paused = (h.paused # "nobody") /\ w.rated = TRUE
  BY EventsAre
<1> HIDE DEF s, o, w
<1> DEFINE one == <<s>>
           end == <<o>>
           two == <<s, w>>
<1>2. /\ one \in Seq(Events) /\ Len(one) = 1 /\ one[1] = s
      /\ end \in Seq(Events) /\ Len(end) = 1 /\ end[1] = o
      /\ two \in Seq(Events) /\ Len(two) = 2 /\ two[1] = s /\ two[2] = w
  BY <1>1
<1> HIDE DEF one, end, two
<1>3. h.status = "active" => Announces(g, h, one)
  <2>1. \A i \in 1 .. Len(one) : one[i] = s
    BY <1>2
  <2> QED
    BY <1>1, <1>2, <2>1 DEF Announces, IsOver
<1>4. h.status = "finished" /\ h.paused = "nobody" /\ h.plies = g.plies => Announces(g, h, end)
  <2> SUFFICES ASSUME h.status = "finished", h.paused = "nobody", h.plies = g.plies
               PROVE  Announces(g, h, end)
    OBVIOUS
  <2>1. \A i \in 1 .. Len(end) : end[i] = o
    BY <1>2
  <2>2. o.kind = "game_over" /\ o.ver = h.ver /\ o.status = "finished" /\ ~o.paused
    BY <1>1
  <2>3. Len(end) > 0
    BY <1>2
  <2> QED
    BY <2>1, <2>2, <2>3 DEF Announces, IsOver
<1>5. h.status = "finished" /\ h.paused = "nobody" => Announces(g, h, two)
  <2>1. \A i \in 1 .. Len(two) : i = 1 \/ i = 2
    BY <1>2
  <2>2. 2 \in 1 .. Len(two) /\ 2 > 1 /\ Len(two) > 0
    BY <1>2
  <2> QED
    BY ZenonT(30), <1>1, <1>2, <2>1, <2>2 DEF Announces, IsOver
<1> QED
  BY <1>2, <1>3, <1>4, <1>5 DEF one, end, two, s, o, w

\* The game changes, and the page is told unless it cannot be reached.
LEMMA ChangeKeeps ==
    ASSUME PlayInv, game' \in GameRows, game'.ver = game.ver + 1, game'.me = game.me,
           game.me # "none", game.plies <= game'.plies, game.status = "active",
           NEW news \in Seq(Events), Announces(game, game', news), Push(news, game'),
           UNCHANGED <<linkVars, attached, unnoticed, pageVars, sentFrom, resent>>,
           misplaced' \in BOOLEAN, outbox' \in Seq(Orders), MovesAreAimed'
    PROVE  PlayInv'
<1>1. /\ PlayTyped /\ LineHolds /\ AsMade(game) /\ PageFits
      /\ game \in GameRows
  BY DEF PlayInv, PlayTyped
<1>2. UNCHANGED <<view, fetch, screen, premoveDue, connectionState, attached, unnoticed, sentFrom, resent>>
  BY DEF pageVars, linkVars
<1>3. game'.ver \in Nat /\ game.ver \in Nat /\ game'.ver > game.ver
  BY <1>1 DEF GameRows
<1>4. /\ inbox' \in Seq(Events) /\ gap' \in Nat
      /\ inbox' # <<>> => connectionState = "open"
      /\ \/ inbox' = inbox \o news /\ gap' = gap
         \/ /\ inbox' = <<>> /\ inbox = <<>>
            /\ gap' = IF game'.ver > game.ver THEN game'.ver ELSE gap
  BY <1>1, PushTells
<1>5. PageFits'
  BY <1>1, <1>2, <1>3, <1>4, PageAfterChange
<1>6. PlayTyped'
  BY <1>1, <1>2, <1>4 DEF PlayTyped
<1>7. LineHolds'
  BY <1>1, <1>2, <1>4 DEF LineHolds
<1>8. AsMade(game)'
  BY <1>3 DEF AsMade
<1> QED
  BY <1>5, <1>6, <1>7, <1>8 DEF PlayInv

\* The page is told something that is no news of the game.
LEMMA ToldKeeps ==
    ASSUME PlayInv, game' \in GameRows, game'.ver = game.ver, game.me \in {"none", game'.me},
           game'.plies = game.plies, game'.status = game.status, game'.paused = game.paused,
           NEW news \in Seq(Events), Push(news, game),
           \A i \in 1 .. Len(news) : /\ news[i].ver = 0
                                     /\ news[i].kind \notin {"game_state", "game_over"},
           UNCHANGED <<linkVars, attached, unnoticed, pageVars, sentFrom, resent, misplaced>>,
           outbox' = outbox \/ (outbox # <<>> /\ outbox' = Tail(outbox))
    PROVE  PlayInv'
<1>1. /\ PlayTyped /\ LineHolds /\ AsMade(game) /\ PageFits /\ MovesAreAimed
      /\ game \in GameRows /\ inbox \in Seq(Events) /\ outbox \in Seq(Orders)
  BY DEF PlayInv, PlayTyped
<1>2. UNCHANGED <<view, fetch, screen, premoveDue, connectionState, attached, unnoticed, sentFrom,
                  resent, misplaced>>
  BY DEF pageVars, linkVars
<1>3. game.ver \in Nat /\ ~(game.ver > game.ver)
  BY <1>1 DEF GameRows
<1>4. /\ inbox' \in Seq(Events) /\ gap' = gap
      /\ inbox' # <<>> => connectionState = "open"
      /\ inbox' = inbox \o news \/ inbox' = inbox
  BY <1>1, <1>3, PushTells
<1>5. PageFits'
  <2>1. CASE inbox' = inbox \o news
    BY <1>1, <1>2, <1>4, <2>1, PageAfterNothing
  <2>2. CASE inbox' = inbox
    <3>1. <<>> \in Seq(Events) /\ inbox \o <<>> = inbox /\ Len(<<>>) = 0
      BY <1>1, ConcatEmptySeq
    <3> DEFINE none == <<>>
    <3>2. none \in Seq(Events) /\ inbox' = inbox \o none /\ Len(none) = 0
      BY <2>2, <3>1
    <3> HIDE DEF none
    <3>3. \A i \in 1 .. Len(none) : none[i].ver = 0 /\ none[i].kind \notin {"game_state", "game_over"}
      BY <3>2
    <3> QED
      BY <1>1, <1>2, <1>4, <3>2, <3>3, PageAfterNothing
  <2> QED
    BY <1>4, <2>1, <2>2
<1>6. outbox' \in Seq(Orders)
  BY <1>1
<1>7. PlayTyped' /\ LineHolds'
  <2>1. PlayTyped'
    BY <1>1, <1>2, <1>4, <1>6 DEF PlayTyped
  <2> QED
    BY <1>1, <1>2, <1>4, <2>1 DEF LineHolds
<1>8. AsMade(game)'
  BY <1>1 DEF AsMade
<1>9. MovesAreAimed'
  <2> SUFFICES ASSUME ~resent PROVE ~misplaced /\ MovesFit(game', sentFrom, outbox')
    BY <1>2 DEF MovesAreAimed
  <2>1. ~misplaced /\ MovesFit(game, sentFrom, outbox)
    BY <1>1 DEF MovesAreAimed
  <2>2. CASE game'.me = game.me
    BY ZenonT(30), <1>1, <2>1, <2>2, MovesStay
  <2>3. CASE game'.me # game.me
    <3>1. game.me = "none" /\ game'.plies = 0
      BY <1>1, <2>3 DEF AsMade
    <3>2. \A q : TurnAt(q) # "none"
      BY DEF TurnAt
    <3>3. MovesFit(game, sentFrom, outbox')
      BY ZenonT(30), <1>1, <2>1, MovesStay
    <3>4. \A i \in 1 .. Len(outbox') : outbox'[i].kind # "move"
      BY <3>1, <3>2, <3>3 DEF MovesFit
    <3>5. \A q \in Nat : ~(q < game'.plies)
      BY <3>1
    <3> QED
      BY <2>1, <3>4, <3>5 DEF MovesFit
  <2> QED
    BY <2>2, <2>3
<1> QED
  BY <1>5, <1>7, <1>8, <1>9 DEF PlayInv

\* A row changes: its pause.
LEMMA RowIsPaused ==
    ASSUME NEW g \in GameRows, NEW paused \in {"nobody", "me", "opponent"}
    PROVE  LET h == [g EXCEPT !.paused = paused, !.ver = @ + 1] IN
              /\ h \in GameRows /\ h.ver = g.ver + 1 /\ h.me = g.me /\ h.plies = g.plies
              /\ h.status = g.status /\ h.paused = paused
<1> DEFINE ver == g.ver + 1
<1>1. ver \in Nat
  BY DEF GameRows
<1> HIDE DEF ver
<1>2. LET h == [g EXCEPT !.paused = paused, !.ver = ver] IN
         /\ h \in GameRows /\ h.ver = ver /\ h.me = g.me /\ h.plies = g.plies
         /\ h.status = g.status /\ h.paused = paused
  BY <1>1 DEF GameRows
<1> QED
  BY <1>2 DEF ver

\* It ends where it stands.
LEMMA RowIsEnded ==
    ASSUME NEW g \in GameRows
    PROVE  LET h == [g EXCEPT !.status = "finished", !.paused = "nobody", !.ver = @ + 1] IN
              /\ h \in GameRows /\ h.ver = g.ver + 1 /\ h.me = g.me /\ h.plies = g.plies
              /\ h.status = "finished" /\ h.paused = "nobody"
<1> DEFINE ver == g.ver + 1
<1>1. ver \in Nat
  BY DEF GameRows
<1> HIDE DEF ver
<1>2. LET h == [g EXCEPT !.status = "finished", !.paused = "nobody", !.ver = ver] IN
         /\ h \in GameRows /\ h.ver = ver /\ h.me = g.me /\ h.plies = g.plies
         /\ h.status = "finished" /\ h.paused = "nobody"
  BY <1>1 DEF GameRows, Statuses
<1> QED
  BY <1>2 DEF ver

\* A move is played, the last one or not.
LEMMA RowIsPlayed ==
    ASSUME NEW g \in GameRows, NEW status \in Statuses
    PROVE  LET h == [g EXCEPT !.plies = @ + 1, !.ver = @ + 1, !.paused = "nobody",
                              !.status = status] IN
              /\ h \in GameRows /\ h.ver = g.ver + 1 /\ h.me = g.me /\ h.plies = g.plies + 1
              /\ h.status = status /\ h.paused = "nobody"
<1> DEFINE ver == g.ver + 1
           plies == g.plies + 1
<1>1. ver \in Nat /\ plies \in Nat
  BY DEF GameRows
<1> HIDE DEF ver, plies
<1>2. LET h == [g EXCEPT !.plies = plies, !.ver = ver, !.paused = "nobody", !.status = status] IN
         /\ h \in GameRows /\ h.ver = ver /\ h.me = g.me /\ h.plies = plies
         /\ h.status = status /\ h.paused = "nobody"
  BY <1>1 DEF GameRows
<1> QED
  BY <1>2 DEF ver, plies

\* The connection is accepted, or its end is noticed.
LEMMA ConnectionKeeps == PlayInv /\ (LinkUp \/ NoticeDrop) => PlayInv'
<1> SUFFICES ASSUME PlayInv, LinkUp \/ NoticeDrop PROVE PlayInv'
  OBVIOUS
<1>1. /\ PlayTyped /\ LineHolds /\ AsMade(game) /\ PageFits /\ MovesAreAimed
      /\ game \in GameRows /\ inbox \in Seq(Events) /\ outbox \in Seq(Orders) /\ gap \in Nat
  BY DEF PlayInv, PlayTyped
<1>2. UNCHANGED <<outbox, view, fetch, screen, premoveDue, sentFrom, resent, misplaced>>
  BY DEF LinkUp, NoticeDrop, pageVars
<1>3. LineHolds'
  BY <1>1 DEF LineHolds, LinkUp, NoticeDrop, Established, linkVars
<1>4. CASE UNCHANGED <<game, inbox, gap>>
  <2>1. PlayTyped'
    BY <1>1, <1>2, <1>4 DEF PlayTyped
  <2>2. PageFits'
    BY <1>1, <1>2, <1>4 DEF PageFits
  <2>3. AsMade(game)' /\ MovesAreAimed'
    BY <1>1, <1>2, <1>4 DEF AsMade, MovesAreAimed, MovesFit
  <2> QED
    BY <1>3, <2>1, <2>2, <2>3 DEF PlayInv
<1>5. ASSUME NEW paused \in {"nobody", "me"},
             game' = [game EXCEPT !.paused = paused, !.ver = @ + 1],
             game.status = "active", game.me # "none",
             \/ inbox' = Append(inbox, StateEvent(game')) /\ gap' = gap
             \/ inbox' = <<>> /\ inbox = <<>> /\ gap' = game'.ver
      PROVE  PlayInv'
  <2>1. /\ game' \in GameRows /\ game'.ver = game.ver + 1 /\ game'.me = game.me
        /\ game'.plies = game.plies /\ game'.status = game.status
        /\ game.plies <= game'.plies /\ game'.ver # 0 /\ game'.ver \in Nat
    <3>1. game.ver \in Nat /\ game.plies \in Nat /\ game.plies <= game.plies
      BY <1>1 DEF GameRows
    <3>2. /\ game' \in GameRows /\ game'.ver = game.ver + 1 /\ game'.me = game.me
          /\ game'.plies = game.plies /\ game'.status = game.status
      <4>1. game' = [game EXCEPT !.paused = paused, !.ver = @ + 1]
        BY <1>5
      <4>2. paused \in {"nobody", "me", "opponent"}
        OBVIOUS
      <4> QED
        BY ZenonT(30), <1>1, <4>1, <4>2, RowIsPaused
    <3> QED
      BY <3>1, <3>2
  <2> DEFINE news == <<StateEvent(game')>>
  <2>2. news \in Seq(Events) /\ Announces(game, game', news) /\ StateEvent(game') \in Events
    BY ZenonT(30), <1>1, <1>5, <2>1, NewsAreMade, EventsAre
  <2>3. Append(inbox, StateEvent(game')) = inbox \o news
    BY <1>1, <2>2, AppendIsConcat
  <2> HIDE DEF news
  <2>4. PageFits'
    BY <1>1, <1>2, <1>5, <2>1, <2>2, <2>3, PageAfterChange
  <2>5. inbox' \in Seq(Events) /\ gap' \in Nat
    <3>1. inbox \o news \in Seq(Events) /\ <<>> \in Seq(Events)
      BY <1>1, <2>2, NewsAreAdded
    <3> QED
      BY <1>1, <1>5, <2>1, <2>3, <3>1
  <2>6. PlayTyped'
    BY <1>1, <1>2, <2>1, <2>5 DEF PlayTyped
  <2>7. AsMade(game)'
    BY <1>5, <2>1 DEF AsMade
  <2>8. MovesAreAimed'
    BY <1>1, <1>2, <2>1, MovesStay DEF MovesAreAimed
  <2> QED
    BY <1>3, <2>4, <2>6, <2>7, <2>8 DEF PlayInv
<1>6. CASE LinkUp
  <2>1. CASE game.status = "active" /\ game.paused = "me"
    <3>1. /\ game' = [game EXCEPT !.paused = "nobody", !.ver = @ + 1]
          /\ inbox' = Append(inbox, StateEvent(game')) /\ gap' = gap
      BY <1>6, <2>1 DEF LinkUp
    <3>2. game.me # "none"
      BY <1>1, <2>1 DEF AsMade
    <3> QED
      BY <1>5, <2>1, <3>1, <3>2
  <2>2. CASE ~(game.status = "active" /\ game.paused = "me")
    BY <1>4, <1>6, <2>2 DEF LinkUp
  <2> QED
    BY <2>1, <2>2
<1>7. CASE NoticeDrop
  <2>1. inbox = <<>> /\ inbox' = inbox
    BY <1>1, <1>7 DEF NoticeDrop, LineHolds
  <2>2. CASE game.me # "none" /\ game.status = "active" /\ game.paused = "nobody"
    <3>1. game' = [game EXCEPT !.paused = "me", !.ver = @ + 1] /\ gap' = game'.ver
      BY <1>7, <2>2 DEF NoticeDrop
    <3> QED
      BY <1>5, <2>1, <2>2, <3>1
  <2>3. CASE ~(game.me # "none" /\ game.status = "active" /\ game.paused = "nobody")
    BY <1>4, <1>7, <2>1, <2>3 DEF NoticeDrop
  <2> QED
    BY <2>2, <2>3
<1> QED
  BY <1>6, <1>7

\* What is told is an event, and no news of the game.
LEMMA TellingsAre ==
    ASSUME NEW k \in Tellings
    PROVE  /\ <<Told(k)>> \in Seq(Events)
           /\ \A i \in 1 .. Len(<<Told(k)>>) :
                 /\ <<Told(k)>>[i].ver = 0
                 /\ <<Told(k)>>[i].kind \notin {"game_state", "game_over"}
<1> DEFINE t == Told(k)
<1>1. t \in Events /\ t.ver = 0 /\ t.kind \notin {"game_state", "game_over"}
  BY DEF Told, Events, Statuses, Tellings, JoinAnswers, JoinErrors
<1> HIDE DEF t
<1> DEFINE news == <<t>>
<1>2. news \in Seq(Events) /\ \A i \in 1 .. Len(news) : news[i] = t
  BY <1>1
<1> HIDE DEF news
<1>3. \A i \in 1 .. Len(news) : news[i].ver = 0 /\ news[i].kind \notin {"game_state", "game_over"}
  BY <1>1, <1>2
<1> QED
  BY <1>2, <1>3 DEF news, t

\* The queue is asked for, and a match is made.
LEMMA QueueKeeps == PlayInv /\ (TakeJoin \/ TakeLeave \/ QueueCommandFails \/ Match) => PlayInv'
<1> SUFFICES ASSUME PlayInv, TakeJoin \/ TakeLeave \/ QueueCommandFails \/ Match PROVE PlayInv'
  OBVIOUS
<1>1. /\ game \in GameRows /\ outbox \in Seq(Orders)
      /\ UNCHANGED <<linkVars, attached, unnoticed, pageVars, sentFrom, resent, misplaced>>
      /\ outbox' = outbox \/ (outbox # <<>> /\ outbox' = Tail(outbox))
  BY DEF PlayInv, PlayTyped, TakeJoin, TakeLeave, QueueCommandFails, Match, Taken
<1>2. /\ game' \in GameRows /\ game'.ver = game.ver /\ game.me \in {"none", game'.me}
      /\ game'.plies = game.plies /\ game'.status = game.status /\ game'.paused = game.paused
  <2>1. CASE game' = game
    BY <1>1, <2>1
  <2>2. CASE Match
    <3>1. PICK color \in Colors : game' = [game EXCEPT !.me = color]
      BY <2>2 DEF Match
    <3>2. game.me = "none"
      BY <2>2 DEF Match
    <3> QED
      BY <1>1, <3>1, <3>2 DEF GameRows
  <2> QED
    BY <2>1, <2>2 DEF TakeJoin, TakeLeave, QueueCommandFails
<1>3. PICK news \in Seq(Events) :
         /\ Push(news, game)
         /\ \A i \in 1 .. Len(news) : /\ news[i].ver = 0
                                      /\ news[i].kind \notin {"game_state", "game_over"}
  <2>1. ASSUME NEW k \in Tellings, Push(<<Told(k)>>, game)
        PROVE  \E news \in Seq(Events) :
                  /\ Push(news, game)
                  /\ \A i \in 1 .. Len(news) : /\ news[i].ver = 0
                                               /\ news[i].kind \notin {"game_state", "game_over"}
    <3> DEFINE news == <<Told(k)>>
    <3>1. /\ news \in Seq(Events)
          /\ \A i \in 1 .. Len(news) : /\ news[i].ver = 0
                                       /\ news[i].kind \notin {"game_state", "game_over"}
      BY TellingsAre
    <3>2. Push(news, game)
      BY <2>1
    <3> HIDE DEF news
    <3> QED
      BY <3>1, <3>2
  <2>2. ASSUME Push(<<>>, game)
        PROVE  \E news \in Seq(Events) :
                  /\ Push(news, game)
                  /\ \A i \in 1 .. Len(news) : /\ news[i].ver = 0
                                               /\ news[i].kind \notin {"game_state", "game_over"}
    <3> DEFINE news == <<>>
    <3>1. news \in Seq(Events) /\ Len(news) = 0
      OBVIOUS
    <3>2. Push(news, game)
      BY <2>2
    <3> HIDE DEF news
    <3>3. \A i \in 1 .. Len(news) : news[i].ver = 0 /\ news[i].kind \notin {"game_state", "game_over"}
      BY <3>1
    <3> QED
      BY <3>1, <3>2, <3>3
  <2>3. CASE TakeJoin
    <3>1. PICK k \in {"ALREADY_IN_QUEUE", "queue_joined"} : Push(<<Told(k)>>, game)
      BY <2>3 DEF TakeJoin
    <3> QED
      BY <2>1, <3>1 DEF Tellings, JoinAnswers, JoinErrors
  <2>4. CASE TakeLeave
    <3>1. Push(<<>>, game) \/ Push(<<Told("NOT_IN_QUEUE")>>, game)
      BY <2>4 DEF TakeLeave
    <3> QED
      BY <2>1, <2>2, <3>1 DEF Tellings, JoinAnswers, JoinErrors
  <2>5. CASE Match
    <3>1. Push(<<Told("match_found")>>, game)
      BY <2>5 DEF Match
    <3> QED
      BY <2>1, <3>1 DEF Tellings, JoinAnswers, JoinErrors
  <2>6. CASE QueueCommandFails
    <3>1. Push(<<Told("INTERNAL_ERROR")>>, game)
      BY <2>6 DEF QueueCommandFails
    <3> QED
      BY <2>1, <3>1 DEF Tellings, JoinAnswers, JoinErrors
  <2> QED
    BY <2>3, <2>4, <2>5, <2>6
<1> QED
  BY <1>1, <1>2, <1>3, ToldKeeps

\* A move is played: the one at the head of the commands, or the opponent's.
LEMMA MovesAfterPlay ==
    ASSUME NEW g \in GameRows, NEW h \in GameRows, h.plies = g.plies + 1, h.me = g.me,
           NEW sent, NEW orders \in Seq(Orders), MovesFit(g, sent, orders)
    PROVE  /\ TurnAt(g.plies) # g.me => MovesFit(h, sent, orders)
           /\ orders # <<>> /\ Head(orders).kind = "move" =>
                 Head(orders).seen = g.plies /\ MovesFit(h, sent, Tail(orders))
<1>1. g.plies \in Nat /\ (\A q \in Nat : q < h.plies => q < g.plies \/ q = g.plies)
  BY DEF GameRows
<1>2. \A q \in Nat : q <= g.plies => q <= h.plies
  BY <1>1
<1>3. \A i \in 1 .. Len(orders) : orders[i].seen \in Nat
  <2>1. \A i \in 1 .. Len(orders) : orders[i] \in Orders
    OBVIOUS
  <2> QED
    BY <2>1 DEF Orders
<1>4. ASSUME TurnAt(g.plies) # g.me
      PROVE  MovesFit(h, sent, orders)
  BY <1>1, <1>2, <1>3, <1>4 DEF MovesFit
<1>5. ASSUME orders # <<>>, Head(orders).kind = "move"
      PROVE  Head(orders).seen = g.plies /\ MovesFit(h, sent, Tail(orders))
  <2> DEFINE rest == Tail(orders)
             q0 == Head(orders).seen
  <2>1. /\ Len(orders) \in Nat /\ 1 \in 1 .. Len(orders) /\ Head(orders) = orders[1]
        /\ Len(rest) = Len(orders) - 1
        /\ \A i \in 1 .. Len(rest) : rest[i] = orders[i + 1] /\ i + 1 \in 1 .. Len(orders) /\ i + 1 # 1
        /\ rest \in Seq(Orders)
    BY <1>5
  <2> HIDE DEF rest
  <2>2. q0 = orders[1].seen /\ orders[1].kind = "move" /\ q0 \in Nat
    BY <1>3, <1>5, <2>1
  <2> HIDE DEF q0
  <2>3. /\ q0 \in sent /\ q0 <= g.plies /\ TurnAt(q0) = g.me
        /\ \A j \in 1 .. Len(orders) : orders[j].kind = "move" /\ orders[j].seen = q0 => j = 1
    BY <2>1, <2>2 DEF MovesFit
  <2>4. ~(q0 < g.plies)
    BY <2>1, <2>2, <2>3 DEF MovesFit
  <2>5. q0 = g.plies
    BY <1>1, <2>2, <2>3, <2>4
  <2>6. \A i \in 1 .. Len(rest) : rest[i].kind = "move" => rest[i].seen # q0
    BY <2>1, <2>3
  <2>7. MovesFit(g, sent, rest)
    BY <1>5, <2>1, MovesStay DEF rest
  <2>8. \A i \in 1 .. Len(rest) : rest[i].seen \in Nat
    BY <1>3, <2>1
  <2>9. ASSUME NEW q \in Nat, q < h.plies, TurnAt(q) = h.me
        PROVE  q \in sent /\ \A k \in 1 .. Len(rest) : rest[k].kind = "move" => rest[k].seen # q
    <3>1. q < g.plies \/ q = q0
      BY <1>1, <2>5, <2>9
    <3> QED
      BY <2>3, <2>6, <2>7, <2>9, <3>1 DEF MovesFit
  <2>10. ASSUME NEW i \in 1 .. Len(rest), rest[i].kind = "move"
         PROVE  /\ rest[i].seen \in sent /\ rest[i].seen <= h.plies /\ TurnAt(rest[i].seen) = h.me
                /\ \A j \in 1 .. Len(rest) : rest[j].kind = "move" /\ rest[j].seen = rest[i].seen => j = i
    BY <1>2, <2>7, <2>8, <2>10 DEF MovesFit
  <2>11. MovesFit(h, sent, rest)
    BY <2>9, <2>10 DEF MovesFit
  <2> QED
    BY <2>5, <2>11 DEF rest, q0
<1> QED
  BY <1>4, <1>5

\* A move is played, or the game ends or is paused, and the page is told.
LEMMA GameIsPlayed ==
    ASSUME game \in GameRows, Played, game.status = "active"
    PROVE  /\ game' \in GameRows /\ game'.ver = game.ver + 1 /\ game'.me = game.me
           /\ game'.plies = game.plies + 1
           /\ \E news \in Seq(Events) : Announces(game, game', news) /\ Push(news, game')
<1>1. PICK over \in BOOLEAN :
         /\ game' = [game EXCEPT !.plies = @ + 1, !.ver = @ + 1, !.paused = "nobody",
                                 !.status = IF over THEN "finished" ELSE @]
         /\ Push(IF over THEN <<StateEvent(game'), OverEvent(game', TRUE)>>
                 ELSE <<StateEvent(game')>>, game')
  BY DEF Played
<1> DEFINE status == IF over THEN "finished" ELSE game.status
<1>2. status \in Statuses /\ (over => status = "finished") /\ (~over => status = "active")
  BY DEF Statuses
<1>3. game' = [game EXCEPT !.plies = @ + 1, !.ver = @ + 1, !.paused = "nobody", !.status = status]
  BY <1>1
<1> HIDE DEF status
<1>4. /\ game' \in GameRows /\ game'.ver = game.ver + 1 /\ game'.me = game.me
      /\ game'.plies = game.plies + 1 /\ game'.status = status /\ game'.paused = "nobody"
  BY <1>2, <1>3, RowIsPlayed
<1>5. /\ <<StateEvent(game')>> \in Seq(Events)
      /\ <<StateEvent(game'), OverEvent(game', TRUE)>> \in Seq(Events)
      /\ game'.status = "active" => Announces(game, game', <<StateEvent(game')>>)
      /\ game'.status = "finished" /\ game'.paused = "nobody" =>
            Announces(game, game', <<StateEvent(game'), OverEvent(game', TRUE)>>)
  BY <1>4, NewsAreMade
<1>6. CASE over
  <2>1. /\ Announces(game, game', <<StateEvent(game'), OverEvent(game', TRUE)>>)
        /\ Push(<<StateEvent(game'), OverEvent(game', TRUE)>>, game')
    BY <1>1, <1>2, <1>4, <1>5, <1>6
  <2> QED
    BY <1>4, <1>5, <2>1
<1>7. CASE ~over
  <2>1. Announces(game, game', <<StateEvent(game')>>) /\ Push(<<StateEvent(game')>>, game')
    BY <1>1, <1>2, <1>4, <1>5, <1>7
  <2> QED
    BY <1>4, <1>5, <2>1
<1> QED
  BY <1>6, <1>7

\* The game ends, or is paused or resumed, where it stands.
LEMMA GameStandsStill ==
    ASSUME game \in GameRows, game.status = "active", GameEnds \/ OpponentDrops \/ OpponentReturns
    PROVE  /\ game' \in GameRows /\ game'.ver = game.ver + 1 /\ game'.me = game.me
           /\ game'.plies = game.plies
           /\ \E news \in Seq(Events) : Announces(game, game', news) /\ Push(news, game')
<1>1. CASE GameEnds
  <2>1. /\ game' \in GameRows /\ game'.ver = game.ver + 1 /\ game'.me = game.me
        /\ game'.plies = game.plies /\ game'.status = "finished" /\ game'.paused = "nobody"
    <3>1. game' = [game EXCEPT !.status = "finished", !.paused = "nobody", !.ver = @ + 1]
      BY <1>1 DEF GameEnds
    <3> QED
      BY <3>1, RowIsEnded
  <2>2. PICK rated \in BOOLEAN : Push(<<OverEvent(game', rated)>>, game')
    BY <1>1 DEF GameEnds
  <2>3. <<OverEvent(game', rated)>> \in Seq(Events) /\ Announces(game, game', <<OverEvent(game', rated)>>)
    BY <2>1, NewsAreMade
  <2> QED
    BY <2>1, <2>2, <2>3
<1>2. CASE OpponentDrops \/ OpponentReturns
  <2>1. PICK paused \in {"nobody", "me", "opponent"} :
           game' = [game EXCEPT !.paused = paused, !.ver = @ + 1]
    BY <1>2 DEF OpponentDrops, OpponentReturns
  <2>2. /\ game' \in GameRows /\ game'.ver = game.ver + 1 /\ game'.me = game.me
        /\ game'.plies = game.plies /\ game'.status = "active"
    BY ZenonT(30), <2>1, RowIsPaused
  <2>3. <<StateEvent(game')>> \in Seq(Events) /\ Announces(game, game', <<StateEvent(game')>>)
    BY <2>2, NewsAreMade
  <2>4. Push(<<StateEvent(game')>>, game')
    BY <1>2 DEF OpponentDrops, OpponentReturns
  <2> QED
    BY <2>2, <2>3, <2>4
<1> QED
  BY <1>1, <1>2

\* A move or a resignation is taken; the opponent acts, or the monitor.
LEMMA GameKeeps ==
    PlayInv /\ (TakeMove \/ TakeResign \/ OpponentMoves \/ OpponentEnds \/ OpponentDrops \/ OpponentReturns)
      => PlayInv'
<1> SUFFICES ASSUME PlayInv,
                    TakeMove \/ TakeResign \/ OpponentMoves \/ OpponentEnds \/ OpponentDrops
                    \/ OpponentReturns
             PROVE  PlayInv'
  OBVIOUS
<1>1. /\ game \in GameRows /\ outbox \in Seq(Orders) /\ MovesAreAimed
      /\ UNCHANGED <<linkVars, attached, unnoticed, pageVars, sentFrom, resent>>
      /\ outbox' = outbox \/ (outbox # <<>> /\ outbox' = Tail(outbox))
      /\ misplaced \in BOOLEAN
  BY DEF PlayInv, PlayTyped, TakeMove, TakeResign, Taken, OpponentMoves, OpponentEnds, OpponentDrops,
         OpponentReturns, Others
<1>2. outbox' \in Seq(Orders)
  BY <1>1
<1>3. ASSUME Refused
      PROVE  PlayInv'
  <2> DEFINE news == <<Told("refused")>>
  <2>1. /\ news \in Seq(Events)
        /\ \A i \in 1 .. Len(news) : /\ news[i].ver = 0
                                     /\ news[i].kind \notin {"game_state", "game_over"}
    BY TellingsAre DEF Tellings
  <2>2. Push(news, game) /\ game' = game /\ misplaced' = misplaced
    BY <1>3 DEF Refused
  <2> HIDE DEF news
  <2> QED
    BY <1>1, <2>1, <2>2, ToldKeeps
<1>4. ASSUME GameEnds \/ OpponentDrops \/ OpponentReturns, CanChange, misplaced' = misplaced
      PROVE  PlayInv'
  <2>1. game.status = "active" /\ game.me # "none"
    BY <1>4 DEF CanChange
  <2>2. /\ game' \in GameRows /\ game'.ver = game.ver + 1 /\ game'.me = game.me
        /\ game'.plies = game.plies
        /\ \E news \in Seq(Events) : Announces(game, game', news) /\ Push(news, game')
    BY <1>1, <1>4, <2>1, GameStandsStill
  <2>3. PICK news \in Seq(Events) : Announces(game, game', news) /\ Push(news, game')
    BY <2>2
  <2>4. game.plies <= game'.plies
    BY <1>1, <2>2 DEF GameRows
  <2>5. MovesAreAimed'
    <3>1. MovesFit(game, sentFrom, outbox) => MovesFit(game', sentFrom, outbox')
      BY <1>1, <2>2, MovesStay
    <3> QED
      BY <1>1, <1>4, <3>1 DEF MovesAreAimed
  <2> QED
    BY <1>1, <1>2, <1>4, <2>1, <2>2, <2>3, <2>4, <2>5, ChangeKeeps
<1>5. ASSUME Played, CanChange, misplaced' \in BOOLEAN,
             MovesFit(game, sentFrom, outbox) /\ ~misplaced /\ game' \in GameRows
             /\ game'.plies = game.plies + 1 /\ game'.me = game.me
               => MovesFit(game', sentFrom, outbox') /\ ~misplaced'
      PROVE  PlayInv'
  <2>1. game.status = "active" /\ game.me # "none"
    BY <1>5 DEF CanChange
  <2>2. /\ game' \in GameRows /\ game'.ver = game.ver + 1 /\ game'.me = game.me
        /\ game'.plies = game.plies + 1
        /\ \E news \in Seq(Events) : Announces(game, game', news) /\ Push(news, game')
    BY <1>1, <1>5, <2>1, GameIsPlayed
  <2>3. PICK news \in Seq(Events) : Announces(game, game', news) /\ Push(news, game')
    BY <2>2
  <2>4. game.plies <= game'.plies
    BY <1>1, <2>2 DEF GameRows
  <2>5. MovesAreAimed'
    BY <1>1, <1>5, <2>2 DEF MovesAreAimed
  <2> QED
    BY <1>1, <1>2, <1>5, <2>1, <2>2, <2>3, <2>4, <2>5, ChangeKeeps
<1>6. CASE TakeMove
  <2>1. /\ outbox # <<>> /\ Head(outbox).kind = "move" /\ outbox' = Tail(outbox)
    BY <1>6 DEF TakeMove, Taken
  <2>2. CASE Refused
    BY <1>3, <2>2
  <2>3. CASE ~Refused
    <3>1. /\ CanChange /\ Played
          /\ misplaced' = (misplaced \/ Head(outbox).seen # game.plies)
      BY <1>6, <2>3 DEF TakeMove
    <3>2. ASSUME MovesFit(game, sentFrom, outbox), ~misplaced, game' \in GameRows,
                 game'.plies = game.plies + 1, game'.me = game.me
          PROVE  MovesFit(game', sentFrom, outbox') /\ ~misplaced'
      BY <1>1, <2>1, <3>1, <3>2, MovesAfterPlay
    <3>3. misplaced' \in BOOLEAN
      BY <1>1, <3>1
    <3> QED
      BY <1>5, <3>1, <3>2, <3>3
  <2> QED
    BY <2>2, <2>3
<1>7. CASE TakeResign
  BY <1>3, <1>4, <1>7 DEF TakeResign
<1>8. CASE OpponentMoves
  <2>1. CanChange /\ Played /\ TurnAt(game.plies) # game.me /\ UNCHANGED <<misplaced, outbox>>
    BY <1>8 DEF OpponentMoves, Others
  <2>2. ASSUME MovesFit(game, sentFrom, outbox), ~misplaced, game' \in GameRows,
               game'.plies = game.plies + 1, game'.me = game.me
        PROVE  MovesFit(game', sentFrom, outbox') /\ ~misplaced'
    BY <1>1, <2>1, <2>2, MovesAfterPlay
  <2> QED
    BY <1>1, <1>5, <2>1, <2>2
<1>9. CASE OpponentEnds \/ OpponentDrops \/ OpponentReturns
  BY <1>4, <1>9 DEF OpponentEnds, OpponentDrops, OpponentReturns, Others
<1> QED
  BY <1>6, <1>7, <1>8, <1>9

-----------------------------------------------------------------------------
\* The page, what it will hear and the moves on their way fit the server's game throughout.
LEMMA PlayInvariant == PlaySafe => []PlayInv
<1>1. PlayInv /\ [Next]_vars => PlayInv'
  <2> SUFFICES ASSUME PlayInv, [Next]_vars PROVE PlayInv'
    OBVIOUS
  <2>1. CASE Next
    BY <2>1, LineKeeps, ConnectionKeeps, PageKeeps, MoveKeeps, EventReaches, QueueKeeps, GameKeeps
       DEF Next
  <2>2. CASE UNCHANGED vars
    <3>1. UNCHANGED <<attached, unnoticed, inbox, outbox, game, screen, view, fetch, premoveDue, gap,
                      sentFrom, resent, misplaced, connectionState>>
      BY <2>2 DEF vars, linkVars, lineVars, pageVars, history
    <3>2. PlayTyped'
      BY <3>1 DEF PlayInv, PlayTyped
    <3>3. LineHolds' /\ AsMade(game)'
      BY <3>1 DEF PlayInv, LineHolds, AsMade
    <3>4. PageFits'
      BY <3>1 DEF PlayInv, PageFits
    <3>5. MovesAreAimed'
      BY <3>1 DEF PlayInv, MovesAreAimed
    <3> QED
      BY <3>2, <3>3, <3>4, <3>5 DEF PlayInv
  <2> QED
    BY <2>1, <2>2
<1> QED
  BY <1>1, PlayInitInv, PTL DEF PlaySafe

(* When nothing is on its way the game page shows the server's game: its   *)
(* position, status, pause and result.  It may differ only where a         *)
(* broadcast was lost with its connection and no full state followed, or   *)
(* where the answer to the page's own request was older than an event      *)
(* already shown: whatever else the link, the commands, the opponent and   *)
(* the monitor do, in games, queues and inboxes of any length.             *)
THEOREM PageShowsThePresent == Spec => []ShowsThePresent
<1>1. PlayInv => ShowsThePresent
  <2> SUFFICES ASSUME PlayInv, Quiet PROVE InStepWithServer \/ gap > 0 \/ Overtaken
    BY DEF ShowsThePresent
  <2>1. /\ game \in GameRows /\ view \in Views /\ gap \in Nat /\ PageFits /\ AsMade(game)
        /\ screen = "game" /\ fetch.stage = "none" /\ view.color # "none"
        /\ inbox = <<>> /\ Len(inbox) = 0
    BY DEF PlayInv, PlayTyped, Quiet
  <2>2. game.ver \in {view.newest, view.full, gap}
    BY <2>1 DEF PageFits, NewestIsHeard
  <2>3. /\ game.ver \in Nat /\ view.full \in Nat /\ view.newest \in Nat
        /\ view.full <= game.ver
        /\ view.full = game.ver => /\ view.plies = game.plies /\ view.status = game.status
                                   /\ view.paused = (game.paused # "nobody")
        /\ view.result \in BOOLEAN
        /\ view.result => game.status = "finished"
        /\ game.status = "finished" /\ view.full = game.ver => view.result \/ gap = game.ver
    BY <2>1 DEF PageFits, ViewFits, Fits, GameRows, Views
  <2>4. CASE gap > 0
    BY <2>4
  <2>5. CASE ~(gap > 0)
    <3>1. gap = 0
      BY <2>1, <2>5
    <3>2. CASE game.ver = view.full
      <4>1. view.status = game.status /\ view.plies = game.plies /\ view.paused = (game.paused # "nobody")
        BY <2>3, <3>2
      <4>2. game.status = "finished" => gap # game.ver
        BY <2>1, <3>1 DEF AsMade
      <4>3. view.result = (game.status = "finished")
        BY <2>3, <3>2, <4>2
      <4> QED
        BY <4>1, <4>3 DEF InStepWithServer
    <3>3. CASE game.ver # view.full
      <4>1. game.ver = view.newest \/ game.ver = 0
        BY <2>2, <3>1, <3>3
      <4>2. view.full < game.ver
        BY <2>3, <3>3
      <4> QED
        BY <2>3, <4>1, <4>2 DEF Overtaken
    <3> QED
      BY <3>2, <3>3
  <2> QED
    BY <2>4, <2>5
<1>2. Spec => PlaySafe
  BY PTL DEF Spec, PlaySafe
<1> QED
  BY <1>1, <1>2, PlayInvariant, PTL

(* A move is played in the position it was sent from, unless two were sent *)
(* from one position: a move that arrives late, after a reconnection or    *)
(* after others, never falls into a position the player had not seen.      *)
THEOREM MovesAreWhereAimed == Spec => []MovesGoWhereAimed
<1>1. PlayInv => MovesGoWhereAimed
  BY DEF PlayInv, PlayTyped, MovesAreAimed, MovesGoWhereAimed
<1>2. Spec => PlaySafe
  BY PTL DEF Spec, PlaySafe
<1> QED
  BY <1>1, <1>2, PlayInvariant, PTL
=============================================================================
