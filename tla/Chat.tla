-------------------------------- MODULE Chat --------------------------------
(***************************************************************************)
(* The chat panel of one browser: the message store and its hook, the      *)
(* request for the history of a game's room, the messages the server       *)
(* broadcasts to the room, and the line they travel on.  A message is its  *)
(* number in the server's table; chatLog[i] is the game it belongs to.     *)
(* The store's isLoading is left out: whatever sets it clears it at once,  *)
(* with the error of before (setLoading(true), setError(null)).            *)
(***************************************************************************)
EXTENDS Naturals, FiniteSets, SequencesExt

CONSTANTS
    Games,
    NoGame,
    MaxMessages,  \* bound on the messages stored
    MaxHistories  \* bound on the history requests in flight

ASSUME ChatAssumption ==
    NoGame \notin Games /\ MaxMessages \in Nat /\ MaxHistories \in Nat \ {0}

VARIABLES
    chatLog,     \* the server's table
    unannounced, \* messages stored and not yet broadcast
    lineUp,      \* the browser has a connection and is in its room
    chatInbox,   \* messages in flight to the browser
    chatOutbox,  \* the texts in flight to the server, by game
    room,        \* gameId of the message store, and of the handlers set up
    messages,    \* the messages shown, in order
    draft,       \* the input field: empty or a text (cut off at the maximal length)
    histories,   \* history requests: for a game, live or disposed, answered or not
    passedBy     \* messages of the room whose broadcast will not be heard

chatVars == <<chatLog, unannounced, lineUp, chatInbox, chatOutbox, room, messages,
              draft, histories, passedBy>>

Stored(g) == {i \in DOMAIN chatLog : chatLog[i] = g}
OfRoom(ids, g) == {i \in ids : chatLog[i] = g}

(* normalizeMessages: each number once, ascending.                         *)
Normalize(ids) ==
    [n \in 1 .. Cardinality(ids) |->
        CHOOSE i \in ids : Cardinality({j \in ids : j < i}) = n - 1]

ChatInit ==
    /\ chatLog = <<>> /\ unannounced = {}
    /\ lineUp \in BOOLEAN
    /\ chatInbox = <<>> /\ chatOutbox = <<>>
    /\ room = NoGame /\ messages = <<>> /\ draft = "empty"
    /\ histories = {}
    /\ passedBy = {}

(* The effect of the hook for a game, and the cleanup of the one before:   *)
(* handlers and a request are set up, setGameRoom empties another room.    *)
(* The panel is mounted before its page has set the new game, so it may    *)
(* begin with the game before.                                             *)
EnterRoom(g) ==
    /\ Cardinality(histories) < MaxHistories
    /\ room' = g
    /\ messages' = IF room = g THEN messages ELSE <<>>
    /\ histories' = {[h EXCEPT !.live = FALSE] : h \in histories}
                        \cup {[game |-> g, live |-> TRUE, ids |-> {}, answered |-> FALSE]}
    /\ passedBy' = Stored(g) \ (unannounced \cup ToSet(chatInbox) \cup ToSet(messages'))
    /\ UNCHANGED <<chatLog, unannounced, lineUp, chatInbox, chatOutbox, draft>>

(* The game or the session is gone: clear().                               *)
LeaveRoom ==
    /\ room # NoGame
    /\ room' = NoGame /\ messages' = <<>> /\ draft' = "empty"
    /\ histories' = {[h EXCEPT !.live = FALSE] : h \in histories}
    /\ passedBy' = {}
    /\ UNCHANGED <<chatLog, unannounced, lineUp, chatInbox, chatOutbox>>

HistoryServed(h) ==
    /\ ~h.answered
    /\ histories' = (histories \ {h})
                        \cup {[h EXCEPT !.answered = TRUE, !.ids = Stored(h.game)]}
    /\ UNCHANGED <<chatLog, unannounced, lineUp, chatInbox, chatOutbox, room,
                   messages, draft, passedBy>>

(* Mutant: the history replaces what is shown.                             *)
SetMessagesAnew(ids) == messages' = Normalize(ids)

(* setMessages: the history is merged with what is shown.                  *)
SetMessages(ids) == messages' = Normalize(ToSet(messages) \cup ids)

(* The answer of a request that was not disposed of.                       *)
HistoryArrives(h) ==
    /\ h.answered
    /\ histories' = histories \ {h}
    /\ IF h.live
       THEN /\ SetMessages(h.ids)
            /\ passedBy' = passedBy \ h.ids
       ELSE UNCHANGED <<messages, passedBy>>
    /\ UNCHANGED <<chatLog, unannounced, lineUp, chatInbox, chatOutbox, room, draft>>

HistoryFails(h) ==
    /\ histories' = histories \ {h}
    /\ UNCHANGED <<chatLog, unannounced, lineUp, chatInbox, chatOutbox, room,
                   messages, draft, passedBy>>

(* chat_message of this room: addMessage.                                  *)
HearMessage ==
    /\ chatInbox # <<>>
    /\ chatInbox' = Tail(chatInbox)
    /\ messages' = IF chatLog[Head(chatInbox)] = room
                   THEN Normalize(ToSet(messages) \cup {Head(chatInbox)}) ELSE messages
    /\ UNCHANGED <<chatLog, unannounced, lineUp, chatOutbox, room,
                   draft, histories, passedBy>>

TypeText ==
    /\ room # NoGame /\ draft = "empty"
    /\ draft' = "text"
    /\ UNCHANGED <<chatLog, unannounced, lineUp, chatInbox, chatOutbox, room,
                   messages, histories, passedBy>>

(* sendMessage: the field is emptied only when the link took the text.     *)
SendMessage ==
    /\ room # NoGame /\ draft = "text"
    /\ IF lineUp
       THEN /\ Len(chatOutbox) = 0
            /\ chatOutbox' = <<room>>
            /\ draft' = "empty"
       ELSE UNCHANGED <<chatOutbox, draft>>
    /\ UNCHANGED <<chatLog, unannounced, lineUp, chatInbox, room, messages,
                   histories, passedBy>>

-----------------------------------------------------------------------------
(* handle_chat_send stores a message and commits, ours or another's; the   *)
(* broadcasts of two messages may come in either order.                    *)
Store(g) ==
    /\ Len(chatLog) < MaxMessages
    /\ chatLog' = Append(chatLog, g)
    /\ unannounced' = unannounced \cup {Len(chatLog')}

StoreOwn ==
    /\ chatOutbox # <<>>
    /\ chatOutbox' = Tail(chatOutbox)
    /\ Store(Head(chatOutbox))
    /\ UNCHANGED <<lineUp, chatInbox, room, messages, draft, histories,
                   passedBy>>

StoreOther(g) ==
    /\ Store(g)
    /\ UNCHANGED <<lineUp, chatInbox, chatOutbox, room, messages, draft,
                   histories, passedBy>>

Announce(i) ==
    /\ unannounced' = unannounced \ {i}
    /\ IF lineUp
       THEN chatInbox' = Append(chatInbox, i) /\ UNCHANGED passedBy
       ELSE passedBy' = passedBy \cup OfRoom({i}, room) /\ UNCHANGED chatInbox
    /\ UNCHANGED <<chatLog, lineUp, chatOutbox, room, messages, draft,
                   histories>>

(* The link goes down with what is in flight, and comes up again, whatever *)
(* the panel is doing.                                                     *)
LineChanges ==
    /\ lineUp' = ~lineUp
    /\ chatInbox' = <<>> /\ chatOutbox' = <<>>
    /\ passedBy' = passedBy \cup OfRoom(ToSet(chatInbox), room)
    /\ UNCHANGED <<chatLog, unannounced, room, messages, draft, histories>>

ChatNext ==
    \/ \E g \in Games : EnterRoom(g) \/ StoreOther(g)
    \/ LeaveRoom
    \/ \E h \in histories : HistoryServed(h) \/ HistoryArrives(h) \/ HistoryFails(h)
    \/ HearMessage
    \/ TypeText \/ SendMessage \/ StoreOwn
    \/ \E i \in unannounced : Announce(i)
    \/ LineChanges

-----------------------------------------------------------------------------
(* When nothing is in flight, the panel shows the messages of its room, of *)
(* no other room, each once and in the server's order, whether they came   *)
(* with the history, as a broadcast or as both.  Missing are at most those *)
(* that were stored after the history was read and whose broadcast found   *)
(* the link down, or whose history could not be read.                      *)
ChatIsWhole ==
    /\ \A i \in 1 .. Len(messages) - 1 : messages[i] < messages[i + 1]
    /\ room # NoGame => ToSet(messages) \subseteq Stored(room)
    /\ (room # NoGame /\ chatInbox = <<>> /\ ~\E h \in histories : h.live)
          => Stored(room) \ (unannounced \cup passedBy) \subseteq ToSet(messages)
=============================================================================
