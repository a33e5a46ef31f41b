----------------------------- MODULE WSListener -----------------------------
(***************************************************************************)
(* The websocket connections of the embedded server, and the broadcast     *)
(* over them (WSListener.h, WSListener.cpp).                               *)
(*                                                                         *)
(* Every websocket has a thread of its own, which belongs to the library:  *)
(* it calls onAfterCreate, listens until the subscriber leaves, and calls  *)
(* onBeforeDestroy.  A broadcast runs on the thread that has something to  *)
(* tell.  No lock keeps these threads apart: a step of this module is one  *)
(* access to connections_, or one message.                                 *)
(***************************************************************************)
EXTENDS Integers, FiniteSets, SequencesExt

CONSTANTS
    Socket,          \* websockets, each used once
    Sender,          \* threads that broadcast
    Event,           \* what they tell
    NoSocket,
    NoEvent,
    MaxUnread,       \* messages to a subscriber that does not read, until sending blocks
    MaxTold,         \* bound: how many of the messages to a subscriber are remembered
    ConnectionsRace  \* may the accesses to connections_ overlap?

ASSUME ListenerAssumption ==
    /\ NoSocket \notin Socket /\ NoEvent \notin Event
    /\ MaxUnread \in Nat \ {0} /\ MaxTold \in Nat
    /\ ConnectionsRace \in BOOLEAN

VARIABLES
    SOCKETS,      \* WSInstanceListener::SOCKETS
    connections,  \* the vector connections_
    socketpc,     \* where each websocket's thread is: "absent", "created", "listening",
                  \* "closing", "found", "removed" or "gone"
    place,        \* pos of onBeforeDestroy, 0 for end()
    unread,       \* what has been sent to a subscriber and not been read
    told,         \* what has been sent to a subscriber that is there, the last MaxTold messages
    cursor,       \* per sender the loop of broadcastMessage
    broken        \* freed memory or a destroyed socket has been used

listenerVars == <<SOCKETS, connections, socketpc, place, unread, told, cursor, broken>>

\* The loop's iterators, the connection it sends to, and whether a
\* reallocation has left the iterators behind.
Idle == [event |-> NoEvent, next |-> 1, end |-> 0, to |-> NoSocket, dangling |-> FALSE]

ListenerInit ==
    /\ SOCKETS = 0
    /\ connections = <<>>
    /\ socketpc = [s \in Socket |-> "absent"]
    /\ place = [s \in Socket |-> 0]
    /\ unread = [s \in Socket |-> <<>>]
    /\ told = [s \in Socket |-> <<>>]
    /\ cursor = [t \in Sender |-> Idle]
    /\ broken = FALSE

Moves(s, from, to) == socketpc[s] = from /\ socketpc' = [socketpc EXCEPT ![s] = to]

Broadcasting == {t \in Sender : cursor[t] # Idle}

\* Where overlaps are excluded: the vector changes while nobody walks over it
\* or holds a position in it, and is walked over while nobody holds one.
NobodyRemoves == ConnectionsRace \/ \A s \in Socket : socketpc[s] # "found"
Alone         == NobodyRemoves /\ (ConnectionsRace \/ Broadcasting = {})

-----------------------------------------------------------------------------
(* The thread of a websocket *)

\* onAfterCreate counts the connection ...
Connect(s) ==
    /\ Moves(s, "absent", "created")
    /\ SOCKETS' = SOCKETS + 1
    /\ UNCHANGED <<connections, place, unread, told, cursor, broken>>

\* ... and adds it.  push_back may move the vector to new memory.
AddConnection(s) ==
    /\ Alone
    /\ Moves(s, "created", "listening")
    /\ connections' = Append(connections, s)
    /\ \/ cursor' = cursor
       \/ cursor' = [t \in Sender |-> IF t \in Broadcasting THEN [cursor[t] EXCEPT !.dangling = TRUE]
                                      ELSE cursor[t]]
    /\ UNCHANGED <<SOCKETS, place, unread, told, broken>>

\* The subscriber closes the websocket, or is lost: listen() returns.
Leave(s) ==
    /\ Moves(s, "listening", "closing")
    /\ unread' = [unread EXCEPT ![s] = <<>>]
    /\ told' = [told EXCEPT ![s] = <<>>]
    /\ UNCHANGED <<SOCKETS, connections, place, cursor, broken>>

\* onBeforeDestroy looks for the connection ...
FindConnection(s) ==
    /\ Alone
    /\ Moves(s, "closing", "found")
    /\ place' = [place EXCEPT ![s] = IF Contains(connections, s)
                                     THEN CHOOSE i \in DOMAIN connections : connections[i] = s
                                     ELSE 0]
    /\ UNCHANGED <<SOCKETS, connections, unread, told, cursor, broken>>

\* Mutant: the last connection is dropped, whichever it is.
PopConnection(s) ==
    /\ Moves(s, "found", "removed")
    /\ connections' = IF place[s] = 0 THEN connections ELSE Front(connections)
    /\ broken' = broken
    /\ place' = [place EXCEPT ![s] = 0]
    /\ UNCHANGED <<SOCKETS, unread, told, cursor>>

\* ... erases what is now at the place where it was, if that is still there ...
RemoveConnection(s) ==
    /\ Moves(s, "found", "removed")
    /\ IF place[s] > Len(connections)
       THEN broken' = TRUE /\ connections' = connections
       ELSE /\ connections' = IF place[s] = 0 THEN connections ELSE RemoveAt(connections, place[s])
            /\ broken' = broken
    /\ place' = [place EXCEPT ![s] = 0]
    /\ UNCHANGED <<SOCKETS, unread, told, cursor>>

\* ... and counts it out.  The library destroys the socket.
Disconnect(s) ==
    /\ Moves(s, "removed", "gone")
    /\ SOCKETS' = SOCKETS - 1
    /\ UNCHANGED <<connections, place, unread, told, cursor, broken>>

SocketStep(s) ==
    \/ AddConnection(s)
    \/ FindConnection(s)
    \/ RemoveConnection(s)
    \/ Disconnect(s)

-----------------------------------------------------------------------------
(* broadcastMessage *)

\* The loop over connections_ begins: begin() and end() are read once.
BeginBroadcast(t, event) ==
    /\ NobodyRemoves
    /\ cursor[t] = Idle
    /\ cursor' = [cursor EXCEPT ![t] = [Idle EXCEPT !.event = event, !.end = Len(connections)]]
    /\ UNCHANGED <<SOCKETS, connections, socketpc, place, unread, told, broken>>

\* The next connection, which is there unless the vector has moved or shrunk.
TakeConnection(t) ==
    /\ cursor[t].to = NoSocket /\ cursor[t].next <= cursor[t].end
    /\ IF cursor[t].dangling \/ cursor[t].next > Len(connections)
       THEN broken' = TRUE /\ cursor' = cursor
       ELSE /\ cursor' = [cursor EXCEPT ![t].to = connections[cursor[t].next]]
            /\ broken' = broken
    /\ UNCHANGED <<SOCKETS, connections, socketpc, place, unread, told>>

\* The last MaxTold of them.
Remembered(messages) == IF Len(messages) > MaxTold THEN Tail(messages) ELSE messages

\* Mutant: a message that would have to wait is dropped.
SendOrDrop(t) ==
    LET s == cursor[t].to IN
    /\ s # NoSocket
    /\ IF socketpc[s] = "listening" /\ Len(unread[s]) < MaxUnread
       THEN /\ unread' = [unread EXCEPT ![s] = Append(@, cursor[t].event)]
            /\ told' = [told EXCEPT ![s] = Remembered(Append(@, cursor[t].event))]
       ELSE UNCHANGED <<unread, told>>
    /\ cursor' = [cursor EXCEPT ![t].to = NoSocket, ![t].next = @ + 1]
    /\ broken' = (broken \/ socketpc[s] = "gone")
    /\ UNCHANGED <<SOCKETS, connections, socketpc, place>>

\* sendMessage: waits while the subscriber has too much to read; fails, and
\* returns, when the subscriber has left.
SendMessage(t) ==
    LET s == cursor[t].to IN
    /\ s # NoSocket
    /\ IF socketpc[s] = "listening"
       THEN /\ Len(unread[s]) < MaxUnread
            /\ unread' = [unread EXCEPT ![s] = Append(@, cursor[t].event)]
            /\ told' = [told EXCEPT ![s] = Remembered(Append(@, cursor[t].event))]
       ELSE UNCHANGED <<unread, told>>
    /\ cursor' = [cursor EXCEPT ![t].to = NoSocket, ![t].next = @ + 1]
    /\ broken' = (broken \/ socketpc[s] = "gone")
    /\ UNCHANGED <<SOCKETS, connections, socketpc, place>>

EndBroadcast(t) ==
    /\ cursor[t] # Idle /\ cursor[t].to = NoSocket /\ cursor[t].next > cursor[t].end
    /\ cursor' = [cursor EXCEPT ![t] = Idle]
    /\ UNCHANGED <<SOCKETS, connections, socketpc, place, unread, told, broken>>

BroadcastStep(t) == TakeConnection(t) \/ SendMessage(t)

\* The subscriber reads a message.
Read(s) ==
    /\ unread[s] # <<>>
    /\ unread' = [unread EXCEPT ![s] = Tail(@)]
    /\ UNCHANGED <<SOCKETS, connections, socketpc, place, told, cursor, broken>>

-----------------------------------------------------------------------------
\* Once freed memory has been used, nothing can be said.
ListenerNext ==
    /\ ~broken
    /\ \/ \E s \in Socket : Connect(s) \/ Leave(s) \/ SocketStep(s) \/ Read(s)
       \/ \E t \in Sender :
             \/ \E event \in Event : BeginBroadcast(t, event)
             \/ BroadcastStep(t)
             \/ EndBroadcast(t)

ListenerSpec == ListenerInit /\ [][ListenerNext]_listenerVars

-----------------------------------------------------------------------------
(* Properties *)

\* Connections are counted and listed while their threads are between adding
\* and removing them: the list holds each of them once, whatever the order in
\* which others have come and gone, and the counter counts one more for each
\* that is about to be added or has just been removed.
ListedWhileOpen ==
    /\ ToSet(connections) = {s \in Socket : socketpc[s] \in {"listening", "closing", "found"}}
    /\ IsInjective(connections)
    /\ SOCKETS = Cardinality({s \in Socket : socketpc[s] \notin {"absent", "gone"}})

\* "provides a threadsafe & easy to use interface to [...] redirect output":
\* whatever subscribers come and go, a broadcast uses only memory that is there.
BroadcastIsThreadSafe == ~broken

=============================================================================
