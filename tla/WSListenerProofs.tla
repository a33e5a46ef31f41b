-------------------------- MODULE WSListenerProofs --------------------------
(***************************************************************************)
(* Proofs about the list of websocket connections, for any number of       *)
(* websockets, senders and unread messages: what holds when the accesses   *)
(* to connections_ do not overlap.                                         *)
(***************************************************************************)
EXTENDS WSListener, FiniteSetTheorems, SequenceTheorems, TLAPS

-----------------------------------------------------------------------------
(* Lists without repetition *)

LEMMA AppendNew ==
    ASSUME NEW A, NEW s \in Seq(A), IsInjective(s), NEW e \in A, e \notin ToSet(s)
    PROVE  LET t == Append(s, e)
           IN  t \in Seq(A) /\ IsInjective(t) /\ ToSet(t) = ToSet(s) \cup {e}
  <1> DEFINE t == Append(s, e)
             n == Len(s)
  <1>1. /\ t \in Seq(A) /\ n \in Nat /\ DOMAIN t = 1 .. n + 1 /\ DOMAIN s = 1 .. n
        /\ \A i \in 1 .. n : t[i] = s[i]
        /\ t[n + 1] = e
    OBVIOUS
  <1> HIDE DEF t, n
  <1>2. \A i \in 1 .. n + 1 : i \in 1 .. n \/ i = n + 1
    BY <1>1
  <1>3. n + 1 \in 1 .. n + 1 /\ \A i \in 1 .. n : i \in 1 .. n + 1
    BY <1>1
  <1>4. ToSet(t) = ToSet(s) \cup {e}
    BY <1>1, <1>2, <1>3 DEF ToSet
  <1>5. IsInjective(t)
    BY <1>1, <1>2 DEF IsInjective, ToSet
  <1> QED
    BY <1>1, <1>4, <1>5 DEF t

LEMMA RemoveOne ==
    ASSUME NEW A, NEW s \in Seq(A), IsInjective(s), NEW p \in DOMAIN s
    PROVE  LET t == RemoveAt(s, p)
           IN  t \in Seq(A) /\ IsInjective(t) /\ ToSet(t) = ToSet(s) \ {s[p]}
  <1> DEFINE t     == RemoveAt(s, p)
             n     == Len(s)
             left  == SubSeq(s, 1, p - 1)
             right == SubSeq(s, p + 1, n)
             from(i) == IF i < p THEN i ELSE i + 1
  <1>1. n \in Nat /\ DOMAIN s = 1 .. n /\ p \in 1 .. n /\ \A i \in 1 .. n : s[i] \in A
    OBVIOUS
  <1>2. /\ left \in Seq(A) /\ Len(left) = p - 1
        /\ \A i \in 1 .. p - 1 : left[i] = s[i]
    <2>1. \A i \in 1 .. p - 1 : i \in 1 .. n /\ 1 + i - 1 = i
      BY <1>1
    <2>2. /\ left \in Seq(A)
          /\ Len(left) = IF 1 <= p - 1 THEN p - 1 - 1 + 1 ELSE 0
          /\ \A i \in 1 .. p - 1 - 1 + 1 : left[i] = s[1 + i - 1]
      BY <1>1, <2>1, SubSeqProperties
    <2>3. (IF 1 <= p - 1 THEN p - 1 - 1 + 1 ELSE 0) = p - 1 /\ p - 1 - 1 + 1 = p - 1
      BY <1>1
    <2> QED
      BY <2>1, <2>2, <2>3
  <1>3. /\ right \in Seq(A) /\ Len(right) = n - p
        /\ \A i \in 1 .. n - p : right[i] = s[p + i]
    <2>1. \A i \in p + 1 .. n : i \in 1 .. n
      BY <1>1
    <2>2. /\ right \in Seq(A)
          /\ Len(right) = IF p + 1 <= n THEN n - (p + 1) + 1 ELSE 0
          /\ \A i \in 1 .. n - (p + 1) + 1 : right[i] = s[(p + 1) + i - 1]
      BY <1>1, <2>1, SubSeqProperties
    <2>3. /\ (IF p + 1 <= n THEN n - (p + 1) + 1 ELSE 0) = n - p /\ n - (p + 1) + 1 = n - p
          /\ \A i \in 1 .. n - p : (p + 1) + i - 1 = p + i
      BY <1>1
    <2> QED
      BY <2>2, <2>3
  <1>4. t = left \o right
    BY DEF RemoveAt
  <1> HIDE DEF left, right, t, n
  <1>5. /\ t \in Seq(A) /\ Len(t) = (p - 1) + (n - p)
        /\ \A i \in 1 .. (p - 1) + (n - p) : t[i] = IF i <= p - 1 THEN left[i] ELSE right[i - (p - 1)]
    BY <1>2, <1>3, <1>4, ConcatProperties
  <1>6. DOMAIN t = 1 .. n - 1 /\ \A i \in 1 .. n - 1 : t[i] = s[from(i)]
    <2>1. (p - 1) + (n - p) = n - 1
      BY <1>1
    <2>2. DOMAIN t = 1 .. n - 1
      BY <1>5, <2>1
    <2>3. ASSUME NEW i \in 1 .. n - 1, i < p PROVE t[i] = s[i]
      BY <1>1, <1>2, <1>5, <2>1, <2>3
    <2>4. ASSUME NEW i \in 1 .. n - 1, ~(i < p) PROVE t[i] = s[i + 1]
      <3>1. t[i] = right[i - (p - 1)]
        BY <1>1, <1>5, <2>1, <2>4
      <3>2. i - (p - 1) \in 1 .. n - p /\ p + (i - (p - 1)) = i + 1
        BY <1>1, <2>4
      <3> QED
        BY <1>3, <3>1, <3>2
    <2> QED
      BY <2>2, <2>3, <2>4
  <1>7. /\ \A i \in 1 .. n - 1 : from(i) \in 1 .. n /\ from(i) # p
        /\ \A i, j \in 1 .. n - 1 : from(i) = from(j) => i = j
        /\ \A k \in 1 .. n : k # p => \E i \in 1 .. n - 1 : from(i) = k
    <2>1. ASSUME NEW k \in 1 .. n, k # p PROVE \E i \in 1 .. n - 1 : from(i) = k
      <3>1. CASE k < p
        BY <1>1, <3>1
      <3>2. CASE ~(k < p)
        <4>1. k - 1 \in 1 .. n - 1 /\ from(k - 1) = k
          BY <1>1, <2>1, <3>2
        <4> QED
          BY <4>1
      <3> QED
        BY <3>1, <3>2
    <2> QED
      BY <1>1, <2>1
  <1> HIDE DEF from
  <1>8. IsInjective(t)
    BY <1>1, <1>6, <1>7 DEF IsInjective
  <1>9. ToSet(t) = ToSet(s) \ {s[p]}
    <2>1. \A i \in 1 .. n - 1 : t[i] \in ToSet(s) /\ t[i] # s[p]
      BY <1>1, <1>6, <1>7 DEF ToSet, IsInjective
    <2>2. \A k \in 1 .. n : s[k] # s[p] => s[k] \in ToSet(t)
      BY <1>6, <1>7 DEF ToSet
    <2> QED
      BY <1>1, <1>6, <2>1, <2>2 DEF ToSet
  <1> QED
    BY <1>5, <1>8, <1>9 DEF t

-----------------------------------------------------------------------------
(* The invariant *)

SocketPC == {"absent", "created", "listening", "closing", "found", "removed", "gone"}

Loops == [event : Event \cup {NoEvent}, next : Nat \ {0}, end : Nat,
          to : Socket \cup {NoSocket}, dangling : BOOLEAN]

ListenerTypes ==
    /\ SOCKETS \in Int
    /\ connections \in Seq(Socket)
    /\ socketpc \in [Socket -> SocketPC]
    /\ place \in [Socket -> Nat]
    /\ cursor \in [Sender -> Loops]

Listed == {s \in Socket : socketpc[s] \in {"listening", "closing", "found"}}
Open   == {s \in Socket : socketpc[s] \notin {"absent", "gone"}}

ListInv == ToSet(connections) = Listed /\ IsInjective(connections)

CountInv == IsFiniteSet(Open) /\ SOCKETS = Cardinality(Open)

\* Only one thread at a time holds a position in the list, and the position
\* is that of its own connection.
PlaceInv ==
    /\ \A s \in Socket : socketpc[s] = "found" =>
          place[s] \in DOMAIN connections /\ connections[place[s]] = s
    /\ \A s, r \in Socket : socketpc[s] = "found" /\ socketpc[r] = "found" => s = r

\* While the list is walked over nobody holds a position in it, and it is as
\* it was when the walk began.
WalkInv ==
    \A t \in Sender : cursor[t] # Idle =>
        /\ \A s \in Socket : socketpc[s] # "found"
        /\ ~cursor[t].dangling
        /\ cursor[t].end = Len(connections)
        /\ cursor[t].to # NoSocket => cursor[t].to \in ToSet(connections)

ListenerInv == ListenerTypes /\ ListInv /\ CountInv /\ PlaceInv /\ WalkInv /\ ~broken

LEMMA IdleIsLoop == Idle \in Loops
  BY DEF Idle, Loops

LEMMA ListenerInitial == ListenerInit => ListenerInv
  <1> SUFFICES ASSUME ListenerInit PROVE ListenerInv
    OBVIOUS
  <1>1. ListenerTypes
    BY IdleIsLoop DEF ListenerInit, ListenerTypes, SocketPC
  <1>2. ListInv
    BY DEF ListenerInit, ListInv, Listed, ToSet, IsInjective
  <1>3. CountInv
    <2>1. Open = {}
      BY DEF ListenerInit, Open
    <2> QED
      BY <2>1, FS_EmptySet DEF ListenerInit, CountInv
  <1>4. PlaceInv /\ WalkInv /\ ~broken
    BY DEF ListenerInit, PlaceInv, WalkInv
  <1> QED
    BY <1>1, <1>2, <1>3, <1>4 DEF ListenerInv

-----------------------------------------------------------------------------
(* The threads of the websockets *)

\* Where a websocket's thread is now, and that no other thread has moved.
LEMMA MovesOne ==
    ASSUME ListenerTypes, NEW s \in Socket, NEW from, NEW to \in SocketPC, Moves(s, from, to)
    PROVE  /\ socketpc' \in [Socket -> SocketPC]
           /\ socketpc[s] = from /\ socketpc'[s] = to
           /\ \A r \in Socket : r # s => socketpc'[r] = socketpc[r]
  BY DEF Moves, ListenerTypes

LEMMA ConnectKeeps ==
    ASSUME ListenerInv, NEW s \in Socket, Connect(s)
    PROVE  ListenerInv'
  <1> USE DEF ListenerInv
  <1>1. /\ Moves(s, "absent", "created") /\ SOCKETS' = SOCKETS + 1
        /\ UNCHANGED <<connections, place, unread, told, cursor, broken>>
    BY DEF Connect
  <1>2. /\ socketpc' \in [Socket -> SocketPC]
        /\ socketpc[s] = "absent" /\ socketpc'[s] = "created"
        /\ \A r \in Socket : r # s => socketpc'[r] = socketpc[r]
    BY <1>1, MovesOne DEF SocketPC
  <1>3. Listed' = Listed /\ Open' = Open \cup {s} /\ s \notin Open
    BY <1>2 DEF Listed, Open
  <1>4. CountInv'
    BY <1>1, <1>3, FS_AddElement DEF CountInv
  <1>5. ListenerTypes' /\ ListInv'
    BY <1>1, <1>2, <1>3 DEF ListenerTypes, ListInv
  <1>6. PlaceInv' /\ WalkInv'
    BY <1>1, <1>2 DEF PlaceInv, WalkInv
  <1> QED
    BY <1>1, <1>4, <1>5, <1>6

LEMMA AddKeeps ==
    ASSUME ~ConnectionsRace, ListenerInv, NEW s \in Socket, AddConnection(s)
    PROVE  ListenerInv'
  <1> USE DEF ListenerInv
  <1>1. /\ Moves(s, "created", "listening") /\ connections' = Append(connections, s)
        /\ UNCHANGED <<SOCKETS, place, unread, told, broken>>
        /\ \A r \in Socket : socketpc[r] # "found"
        /\ Broadcasting = {}
    BY DEF AddConnection, Alone, NobodyRemoves
  <1>2. /\ socketpc' \in [Socket -> SocketPC]
        /\ socketpc[s] = "created" /\ socketpc'[s] = "listening"
        /\ \A r \in Socket : r # s => socketpc'[r] = socketpc[r]
    BY <1>1, MovesOne DEF SocketPC
  <1>3. cursor' = cursor /\ \A t \in Sender : cursor[t] = Idle
    <2>1. \A t \in Sender : cursor[t] = Idle
      BY <1>1 DEF Broadcasting
    <2>2. cursor = [t \in Sender |-> cursor[t]]
      BY DEF ListenerTypes
    <2> QED
      BY <1>1, <2>1, <2>2 DEF AddConnection
  <1>4. Listed' = Listed \cup {s} /\ Open' = Open /\ s \notin Listed
    BY <1>2 DEF Listed, Open
  <1>5. /\ connections' \in Seq(Socket)
        /\ ToSet(connections') = ToSet(connections) \cup {s} /\ IsInjective(connections')
    BY <1>1, <1>4, AppendNew DEF ListInv, ListenerTypes
  <1>6. ListenerTypes' /\ ListInv'
    BY <1>1, <1>2, <1>3, <1>4, <1>5 DEF ListenerTypes, ListInv
  <1>7. CountInv'
    BY <1>1, <1>4 DEF CountInv
  <1>8. PlaceInv' /\ WalkInv'
    BY <1>1, <1>2, <1>3 DEF PlaceInv, WalkInv
  <1> QED
    BY <1>1, <1>6, <1>7, <1>8

LEMMA LeaveKeeps ==
    ASSUME ListenerInv, NEW s \in Socket, Leave(s)
    PROVE  ListenerInv'
  <1> USE DEF ListenerInv
  <1>1. /\ Moves(s, "listening", "closing")
        /\ UNCHANGED <<SOCKETS, connections, place, cursor, broken>>
    BY DEF Leave
  <1>2. /\ socketpc' \in [Socket -> SocketPC]
        /\ socketpc[s] = "listening" /\ socketpc'[s] = "closing"
        /\ \A r \in Socket : r # s => socketpc'[r] = socketpc[r]
    BY <1>1, MovesOne DEF SocketPC
  <1>3. Listed' = Listed /\ Open' = Open
    BY <1>2 DEF Listed, Open
  <1>4. ListenerTypes' /\ ListInv' /\ CountInv'
    BY <1>1, <1>2, <1>3 DEF ListenerTypes, ListInv, CountInv
  <1>5. PlaceInv' /\ WalkInv'
    BY <1>1, <1>2 DEF PlaceInv, WalkInv
  <1> QED
    BY <1>1, <1>4, <1>5

LEMMA FindKeeps ==
    ASSUME ~ConnectionsRace, ListenerInv, NEW s \in Socket, FindConnection(s)
    PROVE  ListenerInv'
  <1> USE DEF ListenerInv
  <1> DEFINE p == CHOOSE i \in DOMAIN connections : connections[i] = s
  <1>1. /\ Moves(s, "closing", "found")
        /\ place' = [place EXCEPT ![s] = IF Contains(connections, s) THEN p ELSE 0]
        /\ UNCHANGED <<SOCKETS, connections, unread, told, cursor, broken>>
        /\ \A r \in Socket : socketpc[r] # "found"
        /\ Broadcasting = {}
    BY DEF FindConnection, Alone, NobodyRemoves
  <1>2. /\ socketpc' \in [Socket -> SocketPC]
        /\ socketpc[s] = "closing" /\ socketpc'[s] = "found"
        /\ \A r \in Socket : r # s => socketpc'[r] = socketpc[r]
    BY <1>1, MovesOne DEF SocketPC
  <1>3. Listed' = Listed /\ Open' = Open /\ s \in Listed
    BY <1>2 DEF Listed, Open
  <1>4. \E i \in DOMAIN connections : connections[i] = s
    BY <1>3 DEF ListInv, ToSet
  <1>5. DOMAIN connections = 1 .. Len(connections) /\ Len(connections) \in Nat
    BY DEF ListenerTypes
  <1>6. Contains(connections, s) /\ p \in DOMAIN connections /\ connections[p] = s /\ p \in Nat
    BY <1>4, <1>5 DEF Contains
  <1> HIDE DEF p
  <1>7. place' \in [Socket -> Nat] /\ place'[s] = p
    BY <1>1, <1>6 DEF ListenerTypes
  <1>8. ListenerTypes' /\ ListInv' /\ CountInv'
    BY <1>1, <1>2, <1>3, <1>7 DEF ListenerTypes, ListInv, CountInv
  <1>9. PlaceInv'
    BY <1>1, <1>2, <1>6, <1>7 DEF PlaceInv
  <1>10. WalkInv'
    BY <1>1 DEF WalkInv, Broadcasting
  <1> QED
    BY <1>1, <1>8, <1>9, <1>10

LEMMA RemoveKeeps ==
    ASSUME ListenerInv, NEW s \in Socket, RemoveConnection(s)
    PROVE  ListenerInv'
  <1> USE DEF ListenerInv
  <1>1. /\ Moves(s, "found", "removed") /\ place' = [place EXCEPT ![s] = 0]
        /\ UNCHANGED <<SOCKETS, unread, told, cursor>>
    BY DEF RemoveConnection
  <1>2. /\ socketpc' \in [Socket -> SocketPC]
        /\ socketpc[s] = "found" /\ socketpc'[s] = "removed"
        /\ \A r \in Socket : r # s => socketpc'[r] = socketpc[r]
    BY <1>1, MovesOne DEF SocketPC
  <1>3. place[s] \in DOMAIN connections /\ connections[place[s]] = s
    BY <1>2 DEF PlaceInv
  <1>4. place[s] > 0 /\ ~(place[s] > Len(connections))
    BY <1>3 DEF ListenerTypes
  <1>5. connections' = RemoveAt(connections, place[s]) /\ broken' = broken
    BY <1>4 DEF RemoveConnection
  <1>6. Listed' = Listed \ {s} /\ Open' = Open
    BY <1>2 DEF Listed, Open
  <1>7. /\ connections' \in Seq(Socket)
        /\ ToSet(connections') = ToSet(connections) \ {s} /\ IsInjective(connections')
    BY <1>3, <1>5, RemoveOne DEF ListInv, ListenerTypes
  <1>8. ListenerTypes' /\ ListInv' /\ CountInv'
    BY <1>1, <1>2, <1>6, <1>7 DEF ListenerTypes, ListInv, CountInv
  <1>9. \A r \in Socket : socketpc'[r] # "found"
    BY <1>2 DEF PlaceInv
  <1>10. \A t \in Sender : cursor'[t] = Idle
    BY <1>1, <1>2 DEF WalkInv
  <1> QED
    BY <1>5, <1>8, <1>9, <1>10 DEF PlaceInv, WalkInv

LEMMA DisconnectKeeps ==
    ASSUME ListenerInv, NEW s \in Socket, Disconnect(s)
    PROVE  ListenerInv'
  <1> USE DEF ListenerInv
  <1>1. /\ Moves(s, "removed", "gone") /\ SOCKETS' = SOCKETS - 1
        /\ UNCHANGED <<connections, place, unread, told, cursor, broken>>
    BY DEF Disconnect
  <1>2. /\ socketpc' \in [Socket -> SocketPC]
        /\ socketpc[s] = "removed" /\ socketpc'[s] = "gone"
        /\ \A r \in Socket : r # s => socketpc'[r] = socketpc[r]
    BY <1>1, MovesOne DEF SocketPC
  <1>3. Listed' = Listed /\ Open' = Open \ {s} /\ s \in Open
    BY <1>2 DEF Listed, Open
  <1>4. CountInv'
    BY <1>1, <1>3, FS_RemoveElement DEF CountInv
  <1>5. ListenerTypes' /\ ListInv'
    BY <1>1, <1>2, <1>3 DEF ListenerTypes, ListInv
  <1>6. PlaceInv' /\ WalkInv'
    BY <1>1, <1>2 DEF PlaceInv, WalkInv
  <1> QED
    BY <1>1, <1>4, <1>5, <1>6

-----------------------------------------------------------------------------
(* The broadcasts *)

\* A broadcast moves its own cursor only, and to a position that is good.
LEMMA CursorKeeps ==
    ASSUME ListenerInv, NEW t \in Sender, NEW loop \in Loops,
           cursor' = [cursor EXCEPT ![t] = loop],
           UNCHANGED <<SOCKETS, connections, socketpc, place>>, ~broken',
           loop # Idle => /\ \A s \in Socket : socketpc[s] # "found"
                          /\ ~loop.dangling
                          /\ loop.end = Len(connections)
                          /\ loop.to # NoSocket => loop.to \in ToSet(connections)
    PROVE  ListenerInv'
  <1> USE DEF ListenerInv
  <1>1. /\ cursor' \in [Sender -> Loops] /\ cursor'[t] = loop
        /\ \A u \in Sender : u # t => cursor'[u] = cursor[u]
    BY DEF ListenerTypes
  <1>2. ListenerTypes'
    BY <1>1 DEF ListenerTypes
  <1>3. ListInv' /\ CountInv' /\ PlaceInv'
    BY DEF ListInv, CountInv, PlaceInv, Listed, Open
  <1>4. WalkInv'
    BY <1>1 DEF WalkInv
  <1> QED
    BY <1>2, <1>3, <1>4

LEMMA BeginKeeps ==
    ASSUME ~ConnectionsRace, ListenerInv, NEW t \in Sender, NEW event \in Event,
           BeginBroadcast(t, event)
    PROVE  ListenerInv'
  <1> DEFINE loop == [Idle EXCEPT !.event = event, !.end = Len(connections)]
  <1>1. Len(connections) \in Nat
    BY DEF ListenerInv, ListenerTypes
  <1>2. Idle \in Loops /\ Idle.to = NoSocket /\ ~Idle.dangling
    BY IdleIsLoop DEF Idle
  <1>3. /\ loop \in Loops /\ ~loop.dangling /\ loop.end = Len(connections)
        /\ loop.to = NoSocket
    BY <1>1, <1>2 DEF Loops
  <1> HIDE DEF loop
  <1>4. /\ cursor' = [cursor EXCEPT ![t] = loop]
        /\ UNCHANGED <<SOCKETS, connections, socketpc, place>> /\ ~broken'
        /\ \A s \in Socket : socketpc[s] # "found"
    BY DEF BeginBroadcast, NobodyRemoves, ListenerInv, loop
  <1> QED
    BY <1>3, <1>4, CursorKeeps

LEMMA TakeKeeps ==
    ASSUME ListenerInv, NEW t \in Sender, TakeConnection(t)
    PROVE  ListenerInv'
  <1> DEFINE loop == [cursor[t] EXCEPT !.to = connections[cursor[t].next]]
  <1>1. cursor[t] \in Loops /\ connections \in Seq(Socket)
    BY DEF ListenerInv, ListenerTypes
  <1>2. cursor[t].next <= cursor[t].end
    BY DEF TakeConnection
  <1>3. cursor[t] # Idle
    BY <1>2 DEF Idle
  <1>4. /\ \A s \in Socket : socketpc[s] # "found"
        /\ ~cursor[t].dangling /\ cursor[t].end = Len(connections)
    BY <1>3 DEF ListenerInv, WalkInv
  <1>5. cursor[t].next \in DOMAIN connections
    BY <1>1, <1>2, <1>4 DEF Loops
  <1>6. ~(cursor[t].dangling \/ cursor[t].next > Len(connections))
    BY <1>1, <1>4, <1>5
  <1>7. /\ cursor' = [cursor EXCEPT ![t].to = connections[cursor[t].next]]
        /\ UNCHANGED <<SOCKETS, connections, socketpc, place>> /\ ~broken'
    BY <1>6 DEF TakeConnection, ListenerInv
  <1>8. /\ loop \in Loops /\ loop.dangling = cursor[t].dangling /\ loop.end = cursor[t].end
        /\ loop.to = connections[cursor[t].next]
    BY <1>1, <1>5 DEF Loops
  <1>9. loop.to \in ToSet(connections)
    BY <1>5, <1>8 DEF ToSet
  <1>10. cursor' = [cursor EXCEPT ![t] = loop]
    BY <1>7
  <1> HIDE DEF loop
  <1> QED
    BY <1>4, <1>7, <1>8, <1>9, <1>10, CursorKeeps

LEMMA SendKeeps ==
    ASSUME ListenerInv, NEW t \in Sender, SendMessage(t)
    PROVE  ListenerInv'
  <1> DEFINE s    == cursor[t].to
             loop == [cursor[t] EXCEPT !.to = NoSocket, !.next = @ + 1]
  <1>1. cursor[t] \in Loops
    BY DEF ListenerInv, ListenerTypes
  <1>2. s # NoSocket /\ cursor[t] # Idle
    BY DEF SendMessage, Idle
  <1>3. /\ \A r \in Socket : socketpc[r] # "found"
        /\ ~cursor[t].dangling /\ cursor[t].end = Len(connections)
        /\ s \in ToSet(connections)
    BY <1>2 DEF ListenerInv, WalkInv
  <1>4. socketpc[s] # "gone"
    BY <1>3 DEF ListenerInv, ListInv, Listed
  <1>5. loop \in Loops /\ ~loop.dangling /\ loop.end = cursor[t].end /\ loop.to = NoSocket
    <2>1. cursor[t].next + 1 \in Nat \ {0}
      BY <1>1 DEF Loops
    <2> QED
      BY <1>1, <1>3, <2>1 DEF Loops
  <1>6. /\ cursor' = [cursor EXCEPT ![t] = loop]
        /\ UNCHANGED <<SOCKETS, connections, socketpc, place>>
    BY DEF SendMessage
  <1>7. ~broken'
    BY <1>4 DEF SendMessage, ListenerInv
  <1> HIDE DEF loop
  <1> QED
    BY <1>3, <1>5, <1>6, <1>7, CursorKeeps

LEMMA EndKeeps ==
    ASSUME ListenerInv, NEW t \in Sender, EndBroadcast(t)
    PROVE  ListenerInv'
  BY CursorKeeps, IdleIsLoop DEF EndBroadcast, ListenerInv

-----------------------------------------------------------------------------
(* The theorems *)

LEMMA ListenerStep ==
    ASSUME ~ConnectionsRace
    PROVE  ListenerInv /\ [ListenerNext]_listenerVars => ListenerInv'
  <1> SUFFICES ASSUME ListenerInv, [ListenerNext]_listenerVars PROVE ListenerInv'
    OBVIOUS
  <1>1. ASSUME NEW s \in Socket, Connect(s) \/ Leave(s) \/ SocketStep(s)
        PROVE  ListenerInv'
    BY <1>1, ConnectKeeps, LeaveKeeps, AddKeeps, FindKeeps, RemoveKeeps, DisconnectKeeps
    DEF SocketStep
  <1>2. ASSUME UNCHANGED <<SOCKETS, connections, socketpc, place, cursor, broken>>
        PROVE  ListenerInv'
    BY <1>2
    DEF ListenerInv, ListenerTypes, ListInv, CountInv, PlaceInv, WalkInv, Listed, Open
  <1>3. ASSUME NEW s \in Socket, Read(s)
        PROVE  ListenerInv'
    BY <1>2, <1>3 DEF Read
  <1>4. ASSUME NEW t \in Sender,
               (\E event \in Event : BeginBroadcast(t, event)) \/ BroadcastStep(t) \/ EndBroadcast(t)
        PROVE  ListenerInv'
    BY <1>4, BeginKeeps, TakeKeeps, SendKeeps, EndKeeps DEF BroadcastStep
  <1>5. CASE UNCHANGED listenerVars
    BY <1>2, <1>5 DEF listenerVars
  <1> QED
    BY <1>1, <1>3, <1>4, <1>5 DEF ListenerNext

LEMMA AlwaysListener ==
    ASSUME ~ConnectionsRace
    PROVE  ListenerSpec => []ListenerInv
  <1>1. ListenerInv /\ [ListenerNext]_listenerVars => ListenerInv'
    BY ListenerStep
  <1> QED
    BY <1>1, ListenerInitial, PTL DEF ListenerSpec

\* When accesses to connections_ do not overlap, the list holds each open
\* connection once and SOCKETS counts them, for any number of websockets that
\* come and go in any order, while senders wait for slow subscribers or not.
THEOREM ConnectionsAreListed ==
    ASSUME ~ConnectionsRace
    PROVE  ListenerSpec => []ListedWhileOpen
  <1>1. ListenerInv => ListedWhileOpen
    BY DEF ListenerInv, ListInv, CountInv, ListedWhileOpen, Listed, Open
  <1> QED
    BY <1>1, AlwaysListener, PTL

\* The overlaps are all that is wrong with the broadcast: without them it
\* uses only connections that are there, with no further lock, although
\* senders overtake each other and subscribers leave while they are told.
THEOREM SerialBroadcastIsSafe ==
    ASSUME ~ConnectionsRace
    PROVE  ListenerSpec => []BroadcastIsThreadSafe
  <1>1. ListenerInv => BroadcastIsThreadSafe
    BY DEF ListenerInv, BroadcastIsThreadSafe
  <1> QED
    BY <1>1, AlwaysListener, PTL

-----------------------------------------------------------------------------
(* What subscribers are told *)

\* A subscriber has been told something only while it listens; a sender that
\* waits for one stands at its place in the list.
ToldInv ==
    /\ told \in [Socket -> Seq(Event)]
    /\ \A s \in Socket : socketpc[s] # "listening" => told[s] = <<>>
    /\ \A t \in Sender :
          /\ cursor[t] # Idle => cursor[t].event \in Event
          /\ cursor[t].to # NoSocket => /\ cursor[t].next \in DOMAIN connections
                                        /\ cursor[t].to = connections[cursor[t].next]

\* The last message is remembered, if any is.
LEMMA LastIsRemembered ==
    ASSUME NEW A, NEW m \in Seq(A), NEW e \in A
    PROVE  LET r == Remembered(Append(m, e))
           IN  r \in Seq(A) /\ (r # <<>> => Last(r) = e)
  <1> DEFINE n == Append(m, e)
  <1>1. n \in Seq(A) /\ Len(n) \in Nat /\ Len(n) = Len(m) + 1 /\ Len(m) \in Nat /\ n[Len(n)] = e
    OBVIOUS
  <1>2. n # <<>>
    BY <1>1
  <1> HIDE DEF n
  <1>3. PICK rest : rest = Tail(n)
    OBVIOUS
  <1>4. rest \in Seq(A) /\ Len(rest) = Len(n) - 1 /\ \A i \in 1 .. Len(rest) : rest[i] = n[i + 1]
    BY <1>1, <1>2, <1>3, HeadTailProperties
  <1>5. rest # <<>> => Len(rest) \in 1 .. Len(rest)
    BY <1>4
  <1>6. rest # <<>> => rest[Len(rest)] = n[Len(n)]
    <2>1. Len(rest) + 1 = Len(n)
      BY <1>1, <1>4
    <2> QED
      BY <1>4, <1>5, <2>1
  <1> QED
    BY <1>1, <1>3, <1>4, <1>6 DEF Remembered, Last, n

\* What a sender does to its subscriber: it is told the event, last of all,
\* unless it does not listen any more; the others are told nothing.
LEMMA SendTells ==
    ASSUME ListenerTypes, ToldInv, NEW t \in Sender, SendMessage(t)
    PROVE  LET s == cursor[t].to
           IN  /\ s \in Socket /\ cursor[t] # Idle
               /\ told' \in [Socket -> Seq(Event)]
               /\ \A r \in Socket : r # s \/ socketpc[r] # "listening" => told'[r] = told[r]
               /\ socketpc[s] = "listening" /\ told'[s] # <<>> => Last(told'[s]) = cursor[t].event
  <1> DEFINE s == cursor[t].to
  <1>1. cursor[t] # Idle /\ s # NoSocket
    BY DEF SendMessage, Idle
  <1>2. s \in Socket /\ cursor[t].event \in Event /\ told[s] \in Seq(Event)
    BY <1>1 DEF ToldInv, ListenerTypes, Loops
  <1>3. CASE socketpc[s] = "listening"
    <2> DEFINE now == Remembered(Append(told[s], cursor[t].event))
    <2>1. now \in Seq(Event) /\ (now # <<>> => Last(now) = cursor[t].event)
      BY <1>2, LastIsRemembered
    <2>2. told' = [told EXCEPT ![s] = now]
      BY <1>3 DEF SendMessage
    <2> HIDE DEF now
    <2>3. /\ told' \in [Socket -> Seq(Event)] /\ told'[s] = now
          /\ \A r \in Socket : r # s => told'[r] = told[r]
      BY <1>2, <2>1, <2>2 DEF ToldInv
    <2> QED
      BY <1>1, <1>2, <1>3, <2>1, <2>3
  <1>4. CASE socketpc[s] # "listening"
    BY <1>1, <1>2, <1>4 DEF SendMessage, ToldInv
  <1> QED
    BY <1>3, <1>4

LEMMA SocketTells ==
    ASSUME ~ConnectionsRace, ListenerInv, ToldInv, NEW s \in Socket,
           Connect(s) \/ Leave(s) \/ SocketStep(s) \/ Read(s)
    PROVE  /\ ToldInv'
           /\ cursor' = cursor
           /\ connections' = connections \/ \A t \in Sender : cursor[t] = Idle
           /\ \A r \in Socket : socketpc'[r] = "listening" =>
                 \/ socketpc[r] = "listening" /\ told'[r] = told[r]
                 \/ /\ socketpc[r] = "created" /\ told'[r] = <<>>
                    /\ \A t \in Sender : cursor[t] = Idle
  <1>1. ListenerTypes
    BY DEF ListenerInv
  <1>2. Idle.to = NoSocket
    BY DEF Idle
  <1>3. CASE AddConnection(s)
    <2>1. /\ Moves(s, "created", "listening") /\ told' = told
          /\ \A t \in Sender : cursor[t] = Idle
      BY <1>3 DEF AddConnection, Alone, Broadcasting
    <2>2. cursor' = cursor
      <3>1. cursor = [t \in Sender |-> cursor[t]]
        BY <1>1 DEF ListenerTypes
      <3>2. Broadcasting = {}
        BY <2>1 DEF Broadcasting
      <3> QED
        BY <1>3, <3>1, <3>2 DEF AddConnection
    <2>3. /\ socketpc[s] = "created"
          /\ \A r \in Socket : r # s => socketpc'[r] = socketpc[r]
      BY <1>1, <2>1, MovesOne DEF SocketPC
    <2>4. told[s] = <<>>
      BY <2>3 DEF ToldInv
    <2>5. ToldInv'
      BY <2>1, <2>2, <2>3, <2>4, <1>2 DEF ToldInv
    <2> QED
      BY <2>1, <2>2, <2>3, <2>4, <2>5
  <1>4. CASE Leave(s)
    <2>1. /\ Moves(s, "listening", "closing") /\ told' = [told EXCEPT ![s] = <<>>]
          /\ UNCHANGED <<connections, cursor>>
      BY <1>4 DEF Leave
    <2>2. /\ socketpc'[s] = "closing"
          /\ \A r \in Socket : r # s => socketpc'[r] = socketpc[r]
      BY <1>1, <2>1, MovesOne DEF SocketPC
    <2>3. /\ told' \in [Socket -> Seq(Event)] /\ told'[s] = <<>>
          /\ \A r \in Socket : r # s => told'[r] = told[r]
      BY <2>1 DEF ToldInv
    <2> QED
      BY <2>1, <2>2, <2>3 DEF ToldInv
  <1>5. CASE RemoveConnection(s)
    <2>1. Moves(s, "found", "removed") /\ UNCHANGED <<told, cursor>>
      BY <1>5 DEF RemoveConnection
    <2>2. /\ socketpc[s] = "found" /\ socketpc'[s] = "removed"
          /\ \A r \in Socket : r # s => socketpc'[r] = socketpc[r]
      BY <1>1, <2>1, MovesOne DEF SocketPC
    <2>3. told[s] = <<>>
      BY <2>2 DEF ToldInv
    <2>4. \A t \in Sender : cursor[t] = Idle
      BY <2>2 DEF ListenerInv, WalkInv
    <2>5. ToldInv'
      BY <2>1, <2>2, <2>3, <2>4, <1>2 DEF ToldInv
    <2> QED
      BY <2>1, <2>2, <2>3, <2>4, <2>5
  <1>6. CASE Connect(s) \/ FindConnection(s) \/ Disconnect(s)
    <2>1. PICK from \in SocketPC \ {"listening"}, to \in SocketPC \ {"listening"} :
              Moves(s, from, to)
      BY <1>6 DEF Connect, FindConnection, Disconnect, SocketPC
    <2>2. UNCHANGED <<connections, told, cursor>>
      BY <1>6 DEF Connect, FindConnection, Disconnect
    <2>3. /\ socketpc[s] # "listening" /\ socketpc'[s] # "listening"
          /\ \A r \in Socket : r # s => socketpc'[r] = socketpc[r]
      BY <1>1, <2>1, MovesOne
    <2>4. told[s] = <<>>
      BY <2>3 DEF ToldInv
    <2> QED
      BY <2>2, <2>3, <2>4 DEF ToldInv
  <1>7. CASE Read(s)
    BY <1>7 DEF Read, ToldInv
  <1> QED
    BY <1>3, <1>4, <1>5, <1>6, <1>7 DEF SocketStep

LEMMA SenderTells ==
    ASSUME ListenerInv, ToldInv, NEW t \in Sender,
           (\E event \in Event : BeginBroadcast(t, event)) \/ BroadcastStep(t) \/ EndBroadcast(t)
    PROVE  ToldInv'
  <1>1. ListenerTypes
    BY DEF ListenerInv
  <1>2. ASSUME NEW loop, cursor' = [cursor EXCEPT ![t] = loop],
               UNCHANGED <<connections, socketpc>>,
               told' \in [Socket -> Seq(Event)],
               \A r \in Socket : socketpc[r] # "listening" => told'[r] = told[r],
               loop # Idle => loop.event \in Event,
               loop.to # NoSocket => /\ loop.next \in DOMAIN connections
                                     /\ loop.to = connections[loop.next]
        PROVE  ToldInv'
    <2>1. cursor'[t] = loop /\ \A u \in Sender : u # t => cursor'[u] = cursor[u]
      BY <1>1, <1>2 DEF ListenerTypes
    <2> QED
      BY <1>2, <2>1 DEF ToldInv
  <1>3. ASSUME NEW event \in Event, BeginBroadcast(t, event) PROVE ToldInv'
    <2> DEFINE loop == [Idle EXCEPT !.event = event, !.end = Len(connections)]
    <2>1. loop.event = event /\ loop.to = NoSocket
      BY DEF Idle
    <2>2. cursor' = [cursor EXCEPT ![t] = loop] /\ UNCHANGED <<connections, socketpc, told>>
      BY <1>3 DEF BeginBroadcast
    <2> HIDE DEF loop
    <2> QED
      BY <1>2, <2>1, <2>2 DEF ToldInv
  <1>4. CASE TakeConnection(t)
    <2> DEFINE loop == [cursor[t] EXCEPT !.to = connections[cursor[t].next]]
    <2>1. cursor[t] # Idle
      BY <1>4 DEF TakeConnection, Idle
    <2>2. cursor[t] \in Loops /\ ~cursor[t].dangling /\ cursor[t].end = Len(connections)
          /\ connections \in Seq(Socket) /\ cursor[t].next <= cursor[t].end
      BY <1>1, <1>4, <2>1 DEF ListenerTypes, ListenerInv, WalkInv, TakeConnection
    <2>3. cursor[t].next \in DOMAIN connections /\ ~(cursor[t].next > Len(connections))
      BY <2>2 DEF Loops
    <2>4. /\ cursor' = [cursor EXCEPT ![t].to = connections[cursor[t].next]]
          /\ UNCHANGED <<connections, socketpc, told>>
      BY <1>4, <2>2, <2>3 DEF TakeConnection
    <2>5. cursor' = [cursor EXCEPT ![t] = loop]
      BY <2>4
    <2>6. /\ loop.next = cursor[t].next /\ loop.event = cursor[t].event
          /\ loop.to = connections[cursor[t].next]
      BY <2>2 DEF Loops
    <2>7. cursor[t].event \in Event
      BY <2>1 DEF ToldInv
    <2> HIDE DEF loop
    <2> QED
      BY <1>2, <2>3, <2>4, <2>5, <2>6, <2>7 DEF ToldInv
  <1>5. CASE SendMessage(t)
    <2> DEFINE loop == [cursor[t] EXCEPT !.to = NoSocket, !.next = @ + 1]
    <2>1. cursor' = [cursor EXCEPT ![t] = loop] /\ UNCHANGED <<connections, socketpc>>
      BY <1>5 DEF SendMessage
    <2>2. /\ told' \in [Socket -> Seq(Event)] /\ cursor[t] # Idle
          /\ \A r \in Socket : socketpc[r] # "listening" => told'[r] = told[r]
      BY <1>1, <1>5, SendTells
    <2>3. cursor[t] \in Loops /\ cursor[t].event \in Event
      BY <1>1, <2>2 DEF ListenerTypes, ToldInv
    <2>4. loop.event = cursor[t].event /\ loop.to = NoSocket
      BY <2>3 DEF Loops
    <2> HIDE DEF loop
    <2> QED
      BY <1>2, <2>1, <2>2, <2>3, <2>4
  <1>6. CASE EndBroadcast(t)
    <2>1. cursor' = [cursor EXCEPT ![t] = Idle] /\ UNCHANGED <<connections, socketpc, told>>
      BY <1>6 DEF EndBroadcast
    <2>2. Idle.to = NoSocket
      BY DEF Idle
    <2> QED
      BY <1>2, <2>1, <2>2 DEF ToldInv
  <1> QED
    BY <1>3, <1>4, <1>5, <1>6 DEF BroadcastStep

LEMMA ToldStep ==
    ASSUME ~ConnectionsRace
    PROVE  ListenerInv /\ ToldInv /\ [ListenerNext]_listenerVars => ToldInv'
  <1> SUFFICES ASSUME ListenerInv, ToldInv, [ListenerNext]_listenerVars PROVE ToldInv'
    OBVIOUS
  <1>1. CASE UNCHANGED listenerVars
    BY <1>1 DEF ToldInv, listenerVars
  <1> QED
    BY <1>1, SocketTells, SenderTells DEF ListenerNext

LEMMA AlwaysTold ==
    ASSUME ~ConnectionsRace
    PROVE  ListenerSpec => []ToldInv
  <1>1. ListenerInit => ToldInv
    <2> SUFFICES ASSUME ListenerInit PROVE ToldInv
      OBVIOUS
    <2>1. \A t \in Sender : cursor[t] = Idle
      BY DEF ListenerInit
    <2> QED
      BY <2>1 DEF ListenerInit, ToldInv, Idle
  <1>2. ListenerInv /\ ToldInv /\ [ListenerNext]_listenerVars => ToldInv'
    BY ToldStep
  <1> QED
    BY <1>1, <1>2, AlwaysListener, PTL DEF ListenerSpec

=============================================================================
