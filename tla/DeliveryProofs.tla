--------------------------- MODULE DeliveryProofs ---------------------------
(***************************************************************************)
(* Proofs about what subscribers are told, for any number of websockets,   *)
(* of senders and of events: what holds when the accesses to connections_  *)
(* do not overlap.                                                         *)
(***************************************************************************)
EXTENDS Delivery, WSListenerProofs

-----------------------------------------------------------------------------
(* Messages, one after the other *)

Numbered == Sender \X (1 .. MaxSent)

LEMMA AppendedMessage ==
    ASSUME NEW A, NEW m \in Seq(A), NEW e \in A
    PROVE  LET r == Append(m, e)
           IN  /\ r \in Seq(A) /\ DOMAIN r = 1 .. Len(m) + 1 /\ Len(m) \in Nat
               /\ DOMAIN m = 1 .. Len(m)
               /\ r[Len(m) + 1] = e /\ \A i \in 1 .. Len(m) : r[i] = m[i]
               /\ ToSet(r) = ToSet(m) \cup {e}
  <1> DEFINE r == Append(m, e)
             n == Len(m)
  <1>1. /\ r \in Seq(A) /\ n \in Nat /\ DOMAIN r = 1 .. n + 1 /\ DOMAIN m = 1 .. n
        /\ \A i \in 1 .. n : r[i] = m[i]
        /\ r[n + 1] = e
    OBVIOUS
  <1> HIDE DEF r, n
  <1>2. /\ \A i \in 1 .. n + 1 : i \in 1 .. n \/ i = n + 1
        /\ n + 1 \in 1 .. n + 1 /\ \A i \in 1 .. n : i \in 1 .. n + 1
    BY <1>1
  <1>3. ToSet(r) = ToSet(m) \cup {e}
    BY <1>1, <1>2 DEF ToSet
  <1> QED
    BY <1>1, <1>3 DEF r, n

\* A message of another sender changes nothing.
LEMMA HeardOther ==
    ASSUME NEW m \in Seq(Numbered), NEW t \in Sender, NEW u \in Sender, u # t,
           NEW n \in 1 .. MaxSent, NEW first, NEW last, Heard(m, t, first, last)
    PROVE  Heard(Append(m, <<u, n>>), t, first, last)
  <1>1. PICK r, k, e : r = Append(m, <<u, n>>) /\ k = Len(m) /\ e = <<u, n>>
    OBVIOUS
  <1>2. /\ DOMAIN r = 1 .. k + 1 /\ k \in Nat /\ DOMAIN m = 1 .. k /\ r[k + 1] = e
        /\ \A i \in 1 .. k : r[i] = m[i]
        /\ ToSet(r) = ToSet(m) \cup {e}
    <2>1. e \in Numbered /\ r = Append(m, e) /\ k = Len(m)
      BY <1>1 DEF Numbered
    <2> QED
      BY <2>1, AppendedMessage
  <1>3. e[1] = u
    BY <1>1
  <1>4. {x \in ToSet(r) : x[1] = t} = {x \in ToSet(m) : x[1] = t}
    <2>1. ASSUME NEW x, x[1] = t PROVE x # e
      BY <1>3, <2>1
    <2> QED
      BY <1>2, <2>1
  <1>5. ASSUME NEW i \in DOMAIN r, NEW j \in DOMAIN r, i < j, r[i][1] = t, r[j][1] = t
        PROVE  r[i][2] < r[j][2]
    <2>1. i # k + 1 /\ j # k + 1
      BY <1>2, <1>3, <1>5
    <2>2. i \in 1 .. k /\ j \in 1 .. k
      BY <1>2, <2>1
    <2> QED
      BY <1>2, <1>5, <2>2 DEF Heard
  <1>6. Heard(r, t, first, last)
    BY <1>4, <1>5 DEF Heard
  <1> QED
    BY <1>1, <1>6

\* The sender's next message is one more.
LEMMA HeardNext ==
    ASSUME NEW m \in Seq(Numbered), NEW t \in Sender, NEW n \in Nat,
           <<t, n>> \in Numbered, NEW first \in Nat, first <= n, Heard(m, t, first, n - 1)
    PROVE  /\ Heard(Append(m, <<t, n>>), t, first, n)
           /\ <<t, n>> \notin ToSet(m)
  <1>1. PICK r, k, e : r = Append(m, <<t, n>>) /\ k = Len(m) /\ e = <<t, n>>
    OBVIOUS
  <1>2. /\ DOMAIN r = 1 .. k + 1 /\ k \in Nat /\ DOMAIN m = 1 .. k /\ r[k + 1] = e
        /\ \A i \in 1 .. k : r[i] = m[i]
        /\ ToSet(r) = ToSet(m) \cup {e}
    BY <1>1, AppendedMessage
  <1>3. e[1] = t /\ e[2] = n
    BY <1>1
  <1>4. first .. n = (first .. n - 1) \cup {n} /\ n \notin first .. n - 1
    OBVIOUS
  <1>5. {x \in ToSet(r) : x[1] = t} = {x \in ToSet(m) : x[1] = t} \cup {e}
    BY <1>2, <1>3
  <1>6. {<<t, i>> : i \in first .. n} = {<<t, i>> : i \in first .. n - 1} \cup {e}
    BY <1>1, <1>4
  <1>7. e \notin ToSet(m)
    <2>1. SUFFICES ASSUME e \in ToSet(m) PROVE FALSE
      OBVIOUS
    <2>2. e \in {<<t, i>> : i \in first .. n - 1}
      BY <1>3, <2>1 DEF Heard
    <2>3. PICK i \in first .. n - 1 : e = <<t, i>>
      BY <2>2
    <2> QED
      BY <1>3, <1>4, <2>3
  <1>8. ASSUME NEW i \in DOMAIN r, NEW j \in DOMAIN r, i < j, r[i][1] = t, r[j][1] = t
        PROVE  r[i][2] < r[j][2]
    <2>1. i \in 1 .. k
      BY <1>2, <1>8
    <2>2. CASE j \in 1 .. k
      BY <1>2, <1>8, <2>1, <2>2 DEF Heard
    <2>3. CASE j = k + 1
      <3>1. m[i] \in ToSet(m) /\ m[i][1] = t
        BY <1>2, <1>8, <2>1 DEF ToSet
      <3>2. m[i] \in {<<t, x>> : x \in first .. n - 1}
        BY <3>1 DEF Heard
      <3>3. PICK x \in first .. n - 1 : m[i] = <<t, x>>
        BY <3>2
      <3>4. r[i][2] = x /\ r[j][2] = n
        BY <1>2, <1>3, <2>1, <2>3, <3>3
      <3> QED
        BY <3>4
    <2> QED
      BY <1>2, <2>2, <2>3
  <1>9. Heard(r, t, first, n)
    BY <1>5, <1>6, <1>8 DEF Heard
  <1> QED
    BY <1>1, <1>7, <1>9

\* How many messages there can be, and be remembered.
AllRemembered ==
    /\ IsFiniteSet(Sender)
    /\ Cardinality(Sender) * MaxSent <= MaxTold

\* As long as no message comes twice, none is forgotten.
LEMMA NothingForgotten ==
    ASSUME AllRemembered, NEW m \in Seq(Numbered), NEW e \in Numbered, e \notin ToSet(m),
           \A t \in Sender : \E first, last : Heard(m, t, first, last)
    PROVE  Remembered(Append(m, e)) = Append(m, e)
  <1>1. PICK r, k : r = Append(m, e) /\ k = Len(m)
    OBVIOUS
  <1>2. /\ r \in Seq(Numbered) /\ DOMAIN r = 1 .. k + 1 /\ k \in Nat /\ DOMAIN m = 1 .. k
        /\ r[k + 1] = e /\ \A i \in 1 .. k : r[i] = m[i]
    BY <1>1, AppendedMessage
  <1>3. IsFiniteSet(Numbered) /\ Cardinality(Numbered) <= MaxTold
    <2>1. IsFiniteSet(1 .. MaxSent) /\ Cardinality(1 .. MaxSent) = MaxSent
      BY SentAssumption, FS_Interval
    <2> QED
      BY <2>1, FS_Product DEF Numbered, AllRemembered
  <1>4. \A x, y \in 1 .. k : x < y => m[x] # m[y]
    <2> SUFFICES ASSUME NEW x \in 1 .. k, NEW y \in 1 .. k, x < y, m[x] = m[y] PROVE FALSE
      OBVIOUS
    <2>1. m[x] \in Numbered
      BY <1>2
    <2>2. PICK t \in Sender, n \in 1 .. MaxSent : m[x] = <<t, n>>
      BY <2>1 DEF Numbered
    <2>3. m[x][1] = t /\ m[y][1] = t /\ m[x][2] = n /\ m[y][2] = n
      BY <2>2
    <2>4. m[x][2] < m[y][2]
      BY <1>2, <2>3 DEF Heard
    <2> QED
      BY <2>3, <2>4
  <1>5. \A x \in 1 .. k : m[x] # e
    BY <1>2 DEF ToSet
  <1>6. \A x, y \in 1 .. k + 1 : r[x] = r[y] => x = y
    <2> SUFFICES ASSUME NEW x \in 1 .. k + 1, NEW y \in 1 .. k + 1, r[x] = r[y] PROVE x = y
      OBVIOUS
    <2>1. (x \in 1 .. k \/ x = k + 1) /\ (y \in 1 .. k \/ y = k + 1)
      BY <1>2
    <2> QED
      BY <1>2, <1>4, <1>5, <2>1
  <1>7. IsFiniteSet(1 .. k + 1) /\ Cardinality(1 .. k + 1) = k + 1
    BY <1>2, FS_Interval
  <1>8. r \in [1 .. k + 1 -> Numbered]
    <2>1. r \in [1 .. Len(r) -> Numbered] /\ DOMAIN r = 1 .. Len(r)
      BY <1>2, LenProperties
    <2> QED
      BY <1>2, <2>1
  <1>9. ~(Cardinality(Numbered) < Cardinality(1 .. k + 1))
    <2> SUFFICES ASSUME Cardinality(Numbered) < Cardinality(1 .. k + 1) PROVE FALSE
      OBVIOUS
    <2>1. \E x, y \in 1 .. k + 1 : x # y /\ r[x] = r[y]
      BY <1>3, <1>7, <1>8, FS_PigeonHole
    <2> QED
      BY <1>6, <2>1
  <1>10. Cardinality(Numbered) \in Nat /\ MaxTold \in Nat
    BY <1>3, FS_CardinalityType, ListenerAssumption
  <1>11. Len(r) = k + 1
    BY <1>1, <1>2
  <1>12. ~(Len(r) > MaxTold)
    BY <1>2, <1>3, <1>7, <1>9, <1>10, <1>11
  <1> QED
    BY <1>1, <1>12 DEF Remembered

-----------------------------------------------------------------------------
(* The invariant *)

\* A sender that walks over the list has passed a subscriber when it has told
\* it its latest event; the others are still to be told.
Passed(s, t)   == \E i \in DOMAIN connections : i < cursor[t].next /\ connections[i] = s
LastTold(s, t) == IF cursor[t] = Idle \/ Passed(s, t) THEN sent[t] ELSE sent[t] - 1

NumberInv ==
    /\ sent \in [Sender -> 0 .. MaxSent]
    /\ joined \in [Socket -> [Sender -> 0 .. MaxSent]]
    /\ told \in [Socket -> Seq(Numbered)]
    /\ \A t \in Sender : cursor[t] # Idle => cursor[t].event = <<t, sent[t]>> /\ sent[t] > 0

OrderInv ==
    \A s \in Socket, t \in Sender : socketpc[s] = "listening" =>
        /\ joined[s][t] <= LastTold(s, t)
        /\ Heard(told[s], t, joined[s][t] + 1, LastTold(s, t))

DeliveryInv == ListenerInv /\ ToldInv /\ NumberInv /\ OrderInv

\* The numbers a connection begins with, and those that stay.
LEMMA JoinedStep ==
    ASSUME NumberInv, DeliveryNext
    PROVE  /\ joined' \in [Socket -> [Sender -> 0 .. MaxSent]]
           /\ \A s \in Socket : joined'[s] = IF socketpc[s] = "created" THEN sent ELSE joined[s]
  BY DEF NumberInv, DeliveryNext

LEMMA SentStep ==
    ASSUME NumberInv, DeliveryNext, \A t \in Sender : cursor[t] = Idle => cursor'[t] = Idle
    PROVE  sent' = sent
  <1>1. sent' = [t \in Sender |-> IF cursor[t] = Idle /\ cursor'[t] # Idle THEN sent[t] + 1
                                  ELSE sent[t]]
    BY DEF DeliveryNext
  <1>2. sent = [t \in Sender |-> sent[t]]
    BY DEF NumberInv
  <1> QED
    BY <1>1, <1>2

LEMMA HeardNothing ==
    ASSUME NEW t, NEW n \in Nat
    PROVE  Heard(<<>>, t, n + 1, n)
  BY DEF Heard, ToSet

LEMMA SocketOrder ==
    ASSUME ~ConnectionsRace, DeliveryInv, DeliveryNext, NEW s \in Socket,
           Connect(s) \/ Leave(s) \/ SocketStep(s) \/ Read(s)
    PROVE  NumberInv' /\ OrderInv'
  <1> USE DEF DeliveryInv
  <1>1. /\ ToldInv' /\ cursor' = cursor
        /\ connections' = connections \/ \A t \in Sender : cursor[t] = Idle
        /\ \A r \in Socket : socketpc'[r] = "listening" =>
              \/ socketpc[r] = "listening" /\ told'[r] = told[r]
              \/ /\ socketpc[r] = "created" /\ told'[r] = <<>>
                 /\ \A t \in Sender : cursor[t] = Idle
    BY SocketTells
  <1>2. sent' = sent
    BY <1>1, SentStep
  <1>3. /\ joined' \in [Socket -> [Sender -> 0 .. MaxSent]]
        /\ \A r \in Socket : joined'[r] = IF socketpc[r] = "created" THEN sent ELSE joined[r]
    BY JoinedStep
  <1>4. told' \in [Socket -> Seq(Numbered)]
    <2>1. \A r \in Socket : socketpc'[r] # "listening" => told'[r] = <<>>
      BY <1>1 DEF ToldInv
    <2>2. \A r \in Socket : told'[r] = told[r] => told'[r] \in Seq(Numbered)
      BY DEF NumberInv
    <2>3. <<>> \in Seq(Numbered)
      OBVIOUS
    <2>4. \A r \in Socket : told'[r] \in Seq(Numbered)
      BY <1>1, <2>1, <2>2, <2>3
    <2> QED
      BY <1>1, <2>4 DEF ToldInv
  <1>5. NumberInv'
    BY <1>1, <1>2, <1>3, <1>4 DEF NumberInv
  <1>6. OrderInv'
    <2> SUFFICES ASSUME NEW r \in Socket, NEW t \in Sender, socketpc'[r] = "listening"
                 PROVE  /\ joined'[r][t] <= LastTold(r, t)'
                        /\ Heard(told'[r], t, joined'[r][t] + 1, LastTold(r, t)')
      BY DEF OrderInv
    <2>1. CASE socketpc[r] = "listening" /\ told'[r] = told[r]
      <3>1. LastTold(r, t)' = LastTold(r, t)
        BY <1>1, <1>2 DEF LastTold, Passed
      <3> QED
        BY <1>3, <2>1, <3>1 DEF OrderInv
    <2>2. CASE socketpc[r] = "created" /\ told'[r] = <<>> /\ cursor[t] = Idle
      <3>1. LastTold(r, t)' = sent[t] /\ joined'[r][t] = sent[t] /\ sent[t] \in Nat
        BY <1>1, <1>2, <1>3, <2>2 DEF LastTold, NumberInv
      <3> QED
        BY <2>2, <3>1, HeardNothing
    <2> QED
      BY <1>1, <2>1, <2>2
  <1> QED
    BY <1>5, <1>6

\* A broadcast that begins numbers its event; the subscribers are told it
\* later.
LEMMA BeginOrder ==
    ASSUME DeliveryInv, DeliveryNext, NEW t \in Sender, NEW event \in Event,
           BeginBroadcast(t, event)
    PROVE  NumberInv' /\ OrderInv'
  <1> USE DEF DeliveryInv
  <1>1. /\ cursor[t] = Idle /\ UNCHANGED <<connections, socketpc, told>>
        /\ cursor' = [cursor EXCEPT ![t] = [Idle EXCEPT !.event = event, !.end = Len(connections)]]
    BY DEF BeginBroadcast
  <1>2. /\ cursor'[t].event = event /\ cursor'[t].next = 1
        /\ \A u \in Sender : u # t => cursor'[u] = cursor[u]
    BY <1>1 DEF ListenerInv, ListenerTypes, Idle
  <1>3. cursor'[t] # Idle
    <2>1. event # Idle.event
      BY ListenerAssumption DEF Idle
    <2> QED
      BY <1>2, <2>1
  <1>4. sent' = [u \in Sender |-> IF u = t THEN sent[u] + 1 ELSE sent[u]]
    BY <1>1, <1>2, <1>3 DEF DeliveryNext
  <1>5. sent[t] < MaxSent /\ cursor'[t].event = <<t, sent[t] + 1>>
    <2>1. sent[t] \in Nat /\ sent'[t] = sent[t] + 1
      BY <1>4 DEF NumberInv
    <2>2. Begin(t)
      BY <2>1 DEF DeliveryNext
    <2>3. cursor'[t] = [Idle EXCEPT !.event = <<t, sent[t] + 1>>, !.end = Len(connections)]
      BY <2>2 DEF Begin, BeginBroadcast, ListenerInv, ListenerTypes
    <2> QED
      BY <2>2, <2>3 DEF Begin, Idle
  <1>6. /\ joined' \in [Socket -> [Sender -> 0 .. MaxSent]]
        /\ \A r \in Socket : joined'[r] = IF socketpc[r] = "created" THEN sent ELSE joined[r]
    BY JoinedStep
  <1>7. NumberInv'
    <2>1. sent' \in [Sender -> 0 .. MaxSent]
      BY <1>4, <1>5, SentAssumption DEF NumberInv
    <2>2. sent'[t] = sent[t] + 1 /\ sent[t] \in Nat /\ \A u \in Sender : u # t => sent'[u] = sent[u]
      BY <1>4 DEF NumberInv
    <2> QED
      BY <1>1, <1>2, <1>5, <1>6, <2>1, <2>2 DEF NumberInv
  <1>8. OrderInv'
    <2> SUFFICES ASSUME NEW r \in Socket, NEW u \in Sender, socketpc[r] = "listening"
                 PROVE  joined'[r] = joined[r] /\ LastTold(r, u)' = LastTold(r, u)
      BY <1>1 DEF OrderInv
    <2>1. joined'[r] = joined[r]
      BY <1>6
    <2>2. CASE u = t
      <3>1. ~Passed(r, t)'
        BY <1>1, <1>2 DEF Passed, ListenerInv, ListenerTypes
      <3>2. LastTold(r, t)' = sent'[t] - 1
        BY <1>3, <3>1 DEF LastTold
      <3>3. sent'[t] = sent[t] + 1 /\ sent[t] \in Nat
        BY <1>4 DEF NumberInv
      <3> QED
        BY <1>1, <2>1, <2>2, <3>2, <3>3 DEF LastTold
    <2>3. CASE u # t
      <3>1. cursor'[u] = cursor[u] /\ sent'[u] = sent[u]
        BY <1>2, <1>4, <2>3
      <3> QED
        BY <1>1, <2>1, <3>1 DEF LastTold, Passed
    <2> QED
      BY <2>2, <2>3
  <1> QED
    BY <1>7, <1>8

\* A sender takes the next connection: nobody is told anything yet.
LEMMA TakeOrder ==
    ASSUME DeliveryInv, DeliveryNext, NEW t \in Sender, TakeConnection(t)
    PROVE  NumberInv' /\ OrderInv'
  <1> USE DEF DeliveryInv
  <1>1. cursor[t] # Idle /\ UNCHANGED <<connections, socketpc, told>>
    BY DEF TakeConnection, Idle
  <1>2. /\ cursor'[t].event = cursor[t].event /\ cursor'[t].next = cursor[t].next
        /\ \A u \in Sender : u # t => cursor'[u] = cursor[u]
    BY DEF TakeConnection, ListenerInv, ListenerTypes, Loops
  <1>3. cursor'[t] # Idle
    <2>1. cursor[t].event # Idle.event
      BY <1>1, ListenerAssumption DEF ToldInv, Idle
    <2> QED
      BY <1>2, <2>1
  <1>4. sent' = sent
    BY <1>1, <1>2, SentStep
  <1>5. /\ joined' \in [Socket -> [Sender -> 0 .. MaxSent]]
        /\ \A r \in Socket : joined'[r] = IF socketpc[r] = "created" THEN sent ELSE joined[r]
    BY JoinedStep
  <1>6. NumberInv'
    BY <1>1, <1>2, <1>4, <1>5 DEF NumberInv
  <1>7. \A r \in Socket, u \in Sender : LastTold(r, u)' = LastTold(r, u)
    BY <1>1, <1>2, <1>3, <1>4 DEF LastTold, Passed
  <1>8. OrderInv'
    BY <1>1, <1>5, <1>7 DEF OrderInv
  <1> QED
    BY <1>6, <1>8

\* Who is told a message has heard all before it; and has then been passed.
LEMMA SendOrder ==
    ASSUME AllRemembered, DeliveryInv, DeliveryNext, NEW t \in Sender, SendMessage(t)
    PROVE  NumberInv' /\ OrderInv'
  <1> USE DEF DeliveryInv
  <1>1. PICK s, next, n : s = cursor[t].to /\ next = cursor[t].next /\ n = sent[t]
    OBVIOUS
  <1>2. /\ cursor[t] # Idle /\ s \in Socket
        /\ \A r \in Socket : r # s \/ socketpc[r] # "listening" => told'[r] = told[r]
        /\ UNCHANGED <<connections, socketpc>>
    BY <1>1, SendTells DEF ListenerInv, SendMessage
  <1>3. /\ cursor[t].event = <<t, n>> /\ n \in 1 .. MaxSent /\ n \in Nat
        /\ <<t, n>> \in Numbered /\ <<t, n>> \in Event
    <2>1. cursor[t].event = <<t, n>> /\ n > 0 /\ n \in 0 .. MaxSent
      BY <1>1, <1>2 DEF NumberInv
    <2>2. n \in 1 .. MaxSent
      BY <2>1, SentAssumption
    <2>3. cursor[t].event \in Event
      BY <1>2 DEF ToldInv
    <2> QED
      BY <2>1, <2>2, <2>3 DEF Numbered
  <1>4. /\ next \in DOMAIN connections /\ next \in Nat /\ connections[next] = s
        /\ connections \in Seq(Socket)
    BY <1>1, <1>2 DEF ToldInv, SendMessage, ListenerInv, ListenerTypes, Loops
  <1>5. /\ cursor'[t].event = cursor[t].event /\ cursor'[t].next = next + 1
        /\ \A u \in Sender : u # t => cursor'[u] = cursor[u]
    BY <1>1 DEF SendMessage, ListenerInv, ListenerTypes, Loops
  <1>6. cursor'[t] # Idle
    <2>1. cursor[t].event # Idle.event
      BY <1>2, ListenerAssumption DEF ToldInv, Idle
    <2> QED
      BY <1>5, <2>1
  <1>7. sent' = sent
    BY <1>2, <1>5, SentStep
  <1>8. /\ joined' \in [Socket -> [Sender -> 0 .. MaxSent]]
        /\ \A r \in Socket : joined'[r] = IF socketpc[r] = "created" THEN sent ELSE joined[r]
    BY JoinedStep
  <1>9. ~Passed(s, t) /\ Passed(s, t)'
    <2>1. Passed(s, t)'
      BY <1>2, <1>4, <1>5 DEF Passed
    <2>2. ~Passed(s, t)
      BY <1>1, <1>4 DEF Passed, ListenerInv, ListInv, IsInjective
    <2> QED
      BY <2>1, <2>2
  <1>10. \A r \in Socket, u \in Sender : r # s \/ u # t => LastTold(r, u)' = LastTold(r, u)
    <2> SUFFICES ASSUME NEW r \in Socket, NEW u \in Sender, r # s \/ u # t
                 PROVE  LastTold(r, u)' = LastTold(r, u)
      OBVIOUS
    <2>1. CASE u # t
      BY <1>2, <1>5, <1>7, <2>1 DEF LastTold, Passed
    <2>2. CASE u = t /\ r # s
      <3>1. \A i \in DOMAIN connections : connections[i] = r =>
               (i < next + 1 <=> i < next)
        BY <1>4, <2>2
      <3>2. Passed(r, t)' = Passed(r, t)
        BY <1>1, <1>2, <1>5, <3>1 DEF Passed
      <3> QED
        BY <1>2, <1>6, <1>7, <2>2, <3>2 DEF LastTold
    <2> QED
      BY <2>1, <2>2
  <1>11. LastTold(s, t) = n - 1 /\ LastTold(s, t)' = n
    BY <1>1, <1>2, <1>7, <1>9 DEF LastTold
  <1>12. CASE socketpc[s] # "listening"
    <2>1. told' = told
      BY <1>1, <1>12 DEF SendMessage
    <2>2. NumberInv'
      BY <1>2, <1>5, <1>7, <1>8, <2>1 DEF NumberInv
    <2>3. OrderInv'
      BY <1>2, <1>8, <1>10, <1>12, <2>1 DEF OrderInv
    <2> QED
      BY <2>2, <2>3
  <1>13. CASE socketpc[s] = "listening"
    <2>1. PICK m : m = told[s]
      OBVIOUS
    <2>2. m \in Seq(Numbered) /\ \A u \in Sender : Heard(m, u, joined[s][u] + 1, LastTold(s, u))
      BY <1>2, <1>13, <2>1 DEF NumberInv, OrderInv
    <2>3. /\ joined[s][t] + 1 \in Nat /\ joined[s][t] + 1 <= n
          /\ Heard(m, t, joined[s][t] + 1, n - 1)
      BY <1>2, <1>3, <1>11, <1>13, <2>2 DEF NumberInv, OrderInv
    <2>4. PICK after : after = Append(m, <<t, n>>)
      OBVIOUS
    <2>5. <<t, n>> \notin ToSet(m) /\ Heard(after, t, joined[s][t] + 1, n)
      BY <1>3, <2>2, <2>3, <2>4, HeardNext
    <2>6. \A u \in Sender : u # t => Heard(after, u, joined[s][u] + 1, LastTold(s, u))
      BY <1>3, <2>2, <2>4, HeardOther
    <2>7. Remembered(after) = after
      <3>1. \A u \in Sender : \E first, last : Heard(m, u, first, last)
        BY <2>2
      <3> QED
        BY <1>3, <2>2, <2>4, <2>5, <3>1, NothingForgotten
    <2>8. told' = [told EXCEPT ![s] = after]
      BY <1>1, <1>3, <1>13, <2>1, <2>4, <2>7 DEF SendMessage
    <2>9. after \in Seq(Numbered)
      BY <1>3, <2>2, <2>4, AppendedMessage
    <2>10. told' \in [Socket -> Seq(Numbered)] /\ told'[s] = after
           /\ \A r \in Socket : r # s => told'[r] = told[r]
      BY <1>2, <2>8, <2>9 DEF NumberInv
    <2>11. NumberInv'
      BY <1>2, <1>5, <1>7, <1>8, <2>10 DEF NumberInv
    <2>12. OrderInv'
      <3> SUFFICES ASSUME NEW r \in Socket, NEW u \in Sender, socketpc[r] = "listening"
                   PROVE  /\ joined[r][u] <= LastTold(r, u)'
                          /\ Heard(told'[r], u, joined[r][u] + 1, LastTold(r, u)')
        BY <1>2, <1>8 DEF OrderInv
      <3>1. CASE r # s
        BY <1>10, <2>10, <3>1 DEF OrderInv
      <3>2. CASE r = s /\ u # t
        BY <1>10, <2>6, <2>10, <3>2 DEF OrderInv
      <3>3. CASE r = s /\ u = t
        <4>1. joined[s][t] <= n
          BY <1>3, <2>3, <1>2 DEF NumberInv
        <4> QED
          BY <1>11, <2>5, <2>10, <3>3, <4>1
      <3> QED
        BY <3>1, <3>2, <3>3
    <2> QED
      BY <2>11, <2>12
  <1> QED
    BY <1>12, <1>13

\* A broadcast ends when it has passed everyone who listens.
LEMMA EndOrder ==
    ASSUME DeliveryInv, DeliveryNext, NEW t \in Sender, EndBroadcast(t)
    PROVE  NumberInv' /\ OrderInv'
  <1> USE DEF DeliveryInv
  <1>1. /\ cursor[t] # Idle /\ UNCHANGED <<connections, socketpc, told>>
        /\ cursor[t].next > cursor[t].end /\ cursor' = [cursor EXCEPT ![t] = Idle]
    BY DEF EndBroadcast
  <1>2. cursor'[t] = Idle /\ \A u \in Sender : u # t => cursor'[u] = cursor[u]
    BY <1>1 DEF ListenerInv, ListenerTypes
  <1>3. sent' = sent
    BY <1>2, SentStep
  <1>4. /\ joined' \in [Socket -> [Sender -> 0 .. MaxSent]]
        /\ \A r \in Socket : joined'[r] = IF socketpc[r] = "created" THEN sent ELSE joined[r]
    BY JoinedStep
  <1>5. NumberInv'
    BY <1>1, <1>2, <1>3, <1>4 DEF NumberInv
  <1>6. ASSUME NEW r \in Socket, socketpc[r] = "listening" PROVE Passed(r, t)
    <2>1. PICK i \in DOMAIN connections : connections[i] = r
      BY <1>6 DEF ListenerInv, ListInv, Listed, ToSet
    <2>2. /\ cursor[t].end = Len(connections) /\ connections \in Seq(Socket)
          /\ cursor[t] \in Loops
      BY <1>1 DEF ListenerInv, WalkInv, ListenerTypes
    <2>3. i < cursor[t].next
      BY <1>1, <2>2 DEF Loops
    <2> QED
      BY <2>1, <2>3 DEF Passed
  <1>7. ASSUME NEW r \in Socket, NEW u \in Sender, socketpc[r] = "listening"
        PROVE  LastTold(r, u)' = LastTold(r, u)
    BY <1>1, <1>2, <1>3, <1>6, <1>7 DEF LastTold, Passed
  <1>8. OrderInv'
    BY <1>1, <1>4, <1>7 DEF OrderInv
  <1> QED
    BY <1>5, <1>8

-----------------------------------------------------------------------------
(* The theorem *)

LEMMA DeliveryStep ==
    ASSUME ~ConnectionsRace, AllRemembered
    PROVE  DeliveryInv /\ [DeliveryNext]_deliveryVars => DeliveryInv'
  <1> SUFFICES ASSUME DeliveryInv, [DeliveryNext]_deliveryVars PROVE DeliveryInv'
    OBVIOUS
  <1>1. [ListenerNext]_listenerVars
    BY DEF DeliveryNext, deliveryVars
  <1>2. ListenerInv' /\ ToldInv'
    BY <1>1, ListenerStep, ToldStep DEF DeliveryInv
  <1>3. CASE UNCHANGED deliveryVars
    <2>1. UNCHANGED <<connections, socketpc, told, cursor, sent, joined>>
      BY <1>3 DEF deliveryVars, listenerVars
    <2>2. NumberInv' /\ OrderInv'
      BY <2>1 DEF DeliveryInv, NumberInv, OrderInv, LastTold, Passed
    <2> QED
      BY <1>2, <2>2 DEF DeliveryInv
  <1>4. CASE DeliveryNext
    <2>1. NumberInv' /\ OrderInv'
      BY <1>4, SocketOrder, BeginOrder, TakeOrder, SendOrder, EndOrder
      DEF DeliveryNext, ListenerNext, BroadcastStep
    <2> QED
      BY <1>2, <2>1 DEF DeliveryInv
  <1> QED
    BY <1>3, <1>4

\* When accesses to connections_ do not overlap, whoever is connected hears
\* every event of every sender since the connection was added, each once and
\* in the sender's order, for any number of senders and events that overtake
\* each other, and of subscribers that come, leave or do not read.
THEOREM EverythingIsHeard ==
    ASSUME ~ConnectionsRace, AllRemembered
    PROVE  DeliverySpec => []HearsAllInOrder
  <1>1. DeliveryInit => DeliveryInv
    <2> SUFFICES ASSUME DeliveryInit PROVE DeliveryInv
      OBVIOUS
    <2>1. ListenerInv
      BY ListenerInitial DEF DeliveryInit
    <2>2. \A t \in Sender : cursor[t] = Idle
      BY DEF DeliveryInit, ListenerInit
    <2>3. ToldInv
      BY <2>2 DEF DeliveryInit, ListenerInit, ToldInv, Idle
    <2>4. NumberInv /\ OrderInv
      BY <2>2, SentAssumption DEF DeliveryInit, ListenerInit, NumberInv, OrderInv
    <2> QED
      BY <2>1, <2>3, <2>4 DEF DeliveryInv
  <1>2. DeliveryInv /\ [DeliveryNext]_deliveryVars => DeliveryInv'
    BY DeliveryStep
  <1>3. DeliveryInv => HearsAllInOrder
    <2> SUFFICES ASSUME DeliveryInv, NEW s \in Socket, NEW t \in Sender, socketpc[s] = "listening"
                 PROVE  \E last \in {sent[t], IF cursor[t] = Idle THEN sent[t] ELSE sent[t] - 1} :
                            last >= joined[s][t] /\ Heard(told[s], t, joined[s][t] + 1, last)
      BY DEF HearsAllInOrder
    <2>1. LastTold(s, t) \in {sent[t], IF cursor[t] = Idle THEN sent[t] ELSE sent[t] - 1}
      BY DEF LastTold
    <2>2. /\ joined[s][t] <= LastTold(s, t)
          /\ Heard(told[s], t, joined[s][t] + 1, LastTold(s, t))
      BY DEF DeliveryInv, OrderInv
    <2>3. joined[s][t] \in Int /\ LastTold(s, t) \in Int
      BY DEF DeliveryInv, NumberInv, LastTold
    <2> QED
      BY <2>1, <2>2, <2>3
  <1> QED
    BY <1>1, <1>2, <1>3, PTL DEF DeliverySpec

=============================================================================
