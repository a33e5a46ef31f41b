------------------------------ MODULE Delivery ------------------------------
(***************************************************************************)
(* The listener with the history that is needed to say who hears what:     *)
(* every sender numbers its events.                                        *)
(***************************************************************************)
EXTENDS WSListener

CONSTANT MaxSent     \* bound: events per sender

ASSUME SentAssumption == MaxSent \in Nat

VARIABLES
    sent,     \* per sender, how many events it has begun to broadcast
    joined    \* per websocket, what `sent` was when it was added

deliveryVars == <<listenerVars, sent, joined>>

DeliveryInit ==
    /\ ListenerInit
    /\ sent = [t \in Sender |-> 0]
    /\ joined = [s \in Socket |-> sent]

Begin(t) == sent[t] < MaxSent /\ BeginBroadcast(t, <<t, sent[t] + 1>>)

DeliveryNext ==
    /\ ListenerNext
    /\ sent' = [t \in Sender |-> IF cursor[t] = Idle /\ cursor'[t] # Idle THEN sent[t] + 1 ELSE sent[t]]
    /\ \A t \in Sender : sent[t] # sent'[t] => Begin(t)
    /\ joined' = [s \in Socket |-> IF socketpc[s] = "created" THEN sent ELSE joined[s]]

DeliverySpec == DeliveryInit /\ [][DeliveryNext]_deliveryVars

\* Of one sender the messages hold the events from one number to another, each
\* once and in the sender's order.
Heard(messages, t, first, last) ==
    /\ {e \in ToSet(messages) : e[1] = t} = {<<t, n>> : n \in first .. last}
    /\ \A i, j \in DOMAIN messages :
          i < j /\ messages[i][1] = t /\ messages[j][1] = t => messages[i][2] < messages[j][2]

\* Whoever is connected is told every event of every sender since the
\* connection was added, each once and in the sender's order, although
\* senders overtake each other and wait for slow subscribers; all but the one
\* that the sender is just about to tell.
HearsAllInOrder ==
    \A s \in Socket, t \in Sender : socketpc[s] = "listening" =>
        \E last \in {sent[t], IF cursor[t] = Idle THEN sent[t] ELSE sent[t] - 1} :
            last >= joined[s][t] /\ Heard(told[s], t, joined[s][t] + 1, last)
=============================================================================
