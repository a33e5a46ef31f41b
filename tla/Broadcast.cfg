\* One client comes and goes while the script's thread and a server thread broadcast.
SPECIFICATION DeliverySpec
CONSTANTS
    Socket = {s1}
    Sender <- MCSender
    Event <- MCEvent
    NoSocket = NoSocket
    NoEvent = NoEvent
    MaxUnread = 1
    MaxTold = 2
    MaxSent = 2
    ConnectionsRace = TRUE
INVARIANT BroadcastIsThreadSafe
