\* The application under fairness, stopped on its first line, with connections made before the
\* script begins: requests return, and the server can be stopped.
SPECIFICATION FairAppSpec
CONSTANTS
    FileName <- MCFileName
    Lower <- MCLower
    ScriptFile = {"main.nut"}
    Line = {1}
    BreakpointId = {1}
    MaxBreakpoints = 0
    Client = {main, c1}
    Main = main
    MaxDepth = 1
    MinReturns <- MCMinReturns
    MaxReturns = 1
    SpuriousWakeups = FALSE
    DetachRacesHook = FALSE
    Expressions = 1
    StopOnStart = {TRUE}
    ComeAt <- MCEarly
    Socket = {s1}
    Sender <- MCSender
    Event <- MCEvent
    NoSocket = NoSocket
    NoEvent = NoEvent
    MaxUnread = 1
    MaxTold = 0
    ConnectionsRace = FALSE
PROPERTIES RequestsReturn TeardownEnds
CHECK_DEADLOCK FALSE
