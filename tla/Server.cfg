\* The application with one client besides the main thread, and one subscriber that may come at
\* any stage: what answers, events and the closing of the VM promise.
SPECIFICATION AppSpec
CONSTANTS
    FileName <- MCFileName
    Lower <- MCLower
    ScriptFile = {"main.nut"}
    Line = {1}
    BreakpointId = {1}
    MaxBreakpoints = 0
    Client = {main, c1}
    Main = main
    MaxDepth = 1
    MinReturns <- MCMinReturns
    MaxReturns = 1
    SpuriousWakeups = FALSE
    DetachRacesHook = FALSE
    Expressions = 2
    StopOnStart = {TRUE, FALSE}
    ComeAt <- Stage
    Socket = {s1}
    Sender <- MCSender
    Event <- MCEvent
    NoSocket = NoSocket
    NoEvent = NoEvent
    MaxUnread = 1
    MaxTold = 1
    ConnectionsRace = FALSE
INVARIANTS AnswersAreComplete HearsOfStop ClosedVmUntouched
PROPERTIES StopsOnFirstLine
CHECK_DEADLOCK FALSE
