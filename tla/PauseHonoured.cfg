\* A pause requested while a step is pending.
SPECIFICATION PromiseSpec
CONSTANTS
    FileName <- MCFileName
    Lower <- MCLower
    ScriptFile = {"main.nut"}
    Line = {1}
    BreakpointId = {1}
    MaxBreakpoints = 1
    Client = {c1}
    MaxDepth = 2
    MinReturns <- MCMinReturns
    MaxReturns = 2
    SpuriousWakeups = FALSE
    DetachRacesHook = FALSE
PROPERTIES PauseHonoured
