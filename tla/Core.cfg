\* Two clients and the script thread, calls two deep: who may touch what, and when.
SPECIFICATION Spec
CONSTANTS
    FileName <- MCFileName
    Lower <- MCLower
    ScriptFile = {"MAIN.NUT"}
    Line = {1}
    BreakpointId = {1}
    MaxBreakpoints = 1
    Client = {c1, c2}
    MaxDepth = 2
    MinReturns <- MCMinReturns
    MaxReturns = 2
    SpuriousWakeups = TRUE
    DetachRacesHook = TRUE
SYMMETRY Symmetry
INVARIANTS TypeOK StoppedWhileInspected NoLostWakeup
CHECK_DEADLOCK FALSE
