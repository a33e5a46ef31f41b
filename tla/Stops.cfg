\* One client, a file named in two spellings, two lines, calls two deep: where the script stops
\* and what it reports, and the debugger against StepContract.
SPECIFICATION Spec
CONSTANTS
    FileName <- MCFileName
    Lower <- MCLower
    ScriptFile = {"MAIN.NUT"}
    Line = {1, 2}
    BreakpointId = {1}
    MaxBreakpoints = 1
    Client = {c1}
    MaxDepth = 2
    MinReturns <- MCMinReturns
    MaxReturns = 2
    SpuriousWakeups = FALSE
    DetachRacesHook = FALSE
INVARIANTS MirrorInSync  OutputNamesItsLine
PROPERTIES BreakpointsStop KeepsStepContract
