\* Two clients under fairness: commands and hooks come to their end,
\* and keep the contract when clients come between each other.
SPECIFICATION FairSpec
CONSTANTS
    FileName <- MCFileName
    Lower <- MCLower
    ScriptFile = {"MAIN.NUT"}
    Line = {1}
    BreakpointId = {1}
    MaxBreakpoints = 0
    Client = {c1, c2}
    MaxDepth = 1
    MinReturns <- MCMinReturns
    MaxReturns = 1
    SpuriousWakeups = FALSE
    DetachRacesHook = FALSE
PROPERTIES KeepsStepContract CommandsReturn HooksEnd ContinueReleases
