------------------------------ MODULE Promises ------------------------------
(***************************************************************************)
(* What the interface says of pausing, with the history that is needed to  *)
(* say it: the debugger with a variable that no step of it reads.          *)
(***************************************************************************)
EXTENDS SquirrelDebugger

VARIABLE owed    \* a PauseExecution has answered Success and is not settled yet

promiseVars == <<vars, owed>>

\* A PauseExecution of c ends in this step, with Success.
PauseAnswered(c) ==
    /\ CheckPause(c) \/ RequestPause(c) \/ SetPauseReturns(c)
    /\ pc'[c] = "done"

\* A command of c that tells the script to go on succeeds in this step.
GoOnCommand(c) ==
    /\ ReleaseScript(c) \/ StepOut(c) \/ StepOver(c) \/ StepIn(c)
    /\ reply'[c] = "Success"

ToldToGoOn == DetachVm \/ \E c \in Client : GoOnCommand(c)

Stopped == vmpc \in {"notify", "waiting"}

PromiseInit == Init /\ owed = FALSE

PromiseNext ==
    /\ Next
    /\ owed' = IF ToldToGoOn \/ (vmpc = "line" /\ vmpc' = "notify") THEN FALSE
               ELSE IF \E c \in Client : PauseAnswered(c) THEN attached /\ ~Stopped
               ELSE owed

PromiseSpec == PromiseInit /\ [][PromiseNext]_promiseVars

\* "Instructs the program to pause execution at its current point": once
\* PauseExecution has answered Success, the script does not get past its next
\* line without stopping there, unless a later command tells it to go on.
PauseHonoured ==
    [][owed /\ vmpc = "line" => vmpc' \in {"line", "notify"}]_promiseVars
=============================================================================
