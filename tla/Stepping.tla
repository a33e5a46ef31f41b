------------------------------ MODULE Stepping ------------------------------
(***************************************************************************)
(* The debugger implements StepContract: how its counters, its copy of the *)
(* stack and its hooks in flight map to depths and to what is due.         *)
(***************************************************************************)
EXTENDS SquirrelDebugger

\* A call counts once its hook is done with returnsRequired, and so does a return.
CountedDepth ==
    CASE vmpc \in {"readReturns", "writeReturns"} -> Len(currentStack) - 1
      [] vmpc = "returning" -> Len(currentStack) + 1
      [] OTHER -> Len(currentStack)

\* A pause counts once returnsRequired is set with it.
PauseHalfMade == \E c \in Client : pc[c] = "pausing"

Mode == IF PauseHalfMade THEN "None" ELSE pauseRequested

\* returnsRequired returns from here, or anywhere when it is negative.
Due == IF Mode = "None" THEN {}
       ELSE IF returnsRequired < 0 THEN 0 .. MaxDepth
       ELSE 0 .. CountedDepth - returnsRequired

Script ==
    CASE vmpc = "line" -> "atLine"
      [] vmpc \in {"notify", "waiting"} -> "stopped"
      [] vmpc = "woken" -> "released"
      [] OTHER -> "running"

Contract == INSTANCE StepContract WITH
    depth <- CountedDepth, mode <- Mode, due <- Due, script <- Script

\* The hook and the commands, whatever the order in which threads run, stop
\* the script where the contract says and nowhere else, and never pass a line
\* where it is due to stop.
KeepsStepContract == Contract!Spec
=============================================================================
