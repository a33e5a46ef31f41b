---------------------------- MODULE StepContract ----------------------------
(***************************************************************************)
(* What the pause and step commands promise, without threads, hooks, locks *)
(* or counters.  A request makes a set of call depths "due": the script    *)
(* stops at the first line it reaches at such a depth, it stops nowhere    *)
(* else unless a breakpoint is there, and it goes on only when told to.    *)
(***************************************************************************)
EXTENDS Integers

CONSTANT MaxDepth   \* deepest call

VARIABLES
    attached,   \* a VM is attached
    depth,      \* depth of the call that runs
    mode,       \* the request that is pending
    due,        \* the depths at which the next line stops the script
    script      \* "running", "atLine", "stopped", or "released" and about to run

vars == <<attached, depth, mode, due, script>>

Depths == 0 .. MaxDepth

Init ==
    /\ attached = FALSE
    /\ depth = 0
    /\ mode = "None" /\ due = {}
    /\ script = "running"

Attach ==
    /\ ~attached /\ script = "running"
    /\ attached' = TRUE
    /\ UNCHANGED <<depth, mode, due, script>>

Detach ==
    /\ attached /\ script # "atLine"
    /\ attached' = FALSE /\ depth' = 0
    /\ mode' = "None" /\ due' = {}
    /\ script' = IF script = "stopped" THEN "released" ELSE script

\* A call leaves open what is due; but a pause that was requested during the
\* call may be put off until the script is back at some outer depth.
Call ==
    /\ attached /\ script = "running" /\ depth < MaxDepth
    /\ depth' = depth + 1
    /\ \/ due' = due
       \/ mode = "StepIn" /\ due = Depths /\ \E d \in -1 .. depth + 1 : due' = 0 .. d
    /\ UNCHANGED <<attached, mode, script>>

\* Leaving a call whose next line was due makes every line due.
Return ==
    /\ attached /\ script = "running" /\ depth > 0
    /\ depth' = depth - 1
    /\ due' = IF depth \in due THEN Depths ELSE due
    /\ UNCHANGED <<attached, mode, script>>

ReachLine ==
    /\ attached /\ script = "running" /\ depth > 0
    /\ script' = "atLine"
    /\ UNCHANGED <<attached, depth, mode, due>>

StopAtBreakpoint ==
    /\ script = "atLine"
    /\ script' = "stopped"
    /\ mode' = "StepIn" /\ due' = 0 .. depth
    /\ UNCHANGED <<attached, depth>>

StopWhereDue ==
    /\ script = "atLine" /\ depth \in due
    /\ script' = "stopped"
    /\ UNCHANGED <<attached, depth, mode, due>>

PassLine ==
    /\ script = "atLine" /\ depth \notin due
    /\ script' = "running"
    /\ UNCHANGED <<attached, depth, mode, due>>

\* Pausing when something is already pending changes nothing.
Pause ==
    /\ mode = "None"
    /\ mode' = "StepIn" /\ due' = Depths
    /\ UNCHANGED <<attached, depth, script>>

Released == IF script = "stopped" THEN "released" ELSE script

Continue ==
    /\ mode # "None"
    /\ mode' = "None" /\ due' = {}
    /\ script' = Released
    /\ UNCHANGED <<attached, depth>>

\* Also a step that comes before a continued script has got going.
Step ==
    /\ attached /\ script \in {"stopped", "released"}
    /\ \/ mode' = "StepOut"  /\ due' = 0 .. depth - 1
       \/ mode' = "StepOver" /\ due' = 0 .. depth
       \/ mode' = "StepIn"   /\ due' = Depths
    /\ script' = Released
    /\ UNCHANGED <<attached, depth>>

GoOn ==
    /\ script = "released"
    /\ script' = "running"
    /\ UNCHANGED <<attached, depth, mode, due>>

Next ==
    \/ Attach \/ Detach
    \/ Call \/ Return \/ ReachLine
    \/ StopAtBreakpoint \/ StopWhereDue \/ PassLine
    \/ Pause \/ Continue \/ Step
    \/ GoOn

Spec == Init /\ [][Next]_vars
=============================================================================
