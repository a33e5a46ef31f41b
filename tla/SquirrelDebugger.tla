-------------------------- MODULE SquirrelDebugger --------------------------
(***************************************************************************)
(* The debugger core (SquirrelDebugger.h, SquirrelDebugger.cpp): the       *)
(* thread that runs the script and calls the debug hook, the client        *)
(* threads that call the commands, and the data they share.                *)
(*                                                                         *)
(* A critical section of pauseMutex_ during which nobody else can see or   *)
(* touch what it works on is one step, enabled when the mutex is free.     *)
(* Every access that the code makes WITHOUT the mutex is a step of its     *)
(* own, and so is every point at which a thread gives others a chance to   *)
(* see a half-made change, delivers an event, or waits.                    *)
(***************************************************************************)
EXTENDS BreakpointMap, FiniteSets, SequencesExt

CONSTANTS
    Client,           \* threads that call the commands
    ScriptFile,       \* source names, as the script reports them to the hook
    MaxDepth,         \* bound: depth of the script's call stack
    MinReturns,       \* bound: the script does not return below this count
    MaxReturns,       \* bound: the script does not call above this count
    SpuriousWakeups,  \* may pauseCv_.wait return without a notification?
    DetachRacesHook   \* may DetachVm run while the script is inside a hook?

ASSUME ThreadAssumption == {"none", "vm"} \cap Client = {}

ASSUME ScriptAssumption ==
    /\ ScriptFile \subseteq FileName
    /\ MaxDepth \in Nat
    /\ MinReturns \in Int /\ MaxReturns \in Int
    /\ SpuriousWakeups \in BOOLEAN
    /\ DetachRacesHook \in BOOLEAN

VARIABLES
    \* shared with the clients
    pauseRequested,   \* the atomic pauseRequested_
    isPaused,         \* PauseMutexDataImpl::isPaused
    returnsRequired,  \* PauseMutexDataImpl::returnsRequired
    status,           \* PauseMutexDataImpl::status, as of the last pause
    mutex,            \* the thread that holds pauseMutex_ across steps, or "none"
    \* SquirrelVmDataImpl
    attached,         \* vmData_->vm is not null
    currentStack,     \* the debugger's copy of the call stack, outermost first
    fileNameHandles,  \* handles of the sources met so far
    \* the script thread
    frames,           \* the VM's own call stack, which sq_stackinfos reads
    vmpc,             \* where the script thread is, in or out of the hook
    handle,           \* the local fileNameHandle of a 'c' hook
    seen,             \* returnsRequired, as a 'c' hook has read it
    output,           \* where the line of output comes from that is being sent
    \* the client threads
    pc,               \* where each client is in its command
    snapshot,         \* the run state that SendStatus has copied
    reply             \* the ReturnCode of the command just finished

pauseData  == <<pauseRequested, isPaused, returnsRequired, status, bm>>
vmData     == <<attached, currentStack, fileNameHandles>>
hookLocals == <<handle, seen, output>>
clientVars == <<pc, snapshot, reply>>
vars == <<pauseData, mutex, vmData, frames, vmpc, hookLocals, clientVars>>

PauseType == {"None", "StepOut", "StepOver", "StepIn"}  \* Pause = StepIn
RunState  == {"Running", "Pausing", "Paused", "Stepping"}

ReturnCode == {"Success", "Invalid", "InvalidNotPaused", "InvalidParameter", "ErrorInternal"}

\* What reading and writing script variables can answer.
InspectionResult == ReturnCode \ {"InvalidNotPaused"}

StackEntry == [file : ScriptFile, line : Line]

NoOutput == [handle |-> NullHandle, line |-> 0]

HookPC   == {"script", "lookup", "push", "readReturns", "writeReturns", "returning",
             "line", "notify", "waiting", "woken", "printing", "sending", "crashed"}
ClientPC == {"idle", "requestPause", "pausing", "releasing", "inspecting", "delivering", "done"}

Init ==
    /\ BMInit
    /\ pauseRequested = "None" /\ isPaused = FALSE /\ returnsRequired = 0
    /\ status = [breakpoint |-> NoBreakpoint, stack |-> <<>>]
    /\ mutex = "none"
    /\ attached = FALSE /\ currentStack = <<>> /\ fileNameHandles = EmptyTable
    /\ frames = <<>> /\ vmpc = "script" /\ handle = NullHandle /\ seen = 0 /\ output = NoOutput
    /\ pc = [c \in Client |-> "idle"]
    /\ snapshot = [c \in Client |-> "Running"]
    /\ reply = [c \in Client |-> "Success"]

Free == mutex = "none"

\* pauseCv_.notify_all(): the hook, if it waits, can now ask for the mutex.
NotifyAll == vmpc' = IF vmpc = "waiting" THEN "woken" ELSE vmpc

WithTopLine(stack, line) == [stack EXCEPT ![Len(stack)].line = line]

-----------------------------------------------------------------------------
(* The script thread: what the script does between hooks, and the hook.    *)
(* The entry of a hook checks vmData_->vm and works on the thread's own    *)
(* data up to its first use of shared data.                                *)

\* The script calls a function, and the VM calls the 'c' hook.
ScriptCall(file, line) ==
    /\ vmpc = "script"
    /\ Len(frames) < MaxDepth
    /\ returnsRequired < MaxReturns
    /\ frames' = Append(frames, [file |-> file, line |-> line])
    /\ IF ~attached
       THEN UNCHANGED <<vmpc, handle>>
       ELSE IF file \in DOMAIN fileNameHandles
            THEN vmpc' = "push" /\ handle' = fileNameHandles[file]
            ELSE vmpc' = "lookup" /\ handle' = handle
    /\ UNCHANGED <<pauseData, mutex, vmData, seen, output, clientVars>>

\* Mutant: a source without breakpoints gets no handle.
FindOnly ==
    LET file == Last(frames).file
        h    == FindFileNameHandle(bm, file)
    IN  /\ vmpc = "lookup"
        /\ Free
        /\ handle' = h
        /\ fileNameHandles' = [f \in DOMAIN fileNameHandles \cup {file} |->
                                  IF f = file THEN h ELSE fileNameHandles[f]]
        /\ vmpc' = "push"
        /\ UNCHANGED <<pauseData, mutex, attached, currentStack, frames, seen, output, clientVars>>

\* First function of this source: take the mutex and ask for its handle.
LookupHandle ==
    LET file == Last(frames).file
        h    == FindFileNameHandle(bm', file)
    IN  /\ vmpc = "lookup"
        /\ Free
        /\ bm' = EnsureFileNameHandle(bm, file)
        /\ handle' = h
        /\ fileNameHandles' = [f \in DOMAIN fileNameHandles \cup {file} |->
                                  IF f = file THEN h ELSE fileNameHandles[f]]
        /\ vmpc' = "push"
        /\ UNCHANGED <<pauseRequested, isPaused, returnsRequired, status, mutex, attached,
                       currentStack, frames, seen, output, clientVars>>

\* Push the frame, and read pauseRequested_ without the mutex.
PushFrame ==
    /\ vmpc = "push"
    /\ currentStack' = Append(currentStack, [handle |-> handle, line |-> Last(frames).line])
    /\ handle' = NullHandle
    /\ vmpc' = IF pauseRequested # "None" THEN "readReturns" ELSE "script"
    /\ UNCHANGED <<pauseData, mutex, attached, fileNameHandles, frames, seen, output, clientVars>>

\* if (returnsRequired >= 0), without the mutex.
ReadReturns ==
    /\ vmpc = "readReturns"
    /\ IF returnsRequired >= 0
       THEN vmpc' = "writeReturns" /\ seen' = returnsRequired
       ELSE vmpc' = "script" /\ seen' = seen
    /\ UNCHANGED <<pauseData, mutex, vmData, frames, handle, output, clientVars>>

\* Mutant: the call is not counted.
CallNotCounted ==
    /\ vmpc = "writeReturns"
    /\ seen' = 0
    /\ vmpc' = "script"
    /\ UNCHANGED <<pauseData, mutex, vmData, frames, handle, output, clientVars>>

\* ++returnsRequired, without the mutex: a data race.  A build adds one to
\* the value it has tested or to the one it reads again.
WriteReturns ==
    /\ vmpc = "writeReturns"
    /\ returnsRequired' \in {seen + 1, returnsRequired + 1}
    /\ seen' = 0
    /\ vmpc' = "script"
    /\ UNCHANGED <<pauseRequested, isPaused, status, bm, mutex, vmData, frames, handle,
                   output, clientVars>>

\* Mutant: the copy of the stack is not popped when no pause is requested.
PopWhenRequested ==
    /\ vmpc = "script"
    /\ frames # <<>>
    /\ returnsRequired > MinReturns
    /\ frames' = Front(frames)
    /\ currentStack' = IF attached /\ pauseRequested # "None" THEN Front(currentStack) ELSE currentStack
    /\ vmpc' = IF attached /\ pauseRequested # "None" THEN "returning" ELSE "script"
    /\ UNCHANGED <<pauseData, mutex, attached, fileNameHandles, hookLocals, clientVars>>

\* The script returns, and the VM calls the 'r' hook: pop the frame, and read
\* pauseRequested_ without the mutex.  MirrorInSync: the pop finds a frame.
ScriptReturn ==
    /\ vmpc = "script"
    /\ frames # <<>>
    /\ returnsRequired > MinReturns
    /\ frames' = Front(frames)
    /\ currentStack' = IF attached THEN Front(currentStack) ELSE currentStack
    /\ vmpc' = IF attached /\ pauseRequested # "None" THEN "returning" ELSE "script"
    /\ UNCHANGED <<pauseData, mutex, attached, fileNameHandles, hookLocals, clientVars>>

\* With the mutex, look again, and count the return.
CountReturn ==
    /\ vmpc = "returning"
    /\ Free
    /\ returnsRequired' = IF pauseRequested # "None" THEN returnsRequired - 1 ELSE returnsRequired
    /\ vmpc' = "script"
    /\ UNCHANGED <<pauseRequested, isPaused, status, bm, mutex, vmData, frames, hookLocals,
                   clientVars>>

\* The script reaches a line, and the VM calls the 'l' hook, which first
\* notes the line in the top frame of its copy of the stack.
ScriptLine(line) ==
    /\ vmpc = "script"
    /\ frames # <<>>
    /\ frames' = WithTopLine(frames, line)
    /\ IF attached
       THEN currentStack' = WithTopLine(currentStack, line) /\ vmpc' = "line"
       ELSE UNCHANGED <<currentStack, vmpc>>
    /\ UNCHANGED <<pauseData, mutex, attached, fileNameHandles, hookLocals, clientVars>>

\* What the 'l' hook can find at its line.  When DetachVm has cleared the
\* stack since, the hook reads through a dangling reference: any result.
BreakpointFound ==
    IF currentStack = <<>> THEN BreakpointId \cup {NoBreakpoint}
    ELSE {ReadBreakpoint(bm, Last(currentStack).handle, Last(currentStack).line)}

\* With breakpoint bp (or none) at the line: does the hook stop here?
Stops(bp) == bp # NoBreakpoint \/ (pauseRequested # "None" /\ returnsRequired <= 0)

\* The 'l' hook, with the mutex, goes on.
LineRuns ==
    /\ vmpc = "line"
    /\ Free
    /\ \E bp \in BreakpointFound : ~Stops(bp)
    /\ vmpc' = "script"
    /\ UNCHANGED <<pauseData, mutex, vmData, frames, hookLocals, clientVars>>

\* Mutant: the status is not taken anew.
LinePausesWithOldStatus ==
    /\ vmpc = "line"
    /\ Free
    /\ \E bp \in BreakpointFound :
          /\ Stops(bp)
          /\ pauseRequested' = IF bp # NoBreakpoint THEN "StepIn" ELSE pauseRequested
          /\ returnsRequired' = IF bp # NoBreakpoint THEN 0 ELSE returnsRequired
    /\ isPaused' = TRUE
    /\ IF attached THEN vmpc' = "notify" ELSE vmpc' = "crashed"
    /\ mutex' = "vm"
    /\ UNCHANGED <<status, bm, vmData, frames, hookLocals, clientVars>>

\* Mutant: the mutex is released before the clients are told.
LinePausesUnlocked ==
    /\ vmpc = "line"
    /\ Free
    /\ \E bp \in BreakpointFound :
          /\ Stops(bp)
          /\ pauseRequested' = IF bp # NoBreakpoint THEN "StepIn" ELSE pauseRequested
          /\ returnsRequired' = IF bp # NoBreakpoint THEN 0 ELSE returnsRequired
          /\ status' = [breakpoint |-> bp, stack |-> Reverse(frames)]
    /\ isPaused' = TRUE
    /\ IF attached THEN vmpc' = "notify" ELSE vmpc' = "crashed"
    /\ mutex' = mutex
    /\ UNCHANGED <<bm, vmData, frames, hookLocals, clientVars>>

\* The 'l' hook, with the mutex, pauses: the status describes the VM's own
\* stack, innermost frame first, which does not exist once DetachVm has
\* cleared vmData_->vm: sq_stackinfos then dereferences null.
LinePauses ==
    /\ vmpc = "line"
    /\ Free
    /\ \E bp \in BreakpointFound :
          /\ Stops(bp)
          /\ pauseRequested' = IF bp # NoBreakpoint THEN "StepIn" ELSE pauseRequested
          /\ returnsRequired' = IF bp # NoBreakpoint THEN 0 ELSE returnsRequired
          /\ status' = [breakpoint |-> bp, stack |-> Reverse(frames)]
    /\ isPaused' = TRUE
    /\ IF attached THEN vmpc' = "notify" ELSE vmpc' = "crashed"
    /\ mutex' = "vm"
    /\ UNCHANGED <<bm, vmData, frames, hookLocals, clientVars>>

\* HandleStatusChanged, with the mutex held, then pauseCv_.wait: the mutex is
\* released and the hook waits, in one step.
NotifyAndWait ==
    /\ vmpc = "notify"
    /\ vmpc' = "waiting"
    /\ mutex' = "none"
    /\ UNCHANGED <<pauseData, vmData, frames, hookLocals, clientVars>>

\* pauseCv_.wait(lock) has no predicate: it may also return on its own.
SpuriousWakeup ==
    /\ SpuriousWakeups
    /\ vmpc = "waiting"
    /\ vmpc' = "woken"
    /\ UNCHANGED <<pauseData, mutex, vmData, frames, hookLocals, clientVars>>

\* Mutant: the paused flag is left as it is.
ResumeStillPaused ==
    /\ vmpc = "woken"
    /\ Free
    /\ vmpc' = "script"
    /\ UNCHANGED <<pauseData, mutex, vmData, frames, hookLocals, clientVars>>

\* wait() has the mutex again and returns; the script goes on.
Resume ==
    /\ vmpc = "woken"
    /\ Free
    /\ isPaused' = FALSE
    /\ vmpc' = "script"
    /\ UNCHANGED <<pauseRequested, returnsRequired, status, bm, mutex, vmData, frames,
                   hookLocals, clientVars>>

\* The script prints a line: SquirrelPrintCallback checks that a VM is attached ...
ScriptPrint ==
    /\ vmpc = "script"
    /\ frames # <<>>
    /\ vmpc' = IF attached THEN "printing" ELSE "script"
    /\ UNCHANGED <<pauseData, mutex, vmData, frames, hookLocals, clientVars>>

\* ... reads the top frame of the debugger's copy of the stack, which is not
\* there when DetachVm has cleared it since ...
ReadOutput ==
    /\ vmpc = "printing"
    /\ IF currentStack = <<>>
       THEN vmpc' = "crashed" /\ output' = output
       ELSE vmpc' = "sending" /\ output' = Last(currentStack)
    /\ UNCHANGED <<pauseData, mutex, vmData, frames, handle, seen, clientVars>>

\* ... and sends the event, without the mutex.
HandleOutputLine ==
    /\ vmpc = "sending"
    /\ vmpc' = "script" /\ output' = NoOutput
    /\ UNCHANGED <<pauseData, mutex, vmData, frames, handle, seen, clientVars>>

\* What the hook or the callback does once the script has called it.
HookStep ==
    \/ LookupHandle
    \/ PushFrame
    \/ ReadReturns
    \/ WriteReturns
    \/ CountReturn
    \/ LineRuns
    \/ LinePauses
    \/ NotifyAndWait
    \/ Resume
    \/ ReadOutput
    \/ HandleOutputLine

ScriptStep ==
    \/ \E file \in ScriptFile, line \in Line : ScriptCall(file, line)
    \/ ScriptReturn
    \/ \E line \in Line : ScriptLine(line)
    \/ ScriptPrint

-----------------------------------------------------------------------------
(* The host: attaching and detaching the VM *)

\* AddVm, before the script runs.
AddVm ==
    /\ ~attached
    /\ frames = <<>> /\ vmpc = "script"
    /\ attached' = TRUE
    /\ UNCHANGED <<pauseData, mutex, currentStack, fileNameHandles, frames, vmpc, hookLocals,
                   clientVars>>

\* Mutant: the paused flag stays.
DetachKeepsPaused ==
    /\ attached
    /\ Free
    /\ DetachRacesHook \/ vmpc \in {"script", "waiting", "woken"}
    /\ IF pauseRequested # "None"
       THEN pauseRequested' = "None" /\ NotifyAll
       ELSE UNCHANGED <<pauseRequested, vmpc>>
    /\ attached' = FALSE /\ currentStack' = <<>> /\ fileNameHandles' = EmptyTable
    /\ UNCHANGED <<isPaused, returnsRequired, status, bm, mutex, frames, hookLocals, clientVars>>

\* DetachVm.  Nothing keeps it from running while the script is inside a hook.
DetachVm ==
    /\ attached
    /\ Free
    /\ DetachRacesHook \/ vmpc \in {"script", "waiting", "woken"}
    /\ isPaused' = FALSE
    /\ IF pauseRequested # "None"
       THEN pauseRequested' = "None" /\ NotifyAll
       ELSE UNCHANGED <<pauseRequested, vmpc>>
    /\ attached' = FALSE /\ currentStack' = <<>> /\ fileNameHandles' = EmptyTable
    /\ UNCHANGED <<returnsRequired, status, bm, mutex, frames, hookLocals, clientVars>>

-----------------------------------------------------------------------------
(* The clients' commands *)

Start(c)      == pc[c] = "idle"
GoTo(c, at)   == pc' = [pc EXCEPT ![c] = at] /\ UNCHANGED <<snapshot, reply>>
Done(c, code) == /\ pc' = [pc EXCEPT ![c] = "done"]
                 /\ reply' = [reply EXCEPT ![c] = code]
                 /\ UNCHANGED snapshot

\* What commands that only work on the debugger leave alone.
ScriptUnchanged == UNCHANGED <<frames, hookLocals, vmData>>

\* PauseExecution: a first look without the mutex.  Any request already
\* pending counts as a pause.
CheckPause(c) ==
    /\ Start(c)
    /\ IF pauseRequested = "None" THEN GoTo(c, "requestPause") ELSE Done(c, "Success")
    /\ ScriptUnchanged
    /\ UNCHANGED <<pauseData, mutex, vmpc>>

\* With the mutex, look again, and publish the request ...
RequestPause(c) ==
    /\ pc[c] = "requestPause"
    /\ Free
    /\ IF pauseRequested = "None"
       THEN pauseRequested' = "StepIn" /\ mutex' = c /\ GoTo(c, "pausing")
       ELSE UNCHANGED <<pauseRequested, mutex>> /\ Done(c, "Success")
    /\ ScriptUnchanged
    /\ UNCHANGED <<isPaused, returnsRequired, status, bm, vmpc>>

\* Mutant: a pause only counts where the script is, like StepOver.
SetPauseHere(c) ==
    /\ pc[c] = "pausing"
    /\ returnsRequired' = 0
    /\ mutex' = "none"
    /\ Done(c, "Success")
    /\ ScriptUnchanged
    /\ UNCHANGED <<pauseRequested, isPaused, status, bm, vmpc>>

\* ... which the 'c' hook can see before returnsRequired is set.
SetPauseReturns(c) ==
    /\ pc[c] = "pausing"
    /\ returnsRequired' = -1
    /\ mutex' = "none"
    /\ Done(c, "Success")
    /\ ScriptUnchanged
    /\ UNCHANGED <<pauseRequested, isPaused, status, bm, vmpc>>

\* ContinueExecution: a first look without the mutex.
CheckContinue(c) ==
    /\ Start(c)
    /\ IF pauseRequested # "None" THEN GoTo(c, "releasing") ELSE Done(c, "InvalidNotPaused")
    /\ ScriptUnchanged
    /\ UNCHANGED <<pauseData, mutex, vmpc>>

\* Mutant: the waiting hook is not notified.
ContinueSilently(c) ==
    /\ pc[c] = "releasing"
    /\ Free
    /\ IF pauseRequested # "None"
       THEN pauseRequested' = "None" /\ vmpc' = vmpc /\ Done(c, "Success")
       ELSE UNCHANGED <<pauseRequested, vmpc>> /\ Done(c, "InvalidNotPaused")
    /\ ScriptUnchanged
    /\ UNCHANGED <<isPaused, returnsRequired, status, bm, mutex>>

\* With the mutex, look again, withdraw the request and wake the hook.
ReleaseScript(c) ==
    /\ pc[c] = "releasing"
    /\ Free
    /\ IF pauseRequested # "None"
       THEN pauseRequested' = "None" /\ NotifyAll /\ Done(c, "Success")
       ELSE UNCHANGED <<pauseRequested, vmpc>> /\ Done(c, "InvalidNotPaused")
    /\ ScriptUnchanged
    /\ UNCHANGED <<isPaused, returnsRequired, status, bm, mutex>>

\* Step, for a script that is paused, or still is as far as isPaused tells.
Step(c, pauseType, returns) ==
    /\ Start(c)
    /\ Free
    /\ IF isPaused
       THEN /\ returnsRequired' = returns
            /\ pauseRequested' = pauseType
            /\ NotifyAll
            /\ Done(c, "Success")
       ELSE /\ UNCHANGED <<returnsRequired, pauseRequested, vmpc>>
            /\ Done(c, "InvalidNotPaused")
    /\ ScriptUnchanged
    /\ UNCHANGED <<isPaused, status, bm, mutex>>

StepOut(c)  == Step(c, "StepOut", 1)
StepOver(c) == Step(c, "StepOver", 0)
StepIn(c)   == Step(c, "StepIn", -1)

\* The commands that work on the VM hold the mutex while they do: "inspecting".
Inspect(c, valid) ==
    /\ Start(c)
    /\ Free
    /\ IF ~isPaused THEN UNCHANGED mutex /\ Done(c, "InvalidNotPaused")
       ELSE IF ~valid THEN UNCHANGED mutex /\ Done(c, "InvalidParameter")
       ELSE mutex' = c /\ GoTo(c, "inspecting")
    /\ ScriptUnchanged
    /\ UNCHANGED <<pauseData, vmpc>>

GetStackVariables(c, stackFrame)     == Inspect(c, stackFrame <= Len(currentStack))
SetStackVariableValue(c, stackFrame) == Inspect(c, stackFrame <= Len(currentStack))
GetGlobalVariables(c)                == Inspect(c, TRUE)

\* The expression is parsed before the mutex is taken; no frame is checked.
GetImmediateValue(c, parses) ==
    IF parses THEN Inspect(c, TRUE)
    ELSE /\ Start(c)
         /\ Done(c, "InvalidParameter")
         /\ ScriptUnchanged
         /\ UNCHANGED <<pauseData, mutex, vmpc>>

\* Mutant: the mutex is not released.
EndInspectionLocked(c) ==
    /\ pc[c] = "inspecting"
    /\ mutex' = mutex
    /\ \E code \in InspectionResult : Done(c, code)
    /\ ScriptUnchanged
    /\ UNCHANGED <<pauseData, vmpc>>

\* The VM has been read or written; what it answers is another module's matter.
EndInspection(c) ==
    /\ pc[c] = "inspecting"
    /\ mutex' = "none"
    /\ \E code \in InspectionResult : Done(c, code)
    /\ ScriptUnchanged
    /\ UNCHANGED <<pauseData, vmpc>>

\* The run state that SendStatus reports.
CurrentRunState ==
    CASE pauseRequested = "None"                              -> "Running"
      [] pauseRequested # "None" /\ isPaused                  -> "Paused"
      [] pauseRequested = "StepIn" /\ ~isPaused               -> "Pausing"
      [] pauseRequested \in {"StepOut", "StepOver"} /\ ~isPaused -> "Stepping"

\* SendStatus copies the state with the mutex ...
CopyStatus(c) ==
    /\ Start(c)
    /\ Free
    /\ snapshot' = [snapshot EXCEPT ![c] = CurrentRunState]
    /\ pc' = [pc EXCEPT ![c] = "delivering"]
    /\ UNCHANGED reply
    /\ ScriptUnchanged
    /\ UNCHANGED <<pauseData, mutex, vmpc>>

\* ... and delivers the copy without it.
DeliverStatus(c) ==
    /\ pc[c] = "delivering"
    /\ pc' = [pc EXCEPT ![c] = "done"]
    /\ reply' = [reply EXCEPT ![c] = "Success"]
    /\ snapshot' = [snapshot EXCEPT ![c] = "Running"]
    /\ ScriptUnchanged
    /\ UNCHANGED <<pauseData, mutex, vmpc>>

\* What a client can ask for, valid or not.
Requests == UNION {[1 .. n -> [id : BreakpointId \cup {0}, line : Line \cup {0}]] :
                      n \in 0 .. MaxBreakpoints}

Valid(bps) == \A i \in DOMAIN bps : bps[i].id # 0 /\ bps[i].line # 0

\* SetFileBreakpoints: all of the request is validated before the mutex is taken.
SetFileBreakpoints(c, file, bps) ==
    /\ Start(c)
    /\ IF Valid(bps)
       THEN Free /\ bm' = Replaced(bm, file, bps) /\ Done(c, "Success")
       ELSE bm' = bm /\ Done(c, "InvalidParameter")
    /\ ScriptUnchanged
    /\ UNCHANGED <<pauseRequested, isPaused, returnsRequired, status, mutex, vmpc>>

\* The client takes the answer.
TakeReply(c) ==
    /\ pc[c] = "done"
    /\ pc' = [pc EXCEPT ![c] = "idle"]
    /\ reply' = [reply EXCEPT ![c] = "Success"]
    /\ ScriptUnchanged
    /\ UNCHANGED <<pauseData, mutex, vmpc, snapshot>>

Command(c) ==
    \/ CheckPause(c)
    \/ CheckContinue(c)
    \/ StepOut(c)
    \/ StepOver(c)
    \/ StepIn(c)
    \/ \E stackFrame \in 0 .. MaxDepth + 1 : GetStackVariables(c, stackFrame)
    \/ \E stackFrame \in 0 .. MaxDepth + 1 : SetStackVariableValue(c, stackFrame)
    \/ GetGlobalVariables(c)
    \/ \E parses \in BOOLEAN : GetImmediateValue(c, parses)
    \/ CopyStatus(c)
    \/ \E file \in FileName, bps \in Requests : SetFileBreakpoints(c, file, bps)

CommandStep(c) ==
    \/ RequestPause(c)
    \/ SetPauseReturns(c)
    \/ ReleaseScript(c)
    \/ EndInspection(c)
    \/ DeliverStatus(c)
    \/ TakeReply(c)

-----------------------------------------------------------------------------
(* After a crash nothing runs any more. *)
Next ==
    /\ vmpc # "crashed"
    /\ \/ ScriptStep
       \/ HookStep
       \/ SpuriousWakeup
       \/ AddVm
       \/ DetachVm
       \/ \E c \in Client : Command(c) \/ CommandStep(c)

Spec == Init /\ [][Next]_vars

\* A thread inside the hook or a command goes on, and one that asks for the
\* mutex again and again gets it.  Nothing makes the script go on, a client
\* give a command, or a hook that waits wake up.
Fairness ==
    /\ SF_vars(HookStep)
    /\ \A c \in Client : SF_vars(CommandStep(c))

FairSpec == Spec /\ Fairness

-----------------------------------------------------------------------------
(* Properties *)

\* Every variable has its type.
TypeOK ==
    /\ BMTypeOK
    /\ pauseRequested \in PauseType
    /\ isPaused \in BOOLEAN
    /\ returnsRequired \in Int
    /\ status \in [breakpoint : BreakpointId \cup {NoBreakpoint}, stack : Seq(StackEntry)]
    /\ mutex \in {"none", "vm"} \cup Client
    /\ attached \in BOOLEAN
    /\ currentStack \in Seq([handle : Nat, line : Line])
    /\ DOMAIN fileNameHandles \subseteq ScriptFile
    /\ fileNameHandles \in [DOMAIN fileNameHandles -> Nat]
    /\ frames \in Seq(StackEntry)
    /\ vmpc \in HookPC
    /\ handle \in Nat /\ seen \in Int
    /\ output \in [handle : Nat, line : Line \cup {0}]
    /\ pc \in [Client -> ClientPC]
    /\ snapshot \in [Client -> RunState]
    /\ reply \in [Client -> ReturnCode]

\* "We can only safely read Squirrel state once the pause is confirmed": while
\* a client reads or writes variables of the VM, the script thread is blocked
\* in pauseCv_.wait, whatever commands, wake-ups and detachments come between,
\* the VM is attached, and no second client is inside.
StoppedWhileInspected ==
    \A c \in Client : pc[c] = "inspecting" =>
        /\ vmpc \in {"waiting", "woken"}
        /\ attached
        /\ \A d \in Client : pc[d] \in {"inspecting", "pausing"} => d = c

\* The script never waits for a notification that has already been sent, nor
\* for a command that would be refused: while it waits, a request is pending,
\* so ContinueExecution and DetachVm notify, and isPaused is set, so a step does.
NoLostWakeup ==
    vmpc = "waiting" => pauseRequested # "None" /\ isPaused /\ attached

\* The VM's frames that the 'c' hooks so far have told the debugger of.
Announced == IF vmpc \in {"lookup", "push"} THEN Front(frames) ELSE frames

\* The debugger's copy of the stack has the depth, the files and the lines of
\* the VM's own stack: the frame numbers that clients send are checked against
\* the one and used on the other, and the 'l' and 'r' hooks find a frame.
MirrorInSync ==
    attached =>
        /\ Len(currentStack) = Len(Announced)
        /\ \A i \in DOMAIN currentStack :
              /\ currentStack[i].handle \in Handles(bm)
              /\ bm.fileNames[currentStack[i].handle] = Lower[Announced[i].file]
              /\ currentStack[i].line = Announced[i].line

\* The status that clients are given while the script is stopped describes the
\* stack as it is, innermost frame first.
StatusDescribesStop ==
    (attached /\ vmpc \in {"notify", "waiting"}) => status.stack = Reverse(frames)

\* The breakpoint that clients have set on a line of a file, however spelled.
BreakpointAt(file, line) == ReadBreakpoint(bm, FindFileNameHandle(bm, file), line)

\* A line on which a breakpoint is set stops the script and reports that
\* breakpoint, although the hook looks it up by a handle it has cached before
\* the breakpoint was set.  On any other line the script stops only when a
\* client has asked it to, and no breakpoint is reported.
BreakpointsStop ==
    [][(vmpc = "line" /\ vmpc' # "line" /\ attached) =>
          LET bp == BreakpointAt(Last(frames).file, Last(frames).line)
          IN  /\ bp # NoBreakpoint => vmpc' = "notify"
              /\ vmpc' = "notify" => /\ status'.breakpoint = bp
                                     /\ bp # NoBreakpoint \/ pauseRequested # "None"]_vars

\* A line of output is sent with the source and the line of the function that
\* prints it, taken from the copy of the stack and from a handle that clients
\* do not see, whatever calls, returns and lines came before.
OutputNamesItsLine ==
    vmpc = "sending" =>
        /\ output.handle \in Handles(bm)
        /\ bm.fileNames[output.handle] = Lower[Last(frames).file]
        /\ output.line = Last(frames).line

\* Every command comes to its end, whatever the other threads do.
CommandsReturn == \A c \in Client : pc[c] # "idle" ~> pc[c] = "idle"

\* Every hook returns to the script or ends waiting for a client.
HooksEnd == vmpc \notin {"script", "waiting"} ~> vmpc \in {"script", "waiting"}

\* ContinueExecution, once it has seen a request, sets a waiting script free,
\* also when other clients step, continue or detach before it has the mutex.
ContinueReleases ==
    \A c \in Client : (pc[c] = "releasing" /\ vmpc = "waiting") ~> vmpc # "waiting"

=============================================================================
