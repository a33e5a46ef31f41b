----------------------- MODULE DebugCommandController -----------------------
(***************************************************************************)
(* The HTTP endpoints over the commands (DebugCommandController.h): a      *)
(* request runs on a server thread, gives one command, or one after the    *)
(* other, and answers with a status.  The data of requests and answers are *)
(* left out but for how many values an answer holds.                       *)
(***************************************************************************)
EXTENDS SquirrelDebugger

CONSTANT Expressions   \* bound: how many a StackImmediate request has

ASSUME ExpressionsAssumption == Expressions \in Nat \ {0}

VARIABLE
    request    \* per thread: how many expressions a StackImmediate request has, how
               \* many values there are so far, and the status of the answer

NoRequest == [asked |-> 0, values |-> 0, http |-> 0]

ControllerInit == request = [c \in Client |-> NoRequest]

\* CreateReturnCodeResponse: the codes from ErrorInternal on are the server's fault.
StatusOf(code) ==
    CASE code = "Success" -> 200
      [] code = "ErrorInternal" -> 500
      [] OTHER -> 400

CoreUnchanged == UNCHANGED vars

\* A request comes in.
Incoming(c) == Start(c) /\ request[c] = NoRequest

\* count is limited to 1000, and has to be a number, as has beginIterator: else
\* the debugger is not asked.
RejectPagination(c) ==
    /\ Start(c)
    /\ Done(c, "InvalidParameter")
    /\ ScriptUnchanged
    /\ UNCHANGED <<pauseData, mutex, vmpc>>

\* The endpoints that give one command.
Endpoint(c) ==
    /\ Incoming(c)
    /\ \/ CheckPause(c)
       \/ CheckContinue(c)
       \/ StepOut(c)
       \/ StepOver(c)
       \/ StepIn(c)
       \/ \E stackFrame \in 0 .. MaxDepth + 1 : GetStackVariables(c, stackFrame)
       \/ \E stackFrame \in 0 .. MaxDepth + 1 : SetStackVariableValue(c, stackFrame)
       \/ GetGlobalVariables(c)
       \/ RejectPagination(c)
       \/ CopyStatus(c)
       \/ \E file \in FileName, bps \in Requests : SetFileBreakpoints(c, file, bps)
    /\ UNCHANGED request

\* StackImmediate: a list of expressions ...
StackImmediate(c) ==
    /\ Incoming(c)
    /\ request' = [request EXCEPT ![c].asked = Expressions]
    /\ CoreUnchanged

\* ... each of which is a command of its own: the mutex is free in between.
Evaluate(c) ==
    /\ Start(c) /\ request[c].asked > 0 /\ request[c].http = 0
    /\ \E parses \in BOOLEAN : GetImmediateValue(c, parses)
    /\ UNCHANGED request

\* A command of the loop has come back.
Evaluated(c) == pc[c] = "done" /\ request[c].asked > 0

\* Mutant: an expression that fails is left out of the answer.
CollectWhatSucceeds(c) ==
    LET values == request[c].values + (IF reply[c] = "Success" THEN 1 ELSE 0)
    IN  /\ Evaluated(c)
        /\ request' = [request EXCEPT ![c].values = values,
               ![c].http = IF reply[c] = "Success" /\ values < request[c].asked THEN 0 ELSE 200]
        /\ TakeReply(c)

\* One more value; or a failure, which ends the loop and drops all values.
Collect(c) ==
    LET values == IF reply[c] = "Success" THEN request[c].values + 1 ELSE 0
    IN  /\ Evaluated(c)
        /\ request' = [request EXCEPT ![c] = [asked |-> @.asked, values |-> values,
               http |-> IF values \in 1 .. @.asked - 1 THEN 0 ELSE StatusOf(reply[c])]]
        /\ TakeReply(c)

\* The other endpoints answer with the code of their command.
Answer(c) ==
    /\ pc[c] = "done" /\ request[c] = NoRequest
    /\ request' = [request EXCEPT ![c].http = StatusOf(reply[c])]
    /\ TakeReply(c)

\* The answer is sent.
Respond(c) ==
    /\ request[c].http # 0
    /\ request' = [request EXCEPT ![c] = NoRequest]
    /\ CoreUnchanged

\* What a server thread does with a request once it has come in.
RequestStep(c) ==
    \/ Evaluate(c)
    \/ Collect(c)
    \/ Answer(c)
    \/ Respond(c)

-----------------------------------------------------------------------------
(* Properties *)

\* An answer of success holds one value per expression of the request, any
\* other none, although the expressions are evaluated one by one, the script
\* may go on and stop again in between, and each of them may be refused.
AnswersAreComplete ==
    \A c \in Client : request[c].http # 0 =>
        request[c].values = IF request[c].http = 200 THEN request[c].asked ELSE 0
=============================================================================
