----------------------------- MODULE AppProofs ------------------------------
(***************************************************************************)
(* Proofs about the whole application: that the debugger does in it what   *)
(* it may do on its own, what clients are answered, and what happens at    *)
(* the beginning and the end of a script; for any number of clients,       *)
(* subscribers and stages at which they come.                              *)
(***************************************************************************)
EXTENDS SampleApp, SquirrelDebuggerProofs, WSListenerProofs

-----------------------------------------------------------------------------
(* The debugger in the application *)

LEMMA MainProjects == MainStep /\ vmpc # "crashed" => [Next]_vars
  <1> SUFFICES ASSUME MainStep, vmpc # "crashed" PROVE Next \/ UNCHANGED vars
    OBVIOUS
  <1>1. CASE OpenVm
    BY <1>1 DEF OpenVm, Next
  <1>2. CASE PauseOnStart
    BY <1>2, MainAssumption DEF PauseOnStart, Next, Command, CommandStep
  <1>3. CASE CallScript
    BY <1>3 DEF CallScript, Next, ScriptStep
  <1>4. CASE Initialize \/ LoadFile \/ CloseVm \/ Stop \/ Join \/ Exit
    BY <1>4 DEF Initialize, LoadFile, CloseVm, Stop, Join, Exit, DebuggerUnchanged
  <1> QED
    BY <1>1, <1>2, <1>3, <1>4 DEF MainStep

LEMMA HookProjects == HookRuns /\ vmpc # "crashed" => [Next]_vars
  <1> SUFFICES ASSUME HookRuns, vmpc # "crashed" PROVE Next \/ UNCHANGED vars
    OBVIOUS
  <1>1. CASE RunsScript
    BY <1>1 DEF RunsScript, Next, HookStep
  <1>2. CASE HasAnnounced
    BY <1>2 DEF HasAnnounced, Next, HookStep
  <1>3. CASE AnnouncesPause \/ AnnouncesOutput
    BY <1>3 DEF AnnouncesPause, AnnouncesOutput, DebuggerUnchanged
  <1> QED
    BY <1>1, <1>2, <1>3 DEF HookRuns

LEMMA RequestProjects ==
    ASSUME NEW c \in Client, ServesRequest(c) \/ Serves(c) \/ UsesDeletedController(c),
           vmpc # "crashed"
    PROVE  [Next]_vars
  <1>1. ASSUME RejectPagination(c) PROVE Command(c)
    BY <1>1 DEF RejectPagination, Command, GetImmediateValue
  <1>2. CASE ServesRequest(c)
    BY <1>1, <1>2
    DEF ServesRequest, Endpoint, StackImmediate, CoreUnchanged, Next, Command
  <1>3. CASE GoesOnServing(c)
    BY <1>3
    DEF GoesOnServing, RequestStep, Evaluate, Collect, Answer, Respond, CoreUnchanged, Next,
        Command, CommandStep
  <1>4. CASE HasAnnouncedStatus(c)
    BY <1>4 DEF HasAnnouncedStatus, Next, CommandStep
  <1>5. CASE AnnouncesStatus(c) \/ UsesDeletedController(c)
    BY <1>5 DEF AnnouncesStatus, UsesDeletedController, DebuggerUnchanged
  <1> QED
    BY <1>2, <1>3, <1>4, <1>5 DEF Serves

LEMMA AppProjects == [AppNext]_appVars => [Next]_vars
  <1> SUFFICES ASSUME AppNext PROVE [Next]_vars
    BY DEF appVars
  <1>1. vmpc # "crashed"
    BY DEF AppNext, Alive
  <1>2. ASSUME Poll \/ (\E s \in Socket : SocketGoesOn(s)) \/ (\E t \in Sender : BroadcastGoesOn(t))
        PROVE  UNCHANGED vars
    BY <1>2 DEF Poll, SocketGoesOn, BroadcastGoesOn, DebuggerUnchanged
  <1> QED
    BY <1>1, <1>2, MainProjects, HookProjects, RequestProjects DEF AppNext

\* Whatever the application does, its debugger does what SquirrelDebugger
\* says, whichever thread is where: what is proved of Spec holds in it.
THEOREM AppRunsTheDebugger == AppSpec => Spec
  <1>1. AppInit => Init
    BY DEF AppInit
  <1> QED
    BY <1>1, AppProjects, PTL DEF AppSpec, Spec

LEMMA AppSafe == AppSpec => []Safe
  BY AppRunsTheDebugger, AlwaysSafe, PTL

\* The subscribers and broadcasts of the application are those of WSListener:
\* each step of it is one of theirs, or none.
LEMMA ListenerProjects == Safe /\ [AppNext]_appVars => [ListenerNext]_listenerVars
  <1> SUFFICES ASSUME Safe, AppNext PROVE ListenerNext \/ UNCHANGED listenerVars
    BY DEF appVars
  <1>1. ~broken
    BY DEF AppNext, Alive
  <1>2. CASE MainStep
    BY <1>2
    DEF MainStep, Initialize, OpenVm, PauseOnStart, LoadFile, CallScript, CloseVm, Stop, Join,
        Exit, Quietly, ListenerUnchanged
  <1>3. CASE HookRuns
    BY <1>1, <1>3, BroadcastAssumption
    DEF HookRuns, RunsScript, AnnouncesPause, AnnouncesOutput, HasAnnounced, ListenerUnchanged,
        ListenerNext, RunState
  <1>4. ASSUME NEW c \in Client, ServesRequest(c) \/ Serves(c) \/ UsesDeletedController(c)
        PROVE  ListenerNext \/ UNCHANGED listenerVars
    <2>1. snapshot[c] \in RunState
      BY DEF Safe, TypeInv, TypeOK
    <2> QED
      BY <1>1, <1>4, <2>1, BroadcastAssumption
      DEF ServesRequest, Serves, GoesOnServing, AnnouncesStatus, HasAnnouncedStatus,
          UsesDeletedController, ListenerUnchanged, ListenerNext
  <1>5. ASSUME NEW s \in Socket, SocketGoesOn(s) PROVE ListenerNext
    BY <1>1, <1>5 DEF SocketGoesOn, ListenerNext
  <1>6. ASSUME NEW t \in Sender, BroadcastGoesOn(t) PROVE ListenerNext
    BY <1>1, <1>6 DEF BroadcastGoesOn, ListenerNext
  <1>7. CASE Poll
    BY <1>7 DEF Poll, ListenerUnchanged
  <1> QED
    BY <1>2, <1>3, <1>4, <1>5, <1>6, <1>7 DEF AppNext

\* Whatever the application does, its websockets do what WSListener says.
THEOREM AppRunsTheListener == AppSpec => ListenerSpec
  <1>1. AppInit => ListenerInit
    BY DEF AppInit
  <1> QED
    BY <1>1, ListenerProjects, AppSafe, PTL
    DEF AppSpec, ListenerSpec

-----------------------------------------------------------------------------
(* What the threads of the application do with the debugger *)

\* Requests reach the debugger only over connections, which are not the main
\* thread, and give it commands or nothing.
LEMMA RequestIsCommand ==
    ASSUME NEW c \in Client, ServesRequest(c) \/ Serves(c) \/ UsesDeletedController(c)
    PROVE  /\ Command(c) \/ CommandStep(c) \/ UNCHANGED vars
           /\ UNCHANGED <<breakOnStart, accepted>>
           /\ stage' = stage \/ (stage = "deleted" /\ stage' = "undefined")
  <1>1. ASSUME RejectPagination(c) PROVE Command(c)
    BY <1>1 DEF RejectPagination, Command, GetImmediateValue
  <1>2. CASE ServesRequest(c)
    BY <1>1, <1>2
    DEF ServesRequest, Endpoint, StackImmediate, CoreUnchanged, Command, ThreadsUnchanged,
        threadVars
  <1>3. CASE GoesOnServing(c)
    BY <1>3
    DEF GoesOnServing, RequestStep, Evaluate, Collect, Answer, Respond, CoreUnchanged,
        Command, CommandStep, ThreadsUnchanged, threadVars
  <1>4. CASE HasAnnouncedStatus(c)
    BY <1>4 DEF HasAnnouncedStatus, CommandStep, ThreadsUnchanged, threadVars
  <1>5. CASE AnnouncesStatus(c) \/ UsesDeletedController(c)
    BY <1>5
    DEF AnnouncesStatus, UsesDeletedController, DebuggerUnchanged, ThreadsUnchanged, threadVars
  <1> QED
    BY <1>2, <1>3, <1>4, <1>5 DEF Serves

\* A command is a step of one client, and goes on only when it has begun.
LEMMA CommandMoves ==
    ASSUME NEW c \in Client, Command(c) \/ CommandStep(c)
    PROVE  /\ \E at : pc' = [pc EXCEPT ![c] = at]
           /\ CommandStep(c) => pc[c] # "idle"
           /\ Command(c) => pc[c] = "idle"
  BY DEF Command, CheckPause, CheckContinue, StepOut, StepOver, StepIn, Step,
         GetStackVariables, SetStackVariableValue, GetGlobalVariables, GetImmediateValue,
         Inspect, CopyStatus, SetFileBreakpoints, CommandStep, RequestPause, SetPauseReturns,
         ReleaseScript, EndInspection, DeliverStatus, TakeReply, Start, GoTo, Done

\* Other threads leave the debugger alone, and only the worker accepts.
LEMMA OthersQuiet ==
    ASSUME Poll \/ (\E s \in Socket : SocketGoesOn(s)) \/ (\E t \in Sender : BroadcastGoesOn(t))
    PROVE  /\ UNCHANGED <<vars, request, stage, breakOnStart>>
           /\ \A c \in accepted' : c \in accepted \/ c \in Client \ {Main}
           /\ accepted \subseteq accepted'
  <1>1. CASE Poll
    BY <1>1 DEF Poll, DebuggerUnchanged
  <1>2. CASE (\E s \in Socket : SocketGoesOn(s)) \/ (\E t \in Sender : BroadcastGoesOn(t))
    BY <1>2 DEF SocketGoesOn, BroadcastGoesOn, DebuggerUnchanged, ThreadsUnchanged, threadVars
  <1> QED
    BY <1>1, <1>2

LEMMA HookInApp ==
    ASSUME HookRuns
    PROVE  /\ UNCHANGED <<request, stage, breakOnStart, accepted, pc>>
           /\ \/ UNCHANGED vars
              \/ stage = "script" /\ (frames # <<>> \/ vmpc # "script") /\ ScriptStep
              \/ stage = "script" /\ (frames # <<>> \/ vmpc # "script") /\ HookStep
              \/ vmpc # "script" /\ (NotifyAndWait \/ HandleOutputLine)
  <1>1. CASE RunsScript
    <2>1. ScriptStep \/ HookStep
      BY <1>1 DEF RunsScript, HookStep
    <2>2. pc' = pc
      BY <2>1
      DEF ScriptStep, ScriptCall, ScriptReturn, ScriptLine, ScriptPrint, HookStep, LookupHandle,
          PushFrame, ReadReturns, WriteReturns, CountReturn, LineRuns, LinePauses, NotifyAndWait,
          Resume, ReadOutput, HandleOutputLine, clientVars
    <2> QED
      BY <1>1, <2>1, <2>2 DEF RunsScript, ThreadsUnchanged, threadVars
  <1>2. CASE HasAnnounced
    BY <1>2
    DEF HasAnnounced, NotifyAndWait, HandleOutputLine, ThreadsUnchanged, threadVars, clientVars
  <1>3. CASE AnnouncesPause \/ AnnouncesOutput
    BY <1>3
    DEF AnnouncesPause, AnnouncesOutput, DebuggerUnchanged, ThreadsUnchanged, threadVars, vars,
        clientVars
  <1> QED
    BY <1>1, <1>2, <1>3 DEF HookRuns

-----------------------------------------------------------------------------
(* The VM after the script *)

\* There is a hook only while the main thread runs the script.
StageInv == stage # "script" => vmpc = "script"

LEMMA StageStep == StageInv /\ [AppNext]_appVars => StageInv'
  <1> SUFFICES ASSUME StageInv, [AppNext]_appVars PROVE StageInv'
    OBVIOUS
  <1>1. CASE MainStep
    BY <1>1
    DEF StageInv, MainStep, Initialize, OpenVm, PauseOnStart, LoadFile, CallScript, CloseVm, Stop,
        Join, Exit, Goes, AddVm, CheckPause, RequestPause, SetPauseReturns, TakeReply,
        DebuggerUnchanged, vars
  <1>2. CASE HookRuns
    BY <1>2, HookInApp DEF StageInv, vars
  <1>3. ASSUME NEW c \in Client, ServesRequest(c) \/ Serves(c) \/ UsesDeletedController(c)
        PROVE  StageInv'
    BY <1>3, RequestIsCommand, CommandQuiet DEF StageInv, vars
  <1>4. CASE Poll \/ (\E s \in Socket : SocketGoesOn(s)) \/ (\E t \in Sender : BroadcastGoesOn(t))
    BY <1>4, OthersQuiet DEF StageInv, vars
  <1>5. CASE UNCHANGED appVars
    BY <1>5 DEF StageInv, appVars, vars, threadVars
  <1> QED
    BY <1>1, <1>2, <1>3, <1>4, <1>5 DEF AppNext

LEMMA AppStages == AppSpec => []StageInv
  <1>1. AppInit => StageInv
    BY DEF AppInit, Init, StageInv
  <1> QED
    BY <1>1, StageStep, PTL DEF AppSpec

\* Although the debugger keeps its pointer to the VM that has been closed, and
\* clients still come, no command gets to it.
THEOREM ClosedVmIsLeftAlone == AppSpec => []ClosedVmUntouched
  <1>1. Safe /\ StageInv => ClosedVmUntouched
    BY DEF Safe, PauseInv, StageInv, ClosedVmUntouched
  <1> QED
    BY <1>1, AppSafe, AppStages, PTL

-----------------------------------------------------------------------------
(* Answers *)

RequestType == [asked : {0, Expressions}, values : Nat, http : {0, 200, 400, 500}]

\* Until it is answered, a request has fewer values than it asks for, or asks
\* for none; no command of it is in progress once it is; and the main thread
\* has no requests.
AnswerInv ==
    /\ request \in [Client -> RequestType]
    /\ accepted \subseteq Client \ {Main}
    /\ \A c \in Client :
          /\ pc[c] # "idle" => request[c].http = 0
          /\ request[c].http = 0 =>
                request[c].values < request[c].asked \/ request[c] = NoRequest
          /\ c \notin accepted => request[c] = NoRequest
    /\ AnswersAreComplete

LEMMA NoRequestType == NoRequest \in RequestType /\ NoRequest.http = 0
  BY DEF NoRequest, RequestType

\* The request of one client changes, or its command moves, or neither.
LEMMA OneAnswers ==
    ASSUME AnswerInv, Safe, NEW c \in Client, NEW r \in RequestType,
           request' = [request EXCEPT ![c] = r],
           \A d \in Client : d # c => pc'[d] = pc[d],
           pc'[c] # "idle" => r.http = 0,
           r.http = 0 => r.values < r.asked \/ r = NoRequest,
           c \notin accepted => r = NoRequest,
           r.http # 0 => r.values = IF r.http = 200 THEN r.asked ELSE 0,
           accepted' = accepted
    PROVE  AnswerInv'
  <1>1. /\ request' \in [Client -> RequestType] /\ request'[c] = r
        /\ \A d \in Client : d # c => request'[d] = request[d]
    BY DEF AnswerInv
  <1> QED
    BY <1>1 DEF AnswerInv, AnswersAreComplete

LEMMA RequestUnchanged ==
    ASSUME AnswerInv, NEW c \in Client, request' = request
    PROVE  request' = [request EXCEPT ![c] = request[c]] /\ request[c] \in RequestType
  BY DEF AnswerInv

\* A command of a request that is not answered.
LEMMA OneMoves ==
    ASSUME AnswerInv, Safe, NEW c \in Client, Command(c) \/ CommandStep(c),
           request' = request, accepted' = accepted,
           Command(c) => request[c].http = 0
    PROVE  AnswerInv'
  <1>1. \A d \in Client : d # c => pc'[d] = pc[d]
    BY CommandMoves DEF Safe, TypeInv, TypeOK
  <1>2. request[c].http = 0
    BY CommandMoves DEF AnswerInv
  <1> QED
    BY <1>1, <1>2, RequestUnchanged, OneAnswers DEF AnswerInv

LEMMA CollectKeeps ==
    ASSUME AnswerInv, Safe, NEW c \in accepted, Collect(c), accepted' = accepted
    PROVE  AnswerInv'
  <1> DEFINE values == IF reply[c] = "Success" THEN request[c].values + 1 ELSE 0
             http   == IF values \in 1 .. request[c].asked - 1 THEN 0 ELSE StatusOf(reply[c])
             r      == [asked |-> request[c].asked, values |-> values, http |-> http]
  <1>1. c \in Client /\ pc[c] = "done" /\ request[c].asked > 0 /\ TakeReply(c)
    BY DEF Collect, Evaluated, AnswerInv
  <1>2. request[c] \in RequestType /\ request[c].http = 0 /\ Expressions \in Nat \ {0}
    BY <1>1, ExpressionsAssumption DEF AnswerInv
  <1>3. request[c].asked \in Nat /\ request[c].values \in Nat
        /\ request[c].values < request[c].asked
    BY <1>1, <1>2 DEF AnswerInv, RequestType, NoRequest
  <1>4. StatusOf(reply[c]) \in {200, 400, 500} /\ (StatusOf(reply[c]) = 200 <=> reply[c] = "Success")
    BY <1>1 DEF StatusOf
  <1>5. r \in RequestType
    BY <1>2, <1>3, <1>4 DEF RequestType
  <1>6. request' = [request EXCEPT ![c] = r]
    BY <1>1 DEF Collect, AnswerInv
  <1>7. /\ r.http = 0 => r.values < r.asked
        /\ r.http # 0 => r.values = IF r.http = 200 THEN r.asked ELSE 0
    <2>1. CASE reply[c] = "Success"
      BY <1>3, <1>4, <2>1
    <2>2. CASE reply[c] # "Success"
      BY <1>3, <1>4, <2>2
    <2> QED
      BY <2>1, <2>2
  <1>8. \A d \in Client : pc'[d] = IF d = c THEN "idle" ELSE pc[d]
    BY <1>1 DEF TakeReply, Safe, TypeInv, TypeOK
  <1> HIDE DEF r
  <1>9. pc'[c] = "idle" /\ \A d \in Client : d # c => pc'[d] = pc[d]
    BY <1>1, <1>8
  <1> QED
    BY <1>1, <1>5, <1>6, <1>7, <1>9, OneAnswers

LEMMA AnswerKeeps ==
    ASSUME AnswerInv, Safe, NEW c \in accepted, Answer(c), accepted' = accepted
    PROVE  AnswerInv'
  <1> DEFINE r == [asked |-> 0, values |-> 0, http |-> StatusOf(reply[c])]
  <1>1. c \in Client /\ TakeReply(c) /\ request[c] = NoRequest
    BY DEF Answer, AnswerInv
  <1>2. StatusOf(reply[c]) \in {200, 400, 500}
    BY DEF StatusOf
  <1>3. r \in RequestType
    BY <1>2 DEF RequestType
  <1>4. request' = [request EXCEPT ![c] = r]
    <2>1. request' = [request EXCEPT ![c].http = StatusOf(reply[c])]
      BY DEF Answer
    <2>2. [NoRequest EXCEPT !.http = StatusOf(reply[c])] = r
      BY DEF NoRequest
    <2> QED
      BY <1>1, <2>1, <2>2
  <1>5. \A d \in Client : pc'[d] = IF d = c THEN "idle" ELSE pc[d]
    BY <1>1 DEF TakeReply, Safe, TypeInv, TypeOK
  <1>6. r.http # 0 /\ r.values = 0 /\ r.asked = 0
    BY <1>2
  <1> HIDE DEF r
  <1> QED
    BY <1>1, <1>3, <1>4, <1>5, <1>6, OneAnswers

LEMMA ServingKeeps ==
    ASSUME AnswerInv, Safe, NEW c \in Client, ServesRequest(c) \/ Serves(c) \/ UsesDeletedController(c)
    PROVE  AnswerInv'
  <1>1. accepted' = accepted
    BY RequestIsCommand
  <1>2. ASSUME UNCHANGED <<pc, request>> PROVE AnswerInv'
    BY <1>1, <1>2 DEF AnswerInv, AnswersAreComplete
  <1>3. CASE ServesRequest(c) /\ Endpoint(c)
    <2>1. ASSUME RejectPagination(c) PROVE Command(c)
      BY <2>1 DEF RejectPagination, Command, GetImmediateValue
    <2>2. Command(c) /\ request' = request /\ request[c] = NoRequest
      BY <1>3, <2>1 DEF Endpoint, Incoming, Command
    <2> QED
      BY <1>1, <2>2, OneMoves, NoRequestType
  <1>4. CASE ServesRequest(c) /\ StackImmediate(c)
    <2> DEFINE r == [asked |-> Expressions, values |-> 0, http |-> 0]
    <2>1. /\ pc[c] = "idle" /\ pc' = pc /\ c \in accepted /\ request[c] = NoRequest
          /\ request' = [request EXCEPT ![c].asked = Expressions]
      BY <1>4
      DEF ServesRequest, StackImmediate, Incoming, Start, CoreUnchanged, vars, clientVars
    <2>2. r \in RequestType /\ r.http = 0 /\ r.values < r.asked
      BY ExpressionsAssumption DEF RequestType
    <2>3. request' = [request EXCEPT ![c] = r]
      <3>1. [NoRequest EXCEPT !.asked = Expressions] = r
        BY DEF NoRequest
      <3> QED
        BY <2>1, <3>1
    <2> HIDE DEF r
    <2> QED
      BY <1>1, <2>1, <2>2, <2>3, OneAnswers
  <1>5. CASE GoesOnServing(c) /\ Collect(c)
    BY <1>1, <1>5, CollectKeeps DEF GoesOnServing
  <1>6. CASE GoesOnServing(c) /\ Answer(c)
    BY <1>1, <1>6, AnswerKeeps DEF GoesOnServing
  <1>7. CASE GoesOnServing(c) /\ Respond(c)
    <2>1. /\ request' = [request EXCEPT ![c] = NoRequest] /\ pc' = pc /\ request[c].http # 0
      BY <1>7 DEF Respond, CoreUnchanged, vars, clientVars
    <2>2. NoRequest.http = 0 /\ NoRequest \in RequestType
      BY NoRequestType
    <2> QED
      BY <1>1, <2>1, <2>2, OneAnswers
  <1>8. CASE GoesOnServing(c) /\ Evaluate(c)
    <2>1. Command(c) /\ request' = request /\ request[c].http = 0
      BY <1>8 DEF Evaluate, Command
    <2> QED
      BY <1>1, <2>1, OneMoves
  <1>9. CASE /\ request' = request
             /\ \/ RequestPause(c) \/ SetPauseReturns(c) \/ ReleaseScript(c) \/ EndInspection(c)
                \/ DeliverStatus(c)
    <2>1. CommandStep(c)
      BY <1>9 DEF CommandStep
    <2>2. ~Command(c)
      BY <2>1, CommandMoves
    <2> QED
      BY <1>1, <1>9, <2>1, <2>2, OneMoves
  <1>10. CASE HasAnnouncedStatus(c)
    BY <1>9, <1>10 DEF HasAnnouncedStatus
  <1>11. CASE AnnouncesStatus(c) \/ UsesDeletedController(c)
    BY <1>2, <1>11
    DEF AnnouncesStatus, UsesDeletedController, DebuggerUnchanged, vars, clientVars
  <1> QED
    BY <1>3, <1>4, <1>5, <1>6, <1>7, <1>8, <1>9, <1>10, <1>11
    DEF Serves, ServesRequest, GoesOnServing, RequestStep

LEMMA AnswerStep == AnswerInv /\ Safe /\ [AppNext]_appVars => AnswerInv'
  <1> SUFFICES ASSUME AnswerInv, Safe, [AppNext]_appVars PROVE AnswerInv'
    OBVIOUS
  <1>1. ASSUME UNCHANGED <<pc, request, accepted>> PROVE AnswerInv'
    BY <1>1 DEF AnswerInv, AnswersAreComplete
  <1>2. CASE PauseOnStart
    <2>1. /\ Command(Main) \/ CommandStep(Main)
          /\ request' = request /\ accepted' = accepted
      BY <1>2 DEF PauseOnStart, Goes, Command, CommandStep
    <2>2. Main \in Client /\ request[Main] = NoRequest
      BY MainAssumption DEF AnswerInv
    <2> QED
      BY <2>1, <2>2, OneMoves, NoRequestType
  <1>3. CASE MainStep /\ ~PauseOnStart
    <2>1. UNCHANGED <<pc, request, accepted>>
      BY <1>3
      DEF MainStep, Initialize, OpenVm, LoadFile, CallScript, CloseVm, Stop, Join, Exit, Goes,
          AddVm, ScriptCall, DebuggerUnchanged, vars, clientVars
    <2> QED
      BY <1>1, <2>1
  <1>4. CASE HookRuns
    BY <1>1, <1>4, HookInApp
  <1>5. CASE \E c \in Client : ServesRequest(c) \/ Serves(c) \/ UsesDeletedController(c)
    BY <1>5, ServingKeeps
  <1>6. CASE Poll \/ (\E s \in Socket : SocketGoesOn(s)) \/ (\E t \in Sender : BroadcastGoesOn(t))
    BY <1>6, OthersQuiet DEF AnswerInv, AnswersAreComplete, vars, clientVars
  <1>7. CASE UNCHANGED appVars
    BY <1>1, <1>7 DEF appVars, vars, clientVars, threadVars
  <1> QED
    BY <1>2, <1>3, <1>4, <1>5, <1>6, <1>7 DEF AppNext

LEMMA AppAnswers == AppSpec => []AnswerInv
  <1>1. AppInit => AnswerInv
    BY NoRequestType DEF AppInit, ControllerInit, AnswerInv, AnswersAreComplete
  <1> QED
    BY <1>1, AnswerStep, AppSafe, PTL DEF AppSpec

\* An answer of success holds one value per expression of the request and any
\* other none, however many a request has, and whatever becomes of the script
\* between them.
THEOREM AnswersComplete == AppSpec => []AnswersAreComplete
  BY AppAnswers, PTL DEF AnswerInv

-----------------------------------------------------------------------------
(* The pause before the first line *)

BeforeScript == {"initialize", "opening", "pausing", "loading", "calling"}

\* The first call of a script finds no frame and no cached handle, so that its
\* hook asks for the mutex; a pause has a status.
StartInv ==
    /\ stage \in BeforeScript => frames = <<>> /\ DOMAIN fileNameHandles = {}
    /\ stage \in {"pausing", "loading", "calling", "script"} => attached
    /\ stage \in {"initialize", "opening"} => pc[Main] = "idle"
    /\ pc[Main] # "delivering"
    /\ vmpc = "line" => frames # <<>>
    /\ isPaused => status.stack # <<>>

\* The main thread has requested its pause, or found one requested.
Armed == \/ stage \in {"loading", "calling", "script"}
         \/ stage = "pausing" /\ pc[Main] = "done"

\* The script is to stop at any depth, or will be before its first call is
\* announced: a client that is setting that holds the mutex.
WillStop ==
    returnsRequired < 0 \/ (PauseHalfMade /\ (stage = "script" => vmpc = "lookup"))

FirstLineInv ==
    status.stack = <<>> =>
        /\ stage \in BeforeScript /\ pauseRequested # "None"
              => returnsRequired < 0 \/ PauseHalfMade
        /\ breakOnStart /\ Armed => vmpc # "writeReturns" /\ WillStop

StopInv == StartInv /\ FirstLineInv

LEMMA StopInit == AppInit => StopInv
  <1> SUFFICES ASSUME AppInit PROVE StopInv
    OBVIOUS
  <1>1. DOMAIN EmptyTable = {}
    BY DEF EmptyTable
  <1>2. /\ stage = "initialize" /\ frames = <<>> /\ fileNameHandles = EmptyTable
        /\ pc[Main] = "idle" /\ vmpc = "script" /\ ~isPaused /\ pauseRequested = "None"
    BY MainAssumption DEF AppInit, Init
  <1> QED
    BY <1>1, <1>2 DEF StopInv, StartInv, FirstLineInv, Armed

\* What the invariant is about stays.
LEMMA SameStop ==
    ASSUME StopInv, UNCHANGED <<vars, stage, breakOnStart>>
    PROVE  StopInv'
  BY DEF StopInv, StartInv, FirstLineInv, Armed, WillStop, PauseHalfMade, vars, pauseData, vmData,
         clientVars

LEMMA PauseHasStack ==
    ASSUME StartInv, Safe, LinePauses
    PROVE  status'.stack # <<>>
  <1>1. frames \in Seq(StackEntry) /\ frames # <<>>
    BY DEF LinePauses, StartInv, Safe, TypeInv, TypeOK
  <1>2. Len(Reverse(frames)) = Len(frames)
    BY <1>1 DEF Reverse
  <1>3. Reverse(frames) # <<>>
    BY <1>1, <1>2
  <1> QED
    BY <1>3 DEF LinePauses

\* The hook gives the script its first status, or leaves the pause as it is.
LEMMA HookKeepsStop ==
    ASSUME StopInv, Safe, StageInv, HookRuns
    PROVE  StopInv'
  <1>1. UNCHANGED <<stage, breakOnStart, pc>> /\ PauseHalfMade' = PauseHalfMade
    BY HookInApp DEF PauseHalfMade
  <1>2. CASE UNCHANGED vars
    BY <1>1, <1>2, SameStop
  <1>3. CASE ~UNCHANGED vars
    <2>1. stage = "script" /\ attached /\ (ScriptStep \/ HookStep)
      BY <1>3, HookInApp DEF StageInv, StopInv, StartInv, HookStep
    <2>2. attached' = attached
      BY <2>1
      DEF ScriptStep, ScriptCall, ScriptReturn, ScriptLine, ScriptPrint, HookStep, LookupHandle,
          PushFrame, ReadReturns, WriteReturns, CountReturn, LineRuns, LinePauses, NotifyAndWait,
          Resume, ReadOutput, HandleOutputLine, vmData
    <2>3. vmpc' = "line" => frames' # <<>>
      <3>1. ASSUME NEW line \in Line, ScriptLine(line) PROVE frames' # <<>>
        <4>1. frames \in Seq(StackEntry) /\ frames # <<>> /\ frames' = WithTopLine(frames, line)
          BY <3>1 DEF ScriptLine, Safe, TypeInv, TypeOK
        <4> QED
          BY <4>1 DEF WithTopLine
      <3> QED
        BY <2>1, <3>1
        DEF ScriptStep, ScriptCall, ScriptReturn, ScriptPrint, HookStep, LookupHandle, PushFrame,
            ReadReturns, WriteReturns, CountReturn, LineRuns, LinePauses, NotifyAndWait, Resume,
            ReadOutput, HandleOutputLine
    <2>4. LinePauses => status'.stack # <<>>
      BY PauseHasStack DEF StopInv
    <2>5. status' = status \/ status'.stack # <<>>
      BY <2>1, <2>4
      DEF ScriptStep, ScriptCall, ScriptReturn, ScriptLine, ScriptPrint, HookStep, LookupHandle,
          PushFrame, ReadReturns, WriteReturns, CountReturn, LineRuns, NotifyAndWait, Resume,
          ReadOutput, HandleOutputLine, pauseData
    <2>6. isPaused' => status'.stack # <<>>
      BY <2>1, <2>4, <2>5
      DEF ScriptStep, ScriptCall, ScriptReturn, ScriptLine, ScriptPrint, HookStep, LookupHandle,
          PushFrame, ReadReturns, WriteReturns, CountReturn, LineRuns, NotifyAndWait, Resume,
          ReadOutput, HandleOutputLine, pauseData, StopInv, StartInv
    <2>7. StartInv'
      BY <1>1, <2>1, <2>2, <2>3, <2>6 DEF StopInv, StartInv, BeforeScript
    <2>8. ASSUME breakOnStart, status'.stack = <<>>
          PROVE  vmpc' # "writeReturns" /\ WillStop'
      <3>1. status = status' /\ vmpc # "writeReturns" /\ WillStop /\ returnsRequired \in Int
        BY <2>1, <2>5, <2>8 DEF StopInv, FirstLineInv, Armed, Safe, TypeInv, TypeOK
      <3>2. CASE PauseHalfMade /\ vmpc = "lookup"
        <4>1. ~Free
          BY <3>2, NobodyPausing DEF PauseHalfMade
        <4> QED
          BY <2>1, <3>2, <4>1
          DEF ScriptStep, ScriptCall, ScriptReturn, ScriptLine, ScriptPrint, HookStep,
              LookupHandle, PushFrame, ReadReturns, WriteReturns, CountReturn, LineRuns,
              LinePauses, NotifyAndWait, Resume, ReadOutput, HandleOutputLine
      <3>3. CASE returnsRequired < 0
        <4>1. vmpc' # "writeReturns"
          <5>1. CASE ReadReturns
            BY <3>1, <3>3, <5>1 DEF ReadReturns
          <5>2. CASE ~ReadReturns
            BY <2>1, <5>2
            DEF ScriptStep, ScriptCall, ScriptReturn, ScriptLine, ScriptPrint, HookStep,
                LookupHandle, PushFrame, WriteReturns, CountReturn, LineRuns, LinePauses,
                NotifyAndWait, Resume, ReadOutput, HandleOutputLine
          <5> QED
            BY <5>1, <5>2
        <4>2. CASE LinePauses
          BY <2>4, <2>8, <4>2
        <4>3. CASE CountReturn
          BY <3>1, <3>3, <4>3 DEF CountReturn, WillStop
        <4>4. CASE ~LinePauses /\ ~CountReturn
          <5>1. ~WriteReturns
            BY <3>1 DEF WriteReturns
          <5>2. ScriptStep => returnsRequired' = returnsRequired
            BY DEF ScriptStep, ScriptCall, ScriptReturn, ScriptLine, ScriptPrint, pauseData
          <5>3. HookStep => returnsRequired' = returnsRequired
            BY <4>4, <5>1
            DEF HookStep, LookupHandle, PushFrame, ReadReturns, LineRuns, NotifyAndWait, Resume,
                ReadOutput, HandleOutputLine, pauseData
          <5> QED
            BY <2>1, <3>3, <4>1, <5>2, <5>3 DEF WillStop
        <4> QED
          BY <4>1, <4>2, <4>3, <4>4
      <3> QED
        BY <2>1, <3>1, <3>2, <3>3 DEF WillStop
    <2> QED
      BY <1>1, <2>1, <2>7, <2>8 DEF StopInv, FirstLineInv, BeforeScript
  <1> QED
    BY <1>2, <1>3

\* Commands make a pause come about, or withdraw it; a step needs a status.
LEMMA CommandKeepsStop ==
    ASSUME StopInv, Safe, StageInv, NEW c \in Client, Command(c) \/ CommandStep(c),
           c = Main => stage \notin {"initialize", "opening"} /\ pc'[c] # "delivering",
           c = Main /\ stage = "pausing" /\ pc'[c] = "done"
              => pauseRequested # "None" \/ SetPauseReturns(c),
           UNCHANGED <<stage, breakOnStart>>
    PROVE  StopInv'
  <1>1. /\ UNCHANGED <<status, frames, attached, fileNameHandles, isPaused>>
        /\ vmpc' = vmpc \/ (vmpc = "waiting" /\ vmpc' = "woken")
        /\ \A d \in Client : d # c => pc'[d] = pc[d]
    <2>1. isPaused' = isPaused
      BY DEF Command, CheckPause, CheckContinue, StepOut, StepOver, StepIn, Step,
             GetStackVariables, SetStackVariableValue, GetGlobalVariables, GetImmediateValue,
             Inspect, CopyStatus, SetFileBreakpoints, CommandStep, RequestPause,
             SetPauseReturns, ReleaseScript, EndInspection, DeliverStatus, TakeReply, pauseData
    <2> QED
      BY <2>1, CommandQuiet, CommandMoves DEF ScriptUnchanged, vmData, Safe, TypeInv, TypeOK
  <1>2. StartInv'
    BY <1>1, MainAssumption DEF StopInv, StartInv, BeforeScript
  <1>3. SUFFICES ASSUME status.stack = <<>>
                 PROVE  /\ stage \in BeforeScript /\ pauseRequested' # "None"
                              => returnsRequired' < 0 \/ PauseHalfMade'
                        /\ breakOnStart /\ Armed' => vmpc' # "writeReturns" /\ WillStop'
    BY <1>1, <1>2 DEF StopInv, FirstLineInv
  <1>4. ~isPaused /\ vmpc' = vmpc
    BY <1>1, <1>3 DEF StopInv, StartInv, Safe, PauseInv
  <1>5. /\ stage \in BeforeScript /\ pauseRequested # "None"
              => returnsRequired < 0 \/ PauseHalfMade
        /\ breakOnStart /\ Armed => vmpc # "writeReturns" /\ WillStop
        /\ stage # "script" => vmpc # "writeReturns"
    BY <1>3 DEF StopInv, FirstLineInv, StageInv
  <1>6. Armed' => Armed \/ (stage = "pausing" /\ (pauseRequested # "None" \/ SetPauseReturns(c)))
    BY <1>1, MainAssumption DEF Armed
  <1>7. CASE SetPauseReturns(c)
    <2>1. returnsRequired' < 0
      BY <1>7 DEF SetPauseReturns
    <2> QED
      BY <1>4, <1>5, <1>6, <2>1 DEF WillStop
  <1>8. CASE ~SetPauseReturns(c) /\ Free
    <2>1. ~PauseHalfMade
      BY <1>8, NobodyPausing DEF PauseHalfMade
    <2>2. Armed' /\ breakOnStart => returnsRequired < 0 /\ vmpc # "writeReturns"
      BY <1>5, <1>6, <1>8, <2>1 DEF WillStop, BeforeScript
    <2>3. returnsRequired' = returnsRequired
      BY <1>4, <1>8, ClientSteps DEF Discreet, RequestPause, ReleaseScript
    <2>4. pauseRequested' = "None" \/ pauseRequested' = pauseRequested \/ PauseHalfMade'
      <3>1. RequestPause(c) => pc'[c] = "pausing" \/ pauseRequested' = pauseRequested
        BY DEF RequestPause, GoTo, Safe, TypeInv, TypeOK
      <3> QED
        BY <1>4, <1>8, <3>1, ClientSteps DEF Discreet, ReleaseScript, PauseHalfMade
    <2> QED
      BY <1>4, <1>5, <2>1, <2>2, <2>3, <2>4 DEF WillStop
  <1>9. CASE ~SetPauseReturns(c) /\ ~Free
    <2>1. Discreet
      BY <1>4, <1>9, ClientSteps DEF RequestPause, ReleaseScript
    <2>2. PauseHalfMade' = PauseHalfMade /\ UNCHANGED <<pauseRequested, returnsRequired>>
      BY <2>1 DEF Discreet, PauseHalfMade
    <2> QED
      BY <1>4, <1>5, <1>6, <1>9, <2>2 DEF WillStop, BeforeScript
  <1> QED
    BY <1>7, <1>8, <1>9

\* The main thread begins the script when it has taken the answer to its pause.
LEMMA MainKeepsStop ==
    ASSUME StopInv, Safe, StageInv, MainStep
    PROVE  StopInv'
  <1>1. breakOnStart' = breakOnStart
    BY DEF MainStep, Initialize, OpenVm, PauseOnStart, LoadFile, CallScript, CloseVm, Stop, Join,
           Exit, Goes
  <1>2. ASSUME UNCHANGED vars, stage' = "opening" => stage = "initialize",
               stage' \in {"loading", "calling"} => stage = "loading",
               stage' \notin {"initialize", "pausing", "script"}
        PROVE  StopInv'
    BY <1>1, <1>2
    DEF StopInv, StartInv, FirstLineInv, Armed, WillStop, PauseHalfMade, BeforeScript, vars,
        pauseData, vmData, clientVars
  <1>3. CASE Initialize \/ LoadFile \/ CloseVm \/ Stop \/ Join \/ Exit
    BY <1>2, <1>3
    DEF Initialize, LoadFile, CloseVm, Stop, Join, Exit, Goes, DebuggerUnchanged
  <1>4. CASE OpenVm
    <2>1. /\ stage = "opening" /\ stage' = IF breakOnStart THEN "pausing" ELSE "loading"
          /\ attached' /\ UNCHANGED <<pauseRequested, isPaused, returnsRequired, status, frames,
                                      fileNameHandles, vmpc, pc>>
      BY <1>4 DEF OpenVm, Goes, AddVm, pauseData, clientVars
    <2>2. PauseHalfMade' = PauseHalfMade
      BY <2>1 DEF PauseHalfMade
    <2> QED
      BY <1>1, <2>1, <2>2 DEF StopInv, StartInv, FirstLineInv, Armed, BeforeScript
  <1>5. CASE PauseOnStart
    <2>1. stage = "pausing" /\ Main \in Client
      BY <1>5, MainAssumption DEF PauseOnStart, Goes
    <2>2. CASE stage' = "pausing"
      <3>1. CheckPause(Main) \/ RequestPause(Main) \/ SetPauseReturns(Main)
        BY <1>5, <2>2 DEF PauseOnStart, Goes
      <3>2. /\ pc'[Main] = "done" => pauseRequested # "None" \/ SetPauseReturns(Main)
            /\ pc'[Main] # "delivering"
        BY <2>1, <3>1
        DEF CheckPause, RequestPause, SetPauseReturns, GoTo, Done, Safe, TypeInv, TypeOK
      <3> QED
        BY <1>1, <2>1, <2>2, <3>1, <3>2, CommandKeepsStop DEF Command, CommandStep
    <2>3. CASE stage' = "loading"
      <3>1. TakeReply(Main) /\ pc[Main] = "done"
        BY <1>5, <2>3 DEF PauseOnStart, Goes, TakeReply
      <3>2. Armed
        BY <2>1, <3>1 DEF Armed
      <3>3. /\ UNCHANGED <<pauseRequested, isPaused, returnsRequired, status, frames, attached,
                           fileNameHandles, vmpc>>
            /\ PauseHalfMade' = PauseHalfMade /\ pc'[Main] = "idle"
        BY <2>1, <3>1
        DEF TakeReply, ScriptUnchanged, vmData, pauseData, PauseHalfMade, Safe, TypeInv, TypeOK
      <3> QED
        BY <1>1, <2>1, <2>3, <3>2, <3>3
        DEF StopInv, StartInv, FirstLineInv, Armed, WillStop, BeforeScript
    <2> QED
      BY <1>5, <2>2, <2>3 DEF PauseOnStart, Goes
  <1>6. CASE CallScript
    <2>1. PICK file \in ScriptFile, line \in Line : ScriptCall(file, line)
      BY <1>6 DEF CallScript
    <2>2. /\ stage = "calling" /\ stage' = "script" /\ attached
          /\ DOMAIN fileNameHandles = {}
      BY <1>6 DEF CallScript, Goes, StopInv, StartInv, BeforeScript
    <2>3. /\ vmpc' = "lookup"
          /\ UNCHANGED <<attached, pauseRequested, isPaused, returnsRequired, status, pc>>
      BY <2>1, <2>2 DEF ScriptCall, vmData, pauseData, clientVars
    <2>4. PauseHalfMade' = PauseHalfMade
      BY <2>3 DEF PauseHalfMade
    <2> QED
      BY <1>1, <2>2, <2>3, <2>4
      DEF StopInv, StartInv, FirstLineInv, Armed, WillStop, BeforeScript
  <1> QED
    BY <1>3, <1>4, <1>5, <1>6 DEF MainStep

LEMMA StopStep == StopInv /\ AnswerInv /\ Safe /\ StageInv /\ [AppNext]_appVars => StopInv'
  <1> SUFFICES ASSUME StopInv, AnswerInv, Safe, StageInv, [AppNext]_appVars PROVE StopInv'
    OBVIOUS
  <1>1. CASE MainStep
    BY <1>1, MainKeepsStop
  <1>2. CASE HookRuns
    BY <1>2, HookKeepsStop
  <1>3. ASSUME NEW c \in Client, ServesRequest(c) \/ Serves(c) \/ UsesDeletedController(c)
        PROVE  StopInv'
    <2>1. CASE UNCHANGED vars /\ ~UsesDeletedController(c)
      <3>1. stage' = stage
        BY <1>3, <2>1
        DEF ServesRequest, Serves, GoesOnServing, AnnouncesStatus, HasAnnouncedStatus,
            ThreadsUnchanged, threadVars
      <3> QED
        BY <1>3, <2>1, <3>1, RequestIsCommand, SameStop
    <2>2. CASE UsesDeletedController(c)
      BY <2>2
      DEF UsesDeletedController, DebuggerUnchanged, StopInv, StartInv, FirstLineInv, Armed,
          BeforeScript, vars, pauseData, vmData, clientVars
    <2>3. CASE ~UNCHANGED vars /\ ~UsesDeletedController(c)
      <3>1. c \in accepted \/ HasAnnouncedStatus(c)
        BY <1>3, <2>3 DEF ServesRequest, Serves, GoesOnServing, AnnouncesStatus, DebuggerUnchanged
      <3>2. HasAnnouncedStatus(c) => pc[c] = "delivering"
        BY DEF HasAnnouncedStatus, DeliverStatus
      <3>3. c # Main
        BY <3>1, <3>2 DEF AnswerInv, StopInv, StartInv
      <3>4. stage' = stage
        BY <1>3, <2>3
        DEF ServesRequest, Serves, GoesOnServing, AnnouncesStatus, HasAnnouncedStatus,
            ThreadsUnchanged, threadVars
      <3>5. (Command(c) \/ CommandStep(c)) /\ breakOnStart' = breakOnStart
        BY <1>3, <2>3, RequestIsCommand
      <3> QED
        BY <3>3, <3>4, <3>5, CommandKeepsStop
    <2> QED
      BY <2>1, <2>2, <2>3
  <1>4. CASE Poll \/ (\E s \in Socket : SocketGoesOn(s)) \/ (\E t \in Sender : BroadcastGoesOn(t))
    BY <1>4, OthersQuiet, SameStop
  <1>5. CASE UNCHANGED appVars
    BY <1>5, SameStop DEF appVars, threadVars
  <1> QED
    BY <1>1, <1>2, <1>3, <1>4, <1>5 DEF AppNext

LEMMA AppStops == AppSpec => []StopInv
  BY StopInit, StopStep, AppAnswers, AppSafe, AppStages, PTL DEF AppSpec

\* "If set, the script will pause execution on the first line": whatever
\* clients ask for while the VM is being set up, unless one of them has the
\* script continue, its first line does not run before it has been paused.
THEOREM StopOnStartStops == AppSpec => StopsOnFirstLine
  <1> DEFINE Goal == (breakOnStart /\ status.stack = <<>> /\ vmpc = "line" /\ vmpc' = "script")
                        => pauseRequested = "None"
  <1>1. ASSUME StopInv, Safe, StageInv, [AppNext]_appVars, breakOnStart, status.stack = <<>>,
               vmpc = "line", vmpc' = "script"
        PROVE  pauseRequested = "None"
    <2>1. stage = "script" /\ returnsRequired < 0 /\ returnsRequired \in Int
      BY <1>1 DEF StageInv, StopInv, FirstLineInv, Armed, WillStop, Safe, TypeInv, TypeOK
    <2>2. HookRuns
      <3>1. CASE MainStep
        BY <1>1, <2>1, <3>1
        DEF MainStep, Initialize, OpenVm, PauseOnStart, LoadFile, CallScript, CloseVm, Stop,
            Join, Exit, Goes
      <3>2. ASSUME NEW c \in Client, ServesRequest(c) \/ Serves(c) \/ UsesDeletedController(c)
            PROVE  FALSE
        BY <1>1, <3>2, RequestIsCommand, CommandQuiet DEF vars
      <3>3. CASE \/ Poll \/ (\E s \in Socket : SocketGoesOn(s))
                 \/ (\E t \in Sender : BroadcastGoesOn(t))
        BY <1>1, <3>3, OthersQuiet DEF vars
      <3> QED
        BY <1>1, <3>1, <3>2, <3>3 DEF AppNext, appVars, vars
    <2>3. ScriptStep \/ HookStep
      BY <1>1, <2>2, HookInApp DEF HookStep, vars
    <2>4. LineRuns
      BY <1>1, <2>3
      DEF ScriptStep, ScriptCall, ScriptReturn, ScriptLine, ScriptPrint, HookStep, LookupHandle,
          PushFrame, ReadReturns, WriteReturns, CountReturn, LinePauses, NotifyAndWait, Resume,
          ReadOutput, HandleOutputLine
    <2> QED
      BY <2>1, <2>4 DEF LineRuns, Stops
  <1>2. StopInv /\ Safe /\ StageInv /\ [AppNext]_appVars => [Goal]_appVars
    BY <1>1
  <1> QED
    BY <1>2, AppStops, AppSafe, AppStages, PTL DEF AppSpec, StopsOnFirstLine

-----------------------------------------------------------------------------
(* What subscribers hear of a stop *)

Hears(s) == socketpc[s] = "listening" /\ told[s] # <<>> => Last(told[s]) = "Paused"

\* A client has a status broadcast only while its command delivers the one it
\* has copied; the script has its pause or a line of output broadcast.
TellsInv ==
    /\ \A c \in Client : cursor[c] # Idle => pc[c] = "delivering" /\ cursor[c].event = snapshot[c]
    /\ cursor["vm"] # Idle =>
          vmpc = "sending" \/ (vmpc = "notify" /\ cursor["vm"].event = "Paused")

\* No other status is on its way while the script is stopped, or about to
\* tell that it is: none was before, and who copies one now copies this.
OnlyPaused ==
    vmpc \in {"notify", "waiting"} /\ ~overtaken =>
        \A c \in Client : pc[c] = "delivering" => snapshot[c] = "Paused"

\* The broadcast of a pause has been heard wherever it has been: the script
\* waits only when that is everywhere.
HeardInv ==
    ~overtaken =>
        /\ vmpc = "notify" /\ cursor["vm"] # Idle =>
              \A i \in DOMAIN connections : i < cursor["vm"].next => Hears(connections[i])
        /\ vmpc = "waiting" => \A s \in Socket : Hears(s)

HearInv == TellsInv /\ OnlyPaused /\ HeardInv

LEMMA VmIsNoClient == "vm" \notin Client /\ "vm" \in Sender /\ Client \subseteq Sender
  BY ThreadAssumption, BroadcastAssumption

\* The debugger moves, nobody is told anything, and no status that is on its
\* way changes.
LEMMA QuietHears ==
    ASSUME HearInv, UNCHANGED listenerVars,
           \A c \in Client : pc[c] = "delivering" =>
                                pc'[c] = "delivering" /\ snapshot'[c] = snapshot[c],
           \/ vmpc' = vmpc /\ overtaken' = overtaken
           \/ vmpc \notin {"notify", "sending"} /\ vmpc' # "waiting",
           OnlyPaused'
    PROVE  HearInv'
  <1>1. UNCHANGED <<connections, socketpc, told, cursor>>
    BY DEF listenerVars
  <1>2. TellsInv'
    BY <1>1 DEF HearInv, TellsInv
  <1>3. HeardInv'
    BY <1>1 DEF HearInv, TellsInv, HeardInv, Hears
  <1> QED
    BY <1>2, <1>3 DEF HearInv

\* A command that does not deliver a status, and may copy one.
LEMMA CommandHears ==
    ASSUME HearInv, Safe, NEW c \in Client, Command(c) \/ CommandStep(c), pc[c] # "delivering",
           UNCHANGED listenerVars, overtaken' = overtaken
    PROVE  HearInv'
  <1>1. pc \in [Client -> ClientPC] /\ snapshot \in [Client -> RunState]
    BY DEF Safe, TypeInv, TypeOK
  <1>2. vmpc' = vmpc \/ (vmpc = "waiting" /\ vmpc' = "woken")
    BY CommandQuiet
  <1>3. CASE CopyStatus(c)
    <2>1. /\ Free /\ vmpc' = vmpc /\ pc' = [pc EXCEPT ![c] = "delivering"]
          /\ snapshot' = [snapshot EXCEPT ![c] = CurrentRunState]
      BY <1>3 DEF CopyStatus
    <2>2. pc'[c] = "delivering" /\ snapshot'[c] = CurrentRunState
      BY <1>1, <2>1
    <2>3. \A d \in Client : d # c => pc'[d] = pc[d] /\ snapshot'[d] = snapshot[d]
      BY <1>1, <2>1
    <2>4. vmpc # "notify"
      BY <2>1 DEF Safe, MutexInv, Free
    <2>5. vmpc = "waiting" => CurrentRunState = "Paused"
      BY DEF Safe, PauseInv, CurrentRunState
    <2>6. OnlyPaused'
      BY <2>1, <2>2, <2>3, <2>4, <2>5 DEF HearInv, OnlyPaused
    <2> QED
      BY <2>1, <2>3, <2>6, QuietHears
  <1>4. CASE ~CopyStatus(c)
    <2>1. /\ \A d \in Client : d # c => pc'[d] = pc[d]
          /\ pc'[c] # "delivering"
      BY <1>1, <1>4
      DEF Command, CheckPause, CheckContinue, StepOut, StepOver, StepIn, Step,
          GetStackVariables, SetStackVariableValue, GetGlobalVariables, GetImmediateValue,
          Inspect, SetFileBreakpoints, CommandStep, RequestPause, SetPauseReturns,
          ReleaseScript, EndInspection, DeliverStatus, TakeReply, Start, GoTo, Done
    <2>2. snapshot' = snapshot
      BY <1>4
      DEF Command, CheckPause, CheckContinue, StepOut, StepOver, StepIn, Step,
          GetStackVariables, SetStackVariableValue, GetGlobalVariables, GetImmediateValue,
          Inspect, SetFileBreakpoints, CommandStep, RequestPause, SetPauseReturns,
          ReleaseScript, EndInspection, DeliverStatus, TakeReply, Start, GoTo, Done
    <2>3. OnlyPaused'
      BY <1>2, <2>1, <2>2 DEF HearInv, OnlyPaused
    <2> QED
      BY <1>2, <2>1, <2>2, <2>3, QuietHears
  <1> QED
    BY <1>3, <1>4

LEMMA MainHears ==
    ASSUME HearInv, Safe, MainStep
    PROVE  HearInv'
  <1>1. UNCHANGED listenerVars /\ overtaken' = overtaken
    BY DEF MainStep, Initialize, OpenVm, PauseOnStart, LoadFile, CallScript, CloseVm, Stop, Join,
           Exit, Goes, Quietly, ListenerUnchanged
  <1>2. CASE PauseOnStart
    <2>1. /\ Main \in Client /\ pc[Main] # "delivering"
          /\ Command(Main) \/ CommandStep(Main)
      BY <1>2, MainAssumption
      DEF PauseOnStart, Command, CommandStep, CheckPause, Start, RequestPause, SetPauseReturns,
          TakeReply
    <2> QED
      BY <1>1, <2>1, CommandHears
  <1>3. CASE CallScript
    <2>1. vmpc \notin {"notify", "sending"} /\ vmpc' \notin {"notify", "waiting"}
          /\ UNCHANGED <<pc, snapshot>>
      BY <1>3 DEF CallScript, ScriptCall, clientVars
    <2> QED
      BY <1>1, <2>1, QuietHears DEF OnlyPaused
  <1>4. CASE OpenVm \/ Initialize \/ LoadFile \/ CloseVm \/ Stop \/ Join \/ Exit
    <2>1. UNCHANGED <<pc, snapshot, vmpc>>
      BY <1>4
      DEF OpenVm, AddVm, Initialize, LoadFile, CloseVm, Stop, Join, Exit, DebuggerUnchanged, vars,
          clientVars
    <2> QED
      BY <1>1, <2>1, QuietHears DEF HearInv, OnlyPaused
  <1> QED
    BY <1>2, <1>3, <1>4 DEF MainStep

\* When the script stops, it looks whether a status is on its way.
LEMMA ScriptHears ==
    ASSUME HearInv, Safe, RunsScript
    PROVE  HearInv'
  <1>1. UNCHANGED listenerVars
    BY DEF RunsScript, ListenerUnchanged
  <1>2. UNCHANGED <<pc, snapshot>> /\ vmpc \notin {"notify", "sending"} /\ vmpc' # "waiting"
        /\ (vmpc' = "notify" => vmpc = "line")
    BY DEF RunsScript, ScriptStep, ScriptCall, ScriptReturn, ScriptLine, ScriptPrint, LookupHandle,
           PushFrame, ReadReturns, WriteReturns, CountReturn, LineRuns, LinePauses, Resume,
           ReadOutput, clientVars
  <1>3. vmpc = "line" => overtaken' = (vmpc' = "notify" /\ Overtakes)
    BY DEF RunsScript
  <1>4. OnlyPaused'
    BY <1>2, <1>3 DEF OnlyPaused, Overtakes
  <1> QED
    BY <1>1, <1>2, <1>4, QuietHears

LEMMA RequestHears ==
    ASSUME HearInv, Safe, NEW c \in Client,
           ServesRequest(c) \/ GoesOnServing(c) \/ UsesDeletedController(c)
    PROVE  HearInv'
  <1>1. UNCHANGED listenerVars /\ overtaken' = overtaken
    BY DEF ServesRequest, GoesOnServing, UsesDeletedController, ListenerUnchanged
  <1>2. CASE UNCHANGED vars
    <2>1. UNCHANGED <<pc, snapshot, vmpc>>
      BY <1>2 DEF vars, clientVars
    <2> QED
      BY <1>1, <2>1, QuietHears DEF HearInv, OnlyPaused
  <1>3. CASE Command(c) \/ CommandStep(c)
    <2>1. GoesOnServing(c) => pc[c] # "delivering" \/ UNCHANGED vars
      BY DEF GoesOnServing, RequestStep, Evaluate, Evaluated, Collect, Answer, Respond,
             CoreUnchanged, RequestPause, SetPauseReturns, ReleaseScript, EndInspection, TakeReply,
             GetImmediateValue, Inspect, Start
    <2>2. ServesRequest(c) \/ UsesDeletedController(c) => pc[c] # "delivering" \/ UNCHANGED vars
      BY CommandMoves
      DEF ServesRequest, Endpoint, StackImmediate, UsesDeletedController, RejectPagination,
          CoreUnchanged, Command, GetImmediateValue, DebuggerUnchanged
    <2> QED
      BY <1>1, <1>2, <1>3, <2>1, <2>2, CommandHears
  <1> QED
    BY <1>2, <1>3, RequestIsCommand DEF Serves

-----------------------------------------------------------------------------

\* A websocket comes or goes, while nobody is told anything.
LEMMA SocketHears ==
    ASSUME ~ConnectionsRace, HearInv, ListenerInv, ToldInv, NEW s \in Socket, SocketGoesOn(s)
    PROVE  HearInv'
  <1>1. Connect(s) \/ Leave(s) \/ SocketStep(s) \/ Read(s)
    BY DEF SocketGoesOn
  <1>2. UNCHANGED <<pc, snapshot, vmpc, overtaken>>
    BY DEF SocketGoesOn, DebuggerUnchanged, vars, clientVars
  <1>3. /\ cursor' = cursor
        /\ connections' = connections \/ cursor["vm"] = Idle
        /\ \A r \in Socket : socketpc'[r] = "listening" =>
              \/ socketpc[r] = "listening" /\ told'[r] = told[r]
              \/ socketpc[r] = "created" /\ told'[r] = <<>>
    BY <1>1, SocketTells, VmIsNoClient
  <1>4. \A r \in Socket : Hears(r) => Hears(r)'
    BY <1>3 DEF Hears
  <1>5. connections \in Seq(Socket)
    BY DEF ListenerInv, ListenerTypes
  <1>6. HeardInv'
    BY <1>2, <1>3, <1>4, <1>5 DEF HearInv, HeardInv
  <1> QED
    BY <1>2, <1>3, <1>6 DEF HearInv, TellsInv, OnlyPaused

\* One cursor moves, and nobody is told anything.
LEMMA CursorHears ==
    ASSUME HearInv, ListenerInv, NEW t \in Sender, NEW loop,
           cursor' = [cursor EXCEPT ![t] = loop],
           UNCHANGED <<connections, socketpc, told, pc, snapshot, vmpc, overtaken>>,
           t \in Client /\ loop # Idle => pc[t] = "delivering" /\ loop.event = snapshot[t],
           t = "vm" /\ loop # Idle => /\ \/ vmpc = "sending"
                                         \/ vmpc = "notify" /\ loop.event = "Paused"
                                      /\ loop.next = cursor[t].next \/ loop.next = 1
                                      /\ cursor[t] # Idle \/ loop.next = 1
    PROVE  HearInv'
  <1>1. cursor'[t] = loop /\ \A u \in Sender : u # t => cursor'[u] = cursor[u]
    BY DEF ListenerInv, ListenerTypes
  <1>2. TellsInv'
    BY <1>1, VmIsNoClient DEF HearInv, TellsInv
  <1>3. OnlyPaused'
    BY DEF HearInv, OnlyPaused
  <1>4. connections \in Seq(Socket) /\ ~(\E i \in DOMAIN connections : i < 1)
    BY DEF ListenerInv, ListenerTypes
  <1>5. \A s : Hears(s)' = Hears(s)
    BY DEF Hears
  <1>6. HeardInv'
    BY <1>1, <1>4, <1>5 DEF HearInv, HeardInv
  <1> QED
    BY <1>2, <1>3, <1>6 DEF HearInv

LEMMA BeginHears ==
    ASSUME HearInv, ListenerInv, NEW t \in Sender, NEW event \in Event, BeginBroadcast(t, event),
           DebuggerUnchanged, overtaken' = overtaken,
           t \in Client => pc[t] = "delivering" /\ event = snapshot[t],
           t = "vm" => vmpc = "sending" \/ (vmpc = "notify" /\ event = "Paused")
    PROVE  HearInv'
  <1> DEFINE loop == [Idle EXCEPT !.event = event, !.end = Len(connections)]
  <1>1. loop.event = event /\ loop.next = 1
    BY DEF Idle
  <1>2. cursor' = [cursor EXCEPT ![t] = loop] /\ UNCHANGED <<connections, socketpc, told>>
    BY DEF BeginBroadcast
  <1>3. UNCHANGED <<pc, snapshot, vmpc>>
    BY DEF DebuggerUnchanged, vars, clientVars
  <1> HIDE DEF loop
  <1> QED
    BY <1>1, <1>2, <1>3, CursorHears

LEMMA AnnounceHears ==
    ASSUME HearInv, ListenerInv, Safe,
           \/ AnnouncesPause \/ AnnouncesOutput \/ \E c \in Client : AnnouncesStatus(c)
    PROVE  HearInv'
  <1>1. "Paused" \in Event /\ "Output" \in Event /\ RunState \subseteq Event
    BY BroadcastAssumption DEF RunState
  <1>2. snapshot \in [Client -> RunState]
    BY DEF Safe, TypeInv, TypeOK
  <1> QED
    BY <1>1, <1>2, VmIsNoClient, BeginHears DEF AnnouncesPause, AnnouncesOutput, AnnouncesStatus

\* A sender takes the next connection.
LEMMA TakeHears ==
    ASSUME HearInv, ListenerInv, NEW t \in Sender, TakeConnection(t),
           DebuggerUnchanged, overtaken' = overtaken
    PROVE  HearInv'
  <1> DEFINE loop == [cursor[t] EXCEPT !.to = connections[cursor[t].next]]
  <1>1. cursor[t] # Idle
    BY DEF TakeConnection, Idle
  <1>2. /\ cursor[t] \in Loops /\ ~cursor[t].dangling /\ cursor[t].end = Len(connections)
        /\ connections \in Seq(Socket) /\ cursor[t].next <= cursor[t].end
    BY <1>1 DEF ListenerInv, ListenerTypes, WalkInv, TakeConnection
  <1>3. ~(cursor[t].next > Len(connections))
    BY <1>2 DEF Loops
  <1>4. /\ cursor' = [cursor EXCEPT ![t].to = connections[cursor[t].next]]
        /\ UNCHANGED <<connections, socketpc, told>>
    BY <1>2, <1>3 DEF TakeConnection
  <1>5. cursor' = [cursor EXCEPT ![t] = loop]
    BY <1>4
  <1>6. loop.next = cursor[t].next /\ loop.event = cursor[t].event
    BY <1>2 DEF Loops
  <1>7. UNCHANGED <<pc, snapshot, vmpc>>
    BY DEF DebuggerUnchanged, vars, clientVars
  <1> HIDE DEF loop
  <1>8. /\ t \in Client => pc[t] = "delivering" /\ loop.event = snapshot[t]
        /\ t = "vm" => vmpc = "sending" \/ (vmpc = "notify" /\ loop.event = "Paused")
    BY <1>1, <1>6 DEF HearInv, TellsInv
  <1> QED
    BY <1>1, <1>4, <1>5, <1>6, <1>7, <1>8, CursorHears

\* Whoever is told something while the script is stopped is told so.
LEMMA SendHears ==
    ASSUME HearInv, ListenerInv, ToldInv, NEW t \in Sender, SendMessage(t),
           DebuggerUnchanged, overtaken' = overtaken
    PROVE  HearInv'
  <1>1. PICK s, next : s = cursor[t].to /\ next = cursor[t].next
    OBVIOUS
  <1> DEFINE loop == [cursor[t] EXCEPT !.to = NoSocket, !.next = @ + 1]
  <1>2. ListenerTypes /\ UNCHANGED <<pc, snapshot, vmpc>>
    BY DEF ListenerInv, DebuggerUnchanged, vars, clientVars
  <1>3. cursor' = [cursor EXCEPT ![t] = loop] /\ UNCHANGED <<connections, socketpc>>
    BY DEF SendMessage
  <1>4. /\ s \in Socket /\ cursor[t] # Idle
        /\ \A r \in Socket : r # s \/ socketpc[r] # "listening" => told'[r] = told[r]
        /\ socketpc[s] = "listening" /\ told'[s] # <<>> => Last(told'[s]) = cursor[t].event
    BY <1>1, <1>2, SendTells
  <1>5. cursor[t] \in Loops /\ s # NoSocket
    BY <1>1, <1>2 DEF ListenerTypes, SendMessage
  <1>6. /\ next \in DOMAIN connections /\ s = connections[next]
        /\ next \in Nat /\ connections \in Seq(Socket)
    BY <1>1, <1>2, <1>5 DEF ToldInv, ListenerTypes, Loops
  <1>7. loop.event = cursor[t].event /\ loop.next = next + 1
    BY <1>1, <1>5 DEF Loops
  <1> HIDE DEF loop
  <1>8. cursor'[t] = loop /\ \A u \in Sender : u # t => cursor'[u] = cursor[u]
    BY <1>2, <1>3 DEF ListenerTypes
  <1>9. TellsInv' /\ OnlyPaused'
    BY <1>2, <1>4, <1>7, <1>8, VmIsNoClient DEF HearInv, TellsInv, OnlyPaused
  <1>10. ASSUME ~overtaken, vmpc \in {"notify", "waiting"}
        PROVE  Hears(s)' /\ \A r \in Socket : Hears(r) => Hears(r)'
    <2>1. cursor[t].event = "Paused"
      BY <1>4, <1>10, BroadcastAssumption DEF HearInv, TellsInv, OnlyPaused
    <2> QED
      BY <1>3, <1>4, <2>1 DEF Hears
  <1>11. HeardInv'
    <2> SUFFICES ASSUME ~overtaken
                 PROVE  /\ vmpc = "notify" /\ cursor'["vm"] # Idle =>
                              \A i \in DOMAIN connections :
                                  i < cursor'["vm"].next => Hears(connections[i])'
                        /\ vmpc = "waiting" => \A r \in Socket : Hears(r)'
      BY <1>2, <1>3 DEF HeardInv
    <2>1. ASSUME vmpc = "waiting" PROVE \A r \in Socket : Hears(r)'
      BY <1>10, <2>1 DEF HearInv, HeardInv
    <2>2. ASSUME vmpc = "notify", cursor'["vm"] # Idle, NEW i \in DOMAIN connections,
                 i < cursor'["vm"].next
          PROVE  Hears(connections[i])'
      <3>1. connections[i] \in Socket /\ i \in Nat
        BY <1>6
      <3>2. CASE t = "vm"
        <4>1. i < next \/ i = next
          BY <1>6, <1>7, <1>8, <2>2, <3>1, <3>2
        <4>2. i < next => Hears(connections[i])
          BY <1>1, <1>4, <2>2, <3>2 DEF HearInv, HeardInv
        <4> QED
          BY <1>3, <1>6, <1>10, <2>2, <3>1, <4>1, <4>2
      <3>3. CASE t # "vm"
        <4>1. cursor'["vm"] = cursor["vm"]
          BY <1>8, <3>3, VmIsNoClient
        <4>2. Hears(connections[i])
          BY <2>2, <4>1 DEF HearInv, HeardInv
        <4> QED
          BY <1>3, <1>10, <2>2, <3>1, <4>2
      <3> QED
        BY <3>2, <3>3
    <2> QED
      BY <2>1, <2>2
  <1> QED
    BY <1>9, <1>11 DEF HearInv

\* The script waits when everyone has been told.
LEMMA AnnouncedHears ==
    ASSUME HearInv, ListenerInv, ToldInv, HasAnnounced
    PROVE  HearInv'
  <1>1. /\ cursor' = [cursor EXCEPT !["vm"] = Idle] /\ UNCHANGED <<connections, socketpc, told>>
        /\ cursor["vm"] # Idle /\ cursor["vm"].next > cursor["vm"].end
        /\ overtaken' = overtaken
    BY DEF HasAnnounced, EndBroadcast
  <1>2. cursor'["vm"] = Idle /\ \A c \in Client : cursor'[c] = cursor[c]
    BY <1>1, VmIsNoClient DEF ListenerInv, ListenerTypes
  <1>3. UNCHANGED <<pc, snapshot>>
    BY DEF HasAnnounced, NotifyAndWait, HandleOutputLine, clientVars
  <1>4. \/ vmpc = "notify" /\ vmpc' = "waiting"
        \/ vmpc' \notin {"notify", "waiting"}
    BY DEF HasAnnounced, NotifyAndWait, HandleOutputLine
  <1>5. TellsInv' /\ OnlyPaused'
    BY <1>1, <1>2, <1>3, <1>4 DEF HearInv, TellsInv, OnlyPaused
  <1>6. HeardInv'
    <2> SUFFICES ASSUME ~overtaken, vmpc = "notify", NEW s \in Socket
                 PROVE  Hears(s)'
      BY <1>1, <1>2, <1>4 DEF HeardInv
    <2> SUFFICES ASSUME socketpc[s] = "listening"
                 PROVE  Hears(s)
      BY <1>1 DEF Hears
    <2>1. PICK i \in DOMAIN connections : connections[i] = s
      BY DEF ListenerInv, ListInv, Listed, ToSet
    <2>2. /\ cursor["vm"].end = Len(connections) /\ connections \in Seq(Socket)
          /\ cursor["vm"] \in Loops
      BY <1>1, VmIsNoClient DEF ListenerInv, WalkInv, ListenerTypes
    <2>3. i < cursor["vm"].next
      BY <1>1, <2>2 DEF Loops
    <2> QED
      BY <1>1, <2>1, <2>3 DEF HearInv, HeardInv
  <1> QED
    BY <1>5, <1>6 DEF HearInv

LEMMA AnnouncedStatusHears ==
    ASSUME HearInv, ListenerInv, Safe, NEW c \in Client, HasAnnouncedStatus(c)
    PROVE  HearInv'
  <1>1. /\ cursor' = [cursor EXCEPT ![c] = Idle] /\ UNCHANGED <<connections, socketpc, told>>
        /\ pc' = [pc EXCEPT ![c] = "done"] /\ snapshot' = [snapshot EXCEPT ![c] = "Running"]
        /\ vmpc' = vmpc /\ overtaken' = overtaken
    BY DEF HasAnnouncedStatus, EndBroadcast, DeliverStatus
  <1>2. /\ cursor'[c] = Idle /\ pc'[c] = "done"
        /\ \A u \in Sender : u # c => cursor'[u] = cursor[u]
        /\ \A d \in Client : d # c => pc'[d] = pc[d] /\ snapshot'[d] = snapshot[d]
    BY <1>1, VmIsNoClient DEF ListenerInv, ListenerTypes, Safe, TypeInv, TypeOK
  <1>3. TellsInv' /\ OnlyPaused'
    BY <1>1, <1>2, VmIsNoClient DEF HearInv, TellsInv, OnlyPaused
  <1>4. cursor'["vm"] = cursor["vm"]
    BY <1>2, VmIsNoClient
  <1>5. HeardInv'
    BY <1>1, <1>4 DEF HearInv, HeardInv, Hears
  <1> QED
    BY <1>3, <1>5 DEF HearInv

LEMMA HearStep ==
    ASSUME ~ConnectionsRace
    PROVE  HearInv /\ ListenerInv /\ ToldInv /\ Safe /\ [AppNext]_appVars => HearInv'
  <1> SUFFICES ASSUME HearInv, ListenerInv, ToldInv, Safe, [AppNext]_appVars PROVE HearInv'
    OBVIOUS
  <1>1. CASE MainStep
    BY <1>1, MainHears
  <1>2. CASE HookRuns
    BY <1>2, ScriptHears, AnnounceHears, AnnouncedHears DEF HookRuns
  <1>3. ASSUME NEW c \in Client, ServesRequest(c) \/ Serves(c) \/ UsesDeletedController(c)
        PROVE  HearInv'
    BY <1>3, RequestHears, AnnounceHears, AnnouncedStatusHears DEF Serves
  <1>4. ASSUME NEW t \in Sender, BroadcastGoesOn(t) PROVE HearInv'
    BY <1>4, TakeHears, SendHears DEF BroadcastGoesOn, BroadcastStep
  <1>5. ASSUME NEW s \in Socket, SocketGoesOn(s) PROVE HearInv'
    BY <1>5, SocketHears
  <1>6. CASE Poll \/ UNCHANGED appVars
    <2>1. UNCHANGED listenerVars /\ UNCHANGED <<pc, snapshot, vmpc, overtaken>>
      BY <1>6 DEF Poll, DebuggerUnchanged, ListenerUnchanged, appVars, vars, clientVars
    <2> QED
      BY <2>1, QuietHears DEF HearInv, OnlyPaused
  <1> QED
    BY <1>1, <1>2, <1>3, <1>4, <1>5, <1>6 DEF AppNext

\* While the script waits, whoever listens and has been told anything was last
\* told that it is paused, for any number of clients that have statuses sent
\* at the same time and of subscribers that come, leave or do not read; unless
\* a status was on its way when the script stopped.  As for all that is said
\* of broadcasts, accesses to connections_ must not overlap.
THEOREM SubscribersHearOfStop ==
    ASSUME ~ConnectionsRace
    PROVE  AppSpec => []HearsOfStop
  <1>1. AppInit => HearInv
    <2> SUFFICES ASSUME AppInit PROVE HearInv
      OBVIOUS
    <2>1. vmpc = "script" /\ \A t \in Sender : cursor[t] = Idle
      BY DEF AppInit, Init, ListenerInit
    <2> QED
      BY <2>1, VmIsNoClient DEF HearInv, TellsInv, OnlyPaused, HeardInv
  <1>2. HearInv /\ ListenerInv /\ ToldInv /\ Safe /\ [AppNext]_appVars => HearInv'
    BY HearStep
  <1>3. HearInv => HearsOfStop
    BY DEF HearInv, HeardInv, HearsOfStop, Hears
  <1>4. AppSpec => []ListenerInv
    BY AppRunsTheListener, AlwaysListener
  <1>5. AppSpec => []ToldInv
    BY AppRunsTheListener, AlwaysTold
  <1> QED
    BY <1>1, <1>2, <1>3, <1>4, <1>5, AppSafe, PTL DEF AppSpec
=============================================================================
