----------------------------- MODULE SampleApp ------------------------------
(***************************************************************************)
(* The application as a whole: its main thread, which starts the server,   *)
(* opens a VM, runs a script and tears everything down (main.cpp); the     *)
(* server's worker and the threads of its connections (EmbeddedServer.cpp, *)
(* AppComponents.h); the endpoints, the debugger and the websockets.       *)
(*                                                                         *)
(* The steps are those of the other modules, each allowed only where its   *)
(* thread is; an event of the debugger happens when its broadcast is over. *)
(***************************************************************************)
EXTENDS DebugCommandController, WSListener

CONSTANTS
    Main,            \* the main thread, when it gives a command
    ComeAt,          \* bound: stages of the main thread at which connections are made
    StopOnStart      \* values of the argument stop_on_start

ASSUME MainAssumption == Main \in Client /\ StopOnStart \subseteq BOOLEAN

\* What the debugger has broadcast, and by which threads: the script's and
\* those that give it commands.
ASSUME BroadcastAssumption ==
    /\ Sender = {"vm"} \cup Client
    /\ Event = RunState \cup {"Output"}

VARIABLES
    stage,          \* where the main thread is
    breakOnStart,   \* RunArgs::breakOnStart
    stopping,       \* *EndpointImpl::stopping_
    worker,         \* EndpointImpl::worker_
    accepted,       \* connections over which requests come
    overtaken       \* history: a status was on its way when the script last stopped

threadVars == <<stage, breakOnStart, stopping, worker, accepted>>
appVars == <<vars, request, listenerVars, threadVars, overtaken>>

DebuggerUnchanged == UNCHANGED <<vars, request>>
ListenerUnchanged == UNCHANGED listenerVars

Stage == {"initialize", "opening", "pausing", "loading", "calling", "script", "stopping",
          "joining", "deleted", "undefined", "exited"}

AppInit ==
    /\ Init /\ ControllerInit /\ ListenerInit
    /\ stage = "initialize"
    /\ breakOnStart \in StopOnStart
    /\ stopping = FALSE /\ worker = "none" /\ accepted = {}
    /\ overtaken = FALSE

-----------------------------------------------------------------------------
(* The main thread *)

Goes(from, to) ==
    /\ stage = from /\ stage' = to
    /\ UNCHANGED <<breakOnStart, accepted, overtaken>>

\* Initialize: creating the server may throw, when the port is taken; then
\* WrapWithTries skips the rest.  Start creates the worker.
Initialize ==
    /\ \/ Goes("initialize", "opening") /\ worker' = "running"
       \/ Goes("initialize", "exited") /\ worker' = worker
    /\ UNCHANGED stopping
    /\ DebuggerUnchanged /\ ListenerUnchanged

Quietly == UNCHANGED <<worker, stopping>> /\ ListenerUnchanged

\* Run: the VM is opened and added to the debugger ...
OpenVm ==
    /\ Goes("opening", IF breakOnStart THEN "pausing" ELSE "loading")
    /\ AddVm
    /\ UNCHANGED request /\ Quietly

\* ... which may be told to pause before the script begins ...
PauseOnStart ==
    /\ \/ /\ Goes("pausing", "pausing")
          /\ CheckPause(Main) \/ RequestPause(Main) \/ SetPauseReturns(Main)
       \/ Goes("pausing", "loading") /\ TakeReply(Main)
    /\ UNCHANGED request /\ Quietly

\* ... the hook is set, and the file is compiled, or the VM closed if that fails.
LoadFile ==
    /\ Goes("loading", "calling") \/ Goes("loading", "stopping")
    /\ DebuggerUnchanged /\ Quietly

\* sq_call of the script.
CallScript ==
    /\ Goes("calling", "script")
    /\ \E file \in ScriptFile, line \in Line : ScriptCall(file, line)
    /\ UNCHANGED request /\ Quietly

\* The script ends, and sq_close follows.  The debugger keeps its pointer to
\* the VM.
CloseVm ==
    /\ Goes("script", "stopping")
    /\ frames = <<>> /\ vmpc = "script"
    /\ DebuggerUnchanged /\ Quietly

\* Mutant: the worker's own copy of the flag is not set.
StopWithoutTelling ==
    /\ Goes("stopping", "joining")
    /\ UNCHANGED <<stopping, worker>>
    /\ DebuggerUnchanged /\ ListenerUnchanged

\* Teardown: Stop(true) sets the flag ...
Stop ==
    /\ Goes("stopping", "joining")
    /\ stopping' = TRUE /\ UNCHANGED worker
    /\ DebuggerUnchanged /\ ListenerUnchanged

\* ... and joins the worker; then the server and its controllers are deleted.
Join ==
    /\ worker = "ended"
    /\ Goes("joining", "deleted")
    /\ DebuggerUnchanged /\ Quietly

\* ShutdownEnvironment, and the process ends.
Exit ==
    /\ Goes("deleted", "exited")
    /\ DebuggerUnchanged /\ Quietly

-----------------------------------------------------------------------------
(* The script, with the hook and the callback, on the main thread *)

ThreadsUnchanged == UNCHANGED threadVars

\* At a pause, a status that has been copied before and not been delivered.
Overtakes == \E c \in Client : pc[c] = "delivering" /\ snapshot[c] # "Paused"

\* The steps of the script and of the hook that do not broadcast.
RunsScript ==
    /\ stage = "script"
    /\ frames # <<>> \/ vmpc # "script"
    /\ \/ ScriptStep
       \/ LookupHandle \/ PushFrame \/ ReadReturns \/ WriteReturns \/ CountReturn
       \/ LineRuns \/ LinePauses
       \/ Resume \/ ReadOutput
    /\ overtaken' = CASE vmpc = "line" -> vmpc' = "notify" /\ Overtakes
                      [] vmpc = "woken" -> FALSE
                      [] OTHER -> overtaken
    /\ UNCHANGED request /\ ListenerUnchanged /\ ThreadsUnchanged

\* HandleStatusChanged of the hook, with the mutex, and HandleOutputLine.
AnnouncesPause ==
    /\ vmpc = "notify" /\ BeginBroadcast("vm", "Paused")
    /\ DebuggerUnchanged /\ ThreadsUnchanged /\ UNCHANGED overtaken

AnnouncesOutput ==
    /\ vmpc = "sending" /\ BeginBroadcast("vm", "Output")
    /\ DebuggerUnchanged /\ ThreadsUnchanged /\ UNCHANGED overtaken

HasAnnounced ==
    /\ EndBroadcast("vm")
    /\ NotifyAndWait \/ HandleOutputLine
    /\ UNCHANGED request /\ ThreadsUnchanged /\ UNCHANGED overtaken

-----------------------------------------------------------------------------
(* The server *)

\* The worker's loop looks at the flag, and waits a while for a connection.
Poll ==
    /\ worker = "running"
    /\ IF stopping THEN worker' = "ended" /\ UNCHANGED accepted
       ELSE stage \in ComeAt /\ \E c \in Client \ ({Main} \cup accepted) :
               accepted' = accepted \cup {c} /\ UNCHANGED worker
    /\ UNCHANGED <<stage, breakOnStart, stopping, overtaken>>
    /\ DebuggerUnchanged /\ ListenerUnchanged

\* A request over a connection, and what its thread does for it.
ServesRequest(c) ==
    /\ c \in accepted /\ stage # "deleted"
    /\ \/ Endpoint(c)
       \/ StackImmediate(c)
    /\ ListenerUnchanged /\ ThreadsUnchanged /\ UNCHANGED overtaken

GoesOnServing(c) ==
    /\ c \in accepted
    /\ \/ stage # "deleted" /\ RequestStep(c)
       \/ /\ RequestPause(c) \/ SetPauseReturns(c) \/ ReleaseScript(c) \/ EndInspection(c)
          /\ UNCHANGED request
    /\ ListenerUnchanged /\ ThreadsUnchanged /\ UNCHANGED overtaken

\* SendStatus has the copy delivered, without the mutex.
AnnouncesStatus(c) ==
    /\ pc[c] = "delivering" /\ BeginBroadcast(c, snapshot[c])
    /\ DebuggerUnchanged /\ ThreadsUnchanged /\ UNCHANGED overtaken

HasAnnouncedStatus(c) ==
    /\ EndBroadcast(c)
    /\ DeliverStatus(c)
    /\ UNCHANGED request /\ ThreadsUnchanged /\ UNCHANGED overtaken

\* The library's threads outlive the worker: a request that comes, or ends,
\* after its controller has been deleted.
UsesDeletedController(c) ==
    /\ stage = "deleted" /\ c \in accepted
    /\ pc[c] \in {"idle", "done"}
    /\ stage' = "undefined"
    /\ UNCHANGED <<breakOnStart, stopping, worker, accepted, overtaken>>
    /\ DebuggerUnchanged /\ ListenerUnchanged

BroadcastGoesOn(t) ==
    /\ BroadcastStep(t)
    /\ DebuggerUnchanged /\ ThreadsUnchanged /\ UNCHANGED overtaken

\* Threads of websockets, which come through the worker, and broadcasts.
SocketGoesOn(s) ==
    /\ \/ worker = "running" /\ stage \in ComeAt /\ Connect(s)
       \/ Leave(s)
       \/ SocketStep(s)
       \/ Read(s)
    /\ DebuggerUnchanged /\ ThreadsUnchanged /\ UNCHANGED overtaken

MainStep ==
    \/ Initialize \/ OpenVm \/ PauseOnStart \/ LoadFile \/ CallScript
    \/ CloseVm \/ Stop \/ Join \/ Exit

HookRuns == RunsScript \/ AnnouncesPause \/ AnnouncesOutput \/ HasAnnounced

Serves(c) == GoesOnServing(c) \/ AnnouncesStatus(c) \/ HasAnnouncedStatus(c)

\* The process runs, and what it does is defined.
Alive == stage \notin {"undefined", "exited"} /\ ~broken /\ vmpc # "crashed"

AppNext ==
    /\ Alive
    /\ \/ MainStep
       \/ HookRuns
       \/ Poll
       \/ \E c \in Client : ServesRequest(c) \/ Serves(c) \/ UsesDeletedController(c)
       \/ \E s \in Socket : SocketGoesOn(s)
       \/ \E t \in Sender : BroadcastGoesOn(t)

AppSpec == AppInit /\ [][AppNext]_appVars

\* What each thread does for as long as it can, one that asks for a mutex
\* again and again included.  Subscribers read, and the thread of one that has
\* left goes on.  Nothing makes the script go on or end, a client send a
\* request, a subscriber come or leave.
HookGoesOn ==
    /\ Alive
    /\ \/ HookRuns /\ (vmpc # "script")
       \/ BroadcastGoesOn("vm")

ServiceGoesOn(c) == Alive /\ (Serves(c) \/ BroadcastGoesOn(c))

ServerGoesOn == Alive /\ Poll

MainGoesOn == Alive /\ (PauseOnStart \/ Stop \/ Join \/ Exit)

SubscriberGoesOn(s) ==
    /\ Alive /\ (Read(s) \/ SocketStep(s))
    /\ DebuggerUnchanged /\ ThreadsUnchanged /\ UNCHANGED overtaken

AppFairness ==
    /\ SF_appVars(HookGoesOn)
    /\ \A c \in Client : SF_appVars(ServiceGoesOn(c))
    /\ WF_appVars(ServerGoesOn)
    /\ SF_appVars(MainGoesOn)
    /\ \A s \in Socket : WF_appVars(SubscriberGoesOn(s))

FairAppSpec == AppSpec /\ AppFairness

-----------------------------------------------------------------------------
(* Properties *)

\* Whoever listens knows that the script is stopped: while it waits, the last
\* a subscriber was told, if anything, is that it is paused, although clients
\* have statuses sent on threads of their own; unless such a status had been
\* copied before the script stopped, and comes too late.
HearsOfStop ==
    (vmpc = "waiting" /\ ~overtaken) =>
        \A s \in Socket : socketpc[s] = "listening" /\ told[s] # <<>> => Last(told[s]) = "Paused"

\* "If set, the script will pause execution on the first line", whatever
\* clients ask for while the VM is being set up; unless one of them has the
\* script continue.
StopsOnFirstLine ==
    [][(breakOnStart /\ status.stack = <<>> /\ vmpc = "line" /\ vmpc' = "script") =>
          pauseRequested = "None"]_appVars

\* sq_close does not detach the VM: the debugger still has its pointer, and
\* clients still come.  From then on no command gets to the VM.
ClosedVmUntouched ==
    stage \in {"stopping", "joining", "deleted", "exited"} =>
        /\ ~isPaused
        /\ \A c \in Client : pc[c] # "inspecting"

Busy(c) == pc[c] # "idle" \/ request[c] # NoRequest

\* Every request is answered, as long as subscribers read: the hook holds
\* pauseMutex_ while it sends, and sending waits for them.
RequestsReturn ==
    \A c \in Client : Busy(c) ~> (~Busy(c) \/ ~Alive)

\* The server can be stopped, whatever connections are open and whatever they
\* wait for: the worker sees the flag, and the process comes to its end.
TeardownEnds == stage = "stopping" ~> stage \in {"exited", "undefined"}
=============================================================================
