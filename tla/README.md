# Verification of the Squirrel debug server

TLA+ models of the Squirrel debug server, the TLC configurations that check them
on small instances, and TLAPS proofs of what matters most for every instance.
Line numbers refer to `src/` at the modelled commit.

## 1. The system

A C++ application embeds a Squirrel VM. It runs a script on one thread; the VM
calls a *debug hook* on that thread at every function call (`'c'`), return
(`'r'`) and source line (`'l'`). Meanwhile an embedded HTTP server turns requests
of remote debuggers into *commands*, each on a server thread, and a websocket
broadcasts *events* to them.

| Part | Source | State | Operations |
|---|---|---|---|
| Debugger core | `squirrel_debugger/SquirrelDebugger.cpp`, `.h` | atomic `pauseRequested_`; under `pauseMutex_`: `isPaused`, `returnsRequired`, the last status, the breakpoints; `vmData_`: VM, copy of the call stack, cached handles; `pauseCv_` | the hook; `PauseExecution`, `ContinueExecution`, `StepOut/Over/In`, `SendStatus`, variables and watches, `SetFileBreakpoints`; `AddVm`, `DetachVm` |
| Breakpoint map | `squirrel_debugger/BreakpointMap.cpp`, `.h` | file names with their handles; handle -> line -> breakpoint | find or make a handle, clear, add, read |
| Variables and paths | `squirrel_debugger/SquirrelVmHelpers.cpp`, `SquirrelDebugger.cpp` 77-221 | none of its own; works on the VM's operand stack, tables, arrays | list, page, read and write children by a path of iterators |
| Watch expressions | `SquirrelVmHelpers.cpp`, `SquirrelDebugger.cpp` 406-621 | none | parse, evaluate inside out |
| Message interface | `interfaces/include/sdb/MessageInterface.h` | none | types and promises of commands and events |
| Websocket listener | `embedded_server/websocket/WSListener.cpp` | list of connections, counter | connect, disconnect, broadcast |
| Embedded server | `embedded_server/EmbeddedServer.cpp`, `AppComponents.h` | worker thread, stopping flag, controllers | start, stop, forward events to the listener |
| Controller, DTOs | `embedded_server/controller`, `dto` | none between requests | HTTP and JSON to and from commands; the loop over several expressions |
| Sample application | `sample_app/main.cpp` | running VMs, under `vmsMutex_` | initialise, run a script, tear down, forward hook and output |

Interaction: controller -> command interface (calls, from any server thread);
VM -> hook (callback, script thread); hook and `SendStatus` -> event interface ->
websocket listener (calls, from the script thread and from server threads). The
core's data is shared between all of them. The application's main thread opens the VM, runs the
script on itself, so that the hook runs there too, and stops the server. The server has a worker that accepts
connections, and the library gives each connection a thread of its own.

What is hard:

* `pauseRequested_` is read and `returnsRequired` even written by the `'c'` hook
  without the mutex (733-735), although `SquirrelDebugger.h:86` asks for it;
* a waiting hook is woken by a condition variable without a predicate (783);
  `isPaused` stays set until the hook has the mutex again;
* commands test, lock and test again (283-285, 296-298);
* `SendStatus` copies under the mutex and delivers outside it (702);
* `DetachVm` may run while a hook is in flight (264-276 against 712-777);
* the hook trusts handles it cached before clients changed the breakpoints (719-727);
* the commands on variables push and pop on the operand stack of the stopped script
  itself, through recursive calls and callbacks that may fail at any depth;
* iterators are sent to clients and come back in later commands; they count sorted
  entries in one kind of table, and are slots of the hash table in another;
* showing a value calls itself through tables, instances and the names of their classes,
  leaves some fields out and stops some searches half-way, always with values on that stack;
* the list of websockets is walked over by whoever has an event, with no lock, while
  connections come and go; an event of the hook is sent with `pauseMutex_` held, and sending
  waits for subscribers that do not read;
* the main thread closes the VM while the server still takes requests for it, and ends the
  server while its connections are still served;
* the parser and the evaluator of watch expressions each keep a stack of their own, and
  share one position in the text, one frame and one table of results.

`PROJECT.json` lists every hazard at its line, with the properties that cover it.

### What makes each component correct

* Breakpoint map: one handle per file whatever the spelling, handles never change,
  a request replaces exactly its file's breakpoints.
* Core: nobody touches the VM while the script runs; no wake-up is lost; the copy
  of the stack follows the VM's; breakpoints stop the script on their line, under
  any spelling; pauses and steps stop it where they promise and nowhere else;
  commands and hooks end; events tell the truth.
* Variables: page after page shows every child once, a path names the child it was
  listed with, a write changes that child only, and the operand stack is the script's
  own again on every way out.
* Expressions: exactly the expressions are accepted, they are read as written, evaluated
  inside out to what they mean, and the path in the answer leads to the value shown.
* Rendering: showing a variable ends unless it contains itself, leaves the operand stack as it
  was, and names a class by the way that leads to it.
* Listener: a connection is listed while it is open; a broadcast uses no freed memory; a
  subscriber hears every event, once and in order.
* Server and application: an answer of success is complete; who listens knows that the script is
  stopped; stop-on-start stops on the first line; nobody touches a VM that has been closed;
  requests return and the server can be stopped.

## 2. The modules

| Module | What it is |
|---|---|
| `BreakpointMap` | the map, and the two critical sections that change it |
| `FileBreakpoints` | abstract: one table of breakpoints per file |
| `SquirrelDebugger` | the core: script thread, hook, host, any number of clients; extends `BreakpointMap` |
| `StepContract` | abstract: what pause, continue and step promise, without threads or counters |
| `Stepping` | refinement mapping from `SquirrelDebugger` to `StepContract` |
| `Promises` | the core with history variables, for what comments say of pausing |
| `VmStack` | external: the calls of the Squirrel API that commands on variables make |
| `Variables` | list, page and write variables of the stopped script; extends `VmStack` |
| `Rendering` | how one variable is shown: summaries and names of classes; extends `VmStack` |
| `Expression` | parser and evaluator of watch expressions; extends `VmStack` |
| `ExpressionMeaning` | abstract: which texts are expressions, how they are written, what they mean |
| `StringLiteral` | characters and escapes of the strings in them, with what a text says as a whole |
| `WSListener` | the list of websockets and the broadcast over it, a step per access |
| `Delivery` | the listener with numbered events, for what a subscriber hears |
| `DebugCommandController` | requests over the commands; extends `SquirrelDebugger` |
| `SampleApp` | everything that runs: main thread, server, requests, debugger and listener; extends `DebugCommandController` and `WSListener` |
| `MCSquirrelDebugger`, `MCPromises`, `MCVariables`, `MCExpression`, `MCSampleApp` | values of constants for TLC |
| `MCParts` | for TLC: `MCBreakpointMap`, `MCStringLiteral`, `MCDelivery` and `MCRendering` in one run, of which one moves; they share nothing |
| `RenderingProofs`, `StringLiteralProofs`, `WSListenerProofs`, `DeliveryProofs` | theorems and proofs about the module of that name |
| `VariablesProofs` | theorems about the walk along a path, about what is listed of variables, page by page, and about writes to it |
| `ExpressionProofs` | theorems that `Expression` does what `ExpressionMeaning` says |
| `SquirrelDebuggerProofs` | theorems about the breakpoint map, then about the core that extends it, and that the core implements `StepContract`, by `Stepping` |
| `AppProofs` | theorems about the application as a whole |

`SquirrelDebugger` has a command on variables as one that holds the mutex while the script
is stopped, and shows that both stay so until it ends (`StoppedWhileInspected`).
`Variables`, `Rendering` and `Expression` model what happens in between, where nothing else moves.

### BreakpointMap

File names are model values and `Lower` is the lower-casing; a `FileNameHandle`
is an index into `fileNames_` (shared pointers compared by identity; 0 is null).
A null handle is in no entry, so the error returns of `Clear`, `AddAll` and
`ReadBreakpoint` come out as "not found" and "unchanged"; `SetFileBreakpoints`
never passes one. `bm` is a record of both members; each operation is an
operator from map to map, which `SquirrelDebugger` uses in its own steps.

### SquirrelDebugger

*Grain.* A critical section of `pauseMutex_` is one step, enabled when the mutex
is free. An access without the mutex is a step of its own, and so is each point
at which others can see half of a change, an event is delivered, or a thread
waits. `mutex` is therefore only held across steps by a hook that announces its
pause (`"notify"`), by `PauseExecution` between its two writes (`"pausing"`: the
lock-free `'c'` hook can see the first without the second) and by commands that
work on the VM (`"inspecting"`).

| Code | Actions |
|---|---|
| `'c'` hook 718-737 | `ScriptCall`, `LookupHandle`, `PushFrame`, `ReadReturns`, `WriteReturns` |
| `'r'` hook 740-748 | `ScriptReturn`, `CountReturn` |
| `'l'` hook 751-785 | `ScriptLine`, `LineRuns` or `LinePauses`, `NotifyAndWait`, `SpuriousWakeup`, `Resume` |
| `SquirrelPrintCallback` 787-805 | `ScriptPrint`, `ReadOutput`, `HandleOutputLine` |
| `AddVm`, `DetachVm` | the same |
| `PauseExecution` | `CheckPause`, `RequestPause`, `SetPauseReturns` |
| `ContinueExecution` | `CheckContinue`, `ReleaseScript` |
| `Step` and its callers | `StepOut`, `StepOver`, `StepIn` |
| commands on variables | `GetStackVariables`, `SetStackVariableValue`, `GetGlobalVariables`, `GetImmediateValue`, then `EndInspection` |
| `SendStatus` | `CopyStatus`, `DeliverStatus` |
| `SetFileBreakpoints` | the same |
| the caller of a command | `TakeReply` |

`frames` is the VM's own call stack, which `sq_stackinfos` reads; `currentStack`
is the debugger's copy. The two are separate variables because the code keeps
them in step only by its hooks.

*Undefined behaviour.* `++returnsRequired` (735) races with writers that hold the
mutex: `WriteReturns` adds one to the value tested before or to the one in memory.
A `'l'` hook overtaken by `DetachVm` has a dangling reference into the cleared
stack: `BreakpointFound` is then any answer, and pausing dereferences a null VM:
the state `"crashed"`, after which nothing runs. Other unsynchronised accesses of
`vmData_` by `DetachVm` (`emplace_back` against `clear`) are taken one after the
other.

*Host.* `AddVm` comes before the script runs, as in the sample application and as
`SquirrelDebugger.h:36` asks. `DetachRacesHook` says whether `DetachVm` may fall
inside a hook; the tests' `TearDown` detaches while the script thread still runs,
so it may, and only runs about what the hook sees of a VM that stays attached
exclude it.

*Left out.* The names of functions, `resolvedBps`, the text of a
line of output, and what commands read and write inside the VM, beyond when they do it.
The `assert` on the depth of the stack (730) is not a bound of the model: the
script's depth is.

### VmStack and Variables

A value of the VM is a pair of its type and what it holds; a container is a sequence of
slots, tables with empty ones among them. `NextSlot` is `sq_next`: an iterator is the
place of the slot passed last, so the iterator 0 and the one of a preceding empty slot
lead to the same entry. Names matter only by their order, which is `NameOf`.

| Code | Actions |
|---|---|
| `GetStackVariables`, `GetGlobalVariables`, `WithStackVariables` | `GetVariables` |
| `SetStackVariableValue` 357-371 | `SetStackVariableValue` |
| `WithVariableAtPath`, one call | `DescendArray` or `DescendTable`, or `PathFails`; then `Unwind` |
| return to `WithStackVariables` or `PopulateGlobalVariables` | `PopRoot` |
| `CreateChildVariables`, arrays and large tables | `StartIterating`, `AddNext`, `EndIterating` |
| `CreateChildVariables`, other tables | `StartSorted` or `StartPastEnd`, `AddSorted`, `EndSorted` |
| `PopulateStackVariables` without a path | `AddLocal`, `EndLocals` |
| `UpdateFromString` and the lambda that calls it | `RejectText`, `UpdateFromString` |
| end of the command | `Reply` |

`calls` stands for the C++ stack: per call of `WithVariableAtPath` the depth its
`ScopedVerifySqTop` has remembered and the pops it will make. `view` is a client that
lists page after page; `ScriptRuns` lets the script go on and stop with other data.
`StartPastEnd` is undefined behaviour (`begin() + beginIterator` beyond the end, 465):
the model stops there.

*Left out.* Paths that lead through an instance, user data, 32-bit wrap-around of begin plus count,
and how the parts of a path are parsed from the request. How values are shown is in `Rendering`.

### Rendering

`calls` is the C++ stack, as records of a function's local variables; `operands` the VM's, from
the variable on that is shown. Texts are widths, since only two things depend on them: a summary
ends when it is `MaxSummary` wide, and a field whose value has no text is left out.

| Code | Actions |
|---|---|
| `CreateChildVariable` 332-402 | `ShowValue`, `ShowClass`, `ClassShown`, `CountChildren` |
| `ToString` 247-330 | `RenderValue`, `ClassRendered` |
| `CreateTableSummary` 135-180, sorted tables and instances | `StartSummary`, `NextKey`, `KeyRendered`, `SortKeys`, `NextSortedField`, `EndSortedSummary` |
| `CreateTableSummary`, large tables | `StartSummary`, `NextField`, `EndSummary` |
| `WriteTableSummaryFieldHelper` 74-88 | `LeaveOutField`, `ValueRendered`, `FieldRendered` |
| `ToClassFullName` 651-709 | `SearchRoot`, `RootSearched`, `LookAtLocal`, `LocalSearched`, `UnknownClass` |
| `getClassesFullNameHelper` 92-133 | `StartClasses`, `PassValue`, `UseNoKey`, `AddClass`, `BreakAtKnownClass`, `DescendTable`, `TableDescended`, `EndClasses` |

Keys are rendered like values, and a table may have a table or a class for a key: what contains itself
(`Leads`) goes by keys as well as by values. `iters` of a summary is a set, out of which each step takes one
whose key comes first: `std::sort` may leave equal keys in any order. `ClassesAreNamed` is about all `Ways` through
tables from the root to the class, where each table and class has one place (`IsTree`).

Kept as the code has it, and outside of what the properties say: the search of a table ends at
the first class it knows already, so that a class behind it is missed; a class that is found in a
local's table stays unknown; and a key that is no string leaves the pointer to the key's text as
it was (`UseNoKey`, whatever that is). The first two need a class in two places, or no place under the root.

### Expression and ExpressionMeaning

Texts are sequences of tokens; names, numbers and strings are values. `open` is the C++
stack of `ParseExpression`, one expression under construction per call, and
`ParseExpression(token)` what its loop does with one token. `pending` is `stack` of
`GetImmediateValue`, `results` its `expressionResults`. Pointers to expressions, which are
the keys of that map, are modelled by the place of an expression in the whole.
Two things are kept as the code has them: `Keys` takes the value of the first node for all
(526 reads `node` where it iterates with `nodeIter`), and `IteratorTo` compares keys by
their bits without their types (628).

`ExpressionMeaning` says the same without stacks: which token may follow which and how
brackets pair; `Written`, the tokens of an expression; and `Meaning`, by recursion on the
expression. The grammar is the code's own where nothing else is written about it: it
accepts a bracket that is not closed, and one `]` too many at the end.

*Left out.* Floats, instances and delegates as containers, and the operand stack during a look-up, which is balanced in
straight-line code. `LongMax` bounds `strtol`.

### StringLiteral

`ReadString`, a character per step. The second half of the module says what a text
means without reading it from left to right: which characters a backslash makes part of an
escape, which quotes can close the string, what stands between them.

The model has three things as the code has them that nobody would want, and the
properties are about texts, or parts of texts, without them: the character after the digits
of a number is skipped, even if it is the closing quote (730, then 738); a number with
fewer digits than its buffer is padded at the wrong end (778), so that `\x4z` is 0x40; and
the end of the text ends a string that is not closed (821), although the function has
the message "Encountered EOF when looking for" a quote (716). More than four digits after
`\u` are stored behind a buffer of four (789); what a build makes of them is `Undefined`,
of which no property says anything.

### WSListener and Delivery

A websocket is created, added to `connections_`, listens, and is looked for, erased and
destroyed, each a step of its thread. `broadcastMessage` keeps `begin()` and `end()` of the
vector: `cursor` has both as indexes and `dangling` for a vector that has moved. What uses
memory that is not there any more sets `broken`, after which the model stops. `ConnectionsRace`
says whether accesses may overlap: the run `Broadcast` lets them, and finds what it does; the
others do not, so as to see what else the listener promises. A send waits while `MaxUnread`
messages are unread, which is what the library does when the buffers of a socket are full, and
fails when the subscriber has left.

`Delivery` numbers the events of each sender and remembers where a connection came in.

### DebugCommandController and SampleApp

`Endpoint` is a request that gives one command, `RejectPagination` one that is answered
without asking the debugger. `StackImmediate` gives a command per expression: `Evaluate`,
`Collect`, and again. `Answer` and `Respond` translate codes into HTTP. `request` counts the
values of an answer; what they are is left out.

`SampleApp` puts the threads together. `stage` is where the main thread is:

| Code | Actions |
|---|---|
| `Initialize` 80-90, `EndpointImpl::Start` | `Initialize` |
| `Run` 92-146 | `OpenVm`, `PauseOnStart`, `LoadFile`, `CallScript`, `CloseVm` |
| `Teardown` 149-156, `EndpointImpl::Stop` | `Stop`, `Join`, `Exit` |
| hook and callback 158-184, 216-240 | `RunsScript`, `AnnouncesPause`, `AnnouncesOutput`, `HasAnnounced` |
| the worker, `EmbeddedServer.cpp` 130-147 | `Poll` |
| requests | `ServesRequest`, `GoesOnServing`, `AnnouncesStatus`, `HasAnnouncedStatus`, `UsesDeletedController` |
| websockets | `SocketGoesOn`, `BroadcastGoesOn` |

Each is a step of another module that happens only where its thread is, so the core is not
modelled a second time. An event of the core (`NotifyAndWait`, `HandleOutputLine`, `DeliverStatus`) is
a broadcast from its beginning to its end, and the core's step happens at the end. Of oatpp the model
assumes a thread per connection, an accept that times out so that the worker sees the flag, and
blocking sends. Both parts are extended rather than instantiated, `BroadcastAssumption` giving the constants
of the listener their meaning, so that the proofs can cite the lemmas of both. The threads of connections outlive the worker: a request that reaches a deleted
controller is `"undefined"`, and nothing is said of what follows.

### StepContract and Stepping

A request makes a set of call depths *due*. The script stops at the next line it
reaches at a due depth, nowhere else unless there is a breakpoint, and goes on only
when told. `StepOut` makes the outer depths due, `StepOver` this one and the outer
ones, a pause and `StepIn` all. Leaving a call whose next line was due makes every
line due. In the code this is `returnsRequired`: the script stops when it is at
most 0, and the mapping is `due = 0 .. depth - returnsRequired`, or everything
when negative, with a call counted when its hook has dealt with `returnsRequired`
and a pause when both of its writes are done. The race of the `'c'` hook with a pause
shows in the contract as what it is: `Call` may put the pause off to an outer depth.

### Promises

Adds `owed` (a pause was answered with Success and the script has not stopped since).
No step reads it.

## 3. The runs

| Run | Bounds | Distinct states | Shows |
|---|---|---|---|
| `Core` | 2 clients, 1 line, depth 2, `returnsRequired` -2..2, spurious wake-ups, racing detach | 608,000 | `TypeOK`, `StoppedWhileInspected`, `NoLostWakeup` |
| `Stops` | 1 client, 2 lines, one file spelled two ways, depth 2 | 257,000 | `MirrorInSync`, `StatusDescribesStop`, `OutputNamesItsLine`, `BreakpointsStop`, `KeepsStepContract` |
| `Liveness` | 2 clients, depth 1, no breakpoints, fair | 50,000 | `CommandsReturn`, `HooksEnd`, `ContinueReleases`; `KeepsStepContract` with two clients |
| `Variables` | tables of 1 to 3 entries with gaps, sorted below 3, a cycle through an array; paths of up to 3 parts of 0..2, pages of 1 or 2 | 1,522,000 | `VariablesTypeOK`, `OperandStackRestored`, `PagesShowEveryChildOnce`, `EditableEntriesCanBeSet`, `WriteHitsItsTarget` |
| `Expression` | texts of up to 7 tokens from 5 operands, 2 frames and outside of both | 320,000 | `RejectsNothingElse`, `ReadsWhatIsWritten`, `PathLeadsToValue`, `IndexesMeanWhatTheySay`, `EvaluationEnds` |
| `Parts` | below | 672,000 | `BMTypeOK`, `HandlesUnique`, `HandlesStable`, `ImplementsPromise`; `ReadsWhatIsQuoted`, `ThrowsAtMistakes`, `WholeNumbersAreRead`; `ListedWhileOpen`, `HearsAllInOrder`; `OnlyCyclesOverflow`, `PopsWhatItPushes`, `ClassesAreNamed` |
| `Server` | 1 client and the main thread, 1 subscriber at any stage, depth 1, requests of 2 expressions | 293,000 | `AnswersAreComplete`, `HearsOfStop`, `ClosedVmUntouched`, `StopsOnFirstLine` |
| `Teardown` | as `Server`, stop-on-start, everybody connected before the script begins, fair | 85,000 | `RequestsReturn`, `TeardownEnds` |
| `PauseHonoured` | 1 client | | violation, see below |
| `ArrayEdits` | as `Variables` | | violation, see below |
| `Fields` | as `Expression`, texts of up to 5 tokens | | violation, see below |
| `Broadcast` | 1 websocket, 2 senders, overlapping accesses | | violation, see below |

`Parts` runs four components that share no state, one at a time: the breakpoint map (2 files in 3
spellings, 3 lines, 2 ids, requests of up to 2), the reader of strings (texts of up to 8 of 7 characters), the
listener (2 websockets, 2 senders of 2 events each, sends that block after one) and the display of a
variable (a root table of 2 to 4 slots, sorted below 3 entries, a table that may hold itself, the root, an
instance or a class, a class among the keys, summaries of 8 characters, 11 calls in progress).

Why the bounds are enough: two clients make every pair of commands meet, and a
command shares nothing with another but the core's variables; depth 2 has a call,
a return, and a stop inside and outside of a call; the counter's range covers both
sides of the tests `>= 0` and `<= 0` with one to spare in each direction, and the
script, not the debugger, is held back at its ends. `Core` does not check for
deadlock, since a crash stops everything; neither do `Variables` and `ArrayEdits`, where
`StartPastEnd` ends the run, `Parts`, whose literal, display and listener come to an end, and
`Server` and `Teardown`, where the process ends. The others do.

In `Variables`, `MaxTableSizeToSort` is 3 instead of 1000, so that both ways to list a
table occur with a gap before, between and after entries; pages are shorter than,
as long as and longer than containers; a path of 3 goes through a local, a table and an
array or back around the cycle; 2 is beyond the end of every array and of the smaller tables.
In `Expression`, 7 tokens are enough for two levels of brackets, for brackets after brackets
and for a field after an index. In `Parts`, 8 characters hold two escapes with something around
them, four digits after `\u`, and three backslashes in a row before a quote; `U` and `x` go the way of `u`, with another
number of digits. Two senders of two events are enough for one to overtake the other between two
connections, and one subscriber to block while the other comes or goes. Eleven calls in progress are more than the
display of three containers without a cycle needs (`DeepEnough`, section 4).
In `Server` and `Teardown` the second client of `Core` is the main thread, which gives the
command of stop-on-start; `Core` and `Liveness` have two clients at any time. One subscriber is
enough there, since `Delivery` has more.
The names occur as a local, as a global, as both and twice
in one frame, and as keys; the number 2 is beyond `LongMax`; a table has both the key `0`
and `false`, which the code takes for each other.

*Bounds in guards:* `MaxDepth` (calls), `MinReturns` and `MaxReturns` (returns and
calls of the script, not of commands), `MaxBreakpoints` (length of a request), `MaxPath`,
`Iterator` and `Count` (requests of clients), `MaxText` (tokens or characters), `Expressions` (of a
request), `MaxSent` (events), `MaxTold` (events remembered for properties), `MaxCalls` (the display's
recursion, for the size of the thread's stack), `ComeAt` (stages at which connections are made) and `StopOnStart`.
`MaxTableSizeToSort`, `MaxSizeToSort`, `MaxSummary` and `MaxUnread` are limits of the code or the
library, made smaller.

*Fairness* of the core (`FairSpec`, only in `Liveness`): strong fairness of `HookStep` and of each
client's `CommandStep`. A thread inside a hook or command is scheduled again and
again, and one that keeps asking for the mutex gets it; the latter is more than
`std::mutex` promises and what its implementations deliver in practice. Events are
taken to be delivered in finite time. Nothing forces the script to go on, a client
to give a command, or a wait to end. In `Expression`, weak fairness of `EvaluationStep`:
a loop that can go on does, as the command's own thread runs it and waits for nobody.
Reading the text needs none: `EvaluationEnds` begins where it has been read.
In `SampleApp` (`FairAppSpec`, only in `Teardown`): strong fairness of the hook with its broadcast, of each
request with its broadcast, and of the main thread where it waits for the mutex or the worker; weak fairness of the
worker and of subscribers. Subscribers read what they are sent, and the thread of one that has left goes on.
Without that a send waits for ever, with `pauseMutex_` held if it is the hook's, and no request returns: `RequestsReturn`
says what a subscriber's reading is needed for. Again nothing makes the script go on or end, a request come, or
a subscriber come or leave; `TeardownEnds` begins when the script has ended.

*Findings.*

* `PauseHonoured`: `PauseExecution` answers Success when any request is pending
  (283), also a step, and then has no effect; and a `'c'` hook in flight can overwrite
  its -1 (735). The script passes lines although "pause execution at its current
  point" (`MessageInterface.h:126`) has succeeded.
* `ArrayEdits`: an element of an array is listed as editable, but a write to it always
  ends in `ErrorInternal`: the container is looked for at -4 (`SquirrelDebugger.cpp:205`),
  where only entries of tables have it. The readme promises "Modification of variable values"
  (`readme.md:41`).
* `Fields`: `a.t` looks for `a` in `a`: the loop over the nodes reads the first one again
  (526). The answer can be Success with the value of another field.

* `Broadcast`: a broadcast walks over the vector of connections while a websocket's thread
  adds to it or erases from it (`WSListener.cpp:53`), and uses memory that has been freed. The
  readme promises a "threadsafe" interface to "redirect output" (`readme.md:5`).

What the models show besides, where no document says otherwise: the wait has no predicate
(783), so a spurious wake-up resumes the script; a status that was copied before a pause and is
delivered after the pause's own event is the last that subscribers hear (703), which
`HearsOfStop` therefore excepts; and stopping the server leaves connections with a deleted
controller.

Each property of a passing run has a *mutant* in `PROJECT.json`: an operator next to
the one it replaces, marked as such in the module, with a plausible bug that the
property catches.

## 4. The proofs

For all values of the constants (any number of clients, files, lines, any depth),
from the named assumptions only: `LowerAssumption` (lower-casing is idempotent),
`NumbersAssumption` (lines and ids are positive, as `SetFileBreakpoints` enforces),
`ThreadAssumption` (`"none"` and `"vm"` are not clients), `ScriptAssumption`
(types of the bounds), and those named below with their module. TLC evaluates all of
them in every run of a module that extends theirs.

`SquirrelDebuggerProofs` begins with the breakpoint map: `BMTypes`, `BMInvariant`, `HandlesStayPut` and `MapImplementsPromise`.
The inductive invariant `GoodMap` is the type with one handle per file; without
uniqueness, find-after-append might return another handle than the appended one.
Lemmas say what each operator returns, up to `ReplacedMap`; the refinement shows that
`ReplaceFile` is the abstract `Replace` and `SeeSource` a stutter.

It goes on with the core: `DebuggerTypes`, `InspectionIsSafe` (`StoppedWhileInspected`)
and `WakeupsAreNotLost` (`NoLostWakeup`), with spurious wake-ups and with
racing detach. None is inductive alone. The invariant `Safe` has four parts:

* `TypeInv`: types, with one handle per file (needed for the map's lemmas);
* `CallHasFrame`: a `'c'` hook has a frame to work on;
* `MutexInv`: who holds the mutex follows from where the threads are, both ways;
* `PauseInv`: an announced or waiting pause has `isPaused`, a request and a VM behind
  it; `isPaused` implies a stopped hook of an attached VM; an inspecting client has
  seen `isPaused`.

`PauseInv` alone would break on `Resume`, which clears `isPaused` under an inspecting
client: `MutexInv` excludes that, as the client holds the mutex which `Resume` needs.
`isPaused` in a crashed state is the one exception that the null VM forces.

Its second half: `MirrorIsInSync`, `OutputIsNamed`, `BreakpointsAreHonoured` and
`StatusIsOfThisStop`. All but the last suppose `~DetachRacesHook`: a `DetachVm` inside a hook
clears the copy under it, and then they are false. `MirrorInSync` compares the depths, files and
lines of two stacks where no hook is in flight; the invariant `MirrorInv` says how they correspond
at every moment:

* `Mirror`: frame by frame, a frame of the copy has the line of the VM's frame and *the handle that
  the map has for its file* (not only a file of that name, since breakpoints are found by handle);
  a call whose `'c'` hook is in flight is not in the copy yet;
* `HookInv`: handles that the hook has cached, for one call or for all, are those of the map. This
  is stable because no command of a client takes a handle away or gives another (`HandlesStay`);
* `DetachedInv`: without a VM nothing is remembered and no hook is at work.

Its third part: `SteppingKeepsContract` (`Spec => KeepsStepContract`), supposing
`~DetachRacesHook` and `~SpuriousWakeups`, as a wait that ends on its own lets the script go on
untold. There is one lemma per action: `MapScript`, `MapPush`, ... `MapClient`. Beyond `Safe` and
`MirrorInv` it needs `StepInv`: depths are bounded by `MaxDepth` with room for a return that is
being counted; a half-made pause is a `StepIn`; and between the test and the increment of the `'c'`
hook, `returnsRequired` is what was tested unless a pause has set it to -1. The last is what makes
the race harmless to everything but that pause: `MapWriteReturns` maps an overwritten -1 to a pause
that is put off.

`WSListenerProofs`: `ConnectionsAreListed` and `SerialBroadcastIsSafe` (the property that the run
`Broadcast` violates), from `ListenerAssumption` and `~ConnectionsRace`. The invariant `ListenerInv` relates the
list, the counter, the place that a leaving connection has found for itself and the walk of each
broadcast. Together with the run they say what a repair must do: keep one access from another.
Its last section, on what subscribers are told, is for the two modules below: `ToldInv` says that
only listening subscribers have been told anything, and that a blocked sender stands at the place of the one it waits for.

`DeliveryProofs`: `EverythingIsHeard` (`HearsAllInOrder`), for any number of subscribers and senders,
supposing `~ConnectionsRace` and `AllRemembered`. The latter is about the history variable
`told` only, which keeps the last `MaxTold` messages: they are enough for all that can be sent. The
invariant `OrderInv` says of each subscriber and sender which events it has been told, in the sender's order: all up to the
sender's last, or, while that one is being broadcast, up to the one before it if the cursor has not passed the subscriber.
`NumberInv`: an event on its way has its sender's last number.
Senders do not appear in each other's part of this, which is why overtaking is harmless.

`AppProofs`, from `MainAssumption` and `ExpressionsAssumption` besides:

* `AppRunsTheDebugger` and `AppRunsTheListener`: each step of the application is one of the core's
  or none, and one of the listener's or none, so that what is proved of those holds in it;
* `SubscribersHearOfStop` (`HearsOfStop`), supposing `~ConnectionsRace`. The invariant `HearInv` joins the
  core, the requests and the listener. `TellsInv`: who is in the middle of a broadcast, and of what.
  `OnlyPaused`: from the announcement on, every status that is on its way says "Paused", as a client
  who copies it now copies that, and one who had copied another has `overtaken` set. `HeardInv`: those whom the cursor of the script's broadcast has
  passed have "Paused" last; the script waits only after the cursor's end, when these are all. Whoever
  connects later has been told nothing, or what a client has broadcast since;
* `ClosedVmIsLeftAlone`: with `StageInv`, that a hook is at work only while the main thread runs
  the script, from the core's `PauseInv`;
* `AnswersComplete`: with `AnswerInv`, that no command of an answered request is in progress, and
  one that is not answered has fewer values than it asks for;
* `StopOnStartStops`: with `StopInv`. Before the script the pause is either complete or about to be
  completed by a client that holds the mutex; the first call finds no cached handle, so its hook
  asks for the mutex and waits for that client (`WillStop`); from then on `returnsRequired` is
  negative, so no `'c'` hook touches it, until the script has been paused. It is the lookup of the
  first call that keeps the race of `PauseHonoured` away here.

`VariablesProofs`: `VariablesTyped` and `ScriptKeepsItsStack` (`OperandStackRestored`), for
any containers, locals, paths of any length and pages of any size, from
`ScriptValuesAssumption` (the types of the script's data; the script has at least two values
of its own on the stack, so that the index -4 always meets something), `TextAssumption`
and `BoundsAssumption`. The property speaks of the ends of calls only; the invariant `IInv`
adds what holds on the way there:

* `RegistersKept`: the values at the bottom are the script's, unchanged, not only as many;
* `CallsNest`: a call begins where the pops that its caller owes end;
* `StackDepth`: in each phase, how far the top is above the beginning of the last call;
* `WriteIsBelowRoot`: a write replaces two values that the command itself has pushed; this
  is where it matters that a local itself is never set;
* `IteratorOnTop`: what the listing loop replaces is its iterator.

Its second part: `WritesHitTheirTargets` (`WriteHitsItsTarget`), `EditableEntriesAreSet`
(`EditableEntriesCanBeSet`) and `EveryChildIsShownOnce` (`PagesShowEveryChildOnce`), for the same
constants, from `ContainersAssumption` besides: tables and arrays
are told from other values by their type, a table has a key once, an array has indices for keys.
All three suppose `NoArrayKeys`: no table of the script has an array for a key. The code looks for the
key of what it writes two places below the top and for its container four (`SquirrelDebugger.cpp:198-205`), which is right for an entry of a
table. Below an *element of an array* those places hold the array itself and whatever the walk, or the script, has left
there; were that a table which has this array for a key, the code would write to that table. In every other case
what it finds has no such key, and nothing is written.

* `WalkInv` and `EntryInv`: the value at hand is what the part of the path that has been followed
  leads to (`Reached`), and below it is its array, or its key and, at -4, its table. `Followed` is
  a recursive function over the path; chains (`IsChain`), which hold what each part leads to, stand for its unfolding, and
  their existence and uniqueness are proved by taking the shortest counterexample. Steps in two containers that
  differ only in one value, of the same type, that is no container, lead to the same places (`ChangeKeepsPaths`): so the
  lists and paths of a stop stay true while values are written.
* `OrderInv`, `OutInv`, `ViewInv`: the iterators that a sorted list has still to show, the entries of the page and
  those that the client has from this stop lead to children of the names and types that were shown (`Shown`). For the
  order by name there is a lemma that one exists (`OrderByName`), since the model takes any, as `std::sort` may.
* `EditInv`: a write in progress to what the client knows to be editable in a table has not failed. At each
  part of its path there is a child, as the variable was listed under it (`EditablePathLeads`), its text can be
  parsed, as the type is still what was listed, and its key is found in the table at -4.
* `PageInv` and `PagesInv` are about one list for each container, `Whole`: the iterators of all its children, in the
  order of `ListOrder`. A page that begins where it belongs (`BelongsAt`) has a part of `Whole`, and what the command does
  next is the next of it; what the client has is a beginning of `Whole`, and all of it when a page came short.
  `LeadsOn` says what makes iterators fit for this: `sq_next` goes from each to its child and on to
  the next. A large table is entered again at the last iterator that was shown, so its child comes twice and the client drops
  it. Neither `Whole` nor where one is in it changes with a write (`ChangeKeepsWhole`). At the
  end, as many slots as there are, none twice, are all of them (`NoneTwiceIsAll`), and each iterator leads back to its slot (`IteratorOfLeads`).

`RenderingProofs`: `StackIsBalanced` (`PopsWhatItPushes`) and `VariableStays`, for any containers, cycles
and limits. The property is about the moment at which a call returns. The invariant `StackInv` says for each
call in progress, from the function and the place it has come to, how many values it has on the stack and where they begin,
and that the calls lie on top of each other without a gap. Leaving out a field, a search that breaks
off at a class it knows and a table without classes are the places where the code pops by hand.

`SummariesEnd` (`OnlyCyclesOverflow`), from `ShownAssumption` (there are finitely many containers, each a sequence of slots;
an instance has a class) and `DeepEnough`: the thread's stack has room for two calls per container and four
more. Without the latter it is false, as a chain of tables that is long enough uses up any stack. The argument:

* `ShowInv`: what the values are that a call has on the operand stack (`CallHas`). A summary has its container, an iterator
  and the key and value of that entry; a search has its table and the entry it has come to;
* so the sequence of calls has one shape (`CreateChildVariable`, `ToString`s, perhaps `ToClassFullName`, then searches of tables), and
  each `ToString` and each search is about something that what the call below it is about holds;
* hence more than `2 * Cardinality + 4` calls have more summaries, or more searches, than there are containers: two of them are
  about the same one (the pigeonhole principle), and the calls between them are a walk from it to itself.

Here `Leads` had to include the keys: a table can be rendered as a key of another, so that a cycle
through keys overflows as well, which heaps without containers for keys could not show.

Its last part: `ClassesNamed` (`ClassesAreNamed`), from the same assumptions except `DeepEnough`, for any tree
of tables and any locals. The difficulty is that a search returns nothing: what it has found is in `classNames`, which all
of its calls share, and a class that is met twice would end a table's search early.

* `Search(path, m, D, names)` is about the search as plain data: the tables that are being searched, each in a slot of the one before; the tables
  `D` that are done; the names that are known. What is in a place that the search has `Passed` is known, or done; what is known or done
  is in a place that it has `Entered`; every known name is that of a way. `SearchBegins`, `SearchGoesOn`, `SearchDescends` and `SearchAscends` keep it.
  In a tree the place that is reached next can hold nothing that has been found before (`NextIsNew`), so the loop never breaks off;
* `SearchFinds`: when the root table has been searched, every class that a way leads to is known. Here one takes the first place of the way
  that has not been passed. `OneName`: in a tree all ways to a class have one name, by going back from the class;
* `NameInv` says that the calls in progress, their prefixes and the operand stack are such a search while the root table is
  searched, and that no way leads to the class once its locals are looked at.

`StringLiteralProofs`: `TextsAreReadAsQuoted` (`ReadsWhatIsQuoted`), `MistakesAreThrown` (`ThrowsAtMistakes`) and `NumbersAreReadWhole`
(`WholeNumbersAreRead`), for texts of any length over any characters and escapes, from `CharAssumption`: the end is told from every
character; digits are worth 0 to 15; what can follow a backslash as a letter begins no number and is no newline. The properties speak
of whole texts, and `StringInv` of what has been read:

* `Word`, for a text without numbers: in the body and after a backslash, nothing is wrong so far, no quote has closed the string, the output is
  what the characters so far denote, and which of the two phases it is depends on whether the last character is a backslash
  that is not itself escaped;
* `Told`, for the first number of a text: either its digits are being read, and the output is as long as what comes before it; or
  it is in its place in the output; or its digits were too few, or too many, or the text has been rejected. What comes
  later can only be appended.

Which characters are escaped is a recursive function over the text, and what a text denotes is a fold. That these are what they are for
the text without its last character (`EscapesGrow`, `FlattenOneMore`), and that strtoul leaves the two last digits in a char (`FromHexIs`),
is proved by taking the shortest counterexample, as for `Followed` above.

`ExpressionProofs`: `OnlyMistakesAreRejected` (`RejectsNothingElse`), `TextsAreReadAsWritten` (`ReadsWhatIsWritten`),
`PathsLeadToValues` (`PathLeadsToValue`) and `IndexesHaveTheirMeaning` (`IndexesMeanWhatTheySay`), for texts of any length, any containers
and any frames, from `ExpressionAssumption`:
tokens have a kind and a value, as `ReadNumber`, `ReadIdentifier` and `ReadString` make them; frames and containers are sequences, and arrays
have indexes for keys. An expression is of one of `MaxText + 1` sets, by how deep its brackets nest
(`Nested`); a recursive function on them, like `Written`, has a value because the deepest for which it had none would have a part
without one (`WriteExists`).

* `TextsFit`: while a text is read it is an expression so far, there is a call of `ParseExpression` in progress for each open
  bracket, and the type of the last node of the last call says what the last token was (`CallsFit`). In the calls before it the last node
  waits for its accessor. The brackets that have been closed bound how deep the expressions under construction are (`Stack`).
  From it follows that `ReadNext` throws if and only if the token cannot follow (`ReadNextIs`);
* `TextsKept`: what the calls in progress have read, one after the other with a bracket between them, is the text without its
  spaces (`KeptIn`). Each token either adds to the last call, begins one or ends one (`KeepsOperand`, `KeepsDot`, `KeepsOpen`,
  `KeepsClose`). At the end, closing all calls is adding the brackets that were missing (`KeptAtEnd`);
* `PathsLead`: every value that has been found, and the one that is being followed, has the path that leads to it, and pointers of the evaluation are to parts of the
  expression. `IteratorTo` is the slot *before* the child, which is right because `NextSlot` leads from it to the child
  and empty slots in between do not matter (`SlotBefore`, `IteratorIs`);
* `TextsPlain`: without a dot, and without an index on a string, what is read is a first node with no accessor and then
  names with one (`IsPlain`), in every call and at every depth. This is what makes it harmless that `Keys` takes the value of the first node
  for every node without an accessor: there is only one;
* `MeaningsKept`: the places in the expression that have been looked into have each got a part of it (`Places`); each result is what its
  part means; what is being followed leads on to what its part means (`LeadsTo`); and if a part means nothing, or is `Unclear`,
  so is the whole expression, which is why one failed look-up may end the evaluation. The last holds whatever order the stack takes the parts in,
  since each part that is looked into is a key of one that was looked into before.

The last theorem has one more assumption, `MeaningAssumption`, that the marks `Nothing` and `Unclear` are no values of the VM. The recursive
`Meaning` is taken there as any function that satisfies its equation (`MeansTo`), which avoids unfolding it.

Only model-checked: liveness, which is beyond the prover.

## 5. Plan

Done: the core (`BreakpointMap`, `FileBreakpoints`, `SquirrelDebugger`, `StepContract`,
`Stepping`, `Promises`), `Variables`, `Expression`, `StringLiteral`, `Rendering`, the listener
(`WSListener`, `Delivery`), the requests (`DebugCommandController`), the whole application (`SampleApp`),
and the proofs of section 4. In this order next:

1. Paths of variables through instances, with the proofs of `VariablesProofs`.

## 6. Not modelled

* Exceptions that leave `Run` skip `Teardown`, and the process ends with the worker joinable
  (`main.cpp:343-345`); `LoadFile` and `Initialize` fail only in the ways that are handled.
* `stoi` on the parts of a path, and 32-bit wrap-around of begin plus count.
* Paths through instances, user data, and the text of closures (`sq_getstring`).
* One `commandOkResponse_` that all requests share (`DebugCommandController.h:350`): the library's
  use of it is not known here.
* DTOs and JSON, static files, CORS, logging, parsing of arguments, compilation of scripts, the oatpp
  library beyond what section 2 says, and the Squirrel VM beyond its calls of the hook and the API in `VmStack`.
  Wording of log lines and of JSON is not modelled either.
