----------------------------- MODULE Variables -----------------------------
(***************************************************************************)
(* How clients list and change the variables of a stopped script           *)
(* (SquirrelVmHelpers.cpp, and SquirrelVmDataImpl in SquirrelDebugger.cpp).*)
(*                                                                         *)
(* One command runs at a time, with pauseMutex_ held and the script        *)
(* stopped, which SquirrelDebugger shows.  What it can get wrong is the    *)
(* operand stack of the script's own VM, on which it works, the place      *)
(* that a path of iterators leads to, and the cutting into pages.  Every   *)
(* call of WithVariableAtPath has its record in calls: the depth that its  *)
(* ScopedVerifySqTop remembers, and the pops that it owes.                 *)
(***************************************************************************)
EXTENDS VmStack

CONSTANTS
    Container,          \* the script's tables and arrays
    OtherValue,         \* the other values it can have, except integers
    Heaps,              \* what the containers can hold when the script stops
    Root,               \* the root table
    Locals,             \* the locals of each stack frame, in the order of sq_getlocal
    Registers,          \* what the script has on the operand stack
    NameOf,             \* for a key, the place of its text in alphabetical order
    MaxTableSizeToSort, \* kMaxTableSizeToSort
    Text,               \* new values, as clients write them
    Parse,              \* for a type and a text, the value it stands for, or Null
    MaxPath,            \* bound: parts in a path
    Iterator,           \* bound: the parts of paths and beginIterator
    Count               \* bound: numbers of variables on a page

Value == ({"integer"} \X Int) \cup Container \cup OtherValue

Slot == [key : Value, val : Value]

ASSUME ScriptValuesAssumption ==
    /\ Heaps \subseteq [Container -> Seq(Slot)]
    /\ Root \in Value
    /\ Locals \in Seq(Seq(Value))
    /\ Registers \in Seq(Value)
    /\ Len(Registers) >= 2

\* Tables and arrays are told from other values by their type.  A table has a key once, and the
\* keys of an array are its indices.
ASSUME ContainersAssumption ==
    /\ \A c \in Container : Type(c) \in {"table", "array"}
    /\ \A h \in Heaps, c \in Container :
          /\ \A i, j \in Filled(h[c]) : h[c][i].key = h[c][j].key => i = j
          /\ \A i \in Filled(h[c]) : NameOf[h[c][i].key] \in Nat
          /\ Type(c) = "array" => \A i \in DOMAIN h[c] : h[c][i].key = Integer(i - 1)

ASSUME TextAssumption ==
    /\ Parse \in [{"bool", "integer", "float"} -> [Text -> Value]]
    /\ \A text \in Text : <<"string", text>> \in Value
    /\ \A type \in DOMAIN Parse, text \in Text :
          Parse[type][text] # Null => Type(Parse[type][text]) = type

ASSUME BoundsAssumption ==
    /\ Iterator \subseteq Nat
    /\ Count \subseteq Nat
    /\ MaxPath \in Nat

VARIABLES
    heap,       \* the containers
    stack,      \* the operand stack of the VM
    cmd,        \* the command in progress
    phase,      \* where it is
    rest,       \* the parts of its path that are still to be followed
    calls,      \* the calls of WithVariableAtPath in progress
    order,      \* tableKeyToIterator, from childKeyIter on
    out,        \* the variables for the client
    rc,         \* the return code
    view        \* what a client knows that lists children page by page

vars == <<heap, stack, cmd, phase, rest, calls, order, out, rc, view>>

-----------------------------------------------------------------------------
(* Commands *)

Paths   == UNION {[1 .. n -> Iterator] : n \in 0 .. MaxPath}
Frame   == 0 .. Len(Locals) + 1
Targets == [scope : {"local"}, frame : Frame, path : Paths]
           \cup [scope : {"global"}, frame : {0}, path : Paths]

NoCommand == [op |-> "none"]
Commands  == [op : {"list"}, target : Targets, begin : Iterator, count : Count]
             \cup [op : {"set"}, target : Targets, text : Text]
NoView    == [target |-> NoCommand, entries |-> <<>>, complete |-> FALSE]

\* A call of WithVariableAtPath: sq_gettop when it began, what it must pop.
Call == [depth : Nat, pops : {0, 1, 3}]

Editable == {"bool", "float", "integer", "string"}

\* CreateChildVariable, for the value v.
Variable(iter, name, v) ==
    [pathIterator |-> iter, pathUiString |-> name, value |-> v, editable |-> Type(v) \in Editable]

HasLocal(frame, n) == frame < Len(Locals) /\ n < Len(Locals[frame + 1])
Local(frame, n)    == Locals[frame + 1][n + 1]

Refuse ==
    /\ rc' = "InvalidParameter"
    /\ phase' = "reply"
    /\ UNCHANGED <<stack, rest, calls>>

\* The first call of WithVariableAtPath, for the value v that was just pushed.
FollowFrom(v, path) ==
    /\ stack' = Push(stack, v)
    /\ rest' = path
    /\ calls' = <<[depth |-> Len(stack) + 1, pops |-> 0]>>
    /\ phase' = "walk"
    /\ UNCHANGED rc

\* WithStackVariables; a local itself cannot be set.
WithStackVariables(target, op) ==
    IF ~HasLocal(target.frame, target.path[1]) THEN Refuse
    ELSE IF op = "set" /\ Len(target.path) = 1 THEN Refuse
    ELSE FollowFrom(Local(target.frame, target.path[1]), Tail(target.path))

GetVariables(target, begin, count) ==
    /\ phase = "idle"
    /\ cmd' = [op |-> "list", target |-> target, begin |-> begin, count |-> count]
    /\ \/ target.scope = "global" /\ FollowFrom(Root, target.path)
       \/ /\ target.scope = "local" /\ target.frame > Len(Locals)
          /\ Refuse
       \/ /\ target.scope = "local" /\ target.frame <= Len(Locals) /\ target.path = <<>>
          /\ phase' = "locals"
          /\ UNCHANGED <<stack, rest, calls, rc>>
       \/ /\ target.scope = "local" /\ target.frame <= Len(Locals) /\ target.path # <<>>
          /\ WithStackVariables(target, "list")
    /\ UNCHANGED <<heap, order, out, view>>

SetStackVariableValue(target, text) ==
    /\ phase = "idle"
    /\ target.scope = "local"
    /\ target.path # <<>>
    /\ cmd' = [op |-> "set", target |-> target, text |-> text]
    /\ IF target.frame > Len(Locals) THEN Refuse ELSE WithStackVariables(target, "set")
    /\ UNCHANGED <<heap, order, out, view>>

-----------------------------------------------------------------------------
(* WithVariableAtPath *)

InCall == Len(calls)

\* Mutant: the caller pops the container as well.
DescendPopsAll(pushed) ==
    /\ stack' = stack \o pushed
    /\ calls' = Append([calls EXCEPT ![InCall].pops = Len(pushed) + 1],
                       [depth |-> Len(stack) + Len(pushed), pops |-> 0])
    /\ rest' = Tail(rest)
    /\ UNCHANGED <<phase, rc>>

\* The current call pushes values and calls WithVariableAtPath for the last one.
Descend(pushed) ==
    /\ stack' = stack \o pushed
    /\ calls' = Append([calls EXCEPT ![InCall].pops = Len(pushed)],
                       [depth |-> Len(stack) + Len(pushed), pops |-> 0])
    /\ rest' = Tail(rest)
    /\ UNCHANGED <<phase, rc>>

DescendArray ==
    /\ phase = "walk" /\ rest # <<>>
    /\ Type(At(stack, -1)) = "array"
    /\ Head(rest) < Size(heap, At(stack, -1))
    /\ HasKey(heap, At(stack, -1), Integer(Head(rest)))
    /\ Descend(<<ValueOf(heap, At(stack, -1), Integer(Head(rest)))>>)
    /\ UNCHANGED <<heap, cmd, order, out, view>>

\* What sq_next leaves above the container: the iterator, moved on, the key, the value.
NextEntry(slots, i) == <<Integer(i), slots[i].key, slots[i].val>>

DescendTable ==
    LET slots == Slots(heap, At(stack, -1))
        i == NextSlot(slots, Head(rest))
    IN  /\ phase = "walk" /\ rest # <<>>
        /\ Type(At(stack, -1)) = "table"
        /\ i # 0
        /\ Descend(NextEntry(slots, i))
        /\ UNCHANGED <<heap, cmd, order, out, view>>

\* The value has no such child.
LeadsNowhere(v, part) ==
    CASE Type(v) = "array" -> part >= Size(heap, v) \/ ~HasKey(heap, v, Integer(part))
      [] Type(v) = "table" -> NextSlot(Slots(heap, v), part) = 0
      [] OTHER -> TRUE

PathFails ==
    /\ phase = "walk" /\ rest # <<>>
    /\ LeadsNowhere(At(stack, -1), Head(rest))
    /\ rc' = "InvalidParameter"
    /\ phase' = "unwind"
    /\ UNCHANGED <<heap, stack, cmd, rest, calls, order, out, view>>

\* A call has returned to its caller, which pops what it has pushed.
Unwind ==
    /\ phase = "unwind" /\ calls # <<>>
    /\ stack' = Pop(stack, calls[InCall].pops)
    /\ calls' = SubSeq(calls, 1, InCall - 1)
    /\ UNCHANGED <<heap, cmd, phase, rest, order, out, rc, view>>

\* WithStackVariables and PopulateGlobalVariables pop the local or the root table.
PopRoot ==
    /\ phase = "unwind" /\ calls = <<>>
    /\ stack' = Pop(stack, 1)
    /\ phase' = "reply"
    /\ UNCHANGED <<heap, cmd, rest, calls, order, out, rc, view>>

-----------------------------------------------------------------------------
(* CreateChildVariables; what CreateChildVariable and ToString push they pop. *)

AtLeaf(op) == phase = "walk" /\ rest = <<>> /\ cmd.op = op

\* Mutant: the entries passed are counted, as if no slot were empty.
IteratorCounted(slots, i) == Cardinality({j \in Filled(slots) : j < i})

\* The iterator from which sq_next reaches slot i.
IteratorOf(slots, i) ==
    LET earlier == {j \in Filled(slots) : j < i}
    IN  IF earlier = {} THEN 0 ELSE CHOOSE j \in earlier : \A k \in earlier : k <= j

\* No slot comes twice, and their names are in alphabetical order.
IsByName(s, slots) ==
    \A m, n \in DOMAIN s :
        m < n => s[m] # s[n] /\ NameOf[slots[s[m]].key] <= NameOf[slots[s[n]].key]

OrdersByName(slots) ==
    {s \in [1 .. Cardinality(Filled(slots)) -> Filled(slots)] : IsByName(s, slots)}

\* tableKeyToIterator, sorted; keys with the same text are always in the same order.
SortedIterators(slots) ==
    LET byName == CHOOSE s \in OrdersByName(slots) : TRUE
    IN  [n \in DOMAIN byName |-> IteratorOf(slots, byName[n])]

IsLarge(v) == Type(v) = "table" /\ Size(heap, v) >= MaxTableSizeToSort
IsSorted(v) == Type(v) = "table" /\ ~IsLarge(v)

\* Arrays and large tables: an iterator goes on the stack.
StartIterating ==
    /\ AtLeaf("list")
    /\ Type(At(stack, -1)) = "array" \/ IsLarge(At(stack, -1))
    /\ stack' = Push(stack, Integer(cmd.begin))
    /\ phase' = "iterate"
    /\ UNCHANGED <<heap, cmd, rest, calls, order, out, rc, view>>

\* Other tables: beginIterator counts in the sorted order.
StartSorted ==
    LET sorted == SortedIterators(Slots(heap, At(stack, -1)))
    IN  /\ AtLeaf("list") /\ IsSorted(At(stack, -1))
        /\ cmd.begin <= Len(sorted)
        /\ order' = SubSeq(sorted, cmd.begin + 1, Len(sorted))
        /\ phase' = "sorted"
        /\ UNCHANGED <<heap, stack, cmd, rest, calls, out, rc, view>>

\* begin() + beginIterator beyond end(): undefined, and no promise holds after it.
StartPastEnd ==
    /\ AtLeaf("list") /\ IsSorted(At(stack, -1))
    /\ cmd.begin > Size(heap, At(stack, -1))
    /\ phase' = "crashed"
    /\ UNCHANGED <<heap, stack, cmd, rest, calls, order, out, rc, view>>

NothingToList ==
    /\ AtLeaf("list")
    /\ Type(At(stack, -1)) \notin {"array", "table"}
    /\ phase' = "unwind"
    /\ UNCHANGED <<heap, stack, cmd, rest, calls, order, out, rc, view>>

\* The iterator is At(stack, -1), the container At(stack, -2).
NextInContainer == NextSlot(Slots(heap, At(stack, -2)), At(stack, -1)[2])

AddNext ==
    LET slots == Slots(heap, At(stack, -2))
        iter  == At(stack, -1)[2]
        i     == NextInContainer
    IN  /\ phase = "iterate" /\ Len(out) < cmd.count /\ i # 0
        /\ out' = Append(out, Variable(iter, NameOf[slots[i].key], slots[i].val))
        /\ stack' = Push(Pop(stack, 1), Integer(i))
        /\ UNCHANGED <<heap, cmd, phase, rest, calls, order, rc, view>>

EndIterating ==
    /\ phase = "iterate"
    /\ Len(out) >= cmd.count \/ NextInContainer = 0
    /\ stack' = Pop(stack, 1)
    /\ phase' = "unwind"
    /\ UNCHANGED <<heap, cmd, rest, calls, order, out, rc, view>>

AddSorted ==
    LET slots == Slots(heap, At(stack, -1))
        i     == NextSlot(slots, Head(order))
    IN  /\ phase = "sorted" /\ order # <<>> /\ Len(out) < cmd.count
        /\ out' = Append(out, Variable(Head(order), NameOf[slots[i].key], slots[i].val))
        /\ order' = Tail(order)
        /\ UNCHANGED <<heap, stack, cmd, phase, rest, calls, rc, view>>

EndSorted ==
    /\ phase = "sorted"
    /\ order = <<>> \/ Len(out) >= cmd.count
    /\ order' = <<>>
    /\ phase' = "unwind"
    /\ UNCHANGED <<heap, stack, cmd, rest, calls, out, rc, view>>

\* WithStackRootVariables: locals are named by their place, and cannot be edited.
AddLocal ==
    LET n == cmd.begin + Len(out)
    IN  /\ phase = "locals" /\ Len(out) < cmd.count /\ HasLocal(cmd.target.frame, n)
        /\ out' = Append(out, [Variable(n, n, Local(cmd.target.frame, n)) EXCEPT !.editable = FALSE])
        /\ UNCHANGED <<heap, stack, cmd, phase, rest, calls, order, rc, view>>

EndLocals ==
    /\ phase = "locals"
    /\ Len(out) >= cmd.count \/ ~HasLocal(cmd.target.frame, cmd.begin + Len(out))
    /\ phase' = "reply"
    /\ UNCHANGED <<heap, stack, cmd, rest, calls, order, out, rc, view>>

-----------------------------------------------------------------------------
(* SetStackVariableValue at the end of its path, with UpdateFromString.  The *)
(* indices -2 and -4 are right for an entry of a table, with its key and the *)
(* iterator below the value; an element of an array has neither.             *)

\* Mutant: whatever the variable was, it becomes a string.
ParsedAsString(type, text) == <<"string", text>>

\* The value that the text stands for, Null when there is none.
Parsed(type, text) ==
    CASE type = "string" -> <<"string", text>>
      [] type \in {"bool", "integer", "float"} -> Parse[type][text]
      [] OTHER -> Null

RejectText ==
    /\ AtLeaf("set")
    /\ Parsed(Type(At(stack, -1)), cmd.text) = Null
    /\ rc' = "InvalidParameter"
    /\ phase' = "unwind"
    /\ UNCHANGED <<heap, stack, cmd, rest, calls, order, out, view>>

\* Mutant: where the comment on the lambda (SquirrelDebugger.cpp:199) puts the container.
ContainerAsCommented == -3

\* objIdx, with the key and the new value on the stack.
ContainerIndex == -4

\* The key is pushed again before the value is read back, since sq_set takes it.
UpdateFromString ==
    LET container == At(stack, ContainerIndex)
        key       == At(stack, -2)
        new       == Parsed(Type(At(stack, -1)), cmd.text)
    IN  /\ AtLeaf("set")
        /\ new # Null
        /\ IF HasKey(heap, container, key)
           THEN /\ heap' = SetValue(heap, container, key, new)
                /\ stack' = Pop(stack, 2) \o <<key, ValueOf(heap', container, key)>>
                /\ out' = <<Variable(0, 0, ValueOf(heap', container, key))>>
                /\ UNCHANGED rc
           ELSE /\ stack' = Push(Pop(stack, 1), new)
                /\ rc' = "ErrorInternal"
                /\ UNCHANGED <<heap, out>>
        /\ phase' = "unwind"
        /\ UNCHANGED <<cmd, rest, calls, order, view>>

-----------------------------------------------------------------------------
(* The client, the script *)

\* What an iterator leads to in the value v: nothing, if v is no container.
Child(h, v, part) ==
    LET i == NextSlot(Slots(h, v), part)
    IN  IF i = 0 THEN Null ELSE Slots(h, v)[i].val

\* The n-th part is followed from what the first n - 1 lead to.
Followed(h, v, parts) ==
    LET value[n \in 0 .. Len(parts)] ==
            IF n = 0 THEN v ELSE Child(h, value[n - 1], parts[n])
    IN  value[Len(parts)]

\* Where a path starts, and the parts that are followed from there.
Start(target) == IF target.scope = "local" THEN Local(target.frame, target.path[1]) ELSE Root
Parts(target) == IF target.scope = "local" THEN Tail(target.path) ELSE target.path

\* The value that a path names.
ValueAt(target) == Followed(heap, Start(target), Parts(target))

\* The variable of which a target is a child, and the part of the path that leads to the child.
Parent(target)   == [target EXCEPT !.path = SubSeq(@, 1, Len(@) - 1)]
LastPart(target) == target.path[Len(target.path)]

IsLargeTarget(target) ==
    /\ target.scope = "global" \/ target.path # <<>>
    /\ IsLarge(ValueAt(target))

\* Where the next page begins: in a large table at the last variable that was listed,
\* which comes again, elsewhere after as many as were listed.
NextBegin ==
    IF IsLargeTarget(view.target) THEN view.entries[Len(view.entries)].pathIterator
    ELSE Len(view.entries)

\* The client adds the page to what it knows, if that is where it belongs.
ViewWith(page, target, begin, count) ==
    IF begin = 0 THEN [target |-> target, entries |-> page, complete |-> Len(page) < count]
    ELSE IF target = view.target /\ ~view.complete /\ view.entries # <<>> /\ begin = NextBegin
    THEN [view EXCEPT
            !.entries  = @ \o IF IsLargeTarget(target) /\ page # <<>> THEN Tail(page) ELSE page,
            !.complete = Len(page) < count]
    ELSE view

Reply ==
    /\ phase = "reply"
    /\ phase' = "idle"
    /\ view' = IF cmd.op = "list" /\ rc = "Success"
               THEN ViewWith(out, cmd.target, cmd.begin, cmd.count) ELSE view
    /\ cmd' = NoCommand
    /\ out' = <<>>
    /\ rest' = <<>>
    /\ rc' = "Success"
    /\ UNCHANGED <<heap, stack, calls, order>>

\* The script runs and stops again; paths of earlier stops mean nothing now.
ScriptRuns ==
    /\ phase = "idle"
    /\ heap' \in Heaps
    /\ view' = NoView
    /\ UNCHANGED <<stack, cmd, phase, rest, calls, order, out, rc>>

Command ==
    \E target \in Targets :
        \/ \E begin \in Iterator, count \in Count : GetVariables(target, begin, count)
        \/ \E text \in Text : SetStackVariableValue(target, text)

Walk == DescendArray \/ DescendTable \/ PathFails \/ Unwind \/ PopRoot

ListChildren ==
    \/ StartIterating \/ AddNext \/ EndIterating
    \/ StartSorted \/ StartPastEnd \/ AddSorted \/ EndSorted
    \/ AddLocal \/ EndLocals \/ NothingToList

Init ==
    /\ heap \in Heaps
    /\ stack = Registers
    /\ cmd = NoCommand
    /\ phase = "idle"
    /\ rest = <<>>
    /\ calls = <<>>
    /\ order = <<>>
    /\ out = <<>>
    /\ rc = "Success"
    /\ view = NoView

Next == Command \/ Walk \/ ListChildren \/ RejectText \/ UpdateFromString \/ Reply \/ ScriptRuns

Spec == Init /\ [][Next]_vars

-----------------------------------------------------------------------------
(* Properties *)

\* Types: containers hold slots, the stack values, a call owes no pops or those for an element
\* of an array or an entry of a table, and there is a command exactly outside of "idle".
VariablesTypeOK ==
    /\ heap \in [Container -> Seq(Slot)]
    /\ stack \in Seq(Value)
    /\ rest \in Seq(Iterator)
    /\ calls \in Seq(Call)
    /\ phase \in {"idle", "walk", "iterate", "sorted", "locals", "unwind", "reply", "crashed"}
    /\ rc \in {"Success", "InvalidParameter", "ErrorInternal"}
    /\ cmd \in IF phase = "idle" THEN {NoCommand} ELSE Commands

\* No ScopedVerifySqTop fails (SquirrelVmHelpers.h:63): whichever way a call of WithVariableAtPath
\* ends, at whatever depth, its caller's pops bring the operand stack back to the depth at which
\* the call began; and between commands the stack is the script's own again.
OperandStackRestored ==
    /\ phase = "unwind" /\ calls # <<>> =>
            Len(stack) - calls[InCall].pops = calls[InCall].depth
    /\ phase = "unwind" /\ calls = <<>> => Len(stack) = Len(Registers) + 1
    /\ phase \in {"idle", "reply"} => stack = Registers

\* A write changes one slot, the one that its path names, keeps its key and its type, and is
\* answered with Success and what the slot now holds; if a client knows the path from a list of
\* this stop, then the slot is the variable of that name.  Nothing else but the script changes
\* containers, whatever fails (SquirrelDebugger.cpp:190-221, UpdateFromString).
HitsItsTarget ==
    LET c == ValueAt(Parent(cmd.target))
        i == NextSlot(Slots(heap, c), LastPart(cmd.target))
    IN  /\ cmd.op = "set" /\ rc' = "Success"
        /\ heap' = [heap EXCEPT ![c][i].val = out'[1].value]
        /\ Type(heap'[c][i].val) = Type(heap[c][i].val)
        /\ view.target = Parent(cmd.target) =>
             \A n \in DOMAIN view.entries :
                view.entries[n].pathIterator = LastPart(cmd.target) =>
                    view.entries[n].pathUiString = NameOf[heap[c][i].key]

WriteHitsItsTarget == [][cmd # NoCommand /\ heap' # heap => HitsItsTarget]_vars

\* A client that asks for page after page has, when a page comes short, every child exactly once,
\* in the order of their names or, in arrays and large tables, of their slots, and each iterator
\* leads to the child of that name (CreateChildVariables, kMaxTableSizeToSort).
PagesShowEveryChildOnce ==
    view.complete =>
        IF view.target.scope = "local" /\ view.target.path = <<>>
        THEN \A n \in DOMAIN view.entries : view.entries[n].pathIterator = n - 1
        ELSE LET slots == Slots(heap, ValueAt(view.target))
                 slotOf == [n \in DOMAIN view.entries |->
                              NextSlot(slots, view.entries[n].pathIterator)]
             IN  /\ Len(slotOf) = Cardinality(Filled(slots))
                 /\ {slotOf[n] : n \in DOMAIN slotOf} = Filled(slots)
                 /\ \A n \in DOMAIN slotOf :
                        view.entries[n].pathUiString = NameOf[slots[slotOf[n]].key]
                 /\ \A n \in 2 .. Len(slotOf) :
                        IF IsSorted(ValueAt(view.target))
                        THEN view.entries[n - 1].pathUiString <= view.entries[n].pathUiString
                        ELSE slotOf[n - 1] < slotOf[n]

\* The write in progress is to a variable that was listed as editable, in a container of one of
\* these types, and its text can be parsed.
EditsListedIn(types) ==
    /\ cmd # NoCommand
    /\ cmd.op = "set"
    /\ view.target = Parent(cmd.target)
    /\ Len(cmd.target.path) > 1
    /\ Type(ValueAt(Parent(cmd.target))) \in types
    /\ \E n \in DOMAIN view.entries :
          /\ view.entries[n].pathIterator = LastPart(cmd.target)
          /\ view.entries[n].editable
          /\ Parsed(Type(view.entries[n].value), cmd.text) # Null

\* A client's write to an entry of a table that was listed as editable succeeds
\* (CreateChildVariable:392-399 against SetStackVariableValue).
EditableEntriesCanBeSet == phase = "reply" /\ EditsListedIn({"table"}) => rc = "Success"

\* "Modification of variable values (int, bool, float and string only.)" (readme.md:41) holds for
\* whatever is listed as editable, elements of arrays too.
EditableVariablesCanBeSet ==
    phase = "reply" /\ EditsListedIn({"table", "array"}) => rc = "Success"
=============================================================================
