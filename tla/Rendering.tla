----------------------------- MODULE Rendering ------------------------------
(***************************************************************************)
(* How one variable is shown to a client (SquirrelVmHelpers.cpp):          *)
(* CreateChildVariable, the summaries that ToString makes of tables and    *)
(* instances, and the search of ToClassFullName for the name of a class.   *)
(*                                                                         *)
(* All of this works on the operand stack of the stopped script and calls  *)
(* itself: `calls` are the functions in progress, the innermost last.      *)
(* Texts are abstracted to their widths, names of classes are sequences of *)
(* keys.                                                                   *)
(***************************************************************************)
EXTENDS VmStack, SequencesExt

CONSTANTS
    HeapsToShow,        \* what tables and instances can hold
    RootTable,          \* the root table
    Subjects,           \* the variables to be shown
    ClassOf,            \* the class of each instance
    LocalsLists,        \* the script's locals, with their names, innermost frame first
    WidthOf,            \* for each value that is no container, the length of its text
    PlaceOf,            \* for each key, its place in alphabetical order
    MaxSizeToSort,      \* kMaxTableSizeToSort
    MaxSummary,         \* kMaxTableValueStringLength
    MaxCalls            \* bound: calls in progress, until the thread's stack is used up

ASSUME RenderingAssumption == MaxSizeToSort \in Nat /\ MaxSummary \in Nat /\ MaxCalls \in Nat

\* A container is a sequence of slots; an instance has a class.
ASSUME ShownAssumption ==
    /\ \A heap \in HeapsToShow :
          IsFiniteSet(DOMAIN heap) /\ \A c \in DOMAIN heap : DOMAIN heap[c] \subseteq Nat \ {0}
    /\ \A v \in Subjects :
          Type(v) = "instance" => v \in DOMAIN ClassOf /\ Type(ClassOf[v]) = "class"
    /\ Type(RootTable) = "table"

VARIABLES
    held,        \* what the containers hold
    locals,      \* the locals
    operands,    \* the operand stack, from the variable on
    calls,       \* the calls in progress
    classNames,  \* the map of ToClassFullName
    result,      \* what the last call has returned: a width, or a name
    mode         \* "running", "returned", "thrown", "overflow" or "crashed"

renderingVars == <<held, locals, operands, calls, classNames, result, mode>>

\* A call of fn; the other fields are its local variables.
CallOf(fn) == [fn |-> fn, at |-> "begin", prefix |-> <<>>, iters |-> {},
              width |-> 0, value |-> 0, count |-> 0]

RenderingInit ==
    /\ held \in HeapsToShow
    /\ locals \in LocalsLists
    /\ \E v \in Subjects : operands = <<v>>
    /\ calls = <<CallOf("CreateChildVariable")>>
    /\ classNames = <<>> /\ result = 0 /\ mode = "running"

Current == Last(calls)
Reached(at) == [Current EXCEPT !.at = at]
Where(fn, at) == mode = "running" /\ calls # <<>> /\ Current.fn = fn /\ Current.at = at

GoOn(call)  == calls' = Front(calls) \o <<call>> /\ UNCHANGED <<result, mode>>
Returns(v)  == calls' = Front(calls) /\ result' = v /\ UNCHANGED mode
CallFrom(call, callee) ==
    IF Len(calls) < MaxCalls
    THEN calls' = Front(calls) \o <<call, callee>> /\ UNCHANGED <<result, mode>>
    ELSE mode' = "overflow" /\ UNCHANGED <<calls, result>>

Top == At(operands, -1)

-----------------------------------------------------------------------------
(* CreateChildVariable *)

ShowValue ==
    /\ Where("CreateChildVariable", "begin")
    /\ CallFrom(Reached("shown"), CallOf("ToString"))
    /\ UNCHANGED operands

\* sq_getclass pushes the class of an instance.
ShowClass ==
    /\ Where("CreateChildVariable", "shown") /\ Type(Top) = "instance"
    /\ operands' = Push(operands, ClassOf[Top])
    /\ CallFrom(Reached("named"), CallOf("ToClassFullName"))

ClassShown ==
    /\ Where("CreateChildVariable", "named")
    /\ operands' = Pop(operands, 1)
    /\ GoOn(Reached("counting"))

\* The number of children; whatever is pushed for it is popped.
CountChildren ==
    /\ \/ Where("CreateChildVariable", "counting")
       \/ Where("CreateChildVariable", "shown") /\ Type(Top) # "instance"
    /\ mode' = "returned"
    /\ UNCHANGED <<operands, calls, result>>

-----------------------------------------------------------------------------
(* ToString, of the value on top *)

\* Mutant: a class is shown by what it is shown as.
RenderClassAgain ==
    /\ Where("ToString", "begin")
    /\ CASE Type(Top) = "class" ->
              CallFrom(Reached("named"), CallOf("ToString"))
         [] Type(Top) \in {"table", "instance"} -> GoOn(Reached("summary"))
         [] OTHER -> Returns(WidthOf[Top])
    /\ UNCHANGED operands

RenderValue ==
    /\ Where("ToString", "begin")
    /\ CASE Type(Top) = "class" ->
              CallFrom(Reached("named"), CallOf("ToClassFullName"))
         [] Type(Top) \in {"table", "instance"} -> GoOn(Reached("summary"))
         [] OTHER -> Returns(WidthOf[Top])
    /\ UNCHANGED operands

\* Each key of a name is one character wide.
ClassRendered ==
    /\ Where("ToString", "named")
    /\ Returns(2 * Len(result) - 1)
    /\ UNCHANGED operands

\* CreateTableSummary.  sq_getsize of an instance is that of its user data, none.
Sorts(v) == Type(v) = "instance" \/ Size(held, v) < MaxSizeToSort

StartSummary ==
    /\ Where("ToString", "summary")
    /\ operands' = Push(operands, Integer(0))
    /\ GoOn(Reached(IF Sorts(Top) THEN "keys" ELSE "slots"))

\* What sq_next leaves in place of the iterator.
Entry(slots, i) == <<Integer(i), slots[i].key, slots[i].val>>

\* The slot that sq_next goes to, with the iterator on top and the container below it.
NextOfContainer ==
    LET iter == IF Top = Null THEN 0 ELSE Top[2]
    IN  NextSlot(Slots(held, At(operands, -2)), iter)

\* The keys of a small table are rendered first ...
NextKey ==
    LET slots == Slots(held, At(operands, -2)) IN
    /\ Where("ToString", "keys") /\ NextOfContainer # 0
    /\ operands' = Pop(operands, 1) \o SubSeq(Entry(slots, NextOfContainer), 1, 2)
    /\ CallFrom([Reached("keyRendered") EXCEPT !.iters = @ \cup {Top[2]}], CallOf("ToString"))

KeyRendered ==
    /\ Where("ToString", "keyRendered")
    /\ operands' = Pop(operands, 1)
    /\ GoOn(Reached("keys"))

\* ... and its iterators sorted by them: the fields are written in this order.
SortKeys ==
    /\ Where("ToString", "keys") /\ NextOfContainer = 0
    /\ operands' = Pop(operands, 1)
    /\ GoOn(Reached("sorted"))

\* WriteTableSummaryFieldHelper for the next iterator, or for the next slot of a large table.
NextSortedField ==
    LET slots == Slots(held, Top)
        place(iter) == PlaceOf[slots[NextSlot(slots, iter)].key]
    IN  /\ Where("ToString", "sorted") /\ Current.width < MaxSummary
        /\ \E iter \in Current.iters :
              /\ \A other \in Current.iters : place(iter) <= place(other)
              /\ operands' = operands \o Entry(slots, NextSlot(slots, iter))
              /\ CallFrom([Reached("value") EXCEPT !.iters = @ \ {iter}], CallOf("ToString"))

NextField ==
    /\ Where("ToString", "slots")
    /\ 1 + Current.width < MaxSummary /\ NextOfContainer # 0
    /\ operands' = Pop(operands, 1) \o Entry(Slots(held, At(operands, -2)), NextOfContainer)
    /\ CallFrom([Reached("value") EXCEPT !.count = @ + 1], CallOf("ToString"))

\* Back to the loop; a sorted table's iterator is popped as well.
BackToLoop(pops, width) ==
    LET sorted == Current.count = 0 IN
    /\ operands' = Pop(operands, pops + IF sorted THEN 1 ELSE 0)
    /\ GoOn([Reached(IF sorted THEN "sorted" ELSE "slots") EXCEPT !.width = width])

\* Mutant: only the value of a field that is left out is popped.
LeaveOutValue ==
    /\ Where("ToString", "value") /\ result = 0
    /\ BackToLoop(1, Current.width)

\* A field whose value has an empty text is left out.
LeaveOutField ==
    /\ Where("ToString", "value") /\ result = 0
    /\ BackToLoop(2, Current.width)

ValueRendered ==
    /\ Where("ToString", "value") /\ result # 0
    /\ operands' = Pop(operands, 1)
    /\ CallFrom([Reached("field") EXCEPT !.value = result], CallOf("ToString"))

\* isFirst; in a large table also when what came first has been left out.
IsFirst == IF Current.count = 0 THEN Current.width = 0 ELSE Current.count = 1

FieldRendered ==
    /\ Where("ToString", "field")
    /\ BackToLoop(1, Current.width + (IF IsFirst THEN 0 ELSE 2) + result + 2 + Current.value)

EndSortedSummary ==
    /\ Where("ToString", "sorted")
    /\ Current.width >= MaxSummary \/ Current.iters = {}
    /\ Returns(Current.width + 2)
    /\ UNCHANGED operands

EndSummary ==
    /\ Where("ToString", "slots")
    /\ 1 + Current.width >= MaxSummary \/ NextOfContainer = 0
    /\ operands' = Pop(operands, 1)
    /\ Returns(Current.width + 2)

-----------------------------------------------------------------------------
(* ToClassFullName, of the class on top *)

Names(name) == classNames' = name

SearchRoot ==
    /\ Where("ToClassFullName", "begin")
    /\ operands' = Push(operands, RootTable)
    /\ Names(<<>>)
    /\ CallFrom(Reached("rootSearched"), CallOf("getClassesFullNameHelper"))

RootSearched ==
    LET class == At(operands, -2) IN
    /\ Where("ToClassFullName", "rootSearched")
    /\ operands' = Pop(operands, 1)
    /\ IF class \in DOMAIN classNames THEN Returns(classNames[class])
       ELSE GoOn(Reached("locals"))
    /\ UNCHANGED classNames

NextLocal == locals[Current.count + 1]

\* A local that is the class is its name.  The tables among the locals are searched, but nobody
\* looks at what has been found in them.
LookAtLocal ==
    /\ Where("ToClassFullName", "locals") /\ Current.count < Len(locals)
    /\ \/ /\ NextLocal.value = Top
          /\ Returns(<<NextLocal.name>>) /\ UNCHANGED operands
       \/ /\ NextLocal.value # Top /\ Type(NextLocal.value) = "table"
          /\ operands' = Push(operands, NextLocal.value)
          /\ CallFrom(Reached("localSearched"), CallOf("getClassesFullNameHelper"))
       \/ /\ NextLocal.value # Top /\ Type(NextLocal.value) # "table"
          /\ GoOn([Current EXCEPT !.count = @ + 1]) /\ UNCHANGED operands
    /\ UNCHANGED classNames

LocalSearched ==
    /\ Where("ToClassFullName", "localSearched")
    /\ operands' = Pop(operands, 1)
    /\ GoOn([Reached("locals") EXCEPT !.count = @ + 1])
    /\ UNCHANGED classNames

\* runtime_error("Unknown class"): the callers pop nothing any more.
UnknownClass ==
    /\ Where("ToClassFullName", "locals") /\ Current.count = Len(locals)
    /\ mode' = "thrown"
    /\ UNCHANGED <<operands, calls, result, classNames>>

(* getClassesFullNameHelper, for the table on top *)

StartClasses ==
    /\ Where("getClassesFullNameHelper", "begin")
    /\ operands' = Push(operands, Null)
    /\ GoOn(Reached("next"))
    /\ UNCHANGED classNames

NextEntry == Slots(held, At(operands, -2))[NextOfContainer]
HasEntry(types) ==
    /\ Where("getClassesFullNameHelper", "next")
    /\ NextOfContainer # 0
    /\ Type(NextEntry.val) \in types

\* Mutant: the namespace around the table is forgotten.
KeyAlone == <<NextEntry.key[2]>>

\* newNamespace
FullName == Append(Current.prefix, NextEntry.key[2])

Advance == operands' = Push(Pop(operands, 1), Integer(NextOfContainer))

PassValue ==
    /\ Where("getClassesFullNameHelper", "next") /\ NextOfContainer # 0
    /\ ~HasEntry({"table", "class"})
    /\ Advance
    /\ UNCHANGED <<calls, result, mode, classNames>>

\* sq_getstring leaves the pointer as it is when the key is no string.
UseNoKey ==
    /\ HasEntry({"table", "class"}) /\ Type(NextEntry.key) # "string"
    /\ mode' = "crashed"
    /\ UNCHANGED <<operands, calls, result, classNames>>

AddClass ==
    /\ HasEntry({"class"}) /\ Type(NextEntry.key) = "string"
    /\ NextEntry.val \notin DOMAIN classNames
    /\ classNames' = [c \in DOMAIN classNames \cup {NextEntry.val} |->
                         IF c = NextEntry.val THEN FullName ELSE classNames[c]]
    /\ Advance
    /\ UNCHANGED <<calls, result, mode>>

\* A class that is known already ends the loop, whatever comes after it in the table.
BreakAtKnownClass ==
    /\ HasEntry({"class"}) /\ Type(NextEntry.key) = "string"
    /\ NextEntry.val \in DOMAIN classNames
    /\ operands' = Pop(operands, 1)
    /\ Returns(0)
    /\ UNCHANGED classNames

DescendTable ==
    /\ HasEntry({"table"}) /\ Type(NextEntry.key) = "string"
    /\ operands' = Pop(operands, 1) \o Entry(Slots(held, At(operands, -2)), NextOfContainer)
    /\ CallFrom(Reached("descended"),
                [CallOf("getClassesFullNameHelper") EXCEPT !.prefix = FullName])
    /\ UNCHANGED classNames

TableDescended ==
    /\ Where("getClassesFullNameHelper", "descended")
    /\ operands' = Pop(operands, 2)
    /\ GoOn(Reached("next"))
    /\ UNCHANGED classNames

EndClasses ==
    /\ Where("getClassesFullNameHelper", "next") /\ NextOfContainer = 0
    /\ operands' = Pop(operands, 1)
    /\ Returns(0)
    /\ UNCHANGED classNames

-----------------------------------------------------------------------------
CreateChildVariableStep == ShowValue \/ ShowClass \/ ClassShown \/ CountChildren

ToStringStep ==
    \/ RenderValue \/ ClassRendered \/ StartSummary \/ NextKey \/ KeyRendered \/ SortKeys
    \/ NextSortedField \/ NextField \/ LeaveOutField \/ ValueRendered \/ FieldRendered
    \/ EndSortedSummary \/ EndSummary

ToClassFullNameStep == SearchRoot \/ RootSearched \/ LookAtLocal \/ LocalSearched \/ UnknownClass

GetClassesFullNameStep ==
    \/ StartClasses \/ PassValue \/ UseNoKey \/ AddClass \/ BreakAtKnownClass
    \/ DescendTable \/ TableDescended \/ EndClasses

RenderingNext ==
    /\ \/ (CreateChildVariableStep \/ ToStringStep) /\ UNCHANGED classNames
       \/ ToClassFullNameStep
       \/ GetClassesFullNameStep
    /\ UNCHANGED <<held, locals>>

RenderingSpec == RenderingInit /\ [][RenderingNext]_renderingVars

-----------------------------------------------------------------------------
(* Properties *)

\* What a table or an instance leads to directly, by a key or a value; and further.
Leads == [c \in DOMAIN held |->
    (UNION {{held[c][i].key, held[c][i].val} : i \in Filled(held[c])}) \cap DOMAIN held]
ContainsItself(c) ==
    \E n \in 1 .. Cardinality(DOMAIN held) : \E walk \in [0 .. n -> DOMAIN held] :
        walk[0] = c /\ walk[n] = c /\ \A i \in 1 .. n : walk[i] \in Leads[walk[i - 1]]

\* A variable is shown unless something contains itself: however deep tables and instances are in
\* each other, and classes in tables, neither summaries nor the search for names go on for ever.
OnlyCyclesOverflow == mode = "overflow" => \E c \in DOMAIN held : ContainsItself(c)

\* The operand stack is that of the stopped script.  Unless an exception is thrown, all that these
\* functions push they pop: fields that are shown, left out or cut off, classes known already, or
\* found before the table that is searched has come to its end.
PopsWhatItPushes == mode = "returned" => Len(operands) = 1

\* The places of the tables, each a slot of one of them.
Places == UNION {{c} \X Filled(held[c]) : c \in {t \in DOMAIN held : Type(t) = "table"}}
ValueAt(place) == held[place[1]][place[2]].val
KeyAt(place)   == held[place[1]][place[2]].key

\* Every table and every class is in one place at most, and the root table in none.
IsTree ==
    \A p \in Places : Type(ValueAt(p)) \in {"table", "class"} =>
        /\ ValueAt(p) # RootTable
        /\ \A q \in Places : ValueAt(q) = ValueAt(p) => q = p

\* A way leads from the root table to a value, from one table into the next.
IsWay(way, value) ==
    /\ way[1][1] = RootTable /\ ValueAt(way[Len(way)]) = value
    /\ \A i \in 1 .. Len(way) - 1 : ValueAt(way[i]) = way[i + 1][1]
Ways(value) ==
    {way \in UNION {[1 .. n -> Places] : n \in 1 .. Cardinality(DOMAIN held)} : IsWay(way, value)}
NameOf(way) == [i \in 1 .. Len(way) |-> KeyAt(way[i])[2]]

\* "If valueType is Instance, this is set with the full class name." (MessageInterface.h): where
\* the script's classes are each in one place, a class in the root table or in a table that it
\* leads to is found, and its name is the way that leads there.
ClassesAreNamed ==
    IsTree =>
        /\ Where("CreateChildVariable", "named") => \A way \in Ways(Top) : result = NameOf(way)
        /\ mode = "thrown" => Ways(Top) = {}
=============================================================================
