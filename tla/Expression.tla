----------------------------- MODULE Expression -----------------------------
(***************************************************************************)
(* Watch expressions: GetImmediateValue parses a text such as a.b['c'][0]  *)
(* and looks the value up in a frame of the stopped script                 *)
(* (SquirrelDebugger.cpp, and ParseExpression and GetObjectFromExpression  *)
(* in SquirrelVmHelpers.cpp).                                              *)
(*                                                                         *)
(* A text is read token by token.  An expression is a sequence of nodes,   *)
(* where the code has a list linked by next; the accessor of a node is the *)
(* expression between square brackets, or <<>>.  The C++ stack of          *)
(* ParseExpression is open.  SquirrelDebugger shows when the command holds *)
(* the mutex; every look-up leaves the operand stack as it was.            *)
(***************************************************************************)
EXTENDS VmStack, SequencesExt

CONSTANTS
    OperandToken,   \* names, numbers and strings, as values of the VM with their kind
    Heap,           \* what the script's tables and arrays hold
    Root,           \* the root table
    Locals,         \* for each frame its locals, in the order of sq_getlocal
    LongMax,        \* the largest number that strtol reads
    MaxText         \* bound: tokens in a text

ASSUME ExpressionAssumption ==
    /\ \A token \in OperandToken :
          /\ token = [kind |-> token.kind, value |-> token.value]
          /\ \/ token.kind \in {"Identifier", "String"} /\ Type(token.value) = "string"
             \/ token.kind = "Number" /\ token.value \in {"integer"} \X Nat
    \* The slots of a container and the locals of a frame are sequences; see VmStack for arrays.
    /\ \A v \in DOMAIN Heap :
          /\ DOMAIN Heap[v] \subseteq Nat \ {0}
          /\ Type(v) = "array" => \A i \in DOMAIN Heap[v] : Heap[v][i].key = Integer(i - 1)
          /\ \A i, j \in Filled(Heap[v]) : Heap[v][i].key = Heap[v][j].key => i = j
    /\ Len(Locals) \in Nat
    /\ \A n \in 1 .. Len(Locals) : DOMAIN Locals[n] \subseteq Nat \ {0}
    /\ LongMax \in Nat
    /\ MaxText \in Nat

VARIABLES
    frame,      \* stackFrame, -1 for the root table only
    text,       \* the tokens read so far
    phase,      \* "idle", "parse", "closed" after a last ], "evaluate", "follow" or "reply"
    open,       \* the calls of ParseExpression in progress, each with its expression
    root,       \* expressionRoot
    pending,    \* stack: the expressions still to be evaluated
    node,       \* the expression that is being evaluated
    keys,       \* the accessors that GetObjectFromExpression has still to follow
    object,     \* what it has come to, with scope and iteratorPath
    results,    \* expressionResults
    rc          \* the return code

vars == <<frame, text, phase, open, root, pending, node, keys, object, results, rc>>

\* A pointer to an expression: its place, that of the brackets around it from the outermost,
\* with what it points to.
Pointer(place, expr) == [place |-> place, expr |-> expr]

Mark(kind) == [kind |-> kind, value |-> Null]
Token == OperandToken \cup {Mark(k) : k \in {" ", ".", "[", "]", "other", "end"}}

NoText   == <<"string", "">>
Unparsed == [type |-> "Undefined", value |-> NoText, accessor |-> <<>>]

-----------------------------------------------------------------------------
(* ParseExpression *)

Current == Last(Last(open))

\* The current expression with its last node replaced, below with a node more.
WithCurrent(n) == Append(Front(open), Append(Front(Last(open)), n))

\* Mutant: the next node takes the place of the current one.
NextInPlace(n) == Append(Front(open), Append(Front(Last(open)), n))

WithNext(n) == Append(Front(open), Append(Last(open), n))

GetImmediateValue(stackFrame) ==
    /\ phase = "idle"
    /\ frame' = stackFrame
    /\ phase' = "parse"
    /\ open' = <<<<Unparsed>>>>
    /\ UNCHANGED <<text, root, pending, node, keys, object, results, rc>>

\* A WatchParseError, which GetImmediateValue catches.
Throw ==
    /\ rc' = "InvalidParameter"
    /\ phase' = "reply"
    /\ open' = <<>>
    /\ UNCHANGED root

\* The peek after a dot: the next character must begin a name.
AfterDot == text # <<>> /\ Last(text).kind = "."

\* Mutant: an index may follow anything.
IndexAnything(n) == TRUE

\* The node to which an index can be applied.
IsIndexable(n) == n.type \in {"String", "Identifier"}

ReadSpace ==
    /\ ~AfterDot
    /\ UNCHANGED <<phase, open, root, rc>>

ReadDot ==
    IF Current.type # "Identifier" THEN Throw
    ELSE /\ open' = WithNext(Unparsed)
         /\ UNCHANGED <<phase, root, rc>>

ReadOpen ==
    IF ~IsIndexable(Current) THEN Throw
    ELSE /\ open' = Append(WithNext([Unparsed EXCEPT !.type = "Identifier"]), <<Unparsed>>)
         /\ UNCHANGED <<phase, root, rc>>

\* The innermost call returns to its caller, which stores what it has read.
Closed(calls) ==
    LET outer == calls[Len(calls) - 1]
    IN  Append(SubSeq(calls, 1, Len(calls) - 2),
               Append(Front(outer), [Last(outer) EXCEPT !.accessor = Last(calls)]))

ReadClose ==
    IF Current.type = "Undefined" THEN Throw
    ELSE IF Len(open) > 1 THEN open' = Closed(open) /\ UNCHANGED <<phase, root, rc>>
    ELSE phase' = "closed" /\ UNCHANGED <<open, root, rc>>

ReadOperand(token) ==
    IF Current.type # "Undefined" THEN Throw
    ELSE /\ open' = WithCurrent([Current EXCEPT !.type = token.kind, !.value = token.value])
         /\ UNCHANGED <<phase, root, rc>>

\* At the end of the text all calls return; a bracket need not be closed, but not be empty.
AllClosed ==
    LET closed[n \in 0 .. Len(open) - 1] == IF n = 0 THEN open ELSE Closed(closed[n - 1])
    IN  closed[Len(open) - 1]

ReadEnd ==
    IF Len(open) > 1 /\ Last(open)[1].type = "Undefined" THEN Throw
    ELSE /\ root' = AllClosed[1]
         /\ open' = <<>>
         /\ phase' = "evaluate"
         /\ UNCHANGED rc

ReadNext(token) ==
    IF AfterDot /\ token.kind # "Identifier" THEN Throw
    ELSE CASE token.kind = "." -> ReadDot
           [] token.kind = "[" -> ReadOpen
           [] token.kind = "]" -> ReadClose
           [] token.kind \in {"Identifier", "Number", "String"} -> ReadOperand(token)
           [] token.kind = " " -> ReadSpace
           [] token.kind = "end" -> ReadEnd
           [] OTHER -> Throw

\* What follows a ] without a bracket to close is "Invalid content after the end".
ReadAfterEnd(token) == IF token.kind = "end" THEN ReadEnd ELSE Throw

ParseExpression(token) ==
    /\ phase \in {"parse", "closed"}
    /\ token.kind # "end" => Len(text) < MaxText
    /\ text' = Append(text, token)
    /\ IF phase = "parse" THEN ReadNext(token) ELSE ReadAfterEnd(token)
    /\ pending' = IF phase' = "evaluate" THEN <<Pointer(<<>>, root')>> ELSE <<>>
    /\ UNCHANGED <<frame, node, keys, object, results>>

-----------------------------------------------------------------------------
(* GetObjectFromExpression; an instance of a class is searched like a table. *)

\* iterKey._unVal.raw: what is left of a key without its type.
Raw(v) ==
    CASE v = <<"bool", "false">> -> Integer(0)
      [] v = <<"bool", "true">>  -> Integer(1)
      [] OTHER -> v

\* The first iterator from which sq_next reaches a slot whose key has the same raw value.
IteratorTo(slots, key) ==
    LET found == {iter \in {0} \cup Filled(slots) :
                    /\ NextSlot(slots, iter) # 0
                    /\ Raw(slots[NextSlot(slots, iter)].key) = Raw(key)}
    IN  CHOOSE iter \in found : \A j \in found : iter <= j

\* Mutant: the iterator is read after sq_next has moved it on.
PartAfter(slots, iter) == NextSlot(slots, iter)

PartOf(slots, iter) == iter

\* The child of a value under this key, if any, with its part of the path.
Children(v, key) ==
    LET slots == Slots(Heap, v)
    IN  CASE Type(v) = "array" /\ Type(key) = "integer" ->
                {[value |-> slots[i].val, part |-> key[2]] : i \in SlotsOf(Heap, v, key)}
          [] Type(v) = "table" /\ HasKey(Heap, v, key) ->
                {[value |-> slots[NextSlot(slots, iter)].val, part |-> PartOf(slots, iter)] :
                    iter \in {IteratorTo(slots, key)}}
          [] OTHER -> {}

Object(scope, v, path) == [scope |-> scope, value |-> v, path |-> path]
NoObject == Object("none", Null, <<>>)

FollowKey ==
    /\ phase = "follow" /\ keys # <<>>
    /\ \E child \in Children(object.value, Head(keys)) :
          object' = [object EXCEPT !.value = child.value, !.path = Append(@, child.part)]
    /\ keys' = Tail(keys)
    /\ UNCHANGED <<frame, text, phase, open, root, pending, node, results, rc>>

NoSuchChild ==
    /\ phase = "follow" /\ keys # <<>>
    /\ Children(object.value, Head(keys)) = {}
    /\ rc' = "InvalidParameter"
    /\ phase' = "reply"
    /\ UNCHANGED <<frame, text, open, root, pending, node, keys, object, results>>

-----------------------------------------------------------------------------
(* The evaluation in GetImmediateValue *)

AccessorOf(ptr, i)   == Pointer(Append(ptr.place, i), ptr.expr[i].accessor)

\* The accessors of an expression without a result, in the order of its nodes.
Unresolved(ptr) ==
    FlattenSeq([i \in DOMAIN ptr.expr |->
        IF ptr.expr[i].accessor # <<>> /\ AccessorOf(ptr, i).place \notin DOMAIN results
        THEN <<AccessorOf(ptr, i)>> ELSE <<>>])

\* An expression with unresolved accessors stays below them on the stack.
AwaitAccessors ==
    /\ phase = "evaluate" /\ pending # <<>>
    /\ Unresolved(Last(pending)) # <<>>
    /\ pending' = pending \o Unresolved(Last(pending))
    /\ UNCHANGED <<frame, text, phase, open, root, node, keys, object, results, rc>>

\* Mutant: an accessor is replaced by the first node, too.
KeysOfFirst(ptr) == [i \in DOMAIN ptr.expr |-> ptr.expr[1].value]

\* The keys of all nodes.  Without an accessor it is the value of the first one, node, that
\* is taken for all of them, and not the value of nodeIter.
Keys(ptr) ==
    [i \in DOMAIN ptr.expr |->
        IF ptr.expr[i].accessor # <<>> THEN results[AccessorOf(ptr, i).place].value
        ELSE ptr.expr[1].value]

\* The locals of the frame with this name; the first one counts.
LocalsNamed(name) ==
    IF frame >= 0 /\ frame < Len(Locals)
    THEN {n \in DOMAIN Locals[frame + 1] : Locals[frame + 1][n].name = name} ELSE {}

\* Mutant: stack.pop_back() is missing.
NotPopped == pending

Popped == Front(pending)

\* A name is looked up in the frame, then in the root table.  The code puts the local alone in
\* a table, and replaces the first part of the path, the place in that table, by nSeq.
LookUp(name, rest) ==
    IF LocalsNamed(name) # {}
    THEN LET n == CHOOSE n \in LocalsNamed(name) : \A m \in LocalsNamed(name) : n <= m
         IN  /\ object' = Object("Local", Locals[frame + 1][n].value, <<n - 1>>)
             /\ keys' = rest
    ELSE /\ object' = Object("Global", Root, <<>>)
         /\ keys' = <<name>> \o rest

EvaluateNode ==
    LET first == Last(pending).expr[1]
        all   == Keys(Last(pending))
    IN  /\ phase = "evaluate" /\ pending # <<>>
        /\ Unresolved(Last(pending)) = <<>>
        /\ first.type = "Number" => first.value[2] <= LongMax
        /\ phase' = "follow"
        /\ pending' = Popped
        /\ node' = Last(pending)
        /\ IF first.type = "Identifier" THEN LookUp(all[1], Tail(all))
           \* Others stand for themselves, even if an index follows.
           ELSE object' = Object("Evaluation", all[1], <<>>) /\ keys' = <<>>
        /\ UNCHANGED <<frame, text, open, root, results, rc>>

\* strtol: ERANGE
NumberTooLarge ==
    LET first == Last(pending).expr[1]
    IN  /\ phase = "evaluate" /\ pending # <<>>
        /\ Unresolved(Last(pending)) = <<>>
        /\ first.type = "Number" /\ first.value[2] > LongMax
        /\ rc' = "InvalidParameter"
        /\ phase' = "reply"
        /\ UNCHANGED <<frame, text, open, root, pending, node, keys, object, results>>

StoreResult ==
    /\ phase = "follow" /\ keys = <<>>
    /\ results' = [place \in DOMAIN results \cup {node.place} |->
                      IF place = node.place THEN object ELSE results[place]]
    /\ phase' = "evaluate"
    /\ UNCHANGED <<frame, text, open, root, pending, node, keys, object, rc>>

\* The value of the whole expression is the answer.
Answer ==
    /\ phase = "evaluate" /\ pending = <<>>
    /\ phase' = "reply"
    /\ UNCHANGED <<frame, text, open, root, pending, node, keys, object, results, rc>>

NoResults == [place \in {} |-> NoObject]

Reply ==
    /\ phase = "reply"
    /\ phase' = "idle"
    /\ frame' = -1
    /\ text' = <<>>
    /\ root' = <<>>
    /\ pending' = <<>>
    /\ node' = Pointer(<<>>, <<>>)
    /\ keys' = <<>>
    /\ object' = NoObject
    /\ results' = NoResults
    /\ rc' = "Success"
    /\ UNCHANGED open

-----------------------------------------------------------------------------

Init ==
    /\ frame = -1
    /\ text = <<>>
    /\ phase = "idle"
    /\ open = <<>>
    /\ root = <<>>
    /\ pending = <<>>
    /\ node = Pointer(<<>>, <<>>)
    /\ keys = <<>>
    /\ object = NoObject
    /\ results = NoResults
    /\ rc = "Success"

EvaluationStep ==
    \/ AwaitAccessors \/ EvaluateNode \/ NumberTooLarge
    \/ FollowKey \/ NoSuchChild \/ StoreResult
    \/ Answer \/ Reply

Next ==
    \/ \E stackFrame \in -1 .. Len(Locals) : GetImmediateValue(stackFrame)
    \/ \E token \in Token : ParseExpression(token)
    \/ EvaluationStep

\* Only the text comes from outside; the loop of the command and its return need nothing else.
Spec == Init /\ [][Next]_vars /\ WF_vars(EvaluationStep)
=============================================================================
