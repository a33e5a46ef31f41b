------------------------- MODULE ExpressionMeaning -------------------------
(***************************************************************************)
(* What watch expressions should be, said without reference to how they    *)
(* are read and evaluated: which texts are expressions, by what may stand  *)
(* next to what and how brackets pair; what an expression looks like when  *)
(* it is written down; and what it means in a frame.                       *)
(***************************************************************************)
EXTENDS Expression

-----------------------------------------------------------------------------
(* Texts *)

\* The last of the first n tokens that is not a space; "start" stands before the text.
LastKind(n) ==
    LET words == {i \in 1 .. n : text[i].kind # " "}
    IN  IF words = {} THEN "start" ELSE text[Max(words)].kind

Operand == {"Identifier", "Number", "String"}

\* What may follow what.  Brackets need not be closed.
MayFollow(kind) ==
    CASE kind = "start"      -> Operand \cup {"end"}
      [] kind = "Identifier" -> {".", "[", "]", "end"}
      [] kind = "Number"     -> {"]", "end"}
      [] kind = "String"     -> {"[", "]", "end"}
      [] kind = "."          -> {"Identifier"}
      [] kind = "["          -> Operand
      [] kind = "]"          -> {".", "[", "]", "end"}

\* How many brackets are open after the first n tokens.
Depth(n) ==
    Cardinality({i \in 1 .. n : text[i].kind = "["}) - Cardinality({i \in 1 .. n : text[i].kind = "]"})

\* A text, or the beginning of one, is an expression as far as it goes.  One ] too many is
\* accepted at the very end.
IsExpression ==
    \A i \in DOMAIN text :
        LET kind == text[i].kind
        IN  /\ IF kind = " " THEN i > 1 => text[i - 1].kind # "." ELSE kind \in MayFollow(LastKind(i - 1))
            /\ Depth(i) >= -1
            /\ Depth(i - 1) = -1 => kind = "end"

\* The nodes with one of these accessors, and the expressions with d levels of brackets or less.
NodeOf(accessors) ==
    [type     : Operand \cup {"Undefined"},
     value    : {NoText} \cup {token.value : token \in OperandToken},
     accessor : accessors]

Nested[d \in 0 .. MaxText + 1] == IF d = 0 THEN {<<>>} ELSE Seq(NodeOf(Nested[d - 1]))

Expressions == Nested[MaxText + 1]

\* The tokens of an expression: its nodes one by one, a name after a dot, an accessor in brackets.
Written[expr \in Expressions] ==
    LET tokens(i) ==
            IF expr[i].accessor # <<>>
            THEN <<Mark("[")>> \o Written[expr[i].accessor] \o <<Mark("]")>>
            ELSE (IF i = 1 THEN <<>> ELSE <<Mark(".")>>)
                 \o (IF expr[i].type = "Undefined" THEN <<>>
                     ELSE <<[kind |-> expr[i].type, value |-> expr[i].value]>>)
    IN  FlattenSeq([i \in DOMAIN expr |-> tokens(i)])

\* What was read, without spaces, and with the brackets that were left open closed.
Completed ==
    LET tokens  == FlattenSeq([i \in DOMAIN text |->
                                 IF text[i].kind \in {" ", "end"} THEN <<>> ELSE <<text[i]>>])
        missing == Depth(Len(text))
    IN  IF missing < 0 THEN Front(tokens)
        ELSE tokens \o [i \in 1 .. missing |-> Mark("]")]

-----------------------------------------------------------------------------
(* Meanings: a value, Nothing, or Unclear *)

Nothing == <<"meaning", "nothing">>
Unclear == <<"meaning", "unclear">>

\* The values of the VM are neither.
ASSUME MeaningAssumption ==
    /\ Type(Root) # "meaning"
    /\ \A v \in DOMAIN Heap : \A i \in DOMAIN Heap[v] : Type(Heap[v][i].val) # "meaning"
    /\ \A n \in 1 .. Len(Locals) : \A i \in DOMAIN Locals[n] : Type(Locals[n][i].value) # "meaning"

\* The child of a value under a key.  GetObjectFromExpression takes keys of different types
\* for the same if their bits are: which of them it finds is left open here.
Under(v, key) ==
    IF v \in {Nothing, Unclear} THEN v
    ELSE IF key \in {Nothing, Unclear} THEN key
    ELSE IF Type(v) \notin {"array", "table"} \/ ~HasKey(Heap, v, key) THEN Nothing
    ELSE IF \E i \in Filled(Slots(Heap, v)) :
               Slots(Heap, v)[i].key # key /\ Raw(Slots(Heap, v)[i].key) = Raw(key)
    THEN Unclear
    ELSE ValueOf(Heap, v, key)

\* The value of a name: of the first local that has it, or in the root table.
Named(name) ==
    IF LocalsNamed(name) = {} THEN Under(Root, name)
    ELSE Locals[frame + 1][Min(LocalsNamed(name))].value

\* The value of the first node.  A number that strtol cannot read has none.
First(expr) ==
    CASE expr[1].type = "Identifier" -> Named(expr[1].value)
      [] expr[1].type = "Number" /\ expr[1].value[2] > LongMax -> Nothing
      [] OTHER -> expr[1].value

\* The meaning of an expression is that of its first node, and of the others in it in turn.
Meaning[expr \in Expressions] ==
    LET key == [i \in DOMAIN expr |->
                   IF expr[i].accessor # <<>> THEN Meaning[expr[i].accessor] ELSE expr[i].value]
        upTo[n \in 1 .. Len(expr)] == IF n > 1 THEN Under(upTo[n - 1], key[n]) ELSE First(expr)
    IN  upTo[Len(expr)]

-----------------------------------------------------------------------------
(* Properties *)

IsAccepted == phase \in {"evaluate", "follow", "reply"} /\ root # <<>>
IsRejected == phase = "reply" /\ root = <<>>

\* A text is rejected at its first token that no expression can have there, and at no other:
\* however brackets nest, what ParseExpression remembers, the type of the current node of each
\* call, is enough (SquirrelVmHelpers.cpp:850-948, SquirrelDebugger.cpp:417-423).
RejectsNothingElse == IF IsRejected THEN ~IsExpression ELSE IsExpression

\* What was read is what was written, in the same order and with the same brackets.
ReadsWhatIsWritten == IsAccepted => Written[root] = Completed

\* Where the parts of a path lead, as WithVariableAtPath follows them for the other commands.
ChildAt(v, part) ==
    IF Type(v) = "array" THEN ValueOf(Heap, v, Integer(part))
    ELSE IF NextSlot(Slots(Heap, v), part) = 0 THEN Null
    ELSE Slots(Heap, v)[NextSlot(Slots(Heap, v), part)].val

AtPath(found) ==
    \* The first part of the path of a local is its place in the frame.
    LET first == IF found.scope = "Local" THEN 1 ELSE 0
        at[n \in first .. Len(found.path)] ==
            IF n > first THEN ChildAt(at[n - 1], found.path[n])
            ELSE IF found.scope = "Local" THEN Locals[frame + 1][found.path[1] + 1].value ELSE Root
    IN  at[Len(found.path)]

\* A client that takes the scope and the path of an answer and asks for children, or sets the
\* variable, is led to the value that it was shown (foundRootVariable.iteratorPath).
PathLeadsToValue ==
    \A place \in DOMAIN results :
        LET found == results[place]
        IN  IF found.scope = "Evaluation" THEN found.path = <<>>
            ELSE found.path # <<>> /\ AtPath(found) = found.value

\* The answer is Success and the value that the expression means, or there is none.
AnswerIs(meaning) ==
    meaning # Unclear =>
        IF rc = "Success" THEN results[<<>>].value = meaning ELSE meaning = Nothing

HasDot == \E i \in DOMAIN text : text[i].kind = "."
IndexesString == \E i \in DOMAIN text : LastKind(i - 1) = "String" /\ text[i].kind = "["

IsAnswered == phase = "reply" /\ root # <<>>

\* Expressions without dots mean what they say, however their indexes nest: each index is
\* evaluated in the same frame, before what it is applied to (SquirrelDebugger.cpp:441-600).
IndexesMeanWhatTheySay ==
    IsAnswered /\ ~HasDot /\ ~IndexesString => AnswerIs(Meaning[root])

\* "Evaluate the expression in the scope of this stack frame" (MessageInterface.h:167), also
\* when it has fields after dots, which ParseExpression accepts.
ExpressionsMeanWhatTheySay ==
    IsAnswered /\ ~IndexesString => AnswerIs(Meaning[root])

\* Every evaluation ends, though each pass over the stack may put more on it.
EvaluationEnds == phase = "evaluate" ~> phase = "idle"
=============================================================================
