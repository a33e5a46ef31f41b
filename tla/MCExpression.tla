---------------------------- MODULE MCExpression ----------------------------
(***************************************************************************)
(* For TLC: names that are in the root table and in one frame or other,    *)
(* once or twice; an array in a table; a table that leads back to itself,  *)
(* with an empty slot and with the keys 0 and false.                       *)
(***************************************************************************)
EXTENDS ExpressionMeaning

String(s) == <<"string", s>>
Name(s)   == [kind |-> "Identifier", value |-> String(s)]
Quoted(s) == [kind |-> "String", value |-> String(s)]
Number(n) == [kind |-> "Number", value |-> Integer(n)]

Entry(key, val) == [key |-> key, val |-> val]

Globals == <<"table", "globals">>
Table   == <<"table", "t">>
Numbers == <<"array", "n">>

MCOperandToken == {Name("a"), Name("t"), Quoted("a"), Number(0), Number(2)}

MCRoot == Globals

MCHeap ==
       Globals :> <<Entry(String("a"), Numbers), EmptySlot, Entry(String("t"), Table)>>
    @@ Table :> <<EmptySlot, Entry(<<"bool", "false">>, Numbers), Entry(Integer(0), String("t")),
                  Entry(String("t"), Table), Entry(String("a"), Integer(1))>>
    @@ Numbers :> <<Entry(Integer(0), Integer(1)), Entry(Integer(1), Table)>>

\* In the first frame a is one local, then another; the second frame has only t.
MCLocals ==
    << <<[name |-> String("a"), value |-> Table], [name |-> String("a"), value |-> Null]>>,
       <<[name |-> String("t"), value |-> Integer(0)]>> >>
=============================================================================
