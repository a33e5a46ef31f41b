---------------------------- MODULE MCVariables ----------------------------
(***************************************************************************)
(* For TLC: a table whose names are not in the order of its slots, holding *)
(* an array, which leads back to it, and a nested table: one with a gap,   *)
(* one that is too large to sort and has null for a value, or one with a   *)
(* single entry.                                                           *)
(***************************************************************************)
EXTENDS Variables, TLC

Table   == <<"table", "t">>
Nested  == <<"table", "n">>
Numbers == <<"array", "a">>
String(s) == <<"string", s>>
Bool(b)   == <<"bool", b>>

Entry(key, val)  == [key |-> key, val |-> val]
ArrayOf(values)  == [i \in DOMAIN values |-> Entry(Integer(i - 1), values[i])]

MCContainer == {Table, Nested, Numbers}
MCOtherValue ==
    {Null} \cup {String(s) : s \in {"a", "b", "c", "1", "no"}}
           \cup {Bool(b) : b \in {"true", "false"}}

MCRoot == Nested
MCLocals == << <<Table, Integer(7)>> >>
MCRegisters == <<Null, Null>>

HeapOf(nested) ==
      Table :> <<EmptySlot, Entry(String("b"), Numbers), Entry(String("a"), Nested)>>
   @@ Nested :> nested
   @@ Numbers :> ArrayOf(<<Integer(0), Table>>)

\* Three entries are too many to sort.
MCHeaps == {
    HeapOf(<<Entry(String("c"), Integer(0)), EmptySlot, Entry(String("a"), String("no"))>>),
    HeapOf(<<Entry(String("c"), Bool("false")), Entry(String("a"), Null),
             Entry(String("b"), Integer(0))>>),
    HeapOf(<<EmptySlot, EmptySlot, Entry(String("a"), Bool("true"))>>)}

MCNameOf ==
    [key \in {String(s) : s \in {"a", "b", "c"}} \cup {Integer(n) : n \in 0 .. 3} |->
        IF key[1] = "integer" THEN key[2]
        ELSE CASE key[2] = "a" -> 10 [] key[2] = "b" -> 11 [] OTHER -> 12]

MCText == {"1", "no"}
MCParse ==
    [type \in {"bool", "integer", "float"} |-> [text \in MCText |->
        CASE type = "bool" -> Bool(IF text = "1" THEN "true" ELSE "false")
          [] type = "integer" /\ text = "1" -> Integer(1)
          [] OTHER -> Null]]
=============================================================================
