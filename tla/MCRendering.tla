---------------------------- MODULE MCRendering ----------------------------
(***************************************************************************)
(* For TLC: a root table that may be too large to sort, a table that may   *)
(* hold itself, its parent, an instance or a class, and an instance.       *)
(***************************************************************************)
EXTENDS Rendering

Root  == <<"table", "root">>
Inner == <<"table", "inner">>
Thing == <<"instance", "thing">>
Base  == <<"class", "Base">>
Vec   == <<"class", "Vec">>
Lost  == <<"class", "Lost">>
Name(s) == <<"string", s>>

Slot(key, val) == [key |-> Name(key), val |-> val]

RootSlots ==
    {<<Slot("b", v), Slot("a", w)>> : v \in {Inner, Base}, w \in {Inner, Vec}}
    \cup {<<Slot("b", Name("")), EmptySlot, Slot("a", v), Slot("c", w)>> :
            v \in {Inner, Thing, Vec}, w \in {Inner, Vec}}
InnerSlots ==
    {<<>>}
    \cup {<<[key |-> k, val |-> v], Slot("a", w)>> :
            k \in {Name("b"), Thing}, v \in {Root, Inner, Thing, Base}, w \in {Vec, Name("")}}
ThingSlots == {<<>>, <<Slot("a", Name("long"))>>, <<Slot("a", Inner)>>}

MCHeapsToShow ==
    {Root :> r @@ Inner :> i @@ Thing :> t : r \in RootSlots, i \in InnerSlots, t \in ThingSlots}
MCSubjects == {Root, Inner, Thing, Vec, Lost}
MCClassOf == Thing :> Vec
MCLocalsLists ==
    {<<>>, <<[name |-> "x", value |-> Inner], [name |-> "y", value |-> Vec]>>}
MCWidthOf == [v \in {Name(s) : s \in {"", "a", "b", "c"}} |-> IF v = Name("") THEN 0 ELSE 1]
                 @@ Name("long") :> 9
MCPlaceOf == Thing :> 0 @@ Name("a") :> 1 @@ Name("b") :> 2 @@ Name("c") :> 3
=============================================================================
