------------------------------ MODULE MCParts ------------------------------
(***************************************************************************)
(* For TLC: the parts of the program that share no state, one of which     *)
(* runs while the others rest: the breakpoint map, the reader of string    *)
(* literals, the websocket listener on its own, and the display of a       *)
(* variable.                                                               *)
(***************************************************************************)
EXTENDS MCBreakpointMap, MCStringLiteral, MCDelivery, MCRendering

VARIABLE part

partsVars == <<bm, vars, deliveryVars, renderingVars, part>>

\* A display that rests is one of those that could begin.
RestingDisplay ==
    /\ held = CHOOSE h \in HeapsToShow : TRUE
    /\ locals = CHOOSE l \in LocalsLists : TRUE
    /\ operands = <<CHOOSE v \in Subjects : TRUE>>

PartsInit ==
    /\ part \in {"breakpoints", "literal", "listener", "display"}
    /\ BMInit /\ Init /\ DeliveryInit /\ RenderingInit
    /\ part # "display" => RestingDisplay

PartsNext ==
    /\ \/ part = "breakpoints" /\ BMNext /\ UNCHANGED <<vars, deliveryVars, renderingVars>>
       \/ part = "literal" /\ Next /\ UNCHANGED <<bm, deliveryVars, renderingVars>>
       \/ part = "listener" /\ DeliveryNext /\ UNCHANGED <<bm, vars, renderingVars>>
       \/ part = "display" /\ RenderingNext /\ UNCHANGED <<bm, vars, deliveryVars>>
    /\ UNCHANGED part

PartsSpec == PartsInit /\ [][PartsNext]_partsVars
=============================================================================
