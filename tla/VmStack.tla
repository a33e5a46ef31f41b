------------------------------ MODULE VmStack ------------------------------
(***************************************************************************)
(* What the debugger uses of the Squirrel API to look at values.  The VM   *)
(* is not part of the repository: this is modelled from the calls in       *)
(* SquirrelVmHelpers.cpp and SquirrelDebugger.cpp, and their comments on   *)
(* what each leaves on the operand stack.                                  *)
(*                                                                         *)
(* A value is a pair <<type, what it holds>>.  A container is a sequence   *)
(* of slots; a table may have empty ones, whose key is null.  The slots of *)
(* an array have its indices, from 0, for keys.  An iterator is the place  *)
(* of the slot that the iteration has passed last.                         *)
(***************************************************************************)
EXTENDS Integers, Sequences, FiniteSets

Null       == <<"null", "null">>
Integer(n) == <<"integer", n>>
Type(v)    == v[1]
EmptySlot  == [key |-> Null, val |-> Null]

(* The operand stack; indices count back from -1, the top. *)
Push(stack, v)  == Append(stack, v)
Pop(stack, n)   == SubSeq(stack, 1, Len(stack) - n)     \* sq_pop, sq_poptop
At(stack, idx)  == stack[Len(stack) + 1 + idx]

-----------------------------------------------------------------------------
(* Containers; heap maps each to its slots. *)

Slots(heap, v) == IF v \in DOMAIN heap THEN heap[v] ELSE <<>>

Filled(slots) == {i \in DOMAIN slots : slots[i].key # Null}

\* sq_getsize
Size(heap, v) == Cardinality(Filled(Slots(heap, v)))

\* sq_next: the slot that comes after the iterator, 0 at the end.
NextSlot(slots, iter) ==
    LET later == {i \in Filled(slots) : i > iter}
    IN  IF later = {} THEN 0 ELSE CHOOSE i \in later : \A j \in later : i <= j

\* The slots with this key: one, or none.
SlotsOf(heap, v, key) == {i \in Filled(Slots(heap, v)) : Slots(heap, v)[i].key = key}

\* Whether sq_get and sq_set succeed: neither of them makes a new slot.
HasKey(heap, v, key) == SlotsOf(heap, v, key) # {}

\* sq_get
ValueOf(heap, v, key) == Slots(heap, v)[CHOOSE i \in SlotsOf(heap, v, key) : TRUE].val

\* sq_set
SetValue(heap, v, key, val) ==
    [heap EXCEPT ![v] = [i \in DOMAIN @ |->
        IF i \in SlotsOf(heap, v, key) THEN [@[i] EXCEPT !.val = val] ELSE @[i]]]
=============================================================================
