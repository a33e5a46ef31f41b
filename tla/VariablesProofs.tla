-------------------------- MODULE VariablesProofs --------------------------
(***************************************************************************)
(* Proofs about the walk along a path, for all values of the constants:    *)
(* any containers, paths of any length, pages of any size.  First, the     *)
(* operand stack of the script survives every command, from what is true   *)
(* of the calls of WithVariableAtPath that are in progress.  Then, the     *)
(* top of the stack is what the part of the path that has been followed    *)
(* leads to, and a write goes to the slot that the path names.  Last, what *)
(* a client is shown: a name that was listed leads to the variable of that *)
(* name, also when the variable is written; a write to an entry of a table *)
(* that was listed as editable succeeds; and page after page the client    *)
(* comes to have every child exactly once.                                 *)
(***************************************************************************)
EXTENDS Variables, FiniteSetTheorems, SequenceTheorems, WellFoundedInduction, TLAPS

-----------------------------------------------------------------------------
(* Numbers and containers *)

\* A set of natural numbers has a least element (sq_next finds the slot that comes first).
LEMMA LeastNumber ==
    ASSUME NEW S, S \subseteq Nat, S # {}
    PROVE  \E i \in S : \A j \in S : i <= j
<1> DEFINE R == OpToRel(<, Nat)
<1>1. IsWellFoundedOn(R, Nat)
  BY NatLessThanWellFounded
<1>2. PICK x \in S : \A y \in S : ~ (<<y, x>> \in R)
  <2> HIDE DEF R
  <2> QED BY <1>1, WFMin
<1>3. \A y \in S : ~ (y < x)
  BY <1>2 DEF OpToRel
<1> QED BY <1>3

\* What sq_next reaches is a filled slot after the iterator.
LEMMA NextSlotIsFilled ==
    ASSUME NEW T, NEW slots \in Seq(T), NEW iter \in Int, NextSlot(slots, iter) # 0
    PROVE  NextSlot(slots, iter) \in Filled(slots) /\ NextSlot(slots, iter) \in 1 .. Len(slots)
<1> DEFINE later == {i \in Filled(slots) : i > iter}
<1>1. DOMAIN slots = 1 .. Len(slots) /\ Len(slots) \in Nat
  BY LenProperties
<1>2. later # {} /\ NextSlot(slots, iter) = CHOOSE i \in later : \A j \in later : i <= j
  BY DEF NextSlot
<1>3. later \subseteq Nat
  BY <1>1 DEF Filled
<1>4. \E i \in later : \A j \in later : i <= j
  BY <1>2, <1>3, LeastNumber
<1>5. NextSlot(slots, iter) \in later
  BY <1>2, <1>4
<1> QED BY <1>1, <1>5 DEF Filled

\* Every container's slots are a sequence of slots; other values have none.
LEMMA SlotsType ==
    ASSUME NEW h \in [Container -> Seq(Slot)], NEW v
    PROVE  Slots(h, v) \in Seq(Slot)
BY EmptySeq DEF Slots

\* sq_get finds a value of the VM under a key that is there.
LEMMA ValueOfType ==
    ASSUME NEW h \in [Container -> Seq(Slot)], NEW v, NEW key, HasKey(h, v, key)
    PROVE  ValueOf(h, v, key) \in Value
<1> DEFINE i == CHOOSE i \in SlotsOf(h, v, key) : TRUE
<1>1. i \in SlotsOf(h, v, key)
  BY DEF HasKey
<1>2. i \in DOMAIN Slots(h, v)
  BY <1>1 DEF SlotsOf, Filled
<1>3. Slots(h, v)[i] \in Slot
  BY <1>2, SlotsType, LenProperties, ElementOfSeq
<1> QED BY <1>3 DEF ValueOf, Slot

\* sq_set changes values only: the container keeps its keys, in their places.
LEMMA SetValueKeepsKeys ==
    ASSUME NEW h \in [Container -> Seq(Slot)], NEW v, NEW key, NEW val \in Value,
           HasKey(h, v, key)
    PROVE  /\ SetValue(h, v, key, val) \in [Container -> Seq(Slot)]
           /\ HasKey(SetValue(h, v, key, val), v, key)
<1> DEFINE g == SetValue(h, v, key, val)
           slots == [i \in DOMAIN h[v] |-> IF i \in SlotsOf(h, v, key)
                                          THEN [h[v][i] EXCEPT !.val = val] ELSE h[v][i]]
<1>1. v \in Container
  BY EmptySeq DEF HasKey, SlotsOf, Slots, Filled
<1>2. h[v] \in Seq(Slot) /\ DOMAIN h[v] = 1 .. Len(h[v]) /\ Len(h[v]) \in Nat
  BY <1>1, LenProperties
<1>3. \A i \in 1 .. Len(h[v]) : slots[i] \in Slot /\ slots[i].key = h[v][i].key
  <2> TAKE i \in 1 .. Len(h[v])
  <2>1. h[v][i] \in Slot
    BY <1>2, ElementOfSeq
  <2> QED BY <1>2, <2>1 DEF Slot
<1>4. slots \in Seq(Slot) /\ DOMAIN slots = DOMAIN h[v]
  <2>1. slots = [i \in 1 .. Len(h[v]) |-> slots[i]]
    BY <1>2
  <2> HIDE DEF slots
  <2>2. slots \in [1 .. Len(h[v]) -> Slot]
    BY <1>3, <2>1
  <2>3. [1 .. Len(h[v]) -> Slot] \in {[1 .. n -> Slot] : n \in Nat}
    BY <1>2
  <2> QED BY <1>2, <2>2, <2>3, SeqDef
<1>5. g = [h EXCEPT ![v] = slots]
  BY <1>1 DEF SetValue
<1>6. g \in [Container -> Seq(Slot)] /\ g[v] = slots
  BY <1>1, <1>4, <1>5
<1>7. SlotsOf(g, v, key) = SlotsOf(h, v, key)
  BY <1>1, <1>2, <1>3, <1>4, <1>6 DEF SlotsOf, Slots, Filled
<1> QED BY <1>6, <1>7 DEF HasKey

-----------------------------------------------------------------------------
(* The inductive invariant *)

Base == Len(Registers)

\* What the script had on the stack is still there.
RegistersKept ==
    /\ Len(stack) >= Base
    /\ \A i \in 1 .. Base : stack[i] = Registers[i]

\* Each call begins where the pops that its caller owes end; the first one, at the root.
CallsNest ==
    /\ \A i \in 1 .. Len(calls) : calls[i].depth > Base
    /\ \A i \in 1 .. Len(calls) - 1 : calls[i + 1].depth = calls[i].depth + calls[i].pops
    /\ calls # <<>> => calls[1].depth = Base + 1

\* How deep the stack is, from the call in progress.
StackDepth ==
    /\ phase \in {"walk", "sorted", "iterate"} => calls # <<>> /\ calls[InCall].pops = 0
    /\ phase \in {"walk", "sorted"} => Len(stack) = calls[InCall].depth
    /\ phase = "iterate" => Len(stack) = calls[InCall].depth + 1
    /\ phase = "unwind" => Len(stack) = IF calls = <<>> THEN Base + 1
                                        ELSE calls[InCall].depth + calls[InCall].pops
    /\ phase \in {"idle", "locals", "reply"} => calls = <<>> /\ Len(stack) = Base

\* A write replaces the top two values; both were pushed by the command.
WriteIsBelowRoot ==
    phase = "walk" /\ rest = <<>> /\ cmd.op = "set" => Len(stack) >= Base + 2

IteratorOnTop == phase = "iterate" => At(stack, -1) \in {"integer"} \X Int

IInv ==
    /\ VariablesTypeOK
    /\ RegistersKept
    /\ CallsNest
    /\ StackDepth
    /\ WriteIsBelowRoot
    /\ IteratorOnTop

\* What the type invariant says of sequences, spelled out.
LEMMA Typed ==
    ASSUME VariablesTypeOK
    PROVE  /\ stack \in Seq(Value) /\ Len(stack) \in Nat
           /\ calls \in Seq(Call) /\ Len(calls) \in Nat /\ (calls # <<>> => Len(calls) > 0)
           /\ \A i \in 1 .. Len(calls) :
                  calls[i] \in Call /\ calls[i].depth \in Nat /\ calls[i].pops \in {0, 1, 3}
           /\ rest \in Seq(Iterator)
           /\ Registers \in Seq(Value) /\ Base \in Nat
<1>1. \A i \in 1 .. Len(calls) : calls[i] \in Call
  BY ElementOfSeq DEF VariablesTypeOK
<1>2. \A c \in Call : c.depth \in Nat /\ c.pops \in {0, 1, 3}
  BY DEF Call
<1>3. calls # <<>> => Len(calls) > 0
  BY EmptySeq, LenProperties DEF VariablesTypeOK
<1> QED BY <1>1, <1>2, <1>3, LenProperties, ScriptValuesAssumption DEF VariablesTypeOK, Base

\* The invariant is what the property needs.
LEMMA InvariantRestores == IInv => OperandStackRestored
<1> SUFFICES ASSUME IInv PROVE OperandStackRestored
  OBVIOUS
<1>1. ASSUME phase \in {"idle", "reply"} PROVE stack = Registers
  <2>1. Len(stack) = Len(Registers) /\ \A i \in 1 .. Len(stack) : stack[i] = Registers[i]
    BY <1>1 DEF IInv, StackDepth, RegistersKept, Base
  <2>2. stack \in Seq(Value) /\ Registers \in Seq(Value)
    BY ScriptValuesAssumption DEF IInv, VariablesTypeOK
  <2> QED BY <2>1, <2>2, SeqEqual
<1>2. ASSUME phase = "unwind", calls # <<>>
      PROVE  Len(stack) - calls[InCall].pops = calls[InCall].depth
  <2>1. VariablesTypeOK
    BY DEF IInv
  <2>2. calls[InCall].depth \in Nat /\ calls[InCall].pops \in {0, 1, 3}
    BY <1>2, <2>1, Typed DEF InCall
  <2> QED BY <1>2, <2>2 DEF IInv, StackDepth
<1> QED BY <1>1, <1>2 DEF OperandStackRestored, IInv, StackDepth, Base

LEMMA StackInit == Init => IInv
<1> SUFFICES ASSUME Init PROVE IInv
  OBVIOUS
<1>1. VariablesTypeOK
  BY ScriptValuesAssumption, EmptySeq DEF Init, VariablesTypeOK
<1>2. Len(Registers) \in Nat
  BY ScriptValuesAssumption, LenProperties
<1> QED BY <1>1, <1>2 DEF Init, IInv, RegistersKept, CallsNest, StackDepth, WriteIsBelowRoot,
                          IteratorOnTop, Base

-----------------------------------------------------------------------------
(* The steps *)

\* A record of a call with the pops that it comes to owe.
LEMMA OwingCall ==
    ASSUME NEW c \in Call, NEW k \in {1, 3}
    PROVE  /\ [c EXCEPT !.pops = k] \in Call
           /\ [c EXCEPT !.pops = k].pops = k
           /\ [c EXCEPT !.pops = k].depth = c.depth
BY DEF Call

\* A call that pushes values and makes a call for the last one keeps the invariant.
LEMMA DescendSafe ==
    ASSUME IInv, phase = "walk", rest # <<>>,
           NEW pushed \in Seq(Value), Len(pushed) \in {1, 3}, Descend(pushed),
           UNCHANGED <<heap, cmd>>
    PROVE  IInv'
<1> DEFINE n == Len(calls)
           owing == [calls EXCEPT ![n] = [calls[n] EXCEPT !.pops = Len(pushed)]]
           new == [depth |-> Len(stack) + Len(pushed), pops |-> 0]
<1>0. VariablesTypeOK /\ calls # <<>>
  BY DEF IInv, StackDepth
<1>1. /\ calls \in Seq(Call) /\ n \in Nat \ {0} /\ calls[n] \in Call
      /\ \A i \in 1 .. n : calls[i] \in Call /\ calls[i].depth \in Nat /\ calls[i].pops \in {0, 1, 3}
      /\ stack \in Seq(Value) /\ Len(stack) \in Nat
      /\ rest \in Seq(Iterator) /\ Base \in Nat
  BY <1>0, Typed
<1>2. /\ stack' = stack \o pushed
      /\ stack' \in Seq(Value) /\ Len(stack') = Len(stack) + Len(pushed)
      /\ \A i \in 1 .. Len(stack) : stack'[i] = stack[i]
  BY <1>1, ConcatProperties DEF Descend
<1>3. calls' = Append(owing, new)
  BY DEF Descend, InCall
<1>4. [calls[n] EXCEPT !.pops = Len(pushed)] \in Call /\ new \in Call
  <2>1. [calls[n] EXCEPT !.pops = Len(pushed)] \in Call
    BY <1>1, OwingCall
  <2>2. Len(stack) + Len(pushed) \in Nat
    BY <1>1
  <2> QED BY <2>1, <2>2 DEF Call
<1>5. /\ owing \in Seq(Call) /\ Len(owing) = n
      /\ \A i \in 1 .. n : owing[i] = IF i = n THEN [calls[n] EXCEPT !.pops = Len(pushed)]
                                      ELSE calls[i]
  BY <1>1, <1>4, ExceptSeq
<1>6. /\ calls' \in Seq(Call) /\ Len(calls') = n + 1
      /\ calls'[n + 1] = new
      /\ \A i \in 1 .. n : calls'[i] = owing[i]
  <2> HIDE DEF owing, new, Call
  <2> QED BY <1>1, <1>3, <1>4, <1>5, AppendProperties
<1>7. rest' \in Seq(Iterator)
  BY <1>1, HeadTailProperties DEF Descend
<1>8. VariablesTypeOK'
  BY <1>2, <1>6, <1>7 DEF IInv, VariablesTypeOK, Descend
<1>9. RegistersKept'
  BY <1>1, <1>2 DEF IInv, RegistersKept, Base
<1>10. /\ \A i \in 1 .. n : calls'[i].depth = calls[i].depth
       /\ \A i \in 1 .. n - 1 : calls'[i].pops = calls[i].pops
       /\ calls'[n].pops = Len(pushed)
       /\ calls'[n + 1].depth = calls[n].depth + Len(pushed) /\ calls'[n + 1].pops = 0
  <2>1. Len(stack) = calls[n].depth
    BY DEF IInv, StackDepth, InCall
  <2>2. /\ [calls[n] EXCEPT !.pops = Len(pushed)].pops = Len(pushed)
        /\ [calls[n] EXCEPT !.pops = Len(pushed)].depth = calls[n].depth
    BY <1>1, OwingCall
  <2>3. new.depth = calls[n].depth + Len(pushed) /\ new.pops = 0
    BY <2>1
  <2>4. /\ \A i \in 1 .. n : i # n => calls'[i] = calls[i]
        /\ calls'[n] = [calls[n] EXCEPT !.pops = Len(pushed)]
    <3> HIDE DEF owing
    <3>1. n \in 1 .. n
      BY <1>1
    <3>2. \A i \in 1 .. n : calls'[i] = IF i = n THEN [calls[n] EXCEPT !.pops = Len(pushed)]
                                         ELSE calls[i]
      BY <1>5, <1>6
    <3> QED BY <3>1, <3>2
  <2>5. calls'[n + 1] = new
    BY <1>6
  <2>6. \A i \in 1 .. n : calls'[i].depth = calls[i].depth
    BY <2>2, <2>4
  <2>7. \A i \in 1 .. n - 1 : calls'[i].pops = calls[i].pops
    <3> TAKE i \in 1 .. n - 1
    <3>1. i \in 1 .. n /\ i # n
      BY <1>1
    <3> QED BY <2>4, <3>1
  <2> HIDE DEF new
  <2> QED BY <2>2, <2>3, <2>4, <2>5, <2>6, <2>7
<1>11. \A i \in 1 .. n : calls[i].depth > Base
  BY DEF IInv, CallsNest
<1>12. CallsNest'
  <2>1. \A i \in 1 .. n - 1 : calls[i + 1].depth = calls[i].depth + calls[i].pops
    BY DEF IInv, CallsNest
  <2>2. calls[1].depth = Base + 1
    BY <1>1 DEF IInv, CallsNest
  <2>3. \A i \in 1 .. n + 1 : calls'[i].depth > Base
    <3> TAKE i \in 1 .. n + 1
    <3>1. CASE i = n + 1
      BY <1>1, <1>10, <1>11, <3>1
    <3>2. CASE i # n + 1
      <4>1. i \in 1 .. n
        BY <1>1, <3>2
      <4> QED BY <1>10, <1>11, <4>1
    <3> QED BY <3>1, <3>2
  <2>4. \A i \in 1 .. n : calls'[i + 1].depth = calls'[i].depth + calls'[i].pops
    <3> TAKE i \in 1 .. n
    <3>1. CASE i = n
      BY <1>1, <1>10, <3>1
    <3>2. CASE i # n
      <4>1. i \in 1 .. n - 1 /\ i + 1 \in 1 .. n
        BY <1>1, <3>2
      <4> QED BY <1>10, <2>1, <4>1
    <3> QED BY <3>1, <3>2
  <2>5. calls'[1].depth = Base + 1
    BY <1>1, <1>10, <2>2
  <2>6. Len(calls') - 1 = n /\ Len(calls') = n + 1
    BY <1>1, <1>6
  <2> HIDE DEF n
  <2> QED BY <2>3, <2>4, <2>5, <2>6 DEF CallsNest, Base
<1>13. phase' = "walk" /\ StackDepth' /\ Len(stack) > Base
  <2>1. phase' = "walk"
    BY DEF Descend
  <2>2. Len(stack) = calls[n].depth
    BY DEF IInv, StackDepth, InCall
  <2>3. calls' # <<>> /\ Len(calls') = n + 1
    BY <1>1, <1>6, EmptySeq
  <2>4. calls'[n + 1].pops = 0 /\ Len(stack') = calls'[n + 1].depth
    BY <1>2, <1>10, <2>2
  <2>5. Len(stack) > Base
    BY <1>1, <1>11, <2>2
  <2> QED BY <2>1, <2>3, <2>4, <2>5 DEF StackDepth, InCall
<1>14. Len(stack') >= Base + 2
  <2>1. Len(stack') = Len(stack) + Len(pushed) /\ Len(stack) \in Nat /\ Base \in Nat
    BY <1>1, <1>2
  <2>2. Len(stack) > Base /\ Len(pushed) >= 1 /\ Len(pushed) \in Nat
    BY <1>13
  <2> QED BY <2>1, <2>2
<1>15. WriteIsBelowRoot' /\ IteratorOnTop'
  <2>1. WriteIsBelowRoot'
    BY <1>14 DEF WriteIsBelowRoot, Base
  <2>2. IteratorOnTop'
    BY <1>13 DEF IteratorOnTop
  <2> QED BY <2>1, <2>2
<1> QED BY <1>8, <1>9, <1>12, <1>13, <1>15 DEF IInv

\* sq_pop, and what a push puts on the stack.
LEMMA PopProperties ==
    ASSUME NEW s \in Seq(Value), NEW k \in 0 .. Len(s)
    PROVE  /\ Pop(s, k) \in Seq(Value) /\ Len(Pop(s, k)) = Len(s) - k
           /\ \A i \in 1 .. Len(s) - k : Pop(s, k)[i] = s[i]
<1>1. Len(s) \in Nat /\ Len(s) - k \in Int /\ 1 \in Int
  BY LenProperties
<1>2. \A i \in 1 .. Len(s) - k : i \in 1 .. Len(s)
  BY <1>1
<1>3. \A i \in 1 .. Len(s) - k : s[i] \in Value
  BY <1>2, ElementOfSeq
<1>4. /\ SubSeq(s, 1, Len(s) - k) \in Seq(Value)
      /\ Len(SubSeq(s, 1, Len(s) - k)) = IF 1 <= Len(s) - k THEN Len(s) - k - 1 + 1 ELSE 0
      /\ \A i \in 1 .. Len(s) - k - 1 + 1 : SubSeq(s, 1, Len(s) - k)[i] = s[1 + i - 1]
  BY <1>1, <1>3, SubSeqProperties
<1>5. \A i \in 1 .. Len(s) - k : i \in 1 .. Len(s) - k - 1 + 1 /\ 1 + i - 1 = i
  BY <1>1
<1>6. Len(SubSeq(s, 1, Len(s) - k)) = Len(s) - k
  BY <1>1, <1>4
<1> QED BY <1>4, <1>5, <1>6 DEF Pop

\* A step that leaves the stack and the calls alone, and does not come to write or iterate.
LEMMA StackUntouched ==
    ASSUME IInv, UNCHANGED <<stack, calls>>, phase' \notin {"walk", "iterate"},
           VariablesTypeOK', StackDepth'
    PROVE  IInv'
<1>1. RegistersKept'
  BY DEF IInv, RegistersKept
<1>2. CallsNest'
  BY DEF IInv, CallsNest
<1>3. WriteIsBelowRoot' /\ IteratorOnTop'
  BY DEF WriteIsBelowRoot, IteratorOnTop
<1> QED BY <1>1, <1>2, <1>3 DEF IInv

\* The steps of a command on its way through phases that leave the stack alone.
LEMMA SameStackSafe ==
    ASSUME IInv,
           \/ PathFails \/ NothingToList \/ StartPastEnd \/ StartSorted \/ AddSorted \/ EndSorted
           \/ AddLocal \/ EndLocals \/ RejectText \/ Reply \/ ScriptRuns
    PROVE  IInv'
<1>1. VariablesTypeOK /\ StackDepth
  BY DEF IInv
<1>2. CASE PathFails \/ NothingToList \/ StartPastEnd \/ RejectText
  <2>1. VariablesTypeOK'
    BY <1>1, <1>2 DEF VariablesTypeOK, PathFails, NothingToList, StartPastEnd, RejectText, AtLeaf
  <2>2. calls # <<>> /\ calls[InCall].pops = 0 /\ Len(stack) = calls[InCall].depth
    BY <1>1, <1>2 DEF StackDepth, PathFails, NothingToList, StartPastEnd, RejectText, AtLeaf
  <2>3. calls[InCall].depth \in Nat
    BY <1>1, <2>2, Typed DEF InCall
  <2>4. calls[InCall].depth + calls[InCall].pops = calls[InCall].depth
    BY <2>2, <2>3
  <2>5. StackDepth' /\ phase' \notin {"walk", "iterate"} /\ UNCHANGED <<stack, calls>>
    BY <1>2, <2>2, <2>4
    DEF StackDepth, InCall, PathFails, NothingToList, StartPastEnd, RejectText
  <2> QED BY <2>1, <2>5, StackUntouched
<1>3. CASE StartSorted \/ AddSorted \/ EndSorted
  <2>1. VariablesTypeOK'
    BY <1>1, <1>3 DEF VariablesTypeOK, StartSorted, AddSorted, EndSorted, AtLeaf
  <2>2. calls # <<>> /\ calls[InCall].pops = 0 /\ Len(stack) = calls[InCall].depth
    BY <1>1, <1>3 DEF StackDepth, StartSorted, AddSorted, EndSorted, AtLeaf
  <2>3. calls[InCall].depth \in Nat
    BY <1>1, <2>2, Typed DEF InCall
  <2>4. calls[InCall].depth + calls[InCall].pops = calls[InCall].depth
    BY <2>2, <2>3
  <2>5. phase' \in {"sorted", "unwind"} /\ UNCHANGED <<stack, calls>>
    BY <1>3 DEF StartSorted, AddSorted, EndSorted
  <2>6. StackDepth'
    BY <2>2, <2>4, <2>5 DEF StackDepth, InCall
  <2> QED BY <2>1, <2>5, <2>6, StackUntouched
<1>4. CASE AddLocal \/ EndLocals \/ Reply \/ ScriptRuns
  <2>1. phase \in {"locals", "reply", "idle"} /\ phase' \in {"locals", "reply", "idle"}
    BY <1>4 DEF AddLocal, EndLocals, Reply, ScriptRuns
  <2>2. UNCHANGED <<stack, calls>>
    BY <1>4 DEF AddLocal, EndLocals, Reply, ScriptRuns
  <2>3. heap' \in [Container -> Seq(Slot)]
    BY <1>1, <1>4, ScriptValuesAssumption
    DEF VariablesTypeOK, AddLocal, EndLocals, Reply, ScriptRuns
  <2>4. cmd' \in IF phase' = "idle" THEN {NoCommand} ELSE Commands
    BY <1>1, <1>4 DEF VariablesTypeOK, AddLocal, EndLocals, Reply, ScriptRuns
  <2>5. rest' \in Seq(Iterator) /\ rc' \in {"Success", "InvalidParameter", "ErrorInternal"}
    BY <1>1, <1>4, EmptySeq DEF VariablesTypeOK, AddLocal, EndLocals, Reply, ScriptRuns
  <2>6. VariablesTypeOK'
    BY <1>1, <2>1, <2>2, <2>3, <2>4, <2>5 DEF VariablesTypeOK
  <2>7. StackDepth'
    BY <1>1, <2>1, <2>2 DEF StackDepth
  <2> QED BY <2>1, <2>2, <2>6, <2>7, StackUntouched
<1> QED BY <1>2, <1>3, <1>4

\* The iterator of an array or a large table is put above the container.
LEMMA StartIteratingSafe == IInv /\ StartIterating => IInv'
<1> SUFFICES ASSUME IInv, StartIterating PROVE IInv'
  OBVIOUS
<1>1. VariablesTypeOK /\ StackDepth /\ RegistersKept /\ CallsNest
  BY DEF IInv
<1>2. Integer(cmd.begin) \in {"integer"} \X Int /\ Integer(cmd.begin) \in Value
  <2>1. cmd \in Commands /\ cmd.op = "list"
    BY <1>1 DEF VariablesTypeOK, StartIterating, AtLeaf
  <2>2. cmd.begin \in Nat
    BY <2>1, BoundsAssumption DEF Commands
  <2> QED BY <2>2 DEF Integer, Value
<1>3. /\ stack' \in Seq(Value) /\ Len(stack') = Len(stack) + 1
      /\ \A i \in 1 .. Len(stack) : stack'[i] = stack[i]
      /\ stack'[Len(stack')] = Integer(cmd.begin)
      /\ Len(stack) \in Nat /\ Base \in Nat /\ Len(stack) >= Base
  BY <1>1, <1>2, Typed, AppendProperties DEF StartIterating, Push, RegistersKept
<1>4. VariablesTypeOK'
  BY <1>1, <1>3 DEF VariablesTypeOK, StartIterating, AtLeaf
<1>5. RegistersKept'
  BY <1>1, <1>3 DEF RegistersKept, Base
<1>6. CallsNest' /\ StackDepth'
  BY <1>1, <1>3 DEF CallsNest, StackDepth, InCall, StartIterating, AtLeaf
<1>7. WriteIsBelowRoot' /\ IteratorOnTop'
  <2>1. Len(stack') + 1 + -1 = Len(stack')
    BY <1>3
  <2> QED BY <1>2, <1>3, <2>1 DEF WriteIsBelowRoot, IteratorOnTop, StartIterating, At
<1> QED BY <1>4, <1>5, <1>6, <1>7 DEF IInv

\* While something is on the stack above the script's values, the top can go.
LEMMA TopIsOurs ==
    ASSUME IInv, phase \in {"walk", "sorted", "iterate", "unwind"}
    PROVE  /\ Len(stack) \in Nat /\ Base \in Nat /\ stack \in Seq(Value)
           /\ Len(stack) > Base
           /\ phase = "iterate" => Len(stack) >= Base + 2
           /\ phase = "unwind" /\ calls # <<>> => Len(stack) - calls[InCall].pops > Base
<1>1. VariablesTypeOK /\ StackDepth /\ CallsNest
  BY DEF IInv
<1>2. Len(stack) \in Nat /\ Base \in Nat /\ stack \in Seq(Value)
  BY <1>1, Typed
<1>3. ASSUME calls # <<>>
      PROVE  calls[InCall].depth \in Nat /\ calls[InCall].pops \in Nat /\ calls[InCall].depth > Base
  <2>1. InCall \in 1 .. Len(calls)
    BY <1>1, <1>3, Typed DEF InCall
  <2> QED BY <1>1, <2>1, Typed DEF CallsNest
<1>4. CASE phase = "unwind" /\ calls = <<>>
  BY <1>1, <1>2, <1>4 DEF StackDepth
<1>5. CASE calls # <<>>
  <2>1. phase = "iterate" => Len(stack) = calls[InCall].depth + 1
    BY <1>1 DEF StackDepth
  <2>2. phase \in {"walk", "sorted"} => Len(stack) = calls[InCall].depth
    BY <1>1 DEF StackDepth
  <2>3. phase = "unwind" => Len(stack) = calls[InCall].depth + calls[InCall].pops
    BY <1>1, <1>5 DEF StackDepth
  <2> QED BY <1>2, <1>3, <1>5, <2>1, <2>2, <2>3
<1> QED BY <1>1, <1>2, <1>4, <1>5 DEF StackDepth

\* sq_next replaces the iterator by the place that it has reached.
LEMMA AddNextSafe == IInv /\ AddNext => IInv'
<1> SUFFICES ASSUME IInv, AddNext PROVE IInv'
  OBVIOUS
<1> DEFINE slots == Slots(heap, At(stack, -2))
           i == NextInContainer
<1>1. VariablesTypeOK /\ StackDepth /\ RegistersKept /\ CallsNest /\ phase = "iterate"
  BY DEF IInv, AddNext
<1>2. At(stack, -1)[2] \in Int
  BY <1>1 DEF IInv, IteratorOnTop
<1>3. i \in Int
  <2>1. slots \in Seq(Slot)
    BY <1>1, SlotsType DEF VariablesTypeOK
  <2>2. NextSlot(slots, At(stack, -1)[2]) \in 1 .. Len(slots)
    BY <1>2, <2>1, NextSlotIsFilled DEF AddNext, NextInContainer
  <2>3. Len(slots) \in Nat
    BY <2>1, LenProperties
  <2> QED BY <2>2, <2>3 DEF NextInContainer
<1>4. Integer(i) \in {"integer"} \X Int /\ Integer(i) \in Value
  BY <1>3 DEF Integer, Value
<1>5. /\ Len(stack) \in Nat /\ Base \in Nat /\ stack \in Seq(Value) /\ Len(stack) >= Base + 2
  BY <1>1, TopIsOurs
<1>6. /\ Pop(stack, 1) \in Seq(Value) /\ Len(Pop(stack, 1)) = Len(stack) - 1
      /\ \A j \in 1 .. Len(stack) - 1 : Pop(stack, 1)[j] = stack[j]
  <2>1. 1 \in 0 .. Len(stack)
    BY <1>5
  <2> QED BY <1>5, <2>1, PopProperties
<1>7. /\ stack' \in Seq(Value) /\ Len(stack') = Len(stack)
      /\ \A j \in 1 .. Len(stack) - 1 : stack'[j] = stack[j]
      /\ stack'[Len(stack')] = Integer(i)
  <2>1. stack' = Append(Pop(stack, 1), Integer(i))
    BY DEF AddNext, Push
  <2>2. Len(stack) - 1 + 1 = Len(stack)
    BY <1>5
  <2> QED BY <1>4, <1>6, <2>1, <2>2, AppendProperties
<1>8. VariablesTypeOK'
  BY <1>1, <1>7 DEF VariablesTypeOK, AddNext
<1>9. RegistersKept'
  <2>1. \A j \in 1 .. Base : j \in 1 .. Len(stack) - 1
    BY <1>5
  <2>2. Len(stack') >= Base
    BY <1>5, <1>7
  <2> QED BY <1>1, <1>7, <2>1, <2>2 DEF RegistersKept, Base
<1>10. CallsNest' /\ StackDepth'
  BY <1>1, <1>7 DEF CallsNest, StackDepth, InCall, AddNext
<1>11. WriteIsBelowRoot' /\ IteratorOnTop'
  <2>1. Len(stack') + 1 + -1 = Len(stack')
    BY <1>5, <1>7
  <2> QED BY <1>4, <1>7, <2>1 DEF WriteIsBelowRoot, IteratorOnTop, AddNext, At
<1> QED BY <1>8, <1>9, <1>10, <1>11 DEF IInv

\* At the end of a page the iterator goes.
LEMMA EndIteratingSafe == IInv /\ EndIterating => IInv'
<1> SUFFICES ASSUME IInv, EndIterating PROVE IInv'
  OBVIOUS
<1>1. /\ VariablesTypeOK /\ StackDepth /\ RegistersKept /\ CallsNest /\ phase = "iterate"
      /\ phase' = "unwind" /\ calls' = calls
  BY DEF IInv, EndIterating
<1>2. /\ Len(stack) \in Nat /\ Base \in Nat /\ stack \in Seq(Value) /\ Len(stack) >= Base + 2
  BY <1>1, TopIsOurs
<1>3. /\ stack' \in Seq(Value) /\ Len(stack') = Len(stack) - 1
      /\ \A j \in 1 .. Len(stack) - 1 : stack'[j] = stack[j]
  <2>1. 1 \in 0 .. Len(stack)
    BY <1>2
  <2> QED BY <1>2, <2>1, PopProperties DEF EndIterating
<1>4. VariablesTypeOK'
  BY <1>1, <1>3 DEF VariablesTypeOK, EndIterating
<1>5. RegistersKept'
  <2>1. \A j \in 1 .. Base : j \in 1 .. Len(stack) - 1
    BY <1>2
  <2>2. Len(stack') >= Base
    BY <1>2, <1>3
  <2> QED BY <1>1, <1>3, <2>1, <2>2 DEF RegistersKept, Base
<1>6. CallsNest'
  BY <1>1 DEF CallsNest
<1>7. StackDepth'
  <2>1. calls # <<>> /\ calls[InCall].pops = 0 /\ Len(stack) = calls[InCall].depth + 1
    BY <1>1 DEF StackDepth
  <2>2. calls[InCall].depth \in Nat
    BY <1>1, <2>1, Typed DEF InCall
  <2>3. Len(stack') = calls[InCall].depth + calls[InCall].pops
    BY <1>2, <1>3, <2>1, <2>2
  <2> QED BY <1>1, <2>1, <2>3 DEF StackDepth, InCall
<1>8. WriteIsBelowRoot' /\ IteratorOnTop'
  BY <1>1 DEF WriteIsBelowRoot, IteratorOnTop
<1> QED BY <1>4, <1>5, <1>6, <1>7, <1>8 DEF IInv

\* The caller's pops bring the stack to where the call began that has returned.
LEMMA UnwindSafe == IInv /\ Unwind => IInv'
<1> SUFFICES ASSUME IInv, Unwind PROVE IInv'
  OBVIOUS
<1> DEFINE n == Len(calls)
<1>1. /\ VariablesTypeOK /\ StackDepth /\ RegistersKept /\ CallsNest
      /\ phase = "unwind" /\ phase' = "unwind" /\ calls # <<>>
  BY DEF IInv, Unwind
<1>2. /\ n \in Nat /\ n > 0 /\ calls \in Seq(Call)
      /\ \A i \in 1 .. n : calls[i] \in Call /\ calls[i].depth \in Nat /\ calls[i].pops \in {0, 1, 3}
  BY <1>1, Typed
<1>3. /\ Len(stack) \in Nat /\ Base \in Nat /\ stack \in Seq(Value)
      /\ Len(stack) - calls[n].pops > Base
      /\ Len(stack) = calls[n].depth + calls[n].pops
  BY <1>1, TopIsOurs DEF StackDepth, InCall
<1>4. calls[n].pops \in 0 .. Len(stack) /\ calls[n].pops \in Nat /\ calls[n].depth \in Nat
  BY <1>2, <1>3
<1>5. /\ stack' \in Seq(Value) /\ Len(stack') = calls[n].depth
      /\ \A j \in 1 .. Len(stack) - calls[n].pops : stack'[j] = stack[j]
  <2>1. stack' = Pop(stack, calls[n].pops)
    BY DEF Unwind, InCall
  <2>2. Len(stack) - calls[n].pops = calls[n].depth
    BY <1>3, <1>4
  <2> QED BY <1>3, <1>4, <2>1, <2>2, PopProperties
<1>6. /\ calls' \in Seq(Call) /\ Len(calls') = n - 1
      /\ \A i \in 1 .. n - 1 : calls'[i] = calls[i]
  <2>1. calls' = SubSeq(calls, 1, n - 1)
    BY DEF Unwind, InCall
  <2>2. \A i \in 1 .. n - 1 : calls[i] \in Call
    BY <1>2
  <2>3. 1 \in Int /\ n - 1 \in Int
    BY <1>2
  <2>4. /\ calls' \in Seq(Call) /\ Len(calls') = IF 1 <= n - 1 THEN n - 1 - 1 + 1 ELSE 0
        /\ \A i \in 1 .. n - 1 - 1 + 1 : calls'[i] = calls[1 + i - 1]
    BY <2>1, <2>2, <2>3, SubSeqProperties
  <2>5. \A i \in 1 .. n - 1 : i \in 1 .. n - 1 - 1 + 1 /\ 1 + i - 1 = i
    BY <1>2
  <2>6. Len(calls') = n - 1
    <3>1. Len(calls') = IF 1 <= n - 1 THEN n - 1 - 1 + 1 ELSE 0
      BY <2>4
    <3>2. n \in Nat /\ n > 0
      BY <1>2
    <3> HIDE DEF n
    <3> QED BY <3>1, <3>2
  <2> QED BY <2>4, <2>5, <2>6
<1>7. VariablesTypeOK'
  BY <1>1, <1>5, <1>6 DEF VariablesTypeOK, Unwind
<1>8. RegistersKept'
  <2>1. \A j \in 1 .. Base : j \in 1 .. Len(stack) - calls[n].pops
    BY <1>3, <1>4
  <2>2. Len(stack') >= Base
    BY <1>3, <1>4, <1>5
  <2> QED BY <1>1, <1>5, <2>1, <2>2 DEF RegistersKept, Base
<1>9. CallsNest'
  <2>1. \A i \in 1 .. n - 1 : calls'[i].depth > Base
    BY <1>1, <1>2, <1>6 DEF CallsNest
  <2>2. \A i \in 1 .. n - 2 : calls'[i + 1].depth = calls'[i].depth + calls'[i].pops
    <3> TAKE i \in 1 .. n - 2
    <3>1. i \in 1 .. n - 1 /\ i + 1 \in 1 .. n - 1
      BY <1>2
    <3> QED BY <1>1, <1>6, <3>1 DEF CallsNest
  <2>3. calls' # <<>> => calls'[1].depth = Base + 1
    <3>1. calls' # <<>> => 1 \in 1 .. n - 1
      BY <1>2, <1>6, EmptySeq
    <3> QED BY <1>1, <1>6, <3>1 DEF CallsNest
  <2>4. Len(calls') - 1 = n - 2
    BY <1>2, <1>6
  <2> QED BY <1>6, <2>1, <2>2, <2>3, <2>4 DEF CallsNest, Base
<1>10. StackDepth'
  <2>1. CASE calls' = <<>>
    <3>1. n = 1
      BY <1>2, <1>6, <2>1, EmptySeq
    <3>2. Len(stack') = Base + 1
      BY <1>1, <1>5, <3>1 DEF CallsNest
    <3> QED BY <1>1, <2>1, <3>2 DEF StackDepth, Base
  <2>2. CASE calls' # <<>>
    <3>1. n - 1 \in 1 .. n - 1 /\ n - 1 + 1 = n
      BY <1>2, <1>6, <2>2, EmptySeq
    <3>2. calls[n].depth = calls[n - 1].depth + calls[n - 1].pops
      BY <1>1, <3>1 DEF CallsNest
    <3>3. Len(stack') = calls'[n - 1].depth + calls'[n - 1].pops
      BY <1>5, <1>6, <3>1, <3>2
    <3> QED BY <1>1, <1>6, <2>2, <3>3 DEF StackDepth, InCall
  <2> QED BY <2>1, <2>2
<1>11. WriteIsBelowRoot' /\ IteratorOnTop'
  BY <1>1 DEF WriteIsBelowRoot, IteratorOnTop
<1> QED BY <1>7, <1>8, <1>9, <1>10, <1>11 DEF IInv

\* With the root value gone, the stack is the script's again.
LEMMA PopRootSafe == IInv /\ PopRoot => IInv'
<1> SUFFICES ASSUME IInv, PopRoot PROVE IInv'
  OBVIOUS
<1>1. /\ VariablesTypeOK /\ RegistersKept /\ CallsNest
      /\ phase = "unwind" /\ phase' = "reply" /\ calls = <<>> /\ calls' = calls
      /\ Len(stack) = Base + 1
  BY DEF IInv, PopRoot, StackDepth
<1>2. Len(stack) \in Nat /\ Base \in Nat /\ stack \in Seq(Value)
  BY <1>1, TopIsOurs
<1>3. /\ stack' \in Seq(Value) /\ Len(stack') = Base
      /\ \A j \in 1 .. Base : stack'[j] = stack[j]
  <2>1. 1 \in 0 .. Len(stack) /\ Len(stack) - 1 = Base
    BY <1>1, <1>2
  <2> QED BY <1>2, <2>1, PopProperties DEF PopRoot
<1>4. VariablesTypeOK'
  BY <1>1, <1>3 DEF VariablesTypeOK, PopRoot
<1>5. RegistersKept' /\ CallsNest'
  BY <1>1, <1>2, <1>3 DEF RegistersKept, CallsNest, Base
<1>6. StackDepth' /\ WriteIsBelowRoot' /\ IteratorOnTop'
  BY <1>1, <1>3 DEF StackDepth, WriteIsBelowRoot, IteratorOnTop, Base
<1> QED BY <1>4, <1>5, <1>6 DEF IInv

\* An element of an array is pushed for the next call.
LEMMA DescendArraySafe == IInv /\ DescendArray => IInv'
<1> SUFFICES ASSUME IInv, DescendArray PROVE IInv'
  OBVIOUS
<1> DEFINE v == ValueOf(heap, At(stack, -1), Integer(Head(rest)))
<1>1. v \in Value
  BY ValueOfType DEF IInv, VariablesTypeOK, DescendArray
<1>2. <<v>> \in Seq(Value) /\ Len(<<v>>) \in {1, 3}
  BY <1>1
<1>3. Descend(<<v>>) /\ phase = "walk" /\ rest # <<>> /\ UNCHANGED <<heap, cmd>>
  BY DEF DescendArray
<1> HIDE DEF v
<1> QED BY <1>2, <1>3, DescendSafe

\* The iterator, the key and the value of an entry of a table are pushed for the next call.
LEMMA DescendTableSafe == IInv /\ DescendTable => IInv'
<1> SUFFICES ASSUME IInv, DescendTable PROVE IInv'
  OBVIOUS
<1> DEFINE slots == Slots(heap, At(stack, -1))
           i == NextSlot(slots, Head(rest))
<1>1. slots \in Seq(Slot) /\ Len(slots) \in Nat
  BY SlotsType, LenProperties DEF IInv, VariablesTypeOK
<1>2. Head(rest) \in Int
  <2>1. rest \in Seq(Iterator) /\ rest # <<>>
    BY DEF IInv, VariablesTypeOK, DescendTable
  <2>2. Head(rest) \in Iterator
    BY <2>1, HeadTailProperties
  <2>3. \A part \in Iterator : part \in Int
    BY BoundsAssumption
  <2> QED BY <2>2, <2>3, Zenon
<1>3. i \in 1 .. Len(slots) /\ i \in Int
  BY <1>1, <1>2, NextSlotIsFilled DEF DescendTable
<1>4. slots[i].key \in Value /\ slots[i].val \in Value /\ Integer(i) \in Value
  <2>1. slots[i] \in Slot
    BY <1>1, <1>3, ElementOfSeq
  <2> QED BY <1>3, <2>1 DEF Slot, Integer, Value
<1>5. NextEntry(slots, i) \in Seq(Value) /\ Len(NextEntry(slots, i)) \in {1, 3}
  <2> HIDE DEF slots, i
  <2> QED BY <1>4 DEF NextEntry
<1>6. /\ Descend(NextEntry(slots, i)) /\ phase = "walk" /\ rest # <<>>
      /\ UNCHANGED <<heap, cmd>>
  BY DEF DescendTable
<1> HIDE DEF slots, i
<1> QED BY <1>5, <1>6, DescendSafe

\* Paths are sequences of iterators.
LEMMA PathsAreSequences ==
    ASSUME NEW path \in Paths
    PROVE  path \in Seq(Iterator)
<1>1. PICK n \in 0 .. MaxPath : path \in [1 .. n -> Iterator]
  BY DEF Paths
<1>2. n \in Nat
  BY <1>1, BoundsAssumption
<1> QED BY <1>1, <1>2, SeqDef

\* The first call begins one above the script's own values.
LEMMA FollowFromSafe ==
    ASSUME IInv, phase = "idle", UNCHANGED heap, cmd' \in Commands,
           NEW v \in Value, NEW path \in Seq(Iterator), FollowFrom(v, path),
           cmd'.op = "set" => path # <<>>
    PROVE  IInv'
<1>1. VariablesTypeOK /\ RegistersKept /\ Len(stack) = Base
  BY DEF IInv, StackDepth
<1>2. stack \in Seq(Value) /\ Len(stack) \in Nat /\ Base \in Nat
  BY <1>1, Typed
<1>3. /\ stack' \in Seq(Value) /\ Len(stack') = Base + 1
      /\ \A i \in 1 .. Base : stack'[i] = stack[i]
  BY <1>1, <1>2, AppendProperties DEF FollowFrom, Push
<1>4. calls' = <<[depth |-> Base + 1, pops |-> 0]>>
  BY <1>1 DEF FollowFrom
<1>5. [depth |-> Base + 1, pops |-> 0] \in Call
  BY <1>2 DEF Call
<1>6. /\ calls' \in Seq(Call) /\ Len(calls') = 1 /\ calls' # <<>>
      /\ calls'[1].depth = Base + 1 /\ calls'[1].pops = 0
  BY <1>4, <1>5
<1>7. VariablesTypeOK'
  BY <1>1, <1>3, <1>6 DEF VariablesTypeOK, FollowFrom
<1>8. RegistersKept'
  BY <1>1, <1>2, <1>3 DEF RegistersKept, Base
<1>9. CallsNest' /\ StackDepth'
  BY <1>2, <1>3, <1>6 DEF CallsNest, StackDepth, InCall, FollowFrom, Base
<1>10. WriteIsBelowRoot' /\ IteratorOnTop'
  BY DEF WriteIsBelowRoot, IteratorOnTop, FollowFrom
<1> QED BY <1>7, <1>8, <1>9, <1>10 DEF IInv

\* A command that is refused at once has pushed nothing.
LEMMA RefuseSafe ==
    ASSUME IInv, phase = "idle", UNCHANGED heap, cmd' \in Commands,
           UNCHANGED <<stack, rest, calls>>, phase' \in {"reply", "locals"},
           rc' \in {rc, "InvalidParameter"}
    PROVE  IInv'
<1>1. VariablesTypeOK'
  BY DEF IInv, VariablesTypeOK
<1>2. StackDepth'
  BY DEF IInv, StackDepth
<1> QED BY <1>1, <1>2, StackUntouched

\* Locals are values, as far as a frame has them.
LEMMA LocalType ==
    ASSUME NEW frame \in Nat, NEW n \in Nat, HasLocal(frame, n)
    PROVE  Local(frame, n) \in Value
<1>1. frame + 1 \in 1 .. Len(Locals)
  BY ScriptValuesAssumption, LenProperties DEF HasLocal
<1>2. Locals[frame + 1] \in Seq(Value)
  BY <1>1, ScriptValuesAssumption, ElementOfSeq
<1>3. n + 1 \in 1 .. Len(Locals[frame + 1])
  BY <1>2, LenProperties DEF HasLocal
<1> QED BY <1>2, <1>3, ElementOfSeq DEF Local

\* A path through the locals of a frame begins with the place of one of them.
LEMMA WithStackVariablesSafe ==
    ASSUME IInv, phase = "idle", UNCHANGED heap, cmd' \in Commands,
           NEW target \in Targets, target.path # <<>>,
           WithStackVariables(target, cmd'.op)
    PROVE  IInv'
<1>1. target.frame \in Nat /\ target.path \in Seq(Iterator)
  <2>1. target.path \in Paths /\ target.frame \in 0 .. Len(Locals) + 1
    <3>1. Len(Locals) \in Nat
      BY ScriptValuesAssumption, LenProperties
    <3> QED BY <3>1 DEF Targets, Frame
  <2> QED BY <2>1, PathsAreSequences
<1>2. target.path[1] \in Nat /\ Tail(target.path) \in Seq(Iterator)
      /\ Len(Tail(target.path)) = Len(target.path) - 1 /\ Len(target.path) \in Nat \ {0}
  <2>1. Len(target.path) \in Nat \ {0}
    BY <1>1, EmptySeq
  <2>2. target.path[1] \in Iterator
    BY <1>1, <2>1, ElementOfSeq
  <2> QED BY <1>1, <2>1, <2>2, HeadTailProperties, BoundsAssumption
<1>3. CASE Refuse
  BY <1>3, RefuseSafe DEF Refuse
<1>4. CASE ~Refuse
  <2>1. /\ HasLocal(target.frame, target.path[1])
        /\ ~(cmd'.op = "set" /\ Len(target.path) = 1)
        /\ FollowFrom(Local(target.frame, target.path[1]), Tail(target.path))
    BY <1>4 DEF WithStackVariables
  <2>2. Local(target.frame, target.path[1]) \in Value
    BY <1>1, <1>2, <2>1, LocalType
  <2>3. cmd'.op = "set" => Tail(target.path) # <<>>
    <3>1. cmd'.op = "set" => Len(Tail(target.path)) # 0
      BY <1>2, <2>1
    <3>2. Len(<<>>) = 0
      BY EmptySeq
    <3> QED BY <3>1, <3>2
  <2> QED BY <1>2, <2>1, <2>2, <2>3, FollowFromSafe
<1> QED BY <1>3, <1>4

LEMMA CommandSafe == IInv /\ Command => IInv'
<1> SUFFICES ASSUME IInv, Command PROVE IInv'
  OBVIOUS
<1>1. PICK target \in Targets :
        \/ \E begin \in Iterator, count \in Count : GetVariables(target, begin, count)
        \/ \E text \in Text : SetStackVariableValue(target, text)
  BY DEF Command
<1>2. ASSUME NEW begin \in Iterator, NEW count \in Count, GetVariables(target, begin, count)
      PROVE  IInv'
  <2>1. /\ phase = "idle" /\ UNCHANGED heap
        /\ cmd' \in Commands /\ cmd'.op = "list"
    BY <1>2 DEF GetVariables, Commands
  <2>2. CASE target.scope = "global" /\ FollowFrom(Root, target.path)
    <3>1. target.path \in Seq(Iterator)
      BY PathsAreSequences DEF Targets
    <3> QED BY <2>1, <2>2, <3>1, FollowFromSafe, ScriptValuesAssumption
  <2>3. CASE Refuse
    BY <2>1, <2>3, RefuseSafe DEF Refuse
  <2>4. CASE phase' = "locals" /\ UNCHANGED <<stack, rest, calls, rc>>
    BY <2>1, <2>4, RefuseSafe
  <2>5. CASE target.path # <<>> /\ WithStackVariables(target, "list")
    BY <2>1, <2>5, WithStackVariablesSafe
  <2> QED BY <1>2, <2>2, <2>3, <2>4, <2>5 DEF GetVariables
<1>3. ASSUME NEW text \in Text, SetStackVariableValue(target, text)
      PROVE  IInv'
  <2>1. /\ phase = "idle" /\ UNCHANGED heap /\ target.path # <<>>
        /\ cmd' \in Commands /\ cmd'.op = "set"
    BY <1>3 DEF SetStackVariableValue, Commands
  <2>2. CASE Refuse
    BY <2>1, <2>2, RefuseSafe DEF Refuse
  <2>3. CASE WithStackVariables(target, "set")
    BY <2>1, <2>3, WithStackVariablesSafe
  <2> QED BY <1>3, <2>2, <2>3 DEF SetStackVariableValue
<1> QED BY <1>1, <1>2, <1>3

\* The texts that clients write stand for values of the VM.
LEMMA ParsedType ==
    ASSUME NEW type, NEW text \in Text, Parsed(type, text) # Null
    PROVE  Parsed(type, text) \in Value
<1>1. CASE type = "string"
  BY <1>1, TextAssumption DEF Parsed
<1>2. CASE type # "string"
  <2>1. type \in {"bool", "integer", "float"} /\ Parsed(type, text) = Parse[type][text]
    BY <1>2 DEF Parsed
  <2> QED BY <2>1, TextAssumption
<1> QED BY <1>1, <1>2

\* Two values go and two come, or one and one, all above the script's own.
LEMMA UpdateSafe == IInv /\ UpdateFromString => IInv'
<1> SUFFICES ASSUME IInv, UpdateFromString PROVE IInv'
  OBVIOUS
<1> DEFINE n == Len(stack)
           container == At(stack, ContainerIndex)
           key == At(stack, -2)
           new == Parsed(Type(At(stack, -1)), cmd.text)
<1>1. /\ VariablesTypeOK /\ StackDepth /\ RegistersKept /\ CallsNest
      /\ phase = "walk" /\ rest = <<>> /\ cmd.op = "set" /\ phase' = "unwind"
      /\ UNCHANGED <<cmd, rest, calls>>
  BY DEF IInv, UpdateFromString, AtLeaf
<1>2. n \in Nat /\ Base \in Nat /\ stack \in Seq(Value) /\ n >= Base + 2
  <2>1. n \in Nat /\ Base \in Nat /\ stack \in Seq(Value)
    BY <1>1, TopIsOurs
  <2> QED BY <1>1, <2>1 DEF IInv, WriteIsBelowRoot
<1>3. new \in Value
  <2>1. cmd \in Commands
    BY <1>1 DEF VariablesTypeOK
  <2>2. cmd.text \in Text
    BY <1>1, <2>1 DEF Commands
  <2>3. new # Null
    BY DEF UpdateFromString
  <2> QED BY <2>2, <2>3, ParsedType
<1>4. key \in Value
  <2>1. n + 1 + -2 \in 1 .. n
    BY <1>2
  <2> QED BY <1>2, <2>1, ElementOfSeq DEF At
<1>5. heap \in [Container -> Seq(Slot)]
  BY <1>1 DEF VariablesTypeOK
<1>6. /\ heap' \in [Container -> Seq(Slot)]
      /\ stack' \in Seq(Value) /\ Len(stack') = n
      /\ \A i \in 1 .. n - 2 : stack'[i] = stack[i]
  <2>1. CASE HasKey(heap, container, key)
    <3>1. /\ heap' = SetValue(heap, container, key, new)
          /\ stack' = Pop(stack, 2) \o <<key, ValueOf(heap', container, key)>>
      BY <2>1 DEF UpdateFromString
    <3>2. heap' \in [Container -> Seq(Slot)] /\ HasKey(heap', container, key)
      BY <1>3, <1>5, <2>1, <3>1, SetValueKeepsKeys
    <3>3. ValueOf(heap', container, key) \in Value
      BY <3>2, ValueOfType
    <3> DEFINE value == ValueOf(heap', container, key)
    <3>4. /\ Pop(stack, 2) \in Seq(Value) /\ Len(Pop(stack, 2)) = n - 2
          /\ \A i \in 1 .. n - 2 : Pop(stack, 2)[i] = stack[i]
      <4>1. 2 \in 0 .. n
        BY <1>2
      <4> QED BY <1>2, <4>1, PopProperties
    <3> HIDE DEF key, value, n
    <3>5. <<key, value>> \in Seq(Value) /\ Len(<<key, value>>) = 2
      BY <1>4, <3>3 DEF value
    <3>6. stack' = Pop(stack, 2) \o <<key, value>>
      BY <3>1 DEF value
    <3>7. n - 2 + 2 = n /\ \A i \in 1 .. n - 2 : i \in 1 .. n - 2 + 2 /\ i <= n - 2
      BY <1>2
    <3> QED BY <3>2, <3>4, <3>5, <3>6, <3>7, ConcatProperties
  <2>2. CASE ~HasKey(heap, container, key)
    <3>1. heap' = heap /\ stack' = Append(Pop(stack, 1), new)
      BY <2>2 DEF UpdateFromString, Push
    <3>2. /\ Pop(stack, 1) \in Seq(Value) /\ Len(Pop(stack, 1)) = n - 1
          /\ \A i \in 1 .. n - 1 : Pop(stack, 1)[i] = stack[i]
      <4>1. 1 \in 0 .. n
        BY <1>2
      <4> QED BY <1>2, <4>1, PopProperties
    <3> HIDE DEF new, n
    <3>3. n - 1 + 1 = n /\ \A i \in 1 .. n - 2 : i \in 1 .. n - 1
      BY <1>2
    <3> QED BY <1>3, <1>5, <3>1, <3>2, <3>3, AppendProperties
  <2> QED BY <2>1, <2>2
<1>7. rc' \in {"Success", "InvalidParameter", "ErrorInternal"}
  BY <1>1 DEF VariablesTypeOK, UpdateFromString
<1>8. VariablesTypeOK'
  BY <1>1, <1>6, <1>7 DEF VariablesTypeOK
<1>9. RegistersKept'
  <2>1. \A i \in 1 .. Base : i \in 1 .. n - 2
    BY <1>2
  <2> QED BY <1>1, <1>2, <1>6, <2>1 DEF RegistersKept, Base
<1>10. CallsNest'
  BY <1>1 DEF CallsNest
<1>11. StackDepth'
  <2>1. calls # <<>> /\ calls[InCall].pops = 0 /\ n = calls[InCall].depth
    BY <1>1 DEF StackDepth
  <2>2. Len(stack') = calls[InCall].depth + calls[InCall].pops
    BY <1>2, <1>6, <2>1
  <2> QED BY <1>1, <2>1, <2>2 DEF StackDepth, InCall
<1>12. WriteIsBelowRoot' /\ IteratorOnTop'
  BY <1>1 DEF WriteIsBelowRoot, IteratorOnTop
<1> QED BY <1>8, <1>9, <1>10, <1>11, <1>12 DEF IInv

\* Every step keeps the invariant.
LEMMA StackStep == IInv /\ [Next]_vars => IInv'
<1> SUFFICES ASSUME IInv, [Next]_vars PROVE IInv'
  OBVIOUS
<1>1. CASE Command
  BY <1>1, CommandSafe
<1>2. CASE Walk
  BY <1>2, DescendArraySafe, DescendTableSafe, SameStackSafe, UnwindSafe, PopRootSafe DEF Walk
<1>3. CASE ListChildren
  BY <1>3, StartIteratingSafe, AddNextSafe, EndIteratingSafe, SameStackSafe DEF ListChildren
<1>4. CASE RejectText \/ Reply \/ ScriptRuns
  BY <1>4, SameStackSafe
<1>5. CASE UpdateFromString
  BY <1>5, UpdateSafe
<1>6. CASE UNCHANGED vars
  <2>1. VariablesTypeOK' /\ RegistersKept' /\ CallsNest'
    BY <1>6 DEF vars, IInv, VariablesTypeOK, RegistersKept, CallsNest
  <2>2. StackDepth' /\ WriteIsBelowRoot' /\ IteratorOnTop'
    BY <1>6 DEF vars, IInv, StackDepth, WriteIsBelowRoot, IteratorOnTop, InCall, At
  <2> QED BY <2>1, <2>2 DEF IInv
<1> QED BY <1>1, <1>2, <1>3, <1>4, <1>5, <1>6 DEF Next

-----------------------------------------------------------------------------
(* The operand stack *)

\* Whatever clients list and write, in whatever order, the state has its types
\* (SquirrelVmHelpers.cpp, SquirrelDebugger.cpp:77-221).
THEOREM VariablesTyped == Spec => []VariablesTypeOK
<1>1. IInv => VariablesTypeOK
  BY DEF IInv
<1> QED BY <1>1, StackInit, StackStep, PTL DEF Spec

\* No path, page or write, whether it succeeds or fails, leaves anything on the operand stack of
\* the script or takes anything from it (ScopedVerifySqTop, SquirrelVmHelpers.h:53-75).
THEOREM ScriptKeepsItsStack == Spec => []OperandStackRestored
BY InvariantRestores, StackInit, StackStep, PTL DEF Spec

-----------------------------------------------------------------------------
(* What a path leads to.  A chain holds what each part of a path leads to. *)

IsChain(f, h, v, parts, k) ==
    f = [n \in 0 .. k |-> IF n = 0 THEN v ELSE Child(h, f[n - 1], parts[n])]

LEMMA ChainSteps ==
    ASSUME NEW h, NEW v, NEW parts, NEW k \in Nat, NEW f, IsChain(f, h, v, parts, k)
    PROVE  /\ DOMAIN f = 0 .. k /\ f[0] = v
           /\ \A n \in 1 .. k : f[n] = Child(h, f[n - 1], parts[n])
<1>1. DOMAIN f = 0 .. k
  BY DEF IsChain
<1>2. \A n \in 0 .. k : f[n] = IF n = 0 THEN v ELSE Child(h, f[n - 1], parts[n])
  BY DEF IsChain
<1> QED BY <1>1, <1>2

\* There is a chain for every path, by the shortest path that had none.
LEMMA ChainExists ==
    ASSUME NEW h, NEW v, NEW parts, NEW k \in Nat
    PROVE  \E f : IsChain(f, h, v, parts, k)
<1> DEFINE S == {n \in Nat : ~ \E f : IsChain(f, h, v, parts, n)}
<1> SUFFICES S = {}
  OBVIOUS
<1> SUFFICES ASSUME S # {} PROVE FALSE
  OBVIOUS
<1>1. PICK m \in S : \A n \in S : m <= n
  BY LeastNumber
<1>2. m \in Nat /\ ~ \E f : IsChain(f, h, v, parts, m)
  BY <1>1
<1>3. CASE m = 0
  <2>1. IsChain([n \in 0 .. 0 |-> v], h, v, parts, 0)
    BY DEF IsChain
  <2> QED BY <1>2, <1>3, <2>1
<1>4. CASE m # 0
  <2>1. PICK k0 \in Nat : m = k0 + 1 /\ k0 \notin S
    <3>1. m - 1 \in Nat /\ m = m - 1 + 1 /\ ~ (m <= m - 1)
      BY <1>2, <1>4
    <3>2. m - 1 \notin S
      BY <1>1, <3>1
    <3> HIDE DEF S
    <3> QED BY <3>1, <3>2
  <2>2. PICK f : IsChain(f, h, v, parts, k0)
    BY <2>1
  <2> HIDE DEF S
  <2>3. f[0] = v /\ \A n \in 1 .. k0 : f[n] = Child(h, f[n - 1], parts[n])
    BY <2>1, <2>2, ChainSteps
  <2> DEFINE g == [n \in 0 .. k0 + 1 |-> IF n = k0 + 1 THEN Child(h, f[k0], parts[n]) ELSE f[n]]
  <2>4. \A n \in 0 .. k0 + 1 : g[n] = IF n = 0 THEN v ELSE Child(h, g[n - 1], parts[n])
    <3> TAKE n \in 0 .. k0 + 1
    <3>1. CASE n = 0
      BY <2>1, <2>3, <3>1
    <3>2. CASE n # 0
      <4>1. n - 1 \in 0 .. k0 + 1 /\ n - 1 # k0 + 1 /\ g[n - 1] = f[n - 1]
        BY <2>1, <3>2
      <4>2. CASE n = k0 + 1
        <5>1. n - 1 = k0
          BY <2>1, <4>2
        <5> QED BY <4>1, <4>2, <3>2, <5>1
      <4>3. CASE n # k0 + 1
        <5>1. n \in 1 .. k0
          BY <2>1, <3>2, <4>3
        <5> QED BY <2>3, <3>2, <4>1, <4>3, <5>1
      <4> QED BY <4>2, <4>3
    <3> QED BY <3>1, <3>2
  <2>5. g = [n \in 0 .. k0 + 1 |-> g[n]]
    OBVIOUS
  <2> HIDE DEF g
  <2>6. IsChain(g, h, v, parts, m)
    BY <2>1, <2>4, <2>5 DEF IsChain
  <2> QED BY <1>2, <2>6
<1> QED BY <1>3, <1>4

\* Chains for the same path are equal as far as both go.
LEMMA ChainsAgree ==
    ASSUME NEW h, NEW v, NEW p, NEW q, NEW j \in Nat, NEW k \in Nat,
           NEW f, NEW g, IsChain(f, h, v, p, j), IsChain(g, h, v, q, k),
           \A n \in 1 .. j : p[n] = q[n], j <= k
    PROVE  \A n \in 0 .. j : f[n] = g[n]
<1> DEFINE S == {n \in 0 .. j : f[n] # g[n]}
<1> SUFFICES S = {}
  OBVIOUS
<1> SUFFICES ASSUME S # {} PROVE FALSE
  OBVIOUS
<1>1. PICK m \in S : \A n \in S : m <= n
  <2>1. S \subseteq Nat
    OBVIOUS
  <2> HIDE DEF S
  <2> QED BY <2>1, LeastNumber
<1>2. /\ f[0] = v /\ \A n \in 1 .. j : f[n] = Child(h, f[n - 1], p[n])
      /\ g[0] = v /\ \A n \in 1 .. k : g[n] = Child(h, g[n - 1], q[n])
  <2>1. f[0] = v /\ \A n \in 1 .. j : f[n] = Child(h, f[n - 1], p[n])
    BY ChainSteps
  <2>2. g[0] = v /\ \A n \in 1 .. k : g[n] = Child(h, g[n - 1], q[n])
    BY ChainSteps
  <2> QED BY <2>1, <2>2
<1>3. m \in 1 .. j /\ m \in 1 .. k /\ m - 1 \in 0 .. j /\ m - 1 \notin S
  BY <1>1, <1>2
<1>4. f[m - 1] = g[m - 1] /\ p[m] = q[m]
  BY <1>3
<1>5. f[m] = Child(h, f[m - 1], p[m]) /\ g[m] = Child(h, g[m - 1], q[m])
  BY <1>2, <1>3
<1>6. f[m] = g[m]
  BY <1>4, <1>5
<1> QED BY <1>1, <1>6

\* A path leads to the end of its chain.
LEMMA FollowedIsEnd ==
    ASSUME NEW h, NEW v, NEW parts, Len(parts) \in Nat,
           NEW f, IsChain(f, h, v, parts, Len(parts))
    PROVE  Followed(h, v, parts) = f[Len(parts)]
<1> DEFINE value == CHOOSE g : IsChain(g, h, v, parts, Len(parts))
<1>1. IsChain(value, h, v, parts, Len(parts))
  OBVIOUS
<1>2. Followed(h, v, parts) = value[Len(parts)]
  BY DEF Followed, IsChain
<1> HIDE DEF value
<1>3. \A n \in 0 .. Len(parts) : f[n] = value[n]
  BY <1>1, ChainsAgree
<1> QED BY <1>2, <1>3

\* The beginnings of a path.
LEMMA Beginnings ==
    ASSUME NEW T, NEW parts \in Seq(T), NEW k \in 0 .. Len(parts)
    PROVE  /\ SubSeq(parts, 1, k) \in Seq(T) /\ Len(SubSeq(parts, 1, k)) = k
           /\ \A i \in 1 .. k : SubSeq(parts, 1, k)[i] = parts[i]
           /\ k = Len(parts) => SubSeq(parts, 1, k) = parts
<1>1. Len(parts) \in Nat /\ k \in Nat /\ 1 \in Int /\ k \in Int
  BY LenProperties
<1>2. \A i \in 1 .. k : parts[i] \in T
  <2>1. \A i \in 1 .. k : i \in 1 .. Len(parts)
    BY <1>1
  <2> QED BY <2>1, ElementOfSeq
<1>3. /\ SubSeq(parts, 1, k) \in Seq(T)
      /\ Len(SubSeq(parts, 1, k)) = IF 1 <= k THEN k - 1 + 1 ELSE 0
      /\ \A i \in 1 .. k - 1 + 1 : SubSeq(parts, 1, k)[i] = parts[1 + i - 1]
  BY <1>1, <1>2, SubSeqProperties
<1>4. (IF 1 <= k THEN k - 1 + 1 ELSE 0) = k /\ k - 1 + 1 = k /\ \A i \in 1 .. k : 1 + i - 1 = i
  BY <1>1
<1>5. \A i \in 1 .. k : SubSeq(parts, 1, k)[i] = parts[i]
  BY <1>3, <1>4
<1>6. k = Len(parts) => SubSeq(parts, 1, k) = parts
  BY <1>3, <1>4, <1>5, SeqEqual
<1> QED BY <1>3, <1>4, <1>5, <1>6

\* The chain of a path is that of its beginnings, too.
Traces(f, h, v, parts, len) ==
    /\ f[0] = v
    /\ \A n \in 1 .. len : f[n] = Child(h, f[n - 1], parts[n])
    /\ \A k \in 0 .. len : \A first :
          Len(first) = k /\ (\A i \in 1 .. k : first[i] = parts[i]) =>
              Followed(h, v, first) = f[k]

LEMMA OneChain ==
    ASSUME NEW h, NEW v, NEW parts, NEW len \in Nat
    PROVE  \E f : Traces(f, h, v, parts, len)
<1>1. PICK f : IsChain(f, h, v, parts, len)
  BY ChainExists
<1>2. f[0] = v /\ \A n \in 1 .. len : f[n] = Child(h, f[n - 1], parts[n])
  BY <1>1, ChainSteps
<1>3. ASSUME NEW k \in 0 .. len, NEW first, Len(first) = k,
             \A i \in 1 .. k : first[i] = parts[i]
      PROVE  Followed(h, v, first) = f[k]
  <2>1. k \in Nat /\ k <= len /\ k \in 0 .. k
    OBVIOUS
  <2>2. PICK g : IsChain(g, h, v, first, k)
    BY <2>1, ChainExists
  <2>3. Followed(h, v, first) = g[k]
    BY <1>3, <2>1, <2>2, FollowedIsEnd
  <2>4. \A n \in 0 .. k : g[n] = f[n]
    BY <1>1, <1>3, <2>1, <2>2, ChainsAgree
  <2> QED BY <2>1, <2>3, <2>4
<1> QED BY <1>2, <1>3 DEF Traces

\* What the parts of a path lead to, one after the other.
LeadsThrough(f, h, v, parts) ==
    /\ f[0] = v
    /\ \A n \in 1 .. Len(parts) : f[n] = Child(h, f[n - 1], parts[n])
    /\ \A k \in 0 .. Len(parts) : Followed(h, v, SubSeq(parts, 1, k)) = f[k]
    /\ Followed(h, v, parts) = f[Len(parts)]

LEMMA FollowedInChain ==
    ASSUME NEW h, NEW v, NEW T, NEW parts \in Seq(T)
    PROVE  \E f : LeadsThrough(f, h, v, parts)
<1>1. Len(parts) \in Nat
  BY LenProperties
<1>2. PICK len \in Nat : len = Len(parts)
  BY <1>1
<1>3. PICK f : Traces(f, h, v, parts, len)
  BY OneChain
<1>4. ASSUME NEW k \in 0 .. len PROVE Followed(h, v, SubSeq(parts, 1, k)) = f[k]
  <2>1. PICK first : first = SubSeq(parts, 1, k)
    OBVIOUS
  <2>2. Len(first) = k /\ \A i \in 1 .. k : first[i] = parts[i]
    BY <1>2, <2>1, Beginnings
  <2> QED BY <1>3, <2>1, <2>2 DEF Traces
<1>5. Followed(h, v, parts) = f[len]
  <2>1. len \in 0 .. len /\ Len(parts) = len /\ \A i \in 1 .. len : parts[i] = parts[i]
    BY <1>2
  <2> QED BY <1>3, <2>1 DEF Traces
<1>6. f[0] = v
  BY <1>3 DEF Traces
<1>7. \A n \in 1 .. len : f[n] = Child(h, f[n - 1], parts[n])
  BY <1>3 DEF Traces
<1> QED BY <1>2, <1>4, <1>5, <1>6, <1>7 DEF LeadsThrough

\* A path of no parts leads nowhere else, and one more part leads to a child.
StartsAt(h, v, parts) == Followed(h, v, SubSeq(parts, 1, 0)) = v

OneMorePart(h, v, parts, k) ==
    Followed(h, v, SubSeq(parts, 1, k)) =
        Child(h, Followed(h, v, SubSeq(parts, 1, k - 1)), parts[k])

LEMMA FollowedNone ==
    ASSUME NEW h, NEW v, NEW T, NEW parts \in Seq(T)
    PROVE  StartsAt(h, v, parts)
<1>1. 0 \in 0 .. Len(parts)
  BY LenProperties
<1>2. PICK f : LeadsThrough(f, h, v, parts)
  BY FollowedInChain
<1> QED BY <1>1, <1>2 DEF LeadsThrough, StartsAt

LEMMA FollowedOneMore ==
    ASSUME NEW h, NEW v, NEW T, NEW parts \in Seq(T), NEW k \in 1 .. Len(parts)
    PROVE  OneMorePart(h, v, parts, k)
<1>1. Len(parts) \in Nat
  BY LenProperties
<1>2. PICK f : LeadsThrough(f, h, v, parts)
  BY FollowedInChain
<1>3. k \in 0 .. Len(parts) /\ k - 1 \in 0 .. Len(parts)
  BY <1>1
<1>4. Followed(h, v, SubSeq(parts, 1, k)) = f[k]
  BY <1>2, <1>3 DEF LeadsThrough
<1>5. Followed(h, v, SubSeq(parts, 1, k - 1)) = f[k - 1]
  BY <1>2, <1>3 DEF LeadsThrough
<1> QED BY <1>2, <1>4, <1>5 DEF LeadsThrough, OneMorePart

\* Containers are no value that a slot without one has.
LEMMA NullHasNothing ==
    ASSUME NEW h \in [Container -> Seq(Slot)], NEW v, v \notin Container
    PROVE  /\ Slots(h, v) = <<>>
           /\ \A part \in Int : NextSlot(Slots(h, v), part) = 0 /\ Child(h, v, part) = Null
           /\ Null \notin Container
<1>1. Slots(h, v) = <<>>
  BY DEF Slots
<1>2. Filled(<<>>) = {}
  BY DEF Filled
<1>3. \A part \in Int : NextSlot(<<>>, part) = 0
  BY <1>2 DEF NextSlot
<1>4. Null \notin Container
  BY ContainersAssumption DEF Type, Null
<1> QED BY <1>1, <1>3, <1>4 DEF Child

\* A path that leads to a container finds something at each of its parts.
LEMMA NoDeadEnd ==
    ASSUME NEW h \in [Container -> Seq(Slot)], NEW v, NEW parts \in Seq(Int),
           Followed(h, v, parts) \in Container, NEW k \in 1 .. Len(parts)
    PROVE  NextSlot(Slots(h, Followed(h, v, SubSeq(parts, 1, k - 1))), parts[k]) # 0
<1> SUFFICES ASSUME NextSlot(Slots(h, Followed(h, v, SubSeq(parts, 1, k - 1))), parts[k]) = 0
             PROVE  FALSE
  OBVIOUS
<1>1. Len(parts) \in Nat /\ k \in 1 .. Len(parts)
  BY LenProperties
<1>2. PICK f : LeadsThrough(f, h, v, parts)
  BY FollowedInChain
<1>3. f[k] = Null
  <2>1. k - 1 \in 0 .. Len(parts)
    BY <1>1
  <2>2. Followed(h, v, SubSeq(parts, 1, k - 1)) = f[k - 1]
    BY <1>2, <2>1 DEF LeadsThrough
  <2> QED BY <1>2, <2>2 DEF Child, LeadsThrough
<1> DEFINE S == {n \in k .. Len(parts) : f[n] # Null}
<1>4. CASE S = {}
  <2>1. f[Len(parts)] = Null
    BY <1>1, <1>4
  <2> QED BY <1>2, <2>1, ContainersAssumption DEF LeadsThrough, Type, Null
<1>5. CASE S # {}
  <2>1. PICK m \in S : \A n \in S : m <= n
    <3>1. S \subseteq Nat
      BY <1>1
    <3> HIDE DEF S
    <3> QED BY <1>5, <3>1, LeastNumber
  <2>2. m \in 1 .. Len(parts) /\ m - 1 \in k .. Len(parts) /\ m - 1 \notin S
    BY <1>1, <1>3, <2>1
  <2>3. f[m - 1] = Null
    BY <2>2
  <2>4. f[m] = Child(h, f[m - 1], parts[m])
    BY <1>2, <2>2 DEF LeadsThrough
  <2>5. parts[m] \in Int
    BY <2>2, ElementOfSeq
  <2>6. Null \notin Container
    BY ContainersAssumption DEF Type, Null
  <2>7. Child(h, Null, parts[m]) = Null
    BY <2>5, <2>6, NullHasNothing
  <2> QED BY <2>1, <2>3, <2>4, <2>7
<1> QED BY <1>4, <1>5

-----------------------------------------------------------------------------
(* Containers *)

\* The keys of a table are told apart, those of an array are its indices, and none is an array.
GoodContainers(h) ==
    /\ h \in [Container -> Seq(Slot)]
    /\ \A c \in Container :
          /\ \A i, j \in Filled(h[c]) : h[c][i].key = h[c][j].key => i = j
          /\ \A i \in Filled(h[c]) :
                NameOf[h[c][i].key] \in Nat /\ Type(h[c][i].key) # "array"
          /\ Type(c) = "array" => \A i \in DOMAIN h[c] : h[c][i].key = Integer(i - 1)

\* What an iterator leads to: the slot that comes after it.
LEMMA NextSlotIsNext ==
    ASSUME NEW T, NEW slots \in Seq(T), NEW iter \in Int, NEW i \in Filled(slots), i > iter
    PROVE  /\ NextSlot(slots, iter) \in Filled(slots)
           /\ NextSlot(slots, iter) > iter /\ NextSlot(slots, iter) <= i
           /\ NextSlot(slots, iter) # 0
<1> DEFINE later == {j \in Filled(slots) : j > iter}
<1>1. DOMAIN slots = 1 .. Len(slots) /\ Len(slots) \in Nat
  BY LenProperties
<1>2. i \in later
  OBVIOUS
<1>3. NextSlot(slots, iter) = CHOOSE j \in later : \A k \in later : j <= k
  BY <1>2 DEF NextSlot
<1>4. later \subseteq Nat \ {0}
  BY <1>1 DEF Filled
<1>5. \E j \in later : \A k \in later : j <= k
  BY <1>2, <1>4, LeastNumber
<1>6. NextSlot(slots, iter) \in later /\ \A k \in later : NextSlot(slots, iter) <= k
  BY <1>3, <1>5
<1> QED BY <1>2, <1>4, <1>6

\* In an array, a part of a path is an index.
LEMMA ArrayChild ==
    ASSUME NEW h, GoodContainers(h), NEW c \in Container, Type(c) = "array", NEW part \in Nat
    PROVE  /\ HasKey(h, c, Integer(part)) <=> NextSlot(Slots(h, c), part) # 0
           /\ HasKey(h, c, Integer(part)) => part < Size(h, c)
           /\ HasKey(h, c, Integer(part)) => ValueOf(h, c, Integer(part)) = Child(h, c, part)
<1> DEFINE slots == Slots(h, c)
           later == {j \in Filled(slots) : j > part}
<1>1. slots = h[c] /\ slots \in Seq(Slot) /\ DOMAIN slots = 1 .. Len(slots) /\ Len(slots) \in Nat
  BY LenProperties DEF GoodContainers, Slots
<1>2. \A i \in 1 .. Len(slots) : slots[i].key = Integer(i - 1)
  BY <1>1 DEF GoodContainers
<1>3. Filled(slots) = 1 .. Len(slots)
  BY <1>1, <1>2 DEF Filled, Integer, Null
<1>4. \A i : i \in SlotsOf(h, c, Integer(part)) <=> i \in 1 .. Len(slots) /\ i = part + 1
  BY <1>2, <1>3 DEF SlotsOf, Integer
<1> HIDE DEF slots
<1>5. CASE part < Len(slots)
  <2>1. part + 1 \in 1 .. Len(slots) /\ part + 1 \in Filled(slots) /\ part + 1 > part
    BY <1>1, <1>3, <1>5
  <2>2. /\ NextSlot(slots, part) \in Filled(slots) /\ NextSlot(slots, part) > part
        /\ NextSlot(slots, part) <= part + 1 /\ NextSlot(slots, part) # 0
    BY <1>1, <2>1, NextSlotIsNext
  <2>3. NextSlot(slots, part) = part + 1
    BY <1>1, <1>3, <2>2
  <2>4. SlotsOf(h, c, Integer(part)) = {part + 1}
    BY <1>4, <2>1
  <2>5. Cardinality(1 .. Len(slots)) = Len(slots)
    BY <1>1, <2>1, FS_Interval
  <2>6. HasKey(h, c, Integer(part)) /\ Size(h, c) = Len(slots)
    BY <1>3, <2>4, <2>5 DEF HasKey, Size, slots
  <2>7. ValueOf(h, c, Integer(part)) = slots[part + 1].val
    BY <2>4 DEF ValueOf, slots
  <2>8. Child(h, c, part) = slots[part + 1].val
    BY <2>2, <2>3 DEF Child, slots
  <2> QED BY <1>5, <2>2, <2>6, <2>7, <2>8 DEF slots
<1>6. CASE ~(part < Len(slots))
  <2>1. SlotsOf(h, c, Integer(part)) = {}
    BY <1>1, <1>4, <1>6
  <2>2. later = {}
    BY <1>1, <1>3, <1>6
  <2>3. NextSlot(slots, part) = 0
    BY <2>2 DEF NextSlot
  <2> QED BY <2>1, <2>3 DEF HasKey, slots
<1> QED BY <1>5, <1>6

\* A key is in one slot.
LEMMA OneSlot ==
    ASSUME NEW h, GoodContainers(h), NEW c \in Container, NEW i \in Filled(h[c])
    PROVE  /\ SlotsOf(h, c, h[c][i].key) = {i}
           /\ HasKey(h, c, h[c][i].key)
           /\ ValueOf(h, c, h[c][i].key) = h[c][i].val
<1>1. Slots(h, c) = h[c]
  BY DEF GoodContainers, Slots
<1>2. \A j \in Filled(h[c]) : h[c][j].key = h[c][i].key => j = i
  BY DEF GoodContainers
<1>3. SlotsOf(h, c, h[c][i].key) = {i}
  BY <1>1, <1>2 DEF SlotsOf
<1>4. HasKey(h, c, h[c][i].key)
  BY <1>3 DEF HasKey
<1>5. ValueOf(h, c, h[c][i].key) = h[c][i].val
  BY <1>1, <1>3 DEF ValueOf
<1> QED BY <1>3, <1>4, <1>5

\* sq_set on a key that is there changes the value of its slot and nothing else.
OneValueSet(h, g, c, i, new) ==
    /\ g = [h EXCEPT ![c][i].val = new]
    /\ DOMAIN g = Container
    /\ \A d \in Container : d # c => g[d] = h[d]
    /\ DOMAIN g[c] = DOMAIN h[c]
    /\ \A j \in DOMAIN h[c] : j # i => g[c][j] = h[c][j]
    /\ g[c][i].key = h[c][i].key /\ g[c][i].val = new

LEMMA WriteToSlot ==
    ASSUME NEW h, GoodContainers(h), NEW c \in Container, NEW i \in Filled(h[c]), NEW new
    PROVE  OneValueSet(h, SetValue(h, c, h[c][i].key, new), c, i, new)
<1> DEFINE key == h[c][i].key
           changed == [j \in DOMAIN h[c] |->
                         IF j \in SlotsOf(h, c, key) THEN [h[c][j] EXCEPT !.val = new] ELSE h[c][j]]
           g == SetValue(h, c, key, new)
<1>1. SlotsOf(h, c, key) = {i}
  BY OneSlot
<1>2. h \in [Container -> Seq(Slot)] /\ h[c] \in Seq(Slot) /\ i \in DOMAIN h[c]
      /\ DOMAIN h[c] = 1 .. Len(h[c])
  BY LenProperties DEF GoodContainers, Filled
<1>3. h[c][i] \in Slot
  BY <1>2, ElementOfSeq
<1>4. g = [h EXCEPT ![c] = changed]
  BY <1>2 DEF SetValue
<1>5. changed = [h[c] EXCEPT ![i] = [h[c][i] EXCEPT !.val = new]]
  BY <1>1, <1>2
<1>6. [h[c][i] EXCEPT !.val = new].key = h[c][i].key /\ [h[c][i] EXCEPT !.val = new].val = new
  BY <1>3 DEF Slot
<1>7. /\ DOMAIN changed = DOMAIN h[c] /\ \A j \in DOMAIN h[c] : j # i => changed[j] = h[c][j]
      /\ changed[i].key = h[c][i].key /\ changed[i].val = new
  BY <1>1, <1>2, <1>6
<1>8. g = [h EXCEPT ![c][i].val = new]
  BY <1>4, <1>5
<1> HIDE DEF changed, g
<1>9. DOMAIN g = Container /\ g[c] = changed /\ \A d \in Container : d # c => g[d] = h[d]
  BY <1>2, <1>4
<1> QED BY <1>7, <1>8, <1>9 DEF g, OneValueSet

\* One slot has another value, of the same type, and neither is a container.
ValueChanges(h, g, c, i) ==
    /\ g \in [Container -> Seq(Slot)]
    /\ c \in Container /\ i \in Filled(h[c])
    /\ \A d \in Container : d # c => g[d] = h[d]
    /\ DOMAIN g[c] = DOMAIN h[c]
    /\ \A j \in DOMAIN h[c] : j # i => g[c][j] = h[c][j]
    /\ g[c][i].key = h[c][i].key
    /\ Type(g[c][i].val) = Type(h[c][i].val) /\ Type(h[c][i].val) \notin {"table", "array"}

LEMMA ChangeKeepsPlaces ==
    ASSUME NEW h, GoodContainers(h), NEW g, NEW c, NEW i, ValueChanges(h, g, c, i), NEW v
    PROVE  /\ DOMAIN Slots(g, v) = DOMAIN Slots(h, v)
           /\ Filled(Slots(g, v)) = Filled(Slots(h, v))
           /\ \A part : NextSlot(Slots(g, v), part) = NextSlot(Slots(h, v), part)
           /\ \A j \in DOMAIN Slots(h, v) : Slots(g, v)[j].key = Slots(h, v)[j].key
                                            /\ Type(Slots(g, v)[j].val) = Type(Slots(h, v)[j].val)
<1>1. DOMAIN h = Container /\ DOMAIN g = Container
  BY DEF GoodContainers, ValueChanges
<1>2. CASE v = c
  <2>1. Slots(g, v) = g[c] /\ Slots(h, v) = h[c]
    BY <1>1, <1>2 DEF ValueChanges, Slots
  <2>2. \A j \in DOMAIN h[c] : g[c][j].key = h[c][j].key /\ Type(g[c][j].val) = Type(h[c][j].val)
    BY DEF ValueChanges
  <2>3. DOMAIN g[c] = DOMAIN h[c]
    BY DEF ValueChanges
  <2>4. Filled(g[c]) = Filled(h[c])
    BY <2>2, <2>3 DEF Filled
  <2>5. \A part : NextSlot(g[c], part) = NextSlot(h[c], part)
    BY <2>4 DEF NextSlot
  <2> QED BY <2>1, <2>2, <2>3, <2>4, <2>5
<1>3. CASE v # c
  <2>1. Slots(g, v) = Slots(h, v)
    BY <1>1, <1>3 DEF ValueChanges, Slots
  <2> QED BY <2>1
<1> QED BY <1>2, <1>3

LEMMA ChangeKeepsContainers ==
    ASSUME NEW h, GoodContainers(h), NEW g, NEW c, NEW i, ValueChanges(h, g, c, i)
    PROVE  GoodContainers(g)
<1>1. g \in [Container -> Seq(Slot)] /\ h \in [Container -> Seq(Slot)]
  BY DEF GoodContainers, ValueChanges
<1>2. \A d \in Container : Slots(g, d) = g[d] /\ Slots(h, d) = h[d]
  BY <1>1 DEF Slots
<1> SUFFICES ASSUME NEW d \in Container
             PROVE  /\ \A j, k \in Filled(g[d]) : g[d][j].key = g[d][k].key => j = k
                    /\ \A j \in Filled(g[d]) :
                          NameOf[g[d][j].key] \in Nat /\ Type(g[d][j].key) # "array"
                    /\ Type(d) = "array" => \A j \in DOMAIN g[d] : g[d][j].key = Integer(j - 1)
  BY <1>1 DEF GoodContainers
<1>3. /\ DOMAIN g[d] = DOMAIN h[d] /\ Filled(g[d]) = Filled(h[d])
      /\ \A j \in DOMAIN h[d] : g[d][j].key = h[d][j].key
  BY <1>2, ChangeKeepsPlaces
<1>4. \A j \in Filled(h[d]) : j \in DOMAIN h[d]
  BY DEF Filled
<1>5. /\ \A j, k \in Filled(h[d]) : h[d][j].key = h[d][k].key => j = k
      /\ \A j \in Filled(h[d]) :
            NameOf[h[d][j].key] \in Nat /\ Type(h[d][j].key) # "array"
      /\ Type(d) = "array" => \A j \in DOMAIN h[d] : h[d][j].key = Integer(j - 1)
  BY DEF GoodContainers
<1> QED BY <1>3, <1>4, <1>5

\* Paths lead where they did, except to the value that has changed.
SameOrPlain(v, w) == v = w \/ (v \notin Container /\ w \notin Container)

LEMMA ChangeKeepsChildren ==
    ASSUME NEW h, GoodContainers(h), NEW g, NEW c, NEW i, ValueChanges(h, g, c, i),
           NEW v, NEW w, SameOrPlain(v, w), NEW part \in Int
    PROVE  SameOrPlain(Child(h, v, part), Child(g, w, part))
<1>1. h \in [Container -> Seq(Slot)] /\ g \in [Container -> Seq(Slot)]
  BY DEF GoodContainers, ValueChanges
<1>2. CASE v # w
  <2>1. Child(h, v, part) = Null /\ Child(g, w, part) = Null
    BY <1>1, <1>2, NullHasNothing DEF SameOrPlain
  <2> QED BY <2>1 DEF SameOrPlain
<1>3. CASE v = w
  <2> DEFINE j == NextSlot(Slots(h, v), part)
  <2>1. NextSlot(Slots(g, v), part) = j
    BY ChangeKeepsPlaces
  <2>2. CASE j = 0
    BY <1>3, <2>1, <2>2 DEF SameOrPlain, Child
  <2>3. CASE j # 0
    <3>1. Child(h, v, part) = Slots(h, v)[j].val /\ Child(g, w, part) = Slots(g, v)[j].val
      BY <1>3, <2>1, <2>3 DEF Child
    <3>2. CASE v = c /\ j = i
      <4>1. Child(h, v, part) = h[c][i].val /\ Child(g, w, part) = g[c][i].val
        BY <1>1, <3>1, <3>2 DEF Slots, ValueChanges
      <4>2. Type(h[c][i].val) \notin {"table", "array"} /\ Type(g[c][i].val) \notin {"table", "array"}
        BY DEF ValueChanges
      <4> QED BY <4>1, <4>2, ContainersAssumption DEF SameOrPlain
    <3>3. CASE ~(v = c /\ j = i)
      <4>1. j \in DOMAIN Slots(h, v)
        <5>1. Slots(h, v) \in Seq(Slot)
          BY <1>1, SlotsType
        <5> QED BY <2>3, <5>1, NextSlotIsFilled DEF Filled
      <4>2. Slots(g, v)[j] = Slots(h, v)[j]
        BY <1>1, <3>3, <4>1 DEF Slots, ValueChanges
      <4> QED BY <3>1, <4>2 DEF SameOrPlain
    <3> QED BY <3>2, <3>3
  <2> QED BY <2>2, <2>3
<1> QED BY <1>2, <1>3

LEMMA ChangeKeepsPaths ==
    ASSUME NEW h, GoodContainers(h), NEW g, NEW c, NEW i, ValueChanges(h, g, c, i),
           NEW v, NEW parts \in Seq(Int)
    PROVE  SameOrPlain(Followed(h, v, parts), Followed(g, v, parts))
<1>1. PICK f : LeadsThrough(f, h, v, parts)
  BY FollowedInChain
<1>2. PICK e : LeadsThrough(e, g, v, parts)
  BY FollowedInChain
<1>3. Len(parts) \in Nat /\ Len(parts) \in 0 .. Len(parts)
  BY LenProperties
<1> DEFINE S == {n \in 0 .. Len(parts) : ~SameOrPlain(f[n], e[n])}
<1>4. CASE S = {}
  <2>1. SameOrPlain(f[Len(parts)], e[Len(parts)])
    BY <1>3, <1>4
  <2> QED BY <1>1, <1>2, <2>1 DEF LeadsThrough
<1>5. CASE S # {}
  <2>1. PICK m \in S : \A n \in S : m <= n
    <3>1. S \subseteq Nat
      BY <1>3
    <3> HIDE DEF S
    <3> QED BY <1>5, <3>1, LeastNumber
  <2>2. f[0] = e[0]
    BY <1>1, <1>2 DEF LeadsThrough
  <2>3. m # 0
    BY <2>1, <2>2 DEF SameOrPlain
  <2>4. m \in 1 .. Len(parts) /\ m - 1 \in 0 .. Len(parts) /\ m - 1 \notin S
    BY <1>3, <2>1, <2>3
  <2>5. SameOrPlain(f[m - 1], e[m - 1])
    BY <2>4
  <2>6. f[m] = Child(h, f[m - 1], parts[m]) /\ e[m] = Child(g, e[m - 1], parts[m])
    BY <1>1, <1>2, <2>4 DEF LeadsThrough
  <2>7. parts[m] \in Int
    BY <2>4, ElementOfSeq
  <2>8. SameOrPlain(f[m], e[m])
    BY <2>5, <2>6, <2>7, ChangeKeepsChildren
  <2> QED BY <2>1, <2>8
<1> QED BY <1>4, <1>5

-----------------------------------------------------------------------------
(* Where a command has come to *)

\* Targets that are containers, not the locals of a frame; and those with somewhere to start.
HasChildren(target) == target.scope = "global" \/ target.path # <<>>
StartsSomewhere(target) ==
    target.scope = "local" => HasLocal(target.frame, target.path[1])

Done       == Len(Parts(cmd.target)) - Len(rest)
Reached(n) == Followed(heap, Start(cmd.target), SubSeq(Parts(cmd.target), 1, n))

\* The value at hand is what the parts of the path that have been followed lead to.
WalkInv ==
    phase \in {"walk", "sorted", "iterate"} =>
        /\ HasChildren(cmd.target) /\ StartsSomewhere(cmd.target)
        /\ Done >= 0
        /\ \A i \in 1 .. Len(rest) : rest[i] = Parts(cmd.target)[Done + i]
        /\ At(stack, IF phase = "iterate" THEN -2 ELSE -1) = Reached(Done)
        /\ cmd.op = "set" => Parts(cmd.target) # <<>>
        /\ phase # "walk" => rest = <<>> /\ cmd.op = "list"

\* Below it is the array that it is an element of, or its key and, two further down, the table.
EntryInv ==
    phase = "walk" /\ Done > 0 =>
        LET parent == Reached(Done - 1)
            i == NextSlot(Slots(heap, parent), Parts(cmd.target)[Done])
        IN  /\ i # 0
            /\ IF Type(parent) = "array" THEN At(stack, -2) = parent
               ELSE At(stack, -4) = parent /\ At(stack, -2) = Slots(heap, parent)[i].key

\* Nothing has failed yet.
NothingFailed == phase \in {"idle", "walk", "sorted", "iterate", "locals"} => rc = "Success"

PlaceInv == IInv /\ GoodContainers(heap) /\ WalkInv /\ EntryInv /\ NothingFailed

LEMMA NumbersOnly == Seq(Iterator) \subseteq Seq(Int)
<1>1. Iterator \subseteq Int
  BY BoundsAssumption
<1> QED BY <1>1, SeqMonotonic

\* The parts of a path are iterators.
LEMMA PartsType ==
    ASSUME NEW target \in Targets, HasChildren(target)
    PROVE  Parts(target) \in Seq(Iterator) /\ Parts(target) \in Seq(Int)
<1>1. target.path \in Seq(Iterator)
  BY PathsAreSequences DEF Targets
<1>2. target.scope \in {"local", "global"}
  BY DEF Targets
<1>3. CASE target.scope = "local"
  <2>1. target.path # <<>>
    BY <1>3 DEF HasChildren
  <2>2. Tail(target.path) \in Seq(Iterator)
    BY <1>1, <2>1, HeadTailProperties
  <2> QED BY <1>3, <2>2, NumbersOnly DEF Parts
<1>4. CASE target.scope = "global"
  BY <1>1, <1>4, NumbersOnly DEF Parts
<1> QED BY <1>2, <1>3, <1>4

\* What the walk invariant says, with the types of what it speaks of.
LEMMA Walked ==
    ASSUME PlaceInv, phase \in {"walk", "sorted", "iterate"}
    PROVE  /\ cmd \in Commands /\ cmd.target \in Targets
           /\ Parts(cmd.target) \in Seq(Int) /\ Parts(cmd.target) \in Seq(Iterator)
           /\ Len(Parts(cmd.target)) \in Nat
           /\ Len(rest) \in Nat /\ Done \in 0 .. Len(Parts(cmd.target))
           /\ rest = <<>> => Done = Len(Parts(cmd.target))
           /\ rest # <<>> => /\ Len(rest) > 0
                             /\ Done + 1 \in 1 .. Len(Parts(cmd.target))
                             /\ Head(rest) = Parts(cmd.target)[Done + 1]
                             /\ Head(rest) \in Nat
<1>1. cmd \in Commands /\ rest \in Seq(Iterator)
  BY DEF PlaceInv, IInv, VariablesTypeOK
<1>2. cmd.target \in Targets
  BY <1>1 DEF Commands
<1>3. /\ HasChildren(cmd.target) /\ Done >= 0
      /\ \A i \in 1 .. Len(rest) : rest[i] = Parts(cmd.target)[Done + i]
  BY DEF PlaceInv, WalkInv
<1>4. Parts(cmd.target) \in Seq(Int) /\ Parts(cmd.target) \in Seq(Iterator)
  BY <1>2, <1>3, PartsType
<1>5. PICK p, q : p = Len(Parts(cmd.target)) /\ q = Len(rest) /\ p \in Nat /\ q \in Nat
  BY <1>1, <1>4, LenProperties
<1>6. Done = p - q
  BY <1>5 DEF Done
<1>7. Done \in 0 .. p
  BY <1>3, <1>5, <1>6
<1>8. rest = <<>> => q = 0
  BY <1>5, EmptySeq
<1>9. ASSUME rest # <<>>
      PROVE  /\ q > 0 /\ Done + 1 \in 1 .. p
             /\ Head(rest) = Parts(cmd.target)[Done + 1] /\ Head(rest) \in Nat
  <2>1. q # 0
    BY <1>1, <1>5, <1>9, EmptySeq
  <2>2. q > 0 /\ Done + 1 \in 1 .. p /\ 1 \in 1 .. q
    BY <1>3, <1>5, <1>6, <2>1
  <2>3. Head(rest) = rest[1] /\ Head(rest) \in Iterator
    BY <1>1, <1>9, HeadTailProperties
  <2>4. rest[1] = Parts(cmd.target)[Done + 1]
    BY <1>3, <1>5, <2>2
  <2> QED BY <2>2, <2>3, <2>4, BoundsAssumption
<1> QED BY <1>1, <1>2, <1>4, <1>5, <1>6, <1>7, <1>8, <1>9

\* The same for the path of a target.
ReachedNext(h, target, k) ==
    Followed(h, Start(target), SubSeq(Parts(target), 1, k)) =
        Child(h, Followed(h, Start(target), SubSeq(Parts(target), 1, k - 1)), Parts(target)[k])

LEMMA TargetOneMore ==
    ASSUME NEW h, NEW target, Parts(target) \in Seq(Int), NEW k \in 1 .. Len(Parts(target))
    PROVE  ReachedNext(h, target, k)
<1>1. PICK s : s = Start(target)
  OBVIOUS
<1>2. PICK p : p = Parts(target)
  OBVIOUS
<1>3. OneMorePart(h, s, p, k)
  BY <1>2, FollowedOneMore
<1>4. Followed(h, s, SubSeq(p, 1, k)) =
        Child(h, Followed(h, s, SubSeq(p, 1, k - 1)), p[k])
  BY <1>3 DEF OneMorePart
<1> QED BY <1>1, <1>2, <1>4 DEF ReachedNext

\* A container's child was reached: the walk goes on from there.
LEMMA DescendReaches ==
    ASSUME PlaceInv, phase = "walk", rest # <<>>, UNCHANGED <<heap, cmd>>,
           NEW pushed \in Seq(Value), Len(pushed) \in {1, 3}, Descend(pushed),
           NEW v, v = At(stack, -1), NEW i, i = NextSlot(Slots(heap, v), Head(rest)), i # 0,
           pushed[Len(pushed)] = Child(heap, v, Head(rest)),
           IF Type(v) = "array" THEN Len(pushed) = 1
           ELSE Len(pushed) = 3 /\ pushed[2] = Slots(heap, v)[i].key
    PROVE  WalkInv' /\ EntryInv'
<1> DEFINE parts == Parts(cmd.target)
<1>1. /\ parts \in Seq(Int) /\ Len(parts) \in Nat /\ Len(rest) \in Nat /\ Len(rest) > 0
      /\ Done \in 0 .. Len(parts) /\ Done + 1 \in 1 .. Len(parts)
      /\ Head(rest) = parts[Done + 1]
  BY Walked
<1>2. /\ HasChildren(cmd.target) /\ StartsSomewhere(cmd.target)
      /\ \A j \in 1 .. Len(rest) : rest[j] = parts[Done + j]
      /\ v = Reached(Done)
      /\ cmd.op = "set" => parts # <<>>
  BY DEF PlaceInv, WalkInv
<1>3. /\ phase' = "walk" /\ rest' = Tail(rest) /\ stack' = stack \o pushed
      /\ cmd' = cmd /\ heap' = heap
  BY DEF Descend
<1>4. /\ Len(rest') = Len(rest) - 1
      /\ \A j \in 1 .. Len(rest) - 1 : rest'[j] = rest[j + 1]
  <2>1. rest \in Seq(Iterator)
    BY DEF PlaceInv, IInv, VariablesTypeOK
  <2> QED BY <1>3, <2>1, HeadTailProperties
<1>5. Done' = Done + 1
  <2>1. Done' = Len(parts) - Len(rest') /\ Done = Len(parts) - Len(rest)
    BY <1>3 DEF Done
  <2> HIDE DEF parts
  <2> QED BY <1>1, <1>4, <2>1
<1>6. Reached(Done)' = Child(heap, v, Head(rest)) /\ Reached(Done - 1)' = v
  <2>1. /\ Reached(Done)' = Followed(heap, Start(cmd.target), SubSeq(parts, 1, Done'))
        /\ Reached(Done - 1)' = Followed(heap, Start(cmd.target), SubSeq(parts, 1, Done' - 1))
    BY <1>3 DEF Reached
  <2>2. Done' - 1 = Done
    BY <1>1, <1>5
  <2>3. Followed(heap, Start(cmd.target), SubSeq(parts, 1, Done + 1)) =
            Child(heap, Followed(heap, Start(cmd.target), SubSeq(parts, 1, Done)),
                  parts[Done + 1])
    <3>1. PICK target, k : target = cmd.target /\ k = Done + 1 /\ k - 1 = Done
      BY <1>1
    <3>2. ReachedNext(heap, target, k)
      BY <1>1, <3>1, TargetOneMore
    <3>3. Followed(heap, Start(target), SubSeq(Parts(target), 1, k)) =
              Child(heap, Followed(heap, Start(target), SubSeq(Parts(target), 1, k - 1)),
                    Parts(target)[k])
      BY <3>2 DEF ReachedNext
    <3> QED BY <3>1, <3>3
  <2>4. v = Followed(heap, Start(cmd.target), SubSeq(parts, 1, Done))
    BY <1>2 DEF Reached
  <2> QED BY <1>1, <1>5, <2>1, <2>2, <2>3, <2>4
<1>14. Len(stack) \in Nat /\ Len(stack) > 0
  BY TopIsOurs DEF PlaceInv
<1>15. PICK m \in Nat : m = Len(stack) /\ m > 0
  BY <1>14
<1>16. PICK n \in {1, 3} : n = Len(pushed)
  OBVIOUS
<1>7. m = Len(stack) /\ n = Len(pushed) /\ m \in Nat /\ n \in {1, 3} /\ m > 0
  BY <1>15, <1>16
<1>12. Len(stack') = m + n
  <2>1. stack \in Seq(Value)
    BY TopIsOurs DEF PlaceInv
  <2>2. Len(stack \o pushed) = Len(stack) + Len(pushed)
    BY <2>1, ConcatProperties
  <2> QED BY <1>3, <1>7, <2>2
<1>13. /\ stack'[m] = stack[m]
       /\ stack'[m + n] = pushed[n]
       /\ n = 3 => stack'[m + 2] = pushed[2]
  <2>1. stack \in Seq(Value)
    BY TopIsOurs DEF PlaceInv
  <2>2. \A j \in 1 .. Len(stack) + Len(pushed) :
            (stack \o pushed)[j] = IF j <= Len(stack) THEN stack[j] ELSE pushed[j - Len(stack)]
    BY <2>1, ConcatProperties
  <2>3. \A j \in 1 .. m + n : stack'[j] = IF j <= m THEN stack[j] ELSE pushed[j - m]
    BY <1>3, <1>7, <2>2
  <2>4. /\ m \in 1 .. m + n /\ m <= m
        /\ m + n \in 1 .. m + n /\ ~(m + n <= m) /\ m + n - m = n
        /\ n = 3 => m + 2 \in 1 .. m + n /\ ~(m + 2 <= m) /\ m + 2 - m = 2
    BY <1>7
  <2>5. stack'[m] = stack[m]
    BY <2>3, <2>4
  <2>6. stack'[m + n] = pushed[n]
    <3>1. PICK j \in 1 .. m + n : j = m + n /\ ~(j <= m) /\ j - m = n
      BY <2>4
    <3>2. stack'[j] = IF j <= m THEN stack[j] ELSE pushed[j - m]
      BY <2>3
    <3> QED BY <3>1, <3>2
  <2>7. n = 3 => stack'[m + 2] = pushed[2]
    BY <2>3, <2>4
  <2> QED BY <2>5, <2>6, <2>7
<1>8. At(stack', -1) = Reached(Done)'
  <2>1. Len(stack') + 1 + -1 = m + n
    BY <1>7, <1>12
  <2>2. At(stack', -1) = pushed[n]
    BY <1>13, <2>1 DEF At
  <2> QED BY <1>6, <1>7, <2>2
<1>9. v = stack[m]
  <2>1. Len(stack) + 1 + -1 = m
    BY <1>7
  <2> QED BY <2>1 DEF At
<1>10. WalkInv'
  <2>1. Done' >= 0
    BY <1>1, <1>5
  <2>2. \A j \in 1 .. Len(rest') : rest'[j] = parts[Done' + j]
    <3> TAKE j \in 1 .. Len(rest')
    <3>1. j \in 1 .. Len(rest) - 1 /\ j + 1 \in 1 .. Len(rest) /\ Done' + j = Done + (j + 1)
      BY <1>1, <1>4, <1>5
    <3> QED BY <1>2, <1>4, <3>1
  <2> QED BY <1>2, <1>3, <1>8, <2>1, <2>2 DEF WalkInv
<1>11. EntryInv'
  <2>1. /\ NextSlot(Slots(heap, v), parts[Done']) = i
    BY <1>1, <1>5
  <2>2. CASE Type(v) = "array"
    <3>3. n = 1
      BY <1>16, <2>2
    <3>1. Len(stack') + 1 + -2 = m
      BY <1>15, <1>12, <3>3
    <3>2. At(stack', -2) = v
      BY <1>13, <1>9, <3>1 DEF At
    <3> QED BY <1>3, <1>6, <2>1, <2>2, <3>2 DEF EntryInv
  <2>3. CASE Type(v) # "array"
    <3>3. n = 3
      BY <1>16, <2>3
    <3>1. Len(stack') + 1 + -2 = m + 2 /\ Len(stack') + 1 + -4 = m
      BY <1>15, <1>12, <3>3
    <3>2. At(stack', -4) = v
      BY <1>13, <1>9, <3>1 DEF At
    <3>4. At(stack', -2) = Slots(heap, v)[i].key
      BY <1>13, <2>3, <3>3, <3>1 DEF At
    <3>5. /\ Reached(Done - 1)' = v /\ i # 0
          /\ i = NextSlot(Slots(heap', v), Parts(cmd.target')[Done'])
          /\ At(stack', -4) = v /\ At(stack', -2) = Slots(heap', v)[i].key
      BY <1>3, <1>6, <2>1, <3>2, <3>4
    <3> HIDE DEF parts
    <3> QED BY <2>3, <3>5 DEF EntryInv
  <2> QED BY <2>2, <2>3
<1> QED BY <1>10, <1>11

\* The container is found under each of its children, elements of arrays and entries of tables.
LEMMA DescendKeepsPlace ==
    ASSUME PlaceInv, DescendArray \/ DescendTable
    PROVE  WalkInv' /\ EntryInv'
<1>1. phase = "walk" /\ rest # <<>> /\ UNCHANGED <<heap, cmd>> /\ Head(rest) \in Nat
      /\ heap \in [Container -> Seq(Slot)]
  BY Walked DEF DescendArray, DescendTable, PlaceInv, IInv, VariablesTypeOK
<1>2. PICK v, part : v = At(stack, -1) /\ part = Head(rest)
  OBVIOUS
<1>3. CASE DescendArray
  <2>1. Type(v) = "array" /\ HasKey(heap, v, Integer(part))
    BY <1>2, <1>3 DEF DescendArray
  <2>2. v \in Container
    BY <1>1, <2>1 DEF HasKey, SlotsOf, Slots, Filled
  <2>3. /\ NextSlot(Slots(heap, v), part) # 0
        /\ ValueOf(heap, v, Integer(part)) = Child(heap, v, part)
    BY <1>1, <1>2, <2>1, <2>2, ArrayChild DEF PlaceInv
  <2>4. ValueOf(heap, v, Integer(part)) \in Value
    BY <1>1, <2>1, ValueOfType
  <2>5. PICK pushed : pushed = <<ValueOf(heap, v, Integer(part))>>
    OBVIOUS
  <2>6. pushed \in Seq(Value) /\ Len(pushed) = 1 /\ pushed[1] = Child(heap, v, part)
    BY <2>3, <2>4, <2>5
  <2>7. Descend(pushed)
    BY <1>2, <1>3, <2>5 DEF DescendArray
  <2>8. PICK i : i = NextSlot(Slots(heap, v), part)
    OBVIOUS
  <2> QED BY <1>1, <1>2, <2>1, <2>3, <2>6, <2>7, <2>8, DescendReaches
<1>4. CASE DescendTable
  <2>1. PICK slots, i : slots = Slots(heap, v) /\ i = NextSlot(slots, part)
    OBVIOUS
  <2>2. Type(v) = "table" /\ i # 0 /\ Descend(NextEntry(slots, i))
    BY <1>2, <1>4, <2>1 DEF DescendTable
  <2>3. slots \in Seq(Slot) /\ Len(slots) \in Nat
    BY <1>1, <2>1, SlotsType, LenProperties
  <2>4. i \in 1 .. Len(slots) /\ i \in Int
    BY <1>1, <1>2, <2>1, <2>2, <2>3, NextSlotIsFilled
  <2>5. slots[i].key \in Value /\ slots[i].val \in Value /\ Integer(i) \in Value
    <3>1. slots[i] \in Slot
      BY <2>3, <2>4, ElementOfSeq
    <3> QED BY <2>4, <3>1 DEF Slot, Integer, Value
  <2>6. PICK pushed : pushed = NextEntry(slots, i)
    OBVIOUS
  <2>7. /\ pushed \in Seq(Value) /\ Len(pushed) = 3
        /\ pushed[2] = slots[i].key /\ pushed[3] = slots[i].val
    BY <2>5, <2>6 DEF NextEntry
  <2>8. Child(heap, v, part) = slots[i].val
    BY <2>1, <2>2 DEF Child
  <2> QED BY <1>1, <1>2, <2>1, <2>2, <2>6, <2>7, <2>8, DescendReaches
<1> QED BY <1>3, <1>4

\* A command begins where the path of its target starts.
LEMMA FollowKeepsPlace ==
    ASSUME PlaceInv, phase = "idle", UNCHANGED heap, cmd' \in Commands,
           NEW target \in Targets, cmd'.target = target,
           HasChildren(target), StartsSomewhere(target),
           NEW v, v = Start(target), NEW path, path = Parts(target), FollowFrom(v, path),
           cmd'.op = "set" => path # <<>>
    PROVE  WalkInv' /\ EntryInv'
<1>1. path \in Seq(Int) /\ Len(path) \in Nat
  BY PartsType, LenProperties
<1>2. phase' = "walk" /\ rest' = path /\ stack' = Append(stack, v)
  BY DEF FollowFrom, Push
<1>3. Done' = 0
  BY <1>1, <1>2 DEF Done
<1>4. At(stack', -1) = v
  <2>1. PICK m \in Nat : m = Len(stack)
    BY Typed DEF PlaceInv, IInv
  <2>3. v \in Value
    <3>1. CASE target.scope = "local"
      <4>1. target.path # <<>> /\ HasLocal(target.frame, target.path[1])
        BY <3>1 DEF HasChildren, StartsSomewhere
      <4>2. target.path \in Seq(Iterator) /\ target.frame \in Nat
        <5>1. Len(Locals) \in Nat
          BY ScriptValuesAssumption, LenProperties
        <5> QED BY <5>1, PathsAreSequences DEF Targets, Frame
      <4>3. target.path[1] \in Nat
        <5>1. Len(target.path) \in Nat \ {0}
          BY <4>1, <4>2, EmptySeq
        <5>2. target.path[1] \in Iterator
          BY <4>2, <5>1, ElementOfSeq
        <5> QED BY <5>2, BoundsAssumption
      <4> QED BY <3>1, <4>1, <4>2, <4>3, LocalType DEF Start
    <3>2. CASE target.scope # "local"
      BY <3>2, ScriptValuesAssumption DEF Start
    <3> QED BY <3>1, <3>2
  <2>4. stack \in Seq(Value)
    BY Typed DEF PlaceInv, IInv
  <2>5. Len(stack') = m + 1 /\ stack'[m + 1] = v
    BY <1>2, <2>1, <2>3, <2>4, AppendProperties
  <2>6. Len(stack') + 1 + -1 = m + 1
    BY <2>5
  <2> QED BY <2>5, <2>6 DEF At
<1>5. Reached(0)' = v
  <2>1. Reached(0)' = Followed(heap, Start(target), SubSeq(Parts(target), 1, 0))
    BY DEF Reached
  <2>2. PICK p : p = Parts(target)
    OBVIOUS
  <2>3. PICK h : h = heap
    OBVIOUS
  <2>4. StartsAt(h, v, p)
    BY <1>1, <2>2, FollowedNone
  <2> QED BY <2>1, <2>2, <2>3, <2>4 DEF StartsAt
<1>6. \A i \in 1 .. Len(rest') : rest'[i] = Parts(target)[Done' + i]
  <2> TAKE i \in 1 .. Len(rest')
  <2>1. Done' + i = i
    BY <1>1, <1>2, <1>3
  <2> QED BY <1>2, <2>1
<1>7. WalkInv'
  BY <1>2, <1>3, <1>4, <1>5, <1>6 DEF WalkInv
<1>8. EntryInv'
  BY <1>3 DEF EntryInv
<1> QED BY <1>7, <1>8

\* The command's own start.
LEMMA WithStackVariablesKeepsPlace ==
    ASSUME PlaceInv, phase = "idle", UNCHANGED heap, cmd' \in Commands,
           NEW target \in Targets, cmd'.target = target, target.scope = "local",
           target.path # <<>>, WithStackVariables(target, cmd'.op)
    PROVE  WalkInv' /\ EntryInv'
<1>1. CASE Refuse
  BY <1>1 DEF Refuse, WalkInv, EntryInv
<1>2. CASE ~Refuse
  <2>1. /\ HasLocal(target.frame, target.path[1])
        /\ ~(cmd'.op = "set" /\ Len(target.path) = 1)
        /\ FollowFrom(Local(target.frame, target.path[1]), Tail(target.path))
    BY <1>2 DEF WithStackVariables
  <2>2. target.path \in Seq(Iterator)
    BY PathsAreSequences DEF Targets
  <2>3. cmd'.op = "set" => Tail(target.path) # <<>>
    <3>1. Len(Tail(target.path)) = Len(target.path) - 1 /\ Len(target.path) \in Nat
      BY <2>2, HeadTailProperties
    <3>2. cmd'.op = "set" => Len(Tail(target.path)) # 0
      BY <2>1, <3>1
    <3>3. Len(<<>>) = 0
      BY EmptySeq
    <3> QED BY <3>2, <3>3
  <2>4. PICK v, path : v = Start(target) /\ path = Parts(target)
    OBVIOUS
  <2>5. v = Local(target.frame, target.path[1]) /\ path = Tail(target.path)
    BY <2>4 DEF Start, Parts
  <2>6. HasChildren(target) /\ StartsSomewhere(target)
    BY <2>1 DEF HasChildren, StartsSomewhere
  <2> QED BY <2>1, <2>3, <2>4, <2>5, <2>6, FollowKeepsPlace
<1> QED BY <1>1, <1>2

LEMMA CommandKeepsPlace ==
    ASSUME PlaceInv, Command
    PROVE  WalkInv' /\ EntryInv'
<1>1. PICK target \in Targets :
        \/ \E begin \in Iterator, count \in Count : GetVariables(target, begin, count)
        \/ \E text \in Text : SetStackVariableValue(target, text)
  BY DEF Command
<1>2. ASSUME NEW begin \in Iterator, NEW count \in Count, GetVariables(target, begin, count)
      PROVE  WalkInv' /\ EntryInv'
  <2>1. /\ phase = "idle" /\ UNCHANGED heap
        /\ cmd' \in Commands /\ cmd'.op = "list" /\ cmd'.target = target
    BY <1>2 DEF GetVariables, Commands
  <2>2. CASE target.scope = "global" /\ FollowFrom(Root, target.path)
    <3>1. HasChildren(target) /\ StartsSomewhere(target)
      BY <2>2 DEF HasChildren, StartsSomewhere
    <3>2. PICK v, path : v = Start(target) /\ path = Parts(target)
      OBVIOUS
    <3>3. v = Root /\ path = target.path
      BY <2>2, <3>2 DEF Start, Parts
    <3> QED BY <2>1, <2>2, <3>1, <3>2, <3>3, FollowKeepsPlace
  <2>3. CASE Refuse
    BY <2>3 DEF Refuse, WalkInv, EntryInv
  <2>4. CASE phase' = "locals"
    BY <2>4 DEF WalkInv, EntryInv
  <2>5. CASE target.scope = "local" /\ target.path # <<>> /\ WithStackVariables(target, "list")
    BY <2>1, <2>5, WithStackVariablesKeepsPlace
  <2> QED BY <1>2, <2>2, <2>3, <2>4, <2>5 DEF GetVariables
<1>3. ASSUME NEW text \in Text, SetStackVariableValue(target, text)
      PROVE  WalkInv' /\ EntryInv'
  <2>1. /\ phase = "idle" /\ UNCHANGED heap /\ target.path # <<>> /\ target.scope = "local"
        /\ cmd' \in Commands /\ cmd'.op = "set" /\ cmd'.target = target
    BY <1>3 DEF SetStackVariableValue, Commands
  <2>2. CASE Refuse
    BY <2>2 DEF Refuse, WalkInv, EntryInv
  <2>3. CASE WithStackVariables(target, "set")
    BY <2>1, <2>3, WithStackVariablesKeepsPlace
  <2> QED BY <1>3, <2>2, <2>3 DEF SetStackVariableValue
<1> QED BY <1>1, <1>2, <1>3

\* The container stays where it is, under an iterator or on top.
LEMMA ListingKeepsPlace ==
    ASSUME PlaceInv, StartIterating \/ AddNext \/ StartSorted \/ AddSorted
    PROVE  WalkInv' /\ EntryInv'
<1>1. /\ phase \in {"walk", "sorted", "iterate"} /\ phase' \in {"sorted", "iterate"}
      /\ UNCHANGED <<heap, cmd, rest>>
      /\ rest = <<>> /\ cmd.op = "list"
  BY DEF PlaceInv, WalkInv, StartIterating, AddNext, StartSorted, AddSorted, AtLeaf
<1>2. EntryInv'
  BY <1>1 DEF EntryInv
<1>3. Done' = Done /\ Reached(Done)' = Reached(Done)
  BY <1>1 DEF Done, Reached
<1>4. PICK m \in Nat : m = Len(stack)
  BY Typed DEF PlaceInv, IInv
<1>5. stack \in Seq(Value) /\ m > 0 /\ (phase = "iterate" => m >= 2)
  BY <1>1, <1>4, TopIsOurs DEF PlaceInv
<1>6. At(stack', IF phase' = "iterate" THEN -2 ELSE -1)
        = At(stack, IF phase = "iterate" THEN -2 ELSE -1)
  <2>1. CASE StartIterating
    <3>1. phase = "walk" /\ phase' = "iterate" /\ stack' = Append(stack, Integer(cmd.begin))
      BY <2>1 DEF StartIterating, AtLeaf, Push
    <3>2. Integer(cmd.begin) \in Value
      <4>1. cmd \in Commands
        BY <3>1 DEF PlaceInv, IInv, VariablesTypeOK
      <4>2. cmd.begin \in Nat
        BY <1>1, <4>1, BoundsAssumption DEF Commands
      <4> QED BY <4>2 DEF Integer, Value
    <3>3. Len(stack') = m + 1 /\ stack'[m] = stack[m]
      BY <1>4, <1>5, <3>1, <3>2, AppendProperties
    <3>4. Len(stack') + 1 + -2 = m /\ Len(stack) + 1 + -1 = m
      BY <1>4, <3>3
    <3> QED BY <3>1, <3>3, <3>4 DEF At
  <2>2. CASE AddNext
    <3>1. PICK x : stack' = Append(Pop(stack, 1), x) /\ x = Integer(NextInContainer)
      BY <2>2 DEF AddNext, Push
    <3>2. phase = "iterate" /\ phase' = "iterate"
      BY <2>2 DEF AddNext
    <3>3. /\ Pop(stack, 1) \in Seq(Value) /\ Len(Pop(stack, 1)) = m - 1
          /\ \A j \in 1 .. m - 1 : Pop(stack, 1)[j] = stack[j]
      <4>1. 1 \in 0 .. Len(stack)
        BY <1>4, <1>5
      <4> QED BY <1>4, <1>5, <4>1, PopProperties
    <3>4. m - 1 \in 1 .. m - 1 /\ m - 1 + 1 = m
      BY <1>5, <3>2
    <3>5. x \in Value
      <4>1. heap \in [Container -> Seq(Slot)]
        BY DEF PlaceInv, IInv, VariablesTypeOK
      <4>2. At(stack, -1)[2] \in Int
        BY <3>2 DEF PlaceInv, IInv, IteratorOnTop
      <4>3. PICK slots : slots = Slots(heap, At(stack, -2)) /\ slots \in Seq(Slot)
        BY <4>1, SlotsType
      <4>4. NextInContainer \in 1 .. Len(slots)
        BY <2>2, <4>2, <4>3, NextSlotIsFilled DEF AddNext, NextInContainer
      <4>5. NextInContainer \in Int
        BY <4>3, <4>4, LenProperties
      <4> QED BY <3>1, <4>5 DEF Integer, Value
    <3>6. Len(stack') = m /\ stack'[m - 1] = stack[m - 1]
      BY <3>1, <3>3, <3>4, <3>5, AppendProperties
    <3>7. Len(stack') + 1 + -2 = m - 1 /\ Len(stack) + 1 + -2 = m - 1
      BY <1>4, <3>6
    <3> QED BY <3>2, <3>6, <3>7 DEF At
  <2>3. CASE StartSorted \/ AddSorted
    BY <2>3 DEF StartSorted, AddSorted, AtLeaf
  <2> QED BY <2>1, <2>2, <2>3
<1> QED BY <1>1, <1>2, <1>3, <1>6 DEF PlaceInv, WalkInv

\* What UpdateFromString has read is of the type of what it replaces, which is no container.
LEMMA ParsedSameType ==
    ASSUME NEW type, NEW text \in Text, Parsed(type, text) # Null
    PROVE  Type(Parsed(type, text)) = type /\ type \notin {"table", "array"} /\ type \in Editable
<1>1. CASE type = "string"
  BY <1>1 DEF Parsed, Type, Editable
<1>2. CASE type # "string"
  <2>1. type \in {"bool", "integer", "float"} /\ Parsed(type, text) = Parse[type][text]
    BY <1>2 DEF Parsed
  <2>2. type \in DOMAIN Parse
    BY <2>1, TextAssumption
  <2> QED BY <2>1, <2>2, TextAssumption DEF Editable
<1> QED BY <1>1, <1>2

\* Where a command that sets a variable has come to: the variable is the value of slot i of c.
AtVariable(c, i) ==
    /\ Done = Len(Parts(cmd.target)) /\ Done \in Nat /\ Done > 0
    /\ c = Reached(Done - 1) /\ c \in Container
    /\ i = NextSlot(heap[c], Parts(cmd.target)[Done]) /\ i \in Filled(heap[c])
    /\ At(stack, -1) = heap[c][i].val
    /\ IF Type(c) = "array" THEN At(stack, -2) = c
       ELSE At(stack, -4) = c /\ At(stack, -2) = heap[c][i].key

LEMMA SettingIsAtVariable ==
    ASSUME PlaceInv, AtLeaf("set")
    PROVE  \E c, i : AtVariable(c, i)
<1>1. phase = "walk" /\ rest = <<>> /\ cmd.op = "set" /\ heap \in [Container -> Seq(Slot)]
  BY DEF AtLeaf, PlaceInv, IInv, VariablesTypeOK
<1>2. /\ Parts(cmd.target) \in Seq(Int) /\ Len(Parts(cmd.target)) \in Nat
      /\ Done = Len(Parts(cmd.target)) /\ Parts(cmd.target) # <<>>
      /\ At(stack, -1) = Reached(Done)
  BY <1>1, Walked DEF PlaceInv, WalkInv
<1>12. PICK target, parts : target = cmd.target /\ parts = Parts(target)
  OBVIOUS
<1>13. PICK k \in Nat : k = Len(parts) /\ k = Done
  BY <1>2, <1>12
<1>3. target = cmd.target /\ parts = Parts(target) /\ k = Len(parts) /\ k = Done
  BY <1>12, <1>13
<1>4. k > 0 /\ k \in 1 .. k /\ parts[k] \in Int
  <2>1. k # 0
    BY <1>2, <1>3, EmptySeq
  <2>2. k \in 1 .. k
    BY <2>1
  <2>3. parts[k] \in Int
    BY <1>2, <1>3, <2>2, ElementOfSeq
  <2> QED BY <2>1, <2>2, <2>3
<1>5. PICK c, i : c = Reached(Done - 1) /\ i = NextSlot(Slots(heap, c), parts[k])
  OBVIOUS
<1>6. /\ i # 0
      /\ IF Type(c) = "array" THEN At(stack, -2) = c
         ELSE At(stack, -4) = c /\ At(stack, -2) = Slots(heap, c)[i].key
  BY <1>1, <1>3, <1>4, <1>5 DEF PlaceInv, EntryInv
<1>7. c \in Container
  BY <1>1, <1>4, <1>5, <1>6, NullHasNothing
<1>8. Slots(heap, c) = heap[c] /\ heap[c] \in Seq(Slot)
  BY <1>1, <1>7 DEF Slots
<1>9. i \in Filled(heap[c])
  BY <1>4, <1>5, <1>6, <1>8, NextSlotIsFilled
<1>10. At(stack, -1) = heap[c][i].val
  <2>1. Reached(Done) = Followed(heap, Start(target), SubSeq(Parts(target), 1, k))
    BY <1>3 DEF Reached
  <2>2. Reached(Done - 1) = Followed(heap, Start(target), SubSeq(Parts(target), 1, k - 1))
    BY <1>3 DEF Reached
  <2>3. ReachedNext(heap, target, k)
    BY <1>2, <1>3, <1>4, TargetOneMore
  <2>4. Reached(Done) = Child(heap, c, parts[k])
    BY <1>3, <1>5, <2>1, <2>2, <2>3 DEF ReachedNext
  <2>5. Child(heap, c, parts[k]) = heap[c][i].val
    BY <1>5, <1>6, <1>8 DEF Child
  <2> QED BY <1>2, <2>4, <2>5
<1>11. AtVariable(c, i)
  BY <1>2, <1>3, <1>4, <1>5, <1>6, <1>7, <1>8, <1>9, <1>10 DEF AtVariable
<1> QED BY <1>11

\* A write, if it comes to one, is to the slot that the path names.
LEMMA WriteIsInPlace ==
    ASSUME PlaceInv, UpdateFromString, NEW c, NEW i, AtVariable(c, i), heap' # heap
    PROVE  /\ ValueChanges(heap, heap', c, i)
           /\ heap' = [heap EXCEPT ![c][i].val = out'[1].value]
           /\ rc' = "Success" /\ cmd.op = "set"
<1>1. /\ phase = "walk" /\ rest = <<>> /\ cmd.op = "set" /\ cmd \in Commands
      /\ heap \in [Container -> Seq(Slot)] /\ GoodContainers(heap) /\ rc = "Success"
  BY DEF UpdateFromString, AtLeaf, PlaceInv, IInv, VariablesTypeOK, NothingFailed
<1>2. PICK container, key, new :
          /\ container = At(stack, -4) /\ key = At(stack, -2)
          /\ new = Parsed(Type(At(stack, -1)), cmd.text)
  OBVIOUS
<1>3. /\ HasKey(heap, container, key) /\ new # Null
      /\ heap' = SetValue(heap, container, key, new)
      /\ out' = <<Variable(0, 0, ValueOf(heap', container, key))>>
      /\ rc' = rc
  BY <1>2 DEF UpdateFromString, ContainerIndex
<1>4. c \in Container /\ i \in Filled(heap[c]) /\ At(stack, -1) = heap[c][i].val
  BY DEF AtVariable
<1>5. Type(c) # "array"
  <2>1. SUFFICES ASSUME Type(c) = "array" PROVE FALSE
    OBVIOUS
  <2>2. key = c
    BY <1>2, <2>1 DEF AtVariable
  <2>3. container \in Container
    BY <1>1, <1>3 DEF HasKey, SlotsOf, Slots, Filled
  <2>4. PICK j \in Filled(heap[container]) : heap[container][j].key = key
    BY <1>1, <1>3, <2>3 DEF HasKey, SlotsOf, Slots
  <2>5. Type(heap[container][j].key) # "array"
    BY <1>1, <2>3, <2>4 DEF GoodContainers
  <2> QED BY <2>1, <2>2, <2>4, <2>5
<1>6. container = c /\ key = heap[c][i].key
  BY <1>2, <1>5 DEF AtVariable
<1>7. /\ Type(new) = Type(heap[c][i].val) /\ Type(heap[c][i].val) \notin {"table", "array"}
      /\ new \in Value
  <2>1. cmd.text \in Text
    BY <1>1 DEF Commands
  <2> QED BY <1>2, <1>3, <1>4, <2>1, ParsedSameType, ParsedType
<1>8. PICK g : g = heap'
  OBVIOUS
<1>9. g = SetValue(heap, c, heap[c][i].key, new)
  BY <1>3, <1>6, <1>8
<1>10. /\ g = [heap EXCEPT ![c][i].val = new]
       /\ DOMAIN g = Container
       /\ \A d \in Container : d # c => g[d] = heap[d]
       /\ DOMAIN g[c] = DOMAIN heap[c]
       /\ \A j \in DOMAIN heap[c] : j # i => g[c][j] = heap[c][j]
       /\ g[c][i].key = heap[c][i].key /\ g[c][i].val = new
  <2>1. OneValueSet(heap, g, c, i, new)
    BY <1>1, <1>4, <1>9, WriteToSlot
  <2> QED BY <2>1 DEF OneValueSet
<1>11. g \in [Container -> Seq(Slot)]
  BY <1>1, <1>3, <1>6, <1>7, <1>9, SetValueKeepsKeys
<1>12. ValueChanges(heap, g, c, i)
  BY <1>4, <1>7, <1>10, <1>11 DEF ValueChanges
<1>13. ValueOf(g, c, key) = new
  <2>1. GoodContainers(g) /\ i \in Filled(g[c])
    <3>1. GoodContainers(g)
      BY <1>1, <1>12, ChangeKeepsContainers
    <3>2. Filled(Slots(g, c)) = Filled(Slots(heap, c))
      BY <1>1, <1>12, ChangeKeepsPlaces
    <3> QED BY <1>1, <1>4, <1>10, <3>1, <3>2 DEF Slots
  <2>2. ValueOf(g, c, g[c][i].key) = g[c][i].val
    BY <1>4, <2>1, OneSlot
  <2> QED BY <1>6, <1>10, <2>2
<1>14. out'[1].value = new
  BY <1>3, <1>6, <1>8, <1>13 DEF Variable
<1> QED BY <1>1, <1>3, <1>8, <1>10, <1>12, <1>14

\* The variable's path is its parent's with one part more.
OnePartMore(target, parent, k) ==
    /\ Start(parent) = Start(target)
    /\ Parts(parent) = SubSeq(Parts(target), 1, k - 1)
    /\ LastPart(target) = Parts(target)[k]
    /\ HasChildren(parent) /\ parent \in Targets

LEMMA ParentHasOnePartLess ==
    ASSUME NEW target \in Targets, HasChildren(target),
           NEW k \in Nat, k = Len(Parts(target)), k > 0
    PROVE  OnePartMore(target, Parent(target), k)
<1>1. PICK path, p, parent :
          /\ path = target.path /\ p = SubSeq(path, 1, Len(path) - 1)
          /\ parent = Parent(target)
  OBVIOUS
<1>2. path \in Seq(Iterator) /\ Len(path) \in Nat
  BY <1>1, PathsAreSequences, LenProperties DEF Targets
<1>3. /\ parent.scope = target.scope /\ parent.frame = target.frame /\ parent.path = p
      /\ target.scope \in {"local", "global"}
  BY <1>1 DEF Targets, Parent
<1>6. path # <<>>
  <2>1. CASE target.scope = "global"
    <3>1. k = Len(path)
      BY <1>1, <2>1 DEF Parts
    <3> QED BY <3>1, EmptySeq
  <2> QED BY <1>1, <1>3, <2>1 DEF HasChildren
<1>7. parent \in Targets
  <2>1. PICK n \in 0 .. MaxPath : path \in [1 .. n -> Iterator]
    BY <1>1 DEF Targets, Paths
  <2>2. n \in Nat /\ Len(path) = n
    BY <1>2, <2>1, BoundsAssumption, LenProperties
  <2>3. n - 1 \in 0 .. MaxPath /\ n - 1 \in 0 .. Len(path)
    <3>1. n # 0
      BY <1>2, <1>6, <2>2, EmptySeq
    <3> QED BY <2>1, <2>2, <3>1, BoundsAssumption
  <2>4. p \in Seq(Iterator) /\ Len(p) = n - 1
    BY <1>1, <1>2, <2>2, <2>3, Beginnings
  <2>5. p \in [1 .. n - 1 -> Iterator]
    BY <2>4
  <2>6. p \in Paths
    BY <2>3, <2>5 DEF Paths
  <2> QED BY <1>1, <2>6 DEF Targets, Parent
<1>4. CASE target.scope = "global"
  <2>1. Parts(target) = path /\ Parts(parent) = p /\ k = Len(path)
    BY <1>1, <1>3, <1>4 DEF Parts
  <2> QED BY <1>1, <1>3, <1>4, <1>7, <2>1 DEF Start, HasChildren, OnePartMore, LastPart
<1>5. CASE target.scope = "local"
  <2>1. path # <<>>
    BY <1>6
  <2>2. /\ Tail(path) \in Seq(Iterator) /\ Len(Tail(path)) = Len(path) - 1
        /\ \A j \in 1 .. Len(path) - 1 : Tail(path)[j] = path[j + 1]
    BY <1>2, <2>1, HeadTailProperties
  <2>3. PICK t : t = Tail(path)
    OBVIOUS
  <2>4. PICK n \in Nat : n = Len(path) /\ n = k + 1
    BY <1>1, <1>2, <1>3, <1>5, <2>2 DEF Parts
  <2>5. /\ p \in Seq(Iterator) /\ Len(p) = k /\ \A j \in 1 .. k : p[j] = path[j]
    <3>1. k \in 0 .. Len(path) /\ Len(path) - 1 = k
      BY <2>4
    <3> QED BY <1>1, <1>2, <3>1, Beginnings
  <2>6. p # <<>>
    BY <2>5, EmptySeq
  <2>7. Start(parent) = Start(target)
    <3>1. p[1] = path[1]
      BY <2>5
    <3>2. PICK x, f : x = p[1] /\ x = path[1] /\ f = target.frame
      BY <3>1
    <3>3. Start(parent) = Local(f, x)
      BY <1>3, <1>5, <3>2 DEF Start
    <3>4. Start(target) = Local(f, x)
      BY <1>1, <1>5, <3>2 DEF Start
    <3> QED BY <3>3, <3>4
  <2>8. /\ Tail(p) \in Seq(Iterator) /\ Len(Tail(p)) = k - 1
        /\ \A j \in 1 .. k - 1 : Tail(p)[j] = p[j + 1]
    BY <2>5, <2>6, HeadTailProperties
  <2>9. /\ SubSeq(t, 1, k - 1) \in Seq(Iterator) /\ Len(SubSeq(t, 1, k - 1)) = k - 1
        /\ \A j \in 1 .. k - 1 : SubSeq(t, 1, k - 1)[j] = t[j]
    <3>1. k - 1 \in 0 .. Len(t) /\ t \in Seq(Iterator)
      BY <2>2, <2>3, <2>4
    <3> QED BY <3>1, Beginnings
  <2>10. Tail(p) = SubSeq(t, 1, k - 1)
    <3>1. PICK a, b : a = Tail(p) /\ b = SubSeq(t, 1, k - 1)
      OBVIOUS
    <3>2. \A j \in 1 .. k - 1 : a[j] = b[j]
      <4> TAKE j \in 1 .. k - 1
      <4>1. j + 1 \in 1 .. k /\ j \in 1 .. Len(path) - 1
        BY <2>4
      <4> QED BY <2>2, <2>3, <2>5, <2>8, <2>9, <3>1, <4>1
    <3> QED BY <2>8, <2>9, <3>1, <3>2, SeqEqual
  <2>11. path[Len(path)] = t[k]
    <3>1. k \in 1 .. Len(path) - 1 /\ k + 1 = Len(path)
      BY <2>4
    <3> QED BY <2>2, <2>3, <3>1
  <2> QED BY <1>1, <1>3, <1>5, <1>7, <2>3, <2>6, <2>7, <2>10, <2>11
          DEF Parts, HasChildren, OnePartMore, LastPart
<1> QED BY <1>3, <1>4, <1>5

\* No table of the script has an array for a key.
NoArrayKeys == \A h \in Heaps, c \in Container : \A i \in Filled(h[c]) : Type(h[c][i].key) # "array"

LEMMA PlaceInit ==
    ASSUME NoArrayKeys, Init
    PROVE  PlaceInv
<1>1. IInv
  BY StackInit
<1>2. GoodContainers(heap)
  BY ScriptValuesAssumption, ContainersAssumption DEF NoArrayKeys, Init, GoodContainers
<1> QED BY <1>1, <1>2 DEF Init, PlaceInv, WalkInv, EntryInv, NothingFailed

\* A write that changes anything keeps the containers good.
LEMMA UpdateKeepsContainers ==
    ASSUME PlaceInv, UpdateFromString
    PROVE  GoodContainers(heap')
<1>1. CASE heap' = heap
  BY <1>1 DEF PlaceInv
<1>2. CASE heap' # heap
  <2>1. PICK c, i : AtVariable(c, i)
    BY SettingIsAtVariable DEF UpdateFromString
  <2>2. PICK g : g = heap'
    OBVIOUS
  <2>3. ValueChanges(heap, g, c, i)
    BY <1>2, <2>1, <2>2, WriteIsInPlace
  <2> QED BY <2>2, <2>3, ChangeKeepsContainers DEF PlaceInv
<1> QED BY <1>1, <1>2

LEMMA PlaceStep ==
    ASSUME NoArrayKeys, PlaceInv, [Next]_vars
    PROVE  PlaceInv'
<1>1. IInv'
  BY StackStep DEF PlaceInv
<1>2. GoodContainers(heap')
  <2>1. CASE UpdateFromString
    BY <2>1, UpdateKeepsContainers
  <2>2. CASE ScriptRuns
    BY <2>2, ScriptValuesAssumption, ContainersAssumption
    DEF ScriptRuns, NoArrayKeys, GoodContainers
  <2>3. CASE ~UpdateFromString /\ ~ScriptRuns
    <3>1. heap' = heap
      BY <2>3 DEF Next, vars, Command, GetVariables, SetStackVariableValue,
                  Walk, DescendArray, DescendTable, PathFails, Unwind, PopRoot,
                  ListChildren, StartIterating, AddNext, EndIterating, StartSorted, StartPastEnd,
                  AddSorted, EndSorted, AddLocal, EndLocals, NothingToList, RejectText, Reply
    <3> QED BY <3>1 DEF PlaceInv
  <2> QED BY <2>1, <2>2, <2>3
<1>3. WalkInv' /\ EntryInv'
  <2>1. CASE Command
    BY <2>1, CommandKeepsPlace
  <2>2. CASE DescendArray \/ DescendTable
    BY <2>2, DescendKeepsPlace
  <2>3. CASE StartIterating \/ AddNext \/ StartSorted \/ AddSorted
    BY <2>3, ListingKeepsPlace
  <2>4. CASE PathFails \/ Unwind \/ PopRoot \/ EndIterating \/ StartPastEnd \/ EndSorted
             \/ EndLocals \/ NothingToList \/ RejectText \/ UpdateFromString \/ Reply
             \/ ScriptRuns \/ AddLocal
    <3>1. phase' \notin {"walk", "sorted", "iterate"}
      BY <2>4 DEF PathFails, Unwind, PopRoot, EndIterating, StartPastEnd, EndSorted,
                  EndLocals, NothingToList, RejectText, UpdateFromString, Reply, ScriptRuns,
                  AddLocal
    <3> QED BY <3>1 DEF WalkInv, EntryInv
  <2>5. CASE UNCHANGED vars
    BY <2>5 DEF vars, PlaceInv, WalkInv, EntryInv, Done, Reached
  <2> QED BY <2>1, <2>2, <2>3, <2>4, <2>5 DEF Next, Walk, ListChildren
<1>4. NothingFailed'
  <2>1. CASE Command
    BY <2>1 DEF PlaceInv, NothingFailed, Command, GetVariables, SetStackVariableValue,
                WithStackVariables, FollowFrom, Refuse
  <2>2. CASE Walk
    BY <2>2 DEF PlaceInv, NothingFailed, Walk, DescendArray, DescendTable, Descend, PathFails,
                Unwind, PopRoot
  <2>3. CASE ListChildren
    BY <2>3 DEF PlaceInv, NothingFailed, ListChildren, StartIterating, AddNext, EndIterating,
                StartSorted, StartPastEnd, AddSorted, EndSorted, AddLocal, EndLocals,
                NothingToList, AtLeaf
  <2>4. CASE RejectText \/ UpdateFromString \/ Reply \/ ScriptRuns
    BY <2>4 DEF PlaceInv, NothingFailed, RejectText, UpdateFromString, Reply, ScriptRuns
  <2>5. CASE UNCHANGED vars
    BY <2>5 DEF vars, PlaceInv, NothingFailed
  <2> QED BY <2>1, <2>2, <2>3, <2>4, <2>5 DEF Next
<1> QED BY <1>1, <1>2, <1>3, <1>4 DEF PlaceInv

-----------------------------------------------------------------------------
(* The order of names *)

InOrder(s, rank) ==
    \A m, n \in DOMAIN s : m < n => s[m] # s[n] /\ rank[s[m]] <= rank[s[n]]

\* Every finite set has an order by rank: what comes first, before the others.
LEMMA OrderExists ==
    ASSUME NEW F, IsFiniteSet(F), NEW rank, \A i \in F : rank[i] \in Nat
    PROVE  \E s \in [1 .. Cardinality(F) -> F] : InOrder(s, rank)
<1> DEFINE Ordered(G) == \E s \in [1 .. Cardinality(G) -> G] : InOrder(s, rank)
           S == {n \in Nat : \E G \in SUBSET F : Cardinality(G) = n /\ ~Ordered(G)}
<1> SUFFICES ASSUME ~Ordered(F) PROVE FALSE
  OBVIOUS
<1>1. Cardinality(F) \in S
  BY FS_CardinalityType
<1>2. PICK m \in S : \A n \in S : m <= n
  <2>1. S \subseteq Nat /\ S # {}
    BY <1>1
  <2> HIDE DEF S
  <2> QED BY <2>1, LeastNumber
<1>3. PICK G \in SUBSET F : Cardinality(G) = m /\ ~Ordered(G)
  BY <1>2
<1>4. m \in Nat /\ IsFiniteSet(G)
  BY <1>2, <1>3, FS_Subset
<1>5. CASE m = 0
  <2>1. G = {}
    BY <1>3, <1>4, <1>5, FS_EmptySet
  <2>2. [n \in 1 .. Cardinality(G) |-> 0] \in [1 .. Cardinality(G) -> G]
    BY <1>3, <1>5, <2>1
  <2>3. InOrder([n \in 1 .. Cardinality(G) |-> 0], rank)
    BY <1>3, <1>5 DEF InOrder
  <2> QED BY <1>3, <2>2, <2>3
<1>6. CASE m # 0
  <2>1. G # {}
    BY <1>3, <1>6, FS_EmptySet
  <2>2. PICK x \in G : \A i \in G : rank[x] <= rank[i]
    <3> DEFINE ranks == {rank[i] : i \in G}
    <3>1. ranks \subseteq Nat /\ ranks # {}
      BY <1>3, <2>1
    <3>2. PICK least \in ranks : \A r \in ranks : least <= r
      <4> HIDE DEF ranks
      <4> QED BY <3>1, LeastNumber
    <3> QED BY <3>2
  <2>3. PICK others : others = G \ {x}
    OBVIOUS
  <2>4. PICK k \in Nat : k = m - 1 /\ k = Cardinality(others)
    <3>1. Cardinality(others) = m - 1
      BY <1>3, <1>4, <2>2, <2>3, FS_RemoveElement
    <3>2. m - 1 \in Nat
      BY <1>4, <1>6
    <3> QED BY <3>1, <3>2
  <2>5. k \notin S
    <3>1. ~(m <= k)
      BY <1>4, <2>4
    <3> HIDE DEF S
    <3> QED BY <1>2, <3>1
  <2>6. Ordered(others)
    BY <2>3, <2>4, <2>5
  <2>7. PICK s \in [1 .. k -> others] : InOrder(s, rank)
    BY <2>4, <2>6
  <2> DEFINE t == [n \in 1 .. m |-> IF n = 1 THEN x ELSE s[n - 1]]
  <2>8. \A n \in 1 .. m : n # 1 => n - 1 \in 1 .. k /\ s[n - 1] \in others /\ t[n] = s[n - 1]
    BY <1>4, <2>4, <2>7
  <2>9. t \in [1 .. m -> G]
    BY <2>2, <2>3, <2>8
  <2>10. InOrder(t, rank)
    <3> SUFFICES ASSUME NEW i \in 1 .. m, NEW j \in 1 .. m, i < j
                 PROVE  t[i] # t[j] /\ rank[t[i]] <= rank[t[j]]
      BY DEF InOrder
    <3>1. j # 1 /\ j - 1 \in 1 .. k /\ t[j] = s[j - 1] /\ s[j - 1] \in others
      BY <2>8
    <3>2. CASE i = 1
      <4>1. t[i] = x
        BY <3>2
      <4> HIDE DEF t
      <4> QED BY <2>2, <2>3, <3>1, <4>1
    <3>3. CASE i # 1
      <4>1. i - 1 \in 1 .. k /\ t[i] = s[i - 1]
        BY <2>8, <3>3
      <4>2. i - 1 < j - 1
        BY <1>4
      <4>3. DOMAIN s = 1 .. k
        BY <2>7
      <4> HIDE DEF t
      <4> QED BY <2>7, <3>1, <4>1, <4>2, <4>3 DEF InOrder
    <3> QED BY <3>2, <3>3
  <2> HIDE DEF t
  <2> QED BY <1>3, <2>9, <2>10
<1> QED BY <1>5, <1>6

\* Every set of slots has an order by name.
LEMMA OrderByName ==
    ASSUME NEW slots, NEW F, IsFiniteSet(F), \A i \in F : NameOf[slots[i].key] \in Nat
    PROVE  \E s \in [1 .. Cardinality(F) -> F] : IsByName(s, slots)
<1>1. PICK rank : rank = [i \in F |-> NameOf[slots[i].key]]
  OBVIOUS
<1>2. \A i \in F : rank[i] = NameOf[slots[i].key]
  BY <1>1
<1>3. PICK s \in [1 .. Cardinality(F) -> F] : InOrder(s, rank)
  BY <1>2, OrderExists
<1>4. \A m \in DOMAIN s : s[m] \in F
  OBVIOUS
<1>5. IsByName(s, slots)
  BY <1>2, <1>3, <1>4 DEF InOrder, IsByName
<1> QED BY <1>3, <1>5

\* The iterators from which sq_next finds a slot.
Leading(slots) == {iter \in Int : NextSlot(slots, iter) # 0}

\* An iterator comes before its slot, and no other slot comes in between.
LEMMA IteratorIsBefore ==
    ASSUME NEW T, NEW slots \in Seq(T), NEW i \in Filled(slots)
    PROVE  /\ i \in Nat /\ IteratorOf(slots, i) \in Int /\ IteratorOf(slots, i) < i
           /\ \A k \in Filled(slots) : k < i => k <= IteratorOf(slots, i)
           /\ IteratorOf(slots, i) = 0 \/ IteratorOf(slots, i) \in Filled(slots)
<1> DEFINE earlier == {j \in Filled(slots) : j < i}
<1>1. i \in Nat /\ i > 0 /\ Filled(slots) \subseteq Nat
  BY LenProperties DEF Filled
<1>2. CASE earlier = {}
  <2>1. IteratorOf(slots, i) = 0
    BY <1>2 DEF IteratorOf
  <2> QED BY <1>1, <1>2, <2>1
<1>3. CASE earlier # {}
  <2> DEFINE distances == {i - j : j \in earlier}
  <2>1. distances \subseteq Nat /\ distances # {}
    BY <1>1, <1>3
  <2>2. PICK d \in distances : \A e \in distances : d <= e
    <3> HIDE DEF distances
    <3> QED BY <2>1, LeastNumber
  <2>3. PICK j \in earlier : d = i - j
    BY <2>2
  <2>4. \A k \in earlier : k <= j
    <3> TAKE k \in earlier
    <3>1. i - j <= i - k
      BY <2>2, <2>3
    <3> QED BY <1>1, <3>1
  <2>5. IteratorOf(slots, i) = CHOOSE n \in earlier : \A k \in earlier : k <= n
    BY <1>3 DEF IteratorOf
  <2>6. IteratorOf(slots, i) \in earlier /\ \A k \in earlier : k <= IteratorOf(slots, i)
    <3> HIDE DEF earlier
    <3> QED BY <2>4, <2>5
  <2> QED BY <1>1, <2>6
<1> QED BY <1>2, <1>3

LEMMA IteratorOfLeads ==
    ASSUME NEW T, NEW slots \in Seq(T), NEW i \in Filled(slots)
    PROVE  IteratorOf(slots, i) \in Leading(slots) /\ NextSlot(slots, IteratorOf(slots, i)) = i
<1>1. PICK iter \in Int : iter = IteratorOf(slots, i)
  BY IteratorIsBefore
<1>2. i \in Nat /\ i > iter /\ \A k \in Filled(slots) : k < i => k <= iter
  BY <1>1, IteratorIsBefore
<1>3. PICK next : next = NextSlot(slots, iter)
  OBVIOUS
<1>4. next \in Filled(slots) /\ next > iter /\ next <= i /\ next # 0
  BY <1>2, <1>3, NextSlotIsNext
<1>5. next \in Nat
  BY <1>4, IteratorIsBefore
<1>6. next = i
  <2>1. ~(next < i)
    <3> SUFFICES ASSUME next < i PROVE FALSE
      OBVIOUS
    <3>1. next <= iter
      BY <1>2, <1>4
    <3> QED BY <1>4, <1>5, <3>1
  <2> QED BY <1>2, <1>4, <1>5, <2>1
<1> QED BY <1>1, <1>3, <1>4, <1>6 DEF Leading

LEMMA FilledIsFinite ==
    ASSUME NEW T, NEW slots \in Seq(T)
    PROVE  IsFiniteSet(Filled(slots))
<1>1. DOMAIN slots = 1 .. Len(slots) /\ Len(slots) \in Nat
  BY LenProperties
<1>2. Filled(slots) \subseteq 1 .. Len(slots)
  BY <1>1 DEF Filled
<1>3. IsFiniteSet(1 .. Len(slots))
  BY <1>1, FS_Interval
<1> QED BY <1>2, <1>3, FS_Subset

\* The slots are finitely many, so there is an order by name, and it has given the iterators.
LEMMA SortedByName ==
    ASSUME NEW slots \in Seq(Slot), \A i \in Filled(slots) : NameOf[slots[i].key] \in Nat
    PROVE  /\ IsFiniteSet(Filled(slots)) /\ Cardinality(Filled(slots)) \in Nat
           /\ \E s \in OrdersByName(slots) :
                 SortedIterators(slots) = [m \in DOMAIN s |-> IteratorOf(slots, s[m])]
<1>1. IsFiniteSet(Filled(slots))
  BY FilledIsFinite
<1>2. Cardinality(Filled(slots)) \in Nat
  BY <1>1, FS_CardinalityType
<1> DEFINE byName == CHOOSE s \in OrdersByName(slots) : TRUE
<1>3. byName \in OrdersByName(slots)
  <2>1. OrdersByName(slots) # {}
    BY <1>1, OrderByName DEF OrdersByName
  <2> QED BY <2>1
<1>4. SortedIterators(slots) = [m \in DOMAIN byName |-> IteratorOf(slots, byName[m])]
  BY DEF SortedIterators
<1> HIDE DEF byName
<1> QED BY <1>1, <1>2, <1>3, <1>4

LEMMA SortedIteratorsLead ==
    ASSUME NEW slots \in Seq(Slot), \A i \in Filled(slots) : NameOf[slots[i].key] \in Nat
    PROVE  SortedIterators(slots) \in Seq(Leading(slots))
<1>1. PICK n \in Nat : n = Cardinality(Filled(slots))
  BY SortedByName
<1>2. PICK s \in [1 .. n -> Filled(slots)] :
         SortedIterators(slots) = [m \in DOMAIN s |-> IteratorOf(slots, s[m])]
  BY <1>1, SortedByName DEF OrdersByName
<1>3. \A m \in 1 .. n : IteratorOf(slots, s[m]) \in Leading(slots)
  BY IteratorOfLeads
<1>4. SortedIterators(slots) \in [1 .. n -> Leading(slots)]
  BY <1>2, <1>3
<1> QED BY <1>4, SeqDef

-----------------------------------------------------------------------------
(* What a client is shown *)

Listed == [pathIterator : Int, pathUiString : Nat, value : Value, editable : BOOLEAN]

\* What the target names, in the containers h.
ValueIn(h, target) == Followed(h, Start(target), Parts(target))

\* The iterator leads to a child of this name, whose value has the type that is shown.
IsShown(e, h, target) ==
    LET slots == Slots(h, ValueIn(h, target))
        i == NextSlot(slots, e.pathIterator)
    IN  /\ StartsSomewhere(target)
        /\ i # 0
        /\ e.pathUiString = NameOf[slots[i].key]
        /\ Type(e.value) = Type(slots[i].val)

Shown(h, target) == {e \in Listed : IsShown(e, h, target)}

\* What is shown stays right when the value of another variable, or its own, is set.
LEMMA ChangeKeepsShown ==
    ASSUME NEW h, GoodContainers(h), NEW g, NEW c, NEW i, ValueChanges(h, g, c, i),
           NEW target \in Targets, HasChildren(target)
    PROVE  Shown(h, target) \subseteq Shown(g, target)
<1>1. PICK v, w : v = ValueIn(h, target) /\ w = ValueIn(g, target)
  OBVIOUS
<1>2. PICK s, parts : s = Start(target) /\ parts = Parts(target) /\ parts \in Seq(Int)
  BY PartsType
<1>3. SameOrPlain(v, w)
  <2>1. SameOrPlain(Followed(h, s, parts), Followed(g, s, parts))
    BY <1>2, ChangeKeepsPaths
  <2> QED BY <1>1, <1>2, <2>1 DEF ValueIn
<1> SUFFICES ASSUME NEW e \in Listed, IsShown(e, h, target) PROVE IsShown(e, g, target)
  BY DEF Shown
<1>4. PICK iter \in Int : iter = e.pathIterator
  BY DEF Listed
<1>5. PICK j : j = NextSlot(Slots(h, v), iter)
  OBVIOUS
<1>6. /\ StartsSomewhere(target) /\ j # 0
      /\ e.pathUiString = NameOf[Slots(h, v)[j].key] /\ Type(e.value) = Type(Slots(h, v)[j].val)
  BY <1>1, <1>4, <1>5 DEF IsShown
<1>7. h \in [Container -> Seq(Slot)]
  BY DEF GoodContainers
<1>8. v \in Container
  BY <1>5, <1>6, <1>7, NullHasNothing
<1>9. w = v
  BY <1>3, <1>8 DEF SameOrPlain
<1>10. Slots(h, v) \in Seq(Slot)
  BY <1>7, SlotsType
<1>11. j \in DOMAIN Slots(h, v)
  BY <1>5, <1>6, <1>10, NextSlotIsFilled DEF Filled
<1>12. NextSlot(Slots(g, v), iter) = j
  BY <1>5, ChangeKeepsPlaces
<1>13. /\ Slots(g, v)[j].key = Slots(h, v)[j].key
       /\ Type(Slots(g, v)[j].val) = Type(Slots(h, v)[j].val)
  BY <1>11, ChangeKeepsPlaces
<1> QED BY <1>1, <1>4, <1>6, <1>9, <1>12, <1>13 DEF IsShown

\* At the end of its path a command is at what its target names.
LEMMA LeafIsTarget ==
    ASSUME PlaceInv, phase \in {"walk", "sorted", "iterate"}, rest = <<>>
    PROVE  At(stack, IF phase = "iterate" THEN -2 ELSE -1) = ValueIn(heap, cmd.target)
<1>1. /\ Parts(cmd.target) \in Seq(Int) /\ Len(Parts(cmd.target)) \in Nat
      /\ Done = Len(Parts(cmd.target))
  BY Walked
<1>2. At(stack, IF phase = "iterate" THEN -2 ELSE -1) = Reached(Done)
  BY DEF PlaceInv, WalkInv
<1>3. PICK parts, k : parts = Parts(cmd.target) /\ k = Len(parts)
  OBVIOUS
<1>4. SubSeq(parts, 1, k) = parts
  <2>1. k \in 0 .. Len(parts)
    BY <1>1, <1>3
  <2> QED BY <1>1, <1>3, <2>1, Beginnings
<1> QED BY <1>1, <1>2, <1>3, <1>4 DEF Reached, ValueIn

\* CreateChildVariable shows the child that sq_next finds.
LEMMA NextIsShown ==
    ASSUME NEW h, GoodContainers(h), NEW target, StartsSomewhere(target),
           NEW slots, slots = Slots(h, ValueIn(h, target)),
           NEW iter \in Int, NEW i, i = NextSlot(slots, iter), i # 0
    PROVE  Variable(iter, NameOf[slots[i].key], slots[i].val) \in Shown(h, target)
<1>1. PICK v : v = ValueIn(h, target)
  OBVIOUS
<1>2. h \in [Container -> Seq(Slot)]
  BY DEF GoodContainers
<1>3. v \in Container
  BY <1>1, <1>2, NullHasNothing
<1>4. slots = h[v] /\ slots \in Seq(Slot)
  BY <1>1, <1>2, <1>3 DEF Slots
<1>5. i \in Filled(slots) /\ i \in 1 .. Len(slots)
  BY <1>4, NextSlotIsFilled
<1>6. slots[i].val \in Value
  <2>1. slots[i] \in Slot
    BY <1>4, <1>5, ElementOfSeq
  <2> QED BY <2>1 DEF Slot
<1>7. NameOf[slots[i].key] \in Nat
  BY <1>3, <1>4, <1>5 DEF GoodContainers
<1>8. PICK name, val : name = NameOf[slots[i].key] /\ val = slots[i].val
  OBVIOUS
<1>9. PICK e : e = Variable(iter, name, val)
  OBVIOUS
<1>10. e \in Listed /\ e.pathIterator = iter /\ e.pathUiString = name /\ e.value = val
  BY <1>6, <1>7, <1>8, <1>9 DEF Variable, Listed
<1>11. IsShown(e, h, target)
  BY <1>8, <1>10 DEF IsShown
<1> QED BY <1>8, <1>9, <1>10, <1>11 DEF Shown

\* The iterators that are still to be listed lead to children.
OrderInv == phase = "sorted" => order \in Seq(Leading(Slots(heap, At(stack, -1))))

\* What has been listed so far.
OutInv ==
    /\ phase = "idle" => out = <<>>
    /\ phase = "locals" => ~HasChildren(cmd.target)
    /\ cmd.op = "list" /\ HasChildren(cmd.target) => out \in Seq(Shown(heap, cmd.target))

\* What the client has of this stop.
ViewInv ==
    /\ view = [target |-> view.target, entries |-> view.entries, complete |-> view.complete]
    /\ view.target \in Targets /\ HasChildren(view.target) =>
           view.entries \in Seq(Shown(heap, view.target))

ListInv == PlaceInv /\ OrderInv /\ OutInv /\ ViewInv

LEMMA ListInit ==
    ASSUME NoArrayKeys, Init
    PROVE  ListInv
<1>1. PlaceInv
  BY PlaceInit
<1>2. OrderInv /\ OutInv
  BY DEF Init, OrderInv, OutInv, NoCommand
<1>3. ViewInv
  <2>1. view.entries = <<>>
    BY DEF Init, NoView
  <2>2. view = [target |-> view.target, entries |-> view.entries, complete |-> view.complete]
    BY DEF Init, NoView
  <2> QED BY <2>1, <2>2, EmptySeq DEF ViewInv
<1> QED BY <1>1, <1>2, <1>3 DEF ListInv

\* The names of the slots of any value are numbers.
LEMMA NamesAreNumbers ==
    ASSUME NEW h, GoodContainers(h), NEW v
    PROVE  /\ Slots(h, v) \in Seq(Slot)
           /\ \A i \in Filled(Slots(h, v)) : NameOf[Slots(h, v)[i].key] \in Nat
<1>1. h \in [Container -> Seq(Slot)]
  BY DEF GoodContainers
<1>2. CASE v \in Container
  BY <1>1, <1>2, SlotsType DEF GoodContainers, Slots
<1>3. CASE v \notin Container
  <2>1. Slots(h, v) = <<>>
    BY <1>1, <1>3, NullHasNothing
  <2>2. Filled(<<>>) = {}
    BY DEF Filled
  <2> QED BY <1>1, <2>1, <2>2, SlotsType
<1> QED BY <1>2, <1>3

LEMMA OrderStep ==
    ASSUME ListInv, [Next]_vars
    PROVE  OrderInv'
<1>1. CASE StartSorted
  <2>1. PICK slots, sorted : slots = Slots(heap, At(stack, -1)) /\ sorted = SortedIterators(slots)
    OBVIOUS
  <2>2. sorted \in Seq(Leading(slots))
    BY <2>1, NamesAreNumbers, SortedIteratorsLead DEF ListInv, PlaceInv
  <2>3. /\ cmd.begin <= Len(sorted) /\ order' = SubSeq(sorted, cmd.begin + 1, Len(sorted))
        /\ UNCHANGED <<heap, stack>> /\ phase = "walk" /\ cmd.op = "list"
    BY <1>1, <2>1 DEF StartSorted, AtLeaf
  <2>4. cmd.begin \in Nat
    <3>1. cmd \in Commands
      BY <2>3 DEF ListInv, PlaceInv, IInv, VariablesTypeOK
    <3> QED BY <2>3, <3>1, BoundsAssumption DEF Commands
  <2>5. PICK a \in Nat, n \in Nat : a = cmd.begin /\ n = Len(sorted)
    BY <2>2, <2>4, LenProperties
  <2>6. \A j \in a + 1 .. n : sorted[j] \in Leading(slots)
    BY <2>2, <2>5, ElementOfSeq
  <2>7. a + 1 \in Int /\ n \in Int
    BY <2>5
  <2>8. SubSeq(sorted, a + 1, n) \in Seq(Leading(slots))
    BY <2>6, <2>7, SubSeqProperties
  <2> QED BY <2>1, <2>3, <2>5, <2>8 DEF OrderInv
<1>2. CASE AddSorted
  <2>1. /\ phase = "sorted" /\ order # <<>> /\ order' = Tail(order)
        /\ UNCHANGED <<heap, stack, phase>>
    BY <1>2 DEF AddSorted
  <2>2. PICK S : S = Leading(Slots(heap, At(stack, -1)))
    OBVIOUS
  <2>3. order \in Seq(S)
    BY <2>1, <2>2 DEF ListInv, OrderInv
  <2>4. Tail(order) \in Seq(S)
    BY <2>1, <2>3, HeadTailProperties
  <2> QED BY <2>1, <2>2, <2>4 DEF OrderInv
<1>3. CASE Command
  <2>1. phase' # "sorted"
    BY <1>3 DEF Command, GetVariables, SetStackVariableValue, WithStackVariables, Refuse, FollowFrom
  <2> QED BY <2>1 DEF OrderInv
<1>4. CASE Walk \/ StartIterating \/ AddNext \/ EndIterating \/ StartPastEnd \/ EndSorted
           \/ AddLocal \/ EndLocals \/ NothingToList \/ RejectText \/ UpdateFromString
           \/ Reply \/ ScriptRuns
  <2>1. phase' # "sorted"
    BY <1>4 DEF Walk, DescendArray, DescendTable, Descend, PathFails, Unwind, PopRoot,
                StartIterating, AddNext, EndIterating, StartPastEnd, EndSorted, AddLocal,
                EndLocals, NothingToList, RejectText, UpdateFromString, Reply, ScriptRuns
  <2> QED BY <2>1 DEF OrderInv
<1>5. CASE UNCHANGED vars
  BY <1>5 DEF vars, ListInv, OrderInv
<1> QED BY <1>1, <1>2, <1>3, <1>4, <1>5 DEF Next, ListChildren

\* What an action lists is a child of the target.
LEMMA AddIsShown ==
    ASSUME ListInv, AddNext \/ AddSorted, HasChildren(cmd.target)
    PROVE  out' \in Seq(Shown(heap, cmd.target))
<1>1. /\ phase \in {"iterate", "sorted"} /\ rest = <<>> /\ cmd.op = "list"
      /\ StartsSomewhere(cmd.target)
  BY DEF AddNext, AddSorted, ListInv, PlaceInv, WalkInv
<1>2. PICK target, slots : target = cmd.target /\ slots = Slots(heap, ValueIn(heap, target))
  OBVIOUS
<1>3. PICK iter, i, e :
          /\ iter \in Int /\ i = NextSlot(slots, iter) /\ i # 0
          /\ e = Variable(iter, NameOf[slots[i].key], slots[i].val) /\ out' = Append(out, e)
  <2>1. CASE AddNext
    <3>1. phase = "iterate"
      BY <2>1 DEF AddNext
    <3>2. At(stack, -2) = ValueIn(heap, target)
      BY <1>1, <1>2, <3>1, LeafIsTarget DEF ListInv
    <3>3. At(stack, -1)[2] \in Int
      BY <3>1 DEF ListInv, PlaceInv, IInv, IteratorOnTop
    <3>4. PICK iter : iter = At(stack, -1)[2]
      OBVIOUS
    <3>5. /\ NextSlot(slots, iter) # 0
          /\ out' = Append(out, Variable(iter, NameOf[slots[NextSlot(slots, iter)].key],
                                         slots[NextSlot(slots, iter)].val))
      BY <1>2, <2>1, <3>2, <3>4 DEF AddNext, NextInContainer
    <3> QED BY <3>3, <3>4, <3>5
  <2>2. CASE AddSorted
    <3>1. phase = "sorted" /\ order # <<>>
      BY <2>2 DEF AddSorted
    <3>2. At(stack, -1) = ValueIn(heap, target)
      BY <1>1, <1>2, <3>1, LeafIsTarget DEF ListInv
    <3>3. order \in Seq(Leading(slots))
      BY <1>2, <3>1, <3>2 DEF ListInv, OrderInv
    <3>4. PICK iter : iter = Head(order) /\ iter \in Leading(slots)
      BY <3>1, <3>3, HeadTailProperties
    <3>5. out' = Append(out, Variable(iter, NameOf[slots[NextSlot(slots, iter)].key],
                                      slots[NextSlot(slots, iter)].val))
      BY <1>2, <2>2, <3>2, <3>4 DEF AddSorted
    <3> QED BY <3>4, <3>5 DEF Leading
  <2> QED BY <2>1, <2>2
<1>4. e \in Shown(heap, target)
  BY <1>1, <1>2, <1>3, NextIsShown DEF ListInv, PlaceInv
<1>5. out \in Seq(Shown(heap, target))
  BY <1>1, <1>2 DEF ListInv, OutInv
<1>6. Append(out, e) \in Seq(Shown(heap, target))
  BY <1>4, <1>5, AppendProperties
<1> QED BY <1>2, <1>3, <1>6

LEMMA OutStep ==
    ASSUME ListInv, [Next]_vars
    PROVE  OutInv'
<1>1. CASE Command
  <2>1. phase = "idle" /\ out = <<>> /\ out' = out
    BY <1>1 DEF Command, GetVariables, SetStackVariableValue, ListInv, OutInv
  <2>2. phase' = "locals" => ~HasChildren(cmd'.target)
    BY <1>1 DEF Command, GetVariables, SetStackVariableValue, WithStackVariables, Refuse,
                FollowFrom, HasChildren
  <2> QED BY <2>1, <2>2, EmptySeq DEF OutInv
<1>2. CASE AddNext \/ AddSorted
  <2>1. /\ phase' \in {"iterate", "sorted"} /\ UNCHANGED <<heap, cmd>>
    BY <1>2 DEF AddNext, AddSorted
  <2> QED BY <1>2, <2>1, AddIsShown DEF OutInv
<1>3. CASE AddLocal
  BY <1>3 DEF AddLocal, ListInv, OutInv
<1>4. CASE UpdateFromString
  BY <1>4 DEF UpdateFromString, AtLeaf, OutInv
<1>5. CASE Reply
  BY <1>5, EmptySeq DEF Reply, OutInv
<1>6. CASE ScriptRuns
  BY <1>6, EmptySeq DEF ScriptRuns, ListInv, OutInv
<1>7. CASE Walk \/ StartIterating \/ EndIterating \/ StartSorted \/ StartPastEnd \/ EndSorted
           \/ EndLocals \/ NothingToList \/ RejectText
  <2>1. phase' \notin {"idle", "locals"} /\ UNCHANGED <<heap, cmd, out>>
    BY <1>7 DEF Walk, DescendArray, DescendTable, Descend, PathFails, Unwind, PopRoot,
                StartIterating, EndIterating, StartSorted, StartPastEnd, EndSorted,
                EndLocals, NothingToList, RejectText, AtLeaf
  <2> QED BY <2>1 DEF ListInv, OutInv
<1>8. CASE UNCHANGED vars
  BY <1>8 DEF vars, ListInv, OutInv
<1> QED BY <1>1, <1>2, <1>3, <1>4, <1>5, <1>6, <1>7, <1>8 DEF Next, ListChildren

\* The pages of one target are added up.
LEMMA ReplyKeepsView ==
    ASSUME ListInv, Reply
    PROVE  ViewInv'
<1>1. heap' = heap /\ cmd \in Commands
  BY DEF Reply, ListInv, PlaceInv, IInv, VariablesTypeOK
<1>2. CASE view' = view
  BY <1>1, <1>2 DEF ListInv, ViewInv
<1>3. CASE view' # view
  <2>1. cmd.op = "list" /\ view' = ViewWith(out, cmd.target, cmd.begin, cmd.count)
    BY <1>3 DEF Reply
  <2>2. PICK target, page, S :
            target = cmd.target /\ page = out /\ S = Shown(heap, target) /\ target \in Targets
    BY <1>1, <2>1 DEF Commands
  <2>3. HasChildren(target) => page \in Seq(S)
    BY <2>1, <2>2 DEF ListInv, OutInv
  <2>4. CASE cmd.begin = 0
    <3>1. view' = [target |-> target, entries |-> page, complete |-> Len(page) < cmd.count]
      BY <2>1, <2>2, <2>4 DEF ViewWith
    <3> QED BY <1>1, <2>2, <2>3, <3>1 DEF ViewInv
  <2>5. CASE cmd.begin # 0
    <3>1. PICK added, complete :
              /\ target = view.target
              /\ view' = [view EXCEPT !.entries = @ \o added, !.complete = complete]
              /\ added = page \/ (page # <<>> /\ added = Tail(page))
      <4>1. PICK added : added = IF IsLargeTarget(target) /\ page # <<>> THEN Tail(page) ELSE page
        OBVIOUS
      <4>2. PICK complete : complete = (Len(page) < cmd.count)
        OBVIOUS
      <4>3. target = view.target
        BY <1>3, <2>1, <2>2, <2>5 DEF ViewWith
      <4>4. view' = [view EXCEPT !.entries = @ \o added, !.complete = complete]
        BY <1>3, <2>1, <2>2, <2>5, <4>1, <4>2, Zenon DEF ViewWith
      <4>5. added = page \/ (page # <<>> /\ added = Tail(page))
        BY <4>1
      <4> QED BY <4>3, <4>4, <4>5
    <3>2. PICK known : known = view.entries \o added
      OBVIOUS
    <3>3. view = [target |-> view.target, entries |-> view.entries, complete |-> view.complete]
      BY DEF ListInv, ViewInv
    <3>4. view' = [target |-> target, entries |-> known, complete |-> complete]
      <4>1. PICK t, e, d : t = view.target /\ e = view.entries /\ d = view.complete
        OBVIOUS
      <4>2. view = [target |-> t, entries |-> e, complete |-> d]
        BY <3>3, <4>1
      <4>3. view' = [view EXCEPT !.entries = e \o added, !.complete = complete]
        BY <3>1, <4>1, Zenon
      <4>4. view' = [target |-> t, entries |-> e \o added, complete |-> complete]
        BY <4>2, <4>3, Zenon
      <4> QED BY <3>1, <3>2, <4>1, <4>4
    <3>5. HasChildren(target) => known \in Seq(S)
      <4> SUFFICES ASSUME HasChildren(target) PROVE known \in Seq(S)
        OBVIOUS
      <4>1. view.entries \in Seq(S)
        BY <2>2, <3>1 DEF ListInv, ViewInv
      <4>2. added \in Seq(S)
        BY <2>3, <3>1, HeadTailProperties
      <4> QED BY <3>2, <4>1, <4>2, ConcatProperties
    <3> QED BY <1>1, <2>2, <3>4, <3>5 DEF ViewInv
  <2> QED BY <2>4, <2>5
<1> QED BY <1>2, <1>3

LEMMA ViewStep ==
    ASSUME ListInv, [Next]_vars
    PROVE  ViewInv'
<1>1. CASE Reply
  BY <1>1, ReplyKeepsView
<1>2. CASE ScriptRuns
  <2>1. view' = NoView
    BY <1>2 DEF ScriptRuns
  <2>2. PICK w : w = view' /\ w = NoView
    BY <2>1
  <2>3. w.entries = <<>>
    BY <2>2 DEF NoView
  <2>4. w = [target |-> w.target, entries |-> w.entries, complete |-> w.complete]
    BY <2>2 DEF NoView
  <2> QED BY <2>2, <2>3, <2>4, EmptySeq DEF ViewInv
<1>3. CASE UpdateFromString
  <2>1. view' = view
    BY <1>3 DEF UpdateFromString
  <2>2. CASE heap' = heap
    BY <2>1, <2>2 DEF ListInv, ViewInv
  <2>3. CASE heap' # heap
    <3>1. PICK c, i : AtVariable(c, i)
      BY <1>3, SettingIsAtVariable DEF ListInv, UpdateFromString
    <3>2. PICK h, g : h = heap /\ g = heap'
      OBVIOUS
    <3>3. ValueChanges(h, g, c, i) /\ GoodContainers(h)
      BY <1>3, <2>3, <3>1, <3>2, WriteIsInPlace DEF ListInv, PlaceInv
    <3>4. PICK target, entries : target = view.target /\ entries = view.entries
      OBVIOUS
    <3>5. ASSUME target \in Targets, HasChildren(target)
          PROVE  entries \in Seq(Shown(g, target))
      <4>1. entries \in Seq(Shown(h, target))
        BY <3>2, <3>4, <3>5 DEF ListInv, ViewInv
      <4>2. Shown(h, target) \subseteq Shown(g, target)
        BY <3>3, <3>5, ChangeKeepsShown
      <4> QED BY <4>1, <4>2, SeqMonotonic
    <3> QED BY <2>1, <3>2, <3>4, <3>5 DEF ListInv, ViewInv
  <2> QED BY <2>2, <2>3
<1>4. CASE Command \/ Walk \/ ListChildren \/ RejectText \/ UNCHANGED vars
  <2>1. UNCHANGED <<heap, view>>
    BY <1>4 DEF vars, Command, GetVariables, SetStackVariableValue,
                Walk, DescendArray, DescendTable, PathFails, Unwind, PopRoot,
                ListChildren, StartIterating, AddNext, EndIterating, StartSorted, StartPastEnd,
                AddSorted, EndSorted, AddLocal, EndLocals, NothingToList, RejectText
  <2> QED BY <2>1 DEF ListInv, ViewInv
<1> QED BY <1>1, <1>2, <1>3, <1>4 DEF Next

LEMMA ListStep ==
    ASSUME NoArrayKeys, ListInv, [Next]_vars
    PROVE  ListInv'
<1>1. PlaceInv'
  BY PlaceStep DEF ListInv
<1> QED BY <1>1, OrderStep, OutStep, ViewStep DEF ListInv

-----------------------------------------------------------------------------
(* What a write may do *)

\* The variable that is set is the slot that the last part of its path leads to in its parent.
InParent(target, c, i) ==
    /\ ValueAt(Parent(target)) = c
    /\ Slots(heap, c) = heap[c] /\ NextSlot(heap[c], LastPart(target)) = i
    /\ HasChildren(Parent(target)) /\ Parent(target) \in Targets

LEMMA VariableInParent ==
    ASSUME PlaceInv, NEW c, NEW i, AtVariable(c, i), AtLeaf("set")
    PROVE  InParent(cmd.target, c, i)
<1>1. /\ phase = "walk" /\ cmd.target \in Targets /\ HasChildren(cmd.target)
      /\ Len(Parts(cmd.target)) \in Nat
  BY Walked DEF AtLeaf, PlaceInv, WalkInv
<1>2. PICK target, parent : target = cmd.target /\ parent = Parent(target)
  OBVIOUS
<1>3. PICK k \in Nat : k = Len(Parts(target)) /\ k = Done /\ k > 0
  BY <1>1, <1>2 DEF AtVariable
<1>4. OnePartMore(target, parent, k)
  BY <1>1, <1>2, <1>3, ParentHasOnePartLess
<1>5. ValueAt(parent) = c
  BY <1>2, <1>3, <1>4 DEF OnePartMore, ValueAt, AtVariable, Reached
<1>6. NextSlot(heap[c], LastPart(target)) = i
  BY <1>2, <1>3, <1>4 DEF OnePartMore, AtVariable
<1>7. Slots(heap, c) = heap[c]
  BY DEF AtVariable, Slots, PlaceInv, GoodContainers
<1> QED BY <1>2, <1>4, <1>5, <1>6, <1>7 DEF OnePartMore, InParent

\* Nothing but a write and the script change containers.
LEMMA OnlyWritesChange ==
    ASSUME PlaceInv, [Next]_vars, heap' # heap, cmd # NoCommand
    PROVE  UpdateFromString
<1>1. UpdateFromString \/ ScriptRuns
  BY DEF Next, vars, Command, GetVariables, SetStackVariableValue,
         Walk, DescendArray, DescendTable, PathFails, Unwind, PopRoot,
         ListChildren, StartIterating, AddNext, EndIterating, StartSorted, StartPastEnd,
         AddSorted, EndSorted, AddLocal, EndLocals, NothingToList, RejectText, Reply
<1>2. ScriptRuns => cmd = NoCommand
  BY DEF ScriptRuns, PlaceInv, IInv, VariablesTypeOK
<1> QED BY <1>1, <1>2

LEMMA WritesHit ==
    ASSUME ListInv, [Next]_vars, cmd # NoCommand, heap' # heap
    PROVE  HitsItsTarget
<1>1. UpdateFromString /\ AtLeaf("set") /\ PlaceInv
  BY OnlyWritesChange DEF ListInv, UpdateFromString
<1>2. PICK c, i : AtVariable(c, i)
  BY <1>1, SettingIsAtVariable
<1>3. PICK parent, last : parent = Parent(cmd.target) /\ last = LastPart(cmd.target)
  OBVIOUS
<1>4. /\ ValueAt(parent) = c /\ Slots(heap, c) = heap[c] /\ NextSlot(heap[c], last) = i
      /\ HasChildren(parent) /\ parent \in Targets
  BY <1>1, <1>2, <1>3, VariableInParent DEF InParent
<1>5. /\ ValueChanges(heap, heap', c, i)
      /\ heap' = [heap EXCEPT ![c][i].val = out'[1].value]
      /\ rc' = "Success" /\ cmd.op = "set"
  BY <1>1, <1>2, WriteIsInPlace
<1>6. Type(heap'[c][i].val) = Type(heap[c][i].val)
  BY <1>5 DEF ValueChanges
<1>7. ASSUME view.target = parent, NEW n \in DOMAIN view.entries,
             view.entries[n].pathIterator = last
      PROVE  view.entries[n].pathUiString = NameOf[heap[c][i].key]
  <2>2. PICK S, entries : S = Shown(heap, parent) /\ entries = view.entries
    OBVIOUS
  <2>3. entries \in Seq(S)
    BY <1>4, <1>7, <2>2 DEF ListInv, ViewInv
  <2>4. entries[n] \in S
    <3>1. n \in 1 .. Len(entries)
      BY <1>7, <2>2, <2>3, LenProperties
    <3> QED BY <2>3, <3>1, ElementOfSeq
  <2>5. IsShown(entries[n], heap, parent)
    BY <2>2, <2>4 DEF Shown
  <2>6. ValueIn(heap, parent) = c
    BY <1>4 DEF ValueIn, ValueAt
  <2> QED BY <1>4, <1>7, <2>2, <2>5, <2>6 DEF IsShown
<1> QED BY <1>3, <1>4, <1>5, <1>6, <1>7 DEF HitsItsTarget

\* Every write of a client changes the variable that its path names and nothing else, keeps its
\* type, and says so; and if the client has the path from a list, it is the variable that was
\* shown there: for all containers in which no array is a key, and paths of any length
\* (SquirrelDebugger.cpp:190-221, UpdateFromString, WithVariableAtPath).
THEOREM WritesHitTheirTargets ==
    ASSUME NoArrayKeys
    PROVE  Spec => WriteHitsItsTarget
<1>1. Init => ListInv
  BY ListInit
<1>2. ListInv /\ [Next]_vars => ListInv'
  BY ListStep
<1>3. ListInv /\ [Next]_vars => [cmd # NoCommand /\ heap' # heap => HitsItsTarget]_vars
  BY WritesHit
<1> QED BY <1>1, <1>2, <1>3, PTL DEF Spec, WriteHitsItsTarget

-----------------------------------------------------------------------------
(* Why a write to what was listed does not fail *)

\* The client knows the target as an editable variable in a table.
KnownToBeEditable(target, text) ==
    /\ view.target = Parent(target)
    /\ Len(target.path) > 1
    /\ Type(ValueAt(Parent(target))) = "table"
    /\ \E n \in DOMAIN view.entries :
          /\ view.entries[n].pathIterator = LastPart(target)
          /\ Parsed(Type(view.entries[n].value), text) # Null

\* The variable is the value of slot i of the table c, and the text stands for a value of its type.
IsEditable(target, text, c, i) ==
    /\ HasChildren(target) /\ StartsSomewhere(target)
    /\ Len(Parts(target)) > 0
    /\ OnePartMore(target, Parent(target), Len(Parts(target)))
    /\ c = ValueAt(Parent(target)) /\ c \in Container /\ Type(c) = "table"
    /\ i = NextSlot(heap[c], LastPart(target)) /\ i \in Filled(heap[c])
    /\ Parsed(Type(heap[c][i].val), text) # Null

LEMMA KnownIsEditable ==
    ASSUME GoodContainers(heap), ViewInv, NEW target \in Targets, NEW text,
           KnownToBeEditable(target, text)
    PROVE  \E c, i : IsEditable(target, text, c, i)
<1>1. PICK path, parent, last :
          path = target.path /\ parent = Parent(target) /\ last = LastPart(target)
  OBVIOUS
<1>2. /\ path \in Seq(Iterator) /\ Len(path) \in Nat /\ Len(path) > 1
      /\ target.scope \in {"local", "global"}
  BY <1>1, PathsAreSequences, LenProperties DEF Targets, KnownToBeEditable
<1>3. path # <<>>
  BY <1>2, EmptySeq
<1>4. HasChildren(target)
  BY <1>1, <1>3 DEF HasChildren
<1>5. Len(Parts(target)) \in Nat /\ Len(Parts(target)) > 0
  <2>1. Len(Tail(path)) = Len(path) - 1
    BY <1>2, <1>3, HeadTailProperties
  <2>2. Parts(target) = path \/ Parts(target) = Tail(path)
    BY <1>1 DEF Parts
  <2>3. PICK n \in Nat : n = Len(path) /\ n > 1
    BY <1>2
  <2> QED BY <2>1, <2>2, <2>3
<1>6. OnePartMore(target, parent, Len(Parts(target)))
  BY <1>1, <1>4, <1>5, ParentHasOnePartLess
<1>7. parent \in Targets /\ HasChildren(parent)
  BY <1>6 DEF OnePartMore
<1>8. PICK entries, S : entries = view.entries /\ S = Shown(heap, parent)
  OBVIOUS
<1>9. PICK n \in DOMAIN entries :
          entries[n].pathIterator = last /\ Parsed(Type(entries[n].value), text) # Null
  BY <1>1, <1>8 DEF KnownToBeEditable
<1>10. entries[n] \in S
  <2>1. entries \in Seq(S)
    BY <1>1, <1>7, <1>8 DEF KnownToBeEditable, ViewInv
  <2>2. n \in 1 .. Len(entries)
    BY <1>9, <2>1, LenProperties
  <2> QED BY <2>1, <2>2, ElementOfSeq
<1>11. IsShown(entries[n], heap, parent) /\ entries[n].pathIterator \in Int
  BY <1>8, <1>10 DEF Shown, Listed
<1>12. PICK c, i : c = ValueIn(heap, parent) /\ i = NextSlot(Slots(heap, c), last)
  OBVIOUS
<1>13. /\ StartsSomewhere(parent) /\ i # 0
       /\ Type(entries[n].value) = Type(Slots(heap, c)[i].val)
  BY <1>9, <1>11, <1>12 DEF IsShown
<1>14. c = ValueAt(parent)
  BY <1>12 DEF ValueIn, ValueAt
<1>15. heap \in [Container -> Seq(Slot)] /\ last \in Int
  BY <1>9, <1>11 DEF GoodContainers
<1>16. c \in Container
  BY <1>12, <1>13, <1>15, NullHasNothing
<1>17. Slots(heap, c) = heap[c] /\ heap[c] \in Seq(Slot)
  BY <1>15, <1>16 DEF Slots
<1>18. i \in Filled(heap[c])
  BY <1>12, <1>13, <1>15, <1>17, NextSlotIsFilled
<1>19. StartsSomewhere(target)
  <2> SUFFICES ASSUME target.scope = "local" PROVE HasLocal(target.frame, target.path[1])
    BY DEF StartsSomewhere
  <2>1. PICK p : p = SubSeq(path, 1, Len(path) - 1)
    OBVIOUS
  <2>2. parent.scope = "local" /\ parent.frame = target.frame /\ parent.path = p
    BY <1>1, <2>1 DEF Parent, Targets
  <2>3. p[1] = path[1]
    <3>1. Len(path) - 1 \in 0 .. Len(path) /\ 1 \in 1 .. Len(path) - 1
      BY <1>2
    <3> QED BY <1>2, <2>1, <3>1, Beginnings
  <2>4. PICK x : x = p[1] /\ x = path[1]
    BY <2>3
  <2>5. HasLocal(parent.frame, parent.path[1])
    BY <1>13, <2>2 DEF StartsSomewhere
  <2> QED BY <1>1, <2>2, <2>4, <2>5
<1>20. Type(c) = "table"
  BY <1>1, <1>14 DEF KnownToBeEditable
<1>21. IsEditable(target, text, c, i)
  BY <1>1, <1>4, <1>5, <1>6, <1>9, <1>12, <1>13, <1>14, <1>16, <1>17, <1>18, <1>19, <1>20
  DEF IsEditable
<1> QED BY <1>21

\* Every part of its path leads to something.
LEMMA EditablePathLeads ==
    ASSUME ListInv, phase = "walk", rest # <<>>,
           NEW text, NEW c, NEW i, IsEditable(cmd.target, text, c, i)
    PROVE  ~LeadsNowhere(At(stack, -1), Head(rest))
<1>1. /\ Parts(cmd.target) \in Seq(Int) /\ Len(Parts(cmd.target)) \in Nat
      /\ Done \in 0 .. Len(Parts(cmd.target)) /\ Done + 1 \in 1 .. Len(Parts(cmd.target))
      /\ Head(rest) = Parts(cmd.target)[Done + 1] /\ Head(rest) \in Nat
      /\ At(stack, -1) = Reached(Done)
  BY Walked DEF ListInv, PlaceInv, WalkInv
<1>2. PICK target, parent, parts, start :
          /\ target = cmd.target /\ parent = Parent(target) /\ parts = Parts(target)
          /\ start = Start(target)
  OBVIOUS
<1>3. PICK d \in Nat : d = Done
  BY <1>1
<1>4. PICK k \in Nat : k = Len(parts) /\ k > 0 /\ d + 1 \in 1 .. k
  BY <1>1, <1>2, <1>3
<1>5. OnePartMore(target, parent, k)
  BY <1>2, <1>4 DEF IsEditable
<1>6. PICK q : q = SubSeq(parts, 1, k - 1)
  OBVIOUS
<1>7. Followed(heap, start, q) = c /\ c \in Container
  BY <1>2, <1>5, <1>6 DEF OnePartMore, IsEditable, ValueAt
<1>8. /\ q \in Seq(Int) /\ Len(q) = k - 1 /\ \A j \in 1 .. k - 1 : q[j] = parts[j]
  <2>1. k - 1 \in 0 .. Len(parts)
    BY <1>4
  <2> QED BY <1>1, <1>2, <1>6, <2>1, Beginnings
<1>9. heap \in [Container -> Seq(Slot)] /\ GoodContainers(heap)
  BY DEF ListInv, PlaceInv, GoodContainers
<1>10. PICK v, part : v = Reached(Done) /\ part = parts[d + 1] /\ part \in Nat /\ part = Head(rest)
  BY <1>1, <1>2, <1>3
<1>11. v = Followed(heap, start, SubSeq(parts, 1, d))
  BY <1>2, <1>3, <1>10 DEF Reached
<1>12. NextSlot(Slots(heap, v), part) # 0
  <2>1. CASE d + 1 = k
    <3>1. d = k - 1
      BY <1>3, <1>4, <2>1
    <3>2. v = c
      BY <1>6, <1>7, <1>11, <3>1
    <3>3. part = LastPart(target)
      BY <1>2, <1>5, <1>10, <2>1 DEF OnePartMore
    <3>4. i = NextSlot(heap[c], part) /\ i \in Filled(heap[c])
      BY <1>2, <3>3 DEF IsEditable
    <3>5. Slots(heap, v) = heap[c]
      BY <1>7, <1>9, <3>2 DEF Slots
    <3>6. 0 \notin Filled(heap[c])
      BY <1>7, <1>9, LenProperties DEF Filled
    <3> QED BY <3>4, <3>5, <3>6
  <2>2. CASE d + 1 # k
    <3>1. d + 1 \in 1 .. k - 1 /\ d \in 0 .. k - 1 /\ d \in 0 .. k
      BY <1>4, <2>2
    <3>2. SubSeq(q, 1, d) = SubSeq(parts, 1, d)
      <4>1. PICK a, b : a = SubSeq(q, 1, d) /\ b = SubSeq(parts, 1, d)
        OBVIOUS
      <4>2. a \in Seq(Int) /\ Len(a) = d /\ \A j \in 1 .. d : a[j] = q[j]
        BY <1>8, <3>1, <4>1, Beginnings
      <4>3. b \in Seq(Int) /\ Len(b) = d /\ \A j \in 1 .. d : b[j] = parts[j]
        BY <1>1, <1>2, <1>4, <3>1, <4>1, Beginnings
      <4>4. \A j \in 1 .. d : j \in 1 .. k - 1
        BY <3>1
      <4>5. \A j \in 1 .. d : a[j] = b[j]
        BY <1>8, <4>2, <4>3, <4>4
      <4> QED BY <4>1, <4>2, <4>3, <4>5, SeqEqual
    <3>3. PICK m \in 1 .. Len(q) : m = d + 1 /\ m - 1 = d
      BY <1>8, <3>1
    <3>4. NextSlot(Slots(heap, Followed(heap, start, SubSeq(q, 1, m - 1))), q[m]) # 0
      BY <1>7, <1>8, <1>9, NoDeadEnd
    <3>5. q[m] = part
      BY <1>8, <1>10, <3>1, <3>3
    <3> QED BY <1>11, <3>2, <3>3, <3>4, <3>5
  <2> QED BY <2>1, <2>2
<1>13. v \in Container
  BY <1>9, <1>10, <1>12, NullHasNothing
<1>14. Type(v) = "table" \/ Type(v) = "array"
  BY <1>13, ContainersAssumption
<1>15. ~LeadsNowhere(v, part)
  <2>1. CASE Type(v) = "table"
    BY <1>12, <2>1 DEF LeadsNowhere
  <2>2. CASE Type(v) = "array"
    <3>1. HasKey(heap, v, Integer(part))
      BY <1>9, <1>10, <1>12, <1>13, <2>2, ArrayChild
    <3>2. part < Size(heap, v)
      BY <1>9, <1>10, <1>13, <2>2, <3>1, ArrayChild
    <3>3. Size(heap, v) \in Nat
      <4>1. Slots(heap, v) = heap[v] /\ DOMAIN heap[v] = 1 .. Len(heap[v]) /\ Len(heap[v]) \in Nat
        BY <1>9, <1>13, LenProperties DEF Slots
      <4>2. IsFiniteSet(1 .. Len(heap[v]))
        BY <4>1, FS_Interval
      <4>3. IsFiniteSet(Filled(heap[v]))
        <5>1. Filled(heap[v]) \subseteq 1 .. Len(heap[v])
          BY <4>1 DEF Filled
        <5> QED BY <4>2, <5>1, FS_Subset
      <4> QED BY <4>1, <4>3, FS_CardinalityType DEF Size
    <3>4. ~(part >= Size(heap, v))
      BY <1>10, <3>2, <3>3
    <3> QED BY <2>2, <3>1, <3>4 DEF LeadsNowhere
  <2> QED BY <1>14, <2>1, <2>2
<1> QED BY <1>1, <1>10, <1>15

\* A command that sets what the client knows to be editable has not failed.
EditInv ==
    cmd # NoCommand /\ cmd.op = "set" /\ KnownToBeEditable(cmd.target, cmd.text) =>
        rc = "Success"

LEMMA EditInvIsEnough ==
    ASSUME EditInv
    PROVE  EditableEntriesCanBeSet
BY DEF EditInv, EditableEntriesCanBeSet, EditsListedIn, KnownToBeEditable

\* An editable variable begins at a local that is there.
LEMMA EditIsNotRefused ==
    ASSUME ListInv, NEW target \in Targets, NEW text \in Text,
           SetStackVariableValue(target, text), KnownToBeEditable(target, text)
    PROVE  rc' = "Success"
<1>1. PICK c, i : IsEditable(target, text, c, i)
  BY KnownIsEditable DEF ListInv, PlaceInv
<1>2. /\ target.scope = "local" /\ phase = "idle" /\ Len(target.path) > 1
      /\ HasLocal(target.frame, target.path[1])
  BY <1>1 DEF SetStackVariableValue, KnownToBeEditable, IsEditable, StartsSomewhere
<1>3. rc = "Success"
  BY <1>2 DEF ListInv, PlaceInv, NothingFailed
<1>4. ~(target.frame > Len(Locals))
  <2>1. Len(Locals) \in Nat
    BY ScriptValuesAssumption, LenProperties
  <2>2. target.frame \in Nat
    BY <2>1 DEF Targets, Frame
  <2>3. target.frame < Len(Locals)
    BY <1>2 DEF HasLocal
  <2> QED BY <2>1, <2>2, <2>3
<1>5. Len(target.path) # 1
  <2>1. target.path \in Seq(Iterator)
    BY PathsAreSequences DEF Targets
  <2>2. PICK n \in Nat : n = Len(target.path)
    BY <2>1, LenProperties
  <2>3. n > 1
    BY <1>2, <2>2
  <2>4. n # 1
    BY <2>3
  <2> QED BY <2>2, <2>4, Zenon
<1>6. WithStackVariables(target, "set")
  BY <1>4 DEF SetStackVariableValue
<1>7. FollowFrom(Local(target.frame, target.path[1]), Tail(target.path))
  BY <1>2, <1>5, <1>6 DEF WithStackVariables
<1> QED BY <1>3, <1>7 DEF FollowFrom

\* A text that is parsed for the value at hand is not rejected, and its key is found.
LEMMA EditSucceeds ==
    ASSUME ListInv, RejectText \/ UpdateFromString,
           KnownToBeEditable(cmd.target, cmd.text)
    PROVE  rc' = "Success"
<1>1. /\ AtLeaf("set") /\ PlaceInv /\ phase = "walk" /\ cmd.target \in Targets
      /\ GoodContainers(heap) /\ rc = "Success"
  BY Walked DEF ListInv, PlaceInv, NothingFailed, RejectText, UpdateFromString, AtLeaf
<1>2. PICK c, i : IsEditable(cmd.target, cmd.text, c, i)
  BY <1>1, KnownIsEditable DEF ListInv
<1>3. PICK d, j : AtVariable(d, j)
  BY <1>1, SettingIsAtVariable
<1>4. InParent(cmd.target, d, j)
  BY <1>1, <1>3, VariableInParent
<1>5. d = c /\ j = i
  BY <1>2, <1>4 DEF InParent, IsEditable
<1>6. /\ At(stack, -1) = heap[c][i].val /\ Parsed(Type(heap[c][i].val), cmd.text) # Null
      /\ At(stack, -4) = c /\ At(stack, -2) = heap[c][i].key
      /\ c \in Container /\ i \in Filled(heap[c])
  BY <1>2, <1>3, <1>5 DEF AtVariable, IsEditable
<1>7. UpdateFromString
  BY <1>6 DEF RejectText
<1>8. HasKey(heap, c, heap[c][i].key)
  BY <1>1, <1>6, OneSlot
<1>9. HasKey(heap, At(stack, ContainerIndex), At(stack, -2))
  BY <1>6, <1>8 DEF ContainerIndex
<1> QED BY <1>1, <1>7, <1>9 DEF UpdateFromString

LEMMA EditStep ==
    ASSUME ListInv, EditInv, [Next]_vars
    PROVE  EditInv'
<1> SUFFICES ASSUME cmd' # NoCommand, cmd'.op = "set",
                    KnownToBeEditable(cmd.target, cmd.text)'
             PROVE  rc' = "Success"
  BY DEF EditInv
<1>1. CASE Command
  <2>1. PICK target \in Targets :
          \/ \E begin \in Iterator, count \in Count : GetVariables(target, begin, count)
          \/ \E text \in Text : SetStackVariableValue(target, text)
    BY <1>1 DEF Command
  <2>2. PICK text \in Text : SetStackVariableValue(target, text)
    BY <2>1 DEF GetVariables
  <2>3. cmd'.target = target /\ cmd'.text = text /\ heap' = heap /\ view' = view
    BY <2>2 DEF SetStackVariableValue
  <2>4. ValueAt(Parent(target))' = ValueAt(Parent(target))
    BY <2>3 DEF ValueAt
  <2>5. KnownToBeEditable(target, text)
    BY <2>3, <2>4 DEF KnownToBeEditable, ValueAt
  <2> QED BY <2>2, <2>5, EditIsNotRefused
<1>2. CASE PathFails
  <2>1. /\ phase = "walk" /\ rest # <<>> /\ LeadsNowhere(At(stack, -1), Head(rest))
        /\ heap' = heap /\ cmd' = cmd /\ view' = view
    BY <1>2 DEF PathFails
  <2>2. KnownToBeEditable(cmd.target, cmd.text)
    BY <2>1 DEF KnownToBeEditable, ValueAt
  <2>3. PICK text : text = cmd.text
    OBVIOUS
  <2>4. cmd.target \in Targets /\ GoodContainers(heap) /\ ViewInv
    BY <2>1, Walked DEF ListInv, PlaceInv
  <2>5. PICK c, i : IsEditable(cmd.target, text, c, i)
    BY <2>2, <2>3, <2>4, KnownIsEditable
  <2> QED BY <2>1, <2>5, EditablePathLeads
<1>3. CASE RejectText \/ UpdateFromString
  <2>1. CASE heap' = heap
    <3>1. cmd' = cmd /\ view' = view
      BY <1>3 DEF RejectText, UpdateFromString
    <3>2. KnownToBeEditable(cmd.target, cmd.text)
      BY <2>1, <3>1 DEF KnownToBeEditable, ValueAt
    <3> QED BY <1>3, <3>2, EditSucceeds
  <2>2. CASE heap' # heap
    <3>1. UpdateFromString
      BY <1>3, <2>2 DEF RejectText
    <3>2. PICK c, i : AtVariable(c, i)
      BY <3>1, SettingIsAtVariable DEF ListInv, UpdateFromString
    <3> QED BY <2>2, <3>1, <3>2, WriteIsInPlace DEF ListInv
  <2> QED BY <2>1, <2>2
<1>4. CASE Reply
  BY <1>4 DEF Reply
<1>5. CASE ScriptRuns
  BY <1>5 DEF ScriptRuns, ListInv, PlaceInv, IInv, VariablesTypeOK
<1>6. CASE DescendArray \/ DescendTable \/ Unwind \/ PopRoot \/ ListChildren \/ UNCHANGED vars
  <2>1. UNCHANGED <<heap, cmd, view, rc>>
    BY <1>6 DEF vars, DescendArray, DescendTable, Descend, Unwind, PopRoot,
                ListChildren, StartIterating, AddNext, EndIterating, StartSorted, StartPastEnd,
                AddSorted, EndSorted, AddLocal, EndLocals, NothingToList
  <2>2. KnownToBeEditable(cmd.target, cmd.text)
    BY <2>1 DEF KnownToBeEditable, ValueAt
  <2> QED BY <2>1, <2>2 DEF EditInv
<1> QED BY <1>1, <1>2, <1>3, <1>4, <1>5, <1>6 DEF Next, Walk

\* A client's write to an entry of a table that a list of this stop has shown as editable
\* succeeds, whatever was listed or set in between: for all containers in which no array is a
\* key, and paths of any length (CreateChildVariable:392-399 against SetStackVariableValue).
THEOREM EditableEntriesAreSet ==
    ASSUME NoArrayKeys
    PROVE  Spec => []EditableEntriesCanBeSet
<1>1. Init => ListInv /\ EditInv
  BY ListInit DEF Init, EditInv
<1>2. ListInv /\ EditInv /\ [Next]_vars => (ListInv /\ EditInv)'
  BY ListStep, EditStep
<1>3. EditInv => EditableEntriesCanBeSet
  BY EditInvIsEnough
<1> QED BY <1>1, <1>2, <1>3, PTL DEF Spec

-----------------------------------------------------------------------------
(* The order in which children are listed *)

\* An order that lists every filled slot once.
ListsAll(s, slots) ==
    LET n == Cardinality(Filled(slots))
    IN  /\ n \in Nat
        /\ s \in [1 .. n -> Filled(slots)]
        /\ \A i \in Filled(slots) : \E m \in 1 .. n : s[m] = i
        /\ \A m, k \in 1 .. n : m < k => s[m] # s[k]

\* As many slots as there are, none twice, are all of them.
LEMMA NoneTwiceIsAll ==
    ASSUME NEW slots, IsFiniteSet(Filled(slots)),
           NEW s \in [1 .. Cardinality(Filled(slots)) -> Filled(slots)],
           \A m, k \in 1 .. Cardinality(Filled(slots)) : m < k => s[m] # s[k]
    PROVE  ListsAll(s, slots)
<1>1. PICK n \in Nat : n = Cardinality(Filled(slots))
  BY FS_CardinalityType
<1>2. PICK F : F = Filled(slots)
  OBVIOUS
<1>3. IsFiniteSet(1 .. n) /\ Cardinality(1 .. n) = n
  BY FS_Interval
<1>4. s \in [1 .. n -> F] /\ IsFiniteSet(F) /\ Cardinality(F) = n
  BY <1>1, <1>2
<1>5. \A m, k \in 1 .. n : m # k => s[m] # s[k]
  <2> SUFFICES ASSUME NEW m \in 1 .. n, NEW k \in 1 .. n, m # k PROVE s[m] # s[k]
    OBVIOUS
  <2>1. m < k \/ k < m
    OBVIOUS
  <2> QED BY <1>1, <2>1
<1>6. \A i \in F : \E m \in 1 .. n : s[m] = i
  <2> SUFFICES ASSUME NEW i \in F, \A m \in 1 .. n : s[m] # i PROVE FALSE
    OBVIOUS
  <2>1. IsFiniteSet(F \ {i}) /\ Cardinality(F \ {i}) = n - 1
    BY <1>4, FS_RemoveElement
  <2>2. s \in [1 .. n -> F \ {i}]
    BY <1>4
  <2>3. PICK S, G : S = 1 .. n /\ G = F \ {i}
    OBVIOUS
  <2>4. /\ IsFiniteSet(S) /\ IsFiniteSet(G) /\ Cardinality(G) < Cardinality(S)
        /\ s \in [S -> G]
    BY <1>3, <2>1, <2>2, <2>3
  <2>5. \E x, y \in S : x # y /\ s[x] = s[y]
    BY <2>4, FS_PigeonHole
  <2> QED BY <1>5, <2>3, <2>5
<1>7. \A m, k \in 1 .. n : m < k => s[m] # s[k]
  BY <1>5
<1> QED BY <1>1, <1>2, <1>4, <1>6, <1>7 DEF ListsAll

\* The order of their places.
OrdersBySlot(slots) ==
    {s \in [1 .. Cardinality(Filled(slots)) -> Filled(slots)] :
        \A m, n \in DOMAIN s : m < n => s[m] < s[n]}

LEMMA OrderBySlot ==
    ASSUME NEW T, NEW slots \in Seq(T), IsFiniteSet(Filled(slots))
    PROVE  OrdersBySlot(slots) # {}
<1>1. PICK F : F = Filled(slots)
  OBVIOUS
<1>2. F \subseteq Nat
  BY <1>1, LenProperties DEF Filled
<1>3. PICK n : n = Cardinality(F)
  OBVIOUS
<1>4. PICK rank : rank = [i \in F |-> i]
  OBVIOUS
<1>5. \A i \in F : rank[i] \in Nat
  BY <1>2, <1>4
<1>6. PICK s \in [1 .. n -> F] : InOrder(s, rank)
  BY <1>1, <1>3, <1>5, OrderExists
<1>7. DOMAIN s = 1 .. n
  OBVIOUS
<1>8. \A m, k \in DOMAIN s : m < k => s[m] < s[k]
  <2> SUFFICES ASSUME NEW m \in DOMAIN s, NEW k \in DOMAIN s, m < k PROVE s[m] < s[k]
    OBVIOUS
  <2>1. s[m] \in F /\ s[k] \in F /\ s[m] # s[k] /\ rank[s[m]] <= rank[s[k]]
    BY <1>6, <1>7 DEF InOrder
  <2>2. rank[s[m]] = s[m] /\ rank[s[k]] = s[k] /\ s[m] \in Nat /\ s[k] \in Nat
    BY <1>2, <1>4, <2>1
  <2> QED BY <2>1, <2>2
<1> QED BY <1>1, <1>3, <1>8 DEF OrdersBySlot

LargeIn(h, v) == Type(v) = "table" /\ Size(h, v) >= MaxTableSizeToSort

\* The order in which the children of v are listed.
ListOrder(h, v) ==
    LET slots == Slots(h, v)
    IN  IF Type(v) = "table" /\ ~LargeIn(h, v) THEN CHOOSE s \in OrdersByName(slots) : TRUE
        ELSE IF Type(v) = "array" THEN [n \in 1 .. Len(slots) |-> n]
        ELSE CHOOSE s \in OrdersBySlot(slots) : TRUE

\* sq_next goes from each slot of the order to the one after it.
InSlotOrder(s, slots) ==
    LET n == Cardinality(Filled(slots))
    IN  \A m, k \in 1 .. n : m < k => s[m] < s[k]

LEMMA ArrayIsFull ==
    ASSUME NEW h, GoodContainers(h), NEW v, Type(v) = "array", NEW slots, slots = Slots(h, v)
    PROVE  Filled(slots) = 1 .. Len(slots) /\ Len(slots) \in Nat
<1>1. h \in [Container -> Seq(Slot)]
  BY DEF GoodContainers
<1>2. slots \in Seq(Slot) /\ DOMAIN slots = 1 .. Len(slots) /\ Len(slots) \in Nat
  BY <1>1, SlotsType, LenProperties
<1>3. CASE v \in Container
  <2>1. \A i \in 1 .. Len(slots) : slots[i].key = Integer(i - 1)
    BY <1>1, <1>2, <1>3 DEF GoodContainers, Slots
  <2>2. \A i \in 1 .. Len(slots) : slots[i].key # Null
    BY <2>1 DEF Integer, Null
  <2> QED BY <1>2, <2>2 DEF Filled
<1>4. CASE v \notin Container
  <2>1. slots = <<>>
    BY <1>1, <1>4, NullHasNothing
  <2> QED BY <2>1 DEF Filled
<1> QED BY <1>3, <1>4

LEMMA ListOrderListsAll ==
    ASSUME NEW h, GoodContainers(h), NEW v
    PROVE  LET s == ListOrder(h, v)
               slots == Slots(h, v)
           IN  /\ ListsAll(s, slots)
               /\ Type(v) = "table" /\ ~LargeIn(h, v) =>
                     /\ IsByName(s, slots)
                     /\ SortedIterators(slots) = [n \in DOMAIN s |-> IteratorOf(slots, s[n])]
               /\ ~(Type(v) = "table" /\ ~LargeIn(h, v)) => InSlotOrder(s, slots)
               /\ Type(v) = "array" => \A n \in 1 .. Size(h, v) : s[n] = n
<1>1. PICK slots, s : slots = Slots(h, v) /\ s = ListOrder(h, v)
  OBVIOUS
<1>2. slots \in Seq(Slot) /\ \A i \in Filled(slots) : NameOf[slots[i].key] \in Nat
  BY <1>1, NamesAreNumbers
<1>3. IsFiniteSet(Filled(slots))
  BY <1>2, FilledIsFinite
<1>4. PICK n \in Nat : n = Cardinality(Filled(slots))
  BY <1>3, FS_CardinalityType
<1>5. Size(h, v) = n
  BY <1>1, <1>4 DEF Size
<1>6. CASE Type(v) = "table" /\ ~LargeIn(h, v)
  <2>1. s = CHOOSE o \in OrdersByName(slots) : TRUE
    BY <1>1, <1>6 DEF ListOrder
  <2>2. OrdersByName(slots) # {}
    BY <1>2, <1>3, OrderByName DEF OrdersByName
  <2>3. s \in OrdersByName(slots)
    BY <2>1, <2>2
  <2>4. s \in [1 .. n -> Filled(slots)] /\ IsByName(s, slots)
    BY <1>4, <2>3 DEF OrdersByName
  <2>5. \A m, k \in 1 .. n : m < k => s[m] # s[k]
    <3>1. DOMAIN s = 1 .. n
      BY <2>4
    <3> QED BY <2>4, <3>1 DEF IsByName
  <2>6. ListsAll(s, slots)
    BY <1>3, <1>4, <2>4, <2>5, NoneTwiceIsAll
  <2>7. SortedIterators(slots) = [m \in DOMAIN s |-> IteratorOf(slots, s[m])]
    BY <2>1 DEF SortedIterators
  <2> QED BY <1>1, <1>6, <2>4, <2>6, <2>7
<1>7. CASE Type(v) = "array"
  <2>1. s = [m \in 1 .. Len(slots) |-> m]
    BY <1>1, <1>7 DEF ListOrder
  <2>2. Filled(slots) = 1 .. Len(slots) /\ Len(slots) \in Nat
    BY <1>1, <1>2, <1>7, ArrayIsFull
  <2>3. n = Len(slots)
    <3>1. PICK k \in Nat : k = Len(slots)
      BY <2>2
    <3>2. Cardinality(1 .. k) = k
      BY FS_Interval
    <3> QED BY <1>4, <2>2, <3>1, <3>2
  <2>4. s \in [1 .. n -> Filled(slots)] /\ \A m \in 1 .. n : s[m] = m
    BY <2>1, <2>2, <2>3
  <2>5. ListsAll(s, slots)
    BY <1>3, <1>4, <2>4, NoneTwiceIsAll
  <2>6. InSlotOrder(s, slots)
    BY <1>4, <2>4 DEF InSlotOrder
  <2> QED BY <1>1, <1>5, <1>7, <2>4, <2>5, <2>6
<1>8. CASE Type(v) # "array" /\ ~(Type(v) = "table" /\ ~LargeIn(h, v))
  <2>1. s = CHOOSE o \in OrdersBySlot(slots) : TRUE
    BY <1>1, <1>8 DEF ListOrder
  <2>2. OrdersBySlot(slots) # {}
    BY <1>2, <1>3, OrderBySlot
  <2>3. s \in OrdersBySlot(slots)
    BY <2>1, <2>2
  <2>4. s \in [1 .. n -> Filled(slots)] /\ \A m, k \in 1 .. n : m < k => s[m] < s[k]
    BY <1>4, <2>3 DEF OrdersBySlot
  <2>5. \A m, k \in 1 .. n : m < k => s[m] # s[k]
    <3>1. \A m \in 1 .. n : s[m] \in Nat
      <4>1. Filled(slots) \subseteq Nat
        BY <1>2, LenProperties DEF Filled
      <4> QED BY <2>4, <4>1
    <3> QED BY <2>4, <3>1
  <2>6. ListsAll(s, slots)
    BY <1>3, <1>4, <2>4, <2>5, NoneTwiceIsAll
  <2>7. InSlotOrder(s, slots)
    BY <1>4, <2>4 DEF InSlotOrder
  <2> QED BY <1>1, <1>8, <2>6, <2>7
<1> QED BY <1>6, <1>7, <1>8

\* What sq_next does with iterators: they start at 0, each leads to a child and on to the next.
LeadsOn(w, n, slots) ==
    /\ n = 0 => NextSlot(slots, 0) = 0
    /\ n # 0 => w[1] = 0
    /\ \A k \in 1 .. n :
          /\ NextSlot(slots, w[k]) # 0
          /\ k < n => NextSlot(slots, w[k]) = w[k + 1]
          /\ k = n => NextSlot(slots, NextSlot(slots, w[k])) = 0

LEMMA OrderLeadsOn ==
    ASSUME NEW T, NEW slots \in Seq(T), NEW s, ListsAll(s, slots), InSlotOrder(s, slots),
           NEW n, n = Cardinality(Filled(slots)),
           NEW w, \A k \in 1 .. n : w[k] = IteratorOf(slots, s[k])
    PROVE  LeadsOn(w, n, slots)
<1>1. /\ n \in Nat /\ s \in [1 .. n -> Filled(slots)]
      /\ \A i \in Filled(slots) : \E m \in 1 .. n : s[m] = i
      /\ \A m, k \in 1 .. n : m < k => s[m] < s[k]
  BY DEF ListsAll, InSlotOrder
<1>2. Filled(slots) \subseteq Nat /\ 0 \notin Filled(slots)
  BY LenProperties DEF Filled
<1>3. \A m \in 1 .. n : s[m] \in Filled(slots) /\ s[m] \in Nat /\ s[m] # 0
  BY <1>1, <1>2
<1>4. \A m, k \in 1 .. n : m <= k => s[m] <= s[k]
  <2> SUFFICES ASSUME NEW m \in 1 .. n, NEW k \in 1 .. n, m <= k PROVE s[m] <= s[k]
    OBVIOUS
  <2>1. m < k \/ m = k
    OBVIOUS
  <2>2. m = k => s[m] <= s[k]
    BY <1>3
  <2>3. m < k => s[m] <= s[k]
    BY <1>1, <1>3
  <2> QED BY <2>1, <2>2, <2>3
<1>5. n = 0 => NextSlot(slots, 0) = 0
  <2> SUFFICES ASSUME n = 0 PROVE NextSlot(slots, 0) = 0
    OBVIOUS
  <2>1. Filled(slots) = {}
    BY <1>1
  <2> QED BY <2>1 DEF NextSlot
<1>6. n # 0 => w[1] = 0
  <2> SUFFICES ASSUME n # 0, w[1] # 0 PROVE FALSE
    OBVIOUS
  <2>1. 1 \in 1 .. n
    BY <1>1
  <2>2. w[1] \in Filled(slots) /\ w[1] < s[1]
    BY <1>3, <2>1, IteratorIsBefore
  <2>3. PICK m \in 1 .. n : s[m] = w[1]
    BY <1>1, <2>2
  <2>4. s[1] <= s[m]
    BY <1>4, <2>1
  <2> QED BY <1>3, <2>1, <2>2, <2>3, <2>4
<1>7. \A k \in 1 .. n : NextSlot(slots, w[k]) = s[k]
  BY <1>3, IteratorOfLeads
<1>8. ASSUME NEW k \in 1 .. n, k < n
      PROVE  s[k] = w[k + 1]
  <2>1. PICK j \in 1 .. n : j = k + 1
    BY <1>1, <1>8
  <2>2. PICK it : it = w[j]
    OBVIOUS
  <2>3. /\ it \in Int /\ it < s[j] /\ \A i \in Filled(slots) : i < s[j] => i <= it
        /\ it = 0 \/ it \in Filled(slots)
    BY <1>3, <2>2, IteratorIsBefore
  <2>4. s[k] < s[j]
    BY <1>1, <2>1
  <2>5. s[k] <= it
    BY <1>3, <2>3, <2>4
  <2>6. it \in Filled(slots)
    BY <1>3, <2>3, <2>5
  <2>7. PICK m \in 1 .. n : s[m] = it
    BY <1>1, <2>6
  <2>8. ~(s[j] <= s[m])
    BY <1>3, <2>3, <2>7
  <2>9. ~(j <= m)
    BY <1>4, <2>8
  <2>10. m <= k
    BY <2>1, <2>9
  <2>11. s[m] <= s[k]
    BY <1>4, <2>10
  <2> QED BY <1>3, <2>1, <2>2, <2>3, <2>5, <2>7, <2>11
<1>9. ASSUME NEW k \in 1 .. n, k = n
      PROVE  NextSlot(slots, s[k]) = 0
  <2>1. ASSUME NEW i \in Filled(slots) PROVE ~(i > s[k])
    <3>1. PICK m \in 1 .. n : s[m] = i
      BY <1>1
    <3>2. s[m] <= s[k]
      BY <1>1, <1>4, <1>9
    <3> QED BY <1>3, <3>1, <3>2
  <2>2. {i \in Filled(slots) : i > s[k]} = {}
    BY <2>1
  <2> QED BY <2>2 DEF NextSlot
<1> QED BY <1>3, <1>5, <1>6, <1>7, <1>8, <1>9 DEF LeadsOn

\* The iterators with which the children of v are listed.
Whole(h, v) ==
    [n \in 1 .. Size(h, v) |-> IteratorOf(Slots(h, v), ListOrder(h, v)[n])]

SortedIn(h, v) == Type(v) = "table" /\ ~LargeIn(h, v)

\* How each kind of container goes through them.
IsWhole(w, n, h, v) ==
    LET slots == Slots(h, v)
    IN  /\ n \in Nat /\ w \in [1 .. n -> Int]
        /\ SortedIn(h, v) => SortedIterators(slots) = w
        /\ ~SortedIn(h, v) => LeadsOn(w, n, slots)
        /\ Type(v) = "array" => (\A k \in 1 .. n : w[k] = k - 1) /\ NextSlot(slots, n) = 0

LEMMA WholeList ==
    ASSUME NEW h, GoodContainers(h), NEW v
    PROVE  IsWhole(Whole(h, v), Size(h, v), h, v)
<1>1. PICK slots, s, n, w :
          slots = Slots(h, v) /\ s = ListOrder(h, v) /\ n = Size(h, v) /\ w = Whole(h, v)
  OBVIOUS
<1>2. ListsAll(s, slots) /\ n = Cardinality(Filled(slots)) /\ slots \in Seq(Slot)
  BY <1>1, ListOrderListsAll, NamesAreNumbers DEF Size
<1>3. n \in Nat /\ s \in [1 .. n -> Filled(slots)]
  BY <1>2 DEF ListsAll
<1>4. w = [k \in 1 .. n |-> IteratorOf(slots, s[k])]
  BY <1>1 DEF Whole
<1>5. \A k \in 1 .. n : w[k] = IteratorOf(slots, s[k])
  BY <1>4
<1>6. w \in [1 .. n -> Int]
  <2>1. \A k \in 1 .. n : IteratorOf(slots, s[k]) \in Int
    BY <1>2, <1>3, IteratorIsBefore
  <2> QED BY <1>4, <2>1
<1>7. SortedIn(h, v) => SortedIterators(slots) = w
  <2> SUFFICES ASSUME SortedIn(h, v) PROVE SortedIterators(slots) = w
    OBVIOUS
  <2>1. SortedIterators(slots) = [k \in DOMAIN s |-> IteratorOf(slots, s[k])]
    BY <1>1, ListOrderListsAll DEF SortedIn
  <2>2. DOMAIN s = 1 .. n
    BY <1>3
  <2> QED BY <1>4, <2>1, <2>2
<1>8. ~SortedIn(h, v) => LeadsOn(w, n, slots)
  <2> SUFFICES ASSUME ~SortedIn(h, v) PROVE LeadsOn(w, n, slots)
    OBVIOUS
  <2>1. InSlotOrder(s, slots)
    BY <1>1, ListOrderListsAll DEF SortedIn
  <2> QED BY <1>2, <1>5, <2>1, OrderLeadsOn
<1>9. Type(v) = "array" => (\A k \in 1 .. n : w[k] = k - 1) /\ NextSlot(slots, n) = 0
  <2> SUFFICES ASSUME Type(v) = "array"
               PROVE  (\A k \in 1 .. n : w[k] = k - 1) /\ NextSlot(slots, n) = 0
    OBVIOUS
  <2>1. \A k \in 1 .. n : s[k] = k
    BY <1>1, ListOrderListsAll
  <2>2. \A k \in 1 .. n : NextSlot(slots, w[k]) = k
    BY <1>2, <1>3, <1>5, <2>1, IteratorOfLeads
  <2>3. LeadsOn(w, n, slots)
    BY <1>8 DEF SortedIn
  <2>4. ASSUME NEW k \in 1 .. n PROVE w[k] = k - 1
    <3>1. CASE k = 1
      BY <1>3, <2>3, <3>1 DEF LeadsOn
    <3>2. CASE k # 1
      <4>1. PICK j \in 1 .. n : j = k - 1 /\ j < n /\ j + 1 = k
        BY <1>3, <3>2
      <4>2. NextSlot(slots, w[j]) = w[j + 1]
        BY <2>3, <4>1 DEF LeadsOn
      <4> QED BY <2>2, <4>1, <4>2
    <3> QED BY <3>1, <3>2
  <2>5. NextSlot(slots, n) = 0
    <3>1. CASE n = 0
      BY <2>3, <3>1 DEF LeadsOn
    <3>2. CASE n # 0
      <4>1. n \in 1 .. n
        BY <1>3, <3>2
      <4>2. NextSlot(slots, NextSlot(slots, w[n])) = 0
        BY <2>3, <4>1 DEF LeadsOn
      <4> QED BY <2>2, <4>1, <4>2
    <3> QED BY <3>1, <3>2
  <2> QED BY <2>4, <2>5
<1> QED BY <1>1, <1>3, <1>6, <1>7, <1>8, <1>9 DEF IsWhole

\* It is the same for containers in which a value was set.
SameWhole(h, g, v) ==
    /\ Size(g, v) = Size(h, v) /\ Whole(g, v) = Whole(h, v)
    /\ ListOrder(g, v) = ListOrder(h, v)
    /\ LargeIn(g, v) = LargeIn(h, v)

LEMMA ChangeKeepsWhole ==
    ASSUME NEW h, GoodContainers(h), NEW g, NEW c, NEW i, ValueChanges(h, g, c, i), NEW v
    PROVE  SameWhole(h, g, v)
<1>1. PICK a, b : a = Slots(h, v) /\ b = Slots(g, v)
  OBVIOUS
<1>2. /\ DOMAIN b = DOMAIN a /\ Filled(b) = Filled(a)
      /\ \A j \in DOMAIN a : b[j].key = a[j].key
  BY <1>1, ChangeKeepsPlaces
<1>3. a \in Seq(Slot) /\ b \in Seq(Slot)
  BY <1>1, SlotsType DEF GoodContainers, ValueChanges
<1>4. Len(b) = Len(a)
  <2>1. DOMAIN a = 1 .. Len(a) /\ DOMAIN b = 1 .. Len(b) /\ Len(a) \in Nat /\ Len(b) \in Nat
    BY <1>3, LenProperties
  <2> QED BY <1>2, <2>1
<1>5. Size(g, v) = Size(h, v) /\ LargeIn(g, v) = LargeIn(h, v)
  BY <1>1, <1>2 DEF Size, LargeIn
<1>6. OrdersByName(b) = OrdersByName(a)
  <2>1. \A s \in [1 .. Cardinality(Filled(a)) -> Filled(a)] : IsByName(s, b) <=> IsByName(s, a)
    <3> SUFFICES ASSUME NEW s \in [1 .. Cardinality(Filled(a)) -> Filled(a)]
                 PROVE  IsByName(s, b) <=> IsByName(s, a)
      OBVIOUS
    <3>1. \A m \in DOMAIN s : b[s[m]].key = a[s[m]].key
      BY <1>2 DEF Filled
    <3> QED BY <3>1 DEF IsByName
  <2> QED BY <1>2, <2>1 DEF OrdersByName
<1>7. OrdersBySlot(b) = OrdersBySlot(a)
  BY <1>2 DEF OrdersBySlot
<1>8. ListOrder(g, v) = ListOrder(h, v)
  BY <1>1, <1>4, <1>5, <1>6, <1>7 DEF ListOrder
<1>9. \A j : IteratorOf(b, j) = IteratorOf(a, j)
  BY <1>2 DEF IteratorOf
<1>10. Whole(g, v) = Whole(h, v)
  BY <1>1, <1>5, <1>8, <1>9 DEF Whole
<1> QED BY <1>5, <1>8, <1>10 DEF SameWhole

-----------------------------------------------------------------------------
(* What the pages are pages of *)

\* The page is the part of the list w after its first p iterators.
IsPart(page, w, p) == \A n \in 1 .. Len(page) : page[n].pathIterator = w[p + n]

\* A page that begins with this iterator continues the list of v after p children.
BelongsAt(p, h, v, begin) ==
    /\ p \in 0 .. Size(h, v)
    /\ IF LargeIn(h, v)
       THEN (p < Size(h, v) /\ Whole(h, v)[p + 1] = begin) \/ (p = 0 /\ begin = 0)
       ELSE p = begin

ListsChildren == cmd.op = "list" /\ HasChildren(cmd.target)

\* How far the command has come that continues the list w of the n children of v after p.
IsAt(p, w, n, v) ==
    LET next == p + Len(out)
    IN  /\ next <= n /\ IsPart(out, w, p)
        /\ phase = "iterate" =>
              /\ next < n => At(stack, -1)[2] = w[next + 1]
              /\ next = n => NextSlot(Slots(heap, v), At(stack, -1)[2]) = 0
        /\ phase = "sorted" =>
              Len(order) = n - next /\ \A k \in 1 .. Len(order) : order[k] = w[next + k]
        /\ phase \in {"unwind", "reply"} /\ rc = "Success" /\ Len(out) < cmd.count => next = n

PageInv ==
    ListsChildren =>
        \A v, p : v = ValueIn(heap, cmd.target) /\ BelongsAt(p, heap, v, cmd.begin) =>
            IsAt(p, Whole(heap, v), Size(heap, v), v)

KindInv ==
    /\ phase = "walk" => out = <<>>
    /\ phase = "iterate" => ~SortedIn(heap, ValueIn(heap, cmd.target))
    /\ phase = "sorted" => SortedIn(heap, ValueIn(heap, cmd.target))

LEMMA KindStep ==
    ASSUME ListInv, KindInv, [Next]_vars
    PROVE  KindInv'
<1>1. CASE Command
  <2>1. phase = "idle" /\ out' = out /\ phase' \notin {"iterate", "sorted"}
    BY <1>1 DEF Command, GetVariables, SetStackVariableValue, WithStackVariables, Refuse, FollowFrom
  <2> QED BY <2>1 DEF ListInv, OutInv, KindInv
<1>2. CASE StartIterating \/ StartSorted
  <2>1. /\ phase = "walk" /\ rest = <<>> /\ UNCHANGED <<heap, cmd>>
    BY <1>2 DEF StartIterating, StartSorted, AtLeaf
  <2>2. PICK v : v = ValueIn(heap, cmd.target) /\ v = At(stack, -1)
    BY <2>1, LeafIsTarget DEF ListInv
  <2>3. StartIterating => ~SortedIn(heap, v) /\ phase' = "iterate"
    BY <2>2 DEF StartIterating, SortedIn, LargeIn, IsLarge
  <2>4. StartSorted => SortedIn(heap, v) /\ phase' = "sorted"
    BY <2>2 DEF StartSorted, SortedIn, LargeIn, IsSorted, IsLarge
  <2> QED BY <1>2, <2>1, <2>2, <2>3, <2>4 DEF KindInv
<1>3. CASE AddNext \/ AddSorted
  BY <1>3 DEF AddNext, AddSorted, KindInv
<1>4. CASE DescendArray \/ DescendTable
  BY <1>4 DEF DescendArray, DescendTable, Descend, KindInv
<1>5. CASE PathFails \/ Unwind \/ PopRoot \/ EndIterating \/ StartPastEnd \/ EndSorted
           \/ AddLocal \/ EndLocals \/ NothingToList \/ RejectText \/ UpdateFromString
           \/ Reply \/ ScriptRuns
  <2>1. phase' \notin {"walk", "iterate", "sorted"}
    BY <1>5 DEF PathFails, Unwind, PopRoot, EndIterating, StartPastEnd, EndSorted, AddLocal,
                EndLocals, NothingToList, RejectText, UpdateFromString, Reply, ScriptRuns
  <2> QED BY <2>1 DEF KindInv
<1>6. CASE UNCHANGED vars
  BY <1>6 DEF vars, KindInv
<1> QED BY <1>1, <1>2, <1>3, <1>4, <1>5, <1>6 DEF Next, Walk, ListChildren

\* A list begins where it belongs.
LEMMA ListingStarts ==
    ASSUME ListInv, KindInv, ListsChildren, StartIterating \/ StartSorted,
           NEW v, v = ValueIn(heap, cmd.target),
           NEW w, w = Whole(heap, v), NEW n, n = Size(heap, v),
           NEW p, BelongsAt(p, heap, v, cmd.begin)
    PROVE  IsAt(p, w, n, v)'
<1>1. /\ phase = "walk" /\ rest = <<>> /\ out = <<>> /\ UNCHANGED <<heap, cmd, out>>
      /\ cmd \in Commands /\ GoodContainers(heap)
  BY DEF StartIterating, StartSorted, AtLeaf, KindInv, ListInv, PlaceInv, IInv, VariablesTypeOK
<1>2. v = At(stack, -1)
  BY <1>1, LeafIsTarget DEF ListInv
<1>3. PICK slots : slots = Slots(heap, v)
  OBVIOUS
<1>4. IsWhole(w, n, heap, v)
  BY <1>1, WholeList
<1>5. n \in Nat /\ w \in [1 .. n -> Int] /\ p \in 0 .. n /\ Len(out) = 0 /\ p + Len(out) = p
  BY <1>1, <1>4 DEF IsWhole, BelongsAt
<1>6. cmd.begin \in Nat
  BY <1>1, BoundsAssumption DEF ListsChildren, Commands
<1>7. PICK begin \in Nat : begin = cmd.begin
  BY <1>6
<1>8. CASE StartIterating
  <2>1. ~SortedIn(heap, v)
    BY <1>2, <1>8 DEF StartIterating, SortedIn, LargeIn, IsLarge
  <2>2. LeadsOn(w, n, slots)
    BY <1>3, <1>4, <2>1 DEF IsWhole
  <2>3. At(stack', -1)[2] = begin
    <3>1. stack' = Append(stack, Integer(begin)) /\ stack \in Seq(Value) /\ Integer(begin) \in Value
      BY <1>7, <1>8 DEF StartIterating, Push, ListInv, PlaceInv, IInv, VariablesTypeOK, Integer,
                        Value
    <3>2. Len(stack') = Len(stack) + 1 /\ stack'[Len(stack) + 1] = Integer(begin)
          /\ Len(stack) \in Nat
      BY <3>1, AppendProperties, LenProperties
    <3> QED BY <3>2 DEF At, Integer
  <2>4. p < n => begin = w[p + 1]
    <3> SUFFICES ASSUME p < n PROVE begin = w[p + 1]
      OBVIOUS
    <3>1. CASE LargeIn(heap, v)
      <4>1. p = 0 /\ begin = 0 => w[p + 1] = 0
        BY <1>5, <2>2 DEF LeadsOn
      <4> QED BY <1>7, <3>1, <4>1 DEF BelongsAt
    <3>2. CASE ~LargeIn(heap, v)
      <4>1. Type(v) = "array"
        BY <1>2, <1>8, <3>2 DEF StartIterating, LargeIn, IsLarge
      <4>2. \A k \in 1 .. n : w[k] = k - 1
        BY <1>4, <4>1 DEF IsWhole
      <4>3. PICK k \in 1 .. n : k = p + 1
        BY <1>5
      <4>4. w[k] = p
        BY <1>5, <4>2, <4>3
      <4> QED BY <1>7, <3>2, <4>3, <4>4 DEF BelongsAt
    <3> QED BY <3>1, <3>2
  <2>5. p = n => NextSlot(slots, begin) = 0
    <3> SUFFICES ASSUME p = n PROVE NextSlot(slots, begin) = 0
      OBVIOUS
    <3>1. CASE LargeIn(heap, v)
      BY <1>5, <1>7, <2>2, <3>1 DEF BelongsAt, LeadsOn
    <3>2. CASE ~LargeIn(heap, v)
      <4>1. Type(v) = "array"
        BY <1>2, <1>8, <3>2 DEF StartIterating, LargeIn, IsLarge
      <4>2. NextSlot(slots, n) = 0
        BY <1>3, <1>4, <4>1 DEF IsWhole
      <4>3. p = begin
        BY <1>7, <3>2 DEF BelongsAt
      <4> QED BY <4>2, <4>3
    <3> QED BY <3>1, <3>2
  <2>6. phase' = "iterate"
    BY <1>8 DEF StartIterating
  <2>7. IsPart(out', w, p)
    BY <1>1, <1>5 DEF IsPart
  <2>8. heap' = heap /\ Len(out') = 0
    BY <1>1, <1>5
  <2> QED BY <1>3, <1>5, <2>3, <2>4, <2>5, <2>6, <2>7, <2>8 DEF IsAt
<1>9. CASE StartSorted
  <2>1. SortedIn(heap, v) /\ phase' = "sorted"
    BY <1>2, <1>9 DEF StartSorted, IsSorted, IsLarge, SortedIn, LargeIn
  <2>2. SortedIterators(slots) = w /\ p = begin
    BY <1>3, <1>4, <1>7, <2>1 DEF IsWhole, BelongsAt, SortedIn
  <2>3. w \in Seq(Int) /\ Len(w) = n
    BY <1>5, LenProperties, SeqDef
  <2>4. order' = SubSeq(w, p + 1, n)
    BY <1>2, <1>3, <1>7, <1>9, <2>2, <2>3 DEF StartSorted
  <2>5. PICK k \in Nat : k = n - p
    BY <1>5
  <2>6. Len(order') = k /\ \A j \in 1 .. k : order'[j] = w[p + j]
    <3>1. \A j \in p + 1 .. n : w[j] \in Int
      BY <1>5
    <3>2. p + 1 \in Int /\ n \in Int
      BY <1>5
    <3>3. /\ Len(SubSeq(w, p + 1, n)) = IF p + 1 <= n THEN n - (p + 1) + 1 ELSE 0
          /\ \A j \in 1 .. n - (p + 1) + 1 : SubSeq(w, p + 1, n)[j] = w[p + 1 + j - 1]
      BY <2>3, <3>1, <3>2, SubSeqProperties
    <3>4. n - (p + 1) + 1 = k /\ (IF p + 1 <= n THEN n - (p + 1) + 1 ELSE 0) = k
      BY <1>5, <2>5
    <3>5. \A j \in 1 .. k : p + 1 + j - 1 = p + j
      BY <1>5
    <3> QED BY <2>4, <3>3, <3>4, <3>5
  <2>7. IsPart(out', w, p)
    BY <1>1, <1>5 DEF IsPart
  <2>8. heap' = heap /\ Len(out') = 0
    BY <1>1, <1>5
  <2> QED BY <1>5, <2>1, <2>5, <2>6, <2>7, <2>8 DEF IsAt
<1> QED BY <1>8, <1>9

\* The children that are added are the next of the list.
LEMMA AddContinues ==
    ASSUME ListInv, KindInv, ListsChildren, AddNext \/ AddSorted,
           NEW v, v = ValueIn(heap, cmd.target),
           NEW w, w = Whole(heap, v), NEW n, n = Size(heap, v),
           NEW p, BelongsAt(p, heap, v, cmd.begin), IsAt(p, w, n, v)
    PROVE  IsAt(p, w, n, v)'
<1>1. /\ rest = <<>> /\ phase \in {"iterate", "sorted"} /\ UNCHANGED <<heap, cmd, phase>>
      /\ GoodContainers(heap) /\ out \in Seq(Shown(heap, cmd.target))
  BY DEF AddNext, AddSorted, ListInv, PlaceInv, WalkInv, OutInv, ListsChildren
<1>2. PICK slots, S : slots = Slots(heap, v) /\ S = Shown(heap, cmd.target)
  OBVIOUS
<1>3. IsWhole(w, n, heap, v)
  BY <1>1, WholeList
<1>4. n \in Nat /\ w \in [1 .. n -> Int] /\ p \in Nat
  BY <1>3 DEF IsWhole, BelongsAt
<1>5. PICK len \in Nat : len = Len(out)
  BY <1>1, LenProperties
<1>6. PICK next \in Nat : next = p + len
  BY <1>4
<1>7. next <= n /\ IsPart(out, w, p)
  BY <1>5, <1>6 DEF IsAt
<1>8. ASSUME NEW e, out' = Append(out, e), next < n, e.pathIterator = w[next + 1]
      PROVE  Len(out') = len + 1 /\ p + Len(out') = next + 1 /\ IsPart(out', w, p)
  <2>1. out \in Seq(S \cup {e}) /\ e \in S \cup {e}
    <3>1. S \subseteq S \cup {e}
      OBVIOUS
    <3>2. Seq(S) \subseteq Seq(S \cup {e})
      BY <3>1, SeqMonotonic
    <3> QED BY <1>1, <1>2, <3>2
  <2>2. /\ Len(out') = Len(out) + 1 /\ out'[Len(out) + 1] = e
        /\ \A k \in 1 .. Len(out) : out'[k] = out[k]
    BY <1>8, <2>1, AppendProperties
  <2>3. \A k \in 1 .. len + 1 : out'[k].pathIterator = w[p + k]
    <3> SUFFICES ASSUME NEW k \in 1 .. len + 1 PROVE out'[k].pathIterator = w[p + k]
      OBVIOUS
    <3>1. CASE k = len + 1
      <4>1. p + k = next + 1
        BY <1>4, <1>6, <3>1
      <4> QED BY <1>5, <1>8, <2>2, <3>1, <4>1
    <3>2. CASE k # len + 1
      <4>1. k \in 1 .. len
        BY <3>2
      <4> QED BY <1>5, <1>7, <2>2, <4>1 DEF IsPart
    <3> QED BY <3>1, <3>2
  <2> QED BY <1>4, <1>5, <1>6, <2>2, <2>3 DEF IsPart
<1>9. CASE AddNext
  <2>1. phase = "iterate"
    BY <1>9 DEF AddNext
  <2>2. v = At(stack, -2)
    BY <1>1, <2>1, LeafIsTarget DEF ListInv
  <2>3. PICK iter \in Int : iter = At(stack, -1)[2]
    BY <2>1 DEF ListInv, PlaceInv, IInv, IteratorOnTop
  <2>4. PICK i : i = NextSlot(slots, iter) /\ i # 0
    BY <1>2, <1>9, <2>2, <2>3 DEF AddNext, NextInContainer
  <2>5. next < n /\ iter = w[next + 1]
    <3>1. next # n
      BY <1>2, <1>5, <1>6, <2>1, <2>3, <2>4 DEF IsAt
    <3>2. next < n
      BY <1>4, <1>7, <3>1
    <3> QED BY <1>5, <1>6, <2>1, <2>3, <3>2 DEF IsAt
  <2>6. PICK e : e = Variable(iter, NameOf[slots[i].key], slots[i].val)
    OBVIOUS
  <2>7. out' = Append(out, e) /\ e.pathIterator = iter
    <3>1. NextInContainer = i
      BY <1>2, <2>2, <2>3, <2>4 DEF NextInContainer
    <3>2. out' = Append(out, Variable(iter, NameOf[slots[i].key], slots[i].val))
      BY <1>2, <1>9, <2>2, <2>3, <3>1 DEF AddNext
    <3> QED BY <2>6, <3>2 DEF Variable
  <2>8. p + Len(out') = next + 1 /\ IsPart(out', w, p)
    BY <1>8, <2>5, <2>7
  <2>9. At(stack', -1)[2] = i
    <3>1. stack \in Seq(Value) /\ Len(stack) \in Nat /\ Len(stack) > 1
      BY <2>1, TopIsOurs DEF ListInv, PlaceInv
    <3>2. PICK m \in Nat : m = Len(stack) /\ m > 1
      BY <3>1
    <3>3. Pop(stack, 1) \in Seq(Value) /\ Len(Pop(stack, 1)) = m - 1
      BY <3>1, <3>2, PopProperties
    <3>4. i \in Int
      <4>1. slots \in Seq(Slot)
        BY <1>1, <1>2, NamesAreNumbers
      <4> QED BY <2>4, <4>1, NextSlotIsFilled
    <3>5. Integer(i) \in Value
      BY <3>4 DEF Integer, Value
    <3>6. stack' = Append(Pop(stack, 1), Integer(i))
      <4>1. NextInContainer = i
        BY <1>2, <2>2, <2>3, <2>4 DEF NextInContainer
      <4> QED BY <1>9, <4>1 DEF AddNext, Push
    <3>7. Len(stack') = m - 1 + 1 /\ stack'[m - 1 + 1] = Integer(i)
      BY <3>3, <3>5, <3>6, AppendProperties
    <3>8. Len(stack') + 1 + -1 = m - 1 + 1
      BY <3>2, <3>7
    <3> QED BY <3>7, <3>8 DEF At, Integer
  <2>10. ~SortedIn(heap, v)
    BY <2>1 DEF KindInv
  <2>11. LeadsOn(w, n, slots) /\ next + 1 \in 1 .. n
    BY <1>2, <1>3, <1>4, <2>5, <2>10 DEF IsWhole
  <2>12. next + 1 < n => i = w[next + 1 + 1]
    BY <2>4, <2>5, <2>11 DEF LeadsOn
  <2>13. next + 1 = n => NextSlot(slots, i) = 0
    BY <2>4, <2>5, <2>11 DEF LeadsOn
  <2>14. next + 1 <= n
    BY <2>11
  <2> QED BY <1>1, <1>2, <2>1, <2>8, <2>9, <2>12, <2>13, <2>14 DEF IsAt
<1>10. CASE AddSorted
  <2>1. phase = "sorted" /\ order # <<>> /\ order' = Tail(order)
    BY <1>10 DEF AddSorted
  <2>2. v = At(stack, -1)
    BY <1>1, <2>1, LeafIsTarget DEF ListInv
  <2>3. order \in Seq(Leading(slots))
    BY <1>2, <2>1, <2>2 DEF ListInv, OrderInv
  <2>4. PICK left \in Nat : left = Len(order) /\ left # 0
    BY <2>1, <2>3, LenProperties, EmptySeq
  <2>5. left = n - next /\ \A k \in 1 .. left : order[k] = w[next + k]
    BY <1>5, <1>6, <2>1, <2>4 DEF IsAt
  <2>6. Head(order) = order[1] /\ Len(Tail(order)) = left - 1
        /\ \A k \in 1 .. left - 1 : Tail(order)[k] = order[k + 1]
    <3>1. /\ Tail(order) \in Seq(Leading(slots)) /\ Len(Tail(order)) = Len(order) - 1
          /\ \A k \in 1 .. Len(Tail(order)) : Tail(order)[k] = order[k + 1]
      BY <2>1, <2>3, HeadTailProperties
    <3> QED BY <2>3, <2>4, <3>1
  <2>7. PICK e : out' = Append(out, e) /\ e.pathIterator = Head(order)
    <3>1. PICK name, val : out' = Append(out, Variable(Head(order), name, val))
      BY <1>10 DEF AddSorted
    <3> QED BY <3>1 DEF Variable
  <2>8. next < n /\ e.pathIterator = w[next + 1]
    <3>1. 1 \in 1 .. left
      BY <2>4
    <3> QED BY <1>4, <2>4, <2>5, <2>6, <2>7, <3>1
  <2>9. p + Len(out') = next + 1 /\ IsPart(out', w, p)
    BY <1>8, <2>7, <2>8
  <2>10. Len(order') = n - (next + 1)
    BY <1>4, <2>1, <2>4, <2>5, <2>6
  <2>11. \A k \in 1 .. Len(order') : order'[k] = w[next + 1 + k]
    <3> SUFFICES ASSUME NEW k \in 1 .. left - 1 PROVE order'[k] = w[next + 1 + k]
      BY <2>1, <2>6
    <3>1. k + 1 \in 1 .. left /\ next + (k + 1) = next + 1 + k
      BY <2>4
    <3> QED BY <2>1, <2>5, <2>6, <3>1
  <2>12. next + 1 <= n
    BY <1>4, <2>8
  <2> QED BY <1>1, <2>1, <2>9, <2>10, <2>11, <2>12 DEF IsAt
<1> QED BY <1>9, <1>10

\* A list that ends before the page is full has come to the end of the children.
LEMMA ListingEnds ==
    ASSUME ListInv, KindInv, ListsChildren, EndIterating \/ EndSorted \/ NothingToList,
           NEW v, v = ValueIn(heap, cmd.target),
           NEW w, w = Whole(heap, v), NEW n, n = Size(heap, v),
           NEW p, BelongsAt(p, heap, v, cmd.begin), IsAt(p, w, n, v)
    PROVE  IsAt(p, w, n, v)'
<1>1. /\ rest = <<>> /\ phase \in {"iterate", "sorted", "walk"} /\ UNCHANGED <<heap, cmd, out, rc>>
      /\ GoodContainers(heap) /\ out \in Seq(Shown(heap, cmd.target)) /\ phase' = "unwind"
  BY DEF EndIterating, EndSorted, NothingToList, AtLeaf, ListInv, PlaceInv, WalkInv, OutInv,
         ListsChildren
<1>2. PICK slots : slots = Slots(heap, v)
  OBVIOUS
<1>3. IsWhole(w, n, heap, v)
  BY <1>1, WholeList
<1>4. n \in Nat /\ w \in [1 .. n -> Int] /\ p \in Nat /\ p <= n
  BY <1>3 DEF IsWhole, BelongsAt
<1>5. PICK len \in Nat : len = Len(out)
  BY <1>1, LenProperties
<1>6. PICK next \in Nat : next = p + len
  BY <1>4
<1>7. next <= n /\ IsPart(out, w, p)
  BY <1>5, <1>6 DEF IsAt
<1>8. ASSUME len < cmd.count PROVE next = n
  <2>1. cmd.count \in Nat
    <3>1. cmd \in Commands
      BY <1>1 DEF ListInv, PlaceInv, IInv, VariablesTypeOK
    <3> QED BY <3>1, BoundsAssumption DEF Commands, ListsChildren
  <2>2. ~(len >= cmd.count)
    BY <1>8, <2>1
  <2>3. CASE EndIterating
    <3>1. phase = "iterate" /\ NextInContainer = 0
      BY <1>5, <2>2, <2>3 DEF EndIterating
    <3>2. v = At(stack, -2)
      BY <1>1, <3>1, LeafIsTarget DEF ListInv
    <3>3. PICK iter : iter = At(stack, -1)[2]
      OBVIOUS
    <3>4. NextSlot(slots, iter) = 0
      BY <1>2, <3>1, <3>2, <3>3 DEF NextInContainer
    <3>5. ~SortedIn(heap, v)
      BY <3>1 DEF KindInv
    <3>6. LeadsOn(w, n, slots)
      BY <1>2, <1>3, <3>5 DEF IsWhole
    <3> SUFFICES ASSUME next # n PROVE FALSE
      OBVIOUS
    <3>7. next < n
      BY <1>4, <1>7
    <3>8. iter = w[next + 1] /\ next + 1 \in 1 .. n
      BY <1>4, <1>5, <1>6, <3>1, <3>3, <3>7 DEF IsAt
    <3> QED BY <3>4, <3>6, <3>8 DEF LeadsOn
  <2>4. CASE EndSorted
    <3>1. phase = "sorted" /\ order = <<>>
      BY <1>5, <2>2, <2>4 DEF EndSorted
    <3>2. Len(order) = n - next /\ Len(order) = 0
      BY <1>5, <1>6, <3>1 DEF IsAt
    <3> QED BY <1>4, <3>2
  <2>5. CASE NothingToList
    <3>1. phase = "walk" /\ Type(At(stack, -1)) \notin {"array", "table"}
      BY <2>5 DEF NothingToList, AtLeaf
    <3>2. v = At(stack, -1)
      BY <1>1, <3>1, LeafIsTarget DEF ListInv
    <3>3. v \notin Container
      BY <3>1, <3>2, ContainersAssumption
    <3>4. slots = <<>>
      BY <1>1, <1>2, <3>3, NullHasNothing DEF GoodContainers
    <3>5. Filled(slots) = {}
      BY <3>4 DEF Filled
    <3>6. n = 0
      BY <1>2, <3>5, FS_EmptySet DEF Size
    <3> QED BY <1>4, <1>7, <3>6
  <2> QED BY <2>3, <2>4, <2>5
<1>9. IsPart(out', w, p) /\ p + Len(out') = next /\ next <= n
  BY <1>1, <1>5, <1>6, <1>7
<1>10. phase' = "unwind" /\ (rc' = "Success" /\ Len(out') < cmd'.count => next = n)
  BY <1>1, <1>5, <1>8
<1> QED BY <1>9, <1>10 DEF IsAt

\* Other steps of a command that lists children take it no further.
LEMMA OthersStay ==
    ASSUME ListInv, KindInv, ListsChildren,
           DescendArray \/ DescendTable \/ PathFails \/ Unwind \/ PopRoot \/ StartPastEnd,
           NEW v, NEW w, NEW n, NEW p, IsAt(p, w, n, v)
    PROVE  IsAt(p, w, n, v)'
<1>1. UNCHANGED <<heap, cmd, out>>
  BY DEF DescendArray, DescendTable, PathFails, Unwind, PopRoot, StartPastEnd
<1>2. p + Len(out') <= n /\ IsPart(out', w, p)
  BY <1>1 DEF IsAt
<1>3. phase' \notin {"iterate", "sorted"}
  BY DEF DescendArray, DescendTable, Descend, PathFails, Unwind, PopRoot, StartPastEnd
<1>4. ASSUME phase' \in {"unwind", "reply"}, rc' = "Success", Len(out') < cmd'.count
      PROVE  p + Len(out') = n
  <2>1. Unwind \/ PopRoot
    BY <1>4 DEF DescendArray, DescendTable, Descend, PathFails, StartPastEnd, ListInv, PlaceInv
  <2>2. phase = "unwind" /\ rc' = rc
    BY <2>1 DEF Unwind, PopRoot
  <2> QED BY <1>1, <1>4, <2>2 DEF IsAt
<1> QED BY <1>2, <1>3, <1>4 DEF IsAt

LEMMA PageStep ==
    ASSUME ListInv, KindInv, PageInv, [Next]_vars
    PROVE  PageInv'
<1>1. CASE Command
  <2>1. phase = "idle" /\ heap' = heap /\ out = <<>> /\ out' = out
    BY <1>1 DEF Command, GetVariables, SetStackVariableValue, ListInv, OutInv
  <2>2. ListsChildren' => phase' = "walk" \/ (phase' = "reply" /\ rc' = "InvalidParameter")
    <3>1. PICK target \in Targets :
            \/ \E begin \in Iterator, count \in Count : GetVariables(target, begin, count)
            \/ \E text \in Text : SetStackVariableValue(target, text)
      BY <1>1 DEF Command
    <3>2. ASSUME NEW text, SetStackVariableValue(target, text)
          PROVE  ~ListsChildren'
      <4>1. cmd'.op = "set"
        BY <3>2 DEF SetStackVariableValue
      <4> QED BY <4>1 DEF ListsChildren
    <3>3. ASSUME NEW begin, NEW count, GetVariables(target, begin, count), HasChildren(target)
          PROVE  phase' = "walk" \/ (phase' = "reply" /\ rc' = "InvalidParameter")
      BY <3>3 DEF GetVariables, WithStackVariables, Refuse, FollowFrom, HasChildren
    <3>4. ASSUME NEW begin, NEW count, GetVariables(target, begin, count), ListsChildren'
          PROVE  HasChildren(target)
      <4>1. cmd'.target = target
        BY <3>4 DEF GetVariables
      <4> QED BY <3>4, <4>1 DEF ListsChildren
    <3> QED BY <3>1, <3>2, <3>3, <3>4
  <2> SUFFICES ASSUME ListsChildren', NEW v, NEW p, BelongsAt(p, heap', v, cmd'.begin)
               PROVE  IsAt(p, Whole(heap, v), Size(heap, v), v)'
    BY DEF PageInv
  <2>3. GoodContainers(heap')
    BY <2>1 DEF ListInv, PlaceInv
  <2>4. PICK w, n : w = Whole(heap', v) /\ n = Size(heap', v)
    OBVIOUS
  <2>5. n \in Nat
    BY <2>3, <2>4, WholeList DEF IsWhole
  <2>6. p \in Nat /\ p <= n
    BY <2>4, <2>5 DEF BelongsAt
  <2>7. Len(out') = 0 /\ p + Len(out') <= n
    <3>1. Len(<<>>) = 0
      OBVIOUS
    <3> QED BY <2>1, <2>6, <3>1
  <2>8. IsPart(out', w, p)
    BY <2>7 DEF IsPart
  <2>9. IsAt(p, w, n, v)'
    BY <2>2, <2>7, <2>8 DEF IsAt
  <2> QED BY <2>4, <2>9
<1>2. CASE Reply \/ ScriptRuns
  <2>1. cmd' = NoCommand
    BY <1>2 DEF Reply, ScriptRuns, ListInv, PlaceInv, IInv, VariablesTypeOK
  <2> QED BY <2>1 DEF PageInv, ListsChildren, NoCommand
<1>3. CASE RejectText \/ UpdateFromString
  <2>1. cmd.op = "set" /\ cmd' = cmd
    BY <1>3 DEF RejectText, UpdateFromString, AtLeaf
  <2> QED BY <2>1 DEF PageInv, ListsChildren
<1>4. CASE AddLocal \/ EndLocals
  <2>1. ~HasChildren(cmd.target) /\ cmd' = cmd
    BY <1>4 DEF AddLocal, EndLocals, ListInv, OutInv
  <2> QED BY <2>1 DEF PageInv, ListsChildren
<1>5. CASE Walk \/ StartIterating \/ AddNext \/ EndIterating \/ StartSorted \/ StartPastEnd
           \/ AddSorted \/ EndSorted \/ NothingToList
  <2>1. UNCHANGED <<heap, cmd>>
    BY <1>5 DEF Walk, DescendArray, DescendTable, PathFails, Unwind, PopRoot, StartIterating,
                AddNext, EndIterating, StartSorted, StartPastEnd, AddSorted, EndSorted,
                NothingToList
  <2> SUFFICES ASSUME ListsChildren, NEW v, v = ValueIn(heap, cmd.target),
                      NEW p, BelongsAt(p, heap, v, cmd.begin)
               PROVE  IsAt(p, Whole(heap, v), Size(heap, v), v)'
    BY <2>1 DEF PageInv, ListsChildren
  <2>2. PICK w, n : w = Whole(heap, v) /\ n = Size(heap, v)
    OBVIOUS
  <2>3. IsAt(p, w, n, v)
    BY <2>2 DEF PageInv
  <2>4. IsAt(p, w, n, v)'
    BY <1>5, <2>2, <2>3, ListingStarts, AddContinues, ListingEnds, OthersStay DEF Walk
  <2> QED BY <2>1, <2>2, <2>4
<1>6. CASE UNCHANGED vars
  BY <1>6 DEF vars, PageInv, ListsChildren, IsAt
<1> QED BY <1>1, <1>2, <1>3, <1>4, <1>5, <1>6 DEF Next, ListChildren

-----------------------------------------------------------------------------
(* What a client has of the list *)

\* The locals of a frame, from number p on.
AreLocals(entries, p) ==
    /\ entries \in Seq(Listed)
    /\ \A n \in 1 .. Len(entries) : entries[n].pathIterator = p + n - 1

\* A beginning of the list of the children of v, all of it if it is complete.
IsBeginning(entries, complete, h, v) ==
    /\ Len(entries) <= Size(h, v)
    /\ IsPart(entries, Whole(h, v), 0)
    /\ complete => Len(entries) = Size(h, v)

LocalsInv == cmd.op = "list" /\ ~HasChildren(cmd.target) => AreLocals(out, cmd.begin)

PagesInv ==
    /\ view.complete => view.target \in Targets
    /\ view.target \in Targets /\ HasChildren(view.target) =>
           IsBeginning(view.entries, view.complete, heap, ValueIn(heap, view.target))
    /\ view.target \in Targets /\ ~HasChildren(view.target) => AreLocals(view.entries, 0)

\* A command that lists children has a target, a first iterator and a size of the page.
ListCommand ==
    cmd.target \in Targets /\ cmd.begin \in Nat /\ cmd.count \in Nat

LEMMA CommandIsTyped ==
    ASSUME ListInv, cmd.op = "list"
    PROVE  ListCommand
<1>1. cmd \in Commands
  BY DEF ListInv, PlaceInv, IInv, VariablesTypeOK, NoCommand
<1> QED BY <1>1, BoundsAssumption DEF Commands, ListCommand

LEMMA AddedLocals ==
    ASSUME ListInv, LocalsInv, AddLocal
    PROVE  LocalsInv'
<1>1. phase = "locals" /\ cmd' = cmd /\ ~HasChildren(cmd.target)
  BY DEF AddLocal, ListInv, OutInv
<1> SUFFICES ASSUME cmd.op = "list" PROVE AreLocals(out', cmd.begin)
  BY <1>1 DEF LocalsInv
<1>2. ListCommand
  BY CommandIsTyped
<1>3. PICK begin \in Nat, frame \in Nat : begin = cmd.begin /\ frame = cmd.target.frame
  <2>1. Len(Locals) \in Nat
    BY ScriptValuesAssumption, LenProperties
  <2> QED BY <1>2, <2>1 DEF ListCommand, Targets, Frame
<1>4. AreLocals(out, begin)
  BY <1>1, <1>3 DEF LocalsInv
<1>5. PICK len \in Nat : len = Len(out)
  BY <1>4, LenProperties DEF AreLocals
<1>6. PICK n \in Nat : n = begin + len
  OBVIOUS
<1>7. HasLocal(frame, n)
  BY <1>3, <1>5, <1>6 DEF AddLocal
<1>8. Local(frame, n) \in Value
  BY <1>7, LocalType
<1>9. PICK val : val = Local(frame, n)
  OBVIOUS
<1>10. PICK e : e = [Variable(n, n, val) EXCEPT !.editable = FALSE]
  OBVIOUS
<1>11. e \in Listed /\ e.pathIterator = n
  <2>1. e = [pathIterator |-> n, pathUiString |-> n, value |-> val, editable |-> FALSE]
    BY <1>10, Zenon DEF Variable
  <2> QED BY <1>8, <1>9, <2>1 DEF Listed
<1>12. out' = Append(out, e)
  BY <1>3, <1>5, <1>6, <1>9, <1>10 DEF AddLocal
<1>13. PICK page : page = Append(out, e)
  OBVIOUS
<1>14. /\ page \in Seq(Listed) /\ Len(page) = len + 1 /\ page[len + 1] = e
       /\ \A k \in 1 .. len : page[k] = out[k]
  BY <1>4, <1>5, <1>11, <1>13, AppendProperties DEF AreLocals
<1>15. \A k \in 1 .. len + 1 : page[k].pathIterator = begin + k - 1
  <2> SUFFICES ASSUME NEW k \in 1 .. len + 1 PROVE page[k].pathIterator = begin + k - 1
    OBVIOUS
  <2>1. CASE k = len + 1
    <3>1. begin + k - 1 = n
      BY <1>6, <2>1
    <3> QED BY <1>11, <1>14, <2>1, <3>1
  <2>2. CASE k # len + 1
    <3>1. k \in 1 .. len
      BY <2>2
    <3> QED BY <1>4, <1>5, <1>14, <3>1 DEF AreLocals
  <2> QED BY <2>1, <2>2
<1>16. AreLocals(page, begin)
  BY <1>14, <1>15 DEF AreLocals
<1> QED BY <1>3, <1>12, <1>13, <1>16

LEMMA LocalsStep ==
    ASSUME ListInv, LocalsInv, [Next]_vars
    PROVE  LocalsInv'
<1>1. CASE Command
  <2>1. out' = <<>>
    BY <1>1 DEF Command, GetVariables, SetStackVariableValue, ListInv, OutInv
  <2>2. \A begin : AreLocals(<<>>, begin)
    BY EmptySeq DEF AreLocals
  <2> QED BY <2>1, <2>2 DEF LocalsInv
<1>2. CASE AddLocal
  BY <1>2, AddedLocals
<1>3. CASE Reply \/ ScriptRuns
  <2>1. cmd' = NoCommand
    BY <1>3 DEF Reply, ScriptRuns, ListInv, PlaceInv, IInv, VariablesTypeOK
  <2> QED BY <2>1 DEF LocalsInv, NoCommand
<1>4. CASE RejectText \/ UpdateFromString
  <2>1. cmd.op = "set" /\ cmd' = cmd
    BY <1>4 DEF RejectText, UpdateFromString, AtLeaf
  <2> QED BY <2>1 DEF LocalsInv
<1>5. CASE AddNext \/ AddSorted
  <2>1. HasChildren(cmd.target) /\ cmd' = cmd
    BY <1>5 DEF AddNext, AddSorted, ListInv, PlaceInv, WalkInv
  <2> QED BY <2>1 DEF LocalsInv
<1>6. CASE Walk \/ StartIterating \/ EndIterating \/ StartSorted \/ StartPastEnd \/ EndSorted
           \/ EndLocals \/ NothingToList \/ UNCHANGED vars
  <2>1. UNCHANGED <<cmd, out>>
    BY <1>6 DEF vars, Walk, DescendArray, DescendTable, PathFails, Unwind, PopRoot,
                StartIterating, EndIterating, StartSorted, StartPastEnd, EndSorted, EndLocals,
                NothingToList
  <2> QED BY <2>1 DEF LocalsInv
<1> QED BY <1>1, <1>2, <1>3, <1>4, <1>5, <1>6 DEF Next, ListChildren

\* Where one part of the list ends the next begins.
LEMMA PartsJoin ==
    ASSUME NEW S, NEW a \in Seq(S), NEW b \in Seq(S), NEW w, IsPart(a, w, 0), IsPart(b, w, Len(a))
    PROVE  IsPart(a \o b, w, 0) /\ Len(a \o b) = Len(a) + Len(b)
<1>1. PICK m \in Nat, k \in Nat : m = Len(a) /\ k = Len(b)
  BY LenProperties
<1>2. PICK c : c = a \o b
  OBVIOUS
<1>3. /\ c \in Seq(S) /\ Len(c) = m + k
      /\ \A i \in 1 .. m + k : c[i] = IF i <= m THEN a[i] ELSE b[i - m]
  BY <1>1, <1>2, ConcatProperties
<1>4. \A i \in 1 .. m + k : c[i].pathIterator = w[0 + i]
  <2> SUFFICES ASSUME NEW i \in 1 .. m + k PROVE c[i].pathIterator = w[i]
    OBVIOUS
  <2>1. CASE i <= m
    <3>1. i \in 1 .. Len(a) /\ 0 + i = i
      BY <1>1, <2>1
    <3>2. a[i].pathIterator = w[0 + i]
      BY <3>1 DEF IsPart
    <3>3. c[i] = a[i]
      BY <1>3, <2>1
    <3> QED BY <3>1, <3>2, <3>3, Zenon
  <2>2. CASE ~(i <= m)
    <3>1. PICK j \in 1 .. k : j = i - m /\ m + j = i
      <4>1. i - m \in 1 .. k
        BY <2>2
      <4>2. m + (i - m) = i
        OBVIOUS
      <4> QED BY <4>1, <4>2
    <3>2. b[j].pathIterator = w[m + j]
      BY <1>1, <3>1 DEF IsPart
    <3>3. c[i] = b[j]
      BY <1>3, <2>2, <3>1
    <3> QED BY <3>1, <3>2, <3>3, Zenon
  <2> QED BY <2>1, <2>2
<1> QED BY <1>1, <1>2, <1>3, <1>4 DEF IsPart

\* What the client adds of a page, given what it has.
Added(target, page) == IF IsLargeTarget(target) /\ page # <<>> THEN Tail(page) ELSE page

\* The page that has been made is a part of the list.
LEMMA PageIsPart ==
    ASSUME ListInv, PageInv, ListsChildren, phase = "reply", rc = "Success",
           NEW v, v = ValueIn(heap, cmd.target), NEW p, BelongsAt(p, heap, v, cmd.begin)
    PROVE  /\ IsPart(out, Whole(heap, v), p)
           /\ p + Len(out) <= Size(heap, v)
           /\ Len(out) < cmd.count => p + Len(out) = Size(heap, v)
<1>1. IsAt(p, Whole(heap, v), Size(heap, v), v)
  BY DEF PageInv
<1> QED BY <1>1 DEF IsAt

\* A first page is a beginning of the list.
LEMMA FirstPage ==
    ASSUME ListInv, PageInv, ListsChildren, phase = "reply", rc = "Success", cmd.begin = 0
    PROVE  IsBeginning(out, Len(out) < cmd.count, heap, ValueIn(heap, cmd.target))
<1>1. PICK v, w, n : v = ValueIn(heap, cmd.target) /\ w = Whole(heap, v) /\ n = Size(heap, v)
  OBVIOUS
<1>2. n \in Nat
  BY <1>1, WholeList DEF IsWhole, ListInv, PlaceInv
<1>3. BelongsAt(0, heap, v, cmd.begin)
  <2>1. 0 \in 0 .. n
    BY <1>2
  <2> QED BY <1>1, <2>1 DEF BelongsAt
<1>4. PICK len \in Nat : len = Len(out)
  BY LenProperties DEF ListInv, OutInv, ListsChildren
<1>5. IsPart(out, w, 0) /\ 0 + len <= n /\ (len < cmd.count => 0 + len = n)
  BY <1>1, <1>3, <1>4, PageIsPart
<1>6. len <= n /\ (len < cmd.count => len = n)
  BY <1>5
<1> QED BY <1>1, <1>4, <1>5, <1>6 DEF IsBeginning

\* Another page, which begins where the client is, continues it.
LEMMA NextPage ==
    ASSUME ListInv, PageInv, PagesInv, ListsChildren, phase = "reply", rc = "Success",
           cmd.target = view.target, view.entries # <<>>, cmd.begin = NextBegin
    PROVE  IsBeginning(view.entries \o Added(cmd.target, out), Len(out) < cmd.count, heap,
                       ValueIn(heap, cmd.target))
<1>1. PICK target, v, w, n :
          /\ target = cmd.target /\ v = ValueIn(heap, target)
          /\ w = Whole(heap, v) /\ n = Size(heap, v)
  OBVIOUS
<1>2. n \in Nat /\ w \in [1 .. n -> Int]
  BY <1>1, WholeList DEF IsWhole, ListInv, PlaceInv
<1>3. target \in Targets /\ HasChildren(target)
  BY <1>1, CommandIsTyped DEF ListCommand, ListsChildren
<1>4. PICK entries, page, S, begin, count :
          /\ entries = view.entries /\ page = out /\ S = Shown(heap, target)
          /\ begin = cmd.begin /\ count = cmd.count
  OBVIOUS
<1>5. entries \in Seq(S) /\ page \in Seq(S) /\ entries # <<>>
  BY <1>1, <1>3, <1>4 DEF ListInv, OutInv, ViewInv, ListsChildren
<1>6. PICK m \in Nat, len \in Nat : m = Len(entries) /\ len = Len(page)
  BY <1>5, LenProperties
<1>7. m # 0 /\ m <= n /\ IsPart(entries, w, 0)
  <2>1. IsBeginning(entries, view.complete, heap, v)
    BY <1>1, <1>3, <1>4 DEF PagesInv
  <2>2. m # 0
    BY <1>5, <1>6, EmptySeq
  <2> QED BY <1>1, <1>6, <2>1, <2>2 DEF IsBeginning
<1>8. IsLargeTarget(target) <=> LargeIn(heap, v)
  <2>1. ValueAt(target) = v
    BY <1>1 DEF ValueAt, ValueIn
  <2>2. IsLargeTarget(target) <=> IsLarge(v)
    BY <1>3, <2>1 DEF IsLargeTarget, HasChildren
  <2> QED BY <2>2 DEF IsLarge, LargeIn
<1>9. PICK added : added = Added(target, page)
  OBVIOUS
<1>10. /\ added \in Seq(S) /\ IsPart(added, w, m)
       /\ m + Len(added) <= n /\ (len < count => m + Len(added) = n)
  <2>1. CASE LargeIn(heap, v)
    <3>1. PICK p \in Nat : p = m - 1 /\ p + 1 = m /\ p < n /\ p \in 0 .. n
      <4>1. m - 1 \in Nat /\ (m - 1) + 1 = m /\ m - 1 < n /\ m - 1 \in 0 .. n
        BY <1>2, <1>7
      <4> QED BY <4>1
    <3>2. begin = w[p + 1]
      <4>1. begin = entries[m].pathIterator
        BY <1>1, <1>4, <1>6, <1>8, <2>1 DEF NextBegin
      <4>2. m \in 1 .. Len(entries) /\ 0 + m = m
        BY <1>6, <1>7
      <4>3. entries[m].pathIterator = w[0 + m]
        BY <1>7, <4>2 DEF IsPart
      <4> QED BY <3>1, <4>1, <4>2, <4>3
    <3>3. BelongsAt(p, heap, v, begin)
      BY <1>1, <2>1, <3>1, <3>2 DEF BelongsAt
    <3>4. IsPart(page, w, p) /\ p + len <= n /\ (len < count => p + len = n)
      BY <1>1, <1>4, <1>6, <3>3, PageIsPart
    <3>5. CASE page = <<>>
      <4>1. added = <<>> /\ len = 0 /\ Len(added) = 0
        BY <1>6, <1>9, <3>5 DEF Added
      <4>2. ~(len < count)
        BY <3>1, <3>4, <4>1
      <4>3. IsPart(added, w, m)
        BY <4>1 DEF IsPart
      <4>4. m + Len(added) <= n
        BY <1>7, <4>1
      <4> QED BY <4>1, <4>2, <4>3, <4>4, EmptySeq
    <3>6. CASE page # <<>>
      <4>1. added = Tail(page)
        BY <1>8, <1>9, <2>1, <3>6 DEF Added
      <4>2. /\ added \in Seq(S) /\ Len(added) = len - 1 /\ len # 0
            /\ \A i \in 1 .. Len(added) : added[i] = page[i + 1]
        BY <1>5, <1>6, <3>6, <4>1, HeadTailProperties, EmptySeq
      <4>3. IsPart(added, w, m)
        <5> SUFFICES ASSUME NEW i \in 1 .. Len(added) PROVE added[i].pathIterator = w[m + i]
          BY DEF IsPart
        <5>1. PICK j \in 1 .. len : j = i + 1 /\ p + j = m + i
          <6>1. i + 1 \in 1 .. len
            BY <4>2
          <6>2. p + (i + 1) = m + i
            BY <3>1, <4>2
          <6> QED BY <6>1, <6>2
        <5>2. page[j].pathIterator = w[p + j]
          BY <1>6, <3>4, <5>1 DEF IsPart
        <5>3. added[i] = page[j]
          BY <4>2, <5>1
        <5> QED BY <5>1, <5>2, <5>3
      <4>4. m + Len(added) = p + len
        BY <3>1, <4>2
      <4> QED BY <3>4, <4>2, <4>3, <4>4
    <3> QED BY <3>5, <3>6
  <2>2. CASE ~LargeIn(heap, v)
    <3>1. begin = m /\ added = page
      BY <1>1, <1>4, <1>6, <1>8, <1>9, <2>2 DEF NextBegin, Added
    <3>2. BelongsAt(m, heap, v, begin)
      <4>1. m \in 0 .. n
        BY <1>2, <1>7
      <4> QED BY <1>1, <2>2, <3>1, <4>1 DEF BelongsAt
    <3>3. IsPart(page, w, m) /\ m + len <= n /\ (len < count => m + len = n)
      BY <1>1, <1>4, <1>6, <3>2, PageIsPart
    <3> QED BY <1>5, <1>6, <3>1, <3>3
  <2> QED BY <2>1, <2>2
<1>11. IsPart(entries \o added, w, 0) /\ Len(entries \o added) = m + Len(added)
  BY <1>5, <1>6, <1>7, <1>10, PartsJoin
<1>12. IsBeginning(entries \o added, len < count, heap, v)
  BY <1>1, <1>10, <1>11 DEF IsBeginning
<1> QED BY <1>1, <1>4, <1>6, <1>9, <1>12

\* The locals are numbered on.
LEMMA NextLocals ==
    ASSUME NEW a, AreLocals(a, 0), NEW b, NEW p, p = Len(a), AreLocals(b, p)
    PROVE  AreLocals(a \o b, 0)
<1>1. PICK m \in Nat, k \in Nat : m = Len(a) /\ k = Len(b)
  BY LenProperties DEF AreLocals
<1>2. PICK c : c = a \o b
  OBVIOUS
<1>3. /\ c \in Seq(Listed) /\ Len(c) = m + k
      /\ \A i \in 1 .. m + k : c[i] = IF i <= m THEN a[i] ELSE b[i - m]
  BY <1>1, <1>2, ConcatProperties DEF AreLocals
<1>4. \A i \in 1 .. m + k : c[i].pathIterator = 0 + i - 1
  <2> SUFFICES ASSUME NEW i \in 1 .. m + k PROVE c[i].pathIterator = 0 + i - 1
    OBVIOUS
  <2>1. CASE i <= m
    <3>1. i \in 1 .. Len(a)
      BY <1>1, <2>1
    <3>2. a[i].pathIterator = 0 + i - 1
      BY <3>1 DEF AreLocals
    <3>3. c[i] = a[i]
      BY <1>3, <2>1
    <3> QED BY <3>2, <3>3
  <2>2. CASE ~(i <= m)
    <3>1. PICK j \in 1 .. k : j = i - m
      <4>1. i - m \in 1 .. k
        BY <2>2
      <4> QED BY <4>1
    <3>2. b[j].pathIterator = m + j - 1
      BY <1>1, <3>1 DEF AreLocals
    <3>3. c[i] = b[j]
      BY <1>3, <2>2, <3>1
    <3>4. m + j - 1 = 0 + i - 1
      BY <3>1
    <3> QED BY <3>2, <3>3, <3>4
  <2> QED BY <2>1, <2>2
<1> QED BY <1>2, <1>3, <1>4 DEF AreLocals

\* What the client has of a target.
IsPartOf(target, entries, complete, h) ==
    /\ target \in Targets
    /\ IF HasChildren(target) THEN IsBeginning(entries, complete, h, ValueIn(h, target))
       ELSE AreLocals(entries, 0)

LEMMA ReplyKeepsPages ==
    ASSUME ListInv, PageInv, LocalsInv, PagesInv, Reply
    PROVE  PagesInv'
<1>1. phase = "reply" /\ heap' = heap
  BY DEF Reply
<1>2. CASE view' = view
  BY <1>1, <1>2 DEF PagesInv
<1>3. CASE view' # view
  <2>1. /\ cmd.op = "list" /\ rc = "Success"
        /\ view' = ViewWith(out, cmd.target, cmd.begin, cmd.count)
    BY <1>3 DEF Reply
  <2>2. PICK target, page, count : target = cmd.target /\ page = out /\ count = cmd.count
    OBVIOUS
  <2>3. target \in Targets
    BY <2>1, <2>2, CommandIsTyped DEF ListCommand
  <2>4. PICK known, complete :
            /\ view' = [target |-> target, entries |-> known, complete |-> complete]
            /\ IsPartOf(target, known, complete, heap)
    <3>1. CASE cmd.begin = 0
      <4>1. view' = [target |-> target, entries |-> page, complete |-> Len(page) < count]
        BY <2>1, <2>2, <3>1 DEF ViewWith
      <4>2. HasChildren(target) =>
                IsBeginning(page, Len(page) < count, heap, ValueIn(heap, target))
        BY <1>1, <2>1, <2>2, <3>1, FirstPage DEF ListsChildren
      <4>3. ~HasChildren(target) => AreLocals(page, 0)
        BY <2>1, <2>2, <3>1 DEF LocalsInv
      <4>4. IsPartOf(target, page, Len(page) < count, heap)
        BY <2>3, <4>2, <4>3 DEF IsPartOf
      <4> QED BY <4>1, <4>4
    <3>2. CASE cmd.begin # 0
      <4>1. PICK added, complete : added = Added(target, page) /\ complete = (Len(page) < count)
        OBVIOUS
      <4>2. target = view.target /\ view.entries # <<>> /\ cmd.begin = NextBegin
        BY <1>3, <2>1, <2>2, <3>2 DEF ViewWith
      <4>3. view' = [view EXCEPT !.entries = @ \o added, !.complete = complete]
        BY <1>3, <2>1, <2>2, <3>2, <4>1, Zenon DEF ViewWith, Added
      <4>4. view = [target |-> view.target, entries |-> view.entries, complete |-> view.complete]
        BY DEF ListInv, ViewInv
      <4>5. view' = [target |-> target, entries |-> view.entries \o added, complete |-> complete]
        <5>1. PICK e, d : e = view.entries /\ d = view.complete
          OBVIOUS
        <5>2. view = [target |-> target, entries |-> e, complete |-> d]
          BY <4>2, <4>4, <5>1
        <5>3. view' = [view EXCEPT !.entries = e \o added, !.complete = complete]
          BY <4>3, <5>1, Zenon
        <5>4. view' = [target |-> target, entries |-> e \o added, complete |-> complete]
          BY <5>2, <5>3, Zenon
        <5> QED BY <5>1, <5>4
      <4>6. HasChildren(target) =>
                IsBeginning(view.entries \o added, complete, heap, ValueIn(heap, target))
        BY <1>1, <2>1, <2>2, <4>1, <4>2, NextPage DEF ListsChildren
      <4>7. ASSUME ~HasChildren(target) PROVE AreLocals(view.entries \o added, 0)
        <5>1. AreLocals(view.entries, 0) /\ AreLocals(page, cmd.begin)
          BY <2>1, <2>2, <2>3, <4>2, <4>7 DEF PagesInv, LocalsInv
        <5>2. ~IsLargeTarget(target)
          BY <4>7 DEF HasChildren, IsLargeTarget
        <5>3. added = page /\ cmd.begin = Len(view.entries)
          BY <4>1, <4>2, <5>2 DEF Added, NextBegin
        <5> QED BY <5>1, <5>3, NextLocals
      <4>8. IsPartOf(target, view.entries \o added, complete, heap)
        BY <2>3, <4>6, <4>7 DEF IsPartOf
      <4> QED BY <4>5, <4>8
    <3> QED BY <3>1, <3>2
  <2>5. view'.target = target /\ view'.entries = known /\ view'.complete = complete
    BY <2>4
  <2> QED BY <1>1, <2>4, <2>5 DEF PagesInv, IsPartOf
<1> QED BY <1>2, <1>3

\* What is set is no container, so that its children are none before and after.
LEMMA ChangeKeepsBeginning ==
    ASSUME NEW h, GoodContainers(h), NEW g, NEW c, NEW i, ValueChanges(h, g, c, i),
           NEW target \in Targets, HasChildren(target),
           NEW entries, NEW complete, IsBeginning(entries, complete, h, ValueIn(h, target))
    PROVE  IsBeginning(entries, complete, g, ValueIn(g, target))
<1>1. PICK v, w : v = ValueIn(h, target) /\ w = ValueIn(g, target)
  OBVIOUS
<1>2. PICK s, parts : s = Start(target) /\ parts = Parts(target) /\ parts \in Seq(Int)
  BY PartsType
<1>3. SameOrPlain(v, w)
  <2>1. SameOrPlain(Followed(h, s, parts), Followed(g, s, parts))
    BY <1>2, ChangeKeepsPaths
  <2> QED BY <1>1, <1>2, <2>1 DEF ValueIn
<1>4. CASE w = v
  <2>1. SameWhole(h, g, v)
    BY ChangeKeepsWhole
  <2> QED BY <1>1, <1>4, <2>1 DEF SameWhole, IsBeginning
<1>5. CASE v \notin Container /\ w \notin Container
  <2>1. h \in [Container -> Seq(Slot)] /\ g \in [Container -> Seq(Slot)]
    BY DEF GoodContainers, ValueChanges
  <2>2. Slots(h, v) = <<>> /\ Slots(g, w) = <<>>
    BY <1>5, <2>1, NullHasNothing
  <2>3. Filled(<<>>) = {}
    BY DEF Filled
  <2>4. Size(h, v) = 0 /\ Size(g, w) = 0
    BY <2>2, <2>3, FS_EmptySet DEF Size
  <2>5. PICK len : len = Len(entries)
    OBVIOUS
  <2>6. len <= 0 /\ (complete => len = 0)
    BY <1>1, <2>4, <2>5 DEF IsBeginning
  <2>7. IsPart(entries, Whole(h, v), 0)
    BY <1>1 DEF IsBeginning
  <2>8. Whole(h, v) = Whole(g, w)
    <3>1. \A n \in 1 .. 0 : FALSE
      OBVIOUS
    <3> QED BY <2>4, <3>1 DEF Whole
  <2> QED BY <1>1, <2>4, <2>5, <2>6, <2>7, <2>8 DEF IsBeginning
<1> QED BY <1>3, <1>4, <1>5 DEF SameOrPlain

LEMMA PagesStep ==
    ASSUME ListInv, PageInv, LocalsInv, PagesInv, [Next]_vars
    PROVE  PagesInv'
<1>1. CASE Reply
  BY <1>1, ReplyKeepsPages
<1>2. CASE ScriptRuns
  <2>1. view' = NoView
    BY <1>2 DEF ScriptRuns
  <2>2. PICK w : w = view' /\ w = NoView
    BY <2>1
  <2>3. w.target = NoCommand /\ w.complete = FALSE
    BY <2>2 DEF NoView
  <2>4. NoCommand \notin Targets
    <3> SUFFICES ASSUME NoCommand \in Targets PROVE FALSE
      OBVIOUS
    <3>1. "scope" \in DOMAIN NoCommand
      BY DEF Targets
    <3> QED BY <3>1 DEF NoCommand
  <2> QED BY <2>2, <2>3, <2>4 DEF PagesInv
<1>3. CASE UpdateFromString
  <2>1. view' = view
    BY <1>3 DEF UpdateFromString
  <2>2. CASE heap' = heap
    BY <2>1, <2>2 DEF PagesInv
  <2>3. CASE heap' # heap
    <3>1. PICK c, i : AtVariable(c, i)
      BY <1>3, SettingIsAtVariable DEF ListInv, UpdateFromString
    <3>2. PICK h, g : h = heap /\ g = heap'
      OBVIOUS
    <3>3. ValueChanges(h, g, c, i) /\ GoodContainers(h)
      BY <1>3, <2>3, <3>1, <3>2, WriteIsInPlace DEF ListInv, PlaceInv
    <3>4. PICK target, entries, complete :
              target = view.target /\ entries = view.entries /\ complete = view.complete
      OBVIOUS
    <3>5. ASSUME target \in Targets, HasChildren(target)
          PROVE  IsBeginning(entries, complete, g, ValueIn(g, target))
      <4>1. IsBeginning(entries, complete, h, ValueIn(h, target))
        BY <3>2, <3>4, <3>5 DEF PagesInv
      <4> QED BY <3>3, <3>5, <4>1, ChangeKeepsBeginning
    <3> QED BY <2>1, <3>2, <3>4, <3>5 DEF PagesInv
  <2> QED BY <2>2, <2>3
<1>4. CASE Command \/ Walk \/ ListChildren \/ RejectText \/ UNCHANGED vars
  <2>1. UNCHANGED <<heap, view>>
    BY <1>4 DEF vars, Command, GetVariables, SetStackVariableValue,
                Walk, DescendArray, DescendTable, PathFails, Unwind, PopRoot,
                ListChildren, StartIterating, AddNext, EndIterating, StartSorted, StartPastEnd,
                AddSorted, EndSorted, AddLocal, EndLocals, NothingToList, RejectText
  <2> QED BY <2>1 DEF PagesInv
<1> QED BY <1>1, <1>2, <1>3, <1>4 DEF Next

\* The whole list is every child once, in order.
LEMMA WholeIsEveryChild ==
    ASSUME ListInv, PagesInv, view.complete
    PROVE  PagesShowEveryChildOnce
<1>1. PICK target, entries : target = view.target /\ entries = view.entries
  OBVIOUS
<1>2. target \in Targets
  BY <1>1 DEF PagesInv
<1>3. CASE target.scope = "local" /\ target.path = <<>>
  <2>1. AreLocals(entries, 0)
    BY <1>1, <1>2, <1>3 DEF PagesInv, HasChildren
  <2>2. DOMAIN entries = 1 .. Len(entries) /\ Len(entries) \in Nat
    BY <2>1, LenProperties DEF AreLocals
  <2>3. \A n \in DOMAIN entries : entries[n].pathIterator = n - 1
    <3> SUFFICES ASSUME NEW n \in 1 .. Len(entries) PROVE entries[n].pathIterator = n - 1
      BY <2>2
    <3>1. entries[n].pathIterator = 0 + n - 1
      BY <2>1 DEF AreLocals
    <3>2. 0 + n - 1 = n - 1
      BY <2>2
    <3> QED BY <3>1, <3>2
  <2> QED BY <1>1, <1>3, <2>3 DEF PagesShowEveryChildOnce
<1>4. CASE ~(target.scope = "local" /\ target.path = <<>>)
  <2>1. HasChildren(target)
    BY <1>2, <1>4 DEF HasChildren, Targets
  <2>2. PICK v, slots, s, w, n :
            /\ v = ValueIn(heap, target) /\ slots = Slots(heap, v)
            /\ s = ListOrder(heap, v) /\ w = Whole(heap, v) /\ n = Cardinality(Filled(slots))
    OBVIOUS
  <2>3. GoodContainers(heap) /\ slots \in Seq(Slot) /\ n = Size(heap, v)
    BY <2>2, NamesAreNumbers DEF ListInv, PlaceInv, Size
  <2>4. /\ ListsAll(s, slots)
        /\ SortedIn(heap, v) => IsByName(s, slots)
        /\ ~SortedIn(heap, v) => InSlotOrder(s, slots)
    BY <2>2, <2>3, ListOrderListsAll DEF SortedIn
  <2>5. /\ n \in Nat /\ s \in [1 .. n -> Filled(slots)]
        /\ \A i \in Filled(slots) : \E m \in 1 .. n : s[m] = i
    BY <2>2, <2>4 DEF ListsAll
  <2>6. /\ Len(entries) = n /\ IsPart(entries, w, 0)
    BY <1>1, <1>2, <2>1, <2>2, <2>3 DEF PagesInv, IsBeginning
  <2>7. entries \in Seq(Shown(heap, target))
    BY <1>1, <1>2, <2>1 DEF ListInv, ViewInv
  <2>8. DOMAIN entries = 1 .. n
    BY <2>6, <2>7, LenProperties
  <2>9. \A k \in 1 .. n : NextSlot(slots, entries[k].pathIterator) = s[k]
    <3> SUFFICES ASSUME NEW k \in 1 .. n
                 PROVE  NextSlot(slots, entries[k].pathIterator) = s[k]
      OBVIOUS
    <3>1. entries[k].pathIterator = w[0 + k] /\ 0 + k = k
      BY <2>5, <2>6 DEF IsPart
    <3>2. w[k] = IteratorOf(slots, s[k])
      BY <2>2, <2>3 DEF Whole
    <3>3. s[k] \in Filled(slots)
      BY <2>5
    <3>4. NextSlot(slots, IteratorOf(slots, s[k])) = s[k]
      BY <2>3, <3>3, IteratorOfLeads
    <3> QED BY <3>1, <3>2, <3>4
  <2>10. \A k \in 1 .. n : entries[k].pathUiString = NameOf[slots[s[k]].key]
    <3> SUFFICES ASSUME NEW k \in 1 .. n
                 PROVE  entries[k].pathUiString = NameOf[slots[s[k]].key]
      OBVIOUS
    <3>1. entries[k] \in Shown(heap, target)
      BY <2>6, <2>7, ElementOfSeq
    <3>2. IsShown(entries[k], heap, target)
      BY <3>1 DEF Shown
    <3> QED BY <2>2, <2>9, <3>2 DEF IsShown
  <2>11. PICK slotOf :
             slotOf = [k \in DOMAIN entries |-> NextSlot(slots, entries[k].pathIterator)]
    OBVIOUS
  <2>12. DOMAIN slotOf = 1 .. n /\ \A k \in 1 .. n : slotOf[k] = s[k]
    BY <2>8, <2>9, <2>11
  <2>13. Len(slotOf) = n
    <3>1. slotOf \in [1 .. n -> Filled(slots)]
      BY <2>5, <2>8, <2>9, <2>11
    <3>2. slotOf \in Seq(Filled(slots))
      BY <2>5, <3>1, SeqDef
    <3> QED BY <2>5, <3>1, <3>2, LenProperties
  <2>14. {slotOf[k] : k \in DOMAIN slotOf} = Filled(slots)
    BY <2>5, <2>12
  <2>15. \A k \in DOMAIN slotOf : entries[k].pathUiString = NameOf[slots[slotOf[k]].key]
    BY <2>10, <2>12
  <2>16. \A k \in 2 .. n : k - 1 \in 1 .. n /\ k \in 1 .. n /\ k - 1 < k
    BY <2>5
  <2>17. \A k \in 2 .. n :
             IF IsSorted(v) THEN entries[k - 1].pathUiString <= entries[k].pathUiString
             ELSE slotOf[k - 1] < slotOf[k]
    <3> SUFFICES ASSUME NEW k \in 2 .. n
                 PROVE  IF IsSorted(v)
                        THEN entries[k - 1].pathUiString <= entries[k].pathUiString
                        ELSE slotOf[k - 1] < slotOf[k]
      OBVIOUS
    <3>1. PICK j \in 1 .. n : j = k - 1 /\ j < k /\ k \in 1 .. n
      BY <2>16
    <3>2. IsSorted(v) <=> SortedIn(heap, v)
      BY DEF IsSorted, IsLarge, SortedIn, LargeIn
    <3>3. CASE IsSorted(v)
      <4>1. NameOf[slots[s[j]].key] <= NameOf[slots[s[k]].key]
        BY <2>4, <2>5, <3>1, <3>2, <3>3 DEF IsByName
      <4> QED BY <2>10, <3>1, <3>3, <4>1
    <3>4. CASE ~IsSorted(v)
      <4>1. s[j] < s[k]
        BY <2>2, <2>4, <3>1, <3>2, <3>4 DEF InSlotOrder
      <4> QED BY <2>12, <3>1, <3>4, <4>1
    <3> QED BY <3>3, <3>4
  <2>18. ValueAt(target) = v
    BY <2>2 DEF ValueAt, ValueIn
  <2> DEFINE ShowAll(list, all, of, sorted) ==
               /\ Len(of) = Cardinality(Filled(all))
               /\ {of[k] : k \in DOMAIN of} = Filled(all)
               /\ \A k \in DOMAIN of : list[k].pathUiString = NameOf[all[of[k]].key]
               /\ \A k \in 2 .. Len(of) :
                     IF sorted THEN list[k - 1].pathUiString <= list[k].pathUiString
                     ELSE of[k - 1] < of[k]
  <2>19. ShowAll(entries, slots, slotOf, IsSorted(v))
    BY <2>2, <2>13, <2>14, <2>15, <2>17, Zenon
  <2> HIDE DEF ShowAll
  <2>20. slots = Slots(heap, ValueAt(target))
    BY <2>2, <2>18
  <2>21. ShowAll(view.entries, Slots(heap, ValueAt(view.target)),
                 [k \in DOMAIN view.entries |->
                     NextSlot(Slots(heap, ValueAt(view.target)), view.entries[k].pathIterator)],
                 IsSorted(ValueAt(view.target)))
    BY <1>1, <2>11, <2>18, <2>19, <2>20, Zenon
  <2>22. ~(view.target.scope = "local" /\ view.target.path = <<>>)
    BY <1>1, <1>4
  <2> QED BY <2>21, <2>22, Zenon DEF ShowAll, PagesShowEveryChildOnce
<1> QED BY <1>3, <1>4

LEMMA PagesInit ==
    ASSUME Init
    PROVE  KindInv /\ PageInv /\ LocalsInv /\ PagesInv
<1>1. KindInv /\ PageInv /\ LocalsInv
  BY DEF Init, KindInv, PageInv, LocalsInv, ListsChildren, NoCommand
<1>2. PagesInv
  <2>1. PICK w : w = view /\ w = NoView
    BY DEF Init
  <2>2. w.target = NoCommand /\ w.complete = FALSE
    BY <2>1 DEF NoView
  <2>3. NoCommand \notin Targets
    <3> SUFFICES ASSUME NoCommand \in Targets PROVE FALSE
      OBVIOUS
    <3>1. "scope" \in DOMAIN NoCommand
      BY DEF Targets
    <3> QED BY <3>1 DEF NoCommand
  <2> QED BY <2>1, <2>2, <2>3 DEF PagesInv
<1> QED BY <1>1, <1>2

\* A client that asks for page after page of any variable of a stopped script, each where the one
\* before ended, has every child exactly once when a page comes short, in the order of their
\* names or, in arrays and in tables of MaxTableSizeToSort entries or more, of their slots,
\* whatever was set in between: for pages of any sizes, containers of any size in which no array
\* is a key, with any empty slots (CreateChildVariables, kMaxTableSizeToSort).
THEOREM EveryChildIsShownOnce ==
    ASSUME NoArrayKeys
    PROVE  Spec => []PagesShowEveryChildOnce
<1> DEFINE Inv == ListInv /\ KindInv /\ PageInv /\ LocalsInv /\ PagesInv
<1>1. Init => Inv
  BY ListInit, PagesInit
<1>2. Inv /\ [Next]_vars => Inv'
  <2> SUFFICES ASSUME Inv, [Next]_vars PROVE Inv'
    OBVIOUS
  <2>1. ListInv'
    BY ListStep
  <2>2. KindInv' /\ PageInv'
    BY KindStep, PageStep
  <2>3. LocalsInv' /\ PagesInv'
    BY LocalsStep, PagesStep
  <2> QED BY <2>1, <2>2, <2>3
<1>3. Inv => PagesShowEveryChildOnce
  <2>1. ~view.complete => PagesShowEveryChildOnce
    BY DEF PagesShowEveryChildOnce
  <2> QED BY <2>1, WholeIsEveryChild
<1> QED BY <1>1, <1>2, <1>3, PTL DEF Spec

=============================================================================
