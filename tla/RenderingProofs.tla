-------------------------- MODULE RenderingProofs --------------------------
(***************************************************************************)
(* Showing a variable leaves the operand stack of the script as it was,    *)
(* for any containers, any nesting of tables, instances and classes, and   *)
(* any limits; and it comes to an end unless something contains itself.    *)
(*                                                                         *)
(* Both are proved from what each call in progress has on the operand      *)
(* stack, which the place it has come to determines.  For the second it    *)
(* matters besides what the values there are: each call but a few is about *)
(* something that the value of the call below it holds, so that more calls *)
(* than containers lead round a cycle.                                     *)
(*                                                                         *)
(* The last part is about the names that ToClassFullName gives to classes, *)
(* for any tree of tables and classes and any locals.  It begins with the  *)
(* search as such: the tables that are being searched, each found in the   *)
(* one before, the tables that are done, and the names that are known.  It *)
(* is plain data there, so that what a step does to it is said without the *)
(* calls.  Then it relates that data to the calls in progress and the      *)
(* operand stack, action by action.                                        *)
(***************************************************************************)
EXTENDS Rendering, SequenceTheorems, FiniteSetTheorems, WellFoundedInduction, TLAPS

-----------------------------------------------------------------------------
(* Sequences, whatever is in them *)

IsSeq(s) == s \in Seq(Range(s))

LEMMA SeqIsSeq ==
    ASSUME NEW T, NEW s \in Seq(T)
    PROVE  IsSeq(s)
<1>1. Len(s) \in Nat /\ DOMAIN s = 1 .. Len(s) /\ s \in [1 .. Len(s) -> Range(s)]
  BY LenProperties DEF Range
<1> QED BY <1>1, SeqDef DEF IsSeq

LEMMA SeqProperties ==
    ASSUME NEW s, IsSeq(s)
    PROVE  /\ Len(s) \in Nat /\ DOMAIN s = 1 .. Len(s)
           /\ s = <<>> <=> Len(s) = 0
BY LenProperties, EmptySeq DEF IsSeq

LEMMA Single ==
    ASSUME NEW x
    PROVE  IsSeq(<<x>>) /\ Len(<<x>>) = 1 /\ <<x>>[1] = x
<1>1. <<x>> \in Seq({x}) /\ Len(<<x>>) = 1 /\ <<x>>[1] = x
  OBVIOUS
<1> QED BY <1>1, SeqIsSeq

LEMMA Pair ==
    ASSUME NEW x, NEW y
    PROVE  IsSeq(<<x, y>>) /\ Len(<<x, y>>) = 2 /\ <<x, y>>[1] = x /\ <<x, y>>[2] = y
<1>1. /\ <<x, y>> \in Seq({x, y})
      /\ Len(<<x, y>>) = 2 /\ <<x, y>>[1] = x /\ <<x, y>>[2] = y
  OBVIOUS
<1> QED BY <1>1, SeqIsSeq

LEMMA Triple ==
    ASSUME NEW x, NEW y, NEW z
    PROVE  /\ IsSeq(<<x, y, z>>) /\ Len(<<x, y, z>>) = 3
           /\ IsSeq(SubSeq(<<x, y, z>>, 1, 2)) /\ Len(SubSeq(<<x, y, z>>, 1, 2)) = 2
<1>1. <<x, y, z>> \in Seq({x, y, z}) /\ Len(<<x, y, z>>) = 3
  OBVIOUS
<1>2. \A i \in 1 .. 2 : <<x, y, z>>[i] \in {x, y, z}
  BY <1>1
<1>3. SubSeq(<<x, y, z>>, 1, 2) \in Seq({x, y, z}) /\ Len(SubSeq(<<x, y, z>>, 1, 2)) = 2
  BY <1>2, SubSeqProperties
<1> QED BY <1>1, <1>3, SeqIsSeq

LEMMA Prefix ==
    ASSUME NEW s, IsSeq(s), NEW n \in Nat, n <= Len(s)
    PROVE  LET t == SubSeq(s, 1, Len(s) - n)
           IN  /\ IsSeq(t) /\ Len(t) = Len(s) - n
               /\ \A i \in 1 .. Len(s) - n : t[i] = s[i]
<1> DEFINE k == Len(s) - n
<1>1. Len(s) \in Nat /\ DOMAIN s = 1 .. Len(s) /\ k \in Nat /\ k <= Len(s)
  BY SeqProperties
<1> HIDE DEF k
<1>2. \A i \in 1 .. k : s[i] \in Range(s)
  BY <1>1 DEF Range
<1>3. /\ SubSeq(s, 1, k) \in Seq(Range(s))
      /\ Len(SubSeq(s, 1, k)) = IF 1 <= k THEN k - 1 + 1 ELSE 0
      /\ \A i \in 1 .. k - 1 + 1 : SubSeq(s, 1, k)[i] = s[1 + i - 1]
  BY <1>1, <1>2, SubSeqProperties
<1>4. (IF 1 <= k THEN k - 1 + 1 ELSE 0) = k /\ k - 1 + 1 = k /\ \A i \in 1 .. k : 1 + i - 1 = i
  BY <1>1
<1>5. /\ IsSeq(SubSeq(s, 1, k)) /\ Len(SubSeq(s, 1, k)) = k
      /\ \A i \in 1 .. k : SubSeq(s, 1, k)[i] = s[i]
  BY <1>3, <1>4, SeqIsSeq
<1> QED BY <1>5 DEF k

LEMMA Concatenation ==
    ASSUME NEW s, NEW t, IsSeq(s), IsSeq(t)
    PROVE  /\ IsSeq(s \o t) /\ Len(s \o t) = Len(s) + Len(t)
           /\ \A i \in 1 .. Len(s) + Len(t) :
                 (s \o t)[i] = IF i <= Len(s) THEN s[i] ELSE t[i - Len(s)]
<1> DEFINE T == Range(s) \cup Range(t)
<1>1. s \in Seq(T) /\ t \in Seq(T)
  <2>1. Range(s) \subseteq T /\ Range(t) \subseteq T
    OBVIOUS
  <2> HIDE DEF T
  <2> QED BY <2>1, SeqMonotonic DEF IsSeq
<1> HIDE DEF T
<1>2. /\ s \o t \in Seq(T) /\ Len(s \o t) = Len(s) + Len(t)
      /\ \A i \in 1 .. Len(s) + Len(t) :
            (s \o t)[i] = IF i <= Len(s) THEN s[i] ELSE t[i - Len(s)]
  BY <1>1, ConcatProperties
<1> QED BY <1>2, SeqIsSeq

LEMMA AddOne ==
    ASSUME NEW s, IsSeq(s), NEW x
    PROVE  /\ IsSeq(s \o <<x>>) /\ Len(s \o <<x>>) = Len(s) + 1
           /\ \A i \in 1 .. Len(s) : (s \o <<x>>)[i] = s[i]
           /\ (s \o <<x>>)[Len(s) + 1] = x
<1>1. PICK one : one = <<x>>
  OBVIOUS
<1>2. IsSeq(one) /\ Len(one) = 1 /\ one[1] = x /\ Len(s) \in Nat
  BY <1>1, Single, SeqProperties
<1>3. /\ IsSeq(s \o one) /\ Len(s \o one) = Len(s) + Len(one)
      /\ \A i \in 1 .. Len(s) + Len(one) :
            (s \o one)[i] = IF i <= Len(s) THEN s[i] ELSE one[i - Len(s)]
  BY <1>2, Concatenation
<1>4. (s \o one)[Len(s) + 1] = x
  <2>1. Len(s) + 1 \in 1 .. Len(s) + Len(one) /\ ~(Len(s) + 1 <= Len(s)) /\ Len(s) + 1 - Len(s) = 1
    BY <1>2
  <2> QED BY <1>2, <1>3, <2>1
<1>5. \A i \in 1 .. Len(s) : (s \o one)[i] = s[i]
  BY <1>2, <1>3
<1> QED BY <1>1, <1>2, <1>3, <1>4, <1>5

LEMMA AddTwo ==
    ASSUME NEW s, IsSeq(s), NEW x, NEW y
    PROVE  /\ IsSeq(s \o <<x, y>>) /\ Len(s \o <<x, y>>) = Len(s) + 2
           /\ \A i \in 1 .. Len(s) : (s \o <<x, y>>)[i] = s[i]
           /\ (s \o <<x, y>>)[Len(s) + 1] = x
           /\ (s \o <<x, y>>)[Len(s) + 2] = y
<1>1. PICK two : two = <<x, y>>
  OBVIOUS
<1>2. IsSeq(two) /\ Len(two) = 2 /\ two[1] = x /\ two[2] = y /\ Len(s) \in Nat
  BY <1>1, Pair, SeqProperties
<1>3. /\ IsSeq(s \o two) /\ Len(s \o two) = Len(s) + Len(two)
      /\ \A i \in 1 .. Len(s) + Len(two) :
            (s \o two)[i] = IF i <= Len(s) THEN s[i] ELSE two[i - Len(s)]
  BY <1>2, Concatenation
<1>4. (s \o two)[Len(s) + 1] = x /\ (s \o two)[Len(s) + 2] = y
  <2>1. /\ Len(s) + 1 \in 1 .. Len(s) + Len(two) /\ ~(Len(s) + 1 <= Len(s))
        /\ Len(s) + 1 - Len(s) = 1
        /\ Len(s) + 2 \in 1 .. Len(s) + Len(two) /\ ~(Len(s) + 2 <= Len(s))
        /\ Len(s) + 2 - Len(s) = 2
    BY <1>2
  <2> QED BY <1>2, <1>3, <2>1
<1>5. \A i \in 1 .. Len(s) : (s \o two)[i] = s[i]
  BY <1>2, <1>3
<1> QED BY <1>1, <1>2, <1>3, <1>4, <1>5

-----------------------------------------------------------------------------
(* The operand stack *)

\* The stack is higher by n, or lower if n is negative, and the variable is still at its bottom.
Higher(n) ==
    /\ IsSeq(operands') /\ Len(operands') = Len(operands) + n
    /\ operands'[1] = operands[1]

LEMMA PopLowers ==
    ASSUME IsSeq(operands), NEW n \in Nat, n < Len(operands), operands' = Pop(operands, n)
    PROVE  Higher(0 - n)
<1>1. Len(operands) \in Nat /\ Len(operands) - n \in Nat /\ 1 <= Len(operands) - n
  BY SeqProperties
<1>2. /\ IsSeq(operands') /\ Len(operands') = Len(operands) - n
      /\ \A i \in 1 .. Len(operands) - n : operands'[i] = operands[i]
  BY <1>1, Prefix DEF Pop
<1>3. 1 \in 1 .. Len(operands) - n /\ Len(operands) - n = Len(operands) + (0 - n)
  BY <1>1
<1> QED BY <1>2, <1>3 DEF Higher

LEMMA PushRaises ==
    ASSUME IsSeq(operands), NEW n \in Nat, n < Len(operands), NEW pushed, IsSeq(pushed),
           operands' = Pop(operands, n) \o pushed
    PROVE  Higher(Len(pushed) - n)
<1> DEFINE low == Pop(operands, n)
<1>1. /\ Len(operands) \in Nat /\ Len(operands) - n \in Nat /\ 1 <= Len(operands) - n
      /\ Len(pushed) \in Nat
  BY SeqProperties
<1>2. /\ IsSeq(low) /\ Len(low) = Len(operands) - n
      /\ \A i \in 1 .. Len(operands) - n : low[i] = operands[i]
  BY <1>1, Prefix DEF Pop
<1> HIDE DEF low
<1>3. /\ IsSeq(low \o pushed) /\ Len(low \o pushed) = Len(low) + Len(pushed)
      /\ \A i \in 1 .. Len(low) + Len(pushed) :
            (low \o pushed)[i] = IF i <= Len(low) THEN low[i] ELSE pushed[i - Len(low)]
  BY <1>2, Concatenation
<1>4. /\ 1 \in 1 .. Len(operands) - n /\ 1 \in 1 .. Len(low) + Len(pushed) /\ 1 <= Len(low)
      /\ Len(operands) - n + Len(pushed) = Len(operands) + (Len(pushed) - n)
  BY <1>1, <1>2
<1>5. operands' = low \o pushed
  BY DEF low
<1> QED BY <1>2, <1>3, <1>4, <1>5 DEF Higher

\* One value is pushed on what is left after n pops.
LEMMA PushOneRaises ==
    ASSUME IsSeq(operands), NEW n \in Nat, n < Len(operands), NEW v,
           operands' = Push(Pop(operands, n), v)
    PROVE  Higher(1 - n)
<1> DEFINE low == Pop(operands, n)
<1>1. IsSeq(low)
  BY SeqProperties, Prefix DEF Pop
<1>2. Append(low, v) = low \o <<v>>
  <2> DEFINE T == Range(low) \cup {v}
  <2>1. Range(low) \subseteq T /\ v \in T
    OBVIOUS
  <2> HIDE DEF low, T
  <2>2. low \in Seq(T)
    BY <1>1, <2>1, SeqMonotonic DEF IsSeq
  <2> QED BY <2>1, <2>2, AppendIsConcat
<1>3. IsSeq(<<v>>) /\ Len(<<v>>) = 1
  BY Single
<1>4. operands' = low \o <<v>>
  BY <1>2 DEF Push
<1> QED BY <1>3, <1>4, PushRaises

LEMMA PopNone ==
    ASSUME IsSeq(operands)
    PROVE  Pop(operands, 0) = operands
<1>1. Len(operands) \in Nat /\ Len(operands) - 0 = Len(operands)
  BY SeqProperties
<1> QED BY <1>1, SubSeqFull DEF Pop, IsSeq

LEMMA PushOnAll ==
    ASSUME IsSeq(operands), 0 < Len(operands), NEW v, operands' = Push(operands, v)
    PROVE  Higher(1)
<1>1. operands' = Push(Pop(operands, 0), v) /\ 1 - 0 = 1
  BY PopNone
<1> QED BY <1>1, PushOneRaises

LEMMA StackStays ==
    ASSUME IsSeq(operands), operands' = operands
    PROVE  Higher(0)
BY SeqProperties DEF Higher

-----------------------------------------------------------------------------
(* The inductive invariant *)

\* What a call in progress has on the stack above what was there when it began.
Owes(call) ==
    CASE call.fn = "CreateChildVariable" -> IF call.at = "named" THEN 1 ELSE 0
      [] call.fn = "ToString" ->
            (CASE call.at = "value" -> 3
               [] call.at \in {"keyRendered", "field"} -> 2
               [] call.at \in {"keys", "slots"} -> 1
               [] OTHER -> 0)
      [] call.fn = "ToClassFullName" ->
            IF call.at \in {"rootSearched", "localSearched"} THEN 1 ELSE 0
      [] OTHER ->
            (CASE call.at = "descended" -> 3
               [] call.at = "next" -> 1
               [] OTHER -> 0)

\* What CreateTableSummary pops after a field depends on whether it counts the slots of a
\* table, which it does if and only if it has not sorted them.
Sorting(call) ==
    call.fn = "ToString" /\ call.at \in {"begin", "summary", "keys", "keyRendered", "sorted"}
        => call.count = 0

IsCall(call) ==
    /\ call = [fn |-> call.fn, at |-> call.at, prefix |-> call.prefix, iters |-> call.iters,
                width |-> call.width, value |-> call.value, count |-> call.count]
    /\ call.count \in Nat
    /\ Sorting(call)

\* CreateChildVariable is called once, and calls the others.
CallsInv ==
    /\ IsSeq(calls) /\ Len(calls) > 0
    /\ \A i \in 1 .. Len(calls) :
          IsCall(calls[i]) /\ (calls[i].fn = "CreateChildVariable" <=> i = 1)

\* base[i] is how high the stack was when the call began: each call has begun where its caller
\* had come to, and the stack is as high as the last one has made it.
Balances(base) ==
    /\ base \in [1 .. Len(calls) -> Nat \ {0}]
    /\ base[1] = 1
    /\ \A i \in 1 .. Len(calls) - 1 : base[i + 1] = base[i] + Owes(calls[i])
    /\ Len(operands) = base[Len(calls)] + Owes(Current)

StackInv ==
    /\ IsSeq(operands)
    /\ mode = "running" => CallsInv /\ \E base : Balances(base)
    /\ PopsWhatItPushes

LEMMA OwesType ==
    ASSUME NEW call
    PROVE  Owes(call) \in 0 .. 3
<1>1. CASE call.fn = "CreateChildVariable"
  BY <1>1 DEF Owes
<1>2. CASE call.fn = "ToString"
  BY <1>2 DEF Owes
<1>3. CASE call.fn = "ToClassFullName"
  BY <1>3 DEF Owes
<1>4. CASE call.fn \notin {"CreateChildVariable", "ToString", "ToClassFullName"}
  BY <1>4 DEF Owes
<1> QED BY <1>1, <1>2, <1>3, <1>4

\* A new call owes nothing.
LEMMA NewCall ==
    ASSUME NEW fn \in {"CreateChildVariable", "ToString", "ToClassFullName",
                       "getClassesFullNameHelper"}
    PROVE  IsCall(CallOf(fn)) /\ CallOf(fn).fn = fn /\ Owes(CallOf(fn)) = 0
BY DEF CallOf, IsCall, Sorting, Owes

LEMMA StackInit == RenderingInit => StackInv
<1> SUFFICES ASSUME RenderingInit PROVE StackInv
  OBVIOUS
<1>1. /\ IsSeq(operands) /\ Len(operands) = 1
      /\ IsSeq(calls) /\ Len(calls) = 1 /\ calls[1] = CallOf("CreateChildVariable")
  BY Single DEF RenderingInit
<1>2. CallsInv
  BY <1>1, NewCall DEF CallsInv
<1>3. Balances([i \in 1 .. 1 |-> 1])
  BY <1>1, NewCall DEF Balances, Current, Last
<1> QED BY <1>1, <1>2, <1>3 DEF StackInv, PopsWhatItPushes

\* While a function runs there is enough on the stack for it to pop.
LEMMA CurrentCall ==
    ASSUME StackInv, mode = "running"
    PROVE  /\ IsCall(Current) /\ Len(calls) \in Nat
           /\ Current.fn = "CreateChildVariable" <=> Len(calls) = 1
           /\ Owes(Current) \in 0 .. 3 /\ Len(operands) \in Nat
           /\ Owes(Current) < Len(operands)
           /\ Current.fn = "CreateChildVariable" => Len(operands) = 1 + Owes(Current)
<1>1. CallsInv /\ Len(calls) \in Nat /\ Len(calls) \in 1 .. Len(calls)
  BY SeqProperties DEF StackInv, CallsInv
<1>2. PICK base : Balances(base)
  BY DEF StackInv
<1>3. IsCall(Current) /\ (Current.fn = "CreateChildVariable" <=> Len(calls) = 1)
  BY <1>1 DEF CallsInv, Current, Last
<1>4. Owes(Current) \in 0 .. 3 /\ base[Len(calls)] \in Nat \ {0} /\ Len(operands) \in Nat
  BY <1>1, <1>2, OwesType, SeqProperties DEF Balances, StackInv
<1>5. Len(operands) = base[Len(calls)] + Owes(Current) /\ base[1] = 1
  BY <1>2 DEF Balances
<1>6. Owes(Current) < Len(operands)
  BY <1>4, <1>5
<1>7. ASSUME Len(calls) = 1 PROVE Len(operands) = 1 + Owes(Current)
  BY <1>5, <1>7
<1> QED BY <1>1, <1>3, <1>4, <1>6, <1>7

-----------------------------------------------------------------------------
(* What a step does with the calls *)

\* The invariant holds after the step, and the variable has not been popped.
StackKept == StackInv' /\ operands'[1] = operands[1]

LEMMA CallsBelow ==
    ASSUME StackInv, mode = "running"
    PROVE  /\ IsSeq(Front(calls)) /\ Len(Front(calls)) = Len(calls) - 1
           /\ \A i \in 1 .. Len(calls) - 1 : Front(calls)[i] = calls[i]
<1>1. IsSeq(calls) /\ 1 <= Len(calls) /\ 1 \in Nat
  BY SeqProperties DEF StackInv, CallsInv
<1> QED BY <1>1, Prefix DEF Front

\* The current call goes on to another place.
LEMMA GoesOn ==
    ASSUME StackInv, mode = "running", NEW call, IsCall(call), call.fn = Current.fn,
           GoOn(call), Higher(Owes(call) - Owes(Current))
    PROVE  StackKept
<1> SUFFICES StackInv'
  BY DEF StackKept, Higher
<1> DEFINE n == Len(calls)
<1>1. /\ n \in Nat \ {0} /\ IsCall(Current) /\ (Current.fn = "CreateChildVariable" <=> n = 1)
      /\ Owes(Current) \in 0 .. 3 /\ Owes(call) \in 0 .. 3 /\ Len(operands) \in Nat
      /\ CallsInv
  BY CurrentCall, OwesType, SeqProperties DEF StackInv, CallsInv
<1>2. /\ IsSeq(calls') /\ Len(calls') = n /\ calls'[n] = call
      /\ \A i \in 1 .. n - 1 : calls'[i] = calls[i]
  <2>1. IsSeq(Front(calls)) /\ Len(Front(calls)) = n - 1 /\ calls' = Front(calls) \o <<call>>
    BY CallsBelow DEF GoOn
  <2>2. n - 1 + 1 = n
    BY <1>1
  <2>3. /\ IsSeq(calls') /\ Len(calls') = n /\ calls'[n] = call
        /\ \A i \in 1 .. n - 1 : calls'[i] = Front(calls)[i]
    <3>1. /\ IsSeq(calls') /\ Len(calls') = Len(Front(calls)) + 1
          /\ \A i \in 1 .. Len(Front(calls)) : calls'[i] = Front(calls)[i]
          /\ calls'[Len(Front(calls)) + 1] = call
      BY <2>1, AddOne
    <3> QED BY <2>1, <2>2, <3>1
  <2> QED BY <2>3, CallsBelow
<1>3. /\ mode' = "running" /\ IsSeq(operands')
      /\ Len(operands') = Len(operands) + (Owes(call) - Owes(Current))
  BY DEF GoOn, Higher
<1> HIDE DEF n
<1>4. CallsInv'
  <2>1. \A i \in 1 .. n : i \in 1 .. n - 1 \/ i = n
    BY <1>1
  <2> QED BY <1>1, <1>2, <2>1 DEF CallsInv, n
<1>5. PICK base : Balances(base)
  BY DEF StackInv
<1>6. Balances(base)'
  <2>1. base \in [1 .. n -> Nat \ {0}] /\ base[1] = 1 /\ base[n] \in Nat
    BY <1>1, <1>5 DEF Balances, n
  <2>2. ASSUME NEW i \in 1 .. n - 1 PROVE base[i + 1] = base[i] + Owes(calls'[i])
    BY <1>2, <1>5, <2>2 DEF Balances, n
  <2>3. Len(operands) = base[n] + Owes(Current)
    BY <1>5 DEF Balances, n
  <2>4. Len(operands') = base[n] + Owes(call)
    BY <1>1, <1>3, <2>1, <2>3
  <2>5. Current' = call
    BY <1>2 DEF Current, Last
  <2> QED BY <1>2, <2>1, <2>2, <2>4, <2>5 DEF Balances
<1> QED BY <1>3, <1>4, <1>6 DEF StackInv, PopsWhatItPushes

\* The current call goes on to a place where it waits for another one.
LEMMA CallsOn ==
    ASSUME StackInv, mode = "running", NEW call, IsCall(call), call.fn = Current.fn,
           NEW callee, IsCall(callee), Owes(callee) = 0, callee.fn # "CreateChildVariable",
           CallFrom(call, callee), Higher(Owes(call) - Owes(Current))
    PROVE  StackKept
<1> SUFFICES StackInv'
  BY DEF StackKept, Higher
<1>1. CASE Len(calls) >= MaxCalls
  <2>1. mode' = "overflow" /\ IsSeq(operands')
    BY <1>1, SeqProperties, RenderingAssumption DEF CallFrom, Higher, StackInv, CallsInv
  <2> QED BY <2>1 DEF StackInv, PopsWhatItPushes
<1>2. CASE Len(calls) < MaxCalls
  <2> DEFINE n == Len(calls)
  <2>1. /\ n \in Nat \ {0} /\ IsCall(Current) /\ (Current.fn = "CreateChildVariable" <=> n = 1)
        /\ Owes(Current) \in 0 .. 3 /\ Owes(call) \in 0 .. 3 /\ Len(operands) \in Nat
        /\ CallsInv
    BY CurrentCall, OwesType, SeqProperties DEF StackInv, CallsInv
  <2>2. /\ IsSeq(calls') /\ Len(calls') = n + 1 /\ calls'[n] = call /\ calls'[n + 1] = callee
        /\ \A i \in 1 .. n - 1 : calls'[i] = calls[i]
    <3>1. /\ IsSeq(Front(calls)) /\ Len(Front(calls)) = n - 1
          /\ calls' = Front(calls) \o <<call, callee>>
      BY <1>2, CallsBelow DEF CallFrom
    <3>2. n - 1 + 1 = n /\ n - 1 + 2 = n + 1
      BY <2>1
    <3>3. /\ IsSeq(calls') /\ Len(calls') = Len(Front(calls)) + 2
          /\ \A i \in 1 .. Len(Front(calls)) : calls'[i] = Front(calls)[i]
          /\ calls'[Len(Front(calls)) + 1] = call /\ calls'[Len(Front(calls)) + 2] = callee
      BY <3>1, AddTwo
    <3> QED BY <3>1, <3>2, <3>3, CallsBelow
  <2>3. /\ mode' = "running" /\ IsSeq(operands')
        /\ Len(operands') = Len(operands) + (Owes(call) - Owes(Current))
    BY <1>2 DEF CallFrom, Higher
  <2> HIDE DEF n
  <2>4. CallsInv'
    <3>1. \A i \in 1 .. n + 1 : i \in 1 .. n - 1 \/ i = n \/ i = n + 1
      BY <2>1
    <3>2. n + 1 > 0 /\ n + 1 # 1 /\ \A i \in 1 .. n - 1 : i \in 1 .. n
      BY <2>1
    <3> QED BY <2>1, <2>2, <3>1, <3>2 DEF CallsInv, n
  <2>5. PICK base : Balances(base)
    BY DEF StackInv
  <2>. PICK higher : higher = [i \in 1 .. n + 1 |->
                                 IF i = n + 1 THEN base[n] + Owes(call) ELSE base[i]]
    OBVIOUS
  <2>6. Balances(higher)'
    <3>1. base \in [1 .. n -> Nat \ {0}] /\ base[1] = 1 /\ base[n] \in Nat \ {0}
      BY <2>1, <2>5 DEF Balances, n
    <3>2. higher \in [1 .. n + 1 -> Nat \ {0}]
      BY <2>1, <3>1
    <3>3. higher[1] = 1
      BY <2>1, <3>1
    <3>4. ASSUME NEW i \in 1 .. n PROVE higher[i + 1] = higher[i] + Owes(calls'[i])
      <4>1. CASE i = n
        BY <2>1, <2>2, <4>1
      <4>2. CASE i # n
        <5>1. /\ i \in 1 .. n - 1 /\ i + 1 \in 1 .. n /\ i + 1 \in 1 .. n + 1 /\ i + 1 # n + 1
              /\ i \in 1 .. n + 1 /\ i # n + 1
          BY <2>1, <4>2
        <5>2. base[i + 1] = base[i] + Owes(calls[i])
          BY <2>5, <5>1 DEF Balances, n
        <5> QED BY <2>2, <5>1, <5>2
      <4> QED BY <4>1, <4>2
    <3>5. Len(operands') = higher[n + 1] + Owes(callee)
      <4>1. Len(operands) = base[n] + Owes(Current)
        BY <2>5 DEF Balances, n
      <4>2. n + 1 \in 1 .. n + 1
        BY <2>1
      <4> QED BY <2>1, <2>3, <3>1, <4>1, <4>2
    <3>6. Current' = callee
      BY <2>2 DEF Current, Last
    <3>7. \A i \in 1 .. Len(calls') - 1 : higher[i + 1] = higher[i] + Owes(calls'[i])
      <4>1. Len(calls') - 1 = n
        BY <2>1, <2>2
      <4> QED BY <3>4, <4>1
    <3> QED BY <2>2, <3>2, <3>3, <3>5, <3>6, <3>7 DEF Balances
  <2> QED BY <2>3, <2>4, <2>6 DEF StackInv, PopsWhatItPushes
<1> QED BY <1>1, <1>2, SeqProperties, RenderingAssumption DEF StackInv, CallsInv

\* The current call returns; its caller finds the stack as it had left it.
LEMMA ReturnsToCaller ==
    ASSUME StackInv, mode = "running", Current.fn # "CreateChildVariable", NEW v, Returns(v),
           Higher(0 - Owes(Current))
    PROVE  StackKept
<1> SUFFICES StackInv'
  BY DEF StackKept, Higher
<1> DEFINE n == Len(calls)
           m == n - 1
<1>1. /\ n \in Nat \ {0} /\ n # 1 /\ Owes(Current) \in 0 .. 3 /\ Len(operands) \in Nat
      /\ CallsInv
  BY CurrentCall, SeqProperties DEF StackInv, CallsInv
<1>2. IsSeq(calls') /\ Len(calls') = m /\ \A i \in 1 .. m : calls'[i] = calls[i]
  BY CallsBelow DEF Returns
<1>3. mode' = "running" /\ IsSeq(operands') /\ Len(operands') = Len(operands) + (0 - Owes(Current))
  BY DEF Returns, Higher
<1> HIDE DEF n
<1>4. /\ m \in Nat \ {0} /\ m + 1 = n /\ \A i \in 1 .. m : i \in 1 .. n
      /\ m \in 1 .. m /\ m \in 1 .. n /\ 1 \in 1 .. m
      /\ \A i \in 1 .. m - 1 : i \in 1 .. m /\ i + 1 \in 1 .. m
  BY <1>1
<1> HIDE DEF m
<1>5. CallsInv'
  BY <1>1, <1>2, <1>4 DEF CallsInv, n
<1>6. PICK base : Balances(base)
  BY DEF StackInv
<1>. PICK lower : lower = [i \in 1 .. m |-> base[i]]
  OBVIOUS
<1>7. Balances(lower)'
  <2>1. /\ base \in [1 .. n -> Nat \ {0}] /\ base[1] = 1
        /\ \A i \in 1 .. m : base[i + 1] = base[i] + Owes(calls[i])
        /\ Len(operands) = base[n] + Owes(Current)
    BY <1>6 DEF Balances, n, m
  <2>2. lower \in [1 .. m -> Nat \ {0}] /\ lower[1] = 1
    BY <1>4, <2>1
  <2>3. \A i \in 1 .. m - 1 : lower[i + 1] = lower[i] + Owes(calls'[i])
    BY <1>2, <1>4, <2>1
  <2>4. Len(operands') = lower[m] + Owes(calls'[m])
    <3>1. base[n] = base[m] + Owes(calls[m]) /\ base[n] \in Nat
      BY <1>1, <1>4, <2>1
    <3>2. Len(operands') = base[n]
      BY <1>1, <1>3, <2>1, <3>1
    <3> QED BY <1>2, <1>4, <3>1, <3>2
  <2>5. Current' = calls'[m]
    BY <1>2 DEF Current, Last
  <2> QED BY <1>2, <2>2, <2>3, <2>4, <2>5 DEF Balances
<1> QED BY <1>3, <1>5, <1>7 DEF StackInv, PopsWhatItPushes

\* No call goes anywhere.
LEMMA CallsStay ==
    ASSUME StackInv, mode = "running", UNCHANGED <<calls, mode>>, Higher(0)
    PROVE  StackKept
<1> SUFFICES StackInv'
  BY DEF StackKept, Higher
<1>1. IsSeq(operands') /\ Len(operands') = Len(operands)
  BY SeqProperties DEF Higher, StackInv
<1>2. CallsInv'
  BY DEF StackInv, CallsInv
<1>3. PICK base : Balances(base)
  BY DEF StackInv
<1>4. Balances(base)'
  BY <1>1, <1>3 DEF Balances, Current
<1> QED BY <1>1, <1>2, <1>4 DEF StackInv, PopsWhatItPushes

\* Nothing is promised of the stack after an exception or a crash.
LEMMA DisplayFails ==
    ASSUME StackInv, mode' \in {"thrown", "crashed"}, operands' = operands
    PROVE  StackKept
BY DEF StackInv, PopsWhatItPushes, StackKept

-----------------------------------------------------------------------------
(* The functions *)

\* What a function finds that has come to this place.
LEMMA WhereIs ==
    ASSUME StackInv, NEW fn, NEW at, Where(fn, at)
    PROVE  /\ mode = "running" /\ IsSeq(operands) /\ Current.fn = fn /\ Current.at = at
           /\ IsCall(Current) /\ Len(operands) \in Nat
           /\ Owes(Current) \in 0 .. 3 /\ Owes(Current) < Len(operands)
BY CurrentCall DEF StackInv, Where

\* The current call at another place.
LEMMA Reaches ==
    ASSUME IsCall(Current), NEW at,
           Sorting([fn |-> Current.fn, at |-> at, count |-> Current.count])
    PROVE  /\ IsCall(Reached(at))
           /\ Reached(at).fn = Current.fn /\ Reached(at).at = at
           /\ Reached(at).count = Current.count
BY DEF IsCall, Sorting, Reached

\* CreateChildVariable pops the class that it has pushed.
LEMMA ChildVariableKeepsStack ==
    ASSUME StackInv, CreateChildVariableStep
    PROVE  StackKept
<1>1. CASE ShowValue
  <2> DEFINE call == Reached("shown")
  <2>1. /\ Where("CreateChildVariable", "begin") /\ CallFrom(call, CallOf("ToString"))
        /\ operands' = operands
    BY <1>1 DEF ShowValue
  <2>2. mode = "running" /\ IsCall(Current) /\ Owes(Current) = 0 /\ Higher(0)
    BY <2>1, WhereIs, StackStays DEF Owes
  <2>3. IsCall(call) /\ call.fn = Current.fn /\ Owes(call) = 0
    BY <2>1, <2>2, WhereIs, Reaches DEF Sorting, Owes
  <2> HIDE DEF call
  <2>4. Owes(call) - Owes(Current) = 0
    BY <2>2, <2>3
  <2> QED BY <2>1, <2>2, <2>3, <2>4, NewCall, CallsOn
<1>2. CASE ShowClass
  <2> DEFINE call == Reached("named")
  <2>1. /\ Where("CreateChildVariable", "shown") /\ CallFrom(call, CallOf("ToClassFullName"))
        /\ operands' = Push(operands, ClassOf[Top])
    BY <1>2 DEF ShowClass
  <2>2. /\ mode = "running" /\ IsSeq(operands) /\ Len(operands) \in Nat /\ 0 < Len(operands)
        /\ IsCall(Current) /\ Owes(Current) = 0
    BY <2>1, WhereIs DEF Owes
  <2>3. IsCall(call) /\ call.fn = Current.fn /\ Owes(call) = 1
    BY <2>1, <2>2, WhereIs, Reaches DEF Sorting, Owes
  <2> HIDE DEF call
  <2>4. Owes(call) - Owes(Current) = 1 /\ Higher(1)
    BY <2>1, <2>2, <2>3, PushOnAll
  <2> QED BY <2>1, <2>2, <2>3, <2>4, NewCall, CallsOn
<1>3. CASE ClassShown
  <2> DEFINE call == Reached("counting")
  <2>1. Where("CreateChildVariable", "named") /\ GoOn(call) /\ operands' = Pop(operands, 1)
    BY <1>3 DEF ClassShown
  <2>2. /\ mode = "running" /\ IsSeq(operands) /\ 1 < Len(operands)
        /\ IsCall(Current) /\ Owes(Current) = 1
    BY <2>1, WhereIs DEF Owes
  <2>3. IsCall(call) /\ call.fn = Current.fn /\ Owes(call) = 0
    BY <2>1, <2>2, WhereIs, Reaches DEF Sorting, Owes
  <2> HIDE DEF call
  <2>4. Owes(call) - Owes(Current) = 0 - 1 /\ Higher(0 - 1)
    BY <2>1, <2>2, <2>3, PopLowers
  <2> QED BY <2>1, <2>2, <2>3, <2>4, GoesOn
<1>4. CASE CountChildren
  <2>1. /\ \/ Where("CreateChildVariable", "counting") \/ Where("CreateChildVariable", "shown")
        /\ mode' = "returned" /\ operands' = operands
    BY <1>4 DEF CountChildren
  <2>2. mode = "running" /\ Current.fn = "CreateChildVariable" /\ Owes(Current) = 0
    BY <2>1, WhereIs DEF Owes
  <2>3. Len(operands) = 1
    BY <2>2, CurrentCall
  <2> QED BY <2>1, <2>3 DEF StackInv, PopsWhatItPushes, StackKept
<1> QED BY <1>1, <1>2, <1>3, <1>4 DEF CreateChildVariableStep

-----------------------------------------------------------------------------
(* ToString *)

LEMMA RendersValue ==
    ASSUME StackInv, RenderValue, UNCHANGED classNames
    PROVE  StackKept
<1>1. Where("ToString", "begin") /\ operands' = operands
  BY DEF RenderValue
<1>2. /\ mode = "running" /\ IsCall(Current) /\ Current.fn = "ToString" /\ Current.count = 0
      /\ Owes(Current) = 0 /\ Higher(0)
  BY <1>1, WhereIs, StackStays DEF Owes, IsCall, Sorting
<1>3. CASE Type(Top) = "class"
  <2> DEFINE call == Reached("named")
  <2>1. CallFrom(call, CallOf("ToClassFullName"))
    BY <1>3 DEF RenderValue
  <2>2. IsCall(call) /\ call.fn = Current.fn /\ Owes(call) = 0
    BY <1>2, Reaches DEF Sorting, Owes
  <2> HIDE DEF call
  <2>3. Owes(call) - Owes(Current) = 0
    BY <1>2, <2>2
  <2> QED BY <1>2, <2>1, <2>2, <2>3, NewCall, CallsOn
<1>4. CASE Type(Top) \in {"table", "instance"}
  <2> DEFINE call == Reached("summary")
  <2>1. GoOn(call)
    BY <1>4 DEF RenderValue
  <2>2. IsCall(call) /\ call.fn = Current.fn /\ Owes(call) = 0
    BY <1>2, Reaches DEF Sorting, Owes
  <2> HIDE DEF call
  <2>3. Owes(call) - Owes(Current) = 0
    BY <1>2, <2>2
  <2> QED BY <1>2, <2>1, <2>2, <2>3, GoesOn
<1>5. CASE Type(Top) \notin {"class", "table", "instance"}
  <2>1. Returns(WidthOf[Top])
    BY <1>5 DEF RenderValue
  <2>2. 0 - Owes(Current) = 0
    BY <1>2
  <2> QED BY <1>2, <2>1, <2>2, ReturnsToCaller
<1> QED BY <1>3, <1>4, <1>5

LEMMA StartsSummary ==
    ASSUME StackInv, StartSummary
    PROVE  StackKept
<1> DEFINE place == IF Sorts(Top) THEN "keys" ELSE "slots"
           call  == Reached(place)
<1>1. Where("ToString", "summary") /\ GoOn(call) /\ operands' = Push(operands, Integer(0))
  BY DEF StartSummary
<1>2. /\ mode = "running" /\ IsSeq(operands) /\ Len(operands) \in Nat /\ 0 < Len(operands)
      /\ IsCall(Current) /\ Owes(Current) = 0 /\ Current.count = 0
  BY <1>1, WhereIs DEF Owes, IsCall, Sorting
<1>3. place \in {"keys", "slots"}
  OBVIOUS
<1> HIDE DEF place
<1>4. IsCall(call) /\ call.fn = Current.fn /\ Owes(call) = 1
  <2>1. /\ Current.fn = "ToString"
        /\ Sorting([fn |-> Current.fn, at |-> place, count |-> Current.count])
    BY <1>1, <1>2, WhereIs DEF Sorting
  <2>2. IsCall(call) /\ call.fn = Current.fn /\ call.at = place
    BY <1>2, <2>1, Reaches
  <2> HIDE DEF call
  <2> QED BY <1>3, <2>1, <2>2 DEF Owes
<1> HIDE DEF call
<1>5. Owes(call) - Owes(Current) = 1 /\ Higher(1)
  BY <1>1, <1>2, <1>4, PushOnAll
<1> QED BY <1>1, <1>2, <1>4, <1>5, GoesOn

\* What has been pushed for a field is popped again, with the iterator if the keys are sorted.
LEMMA GoesBackToLoop ==
    ASSUME StackInv, NEW at \in {"value", "field"}, Where("ToString", at), NEW pops \in Nat,
           pops = Owes(Current) - 1, NEW width, BackToLoop(pops, width)
    PROVE  StackKept
<1> DEFINE place == IF Current.count = 0 THEN "sorted" ELSE "slots"
           more  == IF Current.count = 0 THEN 1 ELSE 0
           call  == [Reached(place) EXCEPT !.width = width]
<1>1. GoOn(call) /\ operands' = Pop(operands, pops + more)
  BY DEF BackToLoop
<1>2. /\ mode = "running" /\ IsSeq(operands) /\ Len(operands) \in Nat
      /\ Owes(Current) \in 0 .. 3 /\ Owes(Current) < Len(operands)
      /\ IsCall(Current) /\ Current.fn = "ToString"
  BY WhereIs
<1>3. /\ more \in 0 .. 1 /\ place \in {"sorted", "slots"}
      /\ place = "sorted" => more = 1 /\ Current.count = 0
      /\ place = "slots" => more = 0
  OBVIOUS
<1> HIDE DEF place, more
<1>4. IsCall(call) /\ call.fn = Current.fn /\ Owes(call) = 1 - more
  <2>1. IsCall(call) /\ call.fn = "ToString" /\ call.at = place
    <3>1. Sorting([fn |-> Current.fn, at |-> place, count |-> Current.count])
      BY <1>2, <1>3 DEF Sorting
    <3>2. /\ IsCall(Reached(place))
          /\ Reached(place).fn = "ToString" /\ Reached(place).at = place
          /\ Reached(place).count = Current.count
      BY <1>2, <3>1, Reaches
    <3> QED BY <1>2, <3>2 DEF IsCall, Sorting
  <2> HIDE DEF call
  <2>2. CASE place = "sorted"
    BY <1>2, <1>3, <2>1, <2>2 DEF Owes
  <2>3. CASE place = "slots"
    BY <1>2, <1>3, <2>1, <2>3 DEF Owes
  <2> QED BY <1>3, <2>2, <2>3
<1> HIDE DEF call
<1>5. Higher(0 - (pops + more))
  <2>1. pops + more \in Nat /\ pops + more < Len(operands)
    BY <1>2, <1>3
  <2> QED BY <1>1, <1>2, <2>1, PopLowers
<1>6. Owes(call) - Owes(Current) = 0 - (pops + more)
  BY <1>2, <1>3, <1>4
<1> QED BY <1>1, <1>2, <1>4, <1>5, <1>6, GoesOn

\* An entry of a table is three values on the stack, or two when only its key is wanted.
LEMMA EntryLength ==
    ASSUME NEW slots, NEW i
    PROVE  /\ IsSeq(Entry(slots, i)) /\ Len(Entry(slots, i)) = 3
           /\ IsSeq(SubSeq(Entry(slots, i), 1, 2)) /\ Len(SubSeq(Entry(slots, i), 1, 2)) = 2
BY Triple DEF Entry

\* Rendering a value leaves it on top, with nothing above it, however its summary ends.
LEMMA ToStringKeepsStack ==
    ASSUME StackInv, ToStringStep, UNCHANGED classNames
    PROVE  StackKept
<1>1. CASE RenderValue
  BY <1>1, RendersValue
<1>2. CASE ClassRendered
  <2>1. Where("ToString", "named") /\ Returns(2 * Len(result) - 1) /\ operands' = operands
    BY <1>2 DEF ClassRendered
  <2>2. mode = "running" /\ IsSeq(operands) /\ Owes(Current) = 0
    BY <2>1, WhereIs DEF Owes
  <2>3. Higher(0)
    BY <2>1, <2>2, StackStays
  <2>4. 0 - Owes(Current) = 0
    BY <2>2
  <2> QED BY <2>1, <2>2, <2>3, <2>4, WhereIs, ReturnsToCaller
<1>3. CASE StartSummary
  BY <1>3, StartsSummary
<1>4. CASE NextKey
  <2> DEFINE slots == Slots(held, At(operands, -2))
             pushed == SubSeq(Entry(slots, NextOfContainer), 1, 2)
  <2>1. PICK iters :
          /\ Where("ToString", "keys")
          /\ CallFrom([Reached("keyRendered") EXCEPT !.iters = iters], CallOf("ToString"))
          /\ operands' = Pop(operands, 1) \o pushed
    BY <1>4 DEF NextKey
  <2> DEFINE call == [Reached("keyRendered") EXCEPT !.iters = iters]
  <2>2. /\ mode = "running" /\ IsSeq(operands) /\ Len(operands) \in Nat /\ 1 < Len(operands)
        /\ IsCall(Current) /\ Owes(Current) = 1 /\ Current.count = 0
    BY <2>1, WhereIs DEF Owes, IsCall, Sorting
  <2>3. IsCall(call) /\ call.fn = Current.fn /\ Owes(call) = 2
    <3>1. /\ Current.fn = "ToString"
          /\ Sorting([fn |-> Current.fn, at |-> "keyRendered", count |-> Current.count])
      BY <2>1, <2>2, WhereIs DEF Sorting
    <3>2. /\ IsCall(Reached("keyRendered"))
          /\ Reached("keyRendered").fn = "ToString" /\ Reached("keyRendered").at = "keyRendered"
          /\ Reached("keyRendered").count = Current.count
      BY <2>2, <3>1, Reaches
    <3>3. IsCall(call) /\ call.fn = "ToString" /\ call.at = "keyRendered"
      BY <2>2, <3>2 DEF IsCall, Sorting
    <3> HIDE DEF call
    <3> QED BY <3>1, <3>3 DEF Owes
  <2>4. CallFrom(call, CallOf("ToString")) /\ IsSeq(pushed) /\ Len(pushed) = 2
    BY <2>1, EntryLength
  <2> HIDE DEF call, pushed
  <2>5. Owes(call) - Owes(Current) = Len(pushed) - 1 /\ Higher(Len(pushed) - 1)
    BY <2>1, <2>2, <2>3, <2>4, PushRaises
  <2> QED BY <2>1, <2>2, <2>3, <2>4, <2>5, NewCall, CallsOn
<1>5. CASE KeyRendered
  <2> DEFINE call == Reached("keys")
  <2>1. /\ Where("ToString", "keyRendered") /\ GoOn(call)
        /\ operands' = Pop(operands, 1)
    BY <1>5 DEF KeyRendered
  <2>2. /\ mode = "running" /\ IsSeq(operands) /\ Len(operands) \in Nat /\ 2 < Len(operands)
        /\ IsCall(Current) /\ Owes(Current) = 2 /\ Current.count = 0
    BY <2>1, WhereIs DEF Owes, IsCall, Sorting
  <2>3. IsCall(call) /\ call.fn = Current.fn /\ Owes(call) = 1
    BY <2>1, <2>2, WhereIs, Reaches DEF Sorting, Owes
  <2> HIDE DEF call
  <2>4. Owes(call) - Owes(Current) = 0 - 1 /\ Higher(0 - 1)
    BY <2>1, <2>2, <2>3, PopLowers
  <2> QED BY <2>1, <2>2, <2>3, <2>4, GoesOn
<1>6. CASE SortKeys
  <2> DEFINE call == Reached("sorted")
  <2>1. Where("ToString", "keys") /\ GoOn(call) /\ operands' = Pop(operands, 1)
    BY <1>6 DEF SortKeys
  <2>2. /\ mode = "running" /\ IsSeq(operands) /\ Len(operands) \in Nat /\ 1 < Len(operands)
        /\ IsCall(Current) /\ Owes(Current) = 1 /\ Current.count = 0
    BY <2>1, WhereIs DEF Owes, IsCall, Sorting
  <2>3. IsCall(call) /\ call.fn = Current.fn /\ Owes(call) = 0
    BY <2>1, <2>2, WhereIs, Reaches DEF Sorting, Owes
  <2> HIDE DEF call
  <2>4. Owes(call) - Owes(Current) = 0 - 1 /\ Higher(0 - 1)
    BY <2>1, <2>2, <2>3, PopLowers
  <2> QED BY <2>1, <2>2, <2>3, <2>4, GoesOn
<1>7. CASE NextSortedField
  <2> DEFINE slots == Slots(held, Top)
  <2>1. PICK iters, iter :
          /\ Where("ToString", "sorted")
          /\ CallFrom([Reached("value") EXCEPT !.iters = iters], CallOf("ToString"))
          /\ operands' = operands \o Entry(slots, NextSlot(slots, iter))
    BY <1>7 DEF NextSortedField
  <2> DEFINE pushed == Entry(slots, NextSlot(slots, iter))
  <2> DEFINE call == [Reached("value") EXCEPT !.iters = iters]
  <2>2. /\ mode = "running" /\ IsSeq(operands) /\ Len(operands) \in Nat /\ 0 < Len(operands)
        /\ IsCall(Current) /\ Owes(Current) = 0
    BY <2>1, WhereIs DEF Owes
  <2>3. IsCall(call) /\ call.fn = Current.fn /\ Owes(call) = 3
    <3>1. /\ Current.fn = "ToString"
          /\ Sorting([fn |-> Current.fn, at |-> "value", count |-> Current.count])
      BY <2>1, <2>2, WhereIs DEF Sorting
    <3>2. /\ IsCall(Reached("value"))
          /\ Reached("value").fn = "ToString" /\ Reached("value").at = "value"
          /\ Reached("value").count = Current.count
      BY <2>2, <3>1, Reaches
    <3>3. IsCall(call) /\ call.fn = "ToString" /\ call.at = "value"
      BY <2>2, <3>2 DEF IsCall, Sorting
    <3> HIDE DEF call
    <3> QED BY <3>1, <3>3 DEF Owes
  <2>4. CallFrom(call, CallOf("ToString")) /\ IsSeq(pushed) /\ Len(pushed) = 3
    BY <2>1, EntryLength
  <2>5. operands' = Pop(operands, 0) \o pushed
    BY <2>1, <2>2, PopNone
  <2> HIDE DEF call, pushed
  <2>6. Higher(Len(pushed) - 0)
    <3>1. 0 \in Nat
      OBVIOUS
    <3> QED BY <2>2, <2>4, <2>5, <3>1, PushRaises
  <2>7. Owes(call) - Owes(Current) = Len(pushed) - 0
    BY <2>2, <2>3, <2>4
  <2> QED BY <2>1, <2>2, <2>3, <2>4, <2>6, <2>7, NewCall, CallsOn
<1>8. CASE NextField
  <2> DEFINE slots == Slots(held, At(operands, -2))
             pushed == Entry(slots, NextOfContainer)
             call == [Reached("value") EXCEPT !.count = @ + 1]
  <2>1. /\ Where("ToString", "slots") /\ CallFrom(call, CallOf("ToString"))
        /\ operands' = Pop(operands, 1) \o pushed
    BY <1>8 DEF NextField
  <2>2. /\ mode = "running" /\ IsSeq(operands) /\ Len(operands) \in Nat /\ 1 < Len(operands)
        /\ IsCall(Current) /\ Owes(Current) = 1
    BY <2>1, WhereIs DEF Owes
  <2>3. IsCall(call) /\ call.fn = Current.fn /\ Owes(call) = 3
    <3>1. /\ Current.fn = "ToString"
          /\ Sorting([fn |-> Current.fn, at |-> "value", count |-> Current.count])
      BY <2>1, <2>2, WhereIs DEF Sorting
    <3>2. /\ IsCall(Reached("value"))
          /\ Reached("value").fn = "ToString" /\ Reached("value").at = "value"
          /\ Reached("value").count = Current.count
      BY <2>2, <3>1, Reaches
    <3>3. IsCall(call) /\ call.fn = "ToString" /\ call.at = "value"
      BY <2>2, <3>2 DEF IsCall, Sorting
    <3> HIDE DEF call
    <3> QED BY <3>1, <3>3 DEF Owes
  <2>4. CallFrom(call, CallOf("ToString")) /\ IsSeq(pushed) /\ Len(pushed) = 3
    BY <2>1, EntryLength
  <2> HIDE DEF call, pushed
  <2>5. Owes(call) - Owes(Current) = Len(pushed) - 1 /\ Higher(Len(pushed) - 1)
    BY <2>1, <2>2, <2>3, <2>4, PushRaises
  <2> QED BY <2>1, <2>2, <2>3, <2>4, <2>5, NewCall, CallsOn
<1>9. CASE LeaveOutField
  <2>1. Where("ToString", "value") /\ BackToLoop(2, Current.width)
    BY <1>9 DEF LeaveOutField
  <2>2. 2 \in Nat /\ 2 = Owes(Current) - 1
    BY <2>1, WhereIs DEF Owes
  <2> QED BY <2>1, <2>2, GoesBackToLoop
<1>10. CASE ValueRendered
  <2> DEFINE call == [Reached("field") EXCEPT !.value = result]
  <2>1. /\ Where("ToString", "value") /\ CallFrom(call, CallOf("ToString"))
        /\ operands' = Pop(operands, 1)
    BY <1>10 DEF ValueRendered
  <2>2. /\ mode = "running" /\ IsSeq(operands) /\ Len(operands) \in Nat /\ 3 < Len(operands)
        /\ IsCall(Current) /\ Owes(Current) = 3
    BY <2>1, WhereIs DEF Owes
  <2>3. IsCall(call) /\ call.fn = Current.fn /\ Owes(call) = 2
    <3>1. /\ Current.fn = "ToString"
          /\ Sorting([fn |-> Current.fn, at |-> "field", count |-> Current.count])
      BY <2>1, <2>2, WhereIs DEF Sorting
    <3>2. /\ IsCall(Reached("field"))
          /\ Reached("field").fn = "ToString" /\ Reached("field").at = "field"
          /\ Reached("field").count = Current.count
      BY <2>2, <3>1, Reaches
    <3>3. IsCall(call) /\ call.fn = "ToString" /\ call.at = "field"
      BY <2>2, <3>2 DEF IsCall, Sorting
    <3> HIDE DEF call
    <3> QED BY <3>1, <3>3 DEF Owes
  <2> HIDE DEF call
  <2>4. Owes(call) - Owes(Current) = 0 - 1 /\ Higher(0 - 1)
    BY <2>1, <2>2, <2>3, PopLowers
  <2> QED BY <2>1, <2>2, <2>3, <2>4, NewCall, CallsOn
<1>11. CASE FieldRendered
  <2>1. PICK width : Where("ToString", "field") /\ BackToLoop(1, width)
    BY <1>11 DEF FieldRendered
  <2>2. 1 \in Nat /\ 1 = Owes(Current) - 1
    BY <2>1, WhereIs DEF Owes
  <2> QED BY <2>1, <2>2, GoesBackToLoop
<1>12. CASE EndSortedSummary
  <2>1. Where("ToString", "sorted") /\ Returns(Current.width + 2) /\ operands' = operands
    BY <1>12 DEF EndSortedSummary
  <2>2. mode = "running" /\ IsSeq(operands) /\ Owes(Current) = 0
    BY <2>1, WhereIs DEF Owes
  <2>3. Higher(0)
    BY <2>1, <2>2, StackStays
  <2>4. 0 - Owes(Current) = 0
    BY <2>2
  <2> QED BY <2>1, <2>2, <2>3, <2>4, WhereIs, ReturnsToCaller
<1>13. CASE EndSummary
  <2>1. Where("ToString", "slots") /\ Returns(Current.width + 2) /\ operands' = Pop(operands, 1)
    BY <1>13 DEF EndSummary
  <2>2. mode = "running" /\ IsSeq(operands) /\ Owes(Current) = 1 /\ 1 < Len(operands)
    BY <2>1, WhereIs DEF Owes
  <2>3. 0 - Owes(Current) = 0 - 1 /\ Higher(0 - 1)
    BY <2>1, <2>2, PopLowers
  <2> QED BY <2>1, <2>2, <2>3, WhereIs, ReturnsToCaller
<1> QED
  BY <1>1, <1>2, <1>3, <1>4, <1>5, <1>6, <1>7, <1>8, <1>9, <1>10, <1>11, <1>12, <1>13
  DEF ToStringStep

-----------------------------------------------------------------------------
(* ToClassFullName *)

\* The root table is popped whether the class has been found in it or not.
LEMMA RootIsSearched ==
    ASSUME StackInv, RootSearched
    PROVE  StackKept
<1>1. Where("ToClassFullName", "rootSearched") /\ operands' = Pop(operands, 1)
  BY DEF RootSearched
<1>2. /\ mode = "running" /\ IsSeq(operands) /\ Len(operands) \in Nat /\ 1 < Len(operands)
      /\ IsCall(Current) /\ Owes(Current) = 1 /\ Current.fn = "ToClassFullName"
  BY <1>1, WhereIs DEF Owes
<1>3. Higher(0 - 1) /\ 0 - Owes(Current) = 0 - 1
  BY <1>1, <1>2, PopLowers
<1>4. ASSUME NEW name, Returns(name) PROVE StackKept
  BY <1>2, <1>3, <1>4, ReturnsToCaller
<1>5. ASSUME GoOn(Reached("locals")) PROVE StackKept
  <2> DEFINE call == Reached("locals")
  <2>1. IsCall(call) /\ call.fn = Current.fn /\ Owes(call) = 0
    BY <1>2, Reaches DEF Sorting, Owes
  <2>2. GoOn(call)
    BY <1>5
  <2> HIDE DEF call
  <2>3. Owes(call) - Owes(Current) = 0 - 1
    BY <1>2, <2>1
  <2> QED BY <1>2, <1>3, <2>1, <2>2, <2>3, GoesOn
<1> QED BY <1>4, <1>5 DEF RootSearched

\* A local that is a table is pushed; any other local leaves the stack alone.
LEMMA LocalIsLookedAt ==
    ASSUME StackInv, LookAtLocal
    PROVE  StackKept
<1>1. Where("ToClassFullName", "locals")
  BY DEF LookAtLocal
<1>2. /\ mode = "running" /\ IsSeq(operands) /\ Len(operands) \in Nat /\ 0 < Len(operands)
      /\ IsCall(Current) /\ Current.fn = "ToClassFullName" /\ Current.at = "locals"
      /\ Owes(Current) = 0
  BY <1>1, WhereIs DEF Owes
<1>3. CASE NextLocal.value = Top
  <2>1. Returns(<<NextLocal.name>>) /\ Higher(0) /\ 0 - Owes(Current) = 0
    BY <1>2, <1>3, StackStays DEF LookAtLocal
  <2> QED BY <1>2, <2>1, ReturnsToCaller
<1>4. CASE NextLocal.value # Top /\ Type(NextLocal.value) = "table"
  <2> DEFINE call == Reached("localSearched")
  <2>1. /\ CallFrom(call, CallOf("getClassesFullNameHelper"))
        /\ operands' = Push(operands, NextLocal.value)
    BY <1>4 DEF LookAtLocal
  <2>2. IsCall(call) /\ call.fn = Current.fn /\ Owes(call) = 1
    BY <1>2, Reaches DEF Sorting, Owes
  <2> HIDE DEF call
  <2>3. Owes(call) - Owes(Current) = 1 /\ Higher(1)
    BY <1>2, <2>1, <2>2, PushOnAll
  <2> QED BY <1>2, <2>1, <2>2, <2>3, NewCall, CallsOn
<1>5. CASE NextLocal.value # Top /\ Type(NextLocal.value) # "table"
  <2> DEFINE call == [Current EXCEPT !.count = @ + 1]
  <2>1. GoOn(call) /\ operands' = operands
    BY <1>5 DEF LookAtLocal
  <2>2. IsCall(call) /\ call.fn = Current.fn /\ call.at = Current.at
    BY <1>2 DEF IsCall, Sorting
  <2> HIDE DEF call
  <2>3. Owes(call) = 0
    BY <1>2, <2>2 DEF Owes
  <2>4. Owes(call) - Owes(Current) = 0 /\ Higher(0)
    BY <1>2, <2>1, <2>3, StackStays
  <2> QED BY <1>2, <2>1, <2>2, <2>4, GoesOn
<1> QED BY <1>3, <1>4, <1>5

\* The name of a class is looked for with one table above it on the stack, or none.
LEMMA ToClassFullNameKeepsStack ==
    ASSUME StackInv, ToClassFullNameStep
    PROVE  StackKept
<1>1. CASE SearchRoot
  <2> DEFINE call == Reached("rootSearched")
  <2>1. /\ Where("ToClassFullName", "begin") /\ CallFrom(call, CallOf("getClassesFullNameHelper"))
        /\ operands' = Push(operands, RootTable)
    BY <1>1 DEF SearchRoot
  <2>2. /\ mode = "running" /\ IsSeq(operands) /\ Len(operands) \in Nat /\ 0 < Len(operands)
        /\ IsCall(Current) /\ Owes(Current) = 0
    BY <2>1, WhereIs DEF Owes
  <2>3. IsCall(call) /\ call.fn = Current.fn /\ Owes(call) = 1
    BY <2>1, <2>2, WhereIs, Reaches DEF Sorting, Owes
  <2> HIDE DEF call
  <2>4. Owes(call) - Owes(Current) = 1 /\ Higher(1)
    BY <2>1, <2>2, <2>3, PushOnAll
  <2> QED BY <2>1, <2>2, <2>3, <2>4, NewCall, CallsOn
<1>2. CASE RootSearched
  BY <1>2, RootIsSearched
<1>3. CASE LookAtLocal
  BY <1>3, LocalIsLookedAt
<1>4. CASE LocalSearched
  <2> DEFINE call == [Reached("locals") EXCEPT !.count = @ + 1]
  <2>1. /\ Where("ToClassFullName", "localSearched") /\ GoOn(call)
        /\ operands' = Pop(operands, 1)
    BY <1>4 DEF LocalSearched
  <2>2. /\ mode = "running" /\ IsSeq(operands) /\ Len(operands) \in Nat /\ 1 < Len(operands)
        /\ IsCall(Current) /\ Owes(Current) = 1
    BY <2>1, WhereIs DEF Owes
  <2>3. IsCall(call) /\ call.fn = Current.fn /\ Owes(call) = 0
    <3>1. /\ Current.fn = "ToClassFullName"
          /\ Sorting([fn |-> Current.fn, at |-> "locals", count |-> Current.count])
      BY <2>1, <2>2, WhereIs DEF Sorting
    <3>2. /\ IsCall(Reached("locals"))
          /\ Reached("locals").fn = "ToClassFullName" /\ Reached("locals").at = "locals"
          /\ Reached("locals").count = Current.count
      BY <2>2, <3>1, Reaches
    <3>3. IsCall(call) /\ call.fn = "ToClassFullName" /\ call.at = "locals"
      BY <2>2, <3>2 DEF IsCall, Sorting
    <3> HIDE DEF call
    <3> QED BY <3>1, <3>3 DEF Owes
  <2> HIDE DEF call
  <2>4. Owes(call) - Owes(Current) = 0 - 1 /\ Higher(0 - 1)
    BY <2>1, <2>2, <2>3, PopLowers
  <2> QED BY <2>1, <2>2, <2>3, <2>4, GoesOn
<1>5. CASE UnknownClass
  BY <1>5, DisplayFails DEF UnknownClass
<1> QED BY <1>1, <1>2, <1>3, <1>4, <1>5 DEF ToClassFullNameStep

-----------------------------------------------------------------------------
(* getClassesFullNameHelper *)

\* sq_next replaces the iterator.
LEMMA Advances ==
    ASSUME StackInv, Where("getClassesFullNameHelper", "next"), Advance, UNCHANGED <<calls, mode>>
    PROVE  StackKept
<1>1. mode = "running" /\ IsSeq(operands) /\ Owes(Current) = 1 /\ 1 < Len(operands)
  BY WhereIs DEF Owes
<1>2. 1 - 1 = 0 /\ 1 \in Nat
  OBVIOUS
<1>3. Higher(0)
  BY <1>1, <1>2, PushOneRaises DEF Advance
<1> QED BY <1>1, <1>3, CallsStay

\* A table in a table is pushed with its key, in place of the iterator.
LEMMA TableIsDescended ==
    ASSUME StackInv, DescendTable
    PROVE  StackKept
<1> DEFINE pushed == Entry(Slots(held, At(operands, -2)), NextOfContainer)
           call == Reached("descended")
           new == CallOf("getClassesFullNameHelper")
           callee == [new EXCEPT !.prefix = FullName]
<1>1. /\ Where("getClassesFullNameHelper", "next") /\ CallFrom(call, callee)
      /\ operands' = Pop(operands, 1) \o pushed
  BY DEF DescendTable, HasEntry
<1>2. /\ mode = "running" /\ IsSeq(operands) /\ Len(operands) \in Nat /\ 1 < Len(operands)
      /\ IsCall(Current) /\ Owes(Current) = 1 /\ Current.fn = "getClassesFullNameHelper"
  BY <1>1, WhereIs DEF Owes
<1>3. IsCall(call) /\ call.fn = Current.fn /\ Owes(call) = 3
  BY <1>2, Reaches DEF Sorting, Owes
<1>4. IsCall(callee) /\ callee.fn = "getClassesFullNameHelper" /\ callee.at = "begin"
  <2>1. IsCall(new) /\ new.fn = "getClassesFullNameHelper" /\ new.at = "begin"
    BY NewCall DEF CallOf
  <2>2. PICK name : name = FullName
    OBVIOUS
  <2> HIDE DEF new
  <2>3. callee = [new EXCEPT !.prefix = name]
    BY <2>2
  <2> HIDE DEF callee
  <2> QED BY <2>1, <2>3 DEF IsCall, Sorting
<1>5. IsSeq(pushed) /\ Len(pushed) = 3
  BY EntryLength
<1> HIDE DEF pushed, call, callee
<1>6. Owes(callee) = 0
  BY <1>4 DEF Owes
<1>7. Owes(call) - Owes(Current) = Len(pushed) - 1 /\ Higher(Len(pushed) - 1)
  BY <1>1, <1>2, <1>3, <1>5, PushRaises
<1> QED BY <1>1, <1>2, <1>3, <1>4, <1>6, <1>7, CallsOn

\* Classes are collected with an iterator on the stack, and with a key and a table above it
\* while that table is searched.
LEMMA GetClassesFullNameKeepsStack ==
    ASSUME StackInv, GetClassesFullNameStep
    PROVE  StackKept
<1>1. CASE StartClasses
  <2> DEFINE call == Reached("next")
  <2>1. /\ Where("getClassesFullNameHelper", "begin") /\ GoOn(call)
        /\ operands' = Push(operands, Null)
    BY <1>1 DEF StartClasses
  <2>2. /\ mode = "running" /\ IsSeq(operands) /\ Len(operands) \in Nat /\ 0 < Len(operands)
        /\ IsCall(Current) /\ Owes(Current) = 0
    BY <2>1, WhereIs DEF Owes
  <2>3. IsCall(call) /\ call.fn = Current.fn /\ Owes(call) = 1
    BY <2>1, <2>2, WhereIs, Reaches DEF Sorting, Owes
  <2> HIDE DEF call
  <2>4. Owes(call) - Owes(Current) = 1 /\ Higher(1)
    BY <2>1, <2>2, <2>3, PushOnAll
  <2> QED BY <2>1, <2>2, <2>3, <2>4, GoesOn
<1>2. CASE PassValue
  BY <1>2, Advances DEF PassValue
<1>3. CASE UseNoKey
  BY <1>3, DisplayFails DEF UseNoKey
<1>4. CASE AddClass
  BY <1>4, Advances DEF AddClass, HasEntry
<1>5. CASE BreakAtKnownClass
  <2>1. Where("getClassesFullNameHelper", "next") /\ Returns(0) /\ operands' = Pop(operands, 1)
    BY <1>5 DEF BreakAtKnownClass, HasEntry
  <2>2. mode = "running" /\ IsSeq(operands) /\ Owes(Current) = 1 /\ 1 < Len(operands)
    BY <2>1, WhereIs DEF Owes
  <2>3. 0 - Owes(Current) = 0 - 1 /\ Higher(0 - 1)
    BY <2>1, <2>2, PopLowers
  <2> QED BY <2>1, <2>2, <2>3, WhereIs, ReturnsToCaller
<1>6. CASE DescendTable
  BY <1>6, TableIsDescended
<1>7. CASE TableDescended
  <2> DEFINE call == Reached("next")
  <2>1. /\ Where("getClassesFullNameHelper", "descended") /\ GoOn(call)
        /\ operands' = Pop(operands, 2)
    BY <1>7 DEF TableDescended
  <2>2. /\ mode = "running" /\ IsSeq(operands) /\ Len(operands) \in Nat /\ 3 < Len(operands)
        /\ IsCall(Current) /\ Owes(Current) = 3
    BY <2>1, WhereIs DEF Owes
  <2>3. IsCall(call) /\ call.fn = Current.fn /\ Owes(call) = 1
    BY <2>1, <2>2, WhereIs, Reaches DEF Sorting, Owes
  <2> HIDE DEF call
  <2>4. Owes(call) - Owes(Current) = 0 - 2 /\ Higher(0 - 2)
    BY <2>1, <2>2, <2>3, PopLowers
  <2> QED BY <2>1, <2>2, <2>3, <2>4, GoesOn
<1>8. CASE EndClasses
  <2>1. Where("getClassesFullNameHelper", "next") /\ Returns(0) /\ operands' = Pop(operands, 1)
    BY <1>8 DEF EndClasses
  <2>2. mode = "running" /\ IsSeq(operands) /\ Owes(Current) = 1 /\ 1 < Len(operands)
    BY <2>1, WhereIs DEF Owes
  <2>3. 0 - Owes(Current) = 0 - 1 /\ Higher(0 - 1)
    BY <2>1, <2>2, PopLowers
  <2> QED BY <2>1, <2>2, <2>3, WhereIs, ReturnsToCaller
<1> QED
  BY <1>1, <1>2, <1>3, <1>4, <1>5, <1>6, <1>7, <1>8 DEF GetClassesFullNameStep

-----------------------------------------------------------------------------
(* Whole behaviours *)

LEMMA StackStep ==
    ASSUME StackInv, [RenderingNext]_renderingVars
    PROVE  StackInv' /\ operands'[1] = operands[1]
<1>1. CASE UNCHANGED renderingVars
  BY <1>1 DEF renderingVars, StackInv, CallsInv, Balances, Current, PopsWhatItPushes
<1>2. CASE RenderingNext
  <2>1. CASE CreateChildVariableStep
    BY <2>1, ChildVariableKeepsStack DEF StackKept
  <2>2. CASE ToStringStep /\ UNCHANGED classNames
    BY <2>2, ToStringKeepsStack DEF StackKept
  <2>3. CASE ToClassFullNameStep
    BY <2>3, ToClassFullNameKeepsStack DEF StackKept
  <2>4. CASE GetClassesFullNameStep
    BY <2>4, GetClassesFullNameKeepsStack DEF StackKept
  <2> QED BY <1>2, <2>1, <2>2, <2>3, <2>4 DEF RenderingNext
<1> QED BY <1>1, <1>2

LEMMA StackAlways == RenderingSpec => []StackInv
<1>1. StackInv /\ [RenderingNext]_renderingVars => StackInv'
  BY StackStep
<1> QED BY StackInit, <1>1, PTL DEF RenderingSpec

\* When the variable has been shown, the operand stack of the script has on it what it had before:
\* every push of CreateChildVariable, ToString, CreateTableSummary, ToClassFullName and
\* getClassesFullNameHelper has been popped, on each way out of them but an exception.
THEOREM StackIsBalanced == RenderingSpec => []PopsWhatItPushes
<1>1. StackInv => PopsWhatItPushes
  BY DEF StackInv
<1> QED BY StackAlways, <1>1, PTL

\* The variable that is shown stays at the bottom of all that is pushed, at every step; nothing
\* ever pops it, or what the script has below it.
THEOREM VariableStays == RenderingSpec => [][operands'[1] = operands[1]]_renderingVars
<1>1. StackInv /\ [RenderingNext]_renderingVars => [operands'[1] = operands[1]]_renderingVars
  BY StackStep
<1> QED BY StackAlways, <1>1, PTL DEF RenderingSpec

-----------------------------------------------------------------------------
(* Where each call has begun *)

\* A set of natural numbers has a least element.
LEMMA LeastNumber ==
    ASSUME NEW S, S \subseteq Nat, S # {}
    PROVE  \E i \in S : \A j \in S : i <= j
<1> DEFINE R == OpToRel(<, Nat)
<1>1. IsWellFoundedOn(R, Nat)
  BY NatLessThanWellFounded
<1>2. PICK x \in S : \A y \in S : ~ (<<y, x>> \in R)
  <2> HIDE DEF R
  <2> QED BY <1>1, WFMin
<1>3. \A y \in S : ~ (y < x)
  BY <1>2 DEF OpToRel
<1> QED BY <1>3

Began == CHOOSE base : Balances(base)

LEMMA BeganIs ==
    ASSUME StackInv, mode = "running"
    PROVE  /\ Len(calls) \in Nat \ {0} /\ Current = calls[Len(calls)]
           /\ \A i \in 1 .. Len(calls) : Began[i] \in Nat \ {0} /\ Owes(calls[i]) \in 0 .. 3
           /\ Began[1] = 1
           /\ \A i \in 1 .. Len(calls) - 1 : Began[i + 1] = Began[i] + Owes(calls[i])
           /\ IsSeq(operands) /\ Len(operands) = Began[Len(calls)] + Owes(Current)
<1>1. Balances(Began)
  BY DEF StackInv, Began
<1>2. Len(calls) \in Nat \ {0}
  BY SeqProperties DEF StackInv, CallsInv
<1> QED BY <1>1, <1>2, OwesType DEF Balances, Current, Last, StackInv

LEMMA BeganIsAfter ==
    ASSUME StackInv', mode' = "running"
    PROVE  /\ Len(calls') \in Nat \ {0} /\ Current' = calls'[Len(calls')]
           /\ \A i \in 1 .. Len(calls') : Began'[i] \in Nat \ {0} /\ Owes(calls'[i]) \in 0 .. 3
           /\ Began'[1] = 1
           /\ \A i \in 1 .. Len(calls') - 1 : Began'[i + 1] = Began'[i] + Owes(calls'[i])
           /\ IsSeq(operands') /\ Len(operands') = Began'[Len(calls')] + Owes(Current')
<1>1. PICK base : base = Began' /\ Balances(base)'
  BY DEF StackInv, Began
<1>2. Len(calls') \in Nat \ {0}
  BY SeqProperties DEF StackInv, CallsInv
<1> QED BY <1>1, <1>2, OwesType DEF Balances, Current, Last, StackInv

\* What a call has pushed is below what the calls after it have.
LEMMA BeganBelow ==
    ASSUME StackInv, mode = "running", NEW i \in 1 .. Len(calls)
    PROVE  /\ Began[i] <= Began[Len(calls)]
           /\ i # Len(calls) => Began[i] + Owes(calls[i]) <= Began[Len(calls)]
<1>1. PICK n, base : n = Len(calls) /\ base = Began
  OBVIOUS
<1>2. /\ n \in Nat \ {0} /\ \A j \in 1 .. n : base[j] \in Nat /\ Owes(calls[j]) \in 0 .. 3
      /\ \A j \in 1 .. n - 1 : base[j + 1] = base[j] + Owes(calls[j])
  BY <1>1, BeganIs
<1> DEFINE S == {d \in Nat : d < n /\ ~(base[n - d] <= base[n])}
<1>3. S = {}
  <2> SUFFICES ASSUME S # {} PROVE FALSE
    OBVIOUS
  <2>1. PICK d \in S : \A e \in S : d <= e
    <3>1. S \subseteq Nat
      OBVIOUS
    <3> HIDE DEF S
    <3> QED BY <3>1, LeastNumber
  <2>2. d \in Nat /\ d < n /\ ~(base[n - d] <= base[n])
    BY <2>1
  <2>3. d # 0
    <3>1. n - 0 = n /\ base[n] \in Nat
      BY <1>2
    <3> QED BY <2>2, <3>1
  <2>4. PICK j \in 1 .. n - 1 : j = n - d
    BY <1>2, <2>2, <2>3
  <2>5. d - 1 \in Nat /\ d - 1 < n /\ n - (d - 1) = j + 1 /\ ~(d <= d - 1)
    BY <1>2, <2>2, <2>3, <2>4
  <2>6. base[j + 1] <= base[n]
    <3>1. d - 1 \notin S
      BY <2>1, <2>5
    <3>2. base[n - (d - 1)] <= base[n]
      BY <2>5, <3>1
    <3> QED BY <2>5, <3>2
  <2>7. base[j] \in Nat /\ base[j + 1] \in Nat /\ base[n] \in Nat /\ Owes(calls[j]) \in 0 .. 3
    <3>1. j \in 1 .. n /\ j + 1 \in 1 .. n /\ n \in 1 .. n
      BY <1>2, <2>4
    <3> QED BY <1>2, <3>1
  <2>8. base[j] <= base[j + 1]
    BY <1>2, <2>7
  <2> QED BY <2>2, <2>4, <2>6, <2>7, <2>8
<1>4. ASSUME NEW j \in 1 .. n PROVE base[j] <= base[n]
  <2>1. n - j \in Nat /\ n - j < n /\ n - (n - j) = j
    BY <1>2
  <2>2. base[n - (n - j)] <= base[n]
    BY <1>3, <2>1
  <2> QED BY <2>1, <2>2
<1> HIDE DEF S
<1>5. i \in 1 .. n
  BY <1>1
<1>6. ASSUME i # n PROVE base[i] + Owes(calls[i]) <= base[n]
  <2>1. i \in 1 .. n - 1 /\ i + 1 \in 1 .. n
    BY <1>2, <1>5, <1>6
  <2>2. base[i + 1] = base[i] + Owes(calls[i]) /\ base[i + 1] <= base[n]
    BY <1>2, <1>4, <2>1
  <2> QED BY <2>2
<1> QED BY <1>1, <1>4, <1>5, <1>6

\* A step moves the beginning of no call but the last.
LEMMA BeganStays ==
    ASSUME StackInv, mode = "running", StackInv', mode' = "running",
           NEW m \in Nat, m <= Len(calls), m <= Len(calls'),
           \A i \in 1 .. m - 1 : Owes(calls'[i]) = Owes(calls[i])
    PROVE  \A i \in 1 .. m : Began'[i] = Began[i]
<1>1. PICK n, k, old, new : n = Len(calls) /\ k = Len(calls') /\ old = Began /\ new = Began'
  OBVIOUS
<1>2. /\ n \in Nat /\ m <= n /\ old[1] = 1
      /\ \A i \in 1 .. n - 1 : old[i + 1] = old[i] + Owes(calls[i])
  BY <1>1, BeganIs
<1>3. /\ k \in Nat /\ m <= k /\ new[1] = 1
      /\ \A i \in 1 .. k - 1 : new[i + 1] = new[i] + Owes(calls'[i])
  <2>1. /\ Len(calls') \in Nat \ {0} /\ Began'[1] = 1
        /\ \A i \in 1 .. Len(calls') - 1 : Began'[i + 1] = Began'[i] + Owes(calls'[i])
    BY BeganIsAfter
  <2> QED BY <1>1, <2>1
<1> DEFINE S == {i \in 1 .. m : new[i] # old[i]}
<1> SUFFICES S = {}
  BY <1>1
<1> SUFFICES ASSUME S # {} PROVE FALSE
  OBVIOUS
<1>4. PICK i \in S : \A j \in S : i <= j
  <2>1. S \subseteq Nat
    OBVIOUS
  <2> HIDE DEF S
  <2> QED BY <2>1, LeastNumber
<1>5. i \in 1 .. m /\ new[i] # old[i]
  BY <1>4
<1>6. i # 1
  BY <1>2, <1>3, <1>5
<1>7. PICK j \in 1 .. m - 1 : i = j + 1 /\ ~(i <= j)
  BY <1>5, <1>6
<1>8. j \in 1 .. m /\ j \notin S
  BY <1>4, <1>7
<1>9. new[j] = old[j]
  BY <1>8
<1>10. j \in 1 .. n - 1 /\ j \in 1 .. k - 1
  BY <1>2, <1>3, <1>7
<1>11. /\ old[j + 1] = old[j] + Owes(calls[j]) /\ new[j + 1] = new[j] + Owes(calls'[j])
       /\ Owes(calls'[j]) = Owes(calls[j])
  BY <1>2, <1>3, <1>7, <1>10
<1> QED BY <1>5, <1>7, <1>9, <1>11

-----------------------------------------------------------------------------
(* What a step does with the stack and the calls, value by value *)

\* The stack up to the height h is what it was.
Keeps(h) == \A k \in 1 .. h : operands'[k] = operands[k]

LEMMA PopKeeps ==
    ASSUME IsSeq(operands), NEW n \in Nat, n <= Len(operands), operands' = Pop(operands, n)
    PROVE  Keeps(Len(operands) - n)
BY Prefix DEF Pop, Keeps

LEMMA PushKeeps ==
    ASSUME IsSeq(operands), NEW n \in Nat, n <= Len(operands), NEW pushed, IsSeq(pushed),
           operands' = Pop(operands, n) \o pushed
    PROVE  /\ Keeps(Len(operands) - n)
           /\ \A k \in 1 .. Len(pushed) : operands'[Len(operands) - n + k] = pushed[k]
<1>1. PICK low, h : low = Pop(operands, n) /\ h = Len(operands) - n
  OBVIOUS
<1>2. h \in Nat /\ Len(pushed) \in Nat
  BY <1>1, SeqProperties
<1>3. IsSeq(low) /\ Len(low) = h /\ \A k \in 1 .. h : low[k] = operands[k]
  BY <1>1, Prefix DEF Pop
<1>4. PICK after : after = low \o pushed
  OBVIOUS
<1>5. \A i \in 1 .. h + Len(pushed) : after[i] = IF i <= h THEN low[i] ELSE pushed[i - h]
  BY <1>3, <1>4, Concatenation
<1>6. ASSUME NEW k \in 1 .. h PROVE after[k] = operands[k]
  <2>1. k \in 1 .. h + Len(pushed) /\ k <= h
    BY <1>2
  <2> QED BY ONLY <1>3, <1>5, <1>6, <2>1
<1>7. ASSUME NEW k \in 1 .. Len(pushed) PROVE after[h + k] = pushed[k]
  <2>1. PICK i \in 1 .. h + Len(pushed) : i = h + k
    BY <1>2
  <2>2. ~(i <= h) /\ i - h = k
    BY <1>2, <2>1
  <2>3. after[i] = pushed[k]
    BY ONLY <1>5, <2>2
  <2> QED BY <2>1, <2>3
<1>8. operands' = after
  BY <1>1, <1>4
<1> QED BY <1>1, <1>6, <1>7, <1>8 DEF Keeps

LEMMA PushOneKeeps ==
    ASSUME IsSeq(operands), NEW n \in Nat, n <= Len(operands), NEW v,
           operands' = Push(Pop(operands, n), v)
    PROVE  Keeps(Len(operands) - n) /\ operands'[Len(operands) - n + 1] = v
<1>1. IsSeq(Pop(operands, n))
  BY Prefix DEF Pop
<1>2. Append(Pop(operands, n), v) = Pop(operands, n) \o <<v>>
  <2>1. PICK low, T : low = Pop(operands, n) /\ T = Range(low) \cup {v}
    OBVIOUS
  <2>2. Range(low) \subseteq T /\ v \in T
    BY <2>1
  <2>3. low \in Seq(T)
    BY <1>1, <2>1, <2>2, SeqMonotonic DEF IsSeq
  <2> QED BY <2>1, <2>2, <2>3, AppendIsConcat
<1>3. IsSeq(<<v>>) /\ Len(<<v>>) = 1 /\ <<v>>[1] = v
  BY Single
<1>4. operands' = Pop(operands, n) \o <<v>>
  BY <1>2 DEF Push
<1>5. PICK one : one = <<v>>
  OBVIOUS
<1>6. /\ Keeps(Len(operands) - n)
      /\ \A k \in 1 .. Len(one) : operands'[Len(operands) - n + k] = one[k]
  BY ONLY IsSeq(operands), n \in Nat, n <= Len(operands), <1>3, <1>4, <1>5, PushKeeps
<1> QED BY ONLY <1>3, <1>5, <1>6

LEMMA PushKeepsAll ==
    ASSUME IsSeq(operands), NEW v, operands' = Push(operands, v)
    PROVE  Keeps(Len(operands)) /\ operands'[Len(operands) + 1] = v
<1>1. operands' = Push(Pop(operands, 0), v)
  BY PopNone
<1>2. Len(operands) \in Nat /\ 0 <= Len(operands) /\ Len(operands) - 0 = Len(operands)
  BY SeqProperties
<1> QED BY <1>1, <1>2, PushOneKeeps

LEMMA GoOnCalls ==
    ASSUME StackInv, mode = "running", NEW call, GoOn(call)
    PROVE  /\ Len(calls') = Len(calls) /\ calls'[Len(calls)] = call
           /\ \A i \in 1 .. Len(calls) - 1 : calls'[i] = calls[i]
           /\ mode' = "running"
<1>1. PICK n : n = Len(calls)
  OBVIOUS
<1>2. n \in Nat \ {0} /\ n - 1 + 1 = n
  BY <1>1, BeganIs
<1>3. PICK front : front = Front(calls)
  OBVIOUS
<1>4. /\ IsSeq(front) /\ Len(front) = n - 1 /\ calls' = front \o <<call>>
      /\ \A i \in 1 .. n - 1 : front[i] = calls[i]
  BY <1>1, <1>3, CallsBelow DEF GoOn
<1>5. /\ Len(calls') = n /\ calls'[n] = call
      /\ \A i \in 1 .. n - 1 : calls'[i] = front[i]
  <2>1. /\ Len(calls') = Len(front) + 1 /\ calls'[Len(front) + 1] = call
        /\ \A i \in 1 .. Len(front) : calls'[i] = front[i]
    BY <1>4, AddOne
  <2> QED BY <1>2, <1>4, <2>1
<1> QED BY <1>1, <1>4, <1>5 DEF GoOn

LEMMA CallFromCalls ==
    ASSUME StackInv, mode = "running", NEW call, NEW callee, CallFrom(call, callee)
    PROVE  \/ Len(calls) >= MaxCalls /\ mode' = "overflow"
           \/ /\ Len(calls') = Len(calls) + 1
              /\ calls'[Len(calls)] = call /\ calls'[Len(calls) + 1] = callee
              /\ \A i \in 1 .. Len(calls) - 1 : calls'[i] = calls[i]
              /\ mode' = "running"
<1>1. PICK n : n = Len(calls)
  OBVIOUS
<1>2. n \in Nat \ {0} /\ n - 1 + 1 = n /\ n - 1 + 2 = n + 1
  BY <1>1, BeganIs
<1>3. CASE ~(n < MaxCalls)
  BY <1>1, <1>2, <1>3, RenderingAssumption DEF CallFrom
<1>4. CASE n < MaxCalls
  <2>1. PICK front : front = Front(calls)
    OBVIOUS
  <2>2. /\ IsSeq(front) /\ Len(front) = n - 1 /\ calls' = front \o <<call, callee>>
        /\ \A i \in 1 .. n - 1 : front[i] = calls[i]
    BY <1>1, <1>4, <2>1, CallsBelow DEF CallFrom
  <2>3. /\ Len(calls') = n + 1 /\ calls'[n] = call /\ calls'[n + 1] = callee
        /\ \A i \in 1 .. n - 1 : calls'[i] = front[i]
    <3>1. /\ Len(calls') = Len(front) + 2
          /\ calls'[Len(front) + 1] = call /\ calls'[Len(front) + 2] = callee
          /\ \A i \in 1 .. Len(front) : calls'[i] = front[i]
      BY <2>2, AddTwo
    <3> QED BY <1>2, <2>2, <3>1
  <2> QED BY <1>1, <1>4, <2>2, <2>3 DEF CallFrom
<1> QED BY <1>3, <1>4

LEMMA ReturnsCalls ==
    ASSUME StackInv, mode = "running", NEW v, Returns(v)
    PROVE  /\ Len(calls') = Len(calls) - 1
           /\ \A i \in 1 .. Len(calls) - 1 : calls'[i] = calls[i]
           /\ mode' = "running" /\ result' = v
BY CallsBelow DEF Returns

-----------------------------------------------------------------------------
(* What each call has pushed *)

\* The value on top when the call began: the one it shows, looks for or searches.
Subject(i) == operands[Began[i]]

\* A slot of the container c, with this key and this value.
InSlot(c, s, key, val) ==
    c \in DOMAIN held /\ s \in Filled(held[c]) /\ held[c][s].key = key /\ held[c][s].val = val

\* All that a call can be about.
Values == DOMAIN held \cup Subjects \cup Range(ClassOf) \cup
              UNION {UNION {{held[c][i].key, held[c][i].val} : i \in Filled(held[c])} : c \in DOMAIN held}

\* What a call has pushed above its subject, which is at b.
CreateHas(call, b) ==
    /\ operands[b] \in Subjects
    /\ call.at = "named" => operands[b + 1] \in Values /\ Type(operands[b + 1]) = "class"

ToStringHas(call, b) ==
    /\ operands[b] \in Values
    /\ \A iter \in call.iters : NextSlot(Slots(held, operands[b]), iter) # 0
    /\ call.at \in {"keys", "keyRendered"} => \E s \in Nat : operands[b + 1] = Integer(s)
    /\ call.at \in {"keyRendered", "field"} =>
          \E s \in Nat : \E val : InSlot(operands[b], s, operands[b + 2], val)
    /\ call.at = "value" =>
          \E s \in Nat : InSlot(operands[b], s, operands[b + 2], operands[b + 3])
    /\ call.at = "named" => Type(operands[b]) = "class"

ToClassFullNameHas(call, b) ==
    /\ operands[b] \in Values /\ Type(operands[b]) = "class"
    /\ call.at = "rootSearched" => operands[b + 1] = RootTable
    /\ call.at = "localSearched" => Type(operands[b + 1]) = "table"

HelperHas(call, b) ==
    /\ Type(operands[b]) = "table"
    /\ call.at = "next" => operands[b + 1] = Null \/ \E s \in Nat : operands[b + 1] = Integer(s)
    /\ call.at = "descended" =>
          \E s \in Nat :
             /\ operands[b + 1] = Integer(s) /\ Type(operands[b + 3]) = "table"
             /\ \E key : InSlot(operands[b], s, key, operands[b + 3]) /\ Type(key) = "string"

CallHas(call, b) ==
    /\ call.fn = "CreateChildVariable" => CreateHas(call, b)
    /\ call.fn = "ToString" => ToStringHas(call, b)
    /\ call.fn = "ToClassFullName" => ToClassFullNameHas(call, b)
    /\ call.fn = "getClassesFullNameHelper" => HelperHas(call, b)

IsFunction(fn) ==
    fn \in {"CreateChildVariable", "ToString", "ToClassFullName", "getClassesFullNameHelper"}

\* Who calls whom, and from where.
Follows(call, callee) ==
    /\ call.fn = "CreateChildVariable" =>
          \/ call.at = "shown" /\ callee.fn = "ToString"
          \/ call.at = "named" /\ callee.fn = "ToClassFullName"
    /\ call.fn = "ToString" =>
          \/ call.at \in {"keyRendered", "value", "field"} /\ callee.fn = "ToString"
          \/ call.at = "named" /\ callee.fn = "ToClassFullName"
    /\ call.fn = "ToClassFullName" =>
          /\ call.at \in {"rootSearched", "localSearched"}
          /\ callee.fn = "getClassesFullNameHelper"
    /\ call.fn = "getClassesFullNameHelper" =>
          call.at = "descended" /\ callee.fn = "getClassesFullNameHelper"

ShowInv ==
    /\ StackInv
    /\ held \in HeapsToShow
    /\ mode = "running" =>
          /\ \A i \in 1 .. Len(calls) : IsFunction(calls[i].fn) /\ CallHas(calls[i], Began[i])
          /\ \A i \in 1 .. Len(calls) - 1 : Follows(calls[i], calls[i + 1])

\* A call has what it had, while nobody touches it.
LEMMA CallStillHas ==
    ASSUME NEW call, NEW b \in Nat \ {0}, CallHas(call, b), held' = held, NEW h \in Nat,
           b + Owes(call) <= h, Keeps(h)
    PROVE  CallHas(call, b)'
<1>1. Owes(call) \in 0 .. 3
  BY OwesType
<1>2. \A k \in b .. b + Owes(call) : operands'[k] = operands[k]
  BY <1>1 DEF Keeps
<1>3. operands'[b] = operands[b]
  BY <1>1, <1>2
<1>4. Values' = Values
  BY DEF Values
<1>5. \A c, s, key, val : InSlot(c, s, key, val)' = InSlot(c, s, key, val)
  BY DEF InSlot
<1>6. CASE call.fn = "CreateChildVariable"
  <2>1. ASSUME call.at = "named" PROVE operands'[b + 1] = operands[b + 1]
    <3>1. Owes(call) = 1
      BY <1>6, <2>1 DEF Owes
    <3> QED BY <1>2, <3>1
  <2> QED BY <1>3, <1>4, <1>6, <2>1 DEF CallHas, CreateHas
<1>7. CASE call.fn = "ToString"
  <2>1. ASSUME call.at \in {"keyRendered", "field"} PROVE operands'[b + 2] = operands[b + 2]
    <3>1. Owes(call) = 2
      BY <1>7, <2>1 DEF Owes
    <3> QED BY <1>2, <3>1
  <2>2. ASSUME call.at = "value"
        PROVE  operands'[b + 2] = operands[b + 2] /\ operands'[b + 3] = operands[b + 3]
    <3>1. Owes(call) = 3
      BY <1>7, <2>2 DEF Owes
    <3> QED BY <1>2, <3>1
  <2>3. ASSUME call.at \in {"keys", "keyRendered"} PROVE operands'[b + 1] = operands[b + 1]
    <3>1. Owes(call) >= 1
      BY <1>7, <2>3 DEF Owes
    <3> QED BY <1>1, <1>2, <3>1
  <2> QED BY <1>3, <1>4, <1>5, <1>7, <2>1, <2>2, <2>3 DEF CallHas, ToStringHas
<1>8. CASE call.fn = "ToClassFullName"
  <2>1. ASSUME call.at \in {"rootSearched", "localSearched"}
        PROVE  operands'[b + 1] = operands[b + 1]
    <3>1. Owes(call) = 1
      BY <1>8, <2>1 DEF Owes
    <3> QED BY <1>2, <3>1
  <2> QED BY <1>3, <1>4, <1>8, <2>1 DEF CallHas, ToClassFullNameHas
<1>9. CASE call.fn = "getClassesFullNameHelper"
  <2>1. ASSUME call.at = "next" PROVE operands'[b + 1] = operands[b + 1]
    <3>1. Owes(call) = 1
      BY <1>9, <2>1 DEF Owes
    <3> QED BY <1>2, <3>1
  <2>2. ASSUME call.at = "descended"
        PROVE  operands'[b + 1] = operands[b + 1] /\ operands'[b + 3] = operands[b + 3]
    <3>1. Owes(call) = 3
      BY <1>9, <2>2 DEF Owes
    <3> QED BY <1>2, <3>1
  <2> QED BY <1>3, <1>5, <1>9, <2>1, <2>2 DEF CallHas, HelperHas
<1> QED BY <1>6, <1>7, <1>8, <1>9 DEF CallHas

\* The calls below the last one have what they had.
LEMMA LowerCallsStay ==
    ASSUME ShowInv, mode = "running", StackInv', mode' = "running", held' = held,
           NEW m \in Nat, m <= Len(calls), m <= Len(calls'),
           \A i \in 1 .. m - 1 : calls'[i] = calls[i],
           Keeps(Began[Len(calls)])
    PROVE  /\ \A i \in 1 .. m : Began'[i] = Began[i]
           /\ \A i \in 1 .. m - 1 : IsFunction(calls'[i].fn) /\ CallHas(calls[i], Began[i])'
           /\ \A i \in 1 .. m - 2 : Follows(calls'[i], calls'[i + 1])
<1>0. StackInv
  BY DEF ShowInv
<1>1. PICK n : n = Len(calls)
  OBVIOUS
<1>2. n \in Nat \ {0} /\ n \in 1 .. n /\ m <= n
  BY <1>0, <1>1, BeganIs
<1>3. \A i \in 1 .. m : Began'[i] = Began[i]
  <2>1. \A i \in 1 .. m - 1 : Owes(calls'[i]) = Owes(calls[i])
    OBVIOUS
  <2> QED BY <1>0, <2>1, BeganStays
<1>4. ASSUME NEW i \in 1 .. m - 1
      PROVE  IsFunction(calls'[i].fn) /\ CallHas(calls[i], Began[i])'
  <2>1. i \in 1 .. n /\ i \in 1 .. m /\ i # n
    BY <1>2
  <2>2. PICK call, b, h : call = calls[i] /\ b = Began[i] /\ h = Began[n]
    OBVIOUS
  <2>3. IsFunction(call.fn) /\ CallHas(call, b)
    BY <1>1, <2>1, <2>2 DEF ShowInv
  <2>4. b \in Nat \ {0} /\ h \in Nat /\ b + Owes(call) <= h
    BY <1>0, <1>1, <1>2, <2>1, <2>2, BeganIs, BeganBelow
  <2>5. CallHas(call, b)'
    BY <1>1, <2>2, <2>3, <2>4, CallStillHas
  <2>6. calls'[i] = call /\ Began'[i] = b
    BY <1>3, <2>1, <2>2
  <2> QED BY <2>3, <2>5, <2>6
<1>5. ASSUME NEW i \in 1 .. m - 2 PROVE Follows(calls'[i], calls'[i + 1])
  <2>1. i \in 1 .. n - 1 /\ i \in 1 .. m - 1 /\ i + 1 \in 1 .. m - 1
    BY <1>2
  <2>2. calls'[i] = calls[i] /\ calls'[i + 1] = calls[i + 1]
    BY <2>1
  <2> QED BY <1>1, <2>1, <2>2 DEF ShowInv
<1> QED BY <1>3, <1>4, <1>5

\* The current call goes on.
LEMMA GoesOnShowing ==
    ASSUME ShowInv, mode = "running", StackInv', held' = held,
           NEW call, call.fn = Current.fn, GoOn(call),
           NEW b, b = Began[Len(calls)], Keeps(b), CallHas(call, b)'
    PROVE  ShowInv'
<1>1. PICK n : n = Len(calls)
  OBVIOUS
<1>2. n \in Nat \ {0} /\ n \in 1 .. n /\ n <= n /\ Current = calls[n] /\ StackInv
  BY <1>1, BeganIs DEF ShowInv
<1>3. /\ Len(calls') = n /\ calls'[n] = call /\ \A i \in 1 .. n - 1 : calls'[i] = calls[i]
      /\ mode' = "running"
  BY <1>1, <1>2, GoOnCalls
<1>4. /\ \A i \in 1 .. n : Began'[i] = Began[i]
      /\ \A i \in 1 .. n - 1 : IsFunction(calls'[i].fn) /\ CallHas(calls[i], Began[i])'
      /\ \A i \in 1 .. n - 2 : Follows(calls'[i], calls'[i + 1])
  BY <1>1, <1>2, <1>3, LowerCallsStay
<1>5. ASSUME NEW i \in 1 .. n PROVE IsFunction(calls'[i].fn) /\ CallHas(calls[i], Began[i])'
  <2>1. CASE i = n
    <3>1. IsFunction(call.fn)
      BY <1>1, <1>2 DEF ShowInv
    <3>2. calls'[i] = call /\ Began'[i] = b
      BY <1>1, <1>3, <1>4, <2>1
    <3> QED BY <3>1, <3>2
  <2>2. CASE i # n
    BY <1>2, <1>4, <2>2
  <2> QED BY <2>1, <2>2
<1>6. ASSUME NEW i \in 1 .. n - 1 PROVE Follows(calls'[i], calls'[i + 1])
  <2>1. CASE i = n - 1
    <3>1. Follows(calls[i], calls[n]) /\ i + 1 = n
      BY <1>1, <1>2, <2>1 DEF ShowInv
    <3>2. calls'[i] = calls[i] /\ calls'[n] = call /\ call.fn = calls[n].fn
      BY <1>2, <1>3
    <3> QED BY <3>1, <3>2 DEF Follows
  <2>2. CASE i # n - 1
    BY <1>2, <1>4, <2>2
  <2> QED BY <2>1, <2>2
<1> QED BY <1>3, <1>5, <1>6 DEF ShowInv

\* The current call goes on to where it waits for another one.
LEMMA CallsShowing ==
    ASSUME ShowInv, mode = "running", StackInv', held' = held,
           NEW call, call.fn = Current.fn, NEW callee, IsFunction(callee.fn),
           CallFrom(call, callee), Follows(call, callee),
           NEW b, b = Began[Len(calls)], Keeps(b), CallHas(call, b)', NEW c, c = b + Owes(call),
           CallHas(callee, c)'
    PROVE  ShowInv'
<1>1. PICK n : n = Len(calls)
  OBVIOUS
<1>2. n \in Nat \ {0} /\ n \in 1 .. n /\ n <= n /\ n <= n + 1 /\ Current = calls[n] /\ StackInv
  BY <1>1, BeganIs DEF ShowInv
<1>3. CASE mode' = "overflow"
  BY <1>3 DEF ShowInv
<1>4. CASE mode' # "overflow"
  <2>1. /\ Len(calls') = n + 1 /\ calls'[n] = call /\ calls'[n + 1] = callee
        /\ \A i \in 1 .. n - 1 : calls'[i] = calls[i]
        /\ mode' = "running"
    BY <1>1, <1>2, <1>4, CallFromCalls
  <2>2. /\ \A i \in 1 .. n : Began'[i] = Began[i]
        /\ \A i \in 1 .. n - 1 : IsFunction(calls'[i].fn) /\ CallHas(calls[i], Began[i])'
        /\ \A i \in 1 .. n - 2 : Follows(calls'[i], calls'[i + 1])
    BY <1>1, <1>2, <2>1, LowerCallsStay
  <2>3. Began'[n + 1] = c
    <3>1. n \in 1 .. Len(calls') - 1
      BY <1>2, <2>1
    <3>2. Began'[n + 1] = Began'[n] + Owes(calls'[n])
      BY <2>1, <3>1, BeganIsAfter
    <3> QED BY <1>1, <1>2, <2>1, <2>2, <3>2
  <2>4. ASSUME NEW i \in 1 .. n + 1 PROVE IsFunction(calls'[i].fn) /\ CallHas(calls[i], Began[i])'
    <3>1. CASE i = n
      <4>1. IsFunction(call.fn)
        BY <1>1, <1>2 DEF ShowInv
      <4>2. calls'[i] = call /\ Began'[i] = b
        BY <1>1, <1>2, <2>1, <2>2, <3>1
      <4> QED BY <4>1, <4>2
    <3>2. CASE i = n + 1
      BY <2>1, <2>3, <3>2
    <3>3. CASE i # n /\ i # n + 1
      BY <1>2, <2>2, <3>3
    <3> QED BY <3>1, <3>2, <3>3
  <2>5. ASSUME NEW i \in 1 .. n PROVE Follows(calls'[i], calls'[i + 1])
    <3>1. CASE i = n
      BY <2>1, <3>1
    <3>2. CASE i = n - 1
      <4>1. Follows(calls[i], calls[n]) /\ i + 1 = n
        BY <1>1, <1>2, <3>2 DEF ShowInv
      <4>2. calls'[i] = calls[i] /\ calls'[n] = call /\ call.fn = calls[n].fn
        BY <1>2, <2>1, <3>2
      <4> QED BY <4>1, <4>2 DEF Follows
    <3>3. CASE i # n /\ i # n - 1
      BY <1>2, <2>2, <3>3
    <3> QED BY <3>1, <3>2, <3>3
  <2>6. /\ \A i \in 1 .. Len(calls') : IsFunction(calls'[i].fn) /\ CallHas(calls[i], Began[i])'
        /\ \A i \in 1 .. Len(calls') - 1 : Follows(calls'[i], calls'[i + 1])
    <3>1. PICK k : k = Len(calls')
      OBVIOUS
    <3>2. k = n + 1 /\ k - 1 = n
      <4>1. k = n + 1
        BY <2>1, <3>1
      <4> QED BY <1>2, <4>1
    <3> QED BY ONLY <2>4, <2>5, <3>1, <3>2
  <2> QED BY <2>6 DEF ShowInv
<1> QED BY <1>3, <1>4

\* The current call returns.
LEMMA ReturnsShowing ==
    ASSUME ShowInv, mode = "running", StackInv', held' = held, Len(calls) # 1,
           NEW v, Returns(v), Keeps(Began[Len(calls)])
    PROVE  ShowInv'
<1>1. PICK n, m : n = Len(calls) /\ m = n - 1
  OBVIOUS
<1>2. /\ m \in Nat \ {0} /\ n = m + 1 /\ m <= n /\ Current = calls[n] /\ StackInv
      /\ m \in 1 .. n /\ m # n
  BY <1>1, BeganIs DEF ShowInv
<1>3. Len(calls') = m /\ \A i \in 1 .. m : calls'[i] = calls[i]
  BY <1>1, <1>2, ReturnsCalls
<1>4. mode' = "running"
  BY <1>1, <1>2, ReturnsCalls
<1>5. /\ \A i \in 1 .. m : Began'[i] = Began[i]
      /\ \A i \in 1 .. m - 1 : IsFunction(calls'[i].fn) /\ CallHas(calls[i], Began[i])'
      /\ \A i \in 1 .. m - 2 : Follows(calls'[i], calls'[i + 1])
  <2>1. \A i \in 1 .. m - 1 : calls'[i] = calls[i]
    BY <1>2, <1>3
  <2>2. m \in Nat /\ m <= Len(calls) /\ m <= Len(calls')
    BY <1>1, <1>2, <1>3
  <2> QED BY <1>4, <2>1, <2>2, LowerCallsStay
<1>6. IsFunction(calls'[m].fn) /\ CallHas(calls[m], Began[m])'
  <2>1. PICK call, b, h : call = calls[m] /\ b = Began[m] /\ h = Began[n]
    OBVIOUS
  <2>2. IsFunction(call.fn) /\ CallHas(call, b)
    BY <1>1, <1>2, <2>1 DEF ShowInv
  <2>3. b \in Nat \ {0} /\ h \in Nat /\ b + Owes(call) <= h
    BY <1>1, <1>2, <2>1, BeganIs, BeganBelow
  <2>4. CallHas(call, b)'
    BY <1>1, <2>1, <2>2, <2>3, CallStillHas
  <2>5. calls'[m] = call /\ Began'[m] = b
    BY <1>2, <1>3, <1>5, <2>1
  <2> QED BY <2>2, <2>4, <2>5
<1>7. ASSUME NEW i \in 1 .. m PROVE IsFunction(calls'[i].fn) /\ CallHas(calls[i], Began[i])'
  <2>1. CASE i = m
    BY <1>6, <2>1
  <2>2. CASE i # m
    BY <1>2, <1>5, <2>2
  <2> QED BY <2>1, <2>2
<1>8. ASSUME NEW i \in 1 .. m - 1 PROVE Follows(calls'[i], calls'[i + 1])
  <2>1. i \in 1 .. m /\ i + 1 \in 1 .. m /\ i \in 1 .. n - 1
    BY <1>2
  <2>2. calls'[i] = calls[i] /\ calls'[i + 1] = calls[i + 1]
    BY <1>3, <2>1
  <2> QED BY <1>1, <2>1, <2>2 DEF ShowInv
<1> QED BY <1>3, <1>4, <1>7, <1>8 DEF ShowInv

\* No call goes anywhere.
LEMMA StaysShowing ==
    ASSUME ShowInv, mode = "running", StackInv', held' = held, UNCHANGED <<calls, mode>>,
           NEW b, b = Began[Len(calls)], Keeps(b), CallHas(Current, b)'
    PROVE  ShowInv'
<1>1. PICK n : n = Len(calls)
  OBVIOUS
<1>2. n \in Nat \ {0} /\ n \in 1 .. n /\ n <= n /\ Current = calls[n] /\ StackInv
  BY <1>1, BeganIs DEF ShowInv
<1>3. /\ \A i \in 1 .. n : Began'[i] = Began[i]
      /\ \A i \in 1 .. n - 1 : CallHas(calls[i], Began[i])'
  BY <1>1, <1>2, LowerCallsStay
<1>4. ASSUME NEW i \in 1 .. n PROVE CallHas(calls[i], Began[i])'
  <2>1. CASE i = n
    <3>1. calls'[i] = Current' /\ Began'[i] = b
      BY <1>1, <1>3, <2>1 DEF Current, Last
    <3> QED BY <3>1
  <2>2. CASE i # n
    BY <1>2, <1>3, <2>2
  <2> QED BY <2>1, <2>2
<1> QED BY <1>1, <1>4 DEF ShowInv

-----------------------------------------------------------------------------
(* Where the current call is *)

LEMMA Here ==
    ASSUME ShowInv, NEW fn, NEW at, Where(fn, at), NEW b, b = Began[Len(calls)]
    PROVE  /\ mode = "running" /\ StackInv /\ held \in HeapsToShow
           /\ Len(calls) \in Nat \ {0} /\ IsCall(Current) /\ Current.fn = fn /\ Current.at = at
           /\ fn # "CreateChildVariable" => Len(calls) # 1
           /\ b \in Nat \ {0} /\ CallHas(Current, b)
           /\ IsSeq(operands) /\ Len(operands) \in Nat /\ Len(operands) = b + Owes(Current)
           /\ Top = operands[b + Owes(Current)]
           /\ At(operands, -2) = operands[b + Owes(Current) - 1]
<1>1. PICK n : n = Len(calls)
  OBVIOUS
<1>2. StackInv /\ mode = "running" /\ held \in HeapsToShow /\ Current.fn = fn /\ Current.at = at
  BY DEF ShowInv, Where
<1>3. /\ n \in Nat \ {0} /\ n \in 1 .. n /\ Current = calls[n] /\ b \in Nat \ {0}
      /\ IsSeq(operands) /\ Len(operands) = b + Owes(Current)
  BY <1>1, <1>2, BeganIs
<1>4. CallHas(Current, b)
  BY <1>1, <1>2, <1>3 DEF ShowInv
<1>5. IsCall(Current) /\ Len(operands) \in Nat /\ (fn # "CreateChildVariable" => Len(calls) # 1)
  BY <1>2, CurrentCall
<1>6. Top = operands[Len(operands)] /\ At(operands, -2) = operands[Len(operands) - 1]
  <2>1. Len(operands) + 1 + -1 = Len(operands) /\ Len(operands) + 1 + -2 = Len(operands) - 1
    BY <1>5
  <2> QED BY <2>1 DEF Top, At
<1>7. Top = operands[b + Owes(Current)] /\ At(operands, -2) = operands[b + Owes(Current) - 1]
  <2>1. Owes(Current) \in 0 .. 3
    BY OwesType
  <2>2. Len(operands) - 1 = b + Owes(Current) - 1
    BY <1>3, <2>1
  <2> QED BY <1>3, <1>6, <2>2
<1> QED BY <1>1, <1>2, <1>3, <1>4, <1>5, <1>7

\* The slot that sq_next goes to is the next one in use.
LEMMA NextSlotIs ==
    ASSUME held \in HeapsToShow, NEW c, NEW iter, NEW s, s = NextSlot(Slots(held, c), iter)
    PROVE  /\ s # 0 =>
                 /\ c \in DOMAIN held /\ s \in Filled(held[c]) /\ s \in Nat \ {0} /\ s > iter
                 /\ Slots(held, c) = held[c]
                 /\ \A i \in Filled(held[c]) : i > iter => s <= i
           /\ s = 0 /\ c \in DOMAIN held => \A i \in Filled(held[c]) : ~(i > iter)
<1> DEFINE slots == Slots(held, c)
           later == {i \in Filled(slots) : i > iter}
<1>1. CASE c \notin DOMAIN held
  <2>1. later = {}
    BY <1>1 DEF Slots, Filled
  <2>2. s = 0
    BY <2>1 DEF NextSlot
  <2> QED BY <1>1, <2>2
<1>2. CASE c \in DOMAIN held
  <2>1. slots = held[c] /\ Filled(slots) \subseteq Nat \ {0}
    BY <1>2, ShownAssumption DEF Slots, Filled
  <2>2. CASE later = {}
    <3>1. s = 0
      BY <2>2 DEF NextSlot
    <3> QED BY <2>1, <2>2, <3>1
  <2>3. CASE later # {}
    <3>1. later \subseteq Nat \ {0} /\ later \subseteq Nat
      BY <2>1
    <3>2. PICK k \in later : \A j \in later : k <= j
      <4> HIDE DEF later
      <4> QED BY <2>3, <3>1, LeastNumber
    <3>3. s = CHOOSE i \in later : \A j \in later : i <= j
      BY <2>3 DEF NextSlot
    <3>4. s \in later /\ \A j \in later : s <= j
      <4> HIDE DEF later
      <4> QED BY <3>2, <3>3
    <3> QED BY <1>2, <2>1, <3>1, <3>4
  <2> QED BY <2>2, <2>3
<1> QED BY <1>1, <1>2

LEMMA Entries ==
    ASSUME NEW slots, NEW i
    PROVE  /\ Entry(slots, i)[1] = Integer(i) /\ Entry(slots, i)[2] = slots[i].key
           /\ Entry(slots, i)[3] = slots[i].val
           /\ SubSeq(Entry(slots, i), 1, 2)[1] = Integer(i)
           /\ SubSeq(Entry(slots, i), 1, 2)[2] = slots[i].key
<1>1. PICK e, x, y, z : e = Entry(slots, i) /\ x = Integer(i) /\ y = slots[i].key /\ z = slots[i].val
  OBVIOUS
<1>2. e = <<x, y, z>>
  BY <1>1 DEF Entry
<1>3. e[1] = x /\ e[2] = y /\ e[3] = z
  BY <1>2
<1>4. SubSeq(e, 1, 2)[1] = e[1] /\ SubSeq(e, 1, 2)[2] = e[2]
  <2>1. \A k \in 1 .. 2 : e[k] \in {x, y}
    BY <1>3
  <2>2. \A k \in 1 .. 2 - 1 + 1 : SubSeq(e, 1, 2)[k] = e[1 + k - 1]
    BY <2>1, SubSeqProperties
  <2> QED BY <2>2
<1> QED BY <1>1, <1>3, <1>4

LEMMA ReachedIs ==
    ASSUME IsCall(Current), NEW at
    PROVE  /\ Reached(at).fn = Current.fn /\ Reached(at).at = at
           /\ Reached(at).iters = Current.iters /\ Reached(at).prefix = Current.prefix
           /\ Reached(at).count = Current.count
BY DEF Reached, IsCall

\* A call that goes on with other iterators, or another count, width or value.
LEMMA ReachedWith ==
    ASSUME IsCall(Current), NEW at, NEW new
    PROVE  LET call == Reached(at) IN
           /\ [call EXCEPT !.iters = new].fn = Current.fn
           /\ [call EXCEPT !.iters = new].at = at /\ [call EXCEPT !.iters = new].iters = new
           /\ [call EXCEPT !.count = new].fn = Current.fn
           /\ [call EXCEPT !.count = new].at = at
           /\ [call EXCEPT !.count = new].iters = Current.iters
           /\ [call EXCEPT !.width = new].fn = Current.fn
           /\ [call EXCEPT !.width = new].at = at
           /\ [call EXCEPT !.width = new].iters = Current.iters
           /\ [call EXCEPT !.value = new].fn = Current.fn
           /\ [call EXCEPT !.value = new].at = at
           /\ [call EXCEPT !.value = new].iters = Current.iters
<1>1. PICK call : call = Reached(at)
  OBVIOUS
<1>2. call = [fn |-> Current.fn, at |-> at, prefix |-> Current.prefix, iters |-> Current.iters,
              width |-> Current.width, value |-> Current.value, count |-> Current.count]
  BY <1>1 DEF Reached, IsCall
<1> QED BY <1>1, <1>2

\* What a function has to find on top when it is called.
LEMMA BeginsWith ==
    ASSUME NEW call, call.at = "begin", call.iters = {}, held' = held, NEW b, NEW v,
           operands'[b] = v,
           \/ call.fn = "ToString" /\ v \in Values
           \/ call.fn = "ToClassFullName" /\ v \in Values /\ Type(v) = "class"
           \/ call.fn = "getClassesFullNameHelper" /\ Type(v) = "table"
    PROVE  CallHas(call, b)' /\ IsFunction(call.fn)
<1>1. Values' = Values
  BY DEF Values
<1>2. CASE call.fn = "ToString"
  BY <1>1, <1>2 DEF CallHas, ToStringHas, IsFunction
<1>3. CASE call.fn = "ToClassFullName"
  BY <1>1, <1>3 DEF CallHas, ToClassFullNameHas, IsFunction
<1>4. CASE call.fn = "getClassesFullNameHelper"
  BY <1>1, <1>4 DEF CallHas, HelperHas, IsFunction
<1> QED BY <1>2, <1>3, <1>4

LEMMA NewCallIs ==
    ASSUME NEW fn
    PROVE  CallOf(fn).fn = fn /\ CallOf(fn).at = "begin" /\ CallOf(fn).iters = {}
           /\ CallOf(fn).prefix = <<>>
BY DEF CallOf

\* The parts of the containers are values.
LEMMA SlotValues ==
    ASSUME NEW c \in DOMAIN held, NEW s \in Filled(held[c])
    PROVE  held[c][s].key \in Values /\ held[c][s].val \in Values
BY DEF Values

\* A step from here keeps the stack up to where the call has begun.
LEMMA SameKeeps ==
    ASSUME operands' = operands, NEW h
    PROVE  Keeps(h)
BY DEF Keeps

LEMMA ChildVariableShowing ==
    ASSUME ShowInv, StackInv', held' = held, CreateChildVariableStep
    PROVE  ShowInv'
<1>0. PICK b : b = Began[Len(calls)]
  OBVIOUS
<1>1. CASE ShowValue
  <2>0. PICK call, callee : call = Reached("shown") /\ callee = CallOf("ToString")
    OBVIOUS
  <2>1. Where("CreateChildVariable", "begin") /\ CallFrom(call, callee) /\ operands' = operands
    BY <1>1, <2>0 DEF ShowValue
  <2>2. /\ mode = "running" /\ IsCall(Current) /\ Current.fn = "CreateChildVariable"
        /\ b \in Nat \ {0} /\ CallHas(Current, b)
    BY <1>0, <2>1, Here
  <2>3. call.fn = "CreateChildVariable" /\ call.at = "shown"
    BY <2>0, <2>2, ReachedIs
  <2>4. /\ callee.fn = "ToString" /\ callee.at = "begin" /\ callee.iters = {}
        /\ IsFunction(callee.fn)
    BY <2>0, NewCallIs DEF IsFunction
  <2>5. Keeps(b) /\ operands[b] \in Subjects /\ operands[b] \in Values
    BY <2>1, <2>2, SameKeeps DEF CallHas, CreateHas, Values
  <2>6. CallHas(call, b)'
    BY <2>1, <2>3, <2>5 DEF CallHas, CreateHas
  <2>7. b + Owes(call) = b
    <3>1. Owes(call) = 0
      BY <2>3 DEF Owes
    <3> QED BY <2>2, <3>1
  <2>8. CallHas(callee, b)'
    BY <2>1, <2>4, <2>5, BeginsWith
  <2>9. Follows(call, callee)
    BY <2>3, <2>4 DEF Follows
  <2> QED BY <1>0, <2>1, <2>2, <2>3, <2>4, <2>5, <2>6, <2>7, <2>8, <2>9, CallsShowing
<1>2. CASE ShowClass
  <2>0. PICK call, callee : call = Reached("named") /\ callee = CallOf("ToClassFullName")
    OBVIOUS
  <2>1. /\ Where("CreateChildVariable", "shown") /\ CallFrom(call, callee)
        /\ Type(Top) = "instance" /\ operands' = Push(operands, ClassOf[Top])
    BY <1>2, <2>0 DEF ShowClass
  <2>2. /\ mode = "running" /\ IsCall(Current) /\ Current.fn = "CreateChildVariable"
        /\ b \in Nat \ {0} /\ CallHas(Current, b) /\ Owes(Current) = 0
        /\ IsSeq(operands) /\ Len(operands) = b /\ Top = operands[b]
    <3>1. /\ mode = "running" /\ IsCall(Current) /\ Current.fn = "CreateChildVariable"
          /\ Current.at = "shown" /\ b \in Nat \ {0} /\ CallHas(Current, b)
          /\ IsSeq(operands) /\ Len(operands) = b + Owes(Current)
          /\ Top = operands[b + Owes(Current)]
      BY <1>0, <2>1, Here
    <3>2. Owes(Current) = 0 /\ b + 0 = b
      BY <3>1 DEF Owes
    <3> QED BY <3>1, <3>2
  <2>3. call.fn = "CreateChildVariable" /\ call.at = "named"
    BY <2>0, <2>2, ReachedIs
  <2>4. /\ callee.fn = "ToClassFullName" /\ callee.at = "begin" /\ callee.iters = {}
        /\ IsFunction(callee.fn)
    BY <2>0, NewCallIs DEF IsFunction
  <2>5. PICK v : v = ClassOf[Top]
    OBVIOUS
  <2>6. Keeps(b) /\ operands'[b + 1] = v /\ operands'[b] = operands[b]
    <3>1. Keeps(b) /\ operands'[b + 1] = v
      BY <2>1, <2>2, <2>5, PushKeepsAll
    <3>2. b \in 1 .. b
      BY <2>2
    <3> QED BY <3>1, <3>2 DEF Keeps
  <2>7. operands[b] \in Subjects
    BY <2>2 DEF CallHas, CreateHas
  <2>8. v \in Values /\ Type(v) = "class" /\ Values' = Values
    BY <2>1, <2>2, <2>5, <2>7, ShownAssumption DEF Values, Range
  <2>9. CallHas(call, b)'
    BY <2>3, <2>6, <2>7, <2>8 DEF CallHas, CreateHas
  <2>10. b + Owes(call) = b + 1
    BY <2>3 DEF Owes
  <2>11. CallHas(callee, b + 1)'
    <3>1. PICK c : c = b + 1
      OBVIOUS
    <3>2. CallHas(callee, c)'
      BY <2>4, <2>6, <2>8, <3>1, BeginsWith
    <3> QED BY <3>1, <3>2
  <2>12. Follows(call, callee)
    BY <2>3, <2>4 DEF Follows
  <2> QED BY <1>0, <2>1, <2>2, <2>3, <2>4, <2>6, <2>9, <2>10, <2>11, <2>12, CallsShowing
<1>3. CASE ClassShown
  <2>0. PICK call : call = Reached("counting")
    OBVIOUS
  <2>1. Where("CreateChildVariable", "named") /\ GoOn(call) /\ operands' = Pop(operands, 1)
    BY <1>3, <2>0 DEF ClassShown
  <2>2. /\ mode = "running" /\ IsCall(Current) /\ Current.fn = "CreateChildVariable"
        /\ b \in Nat \ {0} /\ CallHas(Current, b) /\ IsSeq(operands)
        /\ Len(operands) - 1 = b /\ 1 <= Len(operands)
    <3>1. /\ mode = "running" /\ IsCall(Current) /\ Current.fn = "CreateChildVariable"
          /\ Current.at = "named" /\ b \in Nat \ {0} /\ CallHas(Current, b)
          /\ IsSeq(operands) /\ Len(operands) = b + Owes(Current)
      BY <1>0, <2>1, Here
    <3>2. Owes(Current) = 1
      BY <3>1 DEF Owes
    <3> QED BY <3>1, <3>2
  <2>3. call.fn = "CreateChildVariable" /\ call.at = "counting"
    BY <2>0, <2>2, ReachedIs
  <2>4. Keeps(b)
    BY <2>1, <2>2, PopKeeps
  <2>5. operands'[b] = operands[b]
    BY <2>2, <2>4 DEF Keeps
  <2>6. CallHas(call, b)'
    BY <2>2, <2>3, <2>5 DEF CallHas, CreateHas
  <2> QED BY <1>0, <2>1, <2>2, <2>3, <2>4, <2>6, GoesOnShowing
<1>4. CASE CountChildren
  BY <1>4 DEF CountChildren, ShowInv
<1> QED BY <1>1, <1>2, <1>3, <1>4 DEF CreateChildVariableStep

-----------------------------------------------------------------------------
(* ToString *)

LEMMA RenderValueShowing ==
    ASSUME ShowInv, StackInv', held' = held, RenderValue
    PROVE  ShowInv'
<1>0. PICK b : b = Began[Len(calls)]
  OBVIOUS
<1>1. Where("ToString", "begin") /\ operands' = operands
  BY DEF RenderValue
<1>2. /\ mode = "running" /\ IsCall(Current) /\ Current.fn = "ToString"
      /\ b \in Nat \ {0} /\ CallHas(Current, b) /\ Len(calls) # 1
      /\ Top = operands[b] /\ Keeps(b)
  <2>1. /\ mode = "running" /\ IsCall(Current) /\ Current.fn = "ToString"
        /\ Current.at = "begin" /\ b \in Nat \ {0} /\ CallHas(Current, b) /\ Len(calls) # 1
        /\ Top = operands[b + Owes(Current)]
    BY <1>0, <1>1, Here
  <2>2. b + Owes(Current) = b
    BY <2>1 DEF Owes
  <2> QED BY <1>1, <2>1, <2>2, SameKeeps
<1>3. ToStringHas(Current, b) /\ operands[b] \in Values /\ Values' = Values
  BY <1>2 DEF CallHas, ToStringHas, Values
<1>4. CASE Type(Top) = "class"
  <2>0. PICK call, callee : call = Reached("named") /\ callee = CallOf("ToClassFullName")
    OBVIOUS
  <2>1. CallFrom(call, callee)
    BY <1>4, <2>0 DEF RenderValue
  <2>2. call.fn = "ToString" /\ call.at = "named" /\ call.iters = Current.iters
    BY <1>2, <2>0, ReachedIs
  <2>3. /\ callee.fn = "ToClassFullName" /\ callee.at = "begin" /\ callee.iters = {}
        /\ IsFunction(callee.fn)
    BY <2>0, NewCallIs DEF IsFunction
  <2>4. CallHas(call, b)'
    BY <1>1, <1>2, <1>3, <1>4, <2>2 DEF CallHas, ToStringHas
  <2>5. b + Owes(call) = b
    <3>1. Owes(call) = 0
      BY <2>2 DEF Owes
    <3> QED BY <1>2, <3>1
  <2>6. CallHas(callee, b)'
    BY <1>1, <1>2, <1>3, <1>4, <2>3, BeginsWith
  <2>7. Follows(call, callee)
    BY <2>2, <2>3 DEF Follows
  <2> QED BY <1>0, <1>2, <2>1, <2>2, <2>3, <2>4, <2>5, <2>6, <2>7, CallsShowing
<1>5. CASE Type(Top) \in {"table", "instance"}
  <2>0. PICK call : call = Reached("summary")
    OBVIOUS
  <2>1. GoOn(call)
    BY <1>5, <2>0 DEF RenderValue
  <2>2. call.fn = "ToString" /\ call.at = "summary" /\ call.iters = Current.iters
    BY <1>2, <2>0, ReachedIs
  <2>3. CallHas(call, b)'
    BY <1>1, <1>2, <1>3, <2>2 DEF CallHas, ToStringHas
  <2> QED BY <1>0, <1>2, <2>1, <2>2, <2>3, GoesOnShowing
<1>6. CASE Type(Top) \notin {"class", "table", "instance"}
  <2>1. Returns(WidthOf[Top])
    BY <1>6 DEF RenderValue
  <2> QED BY <1>0, <1>2, <2>1, ReturnsShowing
<1> QED BY <1>4, <1>5, <1>6

\* A summary goes on with the same container below whatever it has pushed.
LEMMA SummaryHas ==
    ASSUME held' = held, NEW b \in Nat \ {0}, CallHas(Current, b), Current.fn = "ToString", Keeps(b),
           NEW call, call.fn = "ToString",
           \A iter \in call.iters :
              iter \in Current.iters \/ NextSlot(Slots(held, operands[b]), iter) # 0,
           call.at \in {"keys", "keyRendered"} => \E s \in Nat : operands'[b + 1] = Integer(s),
           \/ call.at \in {"summary", "keys", "slots", "sorted"}
           \/ /\ call.at \in {"keyRendered", "field"}
              /\ \E s \in Nat : \E val : InSlot(operands[b], s, operands'[b + 2], val)
           \/ /\ call.at = "value"
              /\ \E s \in Nat : InSlot(operands[b], s, operands'[b + 2], operands'[b + 3])
    PROVE  CallHas(call, b)'
<1>1. operands'[b] = operands[b]
  BY DEF Keeps
<1>2. Values' = Values
  BY DEF Values
<1>3. \A c, s, key, val : InSlot(c, s, key, val)' = InSlot(c, s, key, val)
  BY DEF InSlot
<1>4. operands[b] \in Values /\ \A iter \in Current.iters : NextSlot(Slots(held, operands[b]), iter) # 0
  BY DEF CallHas, ToStringHas
<1>5. \A iter \in call.iters : NextSlot(Slots(held', operands'[b]), iter) # 0
  BY <1>1, <1>4
<1>6. call.at \in {"keyRendered", "field"} =>
         \E s \in Nat : \E val : InSlot(operands[b], s, operands'[b + 2], val)
  OBVIOUS
<1>7. call.at = "value" => \E s \in Nat : InSlot(operands[b], s, operands'[b + 2], operands'[b + 3])
  OBVIOUS
<1>8. call.at # "named"
  OBVIOUS
<1>9. ToStringHas(call, b)'
  BY <1>1, <1>2, <1>3, <1>4, <1>5, <1>6, <1>7, <1>8 DEF ToStringHas
<1> QED BY <1>9 DEF CallHas

\* Where a summary is that has pushed nothing, an iterator, a slot's key, or a slot.
LEMMA HereInSummary ==
    ASSUME ShowInv, NEW at, Where("ToString", at), NEW b, b = Began[Len(calls)], NEW k,
           \/ at \in {"summary", "sorted"} /\ k = 0
           \/ at \in {"keys", "slots"} /\ k = 1
           \/ at \in {"keyRendered", "field"} /\ k = 2
           \/ at = "value" /\ k = 3
    PROVE  /\ mode = "running" /\ held \in HeapsToShow /\ Len(calls) # 1
           /\ IsCall(Current) /\ Current.fn = "ToString" /\ Current.at = at
           /\ b \in Nat \ {0} /\ CallHas(Current, b) /\ ToStringHas(Current, b)
           /\ IsSeq(operands) /\ Len(operands) = b + k /\ Top = operands[b + k]
           /\ At(operands, -2) = operands[b + k - 1]
<1>1. Current.fn = "ToString" /\ Current.at = at
  BY Here
<1>2. Owes(Current) = k
  BY <1>1 DEF Owes
<1>3. ToStringHas(Current, b)
  BY <1>1, Here DEF CallHas
<1> QED BY <1>1, <1>2, <1>3, Here

LEMMA StartSummaryShowing ==
    ASSUME ShowInv, StackInv', held' = held, StartSummary
    PROVE  ShowInv'
<1>0. PICK b, at, call : /\ b = Began[Len(calls)] /\ call = Reached(at)
                         /\ at = IF Sorts(Top) THEN "keys" ELSE "slots"
  OBVIOUS
<1>1. Where("ToString", "summary") /\ operands' = Push(operands, Integer(0)) /\ GoOn(call)
  BY <1>0 DEF StartSummary
<1>2. /\ mode = "running" /\ IsCall(Current) /\ Current.fn = "ToString"
      /\ b \in Nat \ {0} /\ CallHas(Current, b) /\ IsSeq(operands) /\ Len(operands) = b + 0
  BY <1>0, <1>1, HereInSummary
<1>3. call.fn = "ToString" /\ call.at \in {"keys", "slots"} /\ call.iters = Current.iters
  BY <1>0, <1>2, ReachedIs
<1>4. Len(operands) = b
  BY <1>2
<1>5. Keeps(b) /\ operands'[b + 1] = Integer(0)
  BY <1>1, <1>2, <1>4, PushKeepsAll
<1>6. CallHas(call, b)'
  BY <1>2, <1>3, <1>5, SummaryHas
<1> QED BY <1>0, <1>1, <1>2, <1>3, <1>5, <1>6, GoesOnShowing

\* A slot, or its key, is pushed above what is left after n pops.
PushesSlot(n, slots, s) == operands' = Pop(operands, n) \o Entry(slots, s)
PushesKey(n, slots, s)  == operands' = Pop(operands, n) \o SubSeq(Entry(slots, s), 1, 2)

LEMMA PushSlot ==
    ASSUME IsSeq(operands), NEW n \in Nat, NEW b \in Nat, Len(operands) = b + n,
           NEW slots, NEW s, PushesSlot(n, slots, s)
    PROVE  /\ Keeps(b) /\ operands'[b + 1] = Integer(s)
           /\ operands'[b + 2] = slots[s].key /\ operands'[b + 3] = slots[s].val
<1>1. PICK pushed : pushed = Entry(slots, s)
  OBVIOUS
<1>2. IsSeq(pushed) /\ Len(pushed) = 3 /\ operands' = Pop(operands, n) \o pushed
  BY <1>1, EntryLength DEF PushesSlot
<1>3. Len(operands) - n = b /\ n <= Len(operands)
  OBVIOUS
<1>4. /\ Keeps(Len(operands) - n)
      /\ \A k \in 1 .. Len(pushed) : operands'[Len(operands) - n + k] = pushed[k]
  BY ONLY IsSeq(operands), n \in Nat, <1>2, <1>3, PushKeeps
<1>5. \A k \in 1 .. 3 : operands'[b + k] = pushed[k]
  BY ONLY <1>2, <1>3, <1>4
<1>6. operands'[b + 1] = pushed[1] /\ operands'[b + 2] = pushed[2] /\ operands'[b + 3] = pushed[3]
  BY ONLY <1>5
<1> QED BY <1>1, <1>3, <1>4, <1>6, Entries

LEMMA PushKey ==
    ASSUME IsSeq(operands), NEW n \in Nat, NEW b \in Nat, Len(operands) = b + n,
           NEW slots, NEW s, PushesKey(n, slots, s)
    PROVE  Keeps(b) /\ operands'[b + 1] = Integer(s) /\ operands'[b + 2] = slots[s].key
<1>1. PICK pushed : pushed = SubSeq(Entry(slots, s), 1, 2)
  OBVIOUS
<1>2. IsSeq(pushed) /\ Len(pushed) = 2 /\ operands' = Pop(operands, n) \o pushed
  BY <1>1, EntryLength DEF PushesKey
<1>3. Len(operands) - n = b /\ n <= Len(operands)
  OBVIOUS
<1>4. /\ Keeps(Len(operands) - n)
      /\ \A k \in 1 .. Len(pushed) : operands'[Len(operands) - n + k] = pushed[k]
  BY ONLY IsSeq(operands), n \in Nat, <1>2, <1>3, PushKeeps
<1>5. \A k \in 1 .. 2 : operands'[b + k] = pushed[k]
  BY ONLY <1>2, <1>3, <1>4
<1>6. operands'[b + 1] = pushed[1] /\ operands'[b + 2] = pushed[2]
  BY ONLY <1>5
<1>7. pushed[1] = Integer(s) /\ pushed[2] = slots[s].key
  BY ONLY <1>1, Entries
<1> QED BY ONLY <1>3, <1>4, <1>6, <1>7

LEMMA NextKeyShowing ==
    ASSUME ShowInv, StackInv', held' = held, NextKey
    PROVE  ShowInv'
<1>0. PICK b, c, s, iter, call, callee :
         /\ b = Began[Len(calls)] /\ c = operands[b] /\ s = NextOfContainer /\ iter = Top[2]
         /\ call = [Reached("keyRendered") EXCEPT !.iters = Current.iters \cup {iter}]
         /\ callee = CallOf("ToString")
  OBVIOUS
<1>1. Where("ToString", "keys") /\ s # 0 /\ CallFrom(call, callee)
  <2>1. /\ Where("ToString", "keys") /\ s # 0
        /\ CallFrom([Reached("keyRendered") EXCEPT !.iters = @ \cup {Top[2]}], CallOf("ToString"))
    BY <1>0 DEF NextKey
  <2>2. Reached("keyRendered").iters = Current.iters
    BY <1>0, <2>1, HereInSummary, ReachedIs
  <2> QED BY <1>0, <2>1, <2>2
<1>2. /\ mode = "running" /\ held \in HeapsToShow /\ IsCall(Current) /\ Current.fn = "ToString"
      /\ Current.at = "keys" /\ b \in Nat \ {0} /\ CallHas(Current, b) /\ ToStringHas(Current, b)
      /\ IsSeq(operands) /\ Len(operands) = b + 1 /\ Top = operands[b + 1]
      /\ At(operands, -2) = c
  <2>1. /\ mode = "running" /\ held \in HeapsToShow /\ IsCall(Current) /\ Current.fn = "ToString"
        /\ Current.at = "keys" /\ b \in Nat \ {0} /\ CallHas(Current, b) /\ ToStringHas(Current, b)
        /\ IsSeq(operands) /\ Len(operands) = b + 1 /\ Top = operands[b + 1]
        /\ At(operands, -2) = operands[b + 1 - 1]
    BY <1>0, <1>1, HereInSummary
  <2>2. b + 1 - 1 = b
    BY <2>1
  <2> QED BY <1>0, <2>1, <2>2
<1>3. call.fn = "ToString" /\ call.at = "keyRendered" /\ call.iters = Current.iters \cup {iter}
  BY <1>0, <1>2, ReachedWith
<1>4. PICK i \in Nat : Top = Integer(i)
  BY <1>2 DEF ToStringHas
<1>5. iter = i /\ s = NextSlot(Slots(held, c), iter)
  BY <1>0, <1>2, <1>4 DEF NextOfContainer, Integer, Null
<1>6. /\ c \in DOMAIN held /\ s \in Filled(held[c]) /\ s \in Nat \ {0} /\ Slots(held, c) = held[c]
  BY <1>1, <1>2, <1>5, NextSlotIs
<1>7. PICK key, val : key = held[c][s].key /\ val = held[c][s].val
  OBVIOUS
<1>8. key \in Values
  BY <1>6, <1>7, SlotValues
<1>9. Keeps(b) /\ operands'[b + 1] = Integer(s) /\ operands'[b + 2] = key
  <2>1. operands' = Pop(operands, 1)
           \o SubSeq(Entry(Slots(held, At(operands, -2)), NextOfContainer), 1, 2)
    BY DEF NextKey
  <2>2. Slots(held, At(operands, -2)) = held[c] /\ NextOfContainer = s
    BY <1>0, <1>2, <1>6
  <2>3. PushesKey(1, held[c], s)
    BY <2>1, <2>2 DEF PushesKey
  <2> QED BY <1>2, <1>7, <2>3, PushKey
<1>10. CallHas(call, b)'
  <2>1. s \in Nat /\ InSlot(operands[b], s, operands'[b + 2], val)
    BY <1>0, <1>6, <1>7, <1>9 DEF InSlot
  <2>2. \A j \in call.iters : j \in Current.iters \/ NextSlot(Slots(held, operands[b]), j) # 0
    BY <1>0, <1>1, <1>3, <1>5
  <2>3. \E j \in Nat : operands'[b + 1] = Integer(j)
    BY <1>9, <2>1
  <2>4. \E j \in Nat : \E v : InSlot(operands[b], j, operands'[b + 2], v)
    BY <2>1
  <2> QED BY <1>2, <1>3, <1>9, <2>2, <2>3, <2>4, SummaryHas
<1>11. b + Owes(call) = b + 2
  BY <1>3 DEF Owes
<1>12. callee.fn = "ToString" /\ callee.at = "begin" /\ callee.iters = {} /\ IsFunction(callee.fn)
  BY <1>0, NewCallIs DEF IsFunction
<1>13. CallHas(callee, b + 2)'
  <2>1. PICK d : d = b + 2
    OBVIOUS
  <2>2. CallHas(callee, d)'
    BY <1>8, <1>9, <1>12, <2>1, BeginsWith
  <2> QED BY <2>1, <2>2
<1>14. Follows(call, callee)
  BY <1>3, <1>12 DEF Follows
<1> QED BY <1>0, <1>1, <1>2, <1>3, <1>9, <1>10, <1>11, <1>12, <1>13, <1>14, CallsShowing

\* A summary that pops goes on, or returns.
LEMMA PopsAndGoesOn ==
    ASSUME ShowInv, StackInv', held' = held, NEW at, Where("ToString", at), NEW k \in 1 .. 3,
           \/ at \in {"keys", "slots"} /\ k = 1
           \/ at \in {"keyRendered", "field"} /\ k = 2
           \/ at = "value" /\ k = 3,
           NEW n \in Nat, n <= k, operands' = Pop(operands, n),
           NEW call, GoOn(call), call.fn = "ToString", call.iters = Current.iters,
           \/ call.at \in {"slots", "sorted"}
           \/ call.at = "keys" /\ at = "keyRendered" /\ n = 1
    PROVE  ShowInv'
<1>0. PICK b : b = Began[Len(calls)]
  OBVIOUS
<1>1. /\ mode = "running" /\ IsCall(Current) /\ Current.fn = "ToString" /\ Current.at = at
      /\ b \in Nat \ {0} /\ CallHas(Current, b) /\ ToStringHas(Current, b)
      /\ IsSeq(operands) /\ Len(operands) = b + k
  BY <1>0, HereInSummary
<1>2. Len(operands) - n >= b /\ Len(operands) - n \in Nat /\ n <= Len(operands)
  BY <1>1
<1>3. Keeps(Len(operands) - n)
  BY <1>1, <1>2, PopKeeps
<1>4. Keeps(b)
  BY <1>1, <1>2, <1>3 DEF Keeps
<1>5. call.at = "keys" => \E s \in Nat : operands'[b + 1] = Integer(s)
  <2> SUFFICES ASSUME call.at = "keys" PROVE \E s \in Nat : operands'[b + 1] = Integer(s)
    OBVIOUS
  <2>1. at = "keyRendered" /\ n = 1 /\ k = 2
    OBVIOUS
  <2>2. \E s \in Nat : operands[b + 1] = Integer(s)
    BY <1>1, <2>1 DEF ToStringHas
  <2>3. b + 1 \in 1 .. Len(operands) - n
    BY <1>1, <2>1
  <2> QED BY <1>3, <2>2, <2>3 DEF Keeps
<1>6. CallHas(call, b)'
  BY <1>1, <1>4, <1>5, SummaryHas
<1> QED BY <1>0, <1>1, <1>4, <1>6, GoesOnShowing

\* A field is pushed for the container c, whose next slot is s, and its value rendered.
LEMMA FieldPushed ==
    ASSUME ShowInv, StackInv', held' = held, NEW at, Where("ToString", at), NEW n,
           (at = "sorted" /\ n = 0) \/ (at = "slots" /\ n = 1),
           NEW s, s # 0, NEW iter,
           s = NextSlot(Slots(held, operands[Began[Len(calls)]]), iter),
           PushesSlot(n, Slots(held, operands[Began[Len(calls)]]), s),
           NEW call, call.fn = "ToString", call.at = "value", call.iters \subseteq Current.iters,
           CallFrom(call, CallOf("ToString"))
    PROVE  ShowInv'
<1>0. PICK b, c, callee : /\ b = Began[Len(calls)] /\ c = operands[b]
                          /\ callee = CallOf("ToString")
  OBVIOUS
<1>1. /\ mode = "running" /\ held \in HeapsToShow /\ IsCall(Current) /\ Current.fn = "ToString"
      /\ b \in Nat \ {0} /\ CallHas(Current, b) /\ IsSeq(operands) /\ Len(operands) = b + n
  BY <1>0, HereInSummary
<1>2. /\ c \in DOMAIN held /\ s \in Filled(held[c]) /\ s \in Nat \ {0} /\ Slots(held, c) = held[c]
  BY <1>0, <1>1, NextSlotIs
<1>3. PICK key, val : key = held[c][s].key /\ val = held[c][s].val
  OBVIOUS
<1>4. val \in Values
  BY <1>2, <1>3, SlotValues
<1>5. Keeps(b) /\ operands'[b + 2] = key /\ operands'[b + 3] = val
  <2>1. PushesSlot(n, held[c], s) /\ n \in Nat
    BY <1>0, <1>2
  <2> QED BY <1>1, <1>3, <2>1, PushSlot
<1>6. CallHas(call, b)'
  <2>1. s \in Nat /\ InSlot(operands[b], s, operands'[b + 2], operands'[b + 3])
    BY <1>0, <1>2, <1>3, <1>5 DEF InSlot
  <2>2. \E j \in Nat : InSlot(operands[b], j, operands'[b + 2], operands'[b + 3])
    BY <2>1
  <2> QED BY <1>1, <1>5, <2>2, SummaryHas
<1>7. b + Owes(call) = b + 3
  BY DEF Owes
<1>8. callee.fn = "ToString" /\ callee.at = "begin" /\ callee.iters = {} /\ IsFunction(callee.fn)
  BY <1>0, NewCallIs DEF IsFunction
<1>9. CallHas(callee, b + 3)'
  <2>1. PICK d : d = b + 3
    OBVIOUS
  <2>2. CallHas(callee, d)'
    BY <1>4, <1>5, <1>8, <2>1, BeginsWith
  <2> QED BY <2>1, <2>2
<1>10. Follows(call, callee)
  BY <1>8 DEF Follows
<1> QED BY <1>0, <1>1, <1>5, <1>6, <1>7, <1>8, <1>9, <1>10, CallsShowing

LEMMA NextSortedFieldShowing ==
    ASSUME ShowInv, StackInv', held' = held, NextSortedField
    PROVE  ShowInv'
<1>0. PICK b, c : b = Began[Len(calls)] /\ c = operands[b]
  OBVIOUS
<1>1. Where("ToString", "sorted")
  BY DEF NextSortedField
<1>2. IsCall(Current) /\ Current.fn = "ToString" /\ ToStringHas(Current, b) /\ Top = c
  <2>1. /\ IsCall(Current) /\ Current.fn = "ToString" /\ ToStringHas(Current, b)
        /\ Top = operands[b + 0] /\ b \in Nat
    BY <1>0, <1>1, HereInSummary
  <2>2. b + 0 = b
    BY <2>1
  <2> QED BY <1>0, <2>1, <2>2
<1>3. PICK iter \in Current.iters :
         /\ operands' = operands \o Entry(Slots(held, Top), NextSlot(Slots(held, Top), iter))
         /\ CallFrom([Reached("value") EXCEPT !.iters = @ \ {iter}], CallOf("ToString"))
  BY DEF NextSortedField
<1>4. PICK s, call : /\ s = NextSlot(Slots(held, c), iter)
                     /\ call = [Reached("value") EXCEPT !.iters = Current.iters \ {iter}]
  OBVIOUS
<1>5. s # 0
  BY <1>0, <1>2, <1>4 DEF ToStringHas
<1>6. PushesSlot(0, Slots(held, c), s)
  <2>1. Pop(operands, 0) = operands
    BY PopNone DEF ShowInv, StackInv
  <2> QED BY <1>2, <1>3, <1>4, <2>1 DEF PushesSlot
<1>7. /\ call.fn = "ToString" /\ call.at = "value" /\ call.iters \subseteq Current.iters
      /\ CallFrom(call, CallOf("ToString"))
  <2>1. Reached("value").iters = Current.iters
    BY <1>2, ReachedIs
  <2>2. CallFrom(call, CallOf("ToString"))
    BY <1>3, <1>4, <2>1
  <2>3. call.fn = "ToString" /\ call.at = "value" /\ call.iters = Current.iters \ {iter}
    BY <1>2, <1>4, ReachedWith
  <2> QED BY <2>2, <2>3
<1> QED BY <1>0, <1>1, <1>4, <1>5, <1>6, <1>7, FieldPushed

LEMMA NextFieldShowing ==
    ASSUME ShowInv, StackInv', held' = held, NextField
    PROVE  ShowInv'
<1>0. PICK b, c, s, iter, call :
         /\ b = Began[Len(calls)] /\ c = operands[b] /\ s = NextOfContainer
         /\ iter = IF Top = Null THEN 0 ELSE Top[2]
         /\ call = [Reached("value") EXCEPT !.count = Current.count + 1]
  OBVIOUS
<1>1. Where("ToString", "slots") /\ s # 0
  BY <1>0 DEF NextField
<1>2. IsCall(Current) /\ Current.fn = "ToString" /\ At(operands, -2) = c
  <2>1. /\ IsCall(Current) /\ Current.fn = "ToString" /\ b \in Nat
        /\ At(operands, -2) = operands[b + 1 - 1]
    BY <1>0, <1>1, HereInSummary
  <2>2. b + 1 - 1 = b
    BY <2>1
  <2> QED BY <1>0, <2>1, <2>2
<1>3. s = NextSlot(Slots(held, c), iter)
  BY <1>0, <1>2 DEF NextOfContainer
<1>4. PushesSlot(1, Slots(held, c), s)
  BY <1>0, <1>2 DEF NextField, PushesSlot
<1>5. /\ call.fn = "ToString" /\ call.at = "value" /\ call.iters \subseteq Current.iters
      /\ CallFrom(call, CallOf("ToString"))
  <2>1. Reached("value").count = Current.count
    BY <1>2, ReachedIs
  <2>2. CallFrom(call, CallOf("ToString"))
    BY <1>0, <2>1 DEF NextField
  <2>3. call.fn = "ToString" /\ call.at = "value" /\ call.iters = Current.iters
    BY <1>0, <1>2, ReachedWith
  <2> QED BY <2>2, <2>3
<1>6. /\ PushesSlot(1, Slots(held, operands[Began[Len(calls)]]), s)
      /\ s = NextSlot(Slots(held, operands[Began[Len(calls)]]), iter)
  BY <1>0, <1>3, <1>4
<1> QED BY <1>1, <1>5, <1>6, FieldPushed

LEMMA BackToLoopShowing ==
    ASSUME ShowInv, StackInv', held' = held, NEW at, Where("ToString", at), NEW pops,
           (at = "field" /\ pops = 1) \/ (at = "value" /\ pops = 2),
           NEW width, BackToLoop(pops, width)
    PROVE  ShowInv'
<1>0. PICK place, more, call :
         /\ place = IF Current.count = 0 THEN "sorted" ELSE "slots"
         /\ more = IF Current.count = 0 THEN 1 ELSE 0
         /\ call = [Reached(place) EXCEPT !.width = width]
  OBVIOUS
<1>1. GoOn(call) /\ operands' = Pop(operands, pops + more)
  BY <1>0 DEF BackToLoop
<1>2. IsCall(Current) /\ Current.fn = "ToString"
  BY Here
<1>3. call.fn = "ToString" /\ call.at \in {"slots", "sorted"} /\ call.iters = Current.iters
  BY <1>0, <1>2, ReachedWith
<1>4. PICK n, k : n = pops + more /\ k = pops + 1
  OBVIOUS
<1>5. n \in Nat /\ n <= k /\ k \in 1 .. 3 /\ ((at = "field" /\ k = 2) \/ (at = "value" /\ k = 3))
  BY <1>0, <1>4
<1> QED BY <1>1, <1>3, <1>4, <1>5, PopsAndGoesOn

LEMMA ValueRenderedShowing ==
    ASSUME ShowInv, StackInv', held' = held, ValueRendered
    PROVE  ShowInv'
<1>0. PICK b, call, callee :
         /\ b = Began[Len(calls)] /\ call = [Reached("field") EXCEPT !.value = result]
         /\ callee = CallOf("ToString")
  OBVIOUS
<1>1. Where("ToString", "value") /\ CallFrom(call, callee) /\ operands' = Pop(operands, 1)
  BY <1>0 DEF ValueRendered
<1>2. /\ mode = "running" /\ held \in HeapsToShow /\ IsCall(Current) /\ Current.fn = "ToString"
      /\ Current.at = "value" /\ b \in Nat \ {0} /\ CallHas(Current, b) /\ ToStringHas(Current, b)
      /\ IsSeq(operands) /\ Len(operands) = b + 3
  BY <1>0, <1>1, HereInSummary
<1>3. call.fn = "ToString" /\ call.at = "field" /\ call.iters = Current.iters
  BY <1>0, <1>2, ReachedWith
<1>4. PICK s \in Nat : InSlot(operands[b], s, operands[b + 2], operands[b + 3])
  BY <1>2 DEF ToStringHas
<1>5. Keeps(b) /\ operands'[b + 2] = operands[b + 2]
  <2>1. Len(operands) - 1 = b + 2 /\ 1 <= Len(operands)
    BY <1>2
  <2>2. Keeps(b + 2)
    BY <1>1, <1>2, <2>1, PopKeeps
  <2>3. b + 2 \in 1 .. b + 2 /\ \A k \in 1 .. b : k \in 1 .. b + 2
    BY <1>2
  <2> QED BY <2>2, <2>3 DEF Keeps
<1>6. CallHas(call, b)'
  <2>1. \E j \in Nat : \E val : InSlot(operands[b], j, operands'[b + 2], val)
    BY <1>4, <1>5
  <2> QED BY <1>2, <1>3, <1>5, <2>1, SummaryHas
<1>7. b + Owes(call) = b + 2
  BY <1>3 DEF Owes
<1>8. callee.fn = "ToString" /\ callee.at = "begin" /\ callee.iters = {} /\ IsFunction(callee.fn)
  BY <1>0, NewCallIs DEF IsFunction
<1>9. CallHas(callee, b + 2)'
  <2>1. PICK d, v : d = b + 2 /\ v = operands[b + 2]
    OBVIOUS
  <2>2. v \in Values
    BY <1>4, <2>1, SlotValues DEF InSlot
  <2>3. CallHas(callee, d)'
    BY <1>5, <1>8, <2>1, <2>2, BeginsWith
  <2> QED BY <2>1, <2>3
<1>10. Follows(call, callee)
  BY <1>3, <1>8 DEF Follows
<1> QED BY <1>0, <1>1, <1>2, <1>3, <1>5, <1>6, <1>7, <1>8, <1>9, <1>10, CallsShowing

LEMMA ToStringShowing ==
    ASSUME ShowInv, StackInv', held' = held, ToStringStep
    PROVE  ShowInv'
<1>0. PICK b : b = Began[Len(calls)]
  OBVIOUS
<1>1. CASE RenderValue
  BY <1>1, RenderValueShowing
<1>2. CASE ClassRendered
  <2>1. Where("ToString", "named") /\ Returns(2 * Len(result) - 1) /\ operands' = operands
    BY <1>2 DEF ClassRendered
  <2>2. mode = "running" /\ Len(calls) # 1
    BY <2>1, Here
  <2> QED BY <2>1, <2>2, SameKeeps, ReturnsShowing
<1>3. CASE StartSummary
  BY <1>3, StartSummaryShowing
<1>4. CASE NextKey
  BY <1>4, NextKeyShowing
<1>5. CASE KeyRendered
  <2>0. PICK call : call = Reached("keys")
    OBVIOUS
  <2>1. Where("ToString", "keyRendered") /\ GoOn(call) /\ operands' = Pop(operands, 1)
    BY <1>5, <2>0 DEF KeyRendered
  <2>2. call.fn = "ToString" /\ call.at = "keys" /\ call.iters = Current.iters
    BY <2>0, <2>1, Here, ReachedIs
  <2> QED BY <2>1, <2>2, PopsAndGoesOn
<1>6. CASE SortKeys
  <2>0. PICK call : call = Reached("sorted")
    OBVIOUS
  <2>1. Where("ToString", "keys") /\ GoOn(call) /\ operands' = Pop(operands, 1)
    BY <1>6, <2>0 DEF SortKeys
  <2>2. call.fn = "ToString" /\ call.at = "sorted" /\ call.iters = Current.iters
    BY <2>0, <2>1, Here, ReachedIs
  <2> QED BY <2>1, <2>2, PopsAndGoesOn
<1>7. CASE NextSortedField
  BY <1>7, NextSortedFieldShowing
<1>8. CASE NextField
  BY <1>8, NextFieldShowing
<1>9. CASE LeaveOutField
  BY <1>9, BackToLoopShowing DEF LeaveOutField
<1>10. CASE ValueRendered
  BY <1>10, ValueRenderedShowing
<1>11. CASE FieldRendered
  <2>1. PICK width : Where("ToString", "field") /\ BackToLoop(1, width)
    BY <1>11 DEF FieldRendered
  <2> QED BY <2>1, BackToLoopShowing
<1>12. CASE EndSortedSummary
  <2>1. Where("ToString", "sorted") /\ Returns(Current.width + 2) /\ operands' = operands
    BY <1>12 DEF EndSortedSummary
  <2>2. mode = "running" /\ Len(calls) # 1
    BY <2>1, Here
  <2> QED BY <2>1, <2>2, SameKeeps, ReturnsShowing
<1>13. CASE EndSummary
  <2>1. Where("ToString", "slots") /\ Returns(Current.width + 2) /\ operands' = Pop(operands, 1)
    BY <1>13 DEF EndSummary
  <2>2. /\ mode = "running" /\ Len(calls) # 1 /\ b \in Nat \ {0}
        /\ IsSeq(operands) /\ Len(operands) = b + 1
    BY <1>0, <2>1, HereInSummary
  <2>3. Len(operands) - 1 = b /\ 1 <= Len(operands)
    BY <2>2
  <2>4. Keeps(b)
    BY <2>1, <2>2, <2>3, PopKeeps
  <2> QED BY <1>0, <2>1, <2>2, <2>4, ReturnsShowing
<1> QED
  BY <1>1, <1>2, <1>3, <1>4, <1>5, <1>6, <1>7, <1>8, <1>9, <1>10, <1>11, <1>12, <1>13
  DEF ToStringStep

-----------------------------------------------------------------------------
(* ToClassFullName *)

LEMMA HereInFullName ==
    ASSUME ShowInv, NEW at, Where("ToClassFullName", at), NEW b, b = Began[Len(calls)], NEW k,
           \/ at \in {"begin", "locals"} /\ k = 0
           \/ at \in {"rootSearched", "localSearched"} /\ k = 1
    PROVE  /\ mode = "running" /\ held \in HeapsToShow /\ Len(calls) # 1
           /\ IsCall(Current) /\ Current.fn = "ToClassFullName" /\ Current.at = at
           /\ b \in Nat \ {0} /\ CallHas(Current, b)
           /\ operands[b] \in Values /\ Type(operands[b]) = "class"
           /\ IsSeq(operands) /\ Len(operands) = b + k /\ Top = operands[b + k]
           /\ At(operands, -2) = operands[b + k - 1]
<1>1. Current.fn = "ToClassFullName" /\ Current.at = at
  BY Here
<1>2. Owes(Current) = k
  BY <1>1 DEF Owes
<1>3. operands[b] \in Values /\ Type(operands[b]) = "class"
  BY <1>1, Here DEF CallHas, ToClassFullNameHas
<1> QED BY <1>1, <1>2, <1>3, Here

\* A table is searched for the class.
LEMMA SearchShowing ==
    ASSUME ShowInv, StackInv', held' = held, NEW at \in {"begin", "locals"},
           Where("ToClassFullName", at), NEW table, Type(table) = "table", NEW call,
           call.fn = "ToClassFullName",
           \/ call.at = "rootSearched" /\ table = RootTable
           \/ call.at = "localSearched",
           CallFrom(call, CallOf("getClassesFullNameHelper")), operands' = Push(operands, table)
    PROVE  ShowInv'
<1>0. PICK b, callee : b = Began[Len(calls)] /\ callee = CallOf("getClassesFullNameHelper")
  OBVIOUS
<1>1. /\ mode = "running" /\ Current.fn = "ToClassFullName" /\ b \in Nat \ {0}
      /\ operands[b] \in Values /\ Type(operands[b]) = "class"
      /\ IsSeq(operands) /\ Len(operands) = b
  <2>1. /\ mode = "running" /\ Current.fn = "ToClassFullName" /\ b \in Nat \ {0}
        /\ operands[b] \in Values /\ Type(operands[b]) = "class"
        /\ IsSeq(operands) /\ Len(operands) = b + 0
    BY <1>0, HereInFullName
  <2> QED BY <2>1
<1>2. Keeps(b) /\ operands'[b + 1] = table /\ operands'[b] = operands[b]
  <2>1. Keeps(b) /\ operands'[b + 1] = table
    BY <1>1, PushKeepsAll
  <2>2. b \in 1 .. b
    BY <1>1
  <2> QED BY <2>1, <2>2 DEF Keeps
<1>3. CallHas(call, b)'
  <2>1. Values' = Values
    BY DEF Values
  <2> QED BY <1>1, <1>2, <2>1 DEF CallHas, ToClassFullNameHas
<1>4. b + Owes(call) = b + 1
  BY DEF Owes
<1>5. /\ callee.fn = "getClassesFullNameHelper" /\ callee.at = "begin" /\ callee.iters = {}
      /\ IsFunction(callee.fn)
  BY <1>0, NewCallIs DEF IsFunction
<1>6. CallHas(callee, b + 1)'
  <2>1. PICK d : d = b + 1
    OBVIOUS
  <2>2. CallHas(callee, d)'
    BY <1>2, <1>5, <2>1, BeginsWith
  <2> QED BY <2>1, <2>2
<1>7. Follows(call, callee)
  BY <1>5 DEF Follows
<1> QED BY <1>0, <1>1, <1>2, <1>3, <1>4, <1>5, <1>6, <1>7, CallsShowing

\* The table that has been searched is popped, and the locals are looked at.
LEMMA SearchedShowing ==
    ASSUME ShowInv, StackInv', held' = held, NEW at \in {"rootSearched", "localSearched"},
           Where("ToClassFullName", at), operands' = Pop(operands, 1)
    PROVE  /\ \A v : Returns(v) => ShowInv'
           /\ \A call : GoOn(call) /\ call.fn = "ToClassFullName" /\ call.at = "locals" => ShowInv'
<1>0. PICK b : b = Began[Len(calls)]
  OBVIOUS
<1>1. /\ mode = "running" /\ Current.fn = "ToClassFullName" /\ b \in Nat \ {0} /\ Len(calls) # 1
      /\ operands[b] \in Values /\ Type(operands[b]) = "class"
      /\ IsSeq(operands) /\ Len(operands) = b + 1
  BY <1>0, HereInFullName
<1>2. Len(operands) - 1 = b /\ 1 <= Len(operands)
  BY <1>1
<1>3. Keeps(b)
  BY <1>1, <1>2, PopKeeps
<1>4. operands'[b] = operands[b] /\ Values' = Values
  BY <1>1, <1>3 DEF Keeps, Values
<1>5. ASSUME NEW v, Returns(v) PROVE ShowInv'
  BY <1>0, <1>1, <1>3, <1>5, ReturnsShowing
<1>6. ASSUME NEW call, GoOn(call), call.fn = "ToClassFullName", call.at = "locals" PROVE ShowInv'
  <2>1. CallHas(call, b)'
    BY <1>1, <1>4, <1>6 DEF CallHas, ToClassFullNameHas
  <2> QED BY <1>0, <1>1, <1>3, <1>6, <2>1, GoesOnShowing
<1> QED BY <1>5, <1>6

LEMMA CountsOn ==
    ASSUME IsCall(Current), NEW at, NEW new
    PROVE  LET call == [Reached(at) EXCEPT !.count = new]
           IN  /\ call.fn = Current.fn /\ call.at = at
               /\ Current.at = at => [Current EXCEPT !.count = new] = call
<1>1. PICK old, call : old = Current /\ call = [Reached(at) EXCEPT !.count = new]
  OBVIOUS
<1>2. old = [fn |-> old.fn, at |-> old.at, prefix |-> old.prefix, iters |-> old.iters,
             width |-> old.width, value |-> old.value, count |-> old.count]
  BY <1>1 DEF IsCall
<1>3. call = [fn |-> old.fn, at |-> at, prefix |-> old.prefix, iters |-> old.iters,
              width |-> old.width, value |-> old.value, count |-> new]
  BY <1>1, <1>2 DEF Reached
<1>4. [old EXCEPT !.count = new] =
         [fn |-> old.fn, at |-> old.at, prefix |-> old.prefix, iters |-> old.iters,
          width |-> old.width, value |-> old.value, count |-> new]
  BY <1>2
<1>5. call.fn = old.fn /\ call.at = at
  BY <1>3
<1>6. old.at = at => [old EXCEPT !.count = new] = call
  BY <1>3, <1>4
<1> QED BY <1>1, <1>5, <1>6

LEMMA FullNameShowing ==
    ASSUME ShowInv, StackInv', held' = held, ToClassFullNameStep
    PROVE  ShowInv'
<1>0. PICK b : b = Began[Len(calls)]
  OBVIOUS
<1>1. CASE SearchRoot
  <2>0. PICK call : call = Reached("rootSearched")
    OBVIOUS
  <2>1. /\ Where("ToClassFullName", "begin") /\ operands' = Push(operands, RootTable)
        /\ CallFrom(call, CallOf("getClassesFullNameHelper"))
    BY <1>1, <2>0 DEF SearchRoot
  <2>2. call.fn = "ToClassFullName" /\ call.at = "rootSearched"
    BY <2>0, <2>1, Here, ReachedIs
  <2>3. Type(RootTable) = "table"
    BY ShownAssumption
  <2> QED BY <2>1, <2>2, <2>3, SearchShowing
<1>2. CASE RootSearched
  <2>0. PICK call : call = Reached("locals")
    OBVIOUS
  <2>1. /\ Where("ToClassFullName", "rootSearched") /\ operands' = Pop(operands, 1)
        /\ GoOn(call) \/ \E v : Returns(v)
    BY <1>2, <2>0 DEF RootSearched
  <2>2. call.fn = "ToClassFullName" /\ call.at = "locals"
    BY <2>0, <2>1, Here, ReachedIs
  <2> QED BY <2>1, <2>2, SearchedShowing
<1>3. CASE LookAtLocal
  <2>1. Where("ToClassFullName", "locals")
    BY <1>3 DEF LookAtLocal
  <2>2. /\ mode = "running" /\ IsCall(Current) /\ Current.fn = "ToClassFullName"
        /\ Current.at = "locals" /\ b \in Nat \ {0} /\ Len(calls) # 1
        /\ operands[b] \in Values /\ Type(operands[b]) = "class"
    BY <1>0, <2>1, HereInFullName
  <2>3. CASE NextLocal.value = Top
    <3>1. PICK name : Returns(name) /\ operands' = operands
      BY <1>3, <2>3 DEF LookAtLocal
    <3> QED BY <2>2, <3>1, SameKeeps, ReturnsShowing
  <2>4. CASE NextLocal.value # Top /\ Type(NextLocal.value) = "table"
    <3>1. PICK call, table :
             /\ call = Reached("localSearched") /\ Type(table) = "table"
             /\ operands' = Push(operands, table)
             /\ CallFrom(call, CallOf("getClassesFullNameHelper"))
      BY <1>3, <2>4 DEF LookAtLocal
    <3>2. call.fn = "ToClassFullName" /\ call.at = "localSearched"
      BY <2>2, <3>1, ReachedIs
    <3> QED BY <2>1, <3>1, <3>2, SearchShowing
  <2>5. CASE NextLocal.value # Top /\ Type(NextLocal.value) # "table"
    <3>1. PICK call : /\ call = [Current EXCEPT !.count = Current.count + 1]
                      /\ GoOn(call) /\ operands' = operands
      BY <1>3, <2>5 DEF LookAtLocal
    <3>2. call.fn = "ToClassFullName" /\ call.at = "locals"
      BY <2>2, <3>1, CountsOn
    <3>3. Values' = Values /\ Keeps(b)
      BY <3>1, SameKeeps DEF Values
    <3>4. CallHas(call, b)'
      BY <2>2, <3>1, <3>2, <3>3 DEF CallHas, ToClassFullNameHas
    <3> QED BY <1>0, <2>2, <3>1, <3>2, <3>3, <3>4, GoesOnShowing
  <2> QED BY <2>3, <2>4, <2>5
<1>4. CASE LocalSearched
  <2>1. PICK call, count :
           /\ Where("ToClassFullName", "localSearched") /\ operands' = Pop(operands, 1)
           /\ call = [Reached("locals") EXCEPT !.count = count] /\ GoOn(call)
    BY <1>4 DEF LocalSearched
  <2>2. call.fn = "ToClassFullName" /\ call.at = "locals"
    BY <2>1, Here, CountsOn
  <2> QED BY <2>1, <2>2, SearchedShowing
<1>5. CASE UnknownClass
  BY <1>5 DEF UnknownClass, ShowInv
<1> QED BY <1>1, <1>2, <1>3, <1>4, <1>5 DEF ToClassFullNameStep

-----------------------------------------------------------------------------
(* getClassesFullNameHelper *)

\* The iterator is on top, and the table that is searched below it.
LEMMA HereAtNext ==
    ASSUME ShowInv, Where("getClassesFullNameHelper", "next"), NEW b, b = Began[Len(calls)],
           NEW c, c = operands[b], NEW s, s = NextOfContainer
    PROVE  /\ mode = "running" /\ held \in HeapsToShow /\ Len(calls) # 1
           /\ IsCall(Current) /\ Current.fn = "getClassesFullNameHelper" /\ Current.at = "next"
           /\ b \in Nat \ {0} /\ CallHas(Current, b) /\ Type(c) = "table"
           /\ IsSeq(operands) /\ Len(operands) = b + 1 /\ Top = operands[b + 1]
           /\ At(operands, -2) = c
           /\ \E iter \in Nat : /\ s = NextSlot(Slots(held, c), iter)
                                /\ (iter = 0 /\ Top = Null) \/ Top = Integer(iter)
           /\ s # 0 =>
                 /\ c \in DOMAIN held /\ s \in Filled(held[c]) /\ s \in Nat \ {0}
                 /\ Slots(held, c) = held[c] /\ NextEntry = held[c][s]
<1>1. /\ mode = "running" /\ held \in HeapsToShow /\ Len(calls) # 1
      /\ IsCall(Current) /\ Current.fn = "getClassesFullNameHelper" /\ Current.at = "next"
      /\ b \in Nat \ {0} /\ CallHas(Current, b)
      /\ IsSeq(operands) /\ Len(operands) = b + Owes(Current)
      /\ Top = operands[b + Owes(Current)] /\ At(operands, -2) = operands[b + Owes(Current) - 1]
  BY Here
<1>2. Owes(Current) = 1 /\ b + 1 - 1 = b
  BY <1>1 DEF Owes
<1>3. /\ Len(operands) = b + 1 /\ Top = operands[b + 1] /\ At(operands, -2) = c
  BY <1>1, <1>2
<1>4. /\ Type(c) = "table" /\ (Top = Null \/ \E k \in Nat : Top = Integer(k))
  BY <1>1, <1>3 DEF CallHas, HelperHas
<1>5. PICK iter : iter = IF Top = Null THEN 0 ELSE Top[2]
  OBVIOUS
<1>6. s = NextSlot(Slots(held, c), iter)
  BY <1>3, <1>5 DEF NextOfContainer
<1>7. iter \in Nat /\ ((iter = 0 /\ Top = Null) \/ Top = Integer(iter))
  <2>1. CASE Top = Null
    BY <1>5, <2>1
  <2>2. CASE Top # Null
    <3>1. PICK k \in Nat : Top = Integer(k)
      BY <1>4, <2>2
    <3>2. Top[2] = k
      BY <3>1 DEF Integer
    <3> QED BY <1>5, <2>2, <3>1, <3>2
  <2> QED BY <2>1, <2>2
<1>8. s # 0 => /\ c \in DOMAIN held /\ s \in Filled(held[c]) /\ s \in Nat \ {0}
               /\ Slots(held, c) = held[c]
  BY <1>1, <1>6, NextSlotIs
<1>9. s # 0 => NextEntry = held[c][s]
  BY <1>3, <1>8 DEF NextEntry
<1> QED BY <1>1, <1>3, <1>4, <1>6, <1>7, <1>8, <1>9

\* The iterator goes on, and nothing else.
LEMMA AdvanceShowing ==
    ASSUME ShowInv, StackInv', held' = held, Where("getClassesFullNameHelper", "next"),
           NextOfContainer # 0, Advance, UNCHANGED <<calls, mode>>
    PROVE  ShowInv'
<1>0. PICK b, c, s : b = Began[Len(calls)] /\ c = operands[b] /\ s = NextOfContainer
  OBVIOUS
<1>1. /\ mode = "running" /\ IsCall(Current) /\ Current.fn = "getClassesFullNameHelper"
      /\ Current.at = "next" /\ b \in Nat \ {0} /\ Type(c) = "table"
      /\ IsSeq(operands) /\ Len(operands) = b + 1 /\ s \in Nat
  BY <1>0, HereAtNext
<1>2. Keeps(b) /\ operands'[b + 1] = Integer(s)
  <2>1. Len(operands) - 1 = b /\ 1 <= Len(operands)
    BY <1>1
  <2>2. operands' = Push(Pop(operands, 1), Integer(s))
    BY <1>0 DEF Advance
  <2>3. Keeps(Len(operands) - 1) /\ operands'[Len(operands) - 1 + 1] = Integer(s)
    BY <1>1, <2>1, <2>2, PushOneKeeps
  <2> QED BY <2>1, <2>3
<1>3. operands'[b] = c
  BY <1>0, <1>1, <1>2 DEF Keeps
<1>4. CallHas(Current, b)'
  <2>1. Current' = Current
    BY DEF Current
  <2>2. HelperHas(Current, b)'
    BY <1>1, <1>2, <1>3, <2>1 DEF HelperHas
  <2> QED BY <1>1, <2>1, <2>2 DEF CallHas
<1> QED BY <1>0, <1>1, <1>2, <1>4, StaysShowing

LEMMA DescendShowing ==
    ASSUME ShowInv, StackInv', held' = held, DescendTable
    PROVE  ShowInv'
<1>0. PICK b, c, s, new, call, callee :
         /\ b = Began[Len(calls)] /\ c = operands[b] /\ s = NextOfContainer
         /\ new = CallOf("getClassesFullNameHelper")
         /\ call = Reached("descended") /\ callee = [new EXCEPT !.prefix = FullName]
  OBVIOUS
<1>1. /\ Where("getClassesFullNameHelper", "next") /\ s # 0 /\ CallFrom(call, callee)
      /\ Type(NextEntry.val) = "table" /\ Type(NextEntry.key) = "string"
  BY <1>0 DEF DescendTable, HasEntry
<1>2. /\ mode = "running" /\ IsCall(Current) /\ Current.fn = "getClassesFullNameHelper"
      /\ b \in Nat \ {0} /\ Type(c) = "table"
      /\ IsSeq(operands) /\ Len(operands) = b + 1 /\ At(operands, -2) = c
      /\ c \in DOMAIN held /\ s \in Filled(held[c]) /\ s \in Nat \ {0}
      /\ Slots(held, c) = held[c] /\ NextEntry = held[c][s]
  BY <1>0, <1>1, HereAtNext
<1>3. call.fn = "getClassesFullNameHelper" /\ call.at = "descended"
  BY <1>0, <1>2, ReachedIs
<1>4. PICK key, val : /\ key = held[c][s].key /\ val = held[c][s].val
                      /\ Type(key) = "string" /\ Type(val) = "table"
  BY <1>1, <1>2
<1>5. /\ Keeps(b) /\ operands'[b + 1] = Integer(s) /\ operands'[b + 2] = key
      /\ operands'[b + 3] = val
  <2>1. PushesSlot(1, held[c], s)
    BY <1>0, <1>2 DEF DescendTable, PushesSlot
  <2> QED BY <1>2, <1>4, <2>1, PushSlot
<1>6. operands'[b] = c
  <2>1. b \in 1 .. b /\ c = operands[b]
    BY <1>0, <1>2
  <2>2. operands'[b] = operands[b]
    BY ONLY <1>5, <2>1 DEF Keeps
  <2> QED BY <2>1, <2>2
<1>7. CallHas(call, b)'
  <2>1. InSlot(c, s, key, val)'
    BY <1>2, <1>4 DEF InSlot
  <2>2. HelperHas(call, b)'
    BY <1>2, <1>3, <1>4, <1>5, <1>6, <2>1 DEF HelperHas
  <2> QED BY <1>3, <2>2 DEF CallHas
<1>8. b + Owes(call) = b + 3
  BY <1>3 DEF Owes
<1>9. /\ callee.fn = "getClassesFullNameHelper" /\ callee.at = "begin" /\ callee.iters = {}
      /\ IsFunction(callee.fn)
  <2>1. new = [fn |-> "getClassesFullNameHelper", at |-> "begin", prefix |-> <<>>, iters |-> {},
               width |-> 0, value |-> 0, count |-> 0]
    BY <1>0 DEF CallOf
  <2> QED BY <1>0, <2>1 DEF IsFunction
<1>10. CallHas(callee, b + 3)'
  <2>1. PICK d : d = b + 3
    OBVIOUS
  <2>2. CallHas(callee, d)'
    BY <1>4, <1>5, <1>9, <2>1, BeginsWith
  <2> QED BY <2>1, <2>2
<1>11. Follows(call, callee)
  BY <1>3, <1>9 DEF Follows
<1> QED BY <1>0, <1>1, <1>2, <1>3, <1>5, <1>7, <1>8, <1>9, <1>10, <1>11, CallsShowing

LEMMA HelperShowing ==
    ASSUME ShowInv, StackInv', held' = held, GetClassesFullNameStep
    PROVE  ShowInv'
<1>0. PICK b : b = Began[Len(calls)]
  OBVIOUS
<1>1. CASE StartClasses
  <2>0. PICK call : call = Reached("next")
    OBVIOUS
  <2>1. /\ Where("getClassesFullNameHelper", "begin") /\ GoOn(call)
        /\ operands' = Push(operands, Null)
    BY <1>1, <2>0 DEF StartClasses
  <2>2. /\ mode = "running" /\ IsCall(Current) /\ Current.fn = "getClassesFullNameHelper"
        /\ Current.at = "begin" /\ b \in Nat \ {0} /\ CallHas(Current, b)
        /\ IsSeq(operands) /\ Len(operands) = b + Owes(Current)
    BY <1>0, <2>1, Here
  <2>3. Len(operands) = b
    <3>1. Owes(Current) = 0
      BY <2>2 DEF Owes
    <3> QED BY <2>2, <3>1
  <2>4. call.fn = "getClassesFullNameHelper" /\ call.at = "next"
    BY <2>0, <2>2, ReachedIs
  <2>5. Keeps(b) /\ operands'[b + 1] = Null
    BY <2>1, <2>2, <2>3, PushKeepsAll
  <2>6. operands'[b] = operands[b]
    BY <2>2, <2>5 DEF Keeps
  <2>7. CallHas(call, b)'
    BY <2>2, <2>4, <2>5, <2>6 DEF CallHas, HelperHas
  <2> QED BY <1>0, <2>1, <2>2, <2>4, <2>5, <2>7, GoesOnShowing
<1>2. CASE PassValue
  BY <1>2, AdvanceShowing DEF PassValue
<1>3. CASE UseNoKey
  BY <1>3 DEF UseNoKey, ShowInv
<1>4. CASE AddClass
  BY <1>4, AdvanceShowing DEF AddClass, HasEntry
<1>5. CASE BreakAtKnownClass \/ EndClasses
  <2>1. /\ Where("getClassesFullNameHelper", "next") /\ Returns(0)
        /\ operands' = Pop(operands, 1)
    BY <1>5 DEF BreakAtKnownClass, EndClasses, HasEntry
  <2>2. /\ mode = "running" /\ Len(calls) # 1 /\ b \in Nat \ {0}
        /\ IsSeq(operands) /\ Len(operands) = b + 1
    BY <1>0, <2>1, HereAtNext
  <2>3. Len(operands) - 1 = b /\ 1 <= Len(operands)
    BY <2>2
  <2>4. Keeps(b)
    BY <2>1, <2>2, <2>3, PopKeeps
  <2> QED BY <1>0, <2>1, <2>2, <2>4, ReturnsShowing
<1>6. CASE DescendTable
  BY <1>6, DescendShowing
<1>7. CASE TableDescended
  <2>0. PICK call : call = Reached("next")
    OBVIOUS
  <2>1. /\ Where("getClassesFullNameHelper", "descended") /\ GoOn(call)
        /\ operands' = Pop(operands, 2)
    BY <1>7, <2>0 DEF TableDescended
  <2>2. /\ mode = "running" /\ IsCall(Current) /\ Current.fn = "getClassesFullNameHelper"
        /\ Current.at = "descended" /\ b \in Nat \ {0} /\ CallHas(Current, b)
        /\ IsSeq(operands) /\ Len(operands) = b + Owes(Current)
    BY <1>0, <2>1, Here
  <2>3. Len(operands) - 2 = b + 1 /\ 2 <= Len(operands)
    <3>1. Owes(Current) = 3
      BY <2>2 DEF Owes
    <3> QED BY <2>2, <3>1
  <2>4. call.fn = "getClassesFullNameHelper" /\ call.at = "next"
    BY <2>0, <2>2, ReachedIs
  <2>5. Keeps(b + 1)
    BY <2>1, <2>2, <2>3, PopKeeps
  <2>6. Keeps(b) /\ operands'[b] = operands[b] /\ operands'[b + 1] = operands[b + 1]
    BY <2>2, <2>5 DEF Keeps
  <2>7. CallHas(call, b)'
    BY <2>2, <2>4, <2>6 DEF CallHas, HelperHas
  <2> QED BY <1>0, <2>1, <2>2, <2>4, <2>6, <2>7, GoesOnShowing
<1> QED BY <1>1, <1>2, <1>3, <1>4, <1>5, <1>6, <1>7 DEF GetClassesFullNameStep

-----------------------------------------------------------------------------

LEMMA ShowInit == RenderingInit => ShowInv
<1> SUFFICES ASSUME RenderingInit PROVE ShowInv
  OBVIOUS
<1>1. StackInv /\ mode = "running" /\ held \in HeapsToShow
  BY StackInit DEF RenderingInit
<1>2. PICK call : call = CallOf("CreateChildVariable") /\ Len(calls) = 1 /\ calls[1] = call
  BY DEF RenderingInit
<1>3. operands[1] \in Subjects /\ Began[1] = 1
  BY <1>1, BeganIs DEF RenderingInit
<1>4. call.fn = "CreateChildVariable" /\ call.at = "begin"
  BY <1>2, NewCallIs
<1>5. IsFunction(call.fn) /\ CallHas(call, 1)
  BY <1>3, <1>4 DEF IsFunction, CallHas, CreateHas
<1>6. /\ \A i \in 1 .. Len(calls) : IsFunction(calls[i].fn) /\ CallHas(calls[i], Began[i])
      /\ \A i \in 1 .. Len(calls) - 1 : Follows(calls[i], calls[i + 1])
  <2>1. \A i \in 1 .. Len(calls) : i = 1
    BY <1>2
  <2>2. 1 .. Len(calls) - 1 = {}
    BY <1>2
  <2> QED BY <1>2, <1>3, <1>5, <2>1, <2>2
<1> QED BY <1>1, <1>6 DEF ShowInv

LEMMA ShowStep ==
    ASSUME ShowInv, [RenderingNext]_renderingVars
    PROVE  ShowInv'
<1>0. StackInv'
  BY StackStep DEF ShowInv
<1>1. CASE UNCHANGED renderingVars
  <2>1. Began' = Began
    BY <1>1 DEF renderingVars, Began, Balances, Current
  <2> QED
    BY <1>0, <1>1, <2>1 DEF renderingVars, ShowInv, CallHas, CreateHas, ToStringHas,
       ToClassFullNameHas, HelperHas, InSlot, Values
<1>2. CASE RenderingNext
  <2>1. held' = held
    BY <1>2 DEF RenderingNext
  <2> QED
    BY <1>0, <1>2, <2>1, ChildVariableShowing, ToStringShowing, FullNameShowing, HelperShowing
    DEF RenderingNext
<1> QED BY <1>1, <1>2

LEMMA ShowAlways == RenderingSpec => []ShowInv
<1>1. ShowInv /\ [RenderingNext]_renderingVars => ShowInv'
  BY ShowStep
<1> QED BY ShowInit, <1>1, PTL DEF RenderingSpec

-----------------------------------------------------------------------------
(* Only cycles overflow *)

\* Among more containers than there are, each leading to the next, one leads to itself.
LEMMA PathRepeats ==
    ASSUME held \in HeapsToShow, NEW k \in Nat, k > Cardinality(DOMAIN held), NEW p,
           \A i \in 1 .. k : p[i] \in DOMAIN held,
           \A i \in 1 .. k - 1 : p[i + 1] \in Leads[p[i]]
    PROVE  \E c \in DOMAIN held : ContainsItself(c)
<1>1. PICK N, S : N = Cardinality(S) /\ S = DOMAIN held
  OBVIOUS
<1>2. IsFiniteSet(S) /\ N \in Nat
  BY <1>1, ShownAssumption, FS_CardinalityType
<1>3. IsFiniteSet(1 .. N + 1) /\ Cardinality(1 .. N + 1) = N + 1
  <2>1. N + 1 - 1 + 1 = N + 1 /\ 1 <= N + 1 /\ N + 1 \in Int /\ 1 \in Int
    BY <1>2
  <2> QED BY <2>1, FS_Interval
<1>4. PICK f : f = [i \in 1 .. N + 1 |-> p[i]]
  OBVIOUS
<1>5. f \in [1 .. N + 1 -> S] /\ N + 1 <= k
  BY <1>1, <1>2, <1>4
<1>6. \E x, y \in 1 .. N + 1 : x # y /\ f[x] = f[y]
  <2>1. N + 1 > N
    BY <1>2
  <2>2. PICK D : D = 1 .. N + 1
    OBVIOUS
  <2>3. \E x, y \in D : x # y /\ f[x] = f[y]
    BY <1>1, <1>2, <1>3, <1>5, <2>1, <2>2, FS_PigeonHole
  <2> QED BY <2>2, <2>3
<1>7. PICK i \in 1 .. N + 1, j \in 1 .. N + 1 : i < j /\ p[i] = p[j]
  <2>1. PICK x \in 1 .. N + 1, y \in 1 .. N + 1 : x # y /\ f[x] = f[y]
    BY <1>6
  <2>2. p[x] = p[y]
    BY <1>4, <2>1
  <2>3. CASE x < y
    BY <2>2, <2>3
  <2>4. CASE y < x
    BY <2>2, <2>4
  <2> QED BY <1>2, <2>1, <2>3, <2>4
<1>8. PICK n, walk : n = j - i /\ walk = [m \in 0 .. n |-> p[i + m]]
  OBVIOUS
<1>9. n \in 1 .. N /\ i + n = j /\ i + 0 = i
  BY <1>2, <1>7, <1>8
<1>10. walk \in [0 .. n -> S]
  <2>1. ASSUME NEW m \in 0 .. n PROVE p[i + m] \in S
    <3>1. i + m \in 1 .. k
      BY <1>2, <1>5, <1>9
    <3> QED BY <1>1, <3>1
  <2> QED BY <1>8, <2>1
<1>11. walk[0] = p[i] /\ walk[n] = p[i]
  BY <1>7, <1>8, <1>9
<1>12. ASSUME NEW m \in 1 .. n PROVE walk[m] \in Leads[walk[m - 1]]
  <2>1. PICK q \in 1 .. k - 1 : q = i + (m - 1) /\ q + 1 = i + m /\ m - 1 \in 0 .. n /\ m \in 0 .. n
    BY <1>2, <1>5, <1>9
  <2>2. walk[m - 1] = p[q] /\ walk[m] = p[q + 1]
    BY <1>8, <2>1
  <2> QED BY <2>2
<1>13. ContainsItself(p[i])
  BY <1>1, <1>9, <1>10, <1>11, <1>12 DEF ContainsItself
<1>14. p[i] \in DOMAIN held
  BY <1>1, <1>10, <1>9, <1>11
<1> QED BY <1>13, <1>14

LEMMA SlotLeads ==
    ASSUME NEW c, NEW s, NEW key, NEW val, InSlot(c, s, key, val)
    PROVE  /\ c \in DOMAIN held
           /\ key \in DOMAIN held => key \in Leads[c]
           /\ val \in DOMAIN held => val \in Leads[c]
<1>1. c \in DOMAIN held /\ s \in Filled(held[c]) /\ key = held[c][s].key /\ val = held[c][s].val
  BY DEF InSlot
<1>2. PICK F : F = Filled(held[c])
  OBVIOUS
<1>3. PICK Pairs, All : Pairs = {{held[c][i].key, held[c][i].val} : i \in F} /\ All = UNION Pairs
  OBVIOUS
<1>4. Leads[c] = All \cap DOMAIN held
  BY <1>1, <1>2, <1>3 DEF Leads
<1>5. {key, val} \in Pairs
  <2>1. s \in F
    BY <1>1, <1>2
  <2>2. {held[c][s].key, held[c][s].val} \in Pairs
    BY ONLY <1>3, <2>1, Zenon
  <2> QED BY <1>1, <2>2
<1>6. {key, val} \subseteq All
  BY <1>3, <1>5
<1> QED BY <1>1, <1>4, <1>6

\* The next call is about something that this one's container holds.
LEMMA NextLeads ==
    ASSUME ShowInv, mode = "running", NEW i \in 1 .. Len(calls) - 1,
           calls[i].fn \in {"ToString", "getClassesFullNameHelper"},
           calls[i + 1].fn = calls[i].fn
    PROVE  /\ Subject(i) \in DOMAIN held
           /\ Subject(i + 1) \in DOMAIN held => Subject(i + 1) \in Leads[Subject(i)]
<1>1. PICK n, b, call : n = Len(calls) /\ b = Began[i] /\ call = calls[i]
  OBVIOUS
<1>2. StackInv /\ n \in Nat \ {0} /\ i \in 1 .. n /\ i + 1 \in 1 .. n
  BY <1>1, BeganIs DEF ShowInv
<1>3. CallHas(call, b) /\ Follows(call, calls[i + 1])
  BY <1>1, <1>2 DEF ShowInv
<1>4. Began[i + 1] = b + Owes(call) /\ b \in Nat
  BY <1>1, <1>2, BeganIs
<1>5. CASE call.fn = "ToString"
  <2>1. call.at \in {"keyRendered", "value", "field"} /\ ToStringHas(call, b)
    BY <1>1, <1>3, <1>5 DEF Follows, CallHas
  <2>2. CASE call.at \in {"keyRendered", "field"}
    <3>1. PICK s, val : InSlot(operands[b], s, operands[b + 2], val)
      BY <2>1, <2>2 DEF ToStringHas
    <3>2. Owes(call) = 2
      BY <1>5, <2>2 DEF Owes
    <3> QED BY <1>1, <1>4, <3>1, <3>2, SlotLeads DEF Subject
  <2>3. CASE call.at = "value"
    <3>1. PICK s \in Nat : InSlot(operands[b], s, operands[b + 2], operands[b + 3])
      BY <2>1, <2>3 DEF ToStringHas
    <3>2. Owes(call) = 3
      BY <1>5, <2>3 DEF Owes
    <3> QED BY <1>1, <1>4, <3>1, <3>2, SlotLeads DEF Subject
  <2> QED BY <2>1, <2>2, <2>3
<1>6. CASE call.fn = "getClassesFullNameHelper"
  <2>1. call.at = "descended" /\ HelperHas(call, b)
    BY <1>3, <1>6 DEF Follows, CallHas
  <2>2. PICK s, key : InSlot(operands[b], s, key, operands[b + 3])
    BY <2>1 DEF HelperHas
  <2>3. Owes(call) = 3
    BY <1>6, <2>1 DEF Owes
  <2> QED BY <1>1, <1>4, <2>2, <2>3, SlotLeads DEF Subject
<1> QED BY <1>1, <1>5, <1>6

\* Calls of one function in a row, from the one after the m-th on: there is one more of them than
\* there are containers, or a cycle.
LEMMA RunOfCalls ==
    ASSUME ShowInv, mode = "running", NEW m \in Nat, NEW k \in Nat, m + k <= Len(calls),
           NEW fn \in {"ToString", "getClassesFullNameHelper"},
           \A i \in 1 .. k : calls[m + i].fn = fn,
           k > Cardinality(DOMAIN held) + 1
    PROVE  \E c \in DOMAIN held : ContainsItself(c)
<1>1. PICK p, h, n : p = [i \in 1 .. h |-> Subject(m + i)] /\ h = k - 1 /\ n = Len(calls)
  OBVIOUS
<1>2. Cardinality(DOMAIN held) \in Nat /\ held \in HeapsToShow /\ n \in Nat
  BY <1>1, ShownAssumption, FS_CardinalityType, BeganIs DEF ShowInv
<1>3. h \in Nat /\ h > Cardinality(DOMAIN held) /\ h + 1 = k
  BY <1>1, <1>2
<1>4. ASSUME NEW i \in 1 .. h
      PROVE  /\ p[i] \in DOMAIN held
             /\ i # h /\ p[i + 1] \in DOMAIN held => p[i + 1] \in Leads[p[i]]
  <2>1. PICK j : j = m + i
    OBVIOUS
  <2>2. j \in 1 .. n - 1 /\ j + 1 = m + (i + 1) /\ i \in 1 .. k /\ i + 1 \in 1 .. k
    BY <1>1, <1>2, <1>3, <2>1
  <2>3. calls[j].fn = fn /\ calls[j + 1].fn = fn
    <3>1. calls[m + i].fn = fn /\ calls[m + (i + 1)].fn = fn
      BY <2>2
    <3> QED BY <2>1, <2>2, <3>1
  <2>4. /\ Subject(j) \in DOMAIN held
        /\ Subject(j + 1) \in DOMAIN held => Subject(j + 1) \in Leads[Subject(j)]
    BY <1>1, <2>2, <2>3, NextLeads
  <2>5. p[i] = Subject(j)
    BY <1>1, <2>1
  <2>6. ASSUME i # h PROVE p[i + 1] = Subject(j + 1)
    <3>1. i + 1 \in 1 .. h
      BY <1>3, <2>6
    <3>2. p[i + 1] = Subject(m + (i + 1))
      BY <1>1, <3>1
    <3> QED BY <2>2, <3>2
  <2> QED BY <2>4, <2>5, <2>6
<1>5. ASSUME NEW i \in 1 .. h - 1 PROVE p[i + 1] \in Leads[p[i]]
  <2>1. i \in 1 .. h /\ i + 1 \in 1 .. h /\ i # h
    BY <1>3
  <2> QED BY <1>4, <2>1
<1> QED BY <1>2, <1>3, <1>4, <1>5, PathRepeats

\* Before a summary come the summaries it is part of, and nothing else.
LEMMA StringsBelow ==
    ASSUME ShowInv, mode = "running", NEW i \in 1 .. Len(calls), calls[i].fn = "ToString"
    PROVE  \A j \in 2 .. i : calls[j].fn = "ToString"
<1>1. PICK n : n = Len(calls)
  OBVIOUS
<1>2. /\ n \in Nat \ {0}
      /\ \A j \in 1 .. n : IsFunction(calls[j].fn) /\ (calls[j].fn = "CreateChildVariable" <=> j = 1)
      /\ \A j \in 1 .. n - 1 : Follows(calls[j], calls[j + 1])
  BY <1>1, BeganIs DEF ShowInv, StackInv, CallsInv
<1> DEFINE S == {d \in Nat : d <= i - 2 /\ calls[i - d].fn # "ToString"}
<1>3. S = {}
  <2> SUFFICES ASSUME S # {} PROVE FALSE
    OBVIOUS
  <2>1. PICK d \in S : \A e \in S : d <= e
    <3>1. S \subseteq Nat
      OBVIOUS
    <3> HIDE DEF S
    <3> QED BY <3>1, LeastNumber
  <2>2. d \in Nat /\ d <= i - 2 /\ calls[i - d].fn # "ToString"
    BY <2>1
  <2>3. d # 0
    <3>1. i - 0 = i
      BY <1>1, <1>2
    <3> QED BY <2>2, <3>1
  <2>4. PICK j \in 2 .. n - 1 : j = i - d
    BY <1>1, <1>2, <2>2, <2>3
  <2>5. d - 1 \in Nat /\ d - 1 <= i - 2 /\ i - (d - 1) = j + 1 /\ ~(d <= d - 1)
    BY <1>1, <1>2, <2>2, <2>3, <2>4
  <2>6. calls[j + 1].fn = "ToString"
    <3>1. d - 1 \notin S
      BY <2>1, <2>5
    <3>2. calls[i - (d - 1)].fn = "ToString"
      BY <2>5, <3>1
    <3> QED BY <2>5, <3>2
  <2>7. j \in 1 .. n - 1 /\ j \in 1 .. n /\ j # 1
    BY <1>2, <2>4
  <2>8. Follows(calls[j], calls[j + 1]) /\ IsFunction(calls[j].fn)
        /\ calls[j].fn # "CreateChildVariable"
    BY <1>2, <2>7
  <2> QED BY <2>2, <2>4, <2>6, <2>8 DEF Follows, IsFunction
<1>4. ASSUME NEW j \in 2 .. i PROVE calls[j].fn = "ToString"
  <2>1. i - j \in Nat /\ i - j <= i - 2 /\ i - (i - j) = j
    BY <1>1, <1>2
  <2>2. calls[i - (i - j)].fn = "ToString"
    BY <1>3, <2>1
  <2> QED BY <2>1, <2>2
<1> QED BY <1>4

\* Before the search of a table come those of the tables it is in, and the search for a name.
LEMMA HelpersBelow ==
    ASSUME ShowInv, mode = "running", NEW i \in 1 .. Len(calls),
           calls[i].fn = "getClassesFullNameHelper"
    PROVE  \E f \in 2 .. i - 1 :
              /\ calls[f].fn = "ToClassFullName"
              /\ \A j \in f + 1 .. i : calls[j].fn = "getClassesFullNameHelper"
<1>1. PICK n : n = Len(calls)
  OBVIOUS
<1>2. /\ n \in Nat \ {0}
      /\ \A j \in 1 .. n : IsFunction(calls[j].fn) /\ (calls[j].fn = "CreateChildVariable" <=> j = 1)
      /\ \A j \in 1 .. n - 1 : Follows(calls[j], calls[j + 1])
  BY <1>1, BeganIs DEF ShowInv, StackInv, CallsInv
<1>3. calls[1].fn # "getClassesFullNameHelper" /\ i # 1
  <2>1. 1 \in 1 .. n
    BY <1>2
  <2> QED BY <1>2, <2>1
<1> DEFINE S == {d \in Nat : d < i /\ calls[i - d].fn # "getClassesFullNameHelper"}
<1>4. PICK d \in S : \A e \in S : d <= e
  <2>1. S \subseteq Nat
    OBVIOUS
  <2>2. i - 1 \in S
    <3>1. i - 1 \in Nat /\ i - 1 < i /\ i - (i - 1) = 1
      BY <1>1, <1>2
    <3> QED BY <1>3, <3>1
  <2> HIDE DEF S
  <2> QED BY <2>1, <2>2, LeastNumber
<1>5. d \in Nat /\ d < i /\ calls[i - d].fn # "getClassesFullNameHelper"
  BY <1>4
<1>6. d # 0
  <2>1. i - 0 = i
    BY <1>1, <1>2
  <2> QED BY <1>5, <2>1
<1>7. PICK f \in 1 .. i - 1 : f = i - d
  BY <1>1, <1>2, <1>5, <1>6
<1>8. ASSUME NEW j \in f + 1 .. i PROVE calls[j].fn = "getClassesFullNameHelper"
  <2>1. i - j \in Nat /\ i - j < i /\ i - (i - j) = j /\ ~(d <= i - j)
    BY <1>1, <1>2, <1>5, <1>7
  <2>2. i - j \notin S
    BY <1>4, <2>1
  <2>3. calls[i - (i - j)].fn = "getClassesFullNameHelper"
    BY <2>1, <2>2
  <2> QED BY <2>1, <2>3
<1> HIDE DEF S
<1>9. calls[f].fn = "ToClassFullName"
  <2>1. f \in 1 .. n - 1 /\ f + 1 \in f + 1 .. i
    BY <1>1, <1>2, <1>7
  <2>2. Follows(calls[f], calls[f + 1]) /\ calls[f + 1].fn = "getClassesFullNameHelper"
    BY <1>2, <1>8, <2>1
  <2>3. IsFunction(calls[f].fn) /\ calls[f].fn # "getClassesFullNameHelper"
    BY <1>2, <1>5, <1>7, <2>1
  <2> QED BY <2>2, <2>3 DEF Follows, IsFunction
<1>10. f # 1
  <2>1. 1 \in 1 .. n
    BY <1>2
  <2>2. calls[1].fn = "CreateChildVariable"
    BY <1>2, <2>1
  <2> QED BY <1>9, <2>2
<1>11. f \in 2 .. i - 1
  BY <1>1, <1>2, <1>7, <1>10
<1> QED BY <1>8, <1>9, <1>11

\* Where nothing contains itself, there are no more calls than containers allow.
LEMMA CallsAreFew ==
    ASSUME ShowInv, mode = "running", \A c \in DOMAIN held : ~ContainsItself(c)
    PROVE  Len(calls) <= 2 * Cardinality(DOMAIN held) + 4
<1>1. PICK n, N : n = Len(calls) /\ N = Cardinality(DOMAIN held)
  OBVIOUS
<1>2. /\ n \in Nat \ {0} /\ N \in Nat
      /\ \A j \in 1 .. n : IsFunction(calls[j].fn) /\ (calls[j].fn = "CreateChildVariable" <=> j = 1)
      /\ \A j \in 1 .. n - 1 : Follows(calls[j], calls[j + 1])
  BY <1>1, BeganIs, ShownAssumption, FS_CardinalityType DEF ShowInv, StackInv, CallsInv
<1>3. ASSUME NEW i \in 1 .. n, i # 1, calls[i].fn = "ToString" PROVE i <= N + 2
  <2>1. PICK k \in Nat : k = i - 1
    BY <1>2
  <2>2. \A j \in 2 .. i : calls[j].fn = "ToString"
    BY <1>1, <1>3, StringsBelow
  <2>3. \A j \in 1 .. k : calls[1 + j].fn = "ToString"
    <3>1. \A j \in 1 .. k : 1 + j \in 2 .. i
      BY <1>2, <2>1
    <3> QED BY <2>2, <3>1
  <2>4. ~(k > N + 1)
    <3>1. 1 + k <= n
      BY <1>2, <2>1
    <3> QED BY <1>1, <2>3, <3>1, RunOfCalls
  <2> QED BY <1>2, <2>1, <2>4
<1>4. ASSUME NEW f \in 2 .. n, calls[f].fn = "ToClassFullName" PROVE f <= N + 3
  <2>1. PICK i \in 1 .. n - 1 : i + 1 = f
    BY <1>2
  <2>2. i \in 1 .. n
    BY <1>2
  <2>3. calls[i].fn \in {"CreateChildVariable", "ToString"}
    <3>1. Follows(calls[i], calls[i + 1]) /\ IsFunction(calls[i].fn)
      BY <1>2, <2>2
    <3> QED BY <1>4, <2>1, <3>1 DEF Follows, IsFunction
  <2>4. i = 1 \/ i <= N + 2
    BY <1>2, <1>3, <2>2, <2>3
  <2> QED BY <1>2, <2>1, <2>4
<1>5. CASE calls[n].fn = "getClassesFullNameHelper"
  <2>0. n \in 1 .. n
    BY <1>2
  <2>1. PICK f \in 2 .. n - 1 :
           /\ calls[f].fn = "ToClassFullName"
           /\ \A j \in f + 1 .. n : calls[j].fn = "getClassesFullNameHelper"
    BY <1>1, <1>5, <2>0, HelpersBelow
  <2>2. f <= N + 3
    <3>1. f \in 2 .. n
      BY <1>2
    <3> QED BY <1>4, <2>1, <3>1
  <2>3. PICK k \in Nat : k = n - f
    BY <1>2
  <2>4. \A j \in 1 .. k : calls[f + j].fn = "getClassesFullNameHelper"
    <3>1. \A j \in 1 .. k : f + j \in f + 1 .. n
      BY <1>2, <2>3
    <3> QED BY <2>1, <3>1
  <2>5. ~(k > N + 1)
    <3>1. f + k <= n /\ f \in Nat
      BY <1>2, <2>3
    <3> QED BY <1>1, <2>4, <3>1, RunOfCalls
  <2> QED BY <1>1, <1>2, <2>2, <2>3, <2>5
<1>6. CASE calls[n].fn # "getClassesFullNameHelper"
  <2>1. n \in 1 .. n /\ (n = 1 \/ n \in 2 .. n)
    BY <1>2
  <2>2. IsFunction(calls[n].fn) /\ (calls[n].fn = "CreateChildVariable" => n = 1)
    BY <1>2, <2>1
  <2>3. n = 1 \/ n <= N + 3
    <3>1. CASE n # 1 /\ calls[n].fn = "ToString"
      BY <1>2, <1>3, <2>1, <3>1
    <3>2. CASE n # 1 /\ calls[n].fn = "ToClassFullName"
      BY <1>2, <1>4, <2>1, <3>2
    <3> QED BY <1>6, <2>2, <3>1, <3>2 DEF IsFunction
  <2> QED BY <1>1, <1>2, <2>3
<1> QED BY <1>5, <1>6

\* The stack is used up by nothing but one more call.
LEMMA OverflowsByCall ==
    ASSUME ShowInv, RenderingNext, mode' = "overflow"
    PROVE  mode = "running" /\ Len(calls) >= MaxCalls
<1>1. ASSUME NEW call, NEW callee, CallFrom(call, callee), mode = "running"
      PROVE  Len(calls) >= MaxCalls
  <2>1. Len(calls) \in Nat
    BY <1>1, BeganIs DEF ShowInv
  <2> QED BY <1>1, <2>1, RenderingAssumption DEF CallFrom
<1>2. \A call : GoOn(call) => mode' = mode
  BY DEF GoOn
<1>3. \A v : Returns(v) => mode' = mode
  BY DEF Returns
<1>4. CASE CreateChildVariableStep
  BY <1>1, <1>2, <1>4 DEF CreateChildVariableStep, ShowValue, ShowClass, ClassShown, CountChildren, Where
<1>5. CASE ToStringStep
  <2>1. mode = "running"
    BY <1>5 DEF ToStringStep, RenderValue, ClassRendered, StartSummary, NextKey, KeyRendered, SortKeys,
       NextSortedField, NextField, LeaveOutField, ValueRendered, FieldRendered, EndSortedSummary,
       EndSummary, Where
  <2>2. CASE RenderValue
    <3>1. (\E call, callee : CallFrom(call, callee)) \/ (\E call : GoOn(call)) \/ (\E v : Returns(v))
      <4>1. CASE Type(Top) = "class"
        BY <2>2, <4>1 DEF RenderValue
      <4>2. CASE Type(Top) \in {"table", "instance"}
        BY <2>2, <4>2 DEF RenderValue
      <4>3. CASE Type(Top) \notin {"class", "table", "instance"}
        BY <2>2, <4>3 DEF RenderValue
      <4> QED BY <4>1, <4>2, <4>3
    <3> QED BY <1>1, <1>2, <1>3, <2>1, <3>1
  <2>3. CASE NextKey \/ NextSortedField \/ NextField \/ ValueRendered
    <3>1. \E call, callee : CallFrom(call, callee)
      BY <2>3 DEF NextKey, NextSortedField, NextField, ValueRendered
    <3> QED BY <1>1, <2>1, <3>1
  <2>4. CASE StartSummary \/ KeyRendered \/ SortKeys \/ LeaveOutField \/ FieldRendered
    <3>1. \E call : GoOn(call)
      BY <2>4 DEF StartSummary, KeyRendered, SortKeys, LeaveOutField, FieldRendered, BackToLoop
    <3> QED BY <1>2, <2>1, <3>1
  <2>5. CASE ClassRendered \/ EndSortedSummary \/ EndSummary
    <3>1. \E v : Returns(v)
      BY <2>5 DEF ClassRendered, EndSortedSummary, EndSummary
    <3> QED BY <1>3, <2>1, <3>1
  <2> QED BY <1>5, <2>2, <2>3, <2>4, <2>5 DEF ToStringStep
<1>6. CASE ToClassFullNameStep
  <2>1. mode = "running"
    BY <1>6 DEF ToClassFullNameStep, SearchRoot, RootSearched, LookAtLocal, LocalSearched,
       UnknownClass, Where
  <2>2. \/ \E call, callee : CallFrom(call, callee)
        \/ \E call : GoOn(call)
        \/ \E v : Returns(v)
        \/ mode' = "thrown"
    <3>1. CASE SearchRoot
      BY <3>1 DEF SearchRoot
    <3>2. CASE RootSearched
      BY <3>2 DEF RootSearched
    <3>3. CASE LookAtLocal
      BY <3>3 DEF LookAtLocal
    <3>4. CASE LocalSearched
      BY <3>4 DEF LocalSearched
    <3>5. CASE UnknownClass
      BY <3>5 DEF UnknownClass
    <3> QED BY <1>6, <3>1, <3>2, <3>3, <3>4, <3>5 DEF ToClassFullNameStep
  <2> QED BY <1>1, <1>2, <1>3, <2>1, <2>2
<1>7. CASE GetClassesFullNameStep
  <2>1. mode = "running"
    BY <1>7 DEF GetClassesFullNameStep, StartClasses, PassValue, UseNoKey, AddClass,
       BreakAtKnownClass, DescendTable, TableDescended, EndClasses, HasEntry, Where
  <2>2. \/ \E call, callee : CallFrom(call, callee)
        \/ \E call : GoOn(call)
        \/ \E v : Returns(v)
        \/ mode' \in {"crashed", mode}
    BY <1>7 DEF GetClassesFullNameStep, StartClasses, PassValue, UseNoKey, AddClass,
       BreakAtKnownClass, DescendTable, TableDescended, EndClasses
  <2> QED BY <1>1, <1>2, <1>3, <2>1, <2>2
<1> QED BY <1>4, <1>5, <1>6, <1>7 DEF RenderingNext

\* The thread's stack is large enough for as many summaries, and as many tables searched, as
\* there are containers.
DeepEnough == \A heap \in HeapsToShow : 2 * Cardinality(DOMAIN heap) + 4 < MaxCalls

\* On a stack that is large enough for the containers there are, CreateTableSummary and
\* getClassesFullNameHelper call themselves for ever only if a table or an instance contains itself.
THEOREM SummariesEnd ==
    ASSUME DeepEnough
    PROVE  RenderingSpec => []OnlyCyclesOverflow
<1>1. RenderingInit => OnlyCyclesOverflow
  BY DEF RenderingInit, OnlyCyclesOverflow
<1>2. ASSUME ShowInv, OnlyCyclesOverflow, [RenderingNext]_renderingVars
      PROVE  OnlyCyclesOverflow'
  <2>1. SUFFICES ASSUME mode' = "overflow"
                 PROVE  \E c \in DOMAIN held : ContainsItself(c)
    <3>1. held' = held
      BY <1>2 DEF RenderingNext, renderingVars
    <3>2. Leads' = Leads
      BY <3>1 DEF Leads
    <3>3. \A c : ContainsItself(c)' = ContainsItself(c)
      BY <3>1, <3>2 DEF ContainsItself
    <3> QED BY <3>1, <3>3 DEF OnlyCyclesOverflow
  <2>2. CASE UNCHANGED renderingVars
    BY <1>2, <2>1, <2>2 DEF renderingVars, OnlyCyclesOverflow
  <2>3. CASE RenderingNext
    <3>1. mode = "running" /\ Len(calls) >= MaxCalls
      BY <1>2, <2>1, <2>3, OverflowsByCall
    <3>2. /\ Len(calls) \in Nat /\ Cardinality(DOMAIN held) \in Nat
          /\ 2 * Cardinality(DOMAIN held) + 4 < MaxCalls
      BY <1>2, <3>1, BeganIs, ShownAssumption, FS_CardinalityType DEF ShowInv, DeepEnough
    <3>3. ~(Len(calls) <= 2 * Cardinality(DOMAIN held) + 4)
      BY <3>1, <3>2, RenderingAssumption
    <3> QED BY <1>2, <3>1, <3>3, CallsAreFew
  <2> QED BY <1>2, <2>2, <2>3
<1> QED BY ShowAlways, <1>1, <1>2, PTL DEF RenderingSpec

-----------------------------------------------------------------------------
(* Ways to tables and classes *)

LEMMA PlaceIs ==
    ASSUME NEW p \in Places
    PROVE  /\ p[1] \in DOMAIN held /\ Type(p[1]) = "table" /\ p[2] \in Filled(held[p[1]])
           /\ p = <<p[1], p[2]>>
<1>1. PICK c \in {t \in DOMAIN held : Type(t) = "table"} : p \in {c} \X Filled(held[c])
  BY DEF Places
<1> QED BY <1>1

LEMMA SlotIsPlace ==
    ASSUME NEW c \in DOMAIN held, Type(c) = "table", NEW s \in Filled(held[c])
    PROVE  /\ <<c, s>> \in Places
           /\ ValueAt(<<c, s>>) = held[c][s].val /\ KeyAt(<<c, s>>) = held[c][s].key
<1>1. PICK T : T = {t \in DOMAIN held : Type(t) = "table"}
  OBVIOUS
<1>2. c \in T /\ <<c, s>> \in {c} \X Filled(held[c])
  BY <1>1
<1>3. <<c, s>> \in Places
  BY <1>1, <1>2 DEF Places
<1> QED BY <1>3 DEF ValueAt, KeyAt

LEMMA WayIs ==
    ASSUME NEW n \in Nat \ {0}, NEW way \in [1 .. n -> Places], NEW value
    PROVE  /\ Len(way) = n
           /\ NameOf(way) = [i \in 1 .. n |-> KeyAt(way[i])[2]]
           /\ IsWay(way, value) <=>
                 /\ way[1][1] = RootTable /\ ValueAt(way[n]) = value
                 /\ \A i \in 1 .. n - 1 : ValueAt(way[i]) = way[i + 1][1]
<1>1. way \in Seq(Places)
  BY SeqDef
<1>2. Len(way) = n
  BY <1>1, LenProperties
<1> QED BY <1>2 DEF IsWay, NameOf

\* Two ways to a value are the same, going back from it.
LEMMA WaysMeet ==
    ASSUME IsTree, NEW value, Type(value) \in {"table", "class"},
           NEW m \in Nat \ {0}, NEW way \in [1 .. m -> Places], IsWay(way, value),
           NEW n \in Nat \ {0}, NEW other \in [1 .. n -> Places], IsWay(other, value)
    PROVE  \A k \in Nat : k < m /\ k < n => way[m - k] = other[n - k]
<1> DEFINE S == {d \in Nat : d < m /\ d < n /\ way[m - d] # other[n - d]}
<1> SUFFICES S = {}
  OBVIOUS
<1> SUFFICES ASSUME S # {} PROVE FALSE
  OBVIOUS
<1>1. PICK d \in S : \A e \in S : d <= e
  <2>1. S \subseteq Nat
    OBVIOUS
  <2> HIDE DEF S
  <2> QED BY <2>1, LeastNumber
<1>2. d \in Nat /\ d < m /\ d < n /\ way[m - d] # other[n - d]
  BY <1>1
<1>3. way[m - d] \in Places /\ other[n - d] \in Places
  <2>1. m - d \in 1 .. m /\ n - d \in 1 .. n
    BY <1>2
  <2> QED BY <2>1
<1>4. ValueAt(way[m - d]) = ValueAt(other[n - d]) /\ Type(ValueAt(way[m - d])) \in {"table", "class"}
  <2>1. CASE d = 0
    <3>1. m - d = m /\ n - d = n
      BY <2>1
    <3>2. ValueAt(way[m]) = value /\ ValueAt(other[n]) = value
      BY WayIs
    <3> QED BY <3>1, <3>2
  <2>2. CASE d # 0
    <3>1. PICK i \in 1 .. m - 1, j \in 1 .. n - 1 : i = m - d /\ j = n - d
      BY <1>2, <2>2
    <3>2. d - 1 \in Nat /\ d - 1 < m /\ d - 1 < n /\ ~(d <= d - 1)
          /\ m - (d - 1) = i + 1 /\ n - (d - 1) = j + 1
      BY <1>2, <2>2, <3>1
    <3>3. way[i + 1] = other[j + 1]
      <4>1. d - 1 \notin S
        BY <1>1, <3>2
      <4>2. way[m - (d - 1)] = other[n - (d - 1)]
        BY <3>2, <4>1
      <4> QED BY <3>2, <4>2
    <3>4. ValueAt(way[i]) = way[i + 1][1] /\ ValueAt(other[j]) = other[j + 1][1]
      <4>1. \A l \in 1 .. m - 1 : ValueAt(way[l]) = way[l + 1][1]
        BY WayIs
      <4>2. \A l \in 1 .. n - 1 : ValueAt(other[l]) = other[l + 1][1]
        BY WayIs
      <4> QED BY <4>1, <4>2
    <3>5. Type(way[i + 1][1]) = "table"
      <4>1. i + 1 \in 1 .. m
        OBVIOUS
      <4> QED BY <4>1, PlaceIs
    <3> QED BY <3>1, <3>3, <3>4, <3>5
  <2> QED BY <2>1, <2>2
<1> HIDE DEF S
<1>5. way[m - d] = other[n - d]
  BY <1>3, <1>4 DEF IsTree
<1> QED BY <1>2, <1>5

LEMMA WayNotLonger ==
    ASSUME IsTree, NEW value, Type(value) \in {"table", "class"},
           NEW m \in Nat \ {0}, NEW way \in [1 .. m -> Places], IsWay(way, value),
           NEW n \in Nat \ {0}, NEW other \in [1 .. n -> Places], IsWay(other, value)
    PROVE  n <= m
<1> SUFFICES ASSUME ~(n <= m) PROVE FALSE
  OBVIOUS
<1>1. PICK i \in 1 .. n - 1 : i = n - m
  OBVIOUS
<1>2. m - 1 \in Nat /\ m - 1 < m /\ m - 1 < n /\ m - (m - 1) = 1 /\ n - (m - 1) = i + 1
  BY <1>1
<1>3. way[1] = other[i + 1]
  <2>1. PICK k \in Nat : k = m - 1
    BY <1>2
  <2>2. \A l \in Nat : l < m /\ l < n => way[m - l] = other[n - l]
    BY WaysMeet
  <2>3. way[m - k] = other[n - k]
    BY <1>2, <2>1, <2>2
  <2> QED BY <1>2, <2>1, <2>3
<1>4. way[1][1] = RootTable /\ ValueAt(other[i]) = other[i + 1][1]
  <2>1. way[1][1] = RootTable
    BY WayIs
  <2>2. \A l \in 1 .. n - 1 : ValueAt(other[l]) = other[l + 1][1]
    BY WayIs
  <2> QED BY <2>1, <2>2
<1>5. ValueAt(other[i]) = RootTable /\ other[i] \in Places
  BY <1>3, <1>4
<1>6. Type(RootTable) = "table"
  BY ShownAssumption
<1> QED BY <1>5, <1>6 DEF IsTree

\* There is one name at most.
LEMMA OneName ==
    ASSUME IsTree, NEW value, Type(value) \in {"table", "class"},
           NEW m \in Nat \ {0}, NEW way \in [1 .. m -> Places], IsWay(way, value),
           NEW n \in Nat \ {0}, NEW other \in [1 .. n -> Places], IsWay(other, value)
    PROVE  NameOf(way) = NameOf(other)
<1>1. m = n
  <2>1. m <= n /\ n <= m
    BY WayNotLonger
  <2> QED BY <2>1
<1>2. ASSUME NEW i \in 1 .. m PROVE way[i] = other[i]
  <2>1. PICK k \in Nat : k = m - i /\ k < m /\ m - k = i
    OBVIOUS
  <2>2. k < n
    BY <1>1, <2>1
  <2>3. \A l \in Nat : l < m /\ l < n => way[m - l] = other[n - l]
    BY WaysMeet
  <2>4. way[m - k] = other[n - k]
    BY <2>1, <2>2, <2>3
  <2> QED BY <1>1, <2>1, <2>4
<1>3. NameOf(way) = [i \in 1 .. m |-> KeyAt(way[i])[2]]
  BY WayIs
<1>4. NameOf(other) = [i \in 1 .. m |-> KeyAt(other[i])[2]]
  BY <1>1, WayIs
<1> QED BY <1>2, <1>3, <1>4

\* The value is the root table, or a way leads to it whose name this is.
Found(value, name) ==
    \/ value = RootTable /\ name = <<>>
    \/ \E n \in Nat \ {0} : \E way \in [1 .. n -> Places] :
          IsWay(way, value) /\ name = NameOf(way)

LEMMA FoundIn ==
    ASSUME NEW p \in Places, NEW name, Found(p[1], name)
    PROVE  Found(ValueAt(p), Append(name, KeyAt(p)[2]))
<1>1. CASE p[1] = RootTable /\ name = <<>>
  <2>1. PICK way : way = [i \in 1 .. 1 |-> p]
    OBVIOUS
  <2>2. 1 \in Nat \ {0} /\ way \in [1 .. 1 -> Places] /\ way[1] = p
    BY <2>1
  <2>3. IsWay(way, ValueAt(p))
    <3>1. 1 .. 1 - 1 = {}
      OBVIOUS
    <3> QED BY <1>1, <2>2, <3>1, WayIs
  <2>4. NameOf(way) = [i \in 1 .. 1 |-> KeyAt(way[i])[2]]
    BY <2>2, WayIs
  <2>5. NameOf(way) = Append(name, KeyAt(p)[2])
    <3>1. PICK x : x = KeyAt(p)[2]
      OBVIOUS
    <3>2. NameOf(way) = [i \in 1 .. 1 |-> x]
      BY <2>2, <2>4, <3>1
    <3>3. Append(<<>>, x) = <<x>>
      OBVIOUS
    <3> QED BY <1>1, <3>1, <3>2, <3>3
  <2> QED BY <2>2, <2>3, <2>5 DEF Found
<1>2. CASE \E n \in Nat \ {0} : \E way \in [1 .. n -> Places] :
              IsWay(way, p[1]) /\ name = NameOf(way)
  <2>0. PICK n \in Nat \ {0} : \E way \in [1 .. n -> Places] : IsWay(way, p[1]) /\ name = NameOf(way)
    BY <1>2
  <2>1. PICK way \in [1 .. n -> Places] : IsWay(way, p[1]) /\ name = NameOf(way)
    BY <2>0
  <2>2. /\ name = [i \in 1 .. n |-> KeyAt(way[i])[2]]
        /\ way[1][1] = RootTable /\ ValueAt(way[n]) = p[1]
        /\ \A i \in 1 .. n - 1 : ValueAt(way[i]) = way[i + 1][1]
    BY <2>1, WayIs
  <2>3. PICK m, longer : m = n + 1 /\ longer = [i \in 1 .. m |-> IF i <= n THEN way[i] ELSE p]
    OBVIOUS
  <2>4. m \in Nat \ {0} /\ longer \in [1 .. m -> Places]
    BY <2>3
  <2>5. longer[m] = p /\ \A i \in 1 .. n : longer[i] = way[i]
    BY <2>3
  <2>6. IsWay(longer, ValueAt(p))
    <3>1. longer[1][1] = RootTable /\ ValueAt(longer[m]) = ValueAt(p)
      BY <2>2, <2>5
    <3>2. ASSUME NEW i \in 1 .. m - 1 PROVE ValueAt(longer[i]) = longer[i + 1][1]
      <4>1. i \in 1 .. n /\ longer[i] = way[i]
        BY <2>3, <2>5
      <4>2. CASE i = n
        BY <2>2, <2>3, <2>5, <4>1, <4>2
      <4>3. CASE i # n
        <5>1. i \in 1 .. n - 1 /\ i + 1 \in 1 .. n
          BY <4>1, <4>3
        <5> QED BY <2>2, <2>5, <4>1, <5>1
      <4> QED BY <4>2, <4>3
    <3> QED BY <2>4, <3>1, <3>2, WayIs
  <2>7. NameOf(longer) = Append(name, KeyAt(p)[2])
    <3>1. PICK x, T : x = KeyAt(p)[2] /\ T = {name[i] : i \in 1 .. n} \cup {x}
      OBVIOUS
    <3>2. name \in [1 .. n -> T] /\ x \in T
      BY <2>2, <3>1
    <3>3. name \in Seq(T) /\ Len(name) = n
      <4>1. name \in Seq(T)
        BY <3>2, SeqDef
      <4> QED BY <3>2, <4>1, LenProperties
    <3>4. /\ Append(name, x) \in Seq(T) /\ Len(Append(name, x)) = n + 1
          /\ \A i \in 1 .. n : Append(name, x)[i] = name[i]
          /\ Append(name, x)[n + 1] = x
      BY <3>2, <3>3, AppendProperties
    <3>5. NameOf(longer) = [i \in 1 .. m |-> KeyAt(longer[i])[2]]
      BY <2>4, WayIs
    <3>6. ASSUME NEW i \in 1 .. m PROVE NameOf(longer)[i] = Append(name, x)[i]
      <4>1. CASE i = m
        BY <2>3, <2>5, <3>1, <3>4, <3>5, <4>1
      <4>2. CASE i # m
        <5>1. i \in 1 .. n
          BY <2>3, <4>2
        <5> QED BY <2>2, <2>5, <3>4, <3>5, <5>1
      <4> QED BY <4>1, <4>2
    <3>7. PICK new, app : new = NameOf(longer) /\ app = Append(name, x)
      OBVIOUS
    <3>8. DOMAIN new = 1 .. m /\ new = [i \in 1 .. m |-> new[i]]
      BY <3>5, <3>7
    <3>9. DOMAIN app = 1 .. m /\ app = [i \in 1 .. m |-> app[i]]
      <4>1. app \in [1 .. m -> T]
        BY <2>3, <3>4, <3>7, LenProperties
      <4> QED BY <4>1
    <3>10. \A i \in 1 .. m : new[i] = app[i]
      BY <3>6, <3>7
    <3>11. new = app
      BY ONLY <3>8, <3>9, <3>10
    <3> QED BY <3>1, <3>7, <3>11
  <2> QED BY <2>4, <2>6, <2>7 DEF Found
<1> QED BY <1>1, <1>2 DEF Found

\* The name under which a class has been found is that of every way.
LEMMA FoundIsName ==
    ASSUME held \in HeapsToShow, IsTree, NEW class, Type(class) = "class", NEW name, Found(class, name),
           NEW way \in Ways(class)
    PROVE  name = NameOf(way)
<1>1. PICK n \in 1 .. Cardinality(DOMAIN held) : way \in [1 .. n -> Places] /\ IsWay(way, class)
  <2>1. PICK N, All : N = Cardinality(DOMAIN held) /\ All = UNION {[1 .. n -> Places] : n \in 1 .. N}
    OBVIOUS
  <2>2. way \in All /\ IsWay(way, class)
    BY <2>1 DEF Ways
  <2>3. \E n \in 1 .. N : way \in [1 .. n -> Places]
    BY <2>1, <2>2
  <2> QED BY <2>1, <2>2, <2>3
<1>2. n \in Nat \ {0}
  BY ShownAssumption, FS_CardinalityType
<1>3. class # RootTable
  BY ShownAssumption
<1>4. PICK m \in Nat \ {0} : \E other \in [1 .. m -> Places] :
         IsWay(other, class) /\ name = NameOf(other)
  BY <1>3 DEF Found
<1>5. PICK other \in [1 .. m -> Places] : IsWay(other, class) /\ name = NameOf(other)
  BY <1>4
<1> QED BY <1>1, <1>2, <1>5, OneName

-----------------------------------------------------------------------------
(* The search for the names of classes: m tables are being searched, each in the one before it, *)
(* and those in D have been; path[j] is the j-th of them, the slot it has come to and its name. *)

Entered(path, m, D, p) ==
    p[1] \in D \/ \E j \in 1 .. m : p[1] = path[j].table /\ p[2] <= path[j].slot

\* The search has been to this place, and is not in the table that is there any more.
Passed(path, m, D, p) ==
    \/ p[1] \in D
    \/ \E j \in 1 .. m :
          p[1] = path[j].table /\ p[2] <= path[j].slot /\ (j < m => p[2] # path[j].slot)

Known(p, D, names) ==
    /\ Type(ValueAt(p)) = "class" => ValueAt(p) \in DOMAIN names
    /\ Type(ValueAt(p)) = "table" => ValueAt(p) \in D

OnPath(path, m, j) ==
    /\ Type(path[j].table) = "table" /\ path[j].slot \in Nat
    /\ Found(path[j].table, path[j].name)
    /\ j = 1 => path[j].table = RootTable
    /\ j < m => /\ <<path[j].table, path[j].slot>> \in Places
                /\ ValueAt(<<path[j].table, path[j].slot>>) = path[j + 1].table

NoneTwice(path, m, D) ==
    \A j \in 1 .. m : path[j].table \notin D /\ \A i \in 1 .. m : i < j => path[i].table # path[j].table

Search(path, m, D, names) ==
    /\ \A j \in 1 .. m : OnPath(path, m, j)
    /\ NoneTwice(path, m, D)
    /\ \A p \in Places : Passed(path, m, D, p) => Known(p, D, names)
    /\ \A c \in DOMAIN names :
          /\ Found(c, names[c])
          /\ Type(c) = "class" /\ \E p \in Places : ValueAt(p) = c /\ Entered(path, m, D, p)
    /\ \A t \in D :
          /\ Type(t) = "table"
          /\ \/ t = RootTable /\ m = 0
             \/ \E p \in Places : ValueAt(p) = t /\ Entered(path, m, D, p)
    /\ m = 0 => RootTable \in D

\* A slot that comes after the last one has not been entered, nor any table or class in it found.
LEMMA NextIsNew ==
    ASSUME IsTree, NEW path, NEW m \in Nat \ {0}, NEW D, NEW names, Search(path, m, D, names),
           NEW p \in Places, p[1] = path[m].table, p[2] \in Nat, p[2] > path[m].slot
    PROVE  /\ ~Entered(path, m, D, p)
           /\ Type(ValueAt(p)) = "class" => ValueAt(p) \notin DOMAIN names
           /\ Type(ValueAt(p)) = "table" => ValueAt(p) \notin D /\ \A j \in 1 .. m : path[j].table # ValueAt(p)
<1>1. m \in 1 .. m /\ OnPath(path, m, m) /\ path[m].table \notin D
  BY DEF Search, NoneTwice
<1>2. ~Entered(path, m, D, p)
  <2> SUFFICES ASSUME Entered(path, m, D, p) PROVE FALSE
    OBVIOUS
  <2>1. PICK j \in 1 .. m : p[1] = path[j].table /\ p[2] <= path[j].slot
    BY <1>1 DEF Entered
  <2>2. j = m
    <3>1. ~(j < m)
      BY <1>1, <2>1 DEF Search, NoneTwice
    <3> QED BY <3>1
  <2> QED BY <1>1, <2>1, <2>2 DEF OnPath
<1>3. ASSUME NEW q \in Places, ValueAt(q) = ValueAt(p), Type(ValueAt(p)) \in {"table", "class"}
      PROVE  q = p /\ ValueAt(p) # RootTable
  BY <1>3 DEF IsTree
<1>4. ASSUME Type(ValueAt(p)) = "class" PROVE ValueAt(p) \notin DOMAIN names
  BY <1>2, <1>3, <1>4 DEF Search
<1>5. ASSUME Type(ValueAt(p)) = "table" PROVE ValueAt(p) \notin D
  BY <1>2, <1>3, <1>5 DEF Search
<1>6. ASSUME Type(ValueAt(p)) = "table", NEW j \in 1 .. m PROVE path[j].table # ValueAt(p)
  <2>1. CASE j = 1
    <3>1. path[j].table = RootTable
      BY <2>1 DEF Search, OnPath
    <3> QED BY <1>3, <1>6, <3>1
  <2>2. CASE j # 1
    <3>1. PICK i \in 1 .. m : i + 1 = j /\ i < m
      BY <2>2
    <3>2. PICK q : q = <<path[i].table, path[i].slot>>
      OBVIOUS
    <3>3. q \in Places /\ ValueAt(q) = path[j].table /\ path[i].slot \in Nat
      BY <3>1, <3>2 DEF Search, OnPath
    <3>4. q[1] = path[i].table /\ q[2] = path[i].slot
      BY <3>2
    <3>5. Entered(path, m, D, q)
      BY <3>3, <3>4 DEF Entered
    <3> QED BY <1>2, <1>3, <1>6, <3>3, <3>5
  <2> QED BY <2>1, <2>2
<1> QED BY <1>2, <1>4, <1>5, <1>6

\* The search begins with the root table.
LEMMA SearchBegins ==
    ASSUME held \in HeapsToShow,
           NEW path, path[1] = [table |-> RootTable, slot |-> 0, name |-> <<>>], NEW names,
           DOMAIN names = {}
    PROVE  Search(path, 1, {}, names)
<1>1. \A p \in Places : ~Passed(path, 1, {}, p)
  <2>1. ASSUME NEW p \in Places PROVE p[2] \in Nat \ {0}
    BY PlaceIs, ShownAssumption DEF Filled
  <2> QED BY <2>1 DEF Passed
<1>2. OnPath(path, 1, 1)
  BY ShownAssumption DEF OnPath, Found
<1>3. NoneTwice(path, 1, {})
  BY DEF NoneTwice
<1>4. \A j \in 1 .. 1 : j = 1
  OBVIOUS
<1> QED BY <1>1, <1>2, <1>3, <1>4 DEF Search

\* It goes on to the next slot, which holds no table, and adds the class that it may hold.
LEMMA SearchGoesOn ==
    ASSUME IsTree, NEW path, NEW m \in Nat \ {0}, NEW D, NEW names, Search(path, m, D, names),
           NEW p \in Places, p[1] = path[m].table, p[2] \in Nat, p[2] > path[m].slot,
           \A q \in Places : q[1] = p[1] /\ q[2] > path[m].slot => p[2] <= q[2],
           \A q \in Places : q[2] \in Nat,
           NEW next, \A j \in 1 .. m : j # m => next[j] = path[j],
           next[m].table = path[m].table, next[m].slot = p[2], next[m].name = path[m].name,
           NEW more,
           \A c \in DOMAIN names : c \in DOMAIN more /\ more[c] = names[c],
           \A c \in DOMAIN more :
              \/ c \in DOMAIN names
              \/ c = ValueAt(p) /\ Type(c) = "class" /\ Found(c, more[c]),
           Known(p, D, more)
    PROVE  Search(next, m, D, more)
<1>1. m \in 1 .. m /\ OnPath(path, m, m) /\ path[m].slot \in Nat
  BY DEF Search, OnPath
<1>2. \A j \in 1 .. m : next[j].table = path[j].table /\ next[j].name = path[j].name
  OBVIOUS
<1>3. ASSUME NEW q \in Places, Entered(path, m, D, q) PROVE Entered(next, m, D, q)
  <2>1. ASSUME NEW j \in 1 .. m, q[1] = path[j].table, q[2] <= path[j].slot
        PROVE  q[1] = next[j].table /\ q[2] <= next[j].slot
    BY <1>1, <1>2, <2>1
  <2> QED BY <1>3, <2>1 DEF Entered
<1>4. Entered(next, m, D, p)
  BY <1>1 DEF Entered
<1>5. ASSUME NEW j \in 1 .. m PROVE OnPath(next, m, j)
  <2>1. OnPath(path, m, j)
    BY DEF Search
  <2>2. CASE j = m
    BY <1>1, <2>2 DEF OnPath
  <2>3. CASE j # m
    <3>1. j + 1 \in 1 .. m /\ j < m
      BY <2>3
    <3>2. next[j] = path[j] /\ next[j + 1].table = path[j + 1].table
      BY <1>2, <2>3, <3>1
    <3> QED BY <2>1, <3>1, <3>2 DEF OnPath
  <2> QED BY <2>2, <2>3
<1>6. NoneTwice(next, m, D)
  <2>1. NoneTwice(path, m, D)
    BY DEF Search
  <2> QED BY <1>2, <2>1 DEF NoneTwice
<1>7. ASSUME NEW q \in Places, Passed(next, m, D, q) PROVE Known(q, D, more)
  <2>1. CASE q = p
    BY <2>1
  <2>2. CASE q # p
    <3>1. Passed(path, m, D, q)
      <4>1. CASE q[1] \in D
        BY <4>1 DEF Passed
      <4>2. CASE q[1] \notin D
        <5>1. PICK j \in 1 .. m : /\ q[1] = next[j].table /\ q[2] <= next[j].slot
                                  /\ j < m => q[2] # next[j].slot
          BY <1>7, <4>2 DEF Passed
        <5>2. CASE j # m
          BY <5>1, <5>2 DEF Passed
        <5>3. CASE j = m
          <6>1. q[1] = p[1] /\ q[2] <= p[2] /\ q[2] \in Nat
            BY <5>1, <5>3
          <6>2. q = <<q[1], q[2]>> /\ p = <<p[1], p[2]>>
            BY PlaceIs
          <6>3. q[2] # p[2]
            BY <2>2, <6>1, <6>2
          <6>4. ~(q[2] > path[m].slot)
            BY <6>1, <6>3
          <6>5. q[2] <= path[m].slot
            BY <1>1, <6>1, <6>4
          <6> QED BY <1>1, <6>1, <6>5 DEF Passed
        <5> QED BY <5>2, <5>3
      <4> QED BY <4>1, <4>2
    <3>2. Known(q, D, names)
      BY <3>1 DEF Search
    <3> QED BY <3>2 DEF Known
  <2> QED BY <2>1, <2>2
<1>8. ASSUME NEW c \in DOMAIN more
      PROVE  /\ Found(c, more[c])
             /\ Type(c) = "class" /\ \E q \in Places : ValueAt(q) = c /\ Entered(next, m, D, q)
  <2>1. CASE c \in DOMAIN names
    <3>1. /\ Found(c, names[c]) /\ Type(c) = "class"
          /\ \E q \in Places : ValueAt(q) = c /\ Entered(path, m, D, q)
      BY <2>1 DEF Search
    <3> QED BY <1>3, <2>1, <3>1
  <2>2. CASE c \notin DOMAIN names
    BY <1>4, <2>2
  <2> QED BY <2>1, <2>2
<1>9. ASSUME NEW t \in D
      PROVE  /\ Type(t) = "table"
             /\ \/ t = RootTable /\ m = 0
                \/ \E q \in Places : ValueAt(q) = t /\ Entered(next, m, D, q)
  <2>1. /\ Type(t) = "table"
        /\ \/ t = RootTable /\ m = 0
           \/ \E q \in Places : ValueAt(q) = t /\ Entered(path, m, D, q)
    BY DEF Search
  <2> QED BY <1>3, <2>1
<1> QED BY <1>5, <1>6, <1>7, <1>8, <1>9 DEF Search

\* It goes into a table.
LEMMA SearchDescends ==
    ASSUME IsTree, NEW path, NEW m \in Nat \ {0}, NEW D, NEW names, Search(path, m, D, names),
           NEW p \in Places, p[1] = path[m].table, p[2] \in Nat, p[2] > path[m].slot,
           \A q \in Places : q[1] = p[1] /\ q[2] > path[m].slot => p[2] <= q[2],
           \A q \in Places : q[2] \in Nat \ {0}, Type(ValueAt(p)) = "table",
           NEW next, \A j \in 1 .. m : j # m => next[j] = path[j],
           next[m].table = path[m].table, next[m].slot = p[2], next[m].name = path[m].name,
           next[m + 1].table = ValueAt(p), next[m + 1].slot = 0,
           next[m + 1].name = Append(path[m].name, KeyAt(p)[2])
    PROVE  Search(next, m + 1, D, names)
<1>1. m \in 1 .. m /\ OnPath(path, m, m) /\ path[m].slot \in Nat
  BY DEF Search, OnPath
<1>2. \A j \in 1 .. m : next[j].table = path[j].table /\ next[j].name = path[j].name
  OBVIOUS
<1>3. ASSUME NEW q \in Places, Entered(path, m, D, q) PROVE Entered(next, m + 1, D, q)
  <2>1. ASSUME NEW j \in 1 .. m, q[1] = path[j].table, q[2] <= path[j].slot
        PROVE  q[1] = next[j].table /\ q[2] <= next[j].slot /\ j \in 1 .. m + 1
    BY <1>1, <1>2, <2>1
  <2> QED BY <1>3, <2>1 DEF Entered
<1>4. /\ ValueAt(p) \notin D
      /\ \A j \in 1 .. m : path[j].table # ValueAt(p)
  BY NextIsNew
<1>5. ASSUME NEW j \in 1 .. m + 1 PROVE OnPath(next, m + 1, j)
  <2>1. CASE j = m + 1
    <3>1. Found(ValueAt(p), Append(path[m].name, KeyAt(p)[2]))
      BY <1>1, FoundIn DEF OnPath
    <3>2. j # 1 /\ ~(j < m + 1)
      BY <2>1
    <3>3. /\ next[j].table = ValueAt(p) /\ next[j].slot = 0
          /\ next[j].name = Append(path[m].name, KeyAt(p)[2])
      BY <2>1
    <3>4. /\ Type(next[j].table) = "table" /\ next[j].slot \in Nat
          /\ Found(next[j].table, next[j].name)
      BY <3>1, <3>3
    <3> QED BY ONLY <3>2, <3>4 DEF OnPath
  <2>2. CASE j = m
    <3>0. PICK here, there : here = next[m] /\ there = next[m + 1]
      OBVIOUS
    <3>1. PICK q : here = next[m] /\ there = next[m + 1] /\ q = <<here.table, here.slot>>
      BY <3>0
    <3>2. p = q
      BY <3>1, PlaceIs
    <3>3. q \in Places /\ ValueAt(q) = there.table
      BY <3>1, <3>2
    <3>4. /\ Type(here.table) = "table" /\ here.slot \in Nat /\ Found(here.table, here.name)
          /\ m = 1 => here.table = RootTable
      BY <1>1, <3>1 DEF OnPath
    <3> QED BY <2>2, <3>1, <3>3, <3>4 DEF OnPath
  <2>3. CASE j # m /\ j # m + 1
    <3>1. j \in 1 .. m /\ j + 1 \in 1 .. m /\ j < m
      BY <2>3
    <3>2. next[j] = path[j] /\ next[j + 1].table = path[j + 1].table
      BY <1>2, <2>3, <3>1
    <3>3. OnPath(path, m, j)
      BY <3>1 DEF Search
    <3> QED BY <3>1, <3>2, <3>3 DEF OnPath
  <2> QED BY <2>1, <2>2, <2>3
<1>6. NoneTwice(next, m + 1, D)
  <2>1. NoneTwice(path, m, D)
    BY DEF Search
  <2>2. ASSUME NEW j \in 1 .. m + 1 PROVE next[j].table \notin D
    <3>1. CASE j = m + 1
      BY <1>4, <3>1
    <3>2. CASE j # m + 1
      <4>1. j \in 1 .. m
        BY <3>2
      <4> QED BY <1>2, <2>1, <4>1 DEF NoneTwice
    <3> QED BY <3>1, <3>2
  <2>3. ASSUME NEW j \in 1 .. m + 1, NEW i \in 1 .. m + 1, i < j PROVE next[i].table # next[j].table
    <3>1. i \in 1 .. m /\ (j \in 1 .. m \/ j = m + 1)
      BY ONLY <2>3, m \in Nat \ {0}, i \in 1 .. m + 1, j \in 1 .. m + 1
    <3>2. CASE j = m + 1
      <4>1. next[j].table = ValueAt(p)
        BY <3>2
      <4>2. next[i].table = path[i].table /\ path[i].table # ValueAt(p)
        BY <1>2, <1>4, <3>1
      <4> QED BY <4>1, <4>2
    <3>3. CASE j \in 1 .. m
      BY <1>2, <2>1, <2>3, <3>1, <3>3 DEF NoneTwice
    <3> QED BY <3>1, <3>2, <3>3
  <2> QED BY <2>2, <2>3 DEF NoneTwice
<1>7. ASSUME NEW q \in Places, Passed(next, m + 1, D, q) PROVE Known(q, D, names)
  <2>1. Passed(path, m, D, q)
    <3>1. CASE q[1] \in D
      BY <3>1 DEF Passed
    <3>2. CASE q[1] \notin D
      <4>1. PICK j \in 1 .. m + 1 : /\ q[1] = next[j].table /\ q[2] <= next[j].slot
                                    /\ j < m + 1 => q[2] # next[j].slot
        BY <1>7, <3>2 DEF Passed
      <4>2. CASE j = m + 1
        BY <4>1, <4>2
      <4>3. CASE j \in 1 .. m /\ j # m
        BY <4>1, <4>3 DEF Passed
      <4>4. CASE j = m
        <5>1. q[1] = p[1] /\ q[2] <= p[2] /\ q[2] # p[2] /\ q[2] \in Nat
          BY <4>1, <4>4
        <5>2. ~(q[2] > path[m].slot)
          BY <5>1
        <5>3. q[2] <= path[m].slot
          BY <1>1, <5>1, <5>2
        <5> QED BY <1>1, <5>1, <5>3 DEF Passed
      <4> QED BY <4>2, <4>3, <4>4
    <3> QED BY <3>1, <3>2
  <2> QED BY <2>1 DEF Search
<1>8. ASSUME NEW c \in DOMAIN names
      PROVE  /\ Found(c, names[c])
             /\ Type(c) = "class" /\ \E q \in Places : ValueAt(q) = c /\ Entered(next, m + 1, D, q)
  <2>1. /\ Found(c, names[c]) /\ Type(c) = "class"
        /\ \E q \in Places : ValueAt(q) = c /\ Entered(path, m, D, q)
    BY DEF Search
  <2> QED BY <1>3, <2>1
<1>9. ASSUME NEW t \in D
      PROVE  Type(t) = "table" /\ \E q \in Places : ValueAt(q) = t /\ Entered(next, m + 1, D, q)
  <2>1. Type(t) = "table" /\ \E q \in Places : ValueAt(q) = t /\ Entered(path, m, D, q)
    BY DEF Search
  <2> QED BY <1>3, <2>1
<1> QED BY <1>5, <1>6, <1>7, <1>8, <1>9 DEF Search

\* The last table has no further slot.
LEMMA SearchAscends ==
    ASSUME IsTree, NEW path, NEW m \in Nat \ {0}, NEW D, NEW names, Search(path, m, D, names),
           \A q \in Places : q[2] \in Nat,
           \A q \in Places : q[1] = path[m].table => q[2] <= path[m].slot,
           NEW k, k = m - 1, NEW next, \A j \in 1 .. m : j # m => next[j] = path[j]
    PROVE  Search(next, k, D \cup {path[m].table}, names)
<1>0. PICK t, E : t = path[m].table /\ E = D \cup {t}
  OBVIOUS
<1>1. m \in 1 .. m /\ OnPath(path, m, m) /\ Type(t) = "table" /\ k \in Nat /\ k + 1 = m
  BY <1>0 DEF Search, OnPath
<1>2. ASSUME NEW j \in 1 .. k PROVE j \in 1 .. m /\ j < m /\ next[j] = path[j]
  <2>1. j \in 1 .. m /\ j < m
    BY <1>1
  <2> QED BY <2>1
<1>3. ASSUME NEW q \in Places, Entered(path, m, D, q) PROVE Entered(next, k, E, q)
  <2>1. CASE q[1] \in D
    BY <1>0, <2>1 DEF Entered
  <2>2. CASE q[1] \notin D
    <3>1. PICK j \in 1 .. m : q[1] = path[j].table /\ q[2] <= path[j].slot
      BY <1>3, <2>2 DEF Entered
    <3>2. CASE j = m
      BY <1>0, <3>1, <3>2 DEF Entered
    <3>3. CASE j # m
      <4>1. j \in 1 .. k
        BY <1>1, <3>3
      <4> QED BY <1>2, <3>1, <4>1 DEF Entered
    <3> QED BY <3>2, <3>3
  <2> QED BY <2>1, <2>2
<1>4. ASSUME NEW j \in 1 .. k PROVE OnPath(next, k, j)
  <2>1. OnPath(path, m, j) /\ next[j] = path[j] /\ j < m
    BY <1>2 DEF Search
  <2>2. ASSUME j < k PROVE next[j + 1] = path[j + 1]
    <3>1. j + 1 \in 1 .. k
      BY <1>1, <2>2
    <3> QED BY <1>2, <3>1
  <2> QED BY <2>1, <2>2 DEF OnPath
<1>5. NoneTwice(next, k, E)
  <2>1. NoneTwice(path, m, D)
    BY DEF Search
  <2>2. ASSUME NEW j \in 1 .. k PROVE next[j].table \notin E
    BY <1>0, <1>1, <1>2, <2>1 DEF NoneTwice
  <2>3. ASSUME NEW j \in 1 .. k, NEW i \in 1 .. k, i < j PROVE next[i].table # next[j].table
    BY <1>2, <2>1, <2>3 DEF NoneTwice
  <2> QED BY <2>2, <2>3 DEF NoneTwice
<1>6. ASSUME NEW q \in Places, Passed(next, k, E, q) PROVE Known(q, E, names)
  <2>1. CASE q[1] \in D
    <3>1. Known(q, D, names)
      BY <2>1 DEF Passed, Search
    <3> QED BY <1>0, <3>1 DEF Known
  <2>2. CASE q[1] = t
    <3>1. Passed(path, m, D, q)
      BY <1>0, <1>1, <2>2 DEF Passed
    <3>2. Known(q, D, names)
      BY <3>1 DEF Search
    <3> QED BY <1>0, <3>2 DEF Known
  <2>3. CASE q[1] \notin D /\ q[1] # t
    <3>1. PICK j \in 1 .. k : /\ q[1] = next[j].table /\ q[2] <= next[j].slot
                              /\ j < k => q[2] # next[j].slot
      BY <1>0, <1>6, <2>3 DEF Passed
    <3>2. next[j] = path[j] /\ j \in 1 .. m /\ j < m
      BY <1>2
    <3>3. CASE q[2] # path[j].slot
      <4>1. Passed(path, m, D, q)
        BY <3>1, <3>2, <3>3 DEF Passed
      <4>2. Known(q, D, names)
        BY <4>1 DEF Search
      <4> QED BY <1>0, <4>2 DEF Known
    <3>4. CASE q[2] = path[j].slot
      <4>1. j = k /\ j + 1 = m
        BY <1>1, <3>1, <3>2, <3>4
      <4>2. q = <<path[j].table, path[j].slot>>
        BY <3>1, <3>2, <3>4, PlaceIs
      <4>3. ValueAt(q) = t
        BY <1>0, <3>2, <4>1, <4>2 DEF Search, OnPath
      <4> QED BY <1>0, <1>1, <4>3 DEF Known
    <3> QED BY <3>3, <3>4
  <2> QED BY <2>1, <2>2, <2>3
<1>7. ASSUME NEW c \in DOMAIN names
      PROVE  /\ Found(c, names[c])
             /\ Type(c) = "class" /\ \E q \in Places : ValueAt(q) = c /\ Entered(next, k, E, q)
  <2>1. /\ Found(c, names[c]) /\ Type(c) = "class"
        /\ \E q \in Places : ValueAt(q) = c /\ Entered(path, m, D, q)
    BY DEF Search
  <2> QED BY <1>3, <2>1
<1>8. ASSUME NEW d \in E
      PROVE  /\ Type(d) = "table"
             /\ \/ d = RootTable /\ k = 0
                \/ \E q \in Places : ValueAt(q) = d /\ Entered(next, k, E, q)
  <2>1. CASE d \in D
    <3>1. Type(d) = "table" /\ \E q \in Places : ValueAt(q) = d /\ Entered(path, m, D, q)
      BY <2>1 DEF Search
    <3> QED BY <1>3, <3>1
  <2>2. CASE d = t /\ k = 0
    BY <1>0, <1>1, <2>2 DEF OnPath
  <2>3. CASE d = t /\ k # 0
    <3>1. k \in 1 .. m /\ k < m /\ OnPath(path, m, k)
      BY <1>1, <2>3 DEF Search
    <3>2. PICK q : q = <<path[k].table, path[k].slot>>
      OBVIOUS
    <3>3. q \in Places /\ ValueAt(q) = t /\ path[k].slot \in Nat
      BY <1>0, <1>1, <3>1, <3>2 DEF OnPath
    <3>4. q[1] = path[k].table /\ q[2] = path[k].slot
      BY <3>2
    <3>5. Entered(path, m, D, q)
      BY <3>1, <3>3, <3>4 DEF Entered
    <3> QED BY <1>1, <1>3, <2>3, <3>3, <3>5
  <2> QED BY <1>0, <2>1, <2>2, <2>3
<1>9. k = 0 => RootTable \in E
  BY <1>0, <1>1 DEF OnPath
<1>10. Search(next, k, E, names)
  BY <1>4, <1>5, <1>6, <1>7, <1>8, <1>9 DEF Search
<1> QED BY <1>0, <1>10

\* When the root table has been searched, every class that a way leads to is known.
LEMMA SearchFinds ==
    ASSUME held \in HeapsToShow, NEW path, NEW D, NEW names, Search(path, 0, D, names), NEW class, Type(class) = "class",
           NEW way \in Ways(class)
    PROVE  class \in DOMAIN names
<1>1. PICK n \in 1 .. Cardinality(DOMAIN held) : way \in [1 .. n -> Places] /\ IsWay(way, class)
  <2>1. PICK N, All : N = Cardinality(DOMAIN held) /\ All = UNION {[1 .. n -> Places] : n \in 1 .. N}
    OBVIOUS
  <2>2. way \in All /\ IsWay(way, class)
    BY <2>1 DEF Ways
  <2>3. \E n \in 1 .. N : way \in [1 .. n -> Places]
    BY <2>1, <2>2
  <2> QED BY <2>1, <2>2, <2>3
<1>2. n \in Nat \ {0}
  BY ShownAssumption, FS_CardinalityType
<1>3. /\ way[1][1] = RootTable /\ ValueAt(way[n]) = class
      /\ \A i \in 1 .. n - 1 : ValueAt(way[i]) = way[i + 1][1]
  BY <1>1, <1>2, WayIs
<1>4. ASSUME NEW p \in Places, p[1] \in D PROVE Known(p, D, names)
  BY <1>4 DEF Search, Passed
<1> DEFINE S == {i \in 1 .. n : way[i][1] \notin D}
<1>5. S = {}
  <2> SUFFICES ASSUME S # {} PROVE FALSE
    OBVIOUS
  <2>1. PICK i \in S : \A j \in S : i <= j
    <3>1. S \subseteq Nat
      BY <1>2
    <3> HIDE DEF S
    <3> QED BY <3>1, LeastNumber
  <2>2. i \in 1 .. n /\ way[i][1] \notin D
    BY <2>1
  <2>3. i # 1
    BY <1>3, <2>2 DEF Search
  <2>4. PICK j \in 1 .. n - 1 : j + 1 = i /\ ~(i <= j) /\ j \in 1 .. n
    BY <1>2, <2>2, <2>3
  <2>5. way[j][1] \in D /\ way[j] \in Places /\ way[i] \in Places
    BY <1>1, <2>1, <2>2, <2>4
  <2>6. ValueAt(way[j]) = way[i][1] /\ Type(way[i][1]) = "table"
    BY <1>3, <2>4, <2>5, PlaceIs
  <2> QED BY <1>4, <2>2, <2>5, <2>6 DEF Known
<1>6. way[n] \in Places /\ way[n][1] \in D
  <2>1. n \in 1 .. n
    BY <1>2
  <2> QED BY <1>1, <1>5, <2>1
<1> QED BY <1>3, <1>4, <1>6 DEF Known

-----------------------------------------------------------------------------
(* The calls that search *)

\* The slot that the i-th call has come to.
Cursor(i) ==
    IF calls[i].at = "begin" \/ operands[Began[i] + 1] = Null THEN 0 ELSE operands[Began[i] + 1][2]

\* The tables that are searched for the k-th call.
PathOf(k) ==
    [j \in 1 .. Len(calls) - k |->
        [table |-> Subject(k + j), slot |-> Cursor(k + j), name |-> calls[k + j].prefix]]

SearchesRoot(k)  == calls[k].fn = "ToClassFullName" /\ calls[k].at = "rootSearched"
LooksAtLocals(k) == calls[k].fn = "ToClassFullName" /\ calls[k].at \in {"locals", "localSearched"}

\* While the root table is searched, the search is in order; once it has been, and the class was not
\* found, there is no way to it.
NameInv ==
    IsTree =>
        /\ mode = "running" =>
              \A k \in 1 .. Len(calls) :
                 /\ SearchesRoot(k) => \E D : Search(PathOf(k), Len(calls) - k, D, classNames)
                 /\ LooksAtLocals(k) => Ways(Subject(k)) = {}
        /\ ClassesAreNamed

\* What does not change while the containers hold what they do.
LEMMA TreeStays ==
    ASSUME held' = held
    PROVE  IsTree' = IsTree /\ \A value : Ways(value)' = Ways(value)
<1>1. Places' = Places
  BY DEF Places
<1>2. \A p : ValueAt(p)' = ValueAt(p)
  BY DEF ValueAt
<1>3. \A way, value : IsWay(way, value)' = IsWay(way, value)
  BY <1>2 DEF IsWay
<1>4. IsTree' = IsTree
  BY <1>1, <1>2 DEF IsTree
<1>5. \A value : Ways(value)' = Ways(value)
  BY <1>1, <1>3 DEF Ways
<1> QED BY <1>4, <1>5

LEMMA SearchStays ==
    ASSUME held' = held, NEW path, NEW m, NEW D, NEW names, Search(path, m, D, names)
    PROVE  Search(path, m, D, names)'
<1>1. Places' = Places
  BY DEF Places
<1>2. \A p : ValueAt(p)' = ValueAt(p)
  BY DEF ValueAt
<1>3. \A way, value : IsWay(way, value)' = IsWay(way, value) /\ NameOf(way)' = NameOf(way)
  BY <1>2 DEF IsWay, NameOf, KeyAt
<1>4. \A value, name : Found(value, name)' = Found(value, name)
  BY <1>1, <1>3 DEF Found
<1>5. \A j : OnPath(path, m, j)' = OnPath(path, m, j)
  BY <1>1, <1>2, <1>4 DEF OnPath
<1>6. NoneTwice(path, m, D)' = NoneTwice(path, m, D)
  BY DEF NoneTwice
<1>7. \A p : /\ Passed(path, m, D, p)' = Passed(path, m, D, p)
             /\ Entered(path, m, D, p)' = Entered(path, m, D, p)
             /\ Known(p, D, names)' = Known(p, D, names)
  BY <1>2 DEF Passed, Entered, Known
<1> QED BY <1>1, <1>2, <1>4, <1>5, <1>6, <1>7 DEF Search

\* Above a search for a name are only searches of tables.
LEMMA HelpersAbove ==
    ASSUME ShowInv, mode = "running", NEW k \in 1 .. Len(calls), calls[k].fn = "ToClassFullName",
           NEW i \in k + 1 .. Len(calls)
    PROVE  calls[i].fn = "getClassesFullNameHelper"
<1>1. PICK n : n = Len(calls)
  OBVIOUS
<1>2. /\ n \in Nat \ {0} /\ \A j \in 1 .. n : IsFunction(calls[j].fn)
      /\ \A j \in 1 .. n - 1 : Follows(calls[j], calls[j + 1])
  BY <1>1, BeganIs DEF ShowInv
<1> DEFINE S == {j \in k + 1 .. n : calls[j].fn # "getClassesFullNameHelper"}
<1> SUFFICES S = {}
  BY <1>1
<1> SUFFICES ASSUME S # {} PROVE FALSE
  OBVIOUS
<1>3. PICK j \in S : \A l \in S : j <= l
  <2>1. S \subseteq Nat
    BY <1>1, <1>2
  <2> HIDE DEF S
  <2> QED BY <2>1, LeastNumber
<1>4. j \in k + 1 .. n /\ calls[j].fn # "getClassesFullNameHelper"
  BY <1>3
<1>5. PICK l \in 1 .. n - 1 : l + 1 = j /\ k <= l /\ ~(j <= l)
  <2>1. k \in Nat /\ j \in Nat /\ k + 1 <= j /\ j <= n
    BY <1>1, <1>2, <1>4
  <2>2. j - 1 \in 1 .. n - 1 /\ j - 1 + 1 = j /\ k <= j - 1 /\ ~(j <= j - 1)
    BY ONLY <1>1, <1>2, <2>1, k \in 1 .. Len(calls)
  <2> QED BY <2>2
<1>6. calls[l].fn \in {"ToClassFullName", "getClassesFullNameHelper"}
  <2>1. CASE l = k
    BY <2>1
  <2>2. CASE l # k
    <3>1. l \in k + 1 .. n /\ l \notin S
      BY <1>1, <1>2, <1>3, <1>5, <2>2
    <3> QED BY <3>1
  <2> QED BY <2>1, <2>2
<1>7. Follows(calls[l], calls[j])
  BY <1>2, <1>5
<1> QED BY <1>4, <1>6, <1>7 DEF Follows

\* Calls that a step does not touch are about what they were, and have come to where they had.
LEMMA SubjectsStay ==
    ASSUME ShowInv, mode = "running", StackInv', mode' = "running", held' = held,
           NEW m \in Nat, m <= Len(calls), m <= Len(calls'),
           \A i \in 1 .. m - 1 : calls'[i] = calls[i],
           Keeps(Began[Len(calls)])
    PROVE  \A i \in 1 .. m :
              /\ Began'[i] = Began[i] /\ Subject(i)' = Subject(i)
              /\ /\ i < Len(calls) /\ calls'[i] = calls[i]
                 /\ calls[i].fn = "getClassesFullNameHelper"
                 => Cursor(i)' = Cursor(i)
<1>1. PICK n : n = Len(calls)
  OBVIOUS
<1>2. n \in Nat \ {0} /\ StackInv
  BY <1>1, BeganIs DEF ShowInv
<1>3. \A i \in 1 .. m : Began'[i] = Began[i]
  BY LowerCallsStay
<1>4. ASSUME NEW i \in 1 .. m PROVE Subject(i)' = Subject(i)
  <2>1. i \in 1 .. n
    BY <1>1, <1>2
  <2>2. Began[i] \in Nat \ {0} /\ Began[n] \in Nat /\ Began[i] <= Began[n]
    <3>1. n \in 1 .. n
      BY <1>2
    <3> QED BY <1>1, <1>2, <2>1, <3>1, BeganIs, BeganBelow
  <2>3. Began[i] \in 1 .. Began[n]
    BY <2>2
  <2>4. operands'[Began[i]] = operands[Began[i]]
    BY <1>1, <2>3 DEF Keeps
  <2> QED BY <1>3, <2>4 DEF Subject
<1>5. ASSUME NEW i \in 1 .. m, i < n, calls'[i] = calls[i], calls[i].fn = "getClassesFullNameHelper"
      PROVE  Cursor(i)' = Cursor(i)
  <2>1. i \in 1 .. n /\ i \in 1 .. n - 1 /\ i # n
    BY <1>1, <1>2, <1>5
  <2>2. Follows(calls[i], calls[i + 1])
    BY <1>1, <2>1 DEF ShowInv
  <2>3. Owes(calls[i]) = 3
    BY <1>5, <2>2 DEF Follows, Owes
  <2>4. Began[i] \in Nat \ {0} /\ Began[n] \in Nat /\ Began[i] + 3 <= Began[n]
    <3>1. n \in 1 .. n
      BY <1>2
    <3>2. Began[i] + Owes(calls[i]) <= Began[n]
      BY <1>1, <1>2, <2>1, BeganBelow
    <3> QED BY <1>1, <1>2, <2>1, <2>3, <3>1, <3>2, BeganIs
  <2>5. Began[i] + 1 \in 1 .. Began[n]
    BY <2>4
  <2>6. operands'[Began[i] + 1] = operands[Began[i] + 1]
    BY <1>1, <2>5 DEF Keeps
  <2> QED BY <1>3, <1>5, <2>6 DEF Cursor
<1> QED BY <1>1, <1>3, <1>4, <1>5

\* The path of the k-th call is that of the calls after it.
LEMMA PathIs ==
    ASSUME ShowInv, mode = "running", NEW k \in 1 .. Len(calls), NEW m, m = Len(calls) - k
    PROVE  /\ m \in Nat
           /\ \A j \in 1 .. m :
                 /\ k + j \in k + 1 .. Len(calls)
                 /\ PathOf(k)[j] = [table |-> Subject(k + j), slot |-> Cursor(k + j),
                                    name |-> calls[k + j].prefix]
<1>1. PICK n : n = Len(calls)
  OBVIOUS
<1>2. n \in Nat
  BY <1>1, BeganIs DEF ShowInv
<1>3. m \in Nat /\ \A j \in 1 .. m : k + j \in k + 1 .. n
  BY <1>1, <1>2
<1> QED BY <1>1, <1>3 DEF PathOf

LEMMA PathIsAfter ==
    ASSUME ShowInv', mode' = "running", NEW k \in 1 .. Len(calls'), NEW m, m = Len(calls') - k
    PROVE  /\ m \in Nat
           /\ \A j \in 1 .. m :
                 /\ k + j \in k + 1 .. Len(calls')
                 /\ PathOf(k)'[j] = [table |-> Subject(k + j)', slot |-> Cursor(k + j)',
                                     name |-> calls'[k + j].prefix]
<1>1. PICK n : n = Len(calls')
  OBVIOUS
<1>2. n \in Nat
  BY <1>1, BeganIsAfter DEF ShowInv
<1>3. m \in Nat /\ \A j \in 1 .. m : k + j \in k + 1 .. n
  BY <1>1, <1>2
<1>4. PICK path : path = PathOf(k)'
  OBVIOUS
<1>5. path = [j \in 1 .. m |-> [table |-> Subject(k + j)', slot |-> Cursor(k + j)',
                                name |-> calls'[k + j].prefix]]
  BY <1>4 DEF PathOf
<1> QED BY <1>1, <1>3, <1>4, <1>5

LEMMA HelperCalls ==
    ASSUME ShowInv, mode = "running", Current.fn = "getClassesFullNameHelper", NEW n, n = Len(calls)
    PROVE  /\ n \in Nat /\ n - 1 \in 1 .. n /\ n \in 1 .. n /\ Current = calls[n] /\ StackInv
           /\ calls[n - 1].fn \in {"ToClassFullName", "getClassesFullNameHelper"}
<1>1. n \in Nat \ {0} /\ n # 1 /\ Current = calls[n] /\ StackInv
  BY BeganIs, CurrentCall DEF ShowInv
<1>2. PICK l \in 1 .. n - 1 : l = n - 1 /\ l + 1 = n
  BY <1>1
<1>3. IsFunction(calls[l].fn) /\ Follows(calls[l], calls[n])
  BY <1>1, <1>2 DEF ShowInv
<1>4. calls[l].fn \in {"ToClassFullName", "getClassesFullNameHelper"}
  BY <1>1, <1>3 DEF IsFunction, Follows
<1> QED BY <1>1, <1>2, <1>4

LEMMA SearchIsSame ==
    ASSUME NEW old, NEW new, NEW m \in Nat, \A j \in 1 .. m : new[j] = old[j],
           NEW D, NEW names, Search(old, m, D, names)
    PROVE  Search(new, m, D, names)
<1>1. \A j \in 1 .. m : OnPath(new, m, j)
  <2>1. ASSUME NEW j \in 1 .. m PROVE OnPath(new, m, j)
    <3>1. OnPath(old, m, j) /\ new[j] = old[j] /\ (j < m => j + 1 \in 1 .. m)
      BY DEF Search
    <3>2. j < m => new[j + 1] = old[j + 1]
      BY <3>1
    <3> QED BY <3>1, <3>2 DEF OnPath
  <2> QED BY <2>1
<1>2. NoneTwice(new, m, D)
  BY DEF Search, NoneTwice
<1>3. \A p : /\ Passed(new, m, D, p) => Passed(old, m, D, p)
             /\ Entered(old, m, D, p) => Entered(new, m, D, p)
  BY DEF Passed, Entered
<1>4. \A p \in Places : Passed(new, m, D, p) => Known(p, D, names)
  BY <1>3 DEF Search
<1>5. \A c \in DOMAIN names :
         /\ Found(c, names[c])
         /\ Type(c) = "class" /\ \E p \in Places : ValueAt(p) = c /\ Entered(new, m, D, p)
  BY <1>3 DEF Search
<1>6. \A t \in D :
         /\ Type(t) = "table"
         /\ \/ t = RootTable /\ m = 0
            \/ \E p \in Places : ValueAt(p) = t /\ Entered(new, m, D, p)
  BY <1>3 DEF Search
<1> QED BY <1>1, <1>2, <1>4, <1>5, <1>6 DEF Search

\* A step that leaves the last search where it is, moves it on or ends it has moved nothing else.
LEMMA HelperNames ==
    ASSUME ShowInv, ShowInv', NameInv, held' = held, mode = "running", mode' = "running",
           Current.fn = "getClassesFullNameHelper", NEW n, n = Len(calls), NEW l, l = Len(calls'),
           l \in {n - 1, n, n + 1}, Keeps(Began[n]),
           \A i \in 1 .. n - 1 : calls'[i] = calls[i],
           \A i \in n .. l : calls'[i].fn = "getClassesFullNameHelper",
           \A k \in 1 .. n - 1 :
              IsTree /\ SearchesRoot(k) => \E D : Search(PathOf(k)', l - k, D, classNames')
    PROVE  NameInv'
<1> SUFFICES ASSUME IsTree PROVE NameInv'
  BY TreeStays DEF NameInv
<1>1. /\ n \in Nat /\ n - 1 \in 1 .. n /\ n \in 1 .. n /\ Current = calls[n] /\ StackInv /\ StackInv'
      /\ calls[n - 1].fn \in {"ToClassFullName", "getClassesFullNameHelper"}
  BY HelperCalls DEF ShowInv
<1>2. l \in Nat /\ l \in 1 .. l /\ l \in {n - 1} \cup (n .. l)
  BY <1>1
<1>3. calls'[l].fn \in {"ToClassFullName", "getClassesFullNameHelper"}
  BY <1>1, <1>2
<1>4. ClassesAreNamed'
  <2>1. Current' = calls'[l]
    BY BeganIsAfter DEF ShowInv
  <2> QED BY <1>3, <2>1 DEF ClassesAreNamed, Where
<1>5. ASSUME NEW k \in 1 .. l
      PROVE  /\ SearchesRoot(k)' => \E D : Search(PathOf(k), l - k, D, classNames)'
             /\ LooksAtLocals(k)' => Ways(Subject(k))' = {}
  <2>1. CASE k \notin 1 .. n - 1
    <3>1. k \in n .. l
      BY <1>1, <1>2, <2>1
    <3>2. calls'[k].fn = "getClassesFullNameHelper"
      BY <3>1
    <3> QED BY <3>2 DEF SearchesRoot, LooksAtLocals
  <2>2. CASE k \in 1 .. n - 1
    <3>1. calls'[k] = calls[k] /\ k \in 1 .. n
      BY <1>1, <2>2
    <3>2. ASSUME SearchesRoot(k)' PROVE \E D : Search(PathOf(k), l - k, D, classNames)'
      <4>1. SearchesRoot(k)
        BY <3>1, <3>2 DEF SearchesRoot
      <4>2. PICK path, m, names : path = PathOf(k)' /\ m = l - k /\ names = classNames'
        OBVIOUS
      <4>3. PICK D : Search(path, m, D, names)
        BY <2>2, <4>1, <4>2
      <4>4. Search(path, m, D, names)'
        BY <4>3, SearchStays
      <4> QED BY <4>2, <4>4
    <3>3. ASSUME LooksAtLocals(k)' PROVE Ways(Subject(k))' = {}
      <4>1. LooksAtLocals(k)
        BY <3>1, <3>3 DEF LooksAtLocals
      <4>2. PICK v : v = Subject(k)
        OBVIOUS
      <4>3. Ways(v) = {}
        BY <3>1, <4>1, <4>2 DEF NameInv
      <4>4. Subject(k)' = v
        <5>1. PICK m \in Nat : m = n - 1
          BY <1>1
        <5>2. m <= n /\ m <= l /\ \A i \in 1 .. m - 1 : i \in 1 .. n - 1
          BY <1>1, <1>2, <5>1
        <5>3. \A i \in 1 .. m : Subject(i)' = Subject(i)
          BY <1>1, <5>1, <5>2, SubjectsStay
        <5> QED BY <2>2, <4>2, <5>1, <5>3
      <4>5. Ways(v)' = {}
        BY <4>3, TreeStays
      <4> QED BY <4>4, <4>5
    <3> QED BY <3>2, <3>3
  <2> QED BY <2>1, <2>2
<1>6. \A k \in 1 .. Len(calls') :
         /\ SearchesRoot(k)' => \E D : Search(PathOf(k), Len(calls) - k, D, classNames)'
         /\ LooksAtLocals(k)' => Ways(Subject(k))' = {}
  BY <1>5
<1> QED BY <1>4, <1>6 DEF NameInv

LastMovesIn(old, new, m, k, n) ==
    /\ m \in Nat \ {0} /\ k + m = n
    /\ \A j \in 1 .. m : j # m => new[j] = old[j]
    /\ old[m] = [table |-> Subject(n), slot |-> Cursor(n), name |-> Current.prefix]
    /\ new[m] = [table |-> Subject(n), slot |-> Cursor(n)', name |-> Current.prefix]
LastMoves(k, n) ==
    \A m, old, new : m = n - k /\ old = PathOf(k) /\ new = PathOf(k)' => LastMovesIn(old, new, m, k, n)

\* What becomes of the path when the last search goes on.
LEMMA PathGoesOn ==
    ASSUME ShowInv, ShowInv', held' = held, mode = "running", mode' = "running",
           Current.fn = "getClassesFullNameHelper", NEW n \in Nat, n = Len(calls),
           Len(calls') \in {n, n + 1}, Keeps(Began[n]),
           \A i \in 1 .. n - 1 : calls'[i] = calls[i], calls'[n].prefix = Current.prefix,
           NEW k \in 1 .. n - 1, SearchesRoot(k)
    PROVE  LastMoves(k, n)
<1> SUFFICES ASSUME NEW m, m = n - k, NEW old, old = PathOf(k), NEW new, new = PathOf(k)'
             PROVE  LastMovesIn(old, new, m, k, n)
  BY DEF LastMoves
<1>1. n \in Nat /\ n \in 1 .. n /\ Current = calls[n] /\ StackInv /\ StackInv'
  BY HelperCalls DEF ShowInv
<1>2. m \in Nat \ {0} /\ k + m = n /\ k \in 1 .. n /\ n <= n
  BY <1>1
<1>3. PICK l, h : l = Len(calls') /\ h = l - k
  OBVIOUS
<1>4. l \in Nat /\ n <= l /\ k \in 1 .. l /\ \A j \in 1 .. m : j \in 1 .. h
  BY <1>1, <1>2, <1>3
<1>5. \A j \in 1 .. m :
         old[j] = [table |-> Subject(k + j), slot |-> Cursor(k + j), name |-> calls[k + j].prefix]
  BY <1>2, PathIs
<1>6. \A j \in 1 .. m :
         new[j] = [table |-> Subject(k + j)', slot |-> Cursor(k + j)', name |-> calls'[k + j].prefix]
  BY <1>3, <1>4, PathIsAfter
<1>7. \A i \in 1 .. n :
         /\ Subject(i)' = Subject(i)
         /\ /\ i < n /\ calls'[i] = calls[i] /\ calls[i].fn = "getClassesFullNameHelper"
            => Cursor(i)' = Cursor(i)
  BY <1>1, <1>3, <1>4, SubjectsStay
<1>8. ASSUME NEW j \in 1 .. m, j # m PROVE new[j] = old[j]
  <2>1. PICK i \in 1 .. n - 1 : i = k + j /\ i \in k + 1 .. n /\ i \in 1 .. n /\ i < n
    BY <1>1, <1>2, <1>8
  <2>2. calls[i].fn = "getClassesFullNameHelper" /\ calls'[i] = calls[i]
    BY <1>2, <2>1, HelpersAbove DEF SearchesRoot
  <2>3. Subject(i)' = Subject(i) /\ Cursor(i)' = Cursor(i)
    BY <1>7, <2>1, <2>2
  <2>4. old[j] = [table |-> Subject(i), slot |-> Cursor(i), name |-> calls[i].prefix]
    BY <1>5, <2>1
  <2>5. new[j] = [table |-> Subject(i)', slot |-> Cursor(i)', name |-> calls'[i].prefix]
    BY <1>6, <2>1
  <2> QED BY <2>2, <2>3, <2>4, <2>5
<1>9. m \in 1 .. m
  BY <1>2
<1>10. old[m] = [table |-> Subject(n), slot |-> Cursor(n), name |-> Current.prefix]
  BY <1>1, <1>2, <1>5, <1>9
<1>11. new[m] = [table |-> Subject(n), slot |-> Cursor(n)', name |-> Current.prefix]
  <2>1. new[m] = [table |-> Subject(n)', slot |-> Cursor(n)', name |-> calls'[n].prefix]
    BY <1>2, <1>6, <1>9
  <2>2. Subject(n)' = Subject(n)
    BY <1>1, <1>7
  <2> QED BY <2>1, <2>2
<1> QED BY <1>2, <1>8, <1>10, <1>11 DEF LastMovesIn

\* The slots after the cursor.
LEMMA CursorIs ==
    ASSUME ShowInv, Where("getClassesFullNameHelper", "next"), NEW n, n = Len(calls),
           NEW s, s = NextOfContainer, NEW c, c = Subject(n)
    PROVE  /\ Cursor(n) \in Nat
           /\ \A q \in Places : q[2] \in Nat \ {0}
           /\ s = 0 => \A q \in Places : q[1] = c => q[2] <= Cursor(n)
           /\ s # 0 =>
                 /\ c \in DOMAIN held /\ s \in Filled(held[c]) /\ s \in Nat \ {0} /\ s > Cursor(n)
                 /\ NextEntry = held[c][s]
                 /\ <<c, s>> \in Places
                 /\ ValueAt(<<c, s>>) = NextEntry.val /\ KeyAt(<<c, s>>) = NextEntry.key
                 /\ \A q \in Places : q[1] = c /\ q[2] > Cursor(n) => s <= q[2]
<1>0. PICK b : b = Began[Len(calls)]
  OBVIOUS
<1>1. /\ mode = "running" /\ held \in HeapsToShow /\ Current.at = "next" /\ Type(c) = "table"
      /\ Top = operands[b + 1]
      /\ \E iter \in Nat : /\ s = NextSlot(Slots(held, c), iter)
                           /\ (iter = 0 /\ Top = Null) \/ Top = Integer(iter)
      /\ s # 0 =>
            /\ c \in DOMAIN held /\ s \in Filled(held[c]) /\ s \in Nat \ {0}
            /\ Slots(held, c) = held[c] /\ NextEntry = held[c][s]
  <2>1. c = operands[b]
    BY <1>0 DEF Subject
  <2> QED BY <1>0, <2>1, HereAtNext
<1>2. PICK iter \in Nat : /\ s = NextSlot(Slots(held, c), iter)
                          /\ (iter = 0 /\ Top = Null) \/ Top = Integer(iter)
  BY <1>1
<1>3. Cursor(n) = iter
  <2>1. calls[n].at = "next"
    BY <1>1 DEF Current, Last
  <2>2. operands[Began[n] + 1] = Top
    BY <1>0, <1>1
  <2> QED BY <1>2, <2>1, <2>2 DEF Cursor, Integer, Null
<1>4. ASSUME NEW q \in Places PROVE q[1] \in DOMAIN held /\ q[2] \in Filled(held[q[1]]) /\ q[2] \in Nat \ {0}
  BY <1>1, PlaceIs, ShownAssumption DEF Filled
<1>5. /\ s # 0 => /\ c \in DOMAIN held /\ s > iter
                  /\ \A i \in Filled(held[c]) : i > iter => s <= i
      /\ s = 0 /\ c \in DOMAIN held => \A i \in Filled(held[c]) : ~(i > iter)
  BY <1>1, <1>2, NextSlotIs
<1>6. ASSUME s = 0, NEW q \in Places, q[1] = c PROVE q[2] <= iter
  <2>1. ~(q[2] > iter)
    BY <1>4, <1>5, <1>6
  <2> QED BY <1>4, <2>1
<1>7. ASSUME s # 0 PROVE \A q \in Places : q[1] = c /\ q[2] > iter => s <= q[2]
  BY <1>4, <1>5, <1>7
<1>8. ASSUME s # 0
      PROVE  /\ <<c, s>> \in Places
             /\ ValueAt(<<c, s>>) = NextEntry.val /\ KeyAt(<<c, s>>) = NextEntry.key
  BY <1>1, <1>8, SlotIsPlace
<1> QED BY <1>1, <1>3, <1>4, <1>5, <1>6, <1>7, <1>8

\* The last search stays where it is.
LEMMA SameCursor ==
    ASSUME ShowInv, ShowInv', NameInv, held' = held, mode = "running",
           Current.fn = "getClassesFullNameHelper", NEW n, n = Len(calls), Keeps(Began[n]),
           NEW call, GoOn(call), call.fn = "getClassesFullNameHelper",
           call.prefix = Current.prefix,
           Began'[n] = Began[n] => Cursor(n)' = Cursor(n), classNames' = classNames
    PROVE  NameInv'
<1>1. n \in Nat /\ n - 1 \in 1 .. n /\ n \in 1 .. n /\ n <= n /\ StackInv /\ StackInv'
  BY HelperCalls DEF ShowInv
<1>2. /\ Len(calls') = n /\ calls'[n] = call /\ mode' = "running"
      /\ \A i \in 1 .. n - 1 : calls'[i] = calls[i]
  BY <1>1, GoOnCalls
<1>6. Len(calls') \in {n, n + 1} /\ calls'[n].prefix = Current.prefix
  BY <1>2
<1>3. Cursor(n)' = Cursor(n)
  <2>1. Began'[n] = Began[n]
    BY <1>1, <1>2, SubjectsStay
  <2> QED BY <2>1
<1>4. ASSUME NEW k \in 1 .. n - 1, IsTree, SearchesRoot(k)
      PROVE  \E D : Search(PathOf(k)', n - k, D, classNames')
  <2>1. PICK m, old, new : m = n - k /\ old = PathOf(k) /\ new = PathOf(k)'
    OBVIOUS
  <2>2. /\ m \in Nat \ {0}
        /\ \A j \in 1 .. m : j # m => new[j] = old[j]
        /\ old[m] = [table |-> Subject(n), slot |-> Cursor(n), name |-> Current.prefix]
        /\ new[m] = [table |-> Subject(n), slot |-> Cursor(n)', name |-> Current.prefix]
    <3>1. /\ ShowInv /\ ShowInv' /\ held' = held /\ mode = "running" /\ mode' = "running"
          /\ Current.fn = "getClassesFullNameHelper" /\ n = Len(calls) /\ Keeps(Began[n])
      BY <1>2
    <3>2. LastMoves(k, n)
      BY ONLY <3>1, <1>1, <1>2, <1>4, <1>6, PathGoesOn
    <3>3. LastMovesIn(old, new, m, k, n)
      BY ONLY <2>1, <3>2 DEF LastMoves
    <3> QED BY ONLY <3>3 DEF LastMovesIn
  <2>3. \A j \in 1 .. m : new[j] = old[j]
    BY <1>3, <2>2
  <2>4. PICK D : Search(old, m, D, classNames)
    <3>1. k \in 1 .. n
      BY <1>1
    <3> QED BY <1>4, <2>1, <3>1 DEF NameInv
  <2>5. Search(new, m, D, classNames)
    BY <2>2, <2>3, <2>4, SearchIsSame
  <2> QED BY <2>1, <2>5
<1>5. \A i \in n .. n : calls'[i].fn = "getClassesFullNameHelper"
  BY <1>1, <1>2
<1> QED BY <1>1, <1>2, <1>4, <1>5, HelperNames

\* The last search moves on in its table, past what is no table.
LEMMA AdvanceNames ==
    ASSUME ShowInv, ShowInv', NameInv, held' = held, Where("getClassesFullNameHelper", "next"),
           NextOfContainer # 0, Advance, UNCHANGED <<calls, mode>>, Type(NextEntry.val) # "table",
           \/ classNames' = classNames /\ Type(NextEntry.val) # "class"
           \/ AddClass
    PROVE  NameInv'
<1>0. PICK n, b, c, s : n = Len(calls) /\ b = Began[n] /\ c = Subject(n) /\ s = NextOfContainer
  OBVIOUS
<1>1. /\ mode = "running" /\ Current.fn = "getClassesFullNameHelper" /\ Current.at = "next"
      /\ b \in Nat \ {0} /\ IsSeq(operands) /\ Len(operands) = b + 1
  <2>1. c = operands[b]
    BY <1>0 DEF Subject
  <2> QED BY <1>0, <2>1, HereAtNext
<1>2. n \in Nat /\ n - 1 \in 1 .. n /\ n \in 1 .. n /\ n <= n /\ Current = calls[n]
      /\ StackInv /\ StackInv'
  BY <1>0, <1>1, HelperCalls DEF ShowInv
<1>3. Keeps(b) /\ operands'[b + 1] = Integer(s)
  <2>1. Len(operands) - 1 = b /\ 1 <= Len(operands)
    BY <1>1
  <2>2. operands' = Push(Pop(operands, 1), Integer(s))
    BY <1>0 DEF Advance
  <2>3. Keeps(Len(operands) - 1) /\ operands'[Len(operands) - 1 + 1] = Integer(s)
    BY <1>1, <2>1, <2>2, PushOneKeeps
  <2> QED BY <2>1, <2>3
<1>4. Cursor(n)' = s
  <2>1. Began'[n] = b
    BY <1>0, <1>1, <1>2, <1>3, SubjectsStay
  <2>2. calls'[n].at = "next" /\ operands'[b + 1] # Null /\ operands'[b + 1][2] = s
    BY <1>1, <1>2, <1>3 DEF Integer, Null
  <2> QED BY <2>1, <2>2 DEF Cursor
<1>5. PICK p : p = <<c, s>>
  OBVIOUS
<1>6. /\ Cursor(n) \in Nat /\ \A q \in Places : q[2] \in Nat \ {0}
      /\ s \in Nat \ {0} /\ s > Cursor(n) /\ p \in Places /\ p[1] = c /\ p[2] = s
      /\ ValueAt(p) = NextEntry.val /\ KeyAt(p) = NextEntry.key
      /\ \A q \in Places : q[1] = c /\ q[2] > Cursor(n) => s <= q[2]
  BY <1>0, <1>5, CursorIs
<1>7. ASSUME NEW k \in 1 .. n - 1, IsTree, SearchesRoot(k)
      PROVE  \E D : Search(PathOf(k)', n - k, D, classNames')
  <2>1. PICK m, old, new, more :
           m = n - k /\ old = PathOf(k) /\ new = PathOf(k)' /\ more = classNames'
    OBVIOUS
  <2>2. /\ m \in Nat \ {0}
        /\ \A j \in 1 .. m : j # m => new[j] = old[j]
        /\ old[m] = [table |-> c, slot |-> Cursor(n), name |-> Current.prefix]
        /\ new[m] = [table |-> c, slot |-> s, name |-> Current.prefix]
    <3>1. /\ ShowInv /\ ShowInv' /\ held' = held /\ mode = "running" /\ mode' = "running"
          /\ Current.fn = "getClassesFullNameHelper" /\ n = Len(calls) /\ Keeps(Began[n])
          /\ Len(calls') \in {n, n + 1} /\ calls'[n].prefix = Current.prefix
          /\ \A i \in 1 .. n - 1 : calls'[i] = calls[i]
      BY <1>0, <1>1, <1>2, <1>3
    <3>2. /\ m \in Nat \ {0}
          /\ \A j \in 1 .. m : j # m => new[j] = old[j]
          /\ old[m] = [table |-> Subject(n), slot |-> Cursor(n), name |-> Current.prefix]
          /\ new[m] = [table |-> Subject(n), slot |-> Cursor(n)', name |-> Current.prefix]
      <4>1. LastMoves(k, n)
        BY ONLY <3>1, <1>2, <1>7, PathGoesOn
      <4>2. LastMovesIn(old, new, m, k, n)
        BY ONLY <2>1, <4>1 DEF LastMoves
      <4> QED BY ONLY <4>2 DEF LastMovesIn
    <3> QED BY <1>0, <1>4, <3>2
  <2>3. PICK D : Search(old, m, D, classNames)
    <3>1. k \in 1 .. n
      BY <1>2
    <3> QED BY <1>0, <1>1, <1>7, <2>1, <3>1 DEF NameInv
  <2>4. Found(c, Current.prefix)
    <3>1. OnPath(old, m, m)
      BY <2>2, <2>3 DEF Search
    <3> QED BY <2>2, <3>1 DEF OnPath
  <2>5. /\ \A d \in DOMAIN classNames : d \in DOMAIN more /\ more[d] = classNames[d]
        /\ \A d \in DOMAIN more :
              \/ d \in DOMAIN classNames
              \/ d = ValueAt(p) /\ Type(d) = "class" /\ Found(d, more[d])
        /\ Known(p, D, more)
    <3>1. CASE classNames' = classNames /\ Type(NextEntry.val) # "class"
      BY <1>6, <2>1, <3>1 DEF Known
    <3>2. CASE AddClass
      <4>1. PICK class : /\ class = ValueAt(p) /\ Type(class) = "class"
                         /\ class \notin DOMAIN classNames
                         /\ more = [d \in DOMAIN classNames \cup {class} |->
                                       IF d = class THEN FullName ELSE classNames[d]]
        BY <1>6, <2>1, <3>2 DEF AddClass, HasEntry
      <4>2. Found(class, FullName)
        BY <1>6, <2>4, <4>1, FoundIn DEF FullName
      <4>3. DOMAIN more = DOMAIN classNames \cup {class} /\ more[class] = FullName
            /\ \A d \in DOMAIN classNames : more[d] = classNames[d]
        BY <4>1
      <4> QED BY <4>1, <4>2, <4>3 DEF Known
    <3> QED BY <3>1, <3>2
  <2>6. /\ new[m].table = old[m].table /\ new[m].slot = p[2] /\ new[m].name = old[m].name
        /\ p[1] = old[m].table /\ p[2] \in Nat /\ p[2] > old[m].slot
        /\ \A q \in Places : q[1] = p[1] /\ q[2] > old[m].slot => p[2] <= q[2]
        /\ \A q \in Places : q[2] \in Nat
    BY <1>6, <2>2
  <2>7. Search(new, m, D, more)
    BY <1>6, <1>7, <2>2, <2>3, <2>5, <2>6, SearchGoesOn
  <2> QED BY <2>1, <2>7
<1>8. \A i \in n .. n : calls'[i].fn = "getClassesFullNameHelper"
  BY <1>1, <1>2
<1>9. Len(calls') = n /\ mode' = "running" /\ \A i \in 1 .. n - 1 : calls'[i] = calls[i]
  BY <1>0, <1>1
<1> QED BY <1>0, <1>1, <1>2, <1>3, <1>7, <1>8, <1>9, HelperNames

\* The last search comes to its end.
LEMMA EndNames ==
    ASSUME ShowInv, ShowInv', NameInv, held' = held, EndClasses
    PROVE  NameInv'
<1>0. PICK n, b, c, l : n = Len(calls) /\ b = Began[n] /\ c = Subject(n) /\ l = n - 1
  OBVIOUS
<1>1. /\ Where("getClassesFullNameHelper", "next") /\ NextOfContainer = 0
      /\ operands' = Pop(operands, 1) /\ Returns(0) /\ classNames' = classNames
  BY DEF EndClasses
<1>2. /\ mode = "running" /\ Current.fn = "getClassesFullNameHelper"
      /\ b \in Nat \ {0} /\ IsSeq(operands) /\ Len(operands) = b + 1
  <2>1. c = operands[b]
    BY <1>0 DEF Subject
  <2> QED BY <1>0, <1>1, <2>1, HereAtNext
<1>3. /\ n \in Nat /\ l \in 1 .. n /\ n \in 1 .. n /\ n = l + 1 /\ l \in Nat /\ l <= n /\ l <= l
      /\ StackInv /\ StackInv'
  BY <1>0, <1>2, HelperCalls DEF ShowInv
<1>4. Keeps(b)
  <2>1. Len(operands) - 1 = b /\ 1 <= Len(operands)
    BY <1>2
  <2> QED BY <1>1, <1>2, <2>1, PopKeeps
<1>5. /\ Len(calls') = l /\ mode' = "running"
      /\ \A i \in 1 .. l : calls'[i] = calls[i]
  BY <1>0, <1>1, <1>2, <1>3, ReturnsCalls
<1>6. \A i \in 1 .. l :
         /\ Subject(i)' = Subject(i)
         /\ /\ i < n /\ calls'[i] = calls[i] /\ calls[i].fn = "getClassesFullNameHelper"
            => Cursor(i)' = Cursor(i)
  <2>1. \A i \in 1 .. l - 1 : calls'[i] = calls[i]
    BY <1>3, <1>5
  <2> QED BY <1>0, <1>2, <1>3, <1>4, <1>5, <2>1, SubjectsStay
<1>7. \A q \in Places : q[2] \in Nat \ {0} /\ (q[1] = c => q[2] <= Cursor(n))
  BY <1>0, <1>1, CursorIs
<1>8. ASSUME NEW k \in 1 .. n - 1, IsTree, SearchesRoot(k)
      PROVE  \E D : Search(PathOf(k)', l - k, D, classNames')
  <2>1. PICK m, h, old, new : m = n - k /\ h = l - k /\ old = PathOf(k) /\ new = PathOf(k)'
    OBVIOUS
  <2>2. m \in Nat \ {0} /\ h = m - 1 /\ h \in Nat /\ k \in 1 .. n /\ k \in 1 .. l /\ k + m = n
    BY <1>3, <2>1
  <2>3. \A j \in 1 .. m :
           old[j] = [table |-> Subject(k + j), slot |-> Cursor(k + j), name |-> calls[k + j].prefix]
    BY <1>0, <1>2, <2>1, <2>2, PathIs
  <2>4. \A j \in 1 .. h :
           /\ k + j \in k + 1 .. l
           /\ new[j] = [table |-> Subject(k + j)', slot |-> Cursor(k + j)',
                        name |-> calls'[k + j].prefix]
    BY <1>5, <2>1, <2>2, PathIsAfter
  <2>5. ASSUME NEW j \in 1 .. m, j # m PROVE new[j] = old[j]
    <3>1. PICK i \in 1 .. l : i = k + j /\ i < n /\ i \in k + 1 .. n /\ j \in 1 .. h
      BY <1>3, <2>2, <2>5
    <3>2. calls[i].fn = "getClassesFullNameHelper"
      BY <1>0, <1>2, <1>8, <2>2, <3>1, HelpersAbove DEF SearchesRoot
    <3>3. Subject(i)' = Subject(i) /\ Cursor(i)' = Cursor(i) /\ calls'[i] = calls[i]
      BY <1>5, <1>6, <3>1, <3>2
    <3>4. old[j] = [table |-> Subject(i), slot |-> Cursor(i), name |-> calls[i].prefix]
      BY <2>3, <3>1
    <3>5. new[j] = [table |-> Subject(i)', slot |-> Cursor(i)', name |-> calls'[i].prefix]
      BY <2>4, <3>1
    <3> QED BY <3>3, <3>4, <3>5
  <2>6. old[m].table = c /\ old[m].slot = Cursor(n)
    <3>1. m \in 1 .. m
      BY <2>2
    <3>2. old[m] = [table |-> Subject(k + m), slot |-> Cursor(k + m), name |-> calls[k + m].prefix]
      BY <2>3, <3>1
    <3> QED BY <1>0, <2>2, <3>2
  <2>7. PICK D : Search(old, m, D, classNames)
    BY <1>0, <1>2, <1>8, <2>1, <2>2 DEF NameInv
  <2>8. Search(new, h, D \cup {old[m].table}, classNames)
    <3>1. /\ \A q \in Places : q[2] \in Nat
          /\ \A q \in Places : q[1] = old[m].table => q[2] <= old[m].slot
      BY <1>7, <2>6
    <3> QED BY <1>8, <2>2, <2>5, <2>7, <3>1, SearchAscends
  <2> QED BY <1>1, <2>1, <2>8
<1>9. n .. l = {} /\ \A i \in 1 .. n - 1 : calls'[i] = calls[i]
  BY <1>0, <1>3, <1>5
<1> QED BY <1>0, <1>2, <1>3, <1>4, <1>5, <1>8, <1>9, HelperNames

LEMMA StartNames ==
    ASSUME ShowInv, ShowInv', NameInv, held' = held, StartClasses
    PROVE  NameInv'
<1>0. PICK n, b, call : n = Len(calls) /\ b = Began[n] /\ call = Reached("next")
  OBVIOUS
<1>1. /\ Where("getClassesFullNameHelper", "begin") /\ GoOn(call) /\ classNames' = classNames
      /\ operands' = Push(operands, Null)
  BY <1>0 DEF StartClasses
<1>2. /\ mode = "running" /\ StackInv /\ IsCall(Current) /\ Current.fn = "getClassesFullNameHelper"
      /\ Current.at = "begin" /\ b \in Nat \ {0} /\ n \in Nat \ {0}
      /\ IsSeq(operands) /\ Len(operands) = b + Owes(Current)
  BY <1>0, <1>1, Here
<1>3. Len(operands) = b
  <2>1. Owes(Current) = 0
    BY <1>2 DEF Owes
  <2> QED BY <1>2, <2>1
<1>4. Keeps(b) /\ operands'[b + 1] = Null
  BY <1>1, <1>2, <1>3, PushKeepsAll
<1>5. /\ call.fn = "getClassesFullNameHelper" /\ call.at = "next" /\ call.prefix = Current.prefix
  BY <1>0, <1>2, ReachedIs
<1>6. calls'[n] = call /\ Current = calls[n]
  <2>1. calls'[Len(calls)] = call
    BY <1>1, <1>2, GoOnCalls
  <2>2. Current = calls[Len(calls)]
    BY <1>2, BeganIs
  <2> QED BY <1>0, <2>1, <2>2
<1>7. Began'[n] = Began[n] => Cursor(n)' = Cursor(n)
  <2>1. Cursor(n) = 0
    BY <1>2, <1>6 DEF Cursor
  <2>2. Began'[n] = b => Cursor(n)' = 0
    BY <1>4 DEF Cursor
  <2> QED BY <1>0, <2>1, <2>2
<1> QED BY <1>0, <1>1, <1>2, <1>4, <1>5, <1>7, SameCursor

LEMMA DescendedNames ==
    ASSUME ShowInv, ShowInv', NameInv, held' = held, TableDescended
    PROVE  NameInv'
<1>0. PICK n, b, call : n = Len(calls) /\ b = Began[n] /\ call = Reached("next")
  OBVIOUS
<1>1. /\ Where("getClassesFullNameHelper", "descended") /\ GoOn(call) /\ classNames' = classNames
      /\ operands' = Pop(operands, 2)
  BY <1>0 DEF TableDescended
<1>2. /\ mode = "running" /\ StackInv /\ IsCall(Current) /\ Current.fn = "getClassesFullNameHelper"
      /\ Current.at = "descended" /\ b \in Nat \ {0} /\ n \in Nat \ {0}
      /\ IsSeq(operands) /\ Len(operands) = b + Owes(Current)
  BY <1>0, <1>1, Here
<1>3. Len(operands) - 2 = b + 1 /\ 2 <= Len(operands)
  <2>1. Owes(Current) = 3
    BY <1>2 DEF Owes
  <2> QED BY <1>2, <2>1
<1>4. Keeps(b) /\ operands'[b + 1] = operands[b + 1]
  <2>1. PICK h : h = b + 1
    OBVIOUS
  <2>2. Keeps(h)
    BY <1>1, <1>2, <1>3, <2>1, PopKeeps
  <2>3. h \in 1 .. h /\ \A k \in 1 .. b : k \in 1 .. h
    BY <1>2, <2>1
  <2> QED BY <2>1, <2>2, <2>3 DEF Keeps
<1>5. /\ call.fn = "getClassesFullNameHelper" /\ call.at = "next" /\ call.prefix = Current.prefix
  BY <1>0, <1>2, ReachedIs
<1>6. calls'[n] = call /\ Current = calls[n]
  <2>1. calls'[Len(calls)] = call
    BY <1>1, <1>2, GoOnCalls
  <2>2. Current = calls[Len(calls)]
    BY <1>2, BeganIs
  <2> QED BY <1>0, <2>1, <2>2
<1>7. Began'[n] = Began[n] => Cursor(n)' = Cursor(n)
  <2>1. calls[n].at # "begin" /\ calls'[n].at # "begin"
    BY <1>2, <1>5, <1>6
  <2> QED BY <1>0, <1>4, <2>1 DEF Cursor
<1> QED BY <1>0, <1>1, <1>2, <1>4, <1>5, <1>7, SameCursor

\* Where everything is in one place, no class is met twice.
LEMMA BreakNames ==
    ASSUME ShowInv, ShowInv', NameInv, held' = held, BreakAtKnownClass
    PROVE  NameInv'
<1>0. PICK n, b, c, l, s, p :
         n = Len(calls) /\ b = Began[n] /\ c = Subject(n) /\ l = n - 1 /\ s = NextOfContainer
         /\ p = <<c, s>>
  OBVIOUS
<1>1. /\ Where("getClassesFullNameHelper", "next") /\ s # 0
      /\ operands' = Pop(operands, 1) /\ Returns(0) /\ classNames' = classNames
      /\ Type(NextEntry.val) = "class" /\ NextEntry.val \in DOMAIN classNames
  BY <1>0 DEF BreakAtKnownClass, HasEntry
<1>2. /\ mode = "running" /\ Current.fn = "getClassesFullNameHelper"
      /\ b \in Nat \ {0} /\ IsSeq(operands) /\ Len(operands) = b + 1
  <2>1. c = operands[b]
    BY <1>0 DEF Subject
  <2> QED BY <1>0, <1>1, <2>1, HereAtNext
<1>3. n \in Nat /\ l \in 1 .. n /\ n = l + 1 /\ StackInv /\ StackInv'
  BY <1>0, <1>2, HelperCalls DEF ShowInv
<1>4. Keeps(b)
  <2>1. Len(operands) - 1 = b /\ 1 <= Len(operands)
    BY <1>2
  <2> QED BY <1>1, <1>2, <2>1, PopKeeps
<1>5. /\ Len(calls') = l /\ mode' = "running"
      /\ \A i \in 1 .. n - 1 : calls'[i] = calls[i]
  BY <1>0, <1>1, <1>2, <1>3, ReturnsCalls
<1>6. /\ s \in Nat \ {0} /\ s > Cursor(n) /\ p \in Places /\ p[1] = c /\ p[2] = s
      /\ ValueAt(p) = NextEntry.val
  BY <1>0, <1>1, CursorIs
<1>7. ASSUME NEW k \in 1 .. n - 1, IsTree, SearchesRoot(k) PROVE FALSE
  <2>1. PICK m, old : m = n - k /\ old = PathOf(k)
    OBVIOUS
  <2>2. m \in Nat \ {0} /\ k \in 1 .. n /\ k + m = n /\ m \in 1 .. m
    BY <1>3, <2>1
  <2>3. old[m] = [table |-> Subject(k + m), slot |-> Cursor(k + m), name |-> calls[k + m].prefix]
    BY <1>0, <1>2, <2>1, <2>2, PathIs
  <2>4. old[m].table = c /\ old[m].slot = Cursor(n)
    BY <1>0, <2>2, <2>3
  <2>5. PICK D : Search(old, m, D, classNames)
    BY <1>0, <1>2, <1>7, <2>1, <2>2 DEF NameInv
  <2>6. ValueAt(p) \notin DOMAIN classNames
    BY <1>1, <1>6, <1>7, <2>2, <2>4, <2>5, NextIsNew
  <2> QED BY <1>1, <1>6, <2>6
<1>8. n .. l = {}
  BY <1>3
<1> QED BY <1>0, <1>2, <1>3, <1>4, <1>5, <1>7, <1>8, HelperNames

\* The last search goes into a table, in a call of its own.
LEMMA DescendNames ==
    ASSUME ShowInv, ShowInv', NameInv, held' = held, DescendTable
    PROVE  NameInv'
<1>0. PICK n, b, c, l, s, p, new, call, callee :
         n = Len(calls) /\ b = Began[n] /\ c = Subject(n) /\ l = n + 1 /\ s = NextOfContainer
         /\ p = <<c, s>> /\ new = CallOf("getClassesFullNameHelper")
         /\ call = Reached("descended") /\ callee = [new EXCEPT !.prefix = FullName]
  OBVIOUS
<1>1. /\ Where("getClassesFullNameHelper", "next") /\ s # 0 /\ CallFrom(call, callee)
      /\ Type(NextEntry.val) = "table" /\ classNames' = classNames
  BY <1>0 DEF DescendTable, HasEntry
<1>2. /\ mode = "running" /\ IsCall(Current) /\ Current.fn = "getClassesFullNameHelper"
      /\ b \in Nat \ {0} /\ IsSeq(operands) /\ Len(operands) = b + 1 /\ At(operands, -2) = c
      /\ c \in DOMAIN held /\ s \in Filled(held[c]) /\ s \in Nat \ {0}
      /\ Slots(held, c) = held[c] /\ NextEntry = held[c][s]
  <2>1. c = operands[b]
    BY <1>0 DEF Subject
  <2> QED BY <1>0, <1>1, <2>1, HereAtNext
<1>3. n \in Nat /\ n - 1 \in 1 .. n /\ n \in 1 .. n /\ n <= n /\ l \in Nat /\ StackInv /\ StackInv'
  BY <1>0, <1>2, HelperCalls DEF ShowInv
<1>4. CASE mode' # "running"
  <2>1. mode' = "overflow"
    BY <1>1, <1>2, <1>3, <1>4, CallFromCalls
  <2> QED BY <2>1 DEF NameInv, ClassesAreNamed, Where
<1>5. CASE mode' = "running"
  <2>1. /\ Len(calls') = l /\ calls'[n] = call /\ calls'[l] = callee
        /\ \A i \in 1 .. n - 1 : calls'[i] = calls[i]
    BY <1>0, <1>1, <1>2, <1>3, <1>5, CallFromCalls
  <2>2. /\ call.fn = "getClassesFullNameHelper" /\ call.at = "descended"
        /\ call.prefix = Current.prefix
    BY <1>0, <1>2, ReachedIs
  <2>3. callee.fn = "getClassesFullNameHelper" /\ callee.at = "begin" /\ callee.prefix = FullName
    <3>1. new = [fn |-> "getClassesFullNameHelper", at |-> "begin", prefix |-> <<>>, iters |-> {},
                 width |-> 0, value |-> 0, count |-> 0]
      BY <1>0 DEF CallOf
    <3> QED BY <1>0, <3>1
  <2>4. PICK key, val : key = held[c][s].key /\ val = held[c][s].val
    OBVIOUS
  <2>5. Keeps(b) /\ operands'[b + 1] = Integer(s) /\ operands'[b + 3] = val
    <3>1. PushesSlot(1, held[c], s)
      BY <1>0, <1>2 DEF DescendTable, PushesSlot
    <3> QED BY <1>2, <2>4, <3>1, PushSlot
  <2>6. /\ \A q \in Places : q[2] \in Nat \ {0}
        /\ s > Cursor(n) /\ p \in Places /\ p[1] = c /\ p[2] = s
        /\ ValueAt(p) = val /\ KeyAt(p) = key
        /\ \A q \in Places : q[1] = c /\ q[2] > Cursor(n) => s <= q[2]
    BY <1>0, <1>1, <1>2, <2>4, CursorIs
  <2>7. Began'[n] = b
    BY <1>0, <1>2, <1>3, <1>5, <2>1, <2>5, SubjectsStay
  <2>8. Cursor(n)' = s
    <3>1. calls'[n].at # "begin" /\ operands'[b + 1] # Null /\ operands'[b + 1][2] = s
      BY <2>1, <2>2, <2>5 DEF Integer, Null
    <3> QED BY <2>7, <3>1 DEF Cursor
  <2>9. Subject(l)' = val /\ Cursor(l)' = 0
    <3>1. Began'[l] = b + 3
      <4>1. Owes(call) = 3
        BY <2>2 DEF Owes
      <4>2. n \in 1 .. Len(calls') - 1
        BY <1>0, <1>3, <2>1
      <4>3. Began'[n + 1] = Began'[n] + Owes(calls'[n])
        BY <1>3, <1>5, <4>2, BeganIsAfter
      <4> QED BY <1>0, <2>1, <2>7, <4>1, <4>3
    <3> QED BY <2>1, <2>3, <2>5, <3>1 DEF Subject, Cursor
  <2>10. ASSUME NEW k \in 1 .. n - 1, IsTree, SearchesRoot(k)
         PROVE  \E D : Search(PathOf(k)', l - k, D, classNames')
    <3>1. PICK m, h, old, after : m = n - k /\ h = l - k /\ old = PathOf(k) /\ after = PathOf(k)'
      OBVIOUS
    <3>2. LastMovesIn(old, after, m, k, n)
      <4>1. /\ ShowInv /\ ShowInv' /\ held' = held /\ mode = "running" /\ mode' = "running"
            /\ Current.fn = "getClassesFullNameHelper" /\ n = Len(calls) /\ Keeps(Began[n])
            /\ Len(calls') \in {n, n + 1} /\ calls'[n].prefix = Current.prefix
            /\ \A i \in 1 .. n - 1 : calls'[i] = calls[i]
        BY <1>0, <1>2, <1>5, <2>1, <2>2, <2>5
      <4>2. LastMoves(k, n)
        BY ONLY <4>1, <1>3, <2>10, PathGoesOn
      <4> QED BY ONLY <3>1, <4>2 DEF LastMoves
    <3>3. /\ m \in Nat \ {0} /\ k + m = n /\ \A j \in 1 .. m : j # m => after[j] = old[j]
          /\ old[m].table = c /\ old[m].slot = Cursor(n) /\ old[m].name = Current.prefix
          /\ after[m].table = c /\ after[m].slot = s /\ after[m].name = Current.prefix
      <4>0. /\ m \in Nat \ {0} /\ k + m = n /\ \A j \in 1 .. m : j # m => after[j] = old[j]
        BY ONLY <3>2 DEF LastMovesIn
      <4>1. /\ old[m] = [table |-> Subject(n), slot |-> Cursor(n), name |-> Current.prefix]
            /\ after[m] = [table |-> Subject(n), slot |-> Cursor(n)', name |-> Current.prefix]
        BY ONLY <3>2 DEF LastMovesIn
      <4>2. /\ old[m].table = c /\ old[m].slot = Cursor(n) /\ old[m].name = Current.prefix
        BY <1>0, <4>1
      <4>3. /\ after[m].table = c /\ after[m].slot = s /\ after[m].name = Current.prefix
        BY <1>0, <2>8, <4>1
      <4> QED BY <4>0, <4>2, <4>3, Zenon
    <3>4. h = m + 1 /\ h \in 1 .. h /\ k + h = l /\ k \in 1 .. n /\ k \in 1 .. l
      <4>1. l = n + 1 /\ n \in Nat /\ l \in Nat /\ m \in Nat \ {0} /\ k \in 1 .. n - 1
            /\ m = n - k /\ h = l - k
        BY <1>0, <1>3, <3>1, <3>3
      <4> QED BY ONLY <4>1
    <3>5. after[h] = [table |-> Subject(l)', slot |-> Cursor(l)', name |-> calls'[l].prefix]
      <4>1. h = Len(calls') - k /\ k \in 1 .. Len(calls')
        BY <2>1, <3>1, <3>4
      <4>2. ShowInv' /\ mode' = "running"
        BY <1>5
      <4>3. \A j \in 1 .. h : PathOf(k)'[j] = [table |-> Subject(k + j)', slot |-> Cursor(k + j)',
                                             name |-> calls'[k + j].prefix]
        BY ONLY <4>1, <4>2, PathIsAfter
      <4> QED BY <3>1, <3>4, <4>3
    <3>6. /\ after[m + 1].table = ValueAt(p) /\ after[m + 1].slot = 0
          /\ after[m + 1].name = Append(old[m].name, KeyAt(p)[2])
      <4>1. FullName = Append(Current.prefix, key[2])
        BY <1>2, <2>4 DEF FullName
      <4> QED BY <2>1, <2>3, <2>6, <2>9, <3>3, <3>4, <3>5, <4>1
    <3>7. PICK D : Search(old, m, D, classNames)
      BY <1>0, <1>2, <2>10, <3>1, <3>4 DEF NameInv
    <3>8. Type(ValueAt(p)) = "table"
      BY <1>1, <1>2, <2>4, <2>6
    <3>9. p[1] = old[m].table /\ p[2] \in Nat /\ p[2] > old[m].slot
          /\ (\A q \in Places : q[1] = p[1] /\ q[2] > old[m].slot => p[2] <= q[2])
          /\ after[m].table = old[m].table /\ after[m].slot = p[2] /\ after[m].name = old[m].name
      BY <1>2, <2>6, <3>3
    <3>10. Search(after, m + 1, D, classNames)
      BY <2>6, <2>10, <3>3, <3>6, <3>7, <3>8, <3>9, SearchDescends
    <3> QED BY <1>1, <3>1, <3>4, <3>10
  <2>11. \A i \in n .. l : calls'[i].fn = "getClassesFullNameHelper"
    <3>1. \A i \in n .. l : i = n \/ i = l
      BY <1>0, <1>3
    <3> QED BY <2>1, <2>2, <2>3, <3>1
  <2>12. l = Len(calls') /\ l \in {n - 1, n, n + 1}
    BY <1>0, <2>1
  <2> QED BY <1>0, <1>2, <1>3, <1>5, <2>1, <2>5, <2>10, <2>11, <2>12, HelperNames
<1> QED BY <1>4, <1>5

LEMMA HelperStepNames ==
    ASSUME ShowInv, ShowInv', NameInv, held' = held, GetClassesFullNameStep
    PROVE  NameInv'
<1>1. CASE StartClasses
  BY <1>1, StartNames
<1>2. CASE PassValue
  <2>1. /\ Where("getClassesFullNameHelper", "next") /\ NextOfContainer # 0 /\ Advance
        /\ UNCHANGED <<calls, mode>> /\ classNames' = classNames
        /\ Type(NextEntry.val) # "table" /\ Type(NextEntry.val) # "class"
    BY <1>2 DEF PassValue, HasEntry
  <2> QED BY <2>1, AdvanceNames
<1>3. CASE UseNoKey
  BY <1>3 DEF UseNoKey, NameInv, ClassesAreNamed, Where
<1>4. CASE AddClass
  <2>1. /\ Where("getClassesFullNameHelper", "next") /\ NextOfContainer # 0 /\ Advance
        /\ UNCHANGED <<calls, mode>> /\ Type(NextEntry.val) # "table"
    BY <1>4 DEF AddClass, HasEntry
  <2> QED BY <1>4, <2>1, AdvanceNames
<1>5. CASE BreakAtKnownClass
  BY <1>5, BreakNames
<1>6. CASE DescendTable
  BY <1>6, DescendNames
<1>7. CASE TableDescended
  BY <1>7, DescendedNames
<1>8. CASE EndClasses
  BY <1>8, EndNames
<1> QED BY <1>1, <1>2, <1>3, <1>4, <1>5, <1>6, <1>7, <1>8 DEF GetClassesFullNameStep

\* A call that is no helper is above no search.
LEMMA NoSearchBelow ==
    ASSUME ShowInv, mode = "running", Current.fn # "getClassesFullNameHelper",
           NEW k \in 1 .. Len(calls) - 1
    PROVE  calls[k].fn # "ToClassFullName"
<1>1. PICK n : n = Len(calls)
  OBVIOUS
<1>2. n \in Nat \ {0} /\ Current = calls[n]
  BY <1>1, BeganIs DEF ShowInv
<1>3. k \in 1 .. n /\ n \in k + 1 .. n
  BY <1>1, <1>2
<1>4. calls[k].fn = "ToClassFullName" => calls[n].fn = "getClassesFullNameHelper"
  BY <1>1, <1>3, HelpersAbove
<1> QED BY <1>2, <1>4

\* What there is to show when the last call is no helper.
LEMMA OwnNames ==
    ASSUME ShowInv, held' = held, mode = "running", Current.fn # "getClassesFullNameHelper",
           NEW n, n = Len(calls), NEW l \in Nat, l = Len(calls'),
           \A i \in 1 .. n - 1 : calls'[i] = calls[i],
           \A k \in n .. l : IsTree =>
              /\ SearchesRoot(k)' => \E D : Search(PathOf(k)', l - k, D, classNames')
              /\ LooksAtLocals(k)' => Ways(Subject(k)') = {},
           IsTree => ClassesAreNamed'
    PROVE  NameInv'
<1> SUFFICES ASSUME IsTree PROVE NameInv'
  BY TreeStays DEF NameInv
<1>1. n \in Nat
  BY BeganIs DEF ShowInv
<1>2. ASSUME NEW k \in 1 .. l
      PROVE  /\ SearchesRoot(k)' => \E D : Search(PathOf(k), l - k, D, classNames)'
             /\ LooksAtLocals(k)' => Ways(Subject(k))' = {}
  <2>1. CASE k \notin 1 .. n - 1
    <3>1. k \in n .. l
      BY <1>1, <2>1
    <3>2. ASSUME SearchesRoot(k)' PROVE \E D : Search(PathOf(k), l - k, D, classNames)'
      <4>1. PICK path, m, names : path = PathOf(k)' /\ m = l - k /\ names = classNames'
        OBVIOUS
      <4>2. PICK D : Search(path, m, D, names)
        BY <3>1, <3>2, <4>1
      <4>3. Search(path, m, D, names)'
        BY <4>2, SearchStays
      <4> QED BY <4>1, <4>3
    <3>3. ASSUME LooksAtLocals(k)' PROVE Ways(Subject(k))' = {}
      <4>1. PICK v : v = Subject(k)'
        OBVIOUS
      <4>2. Ways(v) = {}
        BY <3>1, <3>3, <4>1
      <4>3. Ways(v)' = {}
        BY <4>2, TreeStays
      <4> QED BY <4>1, <4>3
    <3> QED BY <3>2, <3>3
  <2>2. CASE k \in 1 .. n - 1
    <3>1. calls[k].fn # "ToClassFullName"
      BY <2>2, NoSearchBelow
    <3>2. calls'[k].fn # "ToClassFullName"
      BY <2>2, <3>1
    <3> QED BY <3>2 DEF SearchesRoot, LooksAtLocals
  <2> QED BY <2>1, <2>2
<1>3. \A k \in 1 .. Len(calls') :
         /\ SearchesRoot(k)' => \E D : Search(PathOf(k), Len(calls) - k, D, classNames)'
         /\ LooksAtLocals(k)' => Ways(Subject(k))' = {}
  BY <1>2
<1> QED BY <1>3 DEF NameInv

\* The locals are looked at, as the class is not in the root table or in a table it leads to.
LEMMA LocalsNames ==
    ASSUME ShowInv, ShowInv', held' = held, mode = "running", mode' = "running",
           Current.fn = "ToClassFullName", NEW n, n = Len(calls), Keeps(Began[n]),
           IsTree => Ways(Subject(n)) = {},
           NEW l, l = Len(calls'), l \in {n, n + 1}, \A i \in 1 .. n - 1 : calls'[i] = calls[i],
           calls'[n].fn = "ToClassFullName", calls'[n].at # "rootSearched",
           l = n + 1 => calls'[l].fn = "getClassesFullNameHelper"
    PROVE  NameInv'
<1>1. n \in Nat \ {0} /\ n <= n /\ n <= l /\ l \in Nat /\ n \in 1 .. n
      /\ \A k \in n .. l : k = n \/ (l = n + 1 /\ k = l)
  BY BeganIs DEF ShowInv
<1>2. StackInv'
  BY DEF ShowInv
<1>3. Subject(n)' = Subject(n)
  BY <1>1, <1>2, SubjectsStay
<1>4. \A k \in n .. l : IsTree =>
         /\ SearchesRoot(k)' => \E D : Search(PathOf(k)', l - k, D, classNames')
         /\ LooksAtLocals(k)' => Ways(Subject(k)') = {}
  <2>1. ASSUME NEW k \in n .. l, IsTree
        PROVE  ~SearchesRoot(k)' /\ (LooksAtLocals(k)' => Ways(Subject(k)') = {})
    <3>1. CASE k = n
      BY <1>3, <2>1, <3>1 DEF SearchesRoot
    <3>2. CASE l = n + 1 /\ k = l
      BY <3>2 DEF SearchesRoot, LooksAtLocals
    <3> QED BY <1>1, <3>1, <3>2
  <2> QED BY <2>1
<1>5. ClassesAreNamed'
  <2>1. Current' = calls'[l]
    BY <1>2, BeganIsAfter
  <2>2. calls'[l].fn # "CreateChildVariable"
    BY <1>1
  <2> QED BY <2>1, <2>2 DEF ClassesAreNamed, Where
<1>6. /\ ShowInv /\ held' = held /\ mode = "running" /\ Current.fn # "getClassesFullNameHelper"
      /\ n = Len(calls) /\ l \in Nat /\ l = Len(calls')
      /\ \A i \in 1 .. n - 1 : calls'[i] = calls[i]
  BY <1>1
<1> QED BY ONLY <1>1, <1>4, <1>5, <1>6, OwnNames

LEMMA SearchRootNames ==
    ASSUME ShowInv, ShowInv', NameInv, held' = held, SearchRoot
    PROVE  NameInv'
<1>0. PICK n, b, l, call, callee :
         n = Len(calls) /\ b = Began[n] /\ l = n + 1 /\ call = Reached("rootSearched")
         /\ callee = CallOf("getClassesFullNameHelper")
  OBVIOUS
<1>1. /\ Where("ToClassFullName", "begin") /\ operands' = Push(operands, RootTable)
      /\ CallFrom(call, callee) /\ classNames' = <<>>
  BY <1>0 DEF SearchRoot, Names
<1>2. /\ mode = "running" /\ held \in HeapsToShow /\ Current.fn = "ToClassFullName"
      /\ b \in Nat \ {0} /\ IsSeq(operands) /\ Len(operands) = b + 0
  BY <1>0, <1>1, HereInFullName
<1>3. n \in Nat \ {0} /\ n <= n /\ n \in 1 .. n /\ l \in Nat /\ l - n = 1 /\ StackInv /\ StackInv'
  BY <1>0, <1>2, BeganIs DEF ShowInv
<1>4. CASE mode' # "running"
  <2>1. mode' = "overflow"
    BY <1>1, <1>2, <1>3, <1>4, CallFromCalls
  <2> QED BY <2>1 DEF NameInv, ClassesAreNamed, Where
<1>5. CASE mode' = "running"
  <2>1. /\ Len(calls') = l /\ calls'[n] = call /\ calls'[l] = callee
        /\ \A i \in 1 .. n - 1 : calls'[i] = calls[i]
    BY <1>0, <1>1, <1>2, <1>3, <1>5, CallFromCalls
  <2>2. call.fn = "ToClassFullName" /\ call.at = "rootSearched"
    BY <1>0, <1>1, Here, ReachedIs
  <2>3. callee.fn = "getClassesFullNameHelper" /\ callee.at = "begin" /\ callee.prefix = <<>>
    BY <1>0, NewCallIs
  <2>4. Keeps(b) /\ operands'[b + 1] = RootTable
    <3>1. Len(operands) = b
      BY <1>2
    <3> QED BY <1>1, <1>2, <3>1, PushKeepsAll
  <2>5. Subject(l)' = RootTable /\ Cursor(l)' = 0
    <3>1. Began'[n] = b
      BY <1>0, <1>2, <1>3, <1>5, <2>1, <2>4, SubjectsStay
    <3>2. Owes(call) = 1
      BY <2>2 DEF Owes
    <3>3. n \in 1 .. Len(calls') - 1
      BY <1>0, <1>3, <2>1
    <3>4. Began'[n + 1] = Began'[n] + Owes(calls'[n])
      BY <1>3, <1>5, <3>3, BeganIsAfter
    <3>5. Began'[l] = b + 1
      BY <1>0, <2>1, <3>1, <3>2, <3>4
    <3> QED BY <2>1, <2>3, <2>4, <3>5 DEF Subject, Cursor
  <2>6. PICK path, m, names : path = PathOf(n)' /\ m = l - n /\ names = classNames'
    OBVIOUS
  <2>7. path[1] = [table |-> RootTable, slot |-> 0, name |-> <<>>]
    <3>1. n \in 1 .. l /\ 1 \in 1 .. m /\ n + 1 = l
      BY <1>0, <1>3, <2>6
    <3>2. path[1] = [table |-> Subject(n + 1)', slot |-> Cursor(n + 1)',
                     name |-> calls'[n + 1].prefix]
      BY <1>5, <2>1, <2>6, <3>1, PathIsAfter
    <3> QED BY <2>1, <2>3, <2>5, <3>1, <3>2
  <2>8. Search(path, 1, {}, names)
    <3>1. DOMAIN names = {}
      BY <1>1, <2>6
    <3> QED BY <1>2, <2>7, <3>1, SearchBegins
  <2>9. \A k \in n .. l : IsTree =>
           /\ SearchesRoot(k)' => \E D : Search(PathOf(k)', l - k, D, classNames')
           /\ LooksAtLocals(k)' => Ways(Subject(k)') = {}
    <3>1. ASSUME NEW k \in n .. l
          PROVE  /\ SearchesRoot(k)' => \E D : Search(PathOf(k)', l - k, D, classNames')
                 /\ ~LooksAtLocals(k)'
      <4>1. CASE k = n
        <5>1. Search(PathOf(n)', l - n, {}, classNames')
          BY <1>3, <2>6, <2>8
        <5> QED BY <2>1, <2>2, <4>1, <5>1 DEF LooksAtLocals
      <4>2. CASE k = l
        BY <2>1, <2>3, <4>2 DEF SearchesRoot, LooksAtLocals
      <4>3. k = n \/ k = l
        BY <1>0, <1>3
      <4> QED BY <4>1, <4>2, <4>3
    <3> QED BY <3>1
  <2>10. ClassesAreNamed'
    <3>1. Current' = calls'[l]
      BY <1>3, <1>5, <2>1, BeganIsAfter
    <3> QED BY <1>5, <2>1, <2>3, <3>1 DEF ClassesAreNamed, Where
  <2> QED BY <1>0, <1>2, <1>3, <2>1, <2>9, <2>10, OwnNames
<1> QED BY <1>4, <1>5

LEMMA RootSearchedNames ==
    ASSUME ShowInv, ShowInv', NameInv, held' = held, RootSearched
    PROVE  NameInv'
<1>0. PICK n, b, l, class, call :
         n = Len(calls) /\ b = Began[n] /\ l = n - 1 /\ class = operands[b] /\ call = Reached("locals")
  OBVIOUS
<1>1. /\ Where("ToClassFullName", "rootSearched") /\ operands' = Pop(operands, 1)
      /\ IF At(operands, -2) \in DOMAIN classNames THEN Returns(classNames[At(operands, -2)])
         ELSE GoOn(call)
  BY <1>0 DEF RootSearched
<1>2. /\ mode = "running" /\ held \in HeapsToShow /\ n # 1 /\ IsCall(Current)
      /\ Current.fn = "ToClassFullName" /\ Current.at = "rootSearched"
      /\ b \in Nat \ {0} /\ Type(class) = "class" /\ IsSeq(operands) /\ Len(operands) = b + 1
      /\ At(operands, -2) = class
  <2>1. b \in Nat \ {0} /\ b + 1 - 1 = b
    BY <1>0, <1>1, Here
  <2>2. PICK k : k = 1
    OBVIOUS
  <2>3. /\ mode = "running" /\ held \in HeapsToShow /\ n # 1 /\ IsCall(Current)
        /\ Current.fn = "ToClassFullName" /\ Current.at = "rootSearched"
        /\ Type(class) = "class" /\ IsSeq(operands) /\ Len(operands) = b + k
        /\ At(operands, -2) = operands[b + k - 1]
    BY <1>0, <1>1, <2>2, HereInFullName
  <2> QED BY <1>0, <2>1, <2>2, <2>3
<1>3. n \in Nat \ {0} /\ n \in 1 .. n /\ l \in Nat /\ Current = calls[n] /\ StackInv /\ StackInv'
  BY <1>0, <1>2, BeganIs DEF ShowInv
<1>4. Keeps(b) /\ Len(operands') = b
  <2>1. Len(operands) - 1 = b /\ 1 <= Len(operands)
    BY <1>2
  <2>2. Len(operands') = Len(operands) - 1
    BY <1>1, <1>2, <2>1, Prefix DEF Pop
  <2> QED BY <1>1, <1>2, <2>1, <2>2, PopKeeps
<1>5. ASSUME IsTree
      PROVE  \E D, path : Search(path, 0, D, classNames)
  <2>1. PICK path, m : path = PathOf(n) /\ m = n - n
    OBVIOUS
  <2>2. SearchesRoot(n)
    BY <1>2, <1>3 DEF SearchesRoot
  <2>3. \E D : Search(path, m, D, classNames)
    BY <1>0, <1>2, <1>3, <1>5, <2>1, <2>2 DEF NameInv
  <2>4. m = 0
    BY <1>3, <2>1
  <2> QED BY <2>3, <2>4
<1>6. CASE class \in DOMAIN classNames
  <2>0. PICK name : name = classNames[class]
    OBVIOUS
  <2>1. Returns(name)
    BY <1>1, <1>2, <1>6, <2>0
  <2>2. /\ Len(calls') = l /\ mode' = "running" /\ result' = name
        /\ \A i \in 1 .. n - 1 : calls'[i] = calls[i]
    BY <1>0, <1>2, <1>3, <2>1, ReturnsCalls
  <2>3. Top' = class
    <3>1. b \in 1 .. b /\ b + 1 + (-1) = b
      BY <1>2
    <3>2. operands'[b] = class
      BY <1>0, <1>4, <3>1 DEF Keeps
    <3> QED BY <1>4, <3>1, <3>2 DEF Top, At
  <2>4. ASSUME IsTree PROVE ClassesAreNamed'
    <3>1. Found(class, name)
      BY <1>5, <1>6, <2>0, <2>4 DEF Search
    <3>2. Ways(class)' = Ways(class)
      BY TreeStays
    <3>3. ASSUME NEW way \in Ways(class) PROVE name = NameOf(way)
      BY <1>2, <2>4, <3>1, <3>3, FoundIsName
    <3>4. \A way : NameOf(way)' = NameOf(way)
      BY DEF NameOf, KeyAt
    <3>5. \A way \in Ways(class)' : result' = NameOf(way)'
      BY <2>2, <3>2, <3>3, <3>4
    <3> QED BY <2>2, <2>3, <3>5 DEF ClassesAreNamed
  <2>5. n .. l = {}
    BY <1>0, <1>3
  <2> QED BY <1>0, <1>2, <1>3, <2>2, <2>4, <2>5, OwnNames
<1>7. CASE class \notin DOMAIN classNames
  <2>1. GoOn(call)
    BY <1>1, <1>2, <1>7
  <2>2. call.fn = "ToClassFullName" /\ call.at = "locals"
    BY <1>0, <1>2, ReachedIs
  <2>3. /\ Len(calls') = n /\ mode' = "running" /\ calls'[n] = call
        /\ \A i \in 1 .. n - 1 : calls'[i] = calls[i]
    BY <1>0, <1>2, <1>3, <2>1, GoOnCalls
  <2>4. IsTree => Ways(Subject(n)) = {}
    <3>1. Subject(n) = class
      BY <1>0 DEF Subject
    <3>2. ASSUME IsTree, NEW way \in Ways(class) PROVE FALSE
      BY <1>2, <1>5, <1>7, <3>2, SearchFinds
    <3> QED BY <3>1, <3>2
  <2>5. /\ calls'[n].fn = "ToClassFullName" /\ calls'[n].at # "rootSearched"
        /\ Len(calls') \in {n, n + 1} /\ Len(calls') # n + 1
    BY <1>3, <2>2, <2>3
  <2>6. /\ ShowInv /\ ShowInv' /\ held' = held /\ mode = "running" /\ n = Len(calls)
        /\ n \in Nat /\ Current.fn = "ToClassFullName" /\ Keeps(Began[n])
    BY <1>0, <1>2, <1>3, <1>4
  <2> QED BY ONLY <2>3, <2>4, <2>5, <2>6, LocalsNames
<1> QED BY <1>6, <1>7

\* While the locals are looked at, there is no way to the class.
LEMMA NoWay ==
    ASSUME ShowInv, NameInv, IsTree, NEW at \in {"locals", "localSearched"},
           Where("ToClassFullName", at), NEW n, n = Len(calls)
    PROVE  Ways(Subject(n)) = {}
<1>1. mode = "running" /\ Current.fn = "ToClassFullName" /\ Current.at = at
  BY Here
<1>2. n \in 1 .. n /\ Current = calls[n]
  BY <1>1, BeganIs DEF ShowInv
<1>3. LooksAtLocals(n)
  BY <1>1, <1>2 DEF LooksAtLocals
<1> QED BY <1>1, <1>2, <1>3 DEF NameInv

LEMMA LookAtLocalNames ==
    ASSUME ShowInv, ShowInv', NameInv, held' = held, LookAtLocal
    PROVE  NameInv'
<1>0. PICK n, b, l : n = Len(calls) /\ b = Began[n] /\ l = n - 1
  OBVIOUS
<1>1. Where("ToClassFullName", "locals")
  BY DEF LookAtLocal
<1>2. /\ mode = "running" /\ IsCall(Current) /\ Current.fn = "ToClassFullName"
      /\ Current.at = "locals" /\ b \in Nat \ {0}
      /\ IsSeq(operands) /\ Len(operands) = b + 0 /\ Top = operands[b + 0]
  BY <1>0, <1>1, HereInFullName
<1>3. n \in Nat \ {0} /\ l \in Nat /\ Len(operands) = b /\ Top = Subject(n) /\ StackInv
  BY <1>0, <1>2, BeganIs DEF ShowInv, Subject
<1>4. IsTree => Ways(Subject(n)) = {}
  BY <1>0, <1>1, NoWay
<1>5. CASE NextLocal.value = Top
  <2>1. PICK name : Returns(name) /\ operands' = operands
    BY <1>5 DEF LookAtLocal
  <2>2. /\ Len(calls') = l /\ mode' = "running" /\ \A i \in 1 .. n - 1 : calls'[i] = calls[i]
    BY <1>0, <1>2, <1>3, <2>1, ReturnsCalls
  <2>3. ASSUME IsTree PROVE ClassesAreNamed'
    <3>1. PICK v : v = Top
      OBVIOUS
    <3>2. Top' = v
      BY <2>1, <3>1 DEF Top
    <3>3. Ways(v)' = {}
      BY <1>3, <1>4, <2>3, <3>1, TreeStays
    <3> QED BY <2>2, <3>2, <3>3 DEF ClassesAreNamed
  <2>4. n .. l = {}
    BY <1>0, <1>3
  <2> QED BY <1>0, <1>2, <1>3, <2>2, <2>3, <2>4, OwnNames
<1>6. CASE NextLocal.value # Top /\ Type(NextLocal.value) = "table"
  <2>1. PICK call, callee, table :
           /\ call = Reached("localSearched") /\ callee = CallOf("getClassesFullNameHelper")
           /\ operands' = Push(operands, table) /\ CallFrom(call, callee)
    BY <1>6 DEF LookAtLocal
  <2>2. call.fn = "ToClassFullName" /\ call.at = "localSearched"
    BY <1>2, <2>1, ReachedIs
  <2>3. callee.fn = "getClassesFullNameHelper"
    BY <2>1, NewCallIs
  <2>4. Keeps(b)
    BY <1>2, <1>3, <2>1, PushKeepsAll
  <2>5. CASE mode' # "running"
    <3>1. mode' = "overflow"
      BY <1>2, <1>3, <2>1, <2>5, CallFromCalls
    <3> QED BY <3>1 DEF NameInv, ClassesAreNamed, Where
  <2>6. CASE mode' = "running"
    <3>1. /\ Len(calls') = n + 1 /\ calls'[n] = call /\ calls'[n + 1] = callee
          /\ \A i \in 1 .. n - 1 : calls'[i] = calls[i]
      BY <1>0, <1>2, <1>3, <2>1, <2>6, CallFromCalls
    <3> QED BY <1>0, <1>2, <1>3, <1>4, <2>2, <2>3, <2>4, <2>6, <3>1, LocalsNames
  <2> QED BY <2>5, <2>6
<1>7. CASE NextLocal.value # Top /\ Type(NextLocal.value) # "table"
  <2>1. PICK call : /\ call = [Current EXCEPT !.count = Current.count + 1]
                    /\ GoOn(call) /\ operands' = operands
    BY <1>7 DEF LookAtLocal
  <2>2. call.fn = "ToClassFullName" /\ call.at = "locals"
    BY <1>2, <2>1, CountsOn
  <2>3. /\ Len(calls') = n /\ mode' = "running" /\ calls'[n] = call
        /\ \A i \in 1 .. n - 1 : calls'[i] = calls[i]
    BY <1>0, <1>2, <1>3, <2>1, GoOnCalls
  <2>4. Keeps(b)
    BY <2>1, SameKeeps
  <2> QED BY <1>0, <1>2, <1>3, <1>4, <2>2, <2>3, <2>4, LocalsNames
<1> QED BY <1>5, <1>6, <1>7

LEMMA LocalSearchedNames ==
    ASSUME ShowInv, ShowInv', NameInv, held' = held, LocalSearched
    PROVE  NameInv'
<1>0. PICK n, b : n = Len(calls) /\ b = Began[n]
  OBVIOUS
<1>1. PICK call, count :
         /\ Where("ToClassFullName", "localSearched") /\ operands' = Pop(operands, 1)
         /\ call = [Reached("locals") EXCEPT !.count = count] /\ GoOn(call)
  BY DEF LocalSearched
<1>2. /\ mode = "running" /\ IsCall(Current) /\ Current.fn = "ToClassFullName" /\ b \in Nat \ {0}
      /\ IsSeq(operands) /\ Len(operands) = b + 1
  BY <1>0, <1>1, HereInFullName
<1>3. n \in Nat \ {0} /\ StackInv
  BY <1>0, <1>2, BeganIs DEF ShowInv
<1>4. IsTree => Ways(Subject(n)) = {}
  BY <1>0, <1>1, NoWay
<1>5. Keeps(b)
  <2>1. Len(operands) - 1 = b /\ 1 <= Len(operands)
    BY <1>2
  <2> QED BY <1>1, <1>2, <2>1, PopKeeps
<1>6. call.fn = "ToClassFullName" /\ call.at = "locals"
  BY <1>1, <1>2, CountsOn
<1>7. /\ Len(calls') = n /\ mode' = "running" /\ calls'[n] = call
      /\ \A i \in 1 .. n - 1 : calls'[i] = calls[i]
  BY <1>0, <1>1, <1>2, <1>3, GoOnCalls
<1> QED BY <1>0, <1>2, <1>3, <1>4, <1>5, <1>6, <1>7, LocalsNames

LEMMA UnknownClassNames ==
    ASSUME ShowInv, ShowInv', NameInv, held' = held, UnknownClass
    PROVE  NameInv'
<1>0. PICK n, b : n = Len(calls) /\ b = Began[n]
  OBVIOUS
<1>1. Where("ToClassFullName", "locals") /\ mode' = "thrown" /\ operands' = operands
  BY DEF UnknownClass
<1>2. b \in Nat \ {0} /\ Top = operands[b + 0]
  BY <1>0, <1>1, HereInFullName
<1>3. PICK v : v = Top /\ v = Subject(n)
  BY <1>0, <1>2 DEF Subject
<1>4. ASSUME IsTree PROVE Ways(v)' = {}
  <2>1. Ways(Subject(n)) = {}
    BY <1>0, <1>1, <1>4, NoWay
  <2> QED BY <1>3, <2>1, TreeStays
<1>5. Top' = v
  BY <1>1, <1>3 DEF Top
<1>6. IsTree' = IsTree
  BY TreeStays
<1> QED BY <1>1, <1>4, <1>5, <1>6 DEF NameInv, ClassesAreNamed, Where

-----------------------------------------------------------------------------
(* The other functions *)

\* What a step of these functions does to the calls, whatever it shows.
ShowsOn(fn) ==
    \/ \E call : /\ GoOn(call) /\ call.fn = fn
                 /\ fn = "CreateChildVariable" => call.at = "counting"
    \/ \E call, callee : /\ CallFrom(call, callee) /\ call.fn = fn
                         /\ callee.fn \in {"ToString", "ToClassFullName"} /\ callee.at = "begin"
    \/ fn = "ToString" /\ \E v : Returns(v)
    \/ mode' = "returned"

LEMMA CreateShowsOn ==
    ASSUME ShowInv, CreateChildVariableStep
    PROVE  mode = "running" /\ Current.fn = "CreateChildVariable" /\ ShowsOn("CreateChildVariable")
<1>1. \A fn : CallOf(fn).fn = fn /\ CallOf(fn).at = "begin"
  BY NewCallIs
<1>2. ASSUME NEW at, NEW next, Where("CreateChildVariable", at)
      PROVE  /\ Reached(next).fn = "CreateChildVariable" /\ Reached(next).at = next
             /\ mode = "running" /\ Current.fn = "CreateChildVariable"
  BY <1>2, Here, ReachedIs
<1>3. CASE ShowValue
  <2>1. Where("CreateChildVariable", "begin") /\ CallFrom(Reached("shown"), CallOf("ToString"))
    BY <1>3 DEF ShowValue
  <2> QED BY <1>1, <1>2, <2>1 DEF ShowsOn
<1>4. CASE ShowClass
  <2>1. /\ Where("CreateChildVariable", "shown")
        /\ CallFrom(Reached("named"), CallOf("ToClassFullName"))
    BY <1>4 DEF ShowClass
  <2> QED BY <1>1, <1>2, <2>1 DEF ShowsOn
<1>5. CASE ClassShown
  <2>1. Where("CreateChildVariable", "named") /\ GoOn(Reached("counting"))
    BY <1>5 DEF ClassShown
  <2> QED BY <1>2, <2>1 DEF ShowsOn
<1>6. CASE CountChildren
  <2>1. /\ mode' = "returned"
        /\ Where("CreateChildVariable", "counting") \/ Where("CreateChildVariable", "shown")
    BY <1>6 DEF CountChildren
  <2> QED BY <1>2, <2>1 DEF ShowsOn
<1> QED BY <1>3, <1>4, <1>5, <1>6 DEF CreateChildVariableStep

LEMMA ToStringShowsOn ==
    ASSUME ShowInv, ToStringStep
    PROVE  mode = "running" /\ Current.fn = "ToString" /\ ShowsOn("ToString")
<1>1. /\ CallOf("ToString").fn = "ToString" /\ CallOf("ToString").at = "begin"
      /\ CallOf("ToClassFullName").fn = "ToClassFullName" /\ CallOf("ToClassFullName").at = "begin"
  BY NewCallIs
<1>2. PICK at : Where("ToString", at)
  BY DEF ToStringStep, RenderValue, ClassRendered, StartSummary, NextKey, KeyRendered, SortKeys,
     NextSortedField, NextField, LeaveOutField, ValueRendered, FieldRendered, EndSortedSummary,
     EndSummary
<1>3. mode = "running" /\ Current.fn = "ToString" /\ IsCall(Current)
  BY <1>2, Here
<1>4. \A next : Reached(next).fn = "ToString"
  BY <1>3, ReachedIs
<1>5. \A next, new :
         /\ [Reached(next) EXCEPT !.iters = new].fn = "ToString"
         /\ [Reached(next) EXCEPT !.count = new].fn = "ToString"
         /\ [Reached(next) EXCEPT !.width = new].fn = "ToString"
         /\ [Reached(next) EXCEPT !.value = new].fn = "ToString"
  BY <1>3, ReachedWith
<1>6. ASSUME NEW call, call.fn = "ToString", GoOn(call) PROVE ShowsOn("ToString")
  BY <1>6 DEF ShowsOn
<1>7. ASSUME NEW call, call.fn = "ToString", NEW fn \in {"ToString", "ToClassFullName"},
             CallFrom(call, CallOf(fn))
      PROVE  ShowsOn("ToString")
  <2>1. PICK callee : callee = CallOf(fn) /\ callee.fn \in {"ToString", "ToClassFullName"}
                      /\ callee.at = "begin"
    BY <1>1, <1>7
  <2> QED BY <1>7, <2>1 DEF ShowsOn
<1>8. ASSUME NEW v, Returns(v) PROVE ShowsOn("ToString")
  BY <1>8 DEF ShowsOn
<1>9. CASE RenderValue
  <2>1. CASE Type(Top) = "class"
    <3>1. CallFrom(Reached("named"), CallOf("ToClassFullName"))
      BY <1>9, <2>1 DEF RenderValue
    <3> QED BY <1>3, <1>4, <1>7, <3>1
  <2>2. CASE Type(Top) \in {"table", "instance"}
    <3>1. GoOn(Reached("summary"))
      BY <1>9, <2>2 DEF RenderValue
    <3> QED BY <1>3, <1>4, <1>6, <3>1
  <2>3. CASE Type(Top) \notin {"class", "table", "instance"}
    <3>1. Returns(WidthOf[Top])
      BY <1>9, <2>3 DEF RenderValue
    <3> QED BY <1>3, <1>8, <3>1
  <2> QED BY <2>1, <2>2, <2>3
<1>10. CASE NextKey \/ NextSortedField \/ NextField \/ ValueRendered
  <2>1. \E call : call.fn = "ToString" /\ CallFrom(call, CallOf("ToString"))
    <3>1. CASE NextKey
      BY <1>5, <3>1 DEF NextKey
    <3>2. CASE NextSortedField
      BY <1>5, <3>2 DEF NextSortedField
    <3>3. CASE NextField
      BY <1>5, <3>3 DEF NextField
    <3>4. CASE ValueRendered
      BY <1>5, <3>4 DEF ValueRendered
    <3> QED BY <1>10, <3>1, <3>2, <3>3, <3>4
  <2> QED BY <1>3, <1>7, <2>1
<1>11. CASE StartSummary \/ KeyRendered \/ SortKeys \/ LeaveOutField \/ FieldRendered
  <2>1. \E call : call.fn = "ToString" /\ GoOn(call)
    <3>1. CASE StartSummary
      BY <1>4, <3>1 DEF StartSummary
    <3>2. CASE KeyRendered
      BY <1>4, <3>2 DEF KeyRendered
    <3>3. CASE SortKeys
      BY <1>4, <3>3 DEF SortKeys
    <3>4. CASE LeaveOutField
      <4>1. PICK next, width : GoOn([Reached(next) EXCEPT !.width = width])
        BY <3>4 DEF LeaveOutField, BackToLoop
      <4> QED BY <1>5, <4>1
    <3>5. CASE FieldRendered
      <4>1. PICK next, width : GoOn([Reached(next) EXCEPT !.width = width])
        BY <3>5 DEF FieldRendered, BackToLoop
      <4> QED BY <1>5, <4>1
    <3> QED BY <1>11, <3>1, <3>2, <3>3, <3>4, <3>5
  <2> QED BY <1>3, <1>6, <2>1
<1>12. CASE ClassRendered \/ EndSortedSummary \/ EndSummary
  <2>1. \E v : Returns(v)
    BY <1>12 DEF ClassRendered, EndSortedSummary, EndSummary
  <2> QED BY <1>3, <1>8, <2>1
<1> QED BY <1>9, <1>10, <1>11, <1>12 DEF ToStringStep

\* No search is begun, and no name of an instance's class is there to be shown.
LEMMA OtherNames ==
    ASSUME ShowInv, ShowInv', held' = held, mode = "running",
           NEW fn \in {"CreateChildVariable", "ToString"}, Current.fn = fn, ShowsOn(fn)
    PROVE  NameInv'
<1>1. PICK n : n = Len(calls)
  OBVIOUS
<1>2. n \in Nat \ {0} /\ n \in 1 .. n /\ Current = calls[n] /\ StackInv /\ StackInv'
  BY <1>1, BeganIs DEF ShowInv
<1>3. CASE mode' \in {"returned", "overflow"}
  BY <1>3 DEF NameInv, ClassesAreNamed, Where
<1>4. ASSUME NEW l \in Nat, l = Len(calls'), mode' = "running",
             \A i \in 1 .. n - 1 : calls'[i] = calls[i],
             \A k \in n .. l : calls'[k].fn # "ToClassFullName" \/ calls'[k].at = "begin",
             l # 0 /\ calls'[l].fn = "CreateChildVariable" => calls'[l].at # "named"
      PROVE  NameInv'
  <2>1. \A k \in n .. l : IsTree =>
           /\ SearchesRoot(k)' => \E D : Search(PathOf(k)', l - k, D, classNames')
           /\ LooksAtLocals(k)' => Ways(Subject(k)') = {}
    BY <1>4 DEF SearchesRoot, LooksAtLocals
  <2>2. ClassesAreNamed'
    <3>1. Current' = calls'[l] /\ l # 0
      BY <1>2, <1>4, BeganIsAfter
    <3> QED BY <1>4, <3>1 DEF ClassesAreNamed, Where
  <2> QED BY <1>1, <1>2, <1>4, <2>1, <2>2, OwnNames
<1>5. ASSUME NEW call, GoOn(call), call.fn = fn, fn = "CreateChildVariable" => call.at = "counting"
      PROVE  NameInv'
  <2>1. /\ Len(calls') = n /\ calls'[n] = call /\ mode' = "running"
        /\ \A i \in 1 .. n - 1 : calls'[i] = calls[i]
    BY <1>1, <1>2, <1>5, GoOnCalls
  <2>2. \A k \in n .. n : k = n
    BY <1>2
  <2> QED BY <1>2, <1>4, <1>5, <2>1, <2>2
<1>6. ASSUME NEW call, NEW callee, CallFrom(call, callee), call.fn = fn,
             callee.fn \in {"ToString", "ToClassFullName"}, callee.at = "begin"
      PROVE  NameInv'
  <2>1. CASE mode' = "running"
    <3>1. PICK l : l = n + 1
      OBVIOUS
    <3>2. /\ Len(calls') = l /\ calls'[n] = call /\ calls'[l] = callee
          /\ \A i \in 1 .. n - 1 : calls'[i] = calls[i]
      BY <1>1, <1>2, <1>6, <2>1, <3>1, CallFromCalls
    <3>3. l \in Nat /\ \A k \in n .. l : k = n \/ k = l
      BY <1>2, <3>1
    <3> QED BY <1>4, <1>6, <2>1, <3>2, <3>3
  <2>2. CASE mode' # "running"
    BY <1>2, <1>3, <1>6, <2>2, CallFromCalls
  <2> QED BY <2>1, <2>2
<1>7. ASSUME NEW v, Returns(v), fn = "ToString" PROVE NameInv'
  <2>1. PICK l : l = n - 1
    OBVIOUS
  <2>2. /\ Len(calls') = l /\ mode' = "running" /\ \A i \in 1 .. n - 1 : calls'[i] = calls[i]
    BY <1>1, <1>2, <1>7, <2>1, ReturnsCalls
  <2>3. l \in Nat /\ n .. l = {}
    BY <1>2, <2>1
  <2>4. l # 0 /\ calls'[l].fn = "CreateChildVariable" => calls'[l].at # "named"
    <3>1. ASSUME l # 0 PROVE l \in 1 .. n - 1 /\ l + 1 = n
      BY <1>2, <2>1, <3>1
    <3>2. ASSUME l # 0 PROVE Follows(calls[l], calls[n]) /\ calls'[l] = calls[l]
      BY <1>1, <2>2, <3>1, <3>2 DEF ShowInv
    <3> QED BY <1>2, <1>7, <3>2 DEF Follows
  <2> QED BY <1>4, <2>2, <2>3, <2>4
<1> QED BY <1>3, <1>5, <1>6, <1>7 DEF ShowsOn

-----------------------------------------------------------------------------

LEMMA NameInit == RenderingInit => NameInv
<1> SUFFICES ASSUME RenderingInit PROVE NameInv
  OBVIOUS
<1>1. PICK call : call = CallOf("CreateChildVariable") /\ Len(calls) = 1 /\ calls[1] = call
                  /\ Current = call /\ mode = "running"
  BY DEF RenderingInit, Current, Last
<1>2. call.fn = "CreateChildVariable" /\ call.at = "begin"
  BY <1>1, NewCallIs
<1>3. \A k \in 1 .. Len(calls) : k = 1
  BY <1>1
<1> QED BY <1>1, <1>2, <1>3 DEF NameInv, ClassesAreNamed, Where, SearchesRoot, LooksAtLocals

LEMMA NameStep ==
    ASSUME ShowInv, ShowInv', NameInv, [RenderingNext]_renderingVars
    PROVE  NameInv'
<1>1. CASE UNCHANGED renderingVars
  <2>1. held' = held /\ operands' = operands /\ calls' = calls /\ classNames' = classNames
        /\ result' = result /\ mode' = mode
    BY <1>1 DEF renderingVars
  <2>2. Began' = Began
    BY <2>1 DEF Began, Balances, Current
  <2>3. \A k : Subject(k)' = Subject(k) /\ Cursor(k)' = Cursor(k)
    BY <2>1, <2>2 DEF Subject, Cursor
  <2>4. \A k : PathOf(k)' = PathOf(k)
    BY <2>1, <2>3 DEF PathOf
  <2>5. \A k : SearchesRoot(k)' = SearchesRoot(k) /\ LooksAtLocals(k)' = LooksAtLocals(k)
    BY <2>1 DEF SearchesRoot, LooksAtLocals
  <2>6. ASSUME IsTree, mode = "running", NEW k \in 1 .. Len(calls)
        PROVE  /\ SearchesRoot(k)' => \E D : Search(PathOf(k), Len(calls) - k, D, classNames)'
               /\ LooksAtLocals(k)' => Ways(Subject(k))' = {}
    <3>1. PICK path, m, names, v :
             path = PathOf(k) /\ m = Len(calls) - k /\ names = classNames /\ v = Subject(k)
      OBVIOUS
    <3>2. /\ SearchesRoot(k) => \E D : Search(path, m, D, names)
          /\ LooksAtLocals(k) => Ways(v) = {}
      BY <2>6, <3>1 DEF NameInv
    <3>3. \A D : Search(path, m, D, names) => Search(path, m, D, names)'
      BY <2>1, SearchStays
    <3>4. PathOf(k)' = path /\ (Len(calls) - k)' = m /\ classNames' = names /\ Subject(k)' = v
      BY <2>1, <2>3, <2>4, <3>1
    <3>5. Ways(v)' = Ways(v)
      BY <2>1, TreeStays
    <3> QED BY <2>5, <3>2, <3>3, <3>4, <3>5
  <2>7. IsTree' = IsTree /\ ClassesAreNamed' = ClassesAreNamed
    <3>1. IsTree' = IsTree /\ \A value : Ways(value)' = Ways(value)
      BY <2>1, TreeStays
    <3>2. \A way : NameOf(way)' = NameOf(way)
      BY <2>1 DEF NameOf, KeyAt
    <3>3. PICK v : v = Top /\ Top' = v
      BY <2>1 DEF Top
    <3>4. Where("CreateChildVariable", "named")' = Where("CreateChildVariable", "named")
      BY <2>1 DEF Where, Current
    <3> QED BY <2>1, <3>1, <3>2, <3>3, <3>4 DEF ClassesAreNamed
  <2> QED BY <2>1, <2>6, <2>7 DEF NameInv
<1>2. CASE RenderingNext
  <2>1. held' = held
    BY <1>2 DEF RenderingNext
  <2>2. CASE CreateChildVariableStep
    BY <2>1, <2>2, CreateShowsOn, OtherNames
  <2>3. CASE ToStringStep
    BY <2>1, <2>3, ToStringShowsOn, OtherNames
  <2>4. CASE ToClassFullNameStep
    BY <2>1, <2>4, SearchRootNames, RootSearchedNames, LookAtLocalNames, LocalSearchedNames,
       UnknownClassNames DEF ToClassFullNameStep
  <2>5. CASE GetClassesFullNameStep
    BY <2>1, <2>5, HelperStepNames
  <2> QED BY <1>2, <2>2, <2>3, <2>4, <2>5 DEF RenderingNext
<1> QED BY <1>1, <1>2

\* Where the script's classes and tables are each in one place, a class that is in the root table or
\* in a table it leads to is found by ToClassFullName, and the name that it gives it is the way that
\* leads to the class, however the tables lie in one another and whatever the locals are.
THEOREM ClassesNamed == RenderingSpec => []ClassesAreNamed
<1>1. ShowInv /\ ShowInv' /\ NameInv /\ [RenderingNext]_renderingVars => NameInv'
  BY NameStep
<1>2. NameInv => ClassesAreNamed
  BY DEF NameInv, ClassesAreNamed
<1> QED BY NameInit, ShowAlways, <1>1, <1>2, PTL DEF RenderingSpec
=============================================================================
