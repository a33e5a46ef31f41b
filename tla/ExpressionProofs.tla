-------------------------- MODULE ExpressionProofs --------------------------
(***************************************************************************)
(* Proofs about watch expressions, for texts of any length, any containers *)
(* and any frames: a text is rejected at its first mistake and nowhere     *)
(* else, what is read is what was written, the path in an answer leads to  *)
(* the value in it, and expressions without dots mean what they say.       *)
(***************************************************************************)
EXTENDS ExpressionMeaning, FiniteSetTheorems, SequenceTheorems, WellFoundedInduction, TLAPS

-----------------------------------------------------------------------------
(* Texts *)

\* A set of natural numbers has a least element.
LEMMA LeastNumber ==
    ASSUME NEW S, S \subseteq Nat, S # {}
    PROVE  \E i \in S : \A j \in S : i <= j
<1> DEFINE R == OpToRel(<, Nat)
<1>1. IsWellFoundedOn(R, Nat)
  BY NatLessThanWellFounded
<1>2. PICK x \in S : \A y \in S : ~ (<<y, x>> \in R)
  <2> HIDE DEF R
  <2> QED BY <1>1, WFMin
<1>3. \A y \in S : ~ (y < x)
  BY <1>2 DEF OpToRel
<1> QED BY <1>3

LEMMA GreatestNumber ==
    ASSUME NEW n \in Nat, NEW S, S \subseteq 1 .. n, S # {}
    PROVE  Max(S) \in S /\ \A j \in S : j <= Max(S)
<1>1. PICK D : D = {n - i : i \in S}
  OBVIOUS
<1>2. D \subseteq Nat /\ D # {}
  <2>1. ASSUME NEW d \in D PROVE d \in Nat
    <3>1. PICK i \in S : d = n - i
      BY <1>1
    <3>2. i \in 1 .. n
      OBVIOUS
    <3> QED BY <3>1, <3>2
  <2>2. D # {}
    BY <1>1
  <2> QED BY <2>1, <2>2
<1>3. PICK d \in D : \A e \in D : d <= e
  BY <1>2, LeastNumber
<1>4. PICK i \in S : d = n - i
  BY <1>1, <1>3
<1>5. \A j \in S : i >= j
  <2>1. ASSUME NEW j \in S PROVE i >= j
    <3>1. n - j \in D
      BY <1>1
    <3>2. d <= n - j
      BY <1>3, <3>1
    <3>3. i \in 1 .. n /\ j \in 1 .. n
      OBVIOUS
    <3> QED BY <1>4, <3>2, <3>3
  <2> QED BY <2>1
<1>6. \E x \in S : \A y \in S : x >= y
  BY <1>4, <1>5
<1>7. Max(S) \in S /\ \A y \in S : Max(S) >= y
  <2>1. PICK m : m = Max(S)
    OBVIOUS
  <2>2. m \in S /\ \A y \in S : m >= y
    BY <1>6, <2>1 DEF Max
  <2> QED BY <2>1, <2>2
<1>8. Max(S) \in 1 .. n
  BY <1>7
<1> QED BY <1>7, <1>8

\* As ExpressionMeaning has it for text, for any text t.
Words(t, n)    == {i \in 1 .. n : t[i].kind # " "}
LastOf(t, n)   == IF Words(t, n) = {} THEN "start" ELSE t[Max(Words(t, n))].kind
OfKind(t, n, k) == {i \in 1 .. n : t[i].kind = k}
DepthOf(t, n)  == Cardinality(OfKind(t, n, "[")) - Cardinality(OfKind(t, n, "]"))
Fits(t, i) ==
    /\ IF t[i].kind = " " THEN i > 1 => t[i - 1].kind # "."
       ELSE t[i].kind \in MayFollow(LastOf(t, i - 1))
    /\ DepthOf(t, i) >= -1
    /\ DepthOf(t, i - 1) = -1 => t[i].kind = "end"

\* A text of n tokens, and one that is longer by the token c.
IsText(t, n) == n \in Nat /\ t \in Seq(Token) /\ Len(t) = n /\ DOMAIN t = 1 .. n
Grows(u, t, n, c) ==
    IsText(t, n) /\ IsText(u, n + 1) /\ u[n + 1] = c /\ \A i \in 1 .. n : u[i] = t[i]

LEMMA TextGrows ==
    ASSUME NEW t, NEW n, IsText(t, n), NEW c \in Token, NEW u, u = Append(t, c)
    PROVE  Grows(u, t, n, c)
<1>1. n \in Nat /\ t \in Seq(Token) /\ Len(t) = n /\ DOMAIN t = 1 .. n
  BY DEF IsText
<1>2. /\ u \in Seq(Token) /\ Len(u) = n + 1 /\ u[n + 1] = c
      /\ \A i \in 1 .. n : u[i] = t[i]
  BY <1>1, AppendProperties
<1>3. DOMAIN u = 1 .. n + 1
  BY <1>2, LenProperties
<1> QED BY <1>1, <1>2, <1>3 DEF IsText, Grows

LEMMA SameBefore ==
    ASSUME NEW t, NEW n \in Nat, NEW u, NEW c, Grows(u, t, n, c), NEW k \in 0 .. n
    PROVE  LastOf(u, k) = LastOf(t, k) /\ DepthOf(u, k) = DepthOf(t, k)
<1>1. \A i \in 1 .. k : i \in 1 .. n /\ u[i] = t[i]
  BY DEF Grows
<1>2. Words(u, k) = Words(t, k) /\ \A kind : OfKind(u, k, kind) = OfKind(t, k, kind)
  BY <1>1 DEF Words, OfKind
<1>3. Words(t, k) # {} => u[Max(Words(t, k))] = t[Max(Words(t, k))]
  <2>1. ASSUME Words(t, k) # {} PROVE Max(Words(t, k)) \in 1 .. k
    <3>1. Words(t, k) \subseteq 1 .. k
      BY DEF Words
    <3>2. k \in Nat
      OBVIOUS
    <3> QED BY <2>1, <3>1, <3>2, GreatestNumber
  <2> QED BY <1>1, <2>1
<1> QED BY <1>2, <1>3 DEF LastOf, DepthOf

\* What one more token adds.
LEMMA LastGrows ==
    ASSUME NEW t, NEW n \in Nat, NEW u, NEW c, Grows(u, t, n, c)
    PROVE  LastOf(u, n + 1) = IF c.kind = " " THEN LastOf(t, n) ELSE c.kind
<1>1. PICK m : m = n + 1
  OBVIOUS
<1>2. m \in Nat /\ u[m] = c /\ \A i : i \in 1 .. m <=> i \in 1 .. n \/ i = m
  BY <1>1 DEF Grows
<1>3. \A i \in 1 .. n : u[i] = t[i]
  BY DEF Grows
<1>4. CASE c.kind = " "
  <2>1. Words(u, m) = Words(u, n)
    BY <1>2, <1>4 DEF Words
  <2>2. LastOf(u, m) = LastOf(u, n)
    BY <2>1 DEF LastOf
  <2>3. LastOf(u, n) = LastOf(t, n)
    BY SameBefore
  <2> QED BY <1>1, <1>4, <2>2, <2>3
<1>5. CASE c.kind # " "
  <2>1. m \in Words(u, m) /\ Words(u, m) \subseteq 1 .. m
    BY <1>2, <1>5 DEF Words
  <2>2. Max(Words(u, m)) = m
    <3>1. PICK x : x = Max(Words(u, m))
      OBVIOUS
    <3>2. x \in 1 .. m /\ m <= x
      BY <1>2, <2>1, <3>1, GreatestNumber
    <3> QED BY <1>2, <3>1, <3>2
  <2> QED BY <1>1, <1>2, <1>5, <2>1, <2>2 DEF LastOf
<1> QED BY <1>4, <1>5

LEMMA CountOfKind ==
    ASSUME NEW t, NEW n \in Nat, NEW k
    PROVE  IsFiniteSet(OfKind(t, n, k)) /\ Cardinality(OfKind(t, n, k)) \in Nat
<1>1. IsFiniteSet(1 .. n) /\ OfKind(t, n, k) \subseteq 1 .. n
  BY FS_Interval DEF OfKind
<1> QED BY <1>1, FS_Subset, FS_CardinalityType

LEMMA CountGrows ==
    ASSUME NEW t, NEW n \in Nat, NEW u, NEW c, Grows(u, t, n, c), NEW k
    PROVE  Cardinality(OfKind(u, n + 1, k)) =
              Cardinality(OfKind(t, n, k)) + (IF c.kind = k THEN 1 ELSE 0)
<1>1. PICK m : m = n + 1
  OBVIOUS
<1>2. m \in Nat /\ u[m] = c /\ m \notin 1 .. n /\ \A i : i \in 1 .. m <=> i \in 1 .. n \/ i = m
  BY <1>1 DEF Grows
<1>3. \A i \in 1 .. n : u[i] = t[i]
  BY DEF Grows
<1>4. IsFiniteSet(OfKind(t, n, k)) /\ Cardinality(OfKind(t, n, k)) \in Nat
  BY CountOfKind
<1>5. CASE c.kind = k
  <2>1. OfKind(u, m, k) = OfKind(t, n, k) \cup {m} /\ m \notin OfKind(t, n, k)
    BY <1>2, <1>3, <1>5 DEF OfKind
  <2>2. Cardinality(OfKind(u, m, k)) = Cardinality(OfKind(t, n, k)) + 1
    BY <1>4, <2>1, FS_AddElement
  <2> QED BY <1>1, <1>5, <2>2
<1>6. CASE c.kind # k
  <2>1. OfKind(u, m, k) = OfKind(t, n, k)
    BY <1>2, <1>3, <1>6 DEF OfKind
  <2> QED BY <1>1, <1>4, <1>6, <2>1
<1> QED BY <1>5, <1>6

LEMMA DepthGrows ==
    ASSUME NEW t, NEW n \in Nat, NEW u, NEW c, Grows(u, t, n, c)
    PROVE  /\ DepthOf(t, n) \in Int /\ DepthOf(u, n + 1) \in Int
           /\ c.kind = "[" => DepthOf(u, n + 1) = DepthOf(t, n) + 1
           /\ c.kind = "]" => DepthOf(u, n + 1) = DepthOf(t, n) - 1
           /\ c.kind \notin {"[", "]"} => DepthOf(u, n + 1) = DepthOf(t, n)
<1>1. PICK a, b, a2, b2 : /\ a = Cardinality(OfKind(t, n, "[")) /\ b = Cardinality(OfKind(t, n, "]"))
                          /\ a2 = Cardinality(OfKind(u, n + 1, "[")) /\ b2 = Cardinality(OfKind(u, n + 1, "]"))
  OBVIOUS
<1>2. a \in Nat /\ b \in Nat
  BY <1>1, CountOfKind
<1>3. a2 = a + (IF c.kind = "[" THEN 1 ELSE 0) /\ b2 = b + (IF c.kind = "]" THEN 1 ELSE 0)
  BY <1>1, CountGrows
<1>4. DepthOf(t, n) = a - b /\ DepthOf(u, n + 1) = a2 - b2
  BY <1>1 DEF DepthOf
<1> QED BY <1>2, <1>3, <1>4

LEMMA FitsStill ==
    ASSUME NEW t, NEW n \in Nat, NEW u, NEW c, Grows(u, t, n, c), NEW i \in 1 .. n
    PROVE  Fits(u, i) <=> Fits(t, i)
<1>2. i - 1 \in 0 .. n /\ i \in 0 .. n
  OBVIOUS
<1>3. /\ LastOf(u, i - 1) = LastOf(t, i - 1) /\ DepthOf(u, i - 1) = DepthOf(t, i - 1)
      /\ DepthOf(u, i) = DepthOf(t, i)
  BY <1>2, SameBefore
<1>4. u[i] = t[i] /\ (i > 1 => u[i - 1] = t[i - 1])
  <2>1. i > 1 => i - 1 \in 1 .. n
    OBVIOUS
  <2> QED BY <2>1 DEF Grows
<1> QED BY <1>3, <1>4 DEF Fits

\* Whether a token fits into the text is up to what there is before it.
FitsAfter(t, n, c) ==
    /\ IF c.kind = " " THEN n > 0 => t[n].kind # "." ELSE c.kind \in MayFollow(LastOf(t, n))
    /\ DepthOf(t, n) - (IF c.kind = "]" THEN 1 ELSE 0) >= -1 \/ c.kind = "["
    /\ DepthOf(t, n) = -1 => c.kind = "end"

LEMMA FitsNext ==
    ASSUME NEW t, NEW n \in Nat, NEW u, NEW c, Grows(u, t, n, c), DepthOf(t, n) >= -1
    PROVE  Fits(u, n + 1) <=> FitsAfter(t, n, c)
<1>1. PICK m : m = n + 1
  OBVIOUS
<1>2. m - 1 = n /\ (m > 1 <=> n > 0) /\ u[m] = c /\ (n > 0 => u[n] = t[n])
  BY <1>1 DEF Grows
<1>3. LastOf(u, n) = LastOf(t, n) /\ DepthOf(u, n) = DepthOf(t, n)
  <2>1. n \in 0 .. n
    OBVIOUS
  <2> QED BY <2>1, SameBefore
<1>4. PICK d, d2 : d = DepthOf(t, n) /\ d2 = DepthOf(u, m)
  OBVIOUS
<1>5. /\ d \in Int /\ d2 \in Int /\ d >= -1
      /\ c.kind = "[" => d2 = d + 1
      /\ c.kind = "]" => d2 = d - 1
      /\ c.kind \notin {"[", "]"} => d2 = d
  BY <1>1, <1>4, DepthGrows
<1>6. d2 >= -1 <=> (d - (IF c.kind = "]" THEN 1 ELSE 0) >= -1 \/ c.kind = "[")
  BY <1>5
<1> QED BY <1>1, <1>2, <1>3, <1>4, <1>6 DEF Fits, FitsAfter

-----------------------------------------------------------------------------
(* Expressions under construction *)

LEMMA PrefixIs ==
    ASSUME NEW T, NEW s \in Seq(T), NEW k \in 0 .. Len(s)
    PROVE  /\ SubSeq(s, 1, k) \in Seq(T) /\ Len(SubSeq(s, 1, k)) = k
           /\ \A i \in 1 .. k : SubSeq(s, 1, k)[i] = s[i]
<1>1. Len(s) \in Nat /\ DOMAIN s = 1 .. Len(s) /\ k \in Int /\ 1 \in Int
  BY LenProperties
<1>2. \A i \in 1 .. k : s[i] \in T
  <2>1. \A i \in 1 .. k : i \in 1 .. Len(s)
    BY <1>1
  <2> QED BY <2>1, ElementOfSeq
<1>3. /\ SubSeq(s, 1, k) \in Seq(T)
      /\ Len(SubSeq(s, 1, k)) = IF 1 <= k THEN k - 1 + 1 ELSE 0
      /\ \A i \in 1 .. k - 1 + 1 : SubSeq(s, 1, k)[i] = s[1 + i - 1]
  BY <1>1, <1>2, SubSeqProperties
<1>4. k - 1 + 1 = k /\ (~(1 <= k) => k = 0) /\ \A i \in 1 .. k : 1 + i - 1 = i
  BY <1>1
<1> QED BY <1>3, <1>4

LEMMA FrontIs ==
    ASSUME NEW T, NEW s \in Seq(T), Len(s) > 0
    PROVE  /\ Front(s) \in Seq(T) /\ Len(Front(s)) = Len(s) - 1 /\ Len(s) \in Nat \ {0}
           /\ \A i \in 1 .. Len(s) - 1 : Front(s)[i] = s[i]
           /\ Last(s) = s[Len(s)] /\ Last(s) \in T
<1>1. Len(s) \in Nat \ {0} /\ Len(s) - 1 \in 0 .. Len(s) /\ Len(s) \in 1 .. Len(s)
  BY LenProperties
<1>2. Last(s) \in T
  BY <1>1, ElementOfSeq DEF Last
<1> QED BY <1>1, <1>2, PrefixIs DEF Front, Last

\* A sequence with its last element replaced.
Replaced(s, x) == Append(Front(s), x)

IsReplaced(r, s, x) ==
    /\ Len(r) = Len(s) /\ r[Len(s)] = x /\ Last(r) = x
    /\ \A i \in 1 .. Len(s) - 1 : r[i] = s[i]
    /\ Front(r) = Front(s)

LEMMA ReplaceIs ==
    ASSUME NEW T, NEW s \in Seq(T), Len(s) > 0, NEW x \in T, NEW r, r = Replaced(s, x)
    PROVE  r \in Seq(T) /\ IsReplaced(r, s, x)
<1>1. PICK n : n = Len(s)
  OBVIOUS
<1>2. PICK f : f = Front(s)
  OBVIOUS
<1>3. /\ f \in Seq(T) /\ Len(f) = n - 1 /\ n \in Nat \ {0}
      /\ \A i \in 1 .. n - 1 : f[i] = s[i]
  BY <1>1, <1>2, FrontIs
<1>4. /\ r \in Seq(T) /\ Len(r) = n - 1 + 1 /\ r[n - 1 + 1] = x
      /\ \A i \in 1 .. n - 1 : r[i] = f[i]
  BY <1>2, <1>3, AppendProperties DEF Replaced
<1>5. n - 1 + 1 = n
  BY <1>3
<1>6. Len(r) = n /\ r[n] = x
  BY <1>4, <1>5
<1>7. Front(r) = f
  <2>1. Front(r) \in Seq(T) /\ Len(Front(r)) = n - 1 /\ \A i \in 1 .. n - 1 : Front(r)[i] = r[i]
    <3>1. r \in Seq(T) /\ Len(r) > 0 /\ Len(r) = n
      BY <1>3, <1>4, <1>6
    <3>2. /\ Front(r) \in Seq(T) /\ Len(Front(r)) = Len(r) - 1
          /\ \A i \in 1 .. Len(r) - 1 : Front(r)[i] = r[i]
      BY ONLY <3>1, FrontIs
    <3> QED BY ONLY <3>1, <3>2
  <2> QED BY <1>3, <1>4, <2>1, SeqEqual
<1> QED BY <1>1, <1>2, <1>3, <1>4, <1>6, <1>7 DEF Last, IsReplaced

-----------------------------------------------------------------------------
(* How deep brackets are nested *)

\* The expressions with up to n levels of brackets.
NestedTo(n, e) == e = [d \in 0 .. n |-> IF d = 0 THEN {<<>>} ELSE Seq(NodeOf(e[d - 1]))]

LEMMA NestedExists ==
    ASSUME NEW n \in Nat
    PROVE  \E e : NestedTo(n, e)
<1> DEFINE S == {k \in Nat : ~ \E e : NestedTo(k, e)}
<1> SUFFICES S = {}
  OBVIOUS
<1> SUFFICES ASSUME S # {} PROVE FALSE
  OBVIOUS
<1>1. PICK m \in S : \A k \in S : m <= k
  BY LeastNumber
<1>2. m \in Nat /\ ~ \E e : NestedTo(m, e)
  BY <1>1
<1>3. CASE m = 0
  <2>1. PICK e : e = [d \in 0 .. 0 |-> {<<>>}]
    OBVIOUS
  <2>2. NestedTo(0, e)
    <3>1. \A d \in 0 .. 0 : d = 0
      OBVIOUS
    <3> QED BY <2>1, <3>1 DEF NestedTo
  <2> QED BY <1>2, <1>3, <2>2
<1>4. CASE m # 0
  <2>1. PICK k \in Nat : m = k + 1 /\ k \notin S
    <3>1. m - 1 \in Nat /\ m = m - 1 + 1 /\ ~ (m <= m - 1)
      BY <1>2, <1>4
    <3>2. m - 1 \notin S
      BY <1>1, <3>1
    <3> HIDE DEF S
    <3> QED BY <3>1, <3>2
  <2>2. PICK e : NestedTo(k, e)
    BY <2>1
  <2> HIDE DEF S
  <2>3. PICK f : f = [d \in 0 .. m |-> IF d = 0 THEN {<<>>} ELSE Seq(NodeOf(e[d - 1]))]
    OBVIOUS
  <2>4. ASSUME NEW d \in 0 .. k PROVE f[d] = e[d]
    <3>1. PICK g : g = [j \in 0 .. k |-> IF j = 0 THEN {<<>>} ELSE Seq(NodeOf(e[j - 1]))]
      OBVIOUS
    <3>2. e = g
      BY <2>2, <3>1 DEF NestedTo
    <3>3. g[d] = IF d = 0 THEN {<<>>} ELSE Seq(NodeOf(e[d - 1]))
      BY <3>1
    <3>4. d \in 0 .. m
      BY <2>1
    <3>5. f[d] = IF d = 0 THEN {<<>>} ELSE Seq(NodeOf(e[d - 1]))
      BY <2>3, <3>4
    <3> QED BY <3>2, <3>3, <3>5
  <2>5. \A d \in 0 .. m : d # 0 => f[d - 1] = e[d - 1]
    <3>1. \A d \in 0 .. m : d # 0 => d - 1 \in 0 .. k
      BY <2>1
    <3> QED BY <2>4, <3>1
  <2>6. f = [d \in 0 .. m |-> IF d = 0 THEN {<<>>} ELSE Seq(NodeOf(f[d - 1]))]
    BY <2>3, <2>5
  <2> QED BY <1>2, <2>6 DEF NestedTo
<1> QED BY <1>3, <1>4

LEMMA NestedIs ==
    /\ Nested[0] = {<<>>}
    /\ \A d \in 0 .. MaxText : Nested[d + 1] = Seq(NodeOf(Nested[d]))
<1>1. MaxText + 1 \in Nat /\ MaxText \in Nat
  BY ExpressionAssumption
<1>2. \E e : e = [d \in 0 .. MaxText + 1 |-> IF d = 0 THEN {<<>>} ELSE Seq(NodeOf(e[d - 1]))]
  BY <1>1, NestedExists DEF NestedTo
<1>3. PICK N : N = Nested
  OBVIOUS
<1>4. N = [d \in 0 .. MaxText + 1 |-> IF d = 0 THEN {<<>>} ELSE Seq(NodeOf(N[d - 1]))]
  BY <1>2, <1>3 DEF Nested
<1>5. \A d \in 0 .. MaxText + 1 : N[d] = IF d = 0 THEN {<<>>} ELSE Seq(NodeOf(N[d - 1]))
  <2>1. PICK g : g = [d \in 0 .. MaxText + 1 |-> IF d = 0 THEN {<<>>} ELSE Seq(NodeOf(N[d - 1]))]
    OBVIOUS
  <2>2. N = g
    BY <1>4, <2>1
  <2> QED BY <2>1, <2>2
<1>6. N[0] = {<<>>}
  BY <1>1, <1>5
<1>7. ASSUME NEW d \in 0 .. MaxText PROVE N[d + 1] = Seq(NodeOf(N[d]))
  <2>1. PICK k : k = d + 1
    OBVIOUS
  <2>2. k \in 0 .. MaxText + 1 /\ k # 0 /\ k - 1 = d
    BY <1>1, <2>1
  <2>3. N[k] = Seq(NodeOf(N[k - 1]))
    BY <1>5, <2>2
  <2> QED BY <2>1, <2>2, <2>3
<1> QED BY <1>3, <1>6, <1>7

LEMMA NodesGrow ==
    ASSUME NEW A, NEW B, A \subseteq B
    PROVE  NodeOf(A) \subseteq NodeOf(B)
BY DEF NodeOf

LEMMA NestedGrows ==
    ASSUME NEW d \in 0 .. MaxText
    PROVE  Nested[d] \subseteq Nested[d + 1] /\ NodeOf(Nested[d]) \subseteq NodeOf(Nested[d + 1])
<1>0. MaxText \in Nat
  BY ExpressionAssumption
<1> DEFINE S == {k \in 0 .. MaxText : ~(Nested[k] \subseteq Nested[k + 1])}
<1>1. S = {}
  <2> SUFFICES ASSUME S # {} PROVE FALSE
    OBVIOUS
  <2>1. PICK m \in S : \A k \in S : m <= k
    <3>1. S \subseteq Nat
      BY <1>0
    <3> HIDE DEF S
    <3> QED BY <3>1, LeastNumber
  <2>2. m \in 0 .. MaxText /\ ~(Nested[m] \subseteq Nested[m + 1])
    BY <2>1
  <2>3. Nested[m + 1] = Seq(NodeOf(Nested[m]))
    BY <2>2, NestedIs
  <2>4. m # 0
    <3>1. <<>> \in Seq(NodeOf(Nested[m]))
      BY EmptySeq
    <3> QED BY <2>2, <2>3, <3>1, NestedIs
  <2>5. PICK k \in 0 .. MaxText : m = k + 1 /\ k \notin S
    <3>1. m - 1 \in 0 .. MaxText /\ m = m - 1 + 1 /\ ~ (m <= m - 1)
      BY <1>0, <2>2, <2>4
    <3>2. m - 1 \notin S
      BY <2>1, <3>1
    <3> HIDE DEF S
    <3> QED BY <3>1, <3>2
  <2>6. Nested[k] \subseteq Nested[m]
    BY <2>5
  <2> HIDE DEF S
  <2>7. Nested[m] = Seq(NodeOf(Nested[k]))
    BY <2>5, NestedIs
  <2>8. NodeOf(Nested[k]) \subseteq NodeOf(Nested[m])
    BY <2>6, NodesGrow
  <2>9. Seq(NodeOf(Nested[k])) \subseteq Seq(NodeOf(Nested[m]))
    BY <2>8, SeqMonotonic
  <2> QED BY <2>2, <2>3, <2>7, <2>9
<1>2. Nested[d] \subseteq Nested[d + 1]
  BY <1>1
<1> QED BY <1>2, NodesGrow

-----------------------------------------------------------------------------
(* Closing brackets *)

\* The stack of ParseExpression when d brackets have been closed.
Stack(d) == Seq(Nested[d + 1])

LEMMA StackGrows ==
    ASSUME NEW d \in 0 .. MaxText - 1, NEW ops \in Stack(d)
    PROVE  ops \in Stack(d + 1)
<1>0. MaxText \in Nat
  BY ExpressionAssumption
<1>1. PICK e : e = d + 1
  OBVIOUS
<1>2. e \in 0 .. MaxText
  BY <1>0, <1>1
<1>3. Nested[e] \subseteq Nested[e + 1]
  BY <1>2, NestedGrows
<1>4. ops \in Seq(Nested[e + 1])
  BY <1>1, <1>3, SeqMonotonic DEF Stack
<1> QED BY <1>1, <1>4 DEF Stack

WithAccessor(n, e) == [n EXCEPT !.accessor = e]

LEMMA ClosedIs ==
    ASSUME NEW d \in 0 .. MaxText - 1, NEW ops \in Stack(d), NEW m, m = Len(ops), m > 1,
           Len(ops[m - 1]) > 0
    PROVE  /\ Closed(ops) \in Stack(d + 1) /\ Len(Closed(ops)) = m - 1
           /\ \A j \in 1 .. m - 2 : Closed(ops)[j] = ops[j]
           /\ Closed(ops)[m - 1] =
                 Replaced(ops[m - 1], WithAccessor(Last(ops[m - 1]), ops[m]))
           /\ Len(Closed(ops)[m - 1]) = Len(ops[m - 1])
<1>0. MaxText \in Nat /\ d \in 0 .. MaxText /\ d + 1 \in 0 .. MaxText
  BY ExpressionAssumption
<1>1. m \in Nat /\ DOMAIN ops = 1 .. m /\ \A j \in 1 .. m : ops[j] \in Nested[d + 1]
  BY LenProperties, ElementOfSeq DEF Stack
<1>2. m \in 1 .. m /\ m - 1 \in 1 .. m /\ m - 2 \in 0 .. m
  BY <1>1
<1>3. PICK outer, inner, head : outer = ops[m - 1] /\ inner = ops[m] /\ head = SubSeq(ops, 1, m - 2)
  OBVIOUS
<1>4. outer \in Nested[d + 1] /\ inner \in Nested[d + 1] /\ Len(outer) > 0
  BY <1>1, <1>2, <1>3
<1>5. PICK D : D = d + 1
  OBVIOUS
<1>6. Nested[D] \subseteq Nested[D + 1] /\ Nested[D + 1] = Seq(NodeOf(Nested[D])) /\ Nested[D] = Seq(NodeOf(Nested[d]))
  BY <1>0, <1>5, NestedIs, NestedGrows
<1>7. outer \in Seq(NodeOf(Nested[D]))
  BY <1>4, <1>5, <1>6
<1>8. PICK x : x = [Last(outer) EXCEPT !.accessor = inner]
  OBVIOUS
<1>9. x \in NodeOf(Nested[D])
  <2>1. Last(outer) \in NodeOf(Nested[D])
    BY <1>4, <1>7, FrontIs
  <2>2. inner \in Nested[D]
    BY <1>4, <1>5
  <2> QED BY <1>8, <2>1, <2>2 DEF NodeOf
<1>10. PICK r : r = Replaced(outer, x)
  OBVIOUS
<1>11. r \in Seq(NodeOf(Nested[D])) /\ Len(r) = Len(outer)
  <2>1. PICK T : T = NodeOf(Nested[D])
    OBVIOUS
  <2>2. outer \in Seq(T) /\ Len(outer) > 0 /\ x \in T
    BY <1>4, <1>7, <1>9, <2>1
  <2>3. r \in Seq(T) /\ Len(r) = Len(outer)
    BY ONLY <1>10, <2>2, ReplaceIs DEF IsReplaced
  <2> QED BY <2>1, <2>3
<1>12. r \in Nested[D + 1]
  BY <1>6, <1>11
<1>13. /\ head \in Seq(Nested[D]) /\ Len(head) = m - 2
       /\ \A j \in 1 .. m - 2 : head[j] = ops[j]
  <2>1. ops \in Seq(Nested[D]) /\ m - 2 \in 0 .. Len(ops)
    BY <1>2, <1>5 DEF Stack
  <2> QED BY <1>3, <2>1, PrefixIs
<1>14. head \in Seq(Nested[D + 1])
  BY <1>6, <1>13, SeqMonotonic
<1>15. PICK c : c = Append(head, r)
  OBVIOUS
<1>16. /\ c \in Seq(Nested[D + 1]) /\ Len(c) = m - 2 + 1 /\ c[m - 2 + 1] = r
       /\ \A j \in 1 .. m - 2 : c[j] = head[j]
  BY <1>12, <1>13, <1>14, <1>15, AppendProperties
<1>17. m - 2 + 1 = m - 1
  BY <1>1
<1>18. Closed(ops) = c
  <2>1. Last(ops) = inner
    BY <1>3 DEF Last
  <2> QED BY <1>3, <1>8, <1>10, <1>15, <2>1 DEF Closed, Replaced
<1>19. c \in Stack(d + 1) /\ Len(c) = m - 1 /\ c[m - 1] = r
  BY <1>5, <1>16, <1>17 DEF Stack
<1> QED BY <1>3, <1>8, <1>10, <1>11, <1>13, <1>16, <1>18, <1>19 DEF WithAccessor

LEMMA NestedAre ==
    ASSUME NEW d \in 0 .. MaxText
    PROVE  Nested[d + 1] \subseteq Nested[MaxText + 1]
<1>0. MaxText \in Nat
  BY ExpressionAssumption
<1> DEFINE S == {k \in 0 .. MaxText : \E j \in 0 .. MaxText : j + k = MaxText /\ ~(Nested[j + 1] \subseteq Nested[MaxText + 1])}
<1>1. S = {}
  <2> SUFFICES ASSUME S # {} PROVE FALSE
    OBVIOUS
  <2>1. PICK i \in S : \A k \in S : i <= k
    <3>1. S \subseteq Nat
      BY <1>0
    <3> HIDE DEF S
    <3> QED BY <3>1, LeastNumber
  <2>2. PICK j \in 0 .. MaxText : j + i = MaxText /\ ~(Nested[j + 1] \subseteq Nested[MaxText + 1])
    BY <2>1
  <2>3. i \in 0 .. MaxText
    BY <2>1
  <2>4. i # 0
    BY <1>0, <2>2
  <2>5. PICK l, k : l = j + 1 /\ k = i - 1
    OBVIOUS
  <2>6. l \in 0 .. MaxText /\ k \in 0 .. MaxText /\ l + k = MaxText /\ ~ (i <= k)
    BY <1>0, <2>2, <2>3, <2>4, <2>5
  <2>7. k \notin S
    BY <2>1, <2>6
  <2>8. Nested[l + 1] \subseteq Nested[MaxText + 1]
    BY <2>6, <2>7
  <2>9. Nested[l] \subseteq Nested[l + 1]
    BY <2>6, NestedGrows
  <2> QED BY <2>2, <2>5, <2>8, <2>9
<1>2. MaxText - d \in 0 .. MaxText /\ d + (MaxText - d) = MaxText
  BY <1>0
<1> QED BY <1>1, <1>2

\* As AllClosed, for any calls.
ClosingTo(ops, n, e) == e = [i \in 0 .. n |-> IF i = 0 THEN ops ELSE Closed(e[i - 1])]

LEMMA ClosingExists ==
    ASSUME NEW ops, NEW n \in Nat
    PROVE  \E e : ClosingTo(ops, n, e)
<1> DEFINE S == {k \in Nat : ~ \E e : ClosingTo(ops, k, e)}
<1> SUFFICES S = {}
  OBVIOUS
<1> SUFFICES ASSUME S # {} PROVE FALSE
  OBVIOUS
<1>1. PICK m \in S : \A k \in S : m <= k
  BY LeastNumber
<1>2. m \in Nat /\ ~ \E e : ClosingTo(ops, m, e)
  BY <1>1
<1>3. CASE m = 0
  <2>1. PICK e : e = [d \in 0 .. 0 |-> ops]
    OBVIOUS
  <2>2. ClosingTo(ops, 0, e)
    <3>1. \A d \in 0 .. 0 : d = 0
      OBVIOUS
    <3> QED BY <2>1, <3>1 DEF ClosingTo
  <2> QED BY <1>2, <1>3, <2>2
<1>4. CASE m # 0
  <2>1. PICK k \in Nat : m = k + 1 /\ k \notin S
    <3>1. m - 1 \in Nat /\ m = m - 1 + 1 /\ ~ (m <= m - 1)
      BY <1>2, <1>4
    <3>2. m - 1 \notin S
      BY <1>1, <3>1
    <3> HIDE DEF S
    <3> QED BY <3>1, <3>2
  <2>2. PICK e : ClosingTo(ops, k, e)
    BY <2>1
  <2> HIDE DEF S
  <2>3. PICK f : f = [d \in 0 .. m |-> IF d = 0 THEN ops ELSE Closed(e[d - 1])]
    OBVIOUS
  <2>4. ASSUME NEW d \in 0 .. k PROVE f[d] = e[d]
    <3>1. PICK g : g = [j \in 0 .. k |-> IF j = 0 THEN ops ELSE Closed(e[j - 1])]
      OBVIOUS
    <3>2. e = g
      BY <2>2, <3>1 DEF ClosingTo
    <3>3. g[d] = IF d = 0 THEN ops ELSE Closed(e[d - 1])
      BY <3>1
    <3>4. d \in 0 .. m
      BY <2>1
    <3>5. f[d] = IF d = 0 THEN ops ELSE Closed(e[d - 1])
      BY <2>3, <3>4
    <3> QED BY <3>2, <3>3, <3>5
  <2>5. \A d \in 0 .. m : d # 0 => f[d - 1] = e[d - 1]
    <3>1. \A d \in 0 .. m : d # 0 => d - 1 \in 0 .. k
      BY <2>1
    <3> QED BY <2>4, <3>1
  <2>6. f = [d \in 0 .. m |-> IF d = 0 THEN ops ELSE Closed(f[d - 1])]
    BY <2>3, <2>5
  <2> QED BY <1>2, <2>6 DEF ClosingTo
<1> QED BY <1>3, <1>4

LEMMA AllClosedIs ==
    ASSUME NEW ops, ops = open, Len(ops) \in Nat \ {0}
    PROVE  \E h : /\ h[0] = ops /\ AllClosed = h[Len(ops) - 1]
                  /\ \A i \in 1 .. Len(ops) - 1 : h[i] = Closed(h[i - 1])
<1>1. PICK n \in Nat : n = Len(ops) - 1
  <2>1. Len(ops) - 1 \in Nat
    OBVIOUS
  <2> QED BY <2>1
<1>2. PICK h : h = CHOOSE e : ClosingTo(ops, n, e)
  OBVIOUS
<1>3. ClosingTo(ops, n, h)
  BY <1>2, ClosingExists
<1>4. \A i \in 0 .. n : h[i] = IF i = 0 THEN ops ELSE Closed(h[i - 1])
  <2>1. PICK g : g = [i \in 0 .. n |-> IF i = 0 THEN ops ELSE Closed(h[i - 1])]
    OBVIOUS
  <2>2. h = g
    BY <1>3, <2>1 DEF ClosingTo
  <2> QED BY <2>1, <2>2
<1>5. AllClosed = h[n]
  BY <1>1, <1>2 DEF AllClosed, ClosingTo
<1>6. h[0] = ops /\ \A i \in 1 .. n : h[i] = Closed(h[i - 1])
  <2>1. 0 \in 0 .. n /\ \A i \in 1 .. n : i \in 0 .. n /\ i # 0
    OBVIOUS
  <2> QED BY <1>4, <2>1
<1> QED BY <1>1, <1>5, <1>6

LEMMA ExpressionsAre ==
    ASSUME NEW expr \in Expressions
    PROVE  /\ expr \in Seq(NodeOf(Nested[MaxText])) /\ Len(expr) \in Nat /\ DOMAIN expr = 1 .. Len(expr)
           /\ expr # <<>> => Len(expr) > 0
           /\ \A i \in DOMAIN expr : expr[i] \in NodeOf(Nested[MaxText]) /\ expr[i].accessor \in Expressions
<1>1. MaxText \in 0 .. MaxText
  BY ExpressionAssumption
<1>2. expr \in Seq(NodeOf(Nested[MaxText])) /\ Nested[MaxText] \subseteq Expressions
  BY <1>1, NestedIs, NestedGrows DEF Expressions
<1>3. Len(expr) \in Nat /\ DOMAIN expr = 1 .. Len(expr) /\ (expr # <<>> => Len(expr) > 0)
  BY <1>2, LenProperties, EmptySeq
<1>4. ASSUME NEW i \in DOMAIN expr
      PROVE  expr[i] \in NodeOf(Nested[MaxText]) /\ expr[i].accessor \in Expressions
  <2>1. expr[i] \in NodeOf(Nested[MaxText])
    BY <1>2, <1>3, ElementOfSeq
  <2> QED BY <1>2, <2>1 DEF NodeOf
<1> QED BY <1>2, <1>3, <1>4

-----------------------------------------------------------------------------
(* Sequences of sequences *)

FlattenTo(s, n, e) == e = [i \in 1 .. n |-> IF i = 1 THEN s[i] ELSE e[i - 1] \o s[i]]
IsFlattened(s, n, e) == /\ n > 0 => e[1] = s[1]
                        /\ \A i \in 2 .. n : e[i] = e[i - 1] \o s[i]

LEMMA FlattenToIs ==
    ASSUME NEW s, NEW n \in Nat, NEW e, FlattenTo(s, n, e)
    PROVE  IsFlattened(s, n, e)
<1>1. PICK g : g = [i \in 1 .. n |-> IF i = 1 THEN s[i] ELSE e[i - 1] \o s[i]]
  OBVIOUS
<1>2. e = g
  BY <1>1 DEF FlattenTo
<1>3. ASSUME n > 0 PROVE e[1] = s[1]
  <2>1. 1 \in 1 .. n
    BY <1>3
  <2> QED BY <1>1, <1>2, <2>1
<1>4. ASSUME NEW i \in 2 .. n PROVE e[i] = e[i - 1] \o s[i]
  <2>1. i \in 1 .. n /\ i # 1
    OBVIOUS
  <2> QED BY <1>1, <1>2, <2>1
<1> QED BY <1>3, <1>4 DEF IsFlattened

LEMMA FlattenExists ==
    ASSUME NEW s, NEW n \in Nat
    PROVE  \E e : FlattenTo(s, n, e)
<1> DEFINE S == {k \in Nat : ~ \E e : FlattenTo(s, k, e)}
<1> SUFFICES S = {}
  OBVIOUS
<1> SUFFICES ASSUME S # {} PROVE FALSE
  OBVIOUS
<1>1. PICK m \in S : \A k \in S : m <= k
  BY LeastNumber
<1>2. m \in Nat /\ ~ \E e : FlattenTo(s, m, e)
  BY <1>1
<1>3. CASE m = 0
  <2>1. PICK e : e = [i \in 1 .. 0 |-> s[i]]
    OBVIOUS
  <2>2. FlattenTo(s, 0, e)
    <3>1. \A i \in 1 .. 0 : i = 1
      OBVIOUS
    <3> QED BY <2>1, <3>1 DEF FlattenTo
  <2> QED BY <1>2, <1>3, <2>2
<1>4. CASE m # 0
  <2>1. PICK k \in Nat : m = k + 1 /\ k \notin S
    <3>1. m - 1 \in Nat /\ m = m - 1 + 1 /\ ~ (m <= m - 1)
      BY <1>2, <1>4
    <3>2. m - 1 \notin S
      BY <1>1, <3>1
    <3> HIDE DEF S
    <3> QED BY <3>1, <3>2
  <2>2. PICK e : FlattenTo(s, k, e)
    BY <2>1
  <2> HIDE DEF S
  <2>3. PICK f : f = [i \in 1 .. m |-> IF i = 1 THEN s[i] ELSE e[i - 1] \o s[i]]
    OBVIOUS
  <2>4. ASSUME NEW d \in 1 .. k PROVE f[d] = e[d]
    <3>1. PICK g : g = [i \in 1 .. k |-> IF i = 1 THEN s[i] ELSE e[i - 1] \o s[i]]
      OBVIOUS
    <3>2. e = g
      BY <2>2, <3>1 DEF FlattenTo
    <3>3. g[d] = IF d = 1 THEN s[d] ELSE e[d - 1] \o s[d]
      BY <3>1
    <3>4. d \in 1 .. m
      BY <2>1
    <3>5. f[d] = IF d = 1 THEN s[d] ELSE e[d - 1] \o s[d]
      BY <2>3, <3>4
    <3> QED BY <3>2, <3>3, <3>5
  <2>5. \A d \in 1 .. m : d # 1 => f[d - 1] = e[d - 1]
    <3>1. \A d \in 1 .. m : d # 1 => d - 1 \in 1 .. k
      BY <2>1
    <3> QED BY <2>4, <3>1
  <2>6. f = [i \in 1 .. m |-> IF i = 1 THEN s[i] ELSE f[i - 1] \o s[i]]
    BY <2>3, <2>5
  <2> QED BY <1>2, <2>6 DEF FlattenTo
<1> QED BY <1>3, <1>4

\* FlattenSeq puts them together one by one.
LEMMA FlattenSteps ==
    ASSUME NEW s, NEW n, n = Len(s), n \in Nat
    PROVE  \E h : IsFlattened(s, n, h) /\ FlattenSeq(s) = IF n = 0 THEN s ELSE h[n]
<1>1. PICK h : h = CHOOSE e : FlattenTo(s, n, e)
  OBVIOUS
<1>2. FlattenTo(s, n, h)
  BY <1>1, FlattenExists
<1>3. IsFlattened(s, n, h)
  BY <1>2, FlattenToIs
<1>4. FlattenSeq(s) = IF n = 0 THEN s ELSE h[n]
  BY <1>1 DEF FlattenSeq, FlattenTo
<1> QED BY <1>3, <1>4

LEMMA FlattenedIs ==
    ASSUME NEW T, NEW s \in Seq(Seq(T)), NEW n, n = Len(s), NEW h, IsFlattened(s, n, h), NEW k \in 1 .. n
    PROVE  h[k] \in Seq(T)
<1>0. n \in Nat /\ \A i \in 1 .. n : s[i] \in Seq(T)
  BY LenProperties, ElementOfSeq
<1> DEFINE S == {i \in 1 .. n : h[i] \notin Seq(T)}
<1> SUFFICES S = {}
  OBVIOUS
<1> SUFFICES ASSUME S # {} PROVE FALSE
  OBVIOUS
<1>1. PICK m \in S : \A i \in S : m <= i
  <2>1. S \subseteq Nat
    BY <1>0
  <2> HIDE DEF S
  <2> QED BY <2>1, LeastNumber
<1>2. m \in 1 .. n /\ h[m] \notin Seq(T) /\ s[m] \in Seq(T)
  BY <1>0, <1>1
<1>3. m # 1
  <2>1. n > 0
    BY <1>0, <1>2
  <2>2. h[1] = s[1]
    BY <2>1 DEF IsFlattened
  <2> QED BY <1>2, <2>2
<1>4. m \in 2 .. n /\ m - 1 \in 1 .. n /\ ~(m <= m - 1)
  BY <1>0, <1>2, <1>3
<1>5. h[m - 1] \in Seq(T)
  <2>1. m - 1 \notin S
    <3> HIDE DEF S
    <3> QED BY <1>1, <1>4
  <2> QED BY <1>4, <2>1
<1>6. h[m] = h[m - 1] \o s[m]
  BY <1>4 DEF IsFlattened
<1>7. h[m - 1] \o s[m] \in Seq(T)
  BY <1>2, <1>5, ConcatProperties
<1> QED BY <1>2, <1>6, <1>7

LEMMA FlattenIs ==
    ASSUME NEW T, NEW s \in Seq(Seq(T))
    PROVE  FlattenSeq(s) \in Seq(T)
<1>1. PICK n \in Nat : n = Len(s)
  BY LenProperties
<1>2. PICK h : IsFlattened(s, n, h) /\ FlattenSeq(s) = IF n = 0 THEN s ELSE h[n]
  BY <1>1, FlattenSteps
<1>3. CASE n = 0
  <2>1. s = <<>>
    BY <1>1, <1>3, EmptySeq
  <2> QED BY <1>2, <1>3, <2>1, EmptySeq
<1>4. CASE n # 0
  <2>1. n \in 1 .. n
    BY <1>4
  <2>2. h[n] \in Seq(T)
    BY <1>1, <1>2, <2>1, FlattenedIs
  <2> QED BY <1>2, <1>4, <2>2
<1> QED BY <1>3, <1>4

-----------------------------------------------------------------------------
(* One sequence more *)

LEMMA FlattenedAgree ==
    ASSUME NEW s, NEW r, NEW n \in Nat, \A i \in 1 .. n : r[i] = s[i], NEW m \in Nat, n <= m,
           NEW h, IsFlattened(s, n, h), NEW g, IsFlattened(r, m, g), NEW k \in 1 .. n
    PROVE  g[k] = h[k]
<1> DEFINE S == {i \in 1 .. n : g[i] # h[i]}
<1> SUFFICES S = {}
  OBVIOUS
<1> SUFFICES ASSUME S # {} PROVE FALSE
  OBVIOUS
<1>1. PICK i \in S : \A j \in S : i <= j
  <2>1. S \subseteq Nat
    OBVIOUS
  <2> HIDE DEF S
  <2> QED BY <2>1, LeastNumber
<1>2. i \in 1 .. n /\ g[i] # h[i] /\ r[i] = s[i]
  BY <1>1
<1>3. i # 1
  <2>1. n > 0 /\ m > 0 /\ 1 \in 1 .. n
    BY <1>2
  <2>2. g[1] = r[1] /\ h[1] = s[1] /\ r[1] = s[1]
    BY <2>1 DEF IsFlattened
  <2> QED BY <1>2, <2>2
<1>4. i \in 2 .. n /\ i \in 2 .. m /\ i - 1 \in 1 .. n /\ ~(i <= i - 1)
  BY <1>2, <1>3
<1>5. g[i - 1] = h[i - 1]
  <2>1. i - 1 \notin S
    <3> HIDE DEF S
    <3> QED BY <1>1, <1>4
  <2> QED BY <1>4, <2>1
<1>6. g[i] = g[i - 1] \o r[i] /\ h[i] = h[i - 1] \o s[i]
  BY <1>4 DEF IsFlattened
<1> QED BY <1>2, <1>5, <1>6

LEMMA FlattenAppend ==
    ASSUME NEW T, NEW s \in Seq(Seq(T)), NEW x \in Seq(T), NEW r, r = Append(s, x)
    PROVE  FlattenSeq(r) = FlattenSeq(s) \o x
<1>1. PICK n \in Nat : n = Len(s)
  BY LenProperties
<1>2. /\ Len(r) = n + 1 /\ r[n + 1] = x
      /\ \A i \in 1 .. n : r[i] = s[i]
  BY <1>1, AppendProperties
<1>3. PICK m \in Nat : m = n + 1
  OBVIOUS
<1>4. PICK h : IsFlattened(s, n, h) /\ FlattenSeq(s) = IF n = 0 THEN s ELSE h[n]
  BY <1>1, FlattenSteps
<1>5. PICK g : IsFlattened(r, m, g) /\ FlattenSeq(r) = IF m = 0 THEN r ELSE g[m]
  <2>1. m = Len(r)
    BY <1>2, <1>3
  <2> QED BY <2>1, FlattenSteps
<1>6. FlattenSeq(r) = g[m]
  BY <1>3, <1>5
<1>7. CASE n = 0
  <2>1. s = <<>> /\ FlattenSeq(s) = s
    BY <1>1, <1>4, <1>7, EmptySeq
  <2>2. m = 1 /\ g[1] = r[1] /\ r[1] = x
    BY <1>2, <1>3, <1>5, <1>7 DEF IsFlattened
  <2>3. <<>> \o x = x
    BY ConcatEmptySeq
  <2> QED BY <1>6, <2>1, <2>2, <2>3
<1>8. CASE n # 0
  <2>1. n \in 1 .. n /\ m \in 2 .. m /\ m - 1 = n /\ n <= m
    <3>1. n \in 1 .. n /\ n + 1 \in 2 .. n + 1 /\ n + 1 - 1 = n /\ n <= n + 1
      BY <1>8
    <3> QED BY <1>3, <3>1
  <2>2. g[n] = h[n]
    <3>1. \A i \in 1 .. n : r[i] = s[i]
      BY <1>2
    <3>2. IsFlattened(s, n, h) /\ IsFlattened(r, m, g) /\ n \in 1 .. n /\ n <= m
      BY <1>4, <1>5, <2>1
    <3> QED BY ONLY n \in Nat, m \in Nat, <3>1, <3>2, FlattenedAgree
  <2>3. g[m] = g[m - 1] \o r[m]
    BY <1>5, <2>1 DEF IsFlattened
  <2>4. g[m] = h[n] \o x
    <3>1. g[m - 1] = h[n]
      BY <2>1, <2>2
    <3>2. r[m] = x
      BY ONLY <1>2, <1>3
    <3> QED BY <2>3, <3>1, <3>2
  <2> QED BY <1>4, <1>6, <1>8, <2>4
<1> QED BY <1>7, <1>8

-----------------------------------------------------------------------------
(* Expressions as they are written *)

TokensOf(n, i, w) ==
    IF n.accessor # <<>> THEN <<Mark("[")>> \o w[n.accessor] \o <<Mark("]")>>
    ELSE (IF i = 1 THEN <<>> ELSE <<Mark(".")>>)
         \o (IF n.type = "Undefined" THEN <<>> ELSE <<[kind |-> n.type, value |-> n.value]>>)

Parts(e, w) == [i \in DOMAIN e |-> TokensOf(e[i], i, w)]
WriteTo(D, w) == w = [e \in D |-> FlattenSeq(Parts(e, w))]

LEMMA WriteToIs ==
    ASSUME NEW D, NEW w, WriteTo(D, w), NEW e \in D
    PROVE  w[e] = FlattenSeq(Parts(e, w))
<1>1. PICK g : g = [x \in D |-> FlattenSeq(Parts(x, w))]
  OBVIOUS
<1>2. w = g
  BY <1>1 DEF WriteTo
<1> QED BY <1>1, <1>2

LEMMA NestedExprs ==
    ASSUME NEW d \in 0 .. MaxText, NEW e \in Nested[d + 1]
    PROVE  e \in Seq(NodeOf(Nested[d])) /\ DOMAIN e = 1 .. Len(e) /\ \A i \in DOMAIN e : e[i].accessor \in Nested[d]
<1>1. e \in Seq(NodeOf(Nested[d]))
  BY NestedIs
<1>2. DOMAIN e = 1 .. Len(e)
  BY <1>1, LenProperties
<1>3. ASSUME NEW i \in DOMAIN e PROVE e[i].accessor \in Nested[d]
  <2>1. e[i] \in NodeOf(Nested[d])
    BY <1>1, <1>2, ElementOfSeq
  <2> QED BY <2>1 DEF NodeOf
<1> QED BY <1>1, <1>2, <1>3

LEMMA PartsDepend ==
    ASSUME NEW e, NEW v, NEW w, \A i \in DOMAIN e : v[e[i].accessor] = w[e[i].accessor]
    PROVE  Parts(e, v) = Parts(e, w)
<1>1. \A i \in DOMAIN e : TokensOf(e[i], i, v) = TokensOf(e[i], i, w)
  BY DEF TokensOf
<1> QED BY <1>1 DEF Parts

LEMMA WriteExists ==
    ASSUME NEW d \in 0 .. MaxText + 1
    PROVE  \E w : WriteTo(Nested[d], w)
<1>0. MaxText \in Nat
  BY ExpressionAssumption
<1> DEFINE S == {k \in 0 .. MaxText + 1 : ~ \E w : WriteTo(Nested[k], w)}
<1> SUFFICES S = {}
  OBVIOUS
<1> SUFFICES ASSUME S # {} PROVE FALSE
  OBVIOUS
<1>1. PICK m \in S : \A k \in S : m <= k
  <2>1. S \subseteq Nat
    BY <1>0
  <2> HIDE DEF S
  <2> QED BY <2>1, LeastNumber
<1>2. m \in 0 .. MaxText + 1 /\ ~ \E w : WriteTo(Nested[m], w)
  BY <1>1
<1>3. CASE m = 0
  <2>1. PICK v, w : w = [e \in {<<>>} |-> FlattenSeq(Parts(e, v))]
    OBVIOUS
  <2>2. Parts(<<>>, v) = Parts(<<>>, w)
    <3>1. PICK e : e = <<>>
      OBVIOUS
    <3>2. \A i \in DOMAIN e : v[e[i].accessor] = w[e[i].accessor]
      BY <3>1
    <3> QED BY <3>1, <3>2, PartsDepend
  <2>3. w = [e \in {<<>>} |-> FlattenSeq(Parts(e, w))]
    BY <2>1, <2>2
  <2> QED BY <1>2, <1>3, <2>3, NestedIs DEF WriteTo
<1>4. CASE m # 0
  <2>1. PICK k \in 0 .. MaxText : m = k + 1 /\ k \notin S
    <3>1. m - 1 \in 0 .. MaxText /\ m = m - 1 + 1 /\ ~ (m <= m - 1)
      BY <1>0, <1>2, <1>4
    <3>2. m - 1 \notin S
      BY <1>1, <3>1
    <3> HIDE DEF S
    <3> QED BY <3>1, <3>2
  <2>2. PICK v : WriteTo(Nested[k], v)
    <3>1. k \in 0 .. MaxText + 1
      BY <1>0
    <3> QED BY <2>1, <3>1
  <2> HIDE DEF S
  <2>3. PICK w : w = [e \in Nested[m] |-> FlattenSeq(Parts(e, v))]
    OBVIOUS
  <2>4. Nested[k] \subseteq Nested[m]
    BY <2>1, NestedGrows
  <2>5. ASSUME NEW e \in Nested[k] PROVE w[e] = v[e]
    BY <2>2, <2>3, <2>4, WriteToIs
  <2>6. ASSUME NEW e \in Nested[m] PROVE Parts(e, v) = Parts(e, w)
    <3>1. \A i \in DOMAIN e : e[i].accessor \in Nested[k]
      BY <2>1, NestedExprs
    <3>2. \A i \in DOMAIN e : v[e[i].accessor] = w[e[i].accessor]
      BY <2>5, <3>1
    <3> QED BY <3>2, PartsDepend
  <2>7. w = [e \in Nested[m] |-> FlattenSeq(Parts(e, w))]
    BY <2>3, <2>6
  <2> QED BY <1>2, <2>7 DEF WriteTo
<1> QED BY <1>3, <1>4

LEMMA WrittenIs ==
    ASSUME NEW w, w = Written
    PROVE  WriteTo(Expressions, w)
<1>1. MaxText + 1 \in 0 .. MaxText + 1
  BY ExpressionAssumption
<1>2. \E v : WriteTo(Expressions, v)
  BY <1>1, WriteExists DEF Expressions
<1>3. w = CHOOSE v : WriteTo(Expressions, v)
  BY DEF Written, WriteTo, Parts, TokensOf
<1> QED BY <1>2, <1>3

Writing == Token \cup [kind : Operand, value : {NoText} \cup {token.value : token \in OperandToken}]

LEMMA TokensAre ==
    ASSUME NEW A, NEW n \in NodeOf(A), NEW i, NEW w, n.accessor # <<>> => w[n.accessor] \in Seq(Writing)
    PROVE  TokensOf(n, i, w) \in Seq(Writing)
<1>1. Mark("[") \in Writing /\ Mark("]") \in Writing /\ Mark(".") \in Writing
  BY DEF Writing, Token
<1>2. PICK a, b, c : a = <<Mark("[")>> /\ b = <<Mark("]")>> /\ c = <<Mark(".")>>
  OBVIOUS
<1>3. a \in Seq(Writing) /\ b \in Seq(Writing) /\ c \in Seq(Writing)
  BY <1>1, <1>2
<1>4. CASE n.accessor # <<>>
  <2>1. TokensOf(n, i, w) = (a \o w[n.accessor]) \o b
    BY <1>2, <1>4 DEF TokensOf
  <2>2. a \o w[n.accessor] \in Seq(Writing)
    BY <1>3, <1>4, ConcatProperties
  <2> QED BY <1>3, <2>1, <2>2, ConcatProperties
<1>5. CASE n.accessor = <<>>
  <2>1. PICK p, q : /\ p = IF i = 1 THEN <<>> ELSE c
                    /\ q = IF n.type = "Undefined" THEN <<>> ELSE <<[kind |-> n.type, value |-> n.value]>>
    OBVIOUS
  <2>2. TokensOf(n, i, w) = p \o q
    BY <1>2, <1>5, <2>1 DEF TokensOf
  <2>3. p \in Seq(Writing)
    BY <1>3, <2>1, EmptySeq
  <2>4. q \in Seq(Writing)
    <3>1. CASE n.type = "Undefined"
      BY <2>1, <3>1, EmptySeq
    <3>2. CASE n.type # "Undefined"
      <4>1. [kind |-> n.type, value |-> n.value] \in Writing
        BY <3>2 DEF NodeOf, Writing
      <4>2. q = <<[kind |-> n.type, value |-> n.value]>>
        BY <2>1, <3>2
      <4> QED BY <4>1, <4>2
    <3> QED BY <3>1, <3>2
  <2> QED BY <2>2, <2>3, <2>4, ConcatProperties
<1> QED BY <1>4, <1>5

LEMMA WrittenNested ==
    ASSUME NEW w, w = Written, NEW d \in 0 .. MaxText + 1, NEW e \in Nested[d]
    PROVE  w[e] \in Seq(Writing) /\ Parts(e, w) \in Seq(Seq(Writing))
<1>0. MaxText \in Nat
  BY ExpressionAssumption
<1> DEFINE Fine(x) == w[x] \in Seq(Writing) /\ Parts(x, w) \in Seq(Seq(Writing))
<1> DEFINE S == {k \in 0 .. MaxText + 1 : \E x \in Nested[k] : ~Fine(x)}
<1> SUFFICES S = {}
  OBVIOUS
<1> SUFFICES ASSUME S # {} PROVE FALSE
  OBVIOUS
<1>1. PICK m \in S : \A k \in S : m <= k
  <2>1. S \subseteq Nat
    BY <1>0
  <2> HIDE DEF S
  <2> QED BY <2>1, LeastNumber
<1>2. PICK x \in Nested[m] : m \in 0 .. MaxText + 1 /\ ~Fine(x)
  BY <1>1
<1>3. x \in Expressions
  <2>1. CASE m = 0
    <3>1. x = <<>> /\ MaxText \in 0 .. MaxText
      BY <1>0, <1>2, <2>1, NestedIs
    <3>2. Expressions = Seq(NodeOf(Nested[MaxText]))
      BY <3>1, NestedIs DEF Expressions
    <3> QED BY <3>1, <3>2, EmptySeq
  <2>2. CASE m # 0
    <3>1. PICK k : k = m - 1
      OBVIOUS
    <3>2. k \in 0 .. MaxText /\ m = k + 1
      BY <1>0, <1>2, <2>2, <3>1
    <3> QED BY <1>2, <3>2, NestedAre DEF Expressions
  <2> QED BY <2>1, <2>2
<1>4. w[x] = FlattenSeq(Parts(x, w))
  BY <1>3, WrittenIs, WriteToIs
<1>5. \A i \in DOMAIN x : x[i] \in NodeOf(Nested[MaxText]) /\ x[i].accessor # <<>> => w[x[i].accessor] \in Seq(Writing)
  <2>1. CASE m = 0
    <3>1. x = <<>>
      BY <1>2, <2>1, NestedIs
    <3> QED BY <3>1
  <2>2. CASE m # 0
    <3>1. PICK k : k = m - 1
      OBVIOUS
    <3>2. k \in 0 .. MaxText /\ k \in 0 .. MaxText + 1 /\ m = k + 1 /\ ~(m <= k)
      BY <1>0, <1>2, <2>2, <3>1
    <3>3. k \notin S
      <4> HIDE DEF S
      <4> QED BY <1>1, <3>2
    <3>4. \A y \in Nested[k] : w[y] \in Seq(Writing)
      BY <3>2, <3>3
    <3>5. \A i \in DOMAIN x : x[i].accessor \in Nested[k]
      BY <1>2, <3>2, NestedExprs
    <3> QED BY <3>4, <3>5
  <2> QED BY <2>1, <2>2
<1>6. \A i \in DOMAIN x : x[i] \in NodeOf(Nested[MaxText])
  BY <1>3, ExpressionsAre
<1>7. \A i \in DOMAIN x : TokensOf(x[i], i, w) \in Seq(Writing)
  BY <1>5, <1>6, TokensAre
<1>8. Parts(x, w) \in Seq(Seq(Writing))
  <2>1. DOMAIN x = 1 .. Len(x) /\ Len(x) \in Nat
    BY <1>3, ExpressionsAre
  <2> QED BY <1>7, <2>1, IsASeq DEF Parts
<1>9. w[x] \in Seq(Writing)
  BY <1>4, <1>8, FlattenIs
<1> QED BY <1>2, <1>8, <1>9

-----------------------------------------------------------------------------
(* The calls of ParseExpression in progress *)

\* Only the last node of each can be one that has not been read yet; the one in front of an
\* open bracket has.
IsPart(e) == Len(e) > 0 /\ \A i \in 1 .. Len(e) - 1 : e[i].type # "Undefined"
AreCalls(ops) ==
    /\ Len(ops) > 0
    /\ \A j \in 1 .. Len(ops) : IsPart(ops[j])
    /\ \A j \in 1 .. Len(ops) - 1 : Last(ops[j]).type = "Identifier"

LEMMA UnparsedIsNode ==
    ASSUME NEW d \in 0 .. MaxText
    PROVE  Unparsed \in NodeOf(Nested[d]) /\ [Unparsed EXCEPT !.type = "Identifier"] \in NodeOf(Nested[d])
<1>0. MaxText \in Nat
  BY ExpressionAssumption
<1>1. <<>> \in Nested[d]
  <2>1. CASE d = 0
    BY <2>1, NestedIs
  <2>2. CASE d # 0
    <3>1. PICK k : k = d - 1
      OBVIOUS
    <3>2. k \in 0 .. MaxText /\ k + 1 = d
      BY <1>0, <2>2, <3>1
    <3>3. Nested[d] = Seq(NodeOf(Nested[k]))
      BY <3>2, NestedIs
    <3> QED BY <3>3, EmptySeq
  <2> QED BY <2>1, <2>2
<1> QED BY <1>1 DEF Unparsed, NodeOf, Operand

LEMMA CallsAre ==
    ASSUME NEW d \in 0 .. MaxText, NEW ops \in Stack(d), AreCalls(ops)
    PROVE  /\ Len(ops) \in Nat \ {0}
           /\ \A j \in 1 .. Len(ops) : ops[j] \in Seq(NodeOf(Nested[d])) /\ Len(ops[j]) \in Nat \ {0}
           /\ Last(ops) = ops[Len(ops)] /\ Last(ops) \in Seq(NodeOf(Nested[d]))
           /\ Len(Last(ops)) \in Nat \ {0}
           /\ Last(Last(ops)) = Last(ops)[Len(Last(ops))] /\ Last(Last(ops)) \in NodeOf(Nested[d])
<1>1. Len(ops) \in Nat \ {0} /\ Len(ops) \in 1 .. Len(ops)
  BY LenProperties DEF AreCalls, Stack
<1>2. Nested[d + 1] = Seq(NodeOf(Nested[d]))
  BY NestedIs
<1>3. ASSUME NEW j \in 1 .. Len(ops)
      PROVE  ops[j] \in Seq(NodeOf(Nested[d])) /\ Len(ops[j]) \in Nat \ {0}
  <2>1. ops[j] \in Seq(NodeOf(Nested[d]))
    BY <1>2, ElementOfSeq DEF Stack
  <2>2. Len(ops[j]) \in Nat /\ Len(ops[j]) > 0
    BY <2>1, LenProperties DEF AreCalls, IsPart
  <2> QED BY <2>1, <2>2
<1>4. Last(ops) = ops[Len(ops)]
  BY DEF Last
<1>5. PICK e : e = Last(ops)
  OBVIOUS
<1>6. e \in Seq(NodeOf(Nested[d])) /\ Len(e) \in Nat \ {0} /\ Len(e) > 0
  BY <1>1, <1>3, <1>4, <1>5
<1>7. Last(e) = e[Len(e)] /\ Last(e) \in NodeOf(Nested[d])
  BY <1>6, FrontIs
<1> QED BY <1>1, <1>3, <1>4, <1>5, <1>6, <1>7

\* The innermost call with another expression.
LEMMA CallReplaced ==
    ASSUME NEW d \in 0 .. MaxText, NEW ops \in Stack(d), AreCalls(ops),
           NEW e \in Seq(NodeOf(Nested[d])), IsPart(e), NEW r, r = Replaced(ops, e)
    PROVE  /\ r \in Stack(d) /\ AreCalls(r) /\ Len(r) = Len(ops) /\ Last(r) = e
           /\ \A j \in 1 .. Len(ops) - 1 : r[j] = ops[j]
<1>1. Nested[d + 1] = Seq(NodeOf(Nested[d])) /\ Len(ops) \in Nat \ {0}
  BY NestedIs, CallsAre
<1>2. ops \in Seq(Nested[d + 1]) /\ e \in Nested[d + 1] /\ Len(ops) > 0
  BY <1>1 DEF Stack
<1>3. /\ r \in Seq(Nested[d + 1]) /\ Len(r) = Len(ops) /\ r[Len(ops)] = e /\ Last(r) = e
      /\ \A j \in 1 .. Len(ops) - 1 : r[j] = ops[j]
  <2>1. PICK T : T = Nested[d + 1]
    OBVIOUS
  <2>2. ops \in Seq(T) /\ e \in T /\ Len(ops) > 0 /\ r = Replaced(ops, e)
    BY <1>2, <2>1
  <2>3. r \in Seq(T) /\ IsReplaced(r, ops, e)
    BY ONLY <2>2, ReplaceIs
  <2> QED BY <2>1, <2>3 DEF IsReplaced
<1>4. \A j \in 1 .. Len(ops) : j = Len(ops) \/ j \in 1 .. Len(ops) - 1
  BY <1>1
<1>5. AreCalls(r)
  BY <1>1, <1>3, <1>4 DEF AreCalls
<1> QED BY <1>3, <1>5 DEF Stack

\* A node that has been read.
LEMMA NodeReplaced ==
    ASSUME NEW d \in 0 .. MaxText, NEW ops \in Stack(d), AreCalls(ops), NEW x \in NodeOf(Nested[d]),
           NEW r, r = Replaced(ops, Replaced(Last(ops), x))
    PROVE  /\ r \in Stack(d) /\ AreCalls(r) /\ Len(r) = Len(ops) /\ Last(Last(r)) = x
           /\ Len(Last(r)) = Len(Last(ops))
<1>1. PICK e : e = Last(ops)
  OBVIOUS
<1>2. e \in Seq(NodeOf(Nested[d])) /\ Len(e) \in Nat \ {0} /\ Len(e) > 0 /\ IsPart(e)
  BY <1>1, CallsAre DEF AreCalls
<1>3. PICK f : f = Replaced(e, x)
  OBVIOUS
<1>4. /\ f \in Seq(NodeOf(Nested[d])) /\ Len(f) = Len(e) /\ Last(f) = x
      /\ \A i \in 1 .. Len(e) - 1 : f[i] = e[i]
  <2>1. PICK T : T = NodeOf(Nested[d])
    OBVIOUS
  <2>2. e \in Seq(T) /\ x \in T /\ Len(e) > 0
    BY <1>2, <2>1
  <2>3. f \in Seq(T) /\ IsReplaced(f, e, x)
    BY ONLY <1>3, <2>2, ReplaceIs
  <2> QED BY <2>1, <2>3 DEF IsReplaced
<1>5. IsPart(f)
  BY <1>2, <1>4 DEF IsPart
<1>6. r \in Stack(d) /\ AreCalls(r) /\ Len(r) = Len(ops) /\ Last(r) = f
  BY <1>1, <1>3, <1>4, <1>5, CallReplaced
<1> QED BY <1>1, <1>4, <1>6

\* A node that comes after one that has been read.
LEMMA NodeAdded ==
    ASSUME NEW d \in 0 .. MaxText, NEW ops \in Stack(d), AreCalls(ops), NEW x \in NodeOf(Nested[d]),
           Last(Last(ops)).type # "Undefined",
           NEW r, r = Replaced(ops, Append(Last(ops), x))
    PROVE  r \in Stack(d) /\ AreCalls(r) /\ Len(r) = Len(ops) /\ Last(Last(r)) = x
<1>1. PICK e : e = Last(ops)
  OBVIOUS
<1>2. /\ e \in Seq(NodeOf(Nested[d])) /\ Len(e) \in Nat \ {0} /\ IsPart(e)
      /\ e[Len(e)].type # "Undefined"
  BY <1>1, CallsAre DEF AreCalls
<1>3. PICK f : f = Append(e, x)
  OBVIOUS
<1>4. PICK k : k = Len(e)
  OBVIOUS
<1>5. /\ f \in Seq(NodeOf(Nested[d])) /\ Len(f) = k + 1 /\ f[k + 1] = x
      /\ \A i \in 1 .. k : f[i] = e[i]
  BY <1>2, <1>3, <1>4, AppendProperties
<1>6. IsPart(f) /\ Last(f) = x
  <2>1. \A i \in 1 .. k : i = k \/ i \in 1 .. k - 1
    BY <1>2, <1>4
  <2>2. \A i \in 1 .. k : f[i].type # "Undefined"
    BY <1>2, <1>4, <1>5, <2>1 DEF IsPart
  <2>3. Len(f) > 0 /\ Len(f) - 1 = k
    BY <1>2, <1>4, <1>5
  <2> QED BY <1>5, <2>2, <2>3 DEF IsPart, Last
<1>7. r \in Stack(d) /\ AreCalls(r) /\ Len(r) = Len(ops) /\ Last(r) = f
  <2>1. r = Replaced(ops, f)
    BY <1>1, <1>3
  <2> QED BY <1>5, <1>6, <2>1, CallReplaced
<1> QED BY <1>6, <1>7

\* A bracket that is opened.
LEMMA CallAdded ==
    ASSUME NEW d \in 0 .. MaxText, NEW ops \in Stack(d), AreCalls(ops),
           Last(Last(ops)).type = "Identifier",
           NEW r, r = Append(ops, <<Unparsed>>)
    PROVE  /\ r \in Stack(d) /\ AreCalls(r) /\ Len(r) = Len(ops) + 1
           /\ Last(Last(r)) = Unparsed /\ Len(Last(r)) = 1
<1>1. PICK k \in Nat \ {0} : k = Len(ops)
  BY CallsAre
<1>2. Nested[d + 1] = Seq(NodeOf(Nested[d])) /\ Unparsed \in NodeOf(Nested[d])
  BY NestedIs, UnparsedIsNode
<1>3. PICK e : e = <<Unparsed>>
  OBVIOUS
<1>4. e \in Seq(NodeOf(Nested[d])) /\ Len(e) = 1 /\ e[1] = Unparsed
  BY <1>2, <1>3
<1>5. IsPart(e) /\ Last(e) = Unparsed
  BY <1>4 DEF IsPart, Last
<1>6. /\ r \in Seq(Nested[d + 1]) /\ Len(r) = k + 1 /\ r[k + 1] = e
      /\ \A j \in 1 .. k : r[j] = ops[j]
  BY <1>1, <1>2, <1>3, <1>4, AppendProperties DEF Stack
<1>7. Last(r) = e
  BY <1>6 DEF Last
<1>8. AreCalls(r)
  <2>1. Len(r) > 0 /\ Len(r) - 1 = k /\ \A j \in 1 .. k + 1 : j \in 1 .. k \/ j = k + 1
    BY <1>1, <1>6
  <2>2. \A j \in 1 .. k : j = k \/ j \in 1 .. k - 1
    BY <1>1
  <2>3. Last(ops[k]).type = "Identifier"
    BY <1>1, CallsAre
  <2>4. \A j \in 1 .. k : Last(r[j]).type = "Identifier" /\ IsPart(r[j])
    BY <1>1, <1>6, <2>2, <2>3 DEF AreCalls
  <2> QED BY <1>5, <1>6, <2>1, <2>4 DEF AreCalls
<1> QED BY <1>1, <1>4, <1>5, <1>6, <1>7, <1>8 DEF Stack

\* A bracket that is closed.
LEMMA CallClosed ==
    ASSUME NEW d \in 0 .. MaxText - 1, NEW ops \in Stack(d), AreCalls(ops), Len(ops) > 1,
           NEW r, r = Closed(ops)
    PROVE  /\ r \in Stack(d + 1) /\ AreCalls(r) /\ Len(r) = Len(ops) - 1
           /\ Last(Last(r)).type = "Identifier"
<1>0. MaxText \in Nat /\ d \in 0 .. MaxText /\ d + 1 \in 0 .. MaxText
  BY ExpressionAssumption
<1>1. PICK m \in Nat : m = Len(ops) /\ m > 1
  BY <1>0, CallsAre
<1>2. m - 1 \in 1 .. m /\ m - 1 \in 1 .. m - 1 /\ m \in 1 .. m
  BY <1>1
<1>3. PICK outer : outer = ops[m - 1]
  OBVIOUS
<1>4. /\ outer \in Seq(NodeOf(Nested[d])) /\ Len(outer) \in Nat \ {0} /\ Len(outer) > 0
      /\ IsPart(outer) /\ Last(outer).type = "Identifier"
  BY <1>0, <1>1, <1>2, <1>3, CallsAre DEF AreCalls
<1>5. PICK x, f : x = [Last(outer) EXCEPT !.accessor = ops[m]] /\ f = Replaced(outer, x)
  OBVIOUS
<1>6. /\ r \in Stack(d + 1) /\ Len(r) = m - 1
      /\ \A j \in 1 .. m - 2 : r[j] = ops[j]
      /\ r[m - 1] = f
  BY <1>1, <1>3, <1>4, <1>5, ClosedIs DEF WithAccessor
<1>7. x.type = "Identifier"
  <2>1. Last(outer) \in NodeOf(Nested[d])
    BY <1>4, FrontIs
  <2> QED BY <1>4, <1>5, <2>1 DEF NodeOf
<1>8. PICK T : T = NodeOf(Nested[d]) \cup {x}
  OBVIOUS
<1>9. /\ Len(f) = Len(outer) /\ Last(f) = x
      /\ \A i \in 1 .. Len(outer) - 1 : f[i] = outer[i]
  <2>1. outer \in Seq(T) /\ x \in T
    <3>1. NodeOf(Nested[d]) \subseteq T /\ x \in T
      BY <1>8
    <3> QED BY <1>4, <3>1, SeqMonotonic
  <2>2. Len(outer) > 0 /\ f = Replaced(outer, x)
    BY <1>4, <1>5
  <2>3. IsReplaced(f, outer, x)
    BY ONLY <2>1, <2>2, ReplaceIs
  <2> QED BY <2>3 DEF IsReplaced
<1>10. IsPart(f)
  BY <1>4, <1>9 DEF IsPart
<1>11. Last(r) = f
  BY <1>6 DEF Last
<1>12. AreCalls(r)
  <2>1. Len(r) > 0 /\ Len(r) - 1 = m - 2 /\ \A j \in 1 .. m - 1 : j \in 1 .. m - 2 \/ j = m - 1
    BY <1>1, <1>6
  <2>2. \A j \in 1 .. m - 2 : j \in 1 .. m /\ j \in 1 .. m - 1
    BY <1>1
  <2>3. \A j \in 1 .. m - 2 : IsPart(r[j]) /\ Last(r[j]).type = "Identifier"
    BY <1>1, <1>6, <2>2 DEF AreCalls
  <2> QED BY <1>6, <1>10, <2>1, <2>3 DEF AreCalls
<1> QED BY <1>1, <1>6, <1>7, <1>9, <1>11, <1>12

\* All brackets that are open when the text ends are closed.
LEMMA CallsClosed ==
    ASSUME NEW d \in 0 .. MaxText, NEW ops, ops = open, ops \in Stack(d), AreCalls(ops),
           d + Len(ops) - 1 <= MaxText
    PROVE  AllClosed[1] \in Expressions /\ AllClosed[1] # <<>>
<1>0. MaxText \in Nat
  BY ExpressionAssumption
<1>1. PICK m \in Nat \ {0} : m = Len(ops)
  BY CallsAre
<1>2. PICK h : /\ h[0] = ops /\ AllClosed = h[m - 1]
               /\ \A i \in 1 .. m - 1 : h[i] = Closed(h[i - 1])
  BY <1>1, AllClosedIs
<1> DEFINE Good(k) == h[k] \in Stack(d + k) /\ AreCalls(h[k]) /\ Len(h[k]) = m - k
<1> DEFINE S == {k \in 0 .. m - 1 : ~Good(k)}
<1>3. S = {}
  <2> SUFFICES ASSUME S # {} PROVE FALSE
    OBVIOUS
  <2>1. PICK i \in S : \A k \in S : i <= k
    <3>1. S \subseteq Nat
      BY <1>1
    <3> HIDE DEF S
    <3> QED BY <3>1, LeastNumber
  <2>2. i \in 0 .. m - 1 /\ ~Good(i)
    BY <2>1
  <2>3. i # 0
    <3>1. Good(0)
      BY <1>1, <1>2
    <3> HIDE DEF Good
    <3> QED BY <2>2, <3>1
  <2>4. PICK k \in 0 .. m - 1 : i = k + 1 /\ Good(k)
    <3>1. i - 1 \in 0 .. m - 1 /\ i = i - 1 + 1 /\ ~ (i <= i - 1)
      BY <1>1, <2>2, <2>3
    <3>2. i - 1 \notin S
      BY <2>1, <3>1
    <3>3. Good(i - 1)
      BY <3>1, <3>2
    <3> HIDE DEF S, Good
    <3> QED BY <3>1, <3>3
  <2>5. PICK o, D : o = h[k] /\ D = d + k
    OBVIOUS
  <2>6. o \in Stack(D) /\ AreCalls(o) /\ Len(o) = m - k /\ h[i] = Closed(o)
    <3>1. i \in 1 .. m - 1 /\ i - 1 = k
      BY <1>1, <2>2, <2>3, <2>4
    <3> QED BY <1>2, <2>4, <2>5, <3>1
  <2>7. D \in 0 .. MaxText - 1 /\ Len(o) > 1
    BY <1>0, <1>1, <2>2, <2>4, <2>5, <2>6
  <2>8. h[i] \in Stack(D + 1) /\ AreCalls(h[i]) /\ Len(h[i]) = Len(o) - 1
    BY <2>6, <2>7, CallClosed
  <2>9. D + 1 = d + i /\ Len(o) - 1 = m - i
    BY <1>1, <2>4, <2>5, <2>6
  <2> QED BY <2>2, <2>8, <2>9
<1>4. Good(m - 1)
  <2>1. m - 1 \in 0 .. m - 1
    BY <1>1
  <2> QED BY <1>3, <2>1
<1>5. PICK D \in 0 .. MaxText : D = d + (m - 1)
  BY <1>0, <1>1
<1>6. PICK a : a = AllClosed
  OBVIOUS
<1>7. a \in Stack(D) /\ AreCalls(a) /\ Len(a) = 1
  BY <1>1, <1>2, <1>4, <1>5, <1>6
<1>8. a[1] \in Seq(NodeOf(Nested[D])) /\ Len(a[1]) \in Nat \ {0}
  BY <1>7, CallsAre
<1>9. a[1] \in Nested[D + 1] /\ a[1] # <<>>
  BY <1>8, NestedIs
<1>10. Nested[D + 1] \subseteq Expressions
  BY NestedAre DEF Expressions
<1> QED BY <1>6, <1>9, <1>10

-----------------------------------------------------------------------------
(* Reading a text *)

Closings(t, n) == Cardinality(OfKind(t, n, "]"))

LEMMA ClosingsAre ==
    ASSUME NEW t, NEW n \in Nat, n <= MaxText, DepthOf(t, n) >= -1
    PROVE  /\ DepthOf(t, n) \in Int /\ Closings(t, n) \in 0 .. MaxText
           /\ Closings(t, n) + DepthOf(t, n) <= MaxText
<1>0. MaxText \in Nat
  BY ExpressionAssumption
<1>1. ASSUME NEW k PROVE Cardinality(OfKind(t, n, k)) \in Nat /\ Cardinality(OfKind(t, n, k)) <= n
  <2>1. IsFiniteSet(1 .. n) /\ OfKind(t, n, k) \subseteq 1 .. n
    BY FS_Interval DEF OfKind
  <2>3. Cardinality(1 .. n) = n
    <3>1. Cardinality(1 .. n) = IF 1 > n THEN 0 ELSE n - 1 + 1
      BY FS_Interval
    <3> QED BY <3>1
  <2>2. Cardinality(OfKind(t, n, k)) <= Cardinality(1 .. n)
    BY <2>1, FS_Subset
  <2> QED BY <2>2, <2>3, CountOfKind
<1>2. PICK a, b : a = Cardinality(OfKind(t, n, "[")) /\ b = Cardinality(OfKind(t, n, "]"))
  OBVIOUS
<1>3. a \in Nat /\ b \in Nat /\ a <= n /\ b <= n
  BY <1>1, <1>2
<1>4. Closings(t, n) = b /\ DepthOf(t, n) = a - b
  BY <1>2 DEF DepthOf, Closings
<1> QED BY <1>0, <1>3, <1>4

\* All of a text fits, up to a token that ends it.
HasFit(t, n, d) ==
    /\ IsText(t, n) /\ \A i \in 1 .. n : Fits(t, i)
    /\ DepthOf(t, n) = d

\* What the type of the current node tells of the text.
TypeAfter(kind) ==
    IF kind \in Operand THEN kind ELSE IF kind = "]" THEN "Identifier" ELSE "Undefined"

IsLast(t, n, kind) ==
    /\ LastOf(t, n) = kind
    /\ kind = "." <=> n > 0 /\ t[n].kind = "."

CallsFit(ops, d, kind) ==
    /\ AreCalls(ops) /\ Len(ops) = d + 1
    /\ kind \in Operand \cup {"start", ".", "[", "]"}
    /\ Last(Last(ops)).type = TypeAfter(kind)
    /\ kind \in {"start", "["} => Len(Last(ops)) = 1
    /\ kind = "start" => Len(ops) = 1
    /\ kind = "[" => Len(ops) > 1

\* While a text is read.
Reading(t, n, ops) ==
    /\ n <= MaxText /\ ops \in Stack(Closings(t, n))
    /\ \E d \in Nat : HasFit(t, n, d) /\ \E kind : IsLast(t, n, kind) /\ CallsFit(ops, d, kind)

\* After a bracket that closes nothing.
ReadTooFar(t, n, ops) ==
    /\ n <= MaxText /\ ops \in Stack(Closings(t, n))
    /\ HasFit(t, n, -1) /\ IsLast(t, n, "]")
    /\ AreCalls(ops) /\ Len(ops) = 1

LEMMA TokenKinds ==
    ASSUME NEW c \in Token
    PROVE  /\ c.kind \in Operand \cup {" ", ".", "[", "]", "other", "end"}
           /\ c.kind \in Operand => c \in OperandToken
<1>1. \A token \in OperandToken : token.kind \in Operand
  BY ExpressionAssumption DEF Operand
<1>2. \A k : Mark(k).kind = k
  BY DEF Mark
<1> QED BY <1>1, <1>2 DEF Token, Operand

LEMMA FirstToken ==
    Reading(<<>>, 0, <<<<Unparsed>>>>)
<1>0. MaxText \in Nat /\ 0 \in 0 .. MaxText
  BY ExpressionAssumption
<1>1. PICK t : t = <<>>
  OBVIOUS
<1>2. \A k : OfKind(t, 0, k) = {} /\ Words(t, 0) = {}
  BY DEF OfKind, Words
<1>3. Closings(t, 0) = 0 /\ DepthOf(t, 0) = 0 /\ LastOf(t, 0) = "start"
  <2>1. Cardinality({}) = 0
    BY FS_EmptySet
  <2> QED BY <1>2, <2>1 DEF Closings, DepthOf, LastOf
<1>4. HasFit(t, 0, 0)
  <2>1. IsText(t, 0)
    BY <1>1 DEF IsText
  <2> QED BY <1>3, <2>1 DEF HasFit
<1>5. IsLast(t, 0, "start")
  BY <1>3 DEF IsLast
<1>6. PICK e, ops : e = <<Unparsed>> /\ ops = <<e>>
  OBVIOUS
<1>7. e \in Seq(NodeOf(Nested[0])) /\ Len(e) = 1 /\ e[1] = Unparsed
  BY <1>0, <1>6, UnparsedIsNode
<1>8. e \in Nested[1]
  <2>1. Nested[0 + 1] = Seq(NodeOf(Nested[0]))
    BY <1>0, NestedIs
  <2> QED BY <1>7, <2>1
<1>9. ops \in Seq(Nested[1]) /\ Len(ops) = 1 /\ ops[1] = e
  BY <1>6, <1>8
<1>10. ops \in Stack(0)
  BY <1>9 DEF Stack
<1>11. Last(ops) = e /\ Last(e) = Unparsed /\ IsPart(e)
  BY <1>7, <1>9 DEF Last, IsPart
<1>12. CallsFit(ops, 0, "start")
  <2>1. AreCalls(ops)
    BY <1>9, <1>11 DEF AreCalls
  <2>2. TypeAfter("start") = "Undefined" /\ Unparsed.type = "Undefined"
    BY DEF TypeAfter, Unparsed, Operand
  <2> QED BY <1>7, <1>9, <1>11, <2>1, <2>2 DEF CallsFit
<1>13. Reading(t, 0, ops)
  BY <1>0, <1>3, <1>4, <1>5, <1>10, <1>12 DEF Reading
<1> QED BY <1>1, <1>6, <1>13

\* A token that fits makes the text longer.
LEMMA FitGrows ==
    ASSUME NEW t, NEW n \in Nat, NEW d \in Int, d >= -1, HasFit(t, n, d),
           NEW c, NEW u, Grows(u, t, n, c), FitsAfter(t, n, c)
    PROVE  /\ HasFit(u, n + 1, IF c.kind = "[" THEN d + 1 ELSE IF c.kind = "]" THEN d - 1 ELSE d)
           /\ Closings(u, n + 1) = Closings(t, n) + (IF c.kind = "]" THEN 1 ELSE 0)
<1>1. IsText(u, n + 1) /\ DepthOf(t, n) = d
  BY DEF Grows, HasFit
<1>2. \A i \in 1 .. n : Fits(u, i)
  BY FitsStill DEF HasFit
<1>3. Fits(u, n + 1)
  BY <1>1, FitsNext
<1>4. \A i \in 1 .. n + 1 : i \in 1 .. n \/ i = n + 1
  OBVIOUS
<1>5. DepthOf(u, n + 1) = IF c.kind = "[" THEN d + 1 ELSE IF c.kind = "]" THEN d - 1 ELSE d
  <2>1. /\ c.kind = "[" => DepthOf(u, n + 1) = DepthOf(t, n) + 1
        /\ c.kind = "]" => DepthOf(u, n + 1) = DepthOf(t, n) - 1
        /\ c.kind \notin {"[", "]"} => DepthOf(u, n + 1) = DepthOf(t, n)
    BY DepthGrows
  <2> QED BY <1>1, <2>1
<1>6. \A i \in 1 .. n + 1 : Fits(u, i)
  BY <1>2, <1>3, <1>4
<1>7. Closings(u, n + 1) = Closings(t, n) + (IF c.kind = "]" THEN 1 ELSE 0)
  BY CountGrows DEF Closings
<1> QED BY <1>1, <1>5, <1>6, <1>7 DEF HasFit

\* A token that does not fit cannot be made up for.
LEMMA FitEnds ==
    ASSUME NEW t, NEW n \in Nat, NEW d \in Int, d >= -1, HasFit(t, n, d),
           NEW c, NEW u, Grows(u, t, n, c), ~FitsAfter(t, n, c)
    PROVE  ~ \A i \in 1 .. n + 1 : Fits(u, i)
<1>1. ~Fits(u, n + 1)
  BY FitsNext DEF HasFit
<1> QED BY <1>1

IsSpace(c) == c.kind = " "

LEMMA LastIs ==
    ASSUME NEW t, NEW n \in Nat, NEW kind, IsLast(t, n, kind),
           NEW c, ~IsSpace(c), NEW u, Grows(u, t, n, c)
    PROVE  IsLast(u, n + 1, c.kind)
<1>1. PICK m \in Nat \ {0} : m = n + 1
  OBVIOUS
<1>2. LastOf(u, m) = c.kind
  BY <1>1, LastGrows DEF IsSpace
<1>3. u[m] = c
  BY <1>1 DEF Grows
<1>4. IsLast(u, m, c.kind)
  BY <1>2, <1>3 DEF IsLast
<1> QED BY <1>1, <1>4

LEMMA LastStays ==
    ASSUME NEW t, NEW n \in Nat, NEW kind, IsLast(t, n, kind), kind # ".",
           NEW c, IsSpace(c), NEW u, Grows(u, t, n, c)
    PROVE  IsLast(u, n + 1, kind)
<1>1. PICK m : m = n + 1
  OBVIOUS
<1>2. LastOf(u, m) = kind
  <2>1. LastOf(u, m) = LastOf(t, n)
    <3>1. LastOf(u, n + 1) = IF c.kind = " " THEN LastOf(t, n) ELSE c.kind
      BY LastGrows
    <3>2. LastOf(u, n + 1) = LastOf(t, n)
      BY ONLY <3>1, IsSpace(c) DEF IsSpace
    <3> QED BY <1>1, <3>2
  <2>2. LastOf(t, n) = kind
    BY DEF IsLast
  <2> QED BY <2>1, <2>2
<1>3. u[m] = c /\ c.kind # "."
  BY <1>1 DEF Grows, IsSpace
<1>4. IsLast(u, m, kind)
  BY <1>2, <1>3 DEF IsLast
<1> QED BY <1>1, <1>4

\* ReadNext goes on at the tokens that fit.
LEMMA FitsAtType ==
    ASSUME NEW t, NEW n \in Nat, NEW d \in Nat, NEW kind, NEW ops, HasFit(t, n, d),
           IsLast(t, n, kind), CallsFit(ops, d, kind), NEW c \in Token
    PROVE  FitsAfter(t, n, c) <=>
              /\ kind = "." => c.kind = "Identifier"
              /\ c.kind # "other"
              /\ c.kind = "." => Last(Last(ops)).type = "Identifier"
              /\ c.kind = "[" => Last(Last(ops)).type \in {"String", "Identifier"}
              /\ c.kind = "]" => Last(Last(ops)).type # "Undefined"
              /\ c.kind \in Operand => Last(Last(ops)).type = "Undefined"
              /\ c.kind = "end" => kind # "["
<1>1. c.kind \in Operand \cup {" ", ".", "[", "]", "other", "end"}
  BY TokenKinds
<1>2. /\ kind \in Operand \cup {"start", ".", "[", "]"} /\ LastOf(t, n) = kind /\ DepthOf(t, n) = d
      /\ Last(Last(ops)).type = TypeAfter(kind)
  BY DEF CallsFit, IsLast, HasFit
<1>3. (n > 0 => t[n].kind # ".") <=> kind # "."
  BY DEF IsLast
<1>4. /\ d # -1
      /\ d - (IF c.kind = "]" THEN 1 ELSE 0) >= -1
  OBVIOUS
<1>5. FitsAfter(t, n, c) <=> IF c.kind = " " THEN kind # "." ELSE c.kind \in MayFollow(kind)
  BY <1>2, <1>3, <1>4 DEF FitsAfter
<1>6. PICK k, type : k = c.kind /\ type = Last(Last(ops)).type
  OBVIOUS
<1>7. (IF k = " " THEN kind # "." ELSE k \in MayFollow(kind)) <=>
              /\ kind = "." => k = "Identifier"
              /\ k # "other"
              /\ k = "." => type = "Identifier"
              /\ k = "[" => type \in {"String", "Identifier"}
              /\ k = "]" => type # "Undefined"
              /\ k \in Operand => type = "Undefined"
              /\ k = "end" => kind # "["
  <2>1. type = TypeAfter(kind)
    BY <1>2, <1>6
  <2>2. k \in Operand \cup {" ", ".", "[", "]", "other", "end"}
    BY <1>1, <1>6
  <2>3. CASE kind = "start"
    BY ONLY <2>1, <2>2, <2>3 DEF MayFollow, TypeAfter, Operand
  <2>4. CASE kind = "."
    BY ONLY <2>1, <2>2, <2>4 DEF MayFollow, TypeAfter, Operand
  <2>5. CASE kind = "["
    BY ONLY <2>1, <2>2, <2>5 DEF MayFollow, TypeAfter, Operand
  <2>6. CASE kind = "]"
    BY ONLY <2>1, <2>2, <2>6 DEF MayFollow, TypeAfter, Operand
  <2>7. CASE kind = "Identifier"
    BY ONLY <2>1, <2>2, <2>7 DEF MayFollow, TypeAfter, Operand
  <2>8. CASE kind = "Number"
    BY ONLY <2>1, <2>2, <2>8 DEF MayFollow, TypeAfter, Operand
  <2>9. CASE kind = "String"
    BY ONLY <2>1, <2>2, <2>9 DEF MayFollow, TypeAfter, Operand
  <2> QED BY <1>2, <2>3, <2>4, <2>5, <2>6, <2>7, <2>8, <2>9 DEF Operand
<1> QED BY <1>5, <1>6, <1>7

LEMMA ReadingIs ==
    ASSUME NEW t, NEW n \in Nat, NEW ops, Reading(t, n, ops)
    PROVE  \E d, kind :
              /\ d \in Nat /\ HasFit(t, n, d) /\ IsLast(t, n, kind) /\ CallsFit(ops, d, kind) /\ AreCalls(ops)
              /\ Closings(t, n) \in 0 .. MaxText /\ Closings(t, n) + d <= MaxText
              /\ ops \in Stack(Closings(t, n))
<1>1. PICK d, kind : d \in Nat /\ HasFit(t, n, d) /\ IsLast(t, n, kind) /\ CallsFit(ops, d, kind)
  BY DEF Reading
<1>2. DepthOf(t, n) = d /\ n <= MaxText
  BY <1>1 DEF HasFit, Reading
<1>3. Closings(t, n) \in 0 .. MaxText /\ Closings(t, n) + d <= MaxText
  BY <1>1, <1>2, ClosingsAre
<1> QED BY <1>1, <1>3 DEF Reading, CallsFit

LEMMA ReadingGrows ==
    ASSUME NEW t, NEW n \in Nat, n < MaxText, NEW d \in Nat, HasFit(t, n, d), NEW kind, IsLast(t, n, kind),
           NEW c, ~IsSpace(c), NEW u, Grows(u, t, n, c), FitsAfter(t, n, c),
           NEW e \in Nat, e = (IF c.kind = "[" THEN d + 1 ELSE IF c.kind = "]" THEN d - 1 ELSE d),
           NEW r \in Stack(Closings(t, n) + (IF c.kind = "]" THEN 1 ELSE 0)), CallsFit(r, e, c.kind)
    PROVE  Reading(u, n + 1, r)
<1>1. HasFit(u, n + 1, e) /\ Closings(u, n + 1) = Closings(t, n) + (IF c.kind = "]" THEN 1 ELSE 0)
  BY FitGrows
<1>2. IsLast(u, n + 1, c.kind)
  BY LastIs
<1>3. n + 1 <= MaxText
  BY ExpressionAssumption
<1> QED BY <1>1, <1>2, <1>3 DEF Reading

LEMMA OperandRead ==
    ASSUME NEW t, NEW n \in Nat, n < MaxText, NEW ops, Reading(t, n, ops),
           NEW c \in Token, NEW u, Grows(u, t, n, c), FitsAfter(t, n, c), c.kind \in Operand,
           NEW x, x = [Last(Last(ops)) EXCEPT !.type = c.kind, !.value = c.value],
           NEW r, r = Replaced(ops, Replaced(Last(ops), x))
    PROVE  Reading(u, n + 1, r)
<1>1. PICK d, kind :
              /\ d \in Nat /\ HasFit(t, n, d) /\ IsLast(t, n, kind) /\ CallsFit(ops, d, kind) /\ AreCalls(ops)
              /\ Closings(t, n) \in 0 .. MaxText
              /\ ops \in Stack(Closings(t, n))
  BY ReadingIs
<1>2. PICK D \in 0 .. MaxText : D = Closings(t, n)
  BY <1>1
<1>3. Last(Last(ops)) \in NodeOf(Nested[D])
  BY <1>1, <1>2, CallsAre
<1>4. x \in NodeOf(Nested[D]) /\ x.type = c.kind
  <2>1. c \in OperandToken
    BY TokenKinds
  <2> QED BY <1>3, <2>1 DEF NodeOf
<1>5. /\ r \in Stack(D) /\ AreCalls(r) /\ Len(r) = Len(ops) /\ Last(Last(r)) = x
  BY <1>1, <1>2, <1>4, NodeReplaced
<1>6. CallsFit(r, d, c.kind)
  <2>1. Len(r) = d + 1
    BY <1>1, <1>5 DEF CallsFit
  <2>2. TypeAfter(c.kind) = c.kind
    BY DEF TypeAfter
  <2>3. c.kind \notin {"start", "["}
    BY DEF Operand
  <2> QED BY <1>4, <1>5, <2>1, <2>2, <2>3 DEF CallsFit
<1>7. ~IsSpace(c) /\ c.kind \notin {"[", "]"}
  BY DEF IsSpace, Operand
<1>8. r \in Stack(Closings(t, n) + 0)
  BY <1>2, <1>5
<1> QED BY <1>1, <1>6, <1>7, <1>8, ReadingGrows

LEMMA DotRead ==
    ASSUME NEW t, NEW n \in Nat, n < MaxText, NEW ops, Reading(t, n, ops),
           NEW c \in Token, NEW u, Grows(u, t, n, c), FitsAfter(t, n, c), c.kind = ".",
           Last(Last(ops)).type = "Identifier",
           NEW r, r = Replaced(ops, Append(Last(ops), Unparsed))
    PROVE  Reading(u, n + 1, r)
<1>1. PICK d, kind :
              /\ d \in Nat /\ HasFit(t, n, d) /\ IsLast(t, n, kind) /\ CallsFit(ops, d, kind) /\ AreCalls(ops)
              /\ Closings(t, n) \in 0 .. MaxText
              /\ ops \in Stack(Closings(t, n))
  BY ReadingIs
<1>2. PICK D \in 0 .. MaxText : D = Closings(t, n)
  BY <1>1
<1>3. Unparsed \in NodeOf(Nested[D]) /\ Last(Last(ops)).type # "Undefined"
  BY UnparsedIsNode
<1>5. /\ r \in Stack(D) /\ AreCalls(r) /\ Len(r) = Len(ops) /\ Last(Last(r)) = Unparsed
  BY <1>1, <1>2, <1>3, NodeAdded
<1>6. CallsFit(r, d, c.kind)
  <2>1. Len(r) = d + 1
    BY <1>1, <1>5 DEF CallsFit
  <2>2. TypeAfter(".") = "Undefined" /\ Unparsed.type = "Undefined"
    BY DEF TypeAfter, Operand, Unparsed
  <2> QED BY <1>5, <2>1, <2>2 DEF CallsFit
<1>7. ~IsSpace(c)
  BY DEF IsSpace
<1>8. r \in Stack(Closings(t, n) + 0)
  BY <1>2, <1>5
<1> QED BY <1>1, <1>6, <1>7, <1>8, ReadingGrows

LEMMA OpenRead ==
    ASSUME NEW t, NEW n \in Nat, n < MaxText, NEW ops, Reading(t, n, ops),
           NEW c \in Token, NEW u, Grows(u, t, n, c), FitsAfter(t, n, c), c.kind = "[",
           Last(Last(ops)).type # "Undefined",
           NEW x, x = [Unparsed EXCEPT !.type = "Identifier"],
           NEW q, q = Replaced(ops, Append(Last(ops), x)), NEW r, r = Append(q, <<Unparsed>>)
    PROVE  Reading(u, n + 1, r)
<1>1. PICK d, kind :
              /\ d \in Nat /\ HasFit(t, n, d) /\ IsLast(t, n, kind) /\ CallsFit(ops, d, kind) /\ AreCalls(ops)
              /\ Closings(t, n) \in 0 .. MaxText
              /\ ops \in Stack(Closings(t, n))
  BY ReadingIs
<1>2. PICK D \in 0 .. MaxText : D = Closings(t, n)
  BY <1>1
<1>3. x \in NodeOf(Nested[D])
  BY UnparsedIsNode
<1>4. /\ q \in Stack(D) /\ AreCalls(q) /\ Len(q) = Len(ops) /\ Last(Last(q)) = x
  BY <1>1, <1>2, <1>3, NodeAdded
<1>5. /\ r \in Stack(D) /\ AreCalls(r) /\ Len(r) = Len(q) + 1
      /\ Last(Last(r)) = Unparsed /\ Len(Last(r)) = 1
  <2>1. x.type = "Identifier"
    BY DEF Unparsed
  <2> QED BY <1>4, <2>1, CallAdded
<1>6. CallsFit(r, d + 1, c.kind)
  <2>1. Len(r) = d + 1 + 1 /\ Len(r) > 1
    BY <1>1, <1>4, <1>5 DEF CallsFit
  <2>2. TypeAfter("[") = "Undefined" /\ Unparsed.type = "Undefined"
    BY DEF TypeAfter, Operand, Unparsed
  <2> QED BY <1>5, <2>1, <2>2 DEF CallsFit
<1>7. ~IsSpace(c)
  BY DEF IsSpace
<1>8. r \in Stack(Closings(t, n) + 0)
  BY <1>2, <1>5
<1>9. d + 1 \in Nat
  BY <1>1
<1> QED BY <1>1, <1>6, <1>7, <1>8, <1>9, ReadingGrows

LEMMA CloseRead ==
    ASSUME NEW t, NEW n \in Nat, n < MaxText, NEW ops, Reading(t, n, ops),
           NEW c \in Token, NEW u, Grows(u, t, n, c), FitsAfter(t, n, c), c.kind = "]",
           Len(ops) > 1, NEW r, r = Closed(ops)
    PROVE  Reading(u, n + 1, r)
<1>0. MaxText \in Nat
  BY ExpressionAssumption
<1>1. PICK d, kind :
              /\ d \in Nat /\ HasFit(t, n, d) /\ IsLast(t, n, kind) /\ CallsFit(ops, d, kind) /\ AreCalls(ops)
              /\ Closings(t, n) \in 0 .. MaxText /\ Closings(t, n) + d <= MaxText
              /\ ops \in Stack(Closings(t, n))
  BY ReadingIs
<1>2. PICK D \in 0 .. MaxText : D = Closings(t, n)
  BY <1>1
<1>3. PICK e : e = d - 1
  OBVIOUS
<1>4. D \in 0 .. MaxText - 1 /\ e \in Nat /\ Len(ops) - 1 = e + 1
  <2>1. Len(ops) = d + 1
    BY <1>1 DEF CallsFit
  <2> QED BY <1>0, <1>1, <1>2, <1>3, <2>1
<1>5. /\ r \in Stack(D + 1) /\ AreCalls(r) /\ Len(r) = Len(ops) - 1
      /\ Last(Last(r)).type = "Identifier"
  BY <1>1, <1>2, <1>4, CallClosed
<1>6. CallsFit(r, e, c.kind)
  <2>1. Len(r) = e + 1
    BY <1>4, <1>5
  <2>2. TypeAfter("]") = "Identifier"
    BY DEF TypeAfter, Operand
  <2> QED BY <1>5, <2>1, <2>2 DEF CallsFit
<1>7. ~IsSpace(c)
  BY DEF IsSpace
<1>8. r \in Stack(Closings(t, n) + 1)
  BY <1>2, <1>5
<1> QED BY <1>1, <1>3, <1>4, <1>6, <1>7, <1>8, ReadingGrows

\* A bracket that closes nothing.
LEMMA CloseReadTooFar ==
    ASSUME NEW t, NEW n \in Nat, n < MaxText, NEW ops, Reading(t, n, ops),
           NEW c \in Token, NEW u, Grows(u, t, n, c), FitsAfter(t, n, c), c.kind = "]",
           ~(Len(ops) > 1)
    PROVE  ReadTooFar(u, n + 1, ops)
<1>0. MaxText \in Nat /\ n + 1 <= MaxText
  BY ExpressionAssumption
<1>1. PICK d, kind :
              /\ d \in Nat /\ HasFit(t, n, d) /\ IsLast(t, n, kind) /\ CallsFit(ops, d, kind) /\ AreCalls(ops)
              /\ Closings(t, n) \in 0 .. MaxText /\ Closings(t, n) + d <= MaxText
              /\ ops \in Stack(Closings(t, n))
  BY ReadingIs
<1>2. Len(ops) = d + 1 /\ d = 0 /\ Len(ops) = 1
  <2>1. Len(ops) = d + 1
    BY <1>1 DEF CallsFit
  <2> QED BY <1>1, <2>1
<1>3. HasFit(u, n + 1, -1) /\ Closings(u, n + 1) = Closings(t, n) + 1
  <2>1. HasFit(u, n + 1, d - 1) /\ Closings(u, n + 1) = Closings(t, n) + 1
    BY <1>1, FitGrows
  <2>2. d - 1 = -1
    BY <1>2
  <2> QED BY <2>1, <2>2
<1>4. Closings(t, n) \in 0 .. MaxText - 1
  <2>1. DepthOf(u, n + 1) = -1
    BY <1>3 DEF HasFit
  <2>2. PICK m \in Nat : m = n + 1 /\ m <= MaxText
    BY <1>0
  <2>3. Closings(u, m) \in 0 .. MaxText
    BY <2>1, <2>2, ClosingsAre
  <2>4. PICK k : k = Closings(t, n)
    OBVIOUS
  <2>5. k + 1 \in 0 .. MaxText /\ k \in 0 .. MaxText
    BY <1>1, <1>3, <2>2, <2>3, <2>4
  <2> QED BY <1>0, <2>4, <2>5
<1>5. ops \in Stack(Closings(u, n + 1))
  BY <1>1, <1>3, <1>4, StackGrows
<1>6. IsLast(u, n + 1, "]")
  <2>1. ~IsSpace(c)
    BY DEF IsSpace
  <2> QED BY <1>1, <2>1, LastIs
<1> QED BY <1>0, <1>1, <1>2, <1>3, <1>5, <1>6 DEF ReadTooFar

LEMMA SpaceRead ==
    ASSUME NEW t, NEW n \in Nat, n < MaxText, NEW ops, Reading(t, n, ops),
           NEW c \in Token, NEW u, Grows(u, t, n, c), FitsAfter(t, n, c), IsSpace(c)
    PROVE  Reading(u, n + 1, ops)
<1>0. n + 1 <= MaxText
  BY ExpressionAssumption
<1>1. PICK d, kind :
              /\ d \in Nat /\ HasFit(t, n, d) /\ IsLast(t, n, kind) /\ CallsFit(ops, d, kind) /\ AreCalls(ops)
              /\ ops \in Stack(Closings(t, n))
  BY ReadingIs
<1>2. c.kind \notin {"[", "]", "Identifier"}
  BY DEF IsSpace
<1>3. kind # "."
  <2>1. kind = "." => c.kind = "Identifier"
    BY <1>1, FitsAtType
  <2> QED BY <1>2, <2>1
<1>4. HasFit(u, n + 1, d) /\ Closings(u, n + 1) = Closings(t, n)
  <2>1. HasFit(u, n + 1, d) /\ Closings(u, n + 1) = Closings(t, n) + 0
    BY <1>1, <1>2, FitGrows
  <2>2. Closings(t, n) \in Nat
    BY CountOfKind DEF Closings
  <2> QED BY <2>1, <2>2
<1>5. IsLast(u, n + 1, kind)
  BY <1>1, <1>3, LastStays
<1> QED BY <1>0, <1>1, <1>4, <1>5 DEF Reading

-----------------------------------------------------------------------------
(* One more token *)

LEMMA AfterDotIs ==
    ASSUME NEW t, t = text, NEW n, IsText(t, n), NEW kind, IsLast(t, n, kind)
    PROVE  AfterDot <=> kind = "."
<1>1. n \in Nat /\ t \in Seq(Token) /\ Len(t) = n
  BY DEF IsText
<1>2. t # <<>> <=> n > 0
  BY <1>1, EmptySeq
<1>3. Last(t) = t[n]
  BY <1>1 DEF Last
<1> QED BY <1>2, <1>3 DEF AfterDot, IsLast

\* The end of a text that fits.
LEMMA EndRead ==
    ASSUME NEW ops, ops = open, NEW d \in 0 .. MaxText, ops \in Stack(d), AreCalls(ops),
           d + Len(ops) - 1 <= MaxText, ~(Len(ops) > 1 /\ Last(ops)[1].type = "Undefined"), ReadEnd
    PROVE  phase' = "evaluate" /\ root' \in Expressions /\ root' # <<>>
<1>1. AllClosed[1] \in Expressions /\ AllClosed[1] # <<>>
  BY CallsClosed
<1> QED BY <1>1 DEF ReadEnd

\* What ReadNext does with a token: it throws, or the token fits.
Rejects(t, n, c)   == phase' = "reply" /\ root' = root /\ ~FitsAfter(t, n, c)
GoesOn(t, n, c, u) == phase' = "parse" /\ root' = root /\ FitsAfter(t, n, c) /\ Reading(u, n + 1, open')
GoesTooFar(t, n, c, u) ==
    phase' = "closed" /\ root' = root /\ FitsAfter(t, n, c) /\ ReadTooFar(u, n + 1, open')
Accepts(t, n, c)   == phase' = "evaluate" /\ root' \in Expressions /\ root' # <<>> /\ FitsAfter(t, n, c)

LEMMA ReadNextIs ==
    ASSUME NEW t, t = text, NEW n \in Nat, NEW ops, ops = open, Reading(t, n, ops),
           NEW c \in Token, c.kind # "end" => n < MaxText, NEW u, Grows(u, t, n, c),
           phase = "parse", ReadNext(c)
    PROVE  Rejects(t, n, c) \/ GoesOn(t, n, c, u) \/ GoesTooFar(t, n, c, u) \/ Accepts(t, n, c)
<1>1. PICK d, kind :
              /\ d \in Nat /\ HasFit(t, n, d) /\ IsLast(t, n, kind) /\ CallsFit(ops, d, kind) /\ AreCalls(ops)
              /\ Closings(t, n) \in 0 .. MaxText /\ Closings(t, n) + d <= MaxText
              /\ ops \in Stack(Closings(t, n))
  BY ReadingIs
<1>2. AfterDot <=> kind = "."
  BY <1>1, AfterDotIs DEF HasFit
<1>3. PICK type : type = Last(Last(ops)).type
  OBVIOUS
<1>4. FitsAfter(t, n, c) <=>
              /\ kind = "." => c.kind = "Identifier"
              /\ c.kind # "other"
              /\ c.kind = "." => type = "Identifier"
              /\ c.kind = "[" => type \in {"String", "Identifier"}
              /\ c.kind = "]" => type # "Undefined"
              /\ c.kind \in Operand => type = "Undefined"
              /\ c.kind = "end" => kind # "["
  BY <1>1, <1>3, FitsAtType
<1>5. Current = Last(Last(ops)) /\ Current.type = type
  BY <1>3 DEF Current
<1>6. ASSUME Throw PROVE phase' = "reply" /\ root' = root
  BY <1>6 DEF Throw
<1>7. CASE AfterDot /\ c.kind # "Identifier"
  <2>1. Throw
    BY <1>7 DEF ReadNext
  <2>2. ~FitsAfter(t, n, c)
    BY <1>2, <1>4, <1>7
  <2> QED BY <1>6, <2>1, <2>2 DEF Rejects
<1>8. CASE ~(AfterDot /\ c.kind # "Identifier") /\ c.kind = "."
  <2>1. ReadDot
    BY <1>8 DEF ReadNext
  <2>2. CASE type # "Identifier"
    <3>1. Throw
      BY <1>5, <2>1, <2>2 DEF ReadDot
    <3>2. ~FitsAfter(t, n, c)
      BY <1>4, <1>8, <2>2
    <3> QED BY <1>6, <3>1, <3>2 DEF Rejects
  <2>3. CASE type = "Identifier"
    <3>1. open' = WithNext(Unparsed) /\ phase' = "parse" /\ root' = root
      BY <1>5, <2>1, <2>3 DEF ReadDot
    <3>2. open' = Replaced(ops, Append(Last(ops), Unparsed))
      BY <3>1 DEF WithNext, Replaced
    <3>3. FitsAfter(t, n, c)
      BY <1>2, <1>4, <1>8, <2>3 DEF Operand
    <3>4. PICK r : r = open'
      OBVIOUS
    <3>5. Reading(u, n + 1, r)
      <4>1. r = Replaced(ops, Append(Last(ops), Unparsed))
        BY <3>2, <3>4
      <4> QED BY <1>3, <1>8, <2>3, <3>3, <4>1, DotRead
    <3> QED BY <3>1, <3>3, <3>4, <3>5 DEF GoesOn
  <2> QED BY <2>2, <2>3
<1>9. CASE ~(AfterDot /\ c.kind # "Identifier") /\ c.kind = "["
  <2>1. ReadOpen
    BY <1>9 DEF ReadNext
  <2>0. IsIndexable(Current) <=> type \in {"String", "Identifier"}
    BY <1>5 DEF IsIndexable
  <2>2. CASE type \notin {"String", "Identifier"}
    <3>1. Throw
      BY <2>0, <2>1, <2>2 DEF ReadOpen
    <3>2. ~FitsAfter(t, n, c)
      BY <1>4, <1>9, <2>2
    <3> QED BY <1>6, <3>1, <3>2 DEF Rejects
  <2>3. CASE type \in {"String", "Identifier"}
    <3>0. PICK x : x = [Unparsed EXCEPT !.type = "Identifier"]
      OBVIOUS
    <3>1. open' = Append(WithNext(x), <<Unparsed>>) /\ phase' = "parse" /\ root' = root
      BY <2>0, <2>1, <2>3, <3>0 DEF ReadOpen
    <3>2. PICK q : q = Replaced(ops, Append(Last(ops), x))
      OBVIOUS
    <3>3. FitsAfter(t, n, c)
      BY <1>2, <1>4, <1>9, <2>3 DEF Operand
    <3>4. PICK r : r = open'
      OBVIOUS
    <3>5. Reading(u, n + 1, r)
      <4>1. WithNext(x) = q
        BY <3>2 DEF WithNext, Replaced
      <4>2. r = Append(q, <<Unparsed>>)
        BY <3>1, <3>4, <4>1
      <4>3. Last(Last(ops)).type # "Undefined"
        BY <1>3, <2>3
      <4> QED BY <1>9, <3>0, <3>2, <3>3, <4>2, <4>3, OpenRead
    <3> QED BY <3>1, <3>3, <3>4, <3>5 DEF GoesOn
  <2> QED BY <2>2, <2>3
<1>10. CASE ~(AfterDot /\ c.kind # "Identifier") /\ c.kind = "]"
  <2>1. ReadClose
    BY <1>10 DEF ReadNext
  <2>2. CASE type = "Undefined"
    <3>1. Throw
      BY <1>5, <2>1, <2>2 DEF ReadClose
    <3>2. ~FitsAfter(t, n, c)
      BY <1>4, <1>10, <2>2
    <3> QED BY <1>6, <3>1, <3>2 DEF Rejects
  <2>3. CASE type # "Undefined"
    <3>1. FitsAfter(t, n, c)
      BY <1>2, <1>4, <1>10, <2>3 DEF Operand
    <3>2. CASE Len(ops) > 1
      <4>1. open' = Closed(ops) /\ phase' = "parse" /\ root' = root
        BY <1>5, <2>1, <2>3, <3>2 DEF ReadClose
      <4>2. PICK r : r = open'
        OBVIOUS
      <4>3. Reading(u, n + 1, r)
        BY <1>10, <3>1, <3>2, <4>1, <4>2, CloseRead
      <4> QED BY <3>1, <4>1, <4>2, <4>3 DEF GoesOn
    <3>3. CASE ~(Len(ops) > 1)
      <4>1. open' = ops /\ phase' = "closed" /\ root' = root
        BY <1>5, <2>1, <2>3, <3>3 DEF ReadClose
      <4>2. ReadTooFar(u, n + 1, ops)
        BY <1>10, <3>1, <3>3, CloseReadTooFar
      <4> QED BY <3>1, <4>1, <4>2 DEF GoesTooFar
    <3> QED BY <3>2, <3>3
  <2> QED BY <2>2, <2>3
<1>11. CASE ~(AfterDot /\ c.kind # "Identifier") /\ c.kind \in Operand
  <2>1. ReadOperand(c)
    BY <1>11 DEF ReadNext, Operand
  <2>2. CASE type # "Undefined"
    <3>1. Throw
      BY <1>5, <2>1, <2>2 DEF ReadOperand
    <3>2. ~FitsAfter(t, n, c)
      BY <1>4, <1>11, <2>2
    <3> QED BY <1>6, <3>1, <3>2 DEF Rejects
  <2>3. CASE type = "Undefined"
    <3>0. PICK x : x = [Last(Last(ops)) EXCEPT !.type = c.kind, !.value = c.value]
      OBVIOUS
    <3>1. open' = WithCurrent(x) /\ phase' = "parse" /\ root' = root
      BY <1>5, <2>1, <2>3, <3>0 DEF ReadOperand
    <3>2. open' = Replaced(ops, Replaced(Last(ops), x))
      BY <3>1 DEF WithCurrent, Replaced
    <3>3. FitsAfter(t, n, c)
      BY <1>2, <1>4, <1>11, <2>3 DEF Operand
    <3>4. PICK r : r = open'
      OBVIOUS
    <3>5. Reading(u, n + 1, r)
      <4>1. r = Replaced(ops, Replaced(Last(ops), x))
        BY <3>2, <3>4
      <4>2. n < MaxText
        BY <1>11 DEF Operand
      <4> QED BY <1>11, <3>0, <3>3, <4>1, <4>2, OperandRead
    <3> QED BY <3>1, <3>3, <3>4, <3>5 DEF GoesOn
  <2> QED BY <2>2, <2>3
<1>12. CASE ~(AfterDot /\ c.kind # "Identifier") /\ IsSpace(c)
  <2>1. ReadSpace
    BY <1>12 DEF ReadNext, IsSpace
  <2>2. c.kind \notin Operand \cup {".", "[", "]", "end", "other"}
    BY <1>12 DEF IsSpace, Operand
  <2>3. open' = ops /\ phase' = "parse" /\ root' = root
    BY <2>1 DEF ReadSpace
  <2>4. FitsAfter(t, n, c)
    BY <1>2, <1>4, <1>12, <2>2 DEF Operand
  <2>5. Reading(u, n + 1, ops)
    BY <1>12, <2>2, <2>4, SpaceRead
  <2> QED BY <2>3, <2>4, <2>5 DEF GoesOn
<1>13. CASE ~(AfterDot /\ c.kind # "Identifier") /\ c.kind = "end"
  <2>1. ReadEnd
    BY <1>13 DEF ReadNext
  <2>2. FitsAfter(t, n, c) <=> kind # "["
    BY <1>2, <1>4, <1>13 DEF Operand
  <2>3. kind # "."
    BY <1>2, <1>13
  <2>4. Len(ops) > 1 /\ Last(ops)[1].type = "Undefined" <=> kind = "["
    <3>1. PICK e : e = Last(ops)
      OBVIOUS
    <3>2. IsPart(e) /\ Len(e) \in Nat \ {0} /\ Last(e) = e[Len(e)] /\ Last(e).type = TypeAfter(kind)
      <4>1. ops[Len(ops)] = e /\ Len(ops) \in Nat \ {0} /\ Len(e) \in Nat \ {0} /\ Last(e) = e[Len(e)]
        BY <1>1, <3>1, CallsAre
      <4>2. IsPart(e)
        BY <1>1, <4>1 DEF AreCalls
      <4> QED BY <1>1, <3>1, <4>1, <4>2 DEF CallsFit
    <3>3. CASE kind \in {"start", "["}
      <4>1. Len(e) = 1 /\ (kind = "start" => Len(ops) = 1) /\ (kind = "[" => Len(ops) > 1)
        BY <1>1, <3>1, <3>3 DEF CallsFit
      <4>2. e[1].type = "Undefined"
        BY <3>2, <3>3, <4>1 DEF TypeAfter, Operand
      <4>3. CASE kind = "start"
        <5>1. ~(Len(ops) > 1)
          <6>1. PICK k : k = Len(ops)
            OBVIOUS
          <6>2. k = 1
            BY <4>1, <4>3, <6>1
          <6>3. ~(k > 1)
            BY <6>2
          <6> QED BY <6>1, <6>3
        <5> QED BY <4>3, <5>1
      <4>4. CASE kind = "["
        <5>1. Last(ops)[1].type = "Undefined"
          BY <3>1, <4>2
        <5> QED BY <4>1, <4>4, <5>1
      <4> QED BY <3>3, <4>3, <4>4
    <3>4. CASE kind \notin {"start", "["}
      <4>1. kind \in Operand \cup {"]"}
        BY <1>1, <2>3, <3>4 DEF CallsFit
      <4>2. TypeAfter(kind) # "Undefined"
        BY <4>1 DEF TypeAfter, Operand
      <4>3. e[1].type # "Undefined"
        <5>0. PICK k \in Nat \ {0} : k = Len(e)
          BY <3>2
        <5>1. 1 = Len(e) \/ 1 \in 1 .. Len(e) - 1
          BY <5>0
        <5> QED BY <3>2, <4>2, <5>1 DEF IsPart
      <4> QED BY <3>1, <3>4, <4>3
    <3> QED BY <3>3, <3>4
  <2>5. CASE kind = "["
    <3>1. Throw
      BY <2>1, <2>4, <2>5 DEF ReadEnd
    <3> QED BY <1>6, <2>2, <2>5, <3>1 DEF Rejects
  <2>6. CASE kind # "["
    <3>1. PICK D \in 0 .. MaxText : D = Closings(t, n)
      BY <1>1
    <3>2. D + Len(ops) - 1 <= MaxText
      <4>1. Len(ops) = d + 1
        BY <1>1 DEF CallsFit
      <4>2. D + d <= MaxText
        BY <1>1, <3>1
      <4>3. MaxText \in Nat
        BY ExpressionAssumption
      <4> QED BY <1>1, <4>1, <4>2, <4>3
    <3>3. phase' = "evaluate" /\ root' \in Expressions /\ root' # <<>>
      BY <1>1, <2>1, <2>4, <2>6, <3>1, <3>2, EndRead
    <3> QED BY <2>2, <2>6, <3>3 DEF Accepts
  <2> QED BY <2>5, <2>6
<1>14. CASE ~(AfterDot /\ c.kind # "Identifier") /\ c.kind = "other"
  <2>1. Throw
    BY <1>14 DEF ReadNext
  <2>2. ~FitsAfter(t, n, c)
    BY <1>4, <1>14
  <2> QED BY <1>6, <2>1, <2>2 DEF Rejects
<1>15. c.kind \in Operand \/ c.kind = "." \/ c.kind = "[" \/ c.kind = "]" \/ IsSpace(c)
          \/ c.kind = "end" \/ c.kind = "other"
  BY TokenKinds DEF IsSpace
<1> QED BY <1>7, <1>8, <1>9, <1>10, <1>11, <1>12, <1>13, <1>14, <1>15

-----------------------------------------------------------------------------
(* Texts that are rejected *)

AllFit(t) == \A i \in DOMAIN t : Fits(t, i)

LEMMA ExpressionIs ==
    ASSUME NEW t, t = text
    PROVE  IsExpression <=> AllFit(t)
BY DEF IsExpression, LastKind, Depth, AllFit, Fits, LastOf, Words, DepthOf, OfKind

LEMMA NextExpressionIs ==
    ASSUME NEW u, u = text'
    PROVE  IsExpression' <=> AllFit(u)
BY DEF IsExpression, LastKind, Depth, AllFit, Fits, LastOf, Words, DepthOf, OfKind

TextsFit ==
    /\ phase \in {"idle", "parse", "closed", "evaluate", "follow", "reply"}
    /\ phase = "idle" => text = <<>>
    /\ phase = "parse" => Reading(text, Len(text), open)
    /\ phase = "closed" => ReadTooFar(text, Len(text), open)
    /\ phase \in {"idle", "parse", "closed"} => root = <<>>
    /\ phase \in {"evaluate", "follow"} => root # <<>>
    /\ phase \in {"evaluate", "follow", "reply"} =>
          IF root = <<>> THEN ~IsExpression ELSE IsExpression /\ root \in Expressions

LEMMA ParseStep ==
    ASSUME TextsFit, NEW c \in Token, ParseExpression(c)
    PROVE  TextsFit'
<1>1. PICK t, u, ops, n : t = text /\ u = text' /\ ops = open /\ n = Len(t)
  OBVIOUS
<1>2. /\ phase \in {"parse", "closed"} /\ u = Append(t, c)
      /\ c.kind # "end" => n < MaxText
      /\ phase = "parse" => ReadNext(c)
      /\ phase = "closed" => ReadAfterEnd(c)
  BY <1>1 DEF ParseExpression
<1>3. /\ root = <<>>
      /\ phase = "parse" => Reading(t, n, ops)
      /\ phase = "closed" => ReadTooFar(t, n, ops)
  BY <1>1, <1>2 DEF TextsFit
<1>4. IsText(t, n) /\ n \in Nat /\ n <= MaxText
  <2>1. IsText(t, n) /\ n <= MaxText
    BY <1>2, <1>3 DEF Reading, ReadTooFar, HasFit
  <2> QED BY <2>1 DEF IsText
<1>5. Grows(u, t, n, c)
  BY <1>2, <1>4, TextGrows
<1>6. Len(u) = n + 1 /\ DOMAIN u = 1 .. n + 1
  BY <1>5 DEF Grows, IsText
<1>7. ASSUME ~ \A i \in 1 .. n + 1 : Fits(u, i), phase' = "reply", root' = <<>>
      PROVE  TextsFit'
  <2>1. ~IsExpression'
    BY <1>1, <1>6, <1>7, NextExpressionIs DEF AllFit
  <2> QED BY <1>7, <2>1 DEF TextsFit
<1>8. ASSUME \A i \in 1 .. n + 1 : Fits(u, i), phase' = "evaluate", root' # <<>>, root' \in Expressions
      PROVE  TextsFit'
  <2>1. IsExpression'
    BY <1>1, <1>6, <1>8, NextExpressionIs DEF AllFit
  <2> QED BY <1>8, <2>1 DEF TextsFit
<1>9. CASE phase = "parse"
  <2>1. PICK d \in Nat : HasFit(t, n, d)
    BY <1>3, <1>9 DEF Reading
  <2>2. Rejects(t, n, c) \/ GoesOn(t, n, c, u) \/ GoesTooFar(t, n, c, u) \/ Accepts(t, n, c)
    BY <1>1, <1>2, <1>3, <1>4, <1>5, <1>9, ReadNextIs
  <2>3. CASE Rejects(t, n, c)
    <3>1. ~FitsAfter(t, n, c) /\ phase' = "reply" /\ root' = <<>>
      BY <1>3, <2>3 DEF Rejects
    <3>2. ~ \A i \in 1 .. n + 1 : Fits(u, i)
      BY <1>4, <1>5, <2>1, <3>1, FitEnds
    <3> QED BY <1>7, <3>1, <3>2
  <2>4. CASE GoesOn(t, n, c, u)
    <3>1. phase' = "parse" /\ root' = <<>> /\ Reading(u, n + 1, open')
      BY <1>3, <2>4 DEF GoesOn
    <3>2. Reading(text', Len(text'), open')
      BY <1>1, <1>6, <3>1
    <3> QED BY <3>1, <3>2 DEF TextsFit
  <2>5. CASE GoesTooFar(t, n, c, u)
    <3>1. phase' = "closed" /\ root' = <<>> /\ ReadTooFar(u, n + 1, open')
      BY <1>3, <2>5 DEF GoesTooFar
    <3>2. ReadTooFar(text', Len(text'), open')
      BY <1>1, <1>6, <3>1
    <3> QED BY <3>1, <3>2 DEF TextsFit
  <2>6. CASE Accepts(t, n, c)
    <3>1. FitsAfter(t, n, c) /\ phase' = "evaluate" /\ root' # <<>> /\ root' \in Expressions
      BY <2>6 DEF Accepts
    <3>2. \A i \in 1 .. n + 1 : Fits(u, i)
      <4>1. PICK e : HasFit(u, n + 1, e)
        <5>1. d \in Int /\ d >= -1
          OBVIOUS
        <5> QED BY <1>4, <1>5, <2>1, <3>1, <5>1, FitGrows
      <4> QED BY <4>1 DEF HasFit
    <3> QED BY <1>8, <3>1, <3>2
  <2> QED BY <2>2, <2>3, <2>4, <2>5, <2>6
<1>10. CASE phase = "closed"
  <2>1. HasFit(t, n, -1) /\ IsLast(t, n, "]") /\ AreCalls(ops) /\ Len(ops) = 1 /\ ops \in Stack(Closings(t, n))
    BY <1>3, <1>10 DEF ReadTooFar
  <2>2. FitsAfter(t, n, c) <=> c.kind = "end"
    <3>1. DepthOf(t, n) = -1 /\ LastOf(t, n) = "]"
      BY <2>1 DEF HasFit, IsLast
    <3>2. ASSUME c.kind = "end" PROVE FitsAfter(t, n, c)
      <4>1. c.kind \in MayFollow("]") /\ c.kind # " "
        BY <3>2 DEF MayFollow
      <4>2. DepthOf(t, n) - (IF c.kind = "]" THEN 1 ELSE 0) >= -1
        BY <3>1, <3>2
      <4> QED BY <3>1, <3>2, <4>1, <4>2 DEF FitsAfter
    <3>3. ASSUME FitsAfter(t, n, c) PROVE c.kind = "end"
      BY <3>1, <3>3 DEF FitsAfter
    <3> QED BY <3>2, <3>3
  <2>3. CASE c.kind = "end"
    <3>1. ReadEnd /\ FitsAfter(t, n, c)
      BY <1>2, <1>10, <2>2, <2>3 DEF ReadAfterEnd
    <3>2. DepthOf(t, n) >= -1
      BY <2>1 DEF HasFit
    <3>3. PICK D \in 0 .. MaxText : D = Closings(t, n)
      BY <1>4, <3>2, ClosingsAre
    <3>4. D + Len(ops) - 1 <= MaxText /\ ~(Len(ops) > 1)
      BY <2>1
    <3>5. phase' = "evaluate" /\ root' \in Expressions /\ root' # <<>>
      BY <1>1, <2>1, <3>1, <3>3, <3>4, EndRead
    <3>6. \A i \in 1 .. n + 1 : Fits(u, i)
      <4>1. PICK e : HasFit(u, n + 1, e)
        BY <1>4, <1>5, <2>1, <3>1, FitGrows
      <4> QED BY <4>1 DEF HasFit
    <3> QED BY <1>8, <3>5, <3>6
  <2>4. CASE c.kind # "end"
    <3>1. Throw /\ ~FitsAfter(t, n, c)
      BY <1>2, <1>10, <2>2, <2>4 DEF ReadAfterEnd
    <3>2. phase' = "reply" /\ root' = <<>>
      BY <1>3, <3>1 DEF Throw
    <3>3. ~ \A i \in 1 .. n + 1 : Fits(u, i)
      BY <1>4, <1>5, <2>1, <3>1, FitEnds
    <3> QED BY <1>7, <3>2, <3>3
  <2> QED BY <2>3, <2>4
<1> QED BY <1>2, <1>9, <1>10

LEMMA TextsFitAtFirst ==
    ASSUME Init
    PROVE  TextsFit
BY DEF Init, TextsFit

LEMMA TextStays ==
    ASSUME TextsFit, UNCHANGED <<text, root>>, phase \in {"evaluate", "follow", "reply"},
           phase' \in {"evaluate", "follow", "reply"}, root = <<>> => phase' = "reply"
    PROVE  TextsFit'
<1>1. IsExpression' <=> IsExpression
  <2>1. PICK t : t = text
    OBVIOUS
  <2> QED BY <2>1, ExpressionIs, NextExpressionIs
<1> QED BY <1>1 DEF TextsFit

LEMMA TextsFitNext ==
    ASSUME TextsFit, [Next]_vars
    PROVE  TextsFit'
<1>1. ASSUME NEW stackFrame \in -1 .. Len(Locals), GetImmediateValue(stackFrame) PROVE TextsFit'
  <2>1. text' = <<>> /\ root' = <<>> /\ phase' = "parse" /\ open' = <<<<Unparsed>>>>
    BY <1>1 DEF GetImmediateValue, TextsFit
  <2>2. Reading(text', Len(text'), open')
    <3>1. Len(text') = 0
      BY <2>1
    <3> QED BY <2>1, <3>1, FirstToken
  <2> QED BY <2>1, <2>2 DEF TextsFit
<1>2. ASSUME NEW token \in Token, ParseExpression(token) PROVE TextsFit'
  BY <1>2, ParseStep
<1>3. CASE AwaitAccessors
  BY <1>3, TextStays DEF AwaitAccessors, TextsFit
<1>4. CASE EvaluateNode
  BY <1>4, TextStays DEF EvaluateNode, TextsFit
<1>5. CASE NumberTooLarge
  BY <1>5, TextStays DEF NumberTooLarge, TextsFit
<1>6. CASE FollowKey
  BY <1>6, TextStays DEF FollowKey, TextsFit
<1>7. CASE NoSuchChild
  BY <1>7, TextStays DEF NoSuchChild, TextsFit
<1>8. CASE StoreResult
  BY <1>8, TextStays DEF StoreResult, TextsFit
<1>9. CASE Answer
  BY <1>9, TextStays DEF Answer, TextsFit
<1>10. CASE Reply
  BY <1>10 DEF Reply, TextsFit
<1>11. CASE UNCHANGED vars
  <2>1. UNCHANGED <<text, root, phase, open>>
    BY <1>11 DEF vars
  <2>2. IsExpression' <=> IsExpression
    <3>1. PICK t : t = text
      OBVIOUS
    <3> QED BY <2>1, <3>1, ExpressionIs, NextExpressionIs
  <2> QED BY <2>1, <2>2 DEF TextsFit
<1> QED BY <1>1, <1>2, <1>3, <1>4, <1>5, <1>6, <1>7, <1>8, <1>9, <1>10, <1>11 DEF Next, EvaluationStep

LEMMA AllTextsFit ==
    Spec => []TextsFit
<1>1. Init => TextsFit
  BY TextsFitAtFirst
<1>2. TextsFit /\ [Next]_vars => TextsFit'
  BY TextsFitNext
<1> QED BY <1>1, <1>2, PTL DEF Spec

LEMMA RejectedTexts ==
    ASSUME TextsFit
    PROVE  RejectsNothingElse
<1>1. CASE phase \in {"evaluate", "follow", "reply"}
  BY <1>1 DEF TextsFit, RejectsNothingElse, IsRejected
<1>2. CASE phase \in {"idle", "parse", "closed"}
  <2>1. PICK t, ops : t = text /\ ops = open
    OBVIOUS
  <2>2. AllFit(t)
    <3>1. CASE phase = "idle"
      BY <2>1, <3>1 DEF TextsFit, AllFit
    <3>2. CASE phase = "parse"
      BY <2>1, <3>2 DEF TextsFit, AllFit, Reading, HasFit, IsText
    <3>3. CASE phase = "closed"
      BY <2>1, <3>3 DEF TextsFit, AllFit, ReadTooFar, HasFit, IsText
    <3> QED BY <1>2, <3>1, <3>2, <3>3
  <2>3. IsExpression /\ phase # "reply"
    BY <1>2, <2>1, <2>2, ExpressionIs
  <2> QED BY <2>3 DEF RejectsNothingElse, IsRejected
<1> QED BY <1>1, <1>2 DEF TextsFit

\* However long a text is and however deep its brackets nest, it is rejected at the first token
\* that no expression can have there and at no other: the type of the current node of each call
\* of ParseExpression is all that has to be remembered of what was read
\* (SquirrelVmHelpers.cpp:850-948).
THEOREM OnlyMistakesAreRejected ==
    Spec => []RejectsNothingElse
BY AllTextsFit, RejectedTexts, PTL

-----------------------------------------------------------------------------
(* Slots and children *)

LEMMA SlotsAre ==
    ASSUME NEW v, NEW slots, slots = Slots(Heap, v)
    PROVE  /\ Filled(slots) \subseteq Nat \ {0}
           /\ \A i \in Filled(slots) : Type(v) = "array" => slots[i].key = Integer(i - 1)
<1>1. CASE v \in DOMAIN Heap
  <2>1. slots = Heap[v]
    BY <1>1 DEF Slots
  <2> QED BY <1>1, <2>1, ExpressionAssumption DEF Filled
<1>2. CASE v \notin DOMAIN Heap
  <2>1. slots = <<>>
    BY <1>2 DEF Slots
  <2>2. Filled(slots) = {}
    BY <2>1 DEF Filled
  <2> QED BY <2>2
<1> QED BY <1>1, <1>2

LEMMA NextSlotIs ==
    ASSUME NEW slots, Filled(slots) \subseteq Nat \ {0}, NEW iter \in Nat
    PROVE  LET next == NextSlot(slots, iter)
           IN  IF \E i \in Filled(slots) : i > iter
               THEN next \in Filled(slots) /\ next > iter /\ next # 0
                       /\ \A i \in Filled(slots) : i > iter => next <= i
               ELSE next = 0
<1>1. PICK later : later = {i \in Filled(slots) : i > iter}
  OBVIOUS
<1>2. PICK next : next = NextSlot(slots, iter)
  OBVIOUS
<1>3. CASE later = {}
  <2>1. next = 0
    BY <1>1, <1>2, <1>3 DEF NextSlot
  <2>2. ~ \E i \in Filled(slots) : i > iter
    BY <1>1, <1>3
  <2> QED BY <1>2, <2>1, <2>2
<1>4. CASE later # {}
  <2>1. later \subseteq Nat
    BY <1>1
  <2>2. \E i \in later : \A j \in later : i <= j
    BY <1>4, <2>1, LeastNumber
  <2>3. next = CHOOSE i \in later : \A j \in later : i <= j
    BY <1>1, <1>2, <1>4 DEF NextSlot
  <2>4. next \in later /\ \A j \in later : next <= j
    BY <2>2, <2>3
  <2>5. next \in Filled(slots) /\ next > iter /\ \A i \in Filled(slots) : i > iter => next <= i
    BY <1>1, <2>4
  <2>6. next # 0 /\ \E i \in Filled(slots) : i > iter
    BY <2>5
  <2> QED BY <1>2, <2>5, <2>6
<1> QED BY <1>3, <1>4

\* An iterator that comes right before a slot.
LEMMA SlotBefore ==
    ASSUME NEW slots, Filled(slots) \subseteq Nat \ {0}, NEW i \in Filled(slots)
    PROVE  \E iter \in {0} \cup Filled(slots) : NextSlot(slots, iter) = i
<1>0. i \in Nat \ {0}
  OBVIOUS
<1>1. PICK D : D = {i - j : j \in {k \in {0} \cup Filled(slots) : k < i}}
  OBVIOUS
<1>2. D \subseteq Nat /\ D # {}
  <2>1. i - 0 \in D
    BY <1>0, <1>1
  <2>2. ASSUME NEW d \in D PROVE d \in Nat
    <3>1. PICK j \in {0} \cup Filled(slots) : d = i - j /\ j < i
      BY <1>1
    <3>2. j \in Nat
      OBVIOUS
    <3> QED BY <1>0, <3>1, <3>2
  <2> QED BY <2>1, <2>2
<1>3. PICK d \in D : \A e \in D : d <= e
  BY <1>2, LeastNumber
<1>4. PICK iter \in {0} \cup Filled(slots) : d = i - iter /\ iter < i
  BY <1>1
<1>5. iter \in Nat
  OBVIOUS
<1>6. PICK next : next = NextSlot(slots, iter)
  OBVIOUS
<1>7. next \in Filled(slots) /\ next > iter /\ next <= i /\ next \in Nat
  BY <1>0, <1>4, <1>5, <1>6, NextSlotIs
<1>8. CASE next < i
  <2>1. i - next \in D
    BY <1>1, <1>7, <1>8
  <2>2. i - iter <= i - next
    BY <1>3, <1>4, <2>1
  <2> QED BY <1>0, <1>5, <1>7, <2>2
<1> QED BY <1>0, <1>6, <1>7, <1>8

LEMMA IteratorIs ==
    ASSUME NEW slots, Filled(slots) \subseteq Nat \ {0}, NEW key,
           \E i \in Filled(slots) : Raw(slots[i].key) = Raw(key)
    PROVE  LET iter == IteratorTo(slots, key)
           IN  /\ iter \in Nat /\ NextSlot(slots, iter) # 0
               /\ NextSlot(slots, iter) \in Filled(slots)
               /\ Raw(slots[NextSlot(slots, iter)].key) = Raw(key)
<1>1. PICK i \in Filled(slots) : Raw(slots[i].key) = Raw(key)
  OBVIOUS
<1>2. PICK before \in {0} \cup Filled(slots) : NextSlot(slots, before) = i
  BY SlotBefore
<1>3. PICK found : found = {iter \in {0} \cup Filled(slots) :
                              /\ NextSlot(slots, iter) # 0
                              /\ Raw(slots[NextSlot(slots, iter)].key) = Raw(key)}
  OBVIOUS
<1>4. before \in found /\ found \subseteq Nat
  BY <1>1, <1>2, <1>3
<1>5. \E j \in found : \A k \in found : j <= k
  BY <1>4, LeastNumber
<1>6. PICK iter : iter = IteratorTo(slots, key)
  OBVIOUS
<1>7. iter \in found
  <2>1. iter = CHOOSE j \in found : \A k \in found : j <= k
    BY <1>3, <1>6 DEF IteratorTo
  <2> QED BY <1>5, <2>1
<1>8. iter \in Nat /\ NextSlot(slots, iter) # 0 /\ Raw(slots[NextSlot(slots, iter)].key) = Raw(key)
  BY <1>3, <1>4, <1>7
<1>9. NextSlot(slots, iter) \in Filled(slots)
  BY <1>8, NextSlotIs
<1> QED BY <1>6, <1>8, <1>9

\* The part of the path of a child leads to it.
LEMMA ChildrenAre ==
    ASSUME NEW v, NEW key, NEW child \in Children(v, key)
    PROVE  child.part \in Nat /\ ChildAt(v, child.part) = child.value
<1>1. PICK slots : slots = Slots(Heap, v)
  OBVIOUS
<1>2. /\ Filled(slots) \subseteq Nat \ {0}
      /\ \A i \in Filled(slots) : Type(v) = "array" => slots[i].key = Integer(i - 1)
  BY <1>1, SlotsAre
<1>3. CASE Type(v) = "array" /\ Type(key) = "integer"
  <2>1. child \in {[value |-> slots[i].val, part |-> key[2]] : i \in SlotsOf(Heap, v, key)}
    BY <1>1, <1>3 DEF Children
  <2>2. PICK i \in SlotsOf(Heap, v, key) : child = [value |-> slots[i].val, part |-> key[2]]
    BY <2>1
  <2>3. i \in Filled(slots) /\ slots[i].key = key
    BY <1>1 DEF SlotsOf
  <2>4. i \in Nat \ {0} /\ key = Integer(i - 1)
    BY <1>2, <1>3, <2>3
  <2>5. key[2] = i - 1
    BY <2>4 DEF Integer
  <2>6. SlotsOf(Heap, v, key) = {i}
    <3>1. ASSUME NEW j \in SlotsOf(Heap, v, key) PROVE j = i
      <4>1. j \in Filled(slots) /\ slots[j].key = key
        BY <1>1 DEF SlotsOf
      <4>2. j \in Nat \ {0} /\ key = Integer(j - 1)
        BY <1>2, <1>3, <4>1
      <4>3. key[2] = j - 1
        BY <4>2 DEF Integer
      <4> QED BY <2>4, <2>5, <4>2, <4>3
    <3> QED BY <3>1
  <2>7. PICK k : k = CHOOSE j \in SlotsOf(Heap, v, key) : TRUE
    OBVIOUS
  <2>8. k = i
    BY <2>6, <2>7
  <2>9. ChildAt(v, i - 1) = slots[k].val
    BY <1>1, <1>3, <2>4, <2>7 DEF ChildAt, ValueOf
  <2> QED BY <2>2, <2>4, <2>5, <2>8, <2>9
<1>4. CASE Type(v) = "table" /\ HasKey(Heap, v, key)
  <2>1. PICK iter : iter = IteratorTo(slots, key)
    OBVIOUS
  <2>2. child = [value |-> slots[NextSlot(slots, iter)].val, part |-> PartOf(slots, iter)]
    BY <1>1, <1>4, <2>1 DEF Children
  <2>3. PICK i : i \in Filled(slots) /\ slots[i].key = key
    BY <1>1, <1>4 DEF HasKey, SlotsOf
  <2>4. iter \in Nat /\ NextSlot(slots, iter) # 0
    BY <1>2, <2>1, <2>3, IteratorIs
  <2>5. ChildAt(v, iter) = slots[NextSlot(slots, iter)].val
    BY <1>1, <1>4, <2>4 DEF ChildAt
  <2> QED BY <2>2, <2>4, <2>5 DEF PartOf
<1> QED BY <1>3, <1>4 DEF Children

-----------------------------------------------------------------------------
(* Paths *)

FirstOf(o) == IF o.scope = "Local" THEN 1 ELSE 0
Base(o, f) == IF o.scope = "Local" THEN Locals[f + 1][o.path[1] + 1].value ELSE Root

\* The values along a path.
Walk(p, a, base, n, e) == e = [i \in a .. n |-> IF i > a THEN ChildAt(e[i - 1], p[i]) ELSE base]

LedTo(o, f) ==
    \E e : Walk(o.path, FirstOf(o), Base(o, f), Len(o.path), e) /\ e[Len(o.path)] = o.value

IsWalk(p, a, base, n, e) == \A i \in a .. n : e[i] = IF i > a THEN ChildAt(e[i - 1], p[i]) ELSE base

LEMMA WalkIs ==
    ASSUME NEW p, NEW a \in Nat, NEW base, NEW n \in Nat, NEW e, Walk(p, a, base, n, e)
    PROVE  IsWalk(p, a, base, n, e)
<1>1. PICK g : g = [i \in a .. n |-> IF i > a THEN ChildAt(e[i - 1], p[i]) ELSE base]
  OBVIOUS
<1>2. e = g
  BY <1>1 DEF Walk
<1> QED BY <1>1, <1>2 DEF IsWalk

LEMMA WalksAgree ==
    ASSUME NEW p, NEW a \in Nat, NEW base, NEW n \in Nat, NEW e, Walk(p, a, base, n, e),
           NEW g, Walk(p, a, base, n, g), NEW k \in a .. n
    PROVE  e[k] = g[k]
<1> DEFINE S == {i \in a .. n : e[i] # g[i]}
<1> SUFFICES S = {}
  OBVIOUS
<1> SUFFICES ASSUME S # {} PROVE FALSE
  OBVIOUS
<1>1. PICK m \in S : \A i \in S : m <= i
  <2>1. S \subseteq Nat
    OBVIOUS
  <2> HIDE DEF S
  <2> QED BY <2>1, LeastNumber
<1>2. m \in a .. n /\ e[m] # g[m]
  BY <1>1
<1>3. /\ e[m] = IF m > a THEN ChildAt(e[m - 1], p[m]) ELSE base
      /\ g[m] = IF m > a THEN ChildAt(g[m - 1], p[m]) ELSE base
  <2>1. IsWalk(p, a, base, n, e) /\ IsWalk(p, a, base, n, g)
    BY WalkIs
  <2> QED BY <1>2, <2>1 DEF IsWalk
<1>4. m > a
  <2> SUFFICES ASSUME ~(m > a) PROVE FALSE
    OBVIOUS
  <2>1. e[m] = base /\ g[m] = base
    BY <1>3
  <2> QED BY <1>2, <2>1
<1>5. m - 1 \in a .. n /\ ~(m <= m - 1)
  BY <1>2, <1>4
<1>6. e[m - 1] = g[m - 1]
  <2>1. m - 1 \notin S
    <3> HIDE DEF S
    <3> QED BY <1>1, <1>5
  <2> QED BY <1>5, <2>1
<1> QED BY <1>2, <1>3, <1>4, <1>6

LEMMA WalkGrows ==
    ASSUME NEW p, NEW a \in Nat, NEW base, NEW n \in Nat, a <= n, NEW e, Walk(p, a, base, n, e),
           NEW q, \A i \in 1 .. n : q[i] = p[i], NEW m, m = n + 1
    PROVE  \E g : Walk(q, a, base, m, g) /\ g[m] = ChildAt(e[n], q[m])
<1>1. PICK g : g = [i \in a .. m |-> IF i = m THEN ChildAt(e[n], q[m]) ELSE e[i]]
  OBVIOUS
<1>2. PICK h : h = [i \in a .. m |-> IF i > a THEN ChildAt(g[i - 1], q[i]) ELSE base]
  OBVIOUS
<1>3. ASSUME NEW i \in a .. m PROVE g[i] = h[i]
  <2>1. CASE i = m
    <3>1. i > a /\ i - 1 = n /\ n \in a .. m /\ n # m
      <4>1. n + 1 > a /\ n + 1 - 1 = n /\ n \in a .. n + 1 /\ n # n + 1
        OBVIOUS
      <4> QED BY <2>1, <4>1
    <3>2. g[n] = e[n]
      BY <1>1, <3>1
    <3>3. h[i] = ChildAt(g[n], q[i])
      BY <1>2, <3>1
    <3>4. g[i] = ChildAt(e[n], q[m])
      BY <1>1, <2>1
    <3> QED BY <2>1, <3>2, <3>3, <3>4
  <2>2. CASE i # m
    <3>1. i \in a .. n
      <4>1. i \in a .. n + 1 /\ i # n + 1
        BY <2>2
      <4> QED BY <4>1
    <3>2. g[i] = e[i]
      BY <1>1, <2>2
    <3>3. e[i] = IF i > a THEN ChildAt(e[i - 1], p[i]) ELSE base
      <4>1. IsWalk(p, a, base, n, e)
        BY WalkIs
      <4> QED BY <3>1, <4>1 DEF IsWalk
    <3>4. CASE i > a
      <4>1. i - 1 \in a .. m /\ i - 1 # m /\ i \in 1 .. n
        BY <3>1, <3>4
      <4>2. g[i - 1] = e[i - 1] /\ q[i] = p[i]
        BY <1>1, <4>1
      <4>3. h[i] = ChildAt(g[i - 1], q[i])
        BY <1>2, <3>4
      <4> QED BY <3>2, <3>3, <3>4, <4>2, <4>3
    <3>5. CASE ~(i > a)
      BY <1>2, <3>2, <3>3, <3>5
    <3> QED BY <3>4, <3>5
  <2> QED BY <2>1, <2>2
<1>4. g = h
  BY <1>1, <1>2, <1>3
<1>5. Walk(q, a, base, m, g)
  BY <1>2, <1>4 DEF Walk
<1>6. g[m] = ChildAt(e[n], q[m])
  <2>1. m \in a .. m
    OBVIOUS
  <2> QED BY <1>1, <2>1
<1> QED BY <1>5, <1>6

LEMMA AtPathIs ==
    ASSUME NEW o, NEW f, f = frame, LedTo(o, f), o.path \in Seq(Nat), o.scope = "Local" => o.path # <<>>
    PROVE  AtPath(o) = o.value
<1>1. PICK a, base, n : a = FirstOf(o) /\ base = Base(o, f) /\ n = Len(o.path)
  OBVIOUS
<1>2. a \in Nat /\ n \in Nat /\ n \in a .. n
  <2>1. n \in Nat /\ (o.path # <<>> => n > 0)
    BY <1>1, LenProperties, EmptySeq
  <2> QED BY <1>1, <2>1 DEF FirstOf
<1>3. PICK e : Walk(o.path, a, base, n, e) /\ e[n] = o.value
  BY <1>1 DEF LedTo
<1>4. PICK g : g = CHOOSE at : Walk(o.path, a, base, n, at)
  OBVIOUS
<1>5. Walk(o.path, a, base, n, g)
  BY <1>3, <1>4
<1>6. g[n] = e[n]
  BY <1>2, <1>3, <1>5, WalksAgree
<1>7. AtPath(o) = g[n]
  BY <1>1, <1>4 DEF AtPath, Walk, FirstOf, Base
<1> QED BY <1>3, <1>6, <1>7

-----------------------------------------------------------------------------
(* What is still to be evaluated *)

Pointers == [place : Seq(Nat), expr : Expressions \ {<<>>}]

LEMMA UnresolvedIs ==
    ASSUME NEW ptr \in Pointers
    PROVE  Unresolved(ptr) \in Seq(Pointers)
<1>1. PICK expr : expr = ptr.expr
  OBVIOUS
<1>2. expr \in Expressions /\ ptr.place \in Seq(Nat)
  BY <1>1 DEF Pointers
<1>3. Len(expr) \in Nat /\ DOMAIN expr = 1 .. Len(expr) /\ \A i \in DOMAIN expr : expr[i].accessor \in Expressions
  BY <1>2, ExpressionsAre
<1>4. PICK s : s = [i \in DOMAIN expr |->
                      IF expr[i].accessor # <<>> /\ AccessorOf(ptr, i).place \notin DOMAIN results
                      THEN <<AccessorOf(ptr, i)>> ELSE <<>>]
  OBVIOUS
<1>5. ASSUME NEW i \in DOMAIN expr PROVE s[i] \in Seq(Pointers)
  <2>1. CASE expr[i].accessor # <<>> /\ AccessorOf(ptr, i).place \notin DOMAIN results
    <3>1. Append(ptr.place, i) \in Seq(Nat)
      BY <1>2, <1>3, AppendProperties
    <3>2. AccessorOf(ptr, i) \in Pointers
      BY <1>1, <1>3, <2>1, <3>1 DEF AccessorOf, Pointer, Pointers
    <3>3. s[i] = <<AccessorOf(ptr, i)>>
      BY <1>4, <2>1
    <3> QED BY <3>2, <3>3
  <2>2. CASE ~(expr[i].accessor # <<>> /\ AccessorOf(ptr, i).place \notin DOMAIN results)
    BY <1>4, <2>2, EmptySeq
  <2> QED BY <2>1, <2>2
<1>6. s \in Seq(Seq(Pointers))
  BY <1>3, <1>4, <1>5, IsASeq
<1>7. FlattenSeq(s) \in Seq(Pointers)
  BY <1>6, FlattenIs
<1> QED BY <1>1, <1>4, <1>7 DEF Unresolved
-----------------------------------------------------------------------------
(* Where paths lead *)

\* What GetObjectFromExpression has come to in the frame f, with the keys that are left.
Follows(o, ks, f) ==
    /\ o = Object(o.scope, o.value, o.path) /\ o.path \in Seq(Nat)
    /\ IF o.scope = "Evaluation" THEN o.path = <<>> /\ ks = <<>>
       ELSE /\ LedTo(o, f)
            /\ o.path = <<>> => o.scope # "Local" /\ ks # <<>>

IsFound(o, f) ==
    /\ o.path \in Seq(Nat)
    /\ IF o.scope = "Evaluation" THEN o.path = <<>> ELSE o.path # <<>> /\ LedTo(o, f)

PathsLead ==
    /\ frame \in Int
    /\ phase \in {"idle", "parse", "closed"} => results = NoResults
    /\ phase \in {"evaluate", "follow"} => pending \in Seq(Pointers)
    /\ phase = "follow" => Follows(object, keys, frame)
    /\ \A place \in DOMAIN results : IsFound(results[place], frame)

LEMMA ChildFollows ==
    ASSUME NEW o, NEW ks, NEW f, Follows(o, ks, f), ks # <<>>,
           NEW child \in Children(o.value, Head(ks)),
           NEW p, p = [o EXCEPT !.value = child.value, !.path = Append(@, child.part)], NEW rest
    PROVE  Follows(p, rest, f)
<1>1. o = Object(o.scope, o.value, o.path) /\ o.path \in Seq(Nat) /\ o.scope # "Evaluation" /\ LedTo(o, f)
  BY DEF Follows
<1>2. child.part \in Nat /\ ChildAt(o.value, child.part) = child.value
  BY ChildrenAre
<1>3. PICK path : path = Append(o.path, child.part)
  OBVIOUS
<1>4. p = Object(o.scope, child.value, path)
  BY <1>1, <1>3 DEF Object
<1>5. p.scope = o.scope /\ p.value = child.value /\ p.path = path
  BY ONLY <1>4 DEF Object
<1>6. PICK n \in Nat : n = Len(o.path)
  BY <1>1, LenProperties
<1>7. /\ path \in Seq(Nat) /\ Len(path) = n + 1 /\ path[n + 1] = child.part
      /\ \A i \in 1 .. n : path[i] = o.path[i]
  BY <1>1, <1>2, <1>3, <1>6, AppendProperties
<1>8. path # <<>>
  <2>1. Len(path) # 0
    BY <1>6, <1>7
  <2> QED BY <2>1
<1>9. PICK a \in Nat : a = FirstOf(o) /\ a = FirstOf(p) /\ a <= n
  <2>1. o.scope = "Local" => n > 0
    BY <1>1, <1>6, EmptySeq DEF Follows
  <2>2. FirstOf(o) \in Nat /\ FirstOf(p) = FirstOf(o) /\ FirstOf(o) <= n
    BY <1>5, <1>6, <2>1 DEF FirstOf
  <2> QED BY <2>2
<1>10. PICK base : base = Base(o, f)
  OBVIOUS
<1>11. Base(p, f) = base
  <2>1. CASE o.scope = "Local"
    <3>1. n > 0
      BY <1>9, <2>1 DEF FirstOf
    <3>2. path[1] = o.path[1]
      BY <1>7, <3>1
    <3> QED BY <1>5, <1>10, <2>1, <3>2 DEF Base
  <2>2. CASE o.scope # "Local"
    BY <1>5, <1>10, <2>2 DEF Base
  <2> QED BY <2>1, <2>2
<1>12. PICK e : Walk(o.path, a, base, n, e) /\ e[n] = o.value
  BY <1>1, <1>6, <1>9, <1>10 DEF LedTo
<1>13. PICK m : m = n + 1
  OBVIOUS
<1>14. PICK g : Walk(path, a, base, m, g) /\ g[m] = ChildAt(e[n], path[m])
  <2>1. PICK q : q = o.path
    OBVIOUS
  <2>2. Walk(q, a, base, n, e) /\ \A i \in 1 .. n : path[i] = q[i]
    BY <1>7, <1>12, <2>1
  <2> QED BY ONLY a \in Nat, n \in Nat, <1>9, <1>13, <2>2, WalkGrows
<1>15. g[m] = child.value /\ Len(path) = m
  <2>1. path[m] = child.part /\ Len(path) = m
    BY <1>7, <1>13
  <2> QED BY <1>2, <1>12, <1>14, <2>1
<1>16. LedTo(p, f)
  <2>1. Walk(p.path, FirstOf(p), Base(p, f), Len(p.path), g) /\ g[Len(p.path)] = p.value
    BY <1>5, <1>9, <1>11, <1>14, <1>15
  <2> QED BY <2>1 DEF LedTo
<1> QED BY <1>1, <1>4, <1>5, <1>7, <1>8, <1>16 DEF Follows

\* The first of the locals with a name.
LEMMA LocalIs ==
    ASSUME NEW f, f = frame, f \in Int, NEW name, LocalsNamed(name) # {},
           NEW n, n = CHOOSE k \in LocalsNamed(name) : \A m \in LocalsNamed(name) : k <= m
    PROVE  /\ n \in Nat \ {0} /\ n \in LocalsNamed(name)
           /\ \A m \in LocalsNamed(name) : n <= m
           /\ LocalsNamed(name) \subseteq Nat \ {0}
<1>1. frame >= 0 /\ frame < Len(Locals)
  BY DEF LocalsNamed
<1>2. LocalsNamed(name) \subseteq DOMAIN Locals[frame + 1]
  BY DEF LocalsNamed
<1>3. f + 1 \in 1 .. Len(Locals)
  BY <1>1, ExpressionAssumption
<1>4. DOMAIN Locals[f + 1] \subseteq Nat \ {0}
  BY <1>3, ExpressionAssumption
<1>5. LocalsNamed(name) \subseteq Nat \ {0} /\ LocalsNamed(name) \subseteq Nat
  BY <1>2, <1>4
<1>6. \E i \in LocalsNamed(name) : \A m \in LocalsNamed(name) : i <= m
  BY <1>5, LeastNumber
<1>7. n \in LocalsNamed(name) /\ \A m \in LocalsNamed(name) : n <= m
  BY <1>6
<1> QED BY <1>5, <1>7

LEMMA StartFollows ==
    ASSUME NEW scope, NEW v, NEW path \in Seq(Nat), NEW f, NEW o, o = Object(scope, v, path),
           Len(path) = FirstOf(o), Base(o, f) = v
    PROVE  LedTo(o, f)
<1>1. o.scope = scope /\ o.value = v /\ o.path = path
  BY DEF Object
<1>2. PICK a \in Nat : a = FirstOf(o)
  BY DEF FirstOf
<1>3. PICK e : e = [i \in a .. a |-> v]
  OBVIOUS
<1>4. Walk(path, a, v, a, e) /\ e[a] = v
  <2>1. \A i \in a .. a : ~(i > a)
    BY <1>2
  <2>2. a \in a .. a
    BY <1>2
  <2> QED BY <1>3, <2>1, <2>2 DEF Walk
<1> QED BY <1>1, <1>2, <1>4 DEF LedTo

LEMMA LookedUp ==
    ASSUME NEW f, f = frame, f \in Int, frame' = frame, NEW name, NEW rest, NEW T, rest \in Seq(T), LookUp(name, rest)
    PROVE  Follows(object', keys', f)
<1>1. CASE LocalsNamed(name) # {}
  <2>1. PICK n : n = CHOOSE i \in LocalsNamed(name) : \A m \in LocalsNamed(name) : i <= m
    OBVIOUS
  <2>2. n \in Nat \ {0}
    BY <1>1, <2>1, LocalIs
  <2>3. PICK o, v, path : path = <<n - 1>> /\ v = Locals[f + 1][n].value /\ o = Object("Local", v, path)
    OBVIOUS
  <2>4. object' = o
    BY <1>1, <2>1, <2>3 DEF LookUp
  <2>5. path \in Seq(Nat) /\ Len(path) = 1 /\ path[1] = n - 1 /\ path # <<>>
    <3>1. n - 1 \in Nat
      BY <2>2
    <3> QED BY <2>3, <3>1
  <2>6. o.scope = "Local" /\ o.value = v /\ o.path = path
    BY <2>3 DEF Object
  <2>7. FirstOf(o) = 1 /\ Base(o, f) = v
    <3>1. n - 1 + 1 = n
      BY <2>2
    <3> QED BY <2>3, <2>5, <2>6, <3>1 DEF FirstOf, Base
  <2>8. LedTo(o, f)
    BY <2>3, <2>5, <2>7, StartFollows
  <2> QED BY <2>3, <2>4, <2>5, <2>6, <2>8 DEF Follows
<1>2. CASE LocalsNamed(name) = {}
  <2>1. PICK o : o = Object("Global", Root, <<>>)
    OBVIOUS
  <2>2. object' = o /\ keys' = <<name>> \o rest
    BY <1>2, <2>1 DEF LookUp
  <2>3. o.scope = "Global" /\ o.value = Root /\ o.path = <<>> /\ o = Object(o.scope, o.value, o.path)
    BY <2>1 DEF Object
  <2>4. <<name>> \o rest # <<>>
    <3>1. PICK U : U = T \cup {name}
      OBVIOUS
    <3>2. T \subseteq U /\ <<name>> \in Seq(U) /\ Len(<<name>>) = 1
      BY <3>1
    <3>3. rest \in Seq(U) /\ Len(rest) \in Nat
      BY <3>2, SeqMonotonic, LenProperties
    <3>4. Len(<<name>> \o rest) = 1 + Len(rest)
      BY <3>2, <3>3, ConcatProperties
    <3>5. Len(<<name>> \o rest) # 0
      BY <3>3, <3>4
    <3> QED BY <3>5
  <2>5. PICK path : path = <<>>
    OBVIOUS
  <2>6. path \in Seq(Nat) /\ Len(path) = 0
    BY <2>5
  <2>7. FirstOf(o) = 0 /\ Base(o, f) = Root
    BY <2>3 DEF FirstOf, Base
  <2>8. LedTo(o, f)
    BY <2>1, <2>5, <2>6, <2>7, StartFollows
  <2> QED BY <2>2, <2>3, <2>4, <2>5, <2>6, <2>8 DEF Follows
<1> QED BY <1>1, <1>2

LEMMA KeysAre ==
    ASSUME NEW ptr \in Pointers
    PROVE  \E T : Keys(ptr) \in Seq(T) /\ Tail(Keys(ptr)) \in Seq(T) /\ Len(Keys(ptr)) = Len(ptr.expr)
<1>1. PICK n \in Nat \ {0} : n = Len(ptr.expr) /\ DOMAIN ptr.expr = 1 .. n
  <2>1. ptr.expr \in Expressions /\ ptr.expr # <<>>
    BY DEF Pointers
  <2> QED BY <2>1, ExpressionsAre
<1>2. PICK ks : ks = Keys(ptr)
  OBVIOUS
<1>3. PICK T : T = {ks[i] : i \in 1 .. n}
  OBVIOUS
<1>4. ks = [i \in 1 .. n |-> ks[i]]
  BY <1>1, <1>2 DEF Keys
<1>5. \A i \in 1 .. n : ks[i] \in T
  BY <1>3
<1>6. ks \in Seq(T) /\ Len(ks) = n
  BY <1>1, <1>4, <1>5
<1>7. Tail(ks) \in Seq(T)
  <2>1. ks # <<>>
    BY <1>1, <1>6
  <2> QED BY <1>6, <2>1, HeadTailProperties
<1> QED BY <1>1, <1>2, <1>6, <1>7

LEMMA NodeEvaluated ==
    ASSUME PathsLead, NEW f, f = frame, EvaluateNode
    PROVE  Follows(object', keys', f) /\ pending' \in Seq(Pointers)
<1>1. PICK s : s = pending
  OBVIOUS
<1>2. s \in Seq(Pointers) /\ s # <<>> /\ Len(s) > 0 /\ f \in Int /\ frame' = frame
  <2>1. phase = "evaluate" /\ s # <<>> /\ frame' = frame
    BY <1>1 DEF EvaluateNode
  <2>2. s \in Seq(Pointers)
    BY <1>1, <2>1 DEF PathsLead
  <2>3. Len(s) > 0
    BY <2>1, <2>2, EmptySeq, LenProperties
  <2>4. f \in Int
    BY DEF PathsLead
  <2> QED BY <2>1, <2>2, <2>3, <2>4
<1>3. Front(s) \in Seq(Pointers) /\ Last(s) \in Pointers
  BY <1>2, FrontIs
<1>4. pending' = Front(s)
  BY <1>1 DEF EvaluateNode, Popped
<1>5. PICK ptr, all : ptr = Last(s) /\ all = Keys(ptr)
  OBVIOUS
<1>6. IF ptr.expr[1].type = "Identifier" THEN LookUp(all[1], Tail(all))
      ELSE object' = Object("Evaluation", all[1], <<>>) /\ keys' = <<>>
  BY <1>1, <1>5 DEF EvaluateNode
<1>7. Follows(object', keys', f)
  <2>1. CASE ptr.expr[1].type = "Identifier"
    <3>1. PICK T : Tail(all) \in Seq(T)
      BY <1>3, <1>5, KeysAre
    <3>2. LookUp(all[1], Tail(all))
      BY <1>6, <2>1
    <3> QED BY <1>2, <3>1, <3>2, LookedUp
  <2>2. CASE ptr.expr[1].type # "Identifier"
    <3>1. PICK o : o = Object("Evaluation", all[1], <<>>)
      OBVIOUS
    <3>2. o.scope = "Evaluation" /\ o.path = <<>> /\ o = Object(o.scope, o.value, o.path)
      BY <3>1 DEF Object
    <3>3. object' = o /\ keys' = <<>>
      BY <1>6, <2>2, <3>1
    <3>4. o.path \in Seq(Nat)
      BY <3>2
    <3> QED BY <3>2, <3>3, <3>4 DEF Follows
  <2> QED BY <2>1, <2>2
<1> QED BY <1>3, <1>4, <1>7

LEMMA PathsLeadAtFirst ==
    ASSUME Init
    PROVE  PathsLead
BY DEF Init, PathsLead, NoResults

LEMMA PathsLeadNext ==
    ASSUME TextsFit, TextsFit', PathsLead, [Next]_vars
    PROVE  PathsLead'
<1>0. PICK f : f = frame
  OBVIOUS
<1>1. ASSUME NEW stackFrame \in -1 .. Len(Locals), GetImmediateValue(stackFrame) PROVE PathsLead'
  <2>1. phase = "idle" /\ phase' = "parse" /\ results' = results /\ frame' \in Int
    BY <1>1, ExpressionAssumption DEF GetImmediateValue
  <2>2. results = NoResults
    BY <2>1 DEF PathsLead
  <2> QED BY <2>1, <2>2 DEF PathsLead, NoResults
<1>2. ASSUME NEW token \in Token, ParseExpression(token) PROVE PathsLead'
  <2>1. /\ frame' = frame /\ results' = results /\ phase \in {"parse", "closed"}
        /\ pending' = IF phase' = "evaluate" THEN <<Pointer(<<>>, root')>> ELSE <<>>
    BY <1>2 DEF ParseExpression
  <2>2. results = NoResults
    BY <2>1 DEF PathsLead
  <2>3. phase' # "follow"
    <3>1. CASE phase = "parse"
      <4>1. ReadNext(token)
        BY <1>2, <3>1 DEF ParseExpression
      <4> QED BY <3>1, <4>1 DEF ReadNext, ReadDot, ReadOpen, ReadClose, ReadOperand, ReadSpace, ReadEnd, Throw
    <3>2. CASE phase = "closed"
      <4>1. ReadAfterEnd(token)
        BY <1>2, <3>2 DEF ParseExpression
      <4> QED BY <3>2, <4>1 DEF ReadAfterEnd, ReadEnd, Throw
    <3> QED BY <2>1, <3>1, <3>2
  <2>4. phase' = "evaluate" => pending' \in Seq(Pointers)
    <3> SUFFICES ASSUME phase' = "evaluate" PROVE pending' \in Seq(Pointers)
      OBVIOUS
    <3>1. root' \in Expressions /\ root' # <<>>
      BY DEF TextsFit
    <3>2. PICK p : p = Pointer(<<>>, root')
      OBVIOUS
    <3>3. p \in Pointers
      BY <3>1, <3>2, EmptySeq DEF Pointer, Pointers
    <3>4. <<p>> \in Seq(Pointers)
      BY <3>3
    <3> QED BY <2>1, <3>2, <3>4
  <2> QED BY <2>1, <2>2, <2>3, <2>4 DEF PathsLead, NoResults
<1>3. CASE AwaitAccessors
  <2>1. /\ phase = "evaluate" /\ UNCHANGED <<frame, phase, results>> /\ pending # <<>>
        /\ pending' = pending \o Unresolved(Last(pending))
    BY <1>3 DEF AwaitAccessors
  <2>2. PICK s : s = pending
    OBVIOUS
  <2>3. s \in Seq(Pointers) /\ s # <<>>
    BY <2>1, <2>2 DEF PathsLead
  <2>4. Len(s) > 0
    BY <2>3, EmptySeq, LenProperties
  <2>5. Last(s) \in Pointers
    BY <2>3, <2>4, FrontIs
  <2>6. Unresolved(Last(s)) \in Seq(Pointers)
    BY <2>5, UnresolvedIs
  <2>7. pending' \in Seq(Pointers)
    BY <2>1, <2>2, <2>3, <2>6, ConcatProperties
  <2> QED BY <2>1, <2>7 DEF PathsLead
<1>4. CASE EvaluateNode
  <2>1. UNCHANGED <<frame, results>> /\ phase' = "follow"
    BY <1>4 DEF EvaluateNode
  <2>2. Follows(object', keys', f) /\ pending' \in Seq(Pointers)
    BY <1>0, <1>4, NodeEvaluated
  <2>3. Follows(object', keys', frame')
    BY <1>0, <2>1, <2>2
  <2> QED BY <2>1, <2>2, <2>3 DEF PathsLead
<1>5. CASE NumberTooLarge
  BY <1>5 DEF NumberTooLarge, PathsLead
<1>6. CASE FollowKey
  <2>1. phase = "follow" /\ keys # <<>> /\ UNCHANGED <<frame, phase, pending, results>>
    BY <1>6 DEF FollowKey
  <2>2. PICK o, ks : o = object /\ ks = keys
    OBVIOUS
  <2>3. Follows(o, ks, f)
    BY <1>0, <2>1, <2>2 DEF PathsLead
  <2>4. PICK child \in Children(o.value, Head(ks)) :
           object' = [o EXCEPT !.value = child.value, !.path = Append(@, child.part)]
    BY <1>6, <2>2 DEF FollowKey
  <2>5. PICK p, rest : p = object' /\ rest = keys'
    OBVIOUS
  <2>6. Follows(p, rest, f)
    BY <2>1, <2>2, <2>3, <2>4, <2>5, ChildFollows
  <2>7. Follows(object', keys', frame')
    BY <1>0, <2>1, <2>5, <2>6
  <2> QED BY <2>1, <2>7 DEF PathsLead
<1>7. CASE NoSuchChild
  BY <1>7 DEF NoSuchChild, PathsLead
<1>8. CASE StoreResult
  <2>1. /\ phase = "follow" /\ keys = <<>> /\ UNCHANGED <<frame, pending>> /\ phase' = "evaluate"
        /\ results' = [place \in DOMAIN results \cup {node.place} |->
                          IF place = node.place THEN object ELSE results[place]]
    BY <1>8 DEF StoreResult
  <2>2. IsFound(object, frame)
    BY <2>1 DEF PathsLead, Follows, IsFound
  <2>3. ASSUME NEW place \in DOMAIN results' PROVE IsFound(results'[place], frame')
    BY <2>1, <2>2 DEF PathsLead
  <2> QED BY <2>1, <2>3 DEF PathsLead
<1>9. CASE Answer
  BY <1>9 DEF Answer, PathsLead
<1>10. CASE Reply
  BY <1>10 DEF Reply, PathsLead, NoResults
<1>11. CASE UNCHANGED vars
  BY <1>11 DEF vars, PathsLead
<1> QED BY <1>1, <1>2, <1>3, <1>4, <1>5, <1>6, <1>7, <1>8, <1>9, <1>10, <1>11 DEF Next, EvaluationStep

LEMMA AllPathsLead ==
    Spec => []PathsLead
<1>1. Init => PathsLead
  BY PathsLeadAtFirst
<1>2. TextsFit /\ TextsFit' /\ PathsLead /\ [Next]_vars => PathsLead'
  BY PathsLeadNext
<1> QED BY <1>1, <1>2, AllTextsFit, PTL DEF Spec

LEMMA PathsAre ==
    ASSUME PathsLead
    PROVE  PathLeadsToValue
<1>1. ASSUME NEW place \in DOMAIN results, NEW o, o = results[place]
      PROVE  IF o.scope = "Evaluation" THEN o.path = <<>> ELSE o.path # <<>> /\ AtPath(o) = o.value
  <2>1. PICK f : f = frame
    OBVIOUS
  <2>2. IsFound(o, f)
    BY <1>1, <2>1 DEF PathsLead
  <2>3. CASE o.scope # "Evaluation"
    <3>1. o.path \in Seq(Nat) /\ o.path # <<>> /\ LedTo(o, f)
      BY <2>2, <2>3 DEF IsFound
    <3>2. AtPath(o) = o.value
      BY <2>1, <3>1, AtPathIs
    <3> QED BY <2>3, <3>1, <3>2
  <2>4. CASE o.scope = "Evaluation"
    BY <2>2, <2>4 DEF IsFound
  <2> QED BY <2>3, <2>4
<1> QED BY <1>1 DEF PathLeadsToValue

\* The scope and the path in an answer lead to the value in it: they are the local and the slots,
\* or the places in an array, that LookUp and GetObjectFromExpression went through, for any
\* containers, frames and nested accessors (SquirrelVmHelpers.cpp:572-638,
\* SquirrelDebugger.cpp:539-600).
THEOREM PathsLeadToValues ==
    Spec => []PathLeadsToValue
BY AllPathsLead, PathsAre, PTL

-----------------------------------------------------------------------------
(* What the calls of ParseExpression have read *)

LEMMA PartsAreExpressions ==
    ASSUME NEW D \in 0 .. MaxText, NEW e \in Seq(NodeOf(Nested[D]))
    PROVE  e \in Expressions
<1>1. e \in Nested[D + 1]
  BY NestedIs
<1> QED BY <1>1, NestedAre DEF Expressions

LEMMA WritingIs ==
    ASSUME NEW w, w = Written, NEW e \in Expressions
    PROVE  /\ w[e] = FlattenSeq(Parts(e, w))
           /\ w[e] \in Seq(Writing) /\ Parts(e, w) \in Seq(Seq(Writing))
<1>1. w[e] = FlattenSeq(Parts(e, w))
  BY WrittenIs, WriteToIs
<1>2. MaxText + 1 \in 0 .. MaxText + 1 /\ e \in Nested[MaxText + 1]
  BY ExpressionAssumption DEF Expressions
<1> QED BY <1>1, <1>2, WrittenNested

\* A sequence that is longer by one element.
LEMMA OneMore ==
    ASSUME NEW T, NEW p \in Seq(T), NEW q \in Seq(T), NEW n \in Nat, DOMAIN p = 1 .. n,
           DOMAIN q = 1 .. n + 1, \A i \in 1 .. n : q[i] = p[i], NEW z, q[n + 1] = z
    PROVE  q = Append(p, z)
<1>1. Len(p) = n /\ Len(q) = n + 1
  <2>1. \A k \in Nat : 1 .. k = 1 .. n => k = n
    OBVIOUS
  <2>2. \A k \in Nat : 1 .. k = 1 .. n + 1 => k = n + 1
    OBVIOUS
  <2> QED BY <2>1, <2>2, LenProperties
<1>2. z \in T
  <2>1. n + 1 \in 1 .. Len(q)
    BY <1>1
  <2> QED BY <2>1, ElementOfSeq
<1>3. PICK r : r = Append(p, z)
  OBVIOUS
<1>4. /\ r \in Seq(T) /\ Len(r) = n + 1 /\ r[n + 1] = z
      /\ \A i \in 1 .. n : r[i] = p[i]
  BY <1>1, <1>2, <1>3, AppendProperties
<1>5. \A i \in 1 .. n + 1 : i \in 1 .. n \/ i = n + 1
  OBVIOUS
<1>6. q \in Seq(T) /\ r \in Seq(T) /\ Len(q) = Len(r)
  BY <1>1, <1>4
<1>7. \A i \in 1 .. Len(q) : q[i] = r[i]
  BY <1>1, <1>4, <1>5
<1>8. q = r
  BY ONLY <1>6, <1>7, SeqEqual
<1> QED BY <1>3, <1>8

\* A node more is written after the others.
IsLonger(e, f, x, n) == e = Append(f, x) /\ n = Len(f)
IsWrittenWith(w, e, f, z) ==
    w[e] = w[f] \o z /\ w[e] \in Seq(Writing) /\ w[f] \in Seq(Writing) /\ z \in Seq(Writing)

LEMMA WrittenAppend ==
    ASSUME NEW D \in 0 .. MaxText, NEW f \in Seq(NodeOf(Nested[D])), NEW x \in NodeOf(Nested[D]),
           NEW e, NEW n, IsLonger(e, f, x, n), NEW w, w = Written
    PROVE  IsWrittenWith(w, e, f, TokensOf(x, n + 1, w))
<1>0. e = Append(f, x) /\ n = Len(f)
  BY DEF IsLonger
<1>1. /\ n \in Nat /\ DOMAIN f = 1 .. n
      /\ e \in Seq(NodeOf(Nested[D])) /\ Len(e) = n + 1 /\ e[n + 1] = x
      /\ \A i \in 1 .. n : e[i] = f[i]
  BY <1>0, AppendProperties, LenProperties
<1>2. DOMAIN e = 1 .. n + 1
  BY <1>1, LenProperties
<1>3. e \in Expressions /\ f \in Expressions
  BY <1>1, PartsAreExpressions
<1>4. PICK p, q, z : p = Parts(f, w) /\ q = Parts(e, w) /\ z = TokensOf(x, n + 1, w)
  OBVIOUS
<1>5. /\ w[f] = FlattenSeq(p) /\ w[e] = FlattenSeq(q) /\ w[f] \in Seq(Writing) /\ w[e] \in Seq(Writing)
      /\ p \in Seq(Seq(Writing)) /\ q \in Seq(Seq(Writing))
  BY <1>3, <1>4, WritingIs
<1>6. DOMAIN p = 1 .. n /\ DOMAIN q = 1 .. n + 1
  BY <1>1, <1>2, <1>4 DEF Parts
<1>8. q[n + 1] = z
  <2>1. n + 1 \in DOMAIN e
    BY <1>1, <1>2
  <2> QED BY <1>1, <1>4, <2>1 DEF Parts
<1>9. \A i \in 1 .. n : q[i] = p[i]
  <2>1. \A i \in 1 .. n : i \in DOMAIN e /\ i \in DOMAIN f
    BY <1>1, <1>2
  <2> QED BY <1>1, <1>4, <2>1 DEF Parts
<1>10. z \in Seq(Writing)
  <2>1. n + 1 \in DOMAIN q
    BY <1>1, <1>6
  <2> QED BY <1>5, <1>8, <2>1
<1>11. q = Append(p, z)
  BY <1>1, <1>5, <1>6, <1>8, <1>9, OneMore
<1>12. FlattenSeq(q) = FlattenSeq(p) \o z
  BY <1>5, <1>10, <1>11, FlattenAppend
<1> QED BY <1>4, <1>5, <1>10, <1>12 DEF IsWrittenWith

LEMMA FlattenEmpty ==
    ASSUME NEW s, s = <<>>
    PROVE  FlattenSeq(s) = <<>>
<1>1. Len(s) = 0
  OBVIOUS
<1>2. \E h : IsFlattened(s, 0, h) /\ FlattenSeq(s) = IF 0 = 0 THEN s ELSE h[0]
  BY <1>1, FlattenSteps
<1> QED BY <1>2

LEMMA NothingWritten ==
    ASSUME NEW w, w = Written, NEW e, e = <<Unparsed>>
    PROVE  w[e] = <<>>
<1>0. MaxText \in Nat /\ 0 \in 0 .. MaxText
  BY ExpressionAssumption
<1>1. PICK f : f = <<>>
  OBVIOUS
<1>2. f \in Seq(NodeOf(Nested[0])) /\ Len(f) = 0 /\ e = Append(f, Unparsed)
  BY <1>1, EmptySeq
<1>3. w[e] = w[f] \o TokensOf(Unparsed, 0 + 1, w)
  <2>1. Unparsed \in NodeOf(Nested[0])
    BY <1>0, UnparsedIsNode
  <2>2. PICK x, n : x = Unparsed /\ n = 0
    OBVIOUS
  <2>3. PICK D \in 0 .. MaxText : D = 0
    BY <1>0
  <2>4. f \in Seq(NodeOf(Nested[D])) /\ x \in NodeOf(Nested[D]) /\ IsLonger(e, f, x, n)
    BY <1>2, <2>1, <2>2, <2>3 DEF IsLonger
  <2>5. IsWrittenWith(w, e, f, TokensOf(x, n + 1, w))
    BY <2>4, WrittenAppend
  <2> QED BY <2>2, <2>5 DEF IsWrittenWith
<1>4. w[f] = <<>>
  <2>1. f \in Expressions
    BY <1>0, <1>2, PartsAreExpressions
  <2>2. w[f] = FlattenSeq(Parts(f, w)) /\ Parts(f, w) \in Seq(Seq(Writing))
    BY <2>1, WritingIs
  <2>3. DOMAIN Parts(f, w) = {}
    BY <1>1 DEF Parts
  <2>4. Parts(f, w) = <<>>
    <3>1. PICK p \in Seq(Seq(Writing)) : p = Parts(f, w)
      BY <2>2
    <3>2. Len(p) \in Nat /\ DOMAIN p = 1 .. Len(p)
      BY LenProperties
    <3>3. Len(p) = 0
      BY <2>3, <3>1, <3>2
    <3> QED BY <3>1, <3>3, EmptySeq
  <2> QED BY <2>2, <2>4, FlattenEmpty
<1>5. TokensOf(Unparsed, 1, w) = <<>> \o <<>>
  BY DEF TokensOf, Unparsed
<1>6. <<>> \o <<>> = <<>>
  BY ConcatEmptySeq, EmptySeq
<1> QED BY <1>3, <1>4, <1>5, <1>6

\* The tokens up to the last of the calls, up to the one before and so on: each is written
\* in front of the bracket that opens the next.
KeptBefore(ops, m, h, w) ==
    /\ h[1] = <<>>
    /\ \A j \in 1 .. m : h[j] \in Seq(Writing)
    /\ \A j \in 1 .. m - 1 : h[j + 1] = (h[j] \o w[Front(ops[j])]) \o <<Mark("[")>>

\* The calls have kept the tokens s.
KeptIn(ops, s, w) ==
    \E h : /\ KeptBefore(ops, Len(ops), h, w)
           /\ w[Last(ops)] \in Seq(Writing)
           /\ s = h[Len(ops)] \o w[Last(ops)]

LEMMA BracketsAre ==
    <<Mark("[")>> \in Seq(Writing) /\ <<Mark("]")>> \in Seq(Writing) /\ <<Mark(".")>> \in Seq(Writing)
<1>1. Mark("[") \in Writing /\ Mark("]") \in Writing /\ Mark(".") \in Writing
  BY DEF Writing, Token
<1> QED BY <1>1

LEMMA KeptIs ==
    ASSUME NEW ops, Len(ops) \in Nat \ {0}, NEW s, NEW w, KeptIn(ops, s, w)
    PROVE  s \in Seq(Writing)
<1>1. PICK h : /\ KeptBefore(ops, Len(ops), h, w)
               /\ w[Last(ops)] \in Seq(Writing)
               /\ s = h[Len(ops)] \o w[Last(ops)]
  BY DEF KeptIn
<1>2. Len(ops) \in 1 .. Len(ops)
  OBVIOUS
<1>3. h[Len(ops)] \in Seq(Writing)
  BY <1>1, <1>2 DEF KeptBefore
<1> QED BY <1>1, <1>3, ConcatProperties

LEMMA KeptGrows ==
    ASSUME NEW m \in Nat \ {0}, NEW ops, Len(ops) = m, NEW r, Len(r) = m,
           \A j \in 1 .. m - 1 : r[j] = ops[j],
           NEW w, NEW s, KeptIn(ops, s, w), NEW z \in Seq(Writing), w[Last(r)] = w[Last(ops)] \o z
    PROVE  KeptIn(r, s \o z, w)
<1>1. PICK h : KeptBefore(ops, m, h, w) /\ w[Last(ops)] \in Seq(Writing) /\ s = h[m] \o w[Last(ops)]
  BY DEF KeptIn
<1>2. m \in 1 .. m
  OBVIOUS
<1>3. PICK a, p : a = w[Last(ops)] /\ p = h[m]
  OBVIOUS
<1>4. a \in Seq(Writing) /\ p \in Seq(Writing) /\ s = p \o a /\ w[Last(r)] = a \o z
  BY <1>1, <1>2, <1>3 DEF KeptBefore
<1>5. (p \o a) \o z = p \o (a \o z)
  BY <1>4, ConcatAssociative
<1>6. a \o z \in Seq(Writing)
  BY <1>4, ConcatProperties
<1>7. KeptBefore(r, m, h, w)
  BY <1>1 DEF KeptBefore
<1>8. s \o z = h[m] \o w[Last(r)] /\ w[Last(r)] \in Seq(Writing)
  BY <1>3, <1>4, <1>5, <1>6
<1> QED BY <1>7, <1>8 DEF KeptIn

LEMMA KeptOpens ==
    ASSUME NEW m \in Nat \ {0}, NEW ops, Len(ops) = m, NEW q, \A j \in 1 .. m - 1 : q[j] = ops[j],
           Front(q[m]) = Last(ops), NEW r, Len(r) = m + 1, \A j \in 1 .. m : r[j] = q[j],
           NEW w, w[Last(r)] = <<>>, NEW s, KeptIn(ops, s, w)
    PROVE  KeptIn(r, s \o <<Mark("[")>>, w)
<1>1. PICK h : KeptBefore(ops, m, h, w) /\ w[Last(ops)] \in Seq(Writing) /\ s = h[m] \o w[Last(ops)]
  BY DEF KeptIn
<1>2. PICK n, o : n = m + 1 /\ o = <<Mark("[")>>
  OBVIOUS
<1>3. o \in Seq(Writing) /\ s \in Seq(Writing)
  BY <1>2, BracketsAre, KeptIs
<1>4. PICK t : t = s \o o
  OBVIOUS
<1>5. t \in Seq(Writing)
  BY <1>3, <1>4, ConcatProperties
<1>6. PICK g : g = [j \in 1 .. n |-> IF j = n THEN t ELSE h[j]]
  OBVIOUS
<1>7. g[n] = t /\ \A j \in 1 .. m : g[j] = h[j]
  <2>1. n \in 1 .. n /\ \A j \in 1 .. m : j \in 1 .. n /\ j # n
    BY <1>2
  <2> QED BY <1>6, <2>1
<1>8. KeptBefore(r, n, g, w)
  <2>1. g[1] = <<>>
    <3>1. 1 \in 1 .. m
      OBVIOUS
    <3> QED BY <1>1, <1>7, <3>1 DEF KeptBefore
  <2>2. \A j \in 1 .. n : g[j] \in Seq(Writing)
    <3>1. \A j \in 1 .. n : j = n \/ j \in 1 .. m
      BY <1>2
    <3>2. \A j \in 1 .. m : g[j] \in Seq(Writing)
      BY <1>1, <1>7 DEF KeptBefore
    <3> QED BY <1>5, <1>7, <3>1, <3>2
  <2>3. ASSUME NEW j \in 1 .. n - 1 PROVE g[j + 1] = (g[j] \o w[Front(r[j])]) \o <<Mark("[")>>
    <3>1. j \in 1 .. m /\ r[j] = q[j] /\ g[j] = h[j]
      BY <1>2, <1>7
    <3>2. CASE j = m
      <4>1. j + 1 = n /\ g[n] = t /\ Front(r[j]) = Last(ops)
        BY <1>2, <1>7, <3>1, <3>2
      <4> QED BY <1>1, <1>2, <1>4, <3>1, <3>2, <4>1
    <3>3. CASE j # m
      <4>1. j \in 1 .. m - 1 /\ j + 1 \in 1 .. m
        BY <3>1, <3>3
      <4>2. h[j + 1] = (h[j] \o w[Front(ops[j])]) \o <<Mark("[")>>
        BY <1>1, <4>1 DEF KeptBefore
      <4>3. r[j] = ops[j] /\ g[j + 1] = h[j + 1]
        BY <1>7, <3>1, <4>1
      <4> QED BY <3>1, <4>2, <4>3
    <3> QED BY <3>2, <3>3
  <2> QED BY <2>1, <2>2, <2>3 DEF KeptBefore
<1>9. t = g[n] \o w[Last(r)] /\ w[Last(r)] \in Seq(Writing)
  <2>1. t \o <<>> = t
    BY <1>5, ConcatEmptySeq
  <2>2. <<>> \in Seq(Writing)
    BY EmptySeq
  <2> QED BY <1>7, <2>1, <2>2
<1> QED BY <1>2, <1>4, <1>8, <1>9 DEF KeptIn

LEMMA JoinIs ==
    ASSUME NEW T, NEW x \in Seq(T), NEW y \in Seq(T)
    PROVE  x \o y \in Seq(T)
BY ConcatProperties

Associates(x, y, z) == (x \o y) \o z = x \o (y \o z)

LEMMA JoinAssociates ==
    ASSUME NEW T, NEW x \in Seq(T), NEW y \in Seq(T), NEW z \in Seq(T)
    PROVE  Associates(x, y, z)
<1>1. (x \o y) \o z = x \o (y \o z)
  BY ConcatAssociative
<1> QED BY <1>1 DEF Associates

Regroups(p, f, o, i, c) == (((p \o f) \o o) \o i) \o c = p \o (f \o ((o \o i) \o c))

LEMMA Regrouped ==
    ASSUME NEW T, NEW p \in Seq(T), NEW f \in Seq(T), NEW o \in Seq(T), NEW i \in Seq(T), NEW c \in Seq(T)
    PROVE  Regroups(p, f, o, i, c)
<1>1. PICK pf, oi : pf = p \o f /\ oi = o \o i
  OBVIOUS
<1>2. pf \in Seq(T) /\ oi \in Seq(T)
  BY <1>1, JoinIs
<1>3. PICK x : x = oi \o c
  OBVIOUS
<1>4. x \in Seq(T)
  BY <1>2, <1>3, JoinIs
<1>5. Associates(pf, o, i) /\ Associates(pf, oi, c) /\ Associates(p, f, x)
  BY <1>2, <1>4, JoinAssociates
<1>6. (pf \o o) \o i = pf \o oi
  BY <1>1, <1>5 DEF Associates
<1>7. (pf \o oi) \o c = pf \o x
  BY <1>3, <1>5 DEF Associates
<1>8. pf \o x = p \o (f \o x)
  BY <1>1, <1>5 DEF Associates
<1> QED BY <1>1, <1>3, <1>6, <1>7, <1>8 DEF Regroups

LEMMA KeptCloses ==
    ASSUME NEW m \in Nat, m > 1, NEW ops, Len(ops) = m, NEW r, Len(r) = m - 1,
           \A j \in 1 .. m - 2 : r[j] = ops[j], NEW w, NEW f \in Seq(Writing), f = w[Front(ops[m - 1])],
           w[r[m - 1]] = f \o ((<<Mark("[")>> \o w[ops[m]]) \o <<Mark("]")>>),
           NEW s, KeptIn(ops, s, w)
    PROVE  KeptIn(r, s \o <<Mark("]")>>, w)
<1>0. Last(ops) = ops[m] /\ Last(r) = r[m - 1]
  BY DEF Last
<1>1. PICK h : KeptBefore(ops, m, h, w) /\ w[ops[m]] \in Seq(Writing) /\ s = h[m] \o w[ops[m]]
  BY <1>0 DEF KeptIn
<1>2. PICK o, c, i, n : o = <<Mark("[")>> /\ c = <<Mark("]")>> /\ i = w[ops[m]] /\ n = m - 1
  OBVIOUS
<1>3. PICK p : p = h[n]
  OBVIOUS
<1>4. n \in 1 .. m - 1 /\ n \in 1 .. m /\ n + 1 = m /\ n \in Nat
  BY <1>2
<1>5. h[m] = (p \o f) \o o /\ p \in Seq(Writing)
  <2>1. h[n + 1] = (h[n] \o w[Front(ops[n])]) \o <<Mark("[")>>
    BY <1>1, <1>4 DEF KeptBefore
  <2>2. h[n] \in Seq(Writing)
    BY <1>1, <1>4 DEF KeptBefore
  <2> QED BY <1>2, <1>3, <1>4, <2>1, <2>2
<1>6. o \in Seq(Writing) /\ c \in Seq(Writing) /\ i \in Seq(Writing)
  BY <1>1, <1>2, BracketsAre
<1>7. s = ((p \o f) \o o) \o i
  BY <1>1, <1>2, <1>5
<1>8. Regroups(p, f, o, i, c)
  <2>1. p \in Seq(Writing) /\ f \in Seq(Writing) /\ o \in Seq(Writing) /\ i \in Seq(Writing) /\ c \in Seq(Writing)
    BY <1>5, <1>6
  <2> QED BY ONLY <2>1, Regrouped
<1>9. w[Last(r)] = f \o ((o \o i) \o c)
  BY <1>0, <1>2
<1>10. w[Last(r)] \in Seq(Writing)
  <2>1. o \o i \in Seq(Writing)
    BY <1>6, ConcatProperties
  <2>2. (o \o i) \o c \in Seq(Writing)
    BY <1>6, <2>1, ConcatProperties
  <2>3. f \o ((o \o i) \o c) \in Seq(Writing)
    BY <2>2, ConcatProperties
  <2> QED BY <1>9, <2>3
<1>11. KeptBefore(r, n, h, w)
  <2>1. \A j \in 1 .. n : j \in 1 .. m
    BY <1>4
  <2>2. \A j \in 1 .. n - 1 : j \in 1 .. m - 1 /\ r[j] = ops[j]
    BY <1>2, <1>4
  <2> QED BY <1>1, <2>1, <2>2 DEF KeptBefore
<1>12. s \o c = h[n] \o w[Last(r)]
  BY <1>3, <1>7, <1>8, <1>9 DEF Regroups
<1> QED BY <1>2, <1>10, <1>11, <1>12 DEF KeptIn

\* What a token is in the text, where spaces and the end are nothing.
Piece(c) == IF c.kind \in {" ", "end"} THEN <<>> ELSE <<c>>
Pieces(t) == [i \in DOMAIN t |-> Piece(t[i])]
TokensIn(t) == FlattenSeq(Pieces(t))

LEMMA PieceIs ==
    ASSUME NEW c \in Token
    PROVE  /\ Piece(c) \in Seq(Writing)
           /\ IsSpace(c) \/ c.kind = "end" => Piece(c) = <<>>
           /\ c.kind \in Operand \cup {".", "[", "]"} => Piece(c) = <<c>>
           /\ c.kind \in {".", "[", "]"} => c = Mark(c.kind)
<1>1. c \in Writing
  BY DEF Writing
<1>2. <<c>> \in Seq(Writing) /\ <<>> \in Seq(Writing)
  BY <1>1, EmptySeq
<1>3. ASSUME IsSpace(c) \/ c.kind = "end" PROVE Piece(c) = <<>>
  BY <1>3 DEF Piece, IsSpace
<1>4. ASSUME c.kind \in Operand \cup {".", "[", "]"} PROVE Piece(c) = <<c>>
  BY <1>4 DEF Piece, Operand
<1>5. ASSUME c.kind \in {".", "[", "]"} PROVE c = Mark(c.kind)
  <2>1. \A token \in OperandToken : token.kind \in Operand
    BY ExpressionAssumption DEF Operand
  <2>2. c \notin OperandToken
    BY <1>5, <2>1 DEF Operand
  <2>3. PICK k : c = Mark(k)
    BY <2>2 DEF Token
  <2>4. c.kind = k
    BY <2>3 DEF Mark
  <2> QED BY <2>3, <2>4
<1>6. Piece(c) \in Seq(Writing)
  BY <1>2 DEF Piece
<1> QED BY <1>3, <1>4, <1>5, <1>6

LEMMA PiecesAre ==
    ASSUME NEW t, NEW n, IsText(t, n)
    PROVE  Pieces(t) \in Seq(Seq(Writing)) /\ DOMAIN Pieces(t) = 1 .. n /\ TokensIn(t) \in Seq(Writing)
<1>1. n \in Nat /\ t \in Seq(Token) /\ Len(t) = n /\ DOMAIN t = 1 .. n
  BY DEF IsText
<1>2. \A i \in 1 .. n : t[i] \in Token
  BY <1>1, ElementOfSeq
<1>3. \A i \in 1 .. n : Piece(t[i]) \in Seq(Writing)
  BY <1>2, PieceIs
<1>4. Pieces(t) \in Seq(Seq(Writing)) /\ DOMAIN Pieces(t) = 1 .. n
  BY <1>1, <1>3, IsASeq DEF Pieces
<1> QED BY <1>4, FlattenIs DEF TokensIn

LEMMA TokensGrow ==
    ASSUME NEW t, NEW n \in Nat, NEW c \in Token, NEW u, Grows(u, t, n, c)
    PROVE  TokensIn(u) = TokensIn(t) \o Piece(c) /\ TokensIn(t) \in Seq(Writing)
<1>1. IsText(t, n) /\ IsText(u, n + 1) /\ u[n + 1] = c /\ \A i \in 1 .. n : u[i] = t[i]
  BY DEF Grows
<1>2. PICK p, q, z : p = Pieces(t) /\ q = Pieces(u) /\ z = Piece(c)
  OBVIOUS
<1>3. /\ p \in Seq(Seq(Writing)) /\ DOMAIN p = 1 .. n /\ q \in Seq(Seq(Writing)) /\ DOMAIN q = 1 .. n + 1
      /\ TokensIn(t) \in Seq(Writing)
  BY <1>1, <1>2, PiecesAre
<1>4. q[n + 1] = z /\ \A i \in 1 .. n : q[i] = p[i]
  <2>1. DOMAIN t = 1 .. n /\ DOMAIN u = 1 .. n + 1
    BY <1>1 DEF IsText
  <2>2. n + 1 \in 1 .. n + 1 /\ \A i \in 1 .. n : i \in 1 .. n + 1
    OBVIOUS
  <2> QED BY <1>1, <1>2, <2>1, <2>2 DEF Pieces
<1>5. q = Append(p, z)
  BY <1>3, <1>4, OneMore
<1>6. z \in Seq(Writing)
  BY <1>2, PieceIs
<1>7. FlattenSeq(q) = FlattenSeq(p) \o z
  BY <1>3, <1>5, <1>6, FlattenAppend
<1> QED BY <1>2, <1>3, <1>7 DEF TokensIn

-----------------------------------------------------------------------------
(* The calls keep what is read *)

Keeping(t, ops, w) ==
    /\ KeptIn(ops, TokensIn(t), w)
    /\ Last(Last(ops)).type = "Undefined" => Last(Last(ops)) = Unparsed

LEMMA FrontAndLast ==
    ASSUME NEW T, NEW s \in Seq(T), Len(s) > 0
    PROVE  s = Append(Front(s), Last(s)) /\ Front(s) \in Seq(T) /\ Last(s) \in T
<1>1. PICK n, f, x : n = Len(s) - 1 /\ f = Front(s) /\ x = Last(s)
  OBVIOUS
<1>2. /\ f \in Seq(T) /\ Len(f) = n /\ n \in Nat /\ \A i \in 1 .. n : f[i] = s[i]
      /\ x = s[n + 1] /\ x \in T /\ Len(s) = n + 1
  <2>1. /\ f \in Seq(T) /\ Len(f) = Len(s) - 1 /\ Len(s) \in Nat \ {0}
        /\ \A i \in 1 .. Len(s) - 1 : f[i] = s[i]
        /\ x = s[Len(s)] /\ x \in T
    BY <1>1, FrontIs
  <2>2. n \in Nat /\ Len(s) = n + 1
    BY <1>1, <2>1
  <2> QED BY <1>1, <2>1, <2>2
<1>3. DOMAIN f = 1 .. n /\ DOMAIN s = 1 .. n + 1
  BY <1>2, LenProperties
<1>4. s = Append(f, x)
  BY <1>2, <1>3, OneMore
<1> QED BY <1>1, <1>2, <1>4

LEMMA FrontOfAppend ==
    ASSUME NEW T, NEW s \in Seq(T), NEW x \in T, NEW r, r = Append(s, x)
    PROVE  Front(r) = s /\ r \in Seq(T) /\ Len(r) = Len(s) + 1
<1>1. PICK n \in Nat : n = Len(s)
  BY LenProperties
<1>2. /\ r \in Seq(T) /\ Len(r) = n + 1
      /\ \A i \in 1 .. n : r[i] = s[i]
  BY <1>1, AppendProperties
<1>3. PICK f : f = Front(r)
  OBVIOUS
<1>4. f \in Seq(T) /\ Len(f) = n /\ \A i \in 1 .. n : f[i] = r[i]
  <2>1. r \in Seq(T) /\ Len(r) > 0
    BY <1>2
  <2>2. f \in Seq(T) /\ Len(f) = Len(r) - 1 /\ \A i \in 1 .. Len(r) - 1 : f[i] = r[i]
    BY ONLY <1>3, <2>1, FrontIs
  <2>3. Len(r) - 1 = n
    BY <1>2
  <2> QED BY <2>2, <2>3
<1>5. f = s
  <2>1. Len(f) = Len(s) /\ \A i \in 1 .. Len(f) : f[i] = s[i]
    BY <1>1, <1>2, <1>4
  <2>2. s \in Seq(T) /\ f \in Seq(T)
    BY <1>4
  <2> QED BY ONLY <2>1, <2>2, SeqEqual
<1> QED BY <1>1, <1>2, <1>3, <1>5

\* The innermost call with another expression.
IsNewCall(r, ops, e, m) ==
    Len(r) = m /\ Last(r) = e /\ r[m] = e /\ \A j \in 1 .. m - 1 : r[j] = ops[j]

LEMMA LastCallIs ==
    ASSUME NEW d \in 0 .. MaxText, NEW ops \in Stack(d), AreCalls(ops),
           NEW e \in Seq(NodeOf(Nested[d])), NEW r, r = Replaced(ops, e)
    PROVE  r \in Stack(d) /\ IsNewCall(r, ops, e, Len(ops))
<1>1. PICK T : T = Nested[d + 1]
  OBVIOUS
<1>2. ops \in Seq(T) /\ e \in T /\ Len(ops) > 0
  BY <1>1, NestedIs DEF Stack, AreCalls
<1>3. r \in Seq(T) /\ IsReplaced(r, ops, e)
  BY ONLY r = Replaced(ops, e), <1>2, ReplaceIs
<1> QED BY <1>1, <1>3 DEF IsReplaced, Stack, IsNewCall

\* The text is longer by z, and so is what the innermost call has read.
LEMMA KeepsMore ==
    ASSUME NEW d \in 0 .. MaxText, NEW ops \in Stack(d), AreCalls(ops),
           NEW e \in Seq(NodeOf(Nested[d])), NEW r, r = Replaced(ops, e),
           NEW w, NEW s, KeptIn(ops, s, w), NEW z \in Seq(Writing), w[e] = w[Last(ops)] \o z
    PROVE  KeptIn(r, s \o z, w)
<1>1. PICK m \in Nat \ {0} : m = Len(ops)
  BY CallsAre
<1>2. Len(r) = m /\ Last(r) = e /\ \A j \in 1 .. m - 1 : r[j] = ops[j]
  BY <1>1, LastCallIs DEF IsNewCall
<1> QED BY <1>1, <1>2, KeptGrows

\* The node with the kind and the value of a token.
IsNamed(x, n, c) == x = [n EXCEPT !.type = c.kind, !.value = c.value]

LEMMA KeepsOperand ==
    ASSUME NEW d \in 0 .. MaxText, NEW ops \in Stack(d), AreCalls(ops),
           NEW t, NEW n \in Nat, NEW c \in Token, c.kind \in Operand, NEW u, Grows(u, t, n, c),
           NEW w, w = Written, Keeping(t, ops, w), Last(Last(ops)).type = "Undefined",
           NEW x, IsNamed(x, Last(Last(ops)), c),
           NEW r, r = Replaced(ops, Replaced(Last(ops), x))
    PROVE  Keeping(u, r, w)
<1>1. PICK T : T = NodeOf(Nested[d])
  OBVIOUS
<1>2. PICK e : e = Last(ops)
  OBVIOUS
<1>3. e \in Seq(T) /\ Len(e) > 0 /\ Last(e) = Unparsed /\ Unparsed \in T
  <2>1. e \in Seq(T) /\ Len(e) > 0
    BY <1>1, <1>2, CallsAre
  <2>2. Last(e) = Unparsed
    BY <1>2 DEF Keeping
  <2>3. Unparsed \in T
    BY <1>1, UnparsedIsNode
  <2> QED BY <2>1, <2>2, <2>3
<1>4. PICK f, k : f = Front(e) /\ k = Len(f)
  OBVIOUS
<1>5. f \in Seq(T) /\ e = Append(f, Unparsed) /\ k \in Nat
  BY <1>3, <1>4, FrontAndLast, LenProperties
<1>6. c \in OperandToken /\ c = [kind |-> c.kind, value |-> c.value]
  BY TokenKinds, ExpressionAssumption
<1>7. x = [Unparsed EXCEPT !.type = c.kind, !.value = c.value]
  BY <1>2, <1>3 DEF IsNamed
<1>8. x \in T
  <2>1. x = [type |-> c.kind, value |-> c.value, accessor |-> <<>>]
    BY <1>7 DEF Unparsed
  <2>2. <<>> \in Nested[d]
    BY <1>1, <1>3 DEF NodeOf, Unparsed
  <2>3. c.value \in {token.value : token \in OperandToken}
    BY <1>6
  <2>4. PICK y : y = [type |-> c.kind, value |-> c.value, accessor |-> <<>>]
    OBVIOUS
  <2>5. y \in NodeOf(Nested[d])
    BY ONLY c.kind \in Operand, <2>2, <2>3, <2>4 DEF NodeOf
  <2> QED BY <1>1, <2>1, <2>4, <2>5
<1>9. PICK g : g = Replaced(e, x)
  OBVIOUS
<1>10. g = Append(f, x) /\ g \in Seq(T) /\ Last(g) = x
  <2>1. g = Append(f, x)
    BY <1>4, <1>9 DEF Replaced
  <2>2. g \in Seq(T) /\ IsReplaced(g, e, x)
    BY <1>3, <1>8, <1>9, ReplaceIs
  <2> QED BY <2>1, <2>2 DEF IsReplaced
<1>11. PICK a, z : a = (IF k + 1 = 1 THEN <<>> ELSE <<Mark(".")>>) /\ z = <<c>>
  OBVIOUS
<1>12. a \in Seq(Writing) /\ z \in Seq(Writing) /\ z = Piece(c)
  <2>1. Piece(c) = <<c>> /\ Piece(c) \in Seq(Writing)
    BY PieceIs
  <2> QED BY <1>11, <2>1, BracketsAre, EmptySeq
<1>13. TokensOf(Unparsed, k + 1, w) = a
  <2>1. TokensOf(Unparsed, k + 1, w) = a \o <<>>
    BY <1>11 DEF TokensOf, Unparsed
  <2> QED BY <1>12, <2>1, ConcatEmptySeq
<1>14. TokensOf(x, k + 1, w) = a \o z
  <2>1. x.accessor = <<>> /\ x.type = c.kind /\ x.value = c.value /\ x.type # "Undefined"
    BY <1>7 DEF Unparsed, Operand
  <2>2. [kind |-> x.type, value |-> x.value] = c
    BY <1>6, <2>1
  <2> QED BY <1>11, <2>1, <2>2 DEF TokensOf
<1>15. w[e] = w[f] \o a /\ w[f] \in Seq(Writing)
  <2>1. IsLonger(e, f, Unparsed, k)
    BY <1>4, <1>5 DEF IsLonger
  <2>2. IsWrittenWith(w, e, f, TokensOf(Unparsed, k + 1, w))
    BY <1>1, <1>3, <1>5, <2>1, WrittenAppend
  <2> QED BY <1>13, <2>2 DEF IsWrittenWith
<1>16. w[g] = w[f] \o (a \o z)
  <2>1. IsLonger(g, f, x, k)
    BY <1>4, <1>10 DEF IsLonger
  <2>2. IsWrittenWith(w, g, f, TokensOf(x, k + 1, w))
    BY <1>1, <1>5, <1>8, <2>1, WrittenAppend
  <2> QED BY <1>14, <2>2 DEF IsWrittenWith
<1>17. w[g] = w[e] \o z
  <2>1. Associates(w[f], a, z)
    BY <1>12, <1>15, JoinAssociates
  <2> QED BY <1>15, <1>16, <2>1 DEF Associates
<1>18. TokensIn(u) = TokensIn(t) \o z
  BY <1>12, TokensGrow
<1>19. KeptIn(r, TokensIn(t) \o z, w)
  <2>1. r = Replaced(ops, g) /\ g \in Seq(NodeOf(Nested[d])) /\ w[g] = w[Last(ops)] \o z
    BY <1>1, <1>2, <1>9, <1>10, <1>17
  <2> QED BY <1>12, <2>1, KeepsMore DEF Keeping
<1>20. Last(Last(r)).type # "Undefined"
  <2>1. Last(r) = g
    <3>1. r = Replaced(ops, g) /\ g \in Seq(NodeOf(Nested[d]))
      BY <1>1, <1>2, <1>9, <1>10
    <3>2. IsNewCall(r, ops, g, Len(ops))
      BY <3>1, LastCallIs
    <3> QED BY <3>2 DEF IsNewCall
  <2>2. x.type = c.kind
    BY <1>7 DEF Unparsed
  <2> QED BY <1>10, <2>1, <2>2 DEF Operand
<1> QED BY <1>18, <1>19, <1>20 DEF Keeping

LEMMA KeepsDot ==
    ASSUME NEW d \in 0 .. MaxText, NEW ops \in Stack(d), AreCalls(ops),
           NEW t, NEW n \in Nat, NEW c \in Token, c.kind = ".", NEW u, Grows(u, t, n, c),
           NEW w, w = Written, Keeping(t, ops, w),
           NEW r, r = Replaced(ops, Append(Last(ops), Unparsed))
    PROVE  Keeping(u, r, w)
<1>1. PICK e, k : e = Last(ops) /\ k = Len(e)
  OBVIOUS
<1>2. e \in Seq(NodeOf(Nested[d])) /\ k \in Nat \ {0} /\ Unparsed \in NodeOf(Nested[d])
  BY <1>1, CallsAre, UnparsedIsNode
<1>3. PICK g : g = Append(e, Unparsed)
  OBVIOUS
<1>4. g \in Seq(NodeOf(Nested[d])) /\ Last(g) = Unparsed
  <2>1. g \in Seq(NodeOf(Nested[d])) /\ Len(g) = k + 1 /\ g[k + 1] = Unparsed
    BY <1>1, <1>2, <1>3, AppendProperties
  <2> QED BY <2>1 DEF Last
<1>5. PICK z : z = <<c>>
  OBVIOUS
<1>6. z = Piece(c) /\ z \in Seq(Writing) /\ c = Mark(".")
  BY <1>5, PieceIs
<1>7. TokensOf(Unparsed, k + 1, w) = z
  <2>1. k + 1 # 1
    BY <1>2
  <2>2. TokensOf(Unparsed, k + 1, w) = z \o <<>>
    BY <1>5, <1>6, <2>1 DEF TokensOf, Unparsed
  <2> QED BY <1>6, <2>2, ConcatEmptySeq
<1>8. w[g] = w[e] \o z
  <2>1. IsLonger(g, e, Unparsed, k)
    BY <1>1, <1>3 DEF IsLonger
  <2>2. IsWrittenWith(w, g, e, TokensOf(Unparsed, k + 1, w))
    BY <1>2, <2>1, WrittenAppend
  <2> QED BY <1>7, <2>2 DEF IsWrittenWith
<1>9. TokensIn(u) = TokensIn(t) \o z
  BY <1>6, TokensGrow
<1>10. KeptIn(r, TokensIn(t) \o z, w)
  <2>1. r = Replaced(ops, g) /\ g \in Seq(NodeOf(Nested[d])) /\ w[g] = w[Last(ops)] \o z
    BY <1>1, <1>3, <1>4, <1>8
  <2> QED BY <1>6, <2>1, KeepsMore DEF Keeping
<1>11. Last(Last(r)) = Unparsed
  <2>1. r = Replaced(ops, g)
    BY <1>1, <1>3
  <2>2. IsNewCall(r, ops, g, Len(ops))
    BY <1>4, <2>1, LastCallIs
  <2> QED BY <1>4, <2>2 DEF IsNewCall
<1> QED BY <1>9, <1>10, <1>11 DEF Keeping

LEMMA KeepsOpen ==
    ASSUME NEW d \in 0 .. MaxText, NEW ops \in Stack(d), AreCalls(ops),
           NEW t, NEW n \in Nat, NEW c \in Token, c.kind = "[", NEW u, Grows(u, t, n, c),
           NEW w, w = Written, Keeping(t, ops, w),
           NEW x, x = [Unparsed EXCEPT !.type = "Identifier"],
           NEW q, q = Replaced(ops, Append(Last(ops), x)), NEW r, r = Append(q, <<Unparsed>>)
    PROVE  Keeping(u, r, w)
<1>1. PICK T : T = NodeOf(Nested[d])
  OBVIOUS
<1>2. PICK e, g : e = Last(ops) /\ g = Append(e, x)
  OBVIOUS
<1>3. e \in Seq(T) /\ x \in T /\ Unparsed \in T
  BY <1>1, <1>2, CallsAre, UnparsedIsNode
<1>4. Front(g) = e /\ g \in Seq(T)
  BY <1>2, <1>3, FrontOfAppend
<1>5. PICK m \in Nat \ {0} : m = Len(ops)
  BY CallsAre
<1>6. /\ q \in Stack(d) /\ Len(q) = m /\ q[m] = g
      /\ \A j \in 1 .. m - 1 : q[j] = ops[j]
  <2>1. q = Replaced(ops, g) /\ g \in Seq(NodeOf(Nested[d]))
    BY <1>1, <1>2, <1>4
  <2>2. q \in Stack(d) /\ IsNewCall(q, ops, g, Len(ops))
    BY <2>1, LastCallIs
  <2> QED BY <1>5, <2>2 DEF IsNewCall
<1>7. PICK i : i = <<Unparsed>>
  OBVIOUS
<1>8. i \in Nested[d + 1] /\ Last(i) = Unparsed
  <2>1. i \in Seq(T) /\ Len(i) = 1 /\ i[1] = Unparsed
    BY <1>3, <1>7
  <2> QED BY <1>1, <2>1, NestedIs DEF Last
<1>9. Len(r) = m + 1 /\ r[m + 1] = i /\ \A j \in 1 .. m : r[j] = q[j]
  <2>1. PICK U : U = Nested[d + 1]
    OBVIOUS
  <2>2. q \in Seq(U) /\ i \in U /\ r = Append(q, i)
    BY <1>6, <1>7, <1>8, <2>1 DEF Stack
  <2>3. Len(r) = Len(q) + 1 /\ r[Len(q) + 1] = i /\ \A j \in 1 .. Len(q) : r[j] = q[j]
    BY ONLY <2>2, AppendProperties
  <2> QED BY <1>6, <2>3
<1>10. Last(r) = i
  BY <1>9 DEF Last
<1>11. w[Last(r)] = <<>>
  BY <1>7, <1>10, NothingWritten
<1>12. KeptIn(r, TokensIn(t) \o <<Mark("[")>>, w)
  <2>1. Front(q[m]) = Last(ops) /\ KeptIn(ops, TokensIn(t), w)
    BY <1>2, <1>4, <1>6 DEF Keeping
  <2>2. Len(ops) = m /\ (\A j \in 1 .. m - 1 : q[j] = ops[j]) /\ Len(r) = m + 1 /\ \A j \in 1 .. m : r[j] = q[j]
    BY <1>5, <1>6, <1>9
  <2>3. KeptIn(ops, TokensIn(t), w) /\ w[Last(r)] = <<>> /\ Front(q[m]) = Last(ops) /\ m \in Nat \ {0}
    BY <1>11, <2>1
  <2> QED BY ONLY <2>2, <2>3, KeptOpens
<1>13. TokensIn(u) = TokensIn(t) \o <<Mark("[")>>
  <2>1. Piece(c) = <<c>> /\ c = Mark("[")
    BY PieceIs
  <2> QED BY <2>1, TokensGrow
<1>14. Last(Last(r)) = Unparsed
  BY <1>8, <1>10
<1> QED BY <1>12, <1>13, <1>14 DEF Keeping

IsReturned(r, ops, m, g) == Len(r) = m - 1 /\ r[m - 1] = g /\ \A j \in 1 .. m - 2 : r[j] = ops[j]

LEMMA CallReturns ==
    ASSUME NEW d \in 0 .. MaxText - 1, NEW ops \in Stack(d), NEW m, m = Len(ops), m > 1,
           Len(ops[m - 1]) > 0
    PROVE  IsReturned(Closed(ops), ops, m, Replaced(ops[m - 1], WithAccessor(Last(ops[m - 1]), ops[m])))
<1>1. Closed(ops)[m - 1] = Replaced(ops[m - 1], WithAccessor(Last(ops[m - 1]), ops[m]))
  BY ClosedIs
<1>2. Len(Closed(ops)) = m - 1 /\ \A j \in 1 .. m - 2 : Closed(ops)[j] = ops[j]
  BY ClosedIs
<1> QED BY <1>1, <1>2 DEF IsReturned

\* What is kept when the innermost call returns.
LEMMA KeptWhenClosed ==
    ASSUME NEW d \in 0 .. MaxText - 1, NEW ops \in Stack(d), AreCalls(ops), Len(ops) > 1,
           NEW r, r = Closed(ops), NEW w, w = Written, NEW s, KeptIn(ops, s, w)
    PROVE  KeptIn(r, s \o <<Mark("]")>>, w)
<1>0. MaxText \in Nat /\ d \in 0 .. MaxText /\ d + 1 \in 0 .. MaxText
  BY ExpressionAssumption
<1>1. PICK m \in Nat : m = Len(ops) /\ m > 1
  BY <1>0, CallsAre
<1>2. m - 1 \in 1 .. m /\ m \in 1 .. m
  BY <1>1
<1>3. PICK outer, inner : outer = ops[m - 1] /\ inner = ops[m]
  OBVIOUS
<1>4. /\ outer \in Seq(NodeOf(Nested[d])) /\ Len(outer) > 0 /\ inner \in Seq(NodeOf(Nested[d]))
      /\ Len(inner) > 0
  <2>1. \A j \in 1 .. m : ops[j] \in Seq(NodeOf(Nested[d])) /\ Len(ops[j]) \in Nat \ {0}
    BY <1>0, <1>1, CallsAre
  <2>2. \A k \in Nat \ {0} : k > 0
    OBVIOUS
  <2> QED BY <1>2, <1>3, <2>1, <2>2
<1>5. PICK x, g : x = WithAccessor(Last(outer), inner) /\ g = Replaced(outer, x)
  OBVIOUS
<1>6. /\ Len(r) = m - 1 /\ r[m - 1] = g
      /\ \A j \in 1 .. m - 2 : r[j] = ops[j]
  <2>1. IsReturned(Closed(ops), ops, m, Replaced(ops[m - 1], WithAccessor(Last(ops[m - 1]), ops[m])))
    BY <1>1, <1>3, <1>4, CallReturns
  <2>2. IsReturned(r, ops, m, g)
    BY <1>3, <1>5, <2>1
  <2> QED BY <2>2 DEF IsReturned
<1>7. PICK D, T : D = d + 1 /\ T = NodeOf(Nested[D])
  OBVIOUS
<1>8. D \in 0 .. MaxText /\ NodeOf(Nested[d]) \subseteq T /\ Nested[D] = Seq(NodeOf(Nested[d]))
  BY <1>0, <1>7, NestedGrows, NestedIs
<1>9. outer \in Seq(T) /\ inner \in Nested[D]
  BY <1>4, <1>8, SeqMonotonic
<1>10. PICK f, k : f = Front(outer) /\ k = Len(f)
  OBVIOUS
<1>11. f \in Seq(T) /\ Last(outer) \in T
  BY <1>4, <1>9, <1>10, FrontAndLast
<1>12. x \in T /\ x.accessor = inner /\ inner # <<>>
  <2>1. inner # <<>>
    <3>1. PICK z : z = <<>>
      OBVIOUS
    <3>2. Len(z) = 0
      BY <3>1
    <3>3. inner # z
      BY <1>4, <3>2
    <3> QED BY <3>1, <3>3
  <2>2. x \in T /\ x.accessor = inner
    BY <1>5, <1>7, <1>9, <1>11 DEF NodeOf, WithAccessor
  <2> QED BY <2>1, <2>2
<1>13. w[g] = w[f] \o ((<<Mark("[")>> \o w[inner]) \o <<Mark("]")>>) /\ w[f] \in Seq(Writing)
  <2>1. IsLonger(g, f, x, k)
    BY <1>5, <1>10 DEF IsLonger, Replaced
  <2>2. IsWrittenWith(w, g, f, TokensOf(x, k + 1, w))
    BY <1>7, <1>8, <1>11, <1>12, <2>1, WrittenAppend
  <2>3. TokensOf(x, k + 1, w) = (<<Mark("[")>> \o w[inner]) \o <<Mark("]")>>
    BY <1>12 DEF TokensOf
  <2> QED BY <2>2, <2>3 DEF IsWrittenWith
<1>14. PICK p : p = w[f]
  OBVIOUS
<1>15. /\ p \in Seq(Writing) /\ p = w[Front(ops[m - 1])]
       /\ w[r[m - 1]] = p \o ((<<Mark("[")>> \o w[ops[m]]) \o <<Mark("]")>>)
  BY <1>3, <1>6, <1>10, <1>13, <1>14
<1> QED BY <1>1, <1>6, <1>15, KeptCloses

LEMMA KeepsClose ==
    ASSUME NEW d \in 0 .. MaxText - 1, NEW ops \in Stack(d), AreCalls(ops), Len(ops) > 1,
           NEW t, NEW n \in Nat, NEW c \in Token, c.kind = "]", NEW u, Grows(u, t, n, c),
           NEW w, w = Written, Keeping(t, ops, w), NEW r, r = Closed(ops)
    PROVE  Keeping(u, r, w)
<1>1. KeptIn(r, TokensIn(t) \o <<Mark("]")>>, w)
  BY KeptWhenClosed DEF Keeping
<1>2. TokensIn(u) = TokensIn(t) \o <<Mark("]")>>
  <2>1. Piece(c) = <<c>> /\ c = Mark("]")
    BY PieceIs
  <2> QED BY <2>1, TokensGrow
<1>3. Last(Last(r)).type # "Undefined"
  BY CallClosed
<1> QED BY <1>1, <1>2, <1>3 DEF Keeping

-----------------------------------------------------------------------------
(* The text when it ends *)

Closers(k) == [i \in 1 .. k |-> Mark("]")]

LEMMA ClosersAre ==
    ASSUME NEW k \in Nat
    PROVE  /\ Closers(k) \in Seq(Writing) /\ Closers(0) = <<>>
           /\ Closers(k + 1) = Closers(k) \o <<Mark("]")>>
<1>1. Mark("]") \in Writing
  BY DEF Writing, Token
<1>2. ASSUME NEW n \in Nat PROVE Closers(n) \in Seq(Writing) /\ DOMAIN Closers(n) = 1 .. n
  BY <1>1, IsASeq DEF Closers
<1>3. Closers(0) = <<>>
  <2>1. PICK z \in Seq(Writing) : z = Closers(0)
    BY <1>2
  <2>2. DOMAIN z = 1 .. Len(z) /\ Len(z) \in Nat /\ DOMAIN z = 1 .. 0
    BY <1>2, <2>1, LenProperties
  <2>3. Len(z) = 0
    BY <2>2
  <2> QED BY <2>1, <2>3, EmptySeq
<1>4. PICK p, q, z : p = Closers(k) /\ q = Closers(k + 1) /\ z = Mark("]")
  OBVIOUS
<1>5. p \in Seq(Writing) /\ q \in Seq(Writing) /\ DOMAIN p = 1 .. k /\ DOMAIN q = 1 .. k + 1
  BY <1>2, <1>4
<1>6. q[k + 1] = z /\ \A i \in 1 .. k : q[i] = p[i]
  <2>1. k + 1 \in 1 .. k + 1 /\ \A i \in 1 .. k : i \in 1 .. k + 1
    OBVIOUS
  <2> QED BY <1>4, <2>1 DEF Closers
<1>7. q = Append(p, z)
  BY <1>5, <1>6, OneMore
<1>8. Append(p, z) = p \o <<z>>
  BY <1>1, <1>4, <1>5, AppendIsConcat
<1> QED BY <1>2, <1>3, <1>4, <1>7, <1>8

\* All calls return what they have kept, with a bracket for each but the first.
LEMMA KeptAtEnd ==
    ASSUME NEW d \in 0 .. MaxText, NEW ops, ops = open, ops \in Stack(d), AreCalls(ops),
           d + Len(ops) - 1 <= MaxText, NEW w, w = Written, NEW s, KeptIn(ops, s, w)
    PROVE  w[AllClosed[1]] = s \o Closers(Len(ops) - 1)
<1>0. MaxText \in Nat
  BY ExpressionAssumption
<1>1. PICK m \in Nat \ {0} : m = Len(ops)
  BY CallsAre
<1>2. PICK h : /\ h[0] = ops /\ AllClosed = h[m - 1]
               /\ \A i \in 1 .. m - 1 : h[i] = Closed(h[i - 1])
  BY <1>1, AllClosedIs
<1>10. s \in Seq(Writing)
  BY <1>1, KeptIs
<1> DEFINE Good(k) == /\ h[k] \in Stack(d + k) /\ AreCalls(h[k]) /\ Len(h[k]) = m - k
                      /\ KeptIn(h[k], s \o Closers(k), w)
<1> DEFINE S == {k \in 0 .. m - 1 : ~Good(k)}
<1>3. S = {}
  <2> SUFFICES ASSUME S # {} PROVE FALSE
    OBVIOUS
  <2>1. PICK i \in S : \A k \in S : i <= k
    <3>1. S \subseteq Nat
      BY <1>1
    <3> HIDE DEF S
    <3> QED BY <3>1, LeastNumber
  <2>2. i \in 0 .. m - 1 /\ ~Good(i)
    BY <2>1
  <2>3. i # 0
    <3>1. Good(0)
      <4>1. s \o Closers(0) = s
        <5>1. Closers(0) = <<>>
          BY ClosersAre
        <5>2. s \o <<>> = s
          BY <1>10, ConcatEmptySeq
        <5> QED BY <5>1, <5>2
      <4>2. d + 0 = d /\ m - 0 = m
        BY <1>1
      <4>3. KeptIn(h[0], s \o Closers(0), w)
        BY <1>2, <4>1
      <4>4. h[0] \in Stack(d + 0) /\ AreCalls(h[0]) /\ Len(h[0]) = m - 0
        BY <1>1, <1>2, <4>2
      <4> QED BY <4>3, <4>4
    <3> HIDE DEF Good
    <3> QED BY <2>2, <3>1
  <2>4. PICK k \in 0 .. m - 1 : i = k + 1 /\ Good(k)
    <3>1. i - 1 \in 0 .. m - 1 /\ i = i - 1 + 1 /\ ~ (i <= i - 1)
      BY <1>1, <2>2, <2>3
    <3>2. i - 1 \notin S
      BY <2>1, <3>1
    <3>3. Good(i - 1)
      BY <3>1, <3>2
    <3> HIDE DEF S, Good
    <3> QED BY <3>1, <3>3
  <2>5. PICK o, D, z : o = h[k] /\ D = d + k /\ z = s \o Closers(k)
    OBVIOUS
  <2>6. o \in Stack(D) /\ AreCalls(o) /\ Len(o) = m - k /\ h[i] = Closed(o) /\ KeptIn(o, z, w)
    <3>1. i \in 1 .. m - 1 /\ i - 1 = k
      BY <1>1, <2>2, <2>3, <2>4
    <3> QED BY <1>2, <2>4, <2>5, <3>1
  <2>7. D \in 0 .. MaxText - 1 /\ Len(o) > 1
    BY <1>0, <1>1, <2>2, <2>4, <2>5, <2>6
  <2>8. h[i] \in Stack(D + 1) /\ AreCalls(h[i]) /\ Len(h[i]) = Len(o) - 1
    BY <2>6, <2>7, CallClosed
  <2>9. D + 1 = d + i /\ Len(o) - 1 = m - i
    BY <1>1, <2>4, <2>5, <2>6
  <2>10. KeptIn(h[i], z \o <<Mark("]")>>, w)
    BY <2>6, <2>7, KeptWhenClosed
  <2>11. z \o <<Mark("]")>> = s \o Closers(i)
    <3>1. PICK x, y : x = Closers(k) /\ y = <<Mark("]")>>
      OBVIOUS
    <3>2. k \in Nat
      OBVIOUS
    <3>3. x \in Seq(Writing) /\ y \in Seq(Writing) /\ Closers(i) = x \o y
      BY <2>4, <3>1, <3>2, ClosersAre, BracketsAre
    <3>4. Associates(s, x, y)
      BY <1>10, <3>3, JoinAssociates
    <3> QED BY <2>5, <3>1, <3>3, <3>4 DEF Associates
  <2> QED BY <2>2, <2>8, <2>9, <2>10, <2>11
<1>4. Good(m - 1)
  <2>1. m - 1 \in 0 .. m - 1
    BY <1>1
  <2> QED BY <1>3, <2>1
<1>5. PICK a, z : a = AllClosed /\ z = s \o Closers(m - 1)
  OBVIOUS
<1>6. Len(a) = 1 /\ KeptIn(a, z, w)
  BY <1>1, <1>2, <1>4, <1>5
<1>7. PICK g : KeptBefore(a, 1, g, w) /\ w[Last(a)] \in Seq(Writing) /\ z = g[1] \o w[Last(a)]
  BY <1>6 DEF KeptIn
<1>8. Last(a) = a[1] /\ g[1] = <<>>
  BY <1>6, <1>7 DEF Last, KeptBefore
<1>9. z = w[a[1]]
  BY <1>7, <1>8, ConcatEmptySeq
<1> QED BY <1>1, <1>5, <1>9

CompletedOf(t, n) ==
    IF DepthOf(t, n) < 0 THEN Front(TokensIn(t)) ELSE TokensIn(t) \o Closers(DepthOf(t, n))

LEMMA CompletedIs ==
    ASSUME NEW t, t = text, NEW n, n = Len(t)
    PROVE  Completed = CompletedOf(t, n)
<1>1. Depth(n) = DepthOf(t, n)
  BY DEF Depth, DepthOf, OfKind
<1>2. [i \in DOMAIN text |-> IF text[i].kind \in {" ", "end"} THEN <<>> ELSE <<text[i]>>] = Pieces(t)
  BY DEF Pieces, Piece
<1> QED BY <1>1, <1>2 DEF Completed, CompletedOf, TokensIn, Closers

LEMMA NextCompletedIs ==
    ASSUME NEW t, t = text', NEW n, n = Len(t)
    PROVE  Completed' = CompletedOf(t, n)
<1>1. Depth(n)' = DepthOf(t, n)
  BY DEF Depth, DepthOf, OfKind
<1>2. [i \in DOMAIN text |-> IF text[i].kind \in {" ", "end"} THEN <<>> ELSE <<text[i]>>]' = Pieces(t)
  BY DEF Pieces, Piece
<1> QED BY <1>1, <1>2 DEF Completed, CompletedOf, TokensIn, Closers

-----------------------------------------------------------------------------
(* What is read is what is written *)

TextsKept ==
    /\ phase = "parse" => Keeping(text, open, Written)
    /\ phase = "closed" => \E z : KeptIn(open, z, Written) /\ TokensIn(text) = z \o <<Mark("]")>>
    /\ phase \in {"evaluate", "follow", "reply"} /\ root # <<>> => Written[root] = Completed

LEMMA FirstKept ==
    ASSUME NEW t, t = <<>>, NEW e, e = <<Unparsed>>, NEW ops, ops = <<e>>, NEW w, w = Written
    PROVE  Keeping(t, ops, w)
<1>1. TokensIn(t) = <<>>
  <2>1. IsText(t, 0)
    BY DEF IsText
  <2>2. PICK p \in Seq(Seq(Writing)) : p = Pieces(t)
    BY <2>1, PiecesAre
  <2>3. DOMAIN p = 1 .. 0 /\ DOMAIN p = 1 .. Len(p) /\ Len(p) \in Nat
    BY <2>1, <2>2, PiecesAre, LenProperties
  <2>4. Len(p) = 0
    BY <2>3
  <2>5. p = <<>>
    BY <2>4, EmptySeq
  <2> QED BY <2>2, <2>5, FlattenEmpty DEF TokensIn
<1>2. Len(ops) = 1 /\ ops[1] = e /\ Len(e) = 1 /\ e[1] = Unparsed
  OBVIOUS
<1>3. Last(ops) = e /\ Last(e) = Unparsed
  BY <1>2 DEF Last
<1>4. w[e] = <<>>
  BY NothingWritten
<1>5. PICK h : h = [j \in {1} |-> <<>>]
  OBVIOUS
<1>6. h[1] = <<>>
  BY <1>5
<1>7. KeptBefore(ops, 1, h, w)
  <2>1. \A j \in 1 .. 1 : j = 1
    OBVIOUS
  <2>2. 1 .. 1 - 1 = {}
    OBVIOUS
  <2> QED BY <1>6, <2>1, <2>2, EmptySeq DEF KeptBefore
<1>8. <<>> \o <<>> = <<>> /\ <<>> \in Seq(Writing)
  BY ConcatEmptySeq, EmptySeq
<1>9. KeptIn(ops, TokensIn(t), w)
  <2>1. TokensIn(t) = h[1] \o w[Last(ops)]
    BY <1>1, <1>3, <1>4, <1>6, <1>8
  <2>2. w[Last(ops)] \in Seq(Writing)
    BY <1>3, <1>4, <1>8
  <2> QED BY <1>2, <1>7, <2>1, <2>2 DEF KeptIn
<1> QED BY <1>3, <1>9 DEF Keeping

\* A call more, fewer or longer, and the same tokens as the text.
LEMMA ReadNextKeeps ==
    ASSUME NEW t, t = text, NEW n \in Nat, NEW ops, ops = open, Reading(t, n, ops),
           NEW w, w = Written, Keeping(t, ops, w),
           NEW c \in Token, NEW u, Grows(u, t, n, c), phase = "parse", ReadNext(c), c.kind # "end"
    PROVE  \/ phase' = "reply" /\ root' = root
           \/ phase' = "parse" /\ Keeping(u, open', w)
           \/ phase' = "closed" /\ KeptIn(open', TokensIn(t), w) /\ TokensIn(u) = TokensIn(t) \o <<Mark("]")>>
<1>1. PICK d, kind :
              /\ d \in Nat /\ CallsFit(ops, d, kind) /\ AreCalls(ops)
              /\ Closings(t, n) \in 0 .. MaxText /\ Closings(t, n) + d <= MaxText
              /\ ops \in Stack(Closings(t, n))
  BY ReadingIs
<1>2. PICK D \in 0 .. MaxText : D = Closings(t, n)
  BY <1>1
<1>3. ops \in Stack(D) /\ AreCalls(ops)
  BY <1>1, <1>2
<1>4. Current = Last(Last(ops))
  BY DEF Current
<1>5. CASE Throw
  BY <1>5 DEF Throw
<1>6. CASE ~Throw /\ c.kind = "."
  <2>1. ReadDot
    BY <1>6 DEF ReadNext
  <2>2. open' = WithNext(Unparsed) /\ phase' = "parse"
    BY <1>6, <2>1 DEF ReadDot
  <2>3. PICK r : r = open'
    OBVIOUS
  <2>4. r = Replaced(ops, Append(Last(ops), Unparsed))
    BY <2>2, <2>3 DEF WithNext, Replaced
  <2>5. Keeping(u, r, w)
    BY <1>3, <1>6, <2>4, KeepsDot
  <2> QED BY <2>2, <2>3, <2>5
<1>7. CASE ~Throw /\ c.kind = "["
  <2>1. ReadOpen
    BY <1>7 DEF ReadNext
  <2>2. PICK x : x = [Unparsed EXCEPT !.type = "Identifier"]
    OBVIOUS
  <2>3. open' = Append(WithNext(x), <<Unparsed>>) /\ phase' = "parse"
    BY <1>7, <2>1, <2>2 DEF ReadOpen
  <2>4. PICK q, r : q = Replaced(ops, Append(Last(ops), x)) /\ r = open'
    OBVIOUS
  <2>5. WithNext(x) = q
    BY <2>4 DEF WithNext, Replaced
  <2>6. r = Append(q, <<Unparsed>>)
    BY <2>3, <2>4, <2>5
  <2>7. Keeping(u, r, w)
    BY <1>3, <1>7, <2>2, <2>4, <2>6, KeepsOpen
  <2> QED BY <2>3, <2>4, <2>7
<1>8. CASE ~Throw /\ c.kind = "]" /\ Len(ops) > 1
  <2>1. ReadClose
    BY <1>8 DEF ReadNext
  <2>2. open' = Closed(ops) /\ phase' = "parse"
    BY <1>8, <2>1 DEF ReadClose
  <2>3. PICK r : r = open'
    OBVIOUS
  <2>4. D \in 0 .. MaxText - 1
    <3>1. MaxText \in Nat /\ Len(ops) = d + 1
      BY <1>1, ExpressionAssumption DEF CallsFit
    <3> QED BY <1>1, <1>2, <1>8, <3>1
  <2>5. Keeping(u, r, w)
    BY <1>3, <1>8, <2>2, <2>3, <2>4, KeepsClose
  <2> QED BY <2>2, <2>3, <2>5
<1>9. CASE ~Throw /\ c.kind = "]" /\ ~(Len(ops) > 1)
  <2>1. ReadClose
    BY <1>9 DEF ReadNext
  <2>0. Len(open) > 1 <=> Len(ops) > 1
    OBVIOUS
  <2>2. open' = ops /\ phase' = "closed"
    BY <1>9, <2>0, <2>1 DEF ReadClose
  <2>3. Piece(c) = <<c>> /\ c = Mark("]")
    BY <1>9, PieceIs
  <2>4. TokensIn(u) = TokensIn(t) \o <<Mark("]")>>
    <3>1. TokensIn(u) = TokensIn(t) \o Piece(c)
      BY TokensGrow
    <3> QED BY <2>3, <3>1
  <2> QED BY <2>2, <2>4 DEF Keeping
<1>10. CASE ~Throw /\ c.kind \in Operand
  <2>1. ReadOperand(c)
    BY <1>10 DEF ReadNext, Operand
  <2>2. PICK x : x = [Last(Last(ops)) EXCEPT !.type = c.kind, !.value = c.value]
    OBVIOUS
  <2>3. open' = WithCurrent(x) /\ phase' = "parse" /\ Last(Last(ops)).type = "Undefined"
    BY <1>4, <1>10, <2>1, <2>2 DEF ReadOperand
  <2>4. PICK r : r = open'
    OBVIOUS
  <2>5. r = Replaced(ops, Replaced(Last(ops), x))
    BY <2>3, <2>4 DEF WithCurrent, Replaced
  <2>6. Keeping(u, r, w)
    <3>1. IsNamed(x, Last(Last(ops)), c)
      BY <2>2 DEF IsNamed
    <3> QED BY <1>3, <1>10, <2>3, <2>5, <3>1, KeepsOperand
  <2> QED BY <2>3, <2>4, <2>6
<1>11. CASE ~Throw /\ IsSpace(c)
  <2>1. ReadSpace
    BY <1>11 DEF ReadNext, IsSpace
  <2>2. open' = ops /\ phase' = "parse"
    BY <2>1 DEF ReadSpace
  <2>3. Piece(c) = <<>>
    BY <1>11, PieceIs
  <2>4. TokensIn(u) = TokensIn(t)
    <3>1. TokensIn(u) = TokensIn(t) \o <<>> /\ TokensIn(t) \in Seq(Writing)
      BY <2>3, TokensGrow
    <3> QED BY <3>1, ConcatEmptySeq
  <2>5. Keeping(u, ops, w)
    BY <2>4 DEF Keeping
  <2> QED BY <2>2, <2>5
<1>12. CASE c.kind = "other"
  BY <1>12 DEF ReadNext, Throw
<1>13. c.kind \in Operand \/ c.kind = "." \/ c.kind = "[" \/ c.kind = "]" \/ IsSpace(c) \/ c.kind = "other"
  BY TokenKinds DEF IsSpace
<1> QED BY <1>5, <1>6, <1>7, <1>8, <1>9, <1>10, <1>11, <1>12, <1>13

LEMMA EndKeeps ==
    ASSUME NEW t, t = text, NEW n \in Nat, n <= MaxText, NEW ops, ops = open,
           NEW D \in 0 .. MaxText, ops \in Stack(D), AreCalls(ops), D + Len(ops) - 1 <= MaxText,
           NEW w, w = Written, NEW z, KeptIn(ops, z, w),
           NEW c \in Token, c.kind = "end", NEW u, u = text', Grows(u, t, n, c),
           \/ DepthOf(t, n) = Len(ops) - 1 /\ TokensIn(t) = z
           \/ DepthOf(t, n) = -1 /\ Len(ops) = 1 /\ TokensIn(t) = z \o <<Mark("]")>>,
           ReadEnd
    PROVE  \/ phase' = "reply" /\ root' = root
           \/ phase' = "evaluate" /\ w[root'] = Completed'
<1>1. CASE Throw
  BY <1>1 DEF Throw
<1>2. CASE ~Throw
  <2>1. phase' = "evaluate" /\ root' = AllClosed[1]
    BY <1>2 DEF ReadEnd
  <2>2. w[AllClosed[1]] = z \o Closers(Len(ops) - 1)
    BY KeptAtEnd
  <2>3. DepthOf(u, n + 1) = DepthOf(t, n)
    BY DepthGrows
  <2>4. TokensIn(u) = TokensIn(t) /\ TokensIn(t) \in Seq(Writing)
    <3>1. Piece(c) = <<>>
      BY PieceIs
    <3>2. TokensIn(u) = TokensIn(t) \o <<>> /\ TokensIn(t) \in Seq(Writing)
      BY <3>1, TokensGrow
    <3> QED BY <3>2, ConcatEmptySeq
  <2>5. Len(ops) \in Nat \ {0}
    BY CallsAre
  <2>6. z \in Seq(Writing)
    BY <2>5, KeptIs
  <2>7. Completed' = CompletedOf(u, n + 1)
    <3>1. Len(u) = n + 1
      BY DEF Grows, IsText
    <3> QED BY <3>1, NextCompletedIs
  <2>8. CompletedOf(u, n + 1) =
            IF DepthOf(t, n) < 0 THEN Front(TokensIn(t)) ELSE TokensIn(t) \o Closers(DepthOf(t, n))
    BY <2>3, <2>4 DEF CompletedOf
  <2>9. CASE DepthOf(t, n) = Len(ops) - 1 /\ TokensIn(t) = z
    <3>1. ~(DepthOf(t, n) < 0)
      BY <2>5, <2>9
    <3> QED BY <2>1, <2>2, <2>7, <2>8, <2>9, <3>1
  <2>10. CASE DepthOf(t, n) = -1 /\ Len(ops) = 1 /\ TokensIn(t) = z \o <<Mark("]")>>
    <3>1. Mark("]") \in Writing
      BY DEF Writing, Token
    <3>2. TokensIn(t) = Append(z, Mark("]"))
      BY <2>6, <2>10, <3>1, AppendIsConcat
    <3>3. Front(TokensIn(t)) = z
      BY <2>6, <3>1, <3>2, FrontOfAppend
    <3>4. Closers(Len(ops) - 1) = <<>>
      <4>1. Len(ops) - 1 = 0 /\ 0 \in Nat
        BY <2>10
      <4>2. Closers(0) = <<>>
        BY <4>1, ClosersAre
      <4> QED BY <4>1, <4>2
    <3>5. z \o <<>> = z
      BY <2>6, ConcatEmptySeq
    <3>6. DepthOf(t, n) < 0
      BY <2>10
    <3> QED BY <2>1, <2>2, <2>7, <2>8, <3>3, <3>4, <3>5, <3>6
  <2> QED BY <2>9, <2>10
<1> QED BY <1>1, <1>2

LEMMA ParseKeeps ==
    ASSUME TextsFit, TextsKept, NEW c \in Token, ParseExpression(c)
    PROVE  TextsKept'
<1>1. PICK t, u, ops, n, w : t = text /\ u = text' /\ ops = open /\ n = Len(t) /\ w = Written
  OBVIOUS
<1>2. /\ phase \in {"parse", "closed"} /\ u = Append(t, c)
      /\ phase = "parse" => ReadNext(c)
      /\ phase = "closed" => ReadAfterEnd(c)
  BY <1>1 DEF ParseExpression
<1>3. /\ root = <<>>
      /\ phase = "parse" => Reading(t, n, ops) /\ Keeping(t, ops, w)
      /\ phase = "closed" => ReadTooFar(t, n, ops)
  BY <1>1, <1>2 DEF TextsFit, TextsKept
<1>4. IsText(t, n) /\ n \in Nat /\ n <= MaxText
  <2>1. IsText(t, n) /\ n <= MaxText
    BY <1>2, <1>3 DEF Reading, ReadTooFar, HasFit
  <2> QED BY <2>1 DEF IsText
<1>5. Grows(u, t, n, c)
  BY <1>2, <1>4, TextGrows
<1>6. ASSUME phase' = "reply", root' = <<>> PROVE TextsKept'
  BY <1>6 DEF TextsKept
<1>7. ASSUME phase' = "evaluate", w[root'] = Completed' PROVE TextsKept'
  BY <1>1, <1>7 DEF TextsKept
<1>8. ASSUME phase' = "parse", Keeping(u, open', w) PROVE TextsKept'
  BY <1>1, <1>8 DEF TextsKept
<1>9. ASSUME phase' = "closed", NEW z, KeptIn(open', z, w), TokensIn(u) = z \o <<Mark("]")>> PROVE TextsKept'
  BY <1>1, <1>9 DEF TextsKept
<1>10. CASE phase = "parse" /\ c.kind # "end"
  <2>1. \/ phase' = "reply" /\ root' = root
        \/ phase' = "parse" /\ Keeping(u, open', w)
        \/ phase' = "closed" /\ KeptIn(open', TokensIn(t), w) /\ TokensIn(u) = TokensIn(t) \o <<Mark("]")>>
    BY <1>1, <1>2, <1>3, <1>4, <1>5, <1>10, ReadNextKeeps
  <2> QED BY <1>3, <1>6, <1>8, <1>9, <2>1
<1>11. CASE phase = "parse" /\ c.kind = "end"
  <2>1. PICK d, kind :
              /\ d \in Nat /\ HasFit(t, n, d) /\ CallsFit(ops, d, kind) /\ AreCalls(ops)
              /\ Closings(t, n) \in 0 .. MaxText /\ Closings(t, n) + d <= MaxText
              /\ ops \in Stack(Closings(t, n))
    BY <1>3, <1>4, <1>11, ReadingIs
  <2>2. PICK D \in 0 .. MaxText : D = Closings(t, n)
    BY <2>1
  <2>3. DepthOf(t, n) = d /\ Len(ops) = d + 1
    BY <2>1 DEF HasFit, CallsFit
  <2>4. D + Len(ops) - 1 <= MaxText /\ DepthOf(t, n) = Len(ops) - 1
    <3>1. D + d <= MaxText
      BY <2>1, <2>2
    <3>2. D + (d + 1) - 1 = D + d /\ d = d + 1 - 1
      BY <2>1
    <3> QED BY <2>1, <2>3, <3>1, <3>2
  <2>5. CASE AfterDot
    <3>1. Throw
      BY <1>2, <1>11, <2>5 DEF ReadNext
    <3> QED BY <1>3, <1>6, <3>1 DEF Throw
  <2>6. CASE ~AfterDot
    <3>1. ReadEnd
      BY <1>2, <1>11, <2>6 DEF ReadNext
    <3>2. KeptIn(ops, TokensIn(t), w)
      BY <1>3, <1>11 DEF Keeping
    <3>3. PICK z : z = TokensIn(t)
      OBVIOUS
    <3>4. ops \in Stack(D) /\ AreCalls(ops) /\ KeptIn(ops, z, w)
      BY <2>1, <2>2, <3>2, <3>3
    <3>5. \/ phase' = "reply" /\ root' = root
          \/ phase' = "evaluate" /\ w[root'] = Completed'
      BY <1>1, <1>4, <1>5, <1>11, <2>4, <3>1, <3>3, <3>4, EndKeeps
    <3> QED BY <1>3, <1>6, <1>7, <3>5
  <2> QED BY <2>5, <2>6
<1>12. CASE phase = "closed" /\ c.kind = "end"
  <2>1. HasFit(t, n, -1) /\ AreCalls(ops) /\ Len(ops) = 1 /\ ops \in Stack(Closings(t, n))
    BY <1>3, <1>12 DEF ReadTooFar
  <2>2. DepthOf(t, n) = -1 /\ DepthOf(t, n) >= -1
    BY <2>1 DEF HasFit
  <2>3. PICK D \in 0 .. MaxText : D = Closings(t, n)
    BY <1>4, <2>2, ClosingsAre
  <2>4. D + Len(ops) - 1 <= MaxText /\ ops \in Stack(D)
    BY <2>1, <2>3
  <2>5. ReadEnd
    BY <1>2, <1>12 DEF ReadAfterEnd
  <2>6. PICK z : KeptIn(ops, z, w) /\ TokensIn(t) = z \o <<Mark("]")>>
    BY <1>1, <1>12 DEF TextsKept
  <2>7. \/ phase' = "reply" /\ root' = root
        \/ phase' = "evaluate" /\ w[root'] = Completed'
    BY <1>1, <1>4, <1>5, <1>12, <2>1, <2>2, <2>4, <2>5, <2>6, EndKeeps
  <2> QED BY <1>3, <1>6, <1>7, <2>7
<1>13. CASE phase = "closed" /\ c.kind # "end"
  <2>1. Throw
    BY <1>2, <1>13 DEF ReadAfterEnd
  <2> QED BY <1>3, <1>6, <2>1 DEF Throw
<1> QED BY <1>2, <1>10, <1>11, <1>12, <1>13

LEMMA KeptStays ==
    ASSUME TextsKept, UNCHANGED <<text, root>>, phase \in {"evaluate", "follow", "reply"},
           phase' \in {"evaluate", "follow", "reply"}
    PROVE  TextsKept'
<1>1. Completed' = Completed
  <2>1. PICK t, n : t = text /\ n = Len(t)
    OBVIOUS
  <2> QED BY <2>1, CompletedIs, NextCompletedIs
<1>2. phase' \notin {"parse", "closed"}
  OBVIOUS
<1> QED BY <1>1, <1>2 DEF TextsKept

LEMMA TextsKeptNext ==
    ASSUME TextsFit, TextsKept, [Next]_vars
    PROVE  TextsKept'
<1>1. ASSUME NEW stackFrame \in -1 .. Len(Locals), GetImmediateValue(stackFrame) PROVE TextsKept'
  <2>1. text' = <<>> /\ phase' = "parse" /\ open' = <<<<Unparsed>>>>
    BY <1>1 DEF GetImmediateValue, TextsFit
  <2>2. PICK t, e, ops, w : t = <<>> /\ e = <<Unparsed>> /\ ops = <<e>> /\ w = Written
    OBVIOUS
  <2>3. Keeping(t, ops, w)
    BY <2>2, FirstKept
  <2>4. Keeping(text', open', Written)
    BY <2>1, <2>2, <2>3
  <2> QED BY <2>1, <2>4 DEF TextsKept
<1>2. ASSUME NEW token \in Token, ParseExpression(token) PROVE TextsKept'
  BY <1>2, ParseKeeps
<1>3. CASE AwaitAccessors
  BY <1>3, KeptStays DEF AwaitAccessors
<1>4. CASE EvaluateNode
  BY <1>4, KeptStays DEF EvaluateNode
<1>5. CASE NumberTooLarge
  BY <1>5, KeptStays DEF NumberTooLarge
<1>6. CASE FollowKey
  BY <1>6, KeptStays DEF FollowKey
<1>7. CASE NoSuchChild
  BY <1>7, KeptStays DEF NoSuchChild
<1>8. CASE StoreResult
  BY <1>8, KeptStays DEF StoreResult
<1>9. CASE Answer
  BY <1>9, KeptStays DEF Answer
<1>10. CASE Reply
  BY <1>10 DEF Reply, TextsKept
<1>11. CASE UNCHANGED vars
  <2>1. UNCHANGED <<text, root, phase, open>>
    BY <1>11 DEF vars
  <2>2. Completed' = Completed
    <3>1. PICK t, n : t = text /\ n = Len(t)
      OBVIOUS
    <3> QED BY <2>1, <3>1, CompletedIs, NextCompletedIs
  <2> QED BY <2>1, <2>2 DEF TextsKept
<1> QED BY <1>1, <1>2, <1>3, <1>4, <1>5, <1>6, <1>7, <1>8, <1>9, <1>10, <1>11 DEF Next, EvaluationStep

LEMMA AllTextsKept ==
    Spec => []TextsKept
<1>1. Init => TextsKept
  BY DEF Init, TextsKept
<1>2. TextsFit /\ TextsKept /\ [Next]_vars => TextsKept'
  BY TextsKeptNext
<1> QED BY <1>1, <1>2, AllTextsFit, PTL DEF Spec

LEMMA AcceptedTexts ==
    ASSUME TextsKept
    PROVE  ReadsWhatIsWritten
BY DEF TextsKept, ReadsWhatIsWritten, IsAccepted

\* An accepted text, of any length, is read as what was written: the calls of ParseExpression put
\* together an expression that has its tokens, in their order and with their brackets, and those
\* that were left open closed (SquirrelVmHelpers.cpp:850-949).
THEOREM TextsAreReadAsWritten ==
    Spec => []ReadsWhatIsWritten
BY AllTextsKept, AcceptedTexts, PTL

-----------------------------------------------------------------------------
(* Expressions without dots *)

IsValue(v) == Type(v) # "meaning"

\* A node that stands first, and one that has an index.
IsFirst(x) ==
    /\ x.accessor = <<>> /\ IsValue(x.value)
    /\ x.type = "Number" => x.value \in {"integer"} \X Nat
IsIndex(x, P) == x.type = "Identifier" /\ x.accessor # <<>> /\ x.accessor \in P

\* An expression of a first node and indexes, which are in P.
IsPlain(e, P) ==
    /\ Len(e) \in Nat \ {0}
    /\ IsFirst(e[1])
    /\ e[1].type = "Identifier" \/ Len(e) = 1
    /\ \A i \in 2 .. Len(e) : IsIndex(e[i], P)

ArePlain(P) == \A e \in P : IsPlain(e, P)

LEMMA PlainGrows ==
    ASSUME NEW P, ArePlain(P), NEW e, IsPlain(e, P), NEW Q, Q = P \cup {e}
    PROVE  ArePlain(Q) /\ e \in Q /\ P \subseteq Q
<1>1. P \subseteq Q /\ e \in Q
  OBVIOUS
<1>2. ASSUME NEW x \in Q PROVE IsPlain(x, Q)
  <2>1. IsPlain(x, P)
    BY <1>2 DEF ArePlain
  <2> QED BY <1>1, <2>1 DEF IsPlain, IsIndex
<1> QED BY <1>1, <1>2 DEF ArePlain

\* An expression that stands before an open bracket, with the node for the index.
Waits(e, P) ==
    /\ Len(e) \in Nat /\ Len(e) > 1
    /\ Front(e) \in P /\ Front(e)[1].type = "Identifier" /\ Last(e).type = "Identifier"

\* The calls of ParseExpression, while no dot has been read.
PlainCalls(ops, P) ==
    /\ ArePlain(P) /\ Last(ops) \in P
    /\ \A j \in 1 .. Len(ops) - 1 : Waits(ops[j], P)

LEMMA FirstPlain ==
    ASSUME NEW e, e = <<Unparsed>>, NEW P
    PROVE  IsPlain(e, P)
<1>1. Len(e) = 1 /\ e[1] = Unparsed
  OBVIOUS
<1>2. IsFirst(Unparsed)
  <2>1. Unparsed.accessor = <<>> /\ Unparsed.value = NoText /\ Unparsed.type = "Undefined"
    BY DEF Unparsed
  <2>2. NoText[1] = "string"
    BY DEF NoText
  <2> QED BY <2>1, <2>2 DEF IsFirst, IsValue, Type
<1>3. 2 .. 1 = {}
  OBVIOUS
<1> QED BY <1>1, <1>2, <1>3 DEF IsPlain

LEMMA PlainOpened ==
    ASSUME NEW ops, ops = <<<<Unparsed>>>>
    PROVE  \E P : PlainCalls(ops, P)
<1>1. PICK e, P, Q : e = <<Unparsed>> /\ P = {} /\ Q = P \cup {e}
  OBVIOUS
<1>2. IsPlain(e, P) /\ ArePlain(P)
  BY <1>1, FirstPlain DEF ArePlain
<1>3. ArePlain(Q) /\ e \in Q
  BY <1>1, <1>2, PlainGrows
<1>4. Len(ops) = 1 /\ ops[1] = e /\ Last(ops) = e
  BY <1>1 DEF Last
<1>5. 1 .. 1 - 1 = {}
  OBVIOUS
<1> QED BY <1>3, <1>4, <1>5 DEF PlainCalls

LEMMA WaitsStill ==
    ASSUME NEW e, NEW P, Waits(e, P), NEW Q, P \subseteq Q
    PROVE  Waits(e, Q)
BY DEF Waits

\* What a node that has not been read tells.
LEMMA PlainLast ==
    ASSUME NEW T, NEW e \in Seq(T), NEW P, IsPlain(e, P)
    PROVE  /\ Last(e) = e[Len(e)]
           /\ Last(e).type # "Identifier" => Len(e) = 1
           /\ Last(e).type = "Identifier" => e[1].type = "Identifier"
<1>1. Last(e) = e[Len(e)] /\ Len(e) \in Nat \ {0}
  BY DEF Last, IsPlain
<1>2. CASE Len(e) = 1
  BY <1>1, <1>2
<1>3. CASE Len(e) # 1
  <2>1. Len(e) \in 2 .. Len(e)
    <3>1. \A k \in Nat \ {0} : k # 1 => k \in 2 .. k
      OBVIOUS
    <3> QED BY <1>1, <1>3, <3>1
  <2>2. e[Len(e)].type = "Identifier" /\ e[1].type = "Identifier"
    BY <1>3, <2>1 DEF IsPlain, IsIndex
  <2> QED BY <1>1, <2>2
<1> QED BY <1>2, <1>3

LEMMA PlainOperand ==
    ASSUME NEW d \in 0 .. MaxText, NEW ops \in Stack(d), AreCalls(ops), NEW P, PlainCalls(ops, P),
           NEW c \in Token, c.kind \in Operand, Last(Last(ops)).type = "Undefined",
           NEW x, IsNamed(x, Last(Last(ops)), c),
           NEW r, r = Replaced(ops, Replaced(Last(ops), x))
    PROVE  \E Q : PlainCalls(r, Q)
<1>1. PICK T, e, m, n : T = NodeOf(Nested[d]) /\ e = Last(ops) /\ m = Len(ops) /\ n = Last(e)
  OBVIOUS
<1>2. e \in Seq(T) /\ n \in T /\ m \in Nat \ {0}
  BY <1>1, CallsAre
<1>3. IsPlain(e, P) /\ ArePlain(P)
  BY <1>1 DEF PlainCalls, ArePlain
<1>4. Len(e) = 1 /\ n = e[1]
  <2>1. n.type # "Identifier"
    BY <1>1
  <2> QED BY <1>1, <1>2, <1>3, <2>1, PlainLast
<1>5. x \in T /\ x.type = c.kind /\ x.value = c.value /\ x.accessor = n.accessor
  <2>1. c \in OperandToken
    BY TokenKinds
  <2>2. n = [type |-> n.type, value |-> n.value, accessor |-> n.accessor]
    BY <1>1, <1>2 DEF NodeOf
  <2>3. x = [type |-> c.kind, value |-> c.value, accessor |-> n.accessor]
    BY <1>1, <2>2 DEF IsNamed
  <2>4. n.accessor \in Nested[d]
    BY <1>1, <1>2 DEF NodeOf
  <2> QED BY <1>1, <2>1, <2>3, <2>4 DEF NodeOf, Operand
<1>6. IsFirst(x)
  <2>1. x.accessor = <<>>
    BY <1>3, <1>4, <1>5 DEF IsPlain, IsFirst
  <2>2. c \in OperandToken
    BY TokenKinds
  <2>3. \/ c.kind \in {"Identifier", "String"} /\ Type(c.value) = "string"
        \/ c.kind = "Number" /\ c.value \in {"integer"} \X Nat
    BY <2>2, ExpressionAssumption
  <2>4. Type(c.value) # "meaning"
    BY <2>3 DEF Type
  <2>5. c.kind = "Number" => c.value \in {"integer"} \X Nat
    BY <2>3
  <2> QED BY <1>5, <2>1, <2>4, <2>5 DEF IsFirst, IsValue
<1>7. PICK g : g = Replaced(e, x)
  OBVIOUS
<1>8. g \in Seq(T) /\ Len(g) = 1 /\ g[1] = x
  <2>1. Len(e) > 0
    BY <1>4
  <2>2. g \in Seq(T) /\ IsReplaced(g, e, x)
    BY <1>2, <1>5, <1>7, <2>1, ReplaceIs
  <2> QED BY <1>4, <2>2 DEF IsReplaced
<1>9. IsPlain(g, P)
  <2>1. 2 .. 1 = {}
    OBVIOUS
  <2> QED BY <1>6, <1>8, <2>1 DEF IsPlain
<1>10. PICK Q : Q = P \cup {g}
  OBVIOUS
<1>11. ArePlain(Q) /\ g \in Q /\ P \subseteq Q
  BY <1>3, <1>9, <1>10, PlainGrows
<1>12. IsNewCall(r, ops, g, m)
  BY <1>1, <1>7, <1>8, LastCallIs
<1>13. ASSUME NEW j \in 1 .. m - 1 PROVE Waits(r[j], Q)
  <2>1. Waits(ops[j], P)
    BY <1>1 DEF PlainCalls
  <2>2. r[j] = ops[j]
    BY <1>12 DEF IsNewCall
  <2> QED BY <1>11, <2>1, <2>2, WaitsStill
<1> QED BY <1>11, <1>12, <1>13 DEF PlainCalls, IsNewCall

\* An index can only follow a name or another index, unless it follows a string.
LEMMA PlainOpen ==
    ASSUME NEW d \in 0 .. MaxText, NEW ops \in Stack(d), AreCalls(ops), NEW P, PlainCalls(ops, P),
           Last(Last(ops)).type = "Identifier",
           NEW x, x = [Unparsed EXCEPT !.type = "Identifier"],
           NEW q, q = Replaced(ops, Append(Last(ops), x)), NEW r, r = Append(q, <<Unparsed>>)
    PROVE  \E Q : PlainCalls(r, Q)
<1>1. PICK T, e, m, i : T = NodeOf(Nested[d]) /\ e = Last(ops) /\ m = Len(ops) /\ i = <<Unparsed>>
  OBVIOUS
<1>2. e \in Seq(T) /\ m \in Nat \ {0} /\ x \in T /\ Unparsed \in T
  BY <1>1, CallsAre, UnparsedIsNode
<1>3. PICK g : g = Append(e, x)
  OBVIOUS
<1>4. Front(g) = e /\ g \in Seq(T) /\ Len(g) = Len(e) + 1 /\ Last(g) = x
  <2>2. e \in Seq(T) /\ x \in T
    BY <1>2
  <2>1. Front(g) = e /\ g \in Seq(T) /\ Len(g) = Len(e) + 1
    BY ONLY <1>3, <2>2, FrontOfAppend
  <2>3. g[Len(e) + 1] = x
    BY ONLY <1>3, <2>2, AppendProperties
  <2> QED BY ONLY <2>1, <2>3 DEF Last
<1>5. IsPlain(e, P) /\ ArePlain(P) /\ e \in P
  BY <1>1 DEF PlainCalls, ArePlain
<1>6. Waits(g, P)
  <2>1. Len(e) \in Nat \ {0}
    BY <1>5 DEF IsPlain
  <2>2. Len(e) + 1 \in Nat /\ Len(e) + 1 > 1
    BY <2>1
  <2>3. e[1].type = "Identifier"
    BY <1>1, <1>2, <1>5, PlainLast
  <2>4. x.type = "Identifier"
    BY DEF Unparsed
  <2> QED BY <1>4, <1>5, <2>2, <2>3, <2>4 DEF Waits
<1>7. IsNewCall(q, ops, g, m) /\ q \in Stack(d)
  <2>1. q = Replaced(ops, g) /\ g \in Seq(NodeOf(Nested[d]))
    BY <1>1, <1>3, <1>4
  <2>2. q \in Stack(d) /\ IsNewCall(q, ops, g, Len(ops))
    BY <2>1, LastCallIs
  <2> QED BY <1>1, <2>2
<1>8. i \in Nested[d + 1]
  <2>1. i \in Seq(T)
    BY ONLY <1>1, <1>2
  <2>2. Nested[d + 1] = Seq(T)
    BY <1>1, NestedIs
  <2> QED BY ONLY <2>1, <2>2
<1>9. Len(r) = m + 1 /\ r[m + 1] = i /\ \A j \in 1 .. m : r[j] = q[j]
  <2>1. PICK U : U = Nested[d + 1]
    OBVIOUS
  <2>2. q \in Seq(U) /\ i \in U /\ r = Append(q, i) /\ Len(q) = m
    BY <1>1, <1>7, <1>8, <2>1 DEF Stack, IsNewCall
  <2>3. Len(r) = Len(q) + 1 /\ r[Len(q) + 1] = i /\ \A j \in 1 .. Len(q) : r[j] = q[j]
    BY ONLY <2>2, AppendProperties
  <2> QED BY <2>2, <2>3
<1>10. PICK Q : Q = P \cup {i}
  OBVIOUS
<1>11. ArePlain(Q) /\ i \in Q /\ P \subseteq Q
  BY <1>1, <1>5, <1>10, FirstPlain, PlainGrows
<1>12. Last(r) = i
  BY <1>9 DEF Last
<1>13. ASSUME NEW j \in 1 .. m PROVE Waits(r[j], Q)
  <2>1. r[j] = q[j]
    BY <1>9
  <2>2. CASE j = m
    <3>1. q[j] = g
      BY <1>7, <2>2 DEF IsNewCall
    <3> QED BY <1>6, <1>11, <2>1, <3>1, WaitsStill
  <2>3. CASE j # m
    <3>1. j \in 1 .. m - 1
      BY <1>2, <2>3
    <3>2. q[j] = ops[j] /\ Waits(ops[j], P)
      BY <1>1, <1>7, <3>1 DEF IsNewCall, PlainCalls
    <3> QED BY <1>11, <2>1, <3>2, WaitsStill
  <2> QED BY <2>2, <2>3
<1>14. Len(r) - 1 = m
  BY ONLY <1>2, <1>9
<1> QED BY ONLY <1>11, <1>12, <1>13, <1>14 DEF PlainCalls

LEMMA PlainClosed ==
    ASSUME NEW d \in 0 .. MaxText - 1, NEW ops \in Stack(d), AreCalls(ops), Len(ops) > 1,
           NEW P, PlainCalls(ops, P), NEW r, r = Closed(ops)
    PROVE  \E Q : PlainCalls(r, Q)
<1>0. MaxText \in Nat /\ d \in 0 .. MaxText
  BY ExpressionAssumption
<1>1. PICK m \in Nat : m = Len(ops) /\ m > 1
  BY <1>0, CallsAre
<1>2. m - 1 \in 1 .. m /\ m \in 1 .. m /\ m - 1 \in 1 .. m - 1
  BY <1>1
<1>3. PICK outer, inner, T : outer = ops[m - 1] /\ inner = ops[m] /\ T = NodeOf(Nested[d])
  OBVIOUS
<1>4. outer \in Seq(T) /\ inner = Last(ops)
  <2>1. \A j \in 1 .. m : ops[j] \in Seq(T)
    BY <1>0, <1>1, <1>3, CallsAre
  <2>2. Last(ops) = ops[m]
    BY <1>0, <1>1, CallsAre
  <2> QED BY <1>2, <1>3, <2>1, <2>2
<1>5. Waits(outer, P) /\ ArePlain(P) /\ inner \in P /\ IsPlain(inner, P)
  <2>1. Waits(ops[m - 1], P)
    BY <1>1, <1>2 DEF PlainCalls
  <2> QED BY <1>3, <1>4, <2>1 DEF PlainCalls, ArePlain
<1>6. PICK f, n, x, g : f = Front(outer) /\ n = Last(outer) /\ x = WithAccessor(n, inner) /\ g = Append(f, x)
  OBVIOUS
<1>7. f \in Seq(T) /\ n \in T /\ Len(outer) > 0 /\ Len(f) = Len(outer) - 1
  <2>1. Len(outer) \in Nat /\ Len(outer) > 1
    BY <1>5 DEF Waits
  <2>2. Len(outer) > 0
    BY <2>1
  <2> QED BY <1>4, <1>6, <2>2, FrontIs
<1>8. x.accessor = inner /\ x.type = "Identifier"
  <2>1. n = [type |-> n.type, value |-> n.value, accessor |-> n.accessor]
    BY <1>3, <1>7 DEF NodeOf
  <2>2. x = [type |-> n.type, value |-> n.value, accessor |-> inner]
    BY <1>6, <2>1 DEF WithAccessor
  <2>3. n.type = "Identifier"
    BY <1>5, <1>6 DEF Waits
  <2> QED BY <2>2, <2>3
<1>9. IsIndex(x, P)
  <2>1. inner # <<>>
    <3>1. PICK z : z = <<>>
      OBVIOUS
    <3>2. Len(z) = 0 /\ Len(inner) # 0
      BY <1>5, <3>1 DEF IsPlain
    <3> QED BY <3>1, <3>2
  <2> QED BY <1>5, <1>8, <2>1 DEF IsIndex
<1>10. IsPlain(f, P) /\ f[1].type = "Identifier"
  BY <1>5, <1>6 DEF Waits, ArePlain
<1>11. PICK k \in Nat \ {0} : k = Len(f)
  BY <1>10 DEF IsPlain
<1>12. Len(g) = k + 1 /\ g[k + 1] = x /\ \A j \in 1 .. k : g[j] = f[j]
  <2>1. PICK U : U = T \cup {x}
    OBVIOUS
  <2>2. T \subseteq U /\ x \in U
    BY <2>1
  <2>3. f \in Seq(U)
    BY <1>7, <2>2, SeqMonotonic
  <2> QED BY ONLY <1>6, <1>11, <2>2, <2>3, AppendProperties
<1>13. IsPlain(g, P)
  <2>1. 1 \in 1 .. k /\ k + 1 \in Nat \ {0}
    BY <1>11
  <2>2. g[1] = f[1]
    BY <1>12, <2>1
  <2>3. ASSUME NEW i \in 2 .. k + 1 PROVE IsIndex(g[i], P)
    <3>1. CASE i = k + 1
      BY <1>9, <1>12, <3>1
    <3>2. CASE i # k + 1
      <4>1. i \in 2 .. k /\ i \in 1 .. k
        BY <1>11, <3>2
      <4>2. IsIndex(f[i], P)
        BY <1>10, <1>11, <4>1 DEF IsPlain
      <4> QED BY <1>12, <4>1, <4>2
    <3> QED BY <3>1, <3>2
  <2>4. IsFirst(g[1]) /\ g[1].type = "Identifier"
    BY <1>10, <2>2 DEF IsPlain
  <2> QED BY <1>12, <2>1, <2>3, <2>4 DEF IsPlain
<1>14. PICK Q : Q = P \cup {g}
  OBVIOUS
<1>15. ArePlain(Q) /\ g \in Q /\ P \subseteq Q
  BY <1>5, <1>13, <1>14, PlainGrows
<1>16. IsReturned(r, ops, m, g)
  <2>1. IsReturned(Closed(ops), ops, m, Replaced(ops[m - 1], WithAccessor(Last(ops[m - 1]), ops[m])))
    BY <1>1, <1>3, <1>7, CallReturns
  <2>2. g = Replaced(ops[m - 1], WithAccessor(Last(ops[m - 1]), ops[m]))
    BY <1>3, <1>6 DEF Replaced
  <2> QED BY <2>1, <2>2
<1>17. Last(r) = g
  BY <1>16 DEF IsReturned, Last
<1>18. ASSUME NEW j \in 1 .. Len(r) - 1 PROVE Waits(r[j], Q)
  <2>1. Len(r) = m - 1
    BY <1>16 DEF IsReturned
  <2>2. j \in 1 .. m - 2 /\ j \in 1 .. m - 1
    BY <1>1, <2>1
  <2>3. r[j] = ops[j]
    BY <1>16, <2>2 DEF IsReturned
  <2>4. Waits(ops[j], P)
    BY <1>1, <2>2 DEF PlainCalls
  <2> QED BY <1>15, <2>3, <2>4, WaitsStill
<1> QED BY <1>15, <1>17, <1>18 DEF PlainCalls

\* All calls return expressions without dots.
LEMMA PlainAtEnd ==
    ASSUME NEW d \in 0 .. MaxText, NEW ops, ops = open, ops \in Stack(d), AreCalls(ops),
           d + Len(ops) - 1 <= MaxText, NEW R, PlainCalls(ops, R)
    PROVE  \E P : ArePlain(P) /\ AllClosed[1] \in P
<1>0. MaxText \in Nat
  BY ExpressionAssumption
<1>1. PICK m \in Nat \ {0} : m = Len(ops)
  BY CallsAre
<1>2. PICK h : /\ h[0] = ops /\ AllClosed = h[m - 1]
               /\ \A i \in 1 .. m - 1 : h[i] = Closed(h[i - 1])
  BY <1>1, AllClosedIs
<1> DEFINE Good(k) == /\ h[k] \in Stack(d + k) /\ AreCalls(h[k]) /\ Len(h[k]) = m - k
                      /\ \E P : PlainCalls(h[k], P)
<1> DEFINE S == {k \in 0 .. m - 1 : ~Good(k)}
<1>3. S = {}
  <2> SUFFICES ASSUME S # {} PROVE FALSE
    OBVIOUS
  <2>1. PICK i \in S : \A k \in S : i <= k
    <3>1. S \subseteq Nat
      BY <1>1
    <3> HIDE DEF S
    <3> QED BY <3>1, LeastNumber
  <2>2. i \in 0 .. m - 1 /\ ~Good(i)
    BY <2>1
  <2>3. i # 0
    <3>1. Good(0)
      <4>1. d + 0 = d /\ m - 0 = m
        BY <1>1
      <4> QED BY <1>1, <1>2, <4>1
    <3> HIDE DEF Good
    <3> QED BY <2>2, <3>1
  <2>4. PICK k \in 0 .. m - 1 : i = k + 1 /\ Good(k)
    <3>1. i - 1 \in 0 .. m - 1 /\ i = i - 1 + 1 /\ ~ (i <= i - 1)
      BY <1>1, <2>2, <2>3
    <3>2. i - 1 \notin S
      BY <2>1, <3>1
    <3>3. Good(i - 1)
      BY <3>1, <3>2
    <3> HIDE DEF S, Good
    <3> QED BY <3>1, <3>3
  <2>5. PICK o, D : o = h[k] /\ D = d + k
    OBVIOUS
  <2>6. PICK P : PlainCalls(o, P)
    BY <2>4, <2>5
  <2>7. o \in Stack(D) /\ AreCalls(o) /\ Len(o) = m - k /\ h[i] = Closed(o)
    <3>1. i \in 1 .. m - 1 /\ i - 1 = k
      BY <1>1, <2>2, <2>3, <2>4
    <3> QED BY <1>2, <2>4, <2>5, <3>1
  <2>8. D \in 0 .. MaxText - 1 /\ Len(o) > 1
    BY <1>0, <1>1, <2>2, <2>4, <2>5, <2>7
  <2>9. h[i] \in Stack(D + 1) /\ AreCalls(h[i]) /\ Len(h[i]) = Len(o) - 1
    BY <2>7, <2>8, CallClosed
  <2>10. D + 1 = d + i /\ Len(o) - 1 = m - i
    BY <1>1, <2>4, <2>5, <2>7
  <2>11. PICK r : r = h[i]
    OBVIOUS
  <2>12. \E Q : PlainCalls(r, Q)
    BY <2>6, <2>7, <2>8, <2>11, PlainClosed
  <2> QED BY <2>2, <2>9, <2>10, <2>11, <2>12
<1>4. Good(m - 1)
  <2>1. m - 1 \in 0 .. m - 1
    BY <1>1
  <2>2. m - 1 \notin S
    <3> HIDE DEF S
    <3> QED BY <1>3
  <2> QED BY <2>1, <2>2
<1>5. PICK r, P : r = AllClosed /\ PlainCalls(r, P)
  BY <1>2, <1>4
<1>6. Len(r) = 1
  <2>1. m - (m - 1) = 1
    BY <1>1
  <2> QED BY <1>2, <1>4, <1>5, <2>1
<1>7. Last(r) = r[1]
  BY <1>6 DEF Last
<1> QED BY <1>5, <1>7 DEF PlainCalls

\* Texts without dots, and without an index that is applied to a string.
PlainNext(t, n, c) == c.kind # "." /\ (c.kind = "[" => LastOf(t, n) # "String")
PlainText(t) == \A i \in DOMAIN t : PlainNext(t, i - 1, t[i])

LEMMA PlainBefore ==
    ASSUME NEW t, NEW n \in Nat, NEW u, NEW c, Grows(u, t, n, c), PlainText(u)
    PROVE  PlainText(t) /\ PlainNext(t, n, c)
<1>1. IsText(t, n) /\ IsText(u, n + 1) /\ u[n + 1] = c /\ \A i \in 1 .. n : u[i] = t[i]
  BY DEF Grows
<1>2. DOMAIN t = 1 .. n /\ DOMAIN u = 1 .. n + 1
  BY <1>1 DEF IsText
<1>3. ASSUME NEW i \in 1 .. n PROVE PlainNext(t, i - 1, t[i])
  <2>1. i \in 1 .. n + 1 /\ i - 1 \in 0 .. n
    OBVIOUS
  <2>2. LastOf(u, i - 1) = LastOf(t, i - 1)
    BY <2>1, SameBefore
  <2>3. PlainNext(u, i - 1, u[i])
    BY <1>2, <2>1 DEF PlainText
  <2> QED BY <1>1, <2>2, <2>3 DEF PlainNext
<1>4. PlainNext(t, n, c)
  <2>1. n + 1 \in 1 .. n + 1 /\ n + 1 - 1 = n /\ n \in 0 .. n
    OBVIOUS
  <2>2. LastOf(u, n) = LastOf(t, n)
    BY <2>1, SameBefore
  <2>3. PlainNext(u, n, u[n + 1])
    BY <1>2, <2>1 DEF PlainText
  <2> QED BY <1>1, <2>2, <2>3 DEF PlainNext
<1> QED BY <1>2, <1>3, <1>4 DEF PlainText

LEMMA PlainTexts ==
    ASSUME NEW t, t = text, ~HasDot, ~IndexesString
    PROVE  PlainText(t)
<1>1. ASSUME NEW i \in DOMAIN t PROVE PlainNext(t, i - 1, t[i])
  <2>1. LastOf(t, i - 1) = LastKind(i - 1)
    BY DEF LastOf, LastKind, Words
  <2>2. t[i].kind # "."
    BY DEF HasDot
  <2>3. ~(LastKind(i - 1) = "String" /\ t[i].kind = "[")
    BY DEF IndexesString
  <2> QED BY <2>1, <2>2, <2>3 DEF PlainNext
<1> QED BY <1>1 DEF PlainText

\* What was read without dots has none.
TextsPlain ==
    /\ phase \in {"parse", "closed"} /\ PlainText(text) => \E P : PlainCalls(open, P)
    /\ phase \in {"evaluate", "follow", "reply"} /\ root # <<>> /\ PlainText(text) =>
          \E P : ArePlain(P) /\ root \in P

LEMMA EndPlain ==
    ASSUME NEW ops, ops = open, NEW D \in 0 .. MaxText, ops \in Stack(D), AreCalls(ops),
           D + Len(ops) - 1 <= MaxText, NEW P, PlainCalls(ops, P), ReadEnd
    PROVE  \/ phase' = "reply" /\ root' = root
           \/ phase' = "evaluate" /\ \E Q : ArePlain(Q) /\ root' \in Q
<1>1. CASE Throw
  BY <1>1 DEF Throw
<1>2. CASE ~Throw
  <2>1. phase' = "evaluate" /\ root' = AllClosed[1]
    BY <1>2 DEF ReadEnd
  <2>2. \E Q : ArePlain(Q) /\ AllClosed[1] \in Q
    BY PlainAtEnd
  <2> QED BY <2>1, <2>2
<1> QED BY <1>1, <1>2

LEMMA ReadNextPlain ==
    ASSUME NEW t, t = text, NEW n \in Nat, NEW ops, ops = open, Reading(t, n, ops),
           NEW P, PlainCalls(ops, P), NEW c \in Token, PlainNext(t, n, c), phase = "parse", ReadNext(c)
    PROVE  \/ phase' = "reply" /\ root' = root
           \/ phase' \in {"parse", "closed"} /\ \E Q : PlainCalls(open', Q)
           \/ phase' = "evaluate" /\ \E Q : ArePlain(Q) /\ root' \in Q
<1>1. PICK d, kind :
              /\ d \in Nat /\ IsLast(t, n, kind) /\ CallsFit(ops, d, kind) /\ AreCalls(ops)
              /\ Closings(t, n) \in 0 .. MaxText /\ Closings(t, n) + d <= MaxText
              /\ ops \in Stack(Closings(t, n))
  BY ReadingIs
<1>2. PICK D \in 0 .. MaxText : D = Closings(t, n)
  BY <1>1
<1>3. ops \in Stack(D) /\ AreCalls(ops) /\ Len(ops) = d + 1
  BY <1>1, <1>2 DEF CallsFit
<1>4. Current = Last(Last(ops))
  BY DEF Current
<1>5. CASE Throw
  BY <1>5 DEF Throw
<1>6. CASE ~Throw /\ c.kind = "["
  <2>1. ReadOpen
    BY <1>6 DEF ReadNext
  <2>2. PICK x : x = [Unparsed EXCEPT !.type = "Identifier"]
    OBVIOUS
  <2>3. open' = Append(WithNext(x), <<Unparsed>>) /\ phase' = "parse" /\ IsIndexable(Last(Last(ops)))
    BY <1>4, <1>6, <2>1, <2>2 DEF ReadOpen
  <2>4. PICK q, r : q = Replaced(ops, Append(Last(ops), x)) /\ r = open'
    OBVIOUS
  <2>5. WithNext(x) = q
    BY <2>4 DEF WithNext, Replaced
  <2>6. r = Append(q, <<Unparsed>>)
    BY <2>3, <2>4, <2>5
  <2>7. Last(Last(ops)).type = "Identifier"
    <3>1. Last(Last(ops)).type \in {"String", "Identifier"}
      BY <2>3 DEF IsIndexable
    <3>2. LastOf(t, n) = kind /\ Last(Last(ops)).type = TypeAfter(kind)
      BY <1>1 DEF IsLast, CallsFit
    <3>3. kind # "String"
      BY <1>6, <3>2 DEF PlainNext
    <3>4. TypeAfter(kind) = "String" => kind = "String"
      BY DEF TypeAfter, Operand
    <3> QED BY <3>1, <3>2, <3>3, <3>4
  <2>8. \E Q : PlainCalls(r, Q)
    BY <1>3, <2>2, <2>4, <2>6, <2>7, PlainOpen
  <2> QED BY <2>3, <2>4, <2>8
<1>7. CASE ~Throw /\ c.kind = "]" /\ Len(ops) > 1
  <2>1. ReadClose
    BY <1>7 DEF ReadNext
  <2>2. open' = Closed(ops) /\ phase' = "parse"
    BY <1>7, <2>1 DEF ReadClose
  <2>3. PICK r : r = open'
    OBVIOUS
  <2>4. D \in 0 .. MaxText - 1
    <3>1. MaxText \in Nat /\ Len(ops) = d + 1
      BY <1>3, ExpressionAssumption
    <3> QED BY <1>1, <1>2, <1>7, <3>1
  <2>5. \E Q : PlainCalls(r, Q)
    BY <1>3, <1>7, <2>2, <2>3, <2>4, PlainClosed
  <2> QED BY <2>2, <2>3, <2>5
<1>8. CASE ~Throw /\ c.kind = "]" /\ ~(Len(ops) > 1)
  <2>1. ReadClose
    BY <1>8 DEF ReadNext
  <2>2. Len(open) > 1 <=> Len(ops) > 1
    OBVIOUS
  <2>3. open' = ops /\ phase' = "closed"
    BY <1>8, <2>1, <2>2 DEF ReadClose
  <2> QED BY <2>3
<1>9. CASE ~Throw /\ c.kind \in Operand
  <2>1. ReadOperand(c)
    BY <1>9 DEF ReadNext, Operand
  <2>2. PICK x : x = [Last(Last(ops)) EXCEPT !.type = c.kind, !.value = c.value]
    OBVIOUS
  <2>3. open' = WithCurrent(x) /\ phase' = "parse" /\ Last(Last(ops)).type = "Undefined"
    BY <1>4, <1>9, <2>1, <2>2 DEF ReadOperand
  <2>4. PICK r : r = open'
    OBVIOUS
  <2>5. r = Replaced(ops, Replaced(Last(ops), x))
    BY <2>3, <2>4 DEF WithCurrent, Replaced
  <2>6. \E Q : PlainCalls(r, Q)
    <3>1. IsNamed(x, Last(Last(ops)), c)
      BY <2>2 DEF IsNamed
    <3> QED BY <1>3, <1>9, <2>3, <2>5, <3>1, PlainOperand
  <2> QED BY <2>3, <2>4, <2>6
<1>10. CASE ~Throw /\ IsSpace(c)
  <2>1. ReadSpace
    BY <1>10 DEF ReadNext, IsSpace
  <2>2. open' = ops /\ phase' = "parse"
    BY <2>1 DEF ReadSpace
  <2> QED BY <2>2
<1>11. CASE ~Throw /\ c.kind = "end"
  <2>1. ReadEnd
    BY <1>11 DEF ReadNext
  <2>2. D + Len(ops) - 1 <= MaxText
    <3>1. D + d <= MaxText
      BY <1>1, <1>2
    <3>2. D + (d + 1) - 1 = D + d
      BY <1>1
    <3> QED BY <1>3, <3>1, <3>2
  <2>3. \/ phase' = "reply" /\ root' = root
        \/ phase' = "evaluate" /\ \E Q : ArePlain(Q) /\ root' \in Q
    BY <1>3, <2>1, <2>2, EndPlain
  <2> QED BY <2>3
<1>12. CASE c.kind = "other"
  BY <1>12 DEF ReadNext, Throw
<1>13. /\ c.kind # "."
       /\ \/ c.kind \in Operand \/ c.kind = "." \/ c.kind = "[" \/ c.kind = "]" \/ IsSpace(c)
          \/ c.kind = "other" \/ c.kind = "end"
  BY TokenKinds DEF IsSpace, PlainNext
<1> QED BY <1>5, <1>6, <1>7, <1>8, <1>9, <1>10, <1>11, <1>12, <1>13

LEMMA ParsePlain ==
    ASSUME TextsFit, TextsPlain, NEW c \in Token, ParseExpression(c)
    PROVE  TextsPlain'
<1>1. PICK t, u, ops, n : t = text /\ u = text' /\ ops = open /\ n = Len(t)
  OBVIOUS
<1>2. /\ phase \in {"parse", "closed"} /\ u = Append(t, c)
      /\ phase = "parse" => ReadNext(c)
      /\ phase = "closed" => ReadAfterEnd(c)
  BY <1>1 DEF ParseExpression
<1>3. /\ root = <<>>
      /\ phase = "parse" => Reading(t, n, ops)
      /\ phase = "closed" => ReadTooFar(t, n, ops)
  BY <1>1, <1>2 DEF TextsFit
<1>4. IsText(t, n) /\ n \in Nat /\ n <= MaxText
  <2>1. IsText(t, n) /\ n <= MaxText
    BY <1>2, <1>3 DEF Reading, ReadTooFar, HasFit
  <2> QED BY <2>1 DEF IsText
<1>5. Grows(u, t, n, c)
  BY <1>2, <1>4, TextGrows
<1>6. CASE ~PlainText(u)
  BY <1>1, <1>6 DEF TextsPlain
<1>7. CASE PlainText(u)
  <2>1. PlainText(t) /\ PlainNext(t, n, c)
    BY <1>4, <1>5, <1>7, PlainBefore
  <2>2. PICK P : PlainCalls(ops, P)
    BY <1>1, <1>2, <2>1 DEF TextsPlain
  <2>3. ASSUME \/ phase' = "reply" /\ root' = root
               \/ phase' \in {"parse", "closed"} /\ \E Q : PlainCalls(open', Q)
               \/ phase' = "evaluate" /\ \E Q : ArePlain(Q) /\ root' \in Q
        PROVE  TextsPlain'
    BY <1>3, <2>3 DEF TextsPlain
  <2>4. CASE phase = "parse"
    <3>1. Reading(t, n, ops) /\ ReadNext(c)
      BY <1>2, <1>3, <2>4
    <3>2. \/ phase' = "reply" /\ root' = root
          \/ phase' \in {"parse", "closed"} /\ \E Q : PlainCalls(open', Q)
          \/ phase' = "evaluate" /\ \E Q : ArePlain(Q) /\ root' \in Q
      BY <1>1, <1>4, <2>1, <2>2, <2>4, <3>1, ReadNextPlain
    <3> QED BY <2>3, <3>2
  <2>5. CASE phase = "closed" /\ c.kind = "end"
    <3>1. HasFit(t, n, -1) /\ AreCalls(ops) /\ Len(ops) = 1 /\ ops \in Stack(Closings(t, n))
      BY <1>3, <2>5 DEF ReadTooFar
    <3>2. DepthOf(t, n) = -1 /\ DepthOf(t, n) >= -1
      BY <3>1 DEF HasFit
    <3>3. PICK D \in 0 .. MaxText : D = Closings(t, n)
      BY <1>4, <3>2, ClosingsAre
    <3>4. D + Len(ops) - 1 <= MaxText /\ ops \in Stack(D)
      BY <3>1, <3>3
    <3>5. ReadEnd
      BY <1>2, <2>5 DEF ReadAfterEnd
    <3>6. \/ phase' = "reply" /\ root' = root
          \/ phase' = "evaluate" /\ \E Q : ArePlain(Q) /\ root' \in Q
      BY <1>1, <2>2, <3>1, <3>4, <3>5, EndPlain
    <3> QED BY <2>3, <3>6
  <2>6. CASE phase = "closed" /\ c.kind # "end"
    <3>1. Throw
      BY <1>2, <2>6 DEF ReadAfterEnd
    <3> QED BY <2>3, <3>1 DEF Throw
  <2> QED BY <1>2, <2>4, <2>5, <2>6
<1> QED BY <1>6, <1>7

LEMMA PlainStays ==
    ASSUME TextsPlain, UNCHANGED <<text, root>>, phase \in {"evaluate", "follow", "reply"},
           phase' \in {"evaluate", "follow", "reply"}
    PROVE  TextsPlain'
<1>1. PICK t : t = text
  OBVIOUS
<1>2. phase' \notin {"parse", "closed"}
  OBVIOUS
<1> QED BY <1>1, <1>2 DEF TextsPlain

LEMMA TextsPlainNext ==
    ASSUME TextsFit, TextsPlain, [Next]_vars
    PROVE  TextsPlain'
<1>1. ASSUME NEW stackFrame \in -1 .. Len(Locals), GetImmediateValue(stackFrame) PROVE TextsPlain'
  <2>1. PICK ops : ops = <<<<Unparsed>>>>
    OBVIOUS
  <2>2. open' = ops /\ phase' = "parse"
    BY <1>1, <2>1 DEF GetImmediateValue
  <2>3. \E P : PlainCalls(ops, P)
    BY <2>1, PlainOpened
  <2> QED BY <2>2, <2>3 DEF TextsPlain
<1>2. ASSUME NEW token \in Token, ParseExpression(token) PROVE TextsPlain'
  BY <1>2, ParsePlain
<1>3. CASE AwaitAccessors
  BY <1>3, PlainStays DEF AwaitAccessors
<1>4. CASE EvaluateNode
  BY <1>4, PlainStays DEF EvaluateNode
<1>5. CASE NumberTooLarge
  BY <1>5, PlainStays DEF NumberTooLarge
<1>6. CASE FollowKey
  BY <1>6, PlainStays DEF FollowKey
<1>7. CASE NoSuchChild
  BY <1>7, PlainStays DEF NoSuchChild
<1>8. CASE StoreResult
  BY <1>8, PlainStays DEF StoreResult
<1>9. CASE Answer
  BY <1>9, PlainStays DEF Answer
<1>10. CASE Reply
  BY <1>10 DEF Reply, TextsPlain
<1>11. CASE UNCHANGED vars
  BY <1>11 DEF vars, TextsPlain
<1> QED BY <1>1, <1>2, <1>3, <1>4, <1>5, <1>6, <1>7, <1>8, <1>9, <1>10, <1>11 DEF Next, EvaluationStep

LEMMA AllTextsPlain ==
    Spec => []TextsPlain
<1>1. Init => TextsPlain
  BY DEF Init, TextsPlain
<1>2. TextsFit /\ TextsPlain /\ [Next]_vars => TextsPlain'
  BY TextsPlainNext
<1> QED BY <1>1, <1>2, AllTextsFit, PTL DEF Spec

-----------------------------------------------------------------------------
(* Values and what they should be *)

\* A value that is the meaning m, if m is clear.
Agrees(v, m) == IsValue(v) /\ (m = Unclear \/ m = v)

NoValue(m) == m \in {Nothing, Unclear}

LEMMA MeaningsAre ==
    /\ \A v : IsValue(v) => ~NoValue(v)
    /\ Unclear # Nothing
    /\ \A v, m : Agrees(v, m) => m # Nothing
<1>1. Type(Nothing) = "meaning" /\ Type(Unclear) = "meaning" /\ Nothing # Unclear
  BY DEF Type, Nothing, Unclear
<1>2. ASSUME NEW v, IsValue(v) PROVE ~NoValue(v)
  BY <1>1, <1>2 DEF IsValue, NoValue
<1>3. ASSUME NEW v, NEW m, Agrees(v, m) PROVE m # Nothing
  <2>1. IsValue(v) /\ (m = Unclear \/ m = v)
    BY <1>3 DEF Agrees
  <2>2. v # Nothing
    BY <1>2, <2>1 DEF NoValue
  <2> QED BY <1>1, <2>1, <2>2
<1> QED BY <1>1, <1>2, <1>3

\* Without a value there is none under any key.
LEMMA NothingUnder ==
    ASSUME NEW m, NEW k, NoValue(m) \/ NoValue(k)
    PROVE  NoValue(Under(m, k))
BY DEF NoValue, Under

LEMMA UnclearUnder ==
    ASSUME NEW m, NEW k, NEW v, NEW key, Agrees(v, m), Agrees(key, k), m = Unclear \/ k = Unclear
    PROVE  Under(m, k) = Unclear
<1>1. m # Nothing /\ k # Nothing
  BY MeaningsAre
<1>2. CASE m = Unclear
  BY <1>2 DEF Under
<1>3. CASE m # Unclear /\ k = Unclear
  BY <1>1, <1>3 DEF Under
<1> QED BY <1>2, <1>3

\* The slot of a key.
IsSlot(slots, i, key) == i \in Filled(slots) /\ slots[i].key = key

LEMMA SlotIs ==
    ASSUME NEW v, NEW slots, slots = Slots(Heap, v), NEW key, NEW i, IsSlot(slots, i, key)
    PROVE  /\ \A j : IsSlot(slots, j, key) => j = i
           /\ IsValue(slots[i].val)
           /\ HasKey(Heap, v, key) /\ ValueOf(Heap, v, key) = slots[i].val
<1>1. v \in DOMAIN Heap /\ slots = Heap[v]
  <2>1. CASE v \in DOMAIN Heap
    BY <2>1 DEF Slots
  <2>2. CASE v \notin DOMAIN Heap
    <3>1. slots = <<>>
      BY <2>2 DEF Slots
    <3>2. Filled(slots) = {}
      BY <3>1 DEF Filled
    <3> QED BY <3>2 DEF IsSlot
  <2> QED BY <2>1, <2>2
<1>2. i \in Filled(slots) /\ slots[i].key = key /\ i \in DOMAIN slots
  BY DEF IsSlot, Filled
<1>3. ASSUME NEW j, IsSlot(slots, j, key) PROVE j = i
  <2>1. j \in Filled(slots) /\ slots[j].key = slots[i].key
    BY <1>2, <1>3 DEF IsSlot
  <2> QED BY <1>1, <1>2, <2>1, ExpressionAssumption
<1>4. IsValue(slots[i].val)
  BY <1>1, <1>2, MeaningAssumption DEF IsValue
<1>5. PICK S : S = SlotsOf(Heap, v, key)
  OBVIOUS
<1>6. S = {i}
  <2>1. S = {j \in Filled(slots) : slots[j].key = key}
    BY <1>5 DEF SlotsOf
  <2>2. i \in S
    BY <1>2, <2>1
  <2>3. ASSUME NEW j \in S PROVE j = i
    BY <1>3, <2>1 DEF IsSlot
  <2> QED BY <2>2, <2>3
<1>7. HasKey(Heap, v, key)
  BY <1>5, <1>6 DEF HasKey
<1>8. PICK k : k = CHOOSE j \in S : TRUE
  OBVIOUS
<1>9. k = i
  BY <1>6, <1>8
<1>10. ValueOf(Heap, v, key) = slots[k].val
  BY <1>5, <1>8 DEF ValueOf
<1> QED BY <1>3, <1>4, <1>7, <1>9, <1>10

LEMMA KeyHasSlot ==
    ASSUME NEW v, NEW slots, slots = Slots(Heap, v), NEW key
    PROVE  HasKey(Heap, v, key) <=> \E i : IsSlot(slots, i, key)
BY DEF HasKey, SlotsOf, IsSlot

\* A key whose bits no other key has.
IsOnly(slots, key) == ~ \E i \in Filled(slots) : slots[i].key # key /\ Raw(slots[i].key) = Raw(key)

LEMMA UnderIs ==
    ASSUME NEW v, IsValue(v), NEW key, IsValue(key), NEW slots, slots = Slots(Heap, v)
    PROVE  Under(v, key) =
              IF Type(v) \notin {"array", "table"} \/ ~HasKey(Heap, v, key) THEN Nothing
              ELSE IF ~IsOnly(slots, key) THEN Unclear ELSE ValueOf(Heap, v, key)
<1>1. ~NoValue(v) /\ ~NoValue(key)
  BY MeaningsAre
<1> QED BY <1>1 DEF Under, NoValue, IsOnly

\* The child that is found.
LEMMA ChildAgrees ==
    ASSUME NEW v, IsValue(v), NEW key, IsValue(key), NEW child \in Children(v, key)
    PROVE  Agrees(child.value, Under(v, key))
<1>1. PICK slots : slots = Slots(Heap, v)
  OBVIOUS
<1>2. Filled(slots) \subseteq Nat \ {0}
  BY <1>1, SlotsAre
<1>3. Under(v, key) =
         IF Type(v) \notin {"array", "table"} \/ ~HasKey(Heap, v, key) THEN Nothing
         ELSE IF ~IsOnly(slots, key) THEN Unclear ELSE ValueOf(Heap, v, key)
  BY <1>1, UnderIs
<1>4. CASE Type(v) = "array" /\ Type(key) = "integer"
  <2>1. child \in {[value |-> slots[i].val, part |-> key[2]] : i \in SlotsOf(Heap, v, key)}
    BY <1>1, <1>4 DEF Children
  <2>2. PICK i \in SlotsOf(Heap, v, key) : child = [value |-> slots[i].val, part |-> key[2]]
    BY <2>1
  <2>3. IsSlot(slots, i, key)
    BY <1>1 DEF SlotsOf, IsSlot
  <2>4. HasKey(Heap, v, key) /\ ValueOf(Heap, v, key) = slots[i].val /\ IsValue(slots[i].val)
    BY <1>1, <2>3, SlotIs
  <2>5. child.value = slots[i].val
    BY <2>2
  <2> QED BY <1>3, <1>4, <2>4, <2>5 DEF Agrees
<1>5. CASE Type(v) = "table" /\ HasKey(Heap, v, key)
  <2>1. PICK iter : iter = IteratorTo(slots, key)
    OBVIOUS
  <2>2. child = [value |-> slots[NextSlot(slots, iter)].val, part |-> PartOf(slots, iter)]
    BY <1>1, <1>5, <2>1 DEF Children
  <2>3. PICK i : IsSlot(slots, i, key)
    BY <1>1, <1>5, KeyHasSlot
  <2>4. PICK j : j = NextSlot(slots, iter)
    OBVIOUS
  <2>5. j \in Filled(slots) /\ Raw(slots[j].key) = Raw(key)
    <3>1. \E k \in Filled(slots) : Raw(slots[k].key) = Raw(key)
      BY <2>3 DEF IsSlot
    <3> QED BY <1>2, <2>1, <2>4, <3>1, IteratorIs
  <2>6. child.value = slots[j].val
    BY <2>2, <2>4
  <2>7. IsSlot(slots, j, slots[j].key)
    BY <2>5 DEF IsSlot
  <2>8. IsValue(child.value)
    <3>1. PICK l : l = slots[j].key
      OBVIOUS
    <3>2. IsSlot(slots, j, l)
      BY <2>7, <3>1
    <3>3. IsValue(slots[j].val)
      BY <1>1, <3>2, SlotIs
    <3> QED BY <2>6, <3>3
  <2>9. CASE IsOnly(slots, key)
    <3>1. slots[j].key = key
      BY <2>5, <2>9 DEF IsOnly
    <3>2. IsSlot(slots, j, key)
      BY <2>5, <3>1 DEF IsSlot
    <3>3. ValueOf(Heap, v, key) = slots[j].val
      BY <1>1, <3>2, SlotIs
    <3> QED BY <1>3, <1>5, <2>6, <2>8, <2>9, <3>3 DEF Agrees
  <2>10. CASE ~IsOnly(slots, key)
    BY <1>3, <1>5, <2>8, <2>10 DEF Agrees
  <2> QED BY <2>9, <2>10
<1> QED BY <1>4, <1>5 DEF Children

LEMMA NoChildAgrees ==
    ASSUME NEW v, IsValue(v), NEW key, IsValue(key), Children(v, key) = {}
    PROVE  NoValue(Under(v, key))
<1>1. PICK slots : slots = Slots(Heap, v)
  OBVIOUS
<1>2. ASSUME HasKey(Heap, v, key), Type(v) \in {"array", "table"} PROVE FALSE
  <2>1. PICK i : IsSlot(slots, i, key)
    BY <1>1, <1>2, KeyHasSlot
  <2>2. CASE Type(v) = "array"
    <3>1. key = Integer(i - 1)
      BY <1>1, <2>1, <2>2, SlotsAre DEF IsSlot
    <3>2. Type(key) = "integer"
      BY <3>1 DEF Type, Integer
    <3>3. i \in SlotsOf(Heap, v, key)
      BY <1>1, <2>1 DEF SlotsOf, IsSlot
    <3>4. Children(v, key) = {[value |-> slots[j].val, part |-> key[2]] : j \in SlotsOf(Heap, v, key)}
      BY <1>1, <2>2, <3>2 DEF Children
    <3> QED BY <3>3, <3>4
  <2>3. CASE Type(v) = "table"
    <3>1. Type(v) # "array"
      BY <2>3
    <3>2. Children(v, key) = {[value |-> slots[NextSlot(slots, iter)].val, part |-> PartOf(slots, iter)] :
                                 iter \in {IteratorTo(slots, key)}}
      BY <1>1, <1>2, <2>3, <3>1 DEF Children
    <3> QED BY <3>2
  <2> QED BY <1>2, <2>2, <2>3
<1>3. Under(v, key) = Nothing
  BY <1>1, <1>2, UnderIs
<1> QED BY <1>3 DEF NoValue

\* The same for any meanings.
LEMMA ChildMeans ==
    ASSUME NEW v, NEW m, Agrees(v, m), NEW key, NEW k, Agrees(key, k)
    PROVE  /\ \A child \in Children(v, key) : Agrees(child.value, Under(m, k))
           /\ Children(v, key) = {} => NoValue(Under(m, k))
<1>1. IsValue(v) /\ IsValue(key)
  BY DEF Agrees
<1>2. CASE m = Unclear \/ k = Unclear
  <2>1. Under(m, k) = Unclear
    BY <1>2, UnclearUnder
  <2>2. ASSUME NEW child \in Children(v, key) PROVE Agrees(child.value, Unclear)
    <3>1. Agrees(child.value, Under(v, key))
      BY <1>1, ChildAgrees
    <3> QED BY <3>1 DEF Agrees
  <2> QED BY <2>1, <2>2 DEF NoValue
<1>3. CASE m # Unclear /\ k # Unclear
  <2>1. m = v /\ k = key
    BY <1>3 DEF Agrees
  <2> QED BY <1>1, <2>1, ChildAgrees, NoChildAgrees
<1> QED BY <1>2, <1>3

-----------------------------------------------------------------------------
(* What expressions mean *)

AlongTo(n, first, key, u) == u = [i \in 1 .. n |-> IF i > 1 THEN Under(u[i - 1], key[i]) ELSE first]
Along(n, first, key) == LET u == CHOOSE w : AlongTo(n, first, key, w) IN u[n]
IsAlong(n, first, key, u) == u[1] = first /\ \A i \in 2 .. n : u[i] = Under(u[i - 1], key[i])

LEMMA AlongExists ==
    ASSUME NEW n \in Nat, NEW first, NEW key
    PROVE  \E u : AlongTo(n, first, key, u)
<1> DEFINE S == {k \in Nat : ~ \E u : AlongTo(k, first, key, u)}
<1> SUFFICES S = {}
  OBVIOUS
<1> SUFFICES ASSUME S # {} PROVE FALSE
  OBVIOUS
<1>1. PICK m \in S : \A k \in S : m <= k
  BY LeastNumber
<1>2. m \in Nat /\ ~ \E u : AlongTo(m, first, key, u)
  BY <1>1
<1>3. CASE m = 0
  <2>1. PICK u : u = [i \in 1 .. 0 |-> first]
    OBVIOUS
  <2>2. PICK w : w = [i \in 1 .. 0 |-> IF i > 1 THEN Under(u[i - 1], key[i]) ELSE first]
    OBVIOUS
  <2>3. \A i \in 1 .. 0 : ~(i > 1)
    OBVIOUS
  <2>4. u = w
    BY <2>1, <2>2, <2>3
  <2> QED BY <1>2, <1>3, <2>2, <2>4 DEF AlongTo
<1>4. CASE m # 0
  <2>1. PICK k \in Nat : m = k + 1 /\ k \notin S
    <3>1. m - 1 \in Nat /\ m = m - 1 + 1 /\ ~ (m <= m - 1)
      BY <1>2, <1>4
    <3>2. m - 1 \notin S
      BY <1>1, <3>1
    <3> HIDE DEF S
    <3> QED BY <3>1, <3>2
  <2>2. PICK u : AlongTo(k, first, key, u)
    BY <2>1
  <2> HIDE DEF S
  <2>3. PICK w : w = [i \in 1 .. m |-> IF i > 1 THEN Under(u[i - 1], key[i]) ELSE first]
    OBVIOUS
  <2>4. PICK g : g = [i \in 1 .. k |-> IF i > 1 THEN Under(u[i - 1], key[i]) ELSE first]
    OBVIOUS
  <2>5. u = g
    BY <2>2, <2>4 DEF AlongTo
  <2>6. ASSUME NEW i \in 1 .. k PROVE w[i] = u[i]
    <3>1. i \in 1 .. m
      BY <2>1
    <3>2. w[i] = IF i > 1 THEN Under(u[i - 1], key[i]) ELSE first
      BY <2>3, <3>1
    <3>3. g[i] = IF i > 1 THEN Under(u[i - 1], key[i]) ELSE first
      BY <2>4
    <3> QED BY <2>5, <3>2, <3>3
  <2>7. PICK x : x = [i \in 1 .. m |-> IF i > 1 THEN Under(w[i - 1], key[i]) ELSE first]
    OBVIOUS
  <2>8. ASSUME NEW i \in 1 .. m PROVE w[i] = x[i]
    <3>1. CASE i > 1
      <4>1. i - 1 \in 1 .. k
        BY <2>1, <3>1
      <4>2. w[i - 1] = u[i - 1]
        BY <2>6, <4>1
      <4>3. w[i] = Under(u[i - 1], key[i]) /\ x[i] = Under(w[i - 1], key[i])
        BY <2>3, <2>7, <3>1
      <4> QED BY <4>2, <4>3
    <3>2. CASE ~(i > 1)
      BY <2>3, <2>7, <3>2
    <3> QED BY <3>1, <3>2
  <2>9. w = x
    BY <2>3, <2>7, <2>8
  <2> QED BY <1>2, <2>7, <2>9 DEF AlongTo
<1> QED BY <1>3, <1>4

LEMMA AlongIs ==
    ASSUME NEW n \in Nat \ {0}, NEW first, NEW key
    PROVE  \E u : IsAlong(n, first, key, u) /\ Along(n, first, key) = u[n]
<1>1. PICK u : u = CHOOSE w : AlongTo(n, first, key, w)
  OBVIOUS
<1>2. AlongTo(n, first, key, u)
  BY <1>1, AlongExists
<1>3. PICK g : g = [i \in 1 .. n |-> IF i > 1 THEN Under(u[i - 1], key[i]) ELSE first]
  OBVIOUS
<1>4. u = g
  BY <1>2, <1>3 DEF AlongTo
<1>5. u[1] = first
  <2>1. 1 \in 1 .. n
    OBVIOUS
  <2> QED BY <1>3, <1>4, <2>1
<1>6. ASSUME NEW i \in 2 .. n PROVE u[i] = Under(u[i - 1], key[i])
  <2>1. i \in 1 .. n /\ i > 1
    OBVIOUS
  <2> QED BY <1>3, <1>4, <2>1
<1>7. Along(n, first, key) = u[n]
  BY <1>1 DEF Along
<1> QED BY <1>5, <1>6, <1>7 DEF IsAlong

\* Where there is no value, none follows.
LEMMA NothingAlong ==
    ASSUME NEW n \in Nat, NEW first, NEW key, NEW u, IsAlong(n, first, key, u),
           NEW k \in 1 .. n, NoValue(u[k])
    PROVE  NoValue(u[n])
<1> DEFINE S == {i \in k .. n : ~NoValue(u[i])}
<1>1. S = {}
  <2> SUFFICES ASSUME S # {} PROVE FALSE
    OBVIOUS
  <2>1. PICK m \in S : \A i \in S : m <= i
    <3>1. S \subseteq Nat
      OBVIOUS
    <3> HIDE DEF S
    <3> QED BY <3>1, LeastNumber
  <2>2. m \in k .. n /\ ~NoValue(u[m])
    BY <2>1
  <2>3. m # k
    BY <2>2
  <2>4. m - 1 \in k .. n /\ m \in 2 .. n /\ ~(m <= m - 1)
    BY <2>2, <2>3
  <2>5. NoValue(u[m - 1])
    <3>1. m - 1 \notin S
      <4> HIDE DEF S
      <4> QED BY <2>1, <2>4
    <3> QED BY <2>4, <3>1
  <2>6. u[m] = Under(u[m - 1], key[m])
    BY <2>4 DEF IsAlong
  <2> QED BY <2>2, <2>5, <2>6, NothingUnder
<1>2. n \in k .. n
  OBVIOUS
<1> QED BY <1>1, <1>2

-----------------------------------------------------------------------------

KeyOf(e, mg) == [i \in DOMAIN e |-> IF e[i].accessor # <<>> THEN mg[e[i].accessor] ELSE e[i].value]

\* As Meaning, where h has the values of the first nodes.
MeansTo(D, h, mg) == mg = [e \in D |-> Along(Len(e), h[e], KeyOf(e, mg))]

LEMMA MeansToIs ==
    ASSUME NEW D, NEW h, NEW mg, MeansTo(D, h, mg), NEW e \in D
    PROVE  mg[e] = Along(Len(e), h[e], KeyOf(e, mg))
<1>1. PICK g : g = [x \in D |-> Along(Len(x), h[x], KeyOf(x, mg))]
  OBVIOUS
<1>2. mg = g
  BY <1>1 DEF MeansTo
<1> QED BY <1>1, <1>2

LEMMA KeysDepend ==
    ASSUME NEW e, NEW v, NEW w, \A i \in DOMAIN e : v[e[i].accessor] = w[e[i].accessor]
    PROVE  KeyOf(e, v) = KeyOf(e, w)
BY DEF KeyOf

LEMMA MeaningExists ==
    ASSUME NEW d \in 0 .. MaxText + 1, NEW h
    PROVE  \E mg : MeansTo(Nested[d], h, mg)
<1>0. MaxText \in Nat
  BY ExpressionAssumption
<1> DEFINE S == {k \in 0 .. MaxText + 1 : ~ \E mg : MeansTo(Nested[k], h, mg)}
<1> SUFFICES S = {}
  OBVIOUS
<1> SUFFICES ASSUME S # {} PROVE FALSE
  OBVIOUS
<1>1. PICK m \in S : \A k \in S : m <= k
  <2>1. S \subseteq Nat
    BY <1>0
  <2> HIDE DEF S
  <2> QED BY <2>1, LeastNumber
<1>2. m \in 0 .. MaxText + 1 /\ ~ \E mg : MeansTo(Nested[m], h, mg)
  BY <1>1
<1>3. CASE m = 0
  <2>1. PICK v, w : w = [e \in {<<>>} |-> Along(Len(e), h[e], KeyOf(e, v))]
    OBVIOUS
  <2>2. KeyOf(<<>>, v) = KeyOf(<<>>, w)
    <3>1. PICK e : e = <<>>
      OBVIOUS
    <3>2. \A i \in DOMAIN e : v[e[i].accessor] = w[e[i].accessor]
      BY <3>1
    <3> QED BY <3>1, <3>2, KeysDepend
  <2>3. w = [e \in {<<>>} |-> Along(Len(e), h[e], KeyOf(e, w))]
    BY <2>1, <2>2
  <2> QED BY <1>2, <1>3, <2>3, NestedIs DEF MeansTo
<1>4. CASE m # 0
  <2>1. PICK k \in 0 .. MaxText : m = k + 1 /\ k \notin S
    <3>1. m - 1 \in 0 .. MaxText /\ m = m - 1 + 1 /\ ~ (m <= m - 1)
      BY <1>0, <1>2, <1>4
    <3>2. m - 1 \notin S
      BY <1>1, <3>1
    <3> HIDE DEF S
    <3> QED BY <3>1, <3>2
  <2>2. PICK v : MeansTo(Nested[k], h, v)
    <3>1. k \in 0 .. MaxText + 1
      BY <1>0
    <3> QED BY <2>1, <3>1
  <2> HIDE DEF S
  <2>3. PICK w : w = [e \in Nested[m] |-> Along(Len(e), h[e], KeyOf(e, v))]
    OBVIOUS
  <2>4. Nested[k] \subseteq Nested[m]
    BY <2>1, NestedGrows
  <2>5. ASSUME NEW e \in Nested[k] PROVE w[e] = v[e]
    BY <2>2, <2>3, <2>4, MeansToIs
  <2>6. ASSUME NEW e \in Nested[m] PROVE KeyOf(e, v) = KeyOf(e, w)
    <3>1. \A i \in DOMAIN e : e[i].accessor \in Nested[k]
      BY <2>1, NestedExprs
    <3>2. \A i \in DOMAIN e : v[e[i].accessor] = w[e[i].accessor]
      BY <2>5, <3>1
    <3> QED BY <3>2, KeysDepend
  <2>7. w = [e \in Nested[m] |-> Along(Len(e), h[e], KeyOf(e, w))]
    BY <2>3, <2>6
  <2> QED BY <1>2, <2>7 DEF MeansTo
<1> QED BY <1>3, <1>4

Firsts == [e \in Expressions |-> First(e)]

LEMMA MeaningIs ==
    ASSUME NEW h, h = Firsts, NEW mg, mg = Meaning
    PROVE  MeansTo(Expressions, h, mg)
<1> DEFINE IsMeaning(w) == w = [e \in Expressions |-> Along(Len(e), First(e), KeyOf(e, w))]
<1>1. MaxText + 1 \in 0 .. MaxText + 1
  BY ExpressionAssumption
<1>2. ASSUME NEW w PROVE IsMeaning(w) <=> MeansTo(Expressions, h, w)
  <2>1. \A e \in Expressions : First(e) = h[e]
    BY DEF Firsts
  <2>2. [e \in Expressions |-> Along(Len(e), First(e), KeyOf(e, w))] =
        [e \in Expressions |-> Along(Len(e), h[e], KeyOf(e, w))]
    BY <2>1
  <2> QED BY <2>2 DEF MeansTo
<1>3. \E w : IsMeaning(w)
  BY <1>1, <1>2, MeaningExists DEF Expressions
<1>4. mg = CHOOSE w : IsMeaning(w)
  BY DEF Meaning, Along, AlongTo, KeyOf
<1>5. IsMeaning(mg)
  <2> HIDE DEF IsMeaning
  <2> QED BY <1>3, <1>4
<1> QED BY <1>2, <1>5

LEMMA PlainMeaning ==
    ASSUME NEW h, NEW mg, MeansTo(Expressions, h, mg), NEW e \in Expressions, NEW P, IsPlain(e, P)
    PROVE  \E u, key : /\ IsAlong(Len(e), h[e], key, u) /\ mg[e] = u[Len(e)]
                       /\ \A i \in 2 .. Len(e) : key[i] = mg[e[i].accessor]
<1>1. PICK n \in Nat \ {0} : n = Len(e)
  BY DEF IsPlain
<1>2. DOMAIN e = 1 .. n
  BY <1>1, ExpressionsAre
<1>3. PICK key : key = KeyOf(e, mg)
  OBVIOUS
<1>4. PICK u : IsAlong(n, h[e], key, u) /\ Along(n, h[e], key) = u[n]
  BY AlongIs
<1>5. mg[e] = u[n]
  BY <1>1, <1>3, <1>4, MeansToIs
<1>6. ASSUME NEW i \in 2 .. n PROVE key[i] = mg[e[i].accessor]
  <2>1. i \in 1 .. n
    OBVIOUS
  <2>2. e[i].accessor # <<>>
    BY <1>1 DEF IsPlain, IsIndex
  <2> QED BY <1>2, <1>3, <2>1, <2>2 DEF KeyOf
<1> QED BY <1>1, <1>4, <1>5, <1>6

\* The nodes with an accessor.
IsAccessed(e, i) == i \in DOMAIN e /\ e[i].accessor # <<>>

LEMMA AccessedIs ==
    ASSUME NEW e \in Expressions, NEW P, IsPlain(e, P), NEW i, IsAccessed(e, i)
    PROVE  /\ i \in 2 .. Len(e) /\ i \in Nat \ {0}
           /\ e[i].accessor \in P /\ e[i].accessor \in Expressions
<1>1. DOMAIN e = 1 .. Len(e) /\ Len(e) \in Nat /\ e[i].accessor \in Expressions
  BY ExpressionsAre DEF IsAccessed
<1>2. i # 1
  BY DEF IsAccessed, IsPlain, IsFirst
<1>3. i \in 2 .. Len(e) /\ i \in Nat \ {0}
  BY <1>1, <1>2 DEF IsAccessed
<1>4. IsIndex(e[i], P)
  BY <1>3 DEF IsPlain
<1> QED BY <1>1, <1>3, <1>4 DEF IsIndex

\* An expression with an index that has no value has none.
LEMMA NothingInside ==
    ASSUME NEW h, NEW mg, MeansTo(Expressions, h, mg), NEW e \in Expressions, NEW P, IsPlain(e, P),
           NEW i, IsAccessed(e, i), NoValue(mg[e[i].accessor])
    PROVE  NoValue(mg[e])
<1>1. PICK u, key : /\ IsAlong(Len(e), h[e], key, u) /\ mg[e] = u[Len(e)]
                    /\ \A j \in 2 .. Len(e) : key[j] = mg[e[j].accessor]
  BY PlainMeaning
<1>2. PICK n \in Nat \ {0} : n = Len(e)
  BY DEF IsPlain
<1>3. i \in 2 .. n
  BY <1>2, AccessedIs
<1>4. u[i] = Under(u[i - 1], key[i]) /\ key[i] = mg[e[i].accessor]
  BY <1>1, <1>2, <1>3 DEF IsAlong
<1>5. NoValue(u[i])
  BY <1>4, NothingUnder
<1>6. i \in 1 .. n
  BY <1>3
<1>7. IsAlong(n, h[e], key, u)
  BY <1>1, <1>2
<1>8. NoValue(u[n])
  BY <1>5, <1>6, <1>7, NothingAlong
<1> QED BY <1>1, <1>2, <1>8

LEMMA NothingFirst ==
    ASSUME NEW h, NEW mg, MeansTo(Expressions, h, mg), NEW e \in Expressions, NEW P, IsPlain(e, P),
           NoValue(h[e])
    PROVE  NoValue(mg[e])
<1>1. PICK u, key : IsAlong(Len(e), h[e], key, u) /\ mg[e] = u[Len(e)]
  BY PlainMeaning
<1>2. PICK n \in Nat \ {0} : n = Len(e)
  BY DEF IsPlain
<1>3. u[1] = h[e] /\ 1 \in 1 .. n /\ IsAlong(n, h[e], key, u)
  BY <1>1, <1>2 DEF IsAlong
<1>4. NoValue(u[n])
  BY <1>3, NothingAlong
<1> QED BY <1>1, <1>2, <1>4

-----------------------------------------------------------------------------
(* The places of the brackets that have been looked into *)

Below(p, q, i) == p = Append(q, i)

LEMMA BelowIs ==
    ASSUME NEW q \in Seq(Nat), NEW i \in Nat, NEW p, Below(p, q, i)
    PROVE  /\ p \in Seq(Nat) /\ Last(p) = i /\ Front(p) = q
           /\ \A x \in Seq(Nat), y \in Nat : Below(p, x, y) => x = q /\ y = i
<1>1. ASSUME NEW x \in Seq(Nat), NEW y \in Nat, Below(p, x, y)
      PROVE  p \in Seq(Nat) /\ Last(p) = y /\ Front(p) = x
  <2>1. p = Append(x, y)
    BY <1>1 DEF Below
  <2>2. Front(p) = x /\ p \in Seq(Nat) /\ Len(p) = Len(x) + 1
    BY ONLY x \in Seq(Nat), y \in Nat, <2>1, FrontOfAppend
  <2>3. p[Len(x) + 1] = y
    BY ONLY x \in Seq(Nat), y \in Nat, <2>1, AppendProperties
  <2> QED BY ONLY <2>2, <2>3 DEF Last
<1>2. p \in Seq(Nat) /\ Last(p) = i /\ Front(p) = q
  BY <1>1
<1>3. ASSUME NEW x \in Seq(Nat), NEW y \in Nat, Below(p, x, y) PROVE x = q /\ y = i
  BY <1>1, <1>2, <1>3
<1> QED BY <1>2, <1>3

\* The expressions at places within the expression r; where one has no value, r has none.
Places(L, P, r, mg) ==
    /\ ArePlain(P)
    /\ <<>> \in DOMAIN L /\ L[<<>>] = r
    /\ \A p \in DOMAIN L : /\ p \in Seq(Nat) /\ L[p] \in P /\ L[p] \in Expressions
                           /\ NoValue(mg[L[p]]) => NoValue(mg[r])
    /\ \A p \in DOMAIN L : \A q \in Seq(Nat), i \in Nat :
          Below(p, q, i) => q \in DOMAIN L /\ IsAccessed(L[q], i) /\ L[p] = L[q][i].accessor

Extends(M, L) == DOMAIN L \subseteq DOMAIN M /\ \A p \in DOMAIN L : M[p] = L[p]

LEMMA FirstPlace ==
    ASSUME NEW P, ArePlain(P), NEW r \in P, r \in Expressions, NEW mg
    PROVE  \E L : DOMAIN L = {<<>>} /\ Places(L, P, r, mg)
<1>1. PICK e, L : e = <<>> /\ L = [p \in {e} |-> r]
  OBVIOUS
<1>2. e \in Seq(Nat) /\ DOMAIN L = {e} /\ L[e] = r
  BY <1>1
<1>3. ASSUME NEW q \in Seq(Nat), NEW i \in Nat, Below(e, q, i) PROVE FALSE
  <2>1. Len(e) = Len(q) + 1
    BY <1>3, AppendProperties DEF Below
  <2>2. Len(q) \in Nat /\ Len(e) = 0
    BY <1>1, LenProperties
  <2>3. \A k \in Nat : k + 1 # 0
    OBVIOUS
  <2> QED BY ONLY <2>1, <2>2, <2>3
<1>4. Places(L, P, r, mg)
  <2>1. <<>> \in DOMAIN L /\ L[<<>>] = r
    BY <1>1, <1>2
  <2>2. \A p \in DOMAIN L : p = e
    BY <1>2
  <2>3. L[e] \in P /\ L[e] \in Expressions /\ (NoValue(mg[L[e]]) => NoValue(mg[r]))
    BY <1>2
  <2>4. ASSUME NEW p \in DOMAIN L
        PROVE  /\ p \in Seq(Nat) /\ L[p] \in P /\ L[p] \in Expressions
               /\ NoValue(mg[L[p]]) => NoValue(mg[r])
    BY <1>2, <2>2, <2>3
  <2>5. ASSUME NEW p \in DOMAIN L, NEW q \in Seq(Nat), NEW i \in Nat, Below(p, q, i) PROVE FALSE
    BY <1>3, <2>2, <2>5
  <2> QED BY <2>1, <2>4, <2>5 DEF Places
<1> QED BY <1>1, <1>2, <1>4

\* The accessors of an expression join it.
LEMMA PlacesGrow ==
    ASSUME NEW h, NEW mg, MeansTo(Expressions, h, mg), NEW L, NEW P, NEW r, Places(L, P, r, mg),
           NEW q \in DOMAIN L, NEW e, e = L[q]
    PROVE  \E M : /\ Places(M, P, r, mg) /\ Extends(M, L)
                  /\ \A i, p : IsAccessed(e, i) /\ Below(p, q, i) => p \in DOMAIN M /\ M[p] = e[i].accessor
<1>1. q \in Seq(Nat) /\ e \in P /\ e \in Expressions /\ IsPlain(e, P) /\ (NoValue(mg[e]) => NoValue(mg[r]))
  BY DEF Places, ArePlain
<1>2. PICK N : N = {p \in Seq(Nat) : \E i : IsAccessed(e, i) /\ Below(p, q, i)}
  OBVIOUS
<1>3. PICK M : M = [p \in DOMAIN L \cup N |-> IF p \in DOMAIN L THEN L[p] ELSE e[Last(p)].accessor]
  OBVIOUS
<1>4. DOMAIN M = DOMAIN L \cup N /\ Extends(M, L)
  BY <1>3 DEF Extends
<1>5. ASSUME NEW i, IsAccessed(e, i)
      PROVE  i \in Nat /\ e[i].accessor \in P /\ e[i].accessor \in Expressions
                 /\ (NoValue(mg[e[i].accessor]) => NoValue(mg[r]))
  <2>1. i \in Nat /\ e[i].accessor \in P /\ e[i].accessor \in Expressions
    BY <1>1, <1>5, AccessedIs
  <2>2. NoValue(mg[e[i].accessor]) => NoValue(mg[e])
    BY <1>1, <1>5, NothingInside
  <2> QED BY <1>1, <2>1, <2>2
<1>6. ASSUME NEW i, IsAccessed(e, i), NEW p, Below(p, q, i)
      PROVE  p \in N /\ M[p] = e[i].accessor /\ p \in Seq(Nat)
  <2>1. i \in Nat
    BY <1>5, <1>6
  <2>2. p \in Seq(Nat) /\ Last(p) = i
    BY <1>1, <1>6, <2>1, BelowIs
  <2>3. p \in N
    BY <1>2, <1>6, <2>2
  <2>4. CASE p \in DOMAIN L
    <3>1. L[p] = e[i].accessor
      BY <1>1, <1>6, <2>1, <2>4 DEF Places
    <3> QED BY <1>3, <2>2, <2>3, <2>4, <3>1
  <2>5. CASE p \notin DOMAIN L
    BY <1>3, <2>2, <2>3, <2>5
  <2> QED BY <2>2, <2>3, <2>4, <2>5
<1>7. ASSUME NEW p \in DOMAIN M
      PROVE  /\ p \in Seq(Nat) /\ M[p] \in P /\ M[p] \in Expressions
             /\ NoValue(mg[M[p]]) => NoValue(mg[r])
  <2>1. CASE p \in DOMAIN L
    <3>1. M[p] = L[p]
      BY <1>4, <2>1 DEF Extends
    <3> QED BY <2>1, <3>1 DEF Places
  <2>2. CASE p \notin DOMAIN L
    <3>1. PICK i : IsAccessed(e, i) /\ Below(p, q, i)
      BY <1>2, <1>4, <2>2
    <3> QED BY <1>5, <1>6, <3>1
  <2> QED BY <2>1, <2>2
<1>8. ASSUME NEW p \in DOMAIN M, NEW x \in Seq(Nat), NEW i \in Nat, Below(p, x, i)
      PROVE  x \in DOMAIN M /\ IsAccessed(M[x], i) /\ M[p] = M[x][i].accessor
  <2>1. CASE p \in DOMAIN L
    <3>1. x \in DOMAIN L /\ IsAccessed(L[x], i) /\ L[p] = L[x][i].accessor
      BY <1>8, <2>1 DEF Places
    <3> QED BY <1>4, <2>1, <3>1 DEF Extends
  <2>2. CASE p \notin DOMAIN L
    <3>1. PICK j : IsAccessed(e, j) /\ Below(p, q, j)
      BY <1>2, <1>4, <2>2
    <3>2. j \in Nat
      BY <1>5, <3>1
    <3>3. x = q /\ i = j
      BY <1>1, <1>8, <3>1, <3>2, BelowIs
    <3>4. M[q] = e /\ q \in DOMAIN M
      BY <1>4 DEF Extends
    <3> QED BY <1>6, <3>1, <3>3, <3>4
  <2> QED BY <2>1, <2>2
<1>9. <<>> \in DOMAIN M /\ M[<<>>] = r
  BY <1>4 DEF Places, Extends
<1>10. Places(M, P, r, mg)
  <2>1. ArePlain(P)
    BY DEF Places
  <2> QED BY <1>7, <1>8, <1>9, <2>1 DEF Places
<1> QED BY <1>4, <1>6, <1>10

-----------------------------------------------------------------------------
(* Following keys *)

\* From the value v the keys ks lead to what is meant by goal.
LeadsTo(v, ks, goal) ==
    \E T, w, k : /\ ks \in Seq(T) /\ Agrees(v, w[0]) /\ w[Len(ks)] = goal
                 /\ \A j \in 1 .. Len(ks) : Agrees(ks[j], k[j]) /\ w[j] = Under(w[j - 1], k[j])

LEMMA LeadsHome ==
    ASSUME NEW v, NEW ks, ks = <<>>, NEW goal, LeadsTo(v, ks, goal)
    PROVE  Agrees(v, goal)
<1>1. Len(ks) = 0
  OBVIOUS
<1> QED BY <1>1 DEF LeadsTo

LEMMA FirstKey ==
    ASSUME NEW T, NEW ks \in Seq(T), ks # <<>>
    PROVE  /\ Len(ks) \in Nat \ {0} /\ Head(ks) = ks[1]
           /\ Tail(ks) \in Seq(T) /\ Len(Tail(ks)) = Len(ks) - 1
           /\ \A j \in 1 .. Len(ks) - 1 : Tail(ks)[j] = ks[j + 1]
<1>1. Len(ks) \in Nat /\ Len(ks) # 0
  BY LenProperties, EmptySeq
<1>2. PICK n \in Nat \ {0} : n = Len(ks)
  BY <1>1
<1>3. Head(ks) = ks[1] /\ Tail(ks) \in Seq(T) /\ Len(Tail(ks)) = n - 1
  BY <1>2, HeadTailProperties
<1>4. ASSUME NEW j \in 1 .. n - 1 PROVE Tail(ks)[j] = ks[j + 1]
  BY <1>2, <1>4, HeadTailProperties
<1> QED BY <1>1, <1>2, <1>3, <1>4

LEMMA LeadsOn ==
    ASSUME NEW v, NEW ks, ks # <<>>, NEW goal, LeadsTo(v, ks, goal), NEW child \in Children(v, Head(ks))
    PROVE  LeadsTo(child.value, Tail(ks), goal)
<1>1. PICK T, w, k : /\ ks \in Seq(T) /\ Agrees(v, w[0]) /\ w[Len(ks)] = goal
                     /\ \A j \in 1 .. Len(ks) : Agrees(ks[j], k[j]) /\ w[j] = Under(w[j - 1], k[j])
  BY DEF LeadsTo
<1>2. PICK n \in Nat \ {0} : n = Len(ks)
  BY <1>1, FirstKey
<1>3. /\ Head(ks) = ks[1] /\ Tail(ks) \in Seq(T) /\ Len(Tail(ks)) = n - 1
      /\ \A j \in 1 .. n - 1 : Tail(ks)[j] = ks[j + 1]
  BY <1>1, <1>2, FirstKey
<1>4. Agrees(child.value, w[1])
  <2>1. 1 \in 1 .. n /\ 1 - 1 = 0
    OBVIOUS
  <2>2. Agrees(ks[1], k[1]) /\ w[1] = Under(w[1 - 1], k[1])
    BY <1>1, <1>2, <2>1
  <2>3. Agrees(child.value, Under(w[0], k[1]))
    BY <1>1, <1>3, <2>2, ChildMeans
  <2> QED BY <2>1, <2>2, <2>3
<1>5. PICK x, l, rest : /\ x = [j \in 0 .. n - 1 |-> w[j + 1]] /\ l = [j \in 1 .. n - 1 |-> k[j + 1]]
                        /\ rest = Tail(ks)
  OBVIOUS
<1>6. x[0] = w[1] /\ x[n - 1] = goal
  <2>1. 0 \in 0 .. n - 1 /\ n - 1 \in 0 .. n - 1 /\ n - 1 + 1 = n /\ 0 + 1 = 1
    OBVIOUS
  <2> QED BY <1>1, <1>2, <1>5, <2>1
<1>7. ASSUME NEW j \in 1 .. n - 1 PROVE Agrees(rest[j], l[j]) /\ x[j] = Under(x[j - 1], l[j])
  <2>1. j + 1 \in 1 .. n /\ j \in 0 .. n - 1 /\ j - 1 \in 0 .. n - 1 /\ j - 1 + 1 = j /\ j + 1 - 1 = j
    OBVIOUS
  <2>2. Agrees(ks[j + 1], k[j + 1]) /\ w[j + 1] = Under(w[j + 1 - 1], k[j + 1])
    BY <1>1, <1>2, <2>1
  <2>3. rest[j] = ks[j + 1] /\ l[j] = k[j + 1]
    BY <1>3, <1>5
  <2>4. x[j] = w[j + 1] /\ x[j - 1] = w[j]
    <3>1. x[j - 1] = w[j - 1 + 1]
      BY <1>5, <2>1
    <3> QED BY <1>5, <2>1, <3>1
  <2> QED BY <2>1, <2>2, <2>3, <2>4
<1>8. rest \in Seq(T) /\ Len(rest) = n - 1 /\ Agrees(child.value, x[0])
  BY <1>3, <1>4, <1>5, <1>6
<1>9. LeadsTo(child.value, rest, goal)
  BY <1>6, <1>7, <1>8 DEF LeadsTo
<1> QED BY <1>5, <1>9

LEMMA LeadsNowhere ==
    ASSUME NEW v, NEW ks, ks # <<>>, NEW goal, LeadsTo(v, ks, goal), Children(v, Head(ks)) = {}
    PROVE  NoValue(goal)
<1>1. PICK T, w, k : /\ ks \in Seq(T) /\ Agrees(v, w[0]) /\ w[Len(ks)] = goal
                     /\ \A j \in 1 .. Len(ks) : Agrees(ks[j], k[j]) /\ w[j] = Under(w[j - 1], k[j])
  BY DEF LeadsTo
<1>2. PICK n \in Nat \ {0} : n = Len(ks)
  BY <1>1, FirstKey
<1>3. NoValue(w[1])
  <2>1. 1 \in 1 .. n /\ 1 - 1 = 0
    OBVIOUS
  <2>2. Agrees(ks[1], k[1]) /\ w[1] = Under(w[1 - 1], k[1]) /\ Head(ks) = ks[1]
    BY <1>1, <1>2, <2>1, FirstKey
  <2>3. NoValue(Under(w[0], k[1]))
    BY <1>1, <2>2, ChildMeans
  <2> QED BY <2>1, <2>2, <2>3
<1>4. IsAlong(n, w[1], k, w)
  <2>1. ASSUME NEW j \in 2 .. n PROVE w[j] = Under(w[j - 1], k[j])
    <3>1. j \in 1 .. n
      OBVIOUS
    <3> QED BY <1>1, <1>2, <3>1
  <2> QED BY <2>1 DEF IsAlong
<1>5. 1 \in 1 .. n
  OBVIOUS
<1>6. NoValue(w[n])
  BY <1>3, <1>4, <1>5, NothingAlong
<1> QED BY <1>1, <1>2, <1>6

\* Where the keys of an expression lead from the value of its first node.
KeysAgree(all, n, key) ==
    (\E T : all \in Seq(T)) /\ Len(all) = n /\ \A i \in 2 .. n : Agrees(all[i], key[i])

LEMMA LeadsFromFirst ==
    ASSUME NEW n \in Nat \ {0}, NEW first, NEW key, NEW u, IsAlong(n, first, key, u),
           NEW all, KeysAgree(all, n, key), NEW v, Agrees(v, first)
    PROVE  LeadsTo(v, Tail(all), u[n])
<1>1. PICK T : all \in Seq(T)
  BY DEF KeysAgree
<1>2. Len(all) = n /\ \A i \in 2 .. n : Agrees(all[i], key[i])
  BY DEF KeysAgree
<1>3. all # <<>>
  BY <1>2
<1>4. PICK rest : rest = Tail(all)
  OBVIOUS
<1>5. rest \in Seq(T) /\ Len(rest) = n - 1 /\ \A j \in 1 .. n - 1 : rest[j] = all[j + 1]
  BY <1>1, <1>2, <1>3, <1>4, FirstKey
<1>6. PICK x, l : x = [j \in 0 .. n - 1 |-> u[j + 1]] /\ l = [j \in 1 .. n - 1 |-> key[j + 1]]
  OBVIOUS
<1>7. x[0] = first /\ x[n - 1] = u[n]
  <2>1. 0 \in 0 .. n - 1 /\ n - 1 \in 0 .. n - 1 /\ n - 1 + 1 = n /\ 0 + 1 = 1
    OBVIOUS
  <2> QED BY <1>6, <2>1 DEF IsAlong
<1>8. ASSUME NEW j \in 1 .. n - 1 PROVE Agrees(rest[j], l[j]) /\ x[j] = Under(x[j - 1], l[j])
  <2>1. j + 1 \in 2 .. n /\ j \in 0 .. n - 1 /\ j - 1 \in 0 .. n - 1 /\ j - 1 + 1 = j /\ j + 1 - 1 = j
    OBVIOUS
  <2>2. Agrees(all[j + 1], key[j + 1]) /\ u[j + 1] = Under(u[j + 1 - 1], key[j + 1])
    BY <1>2, <2>1 DEF IsAlong
  <2>3. rest[j] = all[j + 1] /\ l[j] = key[j + 1]
    BY <1>5, <1>6
  <2>4. x[j] = u[j + 1] /\ x[j - 1] = u[j]
    <3>1. x[j - 1] = u[j - 1 + 1]
      BY <1>6, <2>1
    <3> QED BY <1>6, <2>1, <3>1
  <2> QED BY <2>1, <2>2, <2>3, <2>4
<1>9. LeadsTo(v, rest, u[n])
  BY <1>5, <1>7, <1>8 DEF LeadsTo
<1> QED BY <1>4, <1>9

\* A name that is looked up in the root table is the first key.
LEMMA LeadsFromRoot ==
    ASSUME NEW n \in Nat \ {0}, NEW name, IsValue(name), NEW key,
           NEW u, IsAlong(n, Under(Root, name), key, u),
           NEW all, KeysAgree(all, n, key), all[1] = name
    PROVE  LeadsTo(Root, <<name>> \o Tail(all), u[n])
<1>1. PICK T : all \in Seq(T)
  BY DEF KeysAgree
<1>2. Len(all) = n /\ \A i \in 2 .. n : Agrees(all[i], key[i])
  BY DEF KeysAgree
<1>3. all # <<>>
  BY <1>2
<1>4. PICK one, rest, ks : one = <<name>> /\ rest = Tail(all) /\ ks = one \o rest
  OBVIOUS
<1>5. rest \in Seq(T) /\ Len(rest) = n - 1 /\ \A j \in 1 .. n - 1 : rest[j] = all[j + 1]
  BY <1>1, <1>2, <1>3, <1>4, FirstKey
<1>6. name \in T
  <2>1. 1 \in 1 .. Len(all)
    BY <1>2
  <2> QED BY <1>1, <2>1, ElementOfSeq
<1>7. one \in Seq(T) /\ Len(one) = 1 /\ one[1] = name
  BY <1>4, <1>6
<1>8. /\ ks \in Seq(T) /\ Len(ks) = 1 + (n - 1)
      /\ \A j \in 1 .. 1 + (n - 1) : ks[j] = IF j <= 1 THEN one[j] ELSE rest[j - 1]
  <2>1. one \in Seq(T) /\ rest \in Seq(T) /\ ks = one \o rest
    BY <1>4, <1>5, <1>7
  <2>2. /\ ks \in Seq(T) /\ Len(ks) = Len(one) + Len(rest)
        /\ \A j \in 1 .. Len(one) + Len(rest) : ks[j] = IF j <= Len(one) THEN one[j] ELSE rest[j - Len(one)]
    BY ONLY <2>1, ConcatProperties
  <2> QED BY <1>5, <1>7, <2>2
<1>9. 1 + (n - 1) = n
  OBVIOUS
<1>10. PICK x, l : /\ x = [j \in 0 .. n |-> IF j = 0 THEN Root ELSE u[j]]
                   /\ l = [j \in 1 .. n |-> IF j = 1 THEN name ELSE key[j]]
  OBVIOUS
<1>11. x[0] = Root /\ x[n] = u[n]
  <2>1. 0 \in 0 .. n /\ n \in 0 .. n /\ n # 0
    OBVIOUS
  <2> QED BY <1>10, <2>1
<1>12. ASSUME NEW j \in 1 .. n PROVE Agrees(ks[j], l[j]) /\ x[j] = Under(x[j - 1], l[j])
  <2>1. j \in 0 .. n /\ j # 0 /\ j - 1 \in 0 .. n
    OBVIOUS
  <2>2. CASE j = 1
    <3>1. ks[j] = name
      BY <1>7, <1>8, <1>9, <2>2
    <3>2. l[j] = name /\ x[j] = u[1] /\ 1 - 1 = 0
      BY <1>10, <2>1, <2>2
    <3>3. x[j - 1] = Root
      BY <1>11, <2>2
    <3>4. u[1] = Under(Root, name)
      BY DEF IsAlong
    <3>5. Agrees(name, name)
      BY DEF Agrees
    <3> QED BY <3>1, <3>2, <3>3, <3>4, <3>5
  <2>3. CASE j # 1
    <3>1. j \in 2 .. n /\ j - 1 \in 1 .. n - 1 /\ j - 1 + 1 = j /\ j - 1 # 0 /\ ~(j <= 1)
      BY <2>3
    <3>2. ks[j] = all[j]
      <4>1. ks[j] = rest[j - 1]
        BY <1>8, <1>9, <3>1
      <4>2. rest[j - 1] = all[j - 1 + 1]
        BY <1>5, <3>1
      <4> QED BY <3>1, <4>1, <4>2
    <3>3. Agrees(all[j], key[j]) /\ u[j] = Under(u[j - 1], key[j])
      BY <1>2, <3>1 DEF IsAlong
    <3>4. l[j] = key[j] /\ x[j] = u[j] /\ x[j - 1] = u[j - 1]
      BY <1>10, <2>1, <2>3, <3>1
    <3> QED BY <3>2, <3>3, <3>4
  <2> QED BY <2>2, <2>3
<1>13. Agrees(Root, x[0])
  BY <1>11, MeaningAssumption DEF Agrees, IsValue
<1>14. Len(ks) = n /\ ks \in Seq(T)
  BY <1>8, <1>9
<1>15. LeadsTo(Root, ks, u[n])
  BY <1>11, <1>12, <1>13, <1>14 DEF LeadsTo
<1> QED BY <1>4, <1>15

-----------------------------------------------------------------------------
(* The accessors that have no result *)

LEMMA JoinedIsMore ==
    ASSUME NEW T, NEW x \in Seq(T), NEW y \in Seq(T), x # <<>> \/ y # <<>>
    PROVE  x \o y # <<>>
<1>1. Len(x) \in Nat /\ Len(y) \in Nat /\ (x # <<>> => Len(x) # 0) /\ (y # <<>> => Len(y) # 0)
  BY LenProperties, EmptySeq
<1>2. PICK z : z = x \o y
  OBVIOUS
<1>3. z \in Seq(T) /\ Len(z) = Len(x) + Len(y)
  BY <1>2, ConcatProperties
<1>4. Len(z) # 0
  BY <1>1, <1>3
<1>5. z # <<>>
  BY <1>4
<1> QED BY <1>2, <1>5

LEMMA NothingFlattened ==
    ASSUME NEW T, NEW s \in Seq(Seq(T)), FlattenSeq(s) = <<>>, NEW j \in 1 .. Len(s)
    PROVE  s[j] = <<>>
<1>1. PICK n \in Nat : n = Len(s)
  BY LenProperties
<1>2. PICK h : IsFlattened(s, n, h) /\ FlattenSeq(s) = IF n = 0 THEN s ELSE h[n]
  BY <1>1, FlattenSteps
<1> DEFINE S == {k \in j .. n : h[k] = <<>>}
<1> SUFFICES ASSUME s[j] # <<>> PROVE FALSE
  OBVIOUS
<1>3. S = {}
  <2> SUFFICES ASSUME S # {} PROVE FALSE
    OBVIOUS
  <2>1. PICK m \in S : \A k \in S : m <= k
    <3>1. S \subseteq Nat
      OBVIOUS
    <3> HIDE DEF S
    <3> QED BY <3>1, LeastNumber
  <2>2. m \in j .. n /\ h[m] = <<>> /\ m \in 1 .. n
    BY <1>1, <2>1
  <2>3. s[m] \in Seq(T)
    BY <1>1, <2>2, ElementOfSeq
  <2>4. CASE m = 1
    <3>1. h[1] = s[1] /\ j = 1
      <4>1. n > 0 /\ j = 1
        BY <1>1, <2>2, <2>4
      <4> QED BY <1>2, <4>1 DEF IsFlattened
    <3> QED BY <2>2, <2>4, <3>1
  <2>5. CASE m # 1
    <3>1. m \in 2 .. n /\ m - 1 \in 1 .. n /\ ~(m <= m - 1)
      BY <1>1, <2>2, <2>5
    <3>2. h[m] = h[m - 1] \o s[m]
      BY <1>2, <3>1 DEF IsFlattened
    <3>3. h[m - 1] \in Seq(T)
      BY <1>1, <1>2, <3>1, FlattenedIs
    <3>4. h[m - 1] = <<>> /\ s[m] = <<>>
      BY <2>2, <2>3, <3>2, <3>3, JoinedIsMore
    <3>5. m # j
      BY <3>4
    <3>6. m - 1 \in j .. n
      BY <2>2, <3>1, <3>5
    <3>7. m - 1 \notin S
      <4> HIDE DEF S
      <4> QED BY <2>1, <3>1
    <3> QED BY <3>4, <3>6, <3>7
  <2> QED BY <2>4, <2>5
<1>4. n \in j .. n /\ n # 0
  BY <1>1
<1> QED BY <1>2, <1>3, <1>4

AccessorsOf(ptr) == {AccessorOf(ptr, i) : i \in {j \in DOMAIN ptr.expr : IsAccessed(ptr.expr, j)}}

LEMMA UnresolvedAre ==
    ASSUME NEW ptr \in Pointers
    PROVE  /\ Unresolved(ptr) \in Seq(AccessorsOf(ptr))
           /\ Unresolved(ptr) = <<>> =>
                 \A i : IsAccessed(ptr.expr, i) => AccessorOf(ptr, i).place \in DOMAIN results
<1>1. PICK expr, T : expr = ptr.expr /\ T = AccessorsOf(ptr)
  OBVIOUS
<1>2. expr \in Expressions
  BY <1>1 DEF Pointers
<1>3. Len(expr) \in Nat /\ DOMAIN expr = 1 .. Len(expr)
  BY <1>2, ExpressionsAre
<1>4. PICK s : s = [i \in DOMAIN expr |->
                      IF expr[i].accessor # <<>> /\ AccessorOf(ptr, i).place \notin DOMAIN results
                      THEN <<AccessorOf(ptr, i)>> ELSE <<>>]
  OBVIOUS
<1>5. ASSUME NEW i \in DOMAIN expr PROVE s[i] \in Seq(T)
  <2>1. CASE expr[i].accessor # <<>> /\ AccessorOf(ptr, i).place \notin DOMAIN results
    <3>1. AccessorOf(ptr, i) \in T
      BY <1>1, <2>1 DEF AccessorsOf, IsAccessed
    <3>2. s[i] = <<AccessorOf(ptr, i)>>
      BY <1>4, <2>1
    <3> QED BY <3>1, <3>2
  <2>2. CASE ~(expr[i].accessor # <<>> /\ AccessorOf(ptr, i).place \notin DOMAIN results)
    BY <1>4, <2>2, EmptySeq
  <2> QED BY <2>1, <2>2
<1>6. s \in Seq(Seq(T))
  BY <1>3, <1>4, <1>5, IsASeq
<1>7. FlattenSeq(s) \in Seq(T)
  BY <1>6, FlattenIs
<1>8. Unresolved(ptr) = FlattenSeq(s)
  BY <1>1, <1>4 DEF Unresolved
<1>9. ASSUME FlattenSeq(s) = <<>>, NEW i, IsAccessed(expr, i) PROVE AccessorOf(ptr, i).place \in DOMAIN results
  <2>1. i \in DOMAIN expr /\ expr[i].accessor # <<>>
    BY <1>9 DEF IsAccessed
  <2>2. Len(s) = Len(expr)
    BY <1>3, <1>4
  <2>3. s[i] = <<>>
    BY <1>3, <1>6, <1>9, <2>1, <2>2, NothingFlattened
  <2>4. <<AccessorOf(ptr, i)>> # <<>>
    OBVIOUS
  <2> QED BY <1>4, <2>1, <2>3, <2>4
<1> QED BY <1>1, <1>7, <1>8, <1>9

-----------------------------------------------------------------------------
(* Evaluation *)

IsAt(ptr, L) == ptr \in Pointers /\ ptr.place \in DOMAIN L /\ ptr.expr = L[ptr.place]

\* What is still to be evaluated, from the whole expression at the bottom.
AreAt(s, L) ==
    /\ s \in Seq(Pointers)
    /\ \A i \in 1 .. Len(s) : IsAt(s[i], L)
    /\ s # <<>> => s[1].place = <<>>

ResultsAgree(found, L, mg) ==
    \A p \in DOMAIN found : p \in DOMAIN L /\ Agrees(found[p].value, mg[L[p]])

LEMMA AtStill ==
    ASSUME NEW ptr, NEW L, IsAt(ptr, L), NEW M, Extends(M, L)
    PROVE  IsAt(ptr, M)
BY DEF IsAt, Extends

\* The keys of an expression whose accessors have results.
LEMMA KeysAreRight ==
    ASSUME NEW h, NEW mg, MeansTo(Expressions, h, mg), NEW L, NEW P, NEW r, Places(L, P, r, mg),
           NEW found, found = results, ResultsAgree(found, L, mg), NEW ptr, IsAt(ptr, L), Unresolved(ptr) = <<>>,
           NEW all, all = Keys(ptr), NEW e, e = ptr.expr
    PROVE  \E u, key : /\ IsAlong(Len(e), h[e], key, u) /\ mg[e] = u[Len(e)]
                       /\ KeysAgree(all, Len(e), key)
                       /\ all[1] = e[1].value /\ IsValue(e[1].value)
<1>1. ptr \in Pointers /\ ptr.place \in DOMAIN L /\ e = L[ptr.place] /\ ptr.place \in Seq(Nat)
  BY DEF IsAt, Pointers
<1>2. e \in Expressions /\ IsPlain(e, P)
  BY <1>1 DEF Places, ArePlain
<1>3. PICK u, key : /\ IsAlong(Len(e), h[e], key, u) /\ mg[e] = u[Len(e)]
                    /\ \A i \in 2 .. Len(e) : key[i] = mg[e[i].accessor]
  BY <1>2, PlainMeaning
<1>4. PICK n \in Nat \ {0} : n = Len(e) /\ DOMAIN e = 1 .. n
  <2>1. Len(e) \in Nat \ {0}
    BY <1>2 DEF IsPlain
  <2> QED BY <1>2, <2>1, ExpressionsAre
<1>5. \E T : all \in Seq(T)
  BY <1>1, KeysAre
<1>6. Len(all) = n
  BY <1>1, <1>4, KeysAre
<1>7. ASSUME NEW i \in 1 .. n
      PROVE  all[i] = IF e[i].accessor # <<>> THEN found[AccessorOf(ptr, i).place].value ELSE e[1].value
  BY <1>4, <1>7 DEF Keys
<1>8. all[1] = e[1].value /\ IsValue(e[1].value)
  <2>1. e[1].accessor = <<>> /\ IsValue(e[1].value)
    BY <1>2 DEF IsPlain, IsFirst
  <2>2. 1 \in 1 .. n
    OBVIOUS
  <2> QED BY <1>7, <2>1, <2>2
<1>9. ASSUME NEW i \in 2 .. n PROVE Agrees(all[i], key[i])
  <2>1. i \in 1 .. n /\ i \in Nat /\ e[i].accessor # <<>>
    BY <1>2, <1>4 DEF IsPlain, IsIndex
  <2>2. IsAccessed(e, i)
    BY <1>4, <2>1 DEF IsAccessed
  <2>3. PICK p : p = AccessorOf(ptr, i).place
    OBVIOUS
  <2>4. p \in DOMAIN found
    BY <1>1, <2>2, <2>3, UnresolvedAre
  <2>5. Below(p, ptr.place, i)
    BY <2>3 DEF AccessorOf, Pointer, Below
  <2>6. p \in DOMAIN L /\ Agrees(found[p].value, mg[L[p]])
    BY <2>4 DEF ResultsAgree
  <2>7. L[p] = e[i].accessor
    BY <1>1, <2>1, <2>5, <2>6 DEF Places
  <2>8. all[i] = found[p].value /\ key[i] = mg[e[i].accessor]
    BY <1>3, <1>4, <1>7, <2>1, <2>3
  <2> QED BY <2>6, <2>7, <2>8
<1>10. KeysAgree(all, Len(e), key)
  BY <1>4, <1>5, <1>6, <1>9 DEF KeysAgree
<1> QED BY <1>3, <1>8, <1>10

\* A name is found where it is meant.
LEMMA NamesAreFound ==
    ASSUME NEW f, f = frame, f \in Int, frame' = frame, NEW name, IsValue(name), NEW n \in Nat \ {0},
           NEW first, first = Named(name), NEW key, NEW u, IsAlong(n, first, key, u),
           NEW all, KeysAgree(all, n, key), all[1] = name, LookUp(name, Tail(all)),
           NEW o, o = object', NEW ks, ks = keys'
    PROVE  LeadsTo(o.value, ks, u[n])
<1>1. CASE LocalsNamed(name) # {}
  <2>1. PICK i : i = CHOOSE k \in LocalsNamed(name) : \A m \in LocalsNamed(name) : k <= m
    OBVIOUS
  <2>2. i \in LocalsNamed(name)
    BY <1>1, <2>1, LocalIs
  <2>3. PICK v : v = Locals[f + 1][i].value
    OBVIOUS
  <2>4. o = Object("Local", v, <<i - 1>>) /\ ks = Tail(all)
    BY <1>1, <2>1, <2>3 DEF LookUp
  <2>5. o.value = v
    BY <2>4 DEF Object
  <2>6. first = v
    BY <1>1, <2>1, <2>3 DEF Named, Min
  <2>7. IsValue(v)
    <3>1. f >= 0 /\ f < Len(Locals) /\ i \in DOMAIN Locals[f + 1]
      BY <2>2 DEF LocalsNamed
    <3>2. f + 1 \in 1 .. Len(Locals)
      BY <3>1, ExpressionAssumption
    <3> QED BY <2>3, <3>1, <3>2, MeaningAssumption DEF IsValue
  <2>8. LeadsTo(v, Tail(all), u[n])
    BY <2>6, <2>7, LeadsFromFirst DEF Agrees
  <2> QED BY <2>4, <2>5, <2>8
<1>2. CASE LocalsNamed(name) = {}
  <2>1. o = Object("Global", Root, <<>>) /\ ks = <<name>> \o Tail(all)
    BY <1>2 DEF LookUp
  <2>2. o.value = Root
    BY <2>1 DEF Object
  <2>3. first = Under(Root, name)
    BY <1>2 DEF Named
  <2>4. LeadsTo(Root, <<name>> \o Tail(all), u[n])
    BY <2>3, LeadsFromRoot
  <2> QED BY <2>1, <2>2, <2>4
<1> QED BY <1>1, <1>2

\* The places that have been looked into, their results and what is still to come agree with
\* the meanings mg.
Meant(mg) ==
    \E L, P :
        /\ Places(L, P, root, mg) /\ ResultsAgree(results, L, mg)
        /\ phase \in {"evaluate", "follow"} => AreAt(pending, L)
        /\ phase = "evaluate" /\ pending = <<>> => <<>> \in DOMAIN results
        /\ phase = "follow" =>
              /\ IsAt(node, L) /\ LeadsTo(object.value, keys, mg[node.expr])
              /\ pending = <<>> => node.place = <<>>
        /\ phase = "reply" => IF rc = "Success" THEN <<>> \in DOMAIN results ELSE NoValue(mg[root])

LEMMA LastAt ==
    ASSUME NEW s, NEW L, AreAt(s, L), s # <<>>
    PROVE  /\ IsAt(Last(s), L) /\ AreAt(Front(s), L)
           /\ Front(s) = <<>> => Last(s).place = <<>>
<1>1. s \in Seq(Pointers) /\ s[1].place = <<>>
  BY DEF AreAt
<1>2. PICK n \in Nat \ {0} : n = Len(s)
  BY <1>1, EmptySeq, LenProperties
<1>3. /\ Front(s) \in Seq(Pointers) /\ Len(Front(s)) = n - 1 /\ Last(s) = s[n]
      /\ \A i \in 1 .. n - 1 : Front(s)[i] = s[i]
  <2>1. Len(s) > 0
    BY <1>2
  <2> QED BY <1>1, <1>2, <2>1, FrontIs
<1>4. \A i \in 1 .. n : IsAt(s[i], L)
  BY <1>2 DEF AreAt
<1>5. IsAt(Last(s), L)
  <2>1. n \in 1 .. n
    OBVIOUS
  <2> QED BY <1>3, <1>4, <2>1
<1>6. PICK z : z = Front(s)
  OBVIOUS
<1>7. ASSUME z # <<>> PROVE z[1].place = <<>>
  <2>1. n - 1 # 0
    BY <1>3, <1>6, <1>7, EmptySeq
  <2>2. 1 \in 1 .. n - 1
    BY <2>1
  <2> QED BY <1>1, <1>3, <1>6, <2>2
<1>8. ASSUME z = <<>> PROVE Last(s).place = <<>>
  <2>1. n - 1 = 0
    BY <1>3, <1>6, <1>8
  <2>2. n = 1
    BY <2>1
  <2> QED BY <1>1, <1>3, <2>2
<1>9. AreAt(z, L)
  <2>1. ASSUME NEW i \in 1 .. Len(z) PROVE IsAt(z[i], L)
    <3>1. i \in 1 .. n - 1 /\ i \in 1 .. n
      BY <1>3, <1>6
    <3> QED BY <1>3, <1>4, <1>6, <3>1
  <2> QED BY <1>3, <1>6, <1>7, <2>1 DEF AreAt
<1> QED BY <1>5, <1>6, <1>8, <1>9

LEMMA MoreAt ==
    ASSUME NEW s, NEW L, AreAt(s, L), s # <<>>, NEW M, Extends(M, L), NEW T, NEW z \in Seq(T),
           \A x \in T : IsAt(x, M), NEW t, t = s \o z
    PROVE  AreAt(t, M) /\ t # <<>>
<1>1. s \in Seq(Pointers) /\ s[1].place = <<>>
  BY DEF AreAt
<1>2. PICK n \in Nat \ {0} : n = Len(s)
  BY <1>1, EmptySeq, LenProperties
<1>3. PICK m \in Nat : m = Len(z)
  BY LenProperties
<1>4. PICK U : U = Pointers \cup T
  OBVIOUS
<1>5. s \in Seq(U) /\ z \in Seq(U)
  <2>1. Pointers \subseteq U /\ T \subseteq U
    BY <1>4
  <2> QED BY <1>1, <2>1, SeqMonotonic
<1>6. /\ t \in Seq(U) /\ Len(t) = n + m
      /\ \A i \in 1 .. n + m : t[i] = IF i <= n THEN s[i] ELSE z[i - n]
  BY ONLY <1>2, <1>3, <1>5, t = s \o z, ConcatProperties
<1>7. ASSUME NEW i \in 1 .. n + m PROVE IsAt(t[i], M)
  <2>1. CASE i <= n
    <3>1. i \in 1 .. n
      BY <2>1
    <3>2. IsAt(s[i], L)
      BY <1>2, <3>1 DEF AreAt
    <3> QED BY <1>6, <2>1, <3>2, AtStill
  <2>2. CASE ~(i <= n)
    <3>1. i - n \in 1 .. m
      BY <2>2
    <3>2. z[i - n] \in T
      BY <1>3, <3>1, ElementOfSeq
    <3> QED BY <1>6, <2>2, <3>2
  <2> QED BY <2>1, <2>2
<1>8. t[1] = s[1] /\ n + m # 0
  <2>1. 1 \in 1 .. n + m /\ 1 <= n
    OBVIOUS
  <2> QED BY <1>6, <2>1
<1>9. t \in Seq(Pointers)
  <2>1. T \subseteq Pointers
    BY DEF IsAt
  <2>2. z \in Seq(Pointers)
    BY <2>1, SeqMonotonic
  <2> QED BY <1>1, <2>2, ConcatProperties
<1>10. t # <<>>
  <2>1. Len(t) # 0
    BY <1>6, <1>8
  <2> QED BY <2>1
<1> QED BY <1>1, <1>6, <1>7, <1>8, <1>9, <1>10 DEF AreAt

LEMMA AwaitMeant ==
    ASSUME NEW h, NEW mg, MeansTo(Expressions, h, mg), Meant(mg), AwaitAccessors
    PROVE  Meant(mg)'
<1>1. PICK s, z, t, r, found : s = pending /\ z = Unresolved(Last(s)) /\ t = pending' /\ r = root /\ found = results
  OBVIOUS
<1>2. PICK L, P : /\ Places(L, P, r, mg) /\ ResultsAgree(found, L, mg)
                  /\ phase = "evaluate" => AreAt(s, L)
  BY <1>1 DEF Meant
<1>3. /\ phase = "evaluate" /\ phase' = "evaluate" /\ s # <<>> /\ t = s \o z
      /\ root' = r /\ results' = found
  BY <1>1 DEF AwaitAccessors
<1>4. AreAt(s, L) /\ IsAt(Last(s), L)
  BY <1>2, <1>3, LastAt
<1>5. PICK ptr, q, e : ptr = Last(s) /\ q = ptr.place /\ e = ptr.expr
  OBVIOUS
<1>6. ptr \in Pointers /\ q \in DOMAIN L /\ e = L[q] /\ q \in Seq(Nat)
  BY <1>4, <1>5 DEF IsAt, Pointers
<1>7. PICK M : /\ Places(M, P, r, mg) /\ Extends(M, L)
               /\ \A i, p : IsAccessed(e, i) /\ Below(p, q, i) => p \in DOMAIN M /\ M[p] = e[i].accessor
  BY <1>2, <1>6, PlacesGrow
<1>8. PICK T : T = AccessorsOf(ptr)
  OBVIOUS
<1>9. z \in Seq(T)
  BY <1>1, <1>5, <1>6, <1>8, UnresolvedAre
<1>10. ASSUME NEW x \in T PROVE IsAt(x, M)
  <2>1. PICK i : IsAccessed(e, i) /\ x = AccessorOf(ptr, i)
    BY <1>5, <1>8 DEF AccessorsOf
  <2>2. PICK p : p = Append(q, i)
    OBVIOUS
  <2>3. x = Pointer(p, e[i].accessor)
    BY <1>5, <2>1, <2>2 DEF AccessorOf
  <2>4. x = [place |-> p, expr |-> e[i].accessor]
    BY ONLY <2>3 DEF Pointer
  <2>5. p \in DOMAIN M /\ M[p] = e[i].accessor
    BY <1>7, <2>1, <2>2 DEF Below
  <2>6. p \in Seq(Nat) /\ e[i].accessor \in Expressions /\ e[i].accessor # <<>>
    <3>1. M[p] \in Expressions /\ p \in Seq(Nat)
      BY <1>7, <2>5 DEF Places
    <3> QED BY <2>1, <2>5, <3>1 DEF IsAccessed
  <2>7. x.place = p /\ x.expr = e[i].accessor /\ x \in Pointers
    BY ONLY <2>4, <2>6 DEF Pointers
  <2> QED BY <2>5, <2>7 DEF IsAt
<1>11. AreAt(t, M) /\ t # <<>>
  BY <1>3, <1>4, <1>7, <1>9, <1>10, MoreAt
<1>12. ResultsAgree(found, M, mg)
  BY <1>2, <1>7 DEF ResultsAgree, Extends
<1> QED BY <1>1, <1>3, <1>7, <1>11, <1>12 DEF Meant

LEMMA NodeMeant ==
    ASSUME NEW h, h = Firsts, NEW mg, MeansTo(Expressions, h, mg), Meant(mg), frame \in Int, EvaluateNode
    PROVE  Meant(mg)'
<1>1. PICK s, ptr, e, all, r, found :
          s = pending /\ ptr = Last(s) /\ e = ptr.expr /\ all = Keys(ptr) /\ r = root /\ found = results
  OBVIOUS
<1>2. PICK L, P : /\ Places(L, P, r, mg) /\ ResultsAgree(found, L, mg)
                  /\ phase = "evaluate" => AreAt(s, L)
  BY <1>1 DEF Meant
<1>3. /\ phase = "evaluate" /\ phase' = "follow" /\ s # <<>> /\ Unresolved(ptr) = <<>>
      /\ root' = r /\ results' = found /\ frame' = frame /\ pending' = Front(s) /\ node' = ptr
      /\ e[1].type = "Number" => e[1].value[2] <= LongMax
      /\ IF e[1].type = "Identifier" THEN LookUp(all[1], Tail(all))
         ELSE object' = Object("Evaluation", all[1], <<>>) /\ keys' = <<>>
  BY <1>1 DEF EvaluateNode, Popped
<1>4. IsAt(ptr, L) /\ AreAt(Front(s), L) /\ (Front(s) = <<>> => ptr.place = <<>>)
  BY <1>1, <1>2, <1>3, LastAt
<1>5. e \in Expressions /\ IsPlain(e, P)
  <2>1. ptr.place \in DOMAIN L /\ e = L[ptr.place]
    BY <1>1, <1>4 DEF IsAt
  <2> QED BY <1>2, <2>1 DEF Places, ArePlain
<1>6. PICK u, key : /\ IsAlong(Len(e), h[e], key, u) /\ mg[e] = u[Len(e)]
                    /\ KeysAgree(all, Len(e), key)
                    /\ all[1] = e[1].value /\ IsValue(e[1].value)
  BY <1>1, <1>2, <1>3, <1>4, KeysAreRight
<1>7. PICK n \in Nat \ {0} : n = Len(e)
  BY <1>5 DEF IsPlain
<1>8. PICK first : first = h[e] /\ first = First(e)
  BY <1>5 DEF Firsts
<1>9. IsAlong(n, first, key, u) /\ mg[e] = u[n] /\ KeysAgree(all, n, key)
  BY <1>6, <1>7, <1>8
<1>10. PICK o, ks : o = object' /\ ks = keys'
  OBVIOUS
<1>11. LeadsTo(o.value, ks, u[n])
  <2>1. CASE e[1].type = "Identifier"
    <3>1. PICK f, name : f = frame /\ name = e[1].value
      OBVIOUS
    <3>2. first = Named(name)
      BY <1>8, <2>1, <3>1 DEF First
    <3>3. all[1] = name /\ IsValue(name) /\ LookUp(name, Tail(all))
      BY <1>3, <1>6, <2>1, <3>1
    <3>4. f \in Int /\ frame' = f
      BY <1>3, <3>1
    <3> QED BY <1>3, <1>9, <1>10, <3>1, <3>2, <3>3, <3>4, NamesAreFound
  <2>2. CASE e[1].type # "Identifier"
    <3>1. n = 1
      BY <1>5, <1>7, <2>2 DEF IsPlain
    <3>2. o = Object("Evaluation", all[1], <<>>) /\ ks = <<>>
      BY <1>3, <1>10, <2>2
    <3>3. o.value = e[1].value
      BY <1>6, <3>2 DEF Object
    <3>4. first = e[1].value
      <4>1. ~(e[1].type = "Number" /\ e[1].value[2] > LongMax)
        <5>1. CASE e[1].type = "Number"
          <6>1. e[1].value \in {"integer"} \X Nat
            BY <1>5, <5>1 DEF IsPlain, IsFirst
          <6>2. e[1].value[2] \in Nat /\ e[1].value[2] <= LongMax /\ LongMax \in Nat
            BY <1>3, <5>1, <6>1, ExpressionAssumption
          <6> QED BY <6>2
        <5>2. CASE e[1].type # "Number"
          BY <5>2
        <5> QED BY <5>1, <5>2
      <4> QED BY <1>8, <2>2, <4>1 DEF First
    <3>5. u[n] = first
      BY <1>9, <3>1 DEF IsAlong
    <3>6. Agrees(o.value, u[n])
      BY <1>6, <3>3, <3>4, <3>5 DEF Agrees
    <3>7. LeadsTo(o.value, ks, u[n])
      <4>1. PICK w : w = [j \in {0} |-> u[n]]
        OBVIOUS
      <4>2. w[0] = u[n]
        BY <4>1
      <4>3. ks \in Seq({}) /\ Len(ks) = 0
        BY <3>2
      <4>4. 1 .. 0 = {}
        OBVIOUS
      <4> QED BY <3>6, <4>2, <4>3, <4>4 DEF LeadsTo
    <3> QED BY <3>7
  <2> QED BY <2>1, <2>2
<1>12. LeadsTo(o.value, ks, mg[ptr.expr])
  BY <1>1, <1>9, <1>11
<1> QED BY <1>1, <1>2, <1>3, <1>4, <1>10, <1>12 DEF Meant

LEMMA TooLargeMeant ==
    ASSUME NEW h, h = Firsts, NEW mg, MeansTo(Expressions, h, mg), Meant(mg), NumberTooLarge
    PROVE  Meant(mg)'
<1>1. PICK s, ptr, e, r, found : s = pending /\ ptr = Last(s) /\ e = ptr.expr /\ r = root /\ found = results
  OBVIOUS
<1>2. PICK L, P : /\ Places(L, P, r, mg) /\ ResultsAgree(found, L, mg)
                  /\ phase = "evaluate" => AreAt(s, L)
  BY <1>1 DEF Meant
<1>3. /\ phase = "evaluate" /\ phase' = "reply" /\ s # <<>>
      /\ root' = r /\ results' = found /\ rc' = "InvalidParameter"
      /\ e[1].type = "Number" /\ e[1].value[2] > LongMax
  BY <1>1 DEF NumberTooLarge
<1>4. IsAt(ptr, L)
  BY <1>1, <1>2, <1>3, LastAt
<1>5. ptr.place \in DOMAIN L /\ e = L[ptr.place]
  BY <1>1, <1>4 DEF IsAt
<1>6. e \in Expressions /\ IsPlain(e, P) /\ (NoValue(mg[e]) => NoValue(mg[r]))
  BY <1>2, <1>5 DEF Places, ArePlain
<1>7. h[e] = Nothing
  BY <1>3, <1>6 DEF Firsts, First
<1>8. NoValue(mg[e])
  BY <1>6, <1>7, NothingFirst DEF NoValue
<1> QED BY <1>2, <1>3, <1>6, <1>8 DEF Meant

LEMMA ChildIs ==
    ASSUME NEW o, NEW ks, NEW f, Follows(o, ks, f), NEW child,
           NEW p, p = [o EXCEPT !.value = child.value, !.path = Append(@, child.part)]
    PROVE  p.value = child.value
<1>1. o = Object(o.scope, o.value, o.path)
  BY DEF Follows
<1>2. PICK path : path = Append(o.path, child.part)
  OBVIOUS
<1>3. p = Object(o.scope, child.value, path)
  BY <1>1, <1>2 DEF Object
<1> QED BY ONLY <1>3 DEF Object

LEMMA FollowMeant ==
    ASSUME NEW mg, Meant(mg), PathsLead, FollowKey
    PROVE  Meant(mg)'
<1>1. PICK o, ks, r, found, ptr : o = object /\ ks = keys /\ r = root /\ found = results /\ ptr = node
  OBVIOUS
<1>2. /\ phase = "follow" /\ phase' = "follow" /\ ks # <<>>
      /\ root' = r /\ results' = found /\ node' = ptr /\ pending' = pending /\ keys' = Tail(ks)
  BY <1>1 DEF FollowKey
<1>3. PICK L, P : /\ Places(L, P, r, mg) /\ ResultsAgree(found, L, mg) /\ AreAt(pending, L)
                  /\ IsAt(ptr, L) /\ LeadsTo(o.value, ks, mg[ptr.expr])
                  /\ pending = <<>> => ptr.place = <<>>
  BY <1>1, <1>2 DEF Meant
<1>4. PICK child \in Children(o.value, Head(ks)) :
         object' = [o EXCEPT !.value = child.value, !.path = Append(@, child.part)]
  BY <1>1 DEF FollowKey
<1>5. LeadsTo(child.value, Tail(ks), mg[ptr.expr])
  BY <1>2, <1>3, LeadsOn
<1>6. PICK f : Follows(o, ks, f)
  BY <1>1, <1>2 DEF PathsLead
<1>7. PICK p : p = [o EXCEPT !.value = child.value, !.path = Append(@, child.part)]
  OBVIOUS
<1>8. object' = p
  BY <1>4, <1>7, Zenon
<1>9. p.value = child.value
  BY <1>6, <1>7, ChildIs
<1>10. LeadsTo(object'.value, keys', mg[node'.expr])
  BY <1>2, <1>5, <1>8, <1>9
<1> QED BY <1>2, <1>3, <1>10 DEF Meant

LEMMA NoChildMeant ==
    ASSUME NEW mg, Meant(mg), NoSuchChild
    PROVE  Meant(mg)'
<1>1. PICK o, ks, r, found, ptr : o = object /\ ks = keys /\ r = root /\ found = results /\ ptr = node
  OBVIOUS
<1>2. /\ phase = "follow" /\ phase' = "reply" /\ ks # <<>> /\ rc' = "InvalidParameter"
      /\ root' = r /\ results' = found /\ Children(o.value, Head(ks)) = {}
  BY <1>1 DEF NoSuchChild
<1>3. PICK L, P : /\ Places(L, P, r, mg) /\ ResultsAgree(found, L, mg)
                  /\ IsAt(ptr, L) /\ LeadsTo(o.value, ks, mg[ptr.expr])
  BY <1>1, <1>2 DEF Meant
<1>4. NoValue(mg[ptr.expr])
  BY <1>2, <1>3, LeadsNowhere
<1>5. NoValue(mg[r])
  BY <1>3, <1>4 DEF IsAt, Places
<1> QED BY <1>2, <1>3, <1>5 DEF Meant

LEMMA StoreMeant ==
    ASSUME NEW mg, Meant(mg), StoreResult
    PROVE  Meant(mg)'
<1>1. PICK o, ks, r, found, ptr : o = object /\ ks = keys /\ r = root /\ found = results /\ ptr = node
  OBVIOUS
<1>2. /\ phase = "follow" /\ phase' = "evaluate" /\ ks = <<>>
      /\ root' = r /\ pending' = pending
      /\ results' = [place \in DOMAIN found \cup {ptr.place} |->
                        IF place = ptr.place THEN o ELSE found[place]]
  BY <1>1 DEF StoreResult
<1>3. PICK L, P : /\ Places(L, P, r, mg) /\ ResultsAgree(found, L, mg) /\ AreAt(pending, L)
                  /\ IsAt(ptr, L) /\ LeadsTo(o.value, ks, mg[ptr.expr])
                  /\ pending = <<>> => ptr.place = <<>>
  BY <1>1, <1>2 DEF Meant
<1>4. Agrees(o.value, mg[ptr.expr])
  BY <1>2, <1>3, LeadsHome
<1>5. PICK q : q = ptr.place
  OBVIOUS
<1>6. q \in DOMAIN L /\ Agrees(o.value, mg[L[q]])
  BY <1>3, <1>4, <1>5 DEF IsAt
<1>7. PICK next : next = [place \in DOMAIN found \cup {q} |-> IF place = q THEN o ELSE found[place]]
  OBVIOUS
<1>8. results' = next
  BY <1>2, <1>5, <1>7
<1>9. ASSUME NEW p \in DOMAIN next PROVE p \in DOMAIN L /\ Agrees(next[p].value, mg[L[p]])
  <2>1. CASE p = q
    <3>1. next[p] = o
      BY <1>7, <2>1
    <3> QED BY <1>6, <2>1, <3>1
  <2>2. CASE p # q
    <3>1. next[p] = found[p] /\ p \in DOMAIN found
      BY <1>7, <2>2
    <3> QED BY <1>3, <3>1 DEF ResultsAgree
  <2> QED BY <2>1, <2>2
<1>10. ResultsAgree(results', L, mg)
  BY <1>8, <1>9 DEF ResultsAgree
<1>11. pending = <<>> => <<>> \in DOMAIN results'
  BY <1>3, <1>5, <1>7, <1>8
<1> QED BY <1>2, <1>3, <1>10, <1>11 DEF Meant

LEMMA AnswerMeant ==
    ASSUME NEW mg, Meant(mg), rc = "Success", Answer
    PROVE  Meant(mg)'
<1>1. PICK r, found : r = root /\ found = results
  OBVIOUS
<1>2. /\ phase = "evaluate" /\ pending = <<>> /\ phase' = "reply" /\ rc' = "Success"
      /\ root' = r /\ results' = found
  BY <1>1 DEF Answer
<1>3. PICK L, P : Places(L, P, r, mg) /\ ResultsAgree(found, L, mg) /\ <<>> \in DOMAIN found
  BY <1>1, <1>2 DEF Meant
<1> QED BY <1>2, <1>3 DEF Meant

\* While the evaluation of an expression of names, values and indexes goes on, and when it has
\* come to an end, it agrees with the meanings of all expressions in this frame.
MeaningsKept ==
    /\ phase # "reply" => rc = "Success"
    /\ phase \in {"evaluate", "follow", "reply"} /\ root # <<>> /\ PlainText(text) =>
          \A h, mg : h = Firsts /\ MeansTo(Expressions, h, mg) => Meant(mg)

LEMMA FirstsStay ==
    ASSUME NEW f, f = frame, frame' = f
    PROVE  Firsts' = Firsts
<1>1. ASSUME NEW name PROVE LocalsNamed(name)' = LocalsNamed(name)
  BY DEF LocalsNamed
<1>2. ASSUME NEW name PROVE Named(name)' = Named(name)
  BY <1>1 DEF Named
<1>3. ASSUME NEW e \in Expressions PROVE First(e)' = First(e)
  BY <1>2 DEF First
<1> QED BY <1>3 DEF Firsts

LEMMA MeaningsStay ==
    ASSUME MeaningsKept, TextsFit, phase \in {"evaluate", "follow"}, UNCHANGED <<frame, text, root>>,
           phase' # "reply" => rc' = rc,
           \A h, mg : h = Firsts /\ MeansTo(Expressions, h, mg) /\ Meant(mg) => Meant(mg)'
    PROVE  MeaningsKept'
<1>1. PICK f : f = frame
  OBVIOUS
<1>2. Firsts' = Firsts
  BY <1>1, FirstsStay
<1>3. rc = "Success" /\ root # <<>>
  BY DEF MeaningsKept, TextsFit
<1>4. ASSUME PlainText(text'), NEW h, NEW mg, h = Firsts', MeansTo(Expressions, h, mg)
      PROVE  Meant(mg)'
  <2>1. PICK t : t = text
    OBVIOUS
  <2>2. PlainText(t)
    BY <1>4, <2>1
  <2>3. h = Firsts
    BY <1>2, <1>4
  <2>4. Meant(mg)
    BY <1>3, <1>4, <2>1, <2>2, <2>3 DEF MeaningsKept
  <2> QED BY <1>4, <2>3, <2>4
<1> QED BY <1>3, <1>4 DEF MeaningsKept

\* When an expression has been read there is only the expression itself to be evaluated.
LEMMA ReadMeant ==
    ASSUME NEW r, r \in Expressions \ {<<>>}, root' = r, NEW P, ArePlain(P), r \in P, NEW mg,
           phase' = "evaluate", results' = NoResults, pending' = <<Pointer(<<>>, r)>>
    PROVE  Meant(mg)'
<1>1. PICK L : DOMAIN L = {<<>>} /\ Places(L, P, r, mg)
  BY FirstPlace
<1>2. PICK p : p = Pointer(<<>>, r)
  OBVIOUS
<1>3. p.place = <<>> /\ p.expr = r /\ p \in Pointers
  BY <1>2, EmptySeq DEF Pointer, Pointers
<1>4. L[<<>>] = r
  BY <1>1 DEF Places
<1>5. IsAt(p, L)
  BY <1>1, <1>3, <1>4 DEF IsAt
<1>6. PICK s : s = <<p>>
  OBVIOUS
<1>7. s \in Seq(Pointers) /\ Len(s) = 1 /\ s[1] = p
  BY <1>3, <1>6
<1>8. AreAt(s, L)
  <2>1. ASSUME NEW i \in 1 .. Len(s) PROVE IsAt(s[i], L)
    <3>1. i = 1
      BY <1>7
    <3> QED BY <1>5, <1>7, <3>1
  <2> QED BY <1>3, <1>7, <2>1 DEF AreAt
<1>9. pending' = s /\ s # <<>>
  BY <1>2, <1>6, <1>7
<1>10. ResultsAgree(results', L, mg)
  BY DEF ResultsAgree, NoResults
<1> QED BY <1>1, <1>8, <1>9, <1>10 DEF Meant

LEMMA ParseMeant ==
    ASSUME MeaningsKept, TextsFit, TextsFit', TextsPlain', PathsLead,
           NEW token \in Token, ParseExpression(token)
    PROVE  MeaningsKept'
<1>1. /\ results' = results /\ phase \in {"parse", "closed"}
      /\ pending' = IF phase' = "evaluate" THEN <<Pointer(<<>>, root')>> ELSE <<>>
  BY DEF ParseExpression
<1>2. results = NoResults /\ root = <<>> /\ rc = "Success"
  BY <1>1 DEF PathsLead, TextsFit, MeaningsKept
<1>3. /\ phase' # "follow"
      /\ phase' = "reply" => root' = root
      /\ phase' # "reply" => rc' = rc
  <2>1. CASE phase = "parse"
    <3>1. ReadNext(token)
      BY <2>1 DEF ParseExpression
    <3> QED BY <2>1, <3>1 DEF ReadNext, ReadDot, ReadOpen, ReadClose, ReadOperand, ReadSpace, ReadEnd, Throw
  <2>2. CASE phase = "closed"
    <3>1. ReadAfterEnd(token)
      BY <2>2 DEF ParseExpression
    <3> QED BY <2>2, <3>1 DEF ReadAfterEnd, ReadEnd, Throw
  <2> QED BY <1>1, <2>1, <2>2
<1>4. PICK r, u : r = root' /\ u = text'
  OBVIOUS
<1>5. ASSUME phase' = "evaluate", PlainText(u), NEW mg PROVE Meant(mg)'
  <2>1. r \in Expressions \ {<<>>}
    BY <1>4, <1>5 DEF TextsFit
  <2>2. PICK P : ArePlain(P) /\ r \in P
    BY <1>4, <1>5, <2>1 DEF TextsPlain
  <2>3. results' = NoResults /\ pending' = <<Pointer(<<>>, r)>> /\ root' = r
    BY <1>1, <1>2, <1>4, <1>5
  <2> QED BY <1>5, <2>1, <2>2, <2>3, ReadMeant
<1> QED BY <1>2, <1>3, <1>4, <1>5 DEF MeaningsKept

LEMMA MeaningsKeptNext ==
    ASSUME TextsFit, TextsFit', TextsPlain', PathsLead, MeaningsKept, [Next]_vars
    PROVE  MeaningsKept'
<1>1. ASSUME NEW stackFrame \in -1 .. Len(Locals), GetImmediateValue(stackFrame) PROVE MeaningsKept'
  BY <1>1 DEF GetImmediateValue, MeaningsKept
<1>2. ASSUME NEW token \in Token, ParseExpression(token) PROVE MeaningsKept'
  BY <1>2, ParseMeant
<1>3. CASE AwaitAccessors
  <2>1. /\ phase = "evaluate" /\ UNCHANGED <<frame, text, root, rc>>
    BY <1>3 DEF AwaitAccessors
  <2>2. \A h, mg : h = Firsts /\ MeansTo(Expressions, h, mg) /\ Meant(mg) => Meant(mg)'
    BY <1>3, AwaitMeant
  <2> QED BY <2>1, <2>2, MeaningsStay
<1>4. CASE EvaluateNode
  <2>1. /\ phase = "evaluate" /\ UNCHANGED <<frame, text, root, rc>>
    BY <1>4 DEF EvaluateNode
  <2>2. frame \in Int
    BY DEF PathsLead
  <2>3. \A h, mg : h = Firsts /\ MeansTo(Expressions, h, mg) /\ Meant(mg) => Meant(mg)'
    BY <1>4, <2>2, NodeMeant
  <2> QED BY <2>1, <2>3, MeaningsStay
<1>5. CASE NumberTooLarge
  <2>1. /\ phase = "evaluate" /\ UNCHANGED <<frame, text, root>> /\ phase' = "reply"
    BY <1>5 DEF NumberTooLarge
  <2>2. \A h, mg : h = Firsts /\ MeansTo(Expressions, h, mg) /\ Meant(mg) => Meant(mg)'
    BY <1>5, TooLargeMeant
  <2> QED BY <2>1, <2>2, MeaningsStay
<1>6. CASE FollowKey
  <2>1. /\ phase = "follow" /\ UNCHANGED <<frame, text, root, rc>>
    BY <1>6 DEF FollowKey
  <2>2. \A h, mg : h = Firsts /\ MeansTo(Expressions, h, mg) /\ Meant(mg) => Meant(mg)'
    BY <1>6, FollowMeant
  <2> QED BY <2>1, <2>2, MeaningsStay
<1>7. CASE NoSuchChild
  <2>1. /\ phase = "follow" /\ UNCHANGED <<frame, text, root>> /\ phase' = "reply"
    BY <1>7 DEF NoSuchChild
  <2>2. \A h, mg : h = Firsts /\ MeansTo(Expressions, h, mg) /\ Meant(mg) => Meant(mg)'
    BY <1>7, NoChildMeant
  <2> QED BY <2>1, <2>2, MeaningsStay
<1>8. CASE StoreResult
  <2>1. /\ phase = "follow" /\ UNCHANGED <<frame, text, root, rc>>
    BY <1>8 DEF StoreResult
  <2>2. \A h, mg : h = Firsts /\ MeansTo(Expressions, h, mg) /\ Meant(mg) => Meant(mg)'
    BY <1>8, StoreMeant
  <2> QED BY <2>1, <2>2, MeaningsStay
<1>9. CASE Answer
  <2>1. /\ phase = "evaluate" /\ UNCHANGED <<frame, text, root, rc>>
    BY <1>9 DEF Answer
  <2>2. rc = "Success"
    BY <2>1 DEF MeaningsKept
  <2>3. \A h, mg : h = Firsts /\ MeansTo(Expressions, h, mg) /\ Meant(mg) => Meant(mg)'
    BY <1>9, <2>2, AnswerMeant
  <2> QED BY <2>1, <2>3, MeaningsStay
<1>10. CASE Reply
  BY <1>10 DEF Reply, MeaningsKept
<1>11. CASE UNCHANGED vars
  <2>1. UNCHANGED <<frame, text, phase, root, pending, node, keys, object, results, rc>>
    BY <1>11 DEF vars
  <2>2. Firsts' = Firsts
    <3>1. PICK f : f = frame
      OBVIOUS
    <3> QED BY <2>1, <3>1, FirstsStay
  <2>3. ASSUME NEW mg, Meant(mg) PROVE Meant(mg)'
    BY <2>1, <2>3 DEF Meant
  <2> QED BY <2>1, <2>2, <2>3 DEF MeaningsKept
<1> QED BY <1>1, <1>2, <1>3, <1>4, <1>5, <1>6, <1>7, <1>8, <1>9, <1>10, <1>11 DEF Next, EvaluationStep

LEMMA AllMeaningsKept ==
    Spec => []MeaningsKept
<1>1. Init => MeaningsKept
  BY DEF Init, MeaningsKept
<1>2. TextsFit /\ TextsFit' /\ TextsPlain' /\ PathsLead /\ MeaningsKept /\ [Next]_vars => MeaningsKept'
  BY MeaningsKeptNext
<1> QED BY <1>1, <1>2, AllTextsFit, AllTextsPlain, AllPathsLead, PTL DEF Spec

LEMMA AnswersAre ==
    ASSUME MeaningsKept
    PROVE  IndexesMeanWhatTheySay
<1> SUFFICES ASSUME IsAnswered, ~HasDot, ~IndexesString PROVE AnswerIs(Meaning[root])
  BY DEF IndexesMeanWhatTheySay
<1>1. PICK t, r, h, mg, found : t = text /\ r = root /\ h = Firsts /\ mg = Meaning /\ found = results
  OBVIOUS
<1>2. PlainText(t)
  BY <1>1, PlainTexts
<1>3. MeansTo(Expressions, h, mg)
  BY <1>1, MeaningIs
<1>4. phase = "reply" /\ r # <<>>
  BY <1>1 DEF IsAnswered
<1>5. Meant(mg)
  BY <1>1, <1>2, <1>3, <1>4 DEF MeaningsKept
<1>6. PICK L, P : /\ Places(L, P, r, mg) /\ ResultsAgree(found, L, mg)
                  /\ IF rc = "Success" THEN <<>> \in DOMAIN found ELSE NoValue(mg[r])
  BY <1>1, <1>4, <1>5 DEF Meant
<1>7. ASSUME rc = "Success" PROVE Agrees(found[<<>>].value, mg[r])
  <2>1. L[<<>>] = r
    BY <1>6 DEF Places
  <2> QED BY <1>6, <1>7, <2>1 DEF ResultsAgree
<1>8. ASSUME mg[r] # Unclear PROVE IF rc = "Success" THEN found[<<>>].value = mg[r] ELSE mg[r] = Nothing
  BY <1>6, <1>7, <1>8 DEF Agrees, NoValue
<1> QED BY <1>1, <1>8 DEF AnswerIs

\* An expression without dots evaluates to what it means, however its indexes nest: the results at
\* all places that were looked into, whatever order the stack takes them in, agree with the
\* recursive Meaning, and if there is no answer the expression means nothing
\* (SquirrelDebugger.cpp:441-600, SquirrelVmHelpers.cpp:572-638).
THEOREM IndexesHaveTheirMeaning ==
    Spec => []IndexesMeanWhatTheySay
BY AllMeaningsKept, AnswersAre, PTL
=============================================================================
