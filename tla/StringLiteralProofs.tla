------------------------ MODULE StringLiteralProofs -------------------------
(***************************************************************************)
(* What ReadString makes of a text, for any characters, escapes and texts  *)
(* of any length.                                                          *)
(*                                                                         *)
(* The properties speak of a text as a whole, the invariant of what has    *)
(* been read: of a text without numbers, what it denotes so far (Word); of *)
(* one with numbers, where the first of them has got to (Told).            *)
(***************************************************************************)
EXTENDS StringLiteral, FiniteSetTheorems, SequenceTheorems, WellFoundedInduction, TLAPS

-----------------------------------------------------------------------------
(* Which characters are escaped *)

\* A set of natural numbers has a least element.
LEMMA LeastNumber ==
    ASSUME NEW S, S \subseteq Nat, S # {}
    PROVE  \E i \in S : \A j \in S : i <= j
<1> DEFINE R == OpToRel(<, Nat)
<1>1. IsWellFoundedOn(R, Nat)
  BY NatLessThanWellFounded
<1>2. PICK x \in S : \A y \in S : ~ (<<y, x>> \in R)
  <2> HIDE DEF R
  <2> QED BY <1>1, WFMin
<1>3. \A y \in S : ~ (y < x)
  BY <1>2 DEF OpToRel
<1> QED BY <1>3

\* For the first n characters of t, whether they are escaped.
EscapesTo(t, n, e) == e = [i \in 1 .. n |-> i > 1 /\ t[i - 1] = "\\" /\ ~e[i - 1]]

\* For the characters of t, as Escaped has it for those of text.
Escapes(t) == CHOOSE e : e = [i \in DOMAIN t |-> i > 1 /\ t[i - 1] = "\\" /\ ~e[i - 1]]

IsSlash(t, i) == t[i] = "\\" /\ ~Escapes(t)[i]

LEMMA EscapesAt ==
    ASSUME NEW t, NEW n \in Nat, NEW e, EscapesTo(t, n, e), NEW i \in 1 .. n
    PROVE  e[i] = (i > 1 /\ t[i - 1] = "\\" /\ ~e[i - 1])
<1>1. PICK f : f = [j \in 1 .. n |-> j > 1 /\ t[j - 1] = "\\" /\ ~e[j - 1]]
  OBVIOUS
<1>2. e = f
  BY <1>1 DEF EscapesTo
<1>3. f[i] = (i > 1 /\ t[i - 1] = "\\" /\ ~e[i - 1])
  BY <1>1
<1> QED BY <1>2, <1>3

LEMMA EscapesExist ==
    ASSUME NEW t, NEW k \in Nat
    PROVE  \E e : EscapesTo(t, k, e)
<1> DEFINE S == {n \in Nat : ~ \E e : EscapesTo(t, n, e)}
<1> SUFFICES S = {}
  OBVIOUS
<1> SUFFICES ASSUME S # {} PROVE FALSE
  OBVIOUS
<1>1. PICK m \in S : \A n \in S : m <= n
  BY LeastNumber
<1>2. m \in Nat /\ ~ \E e : EscapesTo(t, m, e)
  BY <1>1
<1>3. CASE m = 0
  <2>1. EscapesTo(t, 0, <<>>)
    <3>1. \A i \in 1 .. 0 : FALSE
      OBVIOUS
    <3> QED BY <3>1 DEF EscapesTo
  <2> QED BY <1>2, <1>3, <2>1
<1>4. CASE m # 0
  <2>1. PICK n \in Nat : m = n + 1 /\ n \notin S
    <3>1. m - 1 \in Nat /\ m = m - 1 + 1 /\ ~ (m <= m - 1)
      BY <1>2, <1>4
    <3>2. m - 1 \notin S
      BY <1>1, <3>1
    <3> HIDE DEF S
    <3> QED BY <3>1, <3>2
  <2>2. PICK e : EscapesTo(t, n, e)
    BY <2>1
  <2> HIDE DEF S
  <2>3. \A i \in 1 .. n : e[i] = (i > 1 /\ t[i - 1] = "\\" /\ ~e[i - 1])
    BY <2>2, EscapesAt
  <2> DEFINE f == [i \in 1 .. n + 1 |->
                      IF i = n + 1 THEN n + 1 > 1 /\ t[n] = "\\" /\ ~e[n] ELSE e[i]]
  <2>4. \A i \in 1 .. n + 1 : f[i] = (i > 1 /\ t[i - 1] = "\\" /\ ~f[i - 1])
    <3> TAKE i \in 1 .. n + 1
    <3>1. CASE i = n + 1
      <4>1. f[i] = (n + 1 > 1 /\ t[n] = "\\" /\ ~e[n])
        BY <3>1
      <4>2. i - 1 = n
        BY <3>1
      <4>3. n >= 1 => f[n] = e[n]
        OBVIOUS
      <4> HIDE DEF f
      <4> QED BY <3>1, <4>1, <4>2, <4>3
    <3>2. CASE i # n + 1
      <4>1. i \in 1 .. n /\ f[i] = e[i]
        BY <3>2
      <4>2. i > 1 => f[i - 1] = e[i - 1]
        BY <3>2
      <4> HIDE DEF f
      <4> QED BY <2>3, <4>1, <4>2
    <3> QED BY <3>1, <3>2
  <2>5. f = [i \in 1 .. n + 1 |-> f[i]]
    OBVIOUS
  <2> HIDE DEF f
  <2>6. EscapesTo(t, m, f)
    BY <2>1, <2>4, <2>5 DEF EscapesTo
  <2> QED BY <1>2, <2>6
<1> QED BY <1>3, <1>4

\* What comes first does not depend on what comes after it.
LEMMA EscapesAgree ==
    ASSUME NEW t, NEW u, NEW m \in Nat, NEW n \in Nat, m <= n,
           NEW e, NEW f, EscapesTo(t, m, e), EscapesTo(u, n, f),
           \A i \in 1 .. m : t[i] = u[i]
    PROVE  \A i \in 1 .. m : e[i] = f[i]
<1> DEFINE S == {i \in 1 .. m : e[i] # f[i]}
<1> SUFFICES S = {}
  OBVIOUS
<1> SUFFICES ASSUME S # {} PROVE FALSE
  OBVIOUS
<1>1. PICK k \in S : \A i \in S : k <= i
  <2>1. S \subseteq Nat
    OBVIOUS
  <2> HIDE DEF S
  <2> QED BY <2>1, LeastNumber
<1>2. k \in 1 .. m /\ k \in 1 .. n /\ e[k] # f[k]
  BY <1>1
<1>3. /\ e[k] = (k > 1 /\ t[k - 1] = "\\" /\ ~e[k - 1])
      /\ f[k] = (k > 1 /\ u[k - 1] = "\\" /\ ~f[k - 1])
  BY <1>2, EscapesAt
<1>4. k > 1
  BY <1>2, <1>3
<1>5. k - 1 \in 1 .. m /\ k - 1 \notin S
  BY <1>1, <1>2, <1>4
<1>6. e[k - 1] = f[k - 1] /\ t[k - 1] = u[k - 1]
  BY <1>5
<1> QED BY <1>2, <1>3, <1>6

LEMMA EscapesOfText ==
    ASSUME NEW t, NEW n \in Nat, DOMAIN t = 1 .. n
    PROVE  EscapesTo(t, n, Escapes(t))
<1>1. \A e : EscapesTo(t, n, e) <=> e = [i \in DOMAIN t |-> i > 1 /\ t[i - 1] = "\\" /\ ~e[i - 1]]
  BY DEF EscapesTo
<1>2. \E e : e = [i \in DOMAIN t |-> i > 1 /\ t[i - 1] = "\\" /\ ~e[i - 1]]
  BY <1>1, EscapesExist
<1>3. Escapes(t) = [i \in DOMAIN t |-> i > 1 /\ t[i - 1] = "\\" /\ ~Escapes(t)[i - 1]]
  BY <1>2 DEF Escapes
<1> QED BY <1>1, <1>3

\* A text that is longer by the character c.
IsLonger(u, t, n, c) ==
    /\ DOMAIN t = 1 .. n /\ Len(t) = n
    /\ DOMAIN u = 1 .. n + 1 /\ Len(u) = n + 1
    /\ u[n + 1] = c
    /\ \A i \in 1 .. n : u[i] = t[i]

LEMMA EscapesGrow ==
    ASSUME NEW t, NEW u, NEW c, NEW n \in Nat, IsLonger(u, t, n, c)
    PROVE  /\ \A i \in 1 .. n : Escapes(u)[i] = Escapes(t)[i]
           /\ Escapes(u)[n + 1] = (n > 0 /\ IsSlash(t, n))
<1>1. PICK k \in Nat : k = n + 1
  OBVIOUS
<1>2. PICK e, f : e = Escapes(t) /\ f = Escapes(u) /\ TRUE
  OBVIOUS
<1>3. EscapesTo(t, n, e) /\ EscapesTo(u, k, f)
  <2>1. DOMAIN t = 1 .. n /\ DOMAIN u = 1 .. k
    BY <1>1 DEF IsLonger
  <2>2. EscapesTo(t, n, Escapes(t)) /\ EscapesTo(u, k, Escapes(u))
    BY <2>1, EscapesOfText
  <2> QED BY ONLY <1>2, <2>2
<1>4. \A i \in 1 .. n : t[i] = u[i]
  BY DEF IsLonger
<1>5. \A i \in 1 .. n : e[i] = f[i]
  <2>1. n <= k
    BY <1>1
  <2> QED BY <1>3, <1>4, <2>1, EscapesAgree
<1>6. f[k] = (n > 0 /\ t[n] = "\\" /\ ~e[n])
  <2>1. k \in 1 .. k /\ k - 1 = n /\ (k > 1 <=> n > 0)
    BY <1>1
  <2>2. f[k] = (k > 1 /\ u[k - 1] = "\\" /\ ~f[k - 1])
    BY <1>3, <2>1, EscapesAt
  <2>3. n > 0 => u[n] = t[n] /\ f[n] = e[n]
    BY <1>4, <1>5
  <2> QED BY <2>1, <2>2, <2>3
<1> QED BY <1>1, <1>2, <1>5, <1>6 DEF IsSlash

-----------------------------------------------------------------------------
(* Recursive functions on an initial segment of the numbers *)

\* The values of h from 0 to n, each obtained from the one before.
IsChain(h, n, first, g) == h[0] = first /\ \A i \in 1 .. n : h[i] = g[<<i, h[i - 1]>>]

LEMMA ChainExists ==
    ASSUME NEW V, NEW first \in V, NEW n \in Nat, NEW g \in [(1 .. n) \X V -> V]
    PROVE  \E h \in [0 .. n -> V] : IsChain(h, n, first, g)
<1> DEFINE S == {k \in 0 .. n : ~ \E h \in [0 .. k -> V] : IsChain(h, k, first, g)}
<1>0. SUFFICES S = {}
  <2>1. n \in 0 .. n
    OBVIOUS
  <2>2. n \notin S
    BY <1>0
  <2> QED BY <2>1, <2>2
<1> SUFFICES ASSUME S # {} PROVE FALSE
  OBVIOUS
<1>1. PICK m \in S : \A k \in S : m <= k
  <2>1. S \subseteq Nat
    OBVIOUS
  <2> HIDE DEF S
  <2> QED BY <2>1, LeastNumber
<1>2. m \in 0 .. n /\ ~ \E h \in [0 .. m -> V] : IsChain(h, m, first, g)
  BY <1>1
<1>3. CASE m = 0
  <2>1. PICK h : h = [i \in 0 .. 0 |-> first]
    OBVIOUS
  <2>2. h \in [0 .. 0 -> V] /\ h[0] = first /\ \A i \in 1 .. 0 : FALSE
    BY <2>1
  <2> QED BY <1>2, <1>3, <2>2 DEF IsChain
<1>4. CASE m # 0
  <2>1. m - 1 \in 0 .. n /\ m - 1 \notin S
    BY <1>1, <1>2, <1>4
  <2>2. PICK h \in [0 .. m - 1 -> V] : IsChain(h, m - 1, first, g)
    BY <2>1
  <2>3. PICK f : f = [i \in 0 .. m |-> IF i = m THEN g[<<m, h[m - 1]>>] ELSE h[i]]
    OBVIOUS
  <2>4. m \in Nat \ {0} /\ m \in 1 .. n /\ m - 1 \in 0 .. m - 1
    BY <1>2, <1>4
  <2>5. h[m - 1] \in V /\ g[<<m, h[m - 1]>>] \in V
    BY <2>2, <2>4
  <2>6. f \in [0 .. m -> V]
    BY <2>2, <2>3, <2>4, <2>5
  <2>7. f[m] = g[<<m, h[m - 1]>>] /\ \A i \in 0 .. m - 1 : f[i] = h[i]
    BY <2>3, <2>4
  <2>8. h[0] = first /\ \A i \in 1 .. m - 1 : h[i] = g[<<i, h[i - 1]>>]
    BY <2>2 DEF IsChain
  <2>9. f[0] = first
    BY <2>4, <2>7, <2>8
  <2>10. ASSUME NEW i \in 1 .. m PROVE f[i] = g[<<i, f[i - 1]>>]
    <3>1. i - 1 \in 0 .. m - 1 /\ f[i - 1] = h[i - 1]
      BY <2>4, <2>7
    <3>2. CASE i = m
      BY <2>7, <3>1, <3>2
    <3>3. CASE i # m
      <4>1. i \in 1 .. m - 1 /\ i \in 0 .. m - 1
        BY <2>4, <3>3
      <4> QED BY <2>7, <2>8, <3>1, <4>1
    <3> QED BY <3>2, <3>3
  <2> QED BY <1>2, <2>6, <2>9, <2>10 DEF IsChain
<1> QED BY <1>3, <1>4

-----------------------------------------------------------------------------
(* Sequences of sequences *)

\* h joins the first, the first two, ... of the n sequences in s.
Joins(h, s, n) ==
    /\ h[1] = s[1] /\ \A i \in 2 .. n : h[i] = h[i - 1] \o s[i]
    /\ FlattenSeq(s) = h[n]

LEMMA FlattenIs ==
    ASSUME NEW T, NEW s \in Seq(Seq(T)), NEW n \in Nat \ {0}, n = Len(s)
    PROVE  \E h \in [1 .. n -> Seq(T)] : Joins(h, s, n)
<1>0. \A i \in 1 .. n : s[i] \in Seq(T)
  BY LenProperties
<1>1. PICK V : V = Seq(T)
  OBVIOUS
<1>2. PICK g : g = [p \in (1 .. n) \X V |-> p[2] \o s[p[1]]]
  OBVIOUS
<1>3. ASSUME NEW i \in 1 .. n, NEW v \in V PROVE g[<<i, v>>] = v \o s[i] /\ v \o s[i] \in V
  BY <1>0, <1>1, <1>2, <1>3, ConcatProperties
<1>4. g \in [(1 .. n) \X V -> V]
  <2>1. ASSUME NEW p \in (1 .. n) \X V PROVE g[p] \in V
    <3>1. PICK i \in 1 .. n, v \in V : p = <<i, v>>
      BY <2>1
    <3>2. g[<<i, v>>] \in V
      BY <1>3
    <3> QED BY <3>1, <3>2
  <2> QED BY <1>2, <2>1
<1>5. <<>> \in V
  BY <1>1, EmptySeq
<1>6. PICK h \in [0 .. n -> V] : IsChain(h, n, <<>>, g)
  BY <1>4, <1>5, ChainExists
<1>7. h[0] = <<>> /\ \A i \in 1 .. n : h[i] = h[i - 1] \o s[i]
  <2>1. ASSUME NEW i \in 1 .. n PROVE h[i] = h[i - 1] \o s[i]
    <3>0. i - 1 \in 0 .. n
      OBVIOUS
    <3>1. h[i - 1] \in V
      BY <1>6, <3>0
    <3>2. h[i] = g[<<i, h[i - 1]>>]
      BY <1>6 DEF IsChain
    <3> QED BY <1>3, <3>1, <3>2
  <2> QED BY <1>6, <2>1 DEF IsChain
<1>8. h[1] = s[1]
  <2>1. h[1] = <<>> \o s[1] /\ s[1] \in Seq(T)
    <3>1. 1 \in 1 .. n /\ 1 - 1 = 0
      OBVIOUS
    <3> QED BY <1>0, <1>7, <3>1
  <2> QED BY <2>1, ConcatEmptySeq
<1> DEFINE Flat(f) == f = [i \in 1 .. n |-> IF i = 1 THEN s[i] ELSE f[i - 1] \o s[i]]
<1>9. PICK k : k = [i \in 1 .. n |-> h[i]]
  OBVIOUS
<1>10. k \in [1 .. n -> V] /\ \A i \in 1 .. n : k[i] = h[i]
  BY <1>6, <1>9
<1>11. Flat(k)
  <2>1. ASSUME NEW i \in 1 .. n
        PROVE  k[i] = IF i = 1 THEN s[i] ELSE k[i - 1] \o s[i]
    <3>1. CASE i = 1
      BY <1>8, <1>10, <3>1
    <3>2. CASE i # 1
      <4>1. i - 1 \in 1 .. n
        BY <3>2
      <4> QED BY <1>7, <1>10, <3>2, <4>1
    <3> QED BY <3>1, <3>2
  <2>2. k = [i \in 1 .. n |-> k[i]]
    BY <1>9
  <2> QED BY <2>1, <2>2
<1>12. PICK f : f = CHOOSE e : Flat(e)
  OBVIOUS
<1>13. Flat(f)
  <2> HIDE DEF Flat
  <2> QED BY <1>11, <1>12
<1>14. \A i \in 1 .. n : f[i] = IF i = 1 THEN s[i] ELSE f[i - 1] \o s[i]
  <2>1. PICK e : e = [i \in 1 .. n |-> IF i = 1 THEN s[i] ELSE f[i - 1] \o s[i]]
    OBVIOUS
  <2>2. f = e
    BY <1>13, <2>1
  <2> QED BY <2>1, <2>2
<1>15. \A i \in 1 .. n : f[i] = h[i]
  <2> DEFINE S == {i \in 1 .. n : f[i] # h[i]}
  <2> SUFFICES S = {}
    OBVIOUS
  <2> SUFFICES ASSUME S # {} PROVE FALSE
    OBVIOUS
  <2>1. PICK m \in S : \A j \in S : m <= j
    <3>1. S \subseteq Nat
      OBVIOUS
    <3> HIDE DEF S
    <3> QED BY <3>1, LeastNumber
  <2>2. m \in 1 .. n /\ f[m] # h[m]
    BY <2>1
  <2>3. m # 1
    BY <1>8, <1>14, <2>2
  <2>4. m - 1 \in 1 .. n /\ m - 1 \notin S
    <3>1. m \in Nat /\ 1 <= m /\ m <= n /\ m # 1
      BY <2>2, <2>3
    <3>2. m - 1 \in 1 .. n /\ ~(m <= m - 1)
      BY <3>1
    <3> HIDE DEF S
    <3> QED BY <2>1, <3>2
  <2>5. f[m - 1] = h[m - 1]
    BY <2>4
  <2> QED BY <1>7, <1>14, <2>2, <2>3, <2>5
<1>16. FlattenSeq(s) = f[n]
  BY <1>12 DEF FlattenSeq
<1>17. FlattenSeq(s) = k[n]
  BY <1>10, <1>15, <1>16
<1>18. k[1] = s[1] /\ \A i \in 2 .. n : k[i] = k[i - 1] \o s[i]
  <2>1. ASSUME NEW i \in 2 .. n PROVE k[i] = k[i - 1] \o s[i]
    <3>1. i \in 1 .. n /\ i - 1 \in 1 .. n
      OBVIOUS
    <3> QED BY <1>7, <1>10, <3>1
  <2>2. 1 \in 1 .. n
    OBVIOUS
  <2> QED BY <1>8, <1>10, <2>1, <2>2
<1> QED BY <1>1, <1>10, <1>17, <1>18 DEF Joins

LEMMA FlattenNone == FlattenSeq(<<>>) = <<>>
BY EmptySeq DEF FlattenSeq

LEMMA FlattenOneMore ==
    ASSUME NEW T, NEW n \in Nat, NEW s \in [1 .. n -> Seq(T)],
           NEW u \in [1 .. n + 1 -> Seq(T)], \A i \in 1 .. n : u[i] = s[i]
    PROVE  FlattenSeq(u) = FlattenSeq(s) \o u[n + 1] /\ FlattenSeq(s) \in Seq(T)
<1>1. s \in Seq(Seq(T)) /\ u \in Seq(Seq(T)) /\ Len(s) = n /\ Len(u) = n + 1
  <2>1. s \in Seq(Seq(T)) /\ u \in Seq(Seq(T))
    BY SeqDef
  <2>2. DOMAIN s = 1 .. n /\ DOMAIN u = 1 .. n + 1
    OBVIOUS
  <2> QED BY <2>1, <2>2, LenProperties
<1>2. PICK k \in [1 .. n + 1 -> Seq(T)] :
         /\ k[1] = u[1] /\ \A i \in 2 .. n + 1 : k[i] = k[i - 1] \o u[i]
         /\ FlattenSeq(u) = k[n + 1]
  <2>1. PICK m : m = n + 1
    OBVIOUS
  <2>2. m \in Nat \ {0} /\ m = Len(u) /\ u \in Seq(Seq(T))
    BY <1>1, <2>1
  <2>3. \E k \in [1 .. m -> Seq(T)] : Joins(k, u, m)
    BY ONLY <2>2, FlattenIs
  <2> QED BY <2>1, <2>3 DEF Joins
<1>3. CASE n = 0
  <2>1. s = <<>>
    BY <1>1, <1>3, EmptySeq
  <2>2. FlattenSeq(s) = <<>>
    BY <2>1, FlattenNone
  <2>3. FlattenSeq(u) = u[1] /\ u[1] \in Seq(T)
    BY <1>2, <1>3
  <2>4. <<>> \o u[1] = u[1] /\ <<>> \in Seq(T)
    BY <2>3, ConcatEmptySeq, EmptySeq
  <2> QED BY <1>3, <2>2, <2>3, <2>4
<1>4. CASE n # 0
  <2>0. n \in Nat \ {0}
    BY <1>4
  <2>1. PICK h \in [1 .. n -> Seq(T)] :
           /\ h[1] = s[1] /\ \A i \in 2 .. n : h[i] = h[i - 1] \o s[i]
           /\ FlattenSeq(s) = h[n]
    <3>1. s \in Seq(Seq(T)) /\ n = Len(s)
      BY <1>1
    <3>2. \E h \in [1 .. n -> Seq(T)] : Joins(h, s, n)
      BY ONLY <2>0, <3>1, FlattenIs
    <3> QED BY <3>2 DEF Joins
  <2>2. \A i \in 1 .. n : k[i] = h[i]
    <3> DEFINE S == {i \in 1 .. n : k[i] # h[i]}
    <3> SUFFICES S = {}
      OBVIOUS
    <3> SUFFICES ASSUME S # {} PROVE FALSE
      OBVIOUS
    <3>1. PICK m \in S : \A j \in S : m <= j
      <4>1. S \subseteq Nat
        OBVIOUS
      <4> HIDE DEF S
      <4> QED BY <4>1, LeastNumber
    <3>2. m \in 1 .. n /\ k[m] # h[m]
      BY <3>1
    <3>3. m # 1
      BY <1>2, <2>1, <3>2
    <3>4. m - 1 \in 1 .. n /\ m - 1 \notin S /\ m \in 2 .. n /\ m \in 2 .. n + 1
      BY <3>1, <3>2, <3>3
    <3>5. k[m - 1] = h[m - 1] /\ u[m] = s[m]
      BY <3>2, <3>4
    <3> QED BY <1>2, <2>1, <3>2, <3>4, <3>5
  <2>3. k[n] = h[n] /\ k[n + 1] = k[n] \o u[n + 1] /\ h[n] \in Seq(T)
    <3>1. n \in 1 .. n /\ n + 1 \in 2 .. n + 1 /\ n + 1 - 1 = n
      BY <2>0
    <3>2. k[n + 1] = k[n] \o u[n + 1]
      <4>1. \A i \in 2 .. n + 1 : k[i] = k[i - 1] \o u[i]
        BY <1>2
      <4>2. \A m : m \in 2 .. n + 1 /\ m - 1 = n => k[m] = k[n] \o u[m]
        BY <3>1, <4>1
      <4>3. PICK m : m = n + 1
        OBVIOUS
      <4>4. m \in 2 .. n + 1 /\ m - 1 = n
        BY <3>1, <4>3
      <4>5. k[m] = k[n] \o u[m]
        BY ONLY <4>2, <4>4, Zenon
      <4> QED BY ONLY <4>3, <4>5, Zenon
    <3>3. k[n] = h[n] /\ h[n] \in Seq(T)
      BY <2>1, <2>2, <3>1
    <3> QED BY <3>2, <3>3
  <2> QED BY <1>2, <2>1, <2>3
<1> QED BY <1>3, <1>4

-----------------------------------------------------------------------------
(* What digits make *)

LEMMA IsByte ==
    ASSUME NEW d \in Int
    PROVE  d % 256 \in 0 .. 255
OBVIOUS

LEMMA LowByte ==
    ASSUME NEW x \in 0 .. 255, NEW a \in 0 .. 15, NEW b \in 0 .. 15
    PROVE  (16 * ((16 * x + a) % 256) + b) % 256 = 16 * a + b
<1>1. PICK y : y = (16 * x + a) % 256
  OBVIOUS
<1>2. y \in 0 .. 255 /\ \E q \in Int : 16 * x + a = 256 * q + y
  BY <1>1
<1>3. PICK q \in Int : 16 * x + a = 256 * q + y
  BY <1>2
<1>4. 16 * y + b = 256 * (x - 16 * q) + (16 * a + b) /\ 16 * a + b \in 0 .. 255
  BY <1>2, <1>3
<1>5. (16 * y + b) % 256 = 16 * a + b
  BY <1>2, <1>4
<1> QED BY <1>1, <1>5

\* Only the last two digits count.
LEMMA FromHexIs ==
    ASSUME NEW n \in Nat, n >= 2, NEW v \in [1 .. n -> 0 .. 15]
    PROVE  FromHex(v) = 16 * v[n - 1] + v[n]
<1>1. Len(v) = n
  <2>1. v \in Seq(0 .. 15) /\ DOMAIN v = 1 .. n
    BY SeqDef
  <2> QED BY <2>1, LenProperties
<1> DEFINE Reads(r) == r = [i \in 0 .. n |-> IF i = 0 THEN 0 ELSE (16 * r[i - 1] + v[i]) % 256]
<1>2. PICK V : V = 0 .. 255
  OBVIOUS
<1>3. PICK g : g = [p \in (1 .. n) \X V |-> (16 * p[2] + v[p[1]]) % 256]
  OBVIOUS
<1>4. ASSUME NEW i \in 1 .. n, NEW x \in V
      PROVE  g[<<i, x>>] = (16 * x + v[i]) % 256 /\ (16 * x + v[i]) % 256 \in V
  <2>1. v[i] \in 0 .. 15 /\ x \in 0 .. 255
    BY <1>2
  <2>2. (16 * x + v[i]) % 256 \in V
    <3>1. PICK c, d \in Int : c = v[i] /\ d = 16 * x + c
      BY <2>1
    <3>2. d % 256 \in 0 .. 255
      BY IsByte
    <3>3. 16 * x + v[i] = d
      BY <3>1
    <3> QED BY ONLY <1>2, <3>2, <3>3, Zenon
  <2>3. PICK p : p = <<i, x>>
    OBVIOUS
  <2>4. p \in (1 .. n) \X V /\ p[1] = i /\ p[2] = x
    BY <2>3
  <2>5. g[p] = (16 * p[2] + v[p[1]]) % 256
    BY ONLY <1>3, <2>4, Zenon
  <2>6. g[p] = (16 * x + v[i]) % 256
    BY ONLY <2>4, <2>5, Zenon
  <2> QED BY <2>2, <2>3, <2>6
<1>5. g \in [(1 .. n) \X V -> V]
  <2>1. ASSUME NEW p \in (1 .. n) \X V PROVE g[p] \in V
    <3>1. PICK i \in 1 .. n, x \in V : p = <<i, x>>
      BY <2>1
    <3>2. g[<<i, x>>] \in V
      BY <1>4
    <3> QED BY <3>1, <3>2
  <2> QED BY <1>3, <2>1
<1>6. PICK h \in [0 .. n -> V] : IsChain(h, n, 0, g)
  <2>1. 0 \in V
    BY <1>2
  <2> QED BY <1>5, <2>1, ChainExists
<1>7. Reads(h)
  <2>1. ASSUME NEW i \in 0 .. n
        PROVE  h[i] = IF i = 0 THEN 0 ELSE (16 * h[i - 1] + v[i]) % 256
    <3>1. CASE i = 0
      BY <1>6, <3>1 DEF IsChain
    <3>2. CASE i # 0
      <4>1. i \in 1 .. n /\ i - 1 \in 0 .. n
        BY <3>2
      <4>2. h[i - 1] \in V /\ h[i] = g[<<i, h[i - 1]>>]
        BY <1>6, <4>1 DEF IsChain
      <4> QED BY <1>4, <3>2, <4>1, <4>2
    <3> QED BY <3>1, <3>2
  <2>2. h = [i \in 0 .. n |-> h[i]]
    BY <1>6
  <2> QED BY <2>1, <2>2
<1>8. PICK r : r = CHOOSE e : Reads(e)
  OBVIOUS
<1>9. Reads(r)
  <2> HIDE DEF Reads
  <2> QED BY <1>7, <1>8
<1>10. \A i \in 0 .. n : r[i] = IF i = 0 THEN 0 ELSE (16 * r[i - 1] + v[i]) % 256
  <2>1. PICK e : e = [i \in 0 .. n |-> IF i = 0 THEN 0 ELSE (16 * r[i - 1] + v[i]) % 256]
    OBVIOUS
  <2>2. r = e
    BY <1>9, <2>1
  <2> QED BY <2>1, <2>2
<1>11. FromHex(v) = r[n]
  BY <1>1, <1>8 DEF FromHex
<1> HIDE DEF Reads
<1>12. \A i \in 0 .. n : r[i] \in V
  <2> DEFINE S == {i \in 0 .. n : r[i] \notin V}
  <2> SUFFICES S = {}
    OBVIOUS
  <2> SUFFICES ASSUME S # {} PROVE FALSE
    OBVIOUS
  <2>1. PICK m \in S : \A j \in S : m <= j
    <3>1. S \subseteq Nat
      OBVIOUS
    <3> HIDE DEF S
    <3> QED BY <3>1, LeastNumber
  <2>2. m \in 0 .. n /\ r[m] \notin V
    BY <2>1
  <2>3. m # 0
    <3>1. r[0] = 0
      BY <1>10
    <3>2. 0 \in V /\ r[m] \notin V
      BY <1>2, <2>2
    <3> QED BY ONLY <3>1, <3>2, Zenon
  <2>4. m - 1 \in 0 .. n /\ ~(m <= m - 1) /\ m \in 1 .. n
    BY <2>2, <2>3
  <2>5. r[m - 1] \in V
    BY <2>1, <2>4
  <2>6. r[m] = (16 * r[m - 1] + v[m]) % 256
    BY <1>10, <2>2, <2>3
  <2>7. PICK x : x = r[m - 1]
    OBVIOUS
  <2>8. x \in V /\ r[m] = (16 * x + v[m]) % 256
    BY <2>5, <2>6, <2>7
  <2>9. (16 * x + v[m]) % 256 \in V
    BY ONLY <1>4, <2>4, <2>8
  <2>10. r[m] \notin V
    BY <2>2
  <2> QED BY ONLY <2>8, <2>9, <2>10, Zenon
<1>13. PICK a \in Nat, b \in Nat : a = n - 2 /\ b = n - 1
  OBVIOUS
<1>14. /\ a \in 0 .. n /\ b \in 0 .. n /\ n \in 0 .. n /\ b # 0 /\ n # 0 /\ b - 1 = a /\ n - 1 = b
       /\ b \in 1 .. n /\ n \in 1 .. n
  BY <1>13
<1>15. r[b] = (16 * r[a] + v[b]) % 256 /\ r[n] = (16 * r[b] + v[n]) % 256
  <2>1. r[b] = (16 * r[b - 1] + v[b]) % 256 /\ r[n] = (16 * r[n - 1] + v[n]) % 256
    BY <1>10, <1>14
  <2> QED BY <1>14, <2>1
<1>16. r[a] \in 0 .. 255 /\ v[b] \in 0 .. 15 /\ v[n] \in 0 .. 15
  BY <1>2, <1>12, <1>14
<1>17. r[n] = 16 * v[b] + v[n]
  <2>1. PICK x \in 0 .. 255, c \in 0 .. 15, d \in 0 .. 15 : x = r[a] /\ c = v[b] /\ d = v[n]
    BY <1>16
  <2>2. (16 * ((16 * x + c) % 256) + d) % 256 = 16 * c + d
    BY LowByte
  <2> QED BY <1>15, <2>1, <2>2
<1> QED BY <1>11, <1>13, <1>17

-----------------------------------------------------------------------------
(* What a text says, for any text t *)

Letters == Char \cup {"end"}
PlainPiece == {Plain(c) : c \in Letters} \cup {Plain(Escape[c]) : c \in DOMAIN Escape}

NumberAt(t, i)  == Escapes(t)[i] /\ t[i] \in NumberLetter
MistakeAt(t, i) == t[i] = "\n" \/ (Escapes(t)[i] /\ t[i] \notin DOMAIN Escape)
Closes(t, i)    == t[i] = t[1] /\ ~Escapes(t)[i]
Meaning(t, i)   ==
    IF IsSlash(t, i) THEN <<>>
    ELSE IF Escapes(t)[i] THEN <<Plain(Escape[t[i]])>> ELSE <<Plain(t[i])>>

\* What the characters from the second to the n-th denote, and which of them denote something.
Said(t, n)  == FlattenSeq([i \in 1 .. n - 1 |-> Meaning(t, i + 1)])
Shown(t, n) == {i \in 2 .. n : ~IsSlash(t, i)}

LEMMA SameAt ==
    ASSUME NEW t, NEW u, NEW c, NEW n \in Nat, IsLonger(u, t, n, c), NEW i \in 1 .. n
    PROVE  /\ Escapes(u)[i] = Escapes(t)[i] /\ u[i] = t[i]
           /\ IsSlash(u, i) = IsSlash(t, i)
           /\ NumberAt(u, i) = NumberAt(t, i) /\ MistakeAt(u, i) = MistakeAt(t, i)
           /\ Closes(u, i) = Closes(t, i) /\ Meaning(u, i) = Meaning(t, i)
<1>1. u[i] = t[i] /\ u[1] = t[1]
  BY DEF IsLonger
<1>2. Escapes(u)[i] = Escapes(t)[i]
  BY EscapesGrow
<1> QED BY <1>1, <1>2 DEF IsSlash, NumberAt, MistakeAt, Closes, Meaning

LEMMA SameBefore ==
    ASSUME NEW t, NEW u, NEW c, NEW n \in Nat, IsLonger(u, t, n, c), NEW k \in 0 .. n
    PROVE  Said(u, k) = Said(t, k) /\ Shown(u, k) = Shown(t, k)
<1>1. \A i \in 1 .. k - 1 : Meaning(u, i + 1) = Meaning(t, i + 1)
  <2>1. ASSUME NEW i \in 1 .. k - 1 PROVE Meaning(u, i + 1) = Meaning(t, i + 1)
    <3>1. PICK j \in 1 .. n : j = i + 1
      OBVIOUS
    <3>2. Meaning(u, j) = Meaning(t, j)
      BY SameAt
    <3> QED BY <3>1, <3>2
  <2> QED BY <2>1
<1>2. \A i \in 2 .. k : IsSlash(u, i) = IsSlash(t, i)
  <2>1. ASSUME NEW i \in 2 .. k PROVE IsSlash(u, i) = IsSlash(t, i)
    <3>1. i \in 1 .. n
      OBVIOUS
    <3> QED BY <3>1, SameAt
  <2> QED BY <2>1
<1>3. [i \in 1 .. k - 1 |-> Meaning(u, i + 1)] = [i \in 1 .. k - 1 |-> Meaning(t, i + 1)]
  BY <1>1
<1> QED BY <1>2, <1>3 DEF Said, Shown

LEMMA ShownIs ==
    ASSUME NEW t, NEW n \in Nat
    PROVE  /\ IsFiniteSet(Shown(t, n)) /\ Cardinality(Shown(t, n)) \in Nat
           /\ n > 0 /\ IsSlash(t, n + 1) => Shown(t, n + 1) = Shown(t, n)
           /\ n > 0 /\ ~IsSlash(t, n + 1) =>
                 Cardinality(Shown(t, n + 1)) = Cardinality(Shown(t, n)) + 1
<1>1. IsFiniteSet(Shown(t, n))
  <2>1. IsFiniteSet(2 .. n)
    BY FS_Interval
  <2>2. Shown(t, n) \subseteq 2 .. n
    BY DEF Shown
  <2> QED BY <2>1, <2>2, FS_Subset
<1>2. Cardinality(Shown(t, n)) \in Nat
  BY <1>1, FS_CardinalityType
<1>3. ASSUME n > 0 PROVE \A i : i \in 2 .. n + 1 <=> i \in 2 .. n \/ i = n + 1
  BY <1>3
<1>4. n > 0 /\ IsSlash(t, n + 1) => Shown(t, n + 1) = Shown(t, n)
  BY <1>3 DEF Shown
<1>5. ASSUME n > 0, ~IsSlash(t, n + 1)
      PROVE  Cardinality(Shown(t, n + 1)) = Cardinality(Shown(t, n)) + 1
  <2>1. Shown(t, n + 1) = Shown(t, n) \cup {n + 1}
    BY <1>3, <1>5 DEF Shown
  <2>2. n + 1 \notin Shown(t, n)
    BY DEF Shown
  <2> QED BY <1>1, <2>1, <2>2, FS_AddElement
<1> QED BY <1>1, <1>2, <1>4, <1>5

\* What one more character adds to what has been said.
LEMMA SaidMore ==
    ASSUME NEW t, NEW n \in Nat \ {0},
           \A i \in 2 .. n + 1 : Meaning(t, i) \in Seq(PlainPiece)
    PROVE  Said(t, n + 1) = Said(t, n) \o Meaning(t, n + 1) /\ Said(t, n) \in Seq(PlainPiece)
<1>1. PICK k \in Nat : n = k + 1
  <2>1. n - 1 \in Nat /\ n = n - 1 + 1
    OBVIOUS
  <2> QED BY <2>1
<1>2. PICK s, u : /\ s = [i \in 1 .. k |-> Meaning(t, i + 1)]
                  /\ u = [i \in 1 .. k + 1 |-> Meaning(t, i + 1)]
  OBVIOUS
<1>3. \A i \in 1 .. k + 1 : Meaning(t, i + 1) \in Seq(PlainPiece)
  <2>1. ASSUME NEW i \in 1 .. k + 1 PROVE Meaning(t, i + 1) \in Seq(PlainPiece)
    <3>1. i + 1 \in 2 .. n + 1
      BY <1>1
    <3> QED BY <3>1
  <2> QED BY <2>1
<1>4. /\ s \in [1 .. k -> Seq(PlainPiece)] /\ u \in [1 .. k + 1 -> Seq(PlainPiece)]
      /\ \A i \in 1 .. k : u[i] = s[i]
      /\ u[k + 1] = Meaning(t, k + 1 + 1)
  <2>1. \A i \in 1 .. k : i \in 1 .. k + 1
    OBVIOUS
  <2>2. k + 1 \in 1 .. k + 1
    OBVIOUS
  <2> QED BY <1>2, <1>3, <2>1, <2>2
<1>5. FlattenSeq(u) = FlattenSeq(s) \o u[k + 1] /\ FlattenSeq(s) \in Seq(PlainPiece)
  BY ONLY <1>4, FlattenOneMore
<1>6. Said(t, n + 1) = FlattenSeq(u) /\ Said(t, n) = FlattenSeq(s)
  <2>1. n - 1 = k /\ n + 1 - 1 = k + 1
    BY <1>1
  <2> QED BY <1>2, <2>1 DEF Said
<1> QED BY <1>1, <1>4, <1>5, <1>6

-----------------------------------------------------------------------------
(* Reading a text without numbers *)

IsText(t, n) == n \in Nat /\ t \in Seq(Letters) /\ Len(t) = n /\ DOMAIN t = 1 .. n

LEMMA TextIs ==
    ASSUME NEW t \in Seq(Letters)
    PROVE  IsText(t, Len(t))
BY LenProperties DEF IsText

LEMMA OneMore ==
    ASSUME NEW t, NEW n, IsText(t, n), NEW c \in Letters, NEW u, u = Append(t, c)
    PROVE  IsText(u, n + 1) /\ IsLonger(u, t, n, c)
<1>1. n \in Nat /\ t \in Seq(Letters) /\ Len(t) = n /\ DOMAIN t = 1 .. n
  BY DEF IsText
<1>2. /\ u \in Seq(Letters) /\ Len(u) = n + 1 /\ u[n + 1] = c
      /\ \A i \in 1 .. n : u[i] = t[i]
  BY <1>1, AppendProperties
<1>3. DOMAIN u = 1 .. n + 1
  BY <1>2, LenProperties
<1> QED BY <1>1, <1>2, <1>3 DEF IsText, IsLonger

LEMMA MeaningIs ==
    ASSUME NEW t, NEW n, IsText(t, n), NEW i \in 1 .. n, ~MistakeAt(t, i)
    PROVE  /\ Meaning(t, i) \in Seq(PlainPiece)
           /\ Len(Meaning(t, i)) = IF IsSlash(t, i) THEN 0 ELSE 1
<1>1. t[i] \in Letters
  BY DEF IsText
<1>2. \A p \in PlainPiece : <<p>> \in Seq(PlainPiece) /\ Len(<<p>>) = 1
  OBVIOUS
<1>3. <<>> \in Seq(PlainPiece) /\ Len(<<>>) = 0
  BY EmptySeq
<1>4. CASE IsSlash(t, i)
  BY <1>3, <1>4 DEF Meaning
<1>5. CASE ~IsSlash(t, i) /\ Escapes(t)[i]
  <2>1. t[i] \in DOMAIN Escape
    BY <1>5 DEF MistakeAt
  <2>2. Plain(Escape[t[i]]) \in PlainPiece
    BY <2>1 DEF PlainPiece
  <2> QED BY <1>2, <1>5, <2>2 DEF Meaning
<1>6. CASE ~IsSlash(t, i) /\ ~Escapes(t)[i]
  <2>1. Plain(t[i]) \in PlainPiece
    BY <1>1 DEF PlainPiece
  <2> QED BY <1>2, <1>6, <2>1 DEF Meaning
<1> QED BY <1>4, <1>5, <1>6

\* A text without numbers, with nothing wrong in it so far, and what has been made of it.
Reading(t, n, out) ==
    /\ n > 0 /\ t[1] \in Quote
    /\ \A i \in 1 .. n : ~NumberAt(t, i) /\ ~MistakeAt(t, i)
    /\ \A i \in 2 .. n : ~Closes(t, i)
    /\ out \in Seq(PlainPiece) /\ out = Said(t, n) /\ Len(out) = Cardinality(Shown(t, n))

LEMMA ReadingGoesOn ==
    ASSUME NEW t, NEW n, IsText(t, n), NEW c, NEW u, IsText(u, n + 1), IsLonger(u, t, n, c),
           NEW out, Reading(t, n, out),
           ~NumberAt(u, n + 1), ~MistakeAt(u, n + 1), ~Closes(u, n + 1),
           NEW more, more = out \o Meaning(u, n + 1)
    PROVE  Reading(u, n + 1, more)
<1>1. n \in Nat \ {0} /\ n \in 0 .. n /\ n + 1 \in 1 .. n + 1 /\ n \in Nat
  BY DEF Reading, IsText
<1>2. \A i \in 1 .. n : /\ IsSlash(u, i) = IsSlash(t, i) /\ NumberAt(u, i) = NumberAt(t, i)
                        /\ MistakeAt(u, i) = MistakeAt(t, i) /\ Closes(u, i) = Closes(t, i)
  BY <1>1, SameAt
<1>3. Said(u, n) = Said(t, n) /\ Shown(u, n) = Shown(t, n)
  BY <1>1, SameBefore
<1>4. \A i \in 1 .. n + 1 : ~NumberAt(u, i) /\ ~MistakeAt(u, i)
  <2>1. \A i \in 1 .. n + 1 : i \in 1 .. n \/ i = n + 1
    BY <1>1
  <2> QED BY <1>2, <2>1 DEF Reading
<1>5. \A i \in 2 .. n + 1 : ~Closes(u, i)
  <2>1. \A i \in 2 .. n + 1 : (i \in 1 .. n /\ i \in 2 .. n) \/ i = n + 1
    BY <1>1
  <2> QED BY <1>2, <2>1 DEF Reading
<1>6. u[1] \in Quote
  BY <1>1 DEF Reading, IsLonger
<1>7. PICK m : m = n + 1
  OBVIOUS
<1>8. \A i \in 2 .. n + 1 : Meaning(u, i) \in Seq(PlainPiece)
  <2>1. ASSUME NEW i \in 2 .. n + 1 PROVE Meaning(u, i) \in Seq(PlainPiece)
    <3>1. i \in 1 .. m /\ ~MistakeAt(u, i) /\ IsText(u, m)
      BY <1>1, <1>4, <1>7
    <3> QED BY <3>1, MeaningIs
  <2> QED BY <2>1
<1>9. Said(u, n + 1) = Said(u, n) \o Meaning(u, n + 1)
  BY <1>1, <1>8, SaidMore
<1>10. out \in Seq(PlainPiece) /\ out = Said(t, n) /\ Len(out) = Cardinality(Shown(t, n))
  BY DEF Reading
<1>11. more = Said(u, n + 1)
  BY <1>3, <1>9, <1>10
<1>12. /\ Meaning(u, n + 1) \in Seq(PlainPiece)
       /\ Len(Meaning(u, n + 1)) = IF IsSlash(u, n + 1) THEN 0 ELSE 1
  <2>1. m \in 1 .. m /\ ~MistakeAt(u, m) /\ IsText(u, m)
    BY <1>1, <1>7
  <2>2. Meaning(u, m) \in Seq(PlainPiece) /\ Len(Meaning(u, m)) = IF IsSlash(u, m) THEN 0 ELSE 1
    BY <2>1, MeaningIs
  <2> QED BY <1>7, <2>2
<1>13. /\ more \in Seq(PlainPiece)
       /\ Len(more) = Len(out) + IF IsSlash(u, n + 1) THEN 0 ELSE 1
  <2>1. PICK add : add = Meaning(u, n + 1)
    OBVIOUS
  <2>2. add \in Seq(PlainPiece) /\ more = out \o add
    BY <1>12, <2>1
  <2>3. more \in Seq(PlainPiece) /\ Len(more) = Len(out) + Len(add)
    BY ONLY <1>10, <2>2, ConcatProperties
  <2> QED BY <1>12, <2>1, <2>3
<1>14. Len(more) = Cardinality(Shown(u, n + 1))
  <2>1. /\ Cardinality(Shown(u, n)) \in Nat
        /\ IsSlash(u, n + 1) => Shown(u, n + 1) = Shown(u, n)
        /\ ~IsSlash(u, n + 1) => Cardinality(Shown(u, n + 1)) = Cardinality(Shown(u, n)) + 1
    BY <1>1, ShownIs
  <2>2. Len(out) = Cardinality(Shown(u, n))
    BY <1>3, <1>10
  <2> QED BY <1>13, <2>1, <2>2
<1>15. n + 1 > 0
  BY <1>1
<1> QED BY <1>4, <1>5, <1>6, <1>11, <1>13, <1>14, <1>15 DEF Reading

Numbered(t, n) == \E i \in 1 .. n : NumberAt(t, i)

\* The string that has been read, with or without its closing quote.
Quoted(t, n, out) ==
    /\ n > 1 /\ out = Said(t, n - 1)
    /\ \A i \in 1 .. n : ~MistakeAt(t, i)
    /\ \A i \in 2 .. n - 1 : ~Closes(t, i)
    /\ Closes(t, n) <=> t[n] # "end"

\* What there is at each phase of a text without numbers.
Word(t, n, ph, out) ==
    ~Numbered(t, n) =>
        /\ ph = "body" => Reading(t, n, out) /\ ~IsSlash(t, n)
        /\ ph = "escape" => Reading(t, n, out) /\ IsSlash(t, n)
        /\ ph # "digits"
        /\ ph = "returned" => Quoted(t, n, out)
        /\ ph = "thrown" <=> \E i \in 1 .. n : MistakeAt(t, i)

LEMMA NotNumbered ==
    ASSUME NEW t, NEW n \in Nat, NEW c, NEW u, IsLonger(u, t, n, c)
    PROVE  Numbered(u, n + 1) <=> Numbered(t, n) \/ NumberAt(u, n + 1)
<1>1. \A i \in 1 .. n : NumberAt(u, i) = NumberAt(t, i)
  BY SameAt
<1>2. \A i : i \in 1 .. n + 1 <=> i \in 1 .. n \/ i = n + 1
  OBVIOUS
<1> QED BY <1>1, <1>2 DEF Numbered

\* The text goes on.
LEMMA WordGoesOn ==
    ASSUME NEW t, NEW n \in Nat, NEW out, Reading(t, n, out), NEW ph,
           \/ ph = "body" /\ ~IsSlash(t, n)
           \/ ph = "escape" /\ IsSlash(t, n)
    PROVE  Word(t, n, ph, out)
BY DEF Word, Reading

\* The text ends with a mistake.
LEMMA WordIsWrong ==
    ASSUME NEW t, NEW n \in Nat \ {0}, MistakeAt(t, n), NEW out
    PROVE  Word(t, n, "thrown", out)
BY DEF Word

\* A character in the body.
LEMMA BodyWord ==
    ASSUME NEW t, NEW n, IsText(t, n), NEW c, NEW u, IsText(u, n + 1), IsLonger(u, t, n, c),
           NEW out, Reading(t, n, out), ~IsSlash(t, n),
           NEW ph, NEW more,
           \/ c = "\\" /\ ph = "escape" /\ more = out
           \/ c \in {t[1], "end"} /\ ph = "returned" /\ more = out
           \/ c = "\n" /\ ph = "thrown" /\ more = out
           \/ c \notin {"\\", t[1], "end", "\n"} /\ ph = "body" /\ more = Append(out, Plain(c))
    PROVE  Word(u, n + 1, ph, more)
<1>1. n \in Nat \ {0} /\ n \in 0 .. n /\ n + 1 \in 1 .. n + 1 /\ n + 1 \in Nat \ {0}
  BY DEF Reading, IsText
<1>3. t[1] \in Quote /\ u[1] = t[1] /\ u[n + 1] = c
  BY <1>1 DEF Reading, IsLonger
<1>4. ~Escapes(u)[n + 1]
  BY <1>1, EscapesGrow
<1>5. ~NumberAt(u, n + 1) /\ (MistakeAt(u, n + 1) <=> c = "\n")
  BY <1>3, <1>4 DEF NumberAt, MistakeAt
<1>6. (Closes(u, n + 1) <=> c = t[1]) /\ (IsSlash(u, n + 1) <=> c = "\\")
  BY <1>3, <1>4 DEF Closes, IsSlash
<1>7. Meaning(u, n + 1) = IF c = "\\" THEN <<>> ELSE <<Plain(c)>>
  BY <1>3, <1>4, <1>6 DEF Meaning
<1>8. out \in Seq(PlainPiece)
  BY DEF Reading
<1>9. t[1] # "\\" /\ t[1] # "end" /\ t[1] # "\n"
  BY <1>3 DEF Quote
<1>10. CASE c = "\\" /\ ph = "escape" /\ more = out
  <2>1. more = out \o Meaning(u, n + 1)
    BY <1>7, <1>8, <1>10, ConcatEmptySeq
  <2>2. Reading(u, n + 1, more)
    BY <1>5, <1>6, <1>9, <1>10, <2>1, ReadingGoesOn
  <2> QED BY <1>1, <1>6, <1>10, <2>2, WordGoesOn
<1>11. CASE c \in {t[1], "end"} /\ ph = "returned" /\ more = out
  <2>1. more = Said(u, n)
    BY <1>1, <1>11, SameBefore DEF Reading
  <2>2. \A i \in 1 .. n : MistakeAt(u, i) = MistakeAt(t, i) /\ Closes(u, i) = Closes(t, i)
    BY <1>1, SameAt
  <2>3. \A i \in 1 .. n + 1 : ~MistakeAt(u, i)
    <3>1. \A i \in 1 .. n + 1 : i \in 1 .. n \/ i = n + 1
      BY <1>1
    <3>2. ~MistakeAt(u, n + 1)
      BY <1>5, <1>9, <1>11
    <3> QED BY <2>2, <3>1, <3>2 DEF Reading
  <2>4. \A i \in 2 .. n : ~Closes(u, i)
    <3>1. \A i \in 2 .. n : i \in 1 .. n
      BY <1>1
    <3> QED BY <2>2, <3>1 DEF Reading
  <2>5. Closes(u, n + 1) <=> u[n + 1] # "end"
    BY <1>3, <1>6, <1>9, <1>11
  <2>6. n + 1 - 1 = n /\ n + 1 > 1
    BY <1>1
  <2>7. Quoted(u, n + 1, more)
    <3>1. PICK m : m = n + 1
      OBVIOUS
    <3>2. m - 1 = n /\ m > 1 /\ (Closes(u, m) <=> u[m] # "end") /\ \A i \in 1 .. m : ~MistakeAt(u, i)
      <4>1. m - 1 = n /\ m > 1
        BY <1>1, <3>1
      <4>2. (Closes(u, m) <=> u[m] # "end") /\ \A i \in 1 .. m : ~MistakeAt(u, i)
        BY ONLY <2>3, <2>5, <3>1, Zenon
      <4> QED BY ONLY <4>1, <4>2
    <3>3. Quoted(u, m, more)
      <4>1. more = Said(u, m - 1) /\ \A i \in 2 .. m - 1 : ~Closes(u, i)
        BY <2>1, <2>4, <3>2
      <4> QED BY ONLY <3>2, <4>1 DEF Quoted
    <3> QED BY <3>1, <3>3
  <2> QED BY <1>11, <2>3, <2>7 DEF Word
<1>12. CASE c = "\n" /\ ph = "thrown" /\ more = out
  BY <1>1, <1>5, <1>12, WordIsWrong
<1>13. CASE c \notin {"\\", t[1], "end", "\n"} /\ ph = "body" /\ more = Append(out, Plain(c))
  <2>1. more = out \o Meaning(u, n + 1)
    <3>1. Plain(c) \in PlainPiece
      <4>1. c \in Letters
        BY <1>1, <1>3 DEF IsText
      <4> QED BY <4>1 DEF PlainPiece
    <3>2. Append(out, Plain(c)) = out \o <<Plain(c)>>
      BY <1>8, <3>1, AppendIsConcat
    <3> QED BY <1>7, <1>13, <3>2
  <2>2. Reading(u, n + 1, more)
    BY <1>5, <1>6, <1>13, <2>1, ReadingGoesOn
  <2> QED
    <3>1. PICK m \in Nat : m = n + 1
      BY <1>1
    <3>2. Reading(u, m, more) /\ ph = "body" /\ ~IsSlash(u, m)
      BY <1>6, <1>13, <2>2, <3>1
    <3>3. Word(u, m, ph, more)
      BY <3>2, WordGoesOn
    <3> QED BY <3>1, <3>3
<1> QED BY <1>10, <1>11, <1>12, <1>13

\* A character after a backslash.
LEMMA EscapeWord ==
    ASSUME NEW t, NEW n, IsText(t, n), NEW c, NEW u, IsText(u, n + 1), IsLonger(u, t, n, c),
           NEW out, Reading(t, n, out), IsSlash(t, n),
           NEW ph, NEW more,
           \/ c \in DOMAIN Escape /\ ph = "body" /\ more = Append(out, Plain(Escape[c]))
           \/ c \in NumberLetter
           \/ c \notin DOMAIN Escape \cup NumberLetter /\ ph = "thrown"
    PROVE  Word(u, n + 1, ph, more)
<1>1. n \in Nat \ {0} /\ n \in 0 .. n /\ n + 1 \in 1 .. n + 1 /\ n + 1 \in Nat \ {0} /\ n > 0
  BY DEF Reading, IsText
<1>2. u[n + 1] = c
  BY DEF IsLonger
<1>3. Escapes(u)[n + 1]
  BY <1>1, EscapesGrow
<1>4. /\ NumberAt(u, n + 1) <=> c \in NumberLetter
      /\ c \notin DOMAIN Escape => MistakeAt(u, n + 1)
      /\ ~Closes(u, n + 1) /\ ~IsSlash(u, n + 1)
      /\ Meaning(u, n + 1) = <<Plain(Escape[c])>>
  BY <1>2, <1>3 DEF NumberAt, MistakeAt, Closes, IsSlash, Meaning
<1>5. CASE c \in DOMAIN Escape /\ ph = "body" /\ more = Append(out, Plain(Escape[c]))
  <2>1. c \notin NumberLetter /\ c # "\n"
    BY <1>5, CharAssumption
  <2>2. ~MistakeAt(u, n + 1)
    BY <1>2, <1>5, <2>1 DEF MistakeAt
  <2>3. more = out \o Meaning(u, n + 1)
    <3>1. Plain(Escape[c]) \in PlainPiece
      BY <1>5 DEF PlainPiece
    <3>2. out \in Seq(PlainPiece)
      BY DEF Reading
    <3>3. Append(out, Plain(Escape[c])) = out \o <<Plain(Escape[c])>>
      BY <3>1, <3>2, AppendIsConcat
    <3> QED BY <1>4, <1>5, <3>3
  <2>4. Reading(u, n + 1, more)
    BY <1>4, <2>1, <2>2, <2>3, ReadingGoesOn
  <2> QED
    <3>1. PICK m \in Nat : m = n + 1
      BY <1>1
    <3>2. Reading(u, m, more) /\ ph = "body" /\ ~IsSlash(u, m)
      BY <1>4, <1>5, <2>4, <3>1
    <3>3. Word(u, m, ph, more)
      BY <3>2, WordGoesOn
    <3> QED BY <3>1, <3>3
<1>6. CASE c \in NumberLetter
  BY <1>1, <1>4, <1>6 DEF Word, Numbered
<1>7. CASE c \notin DOMAIN Escape \cup NumberLetter /\ ph = "thrown"
  BY <1>1, <1>4, <1>7, WordIsWrong
<1> QED BY <1>5, <1>6, <1>7

-----------------------------------------------------------------------------
(* Reading a number *)

IsSeq(s) == \E T : s \in Seq(T)

LEMMA SeqGrows ==
    ASSUME NEW s, IsSeq(s), NEW x
    PROVE  /\ IsSeq(Append(s, x)) /\ Len(s) \in Nat /\ Len(Append(s, x)) = Len(s) + 1
           /\ Append(s, x)[Len(s) + 1] = x
           /\ \A i \in 1 .. Len(s) : Append(s, x)[i] = s[i]
<1>1. PICK T : s \in Seq(T)
  BY DEF IsSeq
<1>2. PICK U : U = T \cup {x}
  OBVIOUS
<1>3. s \in Seq(U) /\ x \in U
  <2>1. T \subseteq U
    BY <1>2
  <2> QED BY <1>1, <1>2, <2>1, SeqMonotonic
<1>4. /\ Append(s, x) \in Seq(U) /\ Len(s) \in Nat /\ Len(Append(s, x)) = Len(s) + 1
      /\ Append(s, x)[Len(s) + 1] = x
      /\ \A i \in 1 .. Len(s) : Append(s, x)[i] = s[i]
  BY <1>3, AppendProperties, LenProperties
<1> QED BY <1>4 DEF IsSeq

LEMMA Widths ==
    /\ Width["x"] = 2 /\ Width["u"] = 4 /\ Width["U"] = 8
    /\ MaxDigits["x"] = 2 /\ MaxDigits["u"] = 8 /\ MaxDigits["U"] = 8
BY DEF Width, MaxDigits

LEMMA WidthOf ==
    ASSUME NEW l \in NumberLetter
    PROVE  /\ Width[l] \in 2 .. 8 /\ Width[l] <= MaxDigits[l] /\ MaxDigits[l] \in Nat
           /\ l = "u" \/ Width[l] = MaxDigits[l]
BY Widths DEF NumberLetter

\* The first number of the text.
First(t, n, f) == f \in 1 .. n /\ NumberAt(t, f) /\ \A i \in 1 .. f - 1 : ~NumberAt(t, i)

\* Whether all the digits of the number are there can only be said when they have been read.
Partial(t, n, f) ==
    LET last == f + Width[t[f]]
    IN  \/ \E i \in f + 1 .. last : i <= n /\ t[i] \notin DOMAIN HexDigit
        \/ t[f] = "u" /\ last + 1 <= n /\ t[last + 1] \in DOMAIN HexDigit

\* Then it has been read as written.
Whole(t, n, f, out) ==
    LET last == f + Width[t[f]]
        b    == Cardinality(Shown(t, f - 1))
    IN  /\ last <= n /\ b < Len(out)
        /\ out[b + 1] = Number(16 * HexDigit[t[last - 1]] + HexDigit[t[last]])

\* Its digits are being read.
InDigits(t, n, f, out, l, ds) ==
    /\ l = t[f] /\ n = f + Len(ds) /\ Len(ds) <= MaxDigits[l]
    /\ \A j \in 1 .. Len(ds) : t[f + j] = ds[j]
    /\ Len(out) = Cardinality(Shown(t, f - 1))

Told(t, n, ph, out, l, ds) ==
    \A f : First(t, n, f) =>
        \/ ph = "thrown" \/ Partial(t, n, f) \/ Whole(t, n, f, out)
        \/ ph = "digits" /\ InDigits(t, n, f, out, l, ds)

LEMMA FirstIs ==
    ASSUME NEW t, NEW n, IsText(t, n), NEW f, First(t, n, f)
    PROVE  f \in 2 .. n /\ f - 1 \in Nat /\ t[f] \in NumberLetter
<1>1. n \in Nat /\ f \in 1 .. n /\ DOMAIN t = 1 .. n
  BY DEF First, IsText
<1>2. t[f] \in NumberLetter /\ Escapes(t)[f]
  BY DEF First, NumberAt
<1>3. EscapesTo(t, n, Escapes(t))
  BY <1>1, EscapesOfText
<1>4. f > 1
  BY <1>1, <1>2, <1>3, EscapesAt
<1> QED BY <1>1, <1>2, <1>4

LEMMA FirstStays ==
    ASSUME NEW t, NEW n, IsText(t, n), NEW c, NEW u, IsText(u, n + 1), IsLonger(u, t, n, c),
           NEW f, First(u, n + 1, f)
    PROVE  First(t, n, f) \/ (f = n + 1 /\ ~Numbered(t, n))
<1>1. n \in Nat /\ f \in 1 .. n + 1
  BY DEF First, IsText
<1>2. \A i \in 1 .. n : NumberAt(u, i) = NumberAt(t, i)
  BY <1>1, SameAt
<1>3. CASE f \in 1 .. n
  <2>1. \A i \in 1 .. f - 1 : i \in 1 .. n
    BY <1>1, <1>3
  <2> QED BY <1>2, <1>3, <2>1 DEF First
<1>4. CASE f \notin 1 .. n
  <2>1. f = n + 1 /\ f - 1 = n
    BY <1>1, <1>4
  <2>2. \A i \in 1 .. n : ~NumberAt(u, i)
    BY <2>1 DEF First
  <2> QED BY <1>2, <2>1, <2>2 DEF Numbered
<1> QED BY <1>3, <1>4

LEMMA PartialStays ==
    ASSUME NEW t, NEW n, IsText(t, n), NEW c, NEW u, IsText(u, n + 1), IsLonger(u, t, n, c),
           NEW f, First(t, n, f), Partial(t, n, f)
    PROVE  Partial(u, n + 1, f)
<1>1. n \in Nat /\ f \in 2 .. n /\ t[f] \in NumberLetter
  BY FirstIs DEF IsText
<1>2. u[f] = t[f] /\ \A i \in 1 .. n : u[i] = t[i]
  BY <1>1 DEF IsLonger
<1>3. PICK w \in 2 .. 8 : w = Width[t[f]]
  BY <1>1, WidthOf
<1>4. CASE \E i \in f + 1 .. f + w : i <= n /\ t[i] \notin DOMAIN HexDigit
  <2>1. PICK i \in f + 1 .. f + w : i <= n /\ t[i] \notin DOMAIN HexDigit
    BY <1>4
  <2>2. i \in 1 .. n /\ i <= n + 1
    BY <1>1, <1>3, <2>1
  <2>3. u[i] \notin DOMAIN HexDigit
    BY <1>2, <2>1, <2>2
  <2> QED BY <1>2, <1>3, <2>2, <2>3 DEF Partial
<1>5. CASE t[f] = "u" /\ f + w + 1 <= n /\ t[f + w + 1] \in DOMAIN HexDigit
  <2>1. f + w + 1 \in 1 .. n /\ f + w + 1 <= n + 1
    BY <1>1, <1>3, <1>5
  <2>2. u[f + w + 1] \in DOMAIN HexDigit
    BY <1>2, <1>5, <2>1
  <2> QED BY <1>2, <1>3, <1>5, <2>1, <2>2 DEF Partial
<1> QED BY <1>3, <1>4, <1>5 DEF Partial

LEMMA WholeStays ==
    ASSUME NEW t, NEW n, IsText(t, n), NEW c, NEW u, IsText(u, n + 1), IsLonger(u, t, n, c),
           NEW f, First(t, n, f), NEW out, IsSeq(out), Whole(t, n, f, out),
           NEW more, more = out \/ \E x : more = Append(out, x)
    PROVE  Whole(u, n + 1, f, more)
<1>1. n \in Nat /\ f \in 2 .. n /\ t[f] \in NumberLetter /\ f - 1 \in 0 .. n /\ f - 1 \in Nat
  <2>1. n \in Nat /\ f \in 2 .. n /\ t[f] \in NumberLetter
    BY FirstIs DEF IsText
  <2> QED BY <2>1
<1>2. u[f] = t[f] /\ \A i \in 1 .. n : u[i] = t[i]
  BY <1>1 DEF IsLonger
<1>3. PICK w \in 2 .. 8 : w = Width[t[f]]
  BY <1>1, WidthOf
<1>4. Shown(u, f - 1) = Shown(t, f - 1)
  BY <1>1, SameBefore
<1>5. PICK b \in Nat : b = Cardinality(Shown(t, f - 1))
  BY <1>1, ShownIs
<1>6. PICK last \in Nat : last = f + w
  <2>1. f + w \in Nat
    BY <1>1, <1>3
  <2> QED BY <2>1
<1>7. /\ last <= n /\ b < Len(out)
      /\ out[b + 1] = Number(16 * HexDigit[t[last - 1]] + HexDigit[t[last]])
  BY <1>3, <1>5, <1>6 DEF Whole
<1>8. u[last - 1] = t[last - 1] /\ u[last] = t[last] /\ last <= n + 1
  <2>1. last \in 1 .. n /\ last - 1 \in 1 .. n
    BY <1>1, <1>6, <1>7
  <2> QED BY <1>1, <1>2, <2>1
<1>9. b < Len(more) /\ more[b + 1] = out[b + 1]
  <2>1. CASE more = out
    BY <1>7, <2>1
  <2>2. CASE \E x : more = Append(out, x)
    <3>1. PICK x : more = Append(out, x)
      BY <2>2
    <3>2. Len(out) \in Nat /\ Len(more) = Len(out) + 1 /\ \A i \in 1 .. Len(out) : more[i] = out[i]
      BY <3>1, SeqGrows
    <3>3. b + 1 \in 1 .. Len(out)
      BY <1>7, <3>2
    <3> QED BY <1>7, <3>2, <3>3
  <2> QED BY <2>1, <2>2
<1>10. /\ last = f + Width[u[f]] /\ b = Cardinality(Shown(u, f - 1))
       /\ more[b + 1] = Number(16 * HexDigit[u[last - 1]] + HexDigit[u[last]])
  BY <1>2, <1>3, <1>4, <1>5, <1>6, <1>7, <1>8, <1>9
<1> QED BY <1>8, <1>9, <1>10 DEF Whole

\* A further digit.
LEMMA DigitIsNext ==
    ASSUME NEW t, NEW n, IsText(t, n), NEW c, NEW u, IsText(u, n + 1), IsLonger(u, t, n, c),
           NEW f, First(t, n, f), NEW out, NEW l, NEW ds \in Seq(DOMAIN HexDigit),
           InDigits(t, n, f, out, l, ds), c \in DOMAIN HexDigit, Len(ds) < MaxDigits[l],
           NEW more, more = Append(ds, c)
    PROVE  InDigits(u, n + 1, f, out, l, more)
<1>1. n \in Nat /\ f \in 2 .. n /\ t[f] \in NumberLetter /\ f - 1 \in 0 .. n
  <2>1. n \in Nat /\ f \in 2 .. n /\ t[f] \in NumberLetter
    BY FirstIs DEF IsText
  <2> QED BY <2>1
<1>2. u[f] = t[f] /\ u[n + 1] = c /\ \A i \in 1 .. n : u[i] = t[i]
  BY <1>1 DEF IsLonger
<1>3. Shown(u, f - 1) = Shown(t, f - 1)
  BY <1>1, SameBefore
<1>4. PICK k \in Nat : k = Len(ds)
  BY LenProperties
<1>5. /\ l = t[f] /\ n = f + k /\ k < MaxDigits[l]
      /\ \A j \in 1 .. k : t[f + j] = ds[j]
      /\ Len(out) = Cardinality(Shown(t, f - 1))
  BY <1>4 DEF InDigits
<1>6. Len(more) = k + 1 /\ more[k + 1] = c /\ \A j \in 1 .. k : more[j] = ds[j]
  BY <1>4, AppendProperties
<1>7. MaxDigits[l] \in Nat
  BY <1>1, <1>5, WidthOf
<1>8. ASSUME NEW j \in 1 .. k + 1 PROVE u[f + j] = more[j]
  <2>1. CASE j \in 1 .. k
    <3>1. f + j \in 1 .. n
      BY <1>1, <1>5, <2>1
    <3> QED BY <1>2, <1>5, <1>6, <2>1, <3>1
  <2>2. CASE j = k + 1
    <3>1. f + j = n + 1
      BY <1>1, <1>5, <2>2
    <3>2. u[f + j] = c
      BY ONLY <1>2, <3>1, Zenon
    <3>3. more[j] = c
      <4>1. more[k + 1] = c
        BY <1>6
      <4> QED BY ONLY <2>2, <4>1, Zenon
    <3> QED BY ONLY <3>2, <3>3, Zenon
  <2>3. j \in 1 .. k \/ j = k + 1
    OBVIOUS
  <2> QED BY ONLY <2>1, <2>2, <2>3, Zenon
<1>9. n + 1 = f + Len(more) /\ Len(more) <= MaxDigits[l]
  BY <1>1, <1>5, <1>6, <1>7
<1>10. l = u[f] /\ Len(out) = Cardinality(Shown(u, f - 1))
  BY <1>2, <1>3, <1>5
<1>11. \A j \in 1 .. Len(more) : u[f + j] = more[j]
  BY <1>6, <1>8
<1> QED BY <1>9, <1>10, <1>11 DEF InDigits

\* What temp holds in the end.
Stored(l, ds) == [i \in 1 .. Width[l] |-> IF i \in DOMAIN ds THEN HexDigit[ds[i]] ELSE 0]
ValueOf(l, ds) == IF Len(ds) > Width[l] THEN Undefined ELSE Number(FromHex(Stored(l, ds)))

\* The number ends, with what comes after it or for its width.
LEMMA NumberEnds ==
    ASSUME NEW t, NEW n, IsText(t, n), NEW c, NEW u, IsText(u, n + 1), IsLonger(u, t, n, c),
           NEW f, First(t, n, f), NEW out, IsSeq(out), NEW l, NEW ds \in Seq(DOMAIN HexDigit),
           InDigits(t, n, f, out, l, ds), c \notin DOMAIN HexDigit \/ ~(Len(ds) < MaxDigits[l]),
           NEW more, more = Append(out, ValueOf(l, ds))
    PROVE  Partial(u, n + 1, f) \/ Whole(u, n + 1, f, more)
<1>1. n \in Nat /\ f \in 2 .. n /\ t[f] \in NumberLetter /\ f - 1 \in 0 .. n
  <2>1. n \in Nat /\ f \in 2 .. n /\ t[f] \in NumberLetter
    BY FirstIs DEF IsText
  <2> QED BY <2>1
<1>2. u[f] = t[f] /\ u[n + 1] = c /\ \A i \in 1 .. n : u[i] = t[i]
  BY <1>1 DEF IsLonger
<1>3. Shown(u, f - 1) = Shown(t, f - 1)
  BY <1>1, SameBefore
<1>4. PICK k \in Nat : k = Len(ds)
  BY LenProperties
<1>5. /\ l = t[f] /\ n = f + k /\ k <= MaxDigits[l]
      /\ \A j \in 1 .. k : t[f + j] = ds[j]
      /\ Len(out) = Cardinality(Shown(t, f - 1))
  BY <1>4 DEF InDigits
<1>6. l \in NumberLetter
  BY <1>1, <1>5
<1>7. PICK w \in 2 .. 8 : w = Width[l]
  BY <1>6, WidthOf
<1>8. PICK max \in Nat : max = MaxDigits[l]
  BY <1>6, WidthOf
<1>9. w <= max /\ (l = "u" \/ w = max) /\ k <= max
  BY <1>5, <1>6, <1>7, <1>8, WidthOf
<1>10. \A j \in 1 .. k : ds[j] \in DOMAIN HexDigit /\ u[f + j] = ds[j]
  <2>1. ASSUME NEW j \in 1 .. k PROVE ds[j] \in DOMAIN HexDigit /\ u[f + j] = ds[j]
    <3>1. f + j \in 1 .. n
      BY <1>1, <1>5
    <3>2. ds[j] \in DOMAIN HexDigit
      BY <1>4, LenProperties
    <3> QED BY <1>2, <1>5, <3>1, <3>2
  <2> QED BY <2>1
<1>11. CASE k < w
  <2>1. c \notin DOMAIN HexDigit
    BY <1>4, <1>8, <1>9, <1>11
  <2>2. n + 1 \in f + 1 .. f + w /\ n + 1 <= n + 1
    BY <1>1, <1>5, <1>11
  <2> QED BY <1>2, <1>5, <1>7, <2>1, <2>2 DEF Partial
<1>12. CASE k > w
  <2>1. l = "u"
    BY <1>9, <1>12
  <2>2. w + 1 \in 1 .. k /\ f + w + 1 <= n + 1 /\ f + (w + 1) = f + w + 1
    BY <1>1, <1>5, <1>12
  <2>3. u[f + w + 1] \in DOMAIN HexDigit
    BY <1>10, <2>2
  <2> QED BY <1>2, <1>5, <1>7, <2>1, <2>2, <2>3 DEF Partial
<1>13. CASE k = w
  <2>1. PICK v : v = Stored(l, ds)
    OBVIOUS
  <2>2. DOMAIN ds = 1 .. w
    BY <1>4, <1>13, LenProperties
  <2>3. v = [i \in 1 .. w |-> HexDigit[ds[i]]]
    BY <1>7, <2>1, <2>2 DEF Stored
  <2>4. \A i \in 1 .. w : HexDigit[ds[i]] \in 0 .. 15
    BY <1>10, <1>13, CharAssumption
  <2>5. v \in [1 .. w -> 0 .. 15]
    BY <2>3, <2>4
  <2>6. FromHex(v) = 16 * v[w - 1] + v[w]
    BY <2>5, FromHexIs
  <2>7. w \in 1 .. w /\ w - 1 \in 1 .. w
    OBVIOUS
  <2>8. v[w - 1] = HexDigit[ds[w - 1]] /\ v[w] = HexDigit[ds[w]]
    BY <2>3, <2>7
  <2>9. PICK last \in Nat : last = f + w
    <3>1. f + w \in Nat
      BY <1>1
    <3> QED BY <3>1
  <2>10. u[last - 1] = ds[w - 1] /\ u[last] = ds[w]
    <3>1. last - 1 = f + (w - 1)
      BY <1>1, <2>9
    <3> QED BY <1>10, <1>13, <2>7, <2>9, <3>1
  <2>11. ValueOf(l, ds) = Number(16 * HexDigit[u[last - 1]] + HexDigit[u[last]])
    <3>1. ~(Len(ds) > Width[l])
      BY <1>4, <1>7, <1>13
    <3> QED BY <2>1, <2>6, <2>8, <2>10, <3>1 DEF ValueOf
  <2>12. PICK b : b = Cardinality(Shown(u, f - 1))
    OBVIOUS
  <2>13. Len(out) = b
    BY <1>3, <1>5, <2>12
  <2>14. b \in Nat /\ Len(more) = b + 1 /\ more[b + 1] = ValueOf(l, ds)
    BY <2>13, SeqGrows
  <2>15. last <= n + 1 /\ b < Len(more)
    BY <1>1, <1>5, <1>13, <2>9, <2>14
  <2>16. last = f + Width[u[f]]
    BY <1>2, <1>5, <1>7, <2>9
  <2> QED BY <2>11, <2>12, <2>14, <2>15, <2>16 DEF Whole
<1> QED BY <1>4, <1>7, <1>11, <1>12, <1>13

\* What has been told of numbers stays so, if what is read now is told as well.
LEMMA ToldGoesOn ==
    ASSUME NEW t, NEW n, IsText(t, n), NEW c, NEW u, IsText(u, n + 1), IsLonger(u, t, n, c),
           NEW ph, NEW out, IsSeq(out), NEW l, NEW ds, Told(t, n, ph, out, l, ds), ph # "thrown",
           NEW ph2, NEW more, more = out \/ \E x : more = Append(out, x), NEW l2, NEW ds2,
           \A f : First(t, n, f) /\ ph = "digits" /\ InDigits(t, n, f, out, l, ds) =>
                     \/ ph2 = "thrown" \/ Partial(u, n + 1, f) \/ Whole(u, n + 1, f, more)
                     \/ ph2 = "digits" /\ InDigits(u, n + 1, f, more, l2, ds2),
           ~Numbered(t, n) /\ NumberAt(u, n + 1) =>
              ph2 = "digits" /\ InDigits(u, n + 1, n + 1, more, l2, ds2)
    PROVE  Told(u, n + 1, ph2, more, l2, ds2)
<1>1. SUFFICES ASSUME NEW f, First(u, n + 1, f)
               PROVE  \/ ph2 = "thrown" \/ Partial(u, n + 1, f) \/ Whole(u, n + 1, f, more)
                      \/ ph2 = "digits" /\ InDigits(u, n + 1, f, more, l2, ds2)
  BY DEF Told
<1>2. CASE First(t, n, f)
  <2>1. CASE Partial(t, n, f)
    BY <1>2, <2>1, PartialStays
  <2>2. CASE Whole(t, n, f, out)
    BY <1>2, <2>2, WholeStays
  <2>3. CASE ph = "digits" /\ InDigits(t, n, f, out, l, ds)
    BY <1>2, <2>3
  <2> QED BY <1>2, <2>1, <2>2, <2>3 DEF Told
<1>3. CASE f = n + 1 /\ ~Numbered(t, n)
  BY <1>1, <1>3 DEF First
<1> QED BY <1>1, <1>2, <1>3, FirstStays

-----------------------------------------------------------------------------
(* The invariant *)

TypeInv ==
    /\ text \in Seq(Letters) /\ IsSeq(output)
    /\ phase \in {"idle", "body", "escape", "digits", "returned", "thrown"}
    /\ digits \in Seq(DOMAIN HexDigit)
    /\ IF phase = "idle" THEN text = <<>> /\ output = <<>> ELSE Len(text) > 0 /\ text[1] \in Quote

StringInv ==
    /\ TypeInv
    /\ Word(text, Len(text), phase, output)
    /\ Told(text, Len(text), phase, output, letter, digits)

LEMMA NothingSaid ==
    ASSUME NEW ph, ph \notin {"body", "escape", "digits", "returned", "thrown"}, NEW out, NEW l, NEW ds
    PROVE  Word(<<>>, Len(<<>>), ph, out) /\ Told(<<>>, Len(<<>>), ph, out, l, ds)
<1>1. Len(<<>>) = 0 /\ \A i : i \notin 1 .. 0
  BY EmptySeq
<1> QED BY <1>1 DEF Word, Told, First

LEMMA StringBegins == Init => StringInv
<1> SUFFICES ASSUME Init PROVE StringInv
  OBVIOUS
<1>1. text = <<>> /\ phase = "idle" /\ output = <<>> /\ digits = <<>>
  BY DEF Init
<1>2. <<>> \in Seq(Letters) /\ <<>> \in Seq(DOMAIN HexDigit) /\ <<>> \in Seq({})
  BY EmptySeq
<1>3. TypeInv
  BY <1>1, <1>2 DEF TypeInv, IsSeq
<1> QED BY <1>1, <1>3, NothingSaid DEF StringInv

LEMMA ReturnKeeps ==
    ASSUME StringInv, Return
    PROVE  StringInv'
<1>1. text' = <<>> /\ phase' = "idle" /\ output' = <<>> /\ digits' = <<>>
  BY DEF Return
<1>2. <<>> \in Seq(Letters) /\ <<>> \in Seq(DOMAIN HexDigit) /\ <<>> \in Seq({})
  BY EmptySeq
<1>3. TypeInv'
  BY <1>1, <1>2 DEF TypeInv, IsSeq
<1> QED BY <1>1, <1>3, NothingSaid DEF StringInv

\* Only the opening quote has been read.
LEMMA OpenReads ==
    ASSUME NEW quote \in Quote \cap Char, NEW t, t = <<quote>>, NEW l, NEW ds
    PROVE  /\ IsText(t, 1) /\ Reading(t, 1, <<>>) /\ ~IsSlash(t, 1)
           /\ Told(t, 1, "body", <<>>, l, ds)
<1>1. IsText(t, 1) /\ t[1] = quote
  <2>1. quote \in Letters
    BY DEF Letters
  <2>2. <<quote>> \in Seq(Letters) /\ Len(<<quote>>) = 1 /\ <<quote>>[1] = quote
    BY <2>1
  <2>3. DOMAIN <<quote>> = 1 .. 1
    BY <2>2, LenProperties
  <2> QED BY <2>2, <2>3 DEF IsText
<1>2. quote \in Quote /\ quote # "\\" /\ quote # "\n"
  BY DEF Quote
<1>3. ~Escapes(t)[1]
  <2>1. EscapesTo(t, 1, Escapes(t))
    BY <1>1, EscapesOfText DEF IsText
  <2>2. 1 \in Nat /\ 1 \in 1 .. 1 /\ ~(1 > 1)
    OBVIOUS
  <2> QED BY <2>1, <2>2, EscapesAt
<1>4. \A i \in 1 .. 1 : ~NumberAt(t, i) /\ ~MistakeAt(t, i)
  <2>1. \A i \in 1 .. 1 : i = 1
    OBVIOUS
  <2>2. ~NumberAt(t, 1) /\ ~MistakeAt(t, 1)
    BY <1>1, <1>2, <1>3 DEF NumberAt, MistakeAt
  <2> QED BY <2>1, <2>2
<1>5. ~IsSlash(t, 1)
  BY <1>1, <1>2 DEF IsSlash
<1>6. Said(t, 1) = <<>>
  <2>1. PICK s : s = [i \in 1 .. 1 - 1 |-> Meaning(t, i + 1)]
    OBVIOUS
  <2>2. \A i : i \notin 1 .. 1 - 1
    OBVIOUS
  <2>3. s \in Seq({}) /\ DOMAIN s = 1 .. 0
    <3>1. s \in [1 .. 0 -> {}]
      BY <2>1, <2>2
    <3> QED BY <3>1, SeqDef
  <2>4. Len(s) = 0
    BY <2>3, LenProperties
  <2>5. s = <<>>
    BY <2>3, <2>4, EmptySeq
  <2> QED BY <2>1, <2>5, FlattenNone DEF Said
<1>7. Cardinality(Shown(t, 1)) = 0
  <2>1. Shown(t, 1) = {}
    BY DEF Shown
  <2> QED BY <2>1, FS_EmptySet
<1>8. <<>> \in Seq(PlainPiece) /\ Len(<<>>) = 0
  BY EmptySeq
<1>9. \A i : i \notin 2 .. 1
  OBVIOUS
<1>10. Reading(t, 1, <<>>)
  BY <1>1, <1>2, <1>4, <1>6, <1>7, <1>8, <1>9 DEF Reading
<1>11. Told(t, 1, "body", <<>>, l, ds)
  BY <1>1, <1>9, FirstIs DEF Told
<1> QED BY <1>1, <1>5, <1>10, <1>11

LEMMA OpenKeeps ==
    ASSUME StringInv, NEW quote \in Quote \cap Char, Open(quote)
    PROVE  StringInv'
<1>1. /\ text = <<>> /\ output = <<>> /\ text' = <<quote>> /\ phase' = "body"
      /\ output' = <<>> /\ digits' = digits /\ letter' = letter
  BY DEF Open, StringInv, TypeInv
<1>2. PICK t : t = <<quote>>
  OBVIOUS
<1>3. PICK l, ds : l = letter' /\ ds = digits'
  OBVIOUS
<1>4. /\ IsText(t, 1) /\ Reading(t, 1, <<>>) /\ ~IsSlash(t, 1)
      /\ Told(t, 1, "body", <<>>, l, ds)
  BY <1>2, OpenReads
<1>5. Len(t) = 1 /\ t \in Seq(Letters) /\ t[1] \in Quote
  BY <1>4 DEF IsText, Reading
<1>6. TypeInv'
  BY <1>1, <1>2, <1>5 DEF StringInv, TypeInv
<1>7. Word(t, 1, "body", <<>>)
  BY <1>4, WordGoesOn
<1> QED BY <1>1, <1>2, <1>3, <1>4, <1>5, <1>6, <1>7 DEF StringInv

LEMMA StaysASeq ==
    ASSUME NEW out, IsSeq(out), NEW more, more = out \/ \E x : more = Append(out, x)
    PROVE  IsSeq(more)
<1>1. CASE more = out
  BY <1>1
<1>2. CASE \E x : more = Append(out, x)
  <2>1. PICK x : more = Append(out, x)
    BY <1>2
  <2> QED BY <2>1, SeqGrows
<1> QED BY <1>1, <1>2

\* What a step that reads the character c is about.
Reads(t, n, u, c) == IsText(t, n) /\ IsText(u, n + 1) /\ IsLonger(u, t, n, c)

LEMMA ReadIs ==
    ASSUME StringInv, NEW c \in Letters, text' = Append(text, c), phase \in {"body", "escape", "digits"}
    PROVE  /\ Len(text) \in Nat \ {0} /\ text[1] \in Quote
           /\ Reads(text, Len(text), text', c)
           /\ text' \in Seq(Letters) /\ Len(text') = Len(text) + 1 /\ text'[1] = text[1]
<1>1. text \in Seq(Letters) /\ Len(text) > 0 /\ text[1] \in Quote
  BY DEF StringInv, TypeInv
<1>2. PICK t, n, u : t = text /\ n = Len(text) /\ u = text'
  OBVIOUS
<1>3. IsText(t, n)
  BY <1>1, <1>2, TextIs
<1>4. IsText(u, n + 1) /\ IsLonger(u, t, n, c)
  BY <1>2, <1>3, OneMore
<1>5. n \in Nat \ {0}
  BY <1>1, <1>2, <1>3 DEF IsText
<1>6. u[1] = t[1] /\ Len(u) = n + 1 /\ u \in Seq(Letters)
  BY <1>4, <1>5 DEF IsText, IsLonger
<1> QED BY <1>1, <1>2, <1>3, <1>4, <1>5, <1>6 DEF Reads

LEMMA BodyKeeps ==
    ASSUME StringInv, NEW c \in Letters, text' = Append(text, c), phase = "body", Body(c)
    PROVE  StringInv'
<1>1. PICK t, n, u : t = text /\ n = Len(text) /\ u = text'
  OBVIOUS
<1>2. /\ n \in Nat \ {0} /\ t[1] \in Quote
      /\ IsText(t, n) /\ IsText(u, n + 1) /\ IsLonger(u, t, n, c)
      /\ u \in Seq(Letters) /\ Len(u) = n + 1 /\ u[1] = t[1]
  BY <1>1, ReadIs DEF Reads
<1>3. PICK ph, more, l, ds : ph = phase' /\ more = output' /\ l = letter' /\ ds = digits'
  OBVIOUS
<1>4. PICK out : out = output
  OBVIOUS
<1>5. /\ \/ c = "\\" /\ ph = "escape" /\ more = out
         \/ c \in {t[1], "end"} /\ ph = "returned" /\ more = out
         \/ c = "\n" /\ ph = "thrown" /\ more = out
         \/ c \notin {"\\", t[1], "end", "\n"} /\ ph = "body" /\ more = Append(out, Plain(c))
      /\ digits' = digits
  <2>1. t[1] \notin {"\\", "end", "\n"}
    BY <1>2 DEF Quote
  <2>2. CASE c = "\\"
    BY <1>1, <1>3, <1>4, <2>1, <2>2 DEF Body, Enclosing, Throw
  <2>3. CASE c \in {t[1], "end"}
    BY <1>1, <1>3, <1>4, <2>1, <2>3 DEF Body, Enclosing, Throw
  <2>4. CASE c = "\n"
    BY <1>1, <1>3, <1>4, <2>1, <2>4 DEF Body, Enclosing, Throw
  <2>5. CASE c \notin {"\\", t[1], "end", "\n"}
    BY <1>1, <1>3, <1>4, <2>1, <2>5 DEF Body, Enclosing, Throw
  <2> QED BY <2>2, <2>3, <2>4, <2>5
<1>6. more = out \/ \E x : more = Append(out, x)
  BY <1>5
<1>7. IsSeq(out) /\ IsSeq(more) /\ ph \in {"body", "escape", "returned", "thrown"}
  <2>1. IsSeq(out)
    BY <1>4 DEF StringInv, TypeInv
  <2>2. ph \in {"body", "escape", "returned", "thrown"}
    BY <1>5
  <2> QED BY <1>6, <2>1, <2>2, StaysASeq
<1>8. TypeInv'
  BY <1>1, <1>2, <1>3, <1>5, <1>7 DEF StringInv, TypeInv
<1>9. Word(t, n, "body", out) /\ Told(t, n, "body", out, letter, digits)
  BY <1>1, <1>4 DEF StringInv
<1>10. ~Numbered(t, n) => Reading(t, n, out) /\ ~IsSlash(t, n)
  BY <1>9 DEF Word
<1>11. Word(u, n + 1, ph, more)
  <2>1. CASE Numbered(u, n + 1)
    BY <2>1 DEF Word
  <2>2. CASE ~Numbered(u, n + 1)
    <3>1. ~Numbered(t, n)
      BY <1>2, <2>2, NotNumbered
    <3> QED BY <1>2, <1>5, <1>10, <3>1, BodyWord
  <2> QED BY <2>1, <2>2
<1>12. ~(~Numbered(t, n) /\ NumberAt(u, n + 1))
  BY <1>2, <1>10, EscapesGrow DEF NumberAt
<1>13. Told(u, n + 1, ph, more, l, ds)
  BY <1>2, <1>6, <1>7, <1>9, <1>12, ToldGoesOn
<1> QED BY <1>1, <1>2, <1>3, <1>8, <1>11, <1>13 DEF StringInv

LEMMA EscapeKeeps ==
    ASSUME StringInv, NEW c \in Letters, text' = Append(text, c), phase = "escape", AfterBackslash(c)
    PROVE  StringInv'
<1>1. PICK t, n, u : t = text /\ n = Len(text) /\ u = text'
  OBVIOUS
<1>2. /\ n \in Nat \ {0} /\ t[1] \in Quote
      /\ IsText(t, n) /\ IsText(u, n + 1) /\ IsLonger(u, t, n, c)
      /\ u \in Seq(Letters) /\ Len(u) = n + 1 /\ u[1] = t[1]
  BY <1>1, ReadIs DEF Reads
<1>3. PICK ph, more, l, ds : ph = phase' /\ more = output' /\ l = letter' /\ ds = digits'
  OBVIOUS
<1>4. PICK out : out = output
  OBVIOUS
<1>5. \/ c \in DOMAIN Escape /\ ph = "body" /\ more = Append(out, Plain(Escape[c])) /\ ds = digits
      \/ c \in NumberLetter /\ ph = "digits" /\ l = c /\ ds = <<>> /\ more = out
      \/ c \notin DOMAIN Escape \cup NumberLetter /\ ph = "thrown" /\ more = out /\ ds = digits
  <2>1. CASE c \in DOMAIN Escape
    <3>1. c \notin NumberLetter
      BY <2>1, CharAssumption
    <3> QED BY <1>3, <1>4, <2>1, <3>1 DEF AfterBackslash
  <2>2. CASE c \in NumberLetter
    <3>1. c \notin DOMAIN Escape
      BY <2>2, CharAssumption
    <3> QED BY <1>3, <1>4, <2>2, <3>1 DEF AfterBackslash
  <2>3. CASE c \notin DOMAIN Escape \cup NumberLetter
    BY <1>3, <1>4, <2>3 DEF AfterBackslash, Throw
  <2> QED BY <2>1, <2>2, <2>3
<1>6. more = out \/ \E x : more = Append(out, x)
  BY <1>5
<1>7. IsSeq(out) /\ IsSeq(more) /\ ph \in {"body", "digits", "thrown"}
  <2>1. IsSeq(out)
    BY <1>4 DEF StringInv, TypeInv
  <2>2. ph \in {"body", "digits", "thrown"}
    BY <1>5
  <2> QED BY <1>6, <2>1, <2>2, StaysASeq
<1>8. digits' \in Seq(DOMAIN HexDigit)
  BY <1>3, <1>5, EmptySeq DEF StringInv, TypeInv
<1>9. TypeInv'
  BY <1>1, <1>2, <1>3, <1>7, <1>8 DEF StringInv, TypeInv
<1>10. Word(t, n, "escape", out) /\ Told(t, n, "escape", out, letter, digits)
  BY <1>1, <1>4 DEF StringInv
<1>11. ~Numbered(t, n) => Reading(t, n, out) /\ IsSlash(t, n)
  BY <1>10 DEF Word
<1>12. Word(u, n + 1, ph, more)
  <2>1. CASE Numbered(u, n + 1)
    BY <2>1 DEF Word
  <2>2. CASE ~Numbered(u, n + 1)
    <3>1. ~Numbered(t, n)
      BY <1>2, <2>2, NotNumbered
    <3>2. Reading(t, n, out) /\ IsSlash(t, n)
      BY <1>11, <3>1
    <3>3. \/ c \in DOMAIN Escape /\ ph = "body" /\ more = Append(out, Plain(Escape[c]))
          \/ c \in NumberLetter
          \/ c \notin DOMAIN Escape \cup NumberLetter /\ ph = "thrown"
      BY <1>5
    <3> QED BY <1>2, <3>2, <3>3, EscapeWord
  <2> QED BY <2>1, <2>2
<1>13. ASSUME ~Numbered(t, n), NumberAt(u, n + 1)
       PROVE  ph = "digits" /\ InDigits(u, n + 1, n + 1, more, l, ds)
  <2>1. u[n + 1] = c /\ c \in NumberLetter
    BY <1>2, <1>13 DEF NumberAt, IsLonger
  <2>2. ph = "digits" /\ l = c /\ ds = <<>> /\ more = out
    BY <1>5, <2>1, CharAssumption
  <2>3. Len(out) = Cardinality(Shown(t, n)) /\ Shown(u, n) = Shown(t, n)
    <3>1. n \in Nat /\ n \in 0 .. n
      BY <1>2
    <3> QED BY <1>2, <1>11, <1>13, <3>1, SameBefore DEF Reading
  <2>4. n + 1 - 1 = n /\ Len(<<>>) = 0 /\ n + 1 = n + 1 + 0 /\ \A j : j \notin 1 .. 0
    BY <1>2, EmptySeq
  <2>5. 0 <= MaxDigits[c]
    BY <2>1, WidthOf
  <2>6. PICK f : f = n + 1
    OBVIOUS
  <2>7. /\ l = u[f] /\ f = f + Len(ds) /\ Len(ds) <= MaxDigits[l]
        /\ \A j \in 1 .. Len(ds) : u[f + j] = ds[j]
    BY <2>1, <2>2, <2>4, <2>5, <2>6
  <2>8. f - 1 = n
    BY <1>2, <2>6
  <2>9. Len(more) = Cardinality(Shown(u, f - 1))
    BY <2>2, <2>3, <2>8
  <2>10. InDigits(u, f, f, more, l, ds)
    BY ONLY <2>7, <2>9 DEF InDigits
  <2> QED BY <2>2, <2>6, <2>10
<1>14. Told(u, n + 1, ph, more, l, ds)
  BY <1>2, <1>6, <1>7, <1>10, <1>13, ToldGoesOn
<1> QED BY <1>1, <1>2, <1>3, <1>9, <1>12, <1>14 DEF StringInv

LEMMA DigitsKeep ==
    ASSUME StringInv, NEW c \in Letters, text' = Append(text, c), phase = "digits", ReadDigit(c)
    PROVE  StringInv'
<1>1. PICK t, n, u : t = text /\ n = Len(text) /\ u = text'
  OBVIOUS
<1>2. /\ n \in Nat \ {0} /\ t[1] \in Quote
      /\ IsText(t, n) /\ IsText(u, n + 1) /\ IsLonger(u, t, n, c)
      /\ u \in Seq(Letters) /\ Len(u) = n + 1 /\ u[1] = t[1]
  BY <1>1, ReadIs DEF Reads
<1>3. PICK ph, more, l, ds : ph = phase' /\ more = output' /\ l = letter' /\ ds = digits'
  OBVIOUS
<1>4. PICK out, l0, d0 : out = output /\ l0 = letter /\ d0 = digits
  OBVIOUS
<1>5. \/ ph = "thrown" /\ more = out /\ l = l0 /\ ds = d0
      \/ /\ c \in DOMAIN HexDigit /\ Len(d0) < MaxDigits[l0]
         /\ ph = "digits" /\ more = out /\ l = l0 /\ ds = Append(d0, c)
      \/ /\ c \notin DOMAIN HexDigit \/ ~(Len(d0) < MaxDigits[l0])
         /\ ph = "body" /\ more = Append(out, ValueOf(l0, d0)) /\ l = l0 /\ ds = d0
  <2>1. CASE c = "end" \/ (digits = <<>> /\ c \notin DOMAIN HexDigit)
    <3>1. ~IsNextDigit(c)
      BY <2>1, CharAssumption DEF IsNextDigit
    <3> QED BY <1>3, <1>4, <2>1, <3>1 DEF ReadDigit, Throw
  <2>2. CASE IsNextDigit(c)
    <3>1. ~(c = "end" \/ (digits = <<>> /\ c \notin DOMAIN HexDigit))
      BY <2>2, CharAssumption DEF IsNextDigit
    <3>2. digits' = Append(digits, c) /\ phase' = phase /\ output' = output /\ letter' = letter
      BY <2>2, <3>1 DEF ReadDigit
    <3> QED BY <1>3, <1>4, <2>2, <3>2 DEF IsNextDigit
  <2>3. CASE ~(c = "end" \/ (digits = <<>> /\ c \notin DOMAIN HexDigit)) /\ ~IsNextDigit(c)
    <3>1. output' = Append(output, NumberRead) /\ phase' = "body" /\ letter' = letter /\ digits' = digits
      BY <2>3 DEF ReadDigit
    <3>2. NumberRead = ValueOf(letter, digits)
      BY DEF NumberRead, ValueOf, Stored
    <3> QED BY <1>3, <1>4, <2>3, <3>1, <3>2 DEF IsNextDigit
  <2> QED BY <2>1, <2>2, <2>3
<1>6. more = out \/ \E x : more = Append(out, x)
  BY <1>5
<1>7. IsSeq(out) /\ IsSeq(more) /\ ph \in {"body", "digits", "thrown"}
  <2>1. IsSeq(out)
    BY <1>4 DEF StringInv, TypeInv
  <2>2. ph \in {"body", "digits", "thrown"}
    BY <1>5
  <2> QED BY <1>6, <2>1, <2>2, StaysASeq
<1>8. d0 \in Seq(DOMAIN HexDigit) /\ ds \in Seq(DOMAIN HexDigit)
  <2>1. d0 \in Seq(DOMAIN HexDigit)
    BY <1>4 DEF StringInv, TypeInv
  <2>2. c \in DOMAIN HexDigit => Append(d0, c) \in Seq(DOMAIN HexDigit)
    BY <2>1, AppendProperties
  <2> QED BY <1>5, <2>1, <2>2
<1>9. TypeInv'
  BY <1>1, <1>2, <1>3, <1>7, <1>8 DEF StringInv, TypeInv
<1>10. Word(t, n, "digits", out) /\ Told(t, n, "digits", out, l0, d0)
  BY <1>1, <1>4 DEF StringInv
<1>11. Numbered(t, n)
  BY <1>10 DEF Word
<1>12. Word(u, n + 1, ph, more)
  <2>1. Numbered(u, n + 1)
    BY <1>2, <1>11, NotNumbered
  <2> QED BY <2>1 DEF Word
<1>13. ASSUME NEW f, First(t, n, f), InDigits(t, n, f, out, l0, d0)
       PROVE  \/ ph = "thrown" \/ Partial(u, n + 1, f) \/ Whole(u, n + 1, f, more)
              \/ ph = "digits" /\ InDigits(u, n + 1, f, more, l, ds)
  <2>1. CASE /\ c \in DOMAIN HexDigit /\ Len(d0) < MaxDigits[l0]
             /\ ph = "digits" /\ more = out /\ l = l0 /\ ds = Append(d0, c)
    BY <1>2, <1>8, <1>13, <2>1, DigitIsNext
  <2>2. CASE /\ c \notin DOMAIN HexDigit \/ ~(Len(d0) < MaxDigits[l0])
             /\ ph = "body" /\ more = Append(out, ValueOf(l0, d0)) /\ l = l0 /\ ds = d0
    BY <1>2, <1>7, <1>8, <1>13, <2>2, NumberEnds
  <2> QED BY <1>5, <2>1, <2>2
<1>14. Told(u, n + 1, ph, more, l, ds)
  BY <1>2, <1>6, <1>7, <1>10, <1>11, <1>13, ToldGoesOn
<1> QED BY <1>1, <1>2, <1>3, <1>9, <1>12, <1>14 DEF StringInv

LEMMA ReadStringKeeps ==
    ASSUME StringInv, NEW c \in Char \cup {"end"}, ReadString(c)
    PROVE  StringInv'
<1>1. c \in Letters
  BY DEF Letters
<1>2. /\ text' = Append(text, c) /\ phase \in {"body", "escape", "digits"}
      /\ phase = "body" => Body(c)
      /\ phase = "escape" => AfterBackslash(c)
      /\ phase = "digits" => ReadDigit(c)
  <2>1. text' = Append(text, c) /\ phase \in {"body", "escape", "digits"}
    BY DEF ReadString
  <2>2. phase = "body" => Body(c)
    BY DEF ReadString
  <2>3. phase = "escape" => AfterBackslash(c)
    BY DEF ReadString
  <2>4. phase = "digits" => ReadDigit(c)
    BY DEF ReadString
  <2> QED BY <2>1, <2>2, <2>3, <2>4
<1>3. CASE phase = "body"
  BY <1>1, <1>2, <1>3, BodyKeeps
<1>4. CASE phase = "escape"
  BY <1>1, <1>2, <1>4, EscapeKeeps
<1>5. CASE phase = "digits"
  BY <1>1, <1>2, <1>5, DigitsKeep
<1> QED BY <1>2, <1>3, <1>4, <1>5

\* After every step of ReadString, what has been read is as Word and Told say.
THEOREM StringInvHolds == Spec => []StringInv
<1>1. Init => StringInv
  BY StringBegins
<1>2. StringInv /\ [Next]_vars => StringInv'
  <2> SUFFICES ASSUME StringInv, [Next]_vars PROVE StringInv'
    OBVIOUS
  <2>1. ASSUME NEW quote \in Quote \cap Char, Open(quote) PROVE StringInv'
    BY <2>1, OpenKeeps
  <2>2. ASSUME NEW c \in Char \cup {"end"}, ReadString(c) PROVE StringInv'
    BY <2>2, ReadStringKeeps
  <2>3. CASE Return
    BY <2>3, ReturnKeeps
  <2>4. CASE UNCHANGED vars
    BY <2>4 DEF vars, StringInv, TypeInv
  <2> QED BY <2>1, <2>2, <2>3, <2>4 DEF Next
<1> QED BY <1>1, <1>2, PTL DEF Spec

-----------------------------------------------------------------------------
(* What the properties say of the text *)

LEMMA SameEscapes == Escaped = Escapes(text)
BY DEF Escaped, Escapes

LEMMA TextSays ==
    ASSUME StringInv
    PROVE  /\ Len(text) \in Nat /\ DOMAIN text = 1 .. Len(text)
           /\ HasNumber <=> Numbered(text, Len(text))
           /\ \A i \in DOMAIN text : IsMistake(i) <=> MistakeAt(text, i)
           /\ Closing = {i \in 2 .. Len(text) : Closes(text, i)}
           /\ Denoted = Said(text, Len(text) - 1)
           /\ \A i : IsBackslash(i) <=> IsSlash(text, i)
<1>1. Len(text) \in Nat /\ DOMAIN text = 1 .. Len(text)
  BY LenProperties DEF StringInv, TypeInv
<1>2. HasNumber <=> Numbered(text, Len(text))
  BY <1>1, SameEscapes DEF HasNumber, Numbered, NumberAt
<1>3. \A i \in DOMAIN text : IsMistake(i) <=> MistakeAt(text, i)
  BY SameEscapes DEF IsMistake, MistakeAt
<1>4. Closing = {i \in 2 .. Len(text) : Closes(text, i)}
  BY SameEscapes DEF Closing, Closes
<1>5. \A i : IsBackslash(i) <=> IsSlash(text, i)
  BY SameEscapes DEF IsBackslash, IsSlash
<1>6. Denoted = Said(text, Len(text) - 1)
  <2>1. Len(text) - 1 - 1 = Len(text) - 2
    BY <1>1
  <2>2. \A i \in 1 .. Len(text) - 2 :
           Meaning(text, i + 1) = IF IsBackslash(i + 1) THEN <<>>
                                  ELSE IF Escaped[i + 1] THEN <<Plain(Escape[text[i + 1]])>>
                                       ELSE <<Plain(text[i + 1])>>
    BY <1>5, SameEscapes DEF Meaning
  <2>3. [i \in 1 .. Len(text) - 2 |-> Meaning(text, i + 1)] =
           [i \in 1 .. Len(text) - 2 |->
               IF IsBackslash(i + 1) THEN <<>>
               ELSE IF Escaped[i + 1] THEN <<Plain(Escape[text[i + 1]])>>
                    ELSE <<Plain(text[i + 1])>>]
    BY <2>2
  <2>4. Denoted = FlattenSeq([i \in 1 .. Len(text) - 2 |-> Meaning(text, i + 1)])
    BY <2>3 DEF Denoted
  <2> QED BY <2>1, <2>4 DEF Said
<1> QED BY <1>1, <1>2, <1>3, <1>4, <1>5, <1>6

-----------------------------------------------------------------------------
(* The theorems *)

\* ReadString reads a text without numbers up to the first quote that closes it, or to its end, and
\* gives what the characters in between denote.
THEOREM TextsAreReadAsQuoted == Spec => []ReadsWhatIsQuoted
<1>1. StringInv => ReadsWhatIsQuoted
  <2> SUFFICES ASSUME StringInv, phase = "returned", ~HasNumber
               PROVE  /\ output = Denoted
                      /\ IF Last(text) = "end" THEN Closing = {} ELSE Closing = {Len(text)}
    BY DEF ReadsWhatIsQuoted
  <2>1. PICK n : n = Len(text)
    OBVIOUS
  <2>2. n \in Nat /\ ~Numbered(text, n) /\ Denoted = Said(text, n - 1)
    BY <2>1, TextSays
  <2>3. Closing = {i \in 2 .. n : Closes(text, i)}
    BY <2>1, TextSays
  <2>4. Word(text, n, phase, output)
    BY <2>1 DEF StringInv
  <2>5. Quoted(text, n, output)
    BY <2>2, <2>4 DEF Word
  <2>6. /\ n > 1 /\ output = Denoted
        /\ \A i \in 2 .. n - 1 : ~Closes(text, i)
        /\ Closes(text, n) <=> text[n] # "end"
    BY <2>2, <2>5 DEF Quoted
  <2>7. \A i : i \in 2 .. n <=> i \in 2 .. n - 1 \/ i = n
    BY <2>2, <2>6
  <2>8. Last(text) = text[n]
    BY <2>1 DEF Last
  <2>9. CASE text[n] = "end"
    BY <2>3, <2>6, <2>7, <2>8, <2>9
  <2>10. CASE text[n] # "end"
    <3>1. Closing = {n}
      BY <2>3, <2>6, <2>7, <2>10
    <3> QED BY <2>1, <2>6, <2>8, <2>10, <3>1
  <2> QED BY <2>9, <2>10
<1> QED BY <1>1, StringInvHolds, PTL

\* ReadString rejects a text without numbers if and only if there is a mistake in it.
THEOREM MistakesAreThrown == Spec => []ThrowsAtMistakes
<1>1. StringInv => ThrowsAtMistakes
  <2> SUFFICES ASSUME StringInv, ~HasNumber
               PROVE  phase = "thrown" <=> \E i \in DOMAIN text : IsMistake(i)
    BY DEF ThrowsAtMistakes
  <2>1. Word(text, Len(text), phase, output)
    BY DEF StringInv
  <2>2. ~Numbered(text, Len(text)) /\ DOMAIN text = 1 .. Len(text)
    BY TextSays
  <2>3. phase = "thrown" <=> \E i \in 1 .. Len(text) : MistakeAt(text, i)
    BY <2>1, <2>2 DEF Word
  <2>4. \A i \in DOMAIN text : IsMistake(i) <=> MistakeAt(text, i)
    BY TextSays
  <2> QED BY <2>2, <2>3, <2>4
<1> QED BY <1>1, StringInvHolds, PTL

\* The first number of the text is what the property takes for it.
LEMMA FirstNumberIs ==
    ASSUME StringInv, HasNumber
    PROVE  First(text, Len(text), FirstNumber)
<1>1. PICK n \in Nat : n = Len(text)
  BY TextSays
<1>2. DOMAIN text = 1 .. n
  BY <1>1, TextSays
<1>3. PICK S : S = {i \in 1 .. n : NumberAt(text, i)}
  OBVIOUS
<1>4. S \subseteq Nat /\ S # {}
  <2>1. Numbered(text, n)
    BY <1>1, TextSays
  <2> QED BY <1>3, <2>1 DEF Numbered
<1>5. \E f \in S : \A j \in S : f <= j
  BY <1>4, LeastNumber
<1>6. FirstNumber = Min(S)
  BY <1>2, <1>3, SameEscapes DEF FirstNumber, NumberAt
<1>7. PICK f : f = FirstNumber
  OBVIOUS
<1>8. f \in S /\ \A j \in S : f <= j
  BY <1>5, <1>6, <1>7 DEF Min
<1>9. f \in 1 .. n /\ NumberAt(text, f)
  BY <1>3, <1>8
<1>10. \A i \in 1 .. f - 1 : ~NumberAt(text, i)
  <2>1. ASSUME NEW i \in 1 .. f - 1 PROVE ~NumberAt(text, i)
    <3>1. i \in 1 .. n /\ ~ (f <= i)
      BY <1>9
    <3> QED BY <1>3, <1>8, <3>1
  <2> QED BY <2>1
<1> QED BY <1>1, <1>7, <1>9, <1>10 DEF First

\* The first number of a text that has all its digits is read as written.
THEOREM NumbersAreReadWhole == Spec => []WholeNumbersAreRead
<1>1. StringInv => WholeNumbersAreRead
  <2>1. SUFFICES ASSUME StringInv, HasNumber, IsWholeNumber, phase # "thrown",
                        NEW last, last = FirstNumber + Width[text[FirstNumber]]
                 PROVE  /\ BeforeNumber < Len(output)
                        /\ output[BeforeNumber + 1] =
                              Number(16 * HexDigit[text[last - 1]] + HexDigit[text[last]])
    BY DEF WholeNumbersAreRead
  <2>2. PICK t, n, f, out : t = text /\ n = Len(text) /\ f = FirstNumber /\ out = output
    OBVIOUS
  <2>3. First(t, n, f) /\ IsText(t, n)
    <3>1. First(t, n, f)
      BY <2>1, <2>2, FirstNumberIs
    <3>2. IsText(t, n)
      BY <2>1, <2>2, TextIs DEF StringInv, TypeInv
    <3> QED BY <3>1, <3>2
  <2>4. f \in 2 .. n /\ f - 1 \in Nat /\ n \in Nat /\ t[f] \in NumberLetter
    BY <2>3, FirstIs DEF IsText
  <2>5. PICK w \in 2 .. 8 : w = Width[t[f]]
    BY <2>4, WidthOf
  <2>6. last = f + w
    BY <2>1, <2>2, <2>5
  <2>7. /\ last < n
        /\ \A i \in f + 1 .. last : t[i] \in DOMAIN HexDigit
        /\ t[f] = "u" => t[last + 1] \notin DOMAIN HexDigit
    BY <2>1, <2>2 DEF IsWholeNumber
  <2>8. ~Partial(t, n, f)
    BY <2>5, <2>6, <2>7 DEF Partial
  <2>9. BeforeNumber = Cardinality(Shown(t, f - 1))
    <3>1. \A i : IsBackslash(i) <=> IsSlash(text, i)
      BY <2>1, TextSays
    <3> QED BY <2>2, <3>1 DEF BeforeNumber, Shown
  <2>10. PICK ph, l, ds : ph = phase /\ l = letter /\ ds = digits
    OBVIOUS
  <2>11. ph # "thrown" /\ Told(t, n, ph, out, l, ds) /\ ds \in Seq(DOMAIN HexDigit)
    BY <2>1, <2>2, <2>10 DEF StringInv, TypeInv
  <2>12. Whole(t, n, f, out) \/ InDigits(t, n, f, out, l, ds)
    BY <2>3, <2>8, <2>11 DEF Told
  <2>13. ASSUME InDigits(t, n, f, out, l, ds) PROVE FALSE
    <3>1. PICK k \in Nat : k = Len(ds)
      BY <2>11, LenProperties
    <3>2. /\ l = t[f] /\ n = f + k /\ k <= MaxDigits[l]
          /\ \A j \in 1 .. k : t[f + j] = ds[j]
      BY <2>13, <3>1 DEF InDigits
    <3>3. MaxDigits[l] \in Nat /\ (l = "u" \/ w = MaxDigits[l])
      BY <2>4, <2>5, <3>2, WidthOf
    <3>4. k > w
      BY <2>4, <2>6, <2>7, <3>2
    <3>5. l = "u"
      BY <3>2, <3>3, <3>4
    <3>6. w + 1 \in 1 .. k /\ last + 1 = f + (w + 1)
      BY <2>4, <2>6, <3>4
    <3>7. ds[w + 1] \in DOMAIN HexDigit
      BY <2>11, <3>1, <3>6, LenProperties
    <3>8. t[last + 1] = ds[w + 1]
      BY <3>2, <3>6
    <3> QED BY <2>7, <3>2, <3>5, <3>7, <3>8
  <2>14. Whole(t, n, f, out)
    BY <2>12, <2>13
  <2> QED BY <2>2, <2>5, <2>6, <2>9, <2>14 DEF Whole
<1> QED BY <1>1, StringInvHolds, PTL
=============================================================================
