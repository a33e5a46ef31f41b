----------------------- MODULE SquirrelDebuggerProofs -----------------------
(***************************************************************************)
(* Proofs about the breakpoint map: its type, one handle per file, handles *)
(* that stay.  The lemmas speak of any map m, so that the proofs about the *)
(* debugger, which come after them, can use them as well.                  *)
(*                                                                         *)
(* Proofs about the debugger core, for any number of clients, files, lines *)
(* and any depth, with or without spurious wake-ups, and with DetachVm     *)
(* racing the hook or not; then about the debugger's copy of the call      *)
(* stack and what rests on it: breakpoints, output and the status, as long *)
(* as DetachVm does not come in the middle of a hook; and that it          *)
(* implements StepContract when, besides, nothing but a notification ends  *)
(* a wait.                                                                 *)
(***************************************************************************)
EXTENDS Stepping, FiniteSetTheorems, SequenceTheorems, TLAPS

-----------------------------------------------------------------------------
(* The breakpoint map *)

\* A map that the operations below may be given, and that they return.
GoodMap(m) == IsMap(m) /\ UniqueIn(m)

-----------------------------------------------------------------------------
(* Finding and making handles *)

\* FindFileNameHandle returns the one handle of the file, or the null handle.
LEMMA FindIsTheHandle ==
    ASSUME NEW m, GoodMap(m), NEW file \in FileName
    PROVE  /\ FindFileNameHandle(m, file) \in Handles(m) \cup {NullHandle}
           /\ \A h \in Handles(m) :
                 m.fileNames[h] = Lower[file] <=> FindFileNameHandle(m, file) = h
  <1> DEFINE matches == {h \in Handles(m) : m.fileNames[h] = Lower[file]}
  <1>1. Handles(m) = 1 .. Len(m.fileNames) /\ Len(m.fileNames) \in Nat
    BY DEF GoodMap, IsMap, Handles
  <1>2. CASE matches = {}
    BY <1>1, <1>2 DEF FindFileNameHandle, NullHandle
  <1>3. CASE matches # {}
    <2>1. PICK h \in Handles(m) : m.fileNames[h] = Lower[file]
      BY <1>3
    <2>2. matches = {h}
      BY <2>1 DEF GoodMap, UniqueIn
    <2>3. FindFileNameHandle(m, file) = CHOOSE x \in {h} : \A k \in {h} : x <= k
      BY <2>2 DEF FindFileNameHandle
    <2>4. FindFileNameHandle(m, file) = h
      BY <2>1, <2>3, <1>1
    <2> QED
      BY <2>1, <2>2, <2>4
  <1> QED
    BY <1>2, <1>3

\* EnsureFileNameHandle keeps a map good and its breakpoints as they are, the
\* file has a handle afterwards, and no other file loses or changes its own.
LEMMA EnsureGivesHandle ==
    ASSUME NEW m, GoodMap(m), NEW file \in FileName
    PROVE  LET n == EnsureFileNameHandle(m, file)
           IN  /\ GoodMap(n)
               /\ n.breakpoints = m.breakpoints
               /\ Handles(m) \subseteq Handles(n)
               /\ \A h \in Handles(m) : n.fileNames[h] = m.fileNames[h]
               /\ FindFileNameHandle(n, file) \in Handles(n)
               /\ \A f \in FileName :
                     FindFileNameHandle(m, f) # NullHandle
                        => FindFileNameHandle(n, f) = FindFileNameHandle(m, f)
  <1> DEFINE n == EnsureFileNameHandle(m, file)
  <1>1. CASE FindFileNameHandle(m, file) # NullHandle
    <2>1. n = m
      BY <1>1 DEF EnsureFileNameHandle
    <2> QED
      BY <1>1, <2>1, FindIsTheHandle
  <1>2. CASE FindFileNameHandle(m, file) = NullHandle
    <2> DEFINE new == Len(m.fileNames) + 1
    <2>1. /\ m.fileNames \in Seq(LowerNames) /\ Len(m.fileNames) \in Nat
          /\ Handles(m) = 1 .. Len(m.fileNames)
          /\ Lower[file] \in LowerNames
      BY LowerAssumption DEF GoodMap, IsMap, Handles, LowerNames
    <2>shape. n = [fileNames |-> Append(m.fileNames, Lower[file]), breakpoints |-> m.breakpoints]
      BY <1>2 DEF EnsureFileNameHandle, GoodMap, IsMap
    <2>2. /\ n.fileNames = Append(m.fileNames, Lower[file])
          /\ n.breakpoints = m.breakpoints
          /\ n.fileNames \in Seq(LowerNames)
          /\ Handles(n) = 1 .. new
          /\ n.fileNames[new] = Lower[file]
          /\ \A h \in Handles(m) : n.fileNames[h] = m.fileNames[h]
      BY <2>1, <2>shape DEF Handles
    <2>3. \A h \in Handles(m) : m.fileNames[h] # Lower[file]
      BY <1>2, <2>1, FindIsTheHandle DEF NullHandle
    <2>4. UniqueIn(n)
      BY <2>1, <2>2, <2>3 DEF UniqueIn, GoodMap
    <2>5. IsMap(n)
      BY <2>1, <2>2, <2>shape DEF IsMap, GoodMap
    <2>6. GoodMap(n)
      BY <2>4, <2>5 DEF GoodMap
    <2>7. FindFileNameHandle(n, file) = new
      BY <2>1, <2>2, <2>6, FindIsTheHandle
    <2>8. ASSUME NEW f \in FileName, FindFileNameHandle(m, f) # NullHandle
          PROVE  FindFileNameHandle(n, f) = FindFileNameHandle(m, f)
      <3>1. PICK h \in Handles(m) : FindFileNameHandle(m, f) = h /\ m.fileNames[h] = Lower[f]
        BY <2>8, FindIsTheHandle
      <3>2. h \in Handles(n) /\ n.fileNames[h] = Lower[f]
        BY <2>1, <2>2, <3>1
      <3> QED
        BY <2>6, <3>1, <3>2, FindIsTheHandle
    <2>9. Handles(m) \subseteq Handles(n) /\ new \in Handles(n)
      BY <2>1, <2>2
    <2> HIDE DEF n
    <2> QED
      BY <2>2, <2>6, <2>7, <2>8, <2>9 DEF n
  <1> QED
    BY <1>1, <1>2

-----------------------------------------------------------------------------
(* Changing the breakpoints of a file *)

\* A nonempty set of indices of a finite sequence has a last one.
LEMMA LastIndex ==
    ASSUME NEW n \in Nat, NEW T \in SUBSET (1 .. n), T # {}
    PROVE  \E i \in T : \A j \in T : j <= i
  <1> DEFINE U        == 1 .. n
             Above(i) == {j \in T : i <= j}
             A        == {Above(i) : i \in T}
  <1>1. IsWellFoundedOn(StrictSubsetOrdering(U), SUBSET U)
    <2>1. IsFiniteSet(U)
      BY FS_Interval
    <2> QED
      BY <2>1, FS_FiniteSubsetsOfFinite, FS_StrictSubsetOrderingWellFounded
  <1>2. A \subseteq SUBSET U /\ A # {}
    OBVIOUS
  <1>3. PICK X \in A : \A Y \in A : ~ (<<Y, X>> \in StrictSubsetOrdering(U))
    <2> HIDE DEF A, U
    <2> QED
      BY <1>1, <1>2, WFMin
  <1>4. PICK i \in T : X = Above(i)
    BY <1>3
  <1>5. ASSUME NEW j \in T, ~ (j <= i) PROVE FALSE
    <2>0. i \in Int /\ i < j /\ \A k \in T : k \in Int
      BY <1>5
    <2>1. Above(j) \in A /\ Above(j) \subseteq Above(i) /\ i \in Above(i) /\ i \notin Above(j)
      <3>1. Above(j) \in A
        OBVIOUS
      <3>2. Above(j) \subseteq Above(i) /\ i \in Above(i) /\ i \notin Above(j)
        <4>1. ASSUME NEW k \in Above(j) PROVE k \in Above(i)
          <5>1. k \in T /\ j <= k /\ k \in Int
            BY <2>0
          <5>2. i <= k
            BY <2>0, <5>1
          <5> QED
            BY <5>1, <5>2
        <4>2. i \in Above(i)
          BY <2>0
        <4>3. i \notin Above(j)
          BY <2>0
        <4> QED
          BY <4>1, <4>2, <4>3
      <3> QED
        BY <3>1, <3>2
    <2>2. <<Above(j), Above(i)>> \in StrictSubsetOrdering(U)
      BY <2>1 DEF StrictSubsetOrdering
    <2> QED
      BY <1>3, <1>4, <2>1, <2>2
  <1> QED
    BY <1>5

\* i is the last breakpoint of bps on the line.
IsLastOn(bps, i, line) ==
    /\ bps[i].line = line
    /\ \A j \in DOMAIN bps : bps[j].line = line => j <= i

\* Inserting a request into a table of lines: a line of the request has the
\* id of the last breakpoint on it, any other line is as it was.
LEMMA InsertedTable ==
    ASSUME NEW old \in LineMaps, NEW bps \in BreakpointLists
    PROVE  LET new == Inserted(old, bps)
           IN  /\ new \in LineMaps
               /\ \A line \in Line :
                     IF \E i \in DOMAIN bps : bps[i].line = line
                     THEN /\ line \in DOMAIN new
                          /\ \E i \in DOMAIN bps : IsLastOn(bps, i, line) /\ new[line] = bps[i].id
                     ELSE /\ line \in DOMAIN new <=> line \in DOMAIN old
                          /\ line \in DOMAIN old => new[line] = old[line]
  <1> DEFINE lines    == {bps[i].line : i \in DOMAIN bps}
             last(ln) == CHOOSE i \in DOMAIN bps : IsLastOn(bps, i, ln)
             new      == [ln \in DOMAIN old \cup lines |->
                             IF ln \in lines THEN bps[last(ln)].id ELSE old[ln]]
  <1>1. PICK n \in Nat : bps \in [1 .. n -> Breakpoints]
    BY NumbersAssumption DEF BreakpointLists
  <1>2. \A i \in DOMAIN bps : bps[i].id \in BreakpointId /\ bps[i].line \in Line
    BY <1>1 DEF Breakpoints
  <1>3. PICK L \in SUBSET Line : old \in [L -> BreakpointId]
    BY DEF LineMaps
  <1>4. Inserted(old, bps) = new
    BY DEF Inserted, IsLastOn
  <1>5. ASSUME NEW ln \in lines
        PROVE  last(ln) \in DOMAIN bps /\ IsLastOn(bps, last(ln), ln)
    <2> DEFINE T == {i \in DOMAIN bps : bps[i].line = ln}
    <2>1. T \in SUBSET (1 .. n) /\ T # {}
      BY <1>1, <1>5
    <2>2. PICK i \in T : \A j \in T : j <= i
      <3> HIDE DEF T
      <3> QED
        BY <2>1, LastIndex
    <2>3. i \in DOMAIN bps /\ IsLastOn(bps, i, ln)
      BY <2>2 DEF IsLastOn
    <2> QED
      BY <2>3
  <1> HIDE DEF last
  <1>6. new \in [L \cup lines -> BreakpointId] /\ lines \subseteq Line
    BY <1>2, <1>3, <1>5
  <1>7. new \in LineMaps
    BY <1>3, <1>6 DEF LineMaps
  <1>8. ASSUME NEW line \in Line, \E i \in DOMAIN bps : bps[i].line = line
        PROVE  /\ line \in DOMAIN new
               /\ \E i \in DOMAIN bps : IsLastOn(bps, i, line) /\ new[line] = bps[i].id
    <2>1. line \in lines
      BY <1>8
    <2>2. line \in DOMAIN new /\ new[line] = bps[last(line)].id
      BY <2>1
    <2> QED
      BY <1>5, <2>1, <2>2
  <1>9. ASSUME NEW line \in Line, ~ \E i \in DOMAIN bps : bps[i].line = line
        PROVE  /\ line \in DOMAIN new <=> line \in DOMAIN old
               /\ line \in DOMAIN old => new[line] = old[line]
    BY <1>9
  <1> HIDE DEF new
  <1> QED
    BY <1>4, <1>7, <1>8, <1>9

LEMMA EmptyTableIsLineMap == EmptyTable \in LineMaps /\ DOMAIN EmptyTable = {}
  <1>1. EmptyTable \in [{} -> BreakpointId]
    BY DEF EmptyTable
  <1> QED
    BY <1>1 DEF LineMaps, EmptyTable

\* Clear leaves an empty table for the file, or none, and all else as it was.
LEMMA ClearedMap ==
    ASSUME NEW m, GoodMap(m), NEW target \in Handles(m)
    PROVE  LET n == Clear(m, target)
           IN  /\ GoodMap(n)
               /\ n.fileNames = m.fileNames
               /\ DOMAIN n.breakpoints = DOMAIN m.breakpoints
               /\ target \in DOMAIN n.breakpoints => n.breakpoints[target] = EmptyTable
               /\ \A h \in DOMAIN m.breakpoints : h # target => n.breakpoints[h] = m.breakpoints[h]
  <1> DEFINE n == Clear(m, target)
             B == [m.breakpoints EXCEPT ![target] = EmptyTable]
  <1>1. CASE target \notin DOMAIN m.breakpoints
    BY <1>1 DEF Clear
  <1>2. CASE target \in DOMAIN m.breakpoints
    <2>1. n = [fileNames |-> m.fileNames, breakpoints |-> B]
      BY <1>2 DEF Clear, GoodMap, IsMap
    <2>2. /\ DOMAIN B = DOMAIN m.breakpoints
          /\ B[target] = EmptyTable
          /\ \A h \in DOMAIN m.breakpoints : h # target => B[h] = m.breakpoints[h]
          /\ B \in [DOMAIN m.breakpoints -> LineMaps]
      BY <1>2, EmptyTableIsLineMap DEF GoodMap, IsMap
    <2> HIDE DEF n, B
    <2>3. n.fileNames = m.fileNames /\ n.breakpoints = B
      BY <2>1
    <2>4. IsMap(n)
      BY <2>1, <2>2, <2>3 DEF IsMap, GoodMap, Handles
    <2>5. GoodMap(n)
      BY <2>3, <2>4 DEF GoodMap, UniqueIn, Handles
    <2> QED
      BY <2>2, <2>3, <2>5 DEF n
  <1> QED
    BY <1>1, <1>2

\* AddAll inserts the request into the table of the file, or into a new one.
LEMMA AddedMap ==
    ASSUME NEW m, GoodMap(m), NEW target \in Handles(m), NEW bps \in BreakpointLists
    PROVE  LET n   == AddAll(m, target, bps)
               old == IF target \in DOMAIN m.breakpoints THEN m.breakpoints[target] ELSE EmptyTable
           IN  /\ GoodMap(n)
               /\ n.fileNames = m.fileNames
               /\ DOMAIN n.breakpoints = DOMAIN m.breakpoints \cup {target}
               /\ old \in LineMaps
               /\ n.breakpoints[target] = Inserted(old, bps)
               /\ \A h \in DOMAIN m.breakpoints : h # target => n.breakpoints[h] = m.breakpoints[h]
  <1> DEFINE n   == AddAll(m, target, bps)
             old == IF target \in DOMAIN m.breakpoints THEN m.breakpoints[target] ELSE EmptyTable
             B   == [h \in DOMAIN m.breakpoints \cup {target} |->
                        IF h = target THEN Inserted(old, bps) ELSE m.breakpoints[h]]
  <1>1. n = [fileNames |-> m.fileNames, breakpoints |-> B]
    BY DEF AddAll, GoodMap, IsMap
  <1>2. old \in LineMaps
    BY EmptyTableIsLineMap DEF GoodMap, IsMap
  <1>3. Inserted(old, bps) \in LineMaps
    <2> HIDE DEF old
    <2> QED
      BY <1>2, InsertedTable
  <1>4. /\ B \in [DOMAIN m.breakpoints \cup {target} -> LineMaps]
        /\ DOMAIN B = DOMAIN m.breakpoints \cup {target}
        /\ B[target] = Inserted(old, bps)
        /\ \A h \in DOMAIN m.breakpoints : h # target => B[h] = m.breakpoints[h]
    <2> HIDE DEF old
    <2> QED
      BY <1>3 DEF GoodMap, IsMap
  <1> HIDE DEF n, old, B
  <1>5. n.fileNames = m.fileNames /\ n.breakpoints = B
    BY <1>1
  <1>6. IsMap(n)
    BY <1>1, <1>4, <1>5 DEF IsMap, GoodMap, Handles
  <1>7. GoodMap(n)
    BY <1>5, <1>6 DEF GoodMap, UniqueIn, Handles
  <1> QED
    BY <1>2, <1>4, <1>5, <1>7 DEF n, old

\* The id that a request puts on a line: the last one it names there, or none.
RequestedOn(bps, line, id) ==
    IF \E i \in DOMAIN bps : bps[i].line = line
    THEN \E i \in DOMAIN bps : IsLastOn(bps, i, line) /\ id = bps[i].id
    ELSE id = NoBreakpoint

\* A request gives the file, under any spelling, exactly the breakpoints it
\* names; other files and all handles stay as they were.
LEMMA ReplacedMap ==
    ASSUME NEW m, GoodMap(m), NEW file \in FileName, NEW bps \in BreakpointLists
    PROVE  LET n == Replaced(m, file, bps)
           IN  /\ GoodMap(n)
               /\ \A f \in FileName :
                     FindFileNameHandle(m, f) # NullHandle
                        => FindFileNameHandle(n, f) = FindFileNameHandle(m, f)
               /\ \A line \in Line :
                     RequestedOn(bps, line, ReadBreakpoint(n, FindFileNameHandle(n, file), line))
               /\ \A f \in FileName, line \in Line :
                     Lower[f] # Lower[file]
                        => ReadBreakpoint(n, FindFileNameHandle(n, f), line)
                              = ReadBreakpoint(m, FindFileNameHandle(m, f), line)
  <1> DEFINE k   == EnsureFileNameHandle(m, file)
             hd  == FindFileNameHandle(k, file)
             c   == Clear(k, hd)
             old == IF hd \in DOMAIN c.breakpoints THEN c.breakpoints[hd] ELSE EmptyTable
             n   == AddAll(c, hd, bps)
  <1>1. n = Replaced(m, file, bps)
    BY DEF Replaced
  <1>2. /\ GoodMap(k) /\ k.breakpoints = m.breakpoints
        /\ Handles(m) \subseteq Handles(k)
        /\ \A h \in Handles(m) : k.fileNames[h] = m.fileNames[h]
        /\ hd \in Handles(k)
        /\ \A f \in FileName :
              FindFileNameHandle(m, f) # NullHandle
                 => FindFileNameHandle(k, f) = FindFileNameHandle(m, f)
    BY EnsureGivesHandle
  <1> HIDE DEF k, hd
  <1>3. /\ GoodMap(c) /\ c.fileNames = k.fileNames
        /\ DOMAIN c.breakpoints = DOMAIN k.breakpoints
        /\ hd \in DOMAIN c.breakpoints => c.breakpoints[hd] = EmptyTable
        /\ \A h \in DOMAIN k.breakpoints : h # hd => c.breakpoints[h] = k.breakpoints[h]
    BY <1>2, ClearedMap
  <1> HIDE DEF c
  <1>4. hd \in Handles(c)
    BY <1>2, <1>3 DEF Handles
  <1>5. /\ GoodMap(n) /\ n.fileNames = c.fileNames
        /\ DOMAIN n.breakpoints = DOMAIN c.breakpoints \cup {hd}
        /\ old \in LineMaps
        /\ n.breakpoints[hd] = Inserted(old, bps)
        /\ \A h \in DOMAIN c.breakpoints : h # hd => n.breakpoints[h] = c.breakpoints[h]
    BY <1>3, <1>4, AddedMap
  <1>6. old = EmptyTable
    BY <1>3
  <1> HIDE DEF n, old
  <1>7. \A f \in FileName : FindFileNameHandle(n, f) = FindFileNameHandle(k, f)
    BY <1>3, <1>5 DEF FindFileNameHandle, Handles
  <1>8. ASSUME NEW line \in Line
        PROVE  RequestedOn(bps, line, ReadBreakpoint(n, FindFileNameHandle(n, file), line))
    <2>1. FindFileNameHandle(n, file) = hd /\ hd \in DOMAIN n.breakpoints
      BY <1>5, <1>7 DEF hd
    <2>2. ReadBreakpoint(n, hd, line)
             = IF line \in DOMAIN Inserted(EmptyTable, bps) THEN Inserted(EmptyTable, bps)[line]
               ELSE NoBreakpoint
      BY <1>5, <1>6, <2>1 DEF ReadBreakpoint
    <2> QED
      BY <2>1, <2>2, EmptyTableIsLineMap, InsertedTable DEF RequestedOn
  <1>9. ASSUME NEW f \in FileName, NEW line \in Line, Lower[f] # Lower[file]
        PROVE  ReadBreakpoint(n, FindFileNameHandle(n, f), line)
                  = ReadBreakpoint(m, FindFileNameHandle(m, f), line)
    <2> DEFINE fh == FindFileNameHandle(k, f)
    <2>1. fh # hd
      BY <1>2, <1>9, FindIsTheHandle DEF hd
    <2>2. fh \in DOMAIN n.breakpoints <=> fh \in DOMAIN m.breakpoints
      BY <1>2, <1>3, <1>5, <2>1
    <2>3. fh \in DOMAIN m.breakpoints => n.breakpoints[fh] = m.breakpoints[fh]
      BY <1>2, <1>3, <1>5, <2>1
    <2>4. ReadBreakpoint(n, fh, line) = ReadBreakpoint(m, fh, line)
      BY <2>2, <2>3 DEF ReadBreakpoint
    <2>5. CASE FindFileNameHandle(m, f) # NullHandle
      BY <1>2, <1>7, <2>4, <2>5
    <2>6. CASE FindFileNameHandle(m, f) = NullHandle
      <3>1. fh \notin Handles(m)
        BY <1>2, <2>6, FindIsTheHandle DEF GoodMap, IsMap, Handles, NullHandle
      <3>2. fh \notin DOMAIN m.breakpoints /\ NullHandle \notin DOMAIN m.breakpoints
        BY <3>1 DEF GoodMap, IsMap, Handles, NullHandle
      <3> QED
        BY <1>7, <2>4, <2>6, <3>2 DEF ReadBreakpoint
    <2> QED
      BY <2>5, <2>6
  <1>10. \A f \in FileName :
            FindFileNameHandle(m, f) # NullHandle
               => FindFileNameHandle(n, f) = FindFileNameHandle(m, f)
    BY <1>2, <1>7
  <1> QED
    BY <1>1, <1>5, <1>8, <1>9, <1>10

-----------------------------------------------------------------------------
(* The component *)

LEMMA EmptyMapIsGood == GoodMap(EmptyMap) /\ Handles(EmptyMap) = {}
  <1>1. /\ EmptyMap.fileNames = <<>> /\ EmptyMap.breakpoints = EmptyTable
        /\ EmptyMap = [fileNames |-> <<>>, breakpoints |-> EmptyTable]
    BY DEF EmptyMap
  <1>2. Handles(EmptyMap) = {}
    BY <1>1 DEF Handles
  <1>3. EmptyTable \in [DOMAIN EmptyTable -> LineMaps] /\ DOMAIN EmptyTable = {}
    BY DEF EmptyTable
  <1> QED
    BY <1>1, <1>2, <1>3 DEF GoodMap, IsMap, UniqueIn

LEMMA BMInitGood == BMInit => GoodMap(bm)
  BY EmptyMapIsGood DEF BMInit

LEMMA BMStepGood == GoodMap(bm) /\ [BMNext]_bm => GoodMap(bm)'
  <1> SUFFICES ASSUME GoodMap(bm), [BMNext]_bm PROVE GoodMap(bm')
    BY DEF GoodMap, IsMap, UniqueIn, Handles
  <1>1. ASSUME NEW file \in FileName, NEW bps \in BreakpointLists, ReplaceFile(file, bps)
        PROVE  GoodMap(bm')
    BY <1>1, ReplacedMap DEF ReplaceFile
  <1>2. ASSUME NEW file \in FileName, SeeSource(file)
        PROVE  GoodMap(bm')
    BY <1>2, EnsureGivesHandle DEF SeeSource
  <1>3. CASE UNCHANGED bm
    BY <1>3
  <1> QED
    BY <1>1, <1>2, <1>3 DEF BMNext

LEMMA AlwaysGood == BMSpec => []GoodMap(bm)
  BY BMInitGood, BMStepGood, PTL DEF BMSpec

\* The map keeps its type, for any number of files, spellings, lines and
\* breakpoints: each name is stored in lower case, and no breakpoints are
\* kept under a handle that does not stand for a file.
THEOREM BMTypes == BMSpec => []BMTypeOK
  <1>1. GoodMap(bm) => BMTypeOK
    BY DEF GoodMap, BMTypeOK
  <1> QED
    BY <1>1, AlwaysGood, PTL

\* The map never holds two handles for one file.
THEOREM BMInvariant == BMSpec => []HandlesUnique
  <1>1. GoodMap(bm) => HandlesUnique
    BY DEF GoodMap, HandlesUnique
  <1> QED
    BY <1>1, AlwaysGood, PTL

\* The handles that the hook caches are never invalidated.
THEOREM HandlesStayPut == BMSpec => HandlesStable
  <1> DEFINE Stays == \A f \in FileName :
                         FindFileNameHandle(bm, f) # NullHandle
                            => FindFileNameHandle(bm', f) = FindFileNameHandle(bm, f)
  <1>1. GoodMap(bm) /\ [BMNext]_bm => [Stays]_bm
    <2> SUFFICES ASSUME GoodMap(bm), BMNext PROVE Stays
      OBVIOUS
    <2>1. ASSUME NEW file \in FileName, NEW bps \in BreakpointLists, ReplaceFile(file, bps)
          PROVE  Stays
      BY <2>1, ReplacedMap DEF ReplaceFile
    <2>2. ASSUME NEW file \in FileName, SeeSource(file)
          PROVE  Stays
      BY <2>2, EnsureGivesHandle DEF SeeSource
    <2> QED
      BY <2>1, <2>2 DEF BMNext
  <1> QED
    BY <1>1, AlwaysGood, PTL DEF BMSpec, HandlesStable

-----------------------------------------------------------------------------
(* The promise to clients *)

\* The table of one file name, as clients see it.
Table(m, n) == [ln \in Line |-> ReadBreakpoint(m, FindFileNameHandle(m, n), ln)]

LEMMA ReadType ==
    ASSUME NEW m, IsMap(m), NEW h, NEW line
    PROVE  ReadBreakpoint(m, h, line) \in BreakpointId \cup {0}
  <1>1. CASE h \in DOMAIN m.breakpoints /\ line \in DOMAIN m.breakpoints[h]
    <2>1. PICK L \in SUBSET Line : m.breakpoints[h] \in [L -> BreakpointId]
      BY <1>1 DEF IsMap, LineMaps
    <2> QED
      BY <1>1, <2>1 DEF ReadBreakpoint
  <1>2. CASE ~ (h \in DOMAIN m.breakpoints /\ line \in DOMAIN m.breakpoints[h])
    BY <1>2 DEF ReadBreakpoint, NoBreakpoint
  <1> QED
    BY <1>1, <1>2

\* The map of handles and lines implements one table per file: a request
\* replaces the table of its file whatever the spelling, and no other.
THEOREM MapImplementsPromise == BMSpec => ImplementsPromise
  <1> DEFINE at == [n \in LowerNames |-> Table(bm, n)]
  <1>1. BMInit => Promise!Init
    <2> SUFFICES ASSUME BMInit PROVE at = [n \in LowerNames |-> [line \in Line |-> 0]]
      BY DEF Promise!Init, Promise!Names, LowerNames, Table
    <2>1. \A h, line : ReadBreakpoint(EmptyMap, h, line) = 0
      BY DEF ReadBreakpoint, EmptyMap, EmptyTable, NoBreakpoint
    <2> QED
      BY <2>1 DEF BMInit, Table
  <1>2. GoodMap(bm) /\ [BMNext]_bm => [Promise!Next]_at
    <2> SUFFICES ASSUME GoodMap(bm), BMNext PROVE Promise!Next \/ UNCHANGED at
      BY DEF Table
    <2>0. \A n \in LowerNames : n \in FileName /\ Lower[n] = n
      BY LowerAssumption DEF LowerNames
    <2>1. ASSUME NEW file \in FileName, NEW bps \in BreakpointLists, ReplaceFile(file, bps)
          PROVE  Promise!Next
      <3>1. GoodMap(bm') /\ bm' = Replaced(bm, file, bps)
        BY <2>1, ReplacedMap DEF ReplaceFile
      <3>2. at' \in [LowerNames -> [Line -> BreakpointId \cup {0}]]
        BY <3>1, ReadType DEF Table, GoodMap
      <3>3. \A n \in LowerNames \ {Lower[file]} : at'[n] = at[n]
        <4>1. ASSUME NEW n \in LowerNames \ {Lower[file]}, NEW line \in Line
              PROVE  ReadBreakpoint(bm', FindFileNameHandle(bm', n), line)
                        = ReadBreakpoint(bm, FindFileNameHandle(bm, n), line)
          BY <2>0, <3>1, ReplacedMap
        <4> QED
          BY <4>1 DEF Table
      <3>4. ASSUME NEW line \in Line
            PROVE  RequestedOn(bps, line, at'[Lower[file]][line])
        <4>1. Lower[file] \in LowerNames /\ Lower[Lower[file]] = Lower[file]
          BY LowerAssumption DEF LowerNames
        <4>2. FindFileNameHandle(bm', Lower[file]) = FindFileNameHandle(bm', file)
          BY <4>1 DEF FindFileNameHandle
        <4>3. at'[Lower[file]][line] = ReadBreakpoint(bm', FindFileNameHandle(bm', file), line)
          BY <4>1, <4>2 DEF Table
        <4> QED
          BY <3>1, <4>3, ReplacedMap
      <3> HIDE DEF at
      <3> DEFINE name  == Lower[file]
                 table == at'[name]
      <3>5. name \in LowerNames /\ bps \in Promise!Requests
        BY DEF LowerNames, Promise!Requests, BreakpointLists, Breakpoints
      <3>6. ASSUME NEW line \in Line
            PROVE  table[line] = Promise!TableOf(bps)[line]
        <4> DEFINE Latest(i) == Promise!IsLastOn(bps, i, line)
        <4>1. CASE \E i \in DOMAIN bps : bps[i].line = line
          <5>1. PICK i \in DOMAIN bps : Latest(i) /\ table[line] = bps[i].id
            BY <3>4, <4>1 DEF Promise!IsLastOn, IsLastOn, RequestedOn
          <5>2. DOMAIN bps \subseteq Nat
            BY DEF BreakpointLists
          <5>3. \A j \in DOMAIN bps : Latest(j) => j = i
            BY <5>1, <5>2 DEF Promise!IsLastOn
          <5>4. (CHOOSE j \in DOMAIN bps : Latest(j)) = i
            BY <5>1, <5>3
          <5> QED
            BY <4>1, <5>1, <5>4 DEF Promise!TableOf
        <4>2. CASE ~ \E i \in DOMAIN bps : bps[i].line = line
          BY <3>4, <4>2 DEF Promise!TableOf, RequestedOn, NoBreakpoint
        <4> QED
          BY <4>1, <4>2
      <3>7. table = Promise!TableOf(bps)
        BY <3>2, <3>5, <3>6 DEF Promise!TableOf
      <3>8. at' = [at EXCEPT ![name] = table]
        BY <3>2, <3>3, <3>5 DEF at
      <3>9. Promise!Replace(name)
        BY <3>5, <3>7, <3>8 DEF Promise!Replace, at, Table
      <3> QED
        BY <3>5, <3>9 DEF Promise!Next, Promise!Names, LowerNames
    <2>2. ASSUME NEW file \in FileName, SeeSource(file)
          PROVE  UNCHANGED at
      <3>1. ASSUME NEW n \in LowerNames, NEW line \in Line
            PROVE  ReadBreakpoint(bm', FindFileNameHandle(bm', n), line)
                      = ReadBreakpoint(bm, FindFileNameHandle(bm, n), line)
        <4>1. /\ GoodMap(bm') /\ bm'.breakpoints = bm.breakpoints
              /\ FindFileNameHandle(bm, n) # NullHandle
                    => FindFileNameHandle(bm', n) = FindFileNameHandle(bm, n)
          BY <2>0, <2>2, EnsureGivesHandle DEF SeeSource
        <4>2. CASE FindFileNameHandle(bm, n) # NullHandle
          BY <4>1, <4>2 DEF ReadBreakpoint
        <4>3. CASE FindFileNameHandle(bm, n) = NullHandle
          <5>1. FindFileNameHandle(bm', n) \notin Handles(bm)
            <6>1. \A h \in Handles(bm) : bm'.fileNames[h] = bm.fileNames[h] /\ h \in Handles(bm')
              BY <2>2, EnsureGivesHandle DEF SeeSource
            <6>2. \A h \in Handles(bm) : bm.fileNames[h] # Lower[n]
              BY <2>0, <4>3, FindIsTheHandle DEF GoodMap, IsMap, Handles, NullHandle
            <6> QED
              BY <2>0, <4>1, <6>1, <6>2, FindIsTheHandle
          <5>2. /\ FindFileNameHandle(bm', n) \notin DOMAIN bm.breakpoints
                /\ NullHandle \notin DOMAIN bm.breakpoints
            BY <5>1 DEF GoodMap, IsMap, Handles, NullHandle
          <5> QED
            BY <4>1, <4>3, <5>2 DEF ReadBreakpoint
        <4> QED
          BY <4>2, <4>3
      <3> QED
        BY <3>1 DEF Table
    <2> QED
      BY <2>1, <2>2 DEF BMNext
  <1>3. Promise!Spec <=> Promise!Init /\ [][Promise!Next]_at
    BY DEF Promise!Spec, Table
  <1> QED
    BY <1>1, <1>2, <1>3, AlwaysGood, PTL DEF BMSpec, ImplementsPromise

-----------------------------------------------------------------------------
(* Stacks *)

\* Setting the line of the top frame keeps the type of a stack.
LEMMA WithTopLineType ==
    ASSUME NEW A, NEW stack \in Seq(A), NEW line \in Line,
           \A e \in A : [e EXCEPT !.line = line] \in A
    PROVE  WithTopLine(stack, line) \in Seq(A)
  <1> DEFINE n   == Len(stack)
             new == [i \in 1 .. n |-> IF i = n THEN [stack[i] EXCEPT !.line = line] ELSE stack[i]]
  <1>1. n \in Nat /\ DOMAIN stack = 1 .. n /\ \A i \in 1 .. n : stack[i] \in A
    OBVIOUS
  <1>2. WithTopLine(stack, line) = new
    BY <1>1 DEF WithTopLine
  <1>3. \A i \in 1 .. n : new[i] \in A
    BY <1>1
  <1>4. new \in [1 .. n -> A]
    BY <1>3
  <1> HIDE DEF new
  <1> QED
    BY <1>1, <1>2, <1>4

LEMMA FrontType ==
    ASSUME NEW A, NEW stack \in Seq(A)
    PROVE  Front(stack) \in Seq(A)
  <1>1. Len(stack) \in Nat /\ \A i \in 1 .. Len(stack) - 1 : stack[i] \in A
    OBVIOUS
  <1> QED
    BY <1>1, SubSeqProperties DEF Front

LEMMA ReverseType ==
    ASSUME NEW A, NEW stack \in Seq(A)
    PROVE  Reverse(stack) \in Seq(A)
  <1> DEFINE n == Len(stack)
  <1>1. n \in Nat /\ \A i \in 1 .. n : (n - i) + 1 \in 1 .. n /\ stack[(n - i) + 1] \in A
    OBVIOUS
  <1>2. [i \in 1 .. n |-> stack[(n - i) + 1]] \in [1 .. n -> A]
    BY <1>1
  <1> QED
    BY <1>1, <1>2 DEF Reverse

LEMMA LastType ==
    ASSUME NEW A, NEW stack \in Seq(A), stack # <<>>
    PROVE  Last(stack) \in A
  BY DEF Last

-----------------------------------------------------------------------------
(* Types *)

\* Types as TypeOK has them, with one handle per file.
TypeInv == TypeOK /\ HandlesUnique

LEMMA TypeInit == Init => TypeInv
  <1> SUFFICES ASSUME Init PROVE TypeInv
    OBVIOUS
  <1>1. BMTypeOK /\ HandlesUnique
    BY BMInitGood DEF Init, GoodMap, BMTypeOK, HandlesUnique
  <1>2. fileNameHandles \in [DOMAIN fileNameHandles -> Nat] /\ DOMAIN fileNameHandles = {}
    BY DEF Init, EmptyTable
  <1>3. status \in [breakpoint : BreakpointId \cup {NoBreakpoint}, stack : Seq(StackEntry)]
    BY DEF Init
  <1>4. /\ pauseRequested \in PauseType /\ returnsRequired \in Int
        /\ mutex \in {"none", "vm"} \cup Client
        /\ vmpc \in HookPC /\ seen \in Int
    BY DEF Init, PauseType, HookPC, RunState
  <1>5. isPaused \in BOOLEAN /\ attached \in BOOLEAN
    BY DEF Init
  <1>6. handle \in Nat /\ output \in [handle : Nat, line : Line \cup {0}]
    BY DEF Init, NullHandle, NoOutput
  <1>7. /\ frames \in Seq(StackEntry)
        /\ currentStack \in Seq([handle : Nat, line : Line])
    BY DEF Init
  <1>8. /\ pc \in [Client -> ClientPC] /\ snapshot \in [Client -> RunState]
        /\ reply \in [Client -> ReturnCode]
    BY DEF Init, ClientPC, RunState, ReturnCode
  <1> QED
    BY <1>1, <1>2, <1>3, <1>4, <1>5, <1>6, <1>7, <1>8 DEF TypeInv, TypeOK

\* Finding a breakpoint at a line gives an id or none.
LEMMA FoundType == TypeInv => BreakpointFound \subseteq BreakpointId \cup {NoBreakpoint}
  BY ReadType DEF TypeInv, TypeOK, BMTypeOK, BreakpointFound, NoBreakpoint

LEMMA TypeScript == TypeInv /\ ScriptStep => TypeInv'
  <1> SUFFICES ASSUME TypeInv, ScriptStep PROVE TypeInv'
    OBVIOUS
  <1>1. ASSUME NEW file \in ScriptFile, NEW line \in Line, ScriptCall(file, line)
        PROVE  TypeInv'
    <2>1. frames' \in Seq(StackEntry)
      BY <1>1 DEF ScriptCall, TypeInv, TypeOK, StackEntry
    <2>2. vmpc' \in HookPC /\ handle' \in Nat
      BY <1>1 DEF ScriptCall, TypeInv, TypeOK, HookPC
    <2> QED
      BY <1>1, <2>1, <2>2
      DEF ScriptCall, TypeInv, TypeOK, BMTypeOK, HandlesUnique, pauseData, vmData, clientVars
  <1>2. CASE ScriptReturn
    <2>1. frames' \in Seq(StackEntry) /\ currentStack' \in Seq([handle : Nat, line : Line])
      BY <1>2, FrontType DEF ScriptReturn, TypeInv, TypeOK
    <2>2. vmpc' \in HookPC
      BY <1>2 DEF ScriptReturn, HookPC
    <2> QED
      BY <1>2, <2>1, <2>2
      DEF ScriptReturn, TypeInv, TypeOK, BMTypeOK, HandlesUnique, pauseData, hookLocals, clientVars
  <1>3. ASSUME NEW line \in Line, ScriptLine(line)
        PROVE  TypeInv'
    <2>1. frames' \in Seq(StackEntry)
      BY <1>3, WithTopLineType DEF ScriptLine, TypeInv, TypeOK, StackEntry
    <2>2. currentStack' \in Seq([handle : Nat, line : Line])
      <3> DEFINE A == [handle : Nat, line : Line]
      <3>1. \A e \in A : [e EXCEPT !.line = line] \in A
        OBVIOUS
      <3>2. currentStack \in Seq(A)
        BY DEF TypeInv, TypeOK
      <3> HIDE DEF A
      <3>3. WithTopLine(currentStack, line) \in Seq(A)
        BY <3>1, <3>2, WithTopLineType
      <3> QED
        BY <1>3, <3>2, <3>3 DEF ScriptLine, A
    <2>3. vmpc' \in HookPC
      BY <1>3 DEF ScriptLine, HookPC
    <2> QED
      BY <1>3, <2>1, <2>2, <2>3
      DEF ScriptLine, TypeInv, TypeOK, BMTypeOK, HandlesUnique, pauseData, hookLocals, clientVars
  <1>4. CASE ScriptPrint
    BY <1>4
    DEF ScriptPrint, TypeInv, TypeOK, BMTypeOK, HandlesUnique, HookPC, pauseData, vmData,
        hookLocals, clientVars
  <1> QED
    BY <1>1, <1>2, <1>3, <1>4 DEF ScriptStep

\* The VM's stack is not empty while a 'c' hook works on its top frame.
CallHasFrame == vmpc \in {"lookup", "push"} => frames # <<>>

LEMMA TypeHook == TypeInv /\ CallHasFrame /\ HookStep => TypeInv'
  <1> SUFFICES ASSUME TypeInv, CallHasFrame, HookStep PROVE TypeInv'
    OBVIOUS
  <1> USE DEF HookPC
  <1>1. CASE LookupHandle
    <2> DEFINE file == Last(frames).file
    <2>1. file \in ScriptFile /\ file \in FileName
      BY <1>1, LastType, ScriptAssumption
      DEF LookupHandle, CallHasFrame, TypeInv, TypeOK, StackEntry
    <2>2. GoodMap(bm') /\ FindFileNameHandle(bm', file) \in Handles(bm')
      BY <1>1, <2>1, EnsureGivesHandle
      DEF LookupHandle, TypeInv, TypeOK, BMTypeOK, HandlesUnique, GoodMap
    <2>3. FindFileNameHandle(bm', file) \in Nat
      BY <2>2 DEF GoodMap, IsMap, Handles
    <2>4. handle' \in Nat /\ fileNameHandles' \in [DOMAIN fileNameHandles' -> Nat]
          /\ DOMAIN fileNameHandles' \subseteq ScriptFile
      BY <1>1, <2>1, <2>3 DEF LookupHandle, TypeInv, TypeOK
    <2> QED
      BY <1>1, <2>2, <2>4
      DEF LookupHandle, TypeInv, TypeOK, BMTypeOK, HandlesUnique, GoodMap, clientVars
  <1>2. CASE PushFrame
    <2>1. Last(frames).line \in Line
      BY <1>2, LastType DEF PushFrame, CallHasFrame, TypeInv, TypeOK, StackEntry
    <2>2. currentStack' \in Seq([handle : Nat, line : Line])
      BY <1>2, <2>1 DEF PushFrame, TypeInv, TypeOK
    <2> QED
      BY <1>2, <2>2
      DEF PushFrame, TypeInv, TypeOK, BMTypeOK, HandlesUnique, pauseData, clientVars, NullHandle
  <1>3. CASE ReadReturns
    BY <1>3
    DEF ReadReturns, TypeInv, TypeOK, BMTypeOK, HandlesUnique, pauseData, vmData, clientVars
  <1>4. CASE WriteReturns
    BY <1>4
    DEF WriteReturns, TypeInv, TypeOK, BMTypeOK, HandlesUnique, vmData, clientVars
  <1>5. CASE CountReturn
    BY <1>5
    DEF CountReturn, TypeInv, TypeOK, BMTypeOK, HandlesUnique, vmData, hookLocals, clientVars
  <1>6. CASE LineRuns
    BY <1>6
    DEF LineRuns, TypeInv, TypeOK, BMTypeOK, HandlesUnique, pauseData, vmData, hookLocals, clientVars
  <1>7. CASE LinePauses
    <2>1. PICK bp \in BreakpointId \cup {NoBreakpoint} :
             /\ pauseRequested' = IF bp # NoBreakpoint THEN "StepIn" ELSE pauseRequested
             /\ returnsRequired' = IF bp # NoBreakpoint THEN 0 ELSE returnsRequired
             /\ status' = [breakpoint |-> bp, stack |-> Reverse(frames)]
      BY <1>7, FoundType DEF LinePauses
    <2>2. Reverse(frames) \in Seq(StackEntry)
      BY ReverseType DEF TypeInv, TypeOK
    <2>3. /\ status' \in [breakpoint : BreakpointId \cup {NoBreakpoint}, stack : Seq(StackEntry)]
          /\ pauseRequested' \in PauseType /\ returnsRequired' \in Int
      BY <2>1, <2>2 DEF TypeInv, TypeOK, PauseType
    <2> QED
      BY <1>7, <2>3
      DEF LinePauses, TypeInv, TypeOK, BMTypeOK, HandlesUnique, vmData, hookLocals, clientVars
  <1>8. CASE NotifyAndWait
    BY <1>8
    DEF NotifyAndWait, TypeInv, TypeOK, BMTypeOK, HandlesUnique, RunState, pauseData, vmData,
        hookLocals, clientVars
  <1>9. CASE Resume
    BY <1>9
    DEF Resume, TypeInv, TypeOK, BMTypeOK, HandlesUnique, vmData, hookLocals, clientVars
  <1>10. CASE ReadOutput
    <2>1. currentStack # <<>> => Last(currentStack) \in [handle : Nat, line : Line]
      BY LastType DEF TypeInv, TypeOK
    <2>2. output' \in [handle : Nat, line : Line \cup {0}] /\ vmpc' \in HookPC
      BY <1>10, <2>1 DEF ReadOutput, TypeInv, TypeOK
    <2> QED
      BY <1>10, <2>2
      DEF ReadOutput, TypeInv, TypeOK, BMTypeOK, HandlesUnique, pauseData, vmData, clientVars
  <1>11. CASE HandleOutputLine
    <2>1. output' \in [handle : Nat, line : Line \cup {0}]
      BY <1>11 DEF HandleOutputLine, NoOutput, NullHandle
    <2> QED
      BY <1>11, <2>1
      DEF HandleOutputLine, TypeInv, TypeOK, BMTypeOK, HandlesUnique, pauseData, vmData, clientVars
  <1> QED
    BY <1>1, <1>2, <1>3, <1>4, <1>5, <1>6, <1>7, <1>8, <1>9, <1>10, <1>11 DEF HookStep

LEMMA TypeHost == TypeInv /\ (SpuriousWakeup \/ AddVm \/ DetachVm) => TypeInv'
  <1> SUFFICES ASSUME TypeInv, SpuriousWakeup \/ AddVm \/ DetachVm PROVE TypeInv'
    OBVIOUS
  <1>1. CASE SpuriousWakeup
    BY <1>1
    DEF SpuriousWakeup, TypeInv, TypeOK, BMTypeOK, HandlesUnique, HookPC, pauseData, vmData,
        hookLocals, clientVars
  <1>2. CASE AddVm
    BY <1>2
    DEF AddVm, TypeInv, TypeOK, BMTypeOK, HandlesUnique, pauseData, hookLocals, clientVars
  <1>3. CASE DetachVm
    <2>1. DOMAIN EmptyTable = {} /\ EmptyTable \in [DOMAIN EmptyTable -> Nat]
      BY DEF EmptyTable
    <2>2. pauseRequested' \in PauseType /\ vmpc' \in HookPC
      BY <1>3 DEF DetachVm, NotifyAll, TypeInv, TypeOK, PauseType, HookPC
    <2>3. currentStack' \in Seq([handle : Nat, line : Line])
      BY <1>3 DEF DetachVm
    <2> QED
      BY <1>3, <2>1, <2>2, <2>3
      DEF DetachVm, TypeInv, TypeOK, BMTypeOK, HandlesUnique, hookLocals, clientVars
  <1> QED
    BY <1>1, <1>2, <1>3

\* The parts of TypeOK: what the clients keep, and what they and the hook share.
ClientTypeOK ==
    /\ pc \in [Client -> ClientPC]
    /\ snapshot \in [Client -> RunState]
    /\ reply \in [Client -> ReturnCode]

SharedTypeOK ==
    /\ GoodMap(bm)
    /\ pauseRequested \in PauseType
    /\ isPaused \in BOOLEAN
    /\ returnsRequired \in Int
    /\ status \in [breakpoint : BreakpointId \cup {NoBreakpoint}, stack : Seq(StackEntry)]
    /\ mutex \in {"none", "vm"} \cup Client
    /\ vmpc \in HookPC

\* A client that goes on or finishes keeps the type of what the clients keep.
LEMMA GoToType ==
    ASSUME ClientTypeOK, NEW c \in Client, NEW at \in ClientPC, GoTo(c, at)
    PROVE  ClientTypeOK'
  BY DEF ClientTypeOK, GoTo

LEMMA DoneType ==
    ASSUME ClientTypeOK, NEW c \in Client, NEW code \in ReturnCode, Done(c, code)
    PROVE  ClientTypeOK'
  BY DEF ClientTypeOK, Done, ClientPC

\* No command touches the script's own data: the rest of TypeOK stays.
LEMMA ClientKeepsScript ==
    ASSUME TypeInv, ScriptUnchanged, SharedTypeOK', ClientTypeOK'
    PROVE  TypeInv'
  BY DEF TypeInv, TypeOK, SharedTypeOK, ClientTypeOK, ScriptUnchanged, vmData, hookLocals,
         GoodMap, BMTypeOK, HandlesUnique

\* A request that passes the checks is one that the map can take.
LEMMA ValidRequest ==
    ASSUME NEW bps \in Requests, Valid(bps)
    PROVE  bps \in BreakpointLists
  <1>1. PICK n \in 0 .. MaxBreakpoints :
           bps \in [1 .. n -> [id : BreakpointId \cup {0}, line : Line \cup {0}]]
    BY DEF Requests
  <1>2. bps \in [1 .. n -> Breakpoints]
    BY <1>1 DEF Valid, Breakpoints
  <1> QED
    BY <1>2 DEF BreakpointLists

LEMMA TypeCommand == ASSUME TypeInv, NEW c \in Client, Command(c) PROVE TypeInv'
  <1>1. SharedTypeOK /\ ClientTypeOK
    BY DEF TypeInv, TypeOK, SharedTypeOK, ClientTypeOK, GoodMap, BMTypeOK, HandlesUnique
  <1> USE DEF ReturnCode, ClientPC
  <1>2. CASE CheckPause(c)
    <2>1. ClientTypeOK' BY <1>1, <1>2, GoToType, DoneType DEF CheckPause
    <2>2. SharedTypeOK' BY <1>1, <1>2 DEF CheckPause, SharedTypeOK, pauseData, GoodMap
    <2> QED BY <1>2, <2>1, <2>2, ClientKeepsScript DEF CheckPause
  <1>3. CASE CheckContinue(c)
    <2>1. ClientTypeOK' BY <1>1, <1>3, GoToType, DoneType DEF CheckContinue
    <2>2. SharedTypeOK' BY <1>1, <1>3 DEF CheckContinue, SharedTypeOK, pauseData, GoodMap
    <2> QED BY <1>3, <2>1, <2>2, ClientKeepsScript DEF CheckContinue
  <1>4. ASSUME NEW pauseType \in PauseType, NEW returns \in Int, Step(c, pauseType, returns)
        PROVE  TypeInv'
    <2>1. ClientTypeOK' BY <1>1, <1>4, DoneType DEF Step
    <2>2. SharedTypeOK' BY <1>1, <1>4 DEF Step, SharedTypeOK, NotifyAll, HookPC, GoodMap
    <2> QED BY <1>4, <2>1, <2>2, ClientKeepsScript DEF Step
  <1>5. ASSUME NEW valid \in BOOLEAN, Inspect(c, valid)
        PROVE  TypeInv'
    <2>1. ClientTypeOK' BY <1>1, <1>5, GoToType, DoneType DEF Inspect
    <2>2. SharedTypeOK' BY <1>1, <1>5 DEF Inspect, SharedTypeOK, pauseData, GoodMap
    <2> QED BY <1>5, <2>1, <2>2, ClientKeepsScript DEF Inspect
  <1>6. ASSUME NEW parses \in BOOLEAN, GetImmediateValue(c, parses)
        PROVE  TypeInv'
    <2>1. CASE parses
      BY <1>5, <1>6, <2>1 DEF GetImmediateValue
    <2>2. CASE ~parses
      <3>1. ClientTypeOK' BY <1>1, <1>6, <2>2, DoneType DEF GetImmediateValue
      <3>2. SharedTypeOK'
        BY <1>1, <1>6, <2>2 DEF GetImmediateValue, SharedTypeOK, pauseData, GoodMap
      <3> QED BY <1>6, <2>2, <3>1, <3>2, ClientKeepsScript DEF GetImmediateValue
    <2> QED BY <2>1, <2>2
  <1>7. CASE CopyStatus(c)
    <2>1. ClientTypeOK'
      BY <1>1, <1>7
      DEF CopyStatus, ClientTypeOK, CurrentRunState, SharedTypeOK, PauseType, RunState
    <2>2. SharedTypeOK' BY <1>1, <1>7 DEF CopyStatus, SharedTypeOK, pauseData, GoodMap
    <2> QED BY <1>7, <2>1, <2>2, ClientKeepsScript DEF CopyStatus
  <1>8. ASSUME NEW file \in FileName, NEW bps \in Requests, SetFileBreakpoints(c, file, bps)
        PROVE  TypeInv'
    <2>1. ClientTypeOK' BY <1>1, <1>8, DoneType DEF SetFileBreakpoints
    <2>2. Valid(bps) => bps \in BreakpointLists
      BY <1>8, ValidRequest
    <2>3. GoodMap(bm')
      BY <1>1, <1>8, <2>2, ReplacedMap DEF SetFileBreakpoints, SharedTypeOK
    <2>4. SharedTypeOK' BY <1>1, <1>8, <2>3 DEF SetFileBreakpoints, SharedTypeOK, GoodMap
    <2> QED BY <1>8, <2>1, <2>4, ClientKeepsScript DEF SetFileBreakpoints
  <1>9. CASE StepOut(c) \/ StepOver(c) \/ StepIn(c)
    BY <1>4, <1>9 DEF StepOut, StepOver, StepIn, PauseType
  <1>10. ASSUME NEW stackFrame \in 0 .. MaxDepth + 1,
                GetStackVariables(c, stackFrame) \/ SetStackVariableValue(c, stackFrame)
         PROVE  TypeInv'
    <2>1. (stackFrame <= Len(currentStack)) \in BOOLEAN
      OBVIOUS
    <2>2. Inspect(c, stackFrame <= Len(currentStack))
      BY <1>10 DEF GetStackVariables, SetStackVariableValue
    <2> QED
      BY <1>5, <2>1, <2>2
  <1>11. CASE GetGlobalVariables(c)
    BY <1>5, <1>11 DEF GetGlobalVariables
  <1> QED
    BY <1>2, <1>3, <1>6, <1>7, <1>8, <1>9, <1>10, <1>11 DEF Command

LEMMA TypeCommandStep == ASSUME TypeInv, NEW c \in Client, CommandStep(c) PROVE TypeInv'
  <1>1. SharedTypeOK /\ ClientTypeOK
    BY DEF TypeInv, TypeOK, SharedTypeOK, ClientTypeOK, GoodMap, BMTypeOK, HandlesUnique
  <1> USE DEF ReturnCode, ClientPC
  <1>2. CASE RequestPause(c)
    <2>1. ClientTypeOK' BY <1>1, <1>2, GoToType, DoneType DEF RequestPause
    <2>2. SharedTypeOK' BY <1>1, <1>2 DEF RequestPause, SharedTypeOK, PauseType, GoodMap
    <2> QED BY <1>2, <2>1, <2>2, ClientKeepsScript DEF RequestPause
  <1>3. CASE SetPauseReturns(c)
    <2>1. ClientTypeOK' BY <1>1, <1>3, DoneType DEF SetPauseReturns
    <2>2. SharedTypeOK' BY <1>1, <1>3 DEF SetPauseReturns, SharedTypeOK, GoodMap
    <2> QED BY <1>3, <2>1, <2>2, ClientKeepsScript DEF SetPauseReturns
  <1>4. CASE ReleaseScript(c)
    <2>1. ClientTypeOK' BY <1>1, <1>4, DoneType DEF ReleaseScript
    <2>2. SharedTypeOK'
      BY <1>1, <1>4 DEF ReleaseScript, SharedTypeOK, PauseType, HookPC, NotifyAll, GoodMap
    <2> QED BY <1>4, <2>1, <2>2, ClientKeepsScript DEF ReleaseScript
  <1>5. CASE EndInspection(c)
    <2>1. ClientTypeOK' BY <1>1, <1>5, DoneType DEF EndInspection, InspectionResult
    <2>2. SharedTypeOK' BY <1>1, <1>5 DEF EndInspection, SharedTypeOK, pauseData, GoodMap
    <2> QED BY <1>5, <2>1, <2>2, ClientKeepsScript DEF EndInspection
  <1>6. CASE DeliverStatus(c)
    <2>1. ClientTypeOK' BY <1>1, <1>6 DEF DeliverStatus, ClientTypeOK, RunState
    <2>2. SharedTypeOK'
      BY <1>1, <1>6 DEF DeliverStatus, SharedTypeOK, ClientTypeOK, pauseData, GoodMap
    <2> QED BY <1>6, <2>1, <2>2, ClientKeepsScript DEF DeliverStatus
  <1>7. CASE TakeReply(c)
    <2>1. ClientTypeOK' BY <1>1, <1>7 DEF TakeReply, ClientTypeOK
    <2>2. SharedTypeOK' BY <1>1, <1>7 DEF TakeReply, SharedTypeOK, pauseData, GoodMap
    <2> QED BY <1>7, <2>1, <2>2, ClientKeepsScript DEF TakeReply
  <1> QED
    BY <1>2, <1>3, <1>4, <1>5, <1>6, <1>7 DEF CommandStep

LEMMA TypeStep == TypeInv /\ CallHasFrame /\ [Next]_vars => TypeInv'
  <1> SUFFICES ASSUME TypeInv, CallHasFrame, [Next]_vars PROVE TypeInv'
    OBVIOUS
  <1>1. CASE Next
    BY <1>1, TypeScript, TypeHook, TypeHost, TypeCommand, TypeCommandStep DEF Next
  <1>2. CASE UNCHANGED vars
    BY <1>2
    DEF vars, pauseData, vmData, hookLocals, clientVars, TypeInv, TypeOK, BMTypeOK, HandlesUnique
  <1> QED
    BY <1>1, <1>2

-----------------------------------------------------------------------------
(* The mutex, and the pause *)

\* Who holds the mutex from one step to the next: the hook that announces a
\* pause, a client in the middle of PauseExecution, or one that works on the VM.
\* A hook that has crashed held it, a callback that has did not.
MutexInv ==
    /\ mutex = "vm" => vmpc \in {"notify", "crashed"}
    /\ vmpc = "notify" => mutex = "vm"
    /\ \A c \in Client : mutex = c <=> pc[c] \in {"pausing", "inspecting"}

\* A hook that announces its pause or waits has isPaused and a request behind
\* it; isPaused is never set without a stopped hook of an attached VM; a client
\* that works on the VM has seen isPaused, and it stays so.
PauseInv ==
    /\ vmpc \in {"notify", "waiting"} => isPaused /\ attached /\ pauseRequested # "None"
    /\ isPaused => \/ vmpc = "crashed" /\ mutex = "vm"
                   \/ attached /\ vmpc \in {"notify", "waiting", "woken"}
    /\ \A c \in Client : pc[c] = "inspecting" => isPaused /\ vmpc \in {"waiting", "woken"}

\* What the hook and the commands rely on.
Safe == TypeInv /\ CallHasFrame /\ MutexInv /\ PauseInv

LEMMA SafeInit == Init => Safe
  <1> SUFFICES ASSUME Init PROVE Safe
    OBVIOUS
  <1>1. TypeInv
    BY TypeInit
  <1>2. CallHasFrame /\ PauseInv
    BY DEF Init, CallHasFrame, PauseInv
  <1>3. MutexInv
    BY ThreadAssumption DEF Init, MutexInv
  <1> QED
    BY <1>1, <1>2, <1>3 DEF Safe

\* Outside the hook's announcement and wait, the script thread neither holds
\* the mutex nor is paused.
LEMMA ScriptSafe ==
    ASSUME TypeInv, CallHasFrame, MutexInv, PauseInv, ScriptStep
    PROVE  CallHasFrame' /\ MutexInv' /\ PauseInv'
  <1>1. ASSUME NEW file \in ScriptFile, NEW line \in Line, ScriptCall(file, line)
        PROVE  CallHasFrame' /\ MutexInv' /\ PauseInv'
    <2>1. frames' # <<>>
      BY <1>1 DEF ScriptCall, TypeInv, TypeOK
    <2>2. vmpc = "script" /\ vmpc' \in {"script", "lookup", "push"}
      BY <1>1 DEF ScriptCall
    <2>3. UNCHANGED <<mutex, isPaused, attached, pauseRequested, pc>>
      BY <1>1 DEF ScriptCall, pauseData, vmData, clientVars
    <2> QED
      BY <2>1, <2>2, <2>3 DEF CallHasFrame, MutexInv, PauseInv
  <1>2. ASSUME ScriptReturn \/ ScriptPrint \/ \E line \in Line : ScriptLine(line)
        PROVE  CallHasFrame' /\ MutexInv' /\ PauseInv'
    <2>1. vmpc = "script" /\ vmpc' \in {"script", "returning", "line", "printing"}
      BY <1>2 DEF ScriptReturn, ScriptLine, ScriptPrint
    <2>2. UNCHANGED <<mutex, isPaused, attached, pauseRequested, pc>>
      BY <1>2 DEF ScriptReturn, ScriptLine, ScriptPrint, pauseData, vmData, clientVars
    <2> QED
      BY <2>1, <2>2 DEF CallHasFrame, MutexInv, PauseInv
  <1> QED
    BY <1>1, <1>2 DEF ScriptStep

LEMMA HookSafe ==
    ASSUME TypeInv, CallHasFrame, MutexInv, PauseInv, HookStep
    PROVE  CallHasFrame' /\ MutexInv' /\ PauseInv'
  <1> USE DEF CallHasFrame, MutexInv, PauseInv
  <1>1. CASE LookupHandle
    BY <1>1 DEF LookupHandle, clientVars
  <1>2. CASE PushFrame
    BY <1>2 DEF PushFrame, pauseData, clientVars
  <1>3. CASE ReadReturns
    BY <1>3 DEF ReadReturns, pauseData, vmData, clientVars
  <1>4. CASE WriteReturns
    BY <1>4 DEF WriteReturns, vmData, clientVars
  <1>5. CASE CountReturn
    BY <1>5 DEF CountReturn, vmData, clientVars
  <1>6. CASE LineRuns
    BY <1>6 DEF LineRuns, pauseData, vmData, clientVars
  <1>7. CASE LinePauses
    <2>1. pauseRequested' # "None"
      BY <1>7 DEF LinePauses, Stops
    <2>2. mutex = "none" /\ mutex' = "vm" /\ isPaused' = TRUE /\ pc' = pc
          /\ vmpc' = (IF attached THEN "notify" ELSE "crashed") /\ attached' = attached
      BY <1>7 DEF LinePauses, Free, vmData, clientVars
    <2>3. \A c \in Client : c # "none" /\ c # "vm"
      BY ThreadAssumption
    <2> QED
      BY <2>1, <2>2, <2>3
  <1>8. CASE NotifyAndWait
    <2>1. \A c \in Client : c # "none" /\ c # "vm"
      BY ThreadAssumption
    <2>2. /\ vmpc = "notify" /\ vmpc' = "waiting" /\ mutex' = "none"
          /\ UNCHANGED <<isPaused, attached, pauseRequested, pc>>
      BY <1>8 DEF NotifyAndWait, pauseData, vmData, clientVars
    <2> QED
      BY <2>1, <2>2
  <1>9. CASE Resume
    <2>1. /\ vmpc = "woken" /\ vmpc' = "script" /\ mutex = "none" /\ isPaused' = FALSE
          /\ UNCHANGED <<mutex, attached, pauseRequested, pc>>
      BY <1>9 DEF Resume, Free, vmData, clientVars
    <2>2. \A c \in Client : c # "none" /\ c # "vm"
      BY ThreadAssumption
    <2> QED
      BY <2>1, <2>2
  <1>10. CASE ReadOutput \/ HandleOutputLine
    <2>1. /\ vmpc \in {"printing", "sending"} /\ vmpc' \in {"sending", "crashed", "script"}
          /\ UNCHANGED <<mutex, isPaused, attached, pauseRequested, pc, frames>>
      BY <1>10 DEF ReadOutput, HandleOutputLine, pauseData, vmData, clientVars
    <2> QED
      BY <2>1
  <1> QED
    BY <1>1, <1>2, <1>3, <1>4, <1>5, <1>6, <1>7, <1>8, <1>9, <1>10 DEF HookStep

LEMMA HostSafe ==
    ASSUME TypeInv, CallHasFrame, MutexInv, PauseInv, SpuriousWakeup \/ AddVm \/ DetachVm
    PROVE  CallHasFrame' /\ MutexInv' /\ PauseInv'
  <1>1. \A c \in Client : c # "none" /\ c # "vm"
    BY ThreadAssumption
  <1> USE DEF CallHasFrame, MutexInv, PauseInv
  <1>2. CASE SpuriousWakeup
    BY <1>2 DEF SpuriousWakeup, pauseData, vmData, clientVars
  <1>3. CASE AddVm
    BY <1>3 DEF AddVm, pauseData, clientVars
  <1>4. CASE DetachVm
    <2>1. /\ mutex = "none" /\ mutex' = mutex /\ pc' = pc /\ frames' = frames
          /\ isPaused' = FALSE
      BY <1>4 DEF DetachVm, Free, clientVars
    <2>2. vmpc' # "waiting" /\ (vmpc' = vmpc \/ (vmpc = "waiting" /\ vmpc' = "woken"))
      BY <1>4 DEF DetachVm, NotifyAll
    <2>3. \A c \in Client : pc[c] # "inspecting"
      BY <1>1, <2>1
    <2> QED
      BY <1>1, <2>1, <2>2, <2>3
  <1> QED
    BY <1>2, <1>3, <1>4

\* What a command may do to the mutex, the pause and the hook.
Untouched == UNCHANGED <<mutex, isPaused, attached, pauseRequested, vmpc, frames>>

\* A client that neither takes nor gives back the mutex.
LEMMA QuietSafe ==
    ASSUME TypeInv, CallHasFrame, MutexInv, PauseInv, NEW c \in Client, Untouched,
           NEW at \in ClientPC \ {"pausing", "inspecting"},
           pc' = [pc EXCEPT ![c] = at], pc[c] \notin {"pausing", "inspecting"}
    PROVE  CallHasFrame' /\ MutexInv' /\ PauseInv'
  <1>1. pc \in [Client -> ClientPC]
    BY DEF TypeInv, TypeOK
  <1>2. \A d \in Client : pc'[d] = IF d = c THEN at ELSE pc[d]
    BY <1>1
  <1> QED
    BY <1>2 DEF CallHasFrame, MutexInv, PauseInv, Untouched

\* A client that withdraws the request or sets another one, and wakes the hook.
LEMMA WakeSafe ==
    ASSUME TypeInv, CallHasFrame, MutexInv, PauseInv, NEW c \in Client,
           Free, NotifyAll, UNCHANGED <<mutex, isPaused, attached, frames>>,
           pc' = [pc EXCEPT ![c] = "done"]
    PROVE  CallHasFrame' /\ MutexInv' /\ PauseInv'
  <1>1. pc \in [Client -> ClientPC]
    BY DEF TypeInv, TypeOK
  <1>2. \A d \in Client : pc'[d] = IF d = c THEN "done" ELSE pc[d]
    BY <1>1
  <1>3. \A d \in Client : d # "none" /\ d # "vm"
    BY ThreadAssumption
  <1>4. vmpc' # "waiting" /\ (vmpc' = vmpc \/ (vmpc = "waiting" /\ vmpc' = "woken"))
    BY DEF NotifyAll
  <1> QED
    BY <1>2, <1>3, <1>4 DEF CallHasFrame, MutexInv, PauseInv, Free

LEMMA CommandSafe ==
    ASSUME TypeInv, CallHasFrame, MutexInv, PauseInv, NEW c \in Client, Command(c)
    PROVE  CallHasFrame' /\ MutexInv' /\ PauseInv'
  <1>1. Start(c) /\ pc[c] \notin {"pausing", "inspecting"} /\ ScriptUnchanged
    BY DEF Command, CheckPause, CheckContinue, StepOut, StepOver, StepIn, Step,
           GetStackVariables, SetStackVariableValue, GetGlobalVariables, GetImmediateValue,
           Inspect, CopyStatus, SetFileBreakpoints, Start
  <1>2. attached' = attached /\ frames' = frames
    BY <1>1 DEF ScriptUnchanged, vmData
  <1>3. CASE CheckPause(c) \/ CheckContinue(c) \/ CopyStatus(c)
    <2>1. Untouched
      BY <1>2, <1>3 DEF CheckPause, CheckContinue, CopyStatus, Untouched, pauseData
    <2>2. \E at \in {"requestPause", "releasing", "delivering", "done"} : pc' = [pc EXCEPT ![c] = at]
      BY <1>3 DEF CheckPause, CheckContinue, CopyStatus, GoTo, Done
    <2> QED
      BY <1>1, <2>1, <2>2, QuietSafe DEF ClientPC
  <1>4. ASSUME NEW pauseType, NEW returns, Step(c, pauseType, returns)
        PROVE  CallHasFrame' /\ MutexInv' /\ PauseInv'
    <2>1. CASE isPaused
      BY <1>2, <1>4, <2>1, WakeSafe DEF Step, Done
    <2>2. CASE ~isPaused
      BY <1>1, <1>2, <1>4, <2>2, QuietSafe DEF Step, Done, Untouched, ClientPC
    <2> QED
      BY <2>1, <2>2
  <1>5. ASSUME NEW valid, Inspect(c, valid)
        PROVE  CallHasFrame' /\ MutexInv' /\ PauseInv'
    <2>1. CASE mutex' = c /\ isPaused /\ GoTo(c, "inspecting")
      <3>1. pc \in [Client -> ClientPC]
        BY DEF TypeInv, TypeOK
      <3>2. \A d \in Client : pc'[d] = IF d = c THEN "inspecting" ELSE pc[d]
        BY <2>1, <3>1 DEF GoTo
      <3>3. /\ mutex = "none" /\ UNCHANGED <<isPaused, pauseRequested, vmpc>>
        BY <1>5 DEF Inspect, Free, pauseData
      <3>4. \A d \in Client : d # "none" /\ d # "vm"
        BY ThreadAssumption
      <3>5. vmpc \in {"waiting", "woken"}
        BY <2>1, <3>3 DEF MutexInv, PauseInv
      <3> QED
        BY <1>2, <2>1, <3>2, <3>3, <3>4, <3>5 DEF CallHasFrame, MutexInv, PauseInv
    <2>2. CASE mutex' = mutex /\ pc' = [pc EXCEPT ![c] = "done"]
      BY <1>1, <1>2, <1>5, <2>2, QuietSafe DEF Inspect, Untouched, pauseData, ClientPC
    <2> QED
      BY <1>5, <2>1, <2>2 DEF Inspect, Done
  <1>6. ASSUME NEW parses \in BOOLEAN, GetImmediateValue(c, parses)
        PROVE  CallHasFrame' /\ MutexInv' /\ PauseInv'
    <2>1. CASE parses
      BY <1>5, <1>6, <2>1 DEF GetImmediateValue
    <2>2. CASE ~parses
      BY <1>1, <1>2, <1>6, <2>2, QuietSafe
      DEF GetImmediateValue, Untouched, Done, pauseData, ClientPC
    <2> QED
      BY <2>1, <2>2
  <1>7. ASSUME NEW file, NEW bps, SetFileBreakpoints(c, file, bps)
        PROVE  CallHasFrame' /\ MutexInv' /\ PauseInv'
    BY <1>1, <1>2, <1>7, QuietSafe DEF SetFileBreakpoints, Untouched, Done, ClientPC
  <1>8. CASE StepOut(c) \/ StepOver(c) \/ StepIn(c)
    BY <1>4, <1>8 DEF StepOut, StepOver, StepIn
  <1>9. ASSUME NEW stackFrame \in 0 .. MaxDepth + 1,
               GetStackVariables(c, stackFrame) \/ SetStackVariableValue(c, stackFrame)
        PROVE  CallHasFrame' /\ MutexInv' /\ PauseInv'
    BY <1>5, <1>9 DEF GetStackVariables, SetStackVariableValue
  <1>10. CASE GetGlobalVariables(c)
    BY <1>5, <1>10 DEF GetGlobalVariables
  <1> QED
    BY <1>3, <1>6, <1>7, <1>8, <1>9, <1>10 DEF Command

LEMMA CommandStepSafe ==
    ASSUME TypeInv, CallHasFrame, MutexInv, PauseInv, NEW c \in Client, CommandStep(c)
    PROVE  CallHasFrame' /\ MutexInv' /\ PauseInv'
  <1>1. attached' = attached /\ frames' = frames
    BY DEF CommandStep, RequestPause, SetPauseReturns, ReleaseScript, EndInspection,
           DeliverStatus, TakeReply, ScriptUnchanged, vmData
  <1>2. pc \in [Client -> ClientPC]
    BY DEF TypeInv, TypeOK
  <1>3. \A d \in Client : d # "none" /\ d # "vm"
    BY ThreadAssumption
  <1>4. CASE RequestPause(c)
    <2>1. CASE pauseRequested = "None"
      <3>1. /\ mutex = "none" /\ mutex' = c /\ pauseRequested' = "StepIn"
            /\ UNCHANGED <<isPaused, vmpc>>
            /\ \A d \in Client : pc'[d] = IF d = c THEN "pausing" ELSE pc[d]
        BY <1>2, <1>4, <2>1 DEF RequestPause, Free, GoTo
      <3> QED
        BY <1>1, <1>3, <3>1 DEF CallHasFrame, MutexInv, PauseInv
    <2>2. CASE pauseRequested # "None"
      BY <1>1, <1>4, <2>2, QuietSafe DEF RequestPause, Untouched, Done, ClientPC
    <2> QED
      BY <2>1, <2>2
  <1>5. CASE SetPauseReturns(c) \/ EndInspection(c)
    <2>1. /\ pc[c] \in {"pausing", "inspecting"} /\ mutex' = "none"
          /\ UNCHANGED <<isPaused, vmpc, pauseRequested>>
          /\ \A d \in Client : pc'[d] = IF d = c THEN "done" ELSE pc[d]
      BY <1>2, <1>5 DEF SetPauseReturns, EndInspection, Done, pauseData
    <2> QED
      BY <1>1, <1>3, <2>1 DEF CallHasFrame, MutexInv, PauseInv
  <1>6. CASE ReleaseScript(c)
    <2>1. CASE pauseRequested # "None"
      BY <1>1, <1>6, <2>1, WakeSafe DEF ReleaseScript, Done
    <2>2. CASE pauseRequested = "None"
      BY <1>1, <1>6, <2>2, QuietSafe DEF ReleaseScript, Untouched, Done, ClientPC
    <2> QED
      BY <2>1, <2>2
  <1>7. CASE DeliverStatus(c) \/ TakeReply(c)
    <2>1. \E at \in {"idle", "done"} : pc' = [pc EXCEPT ![c] = at]
      BY <1>7 DEF DeliverStatus, TakeReply
    <2>2. pc[c] \notin {"pausing", "inspecting"}
      BY <1>7 DEF DeliverStatus, TakeReply
    <2> QED
      BY <1>1, <1>7, <2>1, <2>2, QuietSafe
      DEF DeliverStatus, TakeReply, Untouched, pauseData, ClientPC
  <1> QED
    BY <1>4, <1>5, <1>6, <1>7 DEF CommandStep

LEMMA SafeStep == Safe /\ [Next]_vars => Safe'
  <1> SUFFICES ASSUME TypeInv, CallHasFrame, MutexInv, PauseInv, [Next]_vars PROVE Safe'
    BY DEF Safe
  <1>1. TypeInv'
    BY TypeStep
  <1>2. CASE Next
    BY <1>1, <1>2, ScriptSafe, HookSafe, HostSafe, CommandSafe, CommandStepSafe DEF Next, Safe
  <1>3. CASE UNCHANGED vars
    BY <1>1, <1>3 DEF vars, pauseData, vmData, clientVars, Safe, CallHasFrame, MutexInv, PauseInv
  <1> QED
    BY <1>2, <1>3

LEMMA AlwaysSafe == Spec => []Safe
  BY SafeInit, SafeStep, PTL DEF Spec

\* Every variable keeps its type, and the breakpoint map never holds two
\* handles for one file, whatever the clients and the host do meanwhile.
THEOREM DebuggerTypes == Spec => [](TypeOK /\ HandlesUnique)
  <1>1. Safe => TypeOK /\ HandlesUnique
    BY DEF Safe, TypeInv
  <1> QED
    BY <1>1, AlwaysSafe, PTL

\* While a client reads or writes variables of the VM, the script thread is
\* blocked in its wait, the VM is attached and no other client is inside.
THEOREM InspectionIsSafe == Spec => []StoppedWhileInspected
  <1>1. Safe => StoppedWhileInspected
    BY DEF Safe, MutexInv, PauseInv, StoppedWhileInspected
  <1> QED
    BY <1>1, AlwaysSafe, PTL

\* The script never waits for a notification that has already been sent, nor
\* for a command that would be refused.
THEOREM WakeupsAreNotLost == Spec => []NoLostWakeup
  <1>1. Safe => NoLostWakeup
    BY DEF Safe, PauseInv, NoLostWakeup
  <1> QED
    BY <1>1, AlwaysSafe, PTL

-----------------------------------------------------------------------------
(* Stacks, element by element *)

LEMMA FrontElements ==
    ASSUME NEW A, NEW s \in Seq(A), s # <<>>
    PROVE  /\ Front(s) \in Seq(A)
           /\ Len(Front(s)) = Len(s) - 1
           /\ \A i \in 1 .. Len(s) - 1 : Front(s)[i] = s[i]
           /\ Front(s) = <<>> => Len(s) = 1
  <1>1. PICK n \in Nat : Len(s) = n + 1
    <2>1. Len(s) \in Nat /\ Len(s) # 0
      OBVIOUS
    <2>2. Len(s) - 1 \in Nat /\ Len(s) = (Len(s) - 1) + 1
      BY <2>1
    <2> QED
      BY <2>2
  <1>2. Front(s) = SubSeq(s, 1, n)
    BY <1>1 DEF Front
  <1>3. \A i \in 1 .. n : s[i] \in A
    BY <1>1
  <1>4. /\ Front(s) \in Seq(A)
        /\ Len(Front(s)) = IF 1 <= n THEN n - 1 + 1 ELSE 0
        /\ \A i \in 1 .. n - 1 + 1 : Front(s)[i] = s[1 + i - 1]
    BY <1>2, <1>3, SubSeqProperties
  <1>5. Len(Front(s)) = n /\ \A i \in 1 .. n : Front(s)[i] = s[i]
    <2>1. n - 1 + 1 = n /\ (~(1 <= n) => n = 0) /\ \A i \in 1 .. n : 1 + i - 1 = i
      OBVIOUS
    <2> QED
      BY <1>4, <2>1
  <1>6. Front(s) = <<>> => n = 0
    BY <1>5
  <1> QED
    BY <1>1, <1>4, <1>5, <1>6

LEMMA AppendElements ==
    ASSUME NEW A, NEW s \in Seq(A), NEW e \in A
    PROVE  LET t == Append(s, e)
           IN  /\ t \in Seq(A) /\ t # <<>>
               /\ Len(t) = Len(s) + 1
               /\ \A i \in 1 .. Len(s) : t[i] = s[i]
               /\ t[Len(s) + 1] = e
               /\ Last(t) = e
               /\ Front(t) = s
  <1> DEFINE t == Append(s, e)
  <1>1. /\ t \in Seq(A) /\ t # <<>> /\ Len(t) = Len(s) + 1 /\ Len(s) \in Nat
        /\ \A i \in 1 .. Len(s) : t[i] = s[i]
        /\ t[Len(s) + 1] = e
    OBVIOUS
  <1>2. /\ Front(t) \in Seq(A) /\ Len(Front(t)) = Len(s)
        /\ \A i \in 1 .. Len(s) : Front(t)[i] = s[i]
    <2> HIDE DEF t
    <2> QED
      BY <1>1, FrontElements
  <1>3. Front(t) = s
    <2> HIDE DEF t
    <2> QED
      BY <1>2, SeqEqual
  <1> QED
    BY <1>1, <1>3 DEF Last

\* Only the line of the top frame changes.
LEMMA TopLineElements ==
    ASSUME NEW A, NEW s \in Seq(A), s # <<>>, NEW line,
           \A e \in A : /\ [e EXCEPT !.line = line].line = line
                        /\ e.file = [e EXCEPT !.line = line].file
                        /\ e.handle = [e EXCEPT !.line = line].handle
    PROVE  LET t == WithTopLine(s, line)
           IN  /\ Len(t) = Len(s)
               /\ \A i \in 1 .. Len(s) - 1 : t[i] = s[i]
               /\ t[Len(s)].line = line
               /\ t[Len(s)].file = s[Len(s)].file
               /\ t[Len(s)].handle = s[Len(s)].handle
  <1>1. Len(s) \in Nat /\ Len(s) > 0 /\ DOMAIN s = 1 .. Len(s) /\ s[Len(s)] \in A
    OBVIOUS
  <1>2. WithTopLine(s, line) =
          [i \in 1 .. Len(s) |-> IF i = Len(s) THEN [s[i] EXCEPT !.line = line] ELSE s[i]]
    BY <1>1 DEF WithTopLine
  <1> QED
    BY <1>1, <1>2

-----------------------------------------------------------------------------
(* Handles that have been given out *)

\* The handle that a map has for a file.
HandleIn(m, h, file) == h # NullHandle /\ FindFileNameHandle(m, file) = h
HandleOf(h, file)    == HandleIn(bm, h, file)

\* Whatever happens to the map, a handle that has been given out stays.
HandlesStay ==
    \A file \in FileName :
        FindFileNameHandle(bm, file) # NullHandle
            => FindFileNameHandle(bm', file) = FindFileNameHandle(bm, file)

LEMMA HandleStays ==
    ASSUME HandlesStay, NEW file \in FileName, NEW h, HandleOf(h, file)
    PROVE  HandleIn(bm', h, file)
  BY DEF HandlesStay, HandleOf, HandleIn

LEMMA SameMapStays == bm' = bm => HandlesStay
  BY DEF HandlesStay

\* A handle of a file is in the map, with the file's name.
LEMMA HandleIsKnown ==
    ASSUME TypeInv, NEW file \in FileName, NEW h, HandleOf(h, file)
    PROVE  h \in Handles(bm) /\ bm.fileNames[h] = Lower[file]
  <1>1. GoodMap(bm)
    BY DEF TypeInv, TypeOK, BMTypeOK, HandlesUnique, GoodMap
  <1> QED
    BY <1>1, FindIsTheHandle DEF HandleOf, HandleIn

-----------------------------------------------------------------------------
(* The invariant *)

\* A frame of the copy stands for a frame of the VM's stack.
StandsFor(copy, frame) == HandleOf(copy.handle, frame.file) /\ copy.line = frame.line

\* The frames of the copy are those that have been announced.
Mirror ==
    attached =>
        /\ Len(currentStack) = Len(Announced)
        /\ \A i \in 1 .. Len(currentStack) : StandsFor(currentStack[i], Announced[i])

\* Without a VM nothing is remembered, and no hook is at work.
DetachedInv ==
    ~attached => /\ currentStack = <<>> /\ DOMAIN fileNameHandles = {}
                 /\ vmpc \in {"script", "woken"}

\* The handles that the hook has cached, for one source and for all; the hook
\* of a line and the callback have a frame, and nothing crashes.
HookInv ==
    /\ \A file \in DOMAIN fileNameHandles : HandleOf(fileNameHandles[file], file)
    /\ vmpc = "push" => HandleOf(handle, Last(frames).file)
    /\ vmpc \in {"line", "printing", "sending"} => frames # <<>>
    /\ vmpc = "sending" => StandsFor(output, Last(frames))
    /\ vmpc # "crashed"

MirrorInv == Mirror /\ DetachedInv /\ HookInv

LEMMA MirrorInit == Init => MirrorInv
  <1> SUFFICES ASSUME Init PROVE MirrorInv
    OBVIOUS
  <1>1. ~attached /\ currentStack = <<>> /\ fileNameHandles = EmptyTable /\ vmpc = "script"
    BY DEF Init
  <1>2. DOMAIN fileNameHandles = {}
    BY <1>1 DEF EmptyTable
  <1> QED
    BY <1>1, <1>2 DEF MirrorInv, Mirror, DetachedInv, HookInv

\* The files of frames are names of files.
LEMMA FrameFiles ==
    ASSUME TypeInv
    PROVE  /\ \A i \in 1 .. Len(frames) : frames[i].file \in FileName
           /\ frames # <<>> => Last(frames).file \in FileName
           /\ \A file \in DOMAIN fileNameHandles : file \in FileName
  <1>1. /\ frames \in Seq(StackEntry) /\ DOMAIN fileNameHandles \subseteq ScriptFile
        /\ ScriptFile \subseteq FileName
    BY ScriptAssumption DEF TypeInv, TypeOK
  <1>2. \A e \in StackEntry : e.file \in FileName
    BY <1>1 DEF StackEntry
  <1>3. \A i \in 1 .. Len(frames) : frames[i] \in StackEntry
    BY <1>1
  <1> QED
    BY <1>1, <1>2, <1>3, LastType

LEMMA AnnouncedFiles ==
    ASSUME TypeInv, CallHasFrame
    PROVE  \A i \in 1 .. Len(Announced) : Announced[i].file \in FileName
  <1>1. frames \in Seq(StackEntry)
    BY DEF TypeInv, TypeOK
  <1>2. CASE vmpc \in {"lookup", "push"}
    <2>1. frames # <<>>
      BY <1>2 DEF CallHasFrame
    <2>2. \A i \in 1 .. Len(frames) - 1 : i \in 1 .. Len(frames) /\ Front(frames)[i] = frames[i]
      BY <1>1, <2>1, FrontElements
    <2> QED
      BY <1>1, <1>2, <2>1, <2>2, FrontElements, FrameFiles DEF Announced
  <1>3. CASE vmpc \notin {"lookup", "push"}
    BY <1>3, FrameFiles DEF Announced
  <1> QED
    BY <1>2, <1>3

-----------------------------------------------------------------------------
(* Steps that leave the stacks alone *)

QuietHook == {"script", "readReturns", "writeReturns", "returning", "notify", "waiting", "woken"}

\* The stacks stay, handles stay, and the hook stays where it is or goes on to
\* a place of which nothing is promised.
LEMMA QuietMirror ==
    ASSUME TypeInv, CallHasFrame, MirrorInv, HandlesStay,
           UNCHANGED <<attached, currentStack, fileNameHandles, frames>>,
           \/ vmpc' = vmpc /\ UNCHANGED <<handle, output>>
           \/ /\ vmpc \notin {"lookup", "push"} /\ vmpc' \in QuietHook
              /\ attached \/ vmpc' \in {"script", "woken"}
    PROVE  MirrorInv'
  <1>1. Announced' = Announced
    BY DEF Announced, QuietHook
  <1>2. Mirror'
    <2> SUFFICES ASSUME attached
                 PROVE  /\ Len(currentStack) = Len(Announced)
                        /\ \A i \in 1 .. Len(currentStack) :
                              StandsFor(currentStack[i], Announced[i])'
      BY <1>1 DEF Mirror
    <2>1. /\ Len(currentStack) = Len(Announced)
          /\ \A i \in 1 .. Len(currentStack) : StandsFor(currentStack[i], Announced[i])
      BY DEF MirrorInv, Mirror
    <2>2. ASSUME NEW i \in 1 .. Len(currentStack)
          PROVE  StandsFor(currentStack[i], Announced[i])'
      BY <1>1, <2>1, <2>2, AnnouncedFiles, HandleStays DEF StandsFor, HandleOf
    <2> QED
      BY <2>1, <2>2
  <1>3. DetachedInv'
    BY DEF MirrorInv, DetachedInv
  <1>4. \A file \in DOMAIN fileNameHandles : HandleOf(fileNameHandles[file], file)'
    BY FrameFiles, HandleStays DEF MirrorInv, HookInv, HandleOf
  <1>5. CASE vmpc' = vmpc /\ UNCHANGED <<handle, output>>
    <2>1. vmpc = "push" => HandleOf(handle, Last(frames).file)'
      BY <1>5, FrameFiles, HandleStays DEF MirrorInv, HookInv, CallHasFrame, HandleOf
    <2>2. vmpc = "sending" => StandsFor(output, Last(frames))'
      BY <1>5, FrameFiles, HandleStays DEF MirrorInv, HookInv, StandsFor, HandleOf
    <2> QED
      BY <1>2, <1>3, <1>4, <1>5, <2>1, <2>2 DEF MirrorInv, HookInv
  <1>6. CASE vmpc' \in QuietHook
    BY <1>2, <1>3, <1>4, <1>6 DEF MirrorInv, HookInv, QuietHook
  <1> QED
    BY <1>5, <1>6

-----------------------------------------------------------------------------
(* The script and its hooks *)

LEMMA ScriptMirror ==
    ASSUME TypeInv, MirrorInv, ScriptStep
    PROVE  MirrorInv'
  <1>1. /\ frames \in Seq(StackEntry) /\ currentStack \in Seq([handle : Nat, line : Line])
        /\ vmpc = "script" /\ Announced = frames
    BY DEF TypeInv, TypeOK, ScriptStep, ScriptCall, ScriptReturn, ScriptLine, ScriptPrint, Announced
  <1>2. attached => /\ Len(currentStack) = Len(frames)
                    /\ \A i \in 1 .. Len(currentStack) : StandsFor(currentStack[i], frames[i])
    BY <1>1 DEF MirrorInv, Mirror
  <1>3. bm' = bm /\ attached' = attached /\ output' = output /\ fileNameHandles' = fileNameHandles
    BY DEF ScriptStep, ScriptCall, ScriptReturn, ScriptLine, ScriptPrint, pauseData, vmData, hookLocals
  <1>4. ASSUME NEW file \in ScriptFile, NEW line \in Line, ScriptCall(file, line)
        PROVE  MirrorInv'
    <2> DEFINE e == [file |-> file, line |-> line]
    <2>1. e \in StackEntry /\ frames' = Append(frames, e) /\ currentStack' = currentStack
      BY <1>4 DEF ScriptCall, StackEntry, vmData
    <2> HIDE DEF e
    <2>2. frames' # <<>> /\ Last(frames') = e /\ Front(frames') = frames
      BY <1>1, <2>1, AppendElements
    <2>3. e.file = file
      BY DEF e
    <2>4. CASE attached
      <3>1. vmpc' \in {"lookup", "push"} /\ Announced' = frames
        BY <1>4, <2>2, <2>4 DEF ScriptCall, Announced
      <3>2. vmpc' = "push" => HandleOf(handle', file)
        BY <1>4, <2>4 DEF ScriptCall, MirrorInv, HookInv
      <3>3. Mirror'
        BY <1>2, <1>3, <2>1, <2>4, <3>1 DEF Mirror, StandsFor, HandleOf
      <3> QED
        BY <1>3, <2>2, <2>3, <2>4, <3>1, <3>2, <3>3 DEF MirrorInv, DetachedInv, HookInv, HandleOf
    <2>5. CASE ~attached
      <3>1. vmpc' = "script"
        BY <1>1, <1>4, <2>5 DEF ScriptCall
      <3> QED
        BY <1>3, <2>1, <2>5, <3>1 DEF MirrorInv, Mirror, DetachedInv, HookInv, HandleOf
    <2> QED
      BY <2>4, <2>5
  <1>5. CASE ScriptReturn
    <2>1. /\ frames' = Front(frames) /\ vmpc' \in {"script", "returning"} /\ Announced' = frames'
          /\ frames # <<>>
      BY <1>5 DEF ScriptReturn, Announced
    <2>2. CASE attached
      <3>1. currentStack' = Front(currentStack) /\ currentStack # <<>> /\ Len(frames) \in Nat
        BY <1>1, <1>2, <1>5, <2>1, <2>2 DEF ScriptReturn
      <3>2. /\ Len(frames') = Len(frames) - 1
            /\ \A i \in 1 .. Len(frames) - 1 : frames'[i] = frames[i]
        BY <1>1, <2>1, FrontElements
      <3>3. /\ Len(currentStack') = Len(frames) - 1
            /\ \A i \in 1 .. Len(frames) - 1 : currentStack'[i] = currentStack[i]
        BY <1>1, <1>2, <2>2, <3>1, FrontElements
      <3>4. Mirror'
        <4>1. \A i \in 1 .. Len(frames) - 1 : StandsFor(currentStack[i], frames[i])
          BY <1>2, <2>2, <3>1
        <4>2. \A i \in 1 .. Len(frames) - 1 : StandsFor(currentStack'[i], frames'[i])
          BY <3>2, <3>3, <4>1
        <4> QED
          BY <1>3, <2>1, <3>2, <3>3, <4>2 DEF Mirror, StandsFor, HandleOf
      <3>5. HookInv'
        BY <1>3, <2>1 DEF MirrorInv, HookInv, HandleOf
      <3> QED
        BY <1>3, <2>2, <3>4, <3>5 DEF MirrorInv, DetachedInv
    <2>3. CASE ~attached
      BY <1>3, <1>5, <2>1, <2>3
      DEF ScriptReturn, MirrorInv, Mirror, DetachedInv, HookInv, HandleOf
    <2> QED
      BY <2>2, <2>3
  <1>6. ASSUME NEW line \in Line, ScriptLine(line)
        PROVE  MirrorInv'
    <2>1. /\ frames # <<>> /\ frames' = WithTopLine(frames, line)
          /\ vmpc' \in {"script", "line"} /\ Announced' = frames'
      BY <1>6 DEF ScriptLine, Announced
    <2>2. /\ Len(frames) \in Nat /\ Len(frames') = Len(frames)
          /\ \A i \in 1 .. Len(frames) - 1 : frames'[i] = frames[i]
          /\ frames'[Len(frames)].line = line
          /\ frames'[Len(frames)].file = frames[Len(frames)].file
          /\ frames' # <<>>
      <3>1. \A e \in StackEntry : /\ [e EXCEPT !.line = line].line = line
                                  /\ e.file = [e EXCEPT !.line = line].file
                                  /\ e.handle = [e EXCEPT !.line = line].handle
        BY DEF StackEntry
      <3>2. frames' \in Seq(StackEntry)
        BY <1>1, <1>6, <2>1, WithTopLineType DEF StackEntry
      <3> QED
        BY <1>1, <2>1, <3>1, <3>2, TopLineElements
    <2>3. CASE attached
      <3>1. currentStack' = WithTopLine(currentStack, line) /\ currentStack # <<>>
        BY <1>1, <1>2, <1>6, <2>1, <2>3 DEF ScriptLine
      <3>2. /\ Len(currentStack') = Len(currentStack)
            /\ \A i \in 1 .. Len(currentStack) - 1 : currentStack'[i] = currentStack[i]
            /\ currentStack'[Len(currentStack)].line = line
            /\ currentStack'[Len(currentStack)].handle = currentStack[Len(currentStack)].handle
        <4> DEFINE A == [handle : Nat, line : Line]
        <4>1. \A e \in A : /\ [e EXCEPT !.line = line].line = line
                           /\ e.file = [e EXCEPT !.line = line].file
                           /\ e.handle = [e EXCEPT !.line = line].handle
          OBVIOUS
        <4>2. currentStack \in Seq(A)
          BY <1>1
        <4> HIDE DEF A
        <4> QED
          BY <3>1, <4>1, <4>2, TopLineElements
      <3>3. \A i \in 1 .. Len(frames) : StandsFor(currentStack'[i], frames'[i])
        BY <1>2, <2>2, <2>3, <3>2 DEF StandsFor
      <3>4. Mirror'
        BY <1>2, <1>3, <2>1, <2>2, <2>3, <3>2, <3>3 DEF Mirror, StandsFor, HandleOf
      <3> QED
        BY <1>3, <2>1, <2>2, <2>3, <3>4 DEF MirrorInv, DetachedInv, HookInv, HandleOf
    <2>4. CASE ~attached
      BY <1>3, <1>6, <2>1, <2>4
      DEF ScriptLine, MirrorInv, Mirror, DetachedInv, HookInv, HandleOf
    <2> QED
      BY <2>3, <2>4
  <1>7. CASE ScriptPrint
    <2>1. /\ frames' = frames /\ currentStack' = currentStack /\ frames # <<>>
          /\ vmpc' = IF attached THEN "printing" ELSE "script"
      BY <1>7 DEF ScriptPrint, vmData
    <2>2. Announced' = frames
      BY <2>1 DEF Announced
    <2>3. Mirror'
      BY <1>2, <1>3, <2>1, <2>2 DEF Mirror, StandsFor, HandleOf
    <2> QED
      BY <1>3, <2>1, <2>3 DEF MirrorInv, DetachedInv, HookInv, HandleOf
  <1> QED
    BY <1>4, <1>5, <1>6, <1>7 DEF ScriptStep

\* While a 'c' hook is in flight the new frame is not in the copy yet.
LEMMA LookupMirror ==
    ASSUME TypeInv, CallHasFrame, MirrorInv, LookupHandle
    PROVE  MirrorInv'
  <1> DEFINE file == Last(frames).file
             h    == FindFileNameHandle(bm', file)
  <1>1. /\ vmpc = "lookup" /\ vmpc' = "push" /\ frames # <<>>
        /\ UNCHANGED <<attached, currentStack, frames, output>>
        /\ handle' = h
        /\ fileNameHandles' = [f \in DOMAIN fileNameHandles \cup {file} |->
                                  IF f = file THEN h ELSE fileNameHandles[f]]
        /\ bm' = EnsureFileNameHandle(bm, file)
    BY DEF LookupHandle, CallHasFrame
  <1>2. file \in FileName /\ \A f \in DOMAIN fileNameHandles : f \in FileName
    BY <1>1, FrameFiles
  <1>3. GoodMap(bm)
    BY DEF TypeInv, TypeOK, BMTypeOK, HandlesUnique, GoodMap
  <1>4. /\ HandlesStay
        /\ h \in Handles(bm') /\ GoodMap(bm')
    BY <1>1, <1>2, <1>3, EnsureGivesHandle DEF HandlesStay
  <1>5. h # NullHandle
    BY <1>4 DEF GoodMap, IsMap, Handles, NullHandle
  <1> HIDE DEF file, h
  <1>6. Announced' = Announced
    BY <1>1 DEF Announced
  <1>7. Mirror'
    <2>1. ASSUME attached, NEW i \in 1 .. Len(currentStack)
          PROVE  StandsFor(currentStack[i], Announced[i])'
      <3>1. StandsFor(currentStack[i], Announced[i]) /\ i \in 1 .. Len(Announced)
        BY <2>1 DEF MirrorInv, Mirror
      <3> QED
        BY <1>1, <1>4, <1>6, <3>1, AnnouncedFiles, HandleStays DEF StandsFor, HandleOf
    <2> QED
      BY <1>1, <1>6, <2>1 DEF MirrorInv, Mirror
  <1>8. \A f \in DOMAIN fileNameHandles : HandleIn(bm', fileNameHandles[f], f)
    BY <1>2, <1>4, HandleStays DEF MirrorInv, HookInv
  <1>9. HandleIn(bm', h, file)
    BY <1>5 DEF HandleIn, h
  <1>10. HookInv'
    <2>1. \A f \in DOMAIN fileNameHandles' : HandleIn(bm', fileNameHandles'[f], f)
      BY <1>1, <1>8, <1>9
    <2>2. HandleIn(bm', handle', Last(frames').file)
      BY <1>1, <1>9 DEF file
    <2> QED
      BY <1>1, <2>1, <2>2 DEF HookInv, HandleOf
  <1>11. attached
    BY <1>1 DEF MirrorInv, DetachedInv
  <1> QED
    BY <1>1, <1>7, <1>10, <1>11 DEF MirrorInv, DetachedInv

LEMMA PushMirror ==
    ASSUME TypeInv, CallHasFrame, MirrorInv, PushFrame
    PROVE  MirrorInv'
  <1> DEFINE e == [handle |-> handle, line |-> Last(frames).line]
             n == Len(currentStack)
  <1>1. /\ vmpc = "push" /\ vmpc' \in {"readReturns", "script"} /\ frames # <<>>
        /\ currentStack' = Append(currentStack, e)
        /\ UNCHANGED <<bm, attached, fileNameHandles, frames, output>>
    BY DEF PushFrame, CallHasFrame, pauseData
  <1>2. attached
    BY <1>1 DEF MirrorInv, DetachedInv
  <1>3. frames \in Seq(StackEntry) /\ currentStack \in Seq([handle : Nat, line : Line])
    BY DEF TypeInv, TypeOK
  <1>4. e \in [handle : Nat, line : Line]
    BY <1>1, <1>3, LastType DEF TypeInv, TypeOK, StackEntry
  <1>5. StandsFor(e, Last(frames))
    BY <1>1 DEF StandsFor, MirrorInv, HookInv
  <1>6. /\ Len(currentStack') = n + 1 /\ n \in Nat
        /\ \A i \in 1 .. n : currentStack'[i] = currentStack[i]
        /\ currentStack'[n + 1] = e
    <2> HIDE DEF e
    <2> QED
      BY <1>1, <1>3, <1>4, AppendElements
  <1>7. /\ n = Len(frames) - 1
        /\ \A i \in 1 .. n : StandsFor(currentStack[i], Front(frames)[i])
    BY <1>1, <1>2, <1>3, FrontElements DEF MirrorInv, Mirror, Announced
  <1>8. \A i \in 1 .. n : Front(frames)[i] = frames[i]
    BY <1>1, <1>3, <1>7, FrontElements
  <1> HIDE DEF e, n
  <1>9. \A i \in 1 .. n + 1 : StandsFor(currentStack'[i], frames[i])
    <2>1. ASSUME NEW i \in 1 .. n PROVE StandsFor(currentStack'[i], frames[i])
      BY <1>6, <1>7, <1>8
    <2>2. StandsFor(currentStack'[n + 1], frames[n + 1])
      BY <1>3, <1>5, <1>6, <1>7 DEF Last
    <2>3. \A i \in 1 .. n + 1 : i \in 1 .. n \/ i = n + 1
      BY <1>6
    <2> QED
      BY <2>1, <2>2, <2>3
  <1>10. Announced' = frames
    BY <1>1 DEF Announced
  <1>11. Len(frames) = n + 1
    BY <1>3, <1>6, <1>7
  <1>12. Mirror'
    BY <1>1, <1>6, <1>9, <1>10, <1>11 DEF Mirror, StandsFor, HandleOf
  <1>13. HookInv'
    BY <1>1 DEF MirrorInv, HookInv, HandleOf
  <1> QED
    BY <1>1, <1>2, <1>12, <1>13 DEF MirrorInv, DetachedInv

LEMMA HookMirror ==
    ASSUME TypeInv, CallHasFrame, MirrorInv, HookStep
    PROVE  MirrorInv'
  <1>1. CASE LookupHandle
    BY <1>1, LookupMirror
  <1>2. CASE PushFrame
    BY <1>2, PushMirror
  <1>3. CASE \/ ReadReturns \/ WriteReturns \/ CountReturn \/ LineRuns \/ LinePauses
             \/ NotifyAndWait \/ Resume \/ HandleOutputLine
    <2>1. /\ bm' = bm /\ UNCHANGED <<attached, currentStack, fileNameHandles, frames>>
          /\ vmpc \in {"readReturns", "writeReturns", "returning", "line", "notify", "woken",
                       "sending"}
      BY <1>3
      DEF ReadReturns, WriteReturns, CountReturn, LineRuns, LinePauses, NotifyAndWait, Resume,
          HandleOutputLine, pauseData, vmData
    <2>2. vmpc # "woken" => attached
      BY <2>1 DEF MirrorInv, DetachedInv
    <2>3. vmpc' \in QuietHook /\ (attached \/ vmpc' = "script")
      BY <1>3, <2>1, <2>2
      DEF ReadReturns, WriteReturns, CountReturn, LineRuns, LinePauses, NotifyAndWait, Resume,
          HandleOutputLine, QuietHook
    <2> QED
      BY <2>1, <2>3, SameMapStays, QuietMirror
  <1>4. CASE ReadOutput
    <2>1. /\ vmpc = "printing" /\ attached /\ frames # <<>> /\ Announced = frames
      BY <1>4 DEF ReadOutput, MirrorInv, DetachedInv, HookInv, Announced
    <2>2. /\ Len(currentStack) = Len(frames)
          /\ \A i \in 1 .. Len(currentStack) : StandsFor(currentStack[i], frames[i])
      BY <2>1 DEF MirrorInv, Mirror
    <2>3. frames \in Seq(StackEntry) /\ currentStack \in Seq([handle : Nat, line : Line])
      BY DEF TypeInv, TypeOK
    <2>4. currentStack # <<>> /\ StandsFor(Last(currentStack), Last(frames))
      BY <2>1, <2>2, <2>3 DEF Last
    <2>5. /\ vmpc' = "sending" /\ output' = Last(currentStack)
          /\ UNCHANGED <<bm, attached, currentStack, fileNameHandles, frames>>
      BY <1>4, <2>4 DEF ReadOutput, pauseData, vmData
    <2>6. Announced' = frames
      BY <2>5 DEF Announced
    <2>7. Mirror'
      BY <2>2, <2>5, <2>6 DEF Mirror, StandsFor, HandleOf
    <2>8. HookInv'
      BY <2>1, <2>4, <2>5 DEF MirrorInv, HookInv, StandsFor, HandleOf
    <2> QED
      BY <2>1, <2>5, <2>7, <2>8 DEF MirrorInv, DetachedInv
  <1> QED
    BY <1>1, <1>2, <1>3, <1>4 DEF HookStep

-----------------------------------------------------------------------------
(* The host and the clients *)

LEMMA HostMirror ==
    ASSUME ~DetachRacesHook, Safe, MirrorInv, SpuriousWakeup \/ AddVm \/ DetachVm
    PROVE  MirrorInv'
  <1>1. CASE SpuriousWakeup
    <2>1. /\ bm' = bm /\ UNCHANGED <<attached, currentStack, fileNameHandles, frames>>
          /\ vmpc = "waiting" /\ vmpc' = "woken"
      BY <1>1 DEF SpuriousWakeup, pauseData, vmData
    <2> QED
      BY <2>1, SameMapStays, QuietMirror DEF Safe, QuietHook
  <1>2. CASE AddVm
    <2>1. /\ ~attached /\ attached' /\ frames = <<>> /\ frames' = <<>> /\ vmpc' = vmpc
          /\ currentStack' = currentStack /\ bm' = bm /\ fileNameHandles' = fileNameHandles
          /\ vmpc = "script"
      BY <1>2 DEF AddVm, pauseData
    <2>2. currentStack' = <<>> /\ DOMAIN fileNameHandles' = {} /\ Announced' = <<>>
      BY <2>1 DEF MirrorInv, DetachedInv, Announced
    <2> QED
      BY <2>1, <2>2 DEF MirrorInv, Mirror, DetachedInv, HookInv
  <1>3. CASE DetachVm
    <2>1. vmpc \in {"script", "waiting", "woken"} /\ ~attached'
          /\ currentStack' = <<>> /\ fileNameHandles' = EmptyTable
      BY <1>3 DEF DetachVm
    <2>2. vmpc = "waiting" => pauseRequested # "None"
      BY DEF Safe, PauseInv
    <2>3. vmpc' \in {"script", "woken"}
      BY <1>3, <2>1, <2>2 DEF DetachVm, NotifyAll
    <2>4. DOMAIN EmptyTable = {}
      BY DEF EmptyTable
    <2> QED
      BY <2>1, <2>3, <2>4 DEF MirrorInv, Mirror, DetachedInv, HookInv
  <1> QED
    BY <1>1, <1>2, <1>3

\* A command leaves the script's data alone, and can at most wake its thread.
LEMMA CommandQuiet ==
    ASSUME NEW c \in Client, Command(c) \/ CommandStep(c)
    PROVE  /\ ScriptUnchanged
           /\ status' = status
           /\ vmpc' = vmpc \/ (vmpc = "waiting" /\ vmpc' = "woken")
  BY DEF Command, CheckPause, CheckContinue, StepOut, StepOver, StepIn, Step,
         GetStackVariables, SetStackVariableValue, GetGlobalVariables, GetImmediateValue,
         Inspect, CopyStatus, SetFileBreakpoints, CommandStep, RequestPause, SetPauseReturns,
         ReleaseScript, EndInspection, DeliverStatus, TakeReply, NotifyAll, pauseData

LEMMA CommandMirror ==
    ASSUME Safe, MirrorInv, NEW c \in Client, Command(c) \/ CommandStep(c)
    PROVE  MirrorInv'
  <1>1. HandlesStay
    <2>1. GoodMap(bm)
      BY DEF Safe, TypeInv, TypeOK, BMTypeOK, HandlesUnique, GoodMap
    <2>2. ASSUME NEW file \in FileName, NEW bps \in Requests, SetFileBreakpoints(c, file, bps)
          PROVE  HandlesStay
      <3>1. CASE Valid(bps)
        BY <2>1, <2>2, <3>1, ValidRequest, ReplacedMap DEF SetFileBreakpoints, HandlesStay
      <3>2. CASE ~Valid(bps)
        BY <2>2, <3>2, SameMapStays DEF SetFileBreakpoints
      <3> QED
        BY <3>1, <3>2
    <2>3. CASE CommandStep(c)
      BY <2>3, SameMapStays
      DEF CommandStep, RequestPause, SetPauseReturns, ReleaseScript, EndInspection, DeliverStatus,
          TakeReply, pauseData
    <2>4. bm' = bm \/ \E file \in FileName, bps \in Requests : SetFileBreakpoints(c, file, bps)
      BY <2>3
      DEF Command, CheckPause, CheckContinue, StepOut, StepOver, StepIn, Step,
          GetStackVariables, SetStackVariableValue, GetGlobalVariables, GetImmediateValue,
          Inspect, CopyStatus, CommandStep, RequestPause, SetPauseReturns, ReleaseScript,
          EndInspection, DeliverStatus, TakeReply, pauseData
    <2> QED
      BY <2>2, <2>4, SameMapStays
  <1> QED
    BY <1>1, CommandQuiet, QuietMirror DEF ScriptUnchanged, hookLocals, vmData, Safe, QuietHook

LEMMA MirrorStep ==
    ASSUME ~DetachRacesHook
    PROVE  Safe /\ MirrorInv /\ [Next]_vars => MirrorInv'
  <1> SUFFICES ASSUME Safe, MirrorInv, [Next]_vars PROVE MirrorInv'
    OBVIOUS
  <1>1. CASE Next
    BY <1>1, ScriptMirror, HookMirror, HostMirror, CommandMirror DEF Next, Safe
  <1>2. CASE UNCHANGED vars
    BY <1>2, SameMapStays, QuietMirror
    DEF vars, pauseData, vmData, hookLocals, Safe
  <1> QED
    BY <1>1, <1>2

LEMMA AlwaysMirror ==
    ASSUME ~DetachRacesHook
    PROVE  Spec => [](Safe /\ MirrorInv)
  <1>1. Safe /\ MirrorInv /\ [Next]_vars => MirrorInv'
    BY MirrorStep
  <1> QED
    BY <1>1, AlwaysSafe, MirrorInit, PTL DEF Spec

-----------------------------------------------------------------------------
(* What rests on the copy of the stack *)

\* As long as DetachVm does not come in the middle of a hook, the debugger's
\* copy of the stack has the depth, the files and the lines of the VM's own,
\* whatever the script calls and returns from, and clients do, meanwhile.
THEOREM MirrorIsInSync ==
    ASSUME ~DetachRacesHook
    PROVE  Spec => []MirrorInSync
  <1>1. Safe /\ MirrorInv => MirrorInSync
    <2> SUFFICES ASSUME Safe, MirrorInv, attached PROVE MirrorInSync
      BY DEF MirrorInSync
    <2>1. /\ Len(currentStack) = Len(Announced)
          /\ \A i \in 1 .. Len(currentStack) : StandsFor(currentStack[i], Announced[i])
      BY DEF MirrorInv, Mirror
    <2>2. DOMAIN currentStack = 1 .. Len(currentStack)
      BY DEF Safe, TypeInv, TypeOK
    <2>3. \A i \in 1 .. Len(Announced) : Announced[i].file \in FileName
      BY AnnouncedFiles DEF Safe
    <2> QED
      BY <2>1, <2>2, <2>3, HandleIsKnown DEF MirrorInSync, StandsFor, Safe
  <1> QED
    BY <1>1, AlwaysMirror, PTL

\* As long as DetachVm does not come in the middle of a print callback, a line
\* of output is sent with the source and the line that prints it.
THEOREM OutputIsNamed ==
    ASSUME ~DetachRacesHook
    PROVE  Spec => []OutputNamesItsLine
  <1>1. Safe /\ MirrorInv => OutputNamesItsLine
    <2> SUFFICES ASSUME Safe, MirrorInv, vmpc = "sending" PROVE OutputNamesItsLine
      BY DEF OutputNamesItsLine
    <2>1. StandsFor(output, Last(frames)) /\ frames # <<>>
      BY DEF MirrorInv, HookInv
    <2>2. Last(frames).file \in FileName
      BY <2>1, FrameFiles DEF Safe
    <2> QED
      BY <2>1, <2>2, HandleIsKnown DEF OutputNamesItsLine, StandsFor, Safe
  <1> QED
    BY <1>1, AlwaysMirror, PTL

\* Only the hook itself ends the hook of a line.
LEMMA LineHookEnds ==
    ASSUME ~DetachRacesHook, Next, attached, vmpc = "line", vmpc' # "line"
    PROVE  LineRuns \/ LinePauses
  <1>1. ~ScriptStep
    BY DEF ScriptStep, ScriptCall, ScriptReturn, ScriptLine, ScriptPrint
  <1>2. ~(SpuriousWakeup \/ AddVm \/ DetachVm)
    BY DEF SpuriousWakeup, AddVm, DetachVm
  <1>3. \A c \in Client : ~(Command(c) \/ CommandStep(c))
    BY CommandQuiet
  <1>4. HookStep
    BY <1>1, <1>2, <1>3 DEF Next
  <1> QED
    BY <1>4
    DEF HookStep, LookupHandle, PushFrame, ReadReturns, WriteReturns, CountReturn, NotifyAndWait,
        Resume, ReadOutput, HandleOutputLine

\* The breakpoint that the hook finds through its copy of the stack is the one
\* that is set on the line at which the script is.
LEMMA FoundIsSet ==
    ASSUME Safe, MirrorInv, attached, vmpc = "line"
    PROVE  BreakpointFound = {BreakpointAt(Last(frames).file, Last(frames).line)}
  <1>1. /\ frames # <<>> /\ Announced = frames
        /\ frames \in Seq(StackEntry) /\ currentStack \in Seq([handle : Nat, line : Line])
    BY DEF MirrorInv, HookInv, Announced, Safe, TypeInv, TypeOK
  <1>2. /\ Len(currentStack) = Len(frames)
        /\ \A i \in 1 .. Len(currentStack) : StandsFor(currentStack[i], frames[i])
    BY <1>1 DEF MirrorInv, Mirror
  <1>3. currentStack # <<>> /\ StandsFor(Last(currentStack), Last(frames))
    BY <1>1, <1>2 DEF Last
  <1> QED
    BY <1>3 DEF BreakpointFound, BreakpointAt, StandsFor, HandleOf, HandleIn

\* As long as DetachVm does not come in the middle of a hook, every line with
\* a breakpoint stops the script and reports that breakpoint, and any other
\* line stops it only on a client's request.
THEOREM BreakpointsAreHonoured ==
    ASSUME ~DetachRacesHook
    PROVE  Spec => BreakpointsStop
  <1> DEFINE bp == BreakpointAt(Last(frames).file, Last(frames).line)
             Honoured ==
               (vmpc = "line" /\ vmpc' # "line" /\ attached) =>
                  /\ bp # NoBreakpoint => vmpc' = "notify"
                  /\ vmpc' = "notify" => /\ status'.breakpoint = bp
                                         /\ bp # NoBreakpoint \/ pauseRequested # "None"
  <1>1. Safe /\ MirrorInv /\ [Next]_vars => [Honoured]_vars
    <2> SUFFICES ASSUME Safe, MirrorInv, Next, vmpc = "line", vmpc' # "line", attached
                 PROVE  Honoured
      OBVIOUS
    <2>1. BreakpointFound = {bp}
      BY FoundIsSet
    <2> HIDE DEF bp
    <2>2. CASE LineRuns
      BY <2>1, <2>2 DEF LineRuns, Stops
    <2>3. CASE LinePauses
      BY <2>1, <2>3 DEF LinePauses, Stops
    <2> QED
      BY <2>2, <2>3, LineHookEnds
  <1>2. BreakpointsStop <=> [][Honoured]_vars
    BY PTL DEF BreakpointsStop
  <1> QED
    BY <1>1, <1>2, AlwaysMirror, PTL DEF Spec

-----------------------------------------------------------------------------
(* The status that clients are given *)

\* From the moment it is taken until the script goes on, also without a VM.
StatusInv == vmpc \in {"notify", "waiting"} => status.stack = Reverse(frames)

LEMMA StatusStep == StatusInv /\ [Next]_vars => StatusInv'
  <1> SUFFICES ASSUME StatusInv, [Next]_vars PROVE StatusInv'
    OBVIOUS
  <1>1. CASE ScriptStep
    BY <1>1 DEF StatusInv, ScriptStep, ScriptCall, ScriptReturn, ScriptLine, ScriptPrint
  <1>2. CASE HookStep /\ ~LinePauses
    BY <1>2
    DEF StatusInv, HookStep, LookupHandle, PushFrame, ReadReturns, WriteReturns, CountReturn,
        LineRuns, NotifyAndWait, Resume, ReadOutput, HandleOutputLine, pauseData
  <1>3. CASE LinePauses
    <2>1. status'.stack = Reverse(frames) /\ frames' = frames
      BY <1>3 DEF LinePauses
    <2> QED
      BY <2>1 DEF StatusInv
  <1>4. CASE SpuriousWakeup \/ AddVm \/ DetachVm
    BY <1>4 DEF StatusInv, SpuriousWakeup, AddVm, DetachVm, NotifyAll, pauseData
  <1>5. ASSUME NEW c \in Client, Command(c) \/ CommandStep(c)
        PROVE  StatusInv'
    BY <1>5, CommandQuiet DEF StatusInv, ScriptUnchanged
  <1>6. CASE UNCHANGED vars
    BY <1>6 DEF StatusInv, vars, pauseData
  <1> QED
    BY <1>1, <1>2, <1>3, <1>4, <1>5, <1>6 DEF Next

\* While the script is stopped the status that clients are given describes its
\* stack, also when DetachVm may come in the middle of a hook.
THEOREM StatusIsOfThisStop == Spec => []StatusDescribesStop
  <1>1. Init => StatusInv
    BY DEF Init, StatusInv
  <1>2. StatusInv => StatusDescribesStop
    BY DEF StatusInv, StatusDescribesStop
  <1> QED
    BY <1>1, <1>2, StatusStep, PTL DEF Spec

-----------------------------------------------------------------------------
(* Pausing and stepping: the invariant behind the contract *)

\* The copy of the stack is no deeper than calls can be, and a return that is
\* being counted leaves room for one more; a client that is about to set
\* returnsRequired has requested its pause; and between reading and writing
\* returnsRequired a 'c' hook can only be overtaken by a pause.
StepInv ==
    /\ Len(frames) <= MaxDepth
    /\ vmpc = "returning" => Len(frames) < MaxDepth
    /\ \A c \in Client : pc[c] = "pausing" => pauseRequested = "StepIn"
    /\ vmpc = "writeReturns" =>
          /\ seen >= 0
          /\ \/ returnsRequired = seen
             \/ returnsRequired = -1 /\ pauseRequested \in {"None", "StepIn"}

LEMMA StepInit == Init => StepInv
  <1>1. Init => frames = <<>> /\ vmpc = "script" /\ pc = [c \in Client |-> "idle"]
    BY DEF Init
  <1>2. Len(<<>>) <= MaxDepth
    BY ScriptAssumption
  <1> QED
    BY <1>1, <1>2 DEF StepInv

LEMMA ScriptKeepsStep ==
    ASSUME Safe, StepInv, ScriptStep
    PROVE  StepInv'
  <1>1. /\ UNCHANGED <<pauseRequested, returnsRequired, pc>> /\ vmpc = "script"
        /\ frames \in Seq(StackEntry) /\ MaxDepth \in Nat
    BY ScriptAssumption
    DEF ScriptStep, ScriptCall, ScriptReturn, ScriptLine, ScriptPrint, pauseData, clientVars,
        Safe, TypeInv, TypeOK
  <1>2. Len(frames) \in Nat /\ Len(frames) <= MaxDepth
    BY <1>1 DEF StepInv
  <1>3. ASSUME NEW file \in ScriptFile, NEW line \in Line, ScriptCall(file, line)
        PROVE  Len(frames') <= MaxDepth /\ vmpc' \in {"script", "lookup", "push"}
    <2>1. Len(frames) < MaxDepth /\ vmpc' \in {"script", "lookup", "push"}
      BY <1>1, <1>3 DEF ScriptCall
    <2>2. [file |-> file, line |-> line] \in StackEntry
      BY DEF StackEntry
    <2>3. Len(frames') = Len(frames) + 1
      BY <1>1, <1>3, <2>2, AppendElements DEF ScriptCall
    <2> QED
      BY <1>1, <1>2, <2>1, <2>3
  <1>4. CASE ScriptReturn
    <2>1. Len(frames') = Len(frames) - 1 /\ vmpc' \in {"script", "returning"}
      BY <1>1, <1>4, FrontElements DEF ScriptReturn
    <2> QED
      BY <1>1, <1>2, <2>1 DEF StepInv
  <1>5. CASE ScriptPrint \/ \E line \in Line : ScriptLine(line)
    <2>1. Len(frames') = Len(frames)
      BY <1>1, <1>5 DEF ScriptPrint, ScriptLine, WithTopLine
    <2>2. vmpc' \in {"script", "printing", "line"}
      BY <1>1, <1>5 DEF ScriptPrint, ScriptLine
    <2> QED
      BY <1>1, <1>2, <2>1, <2>2 DEF StepInv
  <1> QED
    BY <1>1, <1>3, <1>4, <1>5 DEF ScriptStep, StepInv

LEMMA HookKeepsStep ==
    ASSUME Safe, StepInv, HookStep
    PROVE  StepInv'
  <1>1. frames' = frames /\ pc' = pc /\ returnsRequired \in Int /\ seen \in Int
    BY DEF HookStep, LookupHandle, PushFrame, ReadReturns, WriteReturns, CountReturn, LineRuns,
           LinePauses, NotifyAndWait, Resume, ReadOutput, HandleOutputLine, clientVars, Safe,
           TypeInv, TypeOK
  <1>2. vmpc' # "returning"
    BY DEF HookStep, LookupHandle, PushFrame, ReadReturns, WriteReturns, CountReturn, LineRuns,
           LinePauses, NotifyAndWait, Resume, ReadOutput, HandleOutputLine
  <1>3. CASE ReadReturns
    BY <1>1, <1>2, <1>3 DEF ReadReturns, StepInv, pauseData
  <1>4. CASE LinePauses
    <2>1. \A c \in Client : pc[c] # "pausing"
      BY <1>4, ThreadAssumption DEF LinePauses, Free, Safe, MutexInv
    <2>2. vmpc' # "writeReturns"
      BY <1>4 DEF LinePauses
    <2> QED
      BY <1>1, <1>2, <2>1, <2>2 DEF StepInv
  <1>5. CASE HookStep /\ ~ReadReturns /\ ~LinePauses
    <2>1. pauseRequested' = pauseRequested /\ vmpc' # "writeReturns"
      BY <1>5
      DEF HookStep, LookupHandle, PushFrame, WriteReturns, CountReturn, LineRuns,
          NotifyAndWait, Resume, ReadOutput, HandleOutputLine, pauseData
    <2> QED
      BY <1>1, <1>2, <2>1 DEF StepInv
  <1> QED
    BY <1>3, <1>4, <1>5

LEMMA HostKeepsStep ==
    ASSUME ~DetachRacesHook, Safe, StepInv, SpuriousWakeup \/ AddVm \/ DetachVm
    PROVE  StepInv'
  <1>1. frames' = frames /\ UNCHANGED <<pc, returnsRequired, seen>>
    BY DEF SpuriousWakeup, AddVm, DetachVm, pauseData, hookLocals, clientVars
  <1>2. CASE SpuriousWakeup \/ AddVm
    <2>1. vmpc' \in {"woken", "script"} /\ pauseRequested' = pauseRequested
      BY <1>2 DEF SpuriousWakeup, AddVm, pauseData
    <2> QED
      BY <1>1, <2>1 DEF StepInv
  <1>3. CASE DetachVm
    <2>1. vmpc' \in {"script", "waiting", "woken"}
      BY <1>3 DEF DetachVm, NotifyAll
    <2>2. \A c \in Client : pc[c] # "pausing"
      BY <1>3, ThreadAssumption DEF DetachVm, Free, Safe, MutexInv
    <2> QED
      BY <1>1, <2>1, <2>2 DEF StepInv
  <1> QED
    BY <1>2, <1>3

-----------------------------------------------------------------------------
(* What a client's step does to the request: nothing, or one of four things *)

\* Nothing that the contract sees.
Discreet ==
    /\ ScriptUnchanged
    /\ UNCHANGED <<pauseRequested, returnsRequired, vmpc>>
    /\ \A c \in Client : pc'[c] = "pausing" <=> pc[c] = "pausing"

LEMMA OneClientMoves ==
    ASSUME Safe, NEW c \in Client, NEW at, pc' = [pc EXCEPT ![c] = at],
           pc[c] # "pausing", at # "pausing"
    PROVE  \A d \in Client : pc'[d] = "pausing" <=> pc[d] = "pausing"
  BY DEF Safe, TypeInv, TypeOK

LEMMA ClientSteps ==
    ASSUME Safe, NEW c \in Client, Command(c) \/ CommandStep(c)
    PROVE  \/ Discreet
           \/ RequestPause(c) /\ pauseRequested = "None"
           \/ SetPauseReturns(c)
           \/ ReleaseScript(c) /\ pauseRequested # "None"
           \/ isPaused /\ (StepOut(c) \/ StepOver(c) \/ StepIn(c))
  <1> USE OneClientMoves, CommandQuiet DEF Discreet
  <1>1. CASE CheckPause(c)
    BY <1>1 DEF CheckPause, Start, GoTo, Done, Command, pauseData
  <1>2. CASE CheckContinue(c)
    BY <1>2 DEF CheckContinue, Start, GoTo, Done, pauseData
  <1>3. CASE (StepOut(c) \/ StepOver(c) \/ StepIn(c)) /\ ~isPaused
    BY <1>3 DEF StepOut, StepOver, StepIn, Step, Start, Done
  <1>4. ASSUME NEW valid, Inspect(c, valid)
        PROVE  Discreet
    BY <1>4 DEF Inspect, Start, GoTo, Done, pauseData
  <1>5. ASSUME NEW parses \in BOOLEAN, GetImmediateValue(c, parses)
        PROVE  Discreet
    BY <1>4, <1>5 DEF GetImmediateValue, Start, Done, pauseData
  <1>6. CASE CopyStatus(c)
    BY <1>6 DEF CopyStatus, Start, pauseData
  <1>7. ASSUME NEW file \in FileName, NEW bps \in Requests, SetFileBreakpoints(c, file, bps)
        PROVE  Discreet
    BY <1>7 DEF SetFileBreakpoints, Start, Done
  <1>8. CASE RequestPause(c) /\ pauseRequested # "None"
    BY <1>8 DEF RequestPause, Done
  <1>9. CASE ReleaseScript(c) /\ pauseRequested = "None"
    BY <1>9 DEF ReleaseScript, Done
  <1>10. CASE EndInspection(c) \/ DeliverStatus(c) \/ TakeReply(c)
    BY <1>10 DEF EndInspection, DeliverStatus, TakeReply, Done, pauseData
  <1> QED
    BY <1>1, <1>2, <1>3, <1>4, <1>5, <1>6, <1>7, <1>8, <1>9, <1>10
    DEF Command, CommandStep, GetStackVariables, SetStackVariableValue, GetGlobalVariables

\* With the mutex free, nobody is in the middle of requesting a pause.
LEMMA NobodyPausing ==
    ASSUME Safe, Free
    PROVE  (\A c \in Client : pc[c] # "pausing") /\ Mode = pauseRequested
  BY ThreadAssumption DEF Free, Safe, MutexInv, Mode, PauseHalfMade

LEMMA ClientKeepsStep ==
    ASSUME Safe, StepInv, NEW c \in Client, Command(c) \/ CommandStep(c)
    PROVE  StepInv'
  <1>1. frames' = frames /\ seen' = seen
    BY CommandQuiet DEF ScriptUnchanged, hookLocals
  <1>2. pc \in [Client -> ClientPC]
    BY DEF Safe, TypeInv, TypeOK
  <1>3. CASE Discreet
    BY <1>1, <1>3 DEF Discreet, StepInv
  <1>4. CASE RequestPause(c) /\ pauseRequested = "None"
    BY <1>1, <1>2, <1>4 DEF RequestPause, StepInv
  <1>5. CASE SetPauseReturns(c)
    BY <1>1, <1>2, <1>5 DEF SetPauseReturns, Done, StepInv
  <1>6. CASE ReleaseScript(c)
    <2>1. \A d \in Client : pc'[d] # "pausing"
      BY <1>2, <1>6, NobodyPausing DEF ReleaseScript, Done
    <2>2. vmpc' = vmpc \/ vmpc' = "woken"
      BY CommandQuiet
    <2>3. returnsRequired' = returnsRequired /\ pauseRequested' \in {pauseRequested, "None"}
      BY <1>6 DEF ReleaseScript
    <2> QED
      BY <1>1, <2>1, <2>2, <2>3 DEF StepInv
  <1>7. CASE isPaused /\ (StepOut(c) \/ StepOver(c) \/ StepIn(c))
    <2>1. Free /\ pc' = [pc EXCEPT ![c] = "done"]
      BY <1>7 DEF StepOut, StepOver, StepIn, Step, Done
    <2>2. \A d \in Client : pc'[d] # "pausing"
      BY <1>2, <2>1, NobodyPausing
    <2>3. vmpc \in {"notify", "waiting", "woken"}
      BY <1>7, <2>1 DEF Free, Safe, PauseInv
    <2>4. vmpc' \in {"notify", "waiting", "woken"}
      BY <2>3, CommandQuiet
    <2> QED
      BY <1>1, <2>2, <2>4 DEF StepInv
  <1> QED
    BY <1>3, <1>4, <1>5, <1>6, <1>7, ClientSteps

LEMMA StepInvStep ==
    ASSUME ~DetachRacesHook, Safe, StepInv, [Next]_vars
    PROVE  StepInv'
  <1>1. CASE UNCHANGED vars
    BY <1>1 DEF vars, pauseData, hookLocals, clientVars, StepInv
  <1> QED
    BY <1>1, ScriptKeepsStep, HookKeepsStep, HostKeepsStep, ClientKeepsStep DEF Next

-----------------------------------------------------------------------------
(* The mapping *)

\* What the contract sees of a state: depths are numbers, no call is deeper
\* than MaxDepth, and without a VM there is no call.
LEMMA Depth ==
    ASSUME Safe, MirrorInv, StepInv
    PROVE  /\ Len(currentStack) \in Nat /\ returnsRequired \in Int /\ MaxDepth \in Nat
           /\ attached /\ vmpc \notin {"lookup", "push"} =>
                 Len(currentStack) = Len(frames) /\ Len(currentStack) <= MaxDepth
           /\ attached /\ vmpc \in {"lookup", "push"} => Len(currentStack) + 1 <= MaxDepth
           /\ attached /\ vmpc = "returning" => Len(currentStack) + 1 <= MaxDepth
           /\ ~attached => Len(currentStack) = 0 /\ vmpc \in {"script", "woken"}
           /\ vmpc # "crashed"
  <1>1. /\ currentStack \in Seq([handle : Nat, line : Line]) /\ frames \in Seq(StackEntry)
        /\ returnsRequired \in Int /\ MaxDepth \in Nat
    BY ScriptAssumption DEF Safe, TypeInv, TypeOK
  <1>2. Len(currentStack) \in Nat /\ Len(frames) \in Nat
    BY <1>1
  <1>3. CASE ~attached
    BY <1>1, <1>3 DEF MirrorInv, DetachedInv, HookInv
  <1>4. CASE attached /\ vmpc \notin {"lookup", "push"}
    BY <1>1, <1>2, <1>4 DEF MirrorInv, Mirror, HookInv, Announced, StepInv
  <1>5. CASE attached /\ vmpc \in {"lookup", "push"}
    <2>1. frames # <<>>
      BY <1>5 DEF Safe, CallHasFrame
    <2>2. Len(currentStack) = Len(frames) - 1
      BY <1>1, <1>5, <2>1, FrontElements DEF MirrorInv, Mirror, Announced
    <2> QED
      BY <1>1, <1>2, <1>5, <2>2 DEF StepInv
  <1> QED
    BY <1>1, <1>3, <1>4, <1>5

\* A step that the contract does not see.
LEMMA Unseen ==
    ASSUME UNCHANGED <<attached, CountedDepth, Mode, Script>>,
           Mode = "None" \/ returnsRequired' = returnsRequired
    PROVE  UNCHANGED Contract!vars
  BY DEF Contract!vars, Due

LEMMA SameMode == UNCHANGED <<pauseRequested, pc>> => Mode' = Mode
  BY DEF Mode, PauseHalfMade

LEMMA MapInit == Init => Contract!Init
  <1> SUFFICES ASSUME Init PROVE Contract!Init
    OBVIOUS
  <1>1. ~attached /\ currentStack = <<>> /\ vmpc = "script" /\ pauseRequested = "None"
        /\ attached = FALSE
    BY DEF Init
  <1>2. CountedDepth = 0 /\ Mode = "None" /\ Due = {} /\ Script = "running"
    BY <1>1 DEF CountedDepth, Mode, Due, Script
  <1> QED
    BY <1>1, <1>2 DEF Contract!Init

LEMMA MapScript ==
    ASSUME Safe, MirrorInv, StepInv, ScriptStep
    PROVE  Contract!Next \/ UNCHANGED Contract!vars
  <1>1. /\ UNCHANGED <<attached, pauseRequested, returnsRequired, pc>> /\ vmpc = "script"
        /\ frames \in Seq(StackEntry) /\ currentStack \in Seq([handle : Nat, line : Line])
    BY DEF ScriptStep, ScriptCall, ScriptReturn, ScriptLine, ScriptPrint, pauseData, clientVars,
           vmData, Safe, TypeInv, TypeOK
  <1>2. Mode' = Mode
    BY <1>1, SameMode
  <1>3. Due' = Due \/ CountedDepth' # CountedDepth
    BY <1>1, <1>2 DEF Due
  <1>4. CountedDepth = Len(currentStack) /\ Script = "running"
    BY <1>1 DEF CountedDepth, Script
  <1>5. CASE ScriptPrint \/ \E file \in ScriptFile, line \in Line : ScriptCall(file, line)
    <2>1. currentStack' = currentStack /\ vmpc' \in {"script", "printing", "lookup", "push"}
      BY <1>1, <1>5 DEF ScriptPrint, ScriptCall, vmData
    <2>2. CountedDepth' = CountedDepth /\ Script' = Script
      BY <1>4, <2>1 DEF CountedDepth, Script
    <2> QED
      BY <1>1, <1>2, <2>2, Unseen
  <1>6. CASE ScriptReturn /\ ~attached
    <2>1. currentStack' = currentStack /\ vmpc' = "script"
      BY <1>1, <1>6 DEF ScriptReturn
    <2>2. CountedDepth' = CountedDepth /\ Script' = Script
      BY <1>4, <2>1 DEF CountedDepth, Script
    <2> QED
      BY <1>1, <1>2, <2>2, Unseen
  <1>7. CASE ScriptReturn /\ attached
    <2>1. Len(currentStack) = Len(frames) /\ Len(currentStack) \in Nat /\ frames # <<>>
      BY <1>1, <1>7, Depth DEF ScriptReturn
    <2>2. currentStack # <<>> /\ Len(currentStack) > 0
      BY <1>1, <2>1
    <2>3. Len(currentStack') = Len(currentStack) - 1
      BY <1>1, <1>7, <2>2, FrontElements DEF ScriptReturn
    <2>4. CASE pauseRequested # "None"
      <3>1. vmpc' = "returning"
        BY <1>7, <2>4 DEF ScriptReturn
      <3>2. CountedDepth' = CountedDepth /\ Script' = Script
        BY <1>4, <2>1, <2>3, <3>1 DEF CountedDepth, Script
      <3> QED
        BY <1>1, <1>2, <3>2, Unseen
    <2>5. CASE pauseRequested = "None"
      <3>1. vmpc' = "script"
        BY <1>7, <2>5 DEF ScriptReturn
      <3>2. CountedDepth' = CountedDepth - 1 /\ Script' = Script
        BY <1>4, <2>3, <3>1 DEF CountedDepth, Script
      <3>3. Mode = "None" /\ Due = {} /\ Due' = {}
        BY <1>2, <2>5 DEF Mode, Due
      <3>4. Contract!Return
        BY <1>1, <1>2, <1>4, <1>7, <2>2, <3>2, <3>3 DEF Contract!Return
      <3> QED
        BY <3>4 DEF Contract!Next
    <2> QED
      BY <2>4, <2>5
  <1>8. ASSUME NEW line \in Line, ScriptLine(line)
        PROVE  Contract!Next \/ UNCHANGED Contract!vars
    <2>1. CASE attached
      <3>1. /\ Len(currentStack) = Len(frames) /\ Len(currentStack) \in Nat /\ frames # <<>>
            /\ currentStack' = WithTopLine(currentStack, line) /\ vmpc' = "line"
        BY <1>1, <1>8, <2>1, Depth DEF ScriptLine
      <3>2. Len(currentStack) > 0 /\ Len(currentStack') = Len(currentStack)
        BY <1>1, <3>1 DEF WithTopLine
      <3>3. CountedDepth' = CountedDepth /\ Script' = "atLine"
        BY <1>4, <3>1, <3>2 DEF CountedDepth, Script
      <3>4. Contract!ReachLine
        BY <1>1, <1>2, <1>3, <1>4, <2>1, <3>2, <3>3 DEF Contract!ReachLine
      <3> QED
        BY <3>4 DEF Contract!Next
    <2>2. CASE ~attached
      <3>1. currentStack' = currentStack /\ vmpc' = "script"
        BY <1>1, <1>8, <2>2 DEF ScriptLine
      <3>2. CountedDepth' = CountedDepth /\ Script' = Script
        BY <1>4, <3>1 DEF CountedDepth, Script
      <3> QED
        BY <1>1, <1>2, <3>2, Unseen
    <2> QED
      BY <2>1, <2>2
  <1> QED
    BY <1>5, <1>6, <1>7, <1>8 DEF ScriptStep

-----------------------------------------------------------------------------
(* Calls and returns that are being counted *)

LEMMA MapPush ==
    ASSUME Safe, MirrorInv, StepInv, PushFrame
    PROVE  Contract!Next \/ UNCHANGED Contract!vars
  <1>1. /\ UNCHANGED <<attached, pauseRequested, returnsRequired, pc>> /\ vmpc = "push"
        /\ currentStack' = Append(currentStack, [handle |-> handle, line |-> Last(frames).line])
        /\ currentStack \in Seq([handle : Nat, line : Line]) /\ attached /\ frames # <<>>
    BY DEF PushFrame, pauseData, clientVars, Safe, TypeInv, TypeOK, MirrorInv, DetachedInv,
           CallHasFrame
  <1>2. [handle |-> handle, line |-> Last(frames).line] \in [handle : Nat, line : Line]
    BY <1>1, LastType DEF Safe, TypeInv, TypeOK, StackEntry
  <1>3. /\ Len(currentStack') = Len(currentStack) + 1
        /\ Len(currentStack) \in Nat /\ Len(currentStack) + 1 <= MaxDepth /\ MaxDepth \in Nat
    BY <1>1, <1>2, AppendElements, Depth
  <1>4. Mode' = Mode
    BY <1>1, SameMode
  <1>5. CountedDepth = Len(currentStack) /\ Script = "running"
    BY <1>1 DEF CountedDepth, Script
  <1>6. CASE pauseRequested # "None"
    <2>1. vmpc' = "readReturns"
      BY <1>6 DEF PushFrame
    <2>2. CountedDepth' = CountedDepth /\ Script' = Script
      BY <1>3, <1>5, <2>1 DEF CountedDepth, Script
    <2> QED
      BY <1>1, <1>4, <2>2, Unseen
  <1>7. CASE pauseRequested = "None"
    <2>1. vmpc' = "script"
      BY <1>7 DEF PushFrame
    <2>2. CountedDepth' = CountedDepth + 1 /\ Script' = Script
      BY <1>3, <1>5, <2>1 DEF CountedDepth, Script
    <2>3. Mode = "None" /\ Due = {} /\ Due' = {}
      BY <1>4, <1>7 DEF Mode, Due
    <2>4. Contract!Call
      BY <1>1, <1>3, <1>4, <1>5, <2>2, <2>3 DEF Contract!Call
    <2> QED
      BY <2>4 DEF Contract!Next
  <1> QED
    BY <1>6, <1>7

LEMMA MapReadReturns ==
    ASSUME Safe, MirrorInv, StepInv, ReadReturns
    PROVE  Contract!Next \/ UNCHANGED Contract!vars
  <1>1. /\ UNCHANGED <<attached, currentStack, pauseRequested, returnsRequired, pc>>
        /\ vmpc = "readReturns"
    BY DEF ReadReturns, pauseData, vmData, clientVars
  <1>2. /\ attached /\ Len(currentStack) \in Nat /\ MaxDepth \in Nat
        /\ Len(currentStack) <= MaxDepth
    BY <1>1, Depth
  <1>3. Mode' = Mode
    BY <1>1, SameMode
  <1>4. CountedDepth = Len(currentStack) - 1 /\ Script = "running"
    BY <1>1 DEF CountedDepth, Script
  <1>5. CASE returnsRequired >= 0
    <2>1. CountedDepth' = CountedDepth /\ Script' = Script
      BY <1>1, <1>4, <1>5 DEF ReadReturns, CountedDepth, Script
    <2> QED
      BY <1>1, <1>3, <2>1, Unseen
  <1>6. CASE ~(returnsRequired >= 0)
    <2>1. CountedDepth' = CountedDepth + 1 /\ Script' = Script
      <3>1. vmpc' = "script"
        BY <1>6 DEF ReadReturns
      <3> QED
        BY <1>1, <1>2, <1>4, <3>1 DEF CountedDepth, Script
    <2>2. Due' = Due
      BY <1>1, <1>3, <1>6, Depth DEF Due
    <2>3. Contract!Call
      BY <1>1, <1>2, <1>3, <1>4, <2>1, <2>2 DEF Contract!Call
    <2> QED
      BY <2>3 DEF Contract!Next
  <1> QED
    BY <1>5, <1>6

\* A pause that comes between the hook's reading and writing is overwritten:
\* it is put off, but only to a depth.
LEMMA MapWriteReturns ==
    ASSUME Safe, MirrorInv, StepInv, WriteReturns
    PROVE  Contract!Next \/ UNCHANGED Contract!vars
  <1> DEFINE k == Len(currentStack)
             r == returnsRequired
  <1>1. /\ UNCHANGED <<attached, currentStack, pauseRequested, pc>>
        /\ vmpc = "writeReturns" /\ vmpc' = "script"
        /\ returnsRequired' \in {seen + 1, returnsRequired + 1}
    BY DEF WriteReturns, vmData, clientVars
  <1>2. /\ attached /\ k \in Nat /\ MaxDepth \in Nat /\ k <= MaxDepth /\ r \in Int
    BY <1>1, Depth
  <1>3. Mode' = Mode
    BY <1>1, SameMode
  <1>4. CountedDepth = k - 1 /\ Script = "running" /\ CountedDepth' = k /\ Script' = "running"
    BY <1>1 DEF CountedDepth, Script
  <1>5. /\ seen \in Nat
        /\ r = seen \/ (r = -1 /\ pauseRequested \in {"None", "StepIn"})
    BY <1>1 DEF StepInv, Safe, TypeInv, TypeOK
  <1>6. /\ \/ Due' = Due
           \/ /\ Mode = "StepIn" /\ Due = 0 .. MaxDepth
              /\ \E d \in -1 .. CountedDepth + 1 : Due' = 0 .. d
    <2>1. CASE Mode = "None"
      BY <1>3, <2>1 DEF Due
    <2>2. CASE Mode # "None" /\ r = seen
      <3>1. returnsRequired' = r + 1 /\ r >= 0
        BY <1>1, <1>5, <2>2
      <3>2. k - returnsRequired' = (k - 1) - r /\ ~(returnsRequired' < 0)
        BY <1>2, <3>1
      <3>3. Due' = 0 .. (k - returnsRequired') /\ Due = 0 .. ((k - 1) - r)
        BY <1>2, <1>3, <1>4, <2>2, <3>1, <3>2 DEF Due
      <3> QED
        BY <3>2, <3>3
    <2>3. CASE Mode # "None" /\ r = -1
      <3>1. ~PauseHalfMade /\ Mode = "StepIn"
        BY <1>5, <2>3 DEF Mode
      <3>2. Due = 0 .. MaxDepth
        BY <2>3 DEF Due
      <3>3. returnsRequired' \in Nat
        BY <1>1, <1>5, <2>3
      <3>4. Due' = 0 .. (k - returnsRequired')
        BY <1>3, <1>4, <2>3, <3>3 DEF Due
      <3>5. PICK d \in -1 .. k : 0 .. (k - returnsRequired') = 0 .. d
        <4>1. CASE k - returnsRequired' >= 0
          BY <1>2, <3>3, <4>1
        <4>2. CASE ~(k - returnsRequired' >= 0)
          BY <1>2, <3>3, <4>2
        <4> QED
          BY <4>1, <4>2
      <3> QED
        BY <1>2, <1>4, <3>1, <3>2, <3>4, <3>5
    <2> QED
      BY <1>5, <2>1, <2>2, <2>3
  <1>7. Contract!Call
    BY <1>1, <1>2, <1>3, <1>4, <1>6 DEF Contract!Call, Contract!Depths
  <1> QED
    BY <1>7 DEF Contract!Next

LEMMA MapCountReturn ==
    ASSUME Safe, MirrorInv, StepInv, CountReturn
    PROVE  Contract!Next \/ UNCHANGED Contract!vars
  <1> DEFINE k == Len(currentStack)
             r == returnsRequired
  <1>1. /\ UNCHANGED <<attached, currentStack, pauseRequested, pc>>
        /\ vmpc = "returning" /\ vmpc' = "script" /\ Free
        /\ returnsRequired' = IF pauseRequested # "None" THEN r - 1 ELSE r
    BY DEF CountReturn, vmData, clientVars
  <1>2. attached /\ k \in Nat /\ MaxDepth \in Nat /\ k + 1 <= MaxDepth /\ r \in Int
    BY <1>1, Depth
  <1>3. Mode' = Mode /\ Mode = pauseRequested
    BY <1>1, SameMode, NobodyPausing
  <1>4. CountedDepth = k + 1 /\ Script = "running" /\ CountedDepth' = k /\ Script' = "running"
    BY <1>1 DEF CountedDepth, Script
  <1>5. Due' = IF k + 1 \in Due THEN 0 .. MaxDepth ELSE Due
    <2>1. CASE Mode = "None"
      BY <1>3, <2>1 DEF Due
    <2>2. CASE Mode # "None" /\ r <= 0
      <3>1. k + 1 \in Due
        BY <1>2, <1>4, <2>2 DEF Due
      <3>2. returnsRequired' < 0
        BY <1>1, <1>2, <1>3, <2>2
      <3> QED
        BY <1>3, <2>2, <3>1, <3>2 DEF Due
    <2>3. CASE Mode # "None" /\ r > 0
      <3>1. Due = 0 .. ((k + 1) - r) /\ k + 1 \notin Due
        BY <1>2, <1>4, <2>3 DEF Due
      <3>2. returnsRequired' = r - 1 /\ ~(returnsRequired' < 0)
        BY <1>1, <1>2, <1>3, <2>3
      <3>3. Due' = 0 .. (k - returnsRequired')
        BY <1>3, <1>4, <2>3, <3>2 DEF Due
      <3>4. k - returnsRequired' = (k + 1) - r
        BY <1>2, <3>2
      <3> QED
        BY <3>1, <3>3, <3>4
    <2> QED
      BY <1>2, <2>1, <2>2, <2>3
  <1>6. Contract!Return
    BY <1>1, <1>2, <1>3, <1>4, <1>5 DEF Contract!Return, Contract!Depths
  <1> QED
    BY <1>6 DEF Contract!Next

-----------------------------------------------------------------------------
(* Lines, pauses and the way on *)

LEMMA MapLineRuns ==
    ASSUME Safe, MirrorInv, StepInv, LineRuns
    PROVE  Contract!Next \/ UNCHANGED Contract!vars
  <1>1. /\ UNCHANGED <<attached, currentStack, pauseRequested, returnsRequired, pc>>
        /\ vmpc = "line" /\ vmpc' = "script" /\ Free
    BY DEF LineRuns, pauseData, vmData, clientVars
  <1>2. Len(currentStack) \in Nat /\ returnsRequired \in Int
    BY Depth
  <1>3. Mode' = Mode /\ Mode = pauseRequested
    BY <1>1, SameMode, NobodyPausing
  <1>4. /\ CountedDepth = Len(currentStack) /\ Script = "atLine"
        /\ CountedDepth' = CountedDepth /\ Script' = "running"
    BY <1>1 DEF CountedDepth, Script
  <1>5. Due' = Due
    BY <1>1, <1>3, <1>4 DEF Due
  <1>6. pauseRequested = "None" \/ returnsRequired > 0
    BY <1>2 DEF LineRuns, Stops
  <1>7. CountedDepth \notin Due
    BY <1>2, <1>3, <1>4, <1>6 DEF Due
  <1>8. Contract!PassLine
    BY <1>1, <1>3, <1>4, <1>5, <1>7 DEF Contract!PassLine
  <1> QED
    BY <1>8 DEF Contract!Next

LEMMA MapLinePauses ==
    ASSUME Safe, MirrorInv, StepInv, LinePauses
    PROVE  Contract!Next \/ UNCHANGED Contract!vars
  <1>1. UNCHANGED <<attached, currentStack, pc>> /\ vmpc = "line" /\ Free
    BY DEF LinePauses, vmData, clientVars
  <1>2. /\ attached /\ Len(currentStack) \in Nat /\ MaxDepth \in Nat
        /\ Len(currentStack) <= MaxDepth /\ returnsRequired \in Int
    BY <1>1, Depth
  <1>3. Mode = pauseRequested /\ Mode' = pauseRequested'
    BY <1>1, NobodyPausing DEF Mode, PauseHalfMade
  <1>4. vmpc' = "notify"
    BY <1>2 DEF LinePauses
  <1>5. /\ CountedDepth = Len(currentStack) /\ Script = "atLine"
        /\ CountedDepth' = CountedDepth /\ Script' = "stopped"
    BY <1>1, <1>4 DEF CountedDepth, Script
  <1>6. PICK bp \in BreakpointFound :
          /\ Stops(bp)
          /\ pauseRequested' = IF bp # NoBreakpoint THEN "StepIn" ELSE pauseRequested
          /\ returnsRequired' = IF bp # NoBreakpoint THEN 0 ELSE returnsRequired
    BY DEF LinePauses
  <1>7. CASE bp # NoBreakpoint
    <2>1. Mode' = "StepIn" /\ returnsRequired' = 0
      BY <1>3, <1>6, <1>7
    <2>2. Due' = 0 .. CountedDepth
      <3>1. Due' = 0 .. (CountedDepth' - 0)
        BY <2>1 DEF Due
      <3> QED
        BY <1>2, <1>5, <3>1
    <2>3. Contract!StopAtBreakpoint
      BY <1>1, <1>5, <2>1, <2>2 DEF Contract!StopAtBreakpoint
    <2> QED
      BY <2>3 DEF Contract!Next
  <1>8. CASE bp = NoBreakpoint
    <2>1. Mode' = Mode /\ returnsRequired' = returnsRequired /\ Mode # "None"
          /\ returnsRequired <= 0
      BY <1>3, <1>6, <1>8 DEF Stops
    <2>2. Due' = Due
      BY <1>5, <2>1 DEF Due
    <2>3. CountedDepth \in Due
      BY <1>2, <1>5, <2>1 DEF Due
    <2>4. Contract!StopWhereDue
      BY <1>1, <1>5, <2>1, <2>2, <2>3 DEF Contract!StopWhereDue
    <2> QED
      BY <2>4 DEF Contract!Next
  <1> QED
    BY <1>7, <1>8

LEMMA MapHook ==
    ASSUME Safe, MirrorInv, StepInv, HookStep
    PROVE  Contract!Next \/ UNCHANGED Contract!vars
  <1>1. CASE PushFrame \/ ReadReturns \/ WriteReturns \/ CountReturn \/ LineRuns \/ LinePauses
    BY <1>1, MapPush, MapReadReturns, MapWriteReturns, MapCountReturn, MapLineRuns, MapLinePauses
  <1>2. CASE Resume
    <2>1. /\ UNCHANGED <<attached, currentStack, pauseRequested, returnsRequired, pc>>
          /\ vmpc = "woken" /\ vmpc' = "script"
      BY <1>2 DEF Resume, vmData, clientVars
    <2>2. Mode' = Mode
      BY <2>1, SameMode
    <2>3. CountedDepth' = CountedDepth /\ Script = "released" /\ Script' = "running"
      BY <2>1 DEF CountedDepth, Script
    <2>4. Due' = Due
      BY <2>1, <2>2, <2>3 DEF Due
    <2>5. Contract!GoOn
      BY <2>1, <2>2, <2>3, <2>4 DEF Contract!GoOn
    <2> QED
      BY <2>5 DEF Contract!Next
  <1>3. CASE LookupHandle \/ NotifyAndWait \/ ReadOutput \/ HandleOutputLine
    <2>1. UNCHANGED <<attached, currentStack, pauseRequested, returnsRequired, pc>>
      BY <1>3
      DEF LookupHandle, NotifyAndWait, ReadOutput, HandleOutputLine, pauseData, vmData, clientVars
    <2>2. \/ vmpc = "lookup" /\ vmpc' = "push"
          \/ vmpc = "notify" /\ vmpc' = "waiting"
          \/ vmpc \in {"printing", "sending"} /\ vmpc' \in {"sending", "crashed", "script"}
      BY <1>3 DEF LookupHandle, NotifyAndWait, ReadOutput, HandleOutputLine
    <2>3. CountedDepth' = CountedDepth /\ Script' = Script
      BY <2>1, <2>2 DEF CountedDepth, Script
    <2> QED
      BY <2>1, <2>3, SameMode, Unseen
  <1> QED
    BY <1>1, <1>2, <1>3 DEF HookStep

-----------------------------------------------------------------------------
(* The host and the clients *)

LEMMA MapHost ==
    ASSUME ~DetachRacesHook, ~SpuriousWakeups, Safe, MirrorInv, StepInv,
           SpuriousWakeup \/ AddVm \/ DetachVm
    PROVE  Contract!Next \/ UNCHANGED Contract!vars
  <1>1. ~SpuriousWakeup
    BY DEF SpuriousWakeup
  <1>2. CASE AddVm
    <2>1. /\ UNCHANGED <<currentStack, vmpc, pauseRequested, returnsRequired, pc>>
          /\ ~attached /\ attached' = TRUE /\ vmpc = "script"
      BY <1>2 DEF AddVm, pauseData, clientVars
    <2>2. Mode' = Mode
      BY <2>1, SameMode
    <2>3. CountedDepth' = CountedDepth /\ Script = "running" /\ Script' = "running"
      BY <2>1 DEF CountedDepth, Script
    <2>4. Due' = Due
      BY <2>1, <2>2, <2>3 DEF Due
    <2>5. Contract!Attach
      BY <2>1, <2>2, <2>3, <2>4 DEF Contract!Attach
    <2> QED
      BY <2>5 DEF Contract!Next
  <1>3. CASE DetachVm
    <2>1. /\ attached /\ attached' = FALSE /\ currentStack' = <<>> /\ pc' = pc /\ Free
          /\ vmpc \in {"script", "waiting", "woken"} /\ pauseRequested' = "None"
      BY <1>3 DEF DetachVm, clientVars
    <2>2. vmpc' = IF vmpc = "waiting" THEN "woken" ELSE vmpc
      BY <1>3 DEF DetachVm, NotifyAll, Safe, PauseInv
    <2>3. Mode' = "None" /\ Due' = {}
      BY <2>1 DEF Mode, Due
    <2>4. CountedDepth' = 0
      BY <2>1, <2>2 DEF CountedDepth
    <2>5. Script # "atLine" /\ Script' = IF Script = "stopped" THEN "released" ELSE Script
      BY <2>1, <2>2 DEF Script
    <2>6. Contract!Detach
      BY <2>1, <2>3, <2>4, <2>5 DEF Contract!Detach
    <2> QED
      BY <2>6 DEF Contract!Next
  <1> QED
    BY <1>1, <1>2, <1>3

\* Waking the hook sets a stopped script free, and changes no depth.
LEMMA WakeReleases ==
    ASSUME NotifyAll, UNCHANGED currentStack, vmpc # "notify"
    PROVE  CountedDepth' = CountedDepth /\ Script' = Contract!Released
  BY DEF NotifyAll, CountedDepth, Script, Contract!Released

LEMMA MapClient ==
    ASSUME Safe, MirrorInv, StepInv, NEW c \in Client, Command(c) \/ CommandStep(c)
    PROVE  Contract!Next \/ UNCHANGED Contract!vars
  <1>1. UNCHANGED <<attached, currentStack>>
    BY CommandQuiet DEF ScriptUnchanged, vmData
  <1>2. pc \in [Client -> ClientPC] /\ Len(currentStack) \in Nat
    BY Depth DEF Safe, TypeInv, TypeOK
  <1>3. CASE Discreet
    <2>1. UNCHANGED <<CountedDepth, Script, Mode>>
      BY <1>1, <1>3 DEF Discreet, CountedDepth, Script, Mode, PauseHalfMade
    <2> QED
      BY <1>1, <1>3, <2>1, Unseen DEF Discreet
  <1>4. CASE RequestPause(c) /\ pauseRequested = "None"
    <2>1. vmpc' = vmpc /\ pc' = [pc EXCEPT ![c] = "pausing"]
      BY <1>4 DEF RequestPause, GoTo
    <2>2. Mode = "None" /\ Mode' = "None"
      BY <1>2, <1>4, <2>1 DEF Mode, PauseHalfMade
    <2>3. UNCHANGED <<CountedDepth, Script>>
      BY <1>1, <2>1 DEF CountedDepth, Script
    <2> QED
      BY <1>1, <2>2, <2>3, Unseen
  <1>5. CASE SetPauseReturns(c)
    <2>1. /\ vmpc' = vmpc /\ pc[c] = "pausing" /\ pc' = [pc EXCEPT ![c] = "done"]
          /\ pauseRequested' = pauseRequested /\ returnsRequired' = -1
      BY <1>5 DEF SetPauseReturns, Done
    <2>2. \A d \in Client : pc[d] = "pausing" => d = c
      BY <2>1 DEF Safe, MutexInv
    <2>3. ~PauseHalfMade' /\ PauseHalfMade
      BY <1>2, <2>1, <2>2 DEF PauseHalfMade
    <2>4. pauseRequested = "StepIn"
      BY <2>1 DEF StepInv
    <2>5. Mode = "None" /\ Mode' = "StepIn"
      BY <2>1, <2>3, <2>4 DEF Mode
    <2>6. UNCHANGED <<CountedDepth, Script>>
      BY <1>1, <2>1 DEF CountedDepth, Script
    <2>7. Due' = 0 .. MaxDepth
      BY <2>1, <2>5 DEF Due
    <2>8. Contract!Pause
      BY <1>1, <2>5, <2>6, <2>7 DEF Contract!Pause, Contract!Depths
    <2> QED
      BY <2>8 DEF Contract!Next
  <1>6. CASE ReleaseScript(c) /\ pauseRequested # "None"
    <2>1. Free /\ pauseRequested' = "None" /\ NotifyAll
      BY <1>6 DEF ReleaseScript
    <2>2. Mode # "None"
      BY <1>6, <2>1, NobodyPausing
    <2>3. Mode' = "None" /\ Due' = {}
      BY <2>1 DEF Mode, Due
    <2>4. vmpc # "notify"
      BY <2>1 DEF Free, Safe, MutexInv
    <2>5. CountedDepth' = CountedDepth /\ Script' = Contract!Released
      BY <1>1, <2>1, <2>4, WakeReleases
    <2>6. Contract!Continue
      BY <1>1, <2>2, <2>3, <2>5 DEF Contract!Continue
    <2> QED
      BY <2>6 DEF Contract!Next
  <1>7. ASSUME NEW type \in {"StepOut", "StepOver", "StepIn"}, NEW returns \in {1, 0, -1},
               isPaused, Step(c, type, returns),
               /\ type = "StepOut" => returns = 1
               /\ type = "StepOver" => returns = 0
               /\ type = "StepIn" => returns = -1
        PROVE  Contract!Next
    <2>1. /\ Free /\ returnsRequired' = returns /\ pauseRequested' = type /\ NotifyAll
          /\ pc' = [pc EXCEPT ![c] = "done"]
      BY <1>7 DEF Step, Done
    <2>2. attached /\ vmpc \in {"waiting", "woken"}
      BY <1>7, <2>1 DEF Free, Safe, MutexInv, PauseInv
    <2>3. \A d \in Client : pc'[d] # "pausing"
      BY <1>2, <2>1, NobodyPausing
    <2>4. Mode' = type
      BY <2>1, <2>3 DEF Mode, PauseHalfMade
    <2>5. CountedDepth' = CountedDepth /\ Script' = Contract!Released
      BY <1>1, <2>1, <2>2, WakeReleases
    <2>6. Script \in {"stopped", "released"} /\ CountedDepth \in Nat
      BY <1>2, <2>2 DEF Script, CountedDepth
    <2>7. Due' = IF type = "StepOut" THEN 0 .. CountedDepth - 1
                 ELSE IF type = "StepOver" THEN 0 .. CountedDepth ELSE 0 .. MaxDepth
      <3>1. Due' = IF returns < 0 THEN 0 .. MaxDepth ELSE 0 .. (CountedDepth - returns)
        BY <2>1, <2>4, <2>5 DEF Due
      <3>2. CASE type = "StepOut"
        BY <1>7, <3>1, <3>2
      <3>3. CASE type = "StepOver"
        <4>1. CountedDepth - 0 = CountedDepth /\ returns = 0
          BY <1>7, <2>6, <3>3
        <4> QED
          BY <3>1, <3>3, <4>1
      <3>4. CASE type = "StepIn"
        BY <1>7, <3>1, <3>4
      <3> QED
        BY <3>2, <3>3, <3>4
    <2>8. Contract!Step
      BY <1>1, <2>2, <2>4, <2>5, <2>6, <2>7 DEF Contract!Step, Contract!Depths
    <2> QED
      BY <2>8 DEF Contract!Next
  <1>8. CASE isPaused /\ (StepOut(c) \/ StepOver(c) \/ StepIn(c))
    BY <1>7, <1>8 DEF StepOut, StepOver, StepIn
  <1> QED
    BY <1>3, <1>4, <1>5, <1>6, <1>8, ClientSteps

-----------------------------------------------------------------------------
\* With any number of clients, however their commands and the hooks come
\* between each other, the script stops at every line where it is due to stop
\* and at no other, and goes on only when it is told to, as StepContract says.
THEOREM SteppingKeepsContract ==
    ASSUME ~DetachRacesHook, ~SpuriousWakeups
    PROVE  Spec => KeepsStepContract
  <1>1. Safe /\ MirrorInv /\ StepInv /\ [Next]_vars => [Contract!Next]_(Contract!vars)
    <2> SUFFICES ASSUME Safe, MirrorInv, StepInv, [Next]_vars
                 PROVE  Contract!Next \/ UNCHANGED Contract!vars
      OBVIOUS
    <2>1. CASE UNCHANGED vars
      <3>1. UNCHANGED <<attached, currentStack, vmpc, pauseRequested, returnsRequired, pc>>
        BY <2>1 DEF vars, pauseData, vmData, clientVars
      <3>2. UNCHANGED <<CountedDepth, Script>>
        BY <3>1 DEF CountedDepth, Script
      <3> QED
        BY <3>1, <3>2, SameMode, Unseen
    <2> QED
      BY <2>1, MapScript, MapHook, MapHost, MapClient DEF Next
  <1>2. Safe /\ MirrorInv /\ StepInv /\ [Next]_vars => StepInv'
    BY StepInvStep
  <1>3. Spec => [](Safe /\ MirrorInv /\ StepInv)
    BY <1>2, AlwaysMirror, StepInit, PTL DEF Spec
  <1> QED
    BY <1>1, <1>3, MapInit, PTL DEF Spec, KeepsStepContract, Contract!Spec

=============================================================================
