--------------------------- MODULE BreakpointMap ---------------------------
(***************************************************************************)
(* The breakpoint map of the debugger (BreakpointMap.h, BreakpointMap.cpp) *)
(*                                                                         *)
(* A file is known by a handle: the address of the shared string that      *)
(* holds its lower-case name, modelled by the string's place in            *)
(* fileNames.  Breakpoints are stored per handle, then per line.  The      *)
(* operators are functions of the map, so that SquirrelDebugger can call   *)
(* several of them in one critical section.                                *)
(***************************************************************************)
EXTENDS Integers, Sequences

CONSTANTS
    FileName,       \* the spellings of file names that clients and scripts use
    Lower,          \* StrToLower, as a function on FileName
    Line,           \* line numbers on which a breakpoint can be set
    BreakpointId,   \* identifiers that clients give to breakpoints
    MaxBreakpoints  \* bound: breakpoints in one SetFileBreakpoints request

ASSUME LowerAssumption ==
    /\ Lower \in [FileName -> FileName]
    /\ \A f \in FileName : Lower[Lower[f]] = Lower[f]

ASSUME NumbersAssumption ==
    /\ Line \subseteq Nat \ {0}
    /\ BreakpointId \subseteq Nat \ {0}
    /\ MaxBreakpoints \in Nat

VARIABLE bm     \* PauseMutexDataImpl::breakpoints

NullHandle   == 0   \* a null FileNameHandle
NoBreakpoint == 0   \* the id of a default-constructed Breakpoint

Handles(m) == DOMAIN m.fileNames

Breakpoints == [id : BreakpointId, line : Line]

\* What a request can hold once it has been validated.
BreakpointLists == UNION {[1 .. n -> Breakpoints] : n \in 0 .. MaxBreakpoints}

EmptyTable == [x \in {} |-> NoBreakpoint]   \* an empty unordered_map

EmptyMap == [fileNames |-> <<>>, breakpoints |-> EmptyTable]

-----------------------------------------------------------------------------
(* The operations *)

\* std::find_if: the first stored name that equals the lower-case name.
FindFileNameHandle(m, file) ==
    LET matches == {h \in Handles(m) : m.fileNames[h] = Lower[file]}
    IN  IF matches = {} THEN NullHandle
        ELSE CHOOSE h \in matches : \A k \in matches : h <= k

\* Mutant: a new handle on every call.
EnsureAnew(m, file) == [m EXCEPT !.fileNames = Append(@, Lower[file])]

\* Mutant: the name is stored as it was spelled.
EnsureAsSpelled(m, file) ==
    IF FindFileNameHandle(m, file) # NullHandle THEN m
    ELSE [m EXCEPT !.fileNames = Append(@, file)]

\* The map after the call; the handle is then FindFileNameHandle(m', file).
EnsureFileNameHandle(m, file) ==
    IF FindFileNameHandle(m, file) # NullHandle THEN m
    ELSE [m EXCEPT !.fileNames = Append(@, Lower[file])]

\* Mutant: clears the map instead of the entry.
ClearEverything(m, handle) == EmptyMap

\* The entry of the file stays, with no lines.
Clear(m, handle) ==
    IF handle \notin DOMAIN m.breakpoints THEN m
    ELSE [m EXCEPT !.breakpoints[handle] = EmptyTable]

\* The line-to-id map that results from inserting bps one by one into old:
\* the last breakpoint on a line wins.
Inserted(old, bps) ==
    LET lines    == {bps[i].line : i \in DOMAIN bps}
        last(ln) == CHOOSE i \in DOMAIN bps :
                        /\ bps[i].line = ln
                        /\ \A j \in DOMAIN bps : bps[j].line = ln => j <= i
    IN  [ln \in DOMAIN old \cup lines |->
            IF ln \in lines THEN bps[last(ln)].id ELSE old[ln]]

\* breakpoints_[handle] creates the entry of the file when there is none.
AddAll(m, handle, bps) ==
    LET old == IF handle \in DOMAIN m.breakpoints THEN m.breakpoints[handle] ELSE EmptyTable
    IN  [m EXCEPT !.breakpoints =
            [h \in DOMAIN @ \cup {handle} |-> IF h = handle THEN Inserted(old, bps) ELSE @[h]]]

\* The id of the breakpoint on that line, or the id bp had before the call.
ReadBreakpoint(m, handle, line) ==
    IF handle \in DOMAIN m.breakpoints /\ line \in DOMAIN m.breakpoints[handle]
    THEN m.breakpoints[handle][line]
    ELSE NoBreakpoint

\* Mutant: the previous breakpoints of the file stay.
ReplacedWithoutClear(m, file, bps) ==
    LET known  == EnsureFileNameHandle(m, file)
    IN  AddAll(known, FindFileNameHandle(known, file), bps)

\* What SetFileBreakpoints does with the map, in one critical section.
Replaced(m, file, bps) ==
    LET known  == EnsureFileNameHandle(m, file)
        handle == FindFileNameHandle(known, file)
    IN  AddAll(Clear(known, handle), handle, bps)

-----------------------------------------------------------------------------
(* The component on its own: the two critical sections that change the map *)

BMInit == bm = EmptyMap

\* SquirrelDebugger::SetFileBreakpoints, once its arguments are validated.
ReplaceFile(file, bps) == bm' = Replaced(bm, file, bps)

\* The 'c' hook, when it meets a source for the first time.
SeeSource(file) == bm' = EnsureFileNameHandle(bm, file)

BMNext ==
    \E file \in FileName :
        \/ \E bps \in BreakpointLists : ReplaceFile(file, bps)
        \/ SeeSource(file)

BMSpec == BMInit /\ [][BMNext]_bm

-----------------------------------------------------------------------------
(* Properties *)

LowerNames == {Lower[f] : f \in FileName}

LineMaps == UNION {[lines -> BreakpointId] : lines \in SUBSET Line}

IsMap(m) ==
    /\ m = [fileNames |-> m.fileNames, breakpoints |-> m.breakpoints]
    /\ m.fileNames \in Seq(LowerNames)
    /\ m.breakpoints \in [DOMAIN m.breakpoints -> LineMaps]
    /\ DOMAIN m.breakpoints \subseteq Handles(m)

\* The map has its type: lower-case names, and only entries of known handles.
BMTypeOK == IsMap(bm)

UniqueIn(m) == \A h, k \in Handles(m) : m.fileNames[h] = m.fileNames[k] => h = k

\* Two handles never stand for the same file, whatever the spelling in which
\* clients and scripts name it: a breakpoint set under one spelling cannot
\* hide in an entry that the hook's handle does not reach.
HandlesUnique == UniqueIn(bm)

\* A handle once given out stays the handle of that file.  The hook caches
\* handles in fileNameHandles and currentStack and never asks again.
HandlesStable ==
    [][\A f \in FileName :
          FindFileNameHandle(bm, f) # NullHandle
              => FindFileNameHandle(bm', f) = FindFileNameHandle(bm, f)]_bm

\* What clients are promised: see FileBreakpoints.
Promise == INSTANCE FileBreakpoints WITH
    at <- [n \in LowerNames |->
              [ln \in Line |-> ReadBreakpoint(bm, FindFileNameHandle(bm, n), ln)]]

\* The two-level map of handles implements one table of breakpoints per file.
ImplementsPromise == Promise!Spec

=============================================================================
