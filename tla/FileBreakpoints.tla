-------------------------- MODULE FileBreakpoints --------------------------
(***************************************************************************)
(* What the breakpoint map promises to clients: per file, whatever the     *)
(* spelling of its name, a table of lines; a request replaces the table of *)
(* one file as a whole, and the last breakpoint it names on a line counts. *)
(***************************************************************************)
EXTENDS Integers, Sequences

CONSTANTS FileName, Lower, Line, BreakpointId, MaxBreakpoints

VARIABLE at     \* at[name][line]: the id of the breakpoint there, 0 if none

Names == {Lower[f] : f \in FileName}

Requests == UNION {[1 .. n -> [id : BreakpointId, line : Line]] : n \in 0 .. MaxBreakpoints}

\* i is the last breakpoint that bps names on the line.
IsLastOn(bps, i, line) ==
    /\ bps[i].line = line
    /\ \A j \in DOMAIN bps : bps[j].line = line => j <= i

\* The table that holds exactly what the request says.
TableOf(bps) ==
    [line \in Line |->
        IF \E i \in DOMAIN bps : bps[i].line = line
        THEN bps[CHOOSE i \in DOMAIN bps : IsLastOn(bps, i, line)].id
        ELSE 0]

Init == at = [n \in Names |-> [line \in Line |-> 0]]

\* One file gets the table that a request asks for, other files are left alone.
Replace(name) == \E bps \in Requests : at' = [at EXCEPT ![name] = TableOf(bps)]

Next == \E name \in Names : Replace(name)

Spec == Init /\ [][Next]_at
=============================================================================
