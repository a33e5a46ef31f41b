------------------------- MODULE MCSquirrelDebugger -------------------------
(* One file, which the script and the clients spell differently, for TLC.
   Negative bounds cannot be written in a configuration file. *)
EXTENDS Stepping

MCFileName == {"main.nut", "MAIN.NUT"}
MCLower == [f \in MCFileName |-> "main.nut"]

MCMinReturns == -2

Symmetry == Permutations(Client)
=============================================================================
