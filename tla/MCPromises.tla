----------------------------- MODULE MCPromises -----------------------------
(* One file; negative bounds cannot be written in a configuration file. *)
EXTENDS Promises

MCFileName == {"main.nut"}
MCLower == [f \in MCFileName |-> f]
MCMinReturns == -2
=============================================================================
