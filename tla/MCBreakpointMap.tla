-------------------------- MODULE MCBreakpointMap --------------------------
(* Two files, one of them spelled in two ways, for TLC. *)
EXTENDS BreakpointMap

MCFileName == {"main.nut", "MAIN.NUT", "lib.nut"}
MCLower == [f \in MCFileName |-> IF f = "MAIN.NUT" THEN "main.nut" ELSE f]
=============================================================================
