---------------------------- MODULE MCSampleApp -----------------------------
(* One file, one client besides the main thread; connections are made at any
   stage, or all before the script begins. *)
EXTENDS SampleApp

MCFileName == {"main.nut"}
MCLower == [f \in MCFileName |-> f]

MCMinReturns == -2

MCSender == {"vm"} \cup Client
MCEvent == RunState \cup {"Output"}

MCEarly == {"opening"}
=============================================================================
