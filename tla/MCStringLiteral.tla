-------------------------- MODULE MCStringLiteral --------------------------
(***************************************************************************)
(* For TLC: both quotes, escapes of one letter, and the longer of those     *)
(* with numbers; a digit that is an escape as well, and one that is not.   *)
(***************************************************************************)
EXTENDS StringLiteral, TLC

MCChar == {"\"", "'", "\\", "\n", "u", "4", "b"}
MCHexDigit == ("4" :> 4) @@ ("b" :> 11)
MCEscape == ("b" :> "backspace") @@ ("\"" :> "\"") @@ ("'" :> "'") @@ ("\\" :> "\\")
=============================================================================
