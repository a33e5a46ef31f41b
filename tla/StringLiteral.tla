---------------------------- MODULE StringLiteral ----------------------------
(***************************************************************************)
(* The strings in watch expressions: ReadString (SquirrelVmHelpers.cpp)    *)
(* reads a text character by character, from its opening quote to the     *)
(* closing one, and turns escapes into what they stand for.  For           *)
(* Expression, which begins where this ends, a string is one token.        *)
(***************************************************************************)
EXTENDS Integers, Sequences, SequencesExt, FiniteSets

CONSTANTS
    Char,       \* the characters of a text
    HexDigit,   \* the hexadecimal digits among them, with their values
    Escape,     \* letters after a backslash, with the characters they stand for
    MaxText     \* bound: the length of a text

Quote == {"\"", "'"}
NumberLetter == {"x", "u", "U"}

ASSUME CharAssumption ==
    /\ "end" \notin Char
    /\ DOMAIN HexDigit \subseteq Char /\ DOMAIN Escape \subseteq Char
    /\ \A digit \in DOMAIN HexDigit : HexDigit[digit] \in 0 .. 15
    /\ DOMAIN Escape \cap (NumberLetter \cup {"\n"}) = {}
    /\ MaxText \in Nat

VARIABLES
    text,       \* what has been read, "end" included
    phase,      \* "idle", "body", "escape", "digits", "returned" or "thrown"
    output,     \* the string so far
    letter,     \* x, u or U, while its digits are read
    digits      \* what processStringEscape has stored

vars == <<text, phase, output, letter, digits>>

Plain(c)  == <<"char", c>>
Number(n) == <<"number", n>>

\* What a build makes of digits that were stored behind the end of temp.
Undefined == <<"undefined", "undefined">>

-----------------------------------------------------------------------------

\* The size of temp, and the digits that processStringEscape may store in it.
Width     == [x |-> 2, u |-> 4, U |-> 8]
MaxDigits == [x |-> 2, u |-> 8, U |-> 8]

\* Mutant: the last digit is taken for the highest.
FromHexBackwards(values) == FoldRight(LAMBDA digit, n : (16 * n + digit) % 256, values, 0)

\* strtoul and the cast to SQChar, a char.
FromHex(values) ==
    LET read[n \in 0 .. Len(values)] == IF n = 0 THEN 0 ELSE (16 * read[n - 1] + values[n]) % 256
    IN  read[Len(values)]

\* temp is filled with zeros, and the digits are stored from its beginning.
NumberRead ==
    IF Len(digits) > Width[letter] THEN Undefined
    ELSE Number(FromHex([i \in 1 .. Width[letter] |->
                            IF i \in DOMAIN digits THEN HexDigit[digits[i]] ELSE 0]))

Open(quote) ==
    /\ phase = "idle"
    /\ text' = <<quote>>
    /\ phase' = "body"
    /\ UNCHANGED <<output, letter, digits>>

Throw == phase' = "thrown" /\ UNCHANGED <<output, letter, digits>>

\* Mutant: any quote ends the string.
AnyQuote == Quote

\* enclosingChar
Enclosing == {text[1]}

Body(c) ==
    CASE c = "\\" -> phase' = "escape" /\ UNCHANGED <<output, letter, digits>>
      [] c \in Enclosing \cup {"end"} -> phase' = "returned" /\ UNCHANGED <<output, letter, digits>>
      [] c = "\n" -> Throw
      [] OTHER -> output' = Append(output, Plain(c)) /\ UNCHANGED <<phase, letter, digits>>

\* Mutant: an unknown escape stands for its letter.
AnyEscape(c) ==
    CASE c \in DOMAIN Escape ->
            output' = Append(output, Plain(Escape[c])) /\ phase' = "body" /\ UNCHANGED <<letter, digits>>
      [] c \in NumberLetter ->
            letter' = c /\ digits' = <<>> /\ phase' = "digits" /\ UNCHANGED output
      [] OTHER ->
            output' = Append(output, Plain(c)) /\ phase' = "body" /\ UNCHANGED <<letter, digits>>

AfterBackslash(c) ==
    CASE c \in DOMAIN Escape ->
            output' = Append(output, Plain(Escape[c])) /\ phase' = "body" /\ UNCHANGED <<letter, digits>>
      [] c \in NumberLetter ->
            letter' = c /\ digits' = <<>> /\ phase' = "digits" /\ UNCHANGED output
      [] OTHER -> Throw

IsNextDigit(c) == c \in DOMAIN HexDigit /\ Len(digits) < MaxDigits[letter]

\* processStringEscape.  The character after the digits, whatever it is, has been looked at;
\* the loop of ReadString then steps over it.
ReadDigit(c) ==
    CASE c = "end" \/ (digits = <<>> /\ c \notin DOMAIN HexDigit) -> Throw
      [] IsNextDigit(c) -> digits' = Append(digits, c) /\ UNCHANGED <<phase, output, letter>>
      [] OTHER ->
            output' = Append(output, NumberRead) /\ phase' = "body" /\ UNCHANGED <<letter, digits>>

\* One more character of the text, or its end.
ReadString(c) ==
    /\ phase \in {"body", "escape", "digits"}
    /\ c # "end" => Len(text) < MaxText
    /\ text' = Append(text, c)
    /\ CASE phase = "body" -> Body(c)
         [] phase = "escape" -> AfterBackslash(c)
         [] phase = "digits" -> ReadDigit(c)

\* ParseExpression takes the string, or GetImmediateValue the error.
Return ==
    /\ phase \in {"returned", "thrown"}
    /\ text' = <<>> /\ phase' = "idle" /\ output' = <<>> /\ letter' = "x" /\ digits' = <<>>

Init == text = <<>> /\ phase = "idle" /\ output = <<>> /\ letter = "x" /\ digits = <<>>

Next ==
    \/ \E quote \in Quote \cap Char : Open(quote)
    \/ \E c \in Char \cup {"end"} : ReadString(c)
    \/ Return

Spec == Init /\ [][Next]_vars

-----------------------------------------------------------------------------
(* What a text says, without reading it from left to right *)

\* Which characters a backslash makes part of an escape.
Escaped[i \in DOMAIN text] == i > 1 /\ text[i - 1] = "\\" /\ ~Escaped[i - 1]

IsBackslash(i) == text[i] = "\\" /\ ~Escaped[i]
HasNumber == \E i \in DOMAIN text : Escaped[i] /\ text[i] \in NumberLetter

\* The quotes that can close the string.
Closing == {i \in 2 .. Len(text) : text[i] = text[1] /\ ~Escaped[i]}

\* What a text without numbers must not have.
IsMistake(i) ==
    \/ text[i] = "\n"
    \/ Escaped[i] /\ text[i] \notin DOMAIN Escape

\* What the characters from the second to the last but one denote.
Denoted ==
    LET meaning(i) == IF IsBackslash(i) THEN <<>>
                      ELSE IF Escaped[i] THEN <<Plain(Escape[text[i]])>> ELSE <<Plain(text[i])>>
    IN  FlattenSeq([i \in 1 .. Len(text) - 2 |-> meaning(i + 1)])

\* The first number, how many characters come before it, and whether all of its digits are there.
FirstNumber  == Min({i \in DOMAIN text : Escaped[i] /\ text[i] \in NumberLetter})
BeforeNumber == Cardinality({i \in 2 .. FirstNumber - 1 : ~IsBackslash(i)})
IsWholeNumber ==
    LET last == FirstNumber + Width[text[FirstNumber]]
    IN  /\ last < Len(text)
        /\ \A i \in FirstNumber + 1 .. last : text[i] \in DOMAIN HexDigit
        /\ text[FirstNumber] = "u" => text[last + 1] \notin DOMAIN HexDigit

-----------------------------------------------------------------------------
(* Properties *)

\* "ReadString will increment `pos` past the end of the expression" (SquirrelVmHelpers.cpp:920),
\* and no further: what is read ends with the first quote that closes the string, and gives what
\* stands between the quotes.  A text that ends first gives all of it.  This is about texts
\* without numbers in escapes.
ReadsWhatIsQuoted ==
    phase = "returned" /\ ~HasNumber =>
        /\ output = Denoted
        /\ IF Last(text) = "end" THEN Closing = {} ELSE Closing = {Len(text)}

\* A text without numbers is rejected as soon as it has a newline, or a backslash without one of
\* the letters that can follow it, and for nothing else, wherever quotes and backslashes stand.
ThrowsAtMistakes ==
    ~HasNumber => ((phase = "thrown") = (\E i \in DOMAIN text : IsMistake(i)))

\* The first number of a text, if it has all of its digits, is read as written, whatever is around
\* it: its low byte, since it becomes an SQChar (processStringEscape, lines 718-735, 775-801).
WholeNumbersAreRead ==
    HasNumber =>
        (IsWholeNumber /\ phase # "thrown" =>
            LET last == FirstNumber + Width[text[FirstNumber]]
            IN  /\ BeforeNumber < Len(output)
                /\ output[BeforeNumber + 1] =
                       Number(16 * HexDigit[text[last - 1]] + HexDigit[text[last]]))
=============================================================================
