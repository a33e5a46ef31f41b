\* Breakpoints: two files (three spellings), three lines, two ids, requests of up to two
\* breakpoints.  Literals: texts of up to eight characters, such as "\u4b4b".  Listener: two
\* clients, two senders of two messages each, one unread message that fits a socket's buffer.
\* Display: four slots in the root table, where three are too many to sort.
SPECIFICATION PartsSpec
CONSTANTS
    FileName <- MCFileName
    Lower <- MCLower
    Line = {1, 2, 3}
    BreakpointId = {1, 2}
    MaxBreakpoints = 2
    Char <- MCChar
    HexDigit <- MCHexDigit
    Escape <- MCEscape
    MaxText = 8
    Socket = {s1, s2}
    Sender <- MCSender
    Event <- MCEvent
    NoSocket = NoSocket
    NoEvent = NoEvent
    MaxUnread = 1
    MaxTold = 4
    MaxSent = 2
    ConnectionsRace = FALSE
    HeapsToShow <- MCHeapsToShow
    RootTable <- Root
    Subjects <- MCSubjects
    ClassOf <- MCClassOf
    LocalsLists <- MCLocalsLists
    WidthOf <- MCWidthOf
    PlaceOf <- MCPlaceOf
    MaxSizeToSort = 3
    MaxSummary = 8
    MaxCalls = 11
CHECK_DEADLOCK FALSE
INVARIANTS
     HandlesUnique
    ReadsWhatIsQuoted ThrowsAtMistakes WholeNumbersAreRead
    ListedWhileOpen HearsAllInOrder
    OnlyCyclesOverflow  ClassesAreNamed
PROPERTIES HandlesStable ImplementsPromise
