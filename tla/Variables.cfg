\* Tables of one to three entries, sorted below three; paths of up to three parts.
SPECIFICATION Spec
CONSTANTS
    Container <- MCContainer
    OtherValue <- MCOtherValue
    Heaps <- MCHeaps
    Root <- MCRoot
    Locals <- MCLocals
    Registers <- MCRegisters
    NameOf <- MCNameOf
    MaxTableSizeToSort = 3
    Text <- MCText
    Parse <- MCParse
    MaxPath = 3
    Iterator = {0, 1, 2}
    Count = {1, 2}
INVARIANTS VariablesTypeOK   EditableEntriesCanBeSet
PROPERTIES WriteHitsItsTarget
CHECK_DEADLOCK FALSE
