\* The containers of Variables.cfg; expected to be violated.
SPECIFICATION Spec
CONSTANTS
    Container <- MCContainer
    OtherValue <- MCOtherValue
    Heaps <- MCHeaps
    Root <- MCRoot
    Locals <- MCLocals
    Registers <- MCRegisters
    NameOf <- MCNameOf
    MaxTableSizeToSort = 3
    Text <- MCText
    Parse <- MCParse
    MaxPath = 3
    Iterator = {0, 1, 2}
    Count = {1, 2}
INVARIANTS EditableVariablesCanBeSet
CHECK_DEADLOCK FALSE
