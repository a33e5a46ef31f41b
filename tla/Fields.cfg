\* The script of Expression.cfg; expected to be violated.
SPECIFICATION Spec
CONSTANTS
    OperandToken <- MCOperandToken
    Heap <- MCHeap
    Root <- MCRoot
    Locals <- MCLocals
    LongMax = 1
    MaxText = 5
INVARIANTS ExpressionsMeanWhatTheySay
