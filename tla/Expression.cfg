\* Texts of up to seven tokens, such as a[t[0]].
SPECIFICATION Spec
CONSTANTS
    OperandToken <- MCOperandToken
    Heap <- MCHeap
    Root <- MCRoot
    Locals <- MCLocals
    LongMax = 1
    MaxText = 7
INVARIANTS RejectsNothingElse ReadsWhatIsWritten PathLeadsToValue IndexesMeanWhatTheySay
PROPERTIES EvaluationEnds
