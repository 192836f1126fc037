\* Every failure of every call, and every kill.
SPECIFICATION LiveSpec
CONSTANTS
    Host = {h1, h2}
    Monitor = {m1, m2}
    None = None
    Fail <- AnyFailure
INVARIANTS
    TypeOK
    NeverBothCopies
    ExitTellsOutcome
PROPERTY
    FaultEnds
CHECK_DEADLOCK FALSE
