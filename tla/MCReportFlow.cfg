\* Every deployment in which the spool that is drained holds approved reports only.
SPECIFICATION Spec
CONSTANTS
    Report = {r1, r2}
    Manual = {r2}
    Spans <- MCSpans
    Deployments <- WithoutForeignReports
INVARIANTS
    ConsentBeforeSend
    RedactedBodyStays
    KeptUntilSettled
CHECK_DEADLOCK FALSE
