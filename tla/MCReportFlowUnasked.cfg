\* The drain beside an armed crash monitor.
SPECIFICATION Spec
CONSTANTS
    Report = {r1, r2}
    Manual = {r2}
    Spans <- MCSpans
    Deployments <- DrainWithMonitor
INVARIANTS
    ConsentBeforeSend
CHECK_DEADLOCK FALSE
