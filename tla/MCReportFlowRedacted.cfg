\* A host that edits; the span is in the title.
SPECIFICATION Spec
CONSTANTS
    Report = {r1}
    Manual = {}
    Spans <- TitleOnly
    Deployments <- EditingHost
INVARIANTS
    RedactedStays
CHECK_DEADLOCK FALSE
