\* One enqueue may evict what the pass has listed; the host may die, listings
\* may fail, the endpoint may be down for ever or come back.
SPECIFICATION LiveSpec
CONSTANTS
  r1 = r1
  r2 = r2
  r3 = r3
  h1 = h1
  host = host
  Report = {r1, r2}
  Thread = {h1}
  Process = {host}
  Owner <- OwnerOne
  Size <- Sizes
  MaxReports = 1
  MaxBytes = 3
  MaxClock = 2
  Env = {"crash", "io_list"}
  None = None
  Taken = Taken
  Drainer = host
  MaxAttempts = 3
  Oversize = {}
  Unreadable = {}
  Refused = {r1}
  Hazard = {"down"}
INVARIANTS
  SentOnlyIfAccepted
  NoNeedlessDuplicate
  ReportIsHonest
PROPERTIES
  PassEnds
  EveryReportLeaves
\* The host has nothing left to enqueue, and the spool may be empty.
CHECK_DEADLOCK FALSE
