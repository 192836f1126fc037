\* One thread of the host enqueues four reports, one of them larger than the
\* whole budget; the host may be killed and start again.
SPECIFICATION Spec
CONSTANTS
  r1 = r1
  r2 = r2
  r3 = r3
  r4 = r4
  h1 = h1
  h2 = h2
  host = host
  monitor = monitor
  Report <- ReportsOf4
  Thread = {h1}
  Process = {host}
  Owner <- OwnerAlone
  Size <- SizesOf4
  MaxReports = 2
  MaxBytes = 3
  MaxClock = 2
  Env = {"crash"}
  None = None
  Taken = Taken
INVARIANTS
  OnlyOversizeEvictsItself
PROPERTIES
  EvictsOldestFirst
\* Every call has been made once: the host has nothing left to enqueue.
CHECK_DEADLOCK FALSE
