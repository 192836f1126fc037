\* The host and its crash monitor enqueue into one directory while a consumer
\* removes reports; processes die, the power fails, calls fail.
SPECIFICATION Spec
CONSTANTS
  r1 = r1
  r2 = r2
  r3 = r3
  r4 = r4
  h1 = h1
  h2 = h2
  host = host
  monitor = monitor
  Report <- ReportsOf3
  Thread = {h1, h2}
  Process = {host, monitor}
  Owner <- OwnerBoth
  Size <- SizesOf3
  MaxReports = 1
  MaxBytes = 3
  MaxClock = 1
  Env = {"crash", "power", "take", "io_write", "io_list"}
  None = None
  Taken = Taken
INVARIANTS
  TypeOK
  ListedComplete
  AcknowledgedWithinCount
  BudgetAtRest
PROPERTIES
  AtomicStore
\* Every call has been made once: the host has nothing left to enqueue.
CHECK_DEADLOCK FALSE
