---------------------------- MODULE ReportQueue ----------------------------
(***************************************************************************)
(* The spool as its one writer sees it: a bounded queue.  Reports join at  *)
(* the tail; while a budget is exceeded the head, the oldest report, may   *)
(* be evicted, and nothing else ever leaves.  The queue is its reports and *)
(* the order in which they came.                                           *)
(***************************************************************************)
EXTENDS Naturals, FiniteSets

CONSTANTS Report, Size, MaxReports, MaxBytes

VARIABLES
  stored,   \* the reports in the queue
  order     \* the pairs of them of which the first came before the second

Queued == <<stored, order>>

QueuedBytes == Cardinality(UNION {{r} \X (1 .. Size[r]) : r \in stored})

OverBudget == Cardinality(stored) > MaxReports \/ QueuedBytes > MaxBytes

Head == {r \in stored : \A q \in stored \ {r} : <<r, q>> \in order}

Init == stored = {} /\ order = {}

Put(r) ==
  /\ r \notin stored
  /\ stored' = stored \cup {r}
  /\ order' = order \cup stored \X {r}

EvictOldest ==
  /\ OverBudget
  /\ \E r \in Head : stored' = stored \ {r}
  /\ order' = order \cap (stored' \X stored')

Next == EvictOldest \/ \E r \in Report : Put(r)

Spec == Init /\ [][Next]_Queued
=============================================================================
