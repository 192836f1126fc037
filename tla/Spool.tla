------------------------------- MODULE Spool -------------------------------
(***************************************************************************)
(* The on-disk report spool of itasha-report-core (src/.../spool.rs).      *)
(*                                                                         *)
(* Several threads, of one process or of several (the host application and *)
(* its crash monitor open the same directory), enqueue reports while a     *)
(* consumer removes them.  enqueue is a sequence of file-system calls with *)
(* nothing held between them, so every call is an action of its own: the   *)
(* temporary file is created, written and synced, renamed into place, and  *)
(* then enforce_budget lists the directory three times and unlinks the     *)
(* oldest reports.  A process may be killed, and the power may fail,       *)
(* between any two of them.                                                *)
(*                                                                         *)
(* A member of Report is one call of enqueue together with the file it     *)
(* writes: the temporary and the final name differ only in their suffix    *)
(* and both carry the stamp of the call.  The directory is therefore kept  *)
(* per report: where its file is, and what its bytes are.                  *)
(***************************************************************************)
EXTENDS Naturals, FiniteSets

CONSTANTS
  Report,      \* the enqueue calls of a behaviour, each with its report
  Thread,      \* the threads that enqueue
  Process,     \* the operating-system processes they belong to
  Owner,       \* Owner[t] is the process of thread t
  Size,        \* Size[r] is the length of r's pretty-printed JSON
  MaxReports,  \* SpoolBudget::max_reports
  MaxBytes,    \* SpoolBudget::max_total_bytes
  MaxClock,    \* bound on the readings of the wall clock
  Env,         \* what the environment may do, a subset of Event
  None,        \* "no report", "no fate"
  Taken        \* the fate of a report that a consumer removed

(***************************************************************************)
(* The environment: a process is killed; the power fails; a consumer       *)
(* removes reports; the wall clock is set back; a call that writes, that   *)
(* lists or stats, or that unlinks returns an error.                       *)
(***************************************************************************)
Event == {"crash", "power", "take", "clock", "io_write", "io_list", "io_remove"}

ASSUME SpoolAssumption ==
  /\ IsFiniteSet(Report)
  /\ Owner \in [Thread -> Process]
  /\ Size \in [Report -> Nat]
  /\ MaxReports \in Nat
  /\ MaxBytes \in Nat
  /\ MaxClock \in Nat
  /\ Env \subseteq Event
  /\ None \notin Report
  /\ Taken \notin Report \cup {None}

VARIABLES
  at,      \* at[r]: is r's file absent, under its temporary name, or spooled
  data,    \* data[r]: how much of r's file has been written
  stamp,   \* stamp[r]: the <<nanoseconds, counter>> in r's file name
  pc,      \* pc[t]: the next file-system call of thread t
  cur,     \* cur[t]: the report that thread t is enqueueing
  files,   \* files[t]: what is left of the listing t walks through
  total,   \* total[t]: the local variable `total` of enforce_budget
  seq,     \* seq[p]: the static COUNTER of process p
  clock,   \* the last reading of the wall clock
  result,  \* result[r]: what became of the call that enqueues r
  fate     \* history: which call evicted r, or that a consumer took it

disk  == <<at, data>>
local == <<pc, cur, files, total>>
names == <<stamp, seq, clock>>
vars  == <<at, data, stamp, pc, cur, files, total, seq, clock, result, fate>>

Writing   == {"create", "write", "sync", "rename"}
Enforcing == {"list", "count", "sum", "bytes", "unlink"}
Stamp     == (0 .. MaxClock) \X Nat

TypeOK ==
  /\ at     \in [Report -> {"none", "tmp", "spool"}]
  /\ data   \in [Report -> {"none", "partial", "dirty", "synced"}]
  /\ stamp  \in [Report -> Stamp \cup {None}]
  /\ pc     \in [Thread -> {"idle"} \cup Writing \cup Enforcing]
  /\ cur    \in [Thread -> Report \cup {None}]
  /\ files  \in [Thread -> SUBSET Report]
  /\ total  \in [Thread -> Nat]
  /\ seq    \in [Process -> Nat]
  /\ clock  \in 0 .. MaxClock
  /\ result \in [Report -> {"none", "busy", "ok", "err", "died"}]
  /\ fate   \in [Report -> Report \cup {None, Taken}]

Init ==
  /\ at     = [r \in Report |-> "none"]
  /\ data   = [r \in Report |-> "none"]
  /\ stamp  = [r \in Report |-> None]
  /\ pc     = [t \in Thread |-> "idle"]
  /\ cur    = [t \in Thread |-> None]
  /\ files  = [t \in Thread |-> {}]
  /\ total  = [t \in Thread |-> 0]
  /\ seq    = [p \in Process |-> 0]
  /\ clock  = 0
  /\ result = [r \in Report |-> "none"]
  /\ fate   = [r \in Report |-> None]

(***************************************************************************)
(* Names.  Zero padding makes the order of the names the lexicographic     *)
(* order of the stamps, and list() returns the names in that order: a walk *)
(* over a listing always meets the oldest of what is left (no two files    *)
(* have one stamp).  Only names report-*.json are listed, never temporary  *)
(* ones.                                                                   *)
(***************************************************************************)
Earlier(a, b) == a[1] < b[1] \/ (a[1] = b[1] /\ a[2] <= b[2])

Listed == {r \in Report : at[r] = "spool"}

\* Mutant of Oldest: eviction from the wrong end of the listing.
NewestInstead(S) == {r \in S : \A q \in S : Earlier(stamp[q], stamp[r])}

Oldest(S) == {r \in S : \A q \in S : Earlier(stamp[r], stamp[q])}

\* The file-name stamp, and the readings of the clock: a clock before 1970
\* reads as zero.  Mutant: the counter before the clock.
CounterFirst(n, c) == <<c, n>>
StampOf(n, c) == <<n, c>>

Readings == 0 .. MaxClock

(***************************************************************************)
(* file_stamp reads the clock and takes the next value of the counter of   *)
(* the process.  Two processes that read the same nanosecond with the same *)
(* counter would share a name; the model excludes that coincidence.  The   *)
(* clock goes forwards unless Env has "clock".                             *)
(***************************************************************************)
FileStamp(p, r) ==
  \E n \in Readings :
    /\ "clock" \in Env \/ n >= clock
    /\ \A q \in Report : stamp[q] # StampOf(n, seq[p])
    /\ stamp' = [stamp EXCEPT ![r] = StampOf(n, seq[p])]
    /\ seq' = [seq EXCEPT ![p] = @ + 1]
    /\ clock' = n

Goto(t, l) == pc' = [pc EXCEPT ![t] = l]

\* Thread t leaves enqueue with outcome o and forgets its locals.
Finish(t, o) ==
  /\ Goto(t, "idle")
  /\ cur' = [cur EXCEPT ![t] = None]
  /\ files' = [files EXCEPT ![t] = {}]
  /\ total' = [total EXCEPT ![t] = 0]
  /\ result' = [result EXCEPT ![cur[t]] = o]

(***************************************************************************)
(* enqueue: write the temporary file and rename it.                        *)
(***************************************************************************)
Begin(t, r) ==
  /\ pc[t] = "idle"
  /\ result[r] = "none"
  /\ FileStamp(Owner[t], r)
  /\ result' = [result EXCEPT ![r] = "busy"]
  /\ cur' = [cur EXCEPT ![t] = r]
  /\ Goto(t, "create")
  /\ UNCHANGED <<disk, files, total, fate>>

\* Where File::create puts the new file.  Mutant: under its final name.
FinalName == "spool"
TemporaryName == "tmp"

Create(t) ==
  /\ pc[t] = "create"
  /\ at' = [at EXCEPT ![cur[t]] = TemporaryName]
  /\ data' = [data EXCEPT ![cur[t]] = "partial"]
  /\ Goto(t, "write")
  /\ UNCHANGED <<cur, files, total, names, result, fate>>

Write(t) ==
  /\ pc[t] = "write"
  /\ data' = [data EXCEPT ![cur[t]] = "dirty"]
  /\ Goto(t, "sync")
  /\ UNCHANGED <<at, cur, files, total, names, result, fate>>

\* Mutant of Sync: rename without sync_all.
SyncSkipped(t) ==
  /\ pc[t] = "sync"
  /\ Goto(t, "rename")
  /\ UNCHANGED <<disk, cur, files, total, names, result, fate>>

Sync(t) ==
  /\ pc[t] = "sync"
  /\ data' = [data EXCEPT ![cur[t]] = "synced"]
  /\ Goto(t, "rename")
  /\ UNCHANGED <<at, cur, files, total, names, result, fate>>

Rename(t) ==
  /\ pc[t] = "rename"
  /\ at' = [at EXCEPT ![cur[t]] = "spool"]
  /\ Goto(t, "list")
  /\ UNCHANGED <<data, cur, files, total, names, result, fate>>

\* One of the four calls fails: the error is returned at once, and whatever
\* the temporary file holds stays behind.
WriteError(t) ==
  /\ "io_write" \in Env
  /\ pc[t] \in Writing
  /\ Finish(t, "err")
  /\ UNCHANGED <<disk, names, fate>>

(***************************************************************************)
(* enforce_budget, first on the count and then on the bytes.               *)
(***************************************************************************)

\* remove_file(f), its result ignored: the file is gone afterwards unless the
\* call fails on a file that is there.
Unlinked(t, f) ==
  \/ /\ at' = [at EXCEPT ![f] = IF @ = "spool" THEN "none" ELSE @]
     /\ data' = [data EXCEPT ![f] = IF at[f] = "spool" THEN "none" ELSE @]
     /\ fate' = [fate EXCEPT ![f] = IF at[f] = "spool" THEN cur[t] ELSE @]
  \/ /\ "io_remove" \in Env
     /\ at[f] = "spool"
     /\ UNCHANGED <<disk, fate>>

\* The conditions that end the two loops.  Mutants: off by one.
CountMetOffByOne(S) == Cardinality(S) <= MaxReports + 1
CountMet(S) == Cardinality(S) <= MaxReports

BytesMetOffByOne(n) == n <= MaxBytes + 1
BytesMet(n) == n <= MaxBytes

ListForCount(t) ==
  /\ pc[t] = "list"
  /\ files' = [files EXCEPT ![t] = Listed]
  /\ Goto(t, "count")
  /\ UNCHANGED <<disk, cur, total, names, result, fate>>

CountEvict(t) ==
  /\ pc[t] = "count"
  /\ ~ CountMet(files[t])
  /\ \E f \in Oldest(files[t]) :
       /\ Unlinked(t, f)
       /\ files' = [files EXCEPT ![t] = @ \ {f}]
  /\ UNCHANGED <<pc, cur, total, names, result>>

ListForSum(t) ==
  /\ pc[t] = "count"
  /\ CountMet(files[t])
  /\ files' = [files EXCEPT ![t] = Listed]
  /\ Goto(t, "sum")
  /\ UNCHANGED <<disk, cur, total, names, result, fate>>

\* total_bytes adds up the listing file by file.
SumFile(t) ==
  /\ pc[t] = "sum"
  /\ \E f \in Oldest(files[t]) :
       /\ at[f] = "spool"
       /\ total' = [total EXCEPT ![t] = @ + Size[f]]
       /\ files' = [files EXCEPT ![t] = @ \ {f}]
  /\ UNCHANGED <<disk, pc, cur, names, result, fate>>

\* A listed file that another actor has removed has no metadata any more:
\* total_bytes, enforce_budget and enqueue return the error.
SumVanished(t) ==
  /\ pc[t] = "sum"
  /\ \E f \in Oldest(files[t]) : at[f] # "spool"
  /\ Finish(t, "err")
  /\ UNCHANGED <<disk, names, fate>>

ListForBytes(t) ==
  /\ pc[t] = "sum"
  /\ files[t] = {}
  /\ files' = [files EXCEPT ![t] = Listed]
  /\ Goto(t, "bytes")
  /\ UNCHANGED <<disk, cur, total, names, result, fate>>

\* saturating_sub.  Mutant: the size is never subtracted.
NeverSubtracted(a, b) == a
Monus(a, b) == IF a > b THEN a - b ELSE 0

\* The size is read before the unlink, and is 0 when the call fails, as it
\* does for a file that has vanished.
ByteStat(t) ==
  /\ pc[t] = "bytes"
  /\ ~ BytesMet(total[t])
  /\ \E f \in Oldest(files[t]) :
       \/ /\ at[f] = "spool"
          /\ total' = [total EXCEPT ![t] = Monus(@, Size[f])]
       \/ /\ at[f] # "spool" \/ "io_list" \in Env
          /\ UNCHANGED total
  /\ Goto(t, "unlink")
  /\ UNCHANGED <<disk, cur, files, names, result, fate>>

ByteEvict(t) ==
  /\ pc[t] = "unlink"
  /\ \E f \in Oldest(files[t]) :
       /\ Unlinked(t, f)
       /\ files' = [files EXCEPT ![t] = @ \ {f}]
  /\ Goto(t, "bytes")
  /\ UNCHANGED <<cur, total, names, result>>

Return(t) ==
  /\ pc[t] = "bytes"
  /\ BytesMet(total[t]) \/ files[t] = {}
  /\ Finish(t, "ok")
  /\ UNCHANGED <<disk, names, fate>>

\* read_dir fails, or the metadata of a file cannot be read.
ListError(t) ==
  /\ "io_list" \in Env
  /\ \/ pc[t] = "list"
     \/ pc[t] = "count" /\ CountMet(files[t])
     \/ pc[t] = "sum"
  /\ Finish(t, "err")
  /\ UNCHANGED <<disk, names, fate>>

(***************************************************************************)
(* The other actors.                                                       *)
(***************************************************************************)

\* Spool::remove, called by a consumer of the spool on a path it listed.
ConsumerRemove(r) ==
  /\ "take" \in Env
  /\ at[r] = "spool"
  /\ at' = [at EXCEPT ![r] = "none"]
  /\ data' = [data EXCEPT ![r] = "none"]
  /\ fate' = [fate EXCEPT ![r] = Taken]
  /\ UNCHANGED <<local, names, result>>

\* The processes in P die and start again: their calls never return, their
\* counters restart at zero, and time has passed.
Restart(P) ==
  /\ clock < MaxClock
  /\ clock' = clock + 1
  /\ result' = [r \in Report |->
       IF \E t \in Thread : Owner[t] \in P /\ cur[t] = r THEN "died" ELSE result[r]]
  /\ pc'    = [t \in Thread |-> IF Owner[t] \in P THEN "idle" ELSE pc[t]]
  /\ cur'   = [t \in Thread |-> IF Owner[t] \in P THEN None ELSE cur[t]]
  /\ files' = [t \in Thread |-> IF Owner[t] \in P THEN {} ELSE files[t]]
  /\ total' = [t \in Thread |-> IF Owner[t] \in P THEN 0 ELSE total[t]]
  /\ seq'   = [p \in Process |-> IF p \in P THEN 0 ELSE seq[p]]
  /\ UNCHANGED <<at, stamp, fate>>

Crash(p) ==
  /\ "crash" \in Env
  /\ \E t \in Thread : Owner[t] = p /\ pc[t] # "idle"
  /\ Restart({p})
  /\ UNCHANGED data

\* Bytes that were written and not synced may be lost with the power.
PowerLoss ==
  /\ "power" \in Env
  /\ \E t \in Thread : pc[t] # "idle"
  /\ Restart(Process)
  /\ \E torn \in SUBSET {r \in Report : data[r] = "dirty"} :
       data' = [r \in Report |-> IF r \in torn THEN "partial" ELSE data[r]]

EnqueueStep(t) ==
  \/ Create(t) \/ Write(t) \/ Sync(t) \/ Rename(t) \/ WriteError(t)
  \/ ListForCount(t) \/ CountEvict(t) \/ ListForSum(t)
  \/ SumFile(t) \/ SumVanished(t) \/ ListForBytes(t)
  \/ ByteStat(t) \/ ByteEvict(t) \/ Return(t) \/ ListError(t)

Next ==
  \/ \E t \in Thread, r \in Report : Begin(t, r)
  \/ \E t \in Thread : EnqueueStep(t)
  \/ \E r \in Report : ConsumerRemove(r)
  \/ \E p \in Process : Crash(p)
  \/ PowerLoss

Spec == Init /\ [][Next]_vars

(***************************************************************************)
(* Properties.                                                             *)
(***************************************************************************)

(* Whatever is killed, fails or loses power, a file that list() returns     *)
(* holds the whole report, and holds it on the device (the module doc of   *)
(* spool.rs: a crash never leaves a half-written report in the spool).      *)
ListedComplete == \A r \in Listed : data[r] = "synced"

(***************************************************************************)
(* The refinement mapping to ReportStore.  A report is stored while a      *)
(* whole file of it is listed, and new while the call that may still store *)
(* it has not ended and nothing has removed its file.                      *)
(***************************************************************************)
StatusOf(r) ==
  IF at[r] = "spool" THEN IF data[r] = "synced" THEN "stored" ELSE "torn"
  ELSE IF result[r] \in {"none", "busy"} /\ fate[r] = None THEN "new" ELSE "gone"

Store == INSTANCE ReportStore WITH status <- [r \in Report |-> StatusOf(r)]

(* Enqueueing is atomic.  The file of a call that reported an error, or     *)
(* that died with its process, never turns up later; an evicted or consumed *)
(* report never comes back; a report is never listed half-written.          *)
AtomicStore == Store!Spec

\* The spooled reports whose callers were told that they are saved.
Acknowledged == {r \in Listed : result[r] = "ok"}

\* The bytes that the files of S hold: a byte is a file and a position in it.
Bytes(S) == UNION {{r} \X (1 .. Size[r]) : r \in S}
SpooledBytes(S) == Cardinality(Bytes(S))

(* However the evictions of concurrent calls interleave with each other,    *)
(* with consumers, with errors and with crashes, the reports whose callers  *)
(* were told that they are saved never exceed the budget on the count       *)
(* (enforce_budget), as long as unlinking a file that is there succeeds.    *)
AcknowledgedWithinCount == Cardinality(Acknowledged) <= MaxReports

(* Once every call has returned, and none was cut short by an error or a    *)
(* crash, both budgets hold.  Before that the bytes may exceed the budget   *)
(* even after an Ok: a call that sums one listing and evicts from a later   *)
(* one can evict, and count, a report that was not in its sum.              *)
BudgetAtRest ==
  /\ \A t \in Thread : pc[t] = "idle"
  /\ \A r \in Report : result[r] \notin {"err", "died"}
  => /\ Cardinality(Listed) <= MaxReports
     /\ SpooledBytes(Listed) <= MaxBytes

(* A call evicts its own report only when that report alone exceeds the     *)
(* budget on the bytes; every smaller report survives its own enqueue, at   *)
(* the expense of older ones.                                               *)
OnlyOversizeEvictsItself == \A r \in Report : fate[r] = r => Size[r] > MaxBytes

(***************************************************************************)
(* The refinement mapping to ReportQueue: what is listed, in the order of  *)
(* the names.                                                              *)
(***************************************************************************)
ByName == {p \in Listed \X Listed : p[1] # p[2] /\ Earlier(stamp[p[1]], stamp[p[2]])}

Queue == INSTANCE ReportQueue WITH stored <- Listed, order <- ByName

(* A single writer with a clock that does not go back implements the        *)
(* bounded queue: eviction takes the oldest report, and only while a budget *)
(* is exceeded, also when the process is killed in the middle of it.        *)
EvictsOldestFirst == Queue!Spec
=============================================================================
