---------------------------- MODULE SpoolProofs ----------------------------
(***************************************************************************)
(* Theorems about Spool, and about TorDrain over it, for any number of     *)
(* threads, processes and reports, any sizes, budgets, attempts and        *)
(* hazards, and any environment.                                           *)
(*                                                                         *)
(* Whether a report is whole when it is renamed depends on which steps its *)
(* own call has done, and on no other thread writing the same file.  The   *)
(* inductive invariant says so: two threads never work on one report       *)
(* (OneThreadEach), a thread's program counter tells how far its file has  *)
(* come (Progress), and a file is in the spool only when it is whole and   *)
(* nothing has removed it (SpooledWhole).                                  *)
(*                                                                         *)
(* A pass of the drain works on a list of paths that ages.  The argument   *)
(* is what is known of a listed report, however old the list: it has been  *)
(* in the spool, so either it still is or something has removed it for     *)
(* good (PathsSeen).  On that rest the history of each report              *)
(* (Deliveries), the reason of each discard (DiscardsExplained) and the    *)
(* sums of the DrainReport (CountsAddUp).                                  *)
(***************************************************************************)
EXTENDS TorDrain, FiniteSetTheorems, TLAPS

Busy(t) == pc[t] # "idle"

OneThreadEach ==
  /\ \A t \in Thread : Busy(t) <=> cur[t] # None
  /\ \A t \in Thread : Busy(t) => result[cur[t]] = "busy"
  /\ \A t, u \in Thread : Busy(t) /\ Busy(u) /\ cur[t] = cur[u] => t = u

Progress ==
  \A t \in Thread :
    /\ pc[t] \in Writing => at[cur[t]] # "spool" /\ fate[cur[t]] = None
    /\ pc[t] = "rename" => data[cur[t]] = "synced"

SpooledWhole ==
  \A r \in Report :
    /\ at[r] = "spool" => data[r] = "synced" /\ fate[r] = None
    /\ result[r] = "none" => at[r] = "none" /\ fate[r] = None

Seen(r) == at[r] = "spool" \/ fate[r] # None

SpoolInv == TypeOK /\ OneThreadEach /\ Progress /\ SpooledWhole

(***************************************************************************)
(* What the invariant and the refinement rest on is the steps of the       *)
(* spool, and not when Env admits them: AnyNext leaves those guards out.   *)
(* The drain of the onion transport, which removes reports and dies on its *)
(* own terms, takes steps of AnyNext too, and inherits the theorems.       *)
(***************************************************************************)
Removal(r) ==
  /\ at[r] = "spool"
  /\ at' = [at EXCEPT ![r] = "none"]
  /\ data' = [data EXCEPT ![r] = "none"]
  /\ fate' = [fate EXCEPT ![r] = Taken]
  /\ UNCHANGED <<local, names, result>>

Torn(S) == data' = [r \in Report |-> IF r \in S THEN "partial" ELSE data[r]]

AnyRestart(P) ==
  /\ Restart(P)
  /\ UNCHANGED data \/ \E S \in SUBSET {r \in Report : data[r] = "dirty"} : Torn(S)

AnyNext ==
  \/ \E t \in Thread, r \in Report : Begin(t, r)
  \/ \E t \in Thread : EnqueueStep(t)
  \/ \E r \in Report : Removal(r)
  \/ \E P \in SUBSET Process : AnyRestart(P)

\* Every step of the spool, whatever Env admits, is one of AnyNext (spool.rs:110-216).
LEMMA NextIsAny == [Next]_vars => [AnyNext]_vars
<1>1. ASSUME NEW r \in Report, ConsumerRemove(r) PROVE Removal(r)
  BY <1>1 DEF ConsumerRemove, Removal
<1>2. ASSUME NEW p \in Process, Crash(p) PROVE \E P \in SUBSET Process : AnyRestart(P)
  <2>1. AnyRestart({p}) /\ {p} \in SUBSET Process
    BY <1>2 DEF Crash, AnyRestart
  <2> QED
    BY <2>1
<1>3. ASSUME PowerLoss PROVE \E P \in SUBSET Process : AnyRestart(P)
  <2>1. AnyRestart(Process) /\ Process \in SUBSET Process
    BY <1>3 DEF PowerLoss, AnyRestart, Torn
  <2> QED
    BY <2>1
<1> QED
  BY <1>1, <1>2, <1>3 DEF Next, AnyNext

\* A restart leaves every type of data as it is, and every byte that is not dirty.
LEMMA RestartKeepsSynced ==
  ASSUME TypeOK, NEW P, AnyRestart(P)
  PROVE  /\ data' \in [Report -> {"none", "partial", "dirty", "synced"}]
         /\ \A r \in Report : data[r] # "dirty" => data'[r] = data[r]
<1>1. \A r \in Report : data[r] \in {"none", "partial", "dirty", "synced"}
  BY DEF TypeOK
<1>2. CASE UNCHANGED data
  BY <1>2 DEF TypeOK
<1>3. CASE \E S \in SUBSET {r \in Report : data[r] = "dirty"} : Torn(S)
  BY <1>1, <1>3 DEF Torn
<1> QED
  BY <1>2, <1>3 DEF AnyRestart

\* The initial states satisfy the invariant: nothing is in the spool (spool.rs:84-97).
LEMMA SpoolInit == Init => SpoolInv
  BY SpoolAssumption DEF Init, SpoolInv, TypeOK, OneThreadEach, Progress, SpooledWhole,
     Busy, Writing, Enforcing, Stamp

(* What Finish leaves behind: thread t is idle and its locals are reset.    *)
LEMMA FinishStep ==
  ASSUME NEW t \in Thread, NEW o \in {"ok", "err"}, TypeOK, Busy(t), cur[t] \in Report, Finish(t, o)
  PROVE  /\ pc' \in [Thread -> {"idle"} \cup Writing \cup Enforcing]
         /\ cur' \in [Thread -> Report \cup {None}]
         /\ files' \in [Thread -> SUBSET Report]
         /\ total' \in [Thread -> Nat]
         /\ result' \in [Report -> {"none", "busy", "ok", "err", "died"}]
  BY DEF Finish, Goto, TypeOK, Writing, Enforcing

(***************************************************************************)
(* Every action keeps the variables in their types.                        *)
(***************************************************************************)
LEMMA TypeStep == SpoolInv /\ [AnyNext]_vars => TypeOK'
<1> USE SpoolAssumption DEF disk, local, names
<1> SUFFICES ASSUME SpoolInv, [AnyNext]_vars PROVE TypeOK'
  OBVIOUS
<1>0. TypeOK /\ OneThreadEach
  BY DEF SpoolInv
<1>1. ASSUME NEW t \in Thread, Busy(t) PROVE cur[t] \in Report
  BY <1>0, <1>1 DEF OneThreadEach, TypeOK
<1>2. ASSUME NEW t \in Thread, NEW r \in Report, Begin(t, r) PROVE TypeOK'
  <2>1. PICK n \in 0 .. MaxClock :
          /\ stamp' = [stamp EXCEPT ![r] = <<n, seq[Owner[t]]>>]
          /\ seq' = [seq EXCEPT ![Owner[t]] = @ + 1]
          /\ clock' = n
    BY <1>2 DEF Begin, FileStamp, StampOf, Readings
  <2>2. Owner[t] \in Process /\ seq[Owner[t]] \in Nat
    BY <1>0 DEF TypeOK
  <2>3. stamp' \in [Report -> Stamp \cup {None}] /\ seq' \in [Process -> Nat]
    BY <1>0, <2>1, <2>2 DEF TypeOK, Stamp
  <2> QED
    BY <1>0, <1>2, <2>1, <2>3 DEF Begin, Goto, TypeOK, Writing
<1>3. ASSUME NEW t \in Thread, Create(t) \/ Write(t) \/ Sync(t) \/ Rename(t) PROVE TypeOK'
  <2> cur[t] \in Report
    BY <1>1, <1>3 DEF Busy, Create, Write, Sync, Rename
  <2> QED
    BY <1>0, <1>3 DEF Create, TemporaryName, Write, Sync, Rename, Goto, TypeOK, Writing, Enforcing
<1>4. ASSUME NEW t \in Thread, WriteError(t) \/ SumVanished(t) \/ Return(t) \/ ListError(t)
      PROVE  TypeOK'
  <2> Busy(t)
    BY <1>4 DEF Busy, WriteError, SumVanished, Return, ListError, Writing
  <2> cur[t] \in Report
    BY <1>1
  <2> Finish(t, "err") \/ Finish(t, "ok")
    BY <1>4 DEF WriteError, SumVanished, Return, ListError
  <2> QED
    BY <1>0, <1>4, FinishStep DEF WriteError, SumVanished, Return, ListError, TypeOK
<1>5. ASSUME NEW t \in Thread, ListForCount(t) \/ ListForSum(t) \/ ListForBytes(t)
      PROVE  TypeOK'
  BY <1>0, <1>5 DEF ListForCount, ListForSum, ListForBytes, Listed, Goto, TypeOK, Enforcing
<1>6. ASSUME NEW t \in Thread, SumFile(t) PROVE TypeOK'
  <2> PICK f \in Oldest(files[t]) :
          /\ total' = [total EXCEPT ![t] = @ + Size[f]]
          /\ files' = [files EXCEPT ![t] = @ \ {f}]
    BY <1>6 DEF SumFile
  <2> f \in Report /\ total[t] + Size[f] \in Nat
    BY <1>0 DEF Oldest, TypeOK
  <2> QED
    BY <1>0, <1>6 DEF SumFile, TypeOK
<1>7. ASSUME NEW t \in Thread, ByteStat(t) PROVE TypeOK'
  <2> PICK f \in Oldest(files[t]) :
          \/ total' = [total EXCEPT ![t] = Monus(@, Size[f])]
          \/ UNCHANGED total
    BY <1>7 DEF ByteStat
  <2> f \in Report /\ Monus(total[t], Size[f]) \in Nat
    BY <1>0 DEF Oldest, TypeOK, Monus
  <2> QED
    BY <1>0, <1>7 DEF ByteStat, Goto, TypeOK, Enforcing
<1>8. ASSUME NEW t \in Thread, CountEvict(t) \/ ByteEvict(t) PROVE TypeOK'
  <2>1. PICK f \in Oldest(files[t]) :
          Unlinked(t, f) /\ files' = [files EXCEPT ![t] = @ \ {f}]
    BY <1>8 DEF CountEvict, ByteEvict
  <2>2. cur[t] \in Report
    BY <1>1, <1>8 DEF Busy, CountEvict, ByteEvict
  <2>3. /\ at' \in [Report -> {"none", "tmp", "spool"}]
        /\ data' \in [Report -> {"none", "partial", "dirty", "synced"}]
        /\ fate' \in [Report -> Report \cup {None, Taken}]
    BY <1>0, <2>1, <2>2 DEF Unlinked, TypeOK
  <2> QED
    BY <1>0, <1>8, <2>1, <2>3 DEF CountEvict, ByteEvict, Goto, TypeOK, Enforcing
<1>9. ASSUME NEW r \in Report, Removal(r) PROVE TypeOK'
  BY <1>0, <1>9 DEF Removal, TypeOK
<1>10. ASSUME NEW P, AnyRestart(P) PROVE TypeOK'
  <2>1. data' \in [Report -> {"none", "partial", "dirty", "synced"}]
    BY <1>0, <1>10, RestartKeepsSynced
  <2> QED
    BY <1>0, <1>10, <2>1 DEF AnyRestart, Restart, TypeOK, Stamp
<1>11. ASSUME UNCHANGED vars PROVE TypeOK'
  BY <1>0, <1>11 DEF vars, TypeOK
<1> QED
  BY <1>2, <1>3, <1>4, <1>5, <1>6, <1>7, <1>8, <1>9, <1>10, <1>11 DEF AnyNext, EnqueueStep

(***************************************************************************)
(* The other conjuncts.  A thread that is busy is the only one on its      *)
(* report, so what another thread does to its own report, or to a file it  *)
(* evicts, cannot undo this thread's progress.                             *)
(***************************************************************************)
LEMMA InvStep == SpoolInv /\ [AnyNext]_vars => (OneThreadEach /\ Progress /\ SpooledWhole)'
<1> USE SpoolAssumption DEF disk, local, names, Busy, Writing
<1> SUFFICES ASSUME SpoolInv, [AnyNext]_vars PROVE (OneThreadEach /\ Progress /\ SpooledWhole)'
  OBVIOUS
<1> DEFINE Goal == (OneThreadEach /\ Progress /\ SpooledWhole)'
<1>0. TypeOK /\ OneThreadEach /\ Progress /\ SpooledWhole
  BY DEF SpoolInv
<1>1. ASSUME NEW t \in Thread, Busy(t) PROVE cur[t] \in Report
  BY <1>0, <1>1 DEF OneThreadEach, TypeOK
<1>2. ASSUME NEW t \in Thread, NEW r \in Report, Begin(t, r) PROVE Goal
  BY <1>0, <1>1, <1>2 DEF Begin, FileStamp, Goto, TypeOK, OneThreadEach, Progress, SpooledWhole
<1>3. ASSUME NEW t \in Thread, Create(t) \/ Write(t) \/ Sync(t) \/ Rename(t) PROVE Goal
  <2> cur[t] \in Report
    BY <1>1, <1>3 DEF Create, Write, Sync, Rename
  <2> QED
    BY <1>0, <1>1, <1>3 DEF Create, TemporaryName, Write, Sync, Rename, Goto, TypeOK, OneThreadEach, Progress, SpooledWhole
<1>4. ASSUME NEW t \in Thread, WriteError(t) \/ SumVanished(t) \/ Return(t) \/ ListError(t)
      PROVE  Goal
  <2>1. Busy(t)
    BY <1>4 DEF WriteError, SumVanished, Return, ListError
  <2>2. cur[t] \in Report
    BY <1>1, <2>1
  <2>3. PICK o \in {"err", "ok"} : Finish(t, o)
    BY <1>4 DEF WriteError, SumVanished, Return, ListError
  <2>4. UNCHANGED <<disk, names, fate>>
    BY <1>4 DEF WriteError, SumVanished, Return, ListError
  <2> QED
    BY <1>0, <1>1, <2>1, <2>2, <2>3, <2>4 DEF Finish, Goto, TypeOK, OneThreadEach, Progress, SpooledWhole
<1>5. ASSUME NEW t \in Thread,
             ListForCount(t) \/ ListForSum(t) \/ ListForBytes(t) \/ SumFile(t) \/ ByteStat(t)
      PROVE  Goal
  <2>1. /\ pc[t] \in Enforcing
        /\ pc' = pc \/ \E l \in Enforcing : Goto(t, l)
        /\ UNCHANGED <<at, data, cur, result, fate>>
    BY <1>5 DEF ListForCount, ListForSum, ListForBytes, SumFile, ByteStat, Enforcing
  <2> QED
    BY <1>0, <2>1 DEF Goto, TypeOK, OneThreadEach, Progress, SpooledWhole, Enforcing
<1>6. ASSUME NEW t \in Thread, CountEvict(t) \/ ByteEvict(t) PROVE Goal
  <2>1. PICK f \in Oldest(files[t]) : Unlinked(t, f)
    BY <1>6 DEF CountEvict, ByteEvict
  <2>2. f \in Report /\ cur[t] \in Report
    BY <1>0, <1>1, <1>6 DEF CountEvict, ByteEvict, Oldest, TypeOK
  <2>3. /\ pc[t] \in Enforcing
        /\ pc' = pc \/ \E l \in Enforcing : Goto(t, l)
        /\ UNCHANGED <<cur, result>>
    BY <1>6 DEF CountEvict, ByteEvict, Enforcing
  <2>4. OneThreadEach'
    BY <1>0, <2>3 DEF Goto, TypeOK, OneThreadEach, Enforcing
  <2>5. Progress' /\ SpooledWhole'
    BY <1>0, <1>1, <2>1, <2>2, <2>3 DEF Unlinked, Goto, TypeOK, OneThreadEach, Progress, SpooledWhole, Enforcing
  <2> QED
    BY <2>4, <2>5
<1>7. ASSUME NEW r \in Report, Removal(r) PROVE Goal
  BY <1>0, <1>1, <1>7 DEF Removal, TypeOK, OneThreadEach, Progress, SpooledWhole
<1>8. ASSUME NEW P, AnyRestart(P) PROVE Goal
  <2>1. /\ data' \in [Report -> {"none", "partial", "dirty", "synced"}]
        /\ \A r \in Report : data[r] # "dirty" => data'[r] = data[r]
    BY <1>0, <1>8, RestartKeepsSynced
  <2> QED
    BY <1>0, <1>1, <1>8, <2>1 DEF AnyRestart, Restart, TypeOK, OneThreadEach, Progress, SpooledWhole
<1>9. ASSUME UNCHANGED vars PROVE Goal
  BY <1>0, <1>9 DEF vars, OneThreadEach, Progress, SpooledWhole
<1> QED
  BY <1>2, <1>3, <1>4, <1>5, <1>6, <1>7, <1>8, <1>9 DEF AnyNext, EnqueueStep

(* A report that has been in the spool is there or gone for good: no step   *)
(* of the spool forgets what removed it (spool.rs:110-133).                 *)
LEMMA SeenStays ==
  ASSUME SpoolInv, [AnyNext]_vars, NEW r \in Report
  PROVE  /\ fate[r] # None => fate'[r] = fate[r]
         /\ Seen(r) => Seen(r)'
<1> USE SpoolAssumption DEF disk, local, names, Seen
<1> DEFINE Goal == (fate[r] # None => fate'[r] = fate[r]) /\ (Seen(r) => Seen(r)')
<1>0. TypeOK /\ OneThreadEach /\ Progress /\ SpooledWhole
  BY DEF SpoolInv
<1>1. ASSUME NEW t \in Thread, Busy(t) PROVE cur[t] \in Report
  BY <1>0, <1>1 DEF OneThreadEach, TypeOK
<1>2. ASSUME NEW t \in Thread, CountEvict(t) \/ ByteEvict(t) PROVE Goal
  <2>1. PICK f \in Oldest(files[t]) : Unlinked(t, f)
    BY <1>2 DEF CountEvict, ByteEvict
  <2>2. f \in Report /\ cur[t] \in Report
    BY <1>0, <1>1, <1>2 DEF CountEvict, ByteEvict, Oldest, TypeOK, Busy
  <2> QED
    BY <1>0, <2>1, <2>2 DEF Unlinked, TypeOK, SpooledWhole
<1>3. ASSUME NEW t \in Thread, Create(t) PROVE Goal
  <2>1. cur[t] \in Report /\ at[cur[t]] # "spool"
    BY <1>0, <1>1, <1>3 DEF Create, Progress, Busy, Writing
  <2> QED
    BY <1>0, <1>3, <2>1 DEF Create, TemporaryName, TypeOK
<1>4. ASSUME NEW t \in Thread, Rename(t) PROVE Goal
  BY <1>0, <1>4 DEF Rename, TypeOK
<1>5. ASSUME NEW t \in Thread, EnqueueStep(t) PROVE Goal
  <2>1. CASE CountEvict(t) \/ ByteEvict(t) \/ Create(t) \/ Rename(t)
    BY <1>2, <1>3, <1>4, <2>1
  <2>2. CASE Write(t) \/ Sync(t) \/ WriteError(t) \/ ListForCount(t) \/ ListForSum(t)
    BY <2>2 DEF Write, Sync, WriteError, ListForCount, ListForSum
  <2>3. CASE SumFile(t) \/ SumVanished(t) \/ ListForBytes(t) \/ ByteStat(t) \/ Return(t)
             \/ ListError(t)
    BY <2>3 DEF SumFile, SumVanished, ListForBytes, ByteStat, Return, ListError
  <2> QED
    BY <1>5, <2>1, <2>2, <2>3 DEF EnqueueStep
<1>6. ASSUME NEW q \in Report, Removal(q) PROVE Goal
  BY <1>0, <1>6 DEF Removal, TypeOK, SpooledWhole
<1>7. CASE UNCHANGED vars
  BY <1>7 DEF vars
<1> QED
  BY <1>5, <1>6, <1>7 DEF AnyNext, AnyRestart, Restart, Begin

\* Every behaviour of the spool satisfies the inductive invariant.
LEMMA SpoolInvariant == Spec => []SpoolInv
<1>1. SpoolInv /\ [Next]_vars => SpoolInv'
  BY NextIsAny, TypeStep, InvStep DEF SpoolInv
<1> QED
  BY <1>1, SpoolInit, PTL DEF Spec

(* Type correctness of the whole spool.                                     *)
THEOREM TypeCorrect == Spec => []TypeOK
<1>1. SpoolInv => TypeOK
  BY DEF SpoolInv
<1> QED
  BY <1>1, SpoolInvariant, PTL

(* Every listed file holds the whole report, on the device, whatever        *)
(* threads, crashes, power failures and failing calls do.                   *)
THEOREM NoTornReport == Spec => []ListedComplete
<1>1. SpoolInv => ListedComplete
  BY DEF SpoolInv, SpooledWhole, ListedComplete, Listed
<1> QED
  BY <1>1, SpoolInvariant, PTL

(***************************************************************************)
(* The spool implements ReportStore.                                       *)
(***************************************************************************)
StatusBar == [r \in Report |-> StatusOf(r)]

\* An empty spool is a store in which every report is new.
LEMMA InitRefines == Init => Store!Init
  BY DEF Init, Store!Init, StatusOf

\* A step that changes one report's status as ReportStore allows.
LEMMA OneReportChanges ==
  ASSUME NEW r \in Report,
         \A q \in Report \ {r} : StatusOf(q)' = StatusOf(q),
         \/ StatusOf(r)' = StatusOf(r)
         \/ StatusOf(r) = "new" /\ StatusOf(r)' = "stored"
         \/ StatusOf(r) # "gone" /\ StatusOf(r)' = "gone"
  PROVE  [Store!Next]_StatusBar
  BY DEF Store!Next, Store!Store, Store!Discard, StatusBar

\* A crash changes the status of the reports that were being written.
LEMMA ManyDiscarded ==
  ASSUME NEW S \in SUBSET Report,
         \A r \in S : StatusOf(r) = "new" /\ StatusOf(r)' = "gone",
         \A r \in Report \ S : StatusOf(r)' = StatusOf(r)
  PROVE  [Store!Next]_StatusBar
<1>1. Store!DiscardAll(S)
  BY DEF Store!DiscardAll
<1> QED
  BY <1>1 DEF Store!Next

\* Every step of the spool is a step of ReportStore or leaves every status as it is.
LEMMA StepRefines == SpoolInv /\ SpoolInv' /\ [AnyNext]_vars => [Store!Next]_StatusBar
<1> USE SpoolAssumption DEF disk, local, names, Busy, Writing, StatusOf
<1> SUFFICES ASSUME SpoolInv, SpoolInv', [AnyNext]_vars PROVE [Store!Next]_StatusBar
  OBVIOUS
<1>0. /\ TypeOK /\ OneThreadEach /\ Progress /\ SpooledWhole
      /\ TypeOK' /\ SpooledWhole'
  BY DEF SpoolInv
<1>1. ASSUME NEW t \in Thread, Busy(t) PROVE cur[t] \in Report
  BY <1>0, <1>1 DEF OneThreadEach, TypeOK
<1>2. ASSUME \A r \in Report : StatusOf(r)' = StatusOf(r) PROVE [Store!Next]_StatusBar
  BY <1>2 DEF StatusBar
<1>3. ASSUME NEW t \in Thread, NEW r \in Report, Begin(t, r) PROVE [Store!Next]_StatusBar
  BY <1>0, <1>2, <1>3 DEF Begin, TypeOK
<1>4. ASSUME NEW t \in Thread, Create(t) \/ Write(t) \/ Sync(t) PROVE [Store!Next]_StatusBar
  <2>1. cur[t] \in Report /\ at[cur[t]] # "spool"
    BY <1>0, <1>1, <1>4 DEF Create, Write, Sync, Progress
  <2> QED
    BY <1>0, <1>2, <1>4, <2>1 DEF Create, TemporaryName, Write, Sync, TypeOK
<1>5. ASSUME NEW t \in Thread, Rename(t) PROVE [Store!Next]_StatusBar
  <2>1. /\ cur[t] \in Report /\ at[cur[t]] # "spool" /\ data[cur[t]] = "synced"
        /\ fate[cur[t]] = None /\ result[cur[t]] = "busy"
    BY <1>0, <1>1, <1>5 DEF Rename, Progress, OneThreadEach
  <2> QED
    BY <1>0, <1>5, <2>1, OneReportChanges DEF Rename, TypeOK
<1>6. ASSUME NEW t \in Thread, WriteError(t) \/ SumVanished(t) \/ Return(t) \/ ListError(t)
      PROVE  [Store!Next]_StatusBar
  <2>1. PICK r \in Report : r = cur[t]
    BY <1>1, <1>6 DEF WriteError, SumVanished, Return, ListError
  <2>2. PICK o \in {"ok", "err"} : result' = [result EXCEPT ![r] = o]
    BY <1>6, <2>1 DEF WriteError, SumVanished, Return, ListError, Finish
  <2>3. UNCHANGED <<at, data, fate>>
    BY <1>6 DEF WriteError, SumVanished, Return, ListError
  <2>4. \A q \in Report \ {r} : StatusOf(q)' = StatusOf(q)
    BY <1>0, <2>2, <2>3 DEF TypeOK
  <2>5. result[r] = "busy" /\ result'[r] = o
    BY <1>0, <1>6, <2>1, <2>2 DEF TypeOK, OneThreadEach, WriteError, SumVanished, Return, ListError
  <2>6. CASE at[r] = "spool"
    BY <2>3, <2>4, <2>6, OneReportChanges
  <2>7. CASE at[r] # "spool"
    <3>1. StatusOf(r)' = "gone"
      BY <2>3, <2>5, <2>7
    <3> QED
      BY <2>4, <3>1, OneReportChanges
  <2> QED
    BY <2>6, <2>7
<1>7. ASSUME NEW t \in Thread,
             ListForCount(t) \/ ListForSum(t) \/ ListForBytes(t) \/ SumFile(t) \/ ByteStat(t)
      PROVE  [Store!Next]_StatusBar
  BY <1>2, <1>7 DEF ListForCount, ListForSum, ListForBytes, SumFile, ByteStat
<1>8. ASSUME NEW t \in Thread, CountEvict(t) \/ ByteEvict(t) PROVE [Store!Next]_StatusBar
  <2>1. PICK f \in Oldest(files[t]) : Unlinked(t, f)
    BY <1>8 DEF CountEvict, ByteEvict
  <2>2. f \in Report /\ cur[t] \in Report /\ cur[t] # None
    BY <1>0, <1>1, <1>8 DEF CountEvict, ByteEvict, Oldest, TypeOK
  <2>3. UNCHANGED result
    BY <1>8 DEF CountEvict, ByteEvict
  <2>4. \A q \in Report \ {f} : StatusOf(q)' = StatusOf(q)
    BY <1>0, <2>1, <2>2, <2>3 DEF Unlinked, TypeOK
  <2>5. \/ StatusOf(f)' = StatusOf(f)
        \/ StatusOf(f) # "gone" /\ StatusOf(f)' = "gone"
    BY <1>0, <2>1, <2>2, <2>3 DEF Unlinked, TypeOK
  <2> QED
    BY <2>2, <2>4, <2>5, OneReportChanges
<1>9. ASSUME NEW r \in Report, Removal(r) PROVE [Store!Next]_StatusBar
  <2>1. \A q \in Report \ {r} : StatusOf(q)' = StatusOf(q)
    BY <1>0, <1>9 DEF Removal, TypeOK
  <2>2. StatusOf(r) # "gone" /\ StatusOf(r)' = "gone"
    BY <1>0, <1>9 DEF Removal, TypeOK
  <2> QED
    BY <2>1, <2>2, OneReportChanges
<1>10. ASSUME NEW P, AnyRestart(P) PROVE [Store!Next]_StatusBar
  <2>0. \A r \in Report : at[r] = "spool" => data'[r] = data[r]
    BY <1>0, <1>10, RestartKeepsSynced DEF SpooledWhole
  <2> DEFINE Lost == {r \in Report : StatusOf(r) = "new" /\ result'[r] = "died"}
  <2>1. \A r \in Report \ Lost : StatusOf(r)' = StatusOf(r)
    BY <1>0, <1>10, <2>0 DEF AnyRestart, Restart, TypeOK, OneThreadEach
  <2>2. \A r \in Lost : StatusOf(r)' = "gone"
    BY <1>0, <1>10 DEF AnyRestart, Restart, TypeOK
  <2>3. \A r \in Lost : StatusOf(r) = "new"
    OBVIOUS
  <2>4. Lost \in SUBSET Report
    OBVIOUS
  <2> HIDE DEF Lost, StatusOf
  <2> QED
    BY <2>1, <2>2, <2>3, <2>4, ManyDiscarded
<1>11. ASSUME UNCHANGED vars PROVE [Store!Next]_StatusBar
  BY <1>2, <1>11 DEF vars
<1> QED
  BY <1>3, <1>4, <1>5, <1>6, <1>7, <1>8, <1>9, <1>10, <1>11 DEF AnyNext, EnqueueStep

(* Enqueueing is atomic: every behaviour of the spool is one of ReportStore. *)
THEOREM EnqueueIsAtomic == Spec => AtomicStore
<1>1. SpoolInv /\ SpoolInv' /\ [Next]_vars => [Store!Next]_StatusBar
  BY NextIsAny, StepRefines
<1>2. Spec => Store!Init /\ [][Store!Next]_StatusBar
  BY <1>1, InitRefines, SpoolInvariant, PTL DEF Spec
<1> QED
  BY <1>2, PTL DEF AtomicStore, Store!Spec, StatusBar
-----------------------------------------------------------------------------
(***************************************************************************)
(* What enforce_budget achieves, for any number of threads, reports and    *)
(* processes and whatever else uses the directory.                         *)
(*                                                                         *)
(* A call that walks through an old listing neither sees nor evicts what   *)
(* came later, so no single listing bounds the spool.  What does: a report *)
(* whose call is past the count was in a listing that met the budget, and  *)
(* the listings of the calls still counting are nested once the files that *)
(* are gone are left out.  Hence a report that all of several counting     *)
(* calls have not listed (r in CountBound) was there, counted, before any  *)
(* of them listed, and the reports of all of them fit beside it.           *)
(***************************************************************************)

\* Two reports never have one name, and a listing names only what has been spooled.
NamesInv ==
  /\ \A r \in Report : result[r] # "none" => stamp[r] \in Stamp
  /\ \A q, r \in Report :
       result[q] # "none" /\ result[r] # "none" /\ stamp[q] = stamp[r] => q = r
  /\ \A t \in Thread : \A r \in files[t] : Seen(r)

Counting == {t \in Thread : pc[t] = "count"}

\* The spooled reports whose calls have met the budget on the count.
Counted ==
  {r \in Listed : \/ result[r] = "ok"
                  \/ \E t \in Thread : cur[t] = r /\ pc[t] \in {"sum", "bytes", "unlink"}}

Own(T) == {cur[t] : t \in T} \cap Listed

CountBound ==
  \A T \in SUBSET Counting : \A r \in Counted :
    (\A t \in T : r \notin files[t]) => Cardinality(Counted \cup Own(T)) <= MaxReports

ListingsNest ==
  \A s, t \in Counting : files[s] \cap Listed \subseteq files[t] \/ files[t] \cap Listed \subseteq files[s]

OwnInListing == \A t \in Counting : cur[t] \in Listed => cur[t] \in files[t]

CountInv == SpoolInv /\ NamesInv /\ CountBound /\ ListingsNest /\ OwnInListing

(***************************************************************************)
(* The bytes.  A call that will still sum keeps the budget open; the last  *)
(* call that has summed covers all that is spooled, and what it evicts or  *)
(* others remove only makes its total larger than the spool.               *)
(***************************************************************************)
WillSum == \E t \in Thread : pc[t] \in Writing \cup {"list", "count"}

Covers(t) ==
  \/ pc[t] = "sum" /\ SpooledBytes(Listed \ files[t]) <= total[t]
  \/ pc[t] = "bytes" /\ Listed \subseteq files[t] /\ SpooledBytes(Listed) <= total[t]
  \/ /\ pc[t] = "unlink" /\ Listed \subseteq files[t]
     /\ \A f \in Oldest(files[t]) : SpooledBytes(Listed \ {f}) <= total[t]

Interrupted == \E r \in Report : result[r] \in {"err", "died"}

BytesOpen ==
  Interrupted \/ WillSum \/ SpooledBytes(Listed) <= MaxBytes \/ \E t \in Thread : Covers(t)

BytesInv ==
  /\ BytesOpen
  /\ \A r \in Report : result[r] = "busy" => \E t \in Thread : cur[t] = r

(***************************************************************************)
(* A thread alone.  Its report has the newest name, and its total is       *)
(* exactly what is left of its listing.                                    *)
(***************************************************************************)
OneThread == \A s, t \in Thread : s = t

NewestName(t) ==
  \A r \in Report : result[r] # "none" =>
    /\ stamp[r][1] <= clock
    /\ stamp[r][1] = clock => stamp[r][2] < seq[Owner[t]]
    /\ Busy(t) => Earlier(stamp[r], stamp[cur[t]])

ExactTotal(t) ==
  /\ files[t] \subseteq Listed
  /\ pc[t] \notin {"sum", "bytes", "unlink"} => total[t] = 0
  /\ pc[t] = "sum" => total[t] = SpooledBytes(Listed \ files[t])
  /\ pc[t] = "bytes" => total[t] = SpooledBytes(files[t])
  /\ pc[t] = "unlink" =>
       /\ SpooledBytes(files[t]) > MaxBytes
       /\ \A f \in Oldest(files[t]) : total[t] = SpooledBytes(files[t] \ {f})

\* Where no removal fails, the call also evicts from all that is there.
WholeListing(t) == pc[t] \in {"count", "bytes", "unlink"} => files[t] = Listed

AloneInv == SpoolInv /\ NamesInv /\ \A t \in Thread : NewestName(t) /\ ExactTotal(t)

(***************************************************************************)
(* Names.                                                                  *)
(***************************************************************************)

\* Only a call that begins takes a name; a call that has begun has always begun.
LEMMA NamesStay ==
  ASSUME SpoolInv, [AnyNext]_vars
  PROVE  \/ \E t \in Thread, r \in Report : Begin(t, r)
         \/ /\ stamp' = stamp
            /\ \A r \in Report : result'[r] = "none" <=> result[r] = "none"
<1> USE DEF disk, local, names, Goto
<1> DEFINE Goal == /\ stamp' = stamp
                   /\ \A r \in Report : result'[r] = "none" <=> result[r] = "none"
<1>0. TypeOK /\ OneThreadEach
  BY DEF SpoolInv
<1>1. ASSUME NEW t \in Thread, EnqueueStep(t) PROVE Goal
  <2>1. CASE WriteError(t) \/ SumVanished(t) \/ Return(t) \/ ListError(t)
    <3>1. PICK o \in {"ok", "err"} : Finish(t, o) /\ UNCHANGED stamp /\ Busy(t)
      BY <2>1 DEF WriteError, SumVanished, Return, ListError, Busy, Writing
    <3> QED
      BY <1>0, <3>1 DEF Finish, OneThreadEach, TypeOK
  <2>2. CASE Create(t) \/ Write(t) \/ Sync(t) \/ Rename(t) \/ ListForCount(t) \/ ListForSum(t)
    BY <2>2 DEF Create, Write, Sync, Rename, ListForCount, ListForSum
  <2>3. CASE CountEvict(t) \/ SumFile(t) \/ ListForBytes(t) \/ ByteStat(t) \/ ByteEvict(t)
    BY <2>3 DEF CountEvict, SumFile, ListForBytes, ByteStat, ByteEvict
  <2> QED
    BY <1>1, <2>1, <2>2, <2>3 DEF EnqueueStep
<1>2. ASSUME NEW r \in Report, Removal(r) PROVE Goal
  BY <1>2 DEF Removal
<1>3. ASSUME NEW P \in SUBSET Process, AnyRestart(P) PROVE Goal
  <2>1. \A t \in Thread, r \in Report : cur[t] = r => result[r] = "busy"
    BY <1>0, SpoolAssumption DEF OneThreadEach
  <2> QED
    BY <1>3, <2>1 DEF AnyRestart, Restart
<1>4. CASE UNCHANGED vars
  BY <1>4 DEF vars
<1> QED
  BY <1>1, <1>2, <1>3, <1>4 DEF AnyNext

\* A listing is taken of what is spooled, and afterwards only becomes shorter (spool.rs:136-149).
LEMMA ListingsShrink ==
  ASSUME SpoolInv, [AnyNext]_vars, NEW t \in Thread
  PROVE  files'[t] \subseteq files[t] \cup Listed
<1> USE DEF disk, local, names, Goto
<1>0. TypeOK
  BY DEF SpoolInv
<1>1. ASSUME NEW u \in Thread, EnqueueStep(u)
      PROVE  \/ UNCHANGED files
             \/ \E S \in SUBSET (files[u] \cup Listed) : files' = [files EXCEPT ![u] = S]
  <2>1. CASE WriteError(u) \/ SumVanished(u) \/ Return(u) \/ ListError(u)
    BY <2>1 DEF WriteError, SumVanished, Return, ListError, Finish
  <2>2. CASE Create(u) \/ Write(u) \/ Sync(u) \/ Rename(u) \/ ByteStat(u)
    BY <2>2 DEF Create, Write, Sync, Rename, ByteStat
  <2>3. CASE ListForCount(u) \/ ListForSum(u) \/ ListForBytes(u)
    BY <2>3 DEF ListForCount, ListForSum, ListForBytes
  <2>4. CASE CountEvict(u) \/ SumFile(u) \/ ByteEvict(u)
    <3>1. PICK f \in Oldest(files[u]) : files' = [files EXCEPT ![u] = @ \ {f}]
      BY <2>4 DEF CountEvict, SumFile, ByteEvict
    <3>2. files' = [files EXCEPT ![u] = files[u] \ {f}]
      BY <3>1
    <3> QED
      BY <3>2
  <2> QED
    BY <1>1, <2>1, <2>2, <2>3, <2>4 DEF EnqueueStep
<1>2. ASSUME NEW u \in Thread, EnqueueStep(u) PROVE files'[t] \subseteq files[t] \cup Listed
  BY <1>0, <1>1, <1>2 DEF TypeOK
<1>3. ASSUME NEW P \in SUBSET Process, AnyRestart(P) PROVE files'[t] \subseteq files[t]
  BY <1>3 DEF AnyRestart, Restart
<1> QED
  BY <1>2, <1>3 DEF AnyNext, Begin, Removal, vars

\* The names stay apart, and the listings name what has been spooled (spool.rs:195-205).
LEMMA NamesStep ==
  ASSUME SpoolInv, SpoolInv', NamesInv, [AnyNext]_vars
  PROVE  NamesInv'
<1>0. TypeOK /\ TypeOK'
  BY DEF SpoolInv
<1>1. \A t \in Thread : \A r \in files'[t] : Seen(r)'
  <2> SUFFICES ASSUME NEW t \in Thread, NEW r \in files'[t] PROVE Seen(r)'
    OBVIOUS
  <2>1. r \in Report /\ Seen(r)
    BY <1>0, ListingsShrink DEF TypeOK, NamesInv, Seen, Listed
  <2> QED
    BY <2>1, SeenStays
<1>2. CASE /\ stamp' = stamp
           /\ \A r \in Report : result'[r] = "none" <=> result[r] = "none"
  BY <1>1, <1>2 DEF NamesInv
<1>3. ASSUME NEW t \in Thread, NEW r \in Report, Begin(t, r) PROVE NamesInv'
  <2>1. PICK n \in Readings :
          /\ \A q \in Report : stamp[q] # StampOf(n, seq[Owner[t]])
          /\ stamp' = [stamp EXCEPT ![r] = StampOf(n, seq[Owner[t]])]
    BY <1>3 DEF Begin, FileStamp
  <2>2. StampOf(n, seq[Owner[t]]) \in Stamp
    BY <1>0, SpoolAssumption DEF TypeOK, StampOf, Stamp, Readings
  <2>3. result' = [result EXCEPT ![r] = "busy"]
    BY <1>3 DEF Begin
  <2> HIDE DEF StampOf
  <2> QED
    BY <1>0, <1>1, <2>1, <2>2, <2>3 DEF NamesInv, TypeOK
<1> QED
  BY <1>2, <1>3, NamesStay

\* At the start nothing is named or listed.
LEMMA NamesInit == Init => NamesInv
BY DEF Init, NamesInv

(* The oldest report of a listing is one: no two have one name, and names   *)
(* of one length are ordered as their stamps (spool.rs:147, 195-205).       *)
LEMMA OneOldest ==
  ASSUME SpoolInv, NamesInv, NEW t \in Thread, NEW f \in Oldest(files[t]), NEW g \in Oldest(files[t])
  PROVE  f = g
<1>1. /\ f \in Report /\ g \in Report /\ Seen(f) /\ Seen(g)
      /\ Earlier(stamp[f], stamp[g]) /\ Earlier(stamp[g], stamp[f])
  BY DEF Oldest, SpoolInv, TypeOK, NamesInv
<1>2. result[f] # "none" /\ result[g] # "none"
  BY <1>1 DEF SpoolInv, SpooledWhole, Seen
<1>3. stamp[f] \in Stamp /\ stamp[g] \in Stamp
  BY <1>1, <1>2 DEF NamesInv
<1>4. stamp[f] = stamp[g]
  BY <1>1, <1>3, SpoolAssumption DEF Earlier, Stamp
<1> QED
  BY <1>1, <1>2, <1>4 DEF NamesInv

(***************************************************************************)
(* The budget on the count.                                                *)
(***************************************************************************)

\* At the start nothing is listed and no call counts.
LEMMA CountInit == Init => CountInv
<1> SUFFICES ASSUME Init PROVE CountInv
  OBVIOUS
<1>1. SpoolInv /\ NamesInv
  BY SpoolInit, NamesInit
<1>2. Counting = {} /\ Counted = {}
  BY DEF Init, Counting, Counted, Listed
<1> QED
  BY <1>1, <1>2 DEF CountInv, CountBound, ListingsNest, OwnInListing

\* Sets of reports are finite, and a part of one is no larger.
LEMMA ReportSets ==
  ASSUME NEW S \in SUBSET Report, NEW R \in SUBSET S
  PROVE  /\ Cardinality(S) \in Nat /\ Cardinality(R) \in Nat
         /\ Cardinality(R) <= Cardinality(S)
<1>1. IsFiniteSet(S)
  BY SpoolAssumption, FS_Subset
<1> QED
  BY <1>1, FS_Subset, FS_CardinalityType

(***************************************************************************)
(* All steps but two only take away: calls that count, counted reports,    *)
(* files from the spool, and files that are gone from a listing.           *)
(***************************************************************************)
TakesAway ==
  /\ Counting' \subseteq Counting
  /\ Counted' \subseteq Counted
  /\ \A t \in Counting' :
       /\ cur'[t] = cur[t]
       /\ cur[t] \in Listed' => cur[t] \in Listed
       /\ files'[t] \subseteq files[t]
       /\ files[t] \cap Listed' \subseteq files'[t]

(* A file that is in a listing and has left the spool does not come back,   *)
(* so what takes away keeps the invariant (spool.rs:170-178).               *)
LEMMA TakingAwayKeeps ==
  ASSUME CountInv, [AnyNext]_vars, SpoolInv', TakesAway
  PROVE  (CountBound /\ ListingsNest /\ OwnInListing)'
<1>1. \A t \in Counting' : files[t] \cap Listed' \subseteq files[t] \cap Listed
  <2> SUFFICES ASSUME NEW t \in Counting', NEW r \in files[t], r \in Listed' PROVE r \in Listed
    OBVIOUS
  <2>1. t \in Counting /\ t \in Thread /\ r \in Report /\ Seen(r)
    BY DEF TakesAway, CountInv, NamesInv, Counting, SpoolInv, TypeOK
  <2>2. fate'[r] = None
    BY <2>1 DEF SpoolInv, SpooledWhole, Listed
  <2> QED
    BY <2>1, <2>2, SeenStays DEF CountInv, Seen, Listed
<1>2. CountBound'
  <2> SUFFICES ASSUME NEW T \in SUBSET Counting', NEW r \in Counted', \A t \in T : r \notin files'[t]
               PROVE  Cardinality(Counted' \cup Own(T)') <= MaxReports
    BY DEF CountBound
  <2>1. T \in SUBSET Counting /\ r \in Counted /\ r \in Listed'
    BY DEF TakesAway, Counted
  <2>2. \A t \in T : r \notin files[t]
    BY <2>1 DEF TakesAway
  <2>3. Cardinality(Counted \cup Own(T)) <= MaxReports
    BY <2>1, <2>2 DEF CountInv, CountBound
  <2>4. Counted' \cup Own(T)' \subseteq Counted \cup Own(T)
    BY DEF TakesAway, Own
  <2>5. Counted \cup Own(T) \in SUBSET Report
    BY DEF Counted, Own, Listed
  <2> QED
    BY <2>3, <2>4, <2>5, ReportSets, SpoolAssumption
<1>3. ListingsNest'
  <2> SUFFICES ASSUME NEW s \in Counting', NEW t \in Counting'
               PROVE  \/ files'[s] \cap Listed' \subseteq files'[t]
                      \/ files'[t] \cap Listed' \subseteq files'[s]
    BY DEF ListingsNest
  <2>1. \/ files[s] \cap Listed \subseteq files[t]
        \/ files[t] \cap Listed \subseteq files[s]
    BY DEF TakesAway, CountInv, ListingsNest
  <2> QED
    BY <1>1, <2>1 DEF TakesAway
<1>4. OwnInListing'
  BY DEF TakesAway, CountInv, OwnInListing
<1> QED
  BY <1>2, <1>3, <1>4

(* A call that lists sees all that is counted, and all that any other call  *)
(* still has to count (spool.rs:172).                                       *)
LEMMA ListingKeeps ==
  ASSUME CountInv, NEW s \in Thread, ListForCount(s)
  PROVE  (CountBound /\ ListingsNest /\ OwnInListing)'
<1>0. TypeOK
  BY DEF CountInv, SpoolInv
<1>1. /\ Listed' = Listed /\ UNCHANGED <<cur, at, fate, result>>
      /\ files' = [files EXCEPT ![s] = Listed] /\ pc' = [pc EXCEPT ![s] = "count"]
      /\ pc[s] = "list"
  BY DEF ListForCount, Listed, disk, Goto
<1>2. /\ Counting' = Counting \cup {s} /\ s \notin Counting
      /\ files'[s] = Listed
      /\ \A t \in Counting : files'[t] = files[t]
  BY <1>0, <1>1 DEF Counting, TypeOK
<1>3. Counted' = Counted
  BY <1>0, <1>1 DEF Counted, TypeOK
<1>4. CountBound'
  <2> SUFFICES ASSUME NEW T \in SUBSET Counting', NEW r \in Counted, \A t \in T : r \notin files'[t]
               PROVE  Cardinality(Counted' \cup Own(T)') <= MaxReports
    BY <1>3 DEF CountBound
  <2>1. s \notin T
    BY <1>2 DEF Counted
  <2>2. T \in SUBSET Counting /\ \A t \in T : r \notin files[t]
    BY <1>2, <2>1
  <2>3. Own(T)' = Own(T)
    BY <1>1 DEF Own
  <2> QED
    BY <1>3, <2>2, <2>3 DEF CountInv, CountBound
<1>5. ListingsNest'
  BY <1>1, <1>2 DEF CountInv, ListingsNest
<1>6. OwnInListing'
  BY <1>1, <1>2 DEF CountInv, OwnInListing
<1> QED
  BY <1>4, <1>5, <1>6

(* A call whose listing meets the budget counts its own report.  If some    *)
(* counted report is in no listing of the calls that count, this call's     *)
(* included, the reports of all of them fit beside the counted ones.  Else  *)
(* this call's listing contains those of the others, and with them all      *)
(* reports in question: it meets the budget, and so do they                 *)
(* (spool.rs:173-179).                                                      *)
LEMMA CountingKeeps ==
  ASSUME CountInv, NEW s \in Thread, ListForSum(s)
  PROVE  (CountBound /\ ListingsNest /\ OwnInListing)'
<1>0. TypeOK /\ OneThreadEach
  BY DEF CountInv, SpoolInv
<1>1. /\ Listed' = Listed /\ UNCHANGED <<cur, at, fate, result>>
      /\ pc' = [pc EXCEPT ![s] = "sum"] /\ pc[s] = "count"
      /\ Cardinality(files[s]) <= MaxReports
      /\ files[s] \in SUBSET Report
  BY <1>0 DEF ListForSum, Listed, disk, Goto, CountMet, TypeOK
<1>2. /\ Counting' = Counting \ {s} /\ s \in Counting
      /\ \A t \in Counting' : files'[t] = files[t]
  BY <1>0, <1>1 DEF ListForSum, Counting, TypeOK
<1>3. Counted' = Counted \cup Own({s})
  BY <1>0, <1>1 DEF Counted, Own, TypeOK
<1>4. CountBound'
  <2> SUFFICES ASSUME NEW T \in SUBSET Counting', NEW r \in Counted', \A t \in T : r \notin files'[t]
               PROVE  Cardinality(Counted' \cup Own(T)') <= MaxReports
    BY DEF CountBound
  <2>1. T \in SUBSET Counting /\ T \cup {s} \in SUBSET Counting
        /\ \A t \in T : r \notin files[t]
    BY <1>2
  <2>2. Counted' \cup Own(T)' = Counted \cup Own(T \cup {s})
    BY <1>1, <1>3 DEF Own
  <2>3. CASE \E c \in Counted : \A t \in T \cup {s} : c \notin files[t]
    BY <2>1, <2>2, <2>3 DEF CountInv, CountBound
  <2>4. CASE \A c \in Counted : \E t \in T \cup {s} : c \in files[t]
    <3>1. r \in files[s] /\ r \in Listed
      <4>1. CASE r \in Counted
        BY <2>1, <2>4, <4>1 DEF Counted
      <4>2. CASE r \in Own({s})
        BY <1>2, <4>2 DEF Own, CountInv, OwnInListing
      <4> QED
        BY <1>3, <4>1, <4>2
    <3>2. \A t \in T : files[t] \cap Listed \subseteq files[s]
      BY <1>2, <2>1, <3>1 DEF CountInv, ListingsNest
    <3>3. Counted \subseteq files[s]
      BY <2>4, <3>2 DEF Counted
    <3>4. Own(T \cup {s}) \subseteq files[s]
      BY <1>2, <2>1, <3>2 DEF Own, CountInv, OwnInListing
    <3>5. Cardinality(Counted \cup Own(T \cup {s})) <= Cardinality(files[s])
          /\ Cardinality(Counted \cup Own(T \cup {s})) \in Nat
          /\ Cardinality(files[s]) \in Nat
      BY <1>1, <3>3, <3>4, ReportSets
    <3>6. Cardinality(Counted \cup Own(T \cup {s})) <= MaxReports
      <4> DEFINE n == Cardinality(Counted \cup Own(T \cup {s}))
                 m == Cardinality(files[s])
      <4>1. n \in Nat /\ m \in Nat /\ n <= m /\ m <= MaxReports /\ MaxReports \in Nat
        BY <1>1, <3>5, SpoolAssumption
      <4> HIDE DEF n, m
      <4>2. n <= MaxReports
        BY <4>1
      <4> QED
        BY <4>2 DEF n
    <3> QED
      BY <2>2, <3>6
  <2> QED
    BY <2>3, <2>4
<1>5. ListingsNest' /\ OwnInListing'
  BY <1>1, <1>2 DEF CountInv, ListingsNest, OwnInListing
<1> QED
  BY <1>4, <1>5

(***************************************************************************)
(* Every other step takes away.                                            *)
(***************************************************************************)

(* A call writes its own report: that is in no listing yet, for it has      *)
(* never been in the spool (spool.rs:110-127).                              *)
LEMMA WritingTakesAway ==
  ASSUME SpoolInv, NEW t \in Thread, NEW r \in Report,
         Begin(t, r) \/ Create(t) \/ Write(t) \/ Sync(t) \/ Rename(t)
  PROVE  TakesAway
<1> USE DEF disk, names, Goto, Listed
<1>0. TypeOK /\ OneThreadEach /\ Progress /\ SpooledWhole
  BY DEF SpoolInv
<1>1. CASE Begin(t, r)
  <2>1. /\ UNCHANGED <<at, files>> /\ Listed' = Listed /\ at[r] = "none"
        /\ pc[t] = "idle" /\ pc' = [pc EXCEPT ![t] = "create"]
        /\ cur' = [cur EXCEPT ![t] = r] /\ result' = [result EXCEPT ![r] = "busy"]
    BY <1>0, <1>1 DEF Begin, SpooledWhole
  <2>2. Counting' = Counting /\ \A u \in Counting : cur'[u] = cur[u]
    BY <1>0, <2>1 DEF Counting, TypeOK
  <2>3. Counted' \subseteq Counted
    BY <1>0, <2>1 DEF Counted, TypeOK
  <2> QED
    BY <2>1, <2>2, <2>3 DEF TakesAway
<1>2. CASE Create(t) \/ Write(t) \/ Sync(t) \/ Rename(t)
  <2>1. PICK l \in {"write", "sync", "rename", "list"} :
          /\ pc[t] \in Writing /\ pc' = [pc EXCEPT ![t] = l]
          /\ UNCHANGED <<cur, files, result>>
          /\ \A q \in Report : q # cur[t] => at'[q] = at[q]
    BY <1>0, <1>2 DEF Create, Write, Sync, Rename, Writing, TypeOK
  <2>2. cur[t] \in Report /\ result[cur[t]] = "busy" /\ at[cur[t]] # "spool"
    BY <1>0, <2>1 DEF OneThreadEach, Busy, Writing, Progress, TypeOK
  <2>3. Counting' = Counting
    BY <1>0, <2>1 DEF Counting, TypeOK, Writing
  <2>4. \A u \in Thread : pc'[u] \in {"count", "sum", "bytes", "unlink"} =>
          pc[u] = pc'[u] /\ cur[u] # cur[t] /\ cur[u] \in Report
    BY <1>0, <2>1 DEF OneThreadEach, Busy, TypeOK, Writing
  <2>5. Counted' \subseteq Counted
    <3> SUFFICES ASSUME NEW q \in Report, q \in Counted' PROVE q \in Counted
      BY DEF Counted
    <3>1. q # cur[t]
      BY <2>1, <2>2, <2>4 DEF Counted
    <3>2. at[q] = "spool"
      BY <2>1, <3>1 DEF Counted
    <3> QED
      BY <2>1, <2>4, <3>2 DEF Counted
  <2>6. \A u \in Counting : cur[u] \in Listed' => cur[u] \in Listed
    BY <2>1, <2>3, <2>4 DEF Counting
  <2> QED
    BY <2>1, <2>3, <2>5, <2>6 DEF TakesAway
<1> QED
  BY <1>1, <1>2

(* A call past the count changes no listing of a call that counts; a call   *)
(* that ends with an error is no longer counted (spool.rs:153-191).         *)
LEMMA EnforcingTakesAway ==
  ASSUME SpoolInv, NEW t \in Thread,
         \/ WriteError(t) \/ SumVanished(t) \/ Return(t) \/ ListError(t)
         \/ SumFile(t) \/ ListForBytes(t) \/ ByteStat(t)
  PROVE  TakesAway
<1> USE DEF disk, names, Goto, Listed
<1>0. TypeOK /\ OneThreadEach
  BY DEF SpoolInv
<1>1. CASE SumFile(t) \/ ListForBytes(t) \/ ByteStat(t)
  <2>1. /\ pc[t] \in {"sum", "bytes"} /\ UNCHANGED <<at, cur, result>>
        /\ pc' = pc \/ \E l \in {"bytes", "unlink"} : pc' = [pc EXCEPT ![t] = l]
        /\ \A u \in Thread \ {t} : files'[u] = files[u]
    BY <1>0, <1>1 DEF SumFile, ListForBytes, ByteStat, TypeOK
  <2>2. Counting' = Counting /\ t \notin Counting /\ Listed' = Listed
    BY <1>0, <2>1 DEF Counting, TypeOK
  <2>3. Counted' = Counted
    BY <1>0, <2>1, <2>2 DEF Counted, TypeOK
  <2> QED
    BY <2>1, <2>2, <2>3 DEF TakesAway, Counting
<1>2. CASE WriteError(t) \/ SumVanished(t) \/ Return(t) \/ ListError(t)
  <2>1. PICK o \in {"err", "ok"} :
          /\ Finish(t, o) /\ UNCHANGED at /\ Busy(t)
          /\ o = "ok" => pc[t] = "bytes"
    BY <1>2 DEF WriteError, SumVanished, Return, ListError, Busy, Writing
  <2>2. cur[t] \in Report /\ result[cur[t]] = "busy"
    BY <1>0, <2>1 DEF OneThreadEach, TypeOK
  <2>3. /\ pc' = [pc EXCEPT ![t] = "idle"] /\ cur' = [cur EXCEPT ![t] = None]
        /\ files' = [files EXCEPT ![t] = {}] /\ result' = [result EXCEPT ![cur[t]] = o]
        /\ Listed' = Listed
    BY <2>1 DEF Finish
  <2>4. Counting' = Counting \ {t} /\ \A u \in Counting' : cur'[u] = cur[u] /\ files'[u] = files[u]
    BY <1>0, <2>3 DEF Counting, TypeOK
  <2>5. Counted' \subseteq Counted
    BY <1>0, <2>1, <2>2, <2>3 DEF Counted, TypeOK
  <2> QED
    BY <2>3, <2>4, <2>5 DEF TakesAway
<1> QED
  BY <1>1, <1>2

(* An eviction takes a file that is in the spool out of it, so the listing  *)
(* it is taken off loses nothing that is still there, provided that the     *)
(* removal of a file that is there succeeds (spool.rs:174-176, 184-187).    *)
LEMMA EvictionTakesAway ==
  ASSUME SpoolInv, NEW t \in Thread, CountEvict(t) \/ ByteEvict(t), "io_remove" \notin Env
  PROVE  TakesAway
<1> USE DEF disk, names, Goto, Listed
<1>0. TypeOK /\ OneThreadEach
  BY DEF SpoolInv
<1>1. PICK f \in Oldest(files[t]) : Unlinked(t, f) /\ files' = [files EXCEPT ![t] = @ \ {f}]
  BY DEF CountEvict, ByteEvict
<1>2. /\ f \in Report
      /\ pc[t] \in {"count", "unlink"} /\ UNCHANGED <<cur, result>>
      /\ pc' = pc \/ (pc[t] = "unlink" /\ pc' = [pc EXCEPT ![t] = "bytes"])
  BY <1>0, <1>1 DEF CountEvict, ByteEvict, Oldest, TypeOK
<1>3. Listed' = Listed \ {f}
  BY <1>0, <1>1, <1>2 DEF Unlinked, TypeOK
<1>4. Counting' = Counting
  BY <1>0, <1>2 DEF Counting, TypeOK
<1>5. Counted' \subseteq Counted
  BY <1>0, <1>2, <1>3 DEF Counted, TypeOK
<1>6. \A u \in Counting : files'[u] \subseteq files[u] /\ files[u] \cap Listed' \subseteq files'[u]
  BY <1>0, <1>1, <1>3 DEF Counting, TypeOK
<1> QED
  BY <1>2, <1>3, <1>4, <1>5, <1>6 DEF TakesAway

\* A consumer's removal and a restart take away (spool.rs:163-166).
LEMMA OthersTakeAway ==
  ASSUME SpoolInv, \/ \E r \in Report : Removal(r)
                   \/ \E P \in SUBSET Process : AnyRestart(P)
                   \/ UNCHANGED vars
  PROVE  TakesAway
<1> USE DEF disk, local, names, Listed
<1>0. TypeOK /\ OneThreadEach
  BY DEF SpoolInv
<1>1. ASSUME NEW r \in Report, Removal(r) PROVE TakesAway
  BY <1>0, <1>1 DEF Removal, TakesAway, Counting, Counted, TypeOK
<1>2. ASSUME NEW P \in SUBSET Process, AnyRestart(P) PROVE TakesAway
  <2>1. /\ Listed' = Listed
        /\ \A t \in Thread : pc'[t] # "idle" => pc'[t] = pc[t] /\ cur'[t] = cur[t] /\ files'[t] = files[t]
        /\ \A r \in Report : result'[r] \in {result[r], "died"}
    BY <1>2 DEF AnyRestart, Restart
  <2> QED
    BY <2>1 DEF TakesAway, Counting, Counted
<1>3. CASE UNCHANGED vars
  BY <1>3 DEF vars, TakesAway, Counting, Counted
<1> QED
  BY <1>1, <1>2, <1>3

\* Every step keeps the invariant, where removing a file that is there succeeds.
LEMMA CountStep ==
  ASSUME CountInv, [AnyNext]_vars, "io_remove" \notin Env
  PROVE  CountInv'
<1>1. SpoolInv /\ SpoolInv' /\ NamesInv'
  BY TypeStep, InvStep, NamesStep DEF CountInv, SpoolInv
<1>2. CASE TakesAway
  BY <1>1, <1>2, TakingAwayKeeps DEF CountInv
<1>3. ASSUME NEW t \in Thread, EnqueueStep(t) PROVE CountInv'
  <2>1. CASE ListForCount(t)
    BY <1>1, <2>1, ListingKeeps DEF CountInv
  <2>2. CASE ListForSum(t)
    BY <1>1, <2>2, CountingKeeps DEF CountInv
  <2>3. CASE Create(t) \/ Write(t) \/ Sync(t) \/ Rename(t)
    <3>1. cur[t] \in Report
      BY <1>1, <2>3 DEF SpoolInv, TypeOK, OneThreadEach, Busy, Create, Write, Sync, Rename
    <3> QED
      BY <1>1, <1>2, <2>3, <3>1, WritingTakesAway
  <2>4. CASE CountEvict(t) \/ ByteEvict(t)
    BY <1>1, <1>2, <2>4, EvictionTakesAway
  <2>5. CASE \/ WriteError(t) \/ SumVanished(t) \/ Return(t) \/ ListError(t)
             \/ SumFile(t) \/ ListForBytes(t) \/ ByteStat(t)
    BY <1>1, <1>2, <2>5, EnforcingTakesAway
  <2> QED
    BY <1>3, <2>1, <2>2, <2>3, <2>4, <2>5 DEF EnqueueStep
<1>4. ASSUME NEW t \in Thread, NEW r \in Report, Begin(t, r) PROVE CountInv'
  BY <1>1, <1>2, <1>4, WritingTakesAway
<1>5. CASE \/ \E r \in Report : Removal(r)
           \/ \E P \in SUBSET Process : AnyRestart(P)
           \/ UNCHANGED vars
  BY <1>1, <1>2, <1>5, OthersTakeAway
<1> QED
  BY <1>3, <1>4, <1>5 DEF AnyNext

\* No more reports are counted than the budget allows.
LEMMA CountedFit == CountInv => Cardinality(Counted) <= MaxReports
<1> SUFFICES ASSUME CountInv PROVE Cardinality(Counted) <= MaxReports
  OBVIOUS
<1>1. CASE Counted = {}
  BY <1>1, FS_EmptySet, SpoolAssumption
<1>2. CASE Counted # {}
  <2>1. Own({}) = {} /\ {} \in SUBSET Counting
    BY DEF Own
  <2> QED
    BY <1>2, <2>1 DEF CountInv, CountBound
<1> QED
  BY <1>1, <1>2

(***************************************************************************)
(* The bytes of sets of reports.                                           *)
(***************************************************************************)

\* The bytes of a set of reports are finitely many.
LEMMA BytesFinite ==
  ASSUME NEW S \in SUBSET Report
  PROVE  IsFiniteSet(Bytes(S)) /\ SpooledBytes(S) \in Nat
<1> DEFINE FileOf == [r \in S |-> {r} \X (1 .. Size[r])]
           Files  == {{r} \X (1 .. Size[r]) : r \in S}
<1>1. IsFiniteSet(S)
  BY SpoolAssumption, FS_Subset
<1>2. FileOf \in Surjection(S, Files)
  BY DEF Surjection
<1>3. IsFiniteSet(Files)
  <2> HIDE DEF FileOf, Files
  <2> QED
    BY <1>1, <1>2, FS_Surjection
<1>4. \A F \in Files : IsFiniteSet(F)
  <2> SUFFICES ASSUME NEW r \in S PROVE IsFiniteSet({r} \X (1 .. Size[r]))
    OBVIOUS
  <2>1. 1 \in Int /\ Size[r] \in Int
    BY SpoolAssumption
  <2>2. IsFiniteSet({r}) /\ IsFiniteSet(1 .. Size[r])
    BY <2>1, FS_Singleton, FS_Interval
  <2> QED
    BY <2>2, FS_Product
<1>5. Bytes(S) = UNION Files
  BY DEF Bytes
<1>6. IsFiniteSet(Bytes(S))
  <2> HIDE DEF Files
  <2> QED
    BY <1>3, <1>4, <1>5, FS_UNION
<1> QED
  BY <1>6, FS_CardinalityType DEF SpooledBytes

\* A part of a set of reports has no more bytes, and no report has none.
LEMMA FewerBytes ==
  ASSUME NEW S \in SUBSET Report, NEW R \in SUBSET S
  PROVE  /\ SpooledBytes(R) \in Nat /\ SpooledBytes(S) \in Nat
         /\ SpooledBytes(R) <= SpooledBytes(S)
         /\ SpooledBytes({}) = 0
<1>1. Bytes(R) \subseteq Bytes(S) /\ Bytes({}) = {}
  BY DEF Bytes
<1> QED
  BY <1>1, BytesFinite, FS_Subset, FS_EmptySet DEF SpooledBytes

\* What one report adds to the bytes.
LEMMA BytesWithout ==
  ASSUME NEW S \in SUBSET Report, NEW f \in S
  PROVE  SpooledBytes(S) = SpooledBytes(S \ {f}) + Size[f]
<1> DEFINE Own1 == {f} \X (1 .. Size[f])
           Rest == Bytes(S \ {f})
<1>1. Bytes(S) = Rest \cup Own1 /\ Rest \cap Own1 = {}
  BY DEF Bytes
<1>2. Size[f] \in Nat
  BY SpoolAssumption
<1>3. IsFiniteSet(Own1) /\ Cardinality(Own1) = Size[f]
  <2>1. IsFiniteSet({f}) /\ Cardinality({f}) = 1
    BY FS_Singleton
  <2>2. IsFiniteSet(1 .. Size[f]) /\ Cardinality(1 .. Size[f]) = Size[f]
    <3>1. /\ IsFiniteSet(1 .. Size[f])
          /\ Cardinality(1 .. Size[f]) = IF 1 > Size[f] THEN 0 ELSE Size[f] - 1 + 1
      <4>1. 1 \in Int /\ Size[f] \in Int
        BY <1>2
      <4> QED
        BY <4>1, FS_Interval
    <3> QED
      BY <1>2, <3>1
  <2>3. IsFiniteSet(Own1) /\ Cardinality(Own1) = Cardinality({f}) * Cardinality(1 .. Size[f])
    BY <2>1, <2>2, FS_Product
  <2> QED
    BY <1>2, <2>1, <2>2, <2>3
<1>4. IsFiniteSet(Rest) /\ Cardinality(Rest) \in Nat
  BY BytesFinite DEF SpooledBytes
<1>5. Cardinality(Rest \cup Own1) = Cardinality(Rest) + Cardinality(Own1) - Cardinality(Rest \cap Own1)
  <2> HIDE DEF Own1, Rest
  <2> QED
    BY <1>3, <1>4, FS_Union
<1>6. Cardinality(Rest \cap Own1) = 0
  BY <1>1, FS_EmptySet
<1> QED
  BY <1>1, <1>2, <1>3, <1>4, <1>5, <1>6 DEF SpooledBytes

\* Removing one report of a set removes no more than its size.
LEMMA BytesRemoved ==
  ASSUME NEW S \in SUBSET Report, NEW f \in Report
  PROVE  /\ SpooledBytes(S) \in Nat /\ SpooledBytes(S \ {f}) \in Nat /\ Size[f] \in Nat
         /\ SpooledBytes(S) <= SpooledBytes(S \ {f}) + Size[f]
<1>1. SpooledBytes(S) \in Nat /\ SpooledBytes(S \ {f}) \in Nat /\ Size[f] \in Nat
  BY BytesFinite, SpoolAssumption
<1>2. CASE f \in S
  BY <1>1, <1>2, BytesWithout
<1>3. CASE f \notin S
  <2>1. SpooledBytes(S \ {f}) = SpooledBytes(S)
    <3>1. S \ {f} = S
      BY <1>3
    <3> QED
      BY <3>1, Zenon
  <2> QED
    BY <1>1, <2>1
<1> QED
  BY <1>1, <1>2, <1>3

(***************************************************************************)
(* The budget on the bytes.                                                *)
(***************************************************************************)

\* A call whose locals stay covers what is left when reports are removed.
LEMMA CoversStays ==
  ASSUME SpoolInv, NEW t \in Thread, Covers(t), Listed' \subseteq Listed, stamp' = stamp,
         pc'[t] = pc[t], files'[t] = files[t], total'[t] = total[t]
  PROVE  Covers(t)'
<1>0. Listed \in SUBSET Report /\ total[t] \in Nat
  BY DEF Listed, SpoolInv, TypeOK
<1>1. ASSUME NEW S \in SUBSET Report, SpooledBytes(Listed \ S) <= total[t]
      PROVE  SpooledBytes(Listed' \ S) <= total[t]
  <2>1. Listed' \ S \in SUBSET (Listed \ S) /\ Listed \ S \in SUBSET Report
    BY <1>0
  <2>2. /\ SpooledBytes(Listed' \ S) <= SpooledBytes(Listed \ S)
        /\ SpooledBytes(Listed' \ S) \in Nat /\ SpooledBytes(Listed \ S) \in Nat
    BY <2>1, FewerBytes
  <2> QED
    BY <1>0, <1>1, <2>2
<1>2. Oldest(files[t])' = Oldest(files[t]) /\ files[t] \in SUBSET Report
  BY DEF Oldest, SpoolInv, TypeOK
<1>3. CASE pc[t] = "sum"
  <2>1. SpooledBytes(Listed \ files[t]) <= total[t]
    BY <1>3 DEF Covers
  <2>2. SpooledBytes(Listed' \ files[t]) <= total[t]
    BY <1>1, <1>2, <2>1
  <2>3. SpooledBytes(Listed \ files[t])' = SpooledBytes(Listed' \ files[t])
    BY DEF SpooledBytes, Bytes
  <2> QED
    BY <1>3, <2>2, <2>3 DEF Covers
<1>4. CASE pc[t] = "bytes"
  <2>1. Listed \subseteq files[t] /\ SpooledBytes(Listed) <= total[t]
    BY <1>4 DEF Covers
  <2>2. /\ SpooledBytes(Listed') <= SpooledBytes(Listed)
        /\ SpooledBytes(Listed') \in Nat /\ SpooledBytes(Listed) \in Nat
    BY <1>0, FewerBytes
  <2>3. SpooledBytes(Listed') <= total[t]
    BY <1>0, <2>1, <2>2
  <2>4. SpooledBytes(Listed)' = SpooledBytes(Listed')
    BY DEF SpooledBytes, Bytes
  <2> QED
    BY <1>4, <2>1, <2>3, <2>4 DEF Covers
<1>5. CASE pc[t] = "unlink"
  <2>1. /\ Listed \subseteq files[t]
        /\ \A f \in Oldest(files[t]) : SpooledBytes(Listed \ {f}) <= total[t]
    BY <1>5 DEF Covers
  <2>2. \A f \in Oldest(files[t]) : SpooledBytes(Listed' \ {f}) <= total[t]
    <3> SUFFICES ASSUME NEW f \in Oldest(files[t]) PROVE SpooledBytes(Listed' \ {f}) <= total[t]
      OBVIOUS
    <3>1. {f} \in SUBSET Report
      BY <1>2 DEF Oldest
    <3> QED
      BY <1>1, <2>1, <3>1
  <2> QED
    BY <1>2, <1>5, <2>1, <2>2 DEF Covers, SpooledBytes, Bytes
<1> QED
  BY <1>3, <1>4, <1>5 DEF Covers

\* The eviction of a listed file takes it out of the spool, or it was gone (spool.rs:174-187).
LEMMA Evicted ==
  ASSUME SpoolInv, NEW t \in Thread, CountEvict(t) \/ ByteEvict(t), "io_remove" \notin Env
  PROVE  \E f \in Oldest(files[t]) :
           /\ Listed' = Listed \ {f}
           /\ files' = [files EXCEPT ![t] = files[t] \ {f}]
<1>1. PICK f \in Oldest(files[t]) : Unlinked(t, f) /\ files' = [files EXCEPT ![t] = @ \ {f}]
  BY DEF CountEvict, ByteEvict
<1>2. f \in Report
  BY DEF Oldest, SpoolInv, TypeOK
<1>3. Listed' = Listed \ {f}
  BY <1>1, <1>2 DEF Listed, Unlinked, SpoolInv, TypeOK
<1> QED
  BY <1>1, <1>3

(* The steps of the call that covers the spool, up to its return: what it   *)
(* evicts it subtracts no more than once (spool.rs:153-159, 179-190).       *)
LEMMA CoveringStep ==
  ASSUME SpoolInv, NamesInv, NEW t \in Thread, Covers(t), "io_remove" \notin Env,
         SumFile(t) \/ ListForBytes(t) \/ ByteStat(t) \/ ByteEvict(t) \/ Return(t)
  PROVE  Covers(t)' \/ SpooledBytes(Listed)' <= MaxBytes
<1> USE DEF disk, Goto
<1>0. TypeOK /\ Listed \in SUBSET Report /\ files[t] \in SUBSET Report /\ total[t] \in Nat
  BY DEF Listed, SpoolInv, TypeOK
<1>1. CASE SumFile(t)
  <2>1. PICK f \in Oldest(files[t]) :
          /\ total'[t] = total[t] + Size[f]
          /\ files'[t] = files[t] \ {f}
    BY <1>0, <1>1 DEF SumFile, TypeOK
  <2>2. /\ pc'[t] = "sum" /\ Listed' = Listed /\ f \in files[t] /\ f \in Report
        /\ SpooledBytes(Listed \ files[t]) <= total[t]
    BY <1>0, <1>1 DEF SumFile, Covers, Listed, Oldest
  <2> DEFINE S == Listed \ (files[t] \ {f})
  <2>3. S \in SUBSET Report /\ S \ {f} = Listed \ files[t]
    BY <1>0, <2>2
  <2>4. /\ SpooledBytes(S) <= SpooledBytes(S \ {f}) + Size[f]
        /\ SpooledBytes(S) \in Nat /\ SpooledBytes(S \ {f}) \in Nat /\ Size[f] \in Nat
    <3> HIDE DEF S
    <3> QED
      BY <2>2, <2>3, BytesRemoved
  <2>5. SpooledBytes(S \ {f}) = SpooledBytes(Listed \ files[t])
    BY <2>3, Zenon
  <2>6. SpooledBytes(S) <= total'[t]
    <3> HIDE DEF S
    <3> QED
      BY <1>0, <2>1, <2>2, <2>4, <2>5
  <2>7. SpooledBytes(Listed \ files[t])' = SpooledBytes(S)
    BY <2>1, <2>2 DEF SpooledBytes, Bytes
  <2> QED
    BY <2>2, <2>6, <2>7 DEF Covers
<1>2. CASE ListForBytes(t)
  <2>1. /\ pc'[t] = "bytes" /\ Listed' = Listed /\ files'[t] = Listed /\ total'[t] = total[t]
        /\ files[t] = {} /\ SpooledBytes(Listed \ files[t]) <= total[t]
    BY <1>0, <1>2 DEF ListForBytes, Covers, Listed, TypeOK
  <2>2. Listed \ files[t] = Listed
    BY <2>1
  <2>3. SpooledBytes(Listed) <= total[t]
    BY <2>1, <2>2, Zenon
  <2>4. SpooledBytes(Listed)' = SpooledBytes(Listed)
    BY <2>1 DEF SpooledBytes, Bytes
  <2> QED
    BY <2>1, <2>3, <2>4 DEF Covers
<1>3. CASE ByteStat(t)
  <2>1. PICK f \in Oldest(files[t]) :
          \/ at[f] = "spool" /\ total'[t] = Monus(total[t], Size[f])
          \/ total'[t] = total[t]
    BY <1>0, <1>3 DEF ByteStat, TypeOK
  <2>2. /\ pc'[t] = "unlink" /\ Listed' = Listed /\ files'[t] = files[t] /\ stamp' = stamp
        /\ f \in Report /\ Listed \subseteq files[t] /\ SpooledBytes(Listed) <= total[t]
    BY <1>0, <1>3 DEF ByteStat, Covers, Listed, Oldest, TypeOK, names
  <2>3. SpooledBytes(Listed \ {f}) <= total'[t]
    <3>1. CASE at[f] = "spool" /\ total'[t] = Monus(total[t], Size[f])
      <4>1. f \in Listed
        BY <2>2, <3>1 DEF Listed
      <4>2. /\ SpooledBytes(Listed) = SpooledBytes(Listed \ {f}) + Size[f]
            /\ SpooledBytes(Listed) \in Nat /\ SpooledBytes(Listed \ {f}) \in Nat
            /\ Size[f] \in Nat
        BY <1>0, <2>2, <4>1, BytesWithout, BytesRemoved
      <4> QED
        BY <1>0, <2>2, <3>1, <4>2 DEF Monus
    <3>2. CASE total'[t] = total[t]
      <4>1. Listed \ {f} \in SUBSET Listed
        OBVIOUS
      <4>2. /\ SpooledBytes(Listed \ {f}) <= SpooledBytes(Listed)
            /\ SpooledBytes(Listed) \in Nat /\ SpooledBytes(Listed \ {f}) \in Nat
        BY <1>0, <4>1, FewerBytes
      <4> QED
        BY <1>0, <2>2, <3>2, <4>2
    <3> QED
      BY <2>1, <3>1, <3>2
  <2>4. \A g \in Oldest(files[t]) : g = f
    BY OneOldest
  <2>5. Oldest(files[t])' = Oldest(files[t])
    BY <2>2 DEF Oldest
  <2> QED
    BY <2>2, <2>3, <2>4, <2>5 DEF Covers, SpooledBytes, Bytes
<1>4. CASE ByteEvict(t)
  <2>1. PICK f \in Oldest(files[t]) : Listed' = Listed \ {f} /\ files'[t] = files[t] \ {f}
    BY <1>0, <1>4, Evicted DEF TypeOK
  <2>2. /\ pc'[t] = "bytes" /\ total'[t] = total[t] /\ Listed \subseteq files[t]
        /\ SpooledBytes(Listed \ {f}) <= total[t]
    BY <1>0, <1>4 DEF ByteEvict, Covers, TypeOK
  <2>3. SpooledBytes(Listed)' = SpooledBytes(Listed \ {f})
    BY <2>1 DEF SpooledBytes, Bytes
  <2> QED
    BY <2>1, <2>2, <2>3 DEF Covers
<1>5. CASE Return(t)
  <2>1. /\ Listed' = Listed /\ Listed \subseteq files[t] /\ SpooledBytes(Listed) <= total[t]
        /\ total[t] <= MaxBytes \/ files[t] = {}
    BY <1>5 DEF Return, Covers, Listed, BytesMet
  <2>2. SpooledBytes(Listed) \in Nat /\ SpooledBytes({}) = 0 /\ MaxBytes \in Nat
    BY <1>0, FewerBytes, SpoolAssumption
  <2>3. SpooledBytes(Listed) <= MaxBytes
    <3>1. CASE total[t] <= MaxBytes
      BY <1>0, <2>1, <2>2, <3>1
    <3>2. CASE files[t] = {}
      <4>1. Listed = {}
        BY <2>1, <3>2
      <4>2. SpooledBytes(Listed) = SpooledBytes({})
        BY <4>1, Zenon
      <4> QED
        BY <2>2, <4>2
    <3> QED
      BY <2>1, <3>1, <3>2
  <2>4. SpooledBytes(Listed)' = SpooledBytes(Listed)
    BY <2>1 DEF SpooledBytes, Bytes
  <2> QED
    BY <2>3, <2>4
<1> QED
  BY <1>1, <1>2, <1>3, <1>4, <1>5

\* A thread that a step leaves alone, of which the step only removes reports, matters as before.
LEMMA OthersMatter ==
  ASSUME SpoolInv, Listed' \subseteq Listed, stamp' = stamp, NEW T \in SUBSET Thread,
         \A u \in T : pc'[u] = pc[u] /\ files'[u] = files[u] /\ total'[u] = total[u]
  PROVE  /\ (\E u \in T : pc[u] \in Writing \cup {"list", "count"}) => WillSum'
         /\ (\E u \in T : Covers(u)) => \E u \in Thread : Covers(u)'
         /\ SpooledBytes(Listed) <= MaxBytes => SpooledBytes(Listed)' <= MaxBytes
<1>1. (\E u \in T : pc[u] \in Writing \cup {"list", "count"}) => WillSum'
  BY DEF WillSum
<1>2. (\E u \in T : Covers(u)) => \E u \in Thread : Covers(u)'
  BY CoversStays
<1>3. ASSUME SpooledBytes(Listed) <= MaxBytes PROVE SpooledBytes(Listed)' <= MaxBytes
  <2>1. Listed \in SUBSET Report /\ Listed' \in SUBSET Listed
    BY DEF Listed
  <2>2. /\ SpooledBytes(Listed') <= SpooledBytes(Listed)
        /\ SpooledBytes(Listed') \in Nat /\ SpooledBytes(Listed) \in Nat
    BY <2>1, FewerBytes
  <2>3. SpooledBytes(Listed)' = SpooledBytes(Listed')
    BY DEF SpooledBytes, Bytes
  <2> QED
    BY <1>3, <2>2, <2>3, SpoolAssumption
<1> QED
  BY <1>1, <1>2, <1>3

(* A call that still has to sum, or the last one that has summed, keeps     *)
(* the bytes in hand through every step (spool.rs:110-191).                 *)
LEMMA BytesOpenStep ==
  ASSUME SpoolInv, NamesInv, BytesInv, [AnyNext]_vars, "io_remove" \notin Env
  PROVE  BytesOpen'
<1> USE DEF disk, local, names, Goto
<1>0. TypeOK /\ OneThreadEach /\ BytesOpen
  BY DEF SpoolInv, BytesInv
<1>1. ASSUME NEW t \in Thread, Busy(t) PROVE cur[t] \in Report /\ result[cur[t]] = "busy"
  BY <1>0, <1>1 DEF OneThreadEach, TypeOK
<1>2. ASSUME NEW t \in Thread, pc'[t] \in Writing \cup {"list", "count"} PROVE BytesOpen'
  BY <1>2 DEF BytesOpen, WillSum
<1>3. ASSUME NEW t \in Thread, NEW r \in Report, Begin(t, r) PROVE BytesOpen'
  BY <1>0, <1>2, <1>3 DEF Begin, TypeOK, Writing
<1>4. ASSUME NEW t \in Thread,
             Create(t) \/ Write(t) \/ Sync(t) \/ Rename(t) \/ ListForCount(t) \/ CountEvict(t)
      PROVE  BytesOpen'
  <2>1. pc'[t] \in Writing \cup {"list", "count"}
    BY <1>0, <1>4 DEF Create, Write, Sync, Rename, ListForCount, CountEvict, TypeOK, Writing
  <2> QED
    BY <1>2, <2>1
<1>5. ASSUME NEW t \in Thread, WriteError(t) \/ SumVanished(t) \/ ListError(t) PROVE BytesOpen'
  <2>1. Busy(t) /\ result' = [result EXCEPT ![cur[t]] = "err"]
    BY <1>5 DEF WriteError, SumVanished, ListError, Finish, Busy, Writing
  <2>2. result'[cur[t]] = "err"
    BY <1>0, <1>1, <2>1 DEF TypeOK
  <2> QED
    BY <1>1, <2>1, <2>2 DEF BytesOpen, Interrupted
<1>6. ASSUME NEW t \in Thread, ListForSum(t) PROVE BytesOpen'
  <2>1. /\ pc'[t] = "sum" /\ files'[t] = Listed /\ Listed' = Listed /\ total' = total
    BY <1>0, <1>6 DEF ListForSum, Listed, TypeOK
  <2>2. SpooledBytes({}) = 0 /\ total[t] \in Nat
    BY <1>0, FewerBytes DEF TypeOK
  <2>3. (Listed \ files[t])' = {}
    BY <2>1
  <2>4. SpooledBytes(Listed \ files[t])' = SpooledBytes({})
    BY <2>3 DEF SpooledBytes, Bytes
  <2>5. Covers(t)'
    BY <2>1, <2>2, <2>4 DEF Covers
  <2> QED
    BY <2>5 DEF BytesOpen
<1>7. ASSUME NEW t \in Thread,
             SumFile(t) \/ ListForBytes(t) \/ ByteStat(t) \/ ByteEvict(t) \/ Return(t)
      PROVE  BytesOpen'
  <2>1. /\ pc[t] \in {"sum", "bytes", "unlink"} /\ stamp' = stamp
        /\ \A u \in Thread \ {t} : pc'[u] = pc[u] /\ files'[u] = files[u] /\ total'[u] = total[u]
    BY <1>0, <1>7 DEF SumFile, ListForBytes, ByteStat, ByteEvict, Return, Finish, TypeOK
  <2>2. Listed' \subseteq Listed
    <3>1. CASE ByteEvict(t)
      BY <1>0, <3>1, Evicted DEF SpoolInv
    <3>2. CASE SumFile(t) \/ ListForBytes(t) \/ ByteStat(t) \/ Return(t)
      BY <3>2 DEF SumFile, ListForBytes, ByteStat, Return, Listed
    <3> QED
      BY <1>7, <3>1, <3>2
  <2>3. CASE Covers(t)
    BY <1>7, <2>3, CoveringStep DEF BytesOpen
  <2>4. CASE \/ \E u \in Thread \ {t} : Covers(u) \/ pc[u] \in Writing \cup {"list", "count"}
             \/ SpooledBytes(Listed) <= MaxBytes
    BY <2>1, <2>2, <2>4, OthersMatter DEF BytesOpen
  <2>5. CASE Interrupted
    <3>1. PICK r \in Report : result[r] \in {"err", "died"}
      BY <2>5 DEF Interrupted
    <3>2. Busy(t)
      BY <2>1 DEF Busy
    <3>3. r # cur[t]
      BY <1>1, <3>1, <3>2
    <3>4. result' = result \/ \E o \in {"ok"} : result' = [result EXCEPT ![cur[t]] = o]
      BY <1>7 DEF SumFile, ListForBytes, ByteStat, ByteEvict, Return, Finish
    <3>5. result'[r] = result[r]
      BY <1>0, <3>1, <3>3, <3>4 DEF TypeOK
    <3> QED
      BY <3>1, <3>5 DEF BytesOpen, Interrupted
  <2>6. pc[t] \notin Writing \cup {"list", "count"}
    BY <2>1 DEF Writing
  <2> QED
    BY <1>0, <2>3, <2>4, <2>5, <2>6 DEF BytesOpen, WillSum
<1>8. ASSUME NEW P \in SUBSET Process, AnyRestart(P) PROVE BytesOpen'
  <2> DEFINE T == {u \in Thread : Owner[u] \notin P}
  <2>1. /\ Listed' = Listed /\ stamp' = stamp
        /\ \A u \in T : pc'[u] = pc[u] /\ files'[u] = files[u] /\ total'[u] = total[u]
        /\ \A r \in Report : result[r] \in {"err", "died"} => result'[r] \in {"err", "died"}
    BY <1>8 DEF AnyRestart, Restart, Listed
  <2>2. ASSUME NEW u \in Thread, Owner[u] \in P, Busy(u) PROVE BytesOpen'
    <3>1. cur[u] \in Report
      BY <1>1, <2>2
    <3>2. result'[cur[u]] = "died"
      BY <1>8, <2>2, <3>1 DEF AnyRestart, Restart
    <3> QED
      BY <3>1, <3>2 DEF BytesOpen, Interrupted
  <2>3. CASE SpooledBytes(Listed) <= MaxBytes
    BY <2>1, <2>3, OthersMatter DEF BytesOpen
  <2>4. CASE \E u \in T : Covers(u) \/ pc[u] \in Writing \cup {"list", "count"}
    BY <2>1, <2>4, OthersMatter DEF BytesOpen
  <2>5. CASE \E u \in Thread \ T : Covers(u) \/ pc[u] \in Writing \cup {"list", "count"}
    BY <2>2, <2>5 DEF Covers, Busy, Writing
  <2>6. CASE Interrupted
    BY <2>1, <2>6 DEF BytesOpen, Interrupted
  <2> QED
    BY <1>0, <2>3, <2>4, <2>5, <2>6 DEF BytesOpen, WillSum
<1>9. ASSUME \/ \E r \in Report : Removal(r)
             \/ UNCHANGED vars
      PROVE  BytesOpen'
  <2>1. /\ Listed' \subseteq Listed /\ UNCHANGED <<stamp, result, pc, files, total>>
    BY <1>0, <1>9 DEF Removal, Listed, TypeOK, vars
  <2>2. Interrupted => Interrupted'
    BY <2>1 DEF Interrupted
  <2> QED
    BY <1>0, <2>1, <2>2, OthersMatter DEF BytesOpen, WillSum
<1>10. ASSUME NEW t \in Thread, EnqueueStep(t) PROVE BytesOpen'
  BY <1>4, <1>5, <1>6, <1>7, <1>10 DEF EnqueueStep
<1> QED
  BY <1>3, <1>8, <1>9, <1>10 DEF AnyNext

\* A report whose call has not ended has a thread at work on it (spool.rs:110-133).
LEMMA BusyHasThread ==
  ASSUME SpoolInv, BytesInv, [AnyNext]_vars
  PROVE  \A r \in Report : result'[r] = "busy" => \E t \in Thread : cur'[t] = r
<1> USE DEF disk, local, names, Goto
<1> DEFINE Goal == \A r \in Report : result'[r] = "busy" => \E t \in Thread : cur'[t] = r
<1>0. /\ TypeOK /\ OneThreadEach
      /\ \A r \in Report : result[r] = "busy" => \E t \in Thread : cur[t] = r
  BY DEF SpoolInv, BytesInv
<1>1. ASSUME NEW t \in Thread, NEW r \in Report, Begin(t, r) PROVE Goal
  <2>1. pc[t] = "idle" /\ cur' = [cur EXCEPT ![t] = r] /\ result' = [result EXCEPT ![r] = "busy"]
    BY <1>1 DEF Begin
  <2>2. cur[t] \notin Report
    BY <1>0, <2>1, SpoolAssumption DEF OneThreadEach, Busy
  <2> QED
    BY <1>0, <2>1, <2>2 DEF TypeOK
<1>2. ASSUME NEW t \in Thread, EnqueueStep(t) PROVE Goal
  <2>1. CASE WriteError(t) \/ SumVanished(t) \/ Return(t) \/ ListError(t)
    <3>1. PICK o \in {"ok", "err"} : Finish(t, o) /\ Busy(t)
      BY <2>1 DEF WriteError, SumVanished, Return, ListError, Busy, Writing
    <3>2. /\ cur' = [cur EXCEPT ![t] = None] /\ result' = [result EXCEPT ![cur[t]] = o]
          /\ cur[t] \in Report
      BY <1>0, <3>1 DEF Finish, OneThreadEach, TypeOK
    <3> QED
      BY <1>0, <3>2 DEF TypeOK
  <2>2. CASE Create(t) \/ Write(t) \/ Sync(t) \/ Rename(t) \/ ListForCount(t) \/ ListForSum(t)
    BY <1>0, <2>2 DEF Create, Write, Sync, Rename, ListForCount, ListForSum
  <2>3. CASE CountEvict(t) \/ SumFile(t) \/ ListForBytes(t) \/ ByteStat(t) \/ ByteEvict(t)
    BY <1>0, <2>3 DEF CountEvict, SumFile, ListForBytes, ByteStat, ByteEvict
  <2> QED
    BY <1>2, <2>1, <2>2, <2>3 DEF EnqueueStep
<1>3. ASSUME NEW P \in SUBSET Process, AnyRestart(P) PROVE Goal
  <2> SUFFICES ASSUME NEW r \in Report, result'[r] = "busy" PROVE \E t \in Thread : cur'[t] = r
    OBVIOUS
  <2>1. /\ result[r] = "busy"
        /\ ~ \E t \in Thread : Owner[t] \in P /\ cur[t] = r
    BY <1>3 DEF AnyRestart, Restart
  <2> QED
    BY <1>0, <1>3, <2>1 DEF AnyRestart, Restart
<1>4. CASE UNCHANGED vars \/ \E r \in Report : Removal(r)
  BY <1>0, <1>4 DEF vars, Removal
<1> QED
  BY <1>1, <1>2, <1>3, <1>4 DEF AnyNext

\* At the start the bytes are none.
LEMMA BytesInit == Init => BytesInv
<1> SUFFICES ASSUME Init PROVE BytesInv
  OBVIOUS
<1>1. Listed = {}
  BY DEF Init, Listed
<1>2. SpooledBytes({}) = 0
  BY FewerBytes
<1>3. SpooledBytes(Listed) = 0
  BY <1>1, <1>2, Zenon
<1> QED
  BY <1>3, SpoolAssumption DEF BytesInv, BytesOpen, Init

\* Every step keeps both budgets' invariants, where removing a file that is there succeeds.
LEMMA BudgetStep ==
  ASSUME CountInv, BytesInv, [AnyNext]_vars, "io_remove" \notin Env
  PROVE  CountInv' /\ BytesInv'
<1>1. CountInv'
  BY CountStep
<1>2. BytesOpen'
  BY BytesOpenStep DEF CountInv
<1>3. \A r \in Report : result'[r] = "busy" => \E t \in Thread : cur'[t] = r
  BY BusyHasThread DEF CountInv
<1> QED
  BY <1>1, <1>2, <1>3 DEF BytesInv

\* The invariants hold of every behaviour in which no removal fails.
LEMMA BudgetInvariant ==
  ASSUME "io_remove" \notin Env
  PROVE  Spec => [](CountInv /\ BytesInv)
<1>1. Init => CountInv /\ BytesInv
  BY CountInit, BytesInit
<1>2. CountInv /\ BytesInv /\ [Next]_vars => (CountInv /\ BytesInv)'
  BY BudgetStep, NextIsAny
<1> QED
  BY <1>1, <1>2, PTL DEF Spec

\* What is acknowledged is counted, and what is counted fits.
LEMMA AcknowledgedFit == CountInv => AcknowledgedWithinCount
<1> SUFFICES ASSUME CountInv PROVE Cardinality(Acknowledged) <= MaxReports
  BY DEF AcknowledgedWithinCount
<1>1. Counted \in SUBSET Report /\ Acknowledged \in SUBSET Counted
  BY DEF Counted, Acknowledged, Listed
<1> QED
  BY <1>1, CountedFit, ReportSets, SpoolAssumption

\* At rest all that is spooled is counted, and no call is left to keep the bytes open.
LEMMA RestFits == CountInv /\ BytesInv => BudgetAtRest
<1> SUFFICES ASSUME CountInv, BytesInv,
                    \A t \in Thread : pc[t] = "idle",
                    \A r \in Report : result[r] \notin {"err", "died"}
             PROVE  Cardinality(Listed) <= MaxReports /\ SpooledBytes(Listed) <= MaxBytes
  BY DEF BudgetAtRest
<1>1. Listed \subseteq Counted
  <2> SUFFICES ASSUME NEW r \in Report, at[r] = "spool" PROVE result[r] = "ok"
    BY DEF Listed, Counted
  <2>1. result[r] # "none"
    BY DEF CountInv, SpoolInv, SpooledWhole
  <2>2. result[r] # "busy"
    BY SpoolAssumption DEF BytesInv, CountInv, SpoolInv, OneThreadEach, Busy
  <2> QED
    BY <2>1, <2>2 DEF CountInv, SpoolInv, TypeOK
<1>2. Cardinality(Listed) <= MaxReports
  <2>1. Counted \in SUBSET Report /\ Listed \in SUBSET Counted
    BY <1>1 DEF Counted, Listed
  <2> QED
    BY <2>1, CountedFit, ReportSets, SpoolAssumption
<1>3. SpooledBytes(Listed) <= MaxBytes
  BY DEF BytesInv, BytesOpen, Interrupted, WillSum, Covers, Writing
<1> QED
  BY <1>2, <1>3

(* However the evictions of concurrent calls interleave, the reports whose  *)
(* callers were told that they are saved never exceed the budget on the     *)
(* count, where removing a file that is there succeeds (spool.rs:169-178).  *)
THEOREM CountBudgetKept ==
  ASSUME "io_remove" \notin Env
  PROVE  Spec => []AcknowledgedWithinCount
BY AcknowledgedFit, BudgetInvariant, PTL

(* Once every call has returned and none was cut short, both budgets hold,  *)
(* whatever consumers took meanwhile and however the calls interleaved,     *)
(* where removing a file that is there succeeds (spool.rs:169-191).         *)
THEOREM BudgetsKeptAtRest ==
  ASSUME "io_remove" \notin Env
  PROVE  Spec => []BudgetAtRest
BY RestFits, BudgetInvariant, PTL

(***************************************************************************)
(* One thread, a clock that does not go back, and no consumer.             *)
(***************************************************************************)

\* The name that a call takes is the newest so far (spool.rs:195-205).
LEMMA NewestNameStep ==
  ASSUME AloneInv, [Next]_vars, NEW t \in Thread, OneThread, "clock" \notin Env
  PROVE  NewestName(t)'
<1> USE DEF disk, local, names, Goto
<1>0. /\ SpoolInv /\ TypeOK /\ OneThreadEach /\ NewestName(t) /\ [AnyNext]_vars
      /\ \A r \in Report : result[r] # "none" => stamp[r] \in Stamp
      /\ Owner[t] \in Process
  BY NextIsAny, SpoolAssumption DEF SpoolInv, AloneInv, NamesInv
<1>1. ASSUME NEW u \in Thread, NEW r \in Report, Begin(u, r) PROVE NewestName(t)'
  <2>1. PICK n \in Readings :
          /\ n >= clock
          /\ stamp' = [stamp EXCEPT ![r] = <<n, seq[Owner[t]]>>]
          /\ seq' = [seq EXCEPT ![Owner[t]] = @ + 1]
          /\ clock' = n
    BY <1>1 DEF Begin, FileStamp, StampOf, OneThread
  <2>2. /\ result' = [result EXCEPT ![r] = "busy"] /\ cur' = [cur EXCEPT ![t] = r]
        /\ n \in Nat /\ clock \in Nat /\ seq[Owner[t]] \in Nat
    <3>1. u = t
      BY DEF OneThread
    <3>2. n \in Nat /\ clock \in Nat /\ seq[Owner[t]] \in Nat
      BY <1>0, SpoolAssumption DEF TypeOK, Readings
    <3> QED
      BY <1>1, <3>1, <3>2 DEF Begin
  <2>3. cur'[t] = r /\ stamp'[r] = <<n, seq[Owner[t]]>> /\ seq'[Owner[t]] = seq[Owner[t]] + 1
    BY <1>0, <2>1, <2>2 DEF TypeOK
  <2>4. ASSUME NEW q \in Report, q # r, result'[q] # "none"
        PROVE  /\ stamp'[q][1] <= clock'
               /\ stamp'[q][1] = clock' => stamp'[q][2] < seq'[Owner[t]]
               /\ Earlier(stamp'[q], stamp'[cur'[t]])
    <3>1. /\ result[q] # "none" /\ stamp'[q] = stamp[q]
      BY <1>0, <2>1, <2>2, <2>4 DEF TypeOK
    <3>2. PICK a \in Nat, b \in Nat : stamp[q] = <<a, b>>
      BY <1>0, <3>1, SpoolAssumption DEF Stamp
    <3>3. a <= clock /\ (a = clock => b < seq[Owner[t]])
      BY <1>0, <3>1, <3>2 DEF NewestName
    <3> QED
      BY <2>1, <2>2, <2>3, <3>1, <3>2, <3>3 DEF Earlier
  <2>5. /\ stamp'[r][1] <= clock'
        /\ stamp'[r][1] = clock' => stamp'[r][2] < seq'[Owner[t]]
        /\ Earlier(stamp'[r], stamp'[cur'[t]])
    BY <2>1, <2>2, <2>3 DEF Earlier
  <2> QED
    BY <2>4, <2>5 DEF NewestName, Earlier
<1>2. ASSUME NEW u \in Thread, EnqueueStep(u) PROVE NewestName(t)'
  <2>1. UNCHANGED names /\ (Busy(t)' => Busy(t) /\ cur'[t] = cur[t])
    <3>1. CASE WriteError(u) \/ SumVanished(u) \/ Return(u) \/ ListError(u)
      <4>1. pc'[t] = "idle" /\ UNCHANGED names
        BY <1>0, <3>1 DEF WriteError, SumVanished, Return, ListError, Finish, OneThread, TypeOK
      <4> QED
        BY <4>1 DEF Busy
    <3>2. CASE Create(u) \/ Write(u) \/ Sync(u) \/ Rename(u) \/ ListForCount(u) \/ ListForSum(u)
      BY <3>2 DEF Create, Write, Sync, Rename, ListForCount, ListForSum, Busy, OneThread
    <3>3. CASE CountEvict(u) \/ SumFile(u) \/ ListForBytes(u) \/ ByteStat(u) \/ ByteEvict(u)
      BY <3>3 DEF CountEvict, SumFile, ListForBytes, ByteStat, ByteEvict, Busy, OneThread
    <3> QED
      BY <1>2, <3>1, <3>2, <3>3 DEF EnqueueStep
  <2>2. \A r \in Report : result'[r] = "none" <=> result[r] = "none"
    <3>1. ~ \E s \in Thread, r \in Report : Begin(s, r)
      BY <2>1, <1>0 DEF Begin, FileStamp, TypeOK, OneThread
    <3> QED
      BY <1>0, <3>1, NamesStay
  <2> QED
    BY <1>0, <2>1, <2>2 DEF NewestName
<1>3. ASSUME NEW P, Restart(P) PROVE NewestName(t)'
  <2>1. /\ clock' = clock + 1 /\ stamp' = stamp /\ clock \in Nat
        /\ Busy(t)' => Busy(t) /\ cur'[t] = cur[t]
    BY <1>0, <1>3 DEF Restart, Busy, TypeOK
  <2>2. \A r \in Report : result'[r] # "none" => result[r] # "none"
    <3>1. \A s \in Thread, r \in Report : cur[s] = r => result[r] = "busy"
      BY <1>0, SpoolAssumption DEF OneThreadEach
    <3> QED
      BY <1>3, <3>1 DEF Restart
  <2>3. ASSUME NEW r \in Report, result'[r] # "none"
        PROVE  stamp[r][1] \in Nat /\ stamp[r][1] <= clock
    BY <1>0, <2>2, <2>3, SpoolAssumption DEF NewestName, Stamp
  <2> QED
    BY <1>0, <2>1, <2>2, <2>3 DEF NewestName
<1>4. CASE UNCHANGED vars \/ \E r \in Report : ConsumerRemove(r)
  BY <1>0, <1>4 DEF vars, ConsumerRemove, NewestName, Busy
<1> QED
  BY <1>1, <1>2, <1>3, <1>4 DEF Next, Crash, PowerLoss

\* The total of a call that is alone is what is left of its listing (spool.rs:153-190).
LEMMA ExactTotalStep ==
  ASSUME AloneInv, SpoolInv', [Next]_vars, NEW t \in Thread, OneThread,
         "take" \notin Env, "io_list" \notin Env
  PROVE  ExactTotal(t)'
<1> USE DEF disk, local, names, Goto
<1>0. /\ SpoolInv /\ NamesInv /\ TypeOK /\ OneThreadEach /\ Progress /\ ExactTotal(t)
      /\ Listed \in SUBSET Report /\ files[t] \in SUBSET Report /\ total[t] \in Nat
  BY DEF SpoolInv, AloneInv, Listed, TypeOK
<1>1. ASSUME files'[t] \subseteq Listed', pc'[t] \notin {"sum", "bytes", "unlink"}, total'[t] = 0
      PROVE  ExactTotal(t)'
  BY <1>1 DEF ExactTotal
<1>2. ASSUME NEW r \in Report, Begin(t, r) PROVE ExactTotal(t)'
  BY <1>0, <1>1, <1>2 DEF Begin, Listed, ExactTotal, TypeOK
<1>3. CASE Create(t) \/ Write(t) \/ Sync(t) \/ Rename(t)
  <2>1. Listed \subseteq Listed' /\ files' = files
    BY <1>0, <1>3 DEF Create, Write, Sync, Rename, Listed, Progress, Writing, TypeOK
  <2>2. pc'[t] \in {"write", "sync", "rename", "list"} /\ total'[t] = 0
    BY <1>0, <1>3 DEF Create, Write, Sync, Rename, ExactTotal, TypeOK
  <2> QED
    BY <1>0, <1>1, <2>1, <2>2 DEF ExactTotal
<1>4. CASE WriteError(t) \/ SumVanished(t) \/ Return(t) \/ ListError(t)
  BY <1>0, <1>1, <1>4 DEF WriteError, SumVanished, Return, ListError, Finish, TypeOK
<1>5. CASE ListForCount(t)
  BY <1>0, <1>1, <1>5 DEF ListForCount, Listed, ExactTotal, TypeOK
<1>6. CASE CountEvict(t)
  <2>1. PICK f \in Oldest(files[t]) : Unlinked(t, f) /\ files'[t] = files[t] \ {f}
    BY <1>0, <1>6 DEF CountEvict, TypeOK
  <2>2. pc'[t] = "count" /\ total'[t] = 0
    BY <1>0, <1>6 DEF CountEvict, ExactTotal
  <2>3. Listed \ {f} \subseteq Listed'
    BY <1>0, <2>1 DEF Unlinked, Listed, Oldest, TypeOK
  <2> QED
    BY <1>0, <1>1, <2>1, <2>2, <2>3 DEF ExactTotal
<1>7. CASE ListForSum(t)
  <2>1. /\ pc'[t] = "sum" /\ Listed' = Listed /\ files'[t] = Listed /\ total'[t] = 0
    BY <1>0, <1>7 DEF ListForSum, Listed, ExactTotal, TypeOK
  <2>2. SpooledBytes({}) = 0 /\ (Listed \ files[t])' = {}
    BY <2>1, FewerBytes
  <2>3. SpooledBytes(Listed \ files[t])' = SpooledBytes({})
    BY <2>2 DEF SpooledBytes, Bytes
  <2> QED
    BY <2>1, <2>2, <2>3 DEF ExactTotal
<1>8. CASE SumFile(t)
  <2>1. PICK f \in Oldest(files[t]) :
          at[f] = "spool" /\ total'[t] = total[t] + Size[f] /\ files'[t] = files[t] \ {f}
    BY <1>0, <1>8 DEF SumFile, TypeOK
  <2>2. /\ pc'[t] = "sum" /\ Listed' = Listed /\ f \in files[t] /\ f \in Listed
        /\ total[t] = SpooledBytes(Listed \ files[t]) /\ files[t] \subseteq Listed
    BY <1>0, <1>8, <2>1 DEF SumFile, Listed, Oldest, ExactTotal
  <2> DEFINE S == Listed \ (files[t] \ {f})
  <2>3. S \in SUBSET Report /\ f \in S /\ S \ {f} = Listed \ files[t]
    BY <1>0, <2>2
  <2>4. SpooledBytes(S) = SpooledBytes(S \ {f}) + Size[f]
    <3> HIDE DEF S
    <3> QED
      BY <2>3, BytesWithout
  <2>5. SpooledBytes(S \ {f}) = SpooledBytes(Listed \ files[t])
    BY <2>3, Zenon
  <2>6. SpooledBytes(Listed \ files[t])' = SpooledBytes(S)
    BY <2>1, <2>2 DEF SpooledBytes, Bytes
  <2>7. total'[t] = SpooledBytes(S)
    <3> HIDE DEF S
    <3> QED
      BY <2>1, <2>2, <2>4, <2>5
  <2>8. files'[t] \subseteq Listed'
    BY <2>1, <2>2
  <2> QED
    BY <2>2, <2>6, <2>7, <2>8 DEF ExactTotal
<1>9. CASE ListForBytes(t)
  <2>1. /\ pc'[t] = "bytes" /\ Listed' = Listed /\ files'[t] = Listed
        /\ total'[t] = SpooledBytes(Listed \ files[t]) /\ files[t] = {}
    BY <1>0, <1>9 DEF ListForBytes, Listed, ExactTotal, TypeOK
  <2>2. Listed \ files[t] = Listed
    BY <2>1
  <2>3. total'[t] = SpooledBytes(Listed)
    BY <2>1, <2>2, Zenon
  <2>4. SpooledBytes(files[t])' = SpooledBytes(Listed)
    BY <2>1 DEF SpooledBytes, Bytes
  <2> QED
    BY <2>1, <2>3, <2>4 DEF ExactTotal
<1>10. CASE ByteStat(t)
  <2>1. PICK f \in Oldest(files[t]) :
          \/ at[f] = "spool" /\ total'[t] = Monus(total[t], Size[f])
          \/ at[f] # "spool"
    BY <1>0, <1>10 DEF ByteStat, TypeOK
  <2>2. /\ pc'[t] = "unlink" /\ Listed' = Listed /\ files'[t] = files[t] /\ stamp' = stamp
        /\ f \in files[t] /\ f \in Listed /\ files[t] \subseteq Listed
        /\ total[t] = SpooledBytes(files[t]) /\ total[t] > MaxBytes
    BY <1>0, <1>10, SpoolAssumption DEF ByteStat, Listed, Oldest, ExactTotal, BytesMet, TypeOK
  <2>3. total'[t] = Monus(total[t], Size[f])
    BY <2>1, <2>2 DEF Listed
  <2>4. /\ SpooledBytes(files[t]) = SpooledBytes(files[t] \ {f}) + Size[f]
        /\ SpooledBytes(files[t] \ {f}) \in Nat /\ Size[f] \in Nat
    BY <1>0, <2>2, BytesWithout, BytesRemoved
  <2>5. total'[t] = SpooledBytes(files[t] \ {f})
    BY <1>0, <2>2, <2>3, <2>4 DEF Monus
  <2>6. \A g \in Oldest(files[t]) : g = f
    BY <1>0, OneOldest
  <2>7. Oldest(files[t])' = Oldest(files[t])
    BY <2>2 DEF Oldest
  <2> QED
    BY <2>2, <2>5, <2>6, <2>7 DEF ExactTotal, SpooledBytes, Bytes
<1>11. CASE ByteEvict(t)
  <2>1. PICK f \in Oldest(files[t]) : Unlinked(t, f) /\ files'[t] = files[t] \ {f}
    BY <1>0, <1>11 DEF ByteEvict, TypeOK
  <2>2. /\ pc'[t] = "bytes" /\ total'[t] = SpooledBytes(files[t] \ {f})
    BY <1>0, <1>11 DEF ByteEvict, ExactTotal, TypeOK
  <2>3. Listed \ {f} \subseteq Listed'
    BY <1>0, <2>1 DEF Unlinked, Listed, Oldest, TypeOK
  <2>4. SpooledBytes(files[t])' = SpooledBytes(files[t] \ {f})
    BY <2>1 DEF SpooledBytes, Bytes
  <2>5. files'[t] \subseteq Listed'
    BY <1>0, <2>1, <2>3 DEF ExactTotal
  <2> QED
    BY <2>2, <2>4, <2>5 DEF ExactTotal
<1>12. ASSUME NEW P, Restart(P) PROVE ExactTotal(t)'
  <2>1. CASE Owner[t] \in P
    BY <1>1, <1>12, <2>1 DEF Restart
  <2>2. CASE Owner[t] \notin P
    <3>1. /\ pc'[t] = pc[t] /\ files'[t] = files[t] /\ total'[t] = total[t] /\ Listed' = Listed
          /\ Oldest(files[t])' = Oldest(files[t])
      BY <1>12, <2>2 DEF Restart, Listed, Oldest
    <3> QED
      BY <1>0, <3>1 DEF ExactTotal, SpooledBytes, Bytes
  <2> QED
    BY <2>1, <2>2
<1>13. CASE UNCHANGED vars
  <2>1. /\ pc'[t] = pc[t] /\ files'[t] = files[t] /\ total'[t] = total[t] /\ Listed' = Listed
        /\ Oldest(files[t])' = Oldest(files[t])
    BY <1>13 DEF vars, Listed, Oldest
  <2> QED
    BY <1>0, <2>1 DEF ExactTotal, SpooledBytes, Bytes
<1>14. \A u \in Thread : u = t
  BY DEF OneThread
<1>15. ASSUME EnqueueStep(t) PROVE ExactTotal(t)'
  BY <1>3, <1>4, <1>5, <1>6, <1>7, <1>8, <1>9, <1>10, <1>11, <1>15 DEF EnqueueStep
<1> QED
  BY <1>2, <1>12, <1>13, <1>14, <1>15 DEF Next, Crash, PowerLoss, ConsumerRemove

(* The only report that a call alone can find oldest and be is one that is  *)
(* the last of its listing: the count, at least one, is then met, and its   *)
(* bytes are all there is (spool.rs:173-190).                               *)
LEMMA OwnEvictionStep ==
  ASSUME AloneInv, OnlyOversizeEvictsItself, [Next]_vars, OneThread, MaxReports > 0
  PROVE  OnlyOversizeEvictsItself'
<1> USE DEF disk, local, names, Goto
<1>0. TypeOK /\ OneThreadEach /\ SpoolInv /\ NamesInv
  BY DEF SpoolInv, AloneInv
<1>1. ASSUME NEW t \in Thread, CountEvict(t) \/ ByteEvict(t), cur[t] \in Oldest(files[t])
      PROVE  Size[cur[t]] > MaxBytes
  <2>1. /\ Busy(t) /\ cur[t] \in Report /\ files[t] \in SUBSET Report /\ cur[t] \in files[t]
        /\ NewestName(t) /\ ExactTotal(t)
    BY <1>0, <1>1 DEF CountEvict, ByteEvict, Busy, Oldest, TypeOK, AloneInv
  <2>2. \A r \in files[t] : r \in Oldest(files[t])
    <3> SUFFICES ASSUME NEW r \in files[t], NEW q \in files[t] PROVE Earlier(stamp[r], stamp[q])
      BY DEF Oldest
    <3>1. /\ Seen(r) /\ Seen(q) /\ r \in Report /\ q \in Report
          /\ Earlier(stamp[cur[t]], stamp[q])
      BY <1>0, <1>1, <2>1 DEF NamesInv, Oldest
    <3>2. result[r] # "none" /\ result[q] # "none" /\ result[cur[t]] # "none"
      BY <1>0, <2>1, <3>1 DEF Seen, SpoolInv, SpooledWhole, OneThreadEach
    <3>3. Earlier(stamp[r], stamp[cur[t]])
      BY <2>1, <3>1, <3>2 DEF NewestName
    <3>4. /\ stamp[r] \in (0 .. MaxClock) \X Nat /\ stamp[q] \in (0 .. MaxClock) \X Nat
          /\ stamp[cur[t]] \in (0 .. MaxClock) \X Nat
      BY <1>0, <2>1, <3>1, <3>2 DEF NamesInv, Stamp
    <3> QED
      BY <3>1, <3>3, <3>4, SpoolAssumption DEF Earlier
  <2>3. files[t] = {cur[t]}
    BY <1>0, <1>1, <2>1, <2>2, OneOldest
  <2>4. pc[t] = "unlink"
    <3>1. Cardinality(files[t]) = 1
      BY <2>3, FS_Singleton, Zenon
    <3>2. CountMet(files[t])
      BY <3>1, SpoolAssumption DEF CountMet
    <3> QED
      BY <1>1, <3>2 DEF CountEvict, ByteEvict
  <2>5. SpooledBytes(files[t]) > MaxBytes
    BY <2>1, <2>4 DEF ExactTotal
  <2>6. SpooledBytes(files[t]) = Size[cur[t]]
    <3>1. SpooledBytes(files[t]) = SpooledBytes(files[t] \ {cur[t]}) + Size[cur[t]]
      BY <2>1, BytesWithout
    <3>2. SpooledBytes(files[t] \ {cur[t]}) = 0
      <4>1. files[t] \ {cur[t]} = {}
        BY <2>3
      <4>2. SpooledBytes({}) = 0
        BY FewerBytes
      <4> QED
        BY <4>1, <4>2, Zenon
    <3> QED
      BY <2>1, <3>1, <3>2, SpoolAssumption
  <2> QED
    BY <2>5, <2>6
<1>2. ASSUME NEW t \in Thread, CountEvict(t) \/ ByteEvict(t) PROVE OnlyOversizeEvictsItself'
  <2>1. PICK f \in Oldest(files[t]) : Unlinked(t, f)
    BY <1>2 DEF CountEvict, ByteEvict
  <2>2. f \in Report /\ \A r \in Report : fate'[r] = fate[r] \/ (r = f /\ fate'[r] = cur[t])
    BY <1>0, <2>1 DEF Unlinked, Oldest, TypeOK
  <2> QED
    BY <1>1, <1>2, <2>2 DEF OnlyOversizeEvictsItself
<1>3. ASSUME NEW t \in Thread, EnqueueStep(t), ~ CountEvict(t), ~ ByteEvict(t)
      PROVE  UNCHANGED fate
  BY <1>3 DEF EnqueueStep, Create, Write, Sync, Rename, WriteError, ListForCount, ListForSum,
     SumFile, SumVanished, ListForBytes, ByteStat, Return, ListError
<1>4. ASSUME NEW r \in Report, ConsumerRemove(r) PROVE OnlyOversizeEvictsItself'
  BY <1>0, <1>4, SpoolAssumption DEF ConsumerRemove, OnlyOversizeEvictsItself, TypeOK
<1>5. ASSUME UNCHANGED fate PROVE OnlyOversizeEvictsItself'
  BY <1>0, <1>5 DEF OnlyOversizeEvictsItself
<1> QED
  BY <1>2, <1>3, <1>4, <1>5 DEF Next, Crash, PowerLoss, Restart, Begin, vars

\* At the start nothing is named, and nothing to be summed.
LEMMA AloneInit == Init => AloneInv
<1> SUFFICES ASSUME Init PROVE \A t \in Thread : NewestName(t) /\ ExactTotal(t)
  BY SpoolInit, NamesInit DEF AloneInv
<1> QED
  BY DEF Init, NewestName, ExactTotal

\* The one thread keeps its names in order and its total exact.
LEMMA AloneStep ==
  ASSUME OneThread, Env \cap {"take", "clock", "io_list"} = {}
  PROVE  AloneInv /\ [Next]_vars => AloneInv'
<1> SUFFICES ASSUME AloneInv, [Next]_vars PROVE AloneInv'
  OBVIOUS
<1>1. [AnyNext]_vars /\ SpoolInv /\ NamesInv
  BY NextIsAny DEF AloneInv
<1>2. SpoolInv'
  BY <1>1, TypeStep, InvStep DEF SpoolInv
<1>3. NamesInv'
  BY <1>1, <1>2, NamesStep
<1>4. \A t \in Thread : NewestName(t)' /\ ExactTotal(t)'
  BY <1>2, NewestNameStep, ExactTotalStep
<1> QED
  BY <1>2, <1>3, <1>4 DEF AloneInv

(* A single writer, whose clock does not go back, whose directory is used   *)
(* by no consumer and can be listed, evicts its own report only when that   *)
(* alone exceeds the budget on the bytes, whatever else fails and whatever  *)
(* is killed (spool.rs:169-191).                                            *)
THEOREM SmallReportsSurvive ==
  ASSUME OneThread, MaxReports > 0, Env \cap {"take", "clock", "io_list"} = {}
  PROVE  Spec => []OnlyOversizeEvictsItself
<1>1. Init => AloneInv /\ OnlyOversizeEvictsItself
  BY AloneInit, SpoolAssumption DEF Init, OnlyOversizeEvictsItself
<1>2. /\ AloneInv /\ OnlyOversizeEvictsItself /\ [Next]_vars
      => AloneInv' /\ OnlyOversizeEvictsItself'
  BY AloneStep, OwnEvictionStep
<1> QED
  BY <1>1, <1>2, PTL DEF Spec

(***************************************************************************)
(* One writer sees a bounded queue.                                        *)
(***************************************************************************)

\* A call alone evicts from all that is spooled, where no removal fails (spool.rs:172-190).
LEMMA WholeListingStep ==
  ASSUME SpoolInv, [Next]_vars, NEW t \in Thread, WholeListing(t), OneThread,
         "take" \notin Env, "io_remove" \notin Env
  PROVE  WholeListing(t)'
<1> USE DEF disk, local, names, Goto
<1>0. TypeOK /\ OneThreadEach /\ SpooledWhole
  BY DEF SpoolInv
<1>1. CASE pc'[t] \notin {"count", "bytes", "unlink"}
  BY <1>1 DEF WholeListing
<1>2. CASE ListForCount(t) \/ ListForBytes(t)
  BY <1>0, <1>2 DEF ListForCount, ListForBytes, WholeListing, Listed, TypeOK
<1>3. CASE CountEvict(t) \/ ByteEvict(t)
  <2>1. PICK f \in Oldest(files[t]) : Unlinked(t, f) /\ files'[t] = files[t] \ {f}
    BY <1>0, <1>3 DEF CountEvict, ByteEvict, TypeOK
  <2>2. files[t] = Listed /\ f \in Listed
    BY <1>3, <2>1 DEF CountEvict, ByteEvict, WholeListing, Oldest
  <2>3. Listed' = Listed \ {f}
    BY <1>0, <2>1, <2>2 DEF Unlinked, Listed, TypeOK
  <2> QED
    BY <2>1, <2>2, <2>3 DEF WholeListing
<1>4. CASE ByteStat(t)
  BY <1>4 DEF ByteStat, WholeListing, Listed
<1>5. CASE \/ Create(t) \/ Write(t) \/ Sync(t) \/ Rename(t) \/ WriteError(t) \/ ListForSum(t)
           \/ SumFile(t) \/ SumVanished(t) \/ Return(t) \/ ListError(t)
  BY <1>0, <1>1, <1>5 DEF Create, Write, Sync, Rename, WriteError, ListForSum, SumFile,
     SumVanished, Return, ListError, Finish, TypeOK
<1>6. ASSUME NEW r \in Report, Begin(t, r) PROVE WholeListing(t)'
  BY <1>0, <1>1, <1>6 DEF Begin, TypeOK
<1>7. ASSUME NEW P, Restart(P) PROVE WholeListing(t)'
  BY <1>7 DEF Restart, WholeListing, Listed
<1>8. CASE UNCHANGED vars
  BY <1>8 DEF vars, WholeListing, Listed
<1>9. \A u \in Thread : u = t
  BY DEF OneThread
<1>10. ASSUME EnqueueStep(t) PROVE WholeListing(t)'
  BY <1>2, <1>3, <1>4, <1>5, <1>10 DEF EnqueueStep
<1> QED
  BY <1>6, <1>7, <1>8, <1>9, <1>10 DEF Next, Crash, PowerLoss, ConsumerRemove

\* Of two names one is the earlier, and not both (spool.rs:195-205).
LEMMA NamesOrdered ==
  ASSUME NEW a \in Stamp, NEW b \in Stamp, a # b
  PROVE  Earlier(a, b) <=> ~ Earlier(b, a)
BY SpoolAssumption DEF Stamp, Earlier

\* A report that is renamed into the spool joins at the tail (spool.rs:122).
LEMMA RenamePuts ==
  ASSUME AloneInv, AloneInv', NEW t \in Thread, Rename(t)
  PROVE  Queue!Put(cur[t])
<1>0. SpoolInv /\ NewestName(t) /\ TypeOK /\ OneThreadEach /\ Progress /\ SpooledWhole
      /\ SpoolInv' /\ NamesInv'
  BY DEF AloneInv, SpoolInv
<1> DEFINE r == cur[t]
<1>1. r \in Report /\ r \notin Listed /\ Busy(t)
  BY <1>0 DEF Rename, OneThreadEach, Busy, Progress, Writing, Listed, TypeOK
<1>2. Listed' = Listed \cup {r} /\ stamp' = stamp
  BY <1>0, <1>1 DEF Rename, Listed, names, TypeOK
<1>3. \A q \in Listed : Earlier(stamp[q], stamp[r])
  BY <1>0, <1>1 DEF NewestName, SpooledWhole, Listed
<1>4. ASSUME NEW q \in Listed PROVE ~ Earlier(stamp[r], stamp[q])
  <2>1. q \in Listed' /\ r \in Listed' /\ q # r /\ q \in Report
    BY <1>1, <1>2 DEF Listed
  <2>2. result'[q] # "none" /\ result'[r] # "none"
    BY <1>0, <1>1, <2>1 DEF SpoolInv, SpooledWhole, Listed
  <2>3. stamp'[q] \in Stamp /\ stamp'[r] \in Stamp /\ stamp'[q] # stamp'[r]
    BY <1>0, <1>1, <2>1, <2>2 DEF NamesInv
  <2> QED
    BY <1>2, <1>3, <2>3, NamesOrdered
<1> HIDE DEF r
<1>5. ByName' = ByName \cup Listed \X {r}
  BY <1>1, <1>2, <1>3, <1>4 DEF ByName
<1> QED
  BY <1>1, <1>2, <1>5 DEF Queue!Put, r

\* The queue counts as the spool does.
LEMMA QueueCounts == \A S : Queue!Cardinality(S) = Cardinality(S)
BY Zenon DEF Queue!Cardinality, Cardinality

\* The oldest of all that is spooled leaves at the head (spool.rs:170-190).
LEMMA EvictionTakesHead ==
  ASSUME SpoolInv, NamesInv, NEW f \in Oldest(Listed), Listed' = Listed \ {f}, stamp' = stamp,
         Queue!OverBudget
  PROVE  Queue!EvictOldest
<1>1. f \in Listed /\ \A q \in Listed : Earlier(stamp[f], stamp[q])
  BY DEF Oldest
<1>2. f \in Queue!Head
  BY <1>1 DEF Queue!Head, ByName
<1>3. ByName' = ByName \cap (Listed' \X Listed')
  BY DEF ByName
<1> QED
  BY <1>2, <1>3 DEF Queue!EvictOldest

\* A step of the one writer is a step of the queue or none.
LEMMA QueueStep ==
  ASSUME AloneInv, AloneInv', \A t \in Thread : WholeListing(t), [Next]_vars, OneThread,
         "take" \notin Env, "io_remove" \notin Env
  PROVE  [Queue!Next]_<<Listed, ByName>>
<1> USE DEF disk, local, names
<1>0. SpoolInv /\ NamesInv /\ TypeOK /\ SpooledWhole
  BY DEF AloneInv, SpoolInv
<1>1. ASSUME UNCHANGED at, \A r \in Listed : stamp'[r] = stamp[r]
      PROVE  UNCHANGED <<Listed, ByName>>
  BY <1>1 DEF Listed, ByName
<1>2. ASSUME NEW t \in Thread, NEW r \in Report, Begin(t, r)
      PROVE  UNCHANGED at /\ \A q \in Listed : stamp'[q] = stamp[q]
  BY <1>0, <1>2 DEF Begin, FileStamp, SpooledWhole, Listed
<1>3. ASSUME NEW t \in Thread, CountEvict(t) \/ ByteEvict(t) PROVE Queue!EvictOldest
  <2>1. PICK f \in Oldest(files[t]) : Unlinked(t, f) /\ stamp' = stamp
    BY <1>3 DEF CountEvict, ByteEvict
  <2>2. files[t] = Listed /\ ExactTotal(t) /\ f \in Oldest(Listed) /\ f \in Listed
    BY <1>3, <2>1 DEF CountEvict, ByteEvict, WholeListing, AloneInv, Oldest
  <2>3. Listed' = Listed \ {f}
    BY <1>0, <2>1, <2>2 DEF Unlinked, Listed, TypeOK
  <2>4. CASE CountEvict(t)
    <3>1. ~ (Cardinality(Listed) <= MaxReports) /\ Cardinality(Listed) \in Nat
      BY <2>2, <2>4, ReportSets DEF CountEvict, CountMet, Listed
    <3>2. Queue!OverBudget
      BY <3>1, QueueCounts, SpoolAssumption DEF Queue!OverBudget
    <3> QED
      BY <1>0, <2>1, <2>2, <2>3, <3>2, EvictionTakesHead
  <2>5. CASE ByteEvict(t)
    <3>1. SpooledBytes(files[t]) > MaxBytes
      BY <2>2, <2>5 DEF ByteEvict, ExactTotal
    <3>2. Queue!QueuedBytes = SpooledBytes(files[t])
      BY <2>2, QueueCounts DEF Queue!QueuedBytes, SpooledBytes, Bytes
    <3>3. Queue!OverBudget
      BY <3>1, <3>2 DEF Queue!OverBudget
    <3> QED
      BY <1>0, <2>1, <2>2, <2>3, <3>3, EvictionTakesHead
  <2> QED
    BY <1>3, <2>4, <2>5
<1>4. ASSUME NEW t \in Thread, Create(t) PROVE Listed' = Listed /\ ByName' = ByName
  <2>1. cur[t] \notin Listed
    BY <1>0, <1>4 DEF Create, SpoolInv, Progress, Writing, Listed
  <2>2. Listed' = Listed /\ stamp' = stamp
    BY <1>0, <1>4, <2>1 DEF Create, Listed, TypeOK, TemporaryName
  <2> QED
    BY <2>2 DEF ByName
<1>5. ASSUME NEW t \in Thread, EnqueueStep(t) PROVE [Queue!Next]_<<Listed, ByName>>
  <2>1. CASE Rename(t)
    <3>1. cur[t] \in Report
      BY <1>0, <2>1 DEF Rename, SpoolInv, OneThreadEach, Busy, TypeOK
    <3> QED
      BY <2>1, <3>1, RenamePuts DEF Queue!Next
  <2>2. CASE CountEvict(t) \/ ByteEvict(t)
    BY <1>3, <2>2 DEF Queue!Next
  <2>3. CASE Create(t)
    BY <1>4, <2>3
  <2>4. CASE ~ Rename(t) /\ ~ CountEvict(t) /\ ~ ByteEvict(t) /\ ~ Create(t)
    <3>1. UNCHANGED <<at, stamp>>
      BY <1>5, <2>4 DEF EnqueueStep, Write, Sync, WriteError, ListForCount, ListForSum,
         SumFile, SumVanished, ListForBytes, ByteStat, Return, ListError
    <3> QED
      BY <1>1, <3>1
  <2> QED
    BY <2>1, <2>2, <2>3, <2>4
<1>6. ASSUME NEW P, Restart(P) PROVE UNCHANGED <<Listed, ByName>>
  BY <1>1, <1>6 DEF Restart
<1>7. CASE UNCHANGED vars
  BY <1>1, <1>7 DEF vars
<1> QED
  BY <1>1, <1>2, <1>5, <1>6, <1>7 DEF Next, Crash, PowerLoss, ConsumerRemove

(* A single writer sees a bounded queue: reports join at the tail, only the *)
(* oldest is evicted, and only while a budget is exceeded, whatever write   *)
(* fails and whatever is killed between any two steps.  The clock does not  *)
(* go back, the directory can be listed and has no consumer, and removing a *)
(* file that is there succeeds (spool.rs:110-191).                          *)
THEOREM OneWriterSeesAQueue ==
  ASSUME OneThread, Env \cap {"take", "clock", "io_list", "io_remove"} = {}
  PROVE  Spec => EvictsOldestFirst
<1> DEFINE Inv == AloneInv /\ \A t \in Thread : WholeListing(t)
<1>1. Init => Inv /\ Queue!Init
  BY AloneInit DEF Init, WholeListing, Queue!Init, Listed, ByName
<1>2. Inv /\ [Next]_vars => Inv'
  <2> SUFFICES ASSUME AloneInv, \A t \in Thread : WholeListing(t), [Next]_vars
               PROVE  AloneInv' /\ \A t \in Thread : WholeListing(t)'
    OBVIOUS
  <2>1. AloneInv'
    BY AloneStep
  <2> QED
    BY <2>1, WholeListingStep DEF AloneInv
<1>3. Inv /\ Inv' /\ [Next]_vars => [Queue!Next]_<<Listed, ByName>>
  BY QueueStep
<1> HIDE DEF Inv
<1> QED
  BY <1>1, <1>2, <1>3, PTL DEF Spec, EvictsOldestFirst, Queue!Spec, Queue!Queued

-----------------------------------------------------------------------------
(* The drain: one pass over the paths that it has listed, while threads go on *)
(* to enqueue.                                                                *)

InHand == dpc \in {"load", "post", "settle", "discard"}

\* The reports that the pass is done with.
Processed == (paths \ todo) \ {report}

PassShape ==
  /\ InHand <=> report # None
  /\ InHand => report \in paths \ todo
  /\ todo \subseteq paths
  /\ dpc \in {"post", "settle"} => attempt > 0
  /\ taken => dpc \in {"post", "settle"}

PathsSeen == \A r \in paths : Seen(r)

Deliveries ==
  /\ taken => accepted[report] > 0
  /\ dpc = "settle" /\ answer = "accepted" => taken
  /\ taken /\ ~ excused[report] => dpc = "settle" /\ answer = "accepted"
  /\ \A r \in Report :
       /\ accepted[r] > 1 => excused[r]
       /\ accepted[r] > 0 /\ ~ excused[r] => fate[r] # None \/ (r = report /\ taken)
       /\ accepted[r] > 0 /\ r \in todo \cup {report} =>
            excused[r] \/ (r = report /\ taken)
       /\ removal[r] = "sent" => accepted[r] > 0

DiscardsExplained ==
  "io_read" \notin Hazard =>
    /\ dpc = "discard" => Astray(report)
    /\ DroppedOnlyUnsendable

CountsAddUp ==
  /\ counts.retained = counts.rejected + counts.unreachable
  /\ counts.sent + counts.dropped + counts.retained = Cardinality(Processed)
  /\ "io_remove" \notin Env => Cardinality(Processed \cap Listed) <= counts.retained

\* The drain has not removed what it has still to settle.
Untaken ==
  /\ \A r \in todo : fate[r] # Taken
  /\ report # None => fate[report] # Taken

Given   == {r \in Processed : accepted[r] > 0}
Strayed == {r \in Processed : Astray(r)}

CountsBacked ==
  /\ counts.sent <= Cardinality(Given)
  /\ "io_read" \notin Hazard => counts.dropped <= Cardinality(Strayed)

DrainInv ==
  /\ SpoolInv /\ DrainTypeOK
  /\ PassShape /\ PathsSeen /\ Deliveries /\ DiscardsExplained /\ CountsAddUp
  /\ Untaken /\ CountsBacked

\* A step of the drain is, for the spool, a step of AnyNext or none (transport.rs:258-321).
LEMMA DrainStepsTheSpool ==
  ASSUME DrainInv, [DrainNext]_allVars
  PROVE  [AnyNext]_vars
<1> USE DEF disk, local, names, vars
<1>1. ASSUME NEW how, report \in Report, RemoveAs(how), UNCHANGED <<local, names, result>>
      PROVE  [AnyNext]_vars
  <2>1. Removal(report) \/ UNCHANGED vars
    BY <1>1 DEF RemoveAs, Removal
  <2> QED
    BY <1>1, <2>1 DEF AnyNext
<1>2. ASSUME InHand PROVE report \in Report
  BY <1>2 DEF DrainInv, PassShape, DrainTypeOK
<1>3. CASE Discard
  BY <1>1, <1>2, <1>3 DEF Discard, InHand
<1>4. CASE Settle
  <2>1. RemoveAs("sent") \/ UNCHANGED <<disk, fate>>
    BY <1>4 DEF Settle
  <2> QED
    BY <1>1, <1>2, <1>4, <2>1 DEF Settle, InHand
<1>5. CASE HostCrash
  <2>1. AnyRestart({Drainer}) /\ {Drainer} \in SUBSET Process
    BY <1>5, DrainAssumption DEF HostCrash, AnyRestart
  <2> QED
    BY <2>1 DEF AnyNext
<1>6. CASE StartPass \/ TakeNext \/ EndPass \/ Load \/ Post \/ Recover
  BY <1>6 DEF StartPass, TakeNext, EndPass, Load, Post, Recover
<1>7. CASE SpoolStep
  BY <1>7 DEF SpoolStep, AnyNext
<1>8. CASE UNCHANGED allVars
  BY <1>8 DEF allVars
<1> QED
  BY <1>3, <1>4, <1>5, <1>6, <1>7, <1>8 DEF DrainNext, DrainStep

\* What a step of the drain leaves to be known of the spool.
LEMMA SpoolPart ==
  ASSUME DrainInv, [DrainNext]_allVars
  PROVE  /\ SpoolInv'
         /\ \A r \in Report : fate[r] # None => fate'[r] = fate[r]
         /\ \A r \in Report : Seen(r) => Seen(r)'
<1>1. SpoolInv /\ [AnyNext]_vars
  BY DrainStepsTheSpool DEF DrainInv
<1>2. SpoolInv'
  BY <1>1, TypeStep, InvStep DEF SpoolInv
<1> QED
  BY <1>1, <1>2, SeenStays

\* The sets that a pass counts are finite, and no larger than the reports there are.
LEMMA ProcessedFinite ==
  ASSUME NEW S \in SUBSET Report
  PROVE  /\ IsFiniteSet(S)
         /\ Cardinality(S) \in Nat
         /\ Cardinality(S) <= Cardinality(Report)
BY SpoolAssumption, FS_Subset, FS_CardinalityType

\* What adding one report to a set of them does to its size.
LEMMA AtMostOneMore ==
  ASSUME NEW S, IsFiniteSet(S), NEW e
  PROVE  Cardinality(S \cup {e}) <= Cardinality(S) + 1
<1>1. CASE e \in S
  <2>1. S \cup {e} = S
    BY <1>1
  <2>2. Cardinality(S) \in Nat
    BY FS_CardinalityType
  <2> QED
    BY <2>1, <2>2
<1>2. CASE e \notin S
  <2>1. Cardinality(S \cup {e}) = Cardinality(S) + 1
    BY <1>2, FS_AddElement
  <2>2. Cardinality(S) \in Nat
    BY FS_CardinalityType
  <2> QED
    BY <2>1, <2>2
<1> QED
  BY <1>1, <1>2

(* A report that is put aside is one more processed report, and none that   *)
(* was counted before (transport.rs:267-319).                               *)
LEMMA OneMoreProcessed ==
  ASSUME DrainInv, InHand, UNCHANGED <<paths, todo>>, report' = None
  PROVE  /\ Processed' = Processed \cup {report}
         /\ report \in Report
         /\ Cardinality(Processed)' = Cardinality(Processed) + 1
         /\ Cardinality(Processed) + 1 <= Cardinality(Report)
<1>1. /\ report \in paths \ todo /\ report \notin Processed
      /\ paths \in SUBSET Report /\ None \notin Report
  BY SpoolAssumption DEF DrainInv, PassShape, DrainTypeOK, Processed
<1>2. Processed' = Processed \cup {report}
  BY <1>1 DEF Processed
<1>3. Processed \in SUBSET Report /\ Processed \cup {report} \in SUBSET Report
  BY <1>1 DEF Processed
<1>4. Cardinality(Processed \cup {report}) = Cardinality(Processed) + 1
  BY <1>1, <1>3, ProcessedFinite, FS_AddElement
<1>5. Cardinality(Processed \cup {report}) <= Cardinality(Report)
  BY <1>3, ProcessedFinite
<1> QED
  BY <1>1, <1>2, <1>4, <1>5

\* At the start nothing is listed, counted, sent or excused (transport.rs:258-262).
LEMMA DrainStarts == DrainInit => DrainInv
<1> SUFFICES ASSUME DrainInit PROVE DrainInv
  OBVIOUS
<1> USE SpoolAssumption, DrainAssumption DEF DrainInit
<1>1. SpoolInv
  BY SpoolInit
<1>2. Processed = {} /\ Processed \cap Listed = {}
  BY DEF Processed
<1>3. Cardinality({}) = 0 /\ Cardinality(Report) \in Nat
  BY FS_EmptySet, ProcessedFinite
<1>4. DrainTypeOK
  <2>1. NoCounts \in [Counter \cup {"retained"} -> 0 .. Cardinality(Report)]
    BY <1>3 DEF NoCounts
  <2>2. up \in BOOLEAN /\ taken \in BOOLEAN /\ excused \in [Report -> BOOLEAN]
    BY Zenon
  <2>3. attempt \in 0 .. MaxAttempts /\ accepted \in [Report -> 0 .. 2]
    OBVIOUS
  <2>4. /\ report \in Report \cup {None} /\ answer \in Answer
        /\ removal \in [Report -> {"none", "sent", "dropped"}]
    BY DEF Answer
  <2> QED
    BY <2>1, <2>2, <2>3, <2>4 DEF DrainTypeOK
<1>5. PassShape /\ PathsSeen
  BY DEF PassShape, PathsSeen, InHand
<1>6. Deliveries /\ DiscardsExplained
  BY DEF Deliveries, DiscardsExplained, DroppedOnlyUnsendable
<1>7. CountsAddUp
  BY <1>2, <1>3 DEF CountsAddUp, NoCounts, Counter
<1>8. Untaken
  BY DEF Untaken
<1>9. CountsBacked
  <2>1. Given = {} /\ Strayed = {}
    BY <1>2 DEF Given, Strayed
  <2> QED
    BY <1>3, <2>1 DEF CountsBacked, NoCounts, Counter
<1> QED
  BY <1>1, <1>4, <1>5, <1>6, <1>7, <1>8, <1>9 DEF DrainInv

\* What Classify and the bookkeeping of a retained report return (transport.rs:310-317).
LEMMA RetainCounts ==
  ASSUME NEW n \in Nat, NEW c \in [Counter \cup {"retained"} -> 0 .. n], NEW a \in Answer,
         Classify(a) # "sent",
         c.sent + c.dropped + c.retained + 1 <= n,
         c.retained = c.rejected + c.unreachable
  PROVE  /\ Retain(c, a) \in [Counter \cup {"retained"} -> 0 .. n]
         /\ Retain(c, a).retained = c.retained + 1
         /\ Retain(c, a).sent = c.sent /\ Retain(c, a).dropped = c.dropped
         /\ Retain(c, a).retained = Retain(c, a).rejected + Retain(c, a).unreachable
<1>1. Classify(a) \in {"rejected", "unreachable"}
  BY DEF Classify
<1>2. /\ c.sent \in 0 .. n /\ c.dropped \in 0 .. n /\ c.retained \in 0 .. n
      /\ c.rejected \in 0 .. n /\ c.unreachable \in 0 .. n
  BY DEF Counter
<1> QED
  BY <1>1, <1>2 DEF Retain, Counter

(* Of the reports that a pass has listed, none that has left the spool is   *)
(* listed again: the reports still to be accounted for only become fewer.   *)
LEMMA ListedShrinks ==
  ASSUME DrainInv, [DrainNext]_allVars, NEW S \in SUBSET paths
  PROVE  /\ S \cap Listed' \subseteq S \cap Listed
         /\ Cardinality(S \cap Listed') <= Cardinality(S \cap Listed)
         /\ Cardinality(S \cap Listed') \in Nat /\ Cardinality(S \cap Listed) \in Nat
<1>1. S \in SUBSET Report /\ \A r \in S : Seen(r)
  BY DEF DrainInv, DrainTypeOK, PathsSeen
<1>2. ASSUME NEW r \in S, at'[r] = "spool" PROVE at[r] = "spool"
  <2>1. r \in Report /\ fate'[r] = None
    BY <1>1, <1>2, SpoolPart DEF SpoolInv, SpooledWhole
  <2> QED
    BY <1>1, <2>1, SpoolPart DEF Seen
<1>3. S \cap Listed' \subseteq S \cap Listed
  BY <1>2 DEF Listed
<1>4. S \cap Listed \in SUBSET Report /\ S \cap Listed' \in SUBSET Report
  BY <1>1
<1>5. Cardinality(S \cap Listed') <= Cardinality(S \cap Listed)
  BY <1>3, <1>4, ProcessedFinite, FS_Subset
<1> QED
  BY <1>3, <1>4, <1>5, ProcessedFinite

\* The counts of the pass that stays where it is, while the spool moves on.
LEMMA CountsStay ==
  ASSUME DrainInv, [DrainNext]_allVars, Processed' = Processed, UNCHANGED counts
  PROVE  CountsAddUp'
<1>1. Processed \in SUBSET paths /\ CountsAddUp
  BY DEF Processed, DrainInv
<1>2. (Processed \cap Listed)' = Processed \cap Listed'
  OBVIOUS
<1>3. /\ Cardinality(Processed \cap Listed') <= Cardinality(Processed \cap Listed)
      /\ Cardinality(Processed \cap Listed') \in Nat /\ Cardinality(Processed \cap Listed) \in Nat
  BY <1>1, ListedShrinks
<1>4. counts.retained \in Nat
  BY SpoolAssumption, FS_CardinalityType DEF DrainInv, DrainTypeOK, Counter
<1> QED
  BY <1>1, <1>2, <1>3, <1>4 DEF CountsAddUp

\* While the spool moves on, or nothing does, the pass stays as it is.
LEMMA PassUntouched ==
  ASSUME DrainInv, [DrainNext]_allVars, UNCHANGED drainVars
  PROVE  (DrainTypeOK /\ PassShape /\ PathsSeen /\ Deliveries /\ DiscardsExplained /\ CountsAddUp)'
<1> USE DEF drainVars, drainLocals, history
<1>0. /\ DrainTypeOK /\ PassShape /\ PathsSeen /\ Deliveries /\ DiscardsExplained
      /\ paths \in SUBSET Report /\ report \in Report \cup {None}
  BY DEF DrainInv, DrainTypeOK
<1>1. DrainTypeOK' /\ PassShape'
  BY <1>0 DEF DrainTypeOK, PassShape, InHand
<1>2. PathsSeen'
  BY <1>0, SpoolPart DEF PathsSeen
<1>3. Deliveries'
  BY <1>0, SpoolPart DEF Deliveries
<1>4. dpc = "discard" => report \in Report
  BY <1>0 DEF PassShape, InHand
<1>5. DiscardsExplained'
  BY <1>0, <1>4, SpoolPart, SpoolAssumption DEF DiscardsExplained, DroppedOnlyUnsendable, Astray
<1>6. CountsAddUp'
  BY CountsStay DEF Processed
<1> QED
  BY <1>1, <1>2, <1>3, <1>5, <1>6

(* A pass starts on what is spooled now: those reports have not been        *)
(* removed, so the endpoint has taken none of them without an excuse        *)
(* (transport.rs:258-262).                                                  *)
LEMMA StartPassStep ==
  ASSUME DrainInv, StartPass
  PROVE  (DrainTypeOK /\ PassShape /\ PathsSeen /\ Deliveries /\ DiscardsExplained /\ CountsAddUp)'
<1> USE DEF vars, history
<1>0. /\ SpoolInv /\ DrainTypeOK /\ PassShape /\ Deliveries /\ DiscardsExplained
      /\ report = None /\ ~ taken /\ Listed \in SUBSET Report
      /\ dpc = "idle" /\ dpc' \in {"idle", "next"} /\ counts' = NoCounts
      /\ paths' \in {{}, Listed} /\ todo' = paths'
      /\ UNCHANGED <<vars, report, attempt, answer, up, history>>
  BY DEF DrainInv, PassShape, InHand, Listed, StartPass
<1>1. DrainTypeOK'
  <2>1. NoCounts \in [Counter \cup {"retained"} -> 0 .. Cardinality(Report)]
    BY SpoolAssumption, FS_CardinalityType DEF NoCounts
  <2> QED
    BY <1>0, <2>1 DEF DrainTypeOK
<1>2. PassShape' /\ PathsSeen'
  BY <1>0 DEF PassShape, InHand, PathsSeen, Seen, Listed
<1>3. \A r \in Report : r \in Listed => fate[r] = None
  BY <1>0 DEF SpoolInv, SpooledWhole, Listed
<1>4. Deliveries'
  BY <1>0, <1>3, SpoolAssumption DEF Deliveries
<1>5. DiscardsExplained'
  BY <1>0 DEF DiscardsExplained, DroppedOnlyUnsendable, Astray
<1>6. CountsAddUp'
  <2>1. Processed' = {} /\ (Processed \cap Listed)' = {}
    BY <1>0 DEF Processed
  <2> QED
    BY <1>0, <2>1, FS_EmptySet DEF CountsAddUp, NoCounts, Counter
<1> QED
  BY <1>1, <1>2, <1>4, <1>5, <1>6

\* Taking a report in hand, loading it and ending the pass count nothing (transport.rs:267-301).
LEMMA WalkStep ==
  ASSUME DrainInv, TakeNext \/ EndPass \/ Load \/ Recover
  PROVE  (DrainTypeOK /\ PassShape /\ PathsSeen /\ Deliveries /\ DiscardsExplained /\ CountsAddUp)'
<1> USE SpoolAssumption, DrainAssumption DEF vars, history, drainLocals
<1>0. SpoolInv /\ DrainTypeOK /\ PassShape /\ PathsSeen /\ Deliveries /\ DiscardsExplained
  BY DEF DrainInv
<1>1. [DrainNext]_allVars
  BY DEF DrainNext, DrainStep
<1>2. CASE TakeNext
  <2>1. PICK r \in todo : report' = r /\ todo' = todo \ {r}
    BY <1>2 DEF TakeNext, Oldest
  <2>2. r \in Report /\ r # None /\ r \in paths /\ report = None /\ ~ taken
    BY <1>0, <1>2, <2>1 DEF TakeNext, DrainTypeOK, PassShape, InHand
  <2>3. DrainTypeOK'
    BY <1>0, <1>2, <2>1, <2>2 DEF TakeNext, DrainTypeOK
  <2>4. PassShape' /\ PathsSeen'
    BY <1>0, <1>2, <2>1, <2>2 DEF TakeNext, PassShape, InHand, PathsSeen, Seen
  <2>5. Deliveries'
    BY <1>0, <1>2, <2>1, <2>2 DEF TakeNext, Deliveries
  <2>6. DiscardsExplained'
    BY <1>0, <1>2 DEF TakeNext, DiscardsExplained, DroppedOnlyUnsendable
  <2>7. Processed' = Processed
    BY <1>0, <1>2, <2>1, <2>2 DEF TakeNext, Processed, DrainTypeOK
  <2>8. CountsAddUp'
    BY <1>1, <1>2, <2>7, CountsStay DEF TakeNext
  <2> QED
    BY <2>3, <2>4, <2>5, <2>6, <2>8
<1>3. CASE EndPass \/ Recover
  <2>1. /\ dpc' = dpc \/ (dpc = "next" /\ dpc' = "idle")
        /\ up' \in BOOLEAN
        /\ UNCHANGED <<vars, drainLocals, counts, history>>
    BY <1>0, <1>3 DEF EndPass, Recover, DrainTypeOK
  <2>2. DrainTypeOK' /\ PassShape' /\ PathsSeen'
    BY <1>0, <2>1 DEF DrainTypeOK, PassShape, InHand, PathsSeen, Seen
  <2>3. Deliveries' /\ DiscardsExplained'
    BY <1>0, <2>1 DEF Deliveries, DiscardsExplained, DroppedOnlyUnsendable, Astray
  <2>4. CountsAddUp'
    BY <1>1, <2>1, CountsStay DEF Processed
  <2> QED
    BY <2>2, <2>3, <2>4
<1>4. CASE Load
  <2>1. /\ dpc = "load" /\ dpc' \in {"post", "discard"} /\ attempt' = 1
        /\ UNCHANGED <<vars, paths, todo, report, answer, counts, up, history>>
        /\ report \in paths /\ report \in Report /\ ~ taken
    BY <1>0, <1>4 DEF Load, PassShape, InHand, DrainTypeOK
  <2>2. DrainTypeOK' /\ PassShape' /\ PathsSeen'
    BY <1>0, <2>1 DEF DrainTypeOK, PassShape, InHand, PathsSeen, Seen
  <2>3. Deliveries'
    BY <1>0, <2>1 DEF Deliveries
  <2>4. DiscardsExplained'
    BY <1>0, <1>4, <2>1 DEF Load, Unsendable, PathsSeen, Seen, DiscardsExplained, DroppedOnlyUnsendable,
                            Astray, SpoolInv, TypeOK, Untaken, DrainInv
  <2>5. CountsAddUp'
    BY <1>1, <2>1, CountsStay DEF Processed
  <2> QED
    BY <2>2, <2>3, <2>4, <2>5
<1> QED
  BY <1>2, <1>3, <1>4

(* An attempt.  The endpoint has not had the report in an earlier pass      *)
(* unless that was excused, and within the pass it is counted once; only an *)
(* attempt that is not the last is followed by another                      *)
(* (transport.rs:336-374).                                                  *)
LEMMA PostStep ==
  ASSUME DrainInv, Post
  PROVE  (DrainTypeOK /\ PassShape /\ PathsSeen /\ Deliveries /\ DiscardsExplained /\ CountsAddUp)'
<1> USE SpoolAssumption, DrainAssumption DEF vars, history, drainLocals
<1>0. /\ SpoolInv /\ DrainTypeOK /\ PassShape /\ PathsSeen /\ Deliveries /\ DiscardsExplained
      /\ dpc = "post" /\ report \in Report /\ report \notin todo
      /\ UNCHANGED <<vars, paths, todo, report, counts, up, removal>>
  BY DEF DrainInv, Post, PassShape, InHand, DrainTypeOK
<1>1. PICK res \in Results(report) :
        /\ answer' = res[2]
        /\ taken' = (taken \/ res[1])
        /\ accepted' = IF res[1] /\ ~ taken
                       THEN [accepted EXCEPT ![report] = IF @ < 2 THEN @ + 1 ELSE 2]
                       ELSE accepted
        /\ excused' = IF res[1] /\ res[2] # "accepted"
                      THEN [excused EXCEPT ![report] = TRUE] ELSE excused
        /\ IF Final(res[2], attempt)
           THEN dpc' = "settle" /\ UNCHANGED attempt
           ELSE attempt' = Advance(attempt) /\ UNCHANGED dpc
  BY DEF Post
<1>2. \E hit \in BOOLEAN, a \in {"accepted", "4xx", "5xx", "error"} :
        res = <<hit, a>> /\ (a = "accepted" => hit)
  <2> DEFINE Is(hit, a) == res = <<hit, a>>
  <2>1. \/ Is(FALSE, "4xx") \/ Is(TRUE, "accepted") \/ Is(FALSE, "error")
        \/ Is(FALSE, "5xx") \/ Is(TRUE, "error") \/ Is(TRUE, "5xx")
    BY DEF Results, Proper
  <2>2. ASSUME NEW hit \in BOOLEAN, NEW a \in {"accepted", "4xx", "5xx", "error"},
               Is(hit, a), a = "accepted" => hit
        PROVE  \E h \in BOOLEAN, b \in {"accepted", "4xx", "5xx", "error"} :
                 res = <<h, b>> /\ (b = "accepted" => h)
    BY <2>2, Zenon
  <2> HIDE DEF Is
  <2> QED
    BY <2>1, <2>2, Zenon
<1>3. PICK hit \in BOOLEAN, a \in {"accepted", "4xx", "5xx", "error"} :
        res = <<hit, a>> /\ (a = "accepted" => hit)
  BY <1>2
<1>4. res[1] = hit /\ res[2] = a
  BY <1>3
<1>5. DrainTypeOK'
  <2>1. attempt' \in 0 .. MaxAttempts /\ dpc' \in {"post", "settle"} /\ attempt' > 0
    BY <1>0, <1>1, <1>4 DEF Final, Advance, DrainTypeOK, PassShape
  <2>2. accepted' \in [Report -> 0 .. 2] /\ excused' \in [Report -> BOOLEAN]
    BY <1>0, <1>1, <1>4 DEF DrainTypeOK
  <2>3. answer' \in Answer
    BY <1>1, <1>4 DEF Answer
  <2>4. taken' \in BOOLEAN /\ up' \in BOOLEAN
    BY <1>0, <1>1, <1>4 DEF DrainTypeOK
  <2> QED
    BY <1>0, <2>1, <2>2, <2>3, <2>4 DEF DrainTypeOK
<1>6. /\ dpc' \in {"post", "settle"} /\ attempt' > 0
      /\ a = "accepted" => dpc' = "settle"
  BY <1>0, <1>1, <1>4 DEF Final, Advance, DrainTypeOK, PassShape
<1>7. PassShape' /\ PathsSeen'
  BY <1>0, <1>6 DEF PassShape, InHand, PathsSeen, Seen
<1>8. Deliveries'
  <2>1. /\ taken' <=> taken \/ hit
        /\ answer' = a
        /\ \A r \in Report \ {report} : accepted'[r] = accepted[r] /\ excused'[r] = excused[r]
        /\ excused'[report] <=> excused[report] \/ (hit /\ a # "accepted")
    BY <1>0, <1>1, <1>4 DEF DrainTypeOK
  <2>2. /\ accepted[report] \in 0 .. 2
        /\ hit /\ ~ taken => accepted'[report] > 0 /\ (accepted'[report] > 1 => accepted[report] > 0)
        /\ ~ hit \/ taken => accepted'[report] = accepted[report]
    BY <1>0, <1>1, <1>4 DEF DrainTypeOK
  <2>3. \A r \in Report : accepted[r] \in Nat
    BY <1>0 DEF DrainTypeOK
  <2>4. taken => excused[report] /\ accepted[report] > 0
    BY <1>0 DEF Deliveries
  <2>5. accepted[report] > 0 => excused[report]
    BY <1>0, <2>4 DEF Deliveries
  <2>6. taken' /\ ~ excused'[report] => dpc' = "settle" /\ answer' = "accepted"
    BY <1>6, <2>1, <2>4
  <2>7. taken' => accepted'[report] > 0
    BY <2>1, <2>2, <2>4
  <2>8. \A r \in Report \ {report} :
          /\ accepted'[r] > 1 => excused'[r]
          /\ accepted'[r] > 0 /\ ~ excused'[r] => fate'[r] # None \/ (r = report' /\ taken')
          /\ accepted'[r] > 0 /\ r \in todo' \cup {report'} =>
               excused'[r] \/ (r = report' /\ taken')
          /\ removal'[r] = "sent" => accepted'[r] > 0
    BY <1>0, <2>1 DEF Deliveries
  <2>9. /\ accepted'[report] > 1 => excused'[report]
        /\ accepted'[report] > 0 => excused'[report] \/ taken'
        /\ removal'[report] = "sent" => accepted'[report] > 0
    <3>1. removal[report] = "sent" => accepted[report] > 0
      BY <1>0 DEF Deliveries
    <3> QED
      BY <1>0, <2>1, <2>2, <2>4, <2>5, <3>1
  <2> QED
    BY <1>0, <1>3, <2>1, <2>6, <2>7, <2>8, <2>9 DEF Deliveries
<1>9. DiscardsExplained'
  BY <1>0, <1>6 DEF DiscardsExplained, DroppedOnlyUnsendable, Astray
<1>10. CountsAddUp'
  <2>1. [DrainNext]_allVars /\ Processed' = Processed
    BY <1>0 DEF DrainNext, DrainStep, Processed
  <2> QED
    BY <1>0, <2>1, CountsStay
<1> QED
  BY <1>5, <1>7, <1>8, <1>9, <1>10

(* A removal by the drain: the report is gone for good, or it stays and its *)
(* next delivery is excused (transport.rs:283, 294, 307).                   *)
LEMMA RemoveAsStep ==
  ASSUME DrainInv, InHand, NEW how \in {"sent", "dropped"}, RemoveAs(how)
  PROVE  /\ report \in Report
         /\ \A r \in Report \ {report} :
              excused'[r] = excused[r] /\ removal'[r] = removal[r]
         /\ excused[report] => excused'[report]
         /\ excused'[report] \/ fate'[report] # None
         /\ removal'[report] \in {removal[report], how}
         /\ removal'[report] # removal[report] => fate[report] = None
         /\ "io_remove" \notin Env => at'[report] # "spool"
         /\ excused' \in [Report -> BOOLEAN]
         /\ removal' \in [Report -> {"none", "sent", "dropped"}]
<1>1. /\ TypeOK /\ SpooledWhole /\ DrainTypeOK /\ report \in Report /\ Seen(report)
  BY SpoolAssumption DEF DrainInv, SpoolInv, PassShape, PathsSeen, DrainTypeOK
<1>2. CASE /\ at[report] = "spool"
           /\ at' = [at EXCEPT ![report] = "none"]
           /\ fate' = [fate EXCEPT ![report] = Taken]
           /\ removal' = [removal EXCEPT ![report] = how]
           /\ UNCHANGED excused
  BY <1>1, <1>2, SpoolAssumption DEF TypeOK, SpooledWhole, DrainTypeOK
<1>3. CASE /\ at[report] # "spool" \/ "io_remove" \in Env
           /\ excused' = [excused EXCEPT ![report] = @ \/ at[report] = "spool"]
           /\ UNCHANGED <<disk, fate, removal>>
  BY <1>1, <1>3 DEF disk, Seen, DrainTypeOK
<1> QED
  BY <1>2, <1>3 DEF RemoveAs

(* A report is put aside: whatever it counts as, its file is gone or it     *)
(* counts as retained too (transport.rs:267-319).                           *)
LEMMA CountsGrow ==
  ASSUME DrainInv, InHand, [DrainNext]_allVars, UNCHANGED <<paths, todo>>, report' = None,
         counts' \in [Counter \cup {"retained"} -> Nat],
         counts'.retained = counts'.rejected + counts'.unreachable,
         counts'.sent + counts'.dropped + counts'.retained =
           counts.sent + counts.dropped + counts.retained + 1,
         \/ counts'.retained = counts.retained + 1
         \/ counts'.retained = counts.retained /\ ("io_remove" \notin Env => at'[report] # "spool")
  PROVE  CountsAddUp'
<1>1. /\ Processed' = Processed \cup {report} /\ report \in Report
      /\ Cardinality(Processed)' = Cardinality(Processed) + 1
  BY OneMoreProcessed
<1>2. /\ CountsAddUp /\ Processed \in SUBSET paths /\ Processed \in SUBSET Report
      /\ counts.retained \in Nat
  BY SpoolAssumption, FS_CardinalityType DEF DrainInv, DrainTypeOK, Processed, Counter
<1> DEFINE Left == Processed \cap Listed'
<1>3. /\ Cardinality(Left) <= Cardinality(Processed \cap Listed)
      /\ Cardinality(Left) \in Nat /\ Cardinality(Processed \cap Listed) \in Nat
  BY <1>2, ListedShrinks
<1>4. /\ (Processed \cap Listed)' \subseteq Left \cup {report}
      /\ at'[report] # "spool" => (Processed \cap Listed)' = Left
  BY <1>1 DEF Listed
<1>5. /\ Left \in SUBSET Report /\ Left \cup {report} \in SUBSET Report
      /\ (Processed \cap Listed)' \in SUBSET Report
  BY <1>1, <1>2, <1>4
<1>6. Cardinality(Left \cup {report}) <= Cardinality(Left) + 1
  BY <1>5, ProcessedFinite, AtMostOneMore
<1>7. /\ Cardinality((Processed \cap Listed)') <= Cardinality(Left \cup {report})
      /\ Cardinality((Processed \cap Listed)') \in Nat /\ Cardinality(Left \cup {report}) \in Nat
  BY <1>4, <1>5, ProcessedFinite, FS_Subset
<1>8. "io_remove" \notin Env => Cardinality((Processed \cap Listed)') <= counts'.retained
  <2> SUFFICES ASSUME "io_remove" \notin Env
               PROVE  Cardinality((Processed \cap Listed)') <= counts'.retained
    OBVIOUS
  <2>1. Cardinality(Left) <= counts.retained
    <3> HIDE DEF Left
    <3> QED
      BY <1>2, <1>3 DEF CountsAddUp
  <2>2. CASE counts'.retained = counts.retained + 1
    <3> HIDE DEF Left
    <3> QED
      BY <1>2, <1>3, <1>6, <1>7, <2>1, <2>2
  <2>3. CASE counts'.retained = counts.retained /\ at'[report] # "spool"
    <3>1. (Processed \cap Listed)' = Left
      BY <1>4, <2>3
    <3> HIDE DEF Left
    <3> QED
      BY <2>1, <2>3, <3>1
  <2> QED
    BY <2>2, <2>3
<1> QED
  BY <1>1, <1>2, <1>8 DEF CountsAddUp

(* What a report that is put aside leaves behind, once its delivery in this *)
(* pass is excused or its file is gone (transport.rs:267-319).              *)
LEMMA PutAsideStep ==
  ASSUME DrainInv, InHand, [DrainNext]_allVars, PutAside("next"),
         UNCHANGED <<paths, todo, up, accepted>>,
         counts' \in [Counter \cup {"retained"} -> 0 .. Cardinality(Report)],
         excused' \in [Report -> BOOLEAN],
         removal' \in [Report -> {"none", "sent", "dropped"}],
         \A r \in Report \ {report} : excused'[r] = excused[r] /\ removal'[r] = removal[r],
         excused[report] => excused'[report],
         taken => excused'[report] \/ fate'[report] # None,
         removal'[report] = "sent" => accepted[report] > 0
  PROVE  (DrainTypeOK /\ PassShape /\ PathsSeen /\ Deliveries)'
<1> USE SpoolAssumption, DrainAssumption
<1>0. /\ DrainTypeOK /\ PassShape /\ PathsSeen /\ Deliveries
      /\ report \in Report /\ report \in paths /\ report \notin todo /\ paths \in SUBSET Report
      /\ dpc' = "next" /\ report' = None /\ attempt' = 0 /\ answer' = "none" /\ taken' = FALSE
  BY DEF DrainInv, PassShape, DrainTypeOK, PutAside
<1>1. DrainTypeOK'
  <2>1. attempt' \in 0 .. MaxAttempts /\ answer' \in Answer
    BY <1>0 DEF Answer
  <2>2. taken' \in BOOLEAN
    BY <1>0, Zenon
  <2>3. /\ report' \in Report \cup {None} /\ up' \in BOOLEAN
        /\ accepted' \in [Report -> 0 .. 2] /\ todo' \in SUBSET Report
    BY <1>0 DEF DrainTypeOK
  <2> QED
    BY <1>0, <2>1, <2>2, <2>3 DEF DrainTypeOK
<1>2. PassShape'
  BY <1>0 DEF PassShape, InHand
<1>3. PathsSeen'
  BY <1>0, SpoolPart DEF PathsSeen
<1>4. Deliveries'
  <2>1. \A r \in Report \ {report} :
          /\ accepted[r] > 1 => excused[r]
          /\ accepted[r] > 0 /\ ~ excused[r] => fate'[r] # None
          /\ accepted[r] > 0 /\ r \in todo => excused[r]
          /\ removal[r] = "sent" => accepted[r] > 0
    BY <1>0, SpoolPart DEF Deliveries
  <2>2. /\ accepted[report] > 1 => excused'[report]
        /\ accepted[report] > 0 => excused'[report] \/ fate'[report] # None
    BY <1>0, SpoolPart DEF Deliveries
  <2>3. /\ ~ taken' /\ report' \notin Report /\ todo' = todo /\ accepted' = accepted
        /\ dpc' # "settle"
    BY <1>0
  <2> QED
    BY <1>0, <2>1, <2>2, <2>3 DEF Deliveries
<1> QED
  BY <1>1, <1>2, <1>3, <1>4

\* A report that cannot be sent is removed and counted as dropped (transport.rs:279-298).
LEMMA DiscardStep ==
  ASSUME DrainInv, Discard
  PROVE  (DrainTypeOK /\ PassShape /\ PathsSeen /\ Deliveries /\ DiscardsExplained /\ CountsAddUp)'
<1> USE SpoolAssumption, DrainAssumption
<1>0. /\ DrainTypeOK /\ PassShape /\ DiscardsExplained /\ CountsAddUp /\ Deliveries
      /\ dpc = "discard" /\ InHand /\ [DrainNext]_allVars /\ RemoveAs("dropped")
      /\ PutAside("next") /\ report' = None /\ ~ taken
      /\ counts' = [counts EXCEPT !.dropped = @ + 1]
      /\ UNCHANGED <<paths, todo, up, accepted>>
  BY DEF DrainInv, Discard, InHand, DrainNext, DrainStep, PutAside, PassShape
<1>1. /\ report \in Report
      /\ Cardinality(Processed) + 1 <= Cardinality(Report)
      /\ Cardinality(Processed) \in Nat /\ Cardinality(Report) \in Nat
  <2>1. Processed \in SUBSET Report
    BY <1>0 DEF Processed, DrainTypeOK
  <2> QED
    BY <1>0, <2>1, OneMoreProcessed, ProcessedFinite
<1>2. /\ counts.sent \in Nat /\ counts.dropped \in Nat /\ counts.retained \in Nat
      /\ counts.rejected \in Nat /\ counts.unreachable \in Nat
      /\ counts.sent + counts.dropped + counts.retained + 1 <= Cardinality(Report)
  BY <1>0, <1>1 DEF DrainTypeOK, Counter, CountsAddUp
<1>3. /\ counts' \in [Counter \cup {"retained"} -> 0 .. Cardinality(Report)]
      /\ counts'.dropped = counts.dropped + 1 /\ counts'.sent = counts.sent
      /\ counts'.retained = counts.retained /\ counts'.rejected = counts.rejected
      /\ counts'.unreachable = counts.unreachable
  BY <1>0, <1>1, <1>2 DEF DrainTypeOK, Counter
<1>4. (DrainTypeOK /\ PassShape /\ PathsSeen /\ Deliveries)'
  <2>1. removal[report] = "sent" => accepted[report] > 0
    BY <1>0, <1>1 DEF Deliveries
  <2> QED
    BY <1>0, <1>1, <1>3, <2>1, RemoveAsStep, PutAsideStep
<1>5. DiscardsExplained'
  <2>1. \A r \in Report \ {report} : removal'[r] = removal[r]
    BY <1>0, RemoveAsStep
  <2>2. /\ removal'[report] \in {removal[report], "dropped"}
        /\ removal'[report] # removal[report] => fate[report] = None
    BY <1>0, RemoveAsStep
  <2>3. dpc' # "discard"
    BY <1>0 DEF PutAside
  <2> QED
    BY <1>0, <1>1, <2>1, <2>2, <2>3 DEF DiscardsExplained, DroppedOnlyUnsendable, Astray
<1>6. CountsAddUp'
  <2>1. "io_remove" \notin Env => at'[report] # "spool"
    BY <1>0, RemoveAsStep
  <2>2. counts' \in [Counter \cup {"retained"} -> Nat]
    BY <1>1, <1>3
  <2>3. counts'.sent + counts'.dropped + counts'.retained
          = counts.sent + counts.dropped + counts.retained + 1
    BY <1>2, <1>3
  <2>4. counts'.retained = counts'.rejected + counts'.unreachable
    BY <1>0, <1>3 DEF CountsAddUp
  <2> QED
    BY <1>0, <1>3, <2>1, <2>2, <2>3, <2>4, CountsGrow
<1> QED
  BY <1>4, <1>5, <1>6

(* A report that was sent is removed, and any other is retained under its   *)
(* class (transport.rs:305-318).                                            *)
LEMMA SettleStep ==
  ASSUME DrainInv, Settle
  PROVE  (DrainTypeOK /\ PassShape /\ PathsSeen /\ Deliveries /\ DiscardsExplained /\ CountsAddUp)'
<1> USE SpoolAssumption, DrainAssumption
<1>0. /\ DrainTypeOK /\ PassShape /\ DiscardsExplained /\ CountsAddUp /\ Deliveries
      /\ dpc = "settle" /\ InHand /\ [DrainNext]_allVars
      /\ PutAside("next") /\ report' = None
      /\ UNCHANGED <<paths, todo, up, accepted>>
  BY DEF DrainInv, Settle, InHand, DrainNext, DrainStep, PutAside, GoOn
<1>1. /\ report \in Report
      /\ Cardinality(Processed) + 1 <= Cardinality(Report)
      /\ Cardinality(Processed) \in Nat /\ Cardinality(Report) \in Nat
  <2>1. Processed \in SUBSET Report
    BY <1>0 DEF Processed, DrainTypeOK
  <2> QED
    BY <1>0, <2>1, OneMoreProcessed, ProcessedFinite
<1>2. /\ counts.sent \in Nat /\ counts.dropped \in Nat /\ counts.retained \in Nat
      /\ counts.rejected \in Nat /\ counts.unreachable \in Nat
      /\ counts.sent + counts.dropped + counts.retained + 1 <= Cardinality(Report)
      /\ counts.retained = counts.rejected + counts.unreachable
  BY <1>0, <1>1 DEF DrainTypeOK, Counter, CountsAddUp
<1>3. dpc' # "discard"
  BY <1>0 DEF PutAside
<1>4. CASE Classify(answer) = "sent"
  <2>0. /\ RemoveAs("sent")
        /\ counts' = [counts EXCEPT !.sent = @ + 1]
    BY <1>4 DEF Settle
  <2>1. answer = "accepted" /\ accepted[report] > 0
    BY <1>0, <1>4 DEF Classify, Deliveries
  <2>2. /\ counts' \in [Counter \cup {"retained"} -> 0 .. Cardinality(Report)]
        /\ counts'.dropped = counts.dropped /\ counts'.sent = counts.sent + 1
        /\ counts'.retained = counts.retained /\ counts'.rejected = counts.rejected
        /\ counts'.unreachable = counts.unreachable
    BY <1>0, <1>1, <1>2, <2>0 DEF DrainTypeOK, Counter
  <2>3. (DrainTypeOK /\ PassShape /\ PathsSeen /\ Deliveries)'
    BY <1>0, <2>0, <2>1, <2>2, RemoveAsStep, PutAsideStep
  <2>4. DiscardsExplained'
    <3>1. \A r \in Report : removal'[r] \in {removal[r], "sent"}
      BY <1>0, <2>0, RemoveAsStep
    <3> QED
      BY <1>0, <1>3, <3>1 DEF DiscardsExplained, DroppedOnlyUnsendable, Astray
  <2>5. CountsAddUp'
    <3>1. "io_remove" \notin Env => at'[report] # "spool"
      BY <1>0, <2>0, RemoveAsStep
    <3>2. counts' \in [Counter \cup {"retained"} -> Nat]
      BY <1>1, <2>2
    <3>3. /\ counts'.sent + counts'.dropped + counts'.retained
               = counts.sent + counts.dropped + counts.retained + 1
          /\ counts'.retained = counts'.rejected + counts'.unreachable
      BY <1>2, <2>2
    <3> QED
      BY <1>0, <2>2, <3>1, <3>2, <3>3, CountsGrow
  <2> QED
    BY <2>3, <2>4, <2>5
<1>5. CASE Classify(answer) # "sent"
  <2>0. counts' = Retain(counts, answer) /\ UNCHANGED <<disk, fate, excused, removal>>
    BY <1>5 DEF Settle
  <2>1. /\ taken => excused[report]
        /\ removal[report] = "sent" => accepted[report] > 0
    BY <1>0, <1>1, <1>5 DEF Classify, Deliveries
  <2>2. /\ counts' \in [Counter \cup {"retained"} -> 0 .. Cardinality(Report)]
        /\ counts'.retained = counts.retained + 1
        /\ counts'.sent = counts.sent /\ counts'.dropped = counts.dropped
        /\ counts'.retained = counts'.rejected + counts'.unreachable
    <3>1. /\ counts \in [Counter \cup {"retained"} -> 0 .. Cardinality(Report)]
          /\ answer \in Answer
      BY <1>0 DEF DrainTypeOK
    <3>2. PICK n \in Nat : n = Cardinality(Report)
      BY <1>1
    <3>3. /\ counts \in [Counter \cup {"retained"} -> 0 .. n]
          /\ counts.sent + counts.dropped + counts.retained + 1 <= n
      BY <1>2, <3>1, <3>2
    <3>4. /\ Retain(counts, answer) \in [Counter \cup {"retained"} -> 0 .. n]
          /\ Retain(counts, answer).retained = counts.retained + 1
          /\ Retain(counts, answer).sent = counts.sent
          /\ Retain(counts, answer).dropped = counts.dropped
          /\ Retain(counts, answer).retained
               = Retain(counts, answer).rejected + Retain(counts, answer).unreachable
      BY <1>2, <1>5, <3>1, <3>3, RetainCounts
    <3> QED
      BY <2>0, <3>2, <3>4
  <2>3. (DrainTypeOK /\ PassShape /\ PathsSeen /\ Deliveries)'
    <3>1. /\ excused \in [Report -> BOOLEAN]
          /\ removal \in [Report -> {"none", "sent", "dropped"}]
      BY <1>0 DEF DrainTypeOK
    <3> QED
      BY <1>0, <2>0, <2>1, <2>2, <3>1, PutAsideStep
  <2>4. DiscardsExplained'
    BY <1>0, <1>3, <2>0 DEF DiscardsExplained, DroppedOnlyUnsendable, Astray
  <2>5. CountsAddUp'
    <3>1. counts' \in [Counter \cup {"retained"} -> Nat]
      BY <1>1, <2>2
    <3>2. counts'.sent + counts'.dropped + counts'.retained
            = counts.sent + counts.dropped + counts.retained + 1
      BY <1>2, <2>2
    <3> QED
      BY <1>0, <2>2, <3>1, <3>2, CountsGrow
  <2> QED
    BY <2>3, <2>4, <2>5
<1> QED
  BY <1>4, <1>5

(* The host dies with its pass: what it had in hand is excused, and the     *)
(* list and the counts are gone (the host that restarts drains anew).       *)
LEMMA HostCrashStep ==
  ASSUME DrainInv, HostCrash
  PROVE  (DrainTypeOK /\ PassShape /\ PathsSeen /\ Deliveries /\ DiscardsExplained /\ CountsAddUp)'
<1> USE SpoolAssumption, DrainAssumption
<1>0. /\ DrainTypeOK /\ PassShape /\ Deliveries /\ DiscardsExplained
      /\ paths' = {} /\ todo' = {} /\ counts' = NoCounts
      /\ dpc' = "idle" /\ report' = None /\ attempt' = 0 /\ answer' = "none" /\ taken' = FALSE
      /\ UNCHANGED <<up, accepted, removal, fate>>
      /\ excused' = IF report = None THEN excused ELSE [excused EXCEPT ![report] = TRUE]
  BY DEF DrainInv, HostCrash, PutAside, Restart
<1>1. NoCounts \in [Counter \cup {"retained"} -> 0 .. Cardinality(Report)]
  BY FS_CardinalityType DEF NoCounts
<1>2. excused' \in [Report -> BOOLEAN]
  BY <1>0 DEF DrainTypeOK
<1>3. DrainTypeOK'
  <2>1. attempt' \in 0 .. MaxAttempts /\ answer' \in Answer
    BY <1>0 DEF Answer
  <2>2. taken' \in BOOLEAN
    BY <1>0, Zenon
  <2>3. /\ report' \in Report \cup {None} /\ up' \in BOOLEAN
        /\ accepted' \in [Report -> 0 .. 2]
        /\ removal' \in [Report -> {"none", "sent", "dropped"}]
    BY <1>0 DEF DrainTypeOK
  <2> QED
    BY <1>0, <1>1, <1>2, <2>1, <2>2, <2>3 DEF DrainTypeOK
<1>4. PassShape' /\ PathsSeen'
  BY <1>0 DEF PassShape, InHand, PathsSeen
<1>5. Deliveries'
  <2>1. \A r \in Report : excused'[r] <=> excused[r] \/ r = report
    BY <1>0 DEF DrainTypeOK
  <2> QED
    BY <1>0, <2>1 DEF Deliveries
<1>6. DiscardsExplained'
  BY <1>0 DEF DiscardsExplained, DroppedOnlyUnsendable, Astray
<1>7. CountsAddUp'
  <2>1. Processed' = {} /\ (Processed \cap Listed)' = {}
    BY <1>0 DEF Processed
  <2> QED
    BY <1>0, <2>1, FS_EmptySet DEF CountsAddUp, NoCounts, Counter
<1> QED
  BY <1>3, <1>4, <1>5, <1>6, <1>7

(* Only the drain takes reports out of the spool; an enqueue that evicts one *)
(* leaves its own name behind as its fate (spool.rs:174-188).               *)
LEMMA EnqueueTakesNone ==
  ASSUME DrainInv, SpoolStep, NEW r \in Report, fate'[r] = Taken
  PROVE  fate[r] = Taken
<1> USE SpoolAssumption DEF local, disk, names
<1>0. TypeOK /\ OneThreadEach
  BY DEF DrainInv, SpoolInv
<1>1. CASE \E t \in Thread, q \in Report : Begin(t, q)
  BY <1>1 DEF Begin
<1>2. ASSUME NEW t \in Thread, EnqueueStep(t) PROVE fate[r] = Taken
  <2>1. CASE CountEvict(t) \/ ByteEvict(t)
    <3>1. PICK f \in Oldest(files[t]) : Unlinked(t, f)
      BY <2>1 DEF CountEvict, ByteEvict
    <3>2. f \in Report /\ cur[t] \in Report \cup {None}
      BY <1>0, <3>1 DEF Oldest, TypeOK
    <3> QED
      BY <1>0, <3>1, <3>2 DEF Unlinked, TypeOK
  <2>2. CASE Create(t) \/ Write(t) \/ Sync(t) \/ Rename(t) \/ WriteError(t)
             \/ ListForCount(t) \/ ListForSum(t)
    BY <2>2 DEF Create, Write, Sync, Rename, WriteError, ListForCount, ListForSum
  <2>3. CASE SumFile(t) \/ SumVanished(t) \/ ListForBytes(t) \/ ByteStat(t) \/ Return(t)
             \/ ListError(t)
    BY <2>3 DEF SumFile, SumVanished, ListForBytes, ByteStat, Return, ListError
  <2> QED
    BY <1>2, <2>1, <2>2, <2>3 DEF EnqueueStep
<1> QED
  BY <1>1, <1>2 DEF SpoolStep

\* No step takes a report that the pass has still to settle (transport.rs:267-319).
LEMMA UntakenStep ==
  ASSUME DrainInv, [DrainNext]_allVars
  PROVE  Untaken'
<1> USE SpoolAssumption DEF Untaken, vars, drainLocals
<1>0. /\ Untaken /\ todo \in SUBSET Report /\ report \in Report \cup {None}
      /\ SpooledWhole /\ TypeOK
      /\ InHand => report \notin todo
  BY DEF DrainInv, DrainTypeOK, SpoolInv, PassShape
<1>1. CASE StartPass
  <2>1. report = None /\ todo' \subseteq Listed
    BY <1>1 DEF StartPass, DrainInv, PassShape, InHand
  <2> QED
    BY <1>0, <1>1, <2>1 DEF StartPass, SpooledWhole, Listed
<1>2. CASE TakeNext \/ EndPass \/ Load \/ Post \/ Recover
  BY <1>0, <1>2 DEF TakeNext, EndPass, Load, Post, Recover, Oldest
<1>3. CASE Discard \/ Settle
  <2>1. /\ report' = None /\ todo' = todo /\ report \notin todo
        /\ RemoveAs("sent") \/ RemoveAs("dropped") \/ UNCHANGED fate
    BY <1>0, <1>3 DEF Discard, Settle, PutAside, InHand
  <2>2. \A r \in todo : fate'[r] = fate[r]
    BY <1>0, <2>1 DEF RemoveAs, TypeOK
  <2> QED
    BY <1>0, <2>1, <2>2
<1>4. CASE SpoolStep \/ UNCHANGED allVars
  <2>1. UNCHANGED drainVars
    BY <1>4 DEF SpoolStep, allVars
  <2>2. \A r \in Report : fate'[r] = Taken => fate[r] = Taken
    BY <1>4, EnqueueTakesNone DEF allVars
  <2> QED
    BY <1>0, <2>1, <2>2 DEF drainVars
<1>5. CASE HostCrash
  BY <1>5 DEF HostCrash, PutAside
<1> QED
  BY <1>1, <1>2, <1>3, <1>4, <1>5 DEF DrainNext, DrainStep

(* The reports that the endpoint took and those that are lost only become   *)
(* more while a pass goes on, and the one put aside may be one of them.     *)
LEMMA BackingGrows ==
  ASSUME DrainInv, [DrainNext]_allVars, Processed \subseteq Processed',
         Processed' \in SUBSET Report,
         \A r \in Report : accepted[r] > 0 => accepted'[r] > 0
  PROVE  /\ Cardinality(Given) \in Nat /\ Cardinality(Strayed) \in Nat
         /\ Cardinality(Given') \in Nat /\ Cardinality(Strayed') \in Nat
         /\ Cardinality(Given) <= Cardinality(Given')
         /\ Cardinality(Strayed) <= Cardinality(Strayed')
         /\ \A r \in Processed' \ Processed :
              /\ accepted'[r] > 0 => Cardinality(Given) + 1 <= Cardinality(Given')
              /\ Astray(r)' => Cardinality(Strayed) + 1 <= Cardinality(Strayed')
<1>1. Processed \in SUBSET Report /\ None \notin Report
  BY SpoolAssumption DEF DrainInv, DrainTypeOK, Processed
<1>2. \A r \in Report : Astray(r) => Astray(r)'
  BY <1>1, SpoolPart DEF Astray
<1>3. Given \subseteq Given' /\ Strayed \subseteq Strayed'
  BY <1>1, <1>2 DEF Given, Strayed
<1>4. /\ Given' \in SUBSET Report /\ Strayed' \in SUBSET Report
      /\ Given \in SUBSET Report /\ Strayed \in SUBSET Report
  BY <1>1 DEF Given, Strayed
<1>5. ASSUME NEW S \in SUBSET Report, NEW T \in SUBSET Report, S \subseteq T
      PROVE  Cardinality(S) <= Cardinality(T)
  BY <1>5, ProcessedFinite, FS_Subset
<1>6. ASSUME NEW S \in SUBSET Report, NEW T \in SUBSET Report, S \subseteq T,
             NEW r \in T, r \notin S
      PROVE  Cardinality(S) + 1 <= Cardinality(T)
  <2>1. S \cup {r} \in SUBSET Report /\ S \cup {r} \subseteq T
    BY <1>6
  <2>2. Cardinality(S \cup {r}) = Cardinality(S) + 1
    BY <1>6, ProcessedFinite, FS_AddElement
  <2> QED
    BY <1>5, <2>1, <2>2
<1>7. ASSUME NEW r \in Processed' \ Processed
      PROVE  /\ accepted'[r] > 0 => Cardinality(Given) + 1 <= Cardinality(Given')
             /\ Astray(r)' => Cardinality(Strayed) + 1 <= Cardinality(Strayed')
  <2>1. r \notin Given /\ r \notin Strayed
    BY <1>7 DEF Given, Strayed
  <2>2. ASSUME accepted'[r] > 0 PROVE Cardinality(Given) + 1 <= Cardinality(Given')
    <3>1. r \in Given'
      BY <1>7, <2>2 DEF Given
    <3> QED
      BY <1>3, <1>4, <1>6, <2>1, <3>1
  <2>3. ASSUME Astray(r)' PROVE Cardinality(Strayed) + 1 <= Cardinality(Strayed')
    <3>1. r \in Strayed'
      BY <1>7, <2>3 DEF Strayed
    <3> QED
      BY <1>3, <1>4, <1>6, <2>1, <3>1
  <2> QED
    BY <2>2, <2>3
<1>8. /\ Cardinality(Given) <= Cardinality(Given')
      /\ Cardinality(Strayed) <= Cardinality(Strayed')
  BY <1>3, <1>4, <1>5
<1> QED
  BY <1>4, <1>7, <1>8, ProcessedFinite

(* What a pass counts as sent the endpoint took, and what it counts as      *)
(* dropped is lost (transport.rs:278-318).                                  *)
LEMMA CountsBackedStep ==
  ASSUME DrainInv, [DrainNext]_allVars
  PROVE  CountsBacked'
<1> USE SpoolAssumption, DrainAssumption
<1>0. /\ DrainTypeOK /\ PassShape /\ Deliveries /\ DiscardsExplained /\ CountsBacked
      /\ counts.sent \in Nat /\ counts.dropped \in Nat
      /\ paths \in SUBSET Report
  BY FS_CardinalityType DEF DrainInv, DrainTypeOK, Counter
<1>1. CASE StartPass \/ HostCrash
  <2>1. Processed' = {} /\ counts' = NoCounts
    BY <1>1 DEF StartPass, HostCrash, Processed
  <2>2. Given' = {} /\ Strayed' = {}
    BY <2>1 DEF Given, Strayed
  <2> QED
    BY <2>1, <2>2, FS_EmptySet DEF CountsBacked, NoCounts, Counter
<1>2. ASSUME UNCHANGED counts, Processed' = Processed,
             \A r \in Report : accepted[r] > 0 => accepted'[r] > 0
      PROVE  CountsBacked'
  <2>1. Processed \in SUBSET Report
    BY <1>0 DEF Processed
  <2>2. /\ Cardinality(Given) \in Nat /\ Cardinality(Strayed) \in Nat
        /\ Cardinality(Given') \in Nat /\ Cardinality(Strayed') \in Nat
        /\ Cardinality(Given) <= Cardinality(Given')
        /\ Cardinality(Strayed) <= Cardinality(Strayed')
    BY <1>2, <2>1, BackingGrows
  <2> QED
    BY <1>0, <1>2, <2>2 DEF CountsBacked
<1>3. CASE TakeNext
  <2>1. PICK r \in todo : report' = r /\ todo' = todo \ {r}
    BY <1>3 DEF TakeNext, Oldest
  <2>2. report = None /\ r \in paths
    BY <1>0, <1>3, <2>1 DEF TakeNext, PassShape, InHand
  <2>3. Processed' = Processed
    BY <1>0, <1>3, <2>1, <2>2 DEF TakeNext, Processed
  <2> QED
    BY <1>2, <1>3, <2>3 DEF TakeNext, history
<1>4. CASE EndPass \/ Load \/ Recover \/ SpoolStep \/ UNCHANGED allVars
  BY <1>2, <1>4 DEF EndPass, Load, Recover, SpoolStep, allVars, drainVars, drainLocals, history,
                    Processed
<1>5. CASE Post
  <2>1. PICK res \in Results(report) :
          accepted' = IF res[1] /\ ~ taken
                      THEN [accepted EXCEPT ![report] = IF @ < 2 THEN @ + 1 ELSE 2]
                      ELSE accepted
    BY <1>5 DEF Post
  <2>2. \A r \in Report : accepted[r] \in 0 .. 2
    BY <1>0 DEF DrainTypeOK
  <2>3. \A r \in Report : accepted[r] > 0 => accepted'[r] > 0
    BY <1>0, <2>1, <2>2 DEF DrainTypeOK
  <2> QED
    BY <1>2, <1>5, <2>3 DEF Post, Processed
<1>6. ASSUME Discard \/ Settle
      PROVE  /\ report \in Processed' \ Processed
             /\ Processed \subseteq Processed' /\ Processed' \in SUBSET Report
             /\ accepted' = accepted
  <2>1. InHand /\ UNCHANGED <<paths, todo, accepted>> /\ report' = None
    BY <1>6 DEF Discard, Settle, InHand, PutAside
  <2>2. Processed' = Processed \cup {report} /\ report \in Report
    BY <2>1, OneMoreProcessed
  <2> QED
    BY <1>0, <2>1, <2>2 DEF Processed
<1>7. ASSUME Discard \/ Settle
      PROVE  /\ Cardinality(Given) \in Nat /\ Cardinality(Strayed) \in Nat
             /\ Cardinality(Given') \in Nat /\ Cardinality(Strayed') \in Nat
             /\ Cardinality(Given) <= Cardinality(Given')
             /\ Cardinality(Strayed) <= Cardinality(Strayed')
             /\ accepted[report] > 0 => Cardinality(Given) + 1 <= Cardinality(Given')
             /\ \A r \in Report : r = report /\ Astray(r)' =>
                  Cardinality(Strayed) + 1 <= Cardinality(Strayed')
  <2>1. /\ report \in Processed' \ Processed /\ accepted' = accepted
        /\ Processed \subseteq Processed' /\ Processed' \in SUBSET Report
    BY <1>6, <1>7
  <2>2. \A r \in Report : accepted[r] > 0 => accepted'[r] > 0
    BY <2>1
  <2>3. /\ Cardinality(Given) \in Nat /\ Cardinality(Strayed) \in Nat
        /\ Cardinality(Given') \in Nat /\ Cardinality(Strayed') \in Nat
        /\ Cardinality(Given) <= Cardinality(Given')
        /\ Cardinality(Strayed) <= Cardinality(Strayed')
        /\ \A r \in Processed' \ Processed :
             /\ accepted'[r] > 0 => Cardinality(Given) + 1 <= Cardinality(Given')
             /\ Astray(r)' => Cardinality(Strayed) + 1 <= Cardinality(Strayed')
    BY <2>1, <2>2, BackingGrows
  <2> QED
    BY <2>1, <2>3
<1>8. CASE Discard
  <2>1. counts'.sent = counts.sent /\ counts'.dropped = counts.dropped + 1
    BY <1>0, <1>8 DEF Discard, DrainTypeOK, Counter
  <2>2. ASSUME "io_read" \notin Hazard, NEW r \in Report, r = report PROVE Astray(r)'
    <3>1. Astray(r) /\ r # None
      BY <1>0, <1>8, <2>2 DEF Discard, DiscardsExplained
    <3>2. fate[r] # None => fate'[r] = fate[r]
      BY SpoolPart
    <3> QED
      BY <3>1, <3>2 DEF Astray
  <2>3. report \in Report
    BY <1>6, <1>8
  <2> QED
    BY <1>0, <1>7, <1>8, <2>1, <2>2, <2>3 DEF CountsBacked
<1>9. CASE Settle /\ Classify(answer) = "sent"
  <2>1. counts'.sent = counts.sent + 1 /\ counts'.dropped = counts.dropped
    BY <1>0, <1>9 DEF Settle, DrainTypeOK, Counter
  <2>2. accepted[report] > 0
    BY <1>0, <1>9 DEF Settle, Classify, Deliveries
  <2> QED
    BY <1>0, <1>7, <1>9, <2>1, <2>2 DEF CountsBacked
<1>10. CASE Settle /\ Classify(answer) # "sent"
  <2>1. counts' = Retain(counts, answer) /\ Classify(answer) \in {"rejected", "unreachable"}
    BY <1>10 DEF Settle, Classify
  <2>2. counts'.sent = counts.sent /\ counts'.dropped = counts.dropped
    BY <1>0, <2>1 DEF Retain, DrainTypeOK, Counter
  <2> QED
    BY <1>0, <1>7, <1>10, <2>2 DEF CountsBacked
<1> QED
  BY <1>1, <1>3, <1>4, <1>5, <1>8, <1>9, <1>10 DEF DrainNext, DrainStep

\* Every step keeps the invariant.
LEMMA DrainStepKeeps == DrainInv /\ [DrainNext]_allVars => DrainInv'
<1> SUFFICES ASSUME DrainInv, [DrainNext]_allVars PROVE DrainInv'
  OBVIOUS
<1>1. SpoolInv'
  BY SpoolPart
<1>2. (DrainTypeOK /\ PassShape /\ PathsSeen /\ Deliveries /\ DiscardsExplained /\ CountsAddUp)'
  <2>1. CASE StartPass
    BY <2>1, StartPassStep
  <2>2. CASE TakeNext \/ EndPass \/ Load \/ Recover
    BY <2>2, WalkStep
  <2>3. CASE Discard
    BY <2>3, DiscardStep
  <2>4. CASE Post
    BY <2>4, PostStep
  <2>5. CASE Settle
    BY <2>5, SettleStep
  <2>6. CASE SpoolStep \/ UNCHANGED allVars
    BY <2>6, PassUntouched DEF SpoolStep, allVars
  <2>7. CASE HostCrash
    BY <2>7, HostCrashStep
  <2> QED
    BY <2>1, <2>2, <2>3, <2>4, <2>5, <2>6, <2>7 DEF DrainNext, DrainStep
<1>3. Untaken' /\ CountsBacked'
  BY UntakenStep, CountsBackedStep
<1> QED
  BY <1>1, <1>2, <1>3 DEF DrainInv

\* Every behaviour of the drain over the spool satisfies the inductive invariant.
LEMMA DrainInvariant == DrainSpec => []DrainInv
BY DrainStarts, DrainStepKeeps, PTL DEF DrainSpec

(* Type correctness of the pass; among the types, that no report is posted  *)
(* more than max_attempts times in a pass, and that no counter exceeds the  *)
(* reports there are (transport.rs:258-374).                                *)
THEOREM DrainTypeCorrect == DrainSpec => [](TypeOK /\ DrainTypeOK)
<1>1. DrainInv => TypeOK /\ DrainTypeOK
  BY DEF DrainInv, SpoolInv
<1> QED
  BY <1>1, DrainInvariant, PTL

(* A report that is removed as sent has been taken by the endpoint, through *)
(* lost, short and refused answers (transport.rs:305-309).                  *)
THEOREM RemovedBecauseTaken == DrainSpec => []SentOnlyIfAccepted
<1>1. DrainInv => SentOnlyIfAccepted
  BY DEF DrainInv, Deliveries, SentOnlyIfAccepted
<1> QED
  BY <1>1, DrainInvariant, PTL

(* A second pass posts a report that the endpoint already has only after a  *)
(* lost answer, a failed removal or a crash (transport.rs:258-321).         *)
THEOREM AtMostOncePerExcuse == DrainSpec => []NoNeedlessDuplicate
<1>1. DrainInv => NoNeedlessDuplicate
  BY DEF DrainInv, Deliveries, NoNeedlessDuplicate
<1> QED
  BY <1>1, DrainInvariant, PTL

(* Where a file that is there can be read, only reports that never parse or *)
(* never fit are removed as dropped, also when an eviction races the load.  *)
(* The premise is needed: any error of load deletes the report              *)
(* (transport.rs:279-298).                                                  *)
THEOREM NothingSendableDropped ==
  ASSUME "io_read" \notin Hazard
  PROVE  DrainSpec => []DroppedOnlyUnsendable
<1>1. DrainInv => DroppedOnlyUnsendable
  BY DEF DrainInv, DiscardsExplained
<1> QED
  BY <1>1, DrainInvariant, PTL

(* Where reading and removing a file that is there succeed, the DrainReport *)
(* of a pass that is over says of the reports it came to what became of     *)
(* them: one count for each, retained the sum of its classes, as many sent  *)
(* as the endpoint took, dropped only what is un-sendable or was evicted    *)
(* meanwhile, and no more left in the spool than were retained              *)
(* (transport.rs:258-321).                                                  *)
THEOREM DrainReportIsTrue ==
  ASSUME "io_read" \notin Hazard, "io_remove" \notin Env
  PROVE  DrainSpec => []ReportIsHonest
<1>1. DrainInv => ReportIsHonest
  <2> SUFFICES ASSUME DrainInv, dpc = "idle"
               PROVE  /\ counts.retained = counts.rejected + counts.unreachable
                      /\ counts.sent + counts.dropped + counts.retained = Cardinality(paths \ todo)
                      /\ counts.sent <= Cardinality({r \in paths \ todo : accepted[r] > 0})
                      /\ counts.dropped <= Cardinality({r \in paths \ todo : Astray(r)})
                      /\ Cardinality((paths \ todo) \cap Listed) <= counts.retained
    BY DEF ReportIsHonest
  <2>1. report = None /\ paths \in SUBSET Report
    BY DEF DrainInv, PassShape, InHand, DrainTypeOK
  <2>2. Processed = paths \ todo
    BY <2>1, SpoolAssumption DEF Processed
  <2> QED
    BY <2>2 DEF DrainInv, CountsAddUp, CountsBacked, Given, Strayed
<1> QED
  BY <1>1, DrainInvariant, PTL

(* What the spool guarantees holds with the drain at work: a listed file is *)
(* whole, and the store is still atomic (spool.rs:110-133).                 *)
THEOREM DrainedSpoolIsAtomic == DrainSpec => []ListedComplete /\ AtomicStore
<1>1. DrainInv => ListedComplete
  BY DEF DrainInv, SpoolInv, SpooledWhole, ListedComplete, Listed
<1>2. DrainInit => Store!Init
  BY InitRefines DEF DrainInit
<1>3. DrainInv /\ DrainInv' /\ [DrainNext]_allVars => [Store!Next]_StatusBar
  BY DrainStepsTheSpool, StepRefines DEF DrainInv
<1>4. DrainSpec => Store!Init /\ [][Store!Next]_StatusBar
  BY <1>2, <1>3, DrainInvariant, PTL DEF DrainSpec
<1> QED
  BY <1>1, <1>4, DrainInvariant, PTL DEF AtomicStore, Store!Spec, StatusBar

(* Both budgets hold with the drain at work, which removes reports, puts    *)
(* them aside and may die between any two steps, where removing a file that *)
(* is there succeeds (spool.rs:169-191, transport.rs:258-321).              *)
THEOREM DrainedSpoolKeepsBudgets ==
  ASSUME "io_remove" \notin Env
  PROVE  DrainSpec => [](AcknowledgedWithinCount /\ BudgetAtRest)
<1>1. DrainInit => CountInv /\ BytesInv
  BY CountInit, BytesInit DEF DrainInit
<1>2. DrainInv /\ CountInv /\ BytesInv /\ [DrainNext]_allVars => (CountInv /\ BytesInv)'
  BY DrainStepsTheSpool, BudgetStep
<1>3. CountInv /\ BytesInv => AcknowledgedWithinCount /\ BudgetAtRest
  BY AcknowledgedFit, RestFits
<1> QED
  BY <1>1, <1>2, <1>3, DrainInvariant, PTL DEF DrainSpec
=============================================================================
