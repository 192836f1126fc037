------------------------- MODULE CrashMonitorProofs -------------------------
(* Proofs about CrashMonitor, for any hosts, monitors and failures: a raw     *)
(* dump and its spooled copy are never both on disk, and the exit code of a   *)
(* monitor can be believed.                                                   *)
EXTENDS CrashMonitor, TLAPS

\* Where a monitor is tells what it can have on disk and what it has recorded.
Stage(m) ==
    /\ mon[m] \in {"unborn", "starting", "serving"} =>
          m \notin raw /\ m \notin saved /\ told[m] = None
    /\ mon[m] \in {"writing", "written", "read", "minimized"} =>
          m \notin saved /\ told[m] = None
    /\ mon[m] = "deleted" => m \notin raw /\ m \notin saved /\ told[m] = None
    /\ mon[m] \in {"acking", "leaving"} => told[m] # None

\* What a monitor has recorded tells what is on disk.
Disk(m) ==
    /\ told[m] = "written" => m \in saved
    /\ told[m] \in SaysNothingSaved => m \notin saved
    /\ m \in saved => m \notin raw
    /\ mon[m] \in {"acking", "leaving"} /\ m \in raw => told[m] \in Failed \ {"unsaved"}

\* What a monitor that ended by itself had recorded.
Ended(m) ==
    /\ exit[m] # None => mon[m] = "gone"
    /\ exit[m] = 0 => told[m] = "written"
    /\ exit[m] # None /\ told[m] = None => m \notin raw /\ m \notin saved
    /\ exit[m] # None /\ m \in raw => told[m] \in Failed \ {"unsaved"}
    /\ exit[m] = 2 => told[m] \in Failed

Sound(m) == Stage(m) /\ Disk(m) /\ Ended(m)

\* The inductive invariant.
CrashInv == TypeOK /\ \A m \in Monitor : Sound(m)

-----------------------------------------------------------------------------

\* The initial states satisfy the invariant: no monitor has been spawned.
LEMMA CrashInit == Init => CrashInv
<1> SUFFICES ASSUME Init PROVE CrashInv
  OBVIOUS
<1>1. TypeOK
  BY DEF Init, TypeOK, HostState, FaultState, MonState
<1>2. \A m \in Monitor : Sound(m)
  BY CaptureAssumption
  DEF Init, Sound, Stage, Disk, Ended, Outcome, Failed, SaysNothingSaved, Code
<1> QED
  BY <1>1, <1>2 DEF CrashInv

\* A step of a host keeps the types.  It touches no dump and no outcome.
LEMMA HostTypes ==
    ASSUME TypeOK, NEW h \in Host, HostStep(h)
    PROVE  TypeOK'
<1> USE DEF TypeOK, HostState, FaultState, MonState, hostVars, dumpVars
<1>1. ASSUME NEW m \in Monitor, SpawnMonitor(h, m) PROVE TypeOK'
  BY <1>1 DEF SpawnMonitor
<1>2. CASE Connect(h)
  BY <1>2 DEF Connect
<1>3. CASE ArmError(h)
  BY <1>3 DEF ArmError
<1>4. CASE Attach(h)
  BY <1>4 DEF Attach
<1>5. CASE DropKill(h)
  BY <1>5 DEF DropKill, Killed
<1>6. CASE DropHandler(h)
  BY <1>6 DEF DropHandler
<1>7. CASE Fault(h)
  BY <1>7 DEF Fault
<1>8. CASE FaultLost(h)
  BY <1>8 DEF FaultLost
<1>9. CASE HostEnds(h)
  BY <1>9 DEF HostEnds
<1> QED
  BY <1>1, <1>2, <1>3, <1>4, <1>5, <1>6, <1>7, <1>8, <1>9 DEF HostStep

\* A step of a monitor keeps the types.
LEMMA MonitorTypes ==
    ASSUME TypeOK, NEW m \in Monitor, Bind(m) \/ Capture(m) \/ ServerFails(m) \/ MonitorKilled(m)
    PROVE  TypeOK'
<1> USE DEF TypeOK, HostState, FaultState, MonState, Outcome, Failed, Code,
            hostVars, dumpVars
<1>1. CASE Bind(m)
  BY <1>1 DEF Bind
<1>2. ASSUME NEW h \in Host, CreateFile(m, h) PROVE TypeOK'
  BY <1>2 DEF CreateFile, Record
<1>3. CASE WriteDump(m)
  BY <1>3 DEF WriteDump, Record
<1>4. CASE ReadRaw(m)
  BY <1>4 DEF ReadRaw, BestEffortDelete, Record
<1>5. CASE Minimize(m)
  BY <1>5 DEF Minimize, BestEffortDelete, Record
<1>6. CASE DeleteRaw(m)
  BY <1>6 DEF DeleteRaw, Record
<1>7. CASE SpoolDump(m)
  BY <1>7 DEF SpoolDump, Record
<1>8. CASE Ack(m)
  BY <1>8 DEF Ack, Waiting
<1>9. CASE Leave(m)
  BY <1>9 DEF Leave, ExitCode
<1>10. CASE MonitorKilled(m)
  BY <1>10 DEF MonitorKilled, Killed
<1>11. CASE ServerFails(m)
  BY <1>11 DEF ServerFails
<1> QED
  BY <1>1, <1>2, <1>3, <1>4, <1>5, <1>6, <1>7, <1>8, <1>9, <1>10, <1>11 DEF Capture

\* What a host does to a monitor is to spawn it or to kill it: the invariant has
\* nothing to say of a killed monitor but what its dump and outcome already say.
LEMMA HostKeeps ==
    ASSUME CrashInv, NEW h \in Host, HostStep(h)
    PROVE  \A n \in Monitor : Sound(n)'
<1>1. UNCHANGED <<dumpVars, exit>>
  BY DEF HostStep, SpawnMonitor, Connect, ArmError, Attach, DropKill, DropHandler,
         Fault, FaultLost, HostEnds
<1>2. \A n \in Monitor : \/ mon'[n] = mon[n]
                         \/ mon'[n] = "gone"
                         \/ mon[n] = "unborn" /\ mon'[n] = "starting"
  BY DEF CrashInv, TypeOK, HostStep, SpawnMonitor, Connect, ArmError, Attach,
         DropKill, Killed, DropHandler, Fault, FaultLost, HostEnds
<1> QED
  BY <1>1, <1>2 DEF CrashInv, Sound, Stage, Disk, Ended, dumpVars

\* A step of a monitor touches no other monitor's dump, outcome or exit code.
LEMMA OneMonitorSteps ==
    ASSUME TypeOK, NEW m \in Monitor, Bind(m) \/ Capture(m) \/ ServerFails(m) \/ MonitorKilled(m)
    PROVE  \A n \in Monitor \ {m} :
              /\ mon'[n] = mon[n] /\ told'[n] = told[n] /\ exit'[n] = exit[n]
              /\ n \in raw' <=> n \in raw
              /\ n \in saved' <=> n \in saved
<1> USE DEF TypeOK, hostVars, dumpVars
<1>1. CASE Bind(m)
  BY <1>1 DEF Bind
<1>2. ASSUME NEW h \in Host, CreateFile(m, h)
      PROVE  \A n \in Monitor \ {m} :
                /\ mon'[n] = mon[n] /\ told'[n] = told[n] /\ exit'[n] = exit[n]
                /\ n \in raw' <=> n \in raw
                /\ n \in saved' <=> n \in saved
  BY <1>2 DEF CreateFile, Record
<1>3. CASE WriteDump(m)
  BY <1>3 DEF WriteDump, Record
<1>4. CASE ReadRaw(m)
  BY <1>4 DEF ReadRaw, BestEffortDelete, Record
<1>5. CASE Minimize(m)
  BY <1>5 DEF Minimize, BestEffortDelete, Record
<1>6. CASE DeleteRaw(m)
  BY <1>6 DEF DeleteRaw, Record
<1>7. CASE SpoolDump(m)
  BY <1>7 DEF SpoolDump, Record
<1>8. CASE Ack(m)
  BY <1>8 DEF Ack
<1>9. CASE Leave(m)
  BY <1>9 DEF Leave
<1>10. CASE MonitorKilled(m)
  BY <1>10 DEF MonitorKilled, Killed
<1>11. CASE ServerFails(m)
  BY <1>11 DEF ServerFails
<1> QED
  BY <1>1, <1>2, <1>3, <1>4, <1>5, <1>6, <1>7, <1>8, <1>9, <1>10, <1>11 DEF Capture

\* A step of a monitor keeps the invariant of that monitor: the raw file goes
\* before the spooled one comes, and the outcome is recorded after both.
LEMMA CaptureKeeps ==
    ASSUME TypeOK, NEW m \in Monitor, Sound(m),
           Bind(m) \/ Capture(m) \/ ServerFails(m) \/ MonitorKilled(m)
    PROVE  Sound(m)'
<1> USE CaptureAssumption
    DEF TypeOK, Sound, Stage, Disk, Ended, hostVars, dumpVars, Outcome, Failed, SaysNothingSaved, Code
<1>1. CASE Bind(m)
  BY <1>1 DEF Bind
<1>2. ASSUME NEW h \in Host, CreateFile(m, h) PROVE Sound(m)'
  BY <1>2 DEF CreateFile, Record
<1>3. CASE WriteDump(m)
  BY <1>3 DEF WriteDump, Record
<1>4. CASE ReadRaw(m)
  BY <1>4 DEF ReadRaw, BestEffortDelete, Record
<1>5. CASE Minimize(m)
  BY <1>5 DEF Minimize, BestEffortDelete, Record
<1>6. CASE DeleteRaw(m)
  BY <1>6 DEF DeleteRaw, Record
<1>7. CASE SpoolDump(m)
  BY <1>7 DEF SpoolDump, Record
<1>8. CASE Ack(m)
  BY <1>8 DEF Ack
<1>9. CASE Leave(m)
  BY <1>9 DEF Leave, ExitCode
<1>10. CASE MonitorKilled(m)
  BY <1>10 DEF MonitorKilled, Killed
<1>11. CASE ServerFails(m)
  BY <1>11 DEF ServerFails
<1> QED
  BY <1>1, <1>2, <1>3, <1>4, <1>5, <1>6, <1>7, <1>8, <1>9, <1>10, <1>11 DEF Capture

-----------------------------------------------------------------------------

\* Every step keeps the inductive invariant.
LEMMA CrashStep == CrashInv /\ [Next]_vars => CrashInv'
<1> SUFFICES ASSUME CrashInv, [Next]_vars PROVE CrashInv'
  OBVIOUS
<1>1. ASSUME NEW h \in Host, HostStep(h) PROVE CrashInv'
  BY <1>1, HostTypes, HostKeeps DEF CrashInv
<1>2. ASSUME NEW m \in Monitor, Bind(m) \/ Capture(m) \/ ServerFails(m) \/ MonitorKilled(m)
      PROVE  CrashInv'
  <2>1. TypeOK'
    BY <1>2, MonitorTypes DEF CrashInv
  <2>2. Sound(m)'
    BY <1>2, CaptureKeeps DEF CrashInv
  <2>3. ASSUME NEW n \in Monitor \ {m} PROVE Sound(n)'
    BY <1>2, OneMonitorSteps DEF CrashInv, Sound, Stage, Disk, Ended
  <2> QED
    BY <2>1, <2>2, <2>3 DEF CrashInv
<1>3. CASE UNCHANGED vars
  BY <1>3 DEF CrashInv, TypeOK, Sound, Stage, Disk, Ended, vars, hostVars, dumpVars
<1> QED
  BY <1>1, <1>2, <1>3 DEF Next

\* Every behaviour satisfies the inductive invariant.
LEMMA CrashInvariant == Spec => []CrashInv
<1> QED
  BY CrashInit, CrashStep, PTL DEF Spec

\* The type invariant of the capture, for any number of hosts and monitors.
THEOREM CaptureTypeCorrect == Spec => []TypeOK
<1>1. CrashInv => TypeOK
  BY DEF CrashInv
<1> QED
  BY <1>1, CrashInvariant, PTL

\* Whatever fails and whoever is killed, no capture leaves both its raw dump and
\* its spooled copy (monitor.rs:171-183).
THEOREM RawOrSaved == Spec => []NeverBothCopies
<1>1. CrashInv => NeverBothCopies
  BY DEF CrashInv, TypeOK, Sound, Disk, NeverBothCopies
<1> QED
  BY <1>1, CrashInvariant, PTL

\* A monitor's exit code and outcome say what became of the dump (lib.rs:188-197).
THEOREM ExitIsHonest == Spec => []ExitTellsOutcome
<1>1. CrashInv => ExitTellsOutcome
  BY CaptureAssumption
  DEF CrashInv, TypeOK, Sound, Disk, Ended, ExitTellsOutcome, Code, Outcome
<1> QED
  BY <1>1, CrashInvariant, PTL

=============================================================================
