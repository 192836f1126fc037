---------------------------- MODULE CrashMonitor ----------------------------
(* Native crash capture: hosts that arm it (itasha-crash-capture/client.rs),  *)
(* the monitor processes they spawn (monitor.rs) and the exit code a monitor  *)
(* leaves behind (lib.rs).  A host spawns a monitor, connects to the socket   *)
(* name both agree on, attaches its fault handler, and may disarm again; a    *)
(* fault asks the connected monitor for a dump.  A monitor captures one       *)
(* fault: it has the dump written, reads it, minimizes it, deletes the raw    *)
(* file, spools the minimized bytes and exits.  Any process may be killed     *)
(* between two of these steps, and hosts that share the name share monitors.  *)
(* The spool is the store that module Spool refines: a report is saved whole  *)
(* or not at all, and an error does not tell which.                           *)
EXTENDS FiniteSets

CONSTANTS Host,      \* host processes that use one socket name and one spool
          Monitor,   \* monitor processes, in the order of no particular spawn
          None,      \* no process
          Fail       \* what may go wrong: a subset of Failures

Failures == {"attach", "run", "create", "write", "read", "scrub", "remove", "spool",
             "kill_host", "kill_monitor"}

\* The CaptureOutcomes: MinidumpWritten, and CaptureFailed by its reason text.
Failed == {"uncreated", "unprocessed", "uncleaned", "unsaved"}
Outcome == {"written"} \cup Failed

\* EXIT_OK, EXIT_RUN_ERROR and EXIT_CAPTURE_FAILED.
Code == {0, 1, 2}

ASSUME CaptureAssumption ==
    /\ Fail \subseteq Failures
    /\ None \notin Host \cup Monitor
    /\ None \notin Outcome
    /\ None \notin Code

VARIABLES
    host,    \* how far each host is in arm_capture, or in ArmedCapture's drop
    child,   \* the process each ArmedCapture holds as its monitor
    link,    \* the monitor each host's client is connected to
    fault,   \* a host's fault handler: idle, waiting in request_dump, or back
    mon,     \* where each monitor is
    name,    \* the monitor that last bound the socket name
    crashed, \* the host process whose fault a monitor captures, while it runs
    raw,     \* monitors whose raw dump file is on disk
    saved,   \* monitors whose minimized dump reached the spool
    told,    \* the CaptureOutcome a monitor recorded
    exit     \* the exit code of a monitor that ended by itself

hostVars == <<host, child, link, fault>>
dumpVars == <<raw, saved, told>>
vars == <<hostVars, mon, name, crashed, dumpVars, exit>>

HostState == {"off", "spawned", "connected", "armed", "disarming"}
FaultState == {"none", "asked", "answered", "lost"}
MonState == {"unborn", "starting", "serving", "writing", "written", "read",
             "minimized", "deleted", "acking", "leaving", "gone"}

\* The failures after which the reason says that nothing was saved or sent.
SaysNothingSaved == {"unprocessed", "uncleaned"}

\* A monitor whose end of a connection is open.
Up(m) == m \in Monitor /\ mon[m] \notin {"unborn", "starting", "leaving", "gone"}

\* The host of a fault the monitor is still to answer.
Waiting(m, h) == h \in Host /\ link[h] = m /\ fault[h] = "asked"

Init ==
    /\ host = [h \in Host |-> "off"]
    /\ child = [h \in Host |-> None]
    /\ link = [h \in Host |-> None]
    /\ fault = [h \in Host |-> "none"]
    /\ mon = [m \in Monitor |-> "unborn"]
    /\ name = None
    /\ crashed = [m \in Monitor |-> None]
    /\ raw = {}
    /\ saved = {}
    /\ told = [m \in Monitor |-> None]
    /\ exit = [m \in Monitor |-> None]

-----------------------------------------------------------------------------
(* The host.                                                                  *)

\* arm_capture spawns the monitor.
SpawnMonitor(h, m) ==
    /\ host[h] = "off" /\ fault[h] = "none" /\ mon[m] = "unborn"
    /\ host' = [host EXCEPT ![h] = "spawned"]
    /\ child' = [child EXCEPT ![h] = m]
    /\ mon' = [mon EXCEPT ![m] = "starting"]
    /\ UNCHANGED <<link, fault, name, crashed, dumpVars, exit>>

\* The client reaches whichever monitor answers at the name.
Connect(h) ==
    /\ host[h] = "spawned" /\ Up(name)
    /\ host' = [host EXCEPT ![h] = "connected"]
    /\ link' = [link EXCEPT ![h] = name]
    /\ UNCHANGED <<child, fault, mon, name, crashed, dumpVars, exit>>

\* arm_capture returns an error, after fifty refused attempts or because the
\* handler did not attach; the Child it drops is neither killed nor awaited.
ArmError(h) ==
    /\ \/ host[h] = "spawned"
       \/ host[h] = "connected" /\ "attach" \in Fail
    /\ host' = [host EXCEPT ![h] = "off"]
    /\ child' = [child EXCEPT ![h] = None]
    /\ link' = [link EXCEPT ![h] = None]
    /\ UNCHANGED <<fault, mon, name, crashed, dumpVars, exit>>

Attach(h) ==
    /\ host[h] = "connected"
    /\ host' = [host EXCEPT ![h] = "armed"]
    /\ UNCHANGED <<child, link, fault, mon, name, crashed, dumpVars, exit>>

\* The monitor's process ends from outside; what it had on disk stays.
Killed(m) == mon' = [mon EXCEPT ![m] = "gone"]

\* Drop kills and awaits the child first...
DropKill(h) ==
    /\ host[h] = "armed"
    /\ host' = [host EXCEPT ![h] = "disarming"]
    /\ Killed(child[h])
    /\ UNCHANGED <<child, link, fault, name, crashed, dumpVars, exit>>

\* ... and only then is the handler, which owns the client, detached; that waits
\* for a fault being handled.
DropHandler(h) ==
    /\ host[h] = "disarming" /\ fault[h] = "none"
    /\ host' = [host EXCEPT ![h] = "off"]
    /\ child' = [child EXCEPT ![h] = None]
    /\ link' = [link EXCEPT ![h] = None]
    /\ UNCHANGED <<fault, mon, name, crashed, dumpVars, exit>>

\* Another thread faults while the handler is attached: on_crash calls
\* request_dump, which waits for the monitor's answer.
Fault(h) ==
    /\ host[h] \in {"armed", "disarming"} /\ fault[h] = "none"
    /\ fault' = [fault EXCEPT ![h] = "asked"]
    /\ UNCHANGED <<host, child, link, mon, name, crashed, dumpVars, exit>>

\* request_dump fails once the connection is closed.
FaultLost(h) ==
    /\ fault[h] = "asked" /\ ~Up(link[h])
    /\ fault' = [fault EXCEPT ![h] = "lost"]
    /\ UNCHANGED <<host, child, link, mon, name, crashed, dumpVars, exit>>

\* The process ends, without running drop, after its fault or by a kill; it may
\* be started again.
HostEnds(h) ==
    /\ \/ fault[h] \in {"answered", "lost"}
       \/ "kill_host" \in Fail /\ host[h] # "off"
    /\ host' = [host EXCEPT ![h] = "off"]
    /\ child' = [child EXCEPT ![h] = None]
    /\ link' = [link EXCEPT ![h] = None]
    /\ fault' = [fault EXCEPT ![h] = "none"]
    /\ crashed' = [m \in Monitor |-> IF crashed[m] = h THEN None ELSE crashed[m]]
    /\ UNCHANGED <<mon, name, dumpVars, exit>>

-----------------------------------------------------------------------------
(* The monitor.                                                               *)

\* run_monitor creates the server.  A name that was bound before is taken over
\* or refused; refused, the process exits with EXIT_RUN_ERROR.
Bind(m) ==
    /\ mon[m] = "starting"
    /\ \/ /\ name' = m
          /\ mon' = [mon EXCEPT ![m] = "serving"]
          /\ UNCHANGED exit
       \/ /\ name # None
          /\ mon' = [mon EXCEPT ![m] = "gone"]
          /\ exit' = [exit EXCEPT ![m] = 1]
          /\ UNCHANGED name
    /\ UNCHANGED <<hostVars, crashed, dumpVars>>

\* Mutant: a dump that could not be created leaves the loop running.
RecordAndStay(m, o) ==
    /\ told' = [told EXCEPT ![m] = o]
    /\ mon' = [mon EXCEPT ![m] = IF o = "uncreated" THEN "serving" ELSE "acking"]

\* Record the outcome; on_minidump_created returns Exit in any case.
Record(m, o) ==
    /\ told' = [told EXCEPT ![m] = o]
    /\ mon' = [mon EXCEPT ![m] = "acking"]

\* A dump request arrives and create_minidump_file opens a file of its own.
CreateFile(m, h) ==
    /\ mon[m] = "serving" /\ Waiting(m, h)
    /\ crashed' = [crashed EXCEPT ![m] = h]
    /\ \/ /\ raw' = raw \cup {m}
          /\ mon' = [mon EXCEPT ![m] = "writing"]
          /\ UNCHANGED told
       \/ /\ "create" \in Fail
          /\ Record(m, "uncreated")
          /\ UNCHANGED raw
    /\ UNCHANGED <<hostVars, name, saved, exit>>

\* The writer fills the file, or fails (at once when the faulting process is
\* gone) and leaves what it wrote.
WriteDump(m) ==
    /\ mon[m] = "writing"
    /\ \/ /\ Waiting(m, crashed[m])
          /\ mon' = [mon EXCEPT ![m] = "written"]
          /\ UNCHANGED told
       \/ /\ "write" \in Fail \/ ~Waiting(m, crashed[m])
          /\ Record(m, "uncreated")
    /\ UNCHANGED <<hostVars, name, crashed, raw, saved, exit>>

\* let _ = remove_file(raw): the file may stay when the call fails.
BestEffortDelete(m) ==
    \/ raw' = raw \ {m}
    \/ "remove" \in Fail /\ UNCHANGED raw

ReadRaw(m) ==
    /\ mon[m] = "written"
    /\ \/ /\ mon' = [mon EXCEPT ![m] = "read"]
          /\ UNCHANGED <<raw, told>>
       \/ /\ "read" \in Fail
          /\ BestEffortDelete(m)
          /\ Record(m, "unprocessed")
    /\ UNCHANGED <<hostVars, name, crashed, saved, exit>>

Minimize(m) ==
    /\ mon[m] = "read"
    /\ \/ /\ mon' = [mon EXCEPT ![m] = "minimized"]
          /\ UNCHANGED <<raw, told>>
       \/ /\ "scrub" \in Fail
          /\ BestEffortDelete(m)
          /\ Record(m, "uncleaned")
    /\ UNCHANGED <<hostVars, name, crashed, saved, exit>>

\* Mutant: an undeletable raw dump does not keep its copy from the spool.
DeleteIgnoringErrors(m) ==
    /\ mon[m] = "minimized"
    /\ BestEffortDelete(m)
    /\ mon' = [mon EXCEPT ![m] = "deleted"]
    /\ UNCHANGED <<hostVars, name, crashed, saved, told, exit>>

\* The raw dump goes before anything is spooled; a raw dump that cannot be
\* deleted ends the capture.
DeleteRaw(m) ==
    /\ mon[m] = "minimized"
    /\ \/ /\ raw' = raw \ {m}
          /\ mon' = [mon EXCEPT ![m] = "deleted"]
          /\ UNCHANGED told
       \/ /\ "remove" \in Fail
          /\ Record(m, "unprocessed")
          /\ UNCHANGED raw
    /\ UNCHANGED <<hostVars, name, crashed, saved, exit>>

\* spool_minidump: Ok is a saved report, an error is one saved or not.
SpoolDump(m) ==
    /\ mon[m] = "deleted"
    /\ \/ /\ saved' = saved \cup {m}
          /\ Record(m, "written")
       \/ /\ "spool" \in Fail
          /\ saved' \in {saved, saved \cup {m}}
          /\ Record(m, "unsaved")
    /\ UNCHANGED <<hostVars, name, crashed, raw, exit>>

\* The server answers the request, then leaves its loop.
Ack(m) ==
    /\ mon[m] = "acking"
    /\ fault' = IF Waiting(m, crashed[m])
                  THEN [fault EXCEPT ![crashed[m]] = "answered"]
                  ELSE fault
    /\ mon' = [mon EXCEPT ![m] = "leaving"]
    /\ UNCHANGED <<host, child, link, name, crashed, dumpVars, exit>>

\* Mutants: the loop's own success is the exit code; a failure to save has a code
\* of its own.
ZeroAlways(o) == 0
CodePerReason(o) == IF o = "unsaved" THEN 3 ELSE IF o \in Failed THEN 2 ELSE 0

\* surface_outcomes: EXIT_CAPTURE_FAILED for a failure, EXIT_OK otherwise.
ExitCode(o) == IF o \in Failed THEN 2 ELSE 0

Leave(m) ==
    /\ mon[m] = "leaving"
    /\ mon' = [mon EXCEPT ![m] = "gone"]
    /\ exit' = [exit EXCEPT ![m] = ExitCode(told[m])]
    /\ UNCHANGED <<hostVars, name, crashed, dumpVars>>

\* Server::run returns an error, while it waits for a request or when it cannot
\* answer one: run_monitor drops what its handler has recorded.
ServerFails(m) ==
    /\ "run" \in Fail /\ mon[m] \in {"serving", "acking"}
    /\ mon' = [mon EXCEPT ![m] = "gone"]
    /\ exit' = [exit EXCEPT ![m] = 1]
    /\ UNCHANGED <<hostVars, name, crashed, dumpVars>>

MonitorKilled(m) ==
    /\ "kill_monitor" \in Fail /\ mon[m] \notin {"unborn", "gone"}
    /\ Killed(m)
    /\ UNCHANGED <<hostVars, name, crashed, dumpVars, exit>>

-----------------------------------------------------------------------------

Capture(m) ==
    \/ \E h \in Host : CreateFile(m, h)
    \/ WriteDump(m) \/ ReadRaw(m) \/ Minimize(m) \/ DeleteRaw(m) \/ SpoolDump(m)
    \/ Ack(m) \/ Leave(m)

HostStep(h) ==
    \/ \E m \in Monitor : SpawnMonitor(h, m)
    \/ Connect(h) \/ ArmError(h) \/ Attach(h) \/ DropKill(h) \/ DropHandler(h)
    \/ Fault(h) \/ FaultLost(h) \/ HostEnds(h)

Next ==
    \/ \E h \in Host : HostStep(h)
    \/ \E m \in Monitor : Bind(m) \/ Capture(m) \/ ServerFails(m) \/ MonitorKilled(m)

Spec == Init /\ [][Next]_vars

\* A monitor that runs goes on capturing, and a closed connection is noticed:
\* single threads of their own process, which nothing blocks.
LiveSpec ==
    /\ Spec
    /\ \A m \in Monitor : WF_vars(Capture(m))
    /\ \A h \in Host : WF_vars(FaultLost(h))

-----------------------------------------------------------------------------
(* What must hold.                                                            *)

TypeOK ==
    /\ host \in [Host -> HostState]
    /\ child \in [Host -> Monitor \cup {None}]
    /\ link \in [Host -> Monitor \cup {None}]
    /\ fault \in [Host -> FaultState]
    /\ mon \in [Monitor -> MonState]
    /\ name \in Monitor \cup {None}
    /\ crashed \in [Monitor -> Host \cup {None}]
    /\ raw \in SUBSET Monitor
    /\ saved \in SUBSET Monitor
    /\ told \in [Monitor -> Outcome \cup {None}]
    /\ exit \in [Monitor -> Code \cup {None}]

\* The raw dump of a capture and its copy in the spool are never both on disk:
\* minimize_delete_and_spool would rather fail than leave both (monitor.rs:173),
\* whichever of its calls fail and wherever it is killed.
NeverBothCopies == raw \cap saved = {}

\* What a monitor that ended by itself tells, and what it left on disk, agree:
\* exit code 0 after a capture means that the minimized dump was saved and that no
\* raw one is left; 2 that a capture failed; a reason that says nothing was saved
\* says the truth; a monitor with nothing recorded left nothing; and a raw dump
\* stays behind only where a failure was recorded before the spool was tried.
\* Code 1 tells nothing of a capture, although lib.rs:106 says that none was run: the
\* server's loop may fail after one.  Nor is "discarded" (monitor.rs:194) said of what
\* is not there: the error may come from the eviction after the rename ("unsaved").
ExitTellsOutcome ==
    \A m \in Monitor :
        /\ exit[m] = 0 => told[m] = "written" /\ m \in saved /\ m \notin raw
        /\ exit[m] = 2 => told[m] \in Failed
        /\ told[m] \in SaysNothingSaved => m \notin saved
        /\ exit[m] # None /\ told[m] = None => m \notin raw \cup saved
        /\ exit[m] # None /\ m \in raw => told[m] \in Failed \ {"unsaved"}

\* A faulting host is not kept in its fault handler for ever: request_dump comes
\* back, with an answer or because the monitor it waited for is gone, also when
\* that monitor was busy with another host's fault.
FaultEnds == \A h \in Host : fault[h] = "asked" ~> fault[h] # "asked"
=============================================================================
