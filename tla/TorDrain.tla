------------------------------ MODULE TorDrain -----------------------------
(***************************************************************************)
(* The drain of the onion transport (itasha-report-transport-tor,          *)
(* src/.../transport.rs) over the Spool: one pass lists the spool once and *)
(* takes the reports oldest first; each is loaded, built, posted up to     *)
(* max_attempts times, and then removed, dropped or retained.              *)
(*                                                                         *)
(* The pass runs in the background worker of the host while threads go on  *)
(* enqueueing, so its list of paths ages as it goes: a listed report may   *)
(* be evicted before it is loaded or while it is being posted.  The host   *)
(* may be killed at any point.  The endpoint may refuse a report, fail, or *)
(* take a report and have its answer lost on the way back.                 *)
(***************************************************************************)
EXTENDS Spool

CONSTANTS
  Drainer,      \* the process that drains
  MaxAttempts,  \* RetryPolicy::max_attempts, at least one
  Oversize,     \* reports whose envelope exceeds max_payload_bytes
  Unreadable,   \* reports whose file does not parse (Spool::load fails)
  Refused,      \* reports the endpoint answers with a 4xx
  Hazard        \* what may go wrong in a pass, a subset of DrainHazard

(***************************************************************************)
(* The endpoint may stay down at first; reading a report that is there may *)
(* fail; a pass may use up max_pass_duration.                              *)
(***************************************************************************)
DrainHazard == {"down", "io_read", "budget"}

ASSUME DrainAssumption ==
  /\ Drainer \in Process
  /\ MaxAttempts \in Nat \ {0}
  /\ Oversize \subseteq Report
  /\ Unreadable \subseteq Report
  /\ Refused \subseteq Report
  /\ Hazard \subseteq DrainHazard

VARIABLES
  dpc,       \* where the pass is
  paths,     \* the reports listed at the start of the pass
  todo,      \* those that the pass has not come to
  report,    \* the report in hand
  attempt,   \* the number of the attempt to post it
  answer,    \* the result of the last attempt
  counts,    \* the DrainReport so far
  up,        \* the endpoint answers properly from now on
  taken,     \* history: has the endpoint taken the report in hand in this pass
  accepted,  \* history: in how many passes the endpoint took r (1, or 2 and more)
  excused,   \* history: r may be sent again: an answer was lost, a removal
             \*   failed or the drainer died
  removal    \* history: as what the drain removed r

drainLocals == <<paths, todo, report, attempt, answer>>
history     == <<taken, accepted, excused, removal>>
drainVars   == <<dpc, drainLocals, counts, up, history>>
allVars     == <<vars, drainVars>>

Answer  == {"none", "accepted", "4xx", "5xx", "error"}
Counter == {"sent", "dropped", "rejected", "unreachable"}
NoCounts == [c \in Counter \cup {"retained"} |-> 0]

\* The types of the pass: among them that it never makes more attempts than
\* RetryPolicy::max_attempts (transport.rs:336-374).
DrainTypeOK ==
  /\ dpc \in {"idle", "next", "load", "post", "settle", "discard"}
  /\ todo \in SUBSET Report /\ paths \in SUBSET Report
  /\ report \in Report \cup {None}
  /\ attempt \in 0 .. MaxAttempts
  /\ answer \in Answer
  /\ counts \in [Counter \cup {"retained"} -> 0 .. Cardinality(Report)]
  /\ up \in BOOLEAN /\ taken \in BOOLEAN
  /\ accepted \in [Report -> 0 .. 2]
  /\ excused \in [Report -> BOOLEAN]
  /\ removal \in [Report -> {"none", "sent", "dropped"}]

DrainInit ==
  /\ Init
  /\ dpc = "idle"
  /\ paths = {} /\ todo = {}
  /\ report = None
  /\ attempt = 0
  /\ answer = "none"
  /\ counts = NoCounts
  /\ up = ("down" \notin Hazard)
  /\ taken = FALSE
  /\ accepted = [r \in Report |-> 0]
  /\ excused = [r \in Report |-> FALSE]
  /\ removal = [r \in Report |-> "none"]

(***************************************************************************)
(* drain_spool                                                             *)
(***************************************************************************)

\* Listing an empty spool is left out.  A listing that fails ends the pass, and
\* the host gets an error in place of a DrainReport.
StartPass ==
  /\ dpc = "idle"
  /\ Listed # {}
  /\ \/ /\ paths' = Listed
        /\ todo' = Listed
        /\ dpc' = "next"
     \/ /\ "io_list" \in Env
        /\ paths' = {} /\ todo' = {}
        /\ UNCHANGED dpc
  /\ counts' = NoCounts
  /\ UNCHANGED <<vars, report, attempt, answer, up, history>>

TakeNext ==
  /\ dpc = "next"
  /\ \E r \in Oldest(todo) : report' = r /\ todo' = todo \ {r}
  /\ dpc' = "load"
  /\ UNCHANGED <<vars, paths, attempt, answer, counts, up, history>>

\* The list is exhausted, or the budget of the pass is: it is checked before
\* every report, and no time has passed before the first.
EndPass ==
  /\ dpc = "next"
  /\ todo = {} \/ ("budget" \in Hazard /\ todo # paths)
  /\ dpc' = "idle"
  /\ UNCHANGED <<vars, drainLocals, counts, up, history>>

\* What makes load or build_padded_payload return an error.
Unsendable(r) == at[r] # "spool" \/ r \in Unreadable \cup Oversize

Load ==
  /\ dpc = "load"
  /\ \/ /\ Unsendable(report) \/ "io_read" \in Hazard
        /\ dpc' = "discard"
     \/ /\ ~ Unsendable(report)
        /\ dpc' = "post"
  /\ attempt' = 1
  /\ UNCHANGED <<vars, paths, todo, report, answer, counts, up, history>>

\* Mutant of RemoveAs: the file is left in place.
NotRemoved(how) ==
  /\ removal' = [removal EXCEPT ![report] = how]
  /\ UNCHANGED <<disk, fate, excused>>

\* Spool::remove on the report in hand, its result ignored.
RemoveAs(how) ==
  \/ /\ at[report] = "spool"
     /\ at' = [at EXCEPT ![report] = "none"]
     /\ data' = [data EXCEPT ![report] = "none"]
     /\ fate' = [fate EXCEPT ![report] = Taken]
     /\ removal' = [removal EXCEPT ![report] = how]
     /\ UNCHANGED excused
  \/ /\ at[report] # "spool" \/ "io_remove" \in Env
     /\ excused' = [excused EXCEPT ![report] = @ \/ at[report] = "spool"]
     /\ UNCHANGED <<disk, fate, removal>>

\* The pass is done with the report in hand and goes on at l.
PutAside(l) ==
  /\ dpc' = l
  /\ report' = None
  /\ attempt' = 0
  /\ answer' = "none"
  /\ taken' = FALSE

Discard ==
  /\ dpc = "discard"
  /\ RemoveAs("dropped")
  /\ counts' = [counts EXCEPT !.dropped = @ + 1]
  /\ PutAside("next")
  /\ UNCHANGED <<local, names, result, paths, todo, up, accepted>>

(***************************************************************************)
(* One transmit.  A result is whether the endpoint took the report, and    *)
(* what the client made of the answer: an answer cut short in its status   *)
(* line parses as some other, non-2xx code and counts with the 5xx.        *)
(***************************************************************************)
Proper(r) == IF r \in Refused THEN {<<FALSE, "4xx">>} ELSE {<<TRUE, "accepted">>}

Results(r) ==
  IF up THEN Proper(r)
  ELSE Proper(r) \cup {<<FALSE, "error">>, <<FALSE, "5xx">>}
                 \cup (IF r \in Refused THEN {} ELSE {<<TRUE, "error">>, <<TRUE, "5xx">>})

\* transmit_with_retry returns on a 2xx and on a 4xx, and retries anything
\* else after a backoff until the attempts are used up.
Final(a, n) == a \in {"accepted", "4xx"} \/ n >= MaxAttempts

\* Mutant of Advance: attempt is never incremented.
NeverAdvanced(n) == n
Advance(n) == n + 1

Post ==
  /\ dpc = "post"
  /\ \E res \in Results(report) :
       /\ answer' = res[2]
       /\ taken' = (taken \/ res[1])
       /\ accepted' = IF res[1] /\ ~ taken
                      THEN [accepted EXCEPT ![report] = IF @ < 2 THEN @ + 1 ELSE 2]
                      ELSE accepted
       /\ excused' = IF res[1] /\ res[2] # "accepted"
                     THEN [excused EXCEPT ![report] = TRUE] ELSE excused
       /\ IF Final(res[2], attempt)
          THEN dpc' = "settle" /\ UNCHANGED attempt
          ELSE attempt' = Advance(attempt) /\ UNCHANGED dpc
  /\ UNCHANGED <<vars, paths, todo, report, counts, up, removal>>

\* classify_transmit.  Mutant: a 4xx counts as sent.
RefusedIsSent(a) ==
  IF a \in {"accepted", "4xx"} THEN "sent" ELSE IF a = "5xx" THEN "rejected" ELSE "unreachable"

Classify(a) ==
  IF a = "accepted" THEN "sent"
  ELSE IF a \in {"4xx", "5xx"} THEN "rejected" ELSE "unreachable"

\* The bookkeeping of a retained report.  Mutant: only its class is counted.
ClassOnly(c, a) == [c EXCEPT ![Classify(a)] = @ + 1]
Retain(c, a) == [c EXCEPT !.retained = @ + 1, ![Classify(a)] = @ + 1]

\* Where the pass goes on after a retained report.  Mutant: it breaks off.
BreakOff == "idle"
GoOn == "next"

Settle ==
  /\ dpc = "settle"
  /\ IF Classify(answer) = "sent"
     THEN /\ RemoveAs("sent")
          /\ counts' = [counts EXCEPT !.sent = @ + 1]
          /\ PutAside("next")
     ELSE /\ counts' = Retain(counts, answer)
          /\ PutAside(GoOn)
          /\ UNCHANGED <<disk, fate, excused, removal>>
  /\ UNCHANGED <<local, names, result, paths, todo, up, accepted>>

(***************************************************************************)
(* The endpoint comes back; the host dies with its pass.                   *)
(***************************************************************************)
Recover ==
  /\ ~ up
  /\ up' = TRUE
  /\ UNCHANGED <<vars, dpc, drainLocals, counts, history>>

HostCrash ==
  /\ "crash" \in Env
  /\ dpc # "idle" \/ \E t \in Thread : Owner[t] = Drainer /\ pc[t] # "idle"
  /\ Restart({Drainer})
  /\ paths' = {} /\ todo' = {}
  /\ counts' = NoCounts
  /\ PutAside("idle")
  /\ excused' = IF report = None THEN excused ELSE [excused EXCEPT ![report] = TRUE]
  /\ UNCHANGED <<data, up, accepted, removal>>

DrainStep == TakeNext \/ EndPass \/ Load \/ Discard \/ Post \/ Settle

SpoolStep ==
  /\ \/ \E t \in Thread, r \in Report : Begin(t, r)
     \/ \E t \in Thread : EnqueueStep(t)
  /\ UNCHANGED drainVars

DrainNext == StartPass \/ DrainStep \/ SpoolStep \/ Recover \/ HostCrash

DrainSpec == DrainInit /\ [][DrainNext]_allVars

(***************************************************************************)
(* The host calls drain_spool again and again, and a pass that has begun   *)
(* goes on: connect and post are bounded by a timeout, and the backoff is  *)
(* bounded.  Nothing makes the host enqueue, and nothing makes the         *)
(* endpoint recover.                                                       *)
(***************************************************************************)
LiveSpec == DrainSpec /\ WF_allVars(StartPass) /\ WF_allVars(DrainStep)

(***************************************************************************)
(* Properties.                                                             *)
(***************************************************************************)

(* A report that the drain removes as sent has been taken by the endpoint,  *)
(* whatever answers were lost, cut short or refused in between.             *)
SentOnlyIfAccepted == \A r \in Report : removal[r] = "sent" => accepted[r] > 0

(* The drain throws away only reports that can never be sent: those that do *)
(* not parse and those beyond the payload cap (the doc of DrainReport:      *)
(* "dropped as permanently un-sendable"; the comment in drain_spool:        *)
(* "Unparseable on disk").  The code keeps this only where reading a file   *)
(* that is there succeeds: drain_spool deletes a report on any error of     *)
(* load (with io_read in Hazard, TLC has the counterexample).               *)
DroppedOnlyUnsendable ==
  \A r \in Report : removal[r] = "dropped" => r \in Unreadable \cup Oversize

(* The endpoint is given a report in a second pass, under a new event id    *)
(* that it cannot recognise, only if an answer was lost, a removal failed   *)
(* or the host died: a pass in which nothing fails leaves no duplicate.     *)
NoNeedlessDuplicate == \A r \in Report : accepted[r] > 1 => excused[r]

\* Reports that cannot be sent, and reports that an enqueue evicted.
Astray(r) == r \in Unreadable \cup Oversize \/ fate[r] \in Report

(* What the DrainReport of a pass that is over means for the reports that   *)
(* the pass came to, where reading and removing a file that is there        *)
(* succeeds: each is counted once; retained is the sum of its classes; as   *)
(* many as it calls sent were taken by the endpoint; those that it calls    *)
(* dropped are un-sendable, or were evicted by an enqueue while the pass    *)
(* ran; and of all of them no more are still spooled than it calls          *)
(* retained.  It says nothing of reports that the pass did not come to, or  *)
(* that were spooled after it had listed the spool.                         *)
ReportIsHonest ==
  dpc = "idle" =>
    /\ counts.retained = counts.rejected + counts.unreachable
    /\ counts.sent + counts.dropped + counts.retained = Cardinality(paths \ todo)
    /\ counts.sent <= Cardinality({r \in paths \ todo : accepted[r] > 0})
    /\ counts.dropped <= Cardinality({r \in paths \ todo : Astray(r)})
    /\ Cardinality((paths \ todo) \cap Listed) <= counts.retained

(* A pass ends, also when the endpoint never answers.                       *)
PassEnds == dpc # "idle" ~> dpc = "idle"

(* Once the endpoint answers for good, every spooled report that it does    *)
(* not refuse leaves the spool, also behind reports that it does refuse,    *)
(* if the spool can be listed: passes begin again and again.                *)
EveryReportLeaves ==
  <>[]up /\ []<>(dpc # "idle") =>
    \A r \in Report \ Refused : at[r] = "spool" ~> at[r] # "spool"
=============================================================================
