----------------------------- MODULE ReportFlow -----------------------------
(* From capture to the endpoint: who has agreed to what by the time a report  *)
(* leaves the device.  The host captures a report, shows its Preview, lets    *)
(* the user redact it and decide, and sends what was approved, either with    *)
(* the LeanPipelineBackend or by handing it to the TorOnionTransport, whose   *)
(* background drain sends whatever is in the spool.  With native capture      *)
(* armed, the crash monitor puts reports of its own into the same spool.      *)
(*                                                                            *)
(* The host is not part of the repository: its steps are those the            *)
(* integration guide gives it.  The spool is the atomic store that Spool      *)
(* refines; an enqueue may evict any of its files, which ones is for Spool    *)
(* and ReportQueue to say.  Files that are alike count as one.  Of a report's *)
(* contents the model keeps where a private span occurs that the user would   *)
(* redact.                                                                    *)
EXTENDS Naturals, FiniteSets

CONSTANTS
    Report,       \* the reports of a run
    Manual,       \* those a user writes; the others are of crashes
    Spans,        \* where the span may occur in what the host captures
    Deployments   \* the ways the host may be set up, see Deployment

\* transport: which IngestBackend the host sends with, and whether it drains.
\* captureFirst: reports go to the spool when captured, before consent (the
\* guide); otherwise they are kept in memory until then.
\* native: the crash monitor is armed.
\* edits: the host sends what into_edited_report makes of the preview; otherwise
\* the report that it loaded, as the guide's sketch of the Send handler does.
Deployment ==
    [transport : {"lean", "tor"}, captureFirst : BOOLEAN, native : BOOLEAN,
     edits : BOOLEAN]

VARIABLES
    setup,     \* the deployment of this run
    mode,      \* the ReportingConfig: a ReportingMode for each stream
    stage,     \* how far the host is with each report
    kind,      \* "text" from the host, "dump" from the monitor, once captured
    holds,     \* the fields of the captured report that hold the span
    redacted,  \* did the user redact the span in the preview
    agreed,    \* did the user agree to send the report
    spool,     \* the files
    taking,    \* the file the drain is sending, if any
    arrived,   \* history: what reached the endpoint
    shed       \* history: the reports of which a file was evicted or dropped, or
               \*   that the lean backend took a redirect for accepted

dialog  == <<setup, mode, kind, holds, redacted, agreed>>
history == <<arrived, shed>>
vars    == <<dialog, stage, spool, taking, history>>

\* The fields of a Report: metadata is split into keys on the allowlist of
\* quasi.rs and others; the attachment is not part of the preview.
Field == {"title", "body", "allowed", "other", "attachment"}
Previewed == Field \ {"attachment"}

ASSUME FlowAssumption ==
    /\ Deployments \subseteq Deployment
    /\ Manual \subseteq Report
    /\ Spans \subseteq SUBSET Previewed

Stream == {"CrashReports", "ManualIssues"}
StreamOf(r) == IF r \in Manual THEN "ManualIssues" ELSE "CrashReports"
ReportingMode == {"Off", "AskEachTime", "Always"}
ReportingConfig == [Stream -> ReportingMode]

\* A file is a report as it was captured, or as it was approved; then it carries
\* what the user had decided about it by the time it was written.
File == [report : Report, version : {"captured", "approved"},
         agreed : BOOLEAN, redacted : BOOLEAN]

Captured(r) == [report |-> r, version |-> "captured", agreed |-> FALSE, redacted |-> FALSE]
Approved(r) ==
    [report |-> r, version |-> "approved", agreed |-> agreed[r], redacted |-> redacted[r]]

Stage == {"new", "pending", "shown", "approved", "refused", "queued", "done", "lost"}

\* What is remembered of a report that arrived: which one, whether the user had
\* agreed to it, and the fields that hold a span which the user had redacted.
Arrival == [report : Report, agreed : BOOLEAN, kept : SUBSET Field]

TypeOK ==
    /\ setup \in Deployments
    /\ mode \in ReportingConfig
    /\ stage \in [Report -> Stage]
    /\ kind \in [Report -> {"text", "dump"}]
    /\ holds \in [Report -> SUBSET Field]
    /\ redacted \in [Report -> BOOLEAN]
    /\ agreed \in [Report -> BOOLEAN]
    /\ spool \in SUBSET File
    /\ taking \in SUBSET File
    /\ arrived \in SUBSET Arrival
    /\ shed \in SUBSET Report

all_off == [s \in Stream |-> "Off"]

Init ==
    /\ setup \in Deployments
    /\ mode = all_off
    /\ stage = [r \in Report |-> "new"]
    /\ kind = [r \in Report |-> "text"]
    /\ holds = [r \in Report |-> {}]
    /\ redacted = [r \in Report |-> FALSE]
    /\ agreed = [r \in Report |-> FALSE]
    /\ spool = {}
    /\ taking = {}
    /\ arrived = {}
    /\ shed = {}

-----------------------------------------------------------------------------
(* What a version of a report holds, and what of it goes on the wire.         *)

\* into_edited_report takes the body from the redacted preview, and the title,
\* the metadata and the attachments from the original.
\* Mutant: the body, too, is the original's.
WholeOriginal(file) == holds[file.report]
Content(file) ==
    IF file.redacted /\ setup.edits THEN holds[file.report] \ {"body"} ELSE holds[file.report]

\* safe_fields lets only the allowlisted keys through; Envelope::from_report
\* takes the rest of the report as it is.
OnWire(fields) == fields \ {"other"}

\* What the user has decided: about an approved file when it was written, about
\* a captured one by the time it is sent.
IsAgreed(file) == IF file.version = "approved" THEN file.agreed ELSE agreed[file.report]
IsRedacted(file) == IF file.version = "approved" THEN file.redacted ELSE redacted[file.report]

Arrives(file) ==
    arrived' = arrived \cup
        {[report |-> file.report,
          agreed |-> IsAgreed(file),
          kept   |-> IF IsRedacted(file) THEN OnWire(Content(file)) ELSE {}]}

\* Spool::enqueue writes a file and evicts others, or even that one; the host then
\* removes the files in used.
Enqueues(file, used) ==
    \E evicted \in SUBSET (spool \cup {file}) :
        /\ spool' = ((spool \cup {file}) \ evicted) \ used
        /\ shed' = shed \cup {f.report : f \in evicted}

-----------------------------------------------------------------------------
(* The user's settings, and capture.                                          *)

with_mode(s, choice) ==
    /\ mode[s] # choice
    /\ mode' = [mode EXCEPT ![s] = choice]
    /\ UNCHANGED <<setup, kind, holds, redacted, agreed, stage, spool, taking, history>>

mode_for(r) == mode[StreamOf(r)]
is_always(m) == m = "Always"
permits_reporting(m) == m # "Off"

\* The host's panic hook, or a user who writes an issue, builds a report of text,
\* anywhere in which the span may occur.  A setting is no reason not to.
HostCapture(r) ==
    /\ stage[r] = "new"
    /\ \E f \in Spans : holds' = [holds EXCEPT ![r] = f]
    /\ stage' = [stage EXCEPT ![r] = "pending"]
    /\ IF setup.captureFirst THEN Enqueues(Captured(r), {}) ELSE UNCHANGED <<spool, shed>>
    /\ UNCHANGED <<setup, mode, kind, redacted, agreed, taking, arrived>>

\* spool_minidump: the report is a fixed note and the attached dump.
MonitorCapture(r) ==
    /\ setup.native /\ stage[r] = "new" /\ r \notin Manual
    /\ \E f \in SUBSET {"attachment"} : holds' = [holds EXCEPT ![r] = f]
    /\ kind' = [kind EXCEPT ![r] = "dump"]
    /\ stage' = [stage EXCEPT ![r] = "pending"]
    /\ Enqueues(Captured(r), {})
    /\ UNCHANGED <<setup, mode, redacted, agreed, taking, arrived>>

-----------------------------------------------------------------------------
(* The consent dialog.                                                        *)

InMemory(r) == kind[r] = "text" /\ ~setup.captureFirst

Available(r) == stage[r] = "pending" /\ (InMemory(r) \/ Captured(r) \in spool)

\* When the stream is on, the host loads the report and renders Preview::of.
Show(r) ==
    /\ Available(r)
    /\ permits_reporting(mode_for(r))
    /\ stage' = [stage EXCEPT ![r] = "shown"]
    /\ UNCHANGED <<dialog, spool, taking, history>>

\* Preview::redact replaces the span everywhere in the preview text.
Redact(r) ==
    /\ stage[r] = "shown" /\ holds[r] \cap Previewed # {}
    /\ redacted' = [redacted EXCEPT ![r] = TRUE]
    /\ UNCHANGED <<setup, mode, kind, holds, agreed, stage, spool, taking, history>>

\* Send: the host mints a ConsentToken.  Don't send: it discards the report.
Agree(r) ==
    /\ stage[r] = "shown"
    /\ stage' = [stage EXCEPT ![r] = "approved"]
    /\ agreed' = [agreed EXCEPT ![r] = TRUE]
    /\ UNCHANGED <<setup, mode, kind, holds, redacted, spool, taking, history>>

\* The user has agreed once for all: the host mints a token without a dialog, but
\* not for a minidump, which "is never sent automatically" (TIER2_CONSENT_DISCLOSURE).
AgreeAlways(r) ==
    /\ Available(r) /\ kind[r] = "text"
    /\ is_always(mode_for(r))
    /\ stage' = [stage EXCEPT ![r] = "approved"]
    /\ agreed' = [agreed EXCEPT ![r] = TRUE]
    /\ UNCHANGED <<setup, mode, kind, holds, redacted, spool, taking, history>>

Refuse(r) ==
    /\ stage[r] = "shown"
    /\ stage' = [stage EXCEPT ![r] = "refused"]
    /\ spool' = spool \ {Captured(r)}
    /\ UNCHANGED <<dialog, taking, history>>

-----------------------------------------------------------------------------
(* Sending what was approved.                                                 *)

\* The host de-spools the report only after Sent.
Sent(r) ==
    /\ stage' = [stage EXCEPT ![r] = "done"]
    /\ spool' = spool \ {Captured(r)}

\* After Failed or Err it keeps the report, and may try again.
NotSent(r) == UNCHANGED <<stage, spool>>

\* LeanPipelineBackend::send posts the envelope: it is accepted, or it fails
\* before or after it arrived, or the answer is a redirect, which counts as Sent
\* (module Wire has the details).  Mutant: no token is asked for.
SendUnasked(r) ==
    /\ setup.transport = "lean" /\ stage[r] \in {"shown", "approved"}
    /\ Arrives(Approved(r)) /\ Sent(r)
    /\ UNCHANGED <<dialog, taking, shed>>

LeanSend(r) ==
    /\ setup.transport = "lean" /\ stage[r] = "approved"
    /\ \/ Arrives(Approved(r)) /\ Sent(r) /\ UNCHANGED shed
       \/ Arrives(Approved(r)) /\ NotSent(r) /\ UNCHANGED shed
       \/ NotSent(r) /\ UNCHANGED history
       \/ Sent(r) /\ shed' = shed \cup {r} /\ UNCHANGED arrived
    /\ UNCHANGED <<dialog, taking>>

\* TorOnionTransport::send enqueues the approved report.  The host is told that it
\* failed when the report does not fit, when enqueue failed before it had renamed
\* the file, and also when it failed afterwards, while it enforced the budgets.
TorSend(r) ==
    /\ setup.transport = "tor" /\ stage[r] = "approved"
    /\ \/ /\ Enqueues(Approved(r), {Captured(r)})
          /\ stage' = [stage EXCEPT ![r] = "queued"]
       \/ NotSent(r) /\ UNCHANGED shed
       \/ /\ Enqueues(Approved(r), {})
          /\ UNCHANGED stage
    /\ UNCHANGED <<dialog, taking, arrived>>

-----------------------------------------------------------------------------
(* drain_spool, in the host's background worker: it loads a file, mints a     *)
(* ConsentToken of its own and posts the report.                              *)

\* A file that cannot be loaded, or whose envelope cannot be built, is removed.
DrainLoad ==
    /\ setup.transport = "tor" /\ taking = {}
    /\ \E file \in spool :
          \/ taking' = {file} /\ UNCHANGED <<spool, shed>>
          \/ /\ spool' = spool \ {file}
             /\ shed' = shed \cup {file.report}
             /\ UNCHANGED taking
    /\ UNCHANGED <<dialog, stage, arrived>>

\* Mutant of DrainPost: the file is removed whatever the answer was.
RemovedAnyway ==
    /\ \E file \in taking :
          /\ Arrives(file) \/ UNCHANGED arrived
          /\ spool' = spool \ {file}
    /\ taking' = {}
    /\ UNCHANGED <<dialog, stage, shed>>

\* The report arrives and the file is removed, or it is retained, having
\* arrived or not.
DrainPost ==
    /\ \E file \in taking :
          \/ Arrives(file) /\ spool' = spool \ {file}
          \/ Arrives(file) /\ UNCHANGED spool
          \/ UNCHANGED <<arrived, spool>>
    /\ taking' = {}
    /\ UNCHANGED <<dialog, stage, shed>>

\* The host dies and starts again: what it held in memory is gone, and a report
\* still in the spool is pending again, and the user is to decide again.
Undecided(r) == stage[r] \in {"pending", "shown", "approved"}

Restart ==
    /\ stage' = [r \in Report |->
          IF ~Undecided(r) THEN stage[r]
          ELSE IF Captured(r) \in spool THEN "pending" ELSE "lost"]
    /\ redacted' = [r \in Report |-> redacted[r] /\ ~Undecided(r)]
    /\ agreed' = [r \in Report |-> agreed[r] /\ ~Undecided(r)]
    /\ taking' = {}
    /\ UNCHANGED <<setup, mode, kind, holds, spool, history>>

Next ==
    \/ \E r \in Report :
          \/ HostCapture(r) \/ MonitorCapture(r)
          \/ Show(r) \/ Redact(r) \/ Agree(r) \/ AgreeAlways(r) \/ Refuse(r)
          \/ LeanSend(r) \/ TorSend(r)
    \/ \E s \in Stream, choice \in ReportingMode : with_mode(s, choice)
    \/ DrainLoad \/ DrainPost \/ Restart

Spec == Init /\ [][Next]_vars

-----------------------------------------------------------------------------
(* What must hold.                                                            *)

\* The deployments in which the spool that is drained gets approved reports only.
ApprovedOnly ==
    \A d \in Deployments : d.transport = "tor" => ~d.captureFirst /\ ~d.native

\* No report reaches the endpoint before the user has agreed to send it: "there is
\* no transmission path that does not pass through an explicit, host-minted consent
\* decision" (consent.rs:6-8).  It depends on how the drain is deployed: it holds
\* as long as nothing but an approved report is ever in the spool that it drains.
ConsentBeforeSend == \A a \in arrived : a.agreed

\* By whichever path a report is sent, and after a send that failed although it had
\* queued the report, metadata outside the allowlist stays on the device, and, where
\* the host sends what into_edited_report returns, so does what the user redacted from
\* the body.  The title and the other metadata are another matter: RedactedStays.
RedactedBodyStays ==
    \A a \in arrived :
        /\ "other" \notin a.kept
        /\ setup.edits => "body" \notin a.kept

\* "The user can read exactly what would be transmitted and redact spans they do not
\* wish to share" (preview.rs:4-5): what was redacted does not arrive.  Run
\* flow_redacted shows that a title does, which into_edited_report takes from the
\* original.  Without edits even a body does: a host that follows the sketch in the
\* integration guide sends the report that it loaded.
RedactedStays == \A a \in arrived : a.kept = {}

HasArrived(r) == \E a \in arrived : a.report = r

\* Every report is accounted for, whatever dies or fails in between: one that is done
\* has arrived, one that is queued has arrived or is still in the spool, and one that
\* was spooled before the user's decision is there until that decision is carried
\* out; except for what the code throws away knowingly: it evicts files to keep a
\* budget, drops files it cannot load or build, and takes a redirect for Sent.
KeptUntilSettled ==
    \A r \in Report \ shed :
        /\ stage[r] = "done" => HasArrived(r)
        /\ stage[r] = "queued" =>
              HasArrived(r) \/ \E f \in spool : f.report = r /\ f.version = "approved"
        /\ Undecided(r) /\ ~InMemory(r) /\ setup.transport = "lean" => Captured(r) \in spool
=============================================================================
