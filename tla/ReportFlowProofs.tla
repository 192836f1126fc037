-------------------------- MODULE ReportFlowProofs --------------------------
(* Proofs about ReportFlow, for any reports: where a drained spool gets only  *)
(* approved reports, nothing is sent without consent, what was redacted from  *)
(* a body stays where the host sends the edited report, and every report is   *)
(* accounted for; with enqueues that fail after the rename, files that are    *)
(* evicted or dropped, and hosts that die at any point.                       *)
EXTENDS ReportFlow, TLAPS

\* A drained spool, and the drain's hand, hold approved versions only; nothing is
\* drained otherwise.
DrainedIsApproved ==
    IF setup.transport = "tor"
    THEN \A f \in spool \cup taking : f.version = "approved"
    ELSE taking = {}

\* An approved version exists only of what the user had agreed to send by then.
ApprovedIsAgreed ==
    /\ \A r \in Report : stage[r] = "approved" => agreed[r]
    /\ \A f \in spool \cup taking : f.version = "approved" => f.agreed

\* A report that the monitor captured is not a new one.
NewIsText == \A r \in Report : stage[r] = "new" => kind[r] = "text"

\* The inductive invariant.
FlowInv ==
    /\ TypeOK
    /\ DrainedIsApproved
    /\ ApprovedIsAgreed
    /\ NewIsText
    /\ ConsentBeforeSend
    /\ RedactedBodyStays
    /\ KeptUntilSettled

-----------------------------------------------------------------------------

\* The initial states: nothing is captured, nothing has arrived.
LEMMA FlowInit == Init => FlowInv
  BY DEF Init, all_off, ReportingConfig, ReportingMode, FlowInv, TypeOK, DrainedIsApproved, ApprovedIsAgreed,
         NewIsText, ConsentBeforeSend, RedactedBodyStays, KeptUntilSettled, Undecided, Stage

\* The files that are written are files.
LEMMA FileTypes ==
    ASSUME TypeOK, NEW r \in Report
    PROVE  /\ Captured(r) \in File /\ Captured(r).report = r
           /\ Captured(r).version = "captured"
           /\ Approved(r) \in File /\ Approved(r).report = r
           /\ Approved(r).version = "approved" /\ Approved(r).agreed = agreed[r]
<1>1. Captured(r) \in File /\ Captured(r).report = r /\ Captured(r).version = "captured"
  BY DEF Captured, File
<1>2. agreed[r] \in BOOLEAN /\ redacted[r] \in BOOLEAN
  BY DEF TypeOK
<1>3. Approved(r) \in File
  BY <1>2 DEF Approved, File
<1>4. /\ Approved(r).report = r /\ Approved(r).version = "approved"
      /\ Approved(r).agreed = agreed[r]
  BY DEF Approved
<1> QED
  BY <1>1, <1>3, <1>4

\* What a step adds to arrived is an Arrival of the file's report, agreed to if
\* that file is, without metadata outside the allowlist, and without the redacted
\* body if the host edits what it sends.
LEMMA ArrivesAdds ==
    ASSUME TypeOK, NEW file \in File, file.version = "approved", Arrives(file)
    PROVE  \E a \in Arrival :
              /\ arrived' = arrived \cup {a}
              /\ a.report = file.report
              /\ a.agreed = file.agreed
              /\ "other" \notin a.kept
              /\ setup.edits => "body" \notin a.kept
<1> DEFINE a == [report |-> file.report,
                 agreed |-> IsAgreed(file),
                 kept   |-> IF IsRedacted(file) THEN OnWire(Content(file)) ELSE {}]
<1>1. file.report \in Report /\ file.agreed \in BOOLEAN
  BY DEF File
<1>2. OnWire(Content(file)) \in SUBSET Field
  BY <1>1 DEF OnWire, Content, TypeOK
<1>3. a \in Arrival
  BY <1>1, <1>2 DEF Arrival, IsAgreed
<1>4. /\ "other" \notin a.kept
      /\ setup.edits => "body" \notin a.kept
  BY DEF OnWire, Content, IsRedacted
<1>5. a.report = file.report /\ a.agreed = file.agreed
  BY DEF IsAgreed
<1> QED
  BY <1>3, <1>4, <1>5 DEF Arrives

\* The same for an approved report that the lean backend posts.
LEMMA PostedArrives ==
    ASSUME TypeOK, NEW r \in Report, agreed[r], Arrives(Approved(r))
    PROVE  \E a \in Arrival :
              /\ arrived' = arrived \cup {a}
              /\ a.report = r /\ a.agreed
              /\ "other" \notin a.kept
              /\ setup.edits => "body" \notin a.kept
<1>1. /\ Approved(r) \in File /\ Approved(r).report = r
      /\ Approved(r).version = "approved" /\ Approved(r).agreed = agreed[r]
  BY FileTypes
<1>2. PICK a \in Arrival :
        /\ arrived' = arrived \cup {a}
        /\ a.report = Approved(r).report
        /\ a.agreed = Approved(r).agreed
        /\ "other" \notin a.kept
        /\ setup.edits => "body" \notin a.kept
  BY <1>1, ArrivesAdds
<1> QED
  BY <1>1, <1>2

\* An enqueue adds its own file at most, and accounts for what it evicts
\* (spool.rs:105-126, 170-188).
LEMMA EnqueuesAccounts ==
    ASSUME TypeOK, NEW file \in File, NEW used, Enqueues(file, used)
    PROVE  /\ spool' \in SUBSET File
           /\ spool' \subseteq spool \cup {file}
           /\ shed \subseteq shed' /\ shed' \in SUBSET Report
           /\ \A f \in spool \cup {file} : f \in used \/ f \in spool' \/ f.report \in shed'
<1>1. PICK evicted \in SUBSET (spool \cup {file}) :
        /\ spool' = ((spool \cup {file}) \ evicted) \ used
        /\ shed' = shed \cup {f.report : f \in evicted}
  BY DEF Enqueues
<1>2. \A f \in evicted : f.report \in Report
  BY DEF TypeOK, File
<1> QED
  BY <1>1, <1>2 DEF TypeOK

\* The state a step leaves in one report's stage, in the files and in what arrived
\* keeps the invariant: one case per action.
LEMMA FlowStep ==
    ASSUME ApprovedOnly, FlowInv, [Next]_vars
    PROVE  FlowInv'
<1> USE DEF FlowInv, TypeOK, DrainedIsApproved, ApprovedIsAgreed, NewIsText,
            ConsentBeforeSend, RedactedBodyStays, KeptUntilSettled, HasArrived, Undecided, InMemory,
            Stage, dialog, history
<1>0. \A r \in Report :
        /\ Captured(r) \in File /\ Captured(r).report = r /\ Captured(r).version = "captured"
        /\ Captured(r)' = Captured(r)
  BY FileTypes DEF Captured
<1>1. ASSUME NEW r \in Report, HostCapture(r) PROVE FlowInv'
  <2>1. /\ stage[r] = "new" /\ kind[r] = "text"
        /\ stage' = [stage EXCEPT ![r] = "pending"]
        /\ UNCHANGED <<setup, mode, kind, redacted, agreed, taking, arrived>>
    BY <1>1 DEF HostCapture
  <2>2. holds' \in [Report -> SUBSET Field]
    BY <1>1, FlowAssumption DEF HostCapture, Previewed
  <2>3. CASE setup.captureFirst
    <3>1. setup.transport # "tor" /\ taking = {}
      BY <2>3 DEF ApprovedOnly
    <3>2. Enqueues(Captured(r), {})
      BY <1>1, <2>3 DEF HostCapture
    <3>3. /\ spool' \in SUBSET File
          /\ spool' \subseteq spool \cup {Captured(r)}
          /\ shed \subseteq shed' /\ shed' \in SUBSET Report
          /\ \A f \in spool \cup {Captured(r)} : f \in spool' \/ f.report \in shed'
      BY <1>0, <3>2, EnqueuesAccounts
    <3>4. TypeOK' /\ DrainedIsApproved' /\ NewIsText' /\ ConsentBeforeSend' /\ RedactedBodyStays'
      BY <2>1, <2>2, <3>1, <3>3
    <3>5. ApprovedIsAgreed'
      BY <1>0, <2>1, <3>1, <3>3
    <3>6. KeptUntilSettled'
      BY <1>0, <2>1, <3>1, <3>3
    <3> QED
      BY <3>4, <3>5, <3>6
  <2>4. CASE ~setup.captureFirst
    <3>1. UNCHANGED <<spool, shed>>
      BY <1>1, <2>4 DEF HostCapture
    <3>2. /\ TypeOK' /\ DrainedIsApproved' /\ NewIsText' /\ ConsentBeforeSend' /\ RedactedBodyStays'
          /\ ApprovedIsAgreed'
      BY <2>1, <2>2, <3>1
    <3>3. KeptUntilSettled'
      BY <1>0, <2>1, <2>4, <3>1
    <3> QED
      BY <3>2, <3>3
  <2> QED
    BY <2>3, <2>4
<1>2. ASSUME NEW r \in Report, MonitorCapture(r) PROVE FlowInv'
  <2>1. /\ stage[r] = "new" /\ setup.transport # "tor" /\ taking = {}
        /\ stage' = [stage EXCEPT ![r] = "pending"]
        /\ kind' = [kind EXCEPT ![r] = "dump"]
        /\ holds' \in [Report -> SUBSET Field]
        /\ UNCHANGED <<setup, mode, redacted, agreed, taking, arrived>>
    BY <1>2 DEF MonitorCapture, ApprovedOnly, Field
  <2>2. Enqueues(Captured(r), {})
    BY <1>2 DEF MonitorCapture
  <2>3. /\ spool' \in SUBSET File
        /\ spool' \subseteq spool \cup {Captured(r)}
        /\ shed \subseteq shed' /\ shed' \in SUBSET Report
        /\ \A f \in spool \cup {Captured(r)} : f \in spool' \/ f.report \in shed'
    BY <1>0, <2>2, EnqueuesAccounts
  <2> QED
    BY <1>0, <2>1, <2>3
<1>3. ASSUME NEW r \in Report, Show(r) PROVE FlowInv'
  BY <1>0, <1>3 DEF Show, Available
<1>4. ASSUME NEW r \in Report, Redact(r) PROVE FlowInv'
  BY <1>0, <1>4 DEF Redact
<1>5. ASSUME NEW r \in Report, Agree(r) PROVE FlowInv'
  BY <1>0, <1>5 DEF Agree
<1>6. ASSUME NEW r \in Report, AgreeAlways(r) PROVE FlowInv'
  BY <1>0, <1>6 DEF AgreeAlways, Available
<1>7. ASSUME NEW s \in Stream, NEW choice \in ReportingMode, with_mode(s, choice)
       PROVE FlowInv'
  BY <1>0, <1>7 DEF with_mode, ReportingConfig
<1>8. ASSUME NEW r \in Report, Refuse(r) PROVE FlowInv'
  BY <1>0, <1>8 DEF Refuse
<1>9. ASSUME NEW r \in Report, LeanSend(r) PROVE FlowInv'
  <2>1. setup.transport = "lean" /\ stage[r] = "approved" /\ agreed[r] /\ taking = {}
    BY <1>9 DEF LeanSend
  <2>2. UNCHANGED <<setup, mode, kind, holds, redacted, agreed, taking>>
    BY <1>9 DEF LeanSend
  <2>4. CASE Arrives(Approved(r)) /\ Sent(r) /\ UNCHANGED shed
    <3>1. PICK a \in Arrival :
            /\ arrived' = arrived \cup {a}
            /\ a.report = r /\ a.agreed
            /\ "other" \notin a.kept
            /\ setup.edits => "body" \notin a.kept
      BY <2>1, <2>4, PostedArrives
    <3>2. TypeOK' /\ DrainedIsApproved' /\ ApprovedIsAgreed' /\ NewIsText'
      BY <1>0, <2>1, <2>2, <2>4, <3>1 DEF Sent
    <3>3. ConsentBeforeSend' /\ RedactedBodyStays'
      BY <1>0, <2>1, <2>2, <2>4, <3>1 DEF Sent
    <3>4. KeptUntilSettled'
      BY <1>0, <2>1, <2>2, <2>4, <3>1 DEF Sent
    <3> QED
      BY <3>2, <3>3, <3>4
  <2>5. CASE Arrives(Approved(r)) /\ NotSent(r) /\ UNCHANGED shed
    <3>1. PICK a \in Arrival :
            /\ arrived' = arrived \cup {a}
            /\ a.report = r /\ a.agreed
            /\ "other" \notin a.kept
            /\ setup.edits => "body" \notin a.kept
      BY <2>1, <2>5, PostedArrives
    <3>2. TypeOK' /\ DrainedIsApproved' /\ ApprovedIsAgreed' /\ NewIsText'
      BY <1>0, <2>1, <2>2, <2>5, <3>1 DEF NotSent
    <3>3. ConsentBeforeSend' /\ RedactedBodyStays'
      BY <1>0, <2>1, <2>2, <2>5, <3>1 DEF NotSent
    <3>4. KeptUntilSettled'
      BY <1>0, <2>1, <2>2, <2>5, <3>1 DEF NotSent
    <3> QED
      BY <3>2, <3>3, <3>4
  <2>6. CASE NotSent(r) /\ UNCHANGED history
    BY <1>0, <2>1, <2>2, <2>6 DEF NotSent
  <2>7. CASE Sent(r) /\ shed' = shed \cup {r} /\ UNCHANGED arrived
    BY <1>0, <2>1, <2>2, <2>7 DEF Sent
  <2> QED
    BY <1>9, <2>4, <2>5, <2>6, <2>7 DEF LeanSend
<1>10. ASSUME NEW r \in Report, TorSend(r) PROVE FlowInv'
  <2>1. /\ setup.transport = "tor" /\ stage[r] = "approved" /\ agreed[r]
        /\ UNCHANGED <<setup, mode, kind, holds, redacted, agreed, taking, arrived>>
    BY <1>10 DEF TorSend
  <2>2. /\ Approved(r) \in File /\ Approved(r).report = r
        /\ Approved(r).version = "approved" /\ Approved(r).agreed
    BY <2>1, FileTypes
  <2>3. ASSUME NEW used, used \in {{}, {Captured(r)}}, Enqueues(Approved(r), used)
        PROVE  /\ spool' \in SUBSET File
               /\ spool' \subseteq spool \cup {Approved(r)}
               /\ shed \subseteq shed' /\ shed' \in SUBSET Report
               /\ \A f \in spool \cup {Approved(r)} :
                     f.version = "captured" \/ f \in spool' \/ f.report \in shed'
    <3>1. \A f \in spool \cup {Approved(r)} : f \in used \/ f \in spool' \/ f.report \in shed'
      BY <2>2, <2>3, EnqueuesAccounts
    <3>2. /\ spool' \in SUBSET File
          /\ spool' \subseteq spool \cup {Approved(r)}
          /\ shed \subseteq shed' /\ shed' \in SUBSET Report
      BY <2>2, <2>3, EnqueuesAccounts
    <3> QED
      BY <1>0, <2>3, <3>1, <3>2
  <2>4. CASE /\ Enqueues(Approved(r), {Captured(r)})
             /\ stage' = [stage EXCEPT ![r] = "queued"]
    <3>1. /\ spool' \in SUBSET File
          /\ spool' \subseteq spool \cup {Approved(r)}
          /\ shed \subseteq shed' /\ shed' \in SUBSET Report
          /\ \A f \in spool \cup {Approved(r)} :
                f.version = "captured" \/ f \in spool' \/ f.report \in shed'
      BY <2>3, <2>4
    <3> QED
      BY <2>1, <2>2, <2>4, <3>1
  <2>5. CASE NotSent(r) /\ UNCHANGED shed
    BY <1>0, <2>1, <2>5 DEF NotSent
  <2>6. CASE /\ Enqueues(Approved(r), {})
             /\ UNCHANGED stage
    <3>1. /\ spool' \in SUBSET File
          /\ spool' \subseteq spool \cup {Approved(r)}
          /\ shed \subseteq shed' /\ shed' \in SUBSET Report
          /\ \A f \in spool \cup {Approved(r)} :
                f.version = "captured" \/ f \in spool' \/ f.report \in shed'
      BY <2>3, <2>6
    <3> QED
      BY <2>1, <2>2, <2>6, <3>1
  <2> QED
    BY <1>10, <2>4, <2>5, <2>6 DEF TorSend
<1>11. CASE DrainLoad
  <2>1. /\ setup.transport = "tor"
        /\ UNCHANGED <<setup, mode, kind, holds, redacted, agreed, stage, arrived>>
    BY <1>11 DEF DrainLoad
  <2>2. PICK file \in spool :
          \/ taking' = {file} /\ UNCHANGED <<spool, shed>>
          \/ /\ spool' = spool \ {file}
             /\ shed' = shed \cup {file.report}
             /\ UNCHANGED taking
    BY <1>11 DEF DrainLoad
  <2>3. file \in File /\ file.report \in Report
    BY <2>2 DEF File
  <2> QED
    BY <2>1, <2>2, <2>3
<1>12. CASE DrainPost
  <2>1. PICK file \in taking :
          \/ Arrives(file) /\ (spool' = spool \ {file} \/ UNCHANGED spool)
          \/ UNCHANGED <<arrived, spool>>
    BY <1>12 DEF DrainPost
  <2>2. /\ setup.transport = "tor" /\ taking' = {} /\ file \in File
        /\ file.version = "approved" /\ file.agreed
        /\ UNCHANGED <<setup, mode, kind, holds, redacted, agreed, stage, shed>>
    BY <1>12, <2>1 DEF DrainPost
  <2>4. CASE Arrives(file) /\ (spool' = spool \ {file} \/ UNCHANGED spool)
    <3>1. PICK a \in Arrival :
            /\ arrived' = arrived \cup {a}
            /\ a.report = file.report /\ a.agreed
            /\ "other" \notin a.kept
            /\ setup.edits => "body" \notin a.kept
      BY <2>2, <2>4, ArrivesAdds
    <3>2. TypeOK' /\ DrainedIsApproved' /\ ApprovedIsAgreed' /\ NewIsText'
      BY <2>2, <2>4, <3>1
    <3>3. ConsentBeforeSend' /\ RedactedBodyStays'
      BY <2>2, <2>4, <3>1
    <3>4. KeptUntilSettled'
      BY <2>2, <2>4, <3>1
    <3> QED
      BY <3>2, <3>3, <3>4
  <2>5. CASE UNCHANGED <<arrived, spool>>
    BY <2>2, <2>5
  <2> QED
    BY <2>1, <2>4, <2>5
<1>13. CASE Restart
  BY <1>0, <1>13 DEF Restart
<1>14. CASE UNCHANGED vars
  BY <1>0, <1>14 DEF vars
<1> QED
  BY <1>1, <1>2, <1>3, <1>4, <1>5, <1>6, <1>7, <1>8, <1>9, <1>10, <1>11, <1>12, <1>13, <1>14
  DEF Next

-----------------------------------------------------------------------------

\* Every behaviour of such deployments satisfies the inductive invariant.
LEMMA FlowInvariant == ASSUME ApprovedOnly PROVE Spec => []FlowInv
<1>1. FlowInv /\ [Next]_vars => FlowInv'
  BY FlowStep
<1> QED
  BY <1>1, FlowInit, PTL DEF Spec

\* Where the spool that is drained gets approved reports only, no report reaches the
\* endpoint without the user's agreement, also when the host was told that it had not
\* been queued (consent.rs:6-8, transport.rs:288, 384-390).
THEOREM NothingUnasked == ASSUME ApprovedOnly PROVE Spec => []ConsentBeforeSend
<1>1. FlowInv => ConsentBeforeSend
  BY DEF FlowInv
<1> QED
  BY <1>1, FlowInvariant, PTL

\* There, metadata outside the allowlist is not sent (quasi.rs:98-113), nor, where the
\* host sends what into_edited_report returns, what the user redacted from the body
\* (preview.rs:86-104).
THEOREM RedactedBody == ASSUME ApprovedOnly PROVE Spec => []RedactedBodyStays
<1>1. FlowInv => RedactedBodyStays
  BY DEF FlowInv
<1> QED
  BY <1>1, FlowInvariant, PTL

\* There, every report is accounted for between its capture and its arrival, however
\* often the host dies: it is lost only to an eviction, to a file that the drain
\* cannot load or build, or to a redirect (integration guide, section 3, step 4).
THEOREM EveryReportAccountedFor == ASSUME ApprovedOnly PROVE Spec => []KeptUntilSettled
<1>1. FlowInv => KeptUntilSettled
  BY DEF FlowInv
<1> QED
  BY <1>1, FlowInvariant, PTL

=============================================================================
