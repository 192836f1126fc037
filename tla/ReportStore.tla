---------------------------- MODULE ReportStore ----------------------------
(***************************************************************************)
(* What the spool promises about each report, whatever happens to the      *)
(* processes and to the machine: a report is stored in one step and whole, *)
(* or not at all, and a report that is gone does not come back.            *)
(***************************************************************************)
CONSTANT Report

VARIABLE status   \* status[r]: "new", "stored" or "gone"

TypeOK == status \in [Report -> {"new", "stored", "gone"}]

Init == status = [r \in Report |-> "new"]

Store(r) ==
  /\ status[r] = "new"
  /\ status' = [status EXCEPT ![r] = "stored"]

\* Sent, consumed or evicted; for a report that is not stored yet, given up.
Discard(r) ==
  /\ status[r] # "gone"
  /\ status' = [status EXCEPT ![r] = "gone"]

\* One crash gives up every report that is being stored.
DiscardAll(S) ==
  /\ \A r \in S : status[r] = "new"
  /\ status' = [r \in Report |-> IF r \in S THEN "gone" ELSE status[r]]

Next ==
  \/ \E r \in Report : Store(r) \/ Discard(r)
  \/ \E S \in SUBSET Report : DiscardAll(S)

Spec == Init /\ [][Next]_status
=============================================================================
