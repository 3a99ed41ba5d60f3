--------------------- MODULE OrganisationLifecycleProofs ---------------------
(* Theorems about OrganisationLifecycle, for every value of its constants:   *)
(* any number of organisations and exports, and any number of settings,      *)
(* restarts and transactions rolled back.                                    *)
EXTENDS OrganisationLifecycle, TLAPS

OrgRow    == [status : {"trial", "active", "past_due", "suspended", "closed", "removed"},
              trial : {"none", "running", "over"}, closedAt : {"null", "recent", "past"},
              purged : BOOLEAN, awaiting : BOOLEAN, data : BOOLEAN]
ExportRow == [state : {"none", "asked", "pending", "running", "ready", "failed", "expired", "deleted"},
              of : Orgs \cup {NoOrg}, due : BOOLEAN]
Sweep     == [step : {"idle", "read", "purge", "commit", "expire", "unlink"}, rows : SUBSET Orgs,
              at : Orgs \cup {NoOrg}, files : SUBSET Exports]

\* What TypeOK says, in its parts.
Rows  == org \in [Orgs -> OrgRow] /\ export \in [Exports -> ExportRow] /\ sweep \in Sweep
Marks == /\ work \in [Exports -> {"no", "scheduled", "claimed", "building", "failing"}]
         /\ file \subseteq Exports /\ removal \in [Orgs -> [on : BOOLEAN, files : SUBSET Exports]]
         /\ rejecting \subseteq Orgs /\ rested \subseteq Orgs /\ amid \subseteq Orgs /\ cut \subseteq Exports
         /\ settings \in Nat /\ incidents \in Nat

LEMMA TypeParts == TypeOK <=> Rows /\ Marks
  BY DEF TypeOK, Rows, Marks, OrgRow, ExportRow, Sweep

LEMMA NewRows ==
  /\ NoRow \in ExportRow /\ Idle \in Sweep /\ Customer \in OrgRow /\ Registered \in OrgRow
  /\ [Customer EXCEPT !.status = "removed", !.data = FALSE] \in OrgRow
  BY DEF NoRow, Idle, Customer, Registered, OrgRow, ExportRow, Sweep

LEMMA TrackClosedRow ==
  ASSUME NEW row \in OrgRow, NEW s \in {"trial", "active", "past_due", "suspended", "closed"}
  PROVE  /\ TrackClosed(row, s) \in OrgRow
         /\ TrackClosed(row, s).status = s /\ TrackClosed(row, s).data = row.data
         /\ s # "closed" => TrackClosed(row, s).closedAt = "null"
         /\ s = "closed" /\ row.closedAt = "null" => TrackClosed(row, s).closedAt = "recent"
  BY DEF TrackClosed, OrgRow

LEMMA OrgEdits ==
  ASSUME NEW row \in OrgRow
  PROVE  /\ \A trial \in {"none", "running", "over"} : [row EXCEPT !.trial = trial] \in OrgRow
         /\ [row EXCEPT !.closedAt = "past"] \in OrgRow /\ [row EXCEPT !.data = TRUE] \in OrgRow
         /\ [row EXCEPT !.data = FALSE, !.purged = TRUE] \in OrgRow
         /\ [row EXCEPT !.trial = "running", !.awaiting = FALSE] \in OrgRow
  BY DEF OrgRow

LEMMA ExportEdits ==
  ASSUME NEW row \in ExportRow
  PROVE  /\ \A s \in {"pending", "running", "ready", "failed", "expired", "deleted"} :
              [row EXCEPT !.state = s] \in ExportRow
         /\ \A o \in Orgs : [row EXCEPT !.state = "asked", !.of = o] \in ExportRow
         /\ [row EXCEPT !.due = TRUE] \in ExportRow
  BY DEF ExportRow

LEMMA OrgHolds ==
  ASSUME Rows, [Next]_vars
  PROVE  org' \in [Orgs -> OrgRow]
<1>0. org \in [Orgs -> OrgRow] /\ sweep.at \in Orgs \cup {NoOrg}
  BY DEF Rows, Sweep
<1>1. ASSUME NEW o \in Orgs, NEW s \in Statuses, SetStatus(o, s) PROVE org' \in [Orgs -> OrgRow]
  <2>1. org' = [org EXCEPT ![o] = TrackClosed(org[o], s)]
    BY <1>1 DEF SetStatus
  <2>2. TrackClosed(org[o], s) \in OrgRow
    BY <1>0, TrackClosedRow, LifecycleConstants
  <2> QED BY <1>0, <2>1, <2>2
<1>2. ASSUME NEW o \in Orgs, NEW trial \in {"none", "running"}, SetTrial(o, trial)
      PROVE  org' \in [Orgs -> OrgRow]
  <2>1. org' = [org EXCEPT ![o] = [org[o] EXCEPT !.trial = trial]]
    BY <1>2 DEF SetTrial
  <2>2. [org[o] EXCEPT !.trial = trial] \in OrgRow
    BY <1>0, OrgEdits
  <2> QED BY <1>0, <2>1, <2>2
<1>3. ASSUME NEW o \in Orgs, Approve(o) PROVE org' \in [Orgs -> OrgRow]
  <2> DEFINE t == TrackClosed(org[o], "trial")
  <2>1. org' = [org EXCEPT ![o] = [t EXCEPT !.trial = "running", !.awaiting = FALSE]]
    BY <1>3 DEF Approve
  <2>2. t \in OrgRow
    BY <1>0, TrackClosedRow
  <2> HIDE DEF t
  <2>3. [t EXCEPT !.trial = "running", !.awaiting = FALSE] \in OrgRow
    BY <2>2, OrgEdits
  <2> QED BY <1>0, <2>1, <2>3
<1>4. ASSUME NEW o \in Orgs, CommitRemoval(o) PROVE org' \in [Orgs -> OrgRow]
  <2>1. org' = [org EXCEPT ![o] = [Customer EXCEPT !.status = "removed", !.data = FALSE]]
    BY <1>4 DEF CommitRemoval
  <2>2. [Customer EXCEPT !.status = "removed", !.data = FALSE] \in OrgRow
    BY <1>0, NewRows
  <2> QED BY <1>0, <2>1, <2>2
<1>5. ASSUME NEW o \in Orgs, TrialRunsOut(o) PROVE org' \in [Orgs -> OrgRow]
  <2>1. org' = [org EXCEPT ![o] = [org[o] EXCEPT !.trial = "over"]]
    BY <1>5 DEF TrialRunsOut
  <2>2. [org[o] EXCEPT !.trial = "over"] \in OrgRow
    BY <1>0, OrgEdits
  <2> QED BY <1>0, <2>1, <2>2
<1>6. ASSUME NEW o \in Orgs, RetentionPasses(o) PROVE org' \in [Orgs -> OrgRow]
  <2>1. org' = [org EXCEPT ![o] = [org[o] EXCEPT !.closedAt = "past"]]
    BY <1>6 DEF RetentionPasses
  <2>2. [org[o] EXCEPT !.closedAt = "past"] \in OrgRow
    BY <1>0, OrgEdits
  <2> QED BY <1>0, <2>1, <2>2
<1>7. ASSUME NEW o \in Orgs, Produce(o) PROVE org' \in [Orgs -> OrgRow]
  <2>1. org' = [org EXCEPT ![o] = [org[o] EXCEPT !.data = TRUE]]
    BY <1>7 DEF Produce
  <2>2. [org[o] EXCEPT !.data = TRUE] \in OrgRow
    BY <1>0, OrgEdits
  <2> QED BY <1>0, <2>1, <2>2
<1>8. CASE ExpireTrials
  <2>1. \A o \in Orgs : TrackClosed(org[o], "past_due") \in OrgRow
    BY <1>0, TrackClosedRow
  <2>2. org' = [o \in Orgs |-> IF org[o].status = "trial" /\ org[o].trial = "over"
                               THEN TrackClosed(org[o], "past_due") ELSE org[o]]
    BY <1>8 DEF ExpireTrials
  <2> QED BY <1>0, <2>1, <2>2
<1>9. CASE CommitPurge
  <2>1. CASE sweep.at \in Orgs
    <3>1. org' = [org EXCEPT ![sweep.at] = [org[sweep.at] EXCEPT !.data = FALSE, !.purged = TRUE]]
      BY <1>0, <1>9, <2>1 DEF CommitPurge, OrgRow
    <3>2. [org[sweep.at] EXCEPT !.data = FALSE, !.purged = TRUE] \in OrgRow
      BY <1>0, <2>1, OrgEdits
    <3> QED BY <1>0, <2>1, <3>1, <3>2
  <2>2. CASE sweep.at \notin Orgs
    <3>1. org' = org
      BY <1>0, <1>9, <2>2 DEF CommitPurge
    <3> QED BY <1>0, <3>1
  <2> QED BY <2>1, <2>2
<1>10. CASE UNCHANGED org
  BY <1>0, <1>10
<1> QED
  BY <1>1, <1>2, <1>3, <1>4, <1>5, <1>6, <1>7, <1>8, <1>9, <1>10
  DEF Next, SweepStep, Build, vars, past, Reject, AskExport, ReadClosed,
      UnlinkFiles, PurgeFails, PurgesDone, ExpireExports, UnlinkExpired,
      InsertExport, ClaimExport, OpenExport, EndExport, FinishExport, FailExport, RecordFailure, RejectExport,
      ExportAges, Restart, BeginRemoval, RemovalFails, SweepRejects

LEMMA ExportHolds ==
  ASSUME Rows, [Next]_vars
  PROVE  export' \in [Exports -> ExportRow]
<1>0. /\ export \in [Exports -> ExportRow]
      /\ \A e \in Exports, s \in {"pending", "running", "ready", "failed", "expired", "deleted"} :
           [export[e] EXCEPT !.state = s] \in ExportRow
  BY ExportEdits DEF Rows
<1>1. ASSUME NEW o \in Orgs, CommitRemoval(o) PROVE export' \in [Exports -> ExportRow]
  <2>1. export' = [x \in Exports |-> IF export[x].of = o /\ export[x].state # "asked"
                              THEN [export[x] EXCEPT !.state = "deleted"] ELSE export[x]]
    BY <1>1 DEF CommitRemoval, DeleteExports
  <2> QED BY <1>0, <2>1
<1>2. ASSUME NEW o \in Orgs, NEW e \in Exports, AskExport(e, o) PROVE export' \in [Exports -> ExportRow]
  <2>1. export' = [export EXCEPT ![e] = [export[e] EXCEPT !.state = "asked", !.of = o]]
    BY <1>2 DEF AskExport
  <2>2. [export[e] EXCEPT !.state = "asked", !.of = o] \in ExportRow
    BY <1>0, ExportEdits
  <2> QED BY <1>0, <2>1, <2>2
<1>3. CASE CommitPurge
  <2>1. export' = [x \in Exports |-> IF export[x].of = sweep.at /\ export[x].state # "asked"
                              THEN [export[x] EXCEPT !.state = "deleted"] ELSE export[x]]
    BY <1>3 DEF CommitPurge, DeleteExports
  <2> QED BY <1>0, <2>1
<1>4. CASE ExpireExports
  <2>1. export' = [x \in Exports |-> IF export[x].state = "ready" /\ export[x].due
                              THEN [export[x] EXCEPT !.state = "expired"] ELSE export[x]]
    BY <1>4 DEF ExpireExports
  <2> QED BY <1>0, <2>1
<1>5. ASSUME NEW e \in Exports, InsertExport(e) PROVE export' \in [Exports -> ExportRow]
  <2>1. \/ export' = [export EXCEPT ![e] = [export[e] EXCEPT !.state = "deleted"]]
        \/ export' = [export EXCEPT ![e] = [export[e] EXCEPT !.state = "pending"]]
    BY <1>5 DEF InsertExport
  <2> QED BY <1>0, <2>1
<1>6. ASSUME NEW e \in Exports, ClaimExport(e) PROVE export' \in [Exports -> ExportRow]
  <2>1. export' = export \/ export' = [export EXCEPT ![e] = [export[e] EXCEPT !.state = "running"]]
    BY <1>6 DEF ClaimExport
  <2> QED BY <1>0, <2>1
<1>7. ASSUME NEW e \in Exports, FinishExport(e) PROVE export' \in [Exports -> ExportRow]
  <2>1. export' = export \/ export' = [export EXCEPT ![e] = [export[e] EXCEPT !.state = "ready"]]
    BY <1>7 DEF FinishExport, EndExport
  <2> QED BY <1>0, <2>1
<1>8. ASSUME NEW e \in Exports, RecordFailure(e) PROVE export' \in [Exports -> ExportRow]
  <2>1. export' = export \/ export' = [export EXCEPT ![e] = [export[e] EXCEPT !.state = "failed"]]
    BY <1>8 DEF RecordFailure, EndExport
  <2> QED BY <1>0, <2>1
<1>9. ASSUME NEW e \in Exports, ExportAges(e) PROVE export' \in [Exports -> ExportRow]
  <2>1. export' = [export EXCEPT ![e] = [export[e] EXCEPT !.due = TRUE]]
    BY <1>9 DEF ExportAges
  <2>2. [export[e] EXCEPT !.due = TRUE] \in ExportRow
    BY <1>0, ExportEdits
  <2> QED BY <1>0, <2>1, <2>2
<1>10. CASE Restart
  <2>1. export' = [x \in Exports |-> IF export[x].state = "asked" THEN NoRow ELSE export[x]]
    BY <1>10 DEF Restart
  <2> QED BY <1>0, <2>1, NewRows
<1>11. CASE UNCHANGED export
  BY <1>0, <1>11
<1> QED
  BY <1>1, <1>2, <1>3, <1>4, <1>5, <1>6, <1>7, <1>8, <1>9, <1>10, <1>11
  DEF Next, SweepStep, Build, vars, past, SetStatus, SetTrial, Approve, Reject,
      BeginRemoval, RemovalFails, TrialRunsOut, RetentionPasses, Produce, ExpireTrials, ReadClosed,
      UnlinkFiles, PurgeFails, PurgesDone, UnlinkExpired, SweepRejects, OpenExport, FailExport, RejectExport

LEMMA SweepHolds ==
  ASSUME Rows, [Next]_vars
  PROVE  sweep' \in Sweep
<1>0. sweep \in Sweep
  BY DEF Rows
<1>1. CASE ExpireTrials
  <2>1. sweep' = [sweep EXCEPT !.step = "read"]
    BY <1>1 DEF ExpireTrials
  <2> QED BY <1>0, <2>1 DEF Sweep
<1>2. CASE ReadClosed
  <2>1. PICK rows \in SUBSET Orgs : sweep' = [sweep EXCEPT !.step = "purge", !.rows = rows]
    BY <1>2 DEF ReadClosed
  <2> QED BY <1>0, <2>1 DEF Sweep
<1>3. ASSUME NEW o \in Orgs, UnlinkFiles(o) PROVE sweep' \in Sweep
  <2>1. PICK files \in SUBSET Exports :
          sweep' = [sweep EXCEPT !.step = "commit", !.rows = sweep.rows \ {o}, !.at = o, !.files = files]
    BY <1>3 DEF UnlinkFiles, Named, ExportsOf
  <2> QED BY <1>0, <2>1 DEF Sweep
<1>4. CASE CommitPurge
  <2>1. sweep' = [sweep EXCEPT !.step = "purge", !.at = NoOrg, !.files = {}]
    BY <1>4 DEF CommitPurge, NextRow
  <2> QED BY <1>0, <2>1 DEF Sweep
<1>5. CASE PurgeFails
  <2>1. sweep' = [sweep EXCEPT !.step = "purge", !.at = NoOrg, !.files = {}]
    BY <1>5 DEF PurgeFails, NextRow
  <2> QED BY <1>0, <2>1 DEF Sweep
<1>6. CASE PurgesDone
  <2>1. sweep' = [sweep EXCEPT !.step = "expire"]
    BY <1>6 DEF PurgesDone
  <2> QED BY <1>0, <2>1 DEF Sweep
<1>7. CASE ExpireExports
  <2>1. PICK files \in SUBSET Exports : sweep' = [sweep EXCEPT !.step = "unlink", !.files = files]
    BY <1>7 DEF ExpireExports
  <2> QED BY <1>0, <2>1 DEF Sweep
<1>8. CASE UnlinkExpired
  BY <1>8, NewRows DEF UnlinkExpired
<1>9. CASE Restart
  BY <1>9, NewRows DEF Restart
<1>10. CASE SweepRejects
  <2>1. sweep' = Idle \/ \E step \in {"read", "expire"} : sweep' = [sweep EXCEPT !.step = step]
    BY <1>10 DEF SweepRejects
  <2> QED BY <1>0, <2>1, NewRows DEF Sweep
<1>11. CASE UNCHANGED sweep
  BY <1>0, <1>11
<1> QED
  BY <1>1, <1>2, <1>3, <1>4, <1>5, <1>6, <1>7, <1>8, <1>9, <1>10, <1>11
  DEF Next, SweepStep, Build, vars, past, SetStatus, SetTrial, Approve, Reject,
      BeginRemoval, CommitRemoval, RemovalFails, TrialRunsOut, RetentionPasses, Produce, AskExport,
      InsertExport, ClaimExport, OpenExport, EndExport, FinishExport, FailExport, RecordFailure,
      RejectExport, ExportAges

LEMMA MarksHold ==
  ASSUME Rows, Marks, [Next]_vars
  PROVE  Marks'
<1> USE DEF Marks, past
<1>1. ASSUME NEW o \in Orgs, NEW s \in Statuses, SetStatus(o, s) PROVE Marks'
  BY <1>1 DEF SetStatus, Setting, Reopened
<1>2. ASSUME NEW o \in Orgs, NEW trial \in {"none", "running"}, SetTrial(o, trial) PROVE Marks'
  BY <1>2 DEF SetTrial, Setting
<1>3. ASSUME NEW o \in Orgs, Approve(o) PROVE Marks'
  BY <1>3 DEF Approve, Reopened
<1>4. ASSUME NEW o \in Orgs, Reject(o) PROVE Marks'
  BY <1>4 DEF Reject
<1>5. ASSUME NEW o \in Orgs, CommitRemoval(o) PROVE Marks'
  BY <1>5 DEF CommitRemoval, NoRemoval, DeleteExports, ExportsOf
<1>6. ASSUME NEW o \in Orgs, TrialRunsOut(o) PROVE Marks'
  BY <1>6 DEF TrialRunsOut
<1>7. ASSUME NEW o \in Orgs, RetentionPasses(o) PROVE Marks'
  BY <1>7 DEF RetentionPasses
<1>8. ASSUME NEW o \in Orgs, Produce(o) PROVE Marks'
  BY <1>8 DEF Produce
<1>9. ASSUME NEW o \in Orgs, NEW e \in Exports, AskExport(e, o) PROVE Marks'
  BY <1>9 DEF AskExport, Setting
<1>10. CASE ExpireTrials
  BY <1>10 DEF ExpireTrials
<1>11. CASE ReadClosed
  BY <1>11 DEF ReadClosed
<1>12. ASSUME NEW o \in Orgs, UnlinkFiles(o) PROVE Marks'
  BY <1>12 DEF UnlinkFiles
<1>13. CASE CommitPurge
  BY <1>13 DEF CommitPurge, NextRow, DeleteExports, ExportsOf
<1>14. CASE PurgeFails
  <2>1. incidents' \in Nat
    BY <1>14 DEF PurgeFails, Incident
  <2>2. sweep.files \subseteq Exports
    BY DEF Rows, Sweep
  <2> QED BY <1>14, <2>1, <2>2 DEF PurgeFails, NextRow
<1>15. CASE PurgesDone
  BY <1>15 DEF PurgesDone
<1>16. CASE ExpireExports
  BY <1>16 DEF ExpireExports
<1>17. CASE UnlinkExpired
  BY <1>17 DEF UnlinkExpired
<1>18. ASSUME NEW e \in Exports, InsertExport(e) PROVE Marks'
  BY <1>18 DEF InsertExport
<1>19. ASSUME NEW e \in Exports, ClaimExport(e) PROVE Marks'
  BY <1>19 DEF ClaimExport
<1>20. ASSUME NEW e \in Exports, FinishExport(e) PROVE Marks'
  BY <1>20 DEF FinishExport, EndExport
<1>21. ASSUME NEW e \in Exports, FailExport(e) PROVE Marks'
  BY <1>21 DEF FailExport
<1>22. ASSUME NEW e \in Exports, ExportAges(e) PROVE Marks'
  BY <1>22 DEF ExportAges
<1>23. CASE Restart
  <2>1. incidents' \in Nat
    BY <1>23 DEF Restart, Incident
  <2> QED BY <1>23, <2>1 DEF Restart, NoRemoval
<1>24. CASE UNCHANGED vars
  BY <1>24 DEF vars, past
<1>25. ASSUME NEW o \in Orgs, BeginRemoval(o) PROVE Marks'
  <2>1. settings' \in Nat /\ Named(o) \subseteq Exports
    BY <1>25 DEF BeginRemoval, Setting, Named, ExportsOf
  <2> QED BY <1>25, <2>1 DEF BeginRemoval
<1>26. ASSUME NEW o \in Orgs, RemovalFails(o) PROVE Marks'
  BY <1>26 DEF RemovalFails, NoRemoval, Incident
<1>27. CASE SweepRejects
  BY <1>27 DEF SweepRejects, Incident
<1>28. ASSUME NEW e \in Exports, OpenExport(e) PROVE Marks'
  BY <1>28 DEF OpenExport
<1>29. ASSUME NEW e \in Exports, RecordFailure(e) PROVE Marks'
  BY <1>29 DEF RecordFailure, EndExport
<1>30. ASSUME NEW e \in Exports, RejectExport(e) PROVE Marks'
  BY <1>30 DEF RejectExport, Incident
<1> QED
  BY <1>1, <1>2, <1>3, <1>4, <1>5, <1>6, <1>7, <1>8, <1>9, <1>10, <1>11, <1>12, <1>13, <1>14, <1>15,
     <1>16, <1>17, <1>18, <1>19, <1>20, <1>21, <1>22, <1>23, <1>24, <1>25, <1>26, <1>27, <1>28, <1>29, <1>30
  DEF Next, SweepStep, Build

LEMMA TypesHold == Rows /\ Marks /\ [Next]_vars => Rows' /\ Marks'
  BY OrgHolds, ExportHolds, SweepHolds, MarksHold DEF Rows

LEMMA TypesInit == Init => Rows /\ Marks
<1> SUFFICES ASSUME Init PROVE Rows /\ Marks
  OBVIOUS
<1>1. org \in [Orgs -> OrgRow] /\ export \in [Exports -> ExportRow] /\ sweep \in Sweep
  BY NewRows DEF Init
<1>2. Marks
  BY DEF Init, Marks, NoRemoval
<1> QED BY <1>1, <1>2 DEF Rows

\* Types, of every reachable state: of the rows, the files and the histories.
THEOREM TypeCorrect == Spec => []TypeOK
<1>1. Rows /\ Marks => TypeOK
  BY TypeParts
<1> QED BY <1>1, TypesInit, TypesHold, PTL DEF Spec

-----------------------------------------------------------------------------
(* Rest.  closed_at is set only while closed, and is past only once the      *)
(* organisation has rested; an organisation the sweep has before it has      *)
(* rested, or was reopened or removed since the sweep read it.               *)
Closed  == \A o \in Orgs : /\ org[o].status # "closed" => org[o].closedAt = "null"
                           /\ org[o].closedAt = "past" => o \in rested
InSweep(o) == \/ sweep.step \in {"purge", "commit"} /\ o \in sweep.rows
              \/ sweep.step = "commit" /\ o = sweep.at
Swept   == /\ \A o \in Orgs : InSweep(o) => o \in rested \cup amid \/ org[o].status = "removed"
           /\ sweep.step = "commit" => sweep.at \in Orgs /\ sweep.at \notin sweep.rows
RestInv == Closed /\ Swept

\* An edit of one organisation's row.
LEMMA OneOrg ==
  ASSUME Rows, NEW o \in Orgs, NEW row \in OrgRow, org' = [org EXCEPT ![o] = row]
  PROVE  org'[o] = row /\ \A p \in Orgs : p # o => org'[p] = org[p]
  BY DEF Rows

LEMMA RestHolds ==
  ASSUME Rows, RestInv, [Next]_vars
  PROVE  RestInv'
<1>0. org \in [Orgs -> OrgRow] /\ sweep \in Sweep
  BY DEF Rows
<1>1. ASSUME NEW o \in Orgs, NEW s \in Statuses, SetStatus(o, s) PROVE RestInv'
  <2> DEFINE row == TrackClosed(org[o], s)
  <2>1. org' = [org EXCEPT ![o] = row] /\ s # org[o].status
    BY <1>1 DEF SetStatus
  <2>2. row \in OrgRow /\ row.status = s
        /\ row.closedAt = IF s = "closed" THEN "recent" ELSE "null"
    BY <1>0, <2>1, TrackClosedRow, LifecycleConstants DEF RestInv, Closed
  <2> HIDE DEF row
  <2>3. org'[o] = row /\ \A p \in Orgs : p # o => org'[p] = org[p]
    BY <2>1, <2>2, OneOrg
  <2>4. Closed'
    BY <1>1, <2>2, <2>3 DEF SetStatus, Reopened, RestInv, Closed
  <2>5. Swept'
    BY <1>1, <2>3 DEF SetStatus, Reopened, RestInv, Swept, InSweep
  <2> QED BY <2>4, <2>5 DEF RestInv
<1>2. ASSUME NEW o \in Orgs, NEW trial \in {"none", "running"}, SetTrial(o, trial) PROVE RestInv'
  <2>1. org' = [org EXCEPT ![o] = [org[o] EXCEPT !.trial = trial]]
    BY <1>2 DEF SetTrial
  <2>2. /\ [org[o] EXCEPT !.trial = trial] \in OrgRow
        /\ [org[o] EXCEPT !.trial = trial].status = org[o].status
        /\ [org[o] EXCEPT !.trial = trial].closedAt = org[o].closedAt
    BY <1>0 DEF OrgRow
  <2>3. /\ org'[o].status = org[o].status
        /\ org'[o].closedAt = org[o].closedAt
        /\ \A p \in Orgs : p # o => org'[p] = org[p]
    BY <2>1, <2>2, OneOrg
  <2> QED BY <1>2, <2>3 DEF SetTrial, RestInv, Closed, Swept, InSweep, past
<1>3. ASSUME NEW o \in Orgs, Approve(o) PROVE RestInv'
  <2> DEFINE t == TrackClosed(org[o], "trial")
           row == [t EXCEPT !.trial = "running", !.awaiting = FALSE]
  <2>1. org' = [org EXCEPT ![o] = row]
    BY <1>3 DEF Approve
  <2>2. t \in OrgRow /\ t.status = "trial" /\ t.closedAt = "null"
    BY <1>0, TrackClosedRow
  <2> HIDE DEF t
  <2>3. row \in OrgRow /\ row.status = "trial" /\ row.closedAt = "null"
    BY <2>2 DEF OrgRow
  <2> HIDE DEF row
  <2>4. org'[o] = row /\ \A p \in Orgs : p # o => org'[p] = org[p]
    BY <2>1, <2>3, OneOrg
  <2>5. Closed'
    BY <1>3, <2>3, <2>4 DEF Approve, Reopened, RestInv, Closed
  <2>6. Swept'
    BY <1>3, <2>4 DEF Approve, Reopened, RestInv, Swept, InSweep
  <2> QED BY <2>5, <2>6 DEF RestInv
<1>4. ASSUME NEW o \in Orgs, CommitRemoval(o) PROVE RestInv'
  <2> DEFINE row == [Customer EXCEPT !.status = "removed", !.data = FALSE]
  <2>1. org' = [org EXCEPT ![o] = row]
    BY <1>4 DEF CommitRemoval
  <2>2. row \in OrgRow /\ row.status = "removed" /\ row.closedAt = "null"
    BY NewRows DEF Customer
  <2> HIDE DEF row
  <2>3. org'[o] = row /\ \A p \in Orgs : p # o => org'[p] = org[p]
    BY <2>1, <2>2, OneOrg
  <2> QED BY <1>4, <2>2, <2>3 DEF CommitRemoval, RestInv, Closed, Swept, InSweep
<1>5. ASSUME NEW o \in Orgs, TrialRunsOut(o) PROVE RestInv'
  <2>1. org' = [org EXCEPT ![o] = [org[o] EXCEPT !.trial = "over"]]
    BY <1>5 DEF TrialRunsOut
  <2>2. /\ [org[o] EXCEPT !.trial = "over"] \in OrgRow
        /\ [org[o] EXCEPT !.trial = "over"].status = org[o].status
        /\ [org[o] EXCEPT !.trial = "over"].closedAt = org[o].closedAt
    BY <1>0 DEF OrgRow
  <2>3. /\ org'[o].status = org[o].status
        /\ org'[o].closedAt = org[o].closedAt
        /\ \A p \in Orgs : p # o => org'[p] = org[p]
    BY <2>1, <2>2, OneOrg
  <2> QED BY <1>5, <2>3 DEF TrialRunsOut, RestInv, Closed, Swept, InSweep, past
<1>6. ASSUME NEW o \in Orgs, RetentionPasses(o) PROVE RestInv'
  <2>1. org' = [org EXCEPT ![o] = [org[o] EXCEPT !.closedAt = "past"]]
    BY <1>6 DEF RetentionPasses
  <2>2. /\ [org[o] EXCEPT !.closedAt = "past"] \in OrgRow
        /\ [org[o] EXCEPT !.closedAt = "past"].status = org[o].status
        /\ [org[o] EXCEPT !.closedAt = "past"].closedAt = "past"
    BY <1>0 DEF OrgRow
  <2>3. /\ org'[o].status = org[o].status
        /\ org'[o].closedAt = "past"
        /\ \A p \in Orgs : p # o => org'[p] = org[p]
    BY <2>1, <2>2, OneOrg
  <2> QED BY <1>6, <2>3 DEF RetentionPasses, RestInv, Closed, Swept, InSweep, past
<1>7. ASSUME NEW o \in Orgs, Produce(o) PROVE RestInv'
  <2>1. org' = [org EXCEPT ![o] = [org[o] EXCEPT !.data = TRUE]]
    BY <1>7 DEF Produce
  <2>2. /\ [org[o] EXCEPT !.data = TRUE] \in OrgRow
        /\ [org[o] EXCEPT !.data = TRUE].status = org[o].status
        /\ [org[o] EXCEPT !.data = TRUE].closedAt = org[o].closedAt
    BY <1>0 DEF OrgRow
  <2>3. /\ org'[o].status = org[o].status
        /\ org'[o].closedAt = org[o].closedAt
        /\ \A p \in Orgs : p # o => org'[p] = org[p]
    BY <2>1, <2>2, OneOrg
  <2> QED BY <1>7, <2>3 DEF Produce, RestInv, Closed, Swept, InSweep, past
<1>8. CASE ExpireTrials
  <2>1. \A o \in Orgs : org'[o] = org[o] \/ (org'[o].status = "past_due" /\ org'[o].closedAt = "null")
    <3>1. \A o \in Orgs : LET t == TrackClosed(org[o], "past_due") IN t.status = "past_due" /\ t.closedAt = "null"
      BY <1>0, TrackClosedRow
    <3> QED BY <1>8, <3>1 DEF ExpireTrials
  <2>2. sweep'.step = "read" /\ UNCHANGED <<rested, amid>>
    BY <1>0, <1>8 DEF ExpireTrials, Sweep, past
  <2> QED BY <2>1, <2>2 DEF RestInv, Closed, Swept, InSweep
<1>9. CASE ReadClosed
  <2>1. /\ sweep'.step = "purge" /\ UNCHANGED <<org, rested, amid>>
        /\ sweep'.rows = {o \in Orgs : org[o].status = "closed" /\ ~org[o].purged /\ org[o].closedAt = "past"}
    BY <1>0, <1>9 DEF ReadClosed, Sweep, past
  <2> QED BY <2>1 DEF RestInv, Closed, Swept, InSweep
<1>10. ASSUME NEW o \in Orgs, UnlinkFiles(o) PROVE RestInv'
  <2>1. /\ sweep.step = "purge" /\ o \in sweep.rows /\ UNCHANGED <<org, rested,
                                                                   amid>>
        /\ sweep'.step = "commit" /\ sweep'.rows = sweep.rows \ {o} /\ sweep'.at = o
    BY <1>0, <1>10 DEF UnlinkFiles, Sweep, past
  <2> QED BY <2>1 DEF RestInv, Closed, Swept, InSweep
<1>11. CASE CommitPurge
  <2>1. /\ sweep.step = "commit" /\ sweep.at \in Orgs /\ sweep.at \notin sweep.rows
        /\ sweep'.step = "purge" /\ sweep'.rows = sweep.rows /\ amid' = amid \ {sweep.at} /\ rested' = rested
    BY <1>0, <1>11 DEF CommitPurge, NextRow, Sweep, RestInv, Swept
  <2> DEFINE row == [org[sweep.at] EXCEPT !.data = FALSE, !.purged = TRUE]
  <2>2. org' = [org EXCEPT ![sweep.at] = row]
    BY <1>0, <1>11, <2>1 DEF CommitPurge, OrgRow
  <2>3. row \in OrgRow /\ row.status = org[sweep.at].status /\ row.closedAt = org[sweep.at].closedAt
    BY <1>0, <2>1 DEF OrgRow
  <2> HIDE DEF row
  <2>4. \A p \in Orgs : org'[p].status = org[p].status /\ org'[p].closedAt = org[p].closedAt
    BY <2>1, <2>2, <2>3, OneOrg
  <2> QED BY <2>1, <2>4 DEF RestInv, Closed, Swept, InSweep
<1>12. CASE PurgeFails
  <2>1. /\ sweep.step = "commit" /\ sweep.at \notin sweep.rows /\ UNCHANGED <<org,
                                                                              rested>>
        /\ sweep'.step = "purge" /\ sweep'.rows = sweep.rows /\ amid' = amid \ {sweep.at}
    BY <1>0, <1>12 DEF PurgeFails, NextRow, Sweep, RestInv, Swept
  <2> QED BY <2>1 DEF RestInv, Closed, Swept, InSweep
<1>13. CASE PurgesDone
  <2>1. sweep'.step = "expire" /\ UNCHANGED <<org, rested, amid>>
    BY <1>0, <1>13 DEF PurgesDone, Sweep, past
  <2> QED BY <2>1 DEF RestInv, Closed, Swept, InSweep
<1>14. CASE ExpireExports
  <2>1. sweep'.step = "unlink" /\ UNCHANGED <<org, rested, amid>>
    BY <1>0, <1>14 DEF ExpireExports, Sweep, past
  <2> QED BY <2>1 DEF RestInv, Closed, Swept, InSweep
<1>15. CASE UnlinkExpired
  <2>1. sweep'.step = "idle" /\ UNCHANGED <<org, rested, amid>>
    BY <1>0, <1>15 DEF UnlinkExpired, Sweep, past, Idle
  <2> QED BY <2>1 DEF RestInv, Closed, Swept, InSweep
<1>16. CASE Restart
  <2>1. sweep'.step = "idle" /\ UNCHANGED <<org, rested>>
    BY <1>16 DEF Restart, Idle
  <2> QED BY <2>1 DEF RestInv, Closed, Swept, InSweep
<1>17. CASE UNCHANGED <<org, sweep, rested, amid>>
  BY <1>17 DEF RestInv, Closed, Swept, InSweep
<1>18. CASE SweepRejects
  <2>1. sweep'.step \in {"idle", "read", "expire"} /\ UNCHANGED <<org, rested,
                                                                  amid>>
    BY <1>0, <1>18 DEF SweepRejects, Sweep, past, Idle
  <2> QED BY <2>1 DEF RestInv, Closed, Swept, InSweep
<1> QED
  BY <1>1, <1>2, <1>3, <1>4, <1>5, <1>6, <1>7, <1>8, <1>9, <1>10, <1>11, <1>12, <1>13, <1>14, <1>15,
     <1>16, <1>17, <1>18
  DEF Next, SweepStep, Build, vars, past, Reject, BeginRemoval, RemovalFails, AskExport, InsertExport,
      ClaimExport, OpenExport, EndExport, FinishExport, FailExport, RecordFailure, RejectExport, ExportAges

LEMMA RestInit == Init => RestInv
<1> SUFFICES ASSUME Init PROVE RestInv
  OBVIOUS
<1>1. \A o \in Orgs : org[o].closedAt = "null"
  <2>1. Customer.closedAt = "null" /\ Registered.closedAt = "null"
    BY DEF Customer, Registered
  <2> QED BY <2>1 DEF Init
<1>2. sweep.step = "idle"
  BY DEF Init, Idle
<1> QED BY <1>1, <1>2 DEF RestInv, Closed, Swept, InSweep

LEMMA PurgeStep ==
  ASSUME Rows, RestInv, [Next]_vars
  PROVE  \A p \in Orgs : org[p].data /\ ~org'[p].data =>
                            p \in rested \cup amid \/ org'[p].status = "removed"
<1> DEFINE Rested == \A p \in Orgs : org[p].data /\ ~org'[p].data =>
                     p \in rested \cup amid \/ org'[p].status = "removed"
<1> SUFFICES Rested
  OBVIOUS
<1>0. org \in [Orgs -> OrgRow] /\ sweep \in Sweep
  BY DEF Rows
<1>1. ASSUME NEW o \in Orgs, NEW s \in Statuses, SetStatus(o, s) PROVE Rested
  <2> DEFINE row == TrackClosed(org[o], s)
  <2>1. row \in OrgRow /\ row.data = org[o].data
    BY <1>0, TrackClosedRow, LifecycleConstants
  <2>2. org' = [org EXCEPT ![o] = row]
    BY <1>1 DEF SetStatus
  <2> HIDE DEF row
  <2> QED BY <2>1, <2>2, OneOrg
<1>2. ASSUME NEW o \in Orgs, NEW trial \in {"none", "running"}, SetTrial(o, trial) PROVE Rested
  <2>1. /\ org' = [org EXCEPT ![o] = [org[o] EXCEPT !.trial = trial]]
        /\ [org[o] EXCEPT !.trial = trial] \in OrgRow
        /\ [org[o] EXCEPT !.trial = trial].data = org[o].data
    BY <1>0, <1>2 DEF SetTrial, OrgRow
  <2> QED BY <2>1, OneOrg
<1>3. ASSUME NEW o \in Orgs, Approve(o) PROVE Rested
  <2> DEFINE t == TrackClosed(org[o], "trial")
           row == [t EXCEPT !.trial = "running", !.awaiting = FALSE]
  <2>1. org' = [org EXCEPT ![o] = row]
    BY <1>3 DEF Approve
  <2>2. t \in OrgRow /\ t.data = org[o].data
    BY <1>0, TrackClosedRow
  <2> HIDE DEF t
  <2>3. row \in OrgRow /\ row.data = org[o].data
    BY <2>2 DEF OrgRow
  <2> HIDE DEF row
  <2> QED BY <2>1, <2>3, OneOrg
<1>4. ASSUME NEW o \in Orgs, CommitRemoval(o) PROVE Rested
  <2> DEFINE row == [Customer EXCEPT !.status = "removed", !.data = FALSE]
  <2>1. row \in OrgRow /\ row.status = "removed"
    BY NewRows DEF Customer
  <2>2. org' = [org EXCEPT ![o] = row]
    BY <1>4 DEF CommitRemoval
  <2> HIDE DEF row
  <2> QED BY <2>1, <2>2, OneOrg
<1>5. ASSUME NEW o \in Orgs, TrialRunsOut(o) PROVE Rested
  <2>1. /\ org' = [org EXCEPT ![o] = [org[o] EXCEPT !.trial = "over"]]
        /\ [org[o] EXCEPT !.trial = "over"] \in OrgRow
        /\ [org[o] EXCEPT !.trial = "over"].data = org[o].data
    BY <1>0, <1>5 DEF TrialRunsOut, OrgRow
  <2> QED BY <2>1, OneOrg
<1>6. ASSUME NEW o \in Orgs, RetentionPasses(o) PROVE Rested
  <2>1. /\ org' = [org EXCEPT ![o] = [org[o] EXCEPT !.closedAt = "past"]]
        /\ [org[o] EXCEPT !.closedAt = "past"] \in OrgRow
        /\ [org[o] EXCEPT !.closedAt = "past"].data = org[o].data
    BY <1>0, <1>6 DEF RetentionPasses, OrgRow
  <2> QED BY <2>1, OneOrg
<1>7. ASSUME NEW o \in Orgs, Produce(o) PROVE Rested
  <2> DEFINE row == [org[o] EXCEPT !.data = TRUE]
  <2>1. org' = [org EXCEPT ![o] = row] /\ row \in OrgRow /\ row.data
    BY <1>0, <1>7 DEF Produce, OrgRow
  <2> HIDE DEF row
  <2> QED BY <2>1, OneOrg
<1>8. CASE ExpireTrials
  <2>1. \A o \in Orgs : TrackClosed(org[o], "past_due").data = org[o].data
    BY <1>0, TrackClosedRow
  <2> QED BY <1>8, <2>1 DEF ExpireTrials
<1>9. CASE CommitPurge
  <2>1. sweep.step = "commit" /\ sweep.at \in Orgs /\ org[sweep.at].status # "removed"
    BY <1>9 DEF CommitPurge, RestInv, Swept
  <2>2. sweep.at \in rested \cup amid
    BY <2>1 DEF RestInv, Swept, InSweep
  <2> DEFINE row == [org[sweep.at] EXCEPT !.data = FALSE, !.purged = TRUE]
  <2>3. org' = [org EXCEPT ![sweep.at] = row] /\ row \in OrgRow
    BY <1>0, <1>9, <2>1 DEF CommitPurge, OrgRow
  <2> HIDE DEF row
  <2> QED BY <2>1, <2>2, <2>3, OneOrg
<1>10. CASE UNCHANGED org
  BY <1>0, <1>10
<1> QED
  BY <1>1, <1>2, <1>3, <1>4, <1>5, <1>6, <1>7, <1>8, <1>9, <1>10
  DEF Next, SweepStep, Build, vars, past, Reject, AskExport, ReadClosed,
      UnlinkFiles, PurgeFails, PurgesDone, ExpireExports, UnlinkExpired,
      InsertExport, ClaimExport, OpenExport, EndExport, FinishExport, FailExport, RecordFailure, RejectExport,
      ExportAges, Restart, BeginRemoval, RemovalFails, SweepRejects

\* Data is destroyed only after the organisation was closed for the whole retention;
\* unless it was reopened since the sweep read it, or is removed altogether.
THEOREM DestroyedAtRest == Spec => PurgedAtRest
<1>1. Rows /\ RestInv /\ [Next]_vars =>
        [\A o \in Orgs : org[o].data /\ ~org'[o].data =>
           o \in rested \cup amid \/ org'[o].status = "removed"]_vars
  BY PurgeStep
<1> QED BY <1>1, TypesInit, TypesHold, RestInit, RestHolds, PTL DEF Spec, PurgedAtRest

-----------------------------------------------------------------------------
(* Disk.  Only a pending export is scheduled, only a running one is built,   *)
(* and from the moment its file is opened until the build ends it has one;   *)
(* an export deleted as it is prepared is cut.  The files the sweep and the  *)
(* removals hold are of exports nobody builds: those of the organisation     *)
(* that is purged or removed, and gone; or expired ones.                     *)
Work == \A e \in Exports :
          /\ work[e] = "scheduled" => export[e].state \in {"pending", "deleted"}
          /\ work[e] \in {"claimed", "building"} =>
               export[e].state \in {"running", "deleted"} /\ (export[e].state = "deleted" => e \in cut)
          /\ work[e] = "building" => e \in file
          /\ work[e] = "failing"  => export[e].state \in {"running", "deleted"} /\ e \notin file
Held == /\ sweep.step \notin {"commit", "unlink"} => sweep.files = {}
        /\ \A e \in sweep.files :
             /\ work[e] = "no" /\ export[e].state \in {"ready", "expired", "deleted"}
             /\ sweep.step = "commit" => e \notin file /\ export[e].of = sweep.at
             /\ sweep.step = "unlink" => export[e].state # "ready"
Removed == \A o \in Orgs : \A e \in removal[o].files :
             /\ work[e] = "no" /\ export[e].state \in {"ready", "expired", "deleted"}
             /\ e \notin file /\ export[e].of = o

\* FilesAreOffered, export by export.
Offered == \A e \in Exports : e \notin cut =>
             /\ e \in file => export[e].state = "ready" \/ work[e] = "building" \/ e \in sweep.files
             /\ export[e].state = "ready" =>
                  e \in file \/ e \in sweep.files \/ \E o \in Orgs : e \in removal[o].files

DiskInv == Work /\ Held /\ Removed /\ Offered

LEMMA OfferedIs == Marks => (Offered <=> FilesAreOffered)
  BY DEF Marks, Offered, FilesAreOffered, Unlinked

\* An edit of one export's state.
LEMMA OneExport ==
  ASSUME Rows, NEW e \in Exports, NEW s \in {"pending", "running", "ready", "failed", "expired", "deleted"},
         export' = [export EXCEPT ![e].state = s]
  PROVE  export'[e].state = s /\ export'[e].of = export[e].of /\ \A x \in Exports : x # e => export'[x] = export[x]
<1>1. export[e] \in ExportRow /\ export \in [Exports -> ExportRow]
  BY DEF Rows
<1> QED BY <1>1 DEF ExportRow

\* The rows of an organisation's exports go.
LEMMA Deleted ==
  ASSUME Rows, NEW o \in Orgs, NEW listed, DeleteExports(o, listed)
  PROVE  \A e \in Exports :
           /\ export'[e].of = export[e].of
           /\ export[e].of = o /\ export[e].state # "asked" => export'[e].state = "deleted"
           /\ export[e].of # o \/ export[e].state = "asked" => export'[e] = export[e]
<1>1. \A e \in Exports : export[e] \in ExportRow
  BY DEF Rows
<1>2. \A e \in Exports : /\ [export[e] EXCEPT !.state = "deleted"].state = "deleted"
                         /\ [export[e] EXCEPT !.state = "deleted"].of = export[e].of
  BY <1>1 DEF ExportRow
<1> QED BY <1>2 DEF DeleteExports

LEMMA DiskHolds ==
  ASSUME Rows, Marks, RestInv, DiskInv, [Next]_vars
  PROVE  DiskInv'
<1>0. /\ export \in [Exports -> ExportRow] /\ sweep \in Sweep /\ sweep.files \subseteq Exports
      /\ work \in [Exports -> {"no", "scheduled", "claimed", "building", "failing"}] /\ file \subseteq Exports
      /\ removal \in [Orgs -> [on : BOOLEAN, files : SUBSET Exports]]
  BY DEF Rows, Marks, Sweep
<1>1. ASSUME NEW o \in Orgs, CommitRemoval(o) PROVE DiskInv'
  <2>1. /\ DeleteExports(o, removal[o].files) /\ UNCHANGED <<work, file, sweep>>
        /\ removal'[o].files = {} /\ \A p \in Orgs : p # o => removal'[p] = removal[p]
        /\ cut' = cut \cup {e \in ExportsOf(o) : \/ work[e] \in {"claimed", "building"}
                                              \/ (export[e].state = "ready" /\ e \notin removal[o].files)}
    BY <1>0, <1>1 DEF CommitRemoval, NoRemoval, DeleteExports
  <2>2. \A e \in Exports : /\ export'[e].of = export[e].of
                           /\ export[e].of = o /\ export[e].state # "asked" => export'[e].state = "deleted"
                           /\ export[e].of # o \/ export[e].state = "asked" => export'[e] = export[e]
    BY <2>1, Deleted
  <2>3. Work'
    BY <2>1, <2>2 DEF DiskInv, Work, ExportsOf
  <2>4. Held'
    BY <1>0, <2>1, <2>2 DEF DiskInv, Held
  <2>5. Removed'
    BY <1>0, <2>1, <2>2 DEF DiskInv, Removed
  <2>6. Offered'
    BY <1>0, <2>1, <2>2 DEF DiskInv, Work, Held, Removed, Offered, ExportsOf
  <2> QED BY <2>3, <2>4, <2>5, <2>6 DEF DiskInv
<1>2. ASSUME NEW o \in Orgs, NEW e \in Exports, AskExport(e, o) PROVE DiskInv'
  <2> DEFINE row == [export[e] EXCEPT !.state = "asked", !.of = o]
  <2>1. /\ export[e].state = "none" /\ export' = [export EXCEPT ![e] = row]
        /\ UNCHANGED <<work, file, sweep, removal, cut>>
    BY <1>2 DEF AskExport, past
  <2>2. row.state = "asked"
    BY <1>0 DEF ExportRow
  <2> HIDE DEF row
  <2>3. export'[e].state = "asked" /\ \A x \in Exports : x # e => export'[x] = export[x]
    BY <1>0, <2>1, <2>2
  <2>4. Work' /\ Held'
    BY <1>0, <2>1, <2>3 DEF DiskInv, Work, Held
  <2>5. Removed'
    BY <1>0, <2>1, <2>3 DEF DiskInv, Removed
  <2>6. Offered'
    BY <1>0, <2>1, <2>3 DEF DiskInv, Offered
  <2> QED BY <2>4, <2>5, <2>6 DEF DiskInv
<1>3. ASSUME sweep.step \notin {"commit", "unlink"}, sweep'.files = sweep.files,
             sweep'.step \in {"idle", "read", "purge", "expire"}, UNCHANGED <<export,
                                                                              work,
                                                                              file,
                                                                              removal,
                                                                              cut>>
      PROVE  DiskInv'
  BY <1>3 DEF DiskInv, Work, Held, Removed, Offered
<1>4. CASE ExpireTrials \/ ReadClosed \/ PurgesDone \/ SweepRejects
  <2>1. /\ sweep.step \notin {"commit", "unlink"} /\ UNCHANGED <<export, work, file,
                                                                 removal, cut>>
        /\ \/ sweep'.files = sweep.files /\ sweep'.step \in {"idle", "read", "purge", "expire"}
           \/ sweep' = Idle
    BY <1>0, <1>4 DEF ExpireTrials, ReadClosed, PurgesDone, SweepRejects, Sweep, past
  <2>2. sweep.files = {} /\ Idle.files = {} /\ Idle.step = "idle"
    BY <2>1 DEF DiskInv, Held, Idle
  <2> QED BY <1>3, <2>1, <2>2
<1>5. ASSUME NEW o \in Orgs, UnlinkFiles(o) PROVE DiskInv'
  <2>1. /\ sweep.step = "purge" /\ sweep'.files = Named(o) /\ sweep'.step = "commit" /\ sweep'.at = o
        /\ file' = file \ Named(o) /\ UNCHANGED <<export, work, removal, cut>>
    BY <1>0, <1>5 DEF UnlinkFiles, Sweep, past
  <2>2. \A e \in Named(o) : e \in Exports /\ export[e].state = "ready" /\ export[e].of = o
    BY DEF Named, ExportsOf
  <2>3. \A e \in Exports : export[e].state = "ready" => work[e] = "no"
    BY <1>0 DEF DiskInv, Work
  <2>4. Work'
    BY <2>1, <2>2, <2>3 DEF DiskInv, Work
  <2>5. Held' /\ Removed'
    BY <2>1, <2>2, <2>3 DEF DiskInv, Held, Removed
  <2>6. Offered'
    BY <2>1 DEF DiskInv, Held, Offered
  <2> QED BY <2>4, <2>5, <2>6 DEF DiskInv
<1>6. CASE CommitPurge
  <2>1. /\ sweep.step = "commit" /\ sweep.at \in Orgs /\ DeleteExports(sweep.at, sweep.files)
        /\ sweep'.files = {} /\ sweep'.step = "purge" /\ UNCHANGED <<work, file,
                                                                     removal>>
    BY <1>0, <1>6 DEF CommitPurge, NextRow, Sweep, RestInv, Swept
  <2>2. cut' = cut \cup {e \in ExportsOf(sweep.at) : \/ work[e] \in {"claimed", "building"}
                                                    \/ (export[e].state = "ready" /\ e \notin sweep.files)}
    BY <2>1 DEF DeleteExports
  <2>3. \A e \in Exports : /\ export'[e].of = export[e].of
                           /\ export[e].of = sweep.at /\ export[e].state # "asked" => export'[e].state = "deleted"
                           /\ export[e].of # sweep.at \/ export[e].state = "asked" => export'[e] = export[e]
    BY <2>1, Deleted
  <2>4. Work'
    BY <2>1, <2>2, <2>3 DEF DiskInv, Work, ExportsOf
  <2>5. Held'
    BY <2>1 DEF Held
  <2>6. Removed'
    BY <1>0, <2>1, <2>3 DEF DiskInv, Removed
  <2>7. Offered'
    BY <1>0, <2>1, <2>2, <2>3 DEF DiskInv, Work, Held, Removed, Offered, ExportsOf
  <2> QED BY <2>4, <2>5, <2>6, <2>7 DEF DiskInv
<1>7. CASE PurgeFails
  <2>1. /\ sweep.step = "commit" /\ sweep'.files = {} /\ sweep'.step = "purge"
        /\ cut' = cut \cup sweep.files /\ UNCHANGED <<export, work, file, removal>>
    BY <1>0, <1>7 DEF PurgeFails, NextRow, Sweep
  <2> QED BY <2>1 DEF DiskInv, Work, Held, Removed, Offered
<1>8. ASSUME NEW o \in Orgs, BeginRemoval(o) PROVE DiskInv'
  <2>1. /\ file' = file \ Named(o) /\ UNCHANGED <<export, work, sweep, cut>>
        /\ removal'[o].files = Named(o) /\ \A p \in Orgs : p # o => removal'[p] = removal[p]
        /\ ~removal[o].on
    BY <1>0, <1>8 DEF BeginRemoval, past
  <2>2. \A e \in Exports : e \in Named(o) <=> export[e].state = "ready" /\ export[e].of = o
    BY DEF Named, ExportsOf
  <2>3. /\ \A e \in Exports : export[e].state = "ready" => work[e] = "no"
        /\ Named(o) \subseteq Exports
    BY <1>0 DEF DiskInv, Work, Named, ExportsOf
  <2>4. \A e \in removal[o].files : export[e].of = o /\ e \in Exports
    BY <1>0 DEF DiskInv, Removed
  <2>5. Work' /\ Held'
    BY <1>0, <2>1, <2>2, <2>3 DEF DiskInv, Work, Held
  <2>6. Removed'
    BY <1>0, <2>1, <2>2, <2>3 DEF DiskInv, Removed
  <2>7. Offered'
    BY <1>0, <2>1, <2>2, <2>3, <2>4 DEF DiskInv, Offered
  <2> QED BY <2>5, <2>6, <2>7 DEF DiskInv
<1>9. CASE ExpireExports
  <2> DEFINE due == {e \in Exports : export[e].state = "ready" /\ export[e].due}
  <2>1. /\ sweep.step = "expire" /\ sweep'.files = due /\ sweep'.step = "unlink"
        /\ UNCHANGED <<work, file, removal, cut>>
        /\ export' = [e \in Exports |-> IF e \in due THEN [export[e] EXCEPT !.state = "expired"] ELSE export[e]]
    BY <1>0, <1>9 DEF ExpireExports, Sweep, past
  <2>2. \A e \in Exports : /\ [export[e] EXCEPT !.state = "expired"].state = "expired"
                           /\ [export[e] EXCEPT !.state = "expired"].of = export[e].of
    BY <1>0 DEF ExportRow
  <2>3. \A e \in Exports :
          IF e \in due THEN export[e].state = "ready" /\ export'[e].state = "expired" /\ export'[e].of = export[e].of
                       ELSE export'[e] = export[e]
    BY <2>1, <2>2
  <2>4. due \subseteq Exports
    OBVIOUS
  <2> HIDE DEF due
  <2>5. Work'
    BY <2>1, <2>3 DEF DiskInv, Work
  <2>6. Held'
    BY <1>0, <2>1, <2>3, <2>4 DEF DiskInv, Work, Held
  <2>7. Removed'
    BY <1>0, <2>1, <2>3 DEF DiskInv, Removed
  <2>8. Offered'
    BY <1>0, <2>1, <2>3 DEF DiskInv, Held, Offered
  <2> QED BY <2>5, <2>6, <2>7, <2>8 DEF DiskInv
<1>10. CASE UnlinkExpired
  <2>1. /\ sweep.step = "unlink" /\ sweep'.files = {} /\ sweep'.step = "idle"
        /\ file' = file \ sweep.files /\ UNCHANGED <<export, work, removal, cut>>
    BY <1>10 DEF UnlinkExpired, Idle, past
  <2>2. Work'
    BY <2>1 DEF DiskInv, Work, Held
  <2> QED BY <2>1, <2>2 DEF DiskInv, Work, Held, Removed, Offered
<1>11. ASSUME NEW e \in Exports, InsertExport(e) PROVE DiskInv'
  <2>1. /\ export[e].state = "asked" /\ UNCHANGED <<file, sweep, removal, cut>>
        /\ work' = work \/ work' = [work EXCEPT ![e] = "scheduled"]
    BY <1>0, <1>11 DEF InsertExport, past
  <2>2. /\ export'[e].of = export[e].of /\ (\/ export'[e].state = "deleted" /\ work' = work
                                       \/ export'[e].state = "pending")
        /\ \A x \in Exports : x # e => export'[x] = export[x]
    BY <1>0, <1>11, OneExport DEF InsertExport
  <2>3. Work'
    BY <1>0, <2>1, <2>2 DEF DiskInv, Work
  <2>4. Held' /\ Removed'
    BY <1>0, <2>1, <2>2 DEF DiskInv, Work, Held, Removed
  <2>5. Offered'
    BY <1>0, <2>1, <2>2 DEF DiskInv, Work, Offered
  <2> QED BY <2>3, <2>4, <2>5 DEF DiskInv
<1>12. ASSUME NEW e \in Exports, ClaimExport(e) PROVE DiskInv'
  <2>1. /\ work[e] = "scheduled" /\ UNCHANGED <<file, sweep, removal, cut>>
        /\ work' = [work EXCEPT ![e] = IF export[e].state = "pending" THEN "claimed" ELSE "no"]
    BY <1>0, <1>12 DEF ClaimExport, past
  <2>2. /\ export'[e].of = export[e].of /\ export'[e].state = IF export[e].state = "pending" THEN "running" ELSE export[e].state
        /\ \A x \in Exports : x # e => export'[x] = export[x]
    BY <1>0, <1>12, OneExport DEF ClaimExport
  <2>3. Work'
    BY <1>0, <2>1, <2>2 DEF DiskInv, Work
  <2>4. Held' /\ Removed'
    BY <1>0, <2>1, <2>2 DEF DiskInv, Work, Held, Removed
  <2>5. Offered'
    BY <1>0, <2>1, <2>2 DEF DiskInv, Work, Offered
  <2> QED BY <2>3, <2>4, <2>5 DEF DiskInv
<1>13. ASSUME NEW e \in Exports, FinishExport(e) PROVE DiskInv'
  <2>1. /\ work[e] = "building" /\ work' = [work EXCEPT ![e] = "no"]
        /\ UNCHANGED <<file, sweep, removal, cut>>
    BY <1>0, <1>13 DEF FinishExport, EndExport, past
  <2>2. /\ export'[e].of = export[e].of /\ export'[e].state = IF export[e].state = "deleted" THEN "deleted" ELSE "ready"
        /\ \A x \in Exports : x # e => export'[x] = export[x]
    BY <1>0, <1>13, OneExport DEF FinishExport, EndExport
  <2>3. Work'
    BY <1>0, <2>1, <2>2 DEF DiskInv, Work
  <2>4. Held' /\ Removed'
    BY <1>0, <2>1, <2>2 DEF DiskInv, Work, Held, Removed
  <2>5. Offered'
    BY <1>0, <2>1, <2>2 DEF DiskInv, Work, Offered
  <2> QED BY <2>3, <2>4, <2>5 DEF DiskInv
<1>14. ASSUME NEW e \in Exports, RecordFailure(e) PROVE DiskInv'
  <2>1. /\ work[e] = "failing" /\ work' = [work EXCEPT ![e] = "no"]
        /\ UNCHANGED <<file, sweep, removal, cut>>
    BY <1>0, <1>14 DEF RecordFailure, EndExport, past
  <2>2. /\ export'[e].of = export[e].of /\ export'[e].state = IF export[e].state = "deleted" THEN "deleted" ELSE "failed"
        /\ \A x \in Exports : x # e => export'[x] = export[x]
    BY <1>0, <1>14, OneExport DEF RecordFailure, EndExport
  <2>3. Work'
    BY <1>0, <2>1, <2>2 DEF DiskInv, Work
  <2>4. Held' /\ Removed'
    BY <1>0, <2>1, <2>2 DEF DiskInv, Work, Held, Removed
  <2>5. Offered'
    BY <1>0, <2>1, <2>2 DEF DiskInv, Work, Offered
  <2> QED BY <2>3, <2>4, <2>5 DEF DiskInv
<1>15. ASSUME NEW e \in Exports, ExportAges(e) PROVE DiskInv'
  <2>1. UNCHANGED <<work, file, sweep, removal, cut>>
    BY <1>15 DEF ExportAges, past
  <2>2. \A x \in Exports : export'[x].state = export[x].state /\ export'[x].of = export[x].of
    BY <1>0, <1>15 DEF ExportAges, ExportRow
  <2> QED BY <1>0, <2>1, <2>2 DEF DiskInv, Work, Held, Removed, Offered
<1>16. CASE Restart
  <2>1. /\ sweep'.files = {} /\ sweep'.step = "idle" /\ file' = file
        /\ \A o \in Orgs : removal'[o].files = {}
        /\ \A e \in Exports : e \in cut' <=> \/ e \in cut \/ work[e] # "no" \/ e \in sweep.files
                                            \/ \E o \in Orgs : e \in removal[o].files
        /\ \A e \in Exports : work'[e] = "no"
    BY <1>16 DEF Restart, Idle, NoRemoval, Unlinked
  <2>2. \A e \in Exports : export'[e] = export[e] \/ (export[e].state = "asked" /\ export'[e].state = "none")
    BY <1>16 DEF Restart, NoRow
  <2>3. Work' /\ Held' /\ Removed'
    BY <1>0, <2>1, <2>2 DEF DiskInv, Work, Held, Removed
  <2>4. Offered'
    BY <1>0, <2>1, <2>2 DEF DiskInv, Offered
  <2> QED BY <2>3, <2>4 DEF DiskInv
<1>17. ASSUME NEW e \in Exports, OpenExport(e) PROVE DiskInv'
  <2>1. /\ work[e] = "claimed" /\ work' = [work EXCEPT ![e] = "building"] /\ file' = file \cup {e}
        /\ UNCHANGED <<export, sweep, removal, cut>>
    BY <1>17 DEF OpenExport, past
  <2>2. Work'
    BY <1>0, <2>1 DEF DiskInv, Work
  <2> QED BY <1>0, <2>1, <2>2 DEF DiskInv, Work, Held, Removed, Offered
<1>18. ASSUME NEW e \in Exports, FailExport(e) PROVE DiskInv'
  <2>1. /\ work[e] = "building" /\ work' = [work EXCEPT ![e] = "failing"] /\ file' = file \ {e}
        /\ UNCHANGED <<export, sweep, removal, cut>>
    BY <1>18 DEF FailExport, past
  <2>2. Work'
    BY <1>0, <2>1 DEF DiskInv, Work
  <2> QED BY <1>0, <2>1, <2>2 DEF DiskInv, Work, Held, Removed, Offered
<1>19. ASSUME NEW e \in Exports, RejectExport(e) PROVE DiskInv'
  <2>1. /\ work[e] \in {"scheduled", "claimed", "failing"} /\ work' = [work EXCEPT ![e] = "no"]
        /\ cut' = cut \cup {e} /\ UNCHANGED <<export, file, sweep, removal>>
    BY <1>19 DEF RejectExport
  <2>2. Work'
    BY <1>0, <2>1 DEF DiskInv, Work
  <2> QED BY <1>0, <2>1, <2>2 DEF DiskInv, Held, Removed, Offered
<1>20. ASSUME NEW o \in Orgs, RemovalFails(o) PROVE DiskInv'
  <2>1. /\ removal'[o].files = {} /\ \A p \in Orgs : p # o => removal'[p] = removal[p]
        /\ cut' = cut \cup removal[o].files /\ UNCHANGED <<export, work, file,
                                                           sweep>>
    BY <1>0, <1>20 DEF RemovalFails, NoRemoval
  <2>2. Work' /\ Held' /\ Removed'
    BY <1>0, <2>1 DEF DiskInv, Work, Held, Removed
  <2>3. Offered'
    BY <1>0, <2>1 DEF DiskInv, Offered
  <2> QED BY <2>2, <2>3 DEF DiskInv
<1>21. CASE UNCHANGED <<export, work, file, sweep, removal, cut>>
  BY <1>21 DEF DiskInv, Work, Held, Removed, Offered
<1> QED
  BY <1>1, <1>2, <1>4, <1>5, <1>6, <1>7, <1>8, <1>9, <1>10, <1>11, <1>12, <1>13, <1>14, <1>15,
     <1>16, <1>17, <1>18, <1>19, <1>20, <1>21
  DEF Next, SweepStep, Build, vars, past, SetStatus, SetTrial, Approve, Reject,
      TrialRunsOut, RetentionPasses, Produce

LEMMA DiskInit == Init => DiskInv
  BY DEF Init, Idle, NoRow, NoRemoval, DiskInv, Work, Held, Removed, Offered

\* A file on disk is offered by a row, or is being built or unlinked, and a row that
\* offers a file has it; unless a restart, a purge or a rollback came upon the export.
THEOREM FilesMatchRows == Spec => []FilesAreOffered
<1>1. Marks /\ DiskInv => FilesAreOffered
  BY OfferedIs DEF DiskInv
<1>2. Rows /\ Marks /\ RestInv /\ DiskInv /\ [Next]_vars => DiskInv'
  BY DiskHolds
<1>3. Rows /\ RestInv /\ [Next]_vars => RestInv'
  BY RestHolds
<1> QED BY <1>1, <1>2, <1>3, TypesInit, TypesHold, RestInit, DiskInit, PTL DEF Spec
=============================================================================
