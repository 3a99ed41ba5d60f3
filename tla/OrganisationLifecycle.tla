----------------------- MODULE OrganisationLifecycle -----------------------
(***************************************************************************)
(* The end of an organisation: services/tenant-lifecycle.js (the hourly    *)
(* sweep), tenant-delete.js (purge and removal), tenant-export.js (the zip *)
(* an administrator asks for), registration.js (approval and rejection)    *)
(* and what a superadmin sets through routes/tenants.js.                   *)
(*                                                                         *)
(* The sweep purges the organisations it read, one transaction each; files *)
(* on disk are not part of a transaction, nor of the process's memory.     *)
(***************************************************************************)
EXTENDS Integers, FiniteSets

CONSTANTS
  Orgs,
  Exports,      \* bound: requests for an export
  NoOrg,
  Statuses,     \* the statuses a superadmin sets
  MaxSettings,  \* bound: what administrators set and ask for
  MaxIncidents  \* bound: restarts, queries that reject, and transactions rolled back

ASSUME LifecycleConstants ==
  /\ NoOrg \notin Orgs
  /\ Statuses \subseteq {"trial", "active", "past_due", "suspended", "closed"}
  /\ MaxSettings \in Nat /\ MaxIncidents \in Nat

VARIABLES
  org,       \* the rows of tenants, and whether there is operational data
  export,    \* the rows of tenant_exports
  work,      \* what the process does for each export
  file,      \* the exports that have a file on disk
  sweep,     \* the sweep under way, and the files it is about to unlink or has
  rejecting, \* rejections that have read their organisation
  removal,   \* the removals under way, and the files they have unlinked
  rested,    \* history: closed ever since the retention began, and it is over
  amid,      \* history: reopened after the sweep read them
  cut,       \* history: exports a restart, a rejected query, a purge or a rollback came upon
  settings, incidents

past == <<rested, amid, cut>>
vars == <<org, export, work, file, sweep, rejecting, removal, past, settings, incidents>>

----------------------------------------------------------------------------
NoRow == [state |-> "none", of |-> NoOrg, due |-> FALSE]
Idle  == [step |-> "idle", rows |-> {}, at |-> NoOrg, files |-> {}]
NoRemoval == [on |-> FALSE, files |-> {}]

InProgress == {"pending", "running"}
ExportsOf(o) == {e \in Exports : export[e].of = o}

\* The files the transactions under way, and the sweep, have unlinked or are about to.
Unlinked == sweep.files \cup UNION {removal[o].files : o \in Orgs}

TypeOK ==
  /\ org \in [Orgs -> [status : {"trial", "active", "past_due", "suspended", "closed", "removed"},
                       trial : {"none", "running", "over"}, closedAt : {"null", "recent", "past"},
                       purged : BOOLEAN, awaiting : BOOLEAN, data : BOOLEAN]]
  /\ export \in [Exports -> [state : {"none", "asked", "pending", "running", "ready", "failed", "expired", "deleted"},
                             of : Orgs \cup {NoOrg}, due : BOOLEAN]]
  /\ work \in [Exports -> {"no", "scheduled", "claimed", "building", "failing"}]
  /\ file \subseteq Exports
  /\ sweep \in [step : {"idle", "read", "purge", "commit", "expire", "unlink"}, rows : SUBSET Orgs,
                at : Orgs \cup {NoOrg}, files : SUBSET Exports]
  /\ removal \in [Orgs -> [on : BOOLEAN, files : SUBSET Exports]]
  /\ rejecting \subseteq Orgs /\ rested \subseteq Orgs /\ amid \subseteq Orgs /\ cut \subseteq Exports
  /\ settings \in Nat /\ incidents \in Nat

\* An organisation at work, or registered and awaiting approval.
Customer   == [status |-> "active", trial |-> "none", closedAt |-> "null",
               purged |-> FALSE, awaiting |-> FALSE, data |-> TRUE]
Registered == [Customer EXCEPT !.status = "suspended", !.awaiting = TRUE, !.data = FALSE]

Init ==
  /\ org \in [Orgs -> {Customer, Registered}]
  /\ export = [e \in Exports |-> NoRow] /\ work = [e \in Exports |-> "no"] /\ file = {}
  /\ sweep = Idle /\ rejecting = {} /\ rested = {} /\ amid = {} /\ cut = {}
  /\ removal = [o \in Orgs |-> NoRemoval]
  /\ settings = 0 /\ incidents = 0

Setting  == settings < MaxSettings /\ settings' = settings + 1
Incident == incidents < MaxIncidents /\ incidents' = incidents + 1

----------------------------------------------------------------------------
(* tenants.status, and trg_tenants_track_closed.                            *)

\* Faulty variant: closed_at survives a reopening.
TrackClosedForever(row, s) ==
  [row EXCEPT !.status = s,
              !.closedAt = IF s = "closed" /\ row.closedAt = "null" THEN "recent" ELSE row.closedAt]

\* Set on entering `closed', kept while closed, cleared on leaving.
TrackClosed(row, s) ==
  [row EXCEPT !.status = s,
              !.closedAt = IF s # "closed" THEN "null"
                           ELSE IF row.closedAt = "null" THEN "recent" ELSE row.closedAt]

\* What the history makes of a status that changes.
Reopened(o) ==
  /\ rested' = rested \ {o}
  /\ amid' = IF o \in sweep.rows \cup {sweep.at} THEN amid \cup {o} ELSE amid

\* PATCH /tenants/:id.
SetStatus(o, s) ==
  /\ Setting /\ org[o].status \notin {"removed", s}
  /\ org' = [org EXCEPT ![o] = TrackClosed(@, s)]
  /\ Reopened(o)
  /\ UNCHANGED <<export, work, file, sweep, rejecting, removal, cut, incidents>>

SetTrial(o, trial) ==
  /\ Setting /\ org[o].status # "removed" /\ org[o].trial # trial
  /\ org' = [org EXCEPT ![o].trial = trial]
  /\ UNCHANGED <<export, work, file, sweep, rejecting, removal, past, incidents>>

\* approve: the trial begins, whatever the status.
Approve(o) ==
  /\ org[o].awaiting /\ org[o].status # "removed"
  /\ org' = [org EXCEPT ![o] = [TrackClosed(@, "trial") EXCEPT !.trial = "running", !.awaiting = FALSE]]
  /\ Reopened(o)
  /\ UNCHANGED <<export, work, file, sweep, rejecting, removal, cut, settings, incidents>>

\* reject looks first, and removes in a transaction of its own.
Reject(o) ==
  /\ org[o].awaiting /\ org[o].status # "removed" /\ o \notin rejecting
  /\ rejecting' = rejecting \cup {o}
  /\ UNCHANGED <<org, export, work, file, sweep, removal, past, settings, incidents>>

----------------------------------------------------------------------------
(* purgeTenant and deleteTenant.                                            *)

\* The rows of an organisation's exports go; one that is being built goes on, and
\* one that became ready since its files were listed leaves its file.
DeleteExports(o, listed) ==
  /\ export' = [e \in Exports |-> IF export[e].of = o /\ export[e].state # "asked"
                                  THEN [export[e] EXCEPT !.state = "deleted"] ELSE export[e]]
  /\ cut' = cut \cup {e \in ExportsOf(o) : (work[e] \in {"claimed", "building"})
                                            \/ (export[e].state = "ready" /\ e \notin listed)}

\* removeExportFiles: those a row names.
Named(o) == {e \in ExportsOf(o) : export[e].state = "ready"}

\* deleteTenant, by reject or DELETE /tenants/:id: within the transaction the files of
\* the exports go at once.
BeginRemoval(o) ==
  /\ org[o].status # "removed" /\ ~removal[o].on
  /\ \/ o \in rejecting /\ UNCHANGED settings
     \/ o \notin rejecting /\ Setting
  /\ rejecting' = rejecting \ {o}
  /\ file' = file \ Named(o)
  /\ removal' = [removal EXCEPT ![o] = [on |-> TRUE, files |-> Named(o)]]
  /\ UNCHANGED <<org, export, work, sweep, past, incidents>>

CommitRemoval(o) ==
  /\ removal[o].on
  /\ DeleteExports(o, removal[o].files)
  /\ removal' = [removal EXCEPT ![o] = NoRemoval]
  /\ org' = [org EXCEPT ![o] = [Customer EXCEPT !.status = "removed", !.data = FALSE]]
  /\ rested' = rested \ {o} /\ amid' = amid \ {o}
  /\ UNCHANGED <<work, file, sweep, rejecting, settings, incidents>>

RemovalFails(o) ==
  /\ Incident
  /\ removal[o].on
  /\ removal' = [removal EXCEPT ![o] = NoRemoval] /\ cut' = cut \cup removal[o].files
  /\ UNCHANGED <<org, export, work, file, sweep, rejecting, rested, amid, settings>>

----------------------------------------------------------------------------
(* The sweep, one at a time.                                                *)

\* expireTrials: one UPDATE.
ExpireTrials ==
  /\ sweep.step = "idle"
  /\ org' = [o \in Orgs |-> IF org[o].status = "trial" /\ org[o].trial = "over"
                            THEN TrackClosed(org[o], "past_due") ELSE org[o]]
  /\ sweep' = [sweep EXCEPT !.step = "read"]
  /\ UNCHANGED <<export, work, file, rejecting, removal, past, settings, incidents>>

\* purgeClosed: its SELECT.
ReadClosed ==
  /\ sweep.step = "read"
  /\ sweep' = [sweep EXCEPT !.step = "purge",
                 !.rows = {o \in Orgs : org[o].status = "closed" /\ ~org[o].purged /\ org[o].closedAt = "past"}]
  /\ UNCHANGED <<org, export, work, file, rejecting, removal, past, settings, incidents>>

\* Faulty variant: the rows go, the files stay.
KeepFiles(o) ==
  /\ sweep.step = "purge" /\ o \in sweep.rows
  /\ sweep' = [sweep EXCEPT !.step = "commit", !.rows = @ \ {o}, !.at = o, !.files = Named(o)]
  /\ UNCHANGED <<org, export, work, file, rejecting, removal, past, settings, incidents>>

\* Within the transaction the files of the exports go at once.
UnlinkFiles(o) ==
  /\ sweep.step = "purge" /\ o \in sweep.rows
  /\ file' = file \ Named(o)
  /\ sweep' = [sweep EXCEPT !.step = "commit", !.rows = @ \ {o}, !.at = o, !.files = Named(o)]
  /\ UNCHANGED <<org, export, work, rejecting, removal, past, settings, incidents>>

NextRow == sweep' = [sweep EXCEPT !.step = "purge", !.at = NoOrg, !.files = {}] /\ amid' = amid \ {sweep.at}

\* The rest of it, whatever the status is by now.
CommitPurge ==
  /\ sweep.step = "commit" /\ org[sweep.at].status # "removed"
  /\ org' = [org EXCEPT ![sweep.at].data = FALSE, ![sweep.at].purged = TRUE]
  /\ DeleteExports(sweep.at, sweep.files) /\ NextRow
  /\ UNCHANGED <<work, file, rejecting, removal, rested, settings, incidents>>

\* Rolled back, or the organisation is no longer there: the next one.
PurgeFails ==
  /\ sweep.step = "commit"
  /\ IF org[sweep.at].status = "removed" THEN UNCHANGED incidents ELSE Incident
  /\ NextRow /\ cut' = cut \cup sweep.files
  /\ UNCHANGED <<org, export, work, file, rejecting, removal, rested, settings>>

PurgesDone ==
  /\ sweep.step = "purge" /\ sweep.rows = {}
  /\ sweep' = [sweep EXCEPT !.step = "expire"]
  /\ UNCHANGED <<org, export, work, file, rejecting, removal, past, settings, incidents>>

\* A query of the sweep rejects: its next part comes all the same.
SweepRejects ==
  /\ Incident
  /\ \/ sweep.step = "idle" /\ sweep' = [sweep EXCEPT !.step = "read"]
     \/ sweep.step = "read" /\ sweep' = [sweep EXCEPT !.step = "expire"]
     \/ sweep.step = "expire" /\ sweep' = Idle
  /\ UNCHANGED <<org, export, work, file, rejecting, removal, past, settings>>

\* expire: the rows in one UPDATE, and then the files.
ExpireExports ==
  /\ sweep.step = "expire"
  /\ LET due == {e \in Exports : export[e].state = "ready" /\ export[e].due} IN
     /\ export' = [e \in Exports |-> IF e \in due THEN [export[e] EXCEPT !.state = "expired"] ELSE export[e]]
     /\ sweep' = [sweep EXCEPT !.step = "unlink", !.files = due]
  /\ UNCHANGED <<org, work, file, rejecting, removal, past, settings, incidents>>

\* Faulty variant: `running' is never taken back.
UnlinkForever ==
  /\ sweep.step = "unlink" /\ sweep.files # {}
  /\ file' = file \ sweep.files /\ sweep' = [sweep EXCEPT !.files = {}]
  /\ UNCHANGED <<org, export, work, rejecting, removal, past, settings, incidents>>

UnlinkExpired ==
  /\ sweep.step = "unlink"
  /\ file' = file \ sweep.files /\ sweep' = Idle
  /\ UNCHANGED <<org, export, work, rejecting, removal, past, settings, incidents>>

----------------------------------------------------------------------------
(* Data exports.                                                            *)

\* POST /tenants/:id/export: 409 while another is being prepared.
AskExport(e, o) ==
  /\ Setting /\ export[e].state = "none" /\ org[o].status # "removed"
  /\ \A other \in ExportsOf(o) : export[other].state \notin InProgress
  /\ export' = [export EXCEPT ![e] = [@ EXCEPT !.state = "asked", !.of = o]]
  /\ UNCHANGED <<org, work, file, sweep, rejecting, removal, past, incidents>>

InsertExport(e) ==
  /\ export[e].state = "asked"
  /\ IF org[export[e].of].status = "removed"
       THEN export' = [export EXCEPT ![e].state = "deleted"] /\ UNCHANGED work
       ELSE export' = [export EXCEPT ![e].state = "pending"] /\ work' = [work EXCEPT ![e] = "scheduled"]
  /\ UNCHANGED <<org, file, sweep, rejecting, removal, past, settings, incidents>>

\* run, by setImmediate: the claim.
ClaimExport(e) ==
  /\ work[e] = "scheduled"
  /\ IF export[e].state = "pending"
       THEN export' = [export EXCEPT ![e].state = "running"] /\ work' = [work EXCEPT ![e] = "claimed"]
       ELSE work' = [work EXCEPT ![e] = "no"] /\ UNCHANGED export
  /\ UNCHANGED <<org, file, sweep, rejecting, removal, past, settings, incidents>>

\* The slug, the directory, and the file that is opened.
OpenExport(e) ==
  /\ work[e] = "claimed" /\ work' = [work EXCEPT ![e] = "building"]
  /\ file' = file \cup {e}
  /\ UNCHANGED <<org, export, sweep, rejecting, removal, past, settings, incidents>>

\* The UPDATE names the row, which may be deleted.
EndExport(e, state) ==
  /\ work' = [work EXCEPT ![e] = "no"]
  /\ export' = IF export[e].state = "deleted" THEN export ELSE [export EXCEPT ![e].state = state]
  /\ UNCHANGED <<org, file, sweep, rejecting, removal, past, settings, incidents>>

FinishExport(e) == work[e] = "building" /\ EndExport(e, "ready")

\* The build fails, or the UPDATE that would finish it: first the file goes.
FailExport(e) ==
  /\ work[e] = "building" /\ work' = [work EXCEPT ![e] = "failing"]
  /\ file' = file \ {e}
  /\ UNCHANGED <<org, export, sweep, rejecting, removal, past, settings, incidents>>

\* Faulty variant: the failure is only logged.
LogFailure(e) == work[e] = "failing" /\ EndExport(e, "running")

RecordFailure(e) == work[e] = "failing" /\ EndExport(e, "failed")

\* A query rejects, or the directory cannot be made, where no one looks after the row:
\* at the claim it stays pending, after it and in place of `failed' it stays running.
RejectExport(e) ==
  /\ Incident
  /\ work[e] \in {"scheduled", "claimed", "failing"} /\ work' = [work EXCEPT ![e] = "no"]
  /\ cut' = cut \cup {e}
  /\ UNCHANGED <<org, export, file, sweep, rejecting, removal, rested, amid, settings>>

----------------------------------------------------------------------------
(* Time, and the process.                                                   *)

TrialRunsOut(o) ==
  /\ org[o].trial = "running" /\ org' = [org EXCEPT ![o].trial = "over"]
  /\ UNCHANGED <<export, work, file, sweep, rejecting, removal, past, settings, incidents>>

\* CLOSED_RETENTION_DAYS go by.
RetentionPasses(o) ==
  /\ org[o].closedAt = "recent" /\ org' = [org EXCEPT ![o].closedAt = "past"]
  /\ rested' = IF org[o].status = "closed" THEN rested \cup {o} ELSE rested
  /\ UNCHANGED <<export, work, file, sweep, rejecting, removal, amid, cut, settings, incidents>>

\* EXPORT_TTL_DAYS go by.
ExportAges(e) ==
  /\ export[e].state = "ready" /\ ~export[e].due
  /\ export' = [export EXCEPT ![e].due = TRUE]
  /\ UNCHANGED <<org, work, file, sweep, rejecting, removal, past, settings, incidents>>

\* Controllers are claimed, and report.
Produce(o) ==
  /\ org[o].status \in {"trial", "active", "past_due"} /\ ~org[o].data
  /\ org' = [org EXCEPT ![o].data = TRUE]
  /\ UNCHANGED <<export, work, file, sweep, rejecting, removal, past, settings, incidents>>

\* Nothing looks at boot for exports a restart left behind.
Restart ==
  /\ Incident
  /\ cut' = cut \cup {e \in Exports : work[e] # "no" \/ e \in Unlinked}
  /\ sweep' = Idle /\ work' = [e \in Exports |-> "no"]
  /\ export' = [e \in Exports |-> IF export[e].state = "asked" THEN NoRow ELSE export[e]]
  /\ rejecting' = {} /\ removal' = [o \in Orgs |-> NoRemoval] /\ amid' = {}
  /\ UNCHANGED <<org, file, rested, settings>>

----------------------------------------------------------------------------
SweepStep == \/ ExpireTrials \/ ReadClosed \/ \E o \in Orgs : UnlinkFiles(o)
             \/ CommitPurge \/ PurgeFails \/ PurgesDone \/ ExpireExports \/ UnlinkExpired
Build(e)  == \/ InsertExport(e) \/ ClaimExport(e) \/ OpenExport(e) \/ FinishExport(e)
             \/ FailExport(e) \/ RecordFailure(e)

Next ==
  \/ \E o \in Orgs : \/ \E s \in Statuses : SetStatus(o, s)
                     \/ \E trial \in {"none", "running"} : SetTrial(o, trial)
                     \/ Approve(o) \/ Reject(o)
                     \/ BeginRemoval(o) \/ CommitRemoval(o) \/ RemovalFails(o)
                     \/ TrialRunsOut(o) \/ RetentionPasses(o) \/ Produce(o)
                     \/ \E e \in Exports : AskExport(e, o)
  \/ SweepStep \/ SweepRejects
  \/ \E e \in Exports : Build(e) \/ RejectExport(e) \/ ExportAges(e)
  \/ Restart

Spec == Init /\ [][Next]_vars

(* The timer ticks, PostgreSQL answers, and a build ends one way or another. *)
Fairness == WF_vars(SweepStep) /\ \A e \in Exports : WF_vars(Build(e))

FairSpec == Spec /\ Fairness

----------------------------------------------------------------------------
\* Data is destroyed after the organisation was closed for the whole retention,
\* counted afresh each time it is closed; unless it was reopened behind the
\* back of a sweep, or removed altogether.
PurgedAtRest ==
  [][\A o \in Orgs : org[o].data /\ ~org'[o].data =>
       o \in rested \cup amid \/ org'[o].status = "removed"]_vars

\* "Purge every organisation closed longer than CLOSED_RETENTION_DAYS ago"
\* (tenant-lifecycle.js:76): its data goes, however often a purge is rolled back.
\* One purged before is passed over: purged_at is never taken back.
ClosedIsPurged ==
  \A o \in Orgs :
    org[o].status = "closed" /\ org[o].closedAt = "past" /\ ~org[o].purged
      ~> org[o].status # "closed" \/ ~org[o].data

\* A file on disk is one that a row offers, or that is being built or unlinked,
\* and a row that offers a file has it, but where a purge or a removal is at it;
\* unless a restart, a purge or a rollback came upon the export.
FilesAreOffered ==
  /\ \A e \in file \ cut : export[e].state = "ready" \/ work[e] = "building" \/ e \in sweep.files
  /\ \A e \in Exports \ cut : export[e].state = "ready" =>
       e \in file \cup Unlinked

\* A request comes to its end, and lets the next one in; unless a restart came upon
\* it, or a query rejected outside the build: nothing takes it up again, and POST
\* answers 409 ever after.
ExportEnds ==
  \A e \in Exports : export[e].state = "pending" ~> export[e].state \notin InProgress \/ e \in cut
=============================================================================
