---------------------------- MODULE DeviceImport ----------------------------
(***************************************************************************)
(* The CSV imports of one organisation: services/device-import.js, behind  *)
(* POST /devices/pending/batch and routes/imports.js.                      *)
(*                                                                         *)
(* A job decides every row first and carries the decisions out later, one  *)
(* row at a time: the controller is sent its password and its prefix, and  *)
(* then its row is written.  Meanwhile others claim, assign and register   *)
(* the same controllers, another import lists them, the job is cancelled,  *)
(* or the process dies, and with it the passwords the job has generated.   *)
(*                                                                         *)
(* Left out: sites and their geocoding, names and HACCP limits of a row,   *)
(* and what a controller does with its prefix (DeviceOnboarding).  One     *)
(* assignment by hand is under way for a controller at a time.             *)
(***************************************************************************)
EXTENDS Integers, FiniteSets

CONSTANTS
  Devices,       \* controllers, numbered as a CSV lists them
  Jobs,          \* imports; each stands for the passwords it generates, too
  Listed,        \* the controllers in the CSV of each
  Boot, ByHand,  \* the bootstrap password; one that POST .../assign generates
  Every,         \* PROGRESS_EVERY
  MaxOthers,     \* bound: cancels, and claims, assignments and registrations by others
  MaxIncidents   \* bound: restarts, and queries that fail

ASSUME ImportConstants ==
  /\ Devices \subseteq Nat /\ Listed \in [Jobs -> SUBSET Devices \ {{}}] /\ Boot # ByHand /\ {Boot, ByHand} \cap Jobs = {}
  /\ Every \in Nat \ {0} /\ MaxOthers \in Nat /\ MaxIncidents \in Nat

VARIABLES
  device,     \* the rows of devices
  held,       \* the password each controller holds; it leaves the pending prefix with it
  job,        \* the rows of imports
  worker,     \* run, for each job
  cancelling, \* requestCancel between its two UPDATEs
  hand,       \* POST .../assign, for each controller: what it has done
  claiming,   \* the claims that have read the row, for each controller
  taken,      \* history: credentials.csv handed out
  astray,     \* history: controllers whose row was written by others between the decision
              \* to assign it and its UPDATE, or whose UPDATE failed or died
  lost,       \* history: jobs a restart, or a query that fails outside the `try', came upon
  others, incidents

past == <<taken, astray, lost>>
vars == <<device, held, job, worker, cancelling, hand, claiming, past, others, incidents>>

----------------------------------------------------------------------------
NoDevice == [status |-> "none", claim |-> "nobody", hash |-> Boot]
NoJob    == [status |-> "none", cancel |-> FALSE, enc |-> {}]
Off      == [step |-> "off", todo |-> {}, will |-> [d \in Devices |-> "skip"], at |-> {},
             processed |-> 0, given |-> {}, end |-> "done"]

InProgress == {"pending", "running"}
Secrets  == Jobs \cup {Boot, ByHand}
First(rows, d) == d \in rows /\ \A e \in rows : d <= e

TypeOK ==
  /\ device \in [Devices -> [status : {"none", "pending", "active"}, claim : {"nobody", "us", "them"},
                             hash : Secrets]]
  /\ held \in [Devices -> Secrets]
  /\ job \in [Jobs -> [status : InProgress \cup {"none", "asked", "done", "failed", "cancelled"}, cancel : BOOLEAN, enc : SUBSET Devices]]
  /\ worker \in [Jobs -> [step : {"off", "scheduled", "claimed", "decide", "loop", "row", "write", "end"},
                          todo : SUBSET Devices, will : [Devices -> {"skip", "assign", "pre_register"}],
                          at : SUBSET Devices, processed : Nat, given : SUBSET Devices,
                          end : {"done", "cancelled", "failed"}]]
  /\ hand \in [Devices -> {"no", "read", "sent"}] /\ claiming \in [Devices -> SUBSET {"us", "them"}]
  /\ cancelling \subseteq Jobs /\ taken \subseteq Jobs /\ astray \subseteq Devices /\ lost \subseteq Jobs
  /\ others \in Nat /\ incidents \in Nat

\* Controllers not yet seen, or waiting in the queue, claimed or not.
Init ==
  /\ device \in [Devices -> {NoDevice, [NoDevice EXCEPT !.status = "pending"],
                             [NoDevice EXCEPT !.status = "pending", !.claim = "us"]}]
  /\ held = [d \in Devices |-> Boot]
  /\ job = [j \in Jobs |-> NoJob] /\ worker = [j \in Jobs |-> Off]
  /\ hand = [d \in Devices |-> "no"] /\ claiming = [d \in Devices |-> {}]
  /\ cancelling = {} /\ taken = {} /\ astray = {} /\ lost = {}
  /\ others = 0 /\ incidents = 0

Other    == others < MaxOthers /\ others' = others + 1
Incident == incidents < MaxIncidents /\ incidents' = incidents + 1

\* An import decided to assign this controller, and has not written its row.
Decided(j, d) ==
  /\ worker[j].will[d] = "assign"
  /\ \/ worker[j].step = "decide"
     \/ worker[j].step \in {"loop", "row", "write"} /\ d \in worker[j].todo \cup worker[j].at

----------------------------------------------------------------------------
(* The request, and the claim.                                              *)

\* POST /devices/pending/batch: refused while another import is in progress.
Upload(j) ==
  /\ job[j].status = "none"
  /\ \A i \in Jobs : job[i].status \notin InProgress
  /\ job' = [job EXCEPT ![j].status = "asked"]
  /\ UNCHANGED <<device, held, worker, cancelling, hand, claiming, past, others,
                 incidents>>

\* Its INSERT, by when another may have got there.
Create(j) ==
  /\ job[j].status = "asked" /\ job' = [job EXCEPT ![j].status = "pending"]
  /\ worker' = [worker EXCEPT ![j].step = "scheduled"]
  /\ UNCHANGED <<device, held, cancelling, hand, claiming, past, others, incidents>>

\* run, by setImmediate: the claim, and what the job needs of its organisation.
ClaimJob(j) ==
  /\ worker[j].step = "scheduled"
  /\ IF job[j].status = "pending"
       THEN job' = [job EXCEPT ![j].status = "running"] /\ worker' = [worker EXCEPT ![j].step = "claimed"]
       ELSE worker' = [worker EXCEPT ![j] = Off] /\ UNCHANGED job
  /\ UNCHANGED <<device, held, cancelling, hand, claiming, past, others, incidents>>

ReadTenant(j) ==
  /\ worker[j].step = "claimed"
  /\ worker' = [worker EXCEPT ![j] = [Off EXCEPT !.step = "decide", !.todo = Listed[j]]]
  /\ UNCHANGED <<device, held, job, cancelling, hand, claiming, past, others,
                 incidents>>

\* Neither is within the `try': one that rejects leaves the job as it is.
RejectClaim(j) ==
  /\ Incident
  /\ worker[j].step \in {"scheduled", "claimed"} /\ worker' = [worker EXCEPT ![j] = Off]
  /\ lost' = lost \cup {j}
  /\ UNCHANGED <<device, held, job, cancelling, hand, claiming, taken, astray,
                 others>>

\* Faulty variant: whose claim it is is not looked at.
DecisionsOnAny(row) ==
  IF row.status = "none" THEN {"pre_register"}
  ELSE IF row.status = "active" THEN {"skip"} ELSE {"assign"}

\* decideRow: one nobody has claimed is assigned if its claim code was given.
Decisions(row) ==
  CASE row.status = "none"                          -> {"pre_register"}
    [] row.status = "active"                        -> {"skip"}
    [] row.status = "pending" /\ row.claim = "us"     -> {"assign"}
    [] row.status = "pending" /\ row.claim = "them"   -> {"skip"}
    [] row.status = "pending" /\ row.claim = "nobody" -> {"assign", "skip"}

Decide(j, d, will) ==
  /\ worker[j].step = "decide" /\ First(worker[j].todo, d) /\ will \in Decisions(device[d])
  /\ LET todo == worker[j].todo \ {d} IN
     worker' = [worker EXCEPT ![j] = [@ EXCEPT !.will[d] = will,
                  !.todo = IF todo = {} THEN Listed[j] ELSE todo, !.step = IF todo = {} THEN "loop" ELSE "decide"]]
  /\ UNCHANGED <<device, held, job, cancelling, hand, claiming, past, others,
                 incidents>>

----------------------------------------------------------------------------
(* The rows, one at a time.                                                 *)

\* Every few rows, the job's row is asked whether to go on.
NextRow(j, d) ==
  /\ worker[j].step = "loop" /\ First(worker[j].todo, d)
  /\ worker' = [worker EXCEPT ![j] =
       IF @.processed % Every = 0 /\ job[j].cancel
         THEN [worker[j] EXCEPT !.step = "end", !.end = "cancelled"]
         ELSE [worker[j] EXCEPT !.step = "row", !.todo = @ \ {d}, !.at = {d}]]
  /\ UNCHANGED <<device, held, job, cancelling, hand, claiming, past, others,
                 incidents>>

\* Faulty variant: the counter is forgotten, and with it the way back to the loop.
RowOverNever(w) == [w EXCEPT !.at = {}]

RowOver(w) == [w EXCEPT !.step = IF w.todo = {} THEN "end" ELSE "loop", !.at = {}, !.processed = @ + 1]

Skip(j, d) ==
  /\ worker[j].step = "row" /\ worker[j].at = {d} /\ worker[j].will[d] = "skip"
  /\ worker' = [worker EXCEPT ![j] = RowOver(@)]
  /\ UNCHANGED <<device, held, job, cancelling, hand, claiming, past, others,
                 incidents>>

\* INSERT ... ON CONFLICT DO NOTHING.
PreRegister(j, d) ==
  /\ worker[j].step = "row" /\ worker[j].at = {d} /\ worker[j].will[d] = "pre_register"
  /\ device' = IF device[d].status # "none" THEN device
               ELSE [device EXCEPT ![d].status = "pending", ![d].claim = "us"]
  /\ worker' = [worker EXCEPT ![j] = RowOver(@)]
  /\ UNCHANGED <<held, job, cancelling, hand, claiming, past, others, incidents>>

\* _set_mqtt_creds and _set_tenant on the pending prefix: a controller that
\* listens there takes them.
SendPassword(j, d, heard) ==
  /\ worker[j].step = "row" /\ worker[j].at = {d} /\ worker[j].will[d] = "assign"
  /\ heard => held[d] = Boot
  /\ held' = IF heard THEN [held EXCEPT ![d] = j] ELSE held
  /\ worker' = [worker EXCEPT ![j].step = "write"]
  /\ UNCHANGED <<device, job, cancelling, hand, claiming, past, others, incidents>>

\* The UPDATE, of a row that is still pending; counted either way.
WriteRow(j, d) ==
  /\ worker[j].step = "write" /\ worker[j].at = {d}
  /\ IF device[d].status # "pending" THEN UNCHANGED <<device, astray>>
     ELSE /\ device' = [device EXCEPT ![d] = [status |-> "active", claim |-> "us", hash |-> j]]
          /\ astray' = IF hand[d] # "no" \/ \E i \in Jobs \ {j} : Decided(i, d) THEN astray \cup {d} ELSE astray
  /\ worker' = [worker EXCEPT ![j] = [RowOver(worker[j]) EXCEPT !.given = @ \cup {d}]]
  /\ UNCHANGED <<held, job, cancelling, hand, claiming, taken, lost, others,
                 incidents>>

\* A query of the row fails: a failed row, and its password is forgotten.
RowFails(j, d) ==
  /\ Incident
  /\ worker[j].at = {d} /\ worker' = [worker EXCEPT ![j] = RowOver(@)]
  /\ \/ worker[j].step = "write" /\ astray' = astray \cup {d}
     \/ worker[j].step = "row" /\ worker[j].will[d] = "pre_register" /\ UNCHANGED astray
  /\ UNCHANGED <<device, held, job, cancelling, hand, claiming, taken, lost,
                 others>>

----------------------------------------------------------------------------
(* The end.                                                                 *)

\* Faulty variant: a failed job keeps no credentials.
FlushOfSuccess(j) ==
  /\ worker[j].step = "end"
  /\ job' = [job EXCEPT ![j] = [@ EXCEPT !.status = worker[j].end, !.enc = IF worker[j].end = "failed" THEN {} ELSE worker[j].given]]
  /\ worker' = [worker EXCEPT ![j] = Off]
  /\ UNCHANGED <<device, held, cancelling, hand, claiming, past, others, incidents>>

\* The last flush, of a job that came to its end, was cancelled, or failed.
Flush(j) ==
  /\ worker[j].step = "end"
  /\ job' = [job EXCEPT ![j] = [@ EXCEPT !.status = worker[j].end, !.enc = worker[j].given]]
  /\ worker' = [worker EXCEPT ![j] = Off]
  /\ UNCHANGED <<device, held, cancelling, hand, claiming, past, others, incidents>>

\* A query outside the rows fails, and the job with it.
JobFails(j) ==
  /\ Incident /\ worker[j].step \in {"decide", "loop", "end"} /\ worker[j].end # "failed"
  /\ worker' = [worker EXCEPT ![j].step = "end", ![j].end = "failed"]
  /\ UNCHANGED <<device, held, job, cancelling, hand, claiming, past, others>>

\* With the same database, so may the flush of the failure; the job stays `running'.
FlushFails(j) ==
  /\ worker[j].step = "end" /\ worker[j].end = "failed"
  /\ worker' = [worker EXCEPT ![j] = Off] /\ lost' = lost \cup {j}
  /\ UNCHANGED <<device, held, job, cancelling, hand, claiming, taken, astray,
                 others, incidents>>

\* requestCancel: the wish, of a job at work; and the end, of one not yet claimed.
AskCancel(j) ==
  /\ Other
  /\ job[j].status \in InProgress /\ ~job[j].cancel
  /\ job' = [job EXCEPT ![j].cancel = TRUE] /\ cancelling' = cancelling \cup {j}
  /\ UNCHANGED <<device, held, worker, hand, claiming, past, incidents>>

EndPending(j) ==
  /\ j \in cancelling /\ cancelling' = cancelling \ {j}
  /\ job' = IF job[j].status # "pending" THEN job
            ELSE [job EXCEPT ![j].status = "cancelled"]
  /\ UNCHANGED <<device, held, worker, hand, claiming, past, others, incidents>>

\* takeCredentials: once.
TakeCredentials(j) ==
  /\ job[j].enc # {}
  /\ job' = [job EXCEPT ![j].enc = {}] /\ taken' = taken \cup {j}
  /\ UNCHANGED <<device, held, worker, cancelling, hand, claiming, astray, lost,
                 others, incidents>>

\* The process dies and comes back: resumePending, or it fails and leaves the jobs be.
Restart(resumed) ==
  /\ Incident
  /\ lost' = lost \cup {j \in Jobs : job[j].status = "running" \/ (job[j].status = "pending" /\ ~resumed)}
  /\ astray' = astray \cup {d \in Devices : \/ hand[d] = "sent"
                                            \/ \E j \in Jobs : worker[j].step = "write" /\ worker[j].at = {d}}
  /\ job' = [j \in Jobs |-> CASE job[j].status = "asked"               -> NoJob
                             [] job[j].status = "running" /\ resumed -> [job[j] EXCEPT !.status = "failed"]
                             [] OTHER                                -> job[j]]
  /\ worker' = [j \in Jobs |-> IF job[j].status = "pending" /\ resumed THEN [Off EXCEPT !.step = "scheduled"] ELSE Off]
  /\ cancelling' = {} /\ hand' = [d \in Devices |-> "no"] /\ claiming' = [d \in Devices |-> {}]
  /\ UNCHANGED <<device, held, taken, others>>

----------------------------------------------------------------------------
(* Others, at the same controllers.                                         *)

\* A controller registers itself, or comes up on the pending prefix.
Appear(d) ==
  /\ Other
  /\ device[d].status = "none" /\ device' = [device EXCEPT ![d].status = "pending"]
  /\ UNCHANGED <<held, job, worker, cancelling, hand, claiming, past, incidents>>

\* POST /devices/claim: the row is read, and written by its id.
ReadClaim(d, whose) ==
  /\ Other
  /\ device[d].status = "pending" /\ device[d].claim \in {"nobody", whose}
  /\ claiming' = [claiming EXCEPT ![d] = @ \cup {whose}]
  /\ UNCHANGED <<device, held, job, worker, cancelling, hand, past, incidents>>

Claim(d, whose) ==
  /\ whose \in claiming[d] /\ claiming' = [claiming EXCEPT ![d] = @ \ {whose}]
  /\ device' = [device EXCEPT ![d].claim = whose]
  /\ astray' = IF \E j \in Jobs : Decided(j, d) THEN astray \cup {d} ELSE astray
  /\ UNCHANGED <<held, job, worker, cancelling, hand, taken, lost, others,
                 incidents>>

\* POST /devices/pending/:mqttId/assign, by whoever claimed it or a superadmin.
ReadByHand(d) ==
  /\ Other
  /\ hand[d] = "no" /\ hand' = [hand EXCEPT ![d] = "read"]
  /\ device[d].status = "pending"
  /\ UNCHANGED <<device, held, job, worker, cancelling, claiming, past, incidents>>

SendByHand(d, heard) ==
  /\ hand[d] = "read" /\ hand' = [hand EXCEPT ![d] = "sent"]
  /\ heard => held[d] = Boot
  /\ held' = IF heard THEN [held EXCEPT ![d] = ByHand] ELSE held
  /\ UNCHANGED <<device, job, worker, cancelling, claiming, past, others,
                 incidents>>

\* Hashed meanwhile, and written by the id of the row, whatever became of it.
AssignByHand(d) ==
  /\ hand[d] = "sent" /\ hand' = [hand EXCEPT ![d] = "no"]
  /\ device' = [device EXCEPT ![d].status = "active", ![d].hash = ByHand]
  /\ astray' = IF \E j \in Jobs : Decided(j, d) THEN astray \cup {d} ELSE astray
  /\ UNCHANGED <<held, job, worker, cancelling, claiming, taken, lost, others,
                 incidents>>

\* Refused for its plan before it sent anything, or a query of it fails.
FailByHand(d) ==
  /\ hand[d] # "no" /\ hand' = [hand EXCEPT ![d] = "no"]
  /\ IF hand[d] = "read" THEN UNCHANGED <<astray, incidents>> ELSE Incident /\ astray' = astray \cup {d}
  /\ UNCHANGED <<device, held, job, worker, cancelling, claiming, taken, lost,
                 others>>

----------------------------------------------------------------------------
Run(j) ==
  \/ ClaimJob(j) \/ ReadTenant(j) \/ RejectClaim(j) \/ Flush(j) \/ JobFails(j) \/ FlushFails(j)
  \/ \E d \in Devices : \/ \E will \in {"skip", "assign", "pre_register"} : Decide(j, d, will)
                        \/ NextRow(j, d) \/ Skip(j, d) \/ PreRegister(j, d)
                        \/ \E heard \in BOOLEAN : SendPassword(j, d, heard)
                        \/ WriteRow(j, d) \/ RowFails(j, d)

Next ==
  \/ \E j \in Jobs : \/ Upload(j) \/ Create(j) \/ Run(j) \/ AskCancel(j) \/ EndPending(j) \/ TakeCredentials(j)
  \/ \E d \in Devices : \/ Appear(d) \/ \E whose \in {"us", "them"} : ReadClaim(d, whose) \/ Claim(d, whose)
                        \/ ReadByHand(d) \/ \E heard \in BOOLEAN : SendByHand(d, heard)
                        \/ AssignByHand(d) \/ FailByHand(d)
  \/ \E resumed \in BOOLEAN : Restart(resumed)

Spec == Init /\ [][Next]_vars

(* PostgreSQL answers each query, if only with an error.                     *)
Fairness == \A j \in Jobs : WF_vars(Run(j))

FairSpec == Spec /\ Fairness

----------------------------------------------------------------------------
\* "A pending controller may be taken only by the organisation that claimed it"
\* (device-import.js:334): an import takes none that another one claimed, unless
\* the claim came after the decision: the UPDATE asks for the status only.
OthersKeepTheirs ==
  [][\A d \in Devices :
       device[d].claim = "them" /\ device'[d].hash \in Jobs \ {device[d].hash} => d \in astray]_vars

\* Row and controller come together.  A controller that took the password of a job,
\* or of an assignment by hand, is admitted with it: its row has the hash, or is
\* about to.  And the password of a row that an import assigned is on the controller,
\* in the job, or handed out; unless two decided over the same controller, each
\* before the other had written its row, or an UPDATE failed or died.
PasswordsMeet ==
  \A d \in Devices :
    /\ held[d] # Boot => \/ device[d].hash = held[d] \/ d \in astray
                         \/ held[d] = ByHand /\ hand[d] = "sent"
                         \/ \E j \in Jobs : held[d] = j /\ worker[j].step = "write" /\ worker[j].at = {d}
    /\ \A j \in Jobs : device[d].hash = j =>
         \/ held[d] = j \/ d \in worker[j].given \cup job[j].enc \/ j \in taken \cup lost

\* An import ends, and lets the next one in; unless a restart came upon it, or a
\* query rejected at its claim or twice at its end: POST answers 409 until a restart.
ImportEnds ==
  \A j \in Jobs : job[j].status = "pending" ~> job[j].status \notin InProgress \/ j \in lost
=============================================================================
