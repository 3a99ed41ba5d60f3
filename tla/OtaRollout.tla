----------------------------- MODULE OtaRollout -----------------------------
(***************************************************************************)
(* One firmware rollout of services/ota.js: its row in ota_rollouts, one   *)
(* row of ota_jobs per controller, the batches that send the commands, the *)
(* checker that finds out what became of them, and the administrator.      *)
(*                                                                         *)
(* processRolloutBatch and checkOtaStatus wait for PostgreSQL between any  *)
(* two of their steps, and hold what they read across the wait.  A batch   *)
(* in progress is a worker; resuming a rollout can start a second one.     *)
(*                                                                         *)
(* Faults:                                                                 *)
(*   admin_race    a request of the administrator runs amid a batch        *)
(*   checker_race  checkOtaStatus runs amid a batch                        *)
(*   restart       the process stops between batches and starts again      *)
(*   crash         the process stops anywhere and starts again             *)
(*   send_error    MQTT is not connected when a command is to be sent      *)
(*   db_error      a query is rejected                                     *)
(*   reassign      a controller leaves the organisation, its job is        *)
(*                 cancelled                                               *)
(*   no_firmware   the firmware was deleted as the rollout was created     *)
(***************************************************************************)
EXTENDS Integers, Sequences, FiniteSets

CONSTANTS
  Devices,       \* controllers of the rollout
  Workers,       \* bound: batches in progress at once
  BatchSize,     \* ota_rollouts.batch_size
  Threshold,     \* ota_rollouts.fail_threshold_pct
  MaxDeferrals,  \* OTA_MAX_DEFERRALS
  MaxRequests,   \* bound: requests of the administrator
  MaxStops,      \* bound: stops of the process
  MaxTurns,      \* bound: changes of a controller's readiness or of the OTA window
  MaxErrors,     \* bound: rejected queries
  Faults

Disturbances == {"admin_race", "checker_race", "restart", "crash", "send_error", "db_error",
                 "reassign", "no_firmware"}

ASSUME RolloutConstants ==
  /\ IsFiniteSet(Devices)
  /\ BatchSize \in 1 .. 100 /\ Threshold \in 1 .. 100
  /\ MaxDeferrals \in Nat /\ MaxRequests \in Nat /\ MaxStops \in Nat /\ MaxTurns \in Nat
  /\ MaxErrors \in Nat
  /\ Faults \subseteq Disturbances

VARIABLES
  creating,   \* controllers createRollout has yet to insert a job for
  rollout,    \* the ota_rollouts row
  job,        \* the ota_jobs rows
  order,      \* the jobs by queued_at
  firmware,   \* the firmware row exists
  timer,      \* rolloutTimers has a timer for the rollout
  batch,      \* processRolloutBatch in progress, per worker
  check,      \* checkOtaStatus in progress
  settling,   \* what a pause or a cancel has yet to do after its first UPDATE
  up,         \* the process runs
  version,    \* devices.firmware_version, as the heartbeats tell it
  ready,      \* the pre-OTA checks of a controller pass, the window aside
  window,     \* inside the organisation's OTA window
  commands,   \* history: _ota commands sent to a controller
  stranded,   \* history: a rejected query was the end of the last batch or completion check
  unmarked,   \* history: a command went out, and neither UPDATE that would tell of it
  halfway,    \* history: a cancel was rejected before it reached the jobs
  errors, requests, stops, turns

rejections == <<stranded, unmarked, halfway, errors>>
vars == <<creating, rollout, job, order, firmware, timer, batch, check, settling, up,
          version, ready, window, commands, rejections, requests, stops, turns>>
tables == <<rollout, job, order, firmware>>
devices == <<version, ready, window, turns>>

----------------------------------------------------------------------------
JobStatus == {"absent", "queued", "sent", "succeeded", "failed", "cancelled"}
Active    == {"queued", "sent"}

With(s)  == {d \in Devices : job[d].status = s}
Count(s) == Cardinality(With(s))

NoBatch == [pc |-> "idle", jobs |-> << >>, sent |-> FALSE, acked |-> 0]
NoCheck == [pc |-> "idle", done |-> {}, late |-> {}, touched |-> FALSE]

BatchStep == {"idle", "read", "stats", "pause", "firmware", "fail_queued", "window", "pick",
              "job", "mark_sent", "mark_failed", "mark_deferred", "remaining", "complete"}

TypeOK ==
  /\ rollout.status \in {"running", "paused", "completed", "cancelled"}
  /\ rollout.reason \in {"none", "manual", "failures"}
  /\ rollout.acked \in 0 .. Cardinality(Devices)
  /\ \A d \in Devices : job[d].status \in JobStatus /\ job[d].deferrals \in Nat
  /\ \A d \in Devices : job[d].late \in BOOLEAN /\ commands[d] \in Nat
  /\ \A i, j \in DOMAIN order : order[i] = order[j] => i = j
  /\ {order[i] : i \in DOMAIN order} \cup {creating[i] : i \in DOMAIN creating} \subseteq Devices
  /\ \A w \in Workers : /\ batch[w].pc \in BatchStep
                        /\ batch[w].pc \in {"job", "mark_sent", "mark_failed", "mark_deferred"} =>
                             batch[w].jobs # << >>
  /\ check.pc \in {"idle", "marking", "completing"}
  /\ settling \in {"nothing", "pause_timer", "cancel_jobs", "cancel_timer"}
  /\ firmware \in BOOLEAN /\ timer \in BOOLEAN /\ up \in BOOLEAN /\ window \in BOOLEAN
  /\ version \in [Devices -> {"old", "new"}] /\ ready \in [Devices -> BOOLEAN]
  /\ stranded \in BOOLEAN /\ halfway \in BOOLEAN /\ unmarked \subseteq Devices
  /\ errors \in 0 .. MaxErrors

\* The states in which the rest of the backend is at rest.
NoBatchRuns == creating = << >> /\ \A w \in Workers : batch[w].pc = "idle"
Resting     == NoBatchRuns /\ check.pc = "idle" /\ settling = "nothing"

MayAdminister == up /\ (Resting \/ "admin_race" \in Faults)
MayCheck      == up /\ (NoBatchRuns \/ "checker_race" \in Faults)
MayBatch      == check.pc = "idle" \/ "checker_race" \in Faults

----------------------------------------------------------------------------
(* createRollout has inserted the rollout; no job yet.                      *)
Init ==
  /\ creating \in {s \in [1 .. Cardinality(Devices) -> Devices] :
                     \A i, j \in DOMAIN s : s[i] = s[j] => i = j}
  /\ rollout = [status |-> "running", reason |-> "none", acked |-> 0]
  /\ job = [d \in Devices |-> [status |-> "absent", deferrals |-> 0, late |-> FALSE]]
  /\ order = << >>
  /\ firmware \in {TRUE, "no_firmware" \notin Faults}
  /\ timer = FALSE
  /\ batch = [w \in Workers |-> NoBatch]
  /\ check = NoCheck
  /\ settling = "nothing"
  /\ up = TRUE
  /\ version \in [Devices -> {"old", "new"}]
  /\ ready \in [Devices -> BOOLEAN] /\ window \in BOOLEAN
  /\ commands = [d \in Devices |-> 0]
  /\ stranded = FALSE /\ unmarked = {} /\ halfway = FALSE
  /\ errors = 0 /\ requests = 0 /\ stops = 0 /\ turns = 0

\* Worker w enters processRolloutBatch.
Enter(w) == /\ batch[w].pc = "idle"
            /\ batch' = [batch EXCEPT ![w] = [NoBatch EXCEPT !.pc = "read"]]

Goto(w, pc) == batch' = [batch EXCEPT ![w].pc = pc]
Leave(w)    == batch' = [batch EXCEPT ![w] = NoBatch]

\* One INSERT at a time, none of it in a transaction.
CreateJob ==
  /\ up /\ creating # << >>
  /\ LET d == Head(creating)
     IN  /\ job' = [job EXCEPT ![d].status = "queued"]
         /\ order' = Append(order, d)
  /\ creating' = Tail(creating)
  /\ IF Len(creating) = 1 THEN \E w \in Workers : Enter(w) ELSE UNCHANGED batch
  /\ UNCHANGED <<rollout, firmware, timer, check, settling, up, devices, commands,
                 rejections, requests, stops>>

----------------------------------------------------------------------------
(* processRolloutBatch.                                                     *)

TimerFires(w) ==
  /\ up /\ timer /\ MayBatch
  /\ timer' = FALSE
  /\ Enter(w) /\ stranded' = FALSE
  /\ UNCHANGED <<creating, tables, check, settling, up, devices, commands, unmarked,
                 halfway, errors, requests, stops>>

\* Faulty variant: a batch runs whatever the status of its rollout.
ReadAnyRollout(w) ==
  /\ batch[w].pc = "read"
  /\ batch' = [batch EXCEPT ![w].pc = "stats", ![w].acked = rollout.acked]
  /\ UNCHANGED <<creating, tables, timer, check, settling, up, devices, commands,
                 rejections, requests, stops>>

ReadRollout(w) ==
  /\ batch[w].pc = "read"
  /\ IF rollout.status = "running"
     THEN batch' = [batch EXCEPT ![w].pc = "stats", ![w].acked = rollout.acked]
     ELSE Leave(w)
  /\ UNCHANGED <<creating, tables, timer, check, settling, up, devices, commands,
                 rejections, requests, stops>>

\* Math.round(100 * failed / completed) >= fail_threshold_pct
OverThreshold(failed, completed) ==
  completed > 0 /\ (200 * failed + completed) \div (2 * completed) >= Threshold

\* Failures the administrator accepted by resuming do not pause it again.

CheckThreshold(w) ==
  /\ batch[w].pc = "stats"
  /\ Goto(w, IF /\ Count("failed") > batch[w].acked
                /\ OverThreshold(Count("failed"), Count("failed") + Count("succeeded"))
             THEN "pause" ELSE "firmware")
  /\ UNCHANGED <<creating, tables, timer, check, settling, up, devices, commands,
                 rejections, requests, stops>>

AutoPause(w) ==
  /\ batch[w].pc = "pause"
  /\ rollout' = IF rollout.status = "running"
                THEN [rollout EXCEPT !.status = "paused", !.reason = "failures"]
                ELSE rollout
  /\ Leave(w)
  /\ UNCHANGED <<creating, job, order, firmware, timer, check, settling, up,
                 devices, commands, rejections, requests, stops>>

CheckFirmware(w) ==
  /\ batch[w].pc = "firmware"
  /\ Goto(w, IF firmware THEN "window" ELSE "fail_queued")
  /\ UNCHANGED <<creating, tables, timer, check, settling, up, devices, commands,
                 rejections, requests, stops>>

FailQueued(w) ==
  /\ batch[w].pc = "fail_queued"
  /\ job' = [d \in Devices |-> IF job[d].status = "queued"
                               THEN [job[d] EXCEPT !.status = "failed"] ELSE job[d]]
  /\ Goto(w, "complete")
  /\ UNCHANGED <<creating, rollout, order, firmware, timer, check, settling, up,
                 devices, commands, rejections, requests, stops>>

\* Outside the window the whole rollout is held, and looked at again later.
CheckWindow(w) ==
  /\ batch[w].pc = "window"
  /\ \/ window /\ Goto(w, "pick") /\ UNCHANGED timer
     \/ ~window /\ With("queued") # {} /\ Leave(w) /\ timer' = TRUE
     \/ ~window /\ With("queued") = {} /\ Goto(w, "complete") /\ UNCHANGED timer
  /\ UNCHANGED <<creating, tables, check, settling, up, devices, commands,
                 rejections, requests, stops>>

\* Queued before another job: by queued_at.
Before(d, e) == \E i, j \in DOMAIN order : i < j /\ order[i] = d /\ order[j] = e

\* The queued jobs, as many as fit the batch, ORDER BY queued_at.
BatchLen == IF Count("queued") < BatchSize THEN Count("queued") ELSE BatchSize
Picks    == {s \in [1 .. BatchLen -> With("queued")] :
               /\ \A i, j \in DOMAIN s : i < j => Before(s[i], s[j])
               /\ \A d \in With("queued"), i \in DOMAIN s :
                    (\A j \in DOMAIN s : s[j] # d) => Before(s[i], d)}

PickJobs(w) ==
  /\ batch[w].pc = "pick"
  /\ \E s \in Picks :
       batch' = [batch EXCEPT
         ![w].pc = IF s = << >> THEN "complete" ELSE "job",
         ![w].jobs = [i \in DOMAIN s |-> [device |-> s[i], deferrals |-> job[s[i]].deferrals]]]
  /\ UNCHANGED <<creating, tables, timer, check, settling, up, devices, commands,
                 rejections, requests, stops>>

\* The checks of one job, and its command: sendOtaToDevice publishes in the
\* turn in which precheck returns.  The job is as the batch read it.
Precheck(w) ==
  LET j == Head(batch[w].jobs) IN
  /\ batch[w].pc = "job"
  /\ \/ /\ ready[j.device] /\ window
        /\ Goto(w, "mark_sent")
        /\ commands' = [commands EXCEPT ![j.device] = @ + 1]
     \/ /\ "send_error" \in Faults /\ ready[j.device] /\ window
        /\ Goto(w, "mark_failed") /\ UNCHANGED commands
     \/ /\ ~ready[j.device] \/ ~window
        /\ Goto(w, IF j.deferrals >= MaxDeferrals THEN "mark_failed" ELSE "mark_deferred")
        /\ UNCHANGED commands
  /\ UNCHANGED <<creating, tables, timer, check, settling, up, devices, rejections,
                 requests, stops>>

\* On to the next job of the batch; sent counts the commands.
Advance(w, sent) ==
  LET rest == Tail(batch[w].jobs)
  IN  batch' = [batch EXCEPT ![w].jobs = rest, ![w].sent = @ \/ sent,
                             ![w].pc = IF rest = << >> THEN "remaining" ELSE "job"]

\* The UPDATE names the job, not the status it is expected in.
Finish(d, s) == job' = [job EXCEPT ![d].status = IF @ = "absent" THEN @ ELSE s,
                                   ![d].late = FALSE]

\* Faulty variant: the job stays queued.
MarkSentNot(w) ==
  /\ batch[w].pc = "mark_sent"
  /\ Advance(w, TRUE)
  /\ UNCHANGED <<creating, tables, timer, check, settling, up, devices, commands,
                 rejections, requests, stops>>

MarkSent(w) ==
  /\ batch[w].pc = "mark_sent"
  /\ Finish(Head(batch[w].jobs).device, "sent")
  /\ Advance(w, TRUE)
  /\ UNCHANGED <<creating, rollout, order, firmware, timer, check, settling, up,
                 devices, commands, rejections, requests, stops>>

MarkFailed(w) ==
  /\ batch[w].pc = "mark_failed"
  /\ Finish(Head(batch[w].jobs).device, "failed")
  /\ Advance(w, FALSE)
  /\ UNCHANGED <<creating, rollout, order, firmware, timer, check, settling, up,
                 devices, commands, rejections, requests, stops>>

\* queued_at = NOW().
ToTheEnd(d) ==
  \E p \in DOMAIN order :
    /\ order[p] = d
    /\ order' = [i \in DOMAIN order |-> IF i < p THEN order[i]
                                        ELSE IF i < Len(order) THEN order[i + 1] ELSE d]

MarkDeferred(w) ==
  LET d == Head(batch[w].jobs).device IN
  /\ batch[w].pc = "mark_deferred"
  /\ job' = [job EXCEPT ![d].deferrals = @ + 1]
  /\ ToTheEnd(d)
  /\ Advance(w, FALSE)
  /\ UNCHANGED <<creating, rollout, firmware, timer, check, settling, up, devices,
                 commands, rejections, requests, stops>>

\* Faulty variant: a batch that sent something schedules no other.
ScheduleIfIdle(w) ==
  /\ batch[w].pc = "remaining"
  /\ \/ With("queued") # {} /\ ~batch[w].sent /\ timer' = TRUE /\ Leave(w)
     \/ With("queued") # {} /\ batch[w].sent /\ Leave(w) /\ UNCHANGED timer
     \/ With("queued") = {} /\ ~batch[w].sent /\ Goto(w, "complete") /\ UNCHANGED timer
     \/ With("queued") = {} /\ batch[w].sent /\ Leave(w) /\ UNCHANGED timer
  /\ UNCHANGED <<creating, tables, check, settling, up, devices, commands,
                 rejections, requests, stops>>

\* scheduleNextBatch replaces the timer there is.
ScheduleNext(w) ==
  /\ batch[w].pc = "remaining"
  /\ \/ With("queued") # {} /\ timer' = TRUE /\ Leave(w)
     \/ With("queued") = {} /\ ~batch[w].sent /\ Goto(w, "complete") /\ UNCHANGED timer
     \/ With("queued") = {} /\ batch[w].sent /\ Leave(w) /\ UNCHANGED timer
  /\ UNCHANGED <<creating, tables, check, settling, up, devices, commands,
                 rejections, requests, stops>>

\* checkRolloutCompletion; the count and the UPDATE are one step here.
\* Faulty variant: jobs in flight are not waited for.
CompletedUnsent ==
  IF With("queued") = {} /\ rollout.status = "running"
  THEN [rollout EXCEPT !.status = "completed"] ELSE rollout

Completed ==
  IF With("queued") = {} /\ With("sent") = {} /\ rollout.status = "running"
  THEN [rollout EXCEPT !.status = "completed"] ELSE rollout

CompleteAfterBatch(w) ==
  /\ batch[w].pc = "complete"
  /\ rollout' = Completed
  /\ Leave(w)
  /\ UNCHANGED <<creating, job, order, firmware, timer, check, settling, up,
                 devices, commands, rejections, requests, stops>>

----------------------------------------------------------------------------
(* checkOtaStatus: what it reads of all jobs is acted on one job at a time. *)

\* Faulty variant: only the jobs of running rollouts are looked after.
CheckReadRunning ==
  /\ MayCheck /\ check.pc = "idle" /\ With("sent") # {} /\ rollout.status = "running"
  /\ LET done == {d \in With("sent") : version[d] = "new"}
         late == {d \in With("sent") : version[d] = "old" /\ job[d].late}
     IN  /\ done \cup late # {}
         /\ check' = [pc |-> "marking", done |-> done, late |-> late, touched |-> TRUE]
  /\ UNCHANGED <<creating, tables, timer, batch, settling, up, devices, commands,
                 rejections, requests, stops>>

CheckRead ==
  /\ MayCheck /\ check.pc = "idle" /\ With("sent") # {}
  /\ LET done == {d \in With("sent") : version[d] = "new"}
         late == {d \in With("sent") : version[d] = "old" /\ job[d].late}
     IN  /\ done \cup late # {}
         /\ check' = [pc |-> "marking", done |-> done, late |-> late, touched |-> TRUE]
  /\ UNCHANGED <<creating, tables, timer, batch, settling, up, devices, commands,
                 rejections, requests, stops>>

CheckMark(d) ==
  /\ check.pc = "marking" /\ d \in check.done \cup check.late
  /\ Finish(d, IF d \in check.done THEN "succeeded" ELSE "failed")
  /\ check' = [check EXCEPT !.done = @ \ {d}, !.late = @ \ {d},
                            !.pc = IF check.done \cup check.late = {d}
                                   THEN "completing" ELSE "marking"]
  /\ UNCHANGED <<creating, rollout, order, firmware, timer, batch, settling, up,
                 devices, commands, rejections, requests, stops>>

CompleteAfterCheck ==
  /\ check.pc = "completing"
  /\ rollout' = Completed
  /\ check' = NoCheck
  /\ UNCHANGED <<creating, job, order, firmware, timer, batch, settling, up,
                 devices, commands, rejections, requests, stops>>

----------------------------------------------------------------------------
(* The administrator.  A request is an UPDATE, then the rest.               *)

Pause ==
  /\ MayAdminister /\ requests < MaxRequests /\ settling = "nothing"
  /\ rollout.status = "running"
  /\ rollout' = [rollout EXCEPT !.status = "paused", !.reason = "manual"]
  /\ settling' = "pause_timer"
  /\ requests' = requests + 1
  /\ UNCHANGED <<creating, job, order, firmware, timer, batch, check, up, devices,
                 commands, rejections, stops>>

Cancel ==
  /\ MayAdminister /\ requests < MaxRequests /\ settling = "nothing"
  /\ rollout.status \in {"running", "paused"}
  /\ rollout' = [rollout EXCEPT !.status = "cancelled"]
  /\ settling' = "cancel_jobs"
  /\ requests' = requests + 1
  /\ UNCHANGED <<creating, job, order, firmware, timer, batch, check, up, devices,
                 commands, rejections, stops>>

CancelJobs ==
  /\ settling = "cancel_jobs"
  /\ job' = [d \in Devices |-> IF job[d].status = "queued"
                               THEN [job[d] EXCEPT !.status = "cancelled"] ELSE job[d]]
  /\ settling' = "cancel_timer"
  /\ UNCHANGED <<creating, rollout, order, firmware, timer, batch, check, up,
                 devices, commands, rejections, requests, stops>>

StopTimer ==
  /\ settling \in {"pause_timer", "cancel_timer"}
  /\ timer' = FALSE
  /\ settling' = "nothing"
  /\ UNCHANGED <<creating, tables, batch, check, up, devices, commands, rejections,
                 requests, stops>>

\* Resuming accepts the failures so far, and starts a batch at once.
Resume(w) ==
  /\ MayAdminister /\ requests < MaxRequests
  /\ rollout.status = "paused"
  /\ rollout' = [status |-> "running", reason |-> "none", acked |-> Count("failed")]
  /\ Enter(w) /\ stranded' = FALSE
  /\ requests' = requests + 1
  /\ UNCHANGED <<creating, job, order, firmware, timer, check, settling, up,
                 devices, commands, unmarked, halfway, errors, stops>>

----------------------------------------------------------------------------
(* A query is rejected.                                                     *)

Rejected == "db_error" \in Faults /\ errors < MaxErrors /\ errors' = errors + 1

\* createRollout answers 500: the rollout is running, with the jobs so far.
CreateRejects ==
  /\ Rejected /\ up /\ creating # << >> /\ creating' = << >>
  /\ stranded' = TRUE
  /\ UNCHANGED <<tables, timer, batch, check, settling, up, devices, commands,
                 unmarked, halfway, requests, stops>>

\* Whoever called processRolloutBatch logs it; no timer is set.  If jobs are in
\* flight and none waits, the checker still ends the rollout.
BatchRejects(w) ==
  /\ Rejected /\ batch[w].pc \notin {"idle", "mark_sent"}
  /\ Leave(w)
  /\ stranded' = (With("queued") # {} \/ With("sent") = {})
  /\ unmarked' = unmarked \cup {d \in Devices : /\ batch[w].pc = "mark_failed" /\ commands[d] > 0
                                             /\ Head(batch[w].jobs).device = d}
  /\ UNCHANGED <<creating, tables, timer, check, settling, up, devices, commands,
                 halfway, requests, stops>>

\* The UPDATE that follows the command: the job counts as one that was not sent.
MarkRejects(w) ==
  /\ Rejected /\ batch[w].pc = "mark_sent"
  /\ Goto(w, "mark_failed")
  /\ UNCHANGED <<creating, tables, timer, check, settling, up, devices, commands,
                 stranded, unmarked, halfway, requests, stops>>

\* The next run of the checker finds the jobs that are still in flight; it has no
\* reason to look at a rollout of which none is.
CheckRejects ==
  /\ Rejected /\ check.pc # "idle" /\ check' = NoCheck
  /\ stranded' = (stranded \/ With("queued") \cup With("sent") = {})
  /\ UNCHANGED <<creating, tables, timer, batch, settling, up, devices, commands,
                 unmarked, halfway, requests, stops>>

\* cancelRollout answers 500: the rollout is cancelled, its jobs are not.
CancelRejects ==
  /\ Rejected /\ settling = "cancel_jobs" /\ settling' = "nothing"
  /\ halfway' = TRUE
  /\ UNCHANGED <<creating, tables, timer, batch, check, up, devices, commands,
                 stranded, unmarked, requests, stops>>

\* resumeRunningRollouts resumes nothing.
StartRejects ==
  /\ Rejected /\ ~up /\ up' = TRUE
  /\ stranded' = TRUE
  /\ UNCHANGED <<creating, tables, timer, batch, check, settling, devices, commands,
                 unmarked, halfway, requests, stops>>

Rejects == \/ CreateRejects \/ CheckRejects \/ CancelRejects \/ StartRejects
           \/ \E w \in Workers : BatchRejects(w) \/ MarkRejects(w)

----------------------------------------------------------------------------
(* The process.                                                             *)

Stop ==
  /\ up /\ stops < MaxStops
  /\ "crash" \in Faults \/ ("restart" \in Faults /\ Resting)
  /\ up' = FALSE
  /\ creating' = << >> /\ timer' = FALSE
  /\ batch' = [w \in Workers |-> NoBatch]
  /\ check' = NoCheck /\ settling' = "nothing"
  /\ stops' = stops + 1
  /\ UNCHANGED <<tables, devices, commands, rejections, requests>>

\* resumeRunningRollouts: running rollouts with queued jobs only.
Start ==
  /\ ~up /\ up' = TRUE
  /\ IF rollout.status = "running" /\ With("queued") # {}
     THEN (\E w \in Workers : Enter(w)) /\ stranded' = FALSE
     ELSE UNCHANGED <<batch, stranded>>
  /\ UNCHANGED <<creating, tables, timer, check, settling, devices, commands,
                 unmarked, halfway, errors, requests, stops>>

----------------------------------------------------------------------------
(* The controllers, the clock and other parts of the backend.               *)

\* A controller installs what it was told to, and its heartbeat says so.
Install(d) ==
  /\ commands[d] > 0 /\ version[d] = "old"
  /\ version' = [version EXCEPT ![d] = "new"]
  /\ UNCHANGED <<creating, tables, timer, batch, check, settling, up, ready, window,
                 turns, commands, rejections, requests, stops>>

\* OTA_TIMEOUT_MS has passed since sent_at: more than a batch takes.
Expire(d) ==
  /\ job[d].status = "sent" /\ ~job[d].late
  /\ \A w \in Workers : ~batch[w].sent
  /\ job' = [job EXCEPT ![d].late = TRUE]
  /\ UNCHANGED <<creating, rollout, order, firmware, timer, batch, check, settling,
                 up, devices, commands, rejections, requests, stops>>

\* It goes online or offline, defrosts, has a critical alarm, or not any more.
ReadinessTurns(d) ==
  /\ turns < MaxTurns /\ turns' = turns + 1
  /\ ready' = [ready EXCEPT ![d] = ~@]
  /\ UNCHANGED <<creating, tables, timer, batch, check, settling, up, version,
                 window, commands, rejections, requests, stops>>

WindowCloses ==
  /\ turns < MaxTurns /\ turns' = turns + 1
  /\ window /\ window' = FALSE
  /\ UNCHANGED <<creating, tables, timer, batch, check, settling, up, version,
                 ready, commands, rejections, requests, stops>>

WindowOpens ==
  /\ ~window /\ window' = TRUE
  /\ UNCHANGED <<creating, tables, timer, batch, check, settling, up, version,
                 ready, turns, commands, rejections, requests, stops>>

\* POST /devices/:id/reassign cancels the job of the controller.
Reassigned(d) ==
  /\ "reassign" \in Faults /\ (NoBatchRuns \/ "admin_race" \in Faults)
  /\ job[d].status \in Active
  /\ job' = [job EXCEPT ![d].status = "cancelled"]
  /\ UNCHANGED <<creating, rollout, order, firmware, timer, batch, check, settling,
                 up, devices, commands, rejections, requests, stops>>

----------------------------------------------------------------------------
BatchSteps(w) ==
  \/ ReadRollout(w) \/ CheckThreshold(w) \/ AutoPause(w) \/ CheckFirmware(w)
  \/ FailQueued(w) \/ CheckWindow(w) \/ PickJobs(w) \/ Precheck(w)
  \/ MarkSent(w) \/ MarkFailed(w) \/ MarkDeferred(w) \/ ScheduleNext(w)
  \/ CompleteAfterBatch(w)

\* The rollout is over, or waits for the administrator, or for a restart.
Over == /\ up /\ Resting /\ ~timer /\ (rollout.status # "running" \/ stranded)
        /\ UNCHANGED vars

Next ==
  \/ CreateJob
  \/ \E w \in Workers : TimerFires(w) \/ BatchSteps(w) \/ Resume(w)
  \/ CheckRead \/ CompleteAfterCheck
  \/ \E d \in Devices : CheckMark(d) \/ Install(d) \/ Expire(d) \/ ReadinessTurns(d)
                        \/ Reassigned(d)
  \/ Pause \/ Cancel \/ CancelJobs \/ StopTimer
  \/ Rejects
  \/ Stop \/ Start
  \/ WindowCloses \/ WindowOpens
  \/ Over

Spec == Init /\ [][Next]_vars

(* PostgreSQL answers, timers fire, the checker runs every 30 s, the service *)
(* manager starts the process, sent_at gets old, and the window opens daily. *)
(* No controller is obliged to install anything, nor to be ready.            *)
Fairness ==
  /\ WF_vars(CreateJob)
  /\ \A w \in Workers : SF_vars(TimerFires(w)) /\ WF_vars(BatchSteps(w))
  /\ SF_vars(CheckRead) /\ WF_vars(CompleteAfterCheck)
  /\ \A d \in Devices : WF_vars(CheckMark(d)) /\ WF_vars(Expire(d))
  /\ WF_vars(CancelJobs) /\ WF_vars(StopTimer)
  /\ WF_vars(Start) /\ WF_vars(WindowOpens)

FairSpec == Spec /\ Fairness

----------------------------------------------------------------------------
(* What a rollout promises.                                                 *)

\* "completed" is announced to the administrators with its totals: no job of a
\* completed rollout is waiting or in flight.
CompletedIsFinal == rollout.status = "completed" => With("queued") \cup With("sent") = {}

\* A controller of a cancelled rollout can be updated again: no job stays active,
\* which would be 409 to every later update of it (ota.js:183), unless the cancel
\* itself was rejected halfway.
CancelReleases ==
  rollout.status = "cancelled" ~> With("queued") \cup With("sent") = {} \/ halfway

\* A job gets one command, so that its controller installs once; the next batch
\* repeats it where a database that failed twice in a row kept no trace of it.
OneCommand == \A d \in Devices : commands[d] <= 1 \/ d \in unmarked

\* A rollout that is paused or over sends nothing.
OnlyRunningSends == [][commands' # commands => rollout.status = "running"]_vars

\* A rollout left alone comes to an end, or stops for the administrator, unless a
\* rejected query ended its last batch: that one waits for a restart.
RolloutEnds == rollout.status = "running" ~> rollout.status # "running" \/ stranded
=============================================================================
