# Verification of the ModESP Cloud backend

ModESP Cloud runs fleets of refrigeration controllers. The controllers talk MQTT to a
broker whose access rules are SQL queries; one Node.js process (`src/backend/src`)
subscribes to everything they say, keeps the last state of each in memory, writes to
PostgreSQL, notifies people and other systems, and sends commands back. Node runs one
callback at a time, but every `await` lets another in, and two parties the process does
not control, the broker and the controllers, hold state of their own. This directory holds
TLA+ models of the parts where that matters, the TLC runs that check them on small
instances, and theorems about all of them that TLAPS checks for every instance.

Paths below are relative to `src/backend/src` unless they begin with `docs/`, `infra/` or
`src/`.

## 1. Inventory

| Component | State it keeps | Operations | What makes it correct |
|---|---|---|---|
| Alarm engine, `services/mqtt.js` | `stateMap`, `pendingAlarms`, `deviceRegistry`; `alarms`, `devices.last_state` | `handleStateKey`, `detectAlarm`, `raiseAlarm`, nuisance timers, `stateWriter`, `rearmPendingAlarms`, `start`, `shutdown` | each episode of a fault is one row, opened and closed once, announced in turn, booked to the owner, across restarts |
| Offline alarm, `services/mqtt.js` | `_online`, `_offlineSince`, `_offlineAlarmed`; `alarms` | `handleStatus`, `handleHeartbeat`, `offlineDetector`, `raiseOfflineAlarm`, `clearOfflineAlarm`; the last will | dark controllers are alarmed, talking ones are not |
| Device onboarding, `routes/devices.js`, `index.js`, `services/mqtt.js`, `infra/mosquitto/mosquitto.conf` | `devices` row; retained `_set_tenant`; `pendingRescues`, `recentAssigns`, `deletedDevices`; prefix and password in the controller | discovery, register, assign, reassign, reset, delete, discard, recover, claim; rescue, re-arming, cleanup | row, broker and controller agree in the end |
| OTA rollouts, `services/ota.js` | `ota_rollouts`, `ota_jobs`, `rolloutTimers` | create, batches, status checks, pause, resume, cancel | no wave over the threshold, no command when stopped, one command per controller, an end |
| Webhooks, `services/webhooks.js`, `routes/webhooks.js` | `webhooks`, `webhook_deliveries`, `inflight`, `rerun` | enqueue, passes, attempts, switching off, redeliver, PATCH | every delivery ends, none twice too often, none forgotten |
| Notifications, `services/push.js`, `routes/alarms.js` | `debounceMap`, `alarms.escalated_at`, `acknowledged_at`, dispatches under way | `handleAlarm`, `runEscalations`, `dispatchToLinkedUsers`, acknowledge | nobody is told twice; the last word is true; a critical alarm nobody takes is escalated |
| Billing and dunning, `services/billing.js` | `invoices`, `tenants.status` and partner, runs under way | `generateInvoices`, `sendInvoiceEmail`, `runDunning`, `markPaid`, `voidInvoice`, `restoreAfterSettlement` | charged once a period; no silent suspension; each letter once; payment restores |
| Organisation lifecycle, `services/tenant-lifecycle.js`, `tenant-delete.js`, `tenant-export.js`, `registration.js` | `tenants`, `tenant_exports`, files on disk, the sweep | trial end, close, reopen, purge, remove, approve, reject, export | nothing purged early, nothing kept late; files and rows agree |
| Device import, `services/device-import.js`, `routes/imports.js` | import job, `devices` rows, generated passwords | create, run, cancel, resume, take credentials | whoever has a password is admitted with it; nobody else's controller is taken; every import ends |
| Scheduled reports, `services/report-scheduler.js` | `next_run_at`, archive | due, run, retry, purge | one document per period |
| Maintenance hints, `services/maintenance.js`; work orders, `routes/work-orders.js` | hints, orders | evaluate, dismiss; status changes | one open hint per rule and controller |
| WebSocket, `services/ws.js` | subscriptions, scopes | subscribe, broadcast | a socket sees what its user may see |
| Telemetry and backfill, sites, map, weather, geocoding, reports' layout, firmware files, audit | rows, caches | CRUD, lookups | - |
| Sessions and accounts, web interface, landing page, deployment | - | - | outside this development |

How they interact. The alarm engine and the offline alarm share one state record per
controller and emit `alarm` events, which push, webhooks and WebSocket consume. Reassigning
a controller settles rows of alarms, hints, OTA jobs and work orders in one transaction, and
repoints the in-memory record and the retained command afterwards. `tenants.status` is
written by billing and lifecycle and read by the broker's ACL, by the message handlers, by
notifications and by webhooks. An import writes the rows that onboarding works on, and sends
the same commands. OTA commands and onboarding commands reach a controller only on the prefix it
is subscribed to.

What is hard. (a) Handlers are not awaited by `onMessage`, so state read before an `await`
is stale after it. (b) Timers outlive what they were armed for. (c) Retained messages and
wills are replayed long after they were true. (d) A restart forgets maps and timers, a crash
also the last unwritten states. (e) Two statements that belong together (command and
UPDATE, SELECT and INSERT) are apart. (f) The row, the broker and the controller of a moved
device change at different times. (g) Jobs decide on rows they have read, and act on them
when others may have written them: sweeps, dunning runs, imports, batches. (h) Files, mails
and commands are not part of a transaction. `PROJECT.json` lists every hazard at its line under
"hazards", with the property that would catch it, or why none does yet.

## 2. Plan

Order of work, by what a mistake costs:

1. `AlarmEngine` with `AlarmLedger`, `OfflineAlarm`, `AlarmEngineProofs` - done.
2. `OtaRollout`, `WebhookQueue` - done.
3. `DeviceOnboarding` - done for one controller and one backend process.
4. `AlarmNotices` (`services/push.js`): cooldown, acknowledgement, escalation, channels that
   throw - done.
5. `Billing` (invoices, dunning, settlement) and `OrganisationLifecycle` (trial, purge,
   export, approval) - done, as two modules: what they share is `tenants.status`, which each
   of them lets the other set at will (`StatusByHand`, `SetStatus`).
6. `DeviceImport`: imports beside claims and assignments by hand - done.
7. Proofs of the safety properties of all of these - done: every invariant and every action
   property that a passing run checks is a theorem.
8. Left: `OtaDeploy` (a single deployment against a rollout), `ReportSchedule`, `HintRules`;
   the ACL cache, a broker outage and a restart of the server in `DeviceOnboarding`.

Theorems left: what `HintIsTrue` could say of several handlers at once (as it stands it is
false then, see its hazards) and of a rescue whose answer comes late; the ledger of the alarm
engine across graceful restarts, up to the announcement a stop may lose.

## 3. Modules

| Module | Models | Composed of |
|---|---|---|
| `AlarmLedger` | abstract: rows and announcements of one code take turns | - |
| `AlarmEngine` | the `protection.*` alarms of one controller | implements `AlarmLedger`, undisturbed |
| `OfflineAlarm` | the `device_offline` alarm of one controller | implements `AlarmLedger` |
| `OtaRollout` | one rollout, its batches, checker and administrator | - |
| `WebhookQueue` | one hook, its deliveries, the pass over them | - |
| `DeviceOnboarding` | row, broker, server memory and controller | - |
| `AlarmNotices` | who is told what of the alarms of one controller | relies on `AlarmEngine`'s `OneActiveRow` |
| `Billing` | invoices, dunning, settlement, the statuses they set | - |
| `OrganisationLifecycle` | trial, closing, purge, removal, exports | - |
| `DeviceImport` | CSV imports of one organisation, beside others at its controllers | - |
| `DeviceProofs` | theorems about `DeviceImport` and `DeviceOnboarding` | extends both |
| other `*Proofs` | theorems about the module they are named after | extend it |
| `MC_*` | constants and symmetry for TLC | extend their module |

Conventions. A stretch of code between two awaits is one action; what a handler holds over
an await is a record with a program counter (`task`, `batch`, `raise`, `pass`, `request`,
`work`, `run`, `sweep`, `worker`). Time is left out: a delay, a backoff or a grace period may
be over at any moment after it began. Every bound is a constant whose name begins with `Max`
(or `Slots`, `Workers`), and `Faults`, where a module has it, names the disturbances a run
admits; elsewhere `MaxIncidents` and the like count them. Variables listed as "history" are
written for the properties; no step of the backend depends on them. A definition whose comment begins
with "Faulty variant" is a plausible bug; the specification does not use it. `PROJECT.json`
pairs each with a property that rejects it.

### AlarmEngine

`stateKey`, `stateTenant` and `dirty` are the controller's entry in `stateMap`,
`pendingAlarms` the armed nuisance timers with the tenant each closure captured, `task` the
alarm queries in flight, `batch` the state batches in flight, `alarms` and `lastState` the
tables. `HandleStateKey` is the handler up to its first await: a rise issues an INSERT or
arms a timer, a fall clears the timer or issues the UPDATE, a first report of "off" issues
the UPDATE that reconciles. `Execute` runs a query in the database, `Resume` is the rest of
the handler, the store of the key included. `StartWrite`/`FinishWrite` are `stateWriter`;
`BeginShutdown`, `FinishShutdown`, `Crash`, `Start`, `Rearm` and `Connect` the process;
`Reassign*`, `RefreshRegistries` and `DeviceMoves` the move to another organisation. `heard`
is history: what the controller last said of a code, `"rose"` being an off followed by an on.

### OfflineAlarm

The controller is talking, mute (connected and silent) or gone; a lost connection makes the
broker publish the will. `DetectSilence` and `DetectOffline` are the two loops of
`offlineDetector`, `SelectRow`/`InsertRow`/`AnnounceOpen` and `CloseRow`/`AnnounceClosed` the
two asynchronous functions. `replay` holds what a new subscription is about to receive.

### OtaRollout

A worker is a `processRolloutBatch` in progress; its `pc` names the query it waits for.
`CreateJob` is one INSERT of `createRollout`. `CheckRead`, `CheckMark` and
`CompleteAfterCheck` are `checkOtaStatus`; `Pause`, `Cancel`, `Resume` and their later steps
are the requests. The order of `queued_at` is the sequence `order`, which deferrals rewrite.
Percentages are computed as in the code.

### WebhookQueue

`pass` is `runPass`, one at a time because of `inflight`; `rerun` is the flag a caller sets
instead. A pass holds the rows it selected and whether their hook was enabled; `Post`,
`AnswerOk`, `AnswerFailed`, `Count`, `Disable` are one attempt with the writes of
`recordAttempt`. PATCH reads in one step and writes in another.

### DeviceOnboarding

`row` is the `devices` row, with `assigned_at` against `last_seen` abstracted to the state of
the pending grant (`none`, `open`, `closed`). `Admitted` and `Allowed` are the queries of
`infra/mosquitto/mosquitto.conf`. A request sends its commands (`Send`), writes the row
(`Write`), settles memory and hint (`Settle`) and refreshes the registries (`Finish`), which
is the order of every handler in `routes/devices.js`. `ctl` is what the controller saved and
its connection. The rescue and the re-arming run beside the handlers. The module's
specification is `Onboarding` (`OnboardingInit`, `OnboardingNext`, over `onboarding`), as one
proof module extends it together with `DeviceImport`.

### AlarmNotices

`work` holds the handlers of `alarm` events and the sweeps under way, any number at once, as
neither is awaited. A handler goes through `Resolve` (is the organisation served),
`SendLegacy` (the subscribers, on a raise), `ReadUsers` and `Send`
(`dispatchToLinkedUsers`, one user at a time, by `Recipients` and the preferences of
`Delivers`); a sweep through `SweepRead` and `Claim` (the UPDATE that takes a row), and then
the same. A send is taken or throws. `fresh` is `debounceMap`; `Forget` its timeout. A person
who is a subscriber by a linked account and a user is one person (`Person`).

### Billing

`run` holds the runs of `runOnce` and of POST `/billing/admin/run`: the payers grouped
(`StartRun`), each invoiced in one transaction (`Issue`) and mailed, then the rows
`runDunning` selected (`ReadOverdue`), each going through the statuses (`Dun`), the stage
(`Record`) and the letter (`Letter`). `settling` is `markPaid`/`voidInvoice` followed by
`restoreAfterSettlement`. Amounts are left out; the age of an invoice is the stage its
days have `reached`. `cause` is history: which invoice's dunning set a status.

### OrganisationLifecycle

`sweep` is `tick`: trials, closed organisations (read once, purged one transaction each:
`UnlinkFiles`, then `CommitPurge` or `PurgeFails`), expired exports. `work` is what the
process does for an export; `file` is the disk. `Reject` and `Remove` are the two steps of a
rejection, and of a removal. `closedAt` is `closed_at`, older than the retention or not.

### DeviceImport

`worker` is `run`: it decides every row (`Decide`, with what the other organisation has
claimed until then), and carries them out later (`NextRow`, `SendPassword`, `WriteRow`, or
`PreRegister`, `Skip`), flushing progress every `Every` rows. `held` is the password in the
controller, `job.enc` the credentials as stored, `taken` the hand-out. `Claim`, `Appear`,
`AssignByHand` are the others.

## 4. Runs

| Run | Disturbances and bounds | What it shows |
|---|---|---|
| `alarm_calm` | two codes, one with a nuisance delay; one restart | every rise recorded or counted down, every fall closes, no second row, transients dropped; a rise that stands is recorded in the end |
| `alarm_faults` | one code; one rejected query, one reassignment, write race, crash | no "cleared" over an active row; nobody but owners hears of an alarm |
| `alarm_overlap` | two queries in flight | **violated**: a rise during the clearing UPDATE is lost |
| `offline_alarm` | two restarts or re-subscriptions, one rejected query, two changes of status | the ledger always, nothing but the controller closes; raised and closed as long as nothing was rejected or suspended |
| `ota_calm` | two controllers in batches of one; two requests, one restart, failing sends, missing firmware, one change of readiness or window | one command each, none when stopped, cancelled stays cancelled, and the rollout ends |
| `ota_races` | the checker amid a batch, crash (amid the creation, too), reassignment, failing sends | a completed rollout has no job waiting or in flight |
| `webhooks` | two deliveries, batches of one, two attempts, one mishap, one request, one suspension | no post after the end, no delivery left over, switching off only on a streak, every delivery ends |
| `onboarding` | two organisations, two requests, one loss in the controller | the hint is true, the grant closes by a check-in only, the controller comes home or is found again |
| `notices` | an administrator with a linked chat, a superadmin, a group chat; a critical alarm that comes twice; two handlers or sweeps at once; one restart, throwing channel, acknowledgement or suspension | nobody told twice, the last word true, escalation reaches every administrator |
| `billing` | a partner and its client, two months, two invoices, one restart, failing mail, or status or partner set by hand | no silent suspension, letters once, held for debt only, charged once, dunning goes to its end |
| `lifecycle` | one organisation, two exports, three settings, one restart or rollback | purged at rest and then for certain; files and rows agree; exports end |
| `imports` | two imports of two controllers, one step of others, one restart or failing query | passwords and rows meet, others keep theirs, imports end |

Why the bounds are enough. A controller or a rollout is the unit of the code: two different
controllers share no row and no map entry, so one of them, with two codes to tell one timer
from another and two organisations to tell the owner from another, exercises every branch.
Two jobs with batches of one make a second wave. Two attempts and a limit of one reach
"dead", the leftover of a LIMIT and a full streak (`DisableAfter` is 2). One restart or crash
is enough to forget memory once; two for the offline alarm, which a second replay could
confuse. `MaxRows` is 2 because "two or more rows" is the error sought. Two handlers are
enough for a race on one row, and an alarm that comes twice for one that was told before. A
partner and its client are the smallest payer group with somebody to charge twice; two months
make the dunning of one invoice meet the settlement of another. Two exports are a second file
of the organisation that is purged. Two imports are one that follows another, as the code
admits one at a time; two controllers are a row decided and waiting while another is carried
out. The larger constants of the code (five attempts, twenty failures, three rescues, five
rows to a flush) repeat the same step. The theorems of section 6 lift the bounds altogether
where they apply.

What fails when more is allowed (each tried with the constants named, and listed as a hazard
with a note): with `crash` or `write_race` the alarm keys restored after a start are not the
ones the rows were made from (`OffReportCloses`, `RiseIsCovered`); with `overlap` the offline
alarm opens for a controller that is back (`OpenMeansOffline`); with `crash`, or with
`admin_race` and two workers, a controller gets a second command (`OneCommand`); with `crash`
or `reassign` a rollout can be left running for ever (`RolloutEnds`); with two handlers at
once, or a rescue whose SELECT is answered after a later COMMIT was, the hint is wrong
(`HintIsTrue`). These properties are therefore stated of the runs that exclude the case. The
properties of `AlarmNotices`, `Billing`, `OrganisationLifecycle` and `DeviceImport` admit every
disturbance the module has, and except by name (`muddled`, `lost`, `entangled`, `moved`,
`amid`, `cut`, `astray`) what it came upon; each exception is there because TLC violates the
property without it, and each is described in section 7 and under "hazards".

## 5. Fairness

* PostgreSQL answers: weak fairness of every step that waits for it (the pool has a statement
  timeout, and a rejected query is an answer).
* Timers fire and intervals tick. An action that a disturbance can disable again and again (a
  detector between two handlers, a timer that waits for the event loop) is strongly fair: the
  interval comes back after each interruption.
* The service manager starts a process that ended (`infra/systemd`).
* The broker publishes a will and replays what it retains.
* A controller that stays "talking" publishes (its heartbeat runs every 30 s); one that is
  admitted connects, publishes on connecting, and reconnects now and then; a refused one
  registers.
* A mail server or a channel answers, throws or times out: `Letter`, `MailInvoice` and `Send`
  have both outcomes, and fairness is of the step and not of its success.
* A transaction commits or is rolled back, and a build of an export or an import ends one way
  or another; the number of rollbacks is bounded, so that a sweep that retries succeeds.
* No fairness obliges a controller to report a change, to go dark, to come back or
  to install anything, and none obliges a person to make a request.

## 6. Proofs

Every theorem is about the specification without fairness and for every value of the
constants. `TypeCorrect`, in every proof module, is `Spec => []TypeOK`, under every combination
of disturbances; `OnboardingTypeCorrect` is its like for `DeviceOnboarding`.

| Module | Theorems | Hypothesis | Inductive invariant |
|---|---|---|---|
| `AlarmEngineProofs` | `CalmInvariant`, `OffReportsClose`, `RisesAreCovered`, `AlarmsAreOpenedOnce`, `TransientsAreDropped`, `ShutdownPersists` | `Calm` | `CalmInv` |
| | `StrangersHearNothing` | none | `OwnerInv` |
| | `ClearedMeansClosed` | no `overlap` | `ClearInv` |
| | `EngineKeepsLedger` | no `Faults` at all | `CalmInv`, `TurnInv` |
| `OfflineAlarmProofs` | `OnlineHasNoAlarm`, `OnlyTheDeviceCloses`, `LedgerImplemented` | no `overlap` | `CalmInv` |
| `OtaRolloutProofs` | `StoppedSendsNothing`, `CompletedIsOver` | no `admin_race` | `HandInv` |
| | `CommandedOnce` | neither `admin_race` nor `crash` | `OnceInv` |
| | `CancelledForGood` | neither `admin_race` nor `reassign` | `StaysInv` |
| `WebhookQueueProofs` | `EndedStaysEnded`, `NothingIsLeft`, `OffAfterStreak` | none | `QueueInv` |
| `AlarmNoticesProofs` | `ToldOnce` | none | `NoticeInv` |
| | `LastWordTrue` | none | `WordInv` |
| `BillingProofs` | `NobodySuspendedUnasked`, `NobodyChargedTwice`, `NoLetterTwice`, `PaymentRestores` | none | `SentInv`, `PlacedInv`, `DunningInv` |
| `OrganisationLifecycleProofs` | `DestroyedAtRest`, `FilesMatchRows` | none | `RestInv`, `DiskInv` |
| `DeviceProofs` | `PasswordsComeTogether`, `NobodyElsesTaken` | none | `ImportInv` |
| | `GrantKeptOpen` | none | `OnboardingSorts` |
| | `HintTrue` | `MaxOpen = 1`, no `LateAnswers` | `HintInv` |

Assumptions are those of the modules about their constants (`ConstantsAssumption`,
`OfflineConstants`, `RolloutConstants`, `QueueConstants`, `NoticeConstants`,
`BillingConstants`, `LifecycleConstants`, `ImportConstants`, `OnboardingConstants`), which TLC evaluates in every
run. The hypotheses on `Faults`, `MaxOpen` and `LateAnswers` are hypotheses of the theorems and not assumptions of the
modules.

*AlarmEngine.* `Calm` is `Faults \subseteq {"restart"}`: handlers that do not overlap,
graceful restarts, nothing else. The overlap is a real hazard of the code (`alarm_overlap`
shows what it costs). The promises are not inductive. That a rise is covered after a restart
depends on the persisted key being the one in memory when the process stopped, on
`rearmPendingAlarms` going through the codes that have no row, and on no query being in
flight across the stop. `CalmInv` says so in four parts: `CalmShape` (one owner, one query),
`CalmPhase` (what can be going on while the process is starting, up, flushing or down),
`CalmPersisted` (a batch in flight, or the row when nothing is dirty, holds the state map) and
`CalmKey` (how key, timer, row, query and report go together for one code). The proof has one
lemma per action, collected in `CalmNext`. TLC checked `CalmInv` as an invariant first.

Three theorems leave the calm case or narrow it. `StrangersHearNothing` needs no hypothesis:
whatever carries a tenant into the table carries an owner (`OwnerInv`); only the topic and
the command to the controller may name somebody else, and a message under that topic is
dropped by the registry. `ClearedMeansClosed` admits everything but overlap: an UPDATE that
closed rows is not overtaken, and an INSERT behind an announced clear is still to be
announced (`ClearInv`). `EngineKeepsLedger` is the safety part of the refinement of
`AlarmLedger`, code by code, and holds for a process that is never stopped only: a nuisance
timer that elapses while `shutdown` waits for the state to be written
(`services/mqtt.js:180`, the timers are cleared after it) inserts its row, and may lose the
announcement with the process. TLC shows it with `Faults = {"restart"}`; the next start finds
the row and announces nothing.

*OfflineAlarm.* Without overlap, one query at a time (`OneQuery`), so that rows and
announcements are in turn (`InTurn`), from which the refinement follows: every step of
`OfflineAlarm` is a step of `AlarmLedger` or leaves its variables alone. `Asked` ties a
closing under way to a message, and `Closing` an online controller to a row that is gone or
going. Restarts, re-subscriptions, rejected queries and suspensions are all admitted.

*OtaRollout.* A batch that is past its first read has found the rollout running (`Running`),
and nobody but another batch has changed that, because creation, timer and batch exclude one
another (`OneBatch`, `Alone`) and no timer outlives the pause or cancel that clears it
(`Stopped`). The status checker may run amid a batch: it pauses nothing, and completes a rollout
only if it finds no job queued or sent (`Final`); that is why the hypothesis is about the
administrator alone. What a batch has in hand is queued and no job twice (`InHand`), what a
check has in hand was sent (`Checked`). `InHand` rests on lemmas about the query of a batch: the
jobs it picks are queued and distinct (`BatchLen` and `Picks` describe the query by the
positions of the jobs in the order, and not by the recursive `SelectSeq`, which the provers
cannot reason about), and a deferral moves a job to the end and duplicates none (`ToTheEnd`).
`OnceInv` adds `OnceOf`: a job that waits, and is not between its command and the UPDATE, has
been sent no command, and any other one at most. A crash between the two breaks exactly this,
and is excluded. `StaysInv` says that no check has a cancelled job in hand (`Uncancelled`); a
reassignment, which cancels jobs amid a check, is excluded.

*WebhookQueue.* A pass holds pending rows only, each once (`InHand`); a pending row has
attempts left, and one that is not due has been tried (`Tried`); the hook counts no more
failures in a row than there were (`Counted`). Rejected queries, crashes, redeliveries and
PATCHes are admitted.

*AlarmNotices.* One place at most has an event in hand (`OneHand`: that is the claim of a
sweep, and the life of a row), what is told or in hand has happened (`ToldLate`, `InHand`),
and nobody ahead of a handler has been told of it (`NotYet`); subscribers linked to a user
are not among those of the first stage, which is why nobody hears twice by two channels.
`WordInv` adds that a code has one open row at most (`OneOpen`); that, unless the last event of
the code was muddled, all that is under way about it says what is the case (`SaysTruth`); and
that whoever has not heard that yet is still to be told by a handler (`Hears`). With nothing
under way any more, everybody concerned has.

*Billing.* `SentInv`: a row that a run read as sent is sent. `PlacedInv`: who never changed
the partner is counted with the same payer in rows, groups and invoices, and a payer has one
invoice per period by the key of the table. `DunningInv`: of an invoice that is not
entangled, one run at most handles it, its stage and letters go up in step (`Paced`), no run
handles it once it is settled (`Over`), a suspension has its last stage written or about to
be (`Deep`), and it is held for debt (`Held`).

*OrganisationLifecycle.* `RestInv`: `closed_at` is set only while closed, and past only once
the organisation has rested; what the sweep has before it has rested, was reopened since, or
is removed. `DiskInv`: what is scheduled, built, held by the sweep and offered by a row,
export by export.

*DeviceImport.* One import in progress at most (`OneJob`), its worker at one row at a time
(`AtRow`); a row that waits is as it was decided, or astray (`Decided`); an import's hash is
on rows it admitted (`HashAdmitted`), its credentials are stored once it has ended (`Kept`).

*DeviceOnboarding.* `OnboardingSorts` says what the types leave open: an active row, registry
entry or rescue names an organisation. It is all that `GrantKeptOpen` needs, for any number of
handlers at once: the only step that closes a grant is a message under the prefix the row
allows. `HintTrue` needs to know where each handler is between its three writes, the command,
the row and the hint. What a request asked of the row still holds when it writes it (`Found`);
an assignment writes the hint first (`Ahead`) and every other handler last (`Behind`); and the
tenant a rescue is about to send is that of an active row, which no handler moves before it has
been sent (`Answered`), which is where the order of answers comes in. Between two handlers the
hint is then true (`HintHolds`). Nothing of it depends on the controller: it may connect, talk,
forget and register at any moment.

Only model-checked: liveness (`RiseIsRecorded`, `DarkIsRaised`, `BackIsClosed`, the fairness
of `LedgerKept`, `RolloutEnds`, `DeliveryEnds`, `ActiveComesHome`, `Rediscovered`,
`EscalationComes`, `DunningComes`, `ClosedIsPurged`, `ExportEnds`, `ImportEnds`), because TLAPS
does not reason about `ENABLED`. Every invariant and every action property of a passing run is
a theorem, under hypotheses which that run satisfies.

## 7. Findings

One disagreement is kept as a run that TLC must find violated:

* `alarm_overlap` (`services/mqtt.js:393`): the key is stored after the await, so a rise
  reported while the previous fall is being written is compared with the old value.

What else the code does that a document or a comment says otherwise. Each was seen in TLC,
and can be again, by the change of the configuration named here:

* A nuisance timer survives a reassignment (`services/mqtt.js:791`) and opens a row for the
  previous owner after its rows were settled. `"reassign"` in `Faults` of `AlarmCalm.cfg`, and
  an invariant that rows are active for the owner only.
* Cancelling a rollout amid a batch (`services/ota.js:457`): the UPDATE by job id overwrites
  "cancelled", and the command goes out; `docs/API_REFERENCE.md:3053` says that queued jobs
  are cancelled. `"admin_race"` in `Faults` of `OtaCalm.cfg` violates `CancelledStays`.
* `register` (`index.js:298`) answers a pending row as if it held the bootstrap password,
  although `reset-pending` keeps the hash: the controller is told to come in and refused by
  the broker until somebody calls recover.
* Deliveries queued before a suspension are posted after it (`services/webhooks.js:207`; the
  comment at 126 says that nothing leaves for a suspended organisation).
* Raise, clear and raise again within five seconds: the second raise is dropped
  (`services/push.js:122`), and the last word people had is "cleared". This is what `muddled`
  excepts from `LastWordIsTrue`; so is an escalation of an alarm that was acknowledged or
  cleared between the SELECT and the claim (`services/push.js:234`).
* An invoice paid between the SELECT of `runDunning` and its turn suspends the organisation
  after the payment (`services/billing.js:498`), and nothing restores it. A payment while
  another dunned invoice of the payer is open restores nothing, and the payment of the other
  one lifts a suspension only if it had come to that stage itself. This is what `entangled`
  excepts from `HeldForDebt`.
* A client that comes under a partner after its own invoice of the month, and before the
  partner's, is charged twice (`services/billing.js:359`): `moved`, in `ChargedOnce`.
* An organisation reopened between the SELECT of the sweep and its purge loses its data
  (`services/tenant-lifecycle.js:91`): `amid`, in `PurgedAtRest`. One that was purged, reopened
  and closed again is never purged again, as `purged_at` stays.
* A restart amid an export leaves the row in progress for ever, and the next request is
  answered 409 (`services/tenant-export.js:214`): `cut`, in `ExportEnds`.
* A controller that another organisation claims after an import decided its row is taken all
  the same (`services/device-import.js:564`; the comment at 334 says that only the claimant
  may): `astray`, in `OthersKeepTheirs`.
* A restart amid an import loses the passwords generated since the last flush: `lost`, in
  `PasswordsMeet`.
* An organisation approved while its rejection is under way is removed
  (`services/registration.js:251`).

## 8. Not modelled, and why

Values, thresholds, wording, layout and HTTP clients are abstracted away. In the alarm
engine: telemetry, event rows, backfill and WebSocket deltas, which share the handlers but
no state with the alarms. In onboarding: bulk delete, the one-minute ACL cache, an outage of
the broker and a restart of the server. `createRollout` is modelled job by job, and is cut
off by a stop of the process, but no INSERT of it is rejected. In notifications: hints,
rollouts and work orders, which call `dispatchToLinkedUsers` and keep nothing. In billing:
amounts, tariffs, snapshots, the PDF. In the lifecycle: what an export holds, and the e-mail
verification before approval. In imports: sites and their geocoding, the parsing of the CSV,
the capacity of a plan.

Most lines of the repository are outside these models, and will stay there: more than half of
them are the web interface, its four translations and the landing page, which keep no state of
the system; of the rest, the larger part is SQL and JSON around single statements
(`routes/sites.js`, `routes/users.js`, the reports' layout, third-party channels), with no
second actor and no second step that a model could put in another order. What is left and has
steps, single deployments, report schedules, hint rules, work orders, the WebSocket's
subscriptions, is listed with its reason in `PROJECT.json`; sessions, accounts and access of
people are outside the development.

