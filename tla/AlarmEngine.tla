---------------------------- MODULE AlarmEngine ----------------------------
(***************************************************************************)
(* The alarm half of services/mqtt.js for ONE controller: how the boolean  *)
(* protection.* keys it publishes become rows of the alarms table.         *)
(*                                                                         *)
(* onMessage calls handleStateKey without awaiting it, so a handler that   *)
(* waits for PostgreSQL lets the next message, a nuisance timer, the       *)
(* batched state writer or a request handler run in between.  Every        *)
(* stretch of code between two awaits is one action here; a query in       *)
(* flight is a task, which first executes in the database and then resumes *)
(* the handler that issued it.                                             *)
(*                                                                         *)
(* Faults names the disturbances a run admits:                             *)
(*   overlap     a handler or a timer runs while an earlier handler waits  *)
(*   write_race  a message is handled while a state batch is being written *)
(*   restart     shutdown() followed by start()                            *)
(*   crash       the process dies without shutdown()                       *)
(*   db_error    a query is rejected                                       *)
(*   reassign    a superadmin moves the controller to another organisation *)
(***************************************************************************)
EXTENDS Integers, FiniteSets

CONSTANTS
  Codes,        \* ALARM_KEYS without the "protection." prefix
  Nuisance,     \* the keys of NUISANCE_DELAY
  Tenants,      \* organisations the controller may belong to
  NoDelay,      \* tenants whose override sets the nuisance delays to 0
  Slots,        \* bound: alarm queries in flight at once
  MaxRows,      \* bound: "MaxRows active rows" means MaxRows or more
  MaxRestarts,  \* bound: stops of the process, graceful or not
  MaxErrors,    \* bound: rejected queries
  MaxMoves,     \* bound: reassignments
  Faults

Disturbances == {"overlap", "write_race", "restart", "crash", "db_error", "reassign"}

NoTenant == "none"

System == "system"     \* SYSTEM_TENANT_ID, and the prefix "pending" it stands for
Names  == Tenants \cup {System}

\* An empty deviceRegistry: loadRegistries was rejected at its first query, at
\* the settings, or at the devices.
Unloaded == {"blank", "bare", "empty"}

ASSUME ConstantsAssumption ==
  /\ ({NoTenant, System} \cup Unloaded) \cap Tenants = {}
  /\ Nuisance \subseteq Codes
  /\ NoDelay \subseteq Tenants
  /\ Slots # {}
  /\ MaxRows \in Nat \ {0, 1}
  /\ {MaxRestarts, MaxErrors, MaxMoves} \subseteq Nat
  /\ Faults \subseteq Disturbances

VARIABLES
  proc,           \* the process: starting, up, flushing (in shutdown) or down
  todo,           \* codes rearmPendingAlarms has yet to go through
  stateKey,       \* stateMap[device]["protection." + code]
  stateTenant,    \* stateMap[device]._tenantId
  stateSlug,      \* stateMap[device]._tenantSlug, NoTenant when there is no entry
  dirty,          \* stateMap[device]._dirty
  pendingAlarms,  \* armed nuisance timers: the tenantInfo each has captured
  task,           \* alarm queries in flight
  batch,          \* state batches in flight: the interval's and shutdown's
  alarms,         \* alarms table: active rows of the controller
  lastState,      \* devices.last_state
  tenantId,       \* devices.tenant_id
  registry,       \* deviceRegistry.get(device).tenantId, or what was not loaded
  topic,          \* the tenant under whose prefix the controller publishes
  told,           \* the tenant of the last _set_tenant sent to the controller
  reassign,       \* the reassign request in progress
  emitted,        \* last 'alarm' event emitted for a tenant and a code
  heard,          \* history: what the handlers were last told of a code
  owners,         \* history: every tenant that ever owned the controller
  blind,          \* history: prefixes accepted while deviceRegistry was empty
  restarts, errors, moves

vars == <<proc, todo, stateKey, stateTenant, stateSlug, dirty, pendingAlarms, task, batch,
          alarms, lastState, tenantId, registry, topic, told, reassign, emitted,
          heard, owners, blind, restarts, errors, moves>>

----------------------------------------------------------------------------
Value   == {"unknown", "off", "on"}
Heard   == {"nothing", "off", "on", "rose"}   \* rose: on, after an off
Writers == {"timer", "shutdown"}
Idle     == [op |-> "none"]
NoBatch  == [op |-> "none"]

Task == {Idle} \cup
        [op : {"raise", "clear", "reconcile"}, code : Codes, slug : Names, tenant : Names,
         result : {"waiting", "hit", "miss", "error"}]

Batch == {NoBatch} \cup [op : {"write"}, tenant : Names, keys : [Codes -> Value]]

NoMove == [to |-> NoTenant, step |-> "none"]
Move == {NoMove} \cup [to : Tenants, step : {"sent", "committed"}]

TypeOK ==
  /\ proc \in {"starting", "up", "flushing", "down"}
  /\ todo \subseteq Codes
  /\ stateKey \in [Codes -> Value]
  /\ lastState \in [Codes -> Value]
  /\ heard \in [Codes -> Heard]
  /\ tenantId \in Tenants /\ registry \in Names \cup Unloaded
  /\ topic \in Names /\ told \in Names
  /\ stateTenant \in Names /\ stateSlug \in Names \cup {NoTenant}
  /\ dirty \in BOOLEAN
  /\ pendingAlarms \in [Codes -> Names \cup {NoTenant}]
  /\ task \in [Slots -> Task]
  /\ batch \in [Writers -> Batch]
  /\ alarms \in [Names -> [Codes -> 0 .. MaxRows]]
  /\ emitted \in [Names -> [Codes -> {"nothing", "active", "cleared"}]]
  /\ reassign \in Move
  /\ owners \subseteq Tenants /\ blind \subseteq Names
  /\ restarts \in Nat /\ errors \in Nat /\ moves \in Nat

----------------------------------------------------------------------------
Quiet   == \A s \in Slots : task[s] = Idle
Writing == \E w \in Writers : batch[w] # NoBatch
Running == proc \in {"up", "flushing"}

\* resolveTenant: a prefix the registry of tenants does not know is the SYSTEM
\* tenant's.
Resolve(slug) == IF registry = "blank" THEN System ELSE slug

\* The delay of a code for an organisation is not zero: its override, when it
\* has one and the settings are loaded, wins over NUISANCE_DELAY.
Delayed(t, c) ==
  /\ c \in Nuisance
  /\ t \notin NoDelay \/ registry \in {"blank", "bare"}

\* The interleavings admitted: a handler may start while another one waits.
MayHandle == /\ Quiet \/ "overlap" \in Faults
             /\ ~Writing \/ "write_race" \in Faults
             /\ proc = "up" \/ "write_race" \in Faults

Issue(op, c, slug, t) ==
  \E s \in Slots : /\ task[s] = Idle
                   /\ task' = [task EXCEPT ![s] =
                        [op |-> op, code |-> c, slug |-> slug, tenant |-> t,
                         result |-> "waiting"]]

\* The tail of handleStateKey, after detection.
StoreKey(c, v) == /\ stateKey' = [stateKey EXCEPT ![c] = v]
                  /\ dirty' = TRUE

----------------------------------------------------------------------------
(* Two tenants are enough to tell an owner from another; the controller has *)
(* been assigned, its keys are as last persisted, the process is up.        *)
Init ==
  \E t \in Tenants :
    /\ tenantId = t /\ registry = t /\ topic = t /\ told = t
    /\ stateTenant = t /\ stateSlug = t
    /\ owners = {t} /\ blind = {}
    /\ stateKey \in [Codes -> {"unknown", "off"}]
    /\ lastState = stateKey
    /\ proc = "up" /\ todo = {} /\ dirty = FALSE
    /\ pendingAlarms = [c \in Codes |-> NoTenant]
    /\ task = [s \in Slots |-> Idle]
    /\ batch = [w \in Writers |-> NoBatch]
    /\ alarms = [u \in Names |-> [c \in Codes |-> 0]]
    /\ emitted = [u \in Names |-> [c \in Codes |-> "nothing"]]
    /\ heard = [c \in Codes |-> "nothing"]
    /\ reassign = NoMove
    /\ restarts = 0 /\ errors = 0 /\ moves = 0

----------------------------------------------------------------------------
(* handleStateKey, up to its first await.                                   *)

\* detectAlarm(..., true): arm the nuisance timer, or raise at once.  Neither
\* is awaited, so the key is stored in the same turn.
DetectOn(t, c) ==
  IF Delayed(t, c)
  THEN /\ pendingAlarms' = IF pendingAlarms[c] = NoTenant
                           THEN [pendingAlarms EXCEPT ![c] = t]
                           ELSE pendingAlarms
       /\ UNCHANGED task
  ELSE Issue("raise", c, t, t) /\ UNCHANGED pendingAlarms

Hear(c, v) ==
  heard' = [heard EXCEPT ![c] = IF v = "off" THEN "off"
                                ELSE IF @ \in {"off", "rose"} THEN "rose" ELSE "on"]

\* off -> on of a key already known.
ReportRise(c) ==
  /\ stateKey[c] = "off"
  /\ DetectOn(Resolve(topic), c)
  /\ StoreKey(c, "on")
  /\ Hear(c, "on")

\* on -> off with the nuisance timer still armed: the transient is dropped.
\* Faulty variant: the timer is left in pendingAlarms when the key goes off.
TransientKeepsTimer(c) ==
  /\ stateKey[c] = "on" /\ pendingAlarms[c] # NoTenant
  /\ StoreKey(c, "off")
  /\ Hear(c, "off")
  /\ UNCHANGED <<pendingAlarms, task>>

ReportTransient(c) ==
  /\ stateKey[c] = "on" /\ pendingAlarms[c] # NoTenant
  /\ pendingAlarms' = [pendingAlarms EXCEPT ![c] = NoTenant]
  /\ StoreKey(c, "off")
  /\ Hear(c, "off")
  /\ UNCHANGED task

\* on -> off of a raised alarm: the handler waits for the UPDATE, and stores
\* the key only when it resumes.
ReportFall(c) ==
  /\ stateKey[c] = "on" /\ pendingAlarms[c] = NoTenant
  /\ Issue("clear", c, topic, Resolve(topic))
  /\ Hear(c, "off")
  /\ UNCHANGED <<pendingAlarms, stateKey, dirty>>

\* off for a key never seen: close what the table may still hold.
ReportFirstOff(c) ==
  /\ stateKey[c] = "unknown"
  /\ Issue("reconcile", c, topic, Resolve(topic))
  /\ Hear(c, "off")
  /\ UNCHANGED <<pendingAlarms, stateKey, dirty>>

\* No transition: on for a key never seen, or the value already held.
ReportSame(c, v) ==
  /\ \/ stateKey[c] = v
     \/ stateKey[c] = "unknown" /\ v = "on"
  /\ StoreKey(c, v)
  /\ Hear(c, v)
  /\ UNCHANGED <<pendingAlarms, task>>

\* isTopicTenantAuthorized: everything passes while the registry is empty, the
\* prefix "pending" always does, and else the owner's prefix only.  (A message
\* dropped because the organisation is suspended is one not reported.)
\* Faulty variant: the prefix alone decides.
AuthorizedByPrefix == topic \in Names

Authorized == registry \in Unloaded \/ topic = System \/ topic = registry

\* The tail of handleStateKey: ensureDevice sends a controller it does not know
\* to "pending", or enters it there as a new one; checkStuckDevice calls one that
\* has an owner back from there.  A retained message does neither of the former,
\* the latter waits for grace periods; the rescue is one step here.
AfterReport(slug) ==
  \/ /\ registry \in Unloaded /\ slug # System
     /\ told' \in {told, System} /\ UNCHANGED registry
  \/ /\ registry \in Unloaded /\ slug = System
     /\ registry' \in {registry, System} /\ UNCHANGED told
  \/ /\ registry \in Tenants /\ slug = System
     /\ told' \in {told, registry} /\ UNCHANGED registry
  \/ /\ registry \in Names /\ (registry = System \/ slug # System)
     /\ UNCHANGED <<told, registry>>

HandleStateKey(c) ==
  /\ Running /\ MayHandle /\ Authorized
  /\ \/ /\ \/ ReportRise(c)
           \/ ReportTransient(c)
           \/ \E v \in {"off", "on"} : ReportSame(c, v)
        /\ AfterReport(topic)
     \/ /\ ReportFall(c) \/ ReportFirstOff(c)
        /\ UNCHANGED <<registry, told>>
  /\ stateSlug' = topic
  /\ stateTenant' = IF stateSlug = topic THEN stateTenant ELSE Resolve(topic)
  /\ blind' = IF registry \in Unloaded THEN blind \cup {topic} ELSE blind
  /\ UNCHANGED <<proc, todo, batch, alarms, lastState, tenantId, topic, reassign,
                 emitted, owners, restarts, errors, moves>>

----------------------------------------------------------------------------
(* Timers and queries.                                                      *)

\* The nuisance delay elapses: raiseAlarm with the tenantInfo captured when
\* the timer was armed.
\* Faulty variant: the entry of an elapsed timer is not deleted.
ElapsedKeepsEntry(c) ==
  /\ Running /\ pendingAlarms[c] # NoTenant
  /\ Quiet /\ alarms[pendingAlarms[c]][c] = 0
  /\ Issue("raise", c, pendingAlarms[c], pendingAlarms[c])
  /\ UNCHANGED <<proc, todo, stateKey, stateTenant, stateSlug, dirty, pendingAlarms,
                 batch, alarms, lastState, tenantId, registry, topic, told,
                 reassign, emitted, heard, owners, blind, restarts, errors, moves>>

NuisanceElapsed(c) ==
  /\ Running \/ proc = "starting"
  /\ pendingAlarms[c] # NoTenant
  /\ Quiet \/ "overlap" \in Faults
  /\ Issue("raise", c, pendingAlarms[c], pendingAlarms[c])
  /\ pendingAlarms' = [pendingAlarms EXCEPT ![c] = NoTenant]
  /\ UNCHANGED <<proc, todo, stateKey, stateTenant, stateSlug, dirty, batch, alarms,
                 lastState, tenantId, registry, topic, told, reassign, emitted,
                 heard, owners, blind, restarts, errors, moves>>

Answer(s, result) == task' = [task EXCEPT ![s].result = result]

\* raiseAlarm's INSERT: there is no look for an active row first.
ExecuteInsert(s) ==
  /\ task[s].op = "raise"
  /\ alarms' = [alarms EXCEPT ![task[s].tenant][task[s].code] =
                  IF @ < MaxRows THEN @ + 1 ELSE MaxRows]
  /\ Answer(s, "hit")

\* The UPDATE of detectAlarm and of the reconciliation closes every active row
\* of the tenant for this code.
ExecuteClose(s) ==
  /\ task[s].op \in {"clear", "reconcile"}
  /\ alarms' = [alarms EXCEPT ![task[s].tenant][task[s].code] = 0]
  /\ Answer(s, IF alarms[task[s].tenant][task[s].code] > 0 THEN "hit" ELSE "miss")

Execute(s) ==
  /\ task[s] # Idle /\ task[s].result = "waiting"
  /\ ExecuteInsert(s) \/ ExecuteClose(s)
  /\ UNCHANGED <<proc, todo, stateKey, stateTenant, stateSlug, dirty, pendingAlarms,
                 batch, lastState, tenantId, registry, topic, told, reassign,
                 emitted, heard, owners, blind, restarts, errors, moves>>

Reject(s) ==
  /\ "db_error" \in Faults /\ errors < MaxErrors
  /\ task[s] # Idle /\ task[s].result = "waiting"
  /\ Answer(s, "error")
  /\ errors' = errors + 1
  /\ UNCHANGED <<proc, todo, stateKey, stateTenant, stateSlug, dirty, pendingAlarms,
                 batch, alarms, lastState, tenantId, registry, topic, told,
                 reassign, emitted, heard, owners, blind, restarts, moves>>

Emit(t, c, what) == emitted' = [emitted EXCEPT ![t][c] = what]

\* raiseAlarm after its INSERT: the alarm is announced even if that failed.
ResumeRaise(s) ==
  /\ task[s].op = "raise"
  /\ Emit(task[s].tenant, task[s].code, "active")
  /\ UNCHANGED <<stateKey, dirty, registry, told>>

\* handleStateKey after its UPDATE: a clear is announced only if a row was
\* closed; the key is stored whatever became of the UPDATE.
\* Faulty variant: a failed UPDATE is announced like any other.
ResumeCloseAnyway(s) ==
  /\ task[s].op \in {"clear", "reconcile"}
  /\ IF task[s].result # "miss"
     THEN Emit(task[s].tenant, task[s].code, "cleared")
     ELSE UNCHANGED emitted
  /\ StoreKey(task[s].code, "off")
  /\ AfterReport(task[s].slug)

ResumeClose(s) ==
  /\ task[s].op \in {"clear", "reconcile"}
  /\ IF task[s].result = "hit"
     THEN Emit(task[s].tenant, task[s].code, "cleared")
     ELSE UNCHANGED emitted
  /\ StoreKey(task[s].code, "off")
  /\ AfterReport(task[s].slug)

Resume(s) ==
  /\ Running \/ proc = "starting"
  /\ task[s] # Idle /\ task[s].result # "waiting"
  /\ ResumeRaise(s) \/ ResumeClose(s)
  /\ task' = [task EXCEPT ![s] = Idle]
  /\ UNCHANGED <<proc, todo, stateTenant, stateSlug, pendingAlarms, batch, alarms,
                 lastState, tenantId, topic, reassign, heard, owners, blind,
                 restarts, errors, moves>>

----------------------------------------------------------------------------
(* stateWriter: the state of the controller goes to devices.last_state.     *)

Snapshot == [op |-> "write", tenant |-> stateTenant, keys |-> stateKey]

StartWrite ==
  /\ proc = "up"                                    \* shutdown() stops the interval
  /\ dirty /\ batch["timer"] = NoBatch
  /\ Quiet \/ "write_race" \in Faults
  /\ batch' = [batch EXCEPT !["timer"] = Snapshot]
  /\ UNCHANGED <<proc, todo, stateKey, stateTenant, stateSlug, dirty, pendingAlarms,
                 task, alarms, lastState, tenantId, registry, topic, told, reassign,
                 emitted, heard, owners, blind, restarts, errors, moves>>

\* The UPDATE matches the row only under the tenant the snapshot was taken for;
\* on return the state is marked clean, changed in between or not.
FinishWrite(w) ==
  /\ batch[w] # NoBatch
  /\ lastState' = IF batch[w].tenant = tenantId THEN batch[w].keys ELSE lastState
  /\ dirty' = FALSE
  /\ batch' = [batch EXCEPT ![w] = NoBatch]
  /\ UNCHANGED <<proc, todo, stateKey, stateTenant, stateSlug, pendingAlarms, task,
                 alarms, tenantId, registry, topic, told, reassign, emitted, heard,
                 owners, blind, restarts, errors, moves>>

\* The UPDATE is rejected: everything stays dirty for the next cycle.
FailWrite(w) ==
  /\ "db_error" \in Faults /\ errors < MaxErrors
  /\ batch[w] # NoBatch
  /\ batch' = [batch EXCEPT ![w] = NoBatch]
  /\ errors' = errors + 1
  /\ UNCHANGED <<proc, todo, stateKey, stateTenant, stateSlug, dirty, pendingAlarms,
                 task, alarms, lastState, tenantId, registry, topic, told, reassign,
                 emitted, heard, owners, blind, restarts, moves>>

----------------------------------------------------------------------------
(* The process.                                                             *)

\* shutdown(): the timers stop, a dirty state is flushed whatever the debounce.
BeginShutdown ==
  /\ "restart" \in Faults /\ restarts < MaxRestarts
  /\ proc = "up"
  /\ (Quiet /\ ~Writing) \/ "write_race" \in Faults
  /\ proc' = "flushing"
  /\ batch' = IF dirty THEN [batch EXCEPT !["shutdown"] = Snapshot] ELSE batch
  /\ restarts' = restarts + 1
  /\ UNCHANGED <<todo, stateKey, stateTenant, stateSlug, dirty, pendingAlarms, task,
                 alarms, lastState, tenantId, registry, topic, told, reassign,
                 emitted, heard, owners, blind, errors, moves>>

\* What the process held in memory is gone; queries it had in flight are lost
\* or were executed just before.
Forget ==
  /\ proc' = "down"
  /\ todo' = {}
  /\ pendingAlarms' = [c \in Codes |-> NoTenant]
  /\ task' = [s \in Slots |-> Idle]
  /\ batch' = [w \in Writers |-> NoBatch]
  /\ reassign' = NoMove

\* The flush has returned: the nuisance timers are dropped and the process ends.
FinishShutdown ==
  /\ proc = "flushing" /\ batch["shutdown"] = NoBatch
  /\ Forget
  /\ UNCHANGED <<stateKey, stateTenant, stateSlug, dirty, alarms, lastState,
                 tenantId, registry, topic, told, emitted, heard, owners, blind,
                 restarts, errors, moves>>

Crash ==
  /\ "crash" \in Faults /\ restarts < MaxRestarts
  /\ proc # "down"
  /\ Forget
  /\ restarts' = restarts + 1
  /\ UNCHANGED <<stateKey, stateTenant, stateSlug, dirty, alarms, lastState,
                 tenantId, registry, topic, told, emitted, heard, owners, blind,
                 errors, moves>>

\* A query of a start is rejected: it is caught and the process starts without
\* what it would have loaded.
Misses(n) == n > 0 => "db_error" \in Faults /\ errors + n <= MaxErrors

\* start(): loadRegistries, bootstrapStateMap, and the query of
\* rearmPendingAlarms, which looks for an active row of any tenant.
\* Faulty variant: every key that is on is armed again, its alarm open or not.
StartWith(standing) ==
  \E r, k, a \in {0, 1} :
    /\ proc = "down" /\ Misses(r + k + a)
    /\ proc' = "starting"
    /\ IF r = 0 THEN registry' = tenantId ELSE registry' \in Unloaded
    /\ stateKey' = IF k = 0 THEN lastState ELSE [c \in Codes |-> "unknown"]
    /\ stateTenant' = tenantId
    /\ stateSlug' = IF k = 0 THEN tenantId ELSE NoTenant
    /\ dirty' = FALSE
    /\ todo' = IF a = 0 THEN {c \in standing : stateKey'[c] = "on"} ELSE {}
    /\ errors' = errors + r + k + a
    /\ UNCHANGED <<pendingAlarms, task, batch, alarms, lastState, tenantId, topic,
                   told, reassign, emitted, heard, owners, blind, restarts, moves>>

StartRearmsAll == StartWith(Nuisance)

Start == StartWith({c \in Nuisance : \A t \in Names : alarms[t][c] = 0})

\* One code of rearmPendingAlarms: detectAlarm(..., true).
\* Faulty variant: a code is passed over without a timer.
RearmSkips(c) ==
  /\ proc = "starting" /\ c \in todo
  /\ todo' = todo \ {c}
  /\ UNCHANGED <<proc, stateKey, stateTenant, stateSlug, dirty, pendingAlarms, task,
                 batch, alarms, lastState, tenantId, registry, topic, told,
                 reassign, emitted, heard, owners, blind, restarts, errors, moves>>

Rearm(c) ==
  /\ proc = "starting" /\ c \in todo /\ stateSlug \in Tenants
  /\ Quiet \/ "overlap" \in Faults
  /\ DetectOn(Resolve(stateSlug), c)
  /\ todo' = todo \ {c}
  /\ UNCHANGED <<proc, stateKey, stateTenant, stateSlug, dirty, batch, alarms,
                 lastState, tenantId, registry, topic, told, reassign, emitted,
                 heard, owners, blind, restarts, errors, moves>>

\* rearmPendingAlarms is done: connect to the broker.
Connect ==
  /\ proc = "starting" /\ todo = {}
  /\ proc' = "up"
  /\ UNCHANGED <<todo, stateKey, stateTenant, stateSlug, dirty, pendingAlarms, task,
                 batch, alarms, lastState, tenantId, registry, topic, told,
                 reassign, emitted, heard, owners, blind, restarts, errors, moves>>

----------------------------------------------------------------------------
(* POST /devices/:id/reassign, refreshRegistries, and the controller.       *)

\* The tenant command goes out before the database is touched.
ReassignSend(t) ==
  /\ "reassign" \in Faults /\ moves < MaxMoves
  /\ proc = "up" /\ reassign = NoMove /\ t # tenantId
  /\ reassign' = [to |-> t, step |-> "sent"]
  /\ told' = t
  /\ moves' = moves + 1
  /\ UNCHANGED <<proc, todo, stateKey, stateTenant, stateSlug, dirty, pendingAlarms,
                 task, batch, alarms, lastState, tenantId, registry, topic, emitted,
                 heard, owners, blind, restarts, errors>>

\* The transaction: move the row, and settle the previous owner's alarms.
ReassignCommit ==
  /\ Running /\ reassign.step = "sent"
  /\ tenantId' = reassign.to
  /\ owners' = owners \cup {reassign.to}
  /\ alarms' = [alarms EXCEPT ![tenantId] = [c \in Codes |-> 0]]
  /\ reassign' = [reassign EXCEPT !.step = "committed"]
  /\ UNCHANGED <<proc, todo, stateKey, stateTenant, stateSlug, dirty, pendingAlarms,
                 task, batch, lastState, registry, topic, told, emitted, heard,
                 blind, restarts, errors, moves>>

\* updateDeviceStateMap: the armed timers are left as they are, and so is an
\* entry observed on the pending prefix.
ReassignSettle ==
  /\ Running /\ reassign.step = "committed"
  /\ IF stateSlug \in Tenants
     THEN stateTenant' = reassign.to /\ stateSlug' = reassign.to /\ dirty' = TRUE
     ELSE UNCHANGED <<stateTenant, stateSlug, dirty>>
  /\ reassign' = NoMove
  /\ UNCHANGED <<proc, todo, stateKey, pendingAlarms, task, batch, alarms,
                 lastState, tenantId, registry, topic, told, emitted, heard, owners,
                 blind, restarts, errors, moves>>

\* refreshRegistries: a rejected one keeps the device registry it found; what it
\* may have loaded of the rest before that, Start may have loaded as well.
RefreshRegistries ==
  /\ Running /\ registry # tenantId
  /\ registry' = tenantId
  /\ UNCHANGED <<proc, todo, stateKey, stateTenant, stateSlug, dirty, pendingAlarms, task,
                 batch, alarms, lastState, tenantId, topic, told, reassign, emitted, heard,
                 owners, blind, restarts, errors, moves>>

\* The controller obeys _set_tenant and reconnects under the new prefix.
DeviceMoves ==
  /\ topic # told
  /\ topic' = told
  /\ UNCHANGED <<proc, todo, stateKey, stateTenant, stateSlug, dirty, pendingAlarms,
                 task, batch, alarms, lastState, tenantId, registry, told, reassign,
                 emitted, heard, owners, blind, restarts, errors, moves>>

----------------------------------------------------------------------------
Next ==
  \/ \E c \in Codes : HandleStateKey(c) \/ NuisanceElapsed(c) \/ Rearm(c)
  \/ \E s \in Slots : Execute(s) \/ Reject(s) \/ Resume(s)
  \/ StartWrite
  \/ \E w \in Writers : FinishWrite(w) \/ FailWrite(w)
  \/ BeginShutdown \/ FinishShutdown \/ Crash \/ Start \/ Connect
  \/ \E t \in Tenants : ReassignSend(t)
  \/ ReassignCommit \/ ReassignSettle \/ RefreshRegistries \/ DeviceMoves

Spec == Init /\ [][Next]_vars

(* PostgreSQL answers, the event loop runs what is due, a timer that is not *)
(* cancelled elapses, and the service manager starts the process again.     *)
(* Nothing obliges the controller to report.                                *)
Fairness ==
  /\ \A s \in Slots : WF_vars(Execute(s)) /\ WF_vars(Resume(s))
  /\ \A c \in Codes : SF_vars(NuisanceElapsed(c)) /\ WF_vars(Rearm(c))
  /\ \A w \in Writers : WF_vars(FinishWrite(w))
  /\ WF_vars(FinishShutdown) /\ WF_vars(Start) /\ WF_vars(Connect)

FairSpec == Spec /\ Fairness

----------------------------------------------------------------------------
(* What the alarm engine promises.                                          *)

Settled == proc = "up" /\ Quiet

\* An "off" the handlers have dealt with leaves no active row behind for the
\* owner: no alarm stays open on a controller that says it is over.
OffReportCloses ==
  Settled => \A c \in Codes : heard[c] = "off" => alarms[tenantId][c] = 0

\* An off -> on the handlers have dealt with is recorded, or counted down.
RiseIsCovered ==
  Settled => \A c \in Codes : heard[c] = "rose" =>
               alarms[tenantId][c] > 0 \/ pendingAlarms[c] # NoTenant

\* A code never has two active rows for one organisation: raiseAlarm does not
\* look for one, it relies on the transitions.
OneActiveRow ==
  \A t \in Tenants, c \in Codes : alarms[t][c] <= 1

\* A nuisance timer is never left counting for a condition reported over, nor
\* while the alarm it would raise is already open.
TransientNeverRecorded ==
  \A c \in Codes : pendingAlarms[c] # NoTenant =>
     heard[c] # "off" /\ alarms[pendingAlarms[c]][c] = 0

\* The last announcement of an alarm never says "cleared" over an active row,
\* unless a process died in between, and with it what it had yet to announce.
ClearedIsClosed ==
  Quiet /\ restarts = 0 => \A t \in Tenants, c \in Codes :
             emitted[t][c] = "cleared" => alarms[t][c] = 0

\* An alarm is recorded for, and announced to, owners of the controller only,
\* whatever prefix the controller publishes under; the exception are the prefixes
\* of messages that came in while the device registry was empty.
OnlyOwnersHear ==
  \A t \in Tenants \ (owners \cup blind), c \in Codes :
     alarms[t][c] = 0 /\ emitted[t][c] = "nothing"

\* A process that was shut down has persisted the alarm keys it stopped with.
StoppedAsPersisted ==
  (proc = "flushing" /\ batch["shutdown"] = NoBatch) => lastState = stateKey

(* The inductive invariant behind the four promises above for the calm case: *)
(* handlers that do not overlap, graceful restarts, no other disturbance.     *)
Calm == Faults \subseteq {"restart"}

\* The queries in flight for a code: any; one that leaves the key on until it
\* returns; an INSERT not yet executed; an UPDATE; an UPDATE that was executed.
Busy(c)      == \E s \in Slots : task[s] # Idle /\ task[s].code = c
Holding(c)   == \E s \in Slots : /\ task[s] # Idle /\ task[s].code = c
                                 /\ task[s].op \in {"raise", "clear"}
Inserting(c) == \E s \in Slots : /\ task[s] # Idle /\ task[s].code = c
                                 /\ task[s].op = "raise" /\ task[s].result = "waiting"
Closing(c)   == \E s \in Slots : /\ task[s] # Idle /\ task[s].code = c
                                 /\ task[s].op \in {"clear", "reconcile"}
Closed(c)    == \E s \in Slots : /\ task[s] # Idle /\ task[s].code = c
                                 /\ task[s].op \in {"clear", "reconcile"}
                                 /\ task[s].result # "waiting"

\* One owner and at most one query.
CalmShape ==
  /\ reassign = NoMove
  /\ registry = tenantId /\ topic = tenantId /\ told = tenantId
  /\ stateTenant = tenantId /\ stateSlug = tenantId
  /\ \A r, s \in Slots : task[r] # Idle /\ task[s] # Idle => r = s
  /\ \A s \in Slots : task[s] # Idle => task[s].tenant = tenantId /\ task[s].slug = tenantId
  /\ \A t \in Names, c \in Codes : t # tenantId => alarms[t][c] = 0

\* What may be going on in each phase of the process.
CalmPhase ==
  /\ todo \subseteq Nuisance
  /\ todo # {} => proc = "starting"
  /\ proc = "down" => Quiet /\ ~Writing
  /\ proc = "starting" => ~Writing
  /\ proc = "flushing" => batch["timer"] = NoBatch
  /\ proc = "up" => batch["shutdown"] = NoBatch
  /\ Writing \/ proc # "up" => (\A c \in Codes : ~Closing(c))

\* What is persisted, or about to be, is the state map.
CalmPersisted ==
  /\ \A w \in Writers : batch[w] # NoBatch => batch[w].keys = stateKey /\ batch[w].tenant = tenantId
  /\ ~dirty => lastState = stateKey
  /\ proc \in {"starting", "down"} => lastState = stateKey
  /\ proc = "flushing" /\ batch["shutdown"] = NoBatch => lastState = stateKey

\* How a key, its timer, its row and its queries go together.
CalmKey(c) ==
  /\ pendingAlarms[c] # NoTenant =>
       /\ pendingAlarms[c] = tenantId /\ c \in Nuisance /\ stateKey[c] = "on"
       /\ alarms[tenantId][c] = 0 /\ ~Busy(c)
       /\ proc # "down"
  /\ c \in todo => /\ pendingAlarms[c] = NoTenant /\ stateKey[c] = "on"
                   /\ alarms[tenantId][c] = 0
                   /\ ~Busy(c)
  /\ Inserting(c) => /\ alarms[tenantId][c] = 0 /\ stateKey[c] = "on"
                     /\ proc # "up" => c \in Nuisance
  /\ Closing(c) => heard[c] = "off"
  /\ Closed(c) => alarms[tenantId][c] = 0
  /\ Holding(c) => stateKey[c] = "on"
  /\ alarms[tenantId][c] <= 1
  /\ alarms[tenantId][c] = 1 => stateKey[c] = "on"
  /\ heard[c] = "off" => stateKey[c] = "off" \/ Closing(c)
  /\ heard[c] = "rose" =>
       /\ stateKey[c] = "on"
       /\ \/ alarms[tenantId][c] = 1
          \/ pendingAlarms[c] # NoTenant
          \/ Inserting(c)
          \/ proc = "starting" /\ c \in todo
          \/ proc = "down" /\ c \in Nuisance

CalmInv == CalmShape /\ CalmPhase /\ CalmPersisted /\ \A c \in Codes : CalmKey(c)

\* A rise that stands becomes a recorded alarm.
RiseIsRecorded ==
  \A c \in Codes :
    (heard[c] = "rose") ~> (heard[c] # "rose" \/ alarms[tenantId][c] > 0)

=============================================================================
