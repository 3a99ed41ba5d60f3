---------------------------- MODULE OfflineAlarm ----------------------------
(***************************************************************************)
(* "Offline is an alarm": the offline half of services/mqtt.js for one     *)
(* controller.  A controller goes dark in two ways, and the detector and   *)
(* the status handler each notice one of them; both start a clock, and     *)
(* when it has run the device_offline row is raised.  Whatever the         *)
(* controller says next closes it.                                         *)
(*                                                                         *)
(* The controller, the broker and the organisation's status are the        *)
(* environment.  Time is left out: the threshold and the delay elapse at   *)
(* any moment after they began to run.                                     *)
(*                                                                         *)
(* Faults:                                                                 *)
(*   overlap    a message or the detector runs while a query is in flight  *)
(*   reconnect  the backend loses the broker and subscribes again          *)
(*   restart    the backend stops and starts                               *)
(*   db_error   a query is rejected                                        *)
(*   suspend    the organisation is suspended and reactivated              *)
(*   relapse    the controller forgets its organisation, or finds it again *)
(* A start whose registries were not loaded is in AlarmEngine.             *)
(***************************************************************************)
EXTENDS Integers

CONSTANTS
  MaxStops,   \* bound: restarts and reconnections of the backend
  MaxErrors,  \* bound: rejected queries
  MaxTurns,   \* bound: changes of the organisation's status or the controller's prefix
  MaxRows,    \* bound: "MaxRows active rows" means MaxRows or more
  Faults

Disturbances == {"overlap", "reconnect", "restart", "db_error", "suspend", "relapse"}

ASSUME OfflineConstants ==
  /\ MaxStops \in Nat /\ MaxErrors \in Nat /\ MaxTurns \in Nat
  /\ MaxRows \in Nat \ {0, 1}
  /\ Faults \subseteq Disturbances

VARIABLES
  link,            \* the controller: talking, mute (connected, silent) or gone
  willDue,         \* its connection is lost, the broker has yet to publish its will
  prefix,          \* what it publishes under: its organisation's slug or 'pending'
  retained,        \* the status the broker retains under each prefix
  replay,          \* retained messages not yet delivered to a new subscription
  serving,         \* the organisation is active
  up,              \* the backend runs
  online,          \* stateMap[device]._online
  offlineSince,    \* stateMap[device]._offlineSince is set
  offlineAlarmed,  \* stateMap[device]._offlineAlarmed
  slug,            \* stateMap[device]._tenantSlug
  tenant,          \* the prefix whose organisation stateMap[device]._tenantId names
  raise,           \* raiseOfflineAlarm in progress: the query it waits for
  clear,           \* clearOfflineAlarm in progress
  rows,            \* active device_offline rows
  said,            \* the last 'alarm' event for it was active: true
  lost,            \* history: a stop between row and event lost the last event due
  spoke,           \* history: the controller published since the row was opened
  stops, errors, turns

Prefixes    == {"own", "pending"}
environment == <<link, willDue, prefix, retained, serving, spoke, turns>>
clock       == <<online, offlineSince, offlineAlarmed>>
file        == <<slug, tenant>>
table       == <<rows, said, lost>>
vars == <<environment, clock, file, table, replay, up, raise, clear, stops, errors>>

TypeOK ==
  /\ link \in {"talking", "mute", "gone"}
  /\ prefix \in Prefixes /\ slug \in Prefixes /\ tenant \in Prefixes
  /\ retained \in [Prefixes -> {"online", "offline", "none"}]
  /\ replay \subseteq Prefixes \cup {"key"}
  /\ raise \in {"idle", "select", "insert", "announce"}
  /\ clear \in {"idle", "update", "announce"}
  /\ willDue \in BOOLEAN /\ serving \in BOOLEAN /\ up \in BOOLEAN
  /\ online \in BOOLEAN /\ offlineSince \in BOOLEAN /\ offlineAlarmed \in BOOLEAN
  /\ rows \in 0 .. MaxRows /\ said \in BOOLEAN /\ lost \in BOOLEAN /\ spoke \in BOOLEAN
  /\ stops \in 0 .. MaxStops /\ errors \in 0 .. MaxErrors /\ turns \in 0 .. MaxTurns

Quiet     == raise = "idle" /\ clear = "idle"
MayHandle == up /\ (Quiet \/ "overlap" \in Faults)

Init ==
  /\ link = "talking" /\ retained = [p \in Prefixes |-> IF p = "own" THEN "online" ELSE "none"] /\ replay = {}
  /\ prefix = "own" /\ slug = "own" /\ tenant = "own"
  /\ willDue = FALSE /\ serving = TRUE /\ up = TRUE
  /\ online = TRUE /\ offlineSince = FALSE /\ offlineAlarmed = FALSE
  /\ raise = "idle" /\ clear = "idle"
  /\ rows = 0 /\ said = FALSE /\ lost = FALSE /\ spoke = TRUE
  /\ stops = 0 /\ errors = 0 /\ turns = 0

----------------------------------------------------------------------------
(* What the handlers do.                                                    *)

\* The clock keeps its first moment.
StartOfflineClock ==
  /\ offlineSince' = TRUE
  /\ offlineAlarmed' = (offlineSince /\ offlineAlarmed)
  /\ UNCHANGED clear

\* The clock is reset; the UPDATE is sent off and not awaited, and not at all for
\* a controller filed under pending.  One at a time is a bound: it takes two
\* messages while the first UPDATE is in flight to have another.
ClearOfflineAlarm(s, t) ==
  /\ clear = "idle"
  /\ clear' = IF s = "own" /\ t = "own" THEN "update" ELSE "idle"
  /\ offlineSince' = FALSE
  /\ offlineAlarmed' = FALSE

\* isTopicTenantAuthorized drops what arrives for a suspended organisation.
Dropped(p) == p = "own" /\ ~serving /\ UNCHANGED <<clock, file, clear>>
Taken(p)   == p = "pending" \/ serving

\* A status or a state key refiles the controller before anything else.
Refile(p) == slug' = p /\ tenant' = IF slug # p THEN p ELSE tenant

StatusOnline(p) ==
  \/ Dropped(p)
  \/ Taken(p) /\ online' = TRUE /\ Refile(p) /\ ClearOfflineAlarm(slug', tenant')

\* Faulty variants: the will starts no clock; the will closes the alarm.
WillStartsNoClock(p) ==
  \/ Dropped(p)
  \/ Taken(p) /\ online' = FALSE /\ Refile(p) /\ UNCHANGED <<offlineSince,
                                                             offlineAlarmed, clear>>
WillClears(p) ==
  \/ Dropped(p)
  \/ Taken(p) /\ online' = FALSE /\ Refile(p) /\ ClearOfflineAlarm(slug', tenant')

StatusOffline(p) ==
  \/ Dropped(p)
  \/ Taken(p) /\ online' = FALSE /\ Refile(p) /\ StartOfflineClock

\* Faulty variant: only a controller marked offline is taken as coming back.
ReviveIfOffline(s, t) ==
  /\ online' = TRUE
  /\ IF ~online /\ offlineAlarmed THEN ClearOfflineAlarm(s, t)
                                  ELSE UNCHANGED <<offlineSince, offlineAlarmed,
                                                   clear>>

Revive(s, t) ==
  /\ online' = TRUE
  /\ IF ~online \/ offlineSince THEN ClearOfflineAlarm(s, t)
                                ELSE UNCHANGED <<offlineSince, offlineAlarmed,
                                                 clear>>

StateKey(p) ==
  \/ Dropped(p)
  \/ Taken(p) /\ Refile(p) /\ Revive(slug', tenant')

\* A heartbeat refiles after it cleared, and leaves _tenantId alone.
Heartbeat(p) ==
  \/ Dropped(p)
  \/ Taken(p) /\ Revive(slug, tenant) /\ slug' = p /\ UNCHANGED tenant

----------------------------------------------------------------------------
(* The controller and the broker.                                           *)

GoMute ==
  /\ link = "talking" /\ link' = "mute"
  /\ UNCHANGED <<willDue, prefix, retained, serving, spoke, turns, clock, file,
                 table, replay, up, raise, clear, stops, errors>>

LoseLink ==
  /\ link # "gone" /\ link' = "gone"
  /\ willDue' = TRUE
  /\ UNCHANGED <<prefix, retained, serving, spoke, turns, clock, file, table,
                 replay, up, raise, clear, stops, errors>>

\* The controller forgets its organisation's slug, or gets it again.
Relapse ==
  /\ "relapse" \in Faults /\ turns < MaxTurns
  /\ link = "gone" /\ ~willDue
  /\ prefix' \in Prefixes \ {prefix}
  /\ turns' = turns + 1
  /\ UNCHANGED <<link, willDue, retained, serving, spoke, clock, file, table,
                 replay, up, raise, clear, stops, errors>>

\* The keep-alive runs out: the broker publishes the will, and retains it.
WillPublished ==
  /\ willDue /\ willDue' = FALSE
  /\ retained' = [retained EXCEPT ![prefix] = "offline"]
  /\ \/ up /\ MayHandle /\ StatusOffline(prefix)
     \/ ~up /\ UNCHANGED <<clock, file, clear>>
  /\ UNCHANGED <<link, prefix, serving, spoke, turns, table, replay, up, raise,
                 stops, errors>>

\* The controller connects again and publishes its status, retained.
Reconnect ==
  /\ link = "gone" /\ ~willDue
  /\ link' = "talking" /\ spoke' = TRUE
  /\ retained' = [retained EXCEPT ![prefix] = "online"]
  /\ \/ up /\ MayHandle /\ StatusOnline(prefix)
     \/ ~up /\ UNCHANGED <<clock, file, clear>>
  /\ UNCHANGED <<willDue, prefix, serving, turns, table, replay, up, raise, stops,
                 errors>>

\* A heartbeat or a state key of a controller that talks, or talks again.
Publish ==
  /\ link # "gone" /\ MayHandle
  /\ link' = "talking" /\ spoke' = TRUE
  /\ StateKey(prefix) \/ Heartbeat(prefix)
  /\ UNCHANGED <<willDue, prefix, retained, serving, turns, table, replay, up,
                 raise, stops, errors>>

\* The broker delivers what it retains to a new subscription: the status under
\* each prefix and the protection.* keys.  The handlers do not tell them from
\* live ones.
ReplayStatus ==
  /\ MayHandle
  /\ \E p \in replay \cap Prefixes :
       /\ replay' = replay \ {p}
       /\ \/ retained[p] = "online"  /\ StatusOnline(p)
          \/ retained[p] = "offline" /\ StatusOffline(p)
  /\ UNCHANGED <<environment, table, up, raise, stops, errors>>

ReplayKey ==
  /\ "key" \in replay /\ MayHandle
  /\ replay' = replay \ {"key"}
  /\ StateKey("own")
  /\ UNCHANGED <<environment, table, up, raise, stops, errors>>

----------------------------------------------------------------------------
(* offlineDetector.                                                         *)

\* First pass: nothing was heard of an online controller for the threshold.
DetectSilence ==
  /\ MayHandle /\ replay = {}
  /\ online /\ (link # "talking" \/ ~serving)
  /\ online' = FALSE
  /\ StartOfflineClock
  /\ UNCHANGED <<environment, file, table, replay, up, raise, stops, errors>>

\* Second pass: the clock has run.  The alarm counts as raised from here on,
\* whatever becomes of it; an organisation that is not served gets none, and a
\* controller filed under pending neither.
DetectOffline ==
  /\ MayHandle /\ raise = "idle"
  /\ ~online /\ offlineSince /\ ~offlineAlarmed
  /\ offlineAlarmed' = TRUE
  /\ raise' = IF serving /\ slug = "own" /\ tenant = "own" THEN "select" ELSE "idle"
  /\ UNCHANGED <<environment, file, table, replay, up, online, offlineSince, clear,
                 stops, errors>>

----------------------------------------------------------------------------
(* The queries.                                                             *)

\* Faulty variant: the look for an active row is left out.
SelectNothing ==
  /\ raise = "select" /\ raise' = "insert"
  /\ UNCHANGED <<environment, clock, file, table, replay, up, clear, stops, errors>>

SelectRow ==
  /\ raise = "select"
  /\ raise' = IF rows > 0 THEN "idle" ELSE "insert"
  /\ UNCHANGED <<environment, clock, file, table, replay, up, clear, stops, errors>>

\* The tenant is read again: a message amid may have refiled the controller, and
\* the row is the System organisation's then, and none of this ledger's.
InsertRow ==
  /\ raise = "insert"
  /\ raise' = IF tenant = "own" THEN "announce" ELSE "idle"
  /\ rows' = IF tenant = "own" /\ rows < MaxRows THEN rows + 1 ELSE rows
  /\ spoke' = (spoke /\ tenant # "own")
  /\ UNCHANGED <<link, willDue, prefix, retained, serving, turns, clock, file, said,
                 lost, replay, up, clear, stops, errors>>

AnnounceOpen ==
  /\ raise = "announce" /\ raise' = "idle"
  /\ said' = TRUE /\ lost' = FALSE
  /\ UNCHANGED <<environment, clock, file, rows, replay, up, clear, stops, errors>>

\* Faulty variant: the rows closed are not announced.
CloseSilently ==
  /\ clear = "update" /\ clear' = "idle"
  /\ rows' = 0
  /\ UNCHANGED <<environment, clock, file, said, lost, replay, up, raise, stops,
                 errors>>

\* A closing is announced for every row the UPDATE returns.
CloseRow ==
  /\ clear = "update"
  /\ clear' = IF rows > 0 THEN "announce" ELSE "idle"
  /\ rows' = 0
  /\ UNCHANGED <<environment, clock, file, said, lost, replay, up, raise, stops,
                 errors>>

AnnounceClosed ==
  /\ clear = "announce" /\ clear' = "idle"
  /\ said' = FALSE /\ lost' = FALSE
  /\ UNCHANGED <<environment, clock, file, rows, replay, up, raise, stops, errors>>

\* A rejected query is logged, and nothing else.
RejectRaise ==
  /\ "db_error" \in Faults /\ errors < MaxErrors
  /\ raise \in {"select", "insert"} /\ raise' = "idle"
  /\ errors' = errors + 1
  /\ UNCHANGED <<environment, clock, file, table, replay, up, clear, stops>>

RejectClear ==
  /\ "db_error" \in Faults /\ errors < MaxErrors
  /\ clear = "update" /\ clear' = "idle"
  /\ errors' = errors + 1
  /\ UNCHANGED <<environment, clock, file, table, replay, up, raise, stops>>

----------------------------------------------------------------------------
(* The backend and the organisation.                                        *)

\* shutdown() waits for no query of these: what is in flight is done or not,
\* and nothing follows it.  A row whose event is due then never has it.
Stop ==
  /\ "restart" \in Faults /\ stops < MaxStops
  /\ up /\ up' = FALSE /\ replay' = {}
  /\ raise' = "idle" /\ clear' = "idle"
  /\ lost' = IF raise = "announce" \/ clear = "announce" THEN ~lost ELSE lost
  /\ stops' = stops + 1
  /\ UNCHANGED <<environment, clock, file, rows, said, errors>>

Retained == {p \in Prefixes : retained[p] # "none"}

\* bootstrapStateMap takes every controller for offline, with no clock, and for
\* its organisation's; the subscriptions of onConnect bring what the broker retains.
Start ==
  /\ ~up /\ up' = TRUE
  /\ online' = FALSE /\ offlineSince' = FALSE /\ offlineAlarmed' = FALSE
  /\ slug' = "own" /\ tenant' = "own"
  /\ replay' = Retained \cup {"key"}
  /\ UNCHANGED <<environment, table, raise, clear, stops, errors>>

OnConnect ==
  /\ "reconnect" \in Faults /\ stops < MaxStops
  /\ up
  /\ replay' = Retained \cup {"key"}
  /\ stops' = stops + 1
  /\ UNCHANGED <<environment, clock, file, table, up, raise, clear, errors>>

TenantStatus ==
  /\ "suspend" \in Faults /\ turns < MaxTurns
  /\ serving' = ~serving
  /\ turns' = turns + 1
  /\ UNCHANGED <<link, willDue, prefix, retained, spoke, clock, file, table, replay,
                 up, raise, clear, stops, errors>>

----------------------------------------------------------------------------
Queries == SelectRow \/ InsertRow \/ AnnounceOpen \/ CloseRow \/ AnnounceClosed

Next ==
  \/ GoMute \/ LoseLink \/ Relapse \/ WillPublished \/ Reconnect \/ Publish
  \/ ReplayStatus \/ ReplayKey
  \/ DetectSilence \/ DetectOffline
  \/ SelectRow \/ InsertRow \/ AnnounceOpen \/ CloseRow \/ AnnounceClosed
  \/ RejectRaise \/ RejectClear
  \/ Stop \/ Start \/ OnConnect \/ TenantStatus

Spec == Init /\ [][Next]_vars

(* The detector runs every 30 s and PostgreSQL answers; the broker publishes *)
(* a due will and replays what it retains; a controller that stays "talking" *)
(* sends its heartbeat every 30 s; the service manager starts the backend.   *)
(* Nothing obliges a controller to go dark, or a dark one to come back.      *)
Fairness ==
  /\ WF_vars(SelectRow) /\ WF_vars(InsertRow) /\ WF_vars(AnnounceOpen)
  /\ WF_vars(CloseRow) /\ WF_vars(AnnounceClosed)
  /\ SF_vars(DetectSilence) /\ SF_vars(DetectOffline)
  /\ SF_vars(WillPublished) /\ SF_vars(ReplayStatus) /\ SF_vars(ReplayKey)
  /\ SF_vars(link = "talking" /\ Publish)
  /\ WF_vars(Start)

FairSpec == Spec /\ Fairness

----------------------------------------------------------------------------
(* What the offline alarm promises.                                         *)

\* A query was rejected, or the organisation was suspended, or the controller has
\* published under pending: the handlers log the error, or drop the message, or
\* leave the row alone, and nothing makes up for it later.
Disturbed == errors > 0 \/ turns > 0

\* The alarm is closed on every controller the backend holds to be online:
\* "closed by the device's next message" (docs/FEATURES.md:361).
OpenMeansOffline ==
  up /\ Quiet /\ online => rows = 0 \/ Disturbed

\* The row is closed only on account of something the controller published
\* since it was opened, or of what the broker retains: a restarted backend takes
\* the replay of a new subscription for news.
ClosedByDevice == [][rows > 0 /\ rows' = 0 => spoke \/ stops > 0]_vars

\* A controller that stays dark gets its alarm, whichever way it went: a will that
\* started no clock was "the commonest failure of all" (mqtt.js:1452).
DarkIsRaised == link # "talking" ~> rows > 0 \/ link = "talking" \/ Disturbed

\* A controller that keeps talking has its alarm closed, and announced so, unless
\* the backend was stopped between the two.
BackIsClosed ==
  link = "talking" ~> (rows = 0 /\ ~said) \/ link # "talking" \/ Disturbed \/ lost

\* Rows and announcements take turns, whatever is rejected, suspended or refiled.
\* The one announcement that may be missing is the one a stop cut off from its row;
\* the ledger takes it for made, and the next one is due after the next change.
Ledger == INSTANCE AlarmLedger WITH rows <- rows, said <- (said <=> ~lost)
LedgerKept == Ledger!Spec
=============================================================================
