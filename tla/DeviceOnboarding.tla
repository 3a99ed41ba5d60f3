-------------------------- MODULE DeviceOnboarding --------------------------
(***************************************************************************)
(* How one controller finds the organisation it belongs to.                *)
(*                                                                         *)
(* Three parties decide where it lives: the devices row (routes/devices.js *)
(* and POST /devices/register write it), the broker, whose ACL is a query  *)
(* over that row, and the controller, which keeps a prefix and a password  *)
(* of its own and learns new ones from commands that arrive only on a      *)
(* prefix it is subscribed to.  A handler sends the commands in one step   *)
(* and writes the row in another, so the three disagree for a while; the   *)
(* retained hint, the rescue of stuck controllers, the pending grant of    *)
(* migration 022 and the re-registration are there to bring them together. *)
(*                                                                         *)
(* The firmware and the broker are external: the controller saves what it  *)
(* is sent, reconnects when its prefix changes, publishes whenever it is   *)
(* connected and registers again when its password is refused.  A refused  *)
(* SUBSCRIBE is not stored.  Left out: the ACL cache of go-auth (60 s); a   *)
(* restart of the backend or of its connection to the broker, and the       *)
(* retained status its new subscription replays; the status 'disabled',     *)
(* which no code under src writes.                                          *)
(***************************************************************************)
EXTENDS Naturals, FiniteSets

CONSTANTS
  Tenants,      \* organisations; a slug and a tenant id are the same value here
  Pending,      \* the 'pending' slug and the SYSTEM tenant
  NoHint,       \* no retained _set_tenant
  Requests,     \* requests of the administrators; each generates its own password
  Bootstrap,    \* the bootstrap password
  Original,     \* the password of a controller provisioned before the run
  MaxOpen,      \* bound: handlers in flight at a time, a registration included
  MaxMishaps,   \* bound: controllers that lose what they saved, rejected queries, suspensions
  RescueMax,    \* RESCUE_MAX_ATTEMPTS
  LateAnswers   \* the answer to a SELECT may be handled after that to a later COMMIT

ASSUME OnboardingConstants ==
  /\ IsFiniteSet(Tenants) /\ IsFiniteSet(Requests)
  /\ Pending \notin Tenants /\ NoHint \notin Tenants \cup {Pending}
  /\ Bootstrap \notin Requests /\ Original \notin Requests \cup {Bootstrap}
  /\ MaxOpen \in Nat /\ MaxMishaps \in Nat /\ RescueMax \in Nat
  /\ LateAnswers \in BOOLEAN

VARIABLES
  row,        \* the devices row; grant is assigned_at: NULL, not yet or already passed by
              \* last_seen; gone is deleted_at
  fresh,      \* _lastSeen of stateMap is past the assigned_at of an open grant
  checkedIn,  \* history: heard under the row's organisation since the grant was opened
  suspended,  \* tenants.status: suspended or closed
  registry,   \* deviceRegistry: status and tenant of the row when it was last read
  served,     \* tenantRegistry: the organisations open when it was last read
  hint,       \* the retained _set_tenant on the pending prefix
  misled,     \* history: the hint was left as it is by a handler a query of which was rejected
  seen,       \* stateMap: the slug the controller was last heard on
  attempts,   \* pendingRescues
  grace,      \* recentAssigns, within ASSIGN_GRACE_MS
  blocked,    \* deletedDevices, within DELETED_BLOCK_MS
  discovering,  \* an INSERT of ensureDevice is on its way
  rescue,     \* autoReassignDevice in progress
  request,    \* requests of the administrators
  register,   \* POST /devices/register in progress
  ctl,        \* the controller: what it saved, and its connection
  mishaps

stored   == <<row, fresh, checkedIn>>
retained == <<hint, misled>>
cloud    == <<registry, served, seen, attempts, grace, blocked, discovering>>
outside  == <<suspended, mishaps>>
onboarding == <<stored, retained, cloud, rescue, request, register, ctl, outside>>

Slugs     == Tenants \cup {Pending}
Passwords == Requests \cup {Bootstrap, Original}
Statuses  == {"absent", "pending", "active", "deleted"}

NoRow    == [status |-> "absent", tenant |-> Pending, cred |-> Bootstrap, grant |-> "none",
             gone |-> FALSE]
NoEntry  == [status |-> "absent", tenant |-> Pending]
NoRescue == [pc |-> "idle", tenant |-> Pending, n |-> 0]
Unsent   == [pc |-> "new"]

OnboardingTypes ==
  /\ row \in [status: Statuses, tenant: Slugs, cred: Passwords, grant: {"none", "open", "closed"},
             gone: BOOLEAN]
  /\ row.status = "active" <=> row.tenant \in Tenants
  /\ registry \in [status: Statuses, tenant: Slugs]
  /\ hint \in Slugs \cup {NoHint} /\ seen \in Slugs \cup {NoHint}
  /\ attempts \in 0 .. RescueMax + 1
  /\ {fresh, checkedIn, misled, grace, blocked, discovering} \subseteq BOOLEAN
  /\ suspended \subseteq Tenants /\ served \subseteq Tenants
  /\ rescue \in [pc: {"idle", "select", "send"}, tenant: Slugs, n: 0 .. RescueMax]
  /\ \A r \in Requests :
       /\ request[r].pc \in {"new", "send", "write", "settle", "refresh", "done"}
       /\ request[r].pc \notin {"new", "done"} =>
            /\ request[r].kind \in {"assign", "reassign", "reset", "delete", "discard", "recover"}
            /\ request[r].to \in Slugs /\ request[r].from \in Slugs
  /\ register.pc \in {"idle", "select", "reset", "create", "settle", "refresh"}
  /\ ctl \in [slug: Slugs, cred: Passwords, conn: BOOLEAN, sub: BOOLEAN]
  /\ ctl.sub => ctl.conn

\* A controller nobody has seen, or one that has settled in its organisation.
OnboardingInit ==
  /\ \/ /\ row = NoRow /\ registry = NoEntry /\ hint = NoHint /\ seen = NoHint /\ checkedIn = FALSE
        /\ ctl = [slug |-> Pending, cred |-> Bootstrap, conn |-> FALSE, sub |-> FALSE]
     \/ \E t \in Tenants :
          /\ row = [status |-> "active", tenant |-> t, cred |-> Original, grant |-> "closed",
                     gone |-> FALSE]
          /\ registry = [status |-> "active", tenant |-> t]
          /\ hint = t /\ seen = t /\ checkedIn = TRUE
          /\ ctl = [slug |-> t, cred |-> Original, conn |-> TRUE, sub |-> TRUE]
  /\ attempts = 0 /\ grace = FALSE /\ blocked = FALSE /\ discovering = FALSE /\ rescue = NoRescue
  /\ fresh = FALSE /\ misled = FALSE /\ suspended = {} /\ served = Tenants
  /\ request = [r \in Requests |-> Unsent] /\ register = [pc |-> "idle"]
  /\ mishaps = 0

Open == {r \in Requests : request[r].pc \notin {"new", "done"}}

\* Handlers at work, a registration included.
Busy == Cardinality(Open) + (IF register.pc = "idle" THEN 0 ELSE 1)

----------------------------------------------------------------------------
(* The broker.                                                              *)

\* auth_opt_pg_userquery: the row's own hash if it has one, else the bootstrap hash.
Admitted == ctl.cred = row.cred

\* auth_opt_pg_aclquery: the prefix of the row's status, the bootstrap prefix of an
\* unknown controller, and the pending prefix of one that has not checked in yet.  An
\* active controller of a suspended organisation gets neither.
Allowed(slug) ==
  IF row.status = "active"
  THEN row.tenant \notin suspended /\ (slug = row.tenant \/ (slug = Pending /\ row.grant = "open" /\ ~row.gone))
  ELSE slug = Pending

\* The ACL is asked for what is delivered, too.
Listens(slug) == ctl.conn /\ ctl.sub /\ ctl.slug = slug /\ Allowed(slug)

\* The controller saves a new prefix and reconnects; a prefix it has changes nothing.
Told(c, slug) ==
  IF c.slug = slug THEN c ELSE [c EXCEPT !.slug = slug, !.conn = FALSE, !.sub = FALSE]

\* _set_tenant published on a prefix, and _set_mqtt_creds followed by _set_tenant.
HearTenant(on, slug)   == ctl' = IF Listens(on) THEN Told(ctl, slug) ELSE ctl
HearBoth(on, pw, slug) == ctl' = IF Listens(on) THEN Told([ctl EXCEPT !.cred = pw], slug) ELSE ctl

\* A granted SUBSCRIBE on the pending prefix is answered with the retained hint.
Connect ==
  /\ ~ctl.conn /\ Admitted
  /\ LET c == [ctl EXCEPT !.conn = TRUE, !.sub = Allowed(ctl.slug)]
     IN  ctl' = IF c.sub /\ c.slug = Pending /\ hint # NoHint THEN Told(c, hint) ELSE c
  /\ UNCHANGED <<stored, retained, cloud, rescue, request, register, outside>>

Drop ==
  /\ ctl.conn
  /\ ctl' = [ctl EXCEPT !.conn = FALSE, !.sub = FALSE]
  /\ UNCHANGED <<stored, retained, cloud, rescue, request, register, outside>>

\* Its flash loses the prefix, or everything; it counts as a handler.
Relapse ==
  /\ Busy < MaxOpen
  /\ mishaps < MaxMishaps /\ mishaps' = mishaps + 1
  /\ ctl' = [slug |-> Pending, cred |-> ctl.cred, conn |-> FALSE, sub |-> FALSE]
  /\ UNCHANGED <<stored, retained, cloud, rescue, request, register, suspended>>

FactoryReset ==
  /\ Busy < MaxOpen
  /\ mishaps < MaxMishaps /\ mishaps' = mishaps + 1
  /\ ctl' = [slug |-> Pending, cred |-> Bootstrap, conn |-> FALSE, sub |-> FALSE]
  /\ UNCHANGED <<stored, retained, cloud, rescue, request, register, suspended>>

\* An organisation is suspended and reopened: its status, and nothing of its controllers.
Suspend(t) ==
  /\ t \notin suspended /\ suspended' = suspended \cup {t}
  /\ mishaps < MaxMishaps /\ mishaps' = mishaps + 1
  /\ UNCHANGED <<stored, retained, cloud, rescue, request, register, ctl>>

Reopen(t) ==
  /\ t \in suspended /\ suspended' = suspended \ {t}
  /\ UNCHANGED <<stored, retained, cloud, rescue, request, register, ctl, mishaps>>

\* What an UPDATE makes of the row: a grant it opens is of a later date than anything
\* heard.
Store(new) == row' = new /\ fresh' = FALSE /\ checkedIn' = FALSE

----------------------------------------------------------------------------
(* Messages of the controller: handleStatus, handleStateKey, handleHeartbeat. *)

Unknown == registry.status \in {"absent", "deleted"} /\ ~blocked

\* isTopicTenantAuthorized for a prefix that is not the pending one.  The registry is
\* never empty: there are other controllers.
Authorized(slug) == slug \in served /\ registry.status # "absent" /\ registry.tenant = slug

Closed == [row EXCEPT !.grant = "closed"]

\* On its own prefix.  A status, the will of a broken connection included, writes
\* last_seen at once, scoped to the tenant of the topic; a state key or a heartbeat is
\* kept in stateMap for the next flush.
PublishOnTenant ==
  /\ ctl.conn /\ ctl.slug \in Tenants /\ Allowed(ctl.slug)
  /\ IF Authorized(ctl.slug)
     THEN /\ seen' = ctl.slug /\ attempts' = 0 /\ checkedIn' = TRUE
          /\ IF row.grant = "open"
             THEN \/ row' = Closed /\ fresh' = FALSE
                  \/ fresh' = TRUE /\ UNCHANGED row
             ELSE UNCHANGED <<row, fresh>>
          /\ UNCHANGED ctl
     ELSE /\ IF Unknown THEN HearTenant(ctl.slug, Pending) ELSE UNCHANGED ctl
          /\ UNCHANGED <<seen, attempts, stored>>
  /\ UNCHANGED <<registry, served, retained, grace, blocked, discovering, rescue,
                 request, register, outside>>

\* stateWriter: the time the controller was last heard, under the tenant it was heard on.
StateWriter ==
  /\ fresh /\ row.grant = "open" /\ seen = row.tenant
  /\ row' = Closed /\ fresh' = FALSE
  /\ UNCHANGED <<checkedIn, retained, cloud, rescue, request, register, ctl,
                 outside>>

\* ensureDevice for an unknown controller on the pending prefix: the entry at once, so
\* that its next message finds it.
Discover == registry' = [status |-> "pending", tenant |-> Pending] /\ discovering' = TRUE

\* The INSERT: the row, if there is none or a deleted one.  setBootstrapCredentials
\* after it changes nothing here: a row without a hash is admitted like no row.
DiscoverInsert ==
  /\ discovering /\ discovering' = FALSE
  /\ IF row.status \in {"absent", "deleted"}
     THEN Store([row EXCEPT !.status = "pending", !.tenant = Pending, !.grant = "none", !.gone = FALSE])
     ELSE UNCHANGED stored
  /\ UNCHANGED <<retained, registry, served, seen, attempts, grace, blocked, rescue,
                 request, register, ctl, outside>>

\* It is rejected, and only logged: the entry stays until the registries are read.
DiscoverRejects ==
  /\ discovering /\ discovering' = FALSE
  /\ mishaps < MaxMishaps /\ mishaps' = mishaps + 1
  /\ UNCHANGED <<stored, retained, registry, served, seen, attempts, grace, blocked,
                 rescue, request, register, ctl, suspended>>

\* checkStuckDevice and the start of autoReassignDevice: active, yet heard on the
\* pending prefix.
CheckStuck ==
  IF registry.status = "active" /\ rescue.pc = "idle" /\ ~grace
  THEN IF attempts >= RescueMax
       THEN grace' = TRUE /\ attempts' = RescueMax + 1 /\ UNCHANGED rescue
       ELSE /\ rescue' = [pc |-> "select", tenant |-> registry.tenant, n |-> attempts]
            /\ UNCHANGED <<attempts, grace>>
  ELSE UNCHANGED <<rescue, attempts, grace>>

\* On the pending prefix: last_seen is looked for under the SYSTEM tenant, so that an
\* open grant stays open, but stateMap keeps the time.
PublishOnPending ==
  /\ ctl.conn /\ ctl.slug = Pending /\ Allowed(Pending)
  /\ seen' = Pending /\ fresh' = (row.grant = "open")
  /\ IF Unknown THEN Discover /\ UNCHANGED <<rescue, attempts, grace>>
                ELSE CheckStuck /\ UNCHANGED <<registry, discovering>>
  /\ UNCHANGED <<row, checkedIn, served, retained, blocked, request, register, ctl,
                 outside>>

----------------------------------------------------------------------------
(* autoReassignDevice after its await.                                      *)

\* The row, looked up by its tenant.
RescueSelect ==
  /\ rescue.pc = "select"
  /\ rescue' = IF row.status # "absent" /\ row.tenant = rescue.tenant
               THEN [rescue EXCEPT !.pc = "send"] ELSE NoRescue
  /\ UNCHANGED <<stored, retained, cloud, request, register, ctl, outside>>

\* The retained rescue.
RescueSend ==
  /\ rescue.pc = "send" /\ rescue' = NoRescue
  /\ hint' = rescue.tenant /\ misled' = FALSE /\ HearTenant(Pending, rescue.tenant)
  /\ attempts' = rescue.n + 1 /\ grace' = TRUE
  /\ UNCHANGED <<stored, registry, served, seen, blocked, discovering, request,
                 register, outside>>

----------------------------------------------------------------------------
(* What the handlers share.                                                 *)

\* setPendingTenantHint: retained, and heard by a controller on the prefix.
SetPendingTenantHint(slug) ==
  hint' = slug /\ misled' = FALSE /\ attempts' = 0 /\ HearTenant(Pending, slug)

\* Faulty variant: the hint stays as it is.
RemoveKeepsHint ==
  /\ seen' = NoHint /\ registry' = NoEntry /\ blocked' = TRUE
  /\ attempts' = 0 /\ UNCHANGED <<retained, ctl, grace, served, discovering>>

RemoveDeviceState ==
  /\ seen' = NoHint /\ registry' = NoEntry /\ blocked' = TRUE
  /\ SetPendingTenantHint(Pending) /\ UNCHANGED <<grace, served, discovering>>

\* refreshRegistries.
LoadRegistries ==
  /\ registry' = [status |-> row.status, tenant |-> row.tenant] /\ served' = Tenants \ suspended
  /\ attempts' = IF row.status = "absent" THEN 0 ELSE attempts
  /\ UNCHANGED <<seen, grace, blocked, discovering>>

\* What the UPDATEs of the handlers make of the row.  Only discovery and recover
\* set deleted_at back to NULL.
Reset(pw)    == [row EXCEPT !.status = "pending", !.tenant = Pending, !.cred = pw, !.grant = "none"]
Given(t, pw) == [row EXCEPT !.status = "active", !.tenant = t, !.cred = pw, !.grant = "open"]
Deleted      == [Reset(row.cred) EXCEPT !.status = "deleted", !.gone = TRUE]
Recovered    == [Reset(Bootstrap) EXCEPT !.gone = FALSE]
Discarded    == NoRow

----------------------------------------------------------------------------
(* Requests of the administrators: SELECT, commands, UPDATE, what memory and *)
(* the hint need, the refresh of the registries.                            *)

\* The answer to a rescue's SELECT is not handled after that to a later COMMIT.
InOrder == LateAnswers \/ rescue.pc # "send"

\* What the SELECT of each handler asks of the row.
Applies(kind, t) ==
  CASE kind \in {"assign", "discard"} -> row.status = "pending"
    [] kind = "reassign"              -> row.status # "absent" /\ row.tenant # t /\ t \notin suspended
    [] kind \in {"reset", "delete"}   -> row.status # "absent"
    [] kind = "recover"               -> TRUE

\* Requests differ in nothing before they begin: which of them does is no matter.
Foremost == CHOOSE r \in Requests : request[r].pc = "new"

Begin(r, kind, t) ==
  /\ request[r].pc = "new" /\ r = Foremost /\ Busy < MaxOpen
  /\ Applies(kind, t)
  /\ request' = [request EXCEPT ![r] =
       [pc |-> IF kind \in {"discard", "recover"} THEN "write" ELSE "send",
        kind |-> kind, to |-> t, from |-> row.tenant]]
  /\ UNCHANGED <<stored, retained, cloud, rescue, register, ctl, outside>>

To(r, pc) == request' = [request EXCEPT ![r].pc = pc]

\* The prefix of the tenant of a row.  The SYSTEM tenant's own slug is __system__, and
\* what is sent there no controller hears.
Prefix(t) == IF t \in Tenants THEN t ELSE NoHint

\* The commands of each handler, sent before the row is written.  Only those of assign
\* are retained; a moved controller is told on the prefix it was last heard on, a reset
\* or deleted one, whatever its status, on that of its tenant.
AssignCommands(r, q)   == HearBoth(Pending, r, q.to) /\ hint' = q.to /\ misled' = FALSE
ReassignCommands(r, q) ==
  HearBoth(IF seen # NoHint THEN seen ELSE Prefix(q.from), r, q.to) /\ UNCHANGED retained
ResetCommands(q)  == HearTenant(Prefix(q.from), Pending) /\ UNCHANGED retained
DeleteCommands(q) == HearBoth(Prefix(q.from), Bootstrap, Pending) /\ UNCHANGED retained

Send(r) ==
  /\ request[r].pc = "send" /\ To(r, "write")
  /\ LET q == request[r] IN
     CASE q.kind = "assign"   -> AssignCommands(r, q)
       [] q.kind = "reassign" -> ReassignCommands(r, q)
       [] q.kind = "reset"    -> ResetCommands(q)
       [] q.kind = "delete"   -> DeleteCommands(q)
  /\ UNCHANGED <<stored, cloud, rescue, register, outside>>

\* What the UPDATE of a request makes of a row that is there.
Updated(r, q) ==
  CASE q.kind \in {"assign", "reassign"} -> Given(q.to, r)
    [] q.kind = "reset"                  -> Reset(row.cred)
    [] q.kind = "delete"                 -> Deleted

\* The row.  The UPDATEs go by its id and do not look at its status again.
Write(r) ==
  /\ request[r].pc = "write" /\ InOrder /\ To(r, "settle")
  /\ LET q == request[r] IN
     Store(CASE q.kind = "recover" -> Recovered
             [] q.kind = "discard" -> Discarded
             [] OTHER              -> IF row = NoRow THEN NoRow ELSE Updated(r, q))
  /\ UNCHANGED <<retained, cloud, rescue, register, ctl, outside>>

\* The UPDATE, or the transaction it is in, is rejected: the answer is an error and the
\* rest of the handler is not run, but the commands are out.
WriteRejects(r) ==
  /\ request[r].pc = "write"
  /\ mishaps < MaxMishaps /\ mishaps' = mishaps + 1
  /\ misled' = (misled \/ request[r].kind = "assign")
  /\ request' = [request EXCEPT ![r] = [pc |-> "done"]]
  /\ UNCHANGED <<stored, hint, cloud, rescue, register, ctl, suspended>>

\* recordAssign and clearPendingRetained; the hint and the state of a moved
\* controller; the hint of a recovered one; removeDeviceState for the others.
SettleAssign ==
  grace' = TRUE /\ attempts' = 0 /\ UNCHANGED <<retained, seen, registry, served,
                                                blocked, discovering, ctl>>

\* Faulty variant: the state of a controller still heard on the pending prefix is moved, too.
SettleMovesPending(q) ==
  /\ grace' = TRUE /\ SetPendingTenantHint(q.to)
  /\ seen' = IF seen # NoHint THEN q.to ELSE seen
  /\ UNCHANGED <<registry, served, blocked, discovering>>

SettleReassign(q) ==
  /\ grace' = TRUE /\ SetPendingTenantHint(q.to)
  /\ seen' = IF seen \in Tenants THEN q.to ELSE seen
  /\ UNCHANGED <<registry, served, blocked, discovering>>

Settle(r) ==
  /\ request[r].pc = "settle" /\ To(r, "refresh")
  /\ LET q == request[r] IN
     CASE q.kind = "assign"   -> SettleAssign
       [] q.kind = "reassign" -> SettleReassign(q)
       [] q.kind = "recover"  -> SetPendingTenantHint(Pending) /\ UNCHANGED <<seen,
                                                                              registry,
                                                                              served,
                                                                              grace,
                                                                              blocked,
                                                                              discovering>>
       [] q.kind \in {"reset", "delete", "discard"} -> RemoveDeviceState
  /\ UNCHANGED <<stored, rescue, register, outside>>

Finish(r) ==
  /\ request[r].pc = "refresh" /\ request' = [request EXCEPT ![r] = [pc |-> "done"]]
  /\ LoadRegistries
  /\ UNCHANGED <<stored, retained, rescue, register, ctl, outside>>

----------------------------------------------------------------------------
(* POST /devices/register, called by a controller that is refused.           *)

\* It goes back to the bootstrap password and the pending prefix.
Register ==
  /\ ~ctl.conn /\ ~Admitted /\ register.pc = "idle" /\ Busy < MaxOpen
  /\ ctl' = [ctl EXCEPT !.slug = Pending, !.cred = Bootstrap]
  /\ register' = [pc |-> "select"]
  /\ UNCHANGED <<stored, retained, cloud, rescue, request, outside>>

\* A pending row that has a hash is answered as it is.  An active one is reset
\* once its last_seen is older than RESET_OFFLINE_GRACE_MS; until then the answer
\* is 409 and the controller asks again.
RegisterSelect ==
  /\ register.pc = "select"
  /\ register' = [pc |-> CASE row.status = "pending" -> "idle"
                           [] row.status = "active"  -> "reset"
                           [] OTHER                  -> "create"]
  /\ UNCHANGED <<stored, retained, cloud, rescue, request, ctl, outside>>

\* The UPDATE goes by the controller's id alone.
RegisterReset ==
  /\ register.pc = "reset" /\ InOrder /\ register' = [pc |-> "settle"]
  /\ Store(IF row = NoRow THEN NoRow ELSE Reset(Bootstrap))
  /\ UNCHANGED <<retained, cloud, rescue, request, ctl, outside>>

\* The SELECT or a write is rejected: 500, and the controller asks again.  The DELETE of
\* user_devices comes after the UPDATE: if it is rejected, the row is reset, and what
\* RegisterSettle does is never done.
RegisterRejects ==
  /\ register.pc \in {"select", "reset", "create", "settle"} /\ register' = [pc |-> "idle"]
  /\ mishaps < MaxMishaps /\ mishaps' = mishaps + 1
  /\ misled' = (misled \/ register.pc = "settle")
  /\ UNCHANGED <<stored, hint, cloud, rescue, request, ctl, suspended>>

\* A new pending row, or the bootstrap hash for a deleted one; a row that
\* appeared meanwhile makes the INSERT of a new one fail.
RegisterCreate ==
  /\ register.pc = "create" /\ register' = [pc |-> "refresh"]
  /\ row' = IF row = NoRow THEN Reset(Bootstrap) ELSE [row EXCEPT !.cred = Bootstrap]
  /\ UNCHANGED <<fresh, checkedIn, retained, cloud, rescue, request, ctl, outside>>

RegisterSettle ==
  /\ register.pc = "settle" /\ register' = [pc |-> "refresh"]
  /\ RemoveDeviceState
  /\ UNCHANGED <<stored, rescue, request, outside>>

RegisterFinish ==
  /\ register.pc = "refresh" /\ register' = [pc |-> "idle"]
  /\ LoadRegistries
  /\ UNCHANGED <<stored, retained, rescue, request, ctl, outside>>

----------------------------------------------------------------------------
(* Timers.                                                                  *)

GraceOver ==
  /\ grace /\ grace' = FALSE
  /\ UNCHANGED <<stored, retained, registry, served, seen, attempts, blocked,
                 discovering, rescue, request, register, ctl, outside>>

\* Faulty variant: the entry of a deleted controller is renewed.
BlockRenewed ==
  /\ blocked /\ blocked' = TRUE
  /\ UNCHANGED <<stored, retained, registry, served, seen, attempts, grace,
                 discovering, rescue, request, register, ctl, outside>>

BlockOver ==
  /\ blocked /\ blocked' = FALSE
  /\ UNCHANGED <<stored, retained, registry, served, seen, attempts, grace,
                 discovering, rescue, request, register, ctl, outside>>

\* REGISTRY_REFRESH.
Refresh ==
  /\ LoadRegistries
  /\ UNCHANGED <<stored, retained, rescue, request, register, ctl, outside>>

\* Faulty variant: the comparison of last_seen and assigned_at is the other way round.
RearmOpenGrant ==
  /\ row.status = "active" /\ row.grant = "open"
  /\ ~(ctl.conn /\ Allowed(ctl.slug))
  /\ UNCHANGED onboarding

\* rearmPendingGrant: an active controller not heard for ASSIGN_REARM_HOURS.
RearmPendingGrant ==
  /\ row.status = "active" /\ row.grant = "closed" /\ ~row.gone
  /\ ~(ctl.conn /\ Allowed(ctl.slug))
  /\ Store([row EXCEPT !.grant = "open"])
  /\ UNCHANGED <<retained, cloud, rescue, request, register, ctl, outside>>

\* Seven days after the deletion.  It counts as a handler.
SoftDeleteCleanup ==
  /\ Busy < MaxOpen
  /\ row.status = "deleted" /\ Store(NoRow)
  /\ UNCHANGED <<retained, cloud, rescue, request, register, ctl, outside>>

----------------------------------------------------------------------------
Kinds == {"reset", "delete", "discard", "recover"}

Handle(r)  == Send(r) \/ Write(r) \/ WriteRejects(r) \/ Settle(r) \/ Finish(r)
Rescue     == RescueSelect \/ RescueSend
Registering ==
  RegisterSelect \/ RegisterReset \/ RegisterRejects \/ RegisterCreate \/ RegisterSettle \/ RegisterFinish
Discovering == DiscoverInsert \/ DiscoverRejects
Ask(r)     == \/ \E t \in Tenants, kind \in {"assign", "reassign"} : Begin(r, kind, t)
              \/ \E kind \in Kinds : Begin(r, kind, Pending)

OnboardingNext ==
  \/ Connect \/ Drop \/ Relapse \/ FactoryReset
  \/ \E t \in Tenants : Suspend(t) \/ Reopen(t)
  \/ PublishOnTenant \/ StateWriter \/ PublishOnPending \/ Discovering
  \/ Rescue \/ Register \/ Registering
  \/ \E r \in Requests : Ask(r) \/ Handle(r)
  \/ GraceOver \/ BlockOver \/ Refresh \/ RearmPendingGrant \/ SoftDeleteCleanup

Onboarding == OnboardingInit /\ [][OnboardingNext]_onboarding

(* Handlers and timers run.  A controller connects when it is admitted and  *)
(* registers when it is not, publishes on connecting, and no connection     *)
(* lasts for ever.                                                          *)
FairOnboarding ==
  /\ Onboarding
  /\ WF_onboarding(Connect) /\ WF_onboarding(Drop) /\ WF_onboarding(Register) /\ WF_onboarding(Registering)
  /\ SF_onboarding(PublishOnTenant) /\ SF_onboarding(PublishOnPending)
  /\ WF_onboarding(StateWriter) /\ WF_onboarding(Discovering)
  /\ WF_onboarding(Rescue) /\ \A r \in Requests : WF_onboarding(Handle(r))
  /\ WF_onboarding(GraceOver) /\ WF_onboarding(BlockOver) /\ WF_onboarding(Refresh)
  /\ SF_onboarding(RearmPendingGrant) /\ WF_onboarding(SoftDeleteCleanup)

----------------------------------------------------------------------------
Quiet == Open = {} /\ register.pc = "idle" /\ rescue.pc = "idle"
Place == IF row.status = "active" THEN row.tenant ELSE Pending
Home  == ctl.slug = Place /\ Admitted

(* Whenever no handler is at work, the retained hint names the place the row *)
(* gives the controller.  A hint is replayed on every SUBSCRIBE, so a stale  *)
(* one drags the controller back where it was taken from (mqtt.js,           *)
(* setPendingTenantHint).  The exceptions are the hint of an assignment      *)
(* whose UPDATE was rejected, published before and taken back by nothing,    *)
(* and that of a registration the DELETE of which was rejected once the row  *)
(* was reset.                                                                *)
HintIsTrue == Quiet /\ ~misled => hint \in {NoHint, Place}

(* The pending grant of an active row closes only once a message of the      *)
(* controller was heard under its organisation since the grant was opened:   *)
(* neither what was heard before, nor what is heard on the pending prefix,   *)
(* nor what an administrator does to stateMap closes it, in whatever order   *)
(* the writer comes to flush it.  A controller that has not got there is     *)
(* never denied both prefixes (migration 022; mqtt.js, updateDeviceStateMap).*)
GrantClosedByCheckIn ==
  [][row.grant = "open" /\ row'.grant = "closed" => checkedIn']_onboarding

(* A controller whose row belongs to an organisation for good ends up there, *)
(* with the password the broker checks, whatever it missed, forgot or was    *)
(* refused on the way: by the hint, the rescue, the re-armed grant or a new  *)
(* registration.  The exceptions are a row that was assigned or reassigned   *)
(* while deleted_at was set, which the grant and its re-arming pass over,    *)
(* and an organisation that stays suspended, whose controllers get no topic. *)
ActiveComesHome ==
  <>[](row.status = "active" /\ ~row.gone /\ row.tenant \notin suspended => Home)

(* A controller whose row was removed is discovered or registers again, and  *)
(* its row is back (DELETE /devices/pending "Allows re-registration").  The  *)
(* exception is a controller on the prefix of an organisation that has no    *)
(* row for it: the broker admits it, denies it everything, and nothing can   *)
(* tell it.                                                                  *)
Stranded == Admitted /\ ctl.slug \in Tenants /\ ~Allowed(ctl.slug)
Rediscovered ==
  row.status \in {"absent", "deleted"} ~> row.status \in {"pending", "active"} \/ Stranded
=============================================================================
