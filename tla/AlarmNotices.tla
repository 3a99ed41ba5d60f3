---------------------------- MODULE AlarmNotices ----------------------------
(***************************************************************************)
(* What services/push.js tells people of the alarms of one controller: the *)
(* handler of the `alarm' event, the escalation of critical alarms nobody  *)
(* acknowledged, and POST /alarms/:id/ack.                                 *)
(*                                                                         *)
(* The emitter awaits no handler, and the timer of the sweep awaits no     *)
(* sweep: any number of dispatches are under way at once, each waiting for *)
(* PostgreSQL or a channel between its steps.  A person has one channel.   *)
(***************************************************************************)
EXTENDS Integers, FiniteSets

CONSTANTS
  Users,        \* the active users of the organisation, and the superadmins
  Role, OptedIn, Sees,               \* users: role, receive_all_tenant_alerts, access to the device
  Enabled, MinSeverity, QuietHours,  \* users: user_notification_prefs
  Subscribers,  \* notification_subscribers whose filter admits the device
  Account,      \* the user a subscriber's Telegram account is linked to, or NoUser
  NoUser,
  Rows,         \* rows of alarms, in the order of their ids
  NoRow,
  Keys, KeyOf,  \* alarm codes; the code of each row
  Severity,     \* of each code
  Workers,      \* bound: handlers and sweeps at once, numbered
  MaxIncidents  \* bound: restarts, rejected queries, sends that throw, acknowledgements, suspensions

Levels   == {"info", "warning", "critical"}
SEVERITY_RANK == [s \in Levels |-> CASE s = "info" -> 0 [] s = "warning" -> 1 [] s = "critical" -> 2]
People   == Users \cup Subscribers

ASSUME NoticeConstants ==
  /\ NoUser \notin Users /\ Rows \subseteq Nat /\ Workers \subseteq Nat /\ NoRow \notin Rows
  /\ Users \cap Subscribers = {}
  /\ Role \in [Users -> {"admin", "superadmin", "technician"}]
  /\ OptedIn \subseteq Users /\ Sees \subseteq Users /\ Enabled \subseteq Users /\ QuietHours \subseteq Users
  /\ MinSeverity \in [Users -> Levels]
  /\ Account \in [Subscribers -> Users \cup {NoUser}]
  /\ KeyOf \in [Rows -> Keys] /\ Severity \in [Keys -> Levels]
  /\ MaxIncidents \in Nat

VARIABLES
  alarm,        \* the rows
  fresh,        \* debounceMap: <<code, direction>> notified less than DEBOUNCE_MS ago
  work,         \* the handlers and the sweeps under way
  serving,      \* the organisation is served
  heard,        \* history: the last word each user had of each code
  told, twice,  \* history: who was told what, and told it again
  tried,        \* history: users the escalation of a row has come to
  lost,         \* history: rows claimed whose escalation died with the process, or of a rejected query
  muddled,      \* history: codes whose last event met a mishap
  incidents

past   == <<heard, told, twice, tried, lost, muddled>>
vars   == <<alarm, fresh, work, serving, past, incidents>>

----------------------------------------------------------------------------
Unraised == [state |-> "none", acked |-> FALSE, escalated |-> FALSE]
Idle     == [step |-> "idle", kind |-> "none", row |-> NoRow, rows |-> {}, todo |-> {}]
Active   == {"open", "old"}   \* open for less, or for more, than the delay of the escalation
Kinds    == {"raise", "clear", "escalation"}

\* A sweep that has told of a row goes on to the next; what has nothing left to
\* do is over.
GoOn(job) ==
  LET next == IF job.step = "send" /\ job.todo = {} /\ job.kind = "escalation"
              THEN [job EXCEPT !.step = "claim", !.row = NoRow] ELSE job
  IN IF \/ next.step = "send" /\ next.todo = {}
        \/ next.step = "claim" /\ next.rows = {}
     THEN Idle ELSE next

\* dispatchToLinkedUsers: whom a message of this kind about this code goes to.
Recipients(kind, k) ==
  {u \in Users :
     /\ kind = "escalation" \/ Severity[k] = "info" => Role[u] \in {"admin", "superadmin"}
     /\ CASE Role[u] = "superadmin" -> u \in OptedIn
          [] Role[u] = "admin"      -> TRUE
          [] OTHER                  -> u \in Sees}

\* evaluatePrefs: quiet hours never hold back a critical alarm or an escalation.
Delivers(u, kind, k, night) ==
  /\ u \in Enabled
  /\ SEVERITY_RANK[Severity[k]] >= SEVERITY_RANK[MinSeverity[u]]
  /\ kind = "escalation" \/ Severity[k] = "critical" \/ u \notin QuietHours \/ ~night

\* getSubscribers, without the accounts of getLinkedTelegramIds.
LegacyOnly == {s \in Subscribers : Account[s] = NoUser}

\* runEscalations: the rows its SELECT returns.
Overdue == {r \in Rows : /\ alarm[r].state = "old" /\ Severity[KeyOf[r]] = "critical"
                         /\ ~alarm[r].acked /\ ~alarm[r].escalated}

\* A person is one, however the message comes.
Person(a) == IF a \in Subscribers /\ Account[a] # NoUser THEN Account[a] ELSE a

\* A new handler or sweep takes the first place that is free.
FirstIdle(w) == work[w] = Idle /\ \A v \in Workers : v < w => work[v] # Idle

InFlight(k) == \E w \in Workers : \E r \in work[w].rows \cup {work[w].row} : r # NoRow /\ KeyOf[r] = k

TypeOK ==
  /\ alarm \in [Rows -> [state : {"none", "open", "old", "closed"},
                         acked : BOOLEAN, escalated : BOOLEAN]]
  /\ fresh \subseteq Keys \X {"raise", "clear"}
  /\ work \in [Workers -> [step : {"idle", "resolve", "legacy", "send", "claim"},
                           kind : Kinds \cup {"none"}, row : Rows \cup {NoRow},
                           rows : SUBSET Rows, todo : SUBSET People]]
  /\ serving \in BOOLEAN
  /\ heard \in [Users -> [Keys -> {"none", "raise", "clear", "failed"}]]
  /\ told \subseteq Rows \X Kinds \X People /\ twice \subseteq told
  /\ tried \in [Rows -> SUBSET Users] /\ lost \subseteq Rows /\ muddled \subseteq Keys
  /\ incidents \in Nat

Init ==
  /\ alarm = [r \in Rows |-> Unraised]
  /\ fresh = {} /\ work = [w \in Workers |-> Idle]
  /\ serving = TRUE
  /\ heard = [u \in Users |-> [k \in Keys |-> "none"]]
  /\ told = {} /\ twice = {} /\ tried = [r \in Rows |-> {}] /\ lost = {} /\ muddled = {}
  /\ incidents = 0

----------------------------------------------------------------------------
(* handleAlarm.                                                             *)

\* Faulty variant: one cooldown for both directions.
DebouncedEither(k, kind) == \E d \in {"raise", "clear"} : <<k, d>> \in fresh

Debounced(k, kind) == <<k, kind>> \in fresh

\* Up to its first await the handler runs within the emit.
Emit(r, kind) ==
  LET k == KeyOf[r] IN
  /\ muddled' = IF InFlight(k) \/ <<k, kind>> \in fresh THEN muddled \cup {k} ELSE muddled \ {k}
  /\ IF Debounced(k, kind)
     THEN UNCHANGED <<work, fresh>>
     ELSE /\ fresh' = fresh \cup {<<k, kind>>}
          /\ \E h \in Workers :
               /\ FirstIdle(h)
               /\ work' = [work EXCEPT ![h] = [Idle EXCEPT !.step = "resolve", !.kind = kind, !.row = r]]
  /\ UNCHANGED <<serving, heard, told, twice, tried, lost, incidents>>

\* A row of a code that has none open (AlarmEngine: OneActiveRow).
Raise(r) ==
  /\ serving /\ alarm[r] = Unraised
  /\ \A q \in Rows : KeyOf[q] = KeyOf[r] => /\ alarm[q].state \notin Active
                                            /\ q < r => alarm[q].state # "none"
  /\ alarm' = [alarm EXCEPT ![r].state = "open"]
  /\ Emit(r, "raise")

Clear(r) ==
  /\ serving /\ alarm[r].state \in Active
  /\ alarm' = [alarm EXCEPT ![r].state = "closed"]
  /\ Emit(r, "clear")

\* resolveTenantId: an organisation that is not served hears nothing.  A raise
\* goes to the subscribers first.
Resolve(w) ==
  /\ work[w].step = "resolve"
  /\ IF ~serving
     THEN /\ work' = [work EXCEPT ![w] = Idle]
          /\ muddled' = muddled \cup {KeyOf[work[w].row]}
     ELSE /\ work' = [work EXCEPT ![w].step = "legacy",
                                  ![w].todo = IF work[w].kind = "raise" THEN LegacyOnly ELSE {}]
          /\ UNCHANGED muddled
  /\ UNCHANGED <<alarm, fresh, serving, heard, told, twice, tried, lost, incidents>>

\* The channel takes the message, or throws.
Tell(w, a, ok) ==
  LET note == {<<work[w].row, work[w].kind, Person(a)>>} IN
  IF ok THEN told' = told \cup note /\ twice' = twice \cup (note \cap told) /\ UNCHANGED incidents
        ELSE UNCHANGED <<told, twice>> /\ incidents < MaxIncidents /\ incidents' = incidents + 1

\* One subscriber; the next one has its turn either way.
SendLegacy(w, s, ok) ==
  /\ work[w].step = "legacy" /\ s \in work[w].todo
  /\ work' = [work EXCEPT ![w].todo = @ \ {s}]
  /\ Tell(w, s, ok)
  /\ UNCHANGED <<alarm, fresh, serving, heard, tried, lost, muddled>>

----------------------------------------------------------------------------
(* dispatchToLinkedUsers, for both.                                         *)

ReadUsers(w) ==
  /\ work[w].step = "legacy" /\ work[w].todo = {}
  /\ work' = [work EXCEPT ![w] = GoOn([@ EXCEPT !.step = "send", !.todo = Recipients(work[w].kind, KeyOf[work[w].row])])]
  /\ UNCHANGED <<alarm, fresh, serving, past, incidents>>

\* Faulty variant: the first channel that throws ends the dispatch.
SendOrStop(w, u, ok, night) ==
  LET k == KeyOf[work[w].row]
      kind == work[w].kind
  IN
  /\ work[w].step = "send" /\ u \in work[w].todo
  /\ work' = [work EXCEPT ![w] = GoOn([work[w] EXCEPT !.todo = IF ok THEN @ \ {u} ELSE {}])]
  /\ tried' = IF kind = "escalation" THEN [tried EXCEPT ![work[w].row] = @ \cup {u}] ELSE tried
  /\ IF Delivers(u, kind, k, night)
     THEN /\ heard' = [heard EXCEPT ![u][k] = IF ~ok THEN "failed" ELSE IF kind = "clear" THEN kind ELSE "raise"]
          /\ Tell(w, u, ok)
     ELSE ok /\ UNCHANGED <<heard, told, twice, incidents>>
  /\ UNCHANGED <<alarm, fresh, serving, lost, muddled>>

Send(w, u, ok, night) ==
  LET k == KeyOf[work[w].row]
      kind == work[w].kind
  IN
  /\ work[w].step = "send" /\ u \in work[w].todo
  /\ work' = [work EXCEPT ![w] = GoOn([work[w] EXCEPT !.todo = @ \ {u}])]
  /\ tried' = IF kind = "escalation" THEN [tried EXCEPT ![work[w].row] = @ \cup {u}] ELSE tried
  /\ IF Delivers(u, kind, k, night)
     THEN /\ heard' = [heard EXCEPT ![u][k] = IF ~ok THEN "failed" ELSE IF kind = "clear" THEN kind ELSE "raise"]
          /\ Tell(w, u, ok)
     ELSE ok /\ UNCHANGED <<heard, told, twice, incidents>>
  /\ UNCHANGED <<alarm, fresh, serving, lost, muddled>>

----------------------------------------------------------------------------
(* runEscalations.  Its timer does not ask whether the sweep before is over. *)

SweepRead(w) ==
  /\ FirstIdle(w) /\ Overdue # {}
  /\ work' = [work EXCEPT ![w] = [Idle EXCEPT !.step = "claim", !.kind = "escalation", !.rows = Overdue]]
  /\ UNCHANGED <<alarm, fresh, serving, past, incidents>>

\* Faulty variant: the UPDATE does not ask whether the row is taken.
ClaimAnyway(w, r) ==
  /\ work[w].step = "claim" /\ r \in work[w].rows
  /\ alarm' = [alarm EXCEPT ![r].escalated = TRUE]
  /\ work' = [work EXCEPT ![w] = [work[w] EXCEPT !.rows = @ \ {r}, !.step = "legacy", !.row = r]]
  /\ UNCHANGED <<fresh, serving, past, incidents>>

\* "Claim the row first so two sweeps can never both notify" (push.js:232); it
\* is not asked whether the alarm is still open and unacknowledged.
Claim(w, r) ==
  /\ work[w].step = "claim" /\ r \in work[w].rows
  /\ alarm' = [alarm EXCEPT ![r].escalated = TRUE]
  /\ work' = [work EXCEPT ![w] = IF alarm[r].escalated
                                 THEN GoOn([work[w] EXCEPT !.rows = @ \ {r}])
                                 ELSE [work[w] EXCEPT !.rows = @ \ {r}, !.step = "legacy", !.row = r]]
  /\ UNCHANGED <<fresh, serving, past, incidents>>

----------------------------------------------------------------------------
(* Failures: of a query, and of the process.                                *)

\* The rows claimed of which these sweeps were telling.
Telling(ws) == {work[w].row : w \in {v \in ws : work[v].kind = "escalation" /\ work[v].row # NoRow}}

\* A query that rejects before anybody is written to ends the handler, whose
\* cooldown has begun (push.js:202), or the whole sweep (push.js:76): the rows it
\* did not come to are left to the next one, the row it claimed is not.
Reject(w) ==
  /\ incidents < MaxIncidents /\ incidents' = incidents + 1
  /\ work[w].step \in {"resolve", "claim"} \/ (work[w].step = "legacy" /\ work[w].todo = {})
  /\ work' = [work EXCEPT ![w] = Idle]
  /\ muddled' = IF work[w].kind = "escalation" THEN muddled ELSE muddled \cup {KeyOf[work[w].row]}
  /\ lost' = lost \cup Telling({w})
  /\ UNCHANGED <<alarm, fresh, serving, heard, told, twice, tried>>

\* The process stops, or dies, and starts: what it was about to tell is gone.
Restart ==
  /\ incidents < MaxIncidents /\ incidents' = incidents + 1
  /\ fresh' = {} /\ work' = [w \in Workers |-> Idle]
  /\ muddled' = muddled \cup {k \in Keys : InFlight(k)}
  /\ lost' = lost \cup Telling(Workers)
  /\ UNCHANGED <<alarm, serving, heard, told, twice, tried>>

----------------------------------------------------------------------------
(* People, time and the organisation.                                       *)

Ack(r) ==
  /\ incidents < MaxIncidents /\ incidents' = incidents + 1
  /\ alarm[r].state # "none" /\ ~alarm[r].acked
  /\ alarm' = [alarm EXCEPT ![r].acked = TRUE]
  /\ UNCHANGED <<fresh, work, serving, past>>

\* The delay of the escalation is over; DEBOUNCE_MS are over.
Age(r) ==
  /\ alarm[r].state = "open"
  /\ alarm' = [alarm EXCEPT ![r].state = "old"]
  /\ UNCHANGED <<fresh, work, serving, past, incidents>>
Forget(k, kind) ==
  /\ <<k, kind>> \in fresh
  /\ fresh' = fresh \ {<<k, kind>>}
  /\ UNCHANGED <<alarm, work, serving, past, incidents>>

Suspend ==
  /\ incidents < MaxIncidents /\ incidents' = incidents + 1
  /\ serving' = ~serving
  /\ UNCHANGED <<alarm, fresh, work, past>>

----------------------------------------------------------------------------
Step(w) ==
  \/ Resolve(w) \/ ReadUsers(w) \/ Reject(w)
  \/ \E r \in Rows : Claim(w, r)
  \/ \E ok \in BOOLEAN : \/ \E s \in Subscribers : SendLegacy(w, s, ok)
                         \/ \E u \in Users, night \in BOOLEAN : Send(w, u, ok, night)

Next ==
  \/ \E r \in Rows : Raise(r) \/ Clear(r) \/ Ack(r) \/ Age(r)
  \/ \E k \in Keys, kind \in {"raise", "clear"} : Forget(k, kind)
  \/ \E w \in Workers : Step(w)
  \/ \E w \in Workers : SweepRead(w)
  \/ Suspend \/ Restart

Spec == Init /\ [][Next]_vars

(* PostgreSQL and the channels answer or fail; the timer ticks.             *)
Fairness ==
  /\ WF_vars(\E w \in Workers : Step(w))
  /\ WF_vars(\E w \in Workers : SweepRead(w))

FairSpec == Spec /\ Fairness

----------------------------------------------------------------------------
(* What people may rely on.                                                 *)

\* Nobody is told twice of one raise, one clear or one escalation: not by two
\* sweeps at once, not by a sweep after a restart, not as a subscriber and as a
\* user (push.js:180, 211, 232).
NoticeOnce == twice = {}

Truth(k) ==
  IF \E r \in Rows : KeyOf[r] = k /\ alarm[r].state \in Active THEN "raise"
  ELSE IF \E r \in Rows : KeyOf[r] = k /\ alarm[r].state = "closed" THEN "clear" ELSE "none"

\* Whom a code concerns, whatever the clock says.
Concerned(k) ==
  {u \in Recipients("raise", k) :
     /\ u \in Enabled /\ SEVERITY_RANK[Severity[k]] >= SEVERITY_RANK[MinSeverity[u]]
     /\ Severity[k] = "critical" \/ u \notin QuietHours}

\* The last word a person had of an alarm is true, or did not come through;
\* unless the last event fell into the cooldown of its direction, met a dispatch
\* about the same code that was still under way (as an escalation that does not
\* look again), found the organisation suspended, or died with the process or of
\* a rejected query.
LastWordIsTrue ==
  \A k \in Keys \ muddled : ~InFlight(k) =>
    \A u \in Concerned(k) : heard[u][k] \in {Truth(k), "failed"}

\* A critical alarm that stays open and unacknowledged is escalated to every
\* admin, whichever channel throws, and if a query rejects before the claim;
\* unless the process died between the claim and the last message, or a query of
\* the claimed row rejected ("a restart neither loses nor duplicates", push.js:211,
\* is true of nothing else): escalated_at is then set and nobody comes back to it.
EscalationComes ==
  \A r \in Rows :
    r \in Overdue ~> \/ Recipients("escalation", KeyOf[r]) \subseteq tried[r]
                     \/ r \in lost
                     \/ alarm[r].state # "old" \/ alarm[r].acked
=============================================================================
