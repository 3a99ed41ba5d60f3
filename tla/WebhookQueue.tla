---------------------------- MODULE WebhookQueue ----------------------------
(***************************************************************************)
(* The delivery queue of services/webhooks.js for one webhook: its row,    *)
(* its deliveries, the one pass over them that runs at a time, and the     *)
(* administrator's PATCH.                                                  *)
(*                                                                         *)
(* A pass waits for PostgreSQL and for the receiver between any two of its *)
(* steps.  Whoever asks for a pass while one runs only asks it to repeat.  *)
(* Time is left out: a backoff is over at any moment after it began.       *)
(***************************************************************************)
EXTENDS Integers, FiniteSets

CONSTANTS
  Deliveries,    \* rows of webhook_deliveries
  MaxAttempts,   \* MAX_ATTEMPTS
  DisableAfter,  \* DISABLE_AFTER
  Batch,         \* BATCH, the LIMIT of a pass
  MaxMishaps,    \* bound: rejected queries and deaths of the process
  MaxRequests,   \* bound: requests of the administrator
  MaxTurns       \* bound: suspensions and reactivations of the organisation

ASSUME QueueConstants ==
  /\ IsFiniteSet(Deliveries)
  /\ MaxAttempts \in Nat \ {0} /\ DisableAfter \in Nat \ {0} /\ Batch \in Nat \ {0}
  /\ MaxMishaps \in Nat /\ MaxRequests \in Nat /\ MaxTurns \in Nat

VARIABLES
  enabled, failures,  \* the webhooks row
  delivery,           \* the webhook_deliveries rows
  queueing,           \* events whose hook was read, their row not yet inserted
  kicked,             \* a deliverDue waits for its turn of the event loop
  pass,               \* runPass in progress
  rerun,              \* work arrived while it ran
  patch,              \* PATCH /webhooks/:id in progress
  serving,            \* the organisation is served
  up,                 \* the process runs
  posts,              \* history: POSTs of a delivery
  streak,             \* history: failed attempts since the last that succeeded, DisableAfter at most
  leftover,           \* history: due deliveries the last SELECT had no room for
  mishaps, requests, turns

hook   == <<enabled, failures>>
past   == <<posts, streak, leftover>>
bounds == <<mishaps, requests, turns>>
vars   == <<hook, delivery, queueing, kicked, pass, rerun, patch, serving, up, past, bounds>>

----------------------------------------------------------------------------
Absent  == [status |-> "absent", attempts |-> 0, due |-> FALSE]
Fresh   == [status |-> "pending", attempts |-> 0, due |-> TRUE]
Pending == {d \in Deliveries : delivery[d].status = "pending"}
Due     == {d \in Pending : delivery[d].due}

\* A pass: the rows it has yet to go through, whether their hook was enabled,
\* the row at hand and how its attempt ended.
NoPass  == [pc |-> "idle", rows |-> {}, enabled |-> FALSE]
NoPatch == [pc |-> "idle"]

TypeOK ==
  /\ enabled \in BOOLEAN /\ failures \in Nat
  /\ \A d \in Deliveries : /\ delivery[d].status \in {"absent", "pending", "ok", "dead"}
                           /\ delivery[d].attempts \in 0 .. MaxAttempts
                           /\ delivery[d].due \in BOOLEAN
                           /\ posts[d] \in Nat
  /\ queueing \subseteq Deliveries
  /\ pass.pc \in {"idle", "select", "rows", "posted", "hook", "disable"}
  /\ pass.rows \subseteq Deliveries
  /\ pass.pc \in {"posted", "hook", "disable"} => pass.row \in Deliveries
  /\ patch.pc \in {"idle", "read"}
  /\ kicked \in BOOLEAN /\ rerun \in BOOLEAN /\ serving \in BOOLEAN /\ up \in BOOLEAN
  /\ streak \in Nat /\ leftover \subseteq Deliveries

Init ==
  /\ enabled = TRUE /\ failures = 0
  /\ delivery = [d \in Deliveries |-> Absent]
  /\ queueing = {} /\ kicked = FALSE
  /\ pass = NoPass /\ rerun = FALSE /\ patch = NoPatch
  /\ serving = TRUE /\ up = TRUE
  /\ posts = [d \in Deliveries |-> 0] /\ streak = 0 /\ leftover = {}
  /\ mishaps = 0 /\ requests = 0 /\ turns = 0

----------------------------------------------------------------------------
(* enqueue, redeliver.                                                      *)

\* The hooks that are enabled, of an organisation that is served.
ReadHook(d) ==
  /\ up /\ enabled /\ serving
  /\ delivery[d] = Absent /\ d \notin queueing
  /\ queueing' = queueing \cup {d}
  /\ UNCHANGED <<hook, delivery, kicked, pass, rerun, patch, serving, up, past, bounds>>

\* The row, and a pass in the next turn of the event loop.
Insert(d) ==
  /\ d \in queueing
  /\ queueing' = queueing \ {d}
  /\ delivery' = [delivery EXCEPT ![d] = Fresh]
  /\ kicked' = TRUE
  /\ UNCHANGED <<hook, pass, rerun, patch, serving, up, past, bounds>>

\* d is a copy of delivery e; neither the hook nor the organisation is looked at.
Redeliver(d, e) ==
  /\ up /\ requests < MaxRequests /\ requests' = requests + 1
  /\ delivery[e] # Absent /\ delivery[d] = Absent /\ d \notin queueing
  /\ delivery' = [delivery EXCEPT ![d] = Fresh]
  /\ kicked' = TRUE
  /\ UNCHANGED <<hook, queueing, pass, rerun, patch, serving, up, past, mishaps, turns>>

----------------------------------------------------------------------------
(* deliverDue: start a pass, or ask the one under way to repeat.            *)

\* Faulty variant: a caller that finds a pass under way goes away.
DeliverDueDropped ==
  IF pass.pc = "idle"
  THEN pass' = [NoPass EXCEPT !.pc = "select"] /\ rerun' = FALSE
  ELSE UNCHANGED <<pass, rerun>>

DeliverDue ==
  IF pass.pc = "idle"
  THEN pass' = [NoPass EXCEPT !.pc = "select"] /\ rerun' = FALSE
  ELSE rerun' = TRUE /\ UNCHANGED pass

Kick ==
  /\ kicked /\ kicked' = FALSE
  /\ DeliverDue
  /\ UNCHANGED <<hook, delivery, queueing, patch, serving, up, past, bounds>>

\* The timer of start(); a tick that would find nothing to do is left out.
Sweep ==
  /\ up /\ Due # {}
  /\ DeliverDue
  /\ UNCHANGED <<hook, delivery, queueing, kicked, patch, serving, up, past, bounds>>

----------------------------------------------------------------------------
(* runPass.                                                                 *)

\* Faulty variant: rows that have ended are taken up again.
SelectAnyDue ==
  LET any == {d \in Deliveries : delivery[d].due} IN
  /\ pass.pc = "select"
  /\ \E rows \in SUBSET any :
       /\ Cardinality(rows) = IF Cardinality(any) < Batch THEN Cardinality(any) ELSE Batch
       /\ pass' = [pc |-> "rows", rows |-> rows, enabled |-> enabled]
       /\ leftover' = any \ rows
  /\ UNCHANGED <<hook, delivery, queueing, kicked, rerun, patch, serving, up, posts, streak, bounds>>

\* The SELECT takes Batch rows at most.
SelectDue ==
  /\ pass.pc = "select"
  /\ \E rows \in SUBSET Due :
       /\ Cardinality(rows) = IF Cardinality(Due) < Batch THEN Cardinality(Due) ELSE Batch
       /\ pass' = [pc |-> "rows", rows |-> rows, enabled |-> enabled]
       /\ leftover' = Due \ rows
  /\ UNCHANGED <<hook, delivery, queueing, kicked, rerun, patch, serving, up, posts, streak, bounds>>

\* The hook was off when the row was read.
GiveUp(d) ==
  /\ pass.pc = "rows" /\ d \in pass.rows /\ ~pass.enabled
  /\ delivery' = [delivery EXCEPT ![d].status = "dead"]
  /\ pass' = [pass EXCEPT !.rows = @ \ {d}]
  /\ UNCHANGED <<hook, queueing, kicked, rerun, patch, serving, up, past, bounds>>

Post(d) ==
  /\ pass.pc = "rows" /\ d \in pass.rows /\ pass.enabled
  /\ pass' = [pc |-> "posted", rows |-> pass.rows \ {d}, enabled |-> TRUE, row |-> d]
  /\ posts' = [posts EXCEPT ![d] = @ + 1]
  /\ UNCHANGED <<hook, delivery, queueing, kicked, rerun, patch, serving, up, streak, leftover,
                 bounds>>

\* recordAttempt: the answer, and the UPDATE of the delivery.
AnswerOk ==
  LET d == pass.row IN
  /\ pass.pc = "posted"
  /\ delivery' = [delivery EXCEPT ![d].status = "ok", ![d].attempts = @ + 1]
  /\ pass' = [pc |-> "hook", rows |-> pass.rows, enabled |-> TRUE, row |-> d, ok |-> TRUE]
  /\ streak' = 0
  /\ UNCHANGED <<hook, queueing, kicked, rerun, patch, serving, up, posts, leftover, bounds>>

AnswerFailed ==
  LET d == pass.row
      n == delivery[d].attempts + 1
  IN
  /\ pass.pc = "posted"
  /\ delivery' = [delivery EXCEPT ![d] =
       [status |-> IF n >= MaxAttempts THEN "dead" ELSE "pending", attempts |-> n, due |-> FALSE]]
  /\ pass' = [pc |-> "hook", rows |-> pass.rows, enabled |-> TRUE, row |-> d, ok |-> FALSE]
  /\ streak' = IF streak < DisableAfter THEN streak + 1 ELSE streak
  /\ UNCHANGED <<hook, queueing, kicked, rerun, patch, serving, up, posts, leftover, bounds>>

\* recordAttempt: the UPDATE of the hook, and the one that switches it off.
\* Faulty variant: a success leaves the count alone.
CountFailureOnly ==
  /\ pass.pc = "hook"
  /\ failures' = IF pass.ok THEN failures ELSE failures + 1
  /\ pass' = [pass EXCEPT !.pc = IF failures' >= DisableAfter THEN "disable" ELSE "rows"]
  /\ UNCHANGED <<enabled, delivery, queueing, kicked, rerun, patch, serving, up, past, bounds>>

Count ==
  /\ pass.pc = "hook"
  /\ failures' = IF pass.ok THEN 0 ELSE failures + 1
  /\ pass' = [pass EXCEPT !.pc = IF failures' >= DisableAfter THEN "disable" ELSE "rows"]
  /\ UNCHANGED <<enabled, delivery, queueing, kicked, rerun, patch, serving, up, past, bounds>>

Disable ==
  /\ pass.pc = "disable"
  /\ enabled' = FALSE
  /\ pass' = [pass EXCEPT !.pc = "rows"]
  /\ UNCHANGED <<failures, delivery, queueing, kicked, rerun, patch, serving, up, past, bounds>>

\* Faulty variant: inflight is never cleared.
EndPassNever ==
  /\ pass.pc = "rows" /\ pass.rows = {} /\ rerun
  /\ pass' = [NoPass EXCEPT !.pc = "select"] /\ rerun' = FALSE
  /\ UNCHANGED <<hook, delivery, queueing, kicked, patch, serving, up, past, bounds>>

\* rerun is taken back in the turn in which it is read, before the SELECT.
EndPass ==
  /\ pass.pc = "rows" /\ pass.rows = {}
  /\ pass' = (IF rerun THEN [NoPass EXCEPT !.pc = "select"] ELSE NoPass) /\ rerun' = FALSE
  /\ UNCHANGED <<hook, delivery, queueing, kicked, patch, serving, up, past, bounds>>

\* A query of the pass is rejected, or the secret of a row cannot be read: the
\* pass is over, and so is rerun.
Reject ==
  /\ mishaps < MaxMishaps /\ mishaps' = mishaps + 1
  /\ pass.pc # "idle" /\ (pass.pc = "rows" => pass.rows # {})
  /\ pass' = NoPass /\ rerun' = FALSE
  /\ UNCHANGED <<hook, delivery, queueing, kicked, patch, serving, up, past,
                 requests, turns>>

\* The INSERT of enqueue is rejected: whoever announced the event logs it.
RejectInsert(d) ==
  /\ mishaps < MaxMishaps /\ mishaps' = mishaps + 1
  /\ d \in queueing /\ queueing' = queueing \ {d}
  /\ UNCHANGED <<hook, delivery, kicked, pass, rerun, patch, serving, up, past,
                 requests, turns>>

----------------------------------------------------------------------------
(* PATCH /webhooks/:id reads the row, and writes all of it back.            *)

PatchRead ==
  /\ up /\ requests < MaxRequests /\ requests' = requests + 1
  /\ patch = NoPatch
  /\ \E wish \in {"enable", "disable", "rename"} :
       patch' = [pc |-> "read", was |-> enabled,
                 to |-> IF wish = "rename" THEN enabled ELSE wish = "enable"]
  /\ UNCHANGED <<hook, delivery, queueing, kicked, pass, rerun, serving, up, past,
                 mishaps, turns>>

PatchWrite ==
  /\ patch.pc = "read"
  /\ enabled' = patch.to
  /\ failures' = IF patch.to /\ ~patch.was THEN 0 ELSE failures
  /\ patch' = NoPatch
  /\ UNCHANGED <<delivery, queueing, kicked, pass, rerun, serving, up, past, bounds>>

----------------------------------------------------------------------------
(* Time, the organisation and the process.                                  *)

\* The backoff of a delivery is over.
Elapse(d) ==
  /\ d \in Pending \ Due
  /\ delivery' = [delivery EXCEPT ![d].due = TRUE]
  /\ UNCHANGED <<hook, queueing, kicked, pass, rerun, patch, serving, up, past, bounds>>

Suspend ==
  /\ turns < MaxTurns /\ turns' = turns + 1
  /\ serving' = ~serving
  /\ UNCHANGED <<hook, delivery, queueing, kicked, pass, rerun, patch, up, past,
                 mishaps, requests>>

Crash ==
  /\ up /\ mishaps < MaxMishaps /\ mishaps' = mishaps + 1
  /\ up' = FALSE
  /\ queueing' = {} /\ kicked' = FALSE /\ pass' = NoPass /\ rerun' = FALSE /\ patch' = NoPatch
  /\ UNCHANGED <<hook, delivery, serving, past, requests, turns>>

Start ==
  /\ ~up /\ up' = TRUE
  /\ UNCHANGED <<hook, delivery, queueing, kicked, pass, rerun, patch, serving, past, bounds>>

----------------------------------------------------------------------------
PassStep == \/ SelectDue \/ AnswerOk \/ AnswerFailed \/ Count \/ Disable \/ EndPass
            \/ \E d \in Deliveries : GiveUp(d) \/ Post(d)

Next ==
  \/ \E d \in Deliveries : ReadHook(d) \/ Insert(d) \/ RejectInsert(d) \/ Elapse(d)
  \/ \E d, e \in Deliveries : Redeliver(d, e)
  \/ Kick \/ Sweep \/ PassStep \/ Reject
  \/ PatchRead \/ PatchWrite
  \/ Suspend \/ Crash \/ Start

Spec == Init /\ [][Next]_vars

(* PostgreSQL and the receiver answer, or time out after TIMEOUT_MS; what is  *)
(* due in the event loop runs; the timer ticks every WEBHOOK_INTERVAL_SEC; a  *)
(* backoff elapses; the service manager starts the process.                   *)
Fairness ==
  /\ \A d \in Deliveries : WF_vars(Insert(d)) /\ WF_vars(Elapse(d))
  /\ WF_vars(Kick) /\ SF_vars(Sweep /\ pass.pc = "idle") /\ WF_vars(PassStep)
  /\ WF_vars(PatchWrite) /\ WF_vars(Start)

FairSpec == Spec /\ Fairness

----------------------------------------------------------------------------
(* What the queue promises.                                                 *)

\* No query was rejected and no process died: nothing was done, or half done,
\* without having been recorded.
Undisturbed == mishaps = 0

\* A delivery that has ended, delivered or dead, is never POSTed again
\* (webhooks.js:210), whoever sends it again meanwhile.
EndedIsNotPosted ==
  [][\A d \in Deliveries : posts'[d] # posts[d] => delivery[d].status = "pending"]_vars

\* "a delivery queued meanwhile is not lost" (webhooks.js:176): one that has not
\* been tried is under way, or waits for a pass that is, without any timer;
\* unless it was there at the last SELECT, and one too many for its LIMIT.
NotLeftToTheTimer ==
  Undisturbed =>
    \A d \in Due : delivery[d].attempts = 0 =>
      \/ kicked \/ pass.pc = "select" \/ rerun
      \/ d \in pass.rows \/ (pass.pc = "posted" /\ pass.row = d)
      \/ d \in leftover

\* The queue switches a hook off on DISABLE_AFTER failed attempts in a row, no less.
OffMeansStreak ==
  [][Disable => streak >= DisableAfter \/ ~Undisturbed]_vars

\* Every delivery is delivered or given up, whatever fails.
DeliveryEnds == \A d \in Deliveries : d \in Pending ~> d \notin Pending
=============================================================================
