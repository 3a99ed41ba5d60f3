------------------------- MODULE WebhookQueueProofs -------------------------
(* Theorems about WebhookQueue, for every value of its constants: any number *)
(* of deliveries, any limits, and any number of mishaps, requests of the     *)
(* administrator and suspensions.                                            *)
EXTENDS WebhookQueue, FiniteSetTheorems, TLAPS

Row == [status : {"absent", "pending", "ok", "dead"}, attempts : 0 .. MaxAttempts, due : BOOLEAN]

\* A pass as it is started, at a row, and at a row that has been answered; the fields
\* of the last row stay with it.
PassStates == {"idle", "select", "rows", "posted", "hook", "disable"}
Pass   == [pc : PassStates, rows : SUBSET Deliveries, enabled : BOOLEAN]
AtRow  == [pc : PassStates, rows : SUBSET Deliveries, enabled : BOOLEAN, row : Deliveries]
AtHook == [pc : PassStates, rows : SUBSET Deliveries, enabled : BOOLEAN, row : Deliveries, ok : BOOLEAN]

Shapes ==
  /\ delivery \in [Deliveries -> Row] /\ posts \in [Deliveries -> Nat]
  /\ pass \in Pass \cup AtRow \cup AtHook
  /\ pass.pc = "posted" => pass \in AtRow
  /\ pass.pc \in {"hook", "disable"} => pass \in AtHook
  /\ failures \in Nat /\ streak \in Nat /\ mishaps \in Nat /\ queueing \subseteq Deliveries

Switches ==
  /\ enabled \in BOOLEAN /\ kicked \in BOOLEAN /\ rerun \in BOOLEAN /\ serving \in BOOLEAN /\ up \in BOOLEAN
  /\ leftover \subseteq Deliveries
  /\ patch.pc \in {"idle", "read"} /\ (patch.pc = "read" => patch.to \in BOOLEAN)

(* The rest of the inductive invariant: a pass holds pending rows only, each *)
(* once; a pending row has attempts left, and one that waits has been tried; *)
(* the hook has not counted more failures in a row than there were.          *)
InHand  == /\ pass.pc \in {"rows", "posted", "hook", "disable"} => pass.rows \subseteq Pending
           /\ pass.pc = "posted" => pass.row \in Pending /\ pass.row \notin pass.rows
Tried   == \A d \in Pending : delivery[d].attempts < MaxAttempts
                              /\ (delivery[d].due \/ delivery[d].attempts > 0)
Counted == \/ mishaps > 0
           \/ streak >= DisableAfter
           \/ pass.pc = "hook" /\ pass.ok
           \/ pass.pc = "hook" /\ failures + 1 <= streak
           \/ pass.pc \notin {"hook", "disable"} /\ failures <= streak

QueueInv == Shapes /\ Switches /\ InHand /\ Tried /\ Counted /\ NotLeftToTheTimer

LEMMA FreshRow == /\ Absent \in Row /\ Absent.status = "absent"
                  /\ Fresh \in Row /\ Fresh.status = "pending" /\ Fresh.attempts = 0 /\ Fresh.due
  BY QueueConstants DEF Absent, Fresh, Row

LEMMA NewPass == /\ NoPass \in Pass /\ NoPass.pc = "idle"
                 /\ [NoPass EXCEPT !.pc = "select"] \in Pass /\ [NoPass EXCEPT !.pc = "select"].pc = "select"
  BY DEF NoPass, Pass, PassStates

\* An edit of a pass's rows or state leaves its other fields as they are.
LEMMA PassEdits ==
  ASSUME NEW p \in Pass \cup AtRow \cup AtHook, NEW rows \in SUBSET Deliveries, NEW pc \in PassStates
  PROVE  /\ p.rows \in SUBSET Deliveries /\ p.pc \in PassStates /\ p.enabled \in BOOLEAN
         /\ [p EXCEPT !.rows = rows] \in Pass \cup AtRow \cup AtHook
         /\ [p EXCEPT !.rows = rows].rows = rows /\ [p EXCEPT !.rows = rows].pc = p.pc
         /\ [p EXCEPT !.pc = pc] \in Pass \cup AtRow \cup AtHook
         /\ p \in AtHook => [p EXCEPT !.pc = pc] \in AtHook
         /\ [p EXCEPT !.pc = pc].pc = pc /\ [p EXCEPT !.pc = pc].rows = p.rows
<1>1. CASE p \in Pass
  BY <1>1 DEF Pass, AtHook
<1>2. CASE p \in AtRow
  BY <1>2 DEF AtRow, AtHook
<1>3. CASE p \in AtHook
  BY <1>3 DEF AtHook
<1> QED BY <1>1, <1>2, <1>3

LEMMA QueueInit == Init => QueueInv
<1> SUFFICES ASSUME Init PROVE QueueInv
  OBVIOUS
<1>1. /\ delivery \in [Deliveries -> Row] /\ pass \in Pass /\ pass.pc = "idle"
      /\ \A d \in Deliveries : delivery[d].status = "absent"
  BY FreshRow, NewPass DEF Init
<1>2. Shapes
  BY <1>1 DEF Init, Shapes
<1>3. Switches
  BY DEF Init, Switches, NoPatch
<1>4. InHand /\ Tried /\ Counted /\ NotLeftToTheTimer
  BY <1>1 DEF Init, InHand, Tried, Counted, NotLeftToTheTimer, Due, Pending
<1> QED BY <1>2, <1>3, <1>4 DEF QueueInv

\* The switches and the request under way, whatever happens.
LEMMA SwitchesHold ==
  ASSUME Switches, [Next]_vars
  PROVE  Switches'
<1> USE DEF Switches, hook, past, bounds
<1>1. ASSUME NEW d \in Deliveries, ReadHook(d) PROVE Switches'
  BY <1>1 DEF ReadHook
<1>2. ASSUME NEW d \in Deliveries, Insert(d) PROVE Switches'
  BY <1>2 DEF Insert
<1>3. ASSUME NEW d \in Deliveries, NEW e \in Deliveries, Redeliver(d, e) PROVE Switches'
  BY <1>3 DEF Redeliver
<1>4. CASE Kick
  BY <1>4 DEF Kick, DeliverDue
<1>5. CASE Sweep
  BY <1>5 DEF Sweep, DeliverDue
<1>6. CASE SelectDue
  BY <1>6 DEF SelectDue, Due, Pending
<1>7. ASSUME NEW d \in Deliveries, GiveUp(d) PROVE Switches'
  BY <1>7 DEF GiveUp
<1>8. ASSUME NEW d \in Deliveries, Post(d) PROVE Switches'
  BY <1>8 DEF Post
<1>9. CASE AnswerOk
  BY <1>9 DEF AnswerOk
<1>10. CASE AnswerFailed
  BY <1>10 DEF AnswerFailed
<1>11. CASE Count
  BY <1>11 DEF Count
<1>12. CASE Disable
  BY <1>12 DEF Disable
<1>13. CASE EndPass
  BY <1>13 DEF EndPass
<1>14. CASE Reject \/ \E d \in Deliveries : RejectInsert(d)
  BY <1>14 DEF Reject, RejectInsert
<1>15. CASE PatchRead
  <2>1. PICK wish \in {"enable", "disable", "rename"} :
          patch' = [pc |-> "read", was |-> enabled, to |-> IF wish = "rename" THEN enabled ELSE wish = "enable"]
    BY <1>15 DEF PatchRead
  <2>2. (IF wish = "rename" THEN enabled ELSE wish = "enable") \in BOOLEAN
    OBVIOUS
  <2>3. patch'.pc = "read" /\ patch'.to \in BOOLEAN
    BY <2>1, <2>2
  <2> QED BY <1>15, <2>3 DEF PatchRead
<1>16. CASE PatchWrite
  BY <1>16 DEF PatchWrite, NoPatch
<1>17. ASSUME NEW d \in Deliveries, Elapse(d) PROVE Switches'
  BY <1>17 DEF Elapse
<1>18. CASE Suspend
  BY <1>18 DEF Suspend
<1>19. CASE Crash
  BY <1>19 DEF Crash, NoPatch
<1>20. CASE Start
  BY <1>20 DEF Start
<1>21. CASE UNCHANGED vars
  BY <1>21 DEF vars
<1> QED
  BY <1>1, <1>2, <1>3, <1>4, <1>5, <1>6, <1>7, <1>8, <1>9, <1>10, <1>11, <1>12, <1>13, <1>14, <1>15,
     <1>16, <1>17, <1>18, <1>19, <1>20, <1>21 DEF Next, PassStep
Core == Shapes /\ InHand /\ Tried /\ Counted /\ NotLeftToTheTimer

\* A row is replaced by another.
LEMMA OneRow ==
  ASSUME Shapes, NEW d \in Deliveries, NEW row \in Row, delivery' = [delivery EXCEPT ![d] = row]
  PROVE  /\ delivery' \in [Deliveries -> Row] /\ delivery'[d] = row
         /\ \A e \in Deliveries : e # d => delivery'[e] = delivery[e]
  BY DEF Shapes

\* A new delivery: a pass is due for it.
LEMMA NewDelivery ==
  ASSUME Core, NEW d \in Deliveries, delivery' = [delivery EXCEPT ![d] = Fresh], kicked', queueing' \subseteq Deliveries,
         UNCHANGED <<failures, pass, rerun, posts, streak, leftover, mishaps>>
  PROVE  Core'
<1>1. /\ delivery' \in [Deliveries -> Row] /\ delivery'[d] = Fresh
      /\ \A e \in Deliveries : e # d => delivery'[e] = delivery[e]
  BY OneRow, FreshRow DEF Core
<1>2. Pending' = Pending \cup {d}
  BY <1>1, FreshRow DEF Pending
<1>3. Shapes'
  BY <1>1 DEF Core, Shapes
<1>4. InHand'
  BY <1>2 DEF Core, InHand
<1>5. Tried'
  BY <1>1, <1>2, FreshRow, QueueConstants DEF Core, Tried
<1>6. Counted' /\ NotLeftToTheTimer'
  BY DEF Core, Counted, NotLeftToTheTimer
<1> QED BY <1>3, <1>4, <1>5, <1>6 DEF Core

\* Whoever asks for a pass starts one, or has the one under way repeat.
LEMMA PassAsked ==
  ASSUME Core, DeliverDue,
         UNCHANGED <<failures, delivery, queueing, posts, streak, leftover, mishaps>>
  PROVE  Core'
<1>1. CASE pass.pc = "idle"
  <2>1. pass' \in Pass /\ pass'.pc = "select"
    BY <1>1, NewPass DEF DeliverDue
  <2>2. Shapes' /\ InHand' /\ Tried'
    BY <2>1 DEF Core, Shapes, InHand, Tried, Pending
  <2>3. Counted' /\ NotLeftToTheTimer'
    BY <1>1, <2>1 DEF Core, Counted, NotLeftToTheTimer
  <2> QED BY <2>2, <2>3 DEF Core
<1>2. CASE pass.pc # "idle"
  <2>1. rerun' /\ UNCHANGED pass
    BY <1>2 DEF DeliverDue
  <2>2. Shapes' /\ InHand' /\ Tried' /\ Counted'
    BY <2>1 DEF Core, Shapes, InHand, Tried, Pending, Counted
  <2>3. NotLeftToTheTimer'
    BY <2>1 DEF NotLeftToTheTimer
  <2> QED BY <2>2, <2>3 DEF Core
<1> QED BY <1>1, <1>2

\* What SelectDue leaves out is left over.
LEMMA SelectStep ==
  ASSUME Core, SelectDue, enabled \in BOOLEAN
  PROVE  Core'
<1>1. PICK rows \in SUBSET Due :
        /\ Cardinality(rows) = IF Cardinality(Due) < Batch THEN Cardinality(Due) ELSE Batch
        /\ pass' = [pc |-> "rows", rows |-> rows, enabled |-> enabled]
        /\ leftover' = Due \ rows
  BY DEF SelectDue
<1>2. /\ pass.pc = "select" /\ UNCHANGED <<failures, delivery, kicked, queueing, posts, streak, mishaps>>
  BY DEF SelectDue, hook, bounds
<1>5. pass' \in Pass
  BY <1>1 DEF Pass, PassStates, Due, Pending
<1>6. pass'.pc = "rows" /\ pass'.rows = rows
  BY <1>1
<1>7. Shapes' /\ InHand' /\ Tried'
  BY <1>2, <1>5, <1>6 DEF Core, Shapes, InHand, Tried, Due, Pending
<1>8. Counted'
  BY <1>2, <1>6 DEF Core, Counted
<1>9. NotLeftToTheTimer'
  BY <1>1, <1>2, <1>6 DEF NotLeftToTheTimer, Due, Pending
<1> QED BY <1>7, <1>8, <1>9 DEF Core
\* A row whose hook was off is given up.
LEMMA GiveUpStep ==
  ASSUME Core, NEW d \in Deliveries, GiveUp(d)
  PROVE  Core'
<1> DEFINE row == [delivery[d] EXCEPT !.status = "dead"]
           rows == pass.rows \ {d}
<1>1. /\ pass.pc = "rows" /\ delivery' = [delivery EXCEPT ![d] = row] /\ pass' = [pass EXCEPT !.rows = rows]
      /\ UNCHANGED <<failures, kicked, rerun, queueing, posts, streak, leftover, mishaps>>
  BY DEF GiveUp, hook, past, bounds
<1>2. row \in Row /\ row.status = "dead"
  BY DEF Core, Shapes, Row
<1> HIDE DEF row
<1>3. /\ delivery' \in [Deliveries -> Row] /\ delivery'[d] = row
      /\ \A e \in Deliveries : e # d => delivery'[e] = delivery[e]
  BY <1>1, <1>2, OneRow DEF Core
<1>4. rows \in SUBSET Deliveries
  BY PassEdits DEF Core, Shapes, PassStates
<1> HIDE DEF rows
<1>5. pass' \in Pass \cup AtRow \cup AtHook /\ pass'.pc = "rows" /\ pass'.rows = rows
  <2>1. pass \in Pass \cup AtRow \cup AtHook /\ "rows" \in PassStates
    BY DEF Core, Shapes, PassStates
  <2>2. /\ [pass EXCEPT !.rows = rows] \in Pass \cup AtRow \cup AtHook
        /\ [pass EXCEPT !.rows = rows].rows = rows /\ [pass EXCEPT !.rows = rows].pc = pass.pc
    BY <1>4, <2>1, PassEdits
  <2> QED BY <1>1, <2>2
<1>6. Pending' = Pending \ {d} /\ rows = pass.rows \ {d}
  BY <1>2, <1>3 DEF Pending, rows
<1>7. Shapes' /\ InHand'
  BY <1>1, <1>3, <1>5, <1>6 DEF Core, Shapes, InHand
<1>8. Tried'
  BY <1>3, <1>6 DEF Core, Tried, Pending
<1>9. Counted'
  BY <1>1, <1>5 DEF Core, Counted
<1>10. NotLeftToTheTimer'
  BY <1>1, <1>2, <1>3, <1>5, <1>6 DEF Core, NotLeftToTheTimer, Undisturbed, Due, Pending
<1> QED BY <1>7, <1>8, <1>9, <1>10 DEF Core

LEMMA PostStep ==
  ASSUME Core, NEW d \in Deliveries, Post(d)
  PROVE  Core'
<1>1. /\ pass.pc = "rows" /\ d \in pass.rows
      /\ pass' = [pc |-> "posted", rows |-> pass.rows \ {d}, enabled |-> TRUE, row |-> d]
      /\ posts' = [posts EXCEPT ![d] = posts[d] + 1]
      /\ UNCHANGED <<failures, delivery, kicked, rerun, queueing, streak, leftover, mishaps>>
  BY DEF Post, hook, bounds
<1>2. pass' \in AtRow /\ pass'.pc = "posted" /\ pass'.rows = pass.rows \ {d} /\ pass'.row = d
  <2>1. pass.rows \in SUBSET Deliveries
    BY PassEdits DEF Core, Shapes, PassStates
  <2> QED BY <1>1, <2>1 DEF AtRow, PassStates
<1>3. posts' \in [Deliveries -> Nat]
  BY <1>1 DEF Core, Shapes
<1>4. Shapes' /\ InHand' /\ Tried'
  BY <1>1, <1>2, <1>3 DEF Core, Shapes, InHand, Tried, Pending
<1>5. Counted'
  BY <1>1, <1>2 DEF Core, Counted
<1>6. NotLeftToTheTimer'
  BY <1>1, <1>2 DEF Core, NotLeftToTheTimer, Undisturbed, Due, Pending
<1> QED BY <1>4, <1>5, <1>6 DEF Core

\* An answer ends the row, or leaves it waiting with one attempt more.
LEMMA AnswerStep ==
  ASSUME Core, AnswerOk \/ AnswerFailed
  PROVE  Core'
<1> DEFINE d == pass.row
           n == delivery[d].attempts + 1
           delivered == [delivery[d] EXCEPT !.status = "ok", !.attempts = n]
           tried == [status |-> IF n >= MaxAttempts THEN "dead" ELSE "pending", attempts |-> n, due |-> FALSE]
<1>1. /\ pass.pc = "posted" /\ pass \in AtRow /\ d \in Deliveries /\ d \in Pending /\ d \notin pass.rows
      /\ pass.rows \in SUBSET Deliveries
      /\ UNCHANGED <<failures, kicked, rerun, queueing, posts, leftover, mishaps>>
  BY DEF AnswerOk, AnswerFailed, Core, Shapes, InHand, AtRow, hook, bounds
<1>2. /\ delivery[d] \in Row /\ n \in 1 .. MaxAttempts
  <2>1. delivery[d] \in Row /\ delivery[d].attempts < MaxAttempts
    BY <1>1 DEF Core, Shapes, Tried
  <2> QED BY <2>1, QueueConstants DEF Row
<1>2a. /\ n \in 0 .. MaxAttempts /\ n > 0 /\ n \in Nat
  BY <1>2, QueueConstants
<1> DEFINE Over(row, ok) ==
             /\ delivery' = [delivery EXCEPT ![d] = row] /\ row.attempts > 0
             /\ row.status = "pending" => row.attempts < MaxAttempts
             /\ pass' = [pc |-> "hook", rows |-> pass.rows, enabled |-> TRUE, row |-> d, ok |-> ok]
             /\ streak' = IF ok THEN 0 ELSE IF streak < DisableAfter THEN streak + 1 ELSE streak
<1>3. PICK row \in Row, ok \in BOOLEAN : Over(row, ok)
  <2>1. CASE AnswerOk
    <3>1. delivered \in Row /\ delivered.attempts = n /\ delivered.status = "ok"
      BY <1>2, <1>2a DEF Row
    <3>2. /\ delivery' = [delivery EXCEPT ![d] = delivered] /\ streak' = 0
          /\ pass' = [pc |-> "hook", rows |-> pass.rows, enabled |-> TRUE, row |-> d, ok |-> TRUE]
      BY <2>1 DEF AnswerOk
    <3> HIDE DEF delivered
    <3>3. Over(delivered, TRUE)
      BY <1>2a, <3>1, <3>2
    <3> HIDE DEF Over
    <3> QED BY <3>1, <3>3
  <2>2. CASE AnswerFailed
    <3>1. tried \in Row /\ tried.attempts = n /\ (tried.status = "pending" => n < MaxAttempts)
      <4>1. CASE n >= MaxAttempts
        BY <1>2a, <4>1 DEF Row
      <4>2. CASE ~(n >= MaxAttempts)
        BY <1>2a, <4>2, QueueConstants DEF Row
      <4> QED BY <4>1, <4>2
    <3>2. /\ delivery' = [delivery EXCEPT ![d] = tried]
          /\ streak' = IF streak < DisableAfter THEN streak + 1 ELSE streak
          /\ pass' = [pc |-> "hook", rows |-> pass.rows, enabled |-> TRUE, row |-> d, ok |-> FALSE]
      BY <2>2 DEF AnswerFailed
    <3> HIDE DEF tried
    <3>3. Over(tried, FALSE)
      BY <1>2a, <3>1, <3>2
    <3> HIDE DEF Over
    <3> QED BY <3>1, <3>3
  <2> QED BY <2>1, <2>2
<1> HIDE DEF d
<1>4. /\ delivery' \in [Deliveries -> Row] /\ delivery'[d] = row
      /\ \A e \in Deliveries : e # d => delivery'[e] = delivery[e]
  BY <1>1, <1>3, OneRow DEF Core
<1>5. pass' \in AtHook /\ pass'.pc = "hook" /\ pass'.rows = pass.rows /\ pass'.ok = ok
  BY <1>1, <1>3 DEF AtHook, PassStates
<1>6. streak' \in Nat
  BY <1>3 DEF Core, Shapes
<1>7. Shapes'
  BY <1>1, <1>4, <1>5, <1>6 DEF Core, Shapes
<1>8. InHand'
  BY <1>1, <1>4, <1>5 DEF Core, InHand, Pending
<1>9. Tried'
  BY <1>3, <1>4 DEF Core, Tried, Pending
<1>10. Counted'
  BY <1>1, <1>3, <1>5, QueueConstants DEF Core, Counted, Shapes
<1>11. NotLeftToTheTimer'
  <2> SUFFICES ASSUME Undisturbed', NEW e \in Due', delivery'[e].attempts = 0
               PROVE  kicked' \/ rerun' \/ e \in pass'.rows \/ e \in leftover'
    BY DEF NotLeftToTheTimer
  <2>1. e # pass.row /\ e \in Due /\ delivery[e].attempts = 0
    BY <1>3, <1>4 DEF Due, Pending, d
  <2> QED BY <1>1, <1>5, <2>1 DEF Core, NotLeftToTheTimer, Undisturbed
<1> QED BY <1>7, <1>8, <1>9, <1>10, <1>11 DEF Core

\* The hook's count, and its switch.
LEMMA CountStep ==
  ASSUME Core, Count \/ Disable
  PROVE  Core'
<1>1. /\ pass.pc \in {"hook", "disable"} /\ pass \in AtHook /\ pass.ok \in BOOLEAN
      /\ UNCHANGED <<delivery, kicked, rerun, queueing, posts, streak, leftover, mishaps>>
  BY DEF Count, Disable, Core, Shapes, AtHook, past, bounds
<1>2. PICK pc \in {"rows", "disable"} :
        /\ pass' = [pass EXCEPT !.pc = pc]
        /\ \/ Disable /\ pc = "rows" /\ failures' = failures
           \/ /\ pass.pc = "hook" /\ failures' = IF pass.ok THEN 0 ELSE failures + 1
              /\ pc = IF failures' >= DisableAfter THEN "disable" ELSE "rows"
  BY DEF Count, Disable
<1>3. /\ pass' \in AtHook /\ pass'.pc = pc /\ pass'.rows = pass.rows
  BY <1>1, <1>2 DEF AtHook, PassStates
<1>4. failures' \in Nat
  BY <1>2 DEF Core, Shapes
<1>5. Shapes' /\ InHand' /\ Tried'
  BY <1>1, <1>2, <1>3, <1>4 DEF Core, Shapes, InHand, Tried, Pending
<1>6. Counted'
  BY <1>1, <1>2, <1>3, QueueConstants DEF Core, Counted, Shapes, Disable
<1>7. NotLeftToTheTimer'
  BY <1>1, <1>2, <1>3 DEF Core, NotLeftToTheTimer, Undisturbed, Due, Pending
<1> QED BY <1>5, <1>6, <1>7 DEF Core

\* A pass ends: by itself, in a rejected query, or with the process.
LEMMA PassOver ==
  ASSUME Core, EndPass \/ Reject \/ Crash
  PROVE  Core'
<1>1. UNCHANGED <<failures, delivery, posts, streak, leftover>> /\ queueing' \subseteq Deliveries
  BY DEF EndPass, Reject, Crash, Core, Shapes, hook, past
<1>2. pass' \in Pass /\ pass'.pc \in {"idle", "select"}
  BY NewPass DEF EndPass, Reject, Crash
<1>3. mishaps' \in Nat
  BY DEF EndPass, Reject, Crash, Core, Shapes, bounds
<1>4. Shapes' /\ InHand' /\ Tried'
  BY <1>1, <1>2, <1>3 DEF Core, Shapes, InHand, Tried, Pending
<1>5. CASE EndPass
  <2>1. /\ pass.pc = "rows" /\ pass.rows = {} /\ pass' = (IF rerun THEN [NoPass EXCEPT !.pc = "select"] ELSE NoPass)
        /\ UNCHANGED <<kicked, mishaps>>
    BY <1>5 DEF EndPass, bounds
  <2>2. Counted'
    BY <1>1, <1>2, <2>1 DEF Core, Counted
  <2>3. NotLeftToTheTimer'
    BY <1>1, <2>1, NewPass DEF Core, NotLeftToTheTimer, Undisturbed, Due, Pending
  <2> QED BY <1>4, <2>2, <2>3 DEF Core
<1>6. CASE Reject \/ Crash
  <2>1. mishaps' > 0
    BY <1>6 DEF Reject, Crash, Core, Shapes
  <2>2. Counted' /\ NotLeftToTheTimer'
    BY <2>1 DEF Counted, NotLeftToTheTimer, Undisturbed
  <2> QED BY <1>4, <2>2 DEF Core
<1> QED BY <1>5, <1>6

LEMMA ElapseStep ==
  ASSUME Core, NEW d \in Deliveries, Elapse(d)
  PROVE  Core'
<1> DEFINE row == [delivery[d] EXCEPT !.due = TRUE]
<1>1. /\ d \in Pending \ Due /\ delivery' = [delivery EXCEPT ![d] = row]
      /\ UNCHANGED <<failures, pass, kicked, rerun, queueing, posts, streak, leftover, mishaps>>
  BY DEF Elapse, hook, past, bounds
<1>2. delivery[d] \in Row /\ delivery[d].attempts \in Nat /\ delivery[d].attempts > 0
  BY <1>1, QueueConstants DEF Core, Shapes, Tried, Due, Row
<1>3. row \in Row /\ row.status = delivery[d].status /\ row.attempts = delivery[d].attempts
  BY <1>2 DEF Row
<1> HIDE DEF row
<1>4. /\ delivery' \in [Deliveries -> Row] /\ delivery'[d] = row
      /\ \A e \in Deliveries : e # d => delivery'[e] = delivery[e]
  BY <1>1, <1>3, OneRow DEF Core
<1>5. Pending' = Pending
  BY <1>3, <1>4 DEF Pending
<1>6. Shapes' /\ InHand' /\ Tried'
  BY <1>1, <1>2, <1>3, <1>4, <1>5 DEF Core, Shapes, InHand, Tried, Pending
<1>7. Counted'
  BY <1>1 DEF Core, Counted
<1>8. NotLeftToTheTimer'
  <2> SUFFICES ASSUME Undisturbed', NEW e \in Due', delivery'[e].attempts = 0
               PROVE  e \in Due /\ delivery[e].attempts = 0
    BY <1>1 DEF Core, NotLeftToTheTimer, Undisturbed
  <2> QED BY <1>2, <1>3, <1>4 DEF Due, Pending
<1> QED BY <1>6, <1>7, <1>8 DEF Core

LEMMA CoreHolds ==
  ASSUME Core, Switches, [Next]_vars
  PROVE  Core'
<1>1. ASSUME NEW d \in Deliveries, Insert(d) PROVE Core'
  <2>1. delivery' = [delivery EXCEPT ![d] = Fresh] /\ kicked' /\ queueing' \subseteq Deliveries
        /\ UNCHANGED <<failures, pass, rerun, posts, streak, leftover, mishaps>>
    BY <1>1 DEF Insert, Core, Shapes, hook, past, bounds
  <2> QED BY <2>1, NewDelivery
<1>2. ASSUME NEW d \in Deliveries, NEW e \in Deliveries, Redeliver(d, e) PROVE Core'
  <2>1. delivery' = [delivery EXCEPT ![d] = Fresh] /\ kicked' /\ queueing' \subseteq Deliveries
        /\ UNCHANGED <<failures, pass, rerun, posts, streak, leftover, mishaps>>
    BY <1>2 DEF Redeliver, Core, Shapes, hook, past
  <2> QED BY <2>1, NewDelivery
<1>3. CASE Kick \/ Sweep
  BY <1>3, PassAsked DEF Kick, Sweep, hook, past, bounds
<1>4. CASE SelectDue
  BY <1>4, SelectStep DEF Switches
<1>5. ASSUME NEW d \in Deliveries, GiveUp(d) PROVE Core'
  BY <1>5, GiveUpStep
<1>6. ASSUME NEW d \in Deliveries, Post(d) PROVE Core'
  BY <1>6, PostStep
<1>7. CASE AnswerOk \/ AnswerFailed
  BY <1>7, AnswerStep
<1>8. CASE Count \/ Disable
  BY <1>8, CountStep
<1>9. CASE EndPass \/ Reject \/ Crash
  BY <1>9, PassOver
<1>10. ASSUME NEW d \in Deliveries, Elapse(d) PROVE Core'
  BY <1>10, ElapseStep
<1>11. CASE PatchWrite
  <2>1. /\ failures' = 0 \/ failures' = failures
        /\ UNCHANGED <<delivery, pass, kicked, rerun, queueing, posts, streak, leftover, mishaps>>
    BY <1>11 DEF PatchWrite, past, bounds
  <2>2. Shapes' /\ InHand' /\ Tried'
    BY <2>1 DEF Core, Shapes, InHand, Tried, Pending
  <2>3. Counted'
    BY <2>1 DEF Core, Counted, Shapes
  <2>4. NotLeftToTheTimer'
    BY <2>1 DEF Core, NotLeftToTheTimer, Undisturbed, Due, Pending
  <2> QED BY <2>2, <2>3, <2>4 DEF Core
<1>14. ASSUME NEW d \in Deliveries, RejectInsert(d) PROVE Core'
  <2>1. /\ UNCHANGED <<failures, delivery, pass, posts, streak>>
        /\ mishaps' \in Nat /\ mishaps' > 0 /\ queueing' \subseteq Deliveries
    BY <1>14 DEF RejectInsert, Core, Shapes, hook, past
  <2>2. Shapes' /\ InHand' /\ Tried'
    BY <2>1 DEF Core, Shapes, InHand, Tried, Pending
  <2>3. Counted' /\ NotLeftToTheTimer'
    BY <2>1 DEF Counted, NotLeftToTheTimer, Undisturbed
  <2> QED BY <2>2, <2>3 DEF Core
<1>12. ASSUME UNCHANGED <<failures, delivery, pass, kicked, rerun, posts, streak, leftover, mishaps>>,
              queueing' \subseteq Deliveries
       PROVE  Core'
  <2>1. Shapes' /\ InHand' /\ Tried' /\ Counted'
    BY <1>12 DEF Core, Shapes, InHand, Tried, Pending, Counted
  <2>2. NotLeftToTheTimer'
    BY <1>12 DEF Core, NotLeftToTheTimer, Undisturbed, Due, Pending
  <2> QED BY <2>1, <2>2 DEF Core
<1>13. CASE PatchRead \/ Suspend \/ Start \/ UNCHANGED vars \/ \E d \in Deliveries : ReadHook(d)
  BY <1>12, <1>13 DEF Core, Shapes, PatchRead, Suspend, Start, ReadHook, vars, hook, past, bounds
<1> QED
  BY <1>1, <1>2, <1>3, <1>4, <1>5, <1>6, <1>7, <1>8, <1>9, <1>10, <1>11, <1>13, <1>14 DEF Next, PassStep

LEMMA QueueStep == QueueInv /\ [Next]_vars => QueueInv'
  BY CoreHolds, SwitchesHold DEF QueueInv, Core

\* Types, of every reachable state.
THEOREM TypeCorrect == Spec => []TypeOK
<1>1. QueueInv => TypeOK
  <2> SUFFICES ASSUME QueueInv PROVE TypeOK
    OBVIOUS
  <2>1. \A d \in Deliveries : delivery[d] \in Row /\ posts[d] \in Nat
    BY DEF QueueInv, Shapes
  <2>2. pass.pc \in PassStates /\ pass.rows \subseteq Deliveries
    BY PassEdits DEF QueueInv, Shapes, PassStates
  <2>3. pass.pc \in {"posted", "hook", "disable"} => pass.row \in Deliveries
    BY DEF QueueInv, Shapes, AtRow, AtHook
  <2> QED BY <2>1, <2>2, <2>3 DEF TypeOK, QueueInv, Shapes, Switches, Row, PassStates
<1> QED BY <1>1, QueueInit, QueueStep, PTL DEF Spec

\* A delivery that has ended, delivered or dead, is never POSTed again.
THEOREM EndedStaysEnded == Spec => EndedIsNotPosted
<1>1. QueueInv /\ [Next]_vars =>
        [\A d \in Deliveries : posts'[d] # posts[d] => delivery[d].status = "pending"]_vars
  <2> SUFFICES ASSUME QueueInv, [Next]_vars, NEW d \in Deliveries, posts'[d] # posts[d]
               PROVE  d \in Pending
    BY DEF Pending
  <2>1. PICK e \in Deliveries : Post(e)
    BY DEF Next, PassStep, ReadHook, Insert, Redeliver, Kick, Sweep, SelectDue, GiveUp, AnswerOk, AnswerFailed,
           Count, Disable, EndPass, Reject, RejectInsert, PatchRead, PatchWrite, Elapse, Suspend, Crash, Start, vars, past
  <2>2. d = e /\ pass.pc = "rows" /\ d \in pass.rows
    BY <2>1 DEF Post, QueueInv, Shapes
  <2> QED BY <2>2 DEF QueueInv, InHand
<1> QED BY <1>1, QueueInit, QueueStep, PTL DEF Spec, EndedIsNotPosted

\* A delivery that has not been tried is under way, or a pass is due that will take it,
\* without any timer; unless the last SELECT found it and had no room for it, or something
\* was rejected.
THEOREM NothingIsLeft == Spec => []NotLeftToTheTimer
<1>1. QueueInv => NotLeftToTheTimer
  BY DEF QueueInv
<1> QED BY <1>1, QueueInit, QueueStep, PTL DEF Spec

\* The queue switches a hook off on DISABLE_AFTER failed attempts in a row, no less.
THEOREM OffAfterStreak == Spec => OffMeansStreak
<1>1. QueueInv /\ [Next]_vars => [Disable => streak >= DisableAfter \/ ~Undisturbed]_vars
  <2> SUFFICES ASSUME QueueInv, Disable PROVE streak >= DisableAfter \/ mishaps # 0
    BY DEF Undisturbed
  <2> QED BY DEF QueueInv, Counted, Shapes, Disable
<1> QED BY <1>1, QueueInit, QueueStep, PTL DEF Spec, OffMeansStreak
=============================================================================
