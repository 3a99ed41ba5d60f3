------------------------ MODULE AlarmNoticesProofs -------------------------
(* Theorems about AlarmNotices, for every value of its constants: any       *)
(* number of users, subscribers, alarms, handlers and sweeps at once.       *)
EXTENDS AlarmNotices, TLAPS

Job == [step : {"idle", "resolve", "legacy", "send", "claim"},
        kind : Kinds \cup {"none"}, row : Rows \cup {NoRow},
        rows : SUBSET Rows, todo : SUBSET People]

\* What a handler or a sweep looks like at each of its steps.
Shape(job) ==
  /\ job.step = "idle" => job = Idle
  /\ job.row = NoRow <=> job.step \in {"idle", "claim"}
  /\ job.kind = "none" => job.step = "idle"
  /\ job.step = "claim" => job.kind = "escalation" /\ job.todo = {}
  /\ job.step = "legacy" => job.todo \subseteq LegacyOnly
  /\ job.step = "send" => job.todo \subseteq Users

\* Whom a handler or a sweep may yet tell of its row.
Ahead(job) ==
  CASE job.step = "resolve" -> People
    [] job.step = "legacy"  -> Users \cup job.todo
    [] job.step = "send"    -> job.todo
    [] OTHER                -> {}

\* There has been the event: each comes once in the life of a row.
Happened(r, kind) ==
  \/ kind = "raise" /\ alarm[r].state # "none"
  \/ kind = "clear" /\ alarm[r].state = "closed"
  \/ kind = "escalation" /\ alarm[r].escalated

(* The parts of the inductive invariant.  What is told has happened, and so  *)
(* has what is about to be; one place at most has an event in hand; and it   *)
(* has told none of those ahead.                                             *)
Shapes   == \A w \in Workers : Shape(work[w])
ToldLate == \A r \in Rows, kind \in Kinds, p \in People : <<r, kind, p>> \in told => Happened(r, kind)
InHand   == \A w \in Workers : work[w].row # NoRow => Happened(work[w].row, work[w].kind)
OneHand  == \A v, w \in Workers : v # w /\ work[v].row # NoRow =>
                                  work[v].row # work[w].row \/ work[v].kind # work[w].kind
NotYet   == \A w \in Workers : \A p \in Ahead(work[w]) : <<work[w].row, work[w].kind, p>> \notin told

NoticeInv == TypeOK /\ Shapes /\ ToldLate /\ InHand /\ OneHand /\ NotYet /\ NoticeOnce

LEMMA IdleJob == Idle \in Job /\ Shape(Idle) /\ Ahead(Idle) = {} /\ Idle.row = NoRow
  BY NoticeConstants DEF Idle, Job, Shape, Ahead

LEMMA GoOnJob ==
  ASSUME NEW job \in Job, Shape(job), job.step \in {"send", "claim"}
  PROVE  /\ GoOn(job) \in Job /\ Shape(GoOn(job))
         /\ GoOn(job) = job \/ (GoOn(job).row = NoRow /\ Ahead(GoOn(job)) = {})
<1> DEFINE claim == [job EXCEPT !.step = "claim", !.row = NoRow]
           next  == IF job.step = "send" /\ job.todo = {} /\ job.kind = "escalation" THEN claim ELSE job
<1>1. GoOn(job) = IF \/ next.step = "send" /\ next.todo = {}
                     \/ next.step = "claim" /\ next.rows = {}
                  THEN Idle ELSE next
  BY DEF GoOn
<1>2. CASE job.step = "send" /\ job.todo = {} /\ job.kind = "escalation"
  <2>1. claim \in Job /\ Shape(claim) /\ claim.row = NoRow /\ Ahead(claim) = {}
    BY <1>2 DEF Job, Shape, Ahead
  <2> QED BY <1>1, <1>2, <2>1, IdleJob
<1>3. CASE ~(job.step = "send" /\ job.todo = {} /\ job.kind = "escalation")
  BY <1>1, <1>3, IdleJob
<1> QED BY <1>2, <1>3

\* Outside of a new message, an invariant of this kind depends on the rows only
\* through what has happened, which stays so.
LEMMA StillHappened ==
  ASSUME TypeOK, [Next]_vars, NEW r \in Rows, NEW kind \in Kinds, Happened(r, kind)
  PROVE  Happened(r, kind)'
<1>1. ASSUME NEW q \in Rows, Raise(q) PROVE Happened(r, kind)'
  BY <1>1 DEF Raise, Happened, TypeOK, Unraised
<1>2. ASSUME NEW q \in Rows, Clear(q) PROVE Happened(r, kind)'
  BY <1>2 DEF Clear, Happened, TypeOK, Active
<1>3. ASSUME NEW q \in Rows, Ack(q) PROVE Happened(r, kind)'
  BY <1>3 DEF Ack, Happened, TypeOK
<1>4. ASSUME NEW q \in Rows, Age(q) PROVE Happened(r, kind)'
  BY <1>4 DEF Age, Happened, TypeOK
<1>5. ASSUME NEW w \in Workers, NEW q \in Rows, Claim(w, q) PROVE Happened(r, kind)'
  BY <1>5 DEF Claim, Happened, TypeOK
<1>6. ASSUME alarm' = alarm PROVE Happened(r, kind)'
  BY <1>6 DEF Happened
<1>7. ASSUME NEW w \in Workers, Step(w) PROVE Happened(r, kind)'
  BY <1>5, <1>6, <1>7 DEF Step, Resolve, ReadUsers, Reject, SendLegacy, Send
<1> QED
  BY <1>1, <1>2, <1>3, <1>4, <1>6, <1>7
  DEF Next, vars, Forget, SweepRead, Suspend, Restart

LEMMA InHandStays ==
  ASSUME NoticeInv, [Next]_vars, NEW v \in Workers, work[v].row # NoRow
  PROVE  /\ work[v].row \in Rows /\ work[v].kind \in Kinds
         /\ Happened(work[v].row, work[v].kind)
         /\ \A r, kind : r = work[v].row /\ kind = work[v].kind => Happened(r, kind)'
<1>1. work[v] \in Job /\ Shape(work[v])
  BY DEF NoticeInv, Shapes, TypeOK, Job
<1>2. work[v].row \in Rows /\ work[v].kind \in Kinds
  BY <1>1, NoticeConstants DEF Job, Shape, Idle
<1>3. Happened(work[v].row, work[v].kind)
  BY DEF NoticeInv, InHand
<1>4. PICK r \in Rows, kind \in Kinds : r = work[v].row /\ kind = work[v].kind
  BY <1>2
<1>5. Happened(r, kind)'
  BY <1>3, <1>4, StillHappened DEF NoticeInv
<1> QED BY <1>2, <1>3, <1>4, <1>5

\* A step that touches no handler and tells nobody.
LEMMA StillStep ==
  ASSUME NoticeInv, [Next]_vars, TypeOK', UNCHANGED <<work, told, twice>>
  PROVE  NoticeInv'
<1>1. Shapes' /\ OneHand' /\ NoticeOnce'
  BY DEF NoticeInv, Shapes, Shape, LegacyOnly, Idle, OneHand, NoticeOnce
<1>2. NotYet'
  BY DEF NoticeInv, NotYet, Ahead
<1>3. ToldLate'
  BY StillHappened DEF NoticeInv, ToldLate
<1>4. InHand'
  BY InHandStays DEF InHand, Happened
<1> QED BY <1>1, <1>2, <1>3, <1>4 DEF NoticeInv

\* A step of one job: it drops its event, or keeps it with nobody new ahead, or
\* takes one up that has not been before; and the person it tells is then no
\* longer ahead.
LEMMA JobStep ==
  ASSUME NoticeInv, [Next]_vars, TypeOK', NEW w \in Workers, NEW job \in Job, Shape(job),
         work' = [work EXCEPT ![w] = job],
         \/ job.row = NoRow
         \/ job.row = work[w].row /\ job.kind = work[w].kind /\ Ahead(job) \subseteq Ahead(work[w])
         \/ ~Happened(job.row, job.kind) /\ Happened(job.row, job.kind)',
         \/ UNCHANGED <<told, twice>>
         \/ \E p \in Ahead(work[w]) \ Ahead(job) :
              /\ job.row # NoRow => job.row = work[w].row /\ job.kind = work[w].kind
              /\ told' = told \cup {<<work[w].row, work[w].kind, p>>}
              /\ twice' = twice \cup ({<<work[w].row, work[w].kind, p>>} \cap told)
  PROVE  NoticeInv'
<1>1. work \in [Workers -> Job] /\ work[w] \in Job /\ Shape(work[w])
  BY DEF NoticeInv, Shapes, TypeOK, Job
<1>2. job.row # NoRow => job.row \in Rows /\ job.kind \in Kinds
  BY NoticeConstants DEF Job, Shape, Idle
<1>3. Ahead(job) # {} => job.row # NoRow
  BY DEF Shape, Ahead, Idle
<1>4. Ahead(work[w]) # {} => work[w].row # NoRow
  BY <1>1 DEF Shape, Ahead, Idle
<1>5. Ahead(work[w]) \subseteq People
  BY <1>1 DEF Ahead, Job, People
<1>6. Shapes'
  BY <1>1 DEF NoticeInv, Shapes, Shape, LegacyOnly, Idle
<1>7. InHand'
  <2> SUFFICES ASSUME NEW v \in Workers, work'[v].row # NoRow
               PROVE  Happened(work[v].row, work[v].kind)'
    BY DEF InHand
  <2>1. CASE v # w
    BY <1>1, <2>1, InHandStays DEF Happened
  <2>2. CASE v = w /\ job.row = work[w].row /\ job.kind = work[w].kind
    BY <1>1, <2>2, InHandStays DEF Happened
  <2>3. CASE v = w /\ Happened(job.row, job.kind)'
    BY <1>1, <2>3 DEF Happened
  <2> QED BY <1>1, <2>1, <2>2, <2>3
<1>8. OneHand'
  <2> SUFFICES ASSUME NEW v \in Workers, v # w, work[v].row # NoRow, job.row # NoRow
               PROVE  job.row # work[v].row \/ job.kind # work[v].kind
    BY <1>1 DEF NoticeInv, OneHand
  <2>1. CASE job.row = work[w].row /\ job.kind = work[w].kind
    BY <2>1 DEF NoticeInv, OneHand
  <2>2. CASE ~Happened(job.row, job.kind)
    BY <2>2, InHandStays DEF Happened
  <2> QED BY <2>1, <2>2
<1>9. ToldLate'
  <2> SUFFICES ASSUME NEW r \in Rows, NEW kind \in Kinds, NEW p \in People, <<r, kind, p>> \in told'
               PROVE  Happened(r, kind)'
    BY DEF ToldLate
  <2>1. CASE <<r, kind, p>> \in told
    BY <2>1, StillHappened DEF NoticeInv, ToldLate
  <2>2. CASE r = work[w].row /\ kind = work[w].kind /\ work[w].row # NoRow
    BY <2>2, InHandStays
  <2> QED BY <1>4, <2>1, <2>2
<1>10. NotYet'
  <2> SUFFICES ASSUME NEW v \in Workers, NEW p \in Ahead(work'[v])
               PROVE  <<work'[v].row, work'[v].kind, p>> \notin told'
    BY DEF NotYet, Ahead
  <2>1. CASE v # w
    <3>1. p \in Ahead(work[v]) /\ work'[v] = work[v]
      BY <1>1, <2>1
    <3>2. work[v].row # NoRow
      BY <3>1 DEF NoticeInv, Shapes, Shape, Ahead, Idle
    <3>3. <<work[v].row, work[v].kind, p>> \notin told
      BY <3>1 DEF NoticeInv, NotYet
    <3>4. work[v].row # work[w].row \/ work[v].kind # work[w].kind
      BY <2>1, <3>2 DEF NoticeInv, OneHand
    <3> QED BY <3>1, <3>3, <3>4
  <2>2. CASE v = w /\ job.row = work[w].row /\ job.kind = work[w].kind /\ Ahead(job) \subseteq Ahead(work[w])
    BY <1>1, <2>2 DEF NoticeInv, NotYet
  <2>3. CASE v = w /\ ~Happened(job.row, job.kind)
    <3>1. job.row \in Rows /\ job.kind \in Kinds /\ p \in People
      BY <1>1, <1>2, <1>3, <2>3 DEF Ahead, Job, People
    <3>2. <<job.row, job.kind, p>> \notin told
      BY <2>3, <3>1 DEF NoticeInv, ToldLate
    <3>3. job.row # work[w].row \/ job.kind # work[w].kind \/ work[w].row = NoRow
      BY <2>3 DEF NoticeInv, InHand
    <3> QED BY <1>1, <1>3, <1>4, <2>3, <3>2, <3>3
  <2> QED BY <1>1, <1>3, <2>1, <2>2, <2>3
<1>11. NoticeOnce'
  BY <1>1 DEF NoticeInv, NoticeOnce, NotYet
<1> QED
  BY <1>6, <1>7, <1>8, <1>9, <1>10, <1>11 DEF NoticeInv

\* The type of the rows is all that a step must still show.
Alarms == [Rows -> [state : {"none", "open", "old", "closed"}, acked : BOOLEAN, escalated : BOOLEAN]]

LEMMA EmitStep ==
  ASSUME NoticeInv, [Next]_vars, NEW r \in Rows, NEW kind \in {"raise", "clear"}, Emit(r, kind),
         alarm' \in Alarms, ~Happened(r, kind), Happened(r, kind)'
  PROVE  NoticeInv'
<1>1. muddled' \subseteq Keys /\ UNCHANGED <<serving, heard, told, twice, tried, lost, incidents>>
  BY NoticeConstants DEF Emit, NoticeInv, TypeOK
<1>2. CASE UNCHANGED <<work, fresh>>
  <2>1. TypeOK'
    BY <1>1, <1>2 DEF NoticeInv, TypeOK, Alarms
  <2> QED BY <1>1, <1>2, <2>1, StillStep
<1>3. ASSUME NEW h \in Workers, fresh' = fresh \cup {<<KeyOf[r], kind>>},
             work' = [work EXCEPT ![h] = [Idle EXCEPT !.step = "resolve", !.kind = kind, !.row = r]]
      PROVE  NoticeInv'
  <2> DEFINE job == [Idle EXCEPT !.step = "resolve", !.kind = kind, !.row = r]
  <2>1. job \in Job /\ Shape(job) /\ job.row = r /\ job.kind = kind
    BY NoticeConstants DEF Job, Shape, Idle, Kinds
  <2>2. TypeOK'
    <3>1. work' \in [Workers -> Job]
      BY <1>3, <2>1 DEF NoticeInv, TypeOK, Job
    <3>2. fresh' \subseteq Keys \X {"raise", "clear"}
      BY <1>3, NoticeConstants DEF NoticeInv, TypeOK
    <3> QED BY <1>1, <3>1, <3>2 DEF NoticeInv, TypeOK, Alarms, Job
  <2>3. ~Happened(job.row, job.kind) /\ Happened(job.row, job.kind)'
    BY <2>1
  <2> HIDE DEF job
  <2>4. work' = [work EXCEPT ![h] = job]
    BY <1>3 DEF job
  <2> QED BY <1>1, <2>1, <2>2, <2>3, <2>4, JobStep
<1> QED BY <1>2, <1>3 DEF Emit

LEMMA TellStep ==
  ASSUME NoticeInv, [Next]_vars, NEW w \in Workers, NEW p \in Users \cup LegacyOnly, NEW ok \in BOOLEAN,
         NEW job \in Job, Shape(job), work' = [work EXCEPT ![w] = job],
         \/ job.row = NoRow
         \/ job.row = work[w].row /\ job.kind = work[w].kind /\ Ahead(job) \subseteq Ahead(work[w]),
         p \in Ahead(work[w]), p \notin Ahead(job), Tell(w, p, ok),
         heard' \in [Users -> [Keys -> {"none", "raise", "clear", "failed"}]],
         tried' \in [Rows -> SUBSET Users],
         UNCHANGED <<alarm, fresh, serving, lost, muddled>>
  PROVE  NoticeInv'
<1>1. Person(p) = p
  BY NoticeConstants DEF Person, LegacyOnly
<1>2. work[w] \in Job /\ Shape(work[w]) /\ work[w].row # NoRow
  BY DEF NoticeInv, Shapes, TypeOK, Job, Shape, Ahead, Idle
<1>3. work[w].row \in Rows /\ work[w].kind \in Kinds /\ p \in People
  BY <1>2, InHandStays DEF LegacyOnly, People
<1>4. /\ incidents' \in Nat
      /\ \/ UNCHANGED <<told, twice>>
         \/ /\ told' = told \cup {<<work[w].row, work[w].kind, p>>}
            /\ twice' = twice \cup ({<<work[w].row, work[w].kind, p>>} \cap told)
  BY <1>1 DEF Tell, NoticeInv, TypeOK
<1>5. told' \subseteq Rows \X Kinds \X People /\ twice' \subseteq told'
  BY <1>3, <1>4 DEF NoticeInv, TypeOK
<1>6. TypeOK'
  BY <1>4, <1>5 DEF NoticeInv, TypeOK, Job
<1> QED BY <1>4, <1>6, JobStep

\* A step of one job that says nothing.
LEMMA QuietStep ==
  ASSUME NoticeInv, [Next]_vars, NEW w \in Workers, NEW job \in Job, Shape(job),
         work' = [work EXCEPT ![w] = job],
         \/ job.row = NoRow
         \/ job.row = work[w].row /\ job.kind = work[w].kind /\ Ahead(job) \subseteq Ahead(work[w])
         \/ ~Happened(job.row, job.kind) /\ Happened(job.row, job.kind)',
         alarm' \in Alarms, muddled' \subseteq Keys, tried' \in [Rows -> SUBSET Users],
         UNCHANGED <<fresh, serving, heard, told, twice, lost, incidents>>
  PROVE  NoticeInv'
<1>1. TypeOK'
  BY DEF NoticeInv, TypeOK, Job, Alarms
<1> QED BY <1>1, JobStep

LEMMA NoticeInit == Init => NoticeInv
<1> SUFFICES ASSUME Init PROVE NoticeInv
  OBVIOUS
<1>1. work \in [Workers -> Job] /\ \A w \in Workers : work[w] = Idle
  BY IdleJob DEF Init
<1>2. TypeOK
  BY <1>1 DEF Init, TypeOK, Job, Unraised
<1> QED
  BY <1>1, <1>2, IdleJob
  DEF Init, NoticeInv, Shapes, ToldLate, InHand, OneHand, NotYet, NoticeOnce

LEMMA NoticeStep == NoticeInv /\ [Next]_vars => NoticeInv'
<1> SUFFICES ASSUME NoticeInv, [Next]_vars PROVE NoticeInv'
  OBVIOUS
<1>0. /\ TypeOK /\ alarm \in Alarms /\ work \in [Workers -> Job]
      /\ \A w \in Workers : work[w] \in Job /\ Shape(work[w])
  BY DEF NoticeInv, TypeOK, Alarms, Job, Shapes
<1>1. ASSUME NEW r \in Rows, Raise(r) PROVE NoticeInv'
  <2>0. alarm[r].state = "none" /\ alarm' = [alarm EXCEPT ![r].state = "open"]
    BY <1>1 DEF Raise, Unraised
  <2>1. alarm' \in Alarms /\ ~Happened(r, "raise") /\ Happened(r, "raise")'
    BY <1>0, <2>0 DEF Alarms, Happened
  <2> QED BY <1>1, <2>1, EmitStep DEF Raise
<1>2. ASSUME NEW r \in Rows, Clear(r) PROVE NoticeInv'
  <2>1. alarm' \in Alarms /\ ~Happened(r, "clear") /\ Happened(r, "clear")'
    BY <1>0, <1>2 DEF Clear, Alarms, Happened, Active
  <2> QED BY <1>2, <2>1, EmitStep DEF Clear
<1>3. ASSUME NEW r \in Rows, Ack(r) \/ Age(r) PROVE NoticeInv'
  <2>0. alarm' \in Alarms
    BY <1>0, <1>3 DEF Ack, Age, Alarms
  <2>1. TypeOK' /\ UNCHANGED <<work, told, twice>>
    BY <1>0, <1>3, <2>0 DEF Ack, Age, TypeOK, Alarms, past
  <2> QED BY <2>1, StillStep
<1>4. ASSUME NEW k \in Keys, NEW kind \in {"raise", "clear"}, Forget(k, kind) PROVE NoticeInv'
  <2>1. TypeOK' /\ UNCHANGED <<work, told, twice>>
    BY <1>0, <1>4 DEF Forget, TypeOK, past
  <2> QED BY <2>1, StillStep
<1>5. CASE Suspend
  <2>1. TypeOK' /\ UNCHANGED <<work, told, twice>>
    BY <1>0, <1>5 DEF Suspend, TypeOK, past
  <2> QED BY <2>1, StillStep
<1>6. CASE Restart
  <2>1. \A w \in Workers : work'[w] = Idle
    BY <1>6 DEF Restart
  <2>2. UNCHANGED <<alarm, told, twice>>
    BY <1>6 DEF Restart
  <2>3. TypeOK'
    <3>1. work' \in [Workers -> Job]
      BY <1>6, IdleJob DEF Restart
    <3>2. lost' \subseteq Rows
      BY <1>0, <1>6 DEF Restart, Telling, TypeOK, Job
    <3> QED BY <1>0, <1>6, <3>1, <3>2 DEF Restart, TypeOK, Job
  <2>4. Shapes' /\ InHand' /\ OneHand' /\ NotYet'
    BY <2>1, IdleJob DEF Shapes, Shape, LegacyOnly, Idle, InHand, OneHand, NotYet, Ahead
  <2> QED BY <2>2, <2>3, <2>4 DEF NoticeInv, ToldLate, Happened, NoticeOnce
<1>7. ASSUME NEW w \in Workers, SweepRead(w) PROVE NoticeInv'
  <2> DEFINE job == [Idle EXCEPT !.step = "claim", !.kind = "escalation", !.rows = Overdue]
  <2>1. job \in Job /\ Shape(job) /\ job.row = NoRow
    BY NoticeConstants DEF Job, Shape, Idle, Kinds, Overdue
  <2> HIDE DEF job
  <2> QED BY <1>0, <1>7, <2>1, QuietStep DEF SweepRead, job, past, TypeOK
<1>8. ASSUME NEW w \in Workers, Resolve(w) PROVE NoticeInv'
  <2>1. work[w].step = "resolve" /\ work[w].row \in Rows
    BY <1>0, <1>8, InHandStays DEF Resolve, Shape
  <2>2. CASE ~serving
    <3>1. work' = [work EXCEPT ![w] = Idle] /\ muddled' \subseteq Keys
      BY <1>0, <1>8, <2>1, <2>2, NoticeConstants DEF Resolve, TypeOK
    <3> QED BY <1>0, <1>8, <3>1, IdleJob, QuietStep DEF Resolve, TypeOK
  <2>3. CASE serving
    <3> DEFINE job == [work[w] EXCEPT !.step = "legacy",
                                      !.todo = IF work[w].kind = "raise" THEN LegacyOnly ELSE {}]
    <3>1. job \in Job /\ Shape(job) /\ job.row = work[w].row /\ job.kind = work[w].kind
      BY <1>0, <2>1 DEF Job, Shape, LegacyOnly, People, Idle
    <3>2. Ahead(job) \subseteq Ahead(work[w])
      BY <1>0, <2>1 DEF Ahead, Job, LegacyOnly, People
    <3>3. work' = [work EXCEPT ![w] = job]
      BY <1>0, <1>8, <2>3 DEF Resolve
    <3> HIDE DEF job
    <3> QED BY <1>0, <1>8, <2>3, <3>1, <3>2, <3>3, QuietStep DEF Resolve, TypeOK
  <2> QED BY <2>2, <2>3
<1>9. ASSUME NEW w \in Workers, ReadUsers(w) PROVE NoticeInv'
  <2> DEFINE read == [work[w] EXCEPT !.step = "send", !.todo = Recipients(work[w].kind, KeyOf[work[w].row])]
  <2>1. work[w].step = "legacy"
    BY <1>9 DEF ReadUsers
  <2>2. Recipients(work[w].kind, KeyOf[work[w].row]) \subseteq Users
    BY DEF Recipients
  <2>3. /\ read \in Job /\ Shape(read) /\ read.step = "send"
        /\ read.row = work[w].row /\ read.kind = work[w].kind /\ Ahead(read) \subseteq Ahead(work[w])
    BY <1>0, <2>1, <2>2 DEF Job, Shape, People, Ahead, Idle
  <2>4. work' = [work EXCEPT ![w] = GoOn(read)]
    BY <1>0, <1>9 DEF ReadUsers
  <2> HIDE DEF read
  <2> QED BY <1>0, <1>9, <2>3, <2>4, GoOnJob, QuietStep DEF ReadUsers, TypeOK, past
<1>10. ASSUME NEW w \in Workers, NEW r \in Rows, Claim(w, r) PROVE NoticeInv'
  <2>1. alarm' \in Alarms /\ (~alarm[r].escalated => ~Happened(r, "escalation")) /\ Happened(r, "escalation")'
    BY <1>0, <1>10 DEF Claim, Alarms, Happened
  <2>4. work' = [work EXCEPT ![w] = IF alarm[r].escalated
                                    THEN GoOn([work[w] EXCEPT !.rows = @ \ {r}])
                                    ELSE [work[w] EXCEPT !.rows = @ \ {r}, !.step = "legacy", !.row = r]]
    BY <1>10 DEF Claim
  <2>2. CASE alarm[r].escalated
    <3> DEFINE on == [work[w] EXCEPT !.rows = @ \ {r}]
    <3>1. on \in Job /\ Shape(on) /\ on.step = "claim" /\ on.row = NoRow
      BY <1>0, <1>10 DEF Claim, Job, Shape, Idle
    <3>2. work' = [work EXCEPT ![w] = GoOn(on)]
      BY <2>2, <2>4
    <3> HIDE DEF on
    <3> QED BY <1>0, <1>10, <2>1, <3>1, <3>2, GoOnJob, QuietStep DEF Claim, TypeOK, past
  <2>3. CASE ~alarm[r].escalated
    <3> DEFINE job == [work[w] EXCEPT !.rows = @ \ {r}, !.step = "legacy", !.row = r]
    <3>1. job \in Job /\ Shape(job) /\ job.row = r /\ job.kind = "escalation"
      BY <1>0, <1>10, NoticeConstants DEF Claim, Job, Shape, Idle
    <3>2. work' = [work EXCEPT ![w] = job]
      BY <2>3, <2>4
    <3> HIDE DEF job
    <3>3. PICK claimed \in Job : claimed = job
      BY <3>1
    <3>4. ~Happened(claimed.row, claimed.kind) /\ Happened(claimed.row, claimed.kind)'
      BY <2>1, <2>3, <3>1, <3>3 DEF Happened
    <3> QED BY <1>0, <1>10, <2>1, <3>1, <3>2, <3>3, <3>4, QuietStep DEF Claim, TypeOK, past
  <2> QED BY <2>2, <2>3
<1>11. ASSUME NEW w \in Workers, NEW s \in Subscribers, NEW ok \in BOOLEAN, SendLegacy(w, s, ok) PROVE NoticeInv'
  <2> DEFINE job == [work[w] EXCEPT !.todo = @ \ {s}]
  <2>1. work[w].step = "legacy" /\ s \in work[w].todo
    BY <1>11 DEF SendLegacy
  <2>2. s \in LegacyOnly /\ s \notin Users
    BY <1>0, <2>1, NoticeConstants DEF Shape
  <2>3. job \in Job /\ Shape(job) /\ job.row = work[w].row /\ job.kind = work[w].kind
    BY <1>0, <2>1 DEF Job, Shape
  <2>4. Ahead(job) \subseteq Ahead(work[w]) /\ s \in Ahead(work[w]) /\ s \notin Ahead(job)
    BY <1>0, <2>1, <2>2 DEF Ahead, Job
  <2>5. work' = [work EXCEPT ![w] = job]
    BY <1>0, <1>11 DEF SendLegacy
  <2> HIDE DEF job
  <2> QED BY <1>0, <1>11, <2>2, <2>3, <2>4, <2>5, TellStep DEF SendLegacy, TypeOK
<1>12. ASSUME NEW w \in Workers, NEW u \in Users, NEW ok \in BOOLEAN, NEW night \in BOOLEAN,
              Send(w, u, ok, night)
       PROVE  NoticeInv'
  <2> DEFINE kind == work[w].kind
             k == KeyOf[work[w].row]
             left == [work[w] EXCEPT !.todo = @ \ {u}]
  <2>1. work[w].step = "send" /\ u \in work[w].todo
    BY <1>12 DEF Send
  <2>2. /\ left \in Job /\ Shape(left) /\ left.step = "send" /\ left.row = work[w].row /\ left.kind = kind
        /\ Ahead(left) \subseteq Ahead(work[w]) /\ u \in Ahead(work[w]) /\ u \notin Ahead(left)
    BY <1>0, <2>1 DEF Job, Shape, Ahead
  <2>3. work' = [work EXCEPT ![w] = GoOn(left)]
    BY <1>12 DEF Send
  <2>4. work[w].row \in Rows /\ k \in Keys
    BY <1>0, <2>1, InHandStays, NoticeConstants DEF Shape
  <2>5. tried' \in [Rows -> SUBSET Users]
    BY <1>0, <1>12, <2>4 DEF Send, TypeOK
  <2> HIDE DEF left
  <2>6. /\ GoOn(left) \in Job /\ Shape(GoOn(left))
        /\ \/ GoOn(left).row = NoRow /\ u \notin Ahead(GoOn(left))
           \/ /\ GoOn(left).row = work[w].row /\ GoOn(left).kind = kind
              /\ Ahead(GoOn(left)) \subseteq Ahead(work[w]) /\ u \notin Ahead(GoOn(left))
    BY <2>2, GoOnJob
  <2>7. CASE Delivers(u, kind, k, night)
    <3>0. PICK word \in {"raise", "clear", "failed"} : heard' = [heard EXCEPT ![u][k] = word]
      BY <1>12, <2>7 DEF Send
    <3>1. heard' \in [Users -> [Keys -> {"none", "raise", "clear", "failed"}]]
      BY <1>0, <2>4, <3>0 DEF TypeOK
    <3>2. Tell(w, u, ok)
      BY <1>12, <2>7 DEF Send
    <3> QED BY <3>2, <1>12, <2>2, <2>3, <2>5, <2>6, <3>1, TellStep DEF Send
  <2>8. CASE ~Delivers(u, kind, k, night)
    <3>1. UNCHANGED <<heard, told, twice, incidents>>
      BY <1>12, <2>8 DEF Send
    <3> QED BY <1>0, <1>12, <2>3, <2>5, <2>6, <3>1, QuietStep DEF Send, TypeOK
  <2> QED BY <2>7, <2>8
<1>13. CASE UNCHANGED vars
  <2>1. TypeOK' /\ UNCHANGED <<work, told, twice>>
    BY <1>0, <1>13 DEF vars, past, TypeOK
  <2> QED BY <2>1, StillStep
<1>15. ASSUME NEW w \in Workers, Reject(w) PROVE NoticeInv'
  <2>1. work[w].kind # "escalation" => work[w].row \in Rows /\ KeyOf[work[w].row] \in Keys
    BY <1>0, <1>15, InHandStays, NoticeConstants DEF Reject, Shape
  <2>2. muddled' \subseteq Keys /\ lost' \subseteq Rows
    BY <1>0, <1>15, <2>1 DEF Reject, Telling, TypeOK, Job
  <2>3. TypeOK'
    <3>1. work' \in [Workers -> Job]
      BY <1>0, <1>15, IdleJob DEF Reject
    <3>2. incidents' \in Nat /\ UNCHANGED <<alarm, fresh, serving, heard, told, twice, tried>>
      BY <1>0, <1>15 DEF Reject, TypeOK
    <3> QED BY <1>0, <2>2, <3>1, <3>2 DEF TypeOK, Job
  <2>4. work' = [work EXCEPT ![w] = Idle] /\ UNCHANGED <<told, twice>>
    BY <1>15 DEF Reject
  <2> QED BY <2>3, <2>4, IdleJob, JobStep
<1>14. ASSUME NEW w \in Workers, Step(w) PROVE NoticeInv'
  BY <1>8, <1>9, <1>10, <1>11, <1>12, <1>14, <1>15 DEF Step
<1> QED
  BY <1>1, <1>2, <1>3, <1>4, <1>5, <1>6, <1>7, <1>13, <1>14 DEF Next

LEMMA NoticesInvariant == Spec => []NoticeInv
  BY NoticeInit, NoticeStep, PTL DEF Spec

(* Every variable keeps its type, and a job under way has a row of the      *)
(* alarms in hand.                                                          *)
THEOREM TypeCorrect == Spec => []TypeOK
  BY NoticesInvariant, PTL DEF NoticeInv

(* Nobody is told twice of one raise, one clear or one escalation, however   *)
(* many handlers and sweeps overlap, whatever throws, and across restarts.   *)
THEOREM ToldOnce == Spec => []NoticeOnce
  BY NoticesInvariant, PTL DEF NoticeInv

----------------------------------------------------------------------------
(* What the last word rests on.  A code has one open row.  Unless the last   *)
(* event of a code was muddled, all that is under way about it says what is  *)
(* the case, and whoever has not heard it is yet to be told by a handler.    *)
About(job, k)    == \E r \in Rows : (r \in job.rows \/ r = job.row) /\ KeyOf[r] = k
Says(job)        == IF job.kind = "clear" THEN "clear" ELSE "raise"
Comes(job, k, u) == /\ job.kind \in {"raise", "clear"} /\ job.row \in Rows /\ KeyOf[job.row] = k
                    /\ job.step \in {"resolve", "legacy"} \/ (job.step = "send" /\ u \in job.todo)

OneOpen   == \A q, r \in Rows : /\ alarm[q].state \in Active /\ alarm[r].state \in Active
                                /\ KeyOf[q] = KeyOf[r]
                                => q = r
SaysTruth(k) == \A w \in Workers : About(work[w], k) => Says(work[w]) = Truth(k)
Hears(k)     == \A u \in Concerned(k) : \/ heard[u][k] \in {Truth(k), "failed"}
                                        \/ \E w \in Workers : Comes(work[w], k, u)
WordInv   == NoticeInv /\ OneOpen /\ \A k \in Keys \ muddled : SaysTruth(k) /\ Hears(k)

LEMMA AboutInFlight ==
  ASSUME TypeOK, NEW k
  PROVE  InFlight(k) <=> \E w \in Workers : About(work[w], k)
<1>1. \A w \in Workers : \A r : r \in work[w].rows \cup {work[w].row} /\ r # NoRow
                                <=> r \in Rows /\ (r \in work[w].rows \/ r = work[w].row)
  BY NoticeConstants DEF TypeOK
<1> QED BY <1>1 DEF InFlight, About

LEMMA IdleSays == \A k, u : ~About(Idle, k) /\ ~Comes(Idle, k, u)
  BY NoticeConstants DEF Idle, About, Comes

\* The truth of a code depends on the states of its rows only.
LEMMA TruthStays ==
  ASSUME NEW k, \A r \in Rows : KeyOf[r] = k =>
                  /\ alarm'[r].state \in Active <=> alarm[r].state \in Active
                  /\ alarm'[r].state = "closed" <=> alarm[r].state = "closed"
  PROVE  Truth(k)' = Truth(k)
  BY DEF Truth

LEMMA ConcernedAre ==
  ASSUME NEW k, NEW u \in Concerned(k), NEW kind \in {"raise", "clear"}
  PROVE  /\ u \in Users /\ u \in Recipients(kind, k)
         /\ \A night : Delivers(u, kind, k, night)
<1>1. u \in Recipients("raise", k)
  BY DEF Concerned
<1>2. u \in Users /\ u \in Recipients(kind, k)
  BY <1>1 DEF Recipients
<1> QED BY <1>2 DEF Concerned, Delivers

LEMMA GoOnWord ==
  ASSUME NEW job \in Job, Shape(job), job.step \in {"send", "claim"}, NEW k
  PROVE  /\ About(GoOn(job), k) => About(job, k) /\ Says(GoOn(job)) = Says(job)
         /\ \A u : Comes(job, k, u) => Comes(GoOn(job), k, u)
<1> DEFINE claim == [job EXCEPT !.step = "claim", !.row = NoRow]
           next  == IF job.step = "send" /\ job.todo = {} /\ job.kind = "escalation" THEN claim ELSE job
<1>1. GoOn(job) = IF \/ next.step = "send" /\ next.todo = {}
                     \/ next.step = "claim" /\ next.rows = {}
                  THEN Idle ELSE next
  BY DEF GoOn
<1>2. /\ About(claim, k) => About(job, k)
      /\ claim.kind = job.kind
  BY NoticeConstants DEF Job, About
<1>3. ASSUME NEW u, Comes(job, k, u) PROVE GoOn(job) = job
  <2>1. job.step = "send" /\ u \in job.todo
    BY <1>3 DEF Comes
  <2> QED BY <1>1, <2>1
<1>4. About(GoOn(job), k) => About(job, k) /\ Says(GoOn(job)) = Says(job)
  BY <1>1, <1>2, IdleSays DEF Says
<1> QED BY <1>3, <1>4

\* A step of one job, of which the rest is silent about k.
LEMMA JobWord ==
  ASSUME NEW k, SaysTruth(k), Hears(k), NEW w \in Workers, NEW job,
         work \in [Workers -> Job], work' = [work EXCEPT ![w] = job],
         Truth(k)' = Truth(k),
         About(job, k) => Says(job) = Truth(k),
         \A u \in Concerned(k) : \/ heard'[u][k] \in {Truth(k), "failed"}
                                 \/ /\ heard'[u][k] = heard[u][k]
                                    /\ Comes(work[w], k, u) => Comes(job, k, u)
  PROVE  SaysTruth(k)' /\ Hears(k)'
<1>1. \A v \in Workers : work'[v] = IF v = w THEN job ELSE work[v]
  OBVIOUS
<1>2. SaysTruth(k)'
  BY <1>1 DEF SaysTruth, About, Says
<1>3. \A u \in Concerned(k) : \/ heard'[u][k] \in {Truth(k), "failed"}
                              \/ \E v \in Workers : Comes(work'[v], k, u)
  BY <1>1 DEF Hears
<1>4. Hears(k)'
  BY <1>3 DEF Hears, Comes, Concerned, Recipients
<1> QED BY <1>2, <1>4

\* A step that touches no job, no word and no state of a row.
LEMMA StillWord ==
  ASSUME NEW k, SaysTruth(k), Hears(k), UNCHANGED <<work, heard>>, Truth(k)' = Truth(k)
  PROVE  SaysTruth(k)' /\ Hears(k)'
<1>1. SaysTruth(k)'
  BY DEF SaysTruth, About, Says
<1>2. Hears(k)'
  BY DEF Hears, Comes, Concerned, Recipients
<1> QED BY <1>1, <1>2

\* An event: nothing else is under way about its code, and its handler says
\* what has become the case, to everybody.
LEMMA EmitWord ==
  ASSUME WordInv, NEW r \in Rows, NEW kind \in {"raise", "clear"}, Emit(r, kind),
         Truth(KeyOf[r])' = kind,
         \A k \in Keys : k # KeyOf[r] => Truth(k)' = Truth(k),
         NEW k \in Keys \ muddled'
  PROVE  SaysTruth(k)' /\ Hears(k)'
<1> DEFINE job == [Idle EXCEPT !.step = "resolve", !.kind = kind, !.row = r]
<1>0. TypeOK /\ work \in [Workers -> Job]
  BY DEF WordInv, NoticeInv, TypeOK, Job
<1>1. /\ job.step = "resolve" /\ job.kind = kind /\ job.row = r /\ job.rows = {}
      /\ UNCHANGED heard
  BY DEF Idle, Emit
<1>2. \A e : About(job, e) <=> e = KeyOf[r]
  BY <1>1 DEF About
<1>3. Says(job) = kind /\ \A u : Comes(job, KeyOf[r], u)
  BY <1>1 DEF Says, Comes
<1>4. \/ UNCHANGED work /\ <<KeyOf[r], kind>> \in fresh
      \/ \E h \in Workers : FirstIdle(h) /\ work' = [work EXCEPT ![h] = job]
  BY DEF Emit, Debounced
<1> HIDE DEF job
<1>5. CASE k = KeyOf[r]
  <2>1. ~InFlight(k) /\ <<k, kind>> \notin fresh
    BY <1>5 DEF Emit
  <2>2. PICK h \in Workers : work' = [work EXCEPT ![h] = job]
    BY <1>4, <1>5, <2>1
  <2>3. \A v \in Workers : ~About(work[v], k)
    BY <1>0, <2>1, AboutInFlight
  <2>4. \A v \in Workers : work'[v] = IF v = h THEN job ELSE work[v]
    BY <1>0, <2>2
  <2>5. \A v \in Workers : About(work'[v], k) => Says(work'[v]) = kind
    BY <1>3, <2>3, <2>4
  <2>6. SaysTruth(k)'
    BY <1>5, <2>5 DEF SaysTruth, About, Says
  <2>7. \A u : Comes(work'[h], k, u)
    BY <1>3, <1>5, <2>4
  <2>8. Hears(k)'
    BY <2>7 DEF Hears, Comes
  <2> QED BY <2>6, <2>8
<1>6. CASE k # KeyOf[r]
  <2>1. k \in Keys \ muddled /\ Truth(k)' = Truth(k)
    BY <1>6 DEF Emit
  <2>2. SaysTruth(k) /\ Hears(k)
    BY <2>1 DEF WordInv
  <2>3. CASE UNCHANGED work
    BY <1>1, <2>1, <2>2, <2>3, StillWord
  <2>4. CASE \E h \in Workers : FirstIdle(h) /\ work' = [work EXCEPT ![h] = job]
    <3>1. PICK h \in Workers : work[h] = Idle /\ work' = [work EXCEPT ![h] = job]
      BY <2>4 DEF FirstIdle
    <3> QED BY <1>0, <1>1, <1>2, <1>6, <2>1, <2>2, <3>1, IdleSays, JobWord
  <2> QED BY <1>4, <2>3, <2>4
<1> QED BY <1>5, <1>6

LEMMA OneOpenStep == ASSUME WordInv, [Next]_vars PROVE OneOpen'
<1>0. alarm \in Alarms /\ OneOpen
  BY DEF WordInv, NoticeInv, TypeOK, Alarms
<1>1. ASSUME NEW r \in Rows, Raise(r) PROVE OneOpen'
  <2>1. /\ \A q \in Rows : KeyOf[q] = KeyOf[r] => alarm[q].state \notin Active
        /\ \A q \in Rows : q # r => alarm'[q] = alarm[q]
    BY <1>0, <1>1 DEF Raise, Alarms
  <2> QED BY <1>0, <2>1 DEF OneOpen
<1>2. ASSUME NEW r \in Rows, Clear(r) PROVE OneOpen'
  <2>1. \A q \in Rows : alarm'[q].state \in Active => alarm[q].state \in Active
    BY <1>0, <1>2 DEF Clear, Alarms, Active
  <2> QED BY <1>0, <2>1 DEF OneOpen
<1>3. ASSUME NEW r \in Rows, Ack(r) \/ Age(r) PROVE OneOpen'
  <2>1. \A q \in Rows : alarm'[q].state \in Active => alarm[q].state \in Active
    BY <1>0, <1>3 DEF Ack, Age, Alarms, Active
  <2> QED BY <1>0, <2>1 DEF OneOpen
<1>4. ASSUME NEW w \in Workers, NEW r \in Rows, Claim(w, r) PROVE OneOpen'
  <2>1. \A q \in Rows : alarm'[q].state = alarm[q].state
    BY <1>0, <1>4 DEF Claim, Alarms
  <2> QED BY <1>0, <2>1 DEF OneOpen
<1>5. CASE UNCHANGED alarm
  BY <1>0, <1>5 DEF OneOpen
<1>6. ASSUME NEW w \in Workers, Step(w) PROVE OneOpen'
  BY <1>4, <1>5, <1>6 DEF Step, Resolve, ReadUsers, Reject, SendLegacy, Send
<1> QED BY <1>1, <1>2, <1>3, <1>5, <1>6 DEF Next, vars, Forget, SweepRead, Suspend, Restart

\* A handler or a sweep goes on: what it is about, it was about before.
LEMMA WorkWord ==
  ASSUME WordInv, [Next]_vars, NEW w \in Workers, Step(w), NEW k \in Keys \ muddled'
  PROVE  SaysTruth(k)' /\ Hears(k)'
<1>0. /\ TypeOK /\ alarm \in Alarms /\ work \in [Workers -> Job]
      /\ work[w] \in Job /\ Shape(work[w])
  BY DEF WordInv, NoticeInv, TypeOK, Alarms, Job, Shapes
<1>1. muddled \subseteq muddled'
  BY DEF Step, Resolve, ReadUsers, Reject, Claim, SendLegacy, Send, past
<1>2. SaysTruth(k) /\ Hears(k)
  BY <1>1 DEF WordInv
<1>3. About(work[w], k) => Says(work[w]) = Truth(k)
  BY <1>2 DEF SaysTruth
<1>4. CASE Resolve(w)
  <2>1. Truth(k)' = Truth(k) /\ UNCHANGED heard
    BY <1>4, TruthStays DEF Resolve
  <2>2. CASE ~serving
    <3>1. work' = [work EXCEPT ![w] = Idle] /\ k # KeyOf[work[w].row]
      BY <1>4, <2>2 DEF Resolve
    <3>2. \A u : ~Comes(work[w], k, u)
      BY <3>1 DEF Comes
    <3> QED BY <1>0, <1>2, <2>1, <3>1, <3>2, IdleSays, JobWord
  <2>3. CASE serving
    <3> DEFINE job == [work[w] EXCEPT !.step = "legacy",
                                      !.todo = IF work[w].kind = "raise" THEN LegacyOnly ELSE {}]
    <3>1. /\ job.step = "legacy" /\ job.kind = work[w].kind
          /\ job.row = work[w].row /\ job.rows = work[w].rows
      BY <1>0 DEF Job
    <3>2. work' = [work EXCEPT ![w] = job]
      BY <1>0, <1>4, <2>3 DEF Resolve
    <3> HIDE DEF job
    <3>3. /\ About(job, k) => Says(job) = Truth(k)
          /\ \A u : Comes(work[w], k, u) => Comes(job, k, u)
      BY <1>3, <3>1 DEF About, Says, Comes
    <3> QED BY <1>0, <1>2, <2>1, <3>2, <3>3, JobWord
  <2> QED BY <2>2, <2>3
<1>5. CASE ReadUsers(w)
  <2> DEFINE read == [work[w] EXCEPT !.step = "send", !.todo = Recipients(work[w].kind, KeyOf[work[w].row])]
  <2>1. work[w].step = "legacy" /\ Truth(k)' = Truth(k) /\ UNCHANGED heard
    BY <1>5, TruthStays DEF ReadUsers, past
  <2>2. Recipients(work[w].kind, KeyOf[work[w].row]) \subseteq Users
    BY DEF Recipients
  <2>3. /\ read \in Job /\ Shape(read) /\ read.step = "send" /\ read.kind = work[w].kind
        /\ read.row = work[w].row /\ read.rows = work[w].rows
        /\ read.todo = Recipients(work[w].kind, KeyOf[work[w].row])
    BY <1>0, <2>1, <2>2 DEF Job, Shape, People, Idle
  <2>4. work' = [work EXCEPT ![w] = GoOn(read)]
    BY <1>0, <1>5 DEF ReadUsers
  <2> HIDE DEF read
  <2>5. About(read, k) => Says(read) = Truth(k)
    BY <1>3, <2>3 DEF About, Says
  <2>6. \A u \in Concerned(k) : Comes(work[w], k, u) => Comes(read, k, u)
    BY <2>3, ConcernedAre DEF Comes
  <2>7. /\ About(GoOn(read), k) => Says(GoOn(read)) = Truth(k)
        /\ \A u \in Concerned(k) : Comes(work[w], k, u) => Comes(GoOn(read), k, u)
    BY <2>3, <2>5, <2>6, GoOnWord
  <2> QED BY <1>0, <1>2, <2>1, <2>4, <2>7, JobWord
<1>6. ASSUME NEW r \in Rows, Claim(w, r) PROVE SaysTruth(k)' /\ Hears(k)'
  <2>1. /\ work[w].step = "claim" /\ work[w].kind = "escalation" /\ r \in work[w].rows
        /\ UNCHANGED heard
    BY <1>0, <1>6 DEF Claim, Shape, past
  <2>2. Truth(k)' = Truth(k)
    <3>1. \A q \in Rows : alarm'[q].state = alarm[q].state
      BY <1>0, <1>6 DEF Claim, Alarms
    <3> QED BY <3>1, TruthStays
  <2>3. \A u : ~Comes(work[w], k, u)
    BY <2>1 DEF Comes
  <2>4. CASE alarm[r].escalated
    <3> DEFINE on == [work[w] EXCEPT !.rows = @ \ {r}]
    <3>1. /\ on \in Job /\ Shape(on) /\ on.step = "claim" /\ on.kind = work[w].kind
          /\ on.row = work[w].row /\ on.rows = work[w].rows \ {r}
      BY <1>0, <2>1 DEF Job, Shape, Idle
    <3>2. work' = [work EXCEPT ![w] = GoOn(on)]
      BY <1>6, <2>4 DEF Claim
    <3> HIDE DEF on
    <3>3. About(on, k) => Says(on) = Truth(k)
      BY <1>3, <3>1 DEF About, Says
    <3>4. About(GoOn(on), k) => Says(GoOn(on)) = Truth(k)
      BY <3>1, <3>3, GoOnWord
    <3> QED BY <1>0, <1>2, <2>1, <2>2, <2>3, <3>2, <3>4, JobWord
  <2>5. CASE ~alarm[r].escalated
    <3> DEFINE job == [work[w] EXCEPT !.rows = @ \ {r}, !.step = "legacy", !.row = r]
    <3>1. job.kind = work[w].kind /\ job.row = r /\ job.rows = work[w].rows \ {r}
      BY <1>0 DEF Job
    <3>2. work' = [work EXCEPT ![w] = job]
      BY <1>6, <2>5 DEF Claim
    <3> HIDE DEF job
    <3>3. About(job, k) => Says(job) = Truth(k)
      BY <1>3, <2>1, <3>1 DEF About, Says
    <3> QED BY <1>0, <1>2, <2>1, <2>2, <2>3, <3>2, <3>3, JobWord
  <2> QED BY <2>4, <2>5
<1>7. ASSUME NEW s \in Subscribers, NEW ok \in BOOLEAN, SendLegacy(w, s, ok)
      PROVE  SaysTruth(k)' /\ Hears(k)'
  <2> DEFINE job == [work[w] EXCEPT !.todo = @ \ {s}]
  <2>1. work[w].step = "legacy" /\ Truth(k)' = Truth(k) /\ UNCHANGED heard
    BY <1>7, TruthStays DEF SendLegacy
  <2>2. /\ job.step = work[w].step /\ job.kind = work[w].kind
        /\ job.row = work[w].row /\ job.rows = work[w].rows
    BY <1>0 DEF Job
  <2>3. work' = [work EXCEPT ![w] = job]
    BY <1>0, <1>7 DEF SendLegacy
  <2> HIDE DEF job
  <2>4. /\ About(job, k) => Says(job) = Truth(k)
        /\ \A u : Comes(work[w], k, u) => Comes(job, k, u)
    BY <1>3, <2>1, <2>2 DEF About, Says, Comes
  <2> QED BY <1>0, <1>2, <2>1, <2>3, <2>4, JobWord
<1>8. ASSUME NEW u \in Users, NEW ok \in BOOLEAN, NEW night \in BOOLEAN, Send(w, u, ok, night)
      PROVE  SaysTruth(k)' /\ Hears(k)'
  <2> DEFINE kind == work[w].kind
             e    == KeyOf[work[w].row]
             left == [work[w] EXCEPT !.todo = @ \ {u}]
             word == IF ~ok THEN "failed" ELSE IF kind = "clear" THEN kind ELSE "raise"
  <2>1. /\ work[w].step = "send" /\ u \in work[w].todo /\ Truth(k)' = Truth(k)
        /\ work' = [work EXCEPT ![w] = GoOn(left)]
        /\ \/ Delivers(u, kind, e, night) /\ heard' = [heard EXCEPT ![u][e] = word]
           \/ ~Delivers(u, kind, e, night) /\ UNCHANGED heard
    BY <1>8, TruthStays DEF Send
  <2>2. /\ left \in Job /\ Shape(left) /\ left.step = "send" /\ left.kind = work[w].kind
        /\ left.row = work[w].row /\ left.rows = work[w].rows /\ left.todo = work[w].todo \ {u}
    BY <1>0, <2>1 DEF Job, Shape
  <2>3. work[w].row \in Rows
    BY <1>0, <2>1, NoticeConstants DEF Shape, Job
  <2> HIDE DEF left
  <2>4. About(left, k) => Says(left) = Truth(k)
    BY <1>3, <2>2 DEF About, Says
  <2>5. About(GoOn(left), k) => Says(GoOn(left)) = Truth(k)
    BY <2>2, <2>4, GoOnWord
  <2>6. e = k => word \in {Truth(k), "failed"}
    BY <1>3, <2>3 DEF About, Says
  <2>7. ASSUME NEW v \in Concerned(k)
        PROVE  \/ heard'[v][k] \in {Truth(k), "failed"}
               \/ /\ heard'[v][k] = heard[v][k]
                  /\ Comes(work[w], k, v) => Comes(GoOn(left), k, v)
    <3>0. v \in Users /\ heard \in [Users -> [Keys -> {"none", "raise", "clear", "failed"}]]
      BY <1>0, ConcernedAre DEF TypeOK
    <3>1. CASE v = u /\ e = k
      <4>1. CASE Delivers(u, kind, e, night)
        <5>1. heard'[v][k] = word
          BY <2>1, <3>0, <3>1, <4>1
        <5> QED BY <2>6, <3>1, <5>1
      <4>2. CASE ~Delivers(u, kind, e, night)
        <5>1. ~Comes(work[w], k, v)
          BY <3>1, <4>2, ConcernedAre DEF Comes
        <5> QED BY <2>1, <4>2, <5>1
      <4> QED BY <4>1, <4>2
    <3>2. CASE v # u \/ e # k
      <4>1. heard'[v][k] = heard[v][k]
        BY <2>1, <3>0, <3>2
      <4>2. Comes(work[w], k, v) => Comes(left, k, v)
        BY <2>1, <2>2, <3>2 DEF Comes
      <4> QED BY <2>2, <4>1, <4>2, GoOnWord
    <3> QED BY <3>1, <3>2
  <2> QED BY <1>0, <1>2, <2>1, <2>5, <2>7, JobWord
<1>9. CASE Reject(w)
  <2>1. work' = [work EXCEPT ![w] = Idle] /\ Truth(k)' = Truth(k) /\ UNCHANGED heard
    BY <1>9, TruthStays DEF Reject
  <2>2. work[w].kind = "escalation" \/ k # KeyOf[work[w].row]
    BY <1>9 DEF Reject
  <2>3. \A u : ~Comes(work[w], k, u)
    BY <2>2 DEF Comes
  <2> QED BY <1>0, <1>2, <2>1, <2>3, IdleSays, JobWord
<1> QED BY <1>4, <1>5, <1>6, <1>7, <1>8, <1>9 DEF Step

LEMMA WordInit == Init => WordInv
<1> SUFFICES ASSUME Init PROVE WordInv
  OBVIOUS
<1>1. \A r \in Rows : alarm[r].state = "none"
  BY DEF Init, Unraised
<1>2. \A k : Truth(k) = "none"
  BY <1>1 DEF Truth, Active
<1>3. \A w \in Workers : work[w] = Idle
  BY DEF Init
<1>4. \A k : SaysTruth(k)
  BY <1>3, IdleSays DEF SaysTruth
<1>5. \A k \in Keys : Hears(k)
  BY <1>2, ConcernedAre DEF Init, Hears
<1> QED BY <1>1, <1>4, <1>5, NoticeInit DEF WordInv, OneOpen, Active

LEMMA WordStep == WordInv /\ [Next]_vars => WordInv'
<1> SUFFICES ASSUME WordInv, [Next]_vars PROVE WordInv'
  OBVIOUS
<1>0. /\ TypeOK /\ alarm \in Alarms /\ work \in [Workers -> Job] /\ OneOpen
      /\ NoticeInv' /\ OneOpen'
  BY NoticeStep, OneOpenStep DEF WordInv, NoticeInv, TypeOK, Alarms, Job
<1> SUFFICES ASSUME NEW k \in Keys \ muddled' PROVE SaysTruth(k)' /\ Hears(k)'
  BY <1>0 DEF WordInv
<1>00. ASSUME k \notin muddled PROVE SaysTruth(k) /\ Hears(k)
  BY <1>00 DEF WordInv
<1>1. ASSUME NEW r \in Rows, Raise(r) PROVE SaysTruth(k)' /\ Hears(k)'
  <2>1. alarm'[r].state = "open" /\ \A q \in Rows : q # r => alarm'[q] = alarm[q]
    BY <1>0, <1>1 DEF Raise, Alarms
  <2>2. Truth(KeyOf[r])' = "raise"
    BY <2>1 DEF Truth, Active
  <2>3. ASSUME NEW e \in Keys, e # KeyOf[r] PROVE Truth(e)' = Truth(e)
    BY <2>1, <2>3, TruthStays
  <2> QED BY <1>1, <2>2, <2>3, EmitWord DEF Raise
<1>2. ASSUME NEW r \in Rows, Clear(r) PROVE SaysTruth(k)' /\ Hears(k)'
  <2>1. /\ alarm[r].state \in Active /\ alarm'[r].state = "closed"
        /\ \A q \in Rows : q # r => alarm'[q] = alarm[q]
    BY <1>0, <1>2 DEF Clear, Alarms
  <2>2. Truth(KeyOf[r])' = "clear"
    <3>1. \A q \in Rows : KeyOf[q] = KeyOf[r] => alarm'[q].state \notin Active
      BY <1>0, <2>1 DEF OneOpen, Active
    <3> QED BY <2>1, <3>1 DEF Truth
  <2>3. ASSUME NEW e \in Keys, e # KeyOf[r] PROVE Truth(e)' = Truth(e)
    BY <2>1, <2>3, TruthStays
  <2> QED BY <1>2, <2>2, <2>3, EmitWord DEF Clear
<1>3. ASSUME NEW r \in Rows, Ack(r) \/ Age(r) PROVE SaysTruth(k)' /\ Hears(k)'
  <2>1. /\ \A q \in Rows : /\ alarm'[q].state \in Active <=> alarm[q].state \in Active
                           /\ alarm'[q].state = "closed" <=> alarm[q].state = "closed"
        /\ UNCHANGED <<work, heard, muddled>>
    BY <1>0, <1>3 DEF Ack, Age, Alarms, Active, past
  <2> QED BY <1>00, <2>1, TruthStays, StillWord
<1>4. ASSUME NEW w \in Workers, Step(w) PROVE SaysTruth(k)' /\ Hears(k)'
  BY <1>4, WorkWord
<1>5. ASSUME NEW w \in Workers, SweepRead(w) PROVE SaysTruth(k)' /\ Hears(k)'
  <2> DEFINE job == [Idle EXCEPT !.step = "claim", !.kind = "escalation", !.rows = Overdue]
  <2>1. /\ job.kind = "escalation" /\ job.row = NoRow /\ job.rows = Overdue
        /\ work[w] = Idle /\ work' = [work EXCEPT ![w] = job]
        /\ UNCHANGED <<alarm, heard, muddled>>
    BY <1>5 DEF SweepRead, FirstIdle, Idle, past
  <2> HIDE DEF job
  <2>2. Truth(k)' = Truth(k)
    BY <2>1, TruthStays
  <2>3. About(job, k) => Says(job) = Truth(k)
    BY <2>1, NoticeConstants DEF About, Says, Overdue, Truth, Active
  <2> QED BY <1>0, <1>00, <2>1, <2>2, <2>3, IdleSays, JobWord
<1>6. CASE Restart
  <2>1. /\ \A w \in Workers : work'[w] = Idle
        /\ UNCHANGED <<alarm, heard>>
        /\ k \notin muddled /\ ~InFlight(k)
    BY <1>6 DEF Restart
  <2>2. Truth(k)' = Truth(k)
    BY <2>1, TruthStays
  <2>3. \A w \in Workers : ~About(work[w], k)
    BY <1>0, <2>1, AboutInFlight
  <2>4. \A w \in Workers : \A u : ~Comes(work[w], k, u)
    BY <2>3 DEF Comes, About
  <2>5. \A u \in Concerned(k) : heard[u][k] \in {Truth(k), "failed"}
    BY <1>00, <2>1, <2>4 DEF Hears
  <2>6. SaysTruth(k)'
    <3>1. \A w \in Workers : ~About(work'[w], k)
      BY <2>1, IdleSays
    <3> QED BY <3>1 DEF SaysTruth, About
  <2>7. Hears(k)'
    BY <2>1, <2>2, <2>5 DEF Hears, Concerned, Recipients
  <2> QED BY <2>6, <2>7
<1>7. ASSUME NEW e \in Keys, NEW kind \in {"raise", "clear"}, Forget(e, kind)
      PROVE  SaysTruth(k)' /\ Hears(k)'
  <2>1. UNCHANGED <<alarm, work, heard, muddled>>
    BY <1>7 DEF Forget, past
  <2> QED BY <1>00, <2>1, TruthStays, StillWord
<1>8. CASE Suspend \/ UNCHANGED vars
  <2>1. UNCHANGED <<alarm, work, heard, muddled>>
    BY <1>8 DEF Suspend, vars, past
  <2> QED BY <1>00, <2>1, TruthStays, StillWord
<1> QED BY <1>1, <1>2, <1>3, <1>4, <1>5, <1>6, <1>7, <1>8 DEF Next

(* Once nothing is under way about a code whose last event was not muddled,  *)
(* what everybody concerned heard of it last is what is the case, or did not *)
(* come through: however many handlers and sweeps overlap, whichever channel *)
(* throws or query rejects, whoever acknowledges, and across suspensions and *)
(* restarts.                                                                 *)
THEOREM LastWordTrue == Spec => []LastWordIsTrue
<1>1. WordInv => LastWordIsTrue
  <2> SUFFICES ASSUME WordInv, NEW k \in Keys \ muddled, ~InFlight(k), NEW u \in Concerned(k)
               PROVE  heard[u][k] \in {Truth(k), "failed"}
    BY DEF LastWordIsTrue
  <2>1. \A w \in Workers : ~About(work[w], k)
    BY AboutInFlight DEF WordInv, NoticeInv
  <2>2. \A w \in Workers : ~Comes(work[w], k, u)
    BY <2>1 DEF Comes, About
  <2> QED BY <2>2 DEF WordInv, Hears
<1> QED BY <1>1, WordInit, WordStep, PTL DEF Spec

=============================================================================
