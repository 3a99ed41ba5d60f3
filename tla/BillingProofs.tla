--------------------------- MODULE BillingProofs ---------------------------
(* Theorems about Billing, for every value of its constants: any number of  *)
(* organisations, periods and runs at once, and any number of incidents.    *)
EXTENDS Billing, TLAPS

Work == [step : {"idle", "issue", "mail", "dun", "record", "letter"},
         groups : [Orgs -> SUBSET Orgs], period : Nat, rows : SUBSET Row,
         at : Invoices \cup {NoInvoice}, goal : Stages]
Bill == [state : {"none", "issued", "settled"}, covers : SUBSET Orgs,
         reached : Stages, sent : BOOLEAN, stage : Stages]

\* What a run looks like at each of its steps; it has at most one row of each
\* invoice, the one it is at included.
Shape(r) ==
  /\ r.step \in {"idle", "issue", "mail"} => r.rows = {}
  /\ r.at = NoInvoice <=> r.step \in {"idle", "issue", "dun"}
  /\ r.step \in {"issue", "mail"} => r.period \in Periods
  /\ \A a, b \in r.rows : a.id = b.id => a = b
  /\ \A a \in r.rows : a.id # r.at

Shapes == \A w \in Runs : Shape(run[w])

LEMMA IdleWork == Idle \in Work /\ Shape(Idle)
  BY BillingConstants DEF Idle, Work, Shape, Stages

\* What the steps make of an invoice.
LEMMA BillSet ==
  ASSUME NEW b \in Bill
  PROVE  /\ [b EXCEPT !.sent = TRUE] \in Bill
         /\ [b EXCEPT !.state = "settled", !.reached = 0] \in Bill
         /\ b.reached < 3 => [b EXCEPT !.reached = @ + 1] \in Bill
         /\ \A s \in Stages : [b EXCEPT !.stage = s] \in Bill
<1>1. b.reached \in 0 .. 3 /\ 0 \in Stages
  BY DEF Bill, Stages
<1>2. b.reached < 3 => b.reached + 1 \in Stages
  BY <1>1 DEF Stages
<1> QED BY <1>1, <1>2 DEF Bill

LEMMA NewBill ==
  ASSUME NEW covers \in SUBSET Orgs
  PROVE  [Unissued EXCEPT !.state = "issued", !.covers = covers] \in Bill
<1>1. Unissued \in Bill
  BY DEF Unissued, Bill, Stages
<1> QED BY <1>1 DEF Bill

LEMMA ToDunRows ==
  ASSUME TypeOK, NEW row \in ToDun
  PROVE  /\ row \in Row /\ invoice[row.id].state = "issued" /\ Goal(row) > row.stage
         /\ row.sent = invoice[row.id].sent /\ row.stage = invoice[row.id].stage
<1>1. PICK i \in Invoices : /\ invoice[i].state = "issued"
                            /\ row = [id |-> i, reached |-> invoice[i].reached, sent |-> invoice[i].sent,
                                      stage |-> invoice[i].stage]
  BY DEF ToDun
<1>2. Goal(row) > row.stage
  BY DEF ToDun
<1>3. invoice[i] \in Bill
  BY DEF TypeOK, Bill
<1>4. row \in Row
  BY <1>1, <1>3 DEF Row, Bill
<1> QED BY <1>1, <1>2, <1>4

LEMMA ToDunOne ==
  ASSUME TypeOK, NEW a \in ToDun, NEW b \in ToDun, a.id = b.id
  PROVE  a = b
  BY DEF ToDun

LEMMA GoalStage ==
  ASSUME NEW row \in Row
  PROVE  Goal(row) \in Stages /\ (Goal(row) >= 2 => row.sent)
  BY DEF Goal, Row, Stages

\* A step of a run leaves the other runs alone.
LEMMA RunType ==
  ASSUME TypeOK, Shapes, NEW w \in Runs, NEW r \in Work, Shape(r), run' = [run EXCEPT ![w] = r]
  PROVE  run' \in [Runs -> Work] /\ Shapes'
  BY DEF TypeOK, Work, Shapes, Shape

\* A run that goes on to its next row, having dropped some perhaps.
LEMMA NextWork ==
  ASSUME NEW r \in Work, \A a, b \in r.rows : a.id = b.id => a = b
  PROVE  /\ NextRow(r) \in Work /\ Shape(NextRow(r))
         /\ NextRow(r).rows \subseteq r.rows /\ NextRow(r).at = NoInvoice
         /\ NextRow(r).step \in {"idle", "dun"}
         /\ NextRow(r).groups = r.groups \/ NextRow(r).groups = NoGroups
<1> DEFINE d == [r EXCEPT !.step = "dun", !.at = NoInvoice, !.goal = 0]
<1>0. 0 \in Stages
  BY DEF Stages
<1>1. /\ d \in Work /\ d.step = "dun" /\ d.at = NoInvoice /\ d.rows = r.rows
      /\ d.groups = r.groups
  BY <1>0 DEF Work
<1>2. Idle.rows = {} /\ Idle.at = NoInvoice /\ Idle.step = "idle" /\ Idle.groups = NoGroups
  BY DEF Idle, NoGroups
<1>3. Shape(d)
  <2>1. \A a \in r.rows : a.id \in Invoices
    BY DEF Work, Row
  <2> HIDE DEF d
  <2> QED BY <1>1, <2>1, BillingConstants DEF Shape
<1> HIDE DEF d
<1>4. NextRow(r) = Idle \/ NextRow(r) = d
  BY DEF NextRow, d
<1>5. CASE NextRow(r) = Idle
  BY <1>2, <1>5, IdleWork
<1>6. CASE NextRow(r) = d
  BY <1>1, <1>3, <1>6
<1> QED BY <1>4, <1>5, <1>6

LEMMA TypeInit == Init => TypeOK /\ Shapes
<1> SUFFICES ASSUME Init PROVE TypeOK /\ Shapes
  OBVIOUS
<1>1. run \in [Runs -> Work] /\ Shapes
  BY IdleWork DEF Init, Shapes
<1>2. Unissued \in Bill /\ Settled \in [step : {"no", "look", "restore"}, stage : Stages]
  BY DEF Unissued, Bill, Settled, Stages
<1>3. partner \in [Orgs -> Orgs]
  BY BillingConstants DEF Init
<1> QED
  BY <1>1, <1>2, <1>3 DEF Init, TypeOK, Work, Bill, Statuses, Stages

LEMMA TypeStep == TypeOK /\ Shapes /\ [Next]_vars => TypeOK' /\ Shapes'
<1> SUFFICES ASSUME TypeOK, Shapes, [Next]_vars PROVE TypeOK' /\ Shapes'
  OBVIOUS
<1>0. /\ run \in [Runs -> Work] /\ \A w \in Runs : run[w] \in Work /\ Shape(run[w])
      /\ invoice \in [Invoices -> Bill]
  BY DEF TypeOK, Shapes, Work, Bill
<1>1. ASSUME NEW w \in Runs, NEW p \in Periods, StartRun(w, p) PROVE TypeOK' /\ Shapes'
  <2>1. PICK groups \in {Groups(p)} \cup (IF w = Timer THEN {} ELSE {NoGroups}) :
          run' = [run EXCEPT ![w] = [Idle EXCEPT !.step = "issue", !.groups = groups, !.period = p]]
    BY <1>1 DEF StartRun
  <2>2. groups \in [Orgs -> SUBSET Orgs]
    BY <2>1 DEF Groups, NoGroups
  <2> DEFINE r == [Idle EXCEPT !.step = "issue", !.groups = groups, !.period = p]
  <2>3. r \in Work /\ Shape(r)
    <3>1. Idle \in Work /\ Idle.rows = {} /\ Idle.at = NoInvoice
      BY IdleWork DEF Idle
    <3>2. r \in Work
      BY <2>2, <3>1, BillingConstants DEF Work
    <3>3. r.step = "issue" /\ r.rows = {} /\ r.at = NoInvoice /\ r.period = p
      BY <3>1, <3>2 DEF Work
    <3> HIDE DEF r
    <3> QED BY <3>2, <3>3 DEF Shape
  <2> HIDE DEF r
  <2>4. run' \in [Runs -> Work] /\ Shapes'
    BY <2>1, <2>3, RunType DEF r
  <2> QED BY <1>1, <2>4 DEF StartRun, TypeOK, Work, past
<1>2. ASSUME NEW w \in Runs, NEW o \in Orgs, Issue(w, o) PROVE TypeOK' /\ Shapes'
  <2> DEFINE i == <<o, run[w].period>>
             done == [run[w] EXCEPT !.groups[o] = {}]
             mail == [run[w] EXCEPT !.groups[o] = {}, !.step = "mail", !.at = i]
  <2>1. run[w].step = "issue" /\ run[w].groups[o] \in SUBSET Orgs /\ i \in Invoices
    BY <1>0, <1>2 DEF Issue, Work, Shape, Invoices
  <2>2. CASE run' = [run EXCEPT ![w].groups[o] = {}] /\ UNCHANGED invoice
    <3>1. done \in Work /\ Shape(done) /\ run' = [run EXCEPT ![w] = done]
      BY <1>0, <2>1, <2>2 DEF Work, Shape
    <3>2. run' \in [Runs -> Work] /\ Shapes'
      BY <3>1, RunType
    <3> QED BY <1>2, <2>2, <3>2 DEF Issue, TypeOK, Work, past
  <2>3. ASSUME invoice' = [invoice EXCEPT ![i] = [Unissued EXCEPT !.state = "issued", !.covers = run[w].groups[o]]],
               run' = [run EXCEPT ![w].groups[o] = {}, ![w].step = "mail", ![w].at = i]
        PROVE  TypeOK' /\ Shapes'
    <3>1. mail \in Work /\ Shape(mail) /\ run' = [run EXCEPT ![w] = mail]
      BY <1>0, <2>1, <2>3, BillingConstants DEF Work, Shape
    <3>2. run' \in [Runs -> Work] /\ Shapes'
      BY <3>1, RunType
    <3>3. invoice' \in [Invoices -> Bill]
      BY <1>0, <2>1, <2>3, NewBill
    <3> QED BY <1>2, <3>2, <3>3 DEF Issue, TypeOK, Work, Bill, past
  <2> QED BY <1>2, <2>2, <2>3 DEF Issue
<1>3. ASSUME NEW w \in Runs, NEW ok \in BOOLEAN, MailInvoice(w, ok) PROVE TypeOK' /\ Shapes'
  <2> DEFINE r == [run[w] EXCEPT !.step = "issue", !.at = NoInvoice]
  <2>1. r \in Work /\ Shape(r) /\ run' = [run EXCEPT ![w] = r]
    BY <1>0, <1>3 DEF MailInvoice, Work, Shape
  <2>2. run' \in [Runs -> Work] /\ Shapes'
    BY <2>1, RunType
  <2>3. invoice' = [invoice EXCEPT ![run[w].at] = [invoice[run[w].at] EXCEPT !.sent = TRUE]] \/ UNCHANGED invoice
    BY <1>3 DEF MailInvoice, Deliver
  <2>4. invoice' \in [Invoices -> Bill]
    BY <1>0, <2>3, BillSet
  <2>5. incidents' \in Nat
    BY <1>3 DEF MailInvoice, Deliver, Incident, TypeOK
  <2> QED BY <1>3, <2>2, <2>4, <2>5 DEF MailInvoice, TypeOK, Work, Bill, past
<1>4. ASSUME NEW w \in Runs, ReadOverdue(w) PROVE TypeOK' /\ Shapes'
  <2>0. PICK rows \in {ToDun, {}} :
          run' = [run EXCEPT ![w] = IF rows = {} THEN Idle ELSE [Idle EXCEPT !.step = "dun", !.rows = rows]]
    BY <1>4 DEF ReadOverdue
  <2> DEFINE r == [Idle EXCEPT !.step = "dun", !.rows = rows]
  <2>1. r \in Work /\ Shape(r)
    BY IdleWork, ToDunRows, ToDunOne, BillingConstants DEF Idle, Work, Shape, Row
  <2> HIDE DEF r
  <2>2. run' = [run EXCEPT ![w] = Idle] \/ run' = [run EXCEPT ![w] = r]
    BY <2>0 DEF r
  <2>3. run' \in [Runs -> Work] /\ Shapes'
    BY <2>1, <2>2, IdleWork, RunType
  <2> QED BY <1>4, <2>3 DEF ReadOverdue, TypeOK, Work, past
<1>5. ASSUME NEW w \in Runs, NEW row \in run[w].rows, Dun(w, row) PROVE TypeOK' /\ Shapes'
  <2> DEFINE r == [run[w] EXCEPT !.rows = @ \ {row}, !.step = "record", !.at = row.id, !.goal = Goal(row)]
  <2>1. row \in Row /\ row.id \in Invoices /\ Goal(row) \in Stages
    BY <1>0, <1>5, GoalStage DEF Work, Row
  <2>2. r \in Work /\ Shape(r) /\ run' = [run EXCEPT ![w] = r]
    BY <1>0, <1>5, <2>1, BillingConstants DEF Dun, Work, Shape
  <2>3. run' \in [Runs -> Work] /\ Shapes'
    BY <2>2, RunType
  <2>4. status' \in [Orgs -> Statuses] /\ cause' \in [Orgs -> Invoices \cup {NoInvoice}]
    BY <1>5, <2>1 DEF Dun, SetStatus, TypeOK, Statuses
  <2>5. raced' \subseteq Invoices /\ unlifted' \subseteq Invoices
    BY <1>5, <2>1 DEF Dun, TypeOK
  <2> QED BY <1>5, <2>3, <2>4, <2>5 DEF Dun, TypeOK, Work
<1>6. ASSUME NEW w \in Runs, Record(w) PROVE TypeOK' /\ Shapes'
  <2> DEFINE r == [run[w] EXCEPT !.step = "letter"]
  <2>1. r \in Work /\ Shape(r) /\ run' = [run EXCEPT ![w] = r]
    BY <1>0, <1>6 DEF Record, Work, Shape
  <2>2. run' \in [Runs -> Work] /\ Shapes'
    BY <2>1, RunType
  <2>3. invoice' = [invoice EXCEPT ![run[w].at] = [invoice[run[w].at] EXCEPT !.stage = run[w].goal]]
    BY <1>6 DEF Record
  <2>4. invoice' \in [Invoices -> Bill]
    BY <1>0, <2>3, BillSet DEF Work
  <2> QED BY <1>6, <2>2, <2>4 DEF Record, TypeOK, Work, Bill, past
<1>7. ASSUME NEW w \in Runs, NEW ok \in BOOLEAN, Letter(w, ok) PROVE TypeOK' /\ Shapes'
  <2>0. run[w].at \in Invoices /\ run[w].goal \in Stages
    BY <1>0, <1>7 DEF Letter, Work, Shape
  <2>1. NextRow(run[w]) \in Work /\ Shape(NextRow(run[w]))
    BY <1>0, NextWork DEF Shape
  <2>2. run' = [run EXCEPT ![w] = NextRow(run[w])]
    BY <1>7 DEF Letter
  <2>3. run' \in [Runs -> Work] /\ Shapes'
    BY <2>1, <2>2, RunType
  <2>4. twice' \subseteq Invoices /\ incidents' \in Nat
    BY <1>7, <2>0 DEF Letter, Incident, TypeOK
  <2>5. letters' \in [Invoices -> SUBSET Stages]
    <3>1. letters \in [Invoices -> SUBSET Stages]
      BY DEF TypeOK
    <3>2. UNCHANGED letters \/ letters' = [letters EXCEPT ![run[w].at] = letters[run[w].at] \cup {run[w].goal}]
      BY <1>7 DEF Letter
    <3> QED BY <2>0, <3>1, <3>2
  <2> QED BY <1>7, <2>3, <2>4, <2>5 DEF Letter, TypeOK, Work
<1>18. ASSUME NEW w \in Runs, Reject(w) PROVE TypeOK' /\ Shapes'
  <2>1. PICK r \in Work : Shape(r) /\ run' = [run EXCEPT ![w] = r]
    <3>1. CASE run' = [run EXCEPT ![w] = Idle]
      BY <3>1, IdleWork
    <3>2. ASSUME NEW row \in run[w].rows, run' = [run EXCEPT ![w] = NextRow([run[w] EXCEPT !.rows = @ \ {row}])]
          PROVE  \E r \in Work : Shape(r) /\ run' = [run EXCEPT ![w] = r]
      <4> DEFINE less == [run[w] EXCEPT !.rows = @ \ {row}]
      <4>1. less \in Work /\ less.rows \subseteq run[w].rows
        BY <1>0 DEF Work
      <4> HIDE DEF less
      <4>2. NextRow(less) \in Work /\ Shape(NextRow(less))
        BY <1>0, <4>1, NextWork DEF Shape
      <4> QED BY <3>2, <4>2 DEF less
    <3>3. CASE run' = [run EXCEPT ![w] = NextRow(run[w])]
      BY <1>0, <3>3, NextWork DEF Shape
    <3> QED BY <1>18, <3>1, <3>2, <3>3 DEF Reject
  <2>2. run' \in [Runs -> Work] /\ Shapes'
    BY <2>1, RunType
  <2>3. incidents' \in Nat /\ UNCHANGED <<status, partner, over, invoice, settling, past>>
    BY <1>18 DEF Reject, Incident, TypeOK
  <2> QED BY <2>2, <2>3 DEF TypeOK, Work, past
<1>8. ASSUME NEW i \in Invoices, SendByHand(i) \/ WeekOverdue(i) PROVE TypeOK' /\ Shapes'
  <2>0. \/ invoice' = [invoice EXCEPT ![i] = [invoice[i] EXCEPT !.sent = TRUE]]
        \/ invoice[i].reached < 3 /\ invoice' = [invoice EXCEPT ![i] = [invoice[i] EXCEPT !.reached = @ + 1]]
    BY <1>8 DEF SendByHand, Deliver, WeekOverdue
  <2>1. invoice' \in [Invoices -> Bill]
    BY <1>0, <2>0, BillSet
  <2>2. UNCHANGED <<status, partner, over, run, settling, past, incidents>>
    BY <1>8 DEF SendByHand, Deliver, WeekOverdue
  <2> QED BY <2>1, <2>2 DEF TypeOK, Bill, Shapes, Shape, past
<1>9. ASSUME NEW i \in Invoices, Settle(i) PROVE TypeOK' /\ Shapes'
  <2>0. invoice' = [invoice EXCEPT ![i] = [invoice[i] EXCEPT !.state = "settled", !.reached = 0]]
    BY <1>9 DEF Settle
  <2>1. invoice' \in [Invoices -> Bill]
    BY <1>0, <2>0, BillSet
  <2>2. settling' \in [Invoices -> [step : {"no", "look", "restore"}, stage : Stages]]
    BY <1>0, <1>9 DEF Settle, Bill, TypeOK
  <2>3. unlifted' \subseteq Invoices
    BY <1>9 DEF Settle, TypeOK
  <2> QED BY <1>9, <2>1, <2>2, <2>3 DEF Settle, TypeOK, Bill, Shapes, Shape
<1>10. ASSUME NEW i \in Invoices, LookForOthers(i) PROVE TypeOK' /\ Shapes'
  <2>0. \/ settling' = [settling EXCEPT ![i] = [settling[i] EXCEPT !.step = "restore"]]
        \/ settling' = [settling EXCEPT ![i] = Settled]
    BY <1>10 DEF LookForOthers
  <2>1. settling' \in [Invoices -> [step : {"no", "look", "restore"}, stage : Stages]]
    <3>1. Settled \in [step : {"no", "look", "restore"}, stage : Stages]
      BY DEF Settled, Stages
    <3>2. settling[i] \in [step : {"no", "look", "restore"}, stage : Stages]
      BY DEF TypeOK
    <3>3. [settling[i] EXCEPT !.step = "restore"] \in [step : {"no", "look", "restore"}, stage : Stages]
      BY <3>2
    <3> QED BY <2>0, <3>1, <3>3 DEF TypeOK
  <2>2. unlifted' \subseteq Invoices
    BY <1>10 DEF LookForOthers, TypeOK
  <2> QED BY <1>10, <2>1, <2>2 DEF LookForOthers, TypeOK, Shapes, Shape
<1>11. ASSUME NEW i \in Invoices, Restore(i) PROVE TypeOK' /\ Shapes'
  <2>1. settling' \in [Invoices -> [step : {"no", "look", "restore"}, stage : Stages]]
    BY <1>11 DEF Restore, TypeOK, Settled, Stages
  <2>2. status' \in [Orgs -> Statuses] /\ cause' \in [Orgs -> Invoices \cup {NoInvoice}]
    BY <1>11 DEF Restore, SetStatus, TypeOK, Statuses
  <2> QED BY <1>11, <2>1, <2>2 DEF Restore, TypeOK, Shapes, Shape
<1>19. ASSUME NEW i \in Invoices, RejectSettlement(i) PROVE TypeOK' /\ Shapes'
  <2>1. settling' \in [Invoices -> [step : {"no", "look", "restore"}, stage : Stages]]
    BY <1>19 DEF RejectSettlement, TypeOK, Settled, Stages
  <2>2. unlifted' \subseteq Invoices /\ incidents' \in Nat
    BY <1>19 DEF RejectSettlement, Incident, TypeOK
  <2> QED BY <1>19, <2>1, <2>2 DEF RejectSettlement, TypeOK, Shapes, Shape
<1>12. ASSUME NEW p \in Periods, PeriodEnds(p) PROVE TypeOK' /\ Shapes'
  BY <1>12 DEF PeriodEnds, TypeOK, Shapes, Shape, past
<1>13. ASSUME NEW o \in Orgs, NEW s \in Statuses, StatusByHand(o, s) PROVE TypeOK' /\ Shapes'
  BY <1>13 DEF StatusByHand, Incident, TypeOK, Shapes, Shape
<1>14. ASSUME NEW o \in Orgs, NEW q \in Orgs, PartnerByHand(o, q) PROVE TypeOK' /\ Shapes'
  BY <1>14 DEF PartnerByHand, Incident, TypeOK, Shapes, Shape
<1>15. CASE Restart
  <2>1. run' \in [Runs -> Work] /\ Shapes'
    BY <1>15, IdleWork DEF Restart, Shapes, Shape
  <2>2. settling' \in [Invoices -> [step : {"no", "look", "restore"}, stage : Stages]]
    BY <1>15 DEF Restart, Settled, Stages
  <2>3. unlifted' \subseteq Invoices
    BY <1>15 DEF Restart, TypeOK
  <2> QED BY <1>15, <2>1, <2>2, <2>3 DEF Restart, Incident, TypeOK, Work
<1>16. CASE UNCHANGED vars
  BY <1>16 DEF vars, past, TypeOK, Shapes, Shape
<1>17. ASSUME NEW w \in Runs, RunStep(w) PROVE TypeOK' /\ Shapes'
  BY <1>2, <1>3, <1>4, <1>5, <1>6, <1>7, <1>17, <1>18 DEF RunStep
<1> QED
  BY <1>1, <1>8, <1>9, <1>10, <1>11, <1>12, <1>13, <1>14, <1>15, <1>16, <1>17, <1>19 DEF Next

(* Every variable keeps its type.                                           *)
THEOREM TypeCorrect == Spec => []TypeOK
  BY TypeInit, TypeStep, PTL DEF Spec

----------------------------------------------------------------------------
(* What the rows of a run, and the invoice it is at, have been through.      *)

\* A run acts on invoices that were issued, and goes beyond past_due with those only
\* whose letter was sent: sent_at is never taken back.
SentRow(w) ==
  /\ \A row \in run[w].rows : row.sent => invoice[row.id].sent
  /\ run[w].step = "record" /\ run[w].goal >= 2 => invoice[run[w].at].sent

SentInv == TypeOK /\ Shapes /\ NoSilentSuspension /\ \A w \in Runs : SentRow(w)

\* Nothing that is sent becomes unsent, and Record alone writes a stage.
LEMMA StaysSent ==
  ASSUME TypeOK, Shapes, [Next]_vars, NEW i \in Invoices
  PROVE  invoice[i].sent => invoice'[i].sent
<1>0. invoice \in [Invoices -> Bill] /\ \A w \in Runs : run[w] \in Work /\ Shape(run[w])
  BY DEF TypeOK, Bill, Work, Shapes
<1>1. ASSUME NEW w \in Runs, NEW o \in Orgs, Issue(w, o) PROVE invoice[i].sent => invoice'[i].sent
  BY <1>0, <1>1 DEF Issue, Unissued, Bill
<1>2. ASSUME NEW w \in Runs, NEW ok \in BOOLEAN, MailInvoice(w, ok) PROVE invoice[i].sent => invoice'[i].sent
  BY <1>0, <1>2 DEF MailInvoice, Deliver, Bill
<1>3. ASSUME NEW w \in Runs, Record(w) PROVE invoice[i].sent => invoice'[i].sent
  BY <1>0, <1>3 DEF Record, Bill
<1>4. ASSUME NEW j \in Invoices, SendByHand(j) \/ WeekOverdue(j) \/ Settle(j)
      PROVE  invoice[i].sent => invoice'[i].sent
  BY <1>0, <1>4 DEF SendByHand, Deliver, WeekOverdue, Settle, Bill
<1>5. ASSUME UNCHANGED invoice PROVE invoice[i].sent => invoice'[i].sent
  BY <1>5
<1>6. ASSUME NEW w \in Runs, RunStep(w) PROVE invoice[i].sent => invoice'[i].sent
  BY <1>1, <1>2, <1>3, <1>5, <1>6 DEF RunStep, ReadOverdue, Dun, Letter, Reject
<1> QED
  BY <1>4, <1>5, <1>6
  DEF Next, vars, StartRun, LookForOthers, Restore, RejectSettlement, PeriodEnds, StatusByHand,
      PartnerByHand, Restart

LEMMA StageStays ==
  ASSUME TypeOK, Shapes, [Next]_vars, NEW i \in Invoices,
         \A w \in Runs : ~(Record(w) /\ run[w].at = i)
  PROVE  invoice'[i].stage = invoice[i].stage
<1>0. invoice \in [Invoices -> Bill]
  BY DEF TypeOK, Bill
<1> DEFINE Stays == invoice'[i].stage = invoice[i].stage
<1>1. ASSUME NEW w \in Runs, NEW o \in Orgs, Issue(w, o) PROVE Stays
  <2> DEFINE j == <<o, run[w].period>>
             new == [Unissued EXCEPT !.state = "issued", !.covers = run[w].groups[o]]
  <2>1. UNCHANGED invoice \/ (invoice[j] = Unissued /\ invoice' = [invoice EXCEPT ![j] = new])
    BY <1>1 DEF Issue
  <2>2. new.stage = Unissued.stage
    BY DEF Unissued
  <2> HIDE DEF j, new
  <2> QED BY <1>0, <2>1, <2>2
<1>2. ASSUME NEW w \in Runs, NEW ok \in BOOLEAN, MailInvoice(w, ok) PROVE Stays
  BY <1>0, <1>2 DEF MailInvoice, Deliver, Bill
<1>3. ASSUME NEW w \in Runs, Record(w) PROVE Stays
  BY <1>0, <1>3 DEF Record, Bill
<1>4. ASSUME NEW j \in Invoices, SendByHand(j) \/ WeekOverdue(j) \/ Settle(j) PROVE Stays
  BY <1>0, <1>4 DEF SendByHand, Deliver, WeekOverdue, Settle, Bill
<1>5. ASSUME UNCHANGED invoice PROVE Stays
  BY <1>5
<1>6. ASSUME NEW w \in Runs, RunStep(w) PROVE Stays
  BY <1>1, <1>2, <1>3, <1>5, <1>6 DEF RunStep, ReadOverdue, Dun, Letter, Reject
<1> QED
  BY <1>4, <1>5, <1>6
  DEF Next, vars, StartRun, LookForOthers, Restore, RejectSettlement, PeriodEnds, StatusByHand,
      PartnerByHand, Restart

LEMMA SentStages ==
  ASSUME SentInv, [Next]_vars
  PROVE  \A i \in Invoices : invoice'[i].stage >= 2 => invoice'[i].sent
<1> SUFFICES ASSUME NEW i \in Invoices, invoice'[i].stage >= 2 PROVE invoice'[i].sent
  OBVIOUS
<1>0. TypeOK /\ Shapes /\ invoice[i] \in Bill
  BY DEF SentInv, TypeOK, Bill
<1>1. CASE \E w \in Runs : Record(w) /\ run[w].at = i
  <2>1. PICK w \in Runs : Record(w) /\ run[w].at = i
    BY <1>1
  <2>2. invoice'[i].stage = run[w].goal /\ run[w].step = "record"
    BY <1>0, <2>1 DEF Record, TypeOK
  <2>3. invoice[i].sent
    BY <2>1, <2>2 DEF SentInv, SentRow
  <2> QED BY <1>0, <2>3, StaysSent
<1>2. CASE ~\E w \in Runs : Record(w) /\ run[w].at = i
  <2>1. invoice[i].stage >= 2
    BY <1>0, <1>2, StageStays DEF Bill, Stages
  <2> QED BY <1>0, <2>1, StaysSent DEF SentInv, NoSilentSuspension
<1> QED BY <1>1, <1>2

LEMMA SentStatuses ==
  ASSUME SentInv, [Next]_vars
  PROVE  \A o \in Orgs : status'[o] = "suspended" /\ cause'[o] # NoInvoice => invoice'[cause'[o]].sent
<1> SUFFICES ASSUME NEW o \in Orgs, status'[o] = "suspended", cause'[o] # NoInvoice
             PROVE  invoice'[cause'[o]].sent
  OBVIOUS
<1>0. TypeOK /\ Shapes /\ cause[o] \in Invoices \cup {NoInvoice} /\ \A w \in Runs : run[w] \in Work
  BY DEF SentInv, TypeOK, Work
<1>1. CASE status'[o] = status[o] /\ cause'[o] = cause[o]
  BY <1>0, <1>1, StaysSent DEF SentInv, NoSilentSuspension
<1>2. ASSUME NEW w \in Runs, NEW row \in run[w].rows, Dun(w, row) PROVE invoice'[cause'[o]].sent
  <2>1. row \in Row /\ row.id \in Invoices
    BY <1>0 DEF Work, Row
  <2>2. CASE Goal(row) = 3 /\ cause'[o] = row.id
    <3>1. invoice[row.id].sent
      BY <2>1, <2>2, GoalStage DEF SentInv, SentRow
    <3> QED BY <1>0, <2>1, <2>2, <3>1, StaysSent
  <2>3. CASE Goal(row) = 3 /\ cause'[o] # row.id
    BY <1>1, <1>2, <2>3 DEF Dun, SetStatus
  <2>4. CASE Goal(row) # 3
    BY <1>1, <1>2, <2>4 DEF Dun, SetStatus
  <2> QED BY <2>2, <2>3, <2>4
<1>3. ASSUME NEW i \in Invoices, Restore(i) PROVE invoice'[cause'[o]].sent
  BY <1>1, <1>3 DEF Restore, SetStatus
<1>4. ASSUME NEW q \in Orgs, NEW s \in Statuses, StatusByHand(q, s) PROVE invoice'[cause'[o]].sent
  BY <1>0, <1>1, <1>4 DEF StatusByHand, TypeOK, SentInv
<1>5. ASSUME UNCHANGED <<status, cause>> PROVE invoice'[cause'[o]].sent
  BY <1>1, <1>5
<1>6. ASSUME NEW w \in Runs, RunStep(w) PROVE invoice'[cause'[o]].sent
  BY <1>2, <1>5, <1>6 DEF RunStep, Issue, ReadOverdue, Record, MailInvoice, Letter, Reject, past
<1> QED
  BY <1>3, <1>4, <1>5, <1>6
  DEF Next, vars, past, StartRun, SendByHand, WeekOverdue, Settle, LookForOthers, RejectSettlement,
      PeriodEnds, PartnerByHand, Restart

\* A run whose letter is done, or for which a query rejects, has only rows it had.
LEMMA Dropped ==
  ASSUME TypeOK, Shapes, NEW w \in Runs, (\E ok \in BOOLEAN : Letter(w, ok)) \/ Reject(w)
  PROVE  /\ run'[w].rows \subseteq run[w].rows /\ run'[w].at = NoInvoice
         /\ run'[w].step \in {"idle", "dun"}
         /\ run'[w].groups = run[w].groups \/ run'[w].groups = NoGroups
         /\ \A v \in Runs : v # w => run'[v] = run[v]
         /\ run[w].step \in {"issue", "dun", "record", "letter"}
<1>0. run \in [Runs -> Work] /\ run[w] \in Work /\ \A a, b \in run[w].rows : a.id = b.id => a = b
  BY DEF TypeOK, Work, Shapes, Shape
<1>1. \A v \in Runs : v # w => run'[v] = run[v]
  BY <1>0 DEF Letter, Reject
<1>2. run[w].step \in {"issue", "dun", "record", "letter"}
  BY DEF Letter, Reject
<1>3. CASE run' = [run EXCEPT ![w] = Idle]
  BY <1>0, <1>1, <1>2, <1>3 DEF Idle, NoGroups
<1>4. CASE run' = [run EXCEPT ![w] = NextRow(run[w])]
  BY <1>0, <1>1, <1>2, <1>4, NextWork
<1>5. ASSUME NEW row \in run[w].rows, run' = [run EXCEPT ![w] = NextRow([run[w] EXCEPT !.rows = @ \ {row}])]
      PROVE  /\ run'[w].rows \subseteq run[w].rows /\ run'[w].at = NoInvoice
             /\ run'[w].step \in {"idle", "dun"}
             /\ run'[w].groups = run[w].groups \/ run'[w].groups = NoGroups
  <2> DEFINE less == [run[w] EXCEPT !.rows = @ \ {row}]
  <2>1. less \in Work /\ less.rows \subseteq run[w].rows /\ less.groups = run[w].groups
    BY <1>0 DEF Work
  <2>2. run'[w] = NextRow(less)
    BY <1>0, <1>5
  <2> HIDE DEF less
  <2> QED BY <1>0, <2>1, <2>2, NextWork
<1> QED BY <1>1, <1>2, <1>3, <1>4, <1>5 DEF Letter, Reject

LEMMA SentRows ==
  ASSUME SentInv, [Next]_vars, NEW w \in Runs
  PROVE  SentRow(w)'
<1>0. TypeOK /\ Shapes /\ SentRow(w) /\ run \in [Runs -> Work] /\ Shape(run[w])
  BY DEF SentInv, TypeOK, Work, Shapes
<1>1. CASE run'[w] = run[w]
  <2>1. \A row \in run[w].rows : row.id \in Invoices
    BY <1>0 DEF Work, Row
  <2>2. run[w].step = "record" => run[w].at \in Invoices
    BY <1>0 DEF Work, Shape
  <2> QED BY <1>0, <1>1, <2>1, <2>2, StaysSent DEF SentRow
<1>2. CASE run'[w].rows = {} /\ run'[w].step # "record"
  BY <1>2 DEF SentRow
<1>3. ASSUME NEW v \in Runs, NEW p \in Periods, StartRun(v, p) PROVE SentRow(w)'
  BY <1>0, <1>1, <1>2, <1>3 DEF StartRun, Idle
<1>4. ASSUME NEW v \in Runs, NEW o \in Orgs, Issue(v, o) PROVE SentRow(w)'
  <2>1. v = w => run[w].rows = {} /\ run[w].step = "issue"
    BY <1>0, <1>4 DEF Issue, Shape
  <2>2. v # w => run'[w] = run[w]
    BY <1>0, <1>4 DEF Issue
  <2>3. v = w => run'[w].rows = run[w].rows /\ run'[w].step \in {"issue", "mail"}
    BY <1>0, <1>4, <2>1 DEF Issue, Work
  <2> QED BY <1>1, <1>2, <2>1, <2>2, <2>3
<1>5. ASSUME NEW v \in Runs, NEW ok \in BOOLEAN, MailInvoice(v, ok) PROVE SentRow(w)'
  <2>1. v = w => run[w].rows = {}
    BY <1>0, <1>5 DEF MailInvoice, Shape
  <2> QED BY <1>0, <1>1, <1>2, <1>5, <2>1 DEF MailInvoice, Work
<1>6. ASSUME NEW v \in Runs, ReadOverdue(v) PROVE SentRow(w)'
  <2>1. CASE v # w
    BY <1>0, <1>1, <1>6, <2>1 DEF ReadOverdue
  <2>2. CASE v = w
    <3>1. PICK rows \in {ToDun, {}} :
            run' = [run EXCEPT ![v] = IF rows = {} THEN Idle ELSE [Idle EXCEPT !.step = "dun", !.rows = rows]]
      BY <1>6 DEF ReadOverdue
    <3>2. run'[w].rows \subseteq ToDun /\ run'[w].step # "record" /\ UNCHANGED invoice
      BY <1>0, <1>6, <2>2, <3>1 DEF ReadOverdue, Idle
    <3> QED BY <1>0, <3>2, ToDunRows DEF SentRow
  <2> QED BY <2>1, <2>2
<1>7. ASSUME NEW v \in Runs, NEW row \in run[v].rows, Dun(v, row) PROVE SentRow(w)'
  <2>1. CASE v # w
    BY <1>0, <1>1, <1>7, <2>1 DEF Dun
  <2>2. CASE v = w
    <3>1. row \in Row /\ row.id \in Invoices /\ (Goal(row) >= 2 => row.sent)
      BY <1>0, <2>2, GoalStage DEF Work, Row
    <3>2. run'[w].rows = run[w].rows \ {row} /\ run'[w].at = row.id /\ run'[w].goal = Goal(row)
      BY <1>0, <1>7, <2>2 DEF Dun, Work
    <3>3. UNCHANGED invoice
      BY <1>7 DEF Dun
    <3> QED BY <1>0, <2>2, <3>1, <3>2, <3>3 DEF SentRow
  <2> QED BY <2>1, <2>2
<1>8. ASSUME NEW v \in Runs, Record(v) PROVE SentRow(w)'
  <2>1. CASE v # w
    BY <1>0, <1>1, <1>8, <2>1 DEF Record
  <2>2. CASE v = w
    <3>1. run'[w].rows = run[w].rows /\ run'[w].step = "letter"
      BY <1>0, <1>8, <2>2 DEF Record, Work
    <3>2. \A row \in run[w].rows : row.id \in Invoices
      BY <1>0 DEF Work, Row
    <3> QED BY <1>0, <3>1, <3>2, StaysSent DEF SentRow
  <2> QED BY <2>1, <2>2
<1>9. ASSUME run'[w].rows \subseteq run[w].rows, run'[w].step # "record" PROVE SentRow(w)'
  <2>1. \A row \in run[w].rows : row.id \in Invoices
    BY <1>0 DEF Work, Row
  <2> QED BY <1>0, <1>9, <2>1, StaysSent DEF SentRow
<1>13. ASSUME NEW v \in Runs, (\E ok \in BOOLEAN : Letter(v, ok)) \/ Reject(v) PROVE SentRow(w)'
  <2>1. CASE v # w
    BY <1>0, <1>1, <1>13, <2>1 DEF Letter, Reject
  <2>2. CASE v = w
    BY <1>0, <1>9, <1>13, <2>2, Dropped
  <2> QED BY <2>1, <2>2
<1>10. CASE Restart
  BY <1>2, <1>10 DEF Restart, Idle
<1>11. ASSUME UNCHANGED run PROVE SentRow(w)'
  BY <1>1, <1>11
<1>12. ASSUME NEW v \in Runs, RunStep(v) PROVE SentRow(w)'
  BY <1>4, <1>5, <1>6, <1>7, <1>8, <1>12, <1>13 DEF RunStep
<1> QED
  BY <1>3, <1>10, <1>11, <1>12
  DEF Next, vars, SendByHand, WeekOverdue, Settle, LookForOthers, Restore, RejectSettlement, PeriodEnds,
      StatusByHand, PartnerByHand

LEMMA SentInit == Init => SentInv
<1> SUFFICES ASSUME Init PROVE SentInv
  OBVIOUS
<1>1. TypeOK /\ Shapes
  BY TypeInit
<1> QED BY <1>1 DEF Init, SentInv, SentRow, NoSilentSuspension, Unissued, Idle

LEMMA SentStep == SentInv /\ [Next]_vars => SentInv'
<1> SUFFICES ASSUME SentInv, [Next]_vars PROVE SentInv'
  OBVIOUS
<1>1. TypeOK' /\ Shapes'
  BY TypeStep DEF SentInv
<1>2. NoSilentSuspension'
  BY SentStages, SentStatuses DEF NoSilentSuspension
<1>3. \A w \in Runs : SentRow(w)'
  BY SentRows
<1> QED BY <1>1, <1>2, <1>3 DEF SentInv

(* Nobody is suspended over a letter that was never sent, however many runs  *)
(* overlap, whoever pays meanwhile, and whatever dies in between.            *)
THEOREM NobodySuspendedUnasked == Spec => []NoSilentSuspension
  BY SentInit, SentStep, PTL DEF Spec, SentInv

----------------------------------------------------------------------------
(* Who is charged by whom.                                                   *)

\* An organisation that never changed its partner is counted with the partner it had
\* at first: in its row, in what a run has grouped, and on every invoice.
Placed ==
  /\ \A m \in Orgs \ moved : partner[m] = FirstPartner[m]
  /\ \A w \in Runs, o \in Orgs : \A m \in run[w].groups[o] \ moved : FirstPartner[m] = o
  /\ \A i \in Invoices : \A m \in invoice[i].covers \ moved : FirstPartner[m] = PayerOf(i)

PlacedInv == TypeOK /\ Shapes /\ Placed

LEMMA PlacedOnce == PlacedInv => ChargedOnce
<1> SUFFICES ASSUME PlacedInv, NEW o \in Orgs \ moved, NEW i \in Issued, NEW j \in Issued,
                    o \in invoice[i].covers, o \in invoice[j].covers, PeriodOf(i) = PeriodOf(j)
             PROVE  i = j
  BY DEF ChargedOnce
<1>1. i \in Invoices /\ j \in Invoices
  BY DEF Issued
<1>2. PayerOf(i) = PayerOf(j)
  BY <1>1 DEF PlacedInv, Placed
<1>3. i = <<PayerOf(i), PeriodOf(i)>> /\ j = <<PayerOf(j), PeriodOf(j)>>
  BY <1>1 DEF Invoices, PayerOf, PeriodOf
<1> QED BY <1>2, <1>3

LEMMA PlacedInit == Init => PlacedInv
<1> SUFFICES ASSUME Init PROVE PlacedInv
  OBVIOUS
<1>1. TypeOK /\ Shapes
  BY TypeInit
<1> QED BY <1>1 DEF Init, PlacedInv, Placed, Unissued, Idle

LEMMA PlacedStep == PlacedInv /\ [Next]_vars => PlacedInv'
<1> SUFFICES ASSUME PlacedInv, [Next]_vars PROVE PlacedInv'
  OBVIOUS
<1>0. /\ TypeOK /\ Shapes /\ Placed /\ run \in [Runs -> Work] /\ invoice \in [Invoices -> Bill]
      /\ \A w \in Runs : run[w] \in Work /\ Shape(run[w])
  BY DEF PlacedInv, TypeOK, Work, Bill, Shapes
<1>1. TypeOK' /\ Shapes'
  BY <1>0, TypeStep
<1> SUFFICES Placed'
  BY <1>1 DEF PlacedInv
<1>2. ASSUME NEW w \in Runs, NEW p \in Periods, StartRun(w, p) PROVE Placed'
  <2>1. PICK groups \in {Groups(p)} \cup (IF w = Timer THEN {} ELSE {NoGroups}) :
          run' = [run EXCEPT ![w] = [Idle EXCEPT !.step = "issue", !.groups = groups, !.period = p]]
    BY <1>2 DEF StartRun
  <2>2. \A o \in Orgs : \A m \in groups[o] : m \in Orgs /\ partner[m] = o
    BY <2>1 DEF Groups, NoGroups
  <2>3. run'[w].groups = groups /\ \A v \in Runs : v # w => run'[v] = run[v]
    BY <1>0, <2>1 DEF Idle
  <2>4. UNCHANGED <<partner, invoice, moved>>
    BY <1>2 DEF StartRun, past
  <2> QED BY <1>0, <2>2, <2>3, <2>4 DEF Placed
<1>3. ASSUME NEW w \in Runs, NEW o \in Orgs, Issue(w, o) PROVE Placed'
  <2> DEFINE i == <<o, run[w].period>>
  <2>0. i \in Invoices /\ PayerOf(i) = o
    BY <1>0, <1>3 DEF Issue, Shape, Invoices, PayerOf
  <2>1. \A v \in Runs, q \in Orgs : run'[v].groups[q] \subseteq run[v].groups[q]
    <3>1. \A v \in Runs : v # w => run'[v] = run[v]
      BY <1>0, <1>3 DEF Issue
    <3>2. run'[w].groups = [run[w].groups EXCEPT ![o] = {}] /\ run[w].groups \in [Orgs -> SUBSET Orgs]
      <4>1. \/ run' = [run EXCEPT ![w].groups[o] = {}]
            \/ run' = [run EXCEPT ![w].groups[o] = {}, ![w].step = "mail", ![w].at = i]
        BY <1>3 DEF Issue
      <4>2. CASE run' = [run EXCEPT ![w].groups[o] = {}]
        BY <1>0, <4>2 DEF Work
      <4>3. CASE run' = [run EXCEPT ![w].groups[o] = {}, ![w].step = "mail", ![w].at = i]
        BY <1>0, <4>3 DEF Work
      <4> QED BY <4>1, <4>2, <4>3
    <3> QED BY <3>1, <3>2
  <2>2. \A j \in Invoices : invoice'[j] = invoice[j] \/ (j = i /\ invoice'[j].covers = run[w].groups[o])
    <3>1. \/ UNCHANGED invoice
          \/ invoice' = [invoice EXCEPT ![i] = [Unissued EXCEPT !.state = "issued", !.covers = run[w].groups[o]]]
      BY <1>3 DEF Issue
    <3>2. [Unissued EXCEPT !.state = "issued", !.covers = run[w].groups[o]].covers = run[w].groups[o]
      BY DEF Unissued
    <3> QED BY <1>0, <2>0, <3>1, <3>2
  <2>3. UNCHANGED <<partner, moved>>
    BY <1>3 DEF Issue, past
  <2> QED BY <1>0, <2>0, <2>1, <2>2, <2>3 DEF Placed
<1>4. ASSUME UNCHANGED <<partner, moved>>,
             \A w \in Runs : run'[w].groups = run[w].groups \/ run'[w].groups = NoGroups,
             \A i \in Invoices : invoice'[i].covers = invoice[i].covers
      PROVE  Placed'
  <2>1. \A w \in Runs, o \in Orgs : run'[w].groups[o] \subseteq run[w].groups[o]
    BY <1>4 DEF NoGroups
  <2> QED BY <1>0, <1>4, <2>1 DEF Placed
<1>5. ASSUME NEW w \in Runs, NEW ok \in BOOLEAN, MailInvoice(w, ok) PROVE Placed'
  <2>1. \A v \in Runs : run'[v].groups = run[v].groups
    BY <1>0, <1>5 DEF MailInvoice, Work
  <2>2. \A i \in Invoices : invoice'[i].covers = invoice[i].covers
    BY <1>0, <1>5 DEF MailInvoice, Deliver, Bill
  <2>3. UNCHANGED <<partner, moved>>
    BY <1>5 DEF MailInvoice, past
  <2> QED BY <1>4, <2>1, <2>2, <2>3
<1>6. ASSUME NEW w \in Runs, ReadOverdue(w) PROVE Placed'
  BY <1>0, <1>4, <1>6 DEF ReadOverdue, Idle, NoGroups, past
<1>7. ASSUME NEW w \in Runs, NEW row \in run[w].rows, Dun(w, row) PROVE Placed'
  BY <1>0, <1>4, <1>7 DEF Dun, Work
<1>8. ASSUME NEW w \in Runs, Record(w) PROVE Placed'
  BY <1>0, <1>4, <1>8 DEF Record, Work, Bill, past
<1>9. ASSUME NEW w \in Runs, (\E ok \in BOOLEAN : Letter(w, ok)) \/ Reject(w) PROVE Placed'
  <2>1. \A v \in Runs : run'[v].groups = run[v].groups \/ run'[v].groups = NoGroups
    BY <1>0, <1>9, Dropped
  <2>2. UNCHANGED <<partner, moved, invoice>>
    BY <1>9 DEF Letter, Reject, past
  <2> QED BY <1>4, <2>1, <2>2
<1>10. ASSUME NEW i \in Invoices, SendByHand(i) \/ WeekOverdue(i) \/ Settle(i) PROVE Placed'
  BY <1>0, <1>4, <1>10 DEF SendByHand, Deliver, WeekOverdue, Settle, Bill, past
<1>11. ASSUME NEW o \in Orgs, NEW q \in Orgs, PartnerByHand(o, q) PROVE Placed'
  BY <1>0, <1>11 DEF PartnerByHand, Placed, TypeOK
<1>12. CASE Restart
  BY <1>0, <1>4, <1>12 DEF Restart, Idle, NoGroups
<1>13. ASSUME UNCHANGED <<partner, moved, run, invoice>> PROVE Placed'
  BY <1>4, <1>13
<1>14. ASSUME NEW w \in Runs, RunStep(w) PROVE Placed'
  BY <1>3, <1>5, <1>6, <1>7, <1>8, <1>9, <1>14 DEF RunStep
<1> QED
  BY <1>2, <1>10, <1>11, <1>12, <1>13, <1>14
  DEF Next, vars, past, LookForOthers, Restore, RejectSettlement, PeriodEnds, StatusByHand

(* No organisation is charged twice for a period, however many runs overlap; *)
(* unless its partner changed.                                               *)
THEOREM NobodyChargedTwice == Spec => []ChargedOnce
<1>1. Spec => []PlacedInv
  BY PlacedInit, PlacedStep, PTL DEF Spec
<1> QED BY <1>1, PlacedOnce, PTL

----------------------------------------------------------------------------
(* Letters.                                                                  *)

LEMMA Types ==
  ASSUME TypeOK, Shapes
  PROVE  /\ run \in [Runs -> Work] /\ invoice \in [Invoices -> Bill]
         /\ settling \in [Invoices -> [step : {"no", "look", "restore"}, stage : Stages]]
         /\ letters \in [Invoices -> SUBSET Stages]
         /\ \A w \in Runs : /\ run[w] \in Work /\ Shape(run[w])
                            /\ \A row \in run[w].rows : row \in Row /\ row.id \in Invoices
                            /\ run[w].step \in {"mail", "record", "letter"} => run[w].at \in Invoices
  BY DEF TypeOK, Work, Bill, Shapes, Shape, Row

\* The rows a run has read, when it goes on from its invoices.
LEMMA ReadRows ==
  ASSUME TypeOK, Shapes, NEW w \in Runs, ReadOverdue(w)
  PROVE  /\ run'[w].rows \subseteq ToDun /\ run'[w].at = NoInvoice /\ run'[w].step \in {"idle", "dun"}
         /\ \A v \in Runs : v # w => run'[v] = run[v]
         /\ run[w].step = "issue" /\ UNCHANGED <<status, cause, invoice, settling, past>>
<1>1. PICK rows \in {ToDun, {}} :
        run' = [run EXCEPT ![w] = IF rows = {} THEN Idle ELSE [Idle EXCEPT !.step = "dun", !.rows = rows]]
  BY DEF ReadOverdue
<1>2. run'[w] = IF rows = {} THEN Idle ELSE [Idle EXCEPT !.step = "dun", !.rows = rows]
  BY <1>1, Types
<1>3. run'[w].rows \subseteq ToDun /\ run'[w].at = NoInvoice /\ run'[w].step \in {"idle", "dun"}
  BY <1>2 DEF Idle
<1> QED BY <1>1, <1>3, Types DEF ReadOverdue, past

At(w, i, step) == run[w].step = step /\ run[w].at = i

(* Of an invoice that no run dunned by an outdated row: the stages it was      *)
(* reminded of are not beyond its own; one run at most is about to write a     *)
(* stage, and a higher one; and the letters on their way are of stages that    *)
(* were written, each of another, and of none that it was reminded of.         *)
Rising(i) ==
  /\ \A s \in letters[i] : s <= invoice[i].stage
  /\ \A w \in Runs : At(w, i, "record") =>
       /\ run[w].goal > invoice[i].stage
       /\ \A v \in Runs : At(v, i, "record") => v = w
  /\ \A w \in Runs : At(w, i, "letter") =>
       /\ run[w].goal <= invoice[i].stage /\ run[w].goal \notin letters[i]
       /\ \A v \in Runs : At(v, i, "letter") /\ run[v].goal = run[w].goal => v = w

Ahead == \A w \in Runs : \A row \in run[w].rows : Goal(row) > row.stage

LetterInv ==
  /\ TypeOK /\ Shapes /\ Ahead /\ LetterOnce
  /\ \A i \in Invoices \ raced : Rising(i)

\* What an action leaves alone keeps rising: the stage, the letters, and the runs
\* that are at the invoice; some may have left it.
LEMMA StillRising ==
  ASSUME LetterInv, NEW i \in Invoices, i \notin raced,
         invoice'[i].stage = invoice[i].stage, letters'[i] = letters[i],
         \A w \in Runs : \/ run'[w].at = run[w].at /\ run'[w].step = run[w].step /\ run'[w].goal = run[w].goal
                         \/ run'[w].at # i \/ run'[w].step \notin {"record", "letter"}
  PROVE  Rising(i)'
  BY DEF LetterInv, Rising, At

LEMMA RisingDun ==
  ASSUME LetterInv, NEW w \in Runs, NEW row \in run[w].rows, Dun(w, row), NEW i \in Invoices \ raced'
  PROVE  Rising(i)' /\ i \notin raced
<1>0. TypeOK /\ Shapes
  BY DEF LetterInv
<1>1. i \notin raced /\ UNCHANGED <<invoice, letters>>
  BY DEF Dun
<1>2. \A v \in Runs : v # w => run'[v] = run[v]
  BY <1>0, Types DEF Dun
<1>3. run'[w].step = "record" /\ run'[w].at = row.id /\ run'[w].goal = Goal(row)
  BY <1>0, Types DEF Dun, Work
<1>4. CASE i # row.id
  BY <1>1, <1>2, <1>3, <1>4, StillRising
<1>5. CASE i = row.id
  <2>1. invoice[i].stage = row.stage /\ \A v \in Runs : ~At(v, i, "record")
    BY <1>5 DEF Dun, Stale, At
  <2>2. Goal(row) > row.stage /\ Rising(i)
    BY <1>1 DEF LetterInv, Ahead
  <2> QED BY <1>1, <1>2, <1>3, <1>5, <2>1, <2>2 DEF Rising, At
<1> QED BY <1>1, <1>4, <1>5

LEMMA RisingRecord ==
  ASSUME LetterInv, NEW w \in Runs, Record(w), NEW i \in Invoices \ raced'
  PROVE  Rising(i)' /\ i \notin raced
<1>0. TypeOK /\ Shapes
  BY DEF LetterInv
<1>1. i \notin raced /\ UNCHANGED letters
  BY DEF Record, past
<1>2. \A v \in Runs : v # w => run'[v] = run[v]
  BY <1>0, Types DEF Record
<1>3. run[w].step = "record" /\ run[w].at \in Invoices /\ run[w].goal \in Stages
  BY <1>0, Types DEF Record, Work
<1>4. run'[w].step = "letter" /\ run'[w].at = run[w].at /\ run'[w].goal = run[w].goal
  BY <1>0, Types DEF Record, Work
<1>5. invoice'[i].stage = IF i = run[w].at THEN run[w].goal ELSE invoice[i].stage
  BY <1>0, Types DEF Record, Bill
<1>6. CASE i # run[w].at
  BY <1>1, <1>2, <1>4, <1>5, <1>6, StillRising
<1>7. CASE i = run[w].at
  <2>1. Rising(i) /\ At(w, i, "record")
    BY <1>1, <1>3, <1>7 DEF LetterInv, At
  <2>2. run[w].goal > invoice[i].stage /\ \A v \in Runs : v # w => ~At(v, i, "record")
    BY <2>1 DEF Rising
  <2>3. /\ letters[i] \subseteq 0 .. 3 /\ invoice[i].stage \in 0 .. 3 /\ run[w].goal \in 0 .. 3
        /\ \A v \in Runs : run[v].goal \in 0 .. 3
    BY <1>0, <1>3, Types DEF Bill, Stages, Work
  <2>4. \A v \in Runs : At(v, i, "record")' => FALSE
    BY <1>2, <1>4, <2>2 DEF At
  <2>5. \A s \in letters[i] : s < run[w].goal
    BY <2>1, <2>2, <2>3 DEF Rising
  <2>6. \A v \in Runs \ {w} : At(v, i, "letter")' => At(v, i, "letter") /\ run'[v].goal = run[v].goal
    BY <1>2 DEF At
  <2>7. \A v \in Runs \ {w} : At(v, i, "letter") => run[v].goal < run[w].goal
    BY <2>1, <2>2, <2>3 DEF Rising
  <2>8. \A s \in letters'[i] : s <= invoice'[i].stage
    BY <1>1, <1>5, <1>7, <2>3, <2>5
  <2>9. ASSUME NEW v \in Runs, At(v, i, "letter")'
        PROVE  /\ run'[v].goal <= invoice'[i].stage /\ run'[v].goal \notin letters'[i]
               /\ \A u \in Runs : At(u, i, "letter")' /\ run'[u].goal = run'[v].goal => u = v
    <3>1. CASE v = w
      <4>1. run'[v].goal <= invoice'[i].stage /\ run'[v].goal \notin letters'[i]
        BY <1>1, <1>4, <1>5, <1>7, <2>3, <2>5, <3>1
      <4>2. ASSUME NEW u \in Runs, At(u, i, "letter")', run'[u].goal = run'[v].goal, u # v PROVE FALSE
        BY <1>4, <2>3, <2>6, <2>7, <3>1, <4>2
      <4> QED BY <4>1, <4>2
    <3>2. CASE v # w
      <4>1. /\ At(v, i, "letter") /\ run'[v].goal = run[v].goal /\ run[v].goal < run[w].goal
            /\ run[v].goal \notin letters[i]
        BY <2>1, <2>6, <2>7, <2>9, <3>2 DEF Rising
      <4>2. run'[v].goal <= invoice'[i].stage /\ run'[v].goal \notin letters'[i]
        BY <1>1, <1>5, <1>7, <2>3, <4>1
      <4>3. ASSUME NEW u \in Runs, At(u, i, "letter")', run'[u].goal = run'[v].goal PROVE u = v
        <5>1. u # w
          BY <1>4, <2>3, <4>1, <4>3
        <5> QED BY <2>1, <2>6, <4>1, <4>3, <5>1 DEF Rising
      <4> QED BY <4>2, <4>3
    <3> QED BY <3>1, <3>2
  <2> QED BY <1>1, <2>4, <2>8, <2>9 DEF Rising, At
<1> QED BY <1>1, <1>6, <1>7

LEMMA RisingLetter ==
  ASSUME LetterInv, NEW w \in Runs, NEW ok \in BOOLEAN, Letter(w, ok), NEW i \in Invoices \ raced'
  PROVE  Rising(i)' /\ i \notin raced /\ (i \in twice' => i \in twice)
<1>0. TypeOK /\ Shapes
  BY DEF LetterInv
<1>1. i \notin raced /\ UNCHANGED invoice
  BY DEF Letter
<1>2. run'[w].step \notin {"record", "letter"} /\ \A v \in Runs : v # w => run'[v] = run[v]
  BY <1>0, Dropped
<1>3. run[w].step = "letter" /\ run[w].at \in Invoices
  BY <1>0, Types DEF Letter
<1>4. CASE ~ok \/ i # run[w].at
  <2>1. letters'[i] = letters[i] /\ (i \in twice' => i \in twice)
    BY <1>0, <1>3, <1>4, Types DEF Letter
  <2> QED BY <1>1, <1>2, <2>1, StillRising
<1>5. CASE ok /\ i = run[w].at
  <2>1. Rising(i) /\ At(w, i, "letter")
    BY <1>1, <1>3, <1>5 DEF LetterInv, At
  <2>2. run[w].goal <= invoice[i].stage /\ run[w].goal \notin letters[i]
    BY <2>1 DEF Rising
  <2>3. letters'[i] = letters[i] \cup {run[w].goal} /\ (i \in twice' => i \in twice)
    BY <1>0, <1>5, <2>2, Types DEF Letter
  <2>4. \A v \in Runs : At(v, i, "letter")' => At(v, i, "letter") /\ v # w /\ run'[v].goal = run[v].goal
    BY <1>2 DEF At
  <2>5. \A v \in Runs : At(v, i, "record")' => At(v, i, "record") /\ v # w /\ run'[v].goal = run[v].goal
    BY <1>2 DEF At
  <2>6. \A v \in Runs : At(v, i, "letter")' => run[v].goal # run[w].goal
    BY <2>1, <2>4 DEF Rising
  <2> QED BY <1>1, <2>1, <2>2, <2>3, <2>4, <2>5, <2>6 DEF Rising
<1> QED BY <1>4, <1>5

LEMMA AheadStep ==
  ASSUME LetterInv, [Next]_vars
  PROVE  Ahead'
<1>0. TypeOK /\ Shapes /\ Ahead
  BY DEF LetterInv
<1>1. ASSUME \A w \in Runs : run'[w].rows \subseteq run[w].rows PROVE Ahead'
  BY <1>0, <1>1 DEF Ahead, Goal
<1>2. ASSUME NEW w \in Runs, NEW p \in Periods, StartRun(w, p) PROVE Ahead'
  BY <1>0, <1>1, <1>2, Types DEF StartRun, Idle
<1>3. ASSUME NEW w \in Runs, NEW o \in Orgs, Issue(w, o) PROVE Ahead'
  <2>1. CASE run' = [run EXCEPT ![w].groups[o] = {}]
    BY <1>0, <1>1, <2>1, Types DEF Work
  <2>2. CASE run' = [run EXCEPT ![w].groups[o] = {}, ![w].step = "mail", ![w].at = <<o, run[w].period>>]
    BY <1>0, <1>1, <2>2, Types DEF Work
  <2> QED BY <1>3, <2>1, <2>2 DEF Issue
<1>4. ASSUME NEW w \in Runs, NEW ok \in BOOLEAN, MailInvoice(w, ok) PROVE Ahead'
  BY <1>0, <1>1, <1>4, Types DEF MailInvoice, Work
<1>5. ASSUME NEW w \in Runs, ReadOverdue(w) PROVE Ahead'
  BY <1>0, <1>5, ReadRows, ToDunRows DEF Ahead, Goal
<1>6. ASSUME NEW w \in Runs, NEW row \in run[w].rows, Dun(w, row) PROVE Ahead'
  BY <1>0, <1>1, <1>6, Types DEF Dun, Work
<1>7. ASSUME NEW w \in Runs, Record(w) PROVE Ahead'
  BY <1>0, <1>1, <1>7, Types DEF Record, Work
<1>8. ASSUME NEW w \in Runs, (\E ok \in BOOLEAN : Letter(w, ok)) \/ Reject(w) PROVE Ahead'
  <2>1. \A v \in Runs : run'[v].rows \subseteq run[v].rows
    BY <1>0, <1>8, Dropped
  <2> QED BY <1>1, <2>1
<1>9. CASE Restart
  BY <1>1, <1>9 DEF Restart, Idle
<1>10. ASSUME UNCHANGED run PROVE Ahead'
  BY <1>1, <1>10
<1>11. ASSUME NEW w \in Runs, RunStep(w) PROVE Ahead'
  BY <1>3, <1>4, <1>5, <1>6, <1>7, <1>8, <1>11 DEF RunStep
<1> QED
  BY <1>2, <1>9, <1>10, <1>11
  DEF Next, vars, SendByHand, WeekOverdue, Settle, LookForOthers, Restore, RejectSettlement, PeriodEnds,
      StatusByHand, PartnerByHand

LEMMA LetterInit == Init => LetterInv
<1> SUFFICES ASSUME Init PROVE LetterInv
  OBVIOUS
<1>1. TypeOK /\ Shapes
  BY TypeInit
<1>2. Ahead /\ LetterOnce
  BY DEF Init, Ahead, LetterOnce, Idle
<1>3. \A i \in Invoices : Rising(i)
  BY DEF Init, Rising, At, Idle
<1> QED BY <1>1, <1>2, <1>3 DEF LetterInv

LEMMA LetterStep == LetterInv /\ [Next]_vars => LetterInv'
<1> SUFFICES ASSUME LetterInv, [Next]_vars PROVE LetterInv'
  OBVIOUS
<1>0. TypeOK /\ Shapes
  BY DEF LetterInv
<1>1. TypeOK' /\ Shapes' /\ Ahead'
  BY <1>0, TypeStep, AheadStep
<1> SUFFICES ASSUME NEW i \in Invoices \ raced'
             PROVE  Rising(i)' /\ i \notin raced /\ (i \in twice' => i \in twice)
  BY <1>1 DEF LetterInv, LetterOnce, TypeOK
<1> DEFINE Fine == Rising(i)' /\ i \notin raced /\ (i \in twice' => i \in twice)
<1>2. ASSUME UNCHANGED <<letters, twice, raced>>,
             ~\E w \in Runs : Record(w) /\ run[w].at = i,
             \A w \in Runs : run'[w] = run[w] \/ run'[w].at # i \/ run'[w].step \notin {"record", "letter"}
      PROVE  Fine
  BY <1>0, <1>2, StageStays, StillRising
<1>3. ASSUME NEW w \in Runs, run[w].step # "record", UNCHANGED <<letters, twice, raced>>,
             run'[w].step \notin {"record", "letter"}, \A v \in Runs : v # w => run'[v] = run[v]
      PROVE  Fine
  <2>1. \A v \in Runs : ~Record(v)
    <3> SUFFICES ASSUME NEW v \in Runs, Record(v) PROVE FALSE
      OBVIOUS
    <3>1. v # w /\ run[v].step = "record" /\ run'[v].step = "letter"
      BY <1>0, <1>3, Types DEF Record, Work
    <3> QED BY <1>3, <3>1
  <2> QED BY <1>2, <1>3, <2>1
<1>4. ASSUME NEW w \in Runs, NEW p \in Periods, StartRun(w, p) PROVE Fine
  <2>1. /\ run[w].step # "record" /\ UNCHANGED <<letters, twice, raced>>
        /\ run'[w].step \notin {"record", "letter"} /\ \A v \in Runs : v # w => run'[v] = run[v]
    BY <1>0, <1>4, Types DEF StartRun, Idle, past
  <2> QED BY <1>3, <2>1
<1>5. ASSUME NEW w \in Runs, NEW o \in Orgs, Issue(w, o) PROVE Fine
  <2>1. /\ run[w].step = "issue" /\ UNCHANGED <<letters, twice, raced>>
        /\ \/ run' = [run EXCEPT ![w].groups[o] = {}]
           \/ run' = [run EXCEPT ![w].groups[o] = {}, ![w].step = "mail", ![w].at = <<o, run[w].period>>]
    BY <1>5 DEF Issue, past
  <2>2. run'[w].step \notin {"record", "letter"} /\ \A v \in Runs : v # w => run'[v] = run[v]
    <3>1. CASE run' = [run EXCEPT ![w].groups[o] = {}]
      BY <1>0, <2>1, <3>1, Types DEF Work
    <3>2. CASE run' = [run EXCEPT ![w].groups[o] = {}, ![w].step = "mail", ![w].at = <<o, run[w].period>>]
      BY <1>0, <2>1, <3>2, Types DEF Work
    <3> QED BY <2>1, <3>1, <3>2
  <2> QED BY <1>3, <2>1, <2>2
<1>6. ASSUME NEW w \in Runs, NEW ok \in BOOLEAN, MailInvoice(w, ok) PROVE Fine
  <2>1. /\ run[w].step # "record" /\ UNCHANGED <<letters, twice, raced>>
        /\ run'[w].step \notin {"record", "letter"} /\ \A v \in Runs : v # w => run'[v] = run[v]
    BY <1>0, <1>6, Types DEF MailInvoice, Work, past
  <2> QED BY <1>3, <2>1
<1>7. ASSUME NEW w \in Runs, ReadOverdue(w) PROVE Fine
  <2>1. /\ run[w].step # "record" /\ UNCHANGED <<letters, twice, raced>>
        /\ run'[w].step \notin {"record", "letter"} /\ \A v \in Runs : v # w => run'[v] = run[v]
    BY <1>0, <1>7, ReadRows DEF past
  <2> QED BY <1>3, <2>1
<1>8. ASSUME NEW w \in Runs, NEW row \in run[w].rows, Dun(w, row) PROVE Fine
  <2>1. UNCHANGED twice
    BY <1>8 DEF Dun
  <2> QED BY <1>8, <2>1, RisingDun
<1>9. ASSUME NEW w \in Runs, Record(w) PROVE Fine
  <2>1. UNCHANGED twice
    BY <1>9 DEF Record, past
  <2> QED BY <1>9, <2>1, RisingRecord
<1>10. ASSUME NEW w \in Runs, NEW ok \in BOOLEAN, Letter(w, ok) PROVE Fine
  BY <1>10, RisingLetter
<1>11. ASSUME NEW w \in Runs, Reject(w) PROVE Fine
  <2>1. UNCHANGED <<letters, twice, raced, invoice>>
    BY <1>11 DEF Reject, past
  <2>2. run'[w].step \notin {"record", "letter"} /\ \A v \in Runs : v # w => run'[v] = run[v]
    BY <1>0, <1>11, Dropped
  <2> QED BY <2>1, <2>2, StillRising
<1>12. ASSUME UNCHANGED <<run, letters, twice, raced>> PROVE Fine
  <2>1. \A w \in Runs : ~Record(w)
    BY <1>0, <1>12, Types DEF Record, Work
  <2> QED BY <1>2, <1>12, <2>1
<1>13. CASE Restart
  <2>1. UNCHANGED <<letters, twice, raced, invoice>> /\ \A w \in Runs : run'[w].step = "idle"
    BY <1>13 DEF Restart, Idle
  <2> QED BY <2>1, StillRising
<1>14. ASSUME NEW w \in Runs, RunStep(w) PROVE Fine
  BY <1>5, <1>6, <1>7, <1>8, <1>9, <1>10, <1>11, <1>14 DEF RunStep
<1> QED
  BY <1>4, <1>12, <1>13, <1>14
  DEF Next, vars, past, SendByHand, WeekOverdue, Settle, LookForOthers, Restore, RejectSettlement, PeriodEnds,
      StatusByHand, PartnerByHand

(* No dunning letter goes out twice, however many runs overlap, and whatever *)
(* is paid, rejects or dies in between, unless a run dunned the invoice by a *)
(* row that another run had dunned since: that is what POST                  *)
(* /billing/admin/run beside the hourly run comes to.                        *)
THEOREM NoLetterTwice == Spec => []LetterOnce
  BY LetterInit, LetterStep, PTL DEF Spec, LetterInv

(* What the rows of a run say of the stage is so as long as no other runs.   *)
Fresh == \A w \in Runs : \A row \in run[w].rows : row.stage = invoice[row.id].stage

AloneInv == TypeOK /\ Shapes /\ Fresh /\ raced = {}

LEMMA AloneStep ==
  ASSUME ByHand = {}, AloneInv, [Next]_vars
  PROVE  AloneInv'
<1>0. TypeOK /\ Shapes /\ Fresh /\ raced = {} /\ \A v, w \in Runs : v = w
  BY DEF AloneInv, Runs
<1>1. TypeOK' /\ Shapes'
  BY <1>0, TypeStep
<1>2. ASSUME \A w \in Runs : run'[w].rows \subseteq run[w].rows, \A w \in Runs : ~Record(w) PROVE Fresh'
  <2>1. \A i \in Invoices : invoice'[i].stage = invoice[i].stage
    BY <1>0, <1>2, StageStays
  <2> QED BY <1>0, <1>2, <2>1, Types DEF Fresh
<1>3. ASSUME NEW w \in Runs, Record(w) PROVE Fresh' /\ raced' = {}
  <2>1. run'[w].rows = run[w].rows /\ \A row \in run[w].rows : row.id # run[w].at
    BY <1>0, <1>3, Types DEF Record, Work, Shape
  <2>2. \A i \in Invoices : i # run[w].at => invoice'[i].stage = invoice[i].stage
    BY <1>0, <1>3, Types DEF Record
  <2> QED BY <1>0, <1>3, <2>1, <2>2, Types DEF Fresh, Record, past
<1>4. ASSUME NEW w \in Runs, NEW row \in run[w].rows, Dun(w, row) PROVE Fresh' /\ raced' = {}
  <2>1. ~Stale(row)
    BY <1>0, <1>4 DEF Fresh, Stale, Dun
  <2>2. run'[w].rows \subseteq run[w].rows /\ UNCHANGED invoice
    BY <1>0, <1>4, Types DEF Dun, Work
  <2> QED BY <1>0, <1>4, <2>1, <2>2 DEF Dun, Fresh
<1>5. ASSUME NEW w \in Runs, ReadOverdue(w) PROVE Fresh' /\ raced' = {}
  BY <1>0, <1>5, ReadRows, ToDunRows DEF Fresh, past
<1>6. ASSUME NEW w \in Runs, run[w].step # "record", run'[w].rows \subseteq run[w].rows, UNCHANGED raced
      PROVE  Fresh' /\ raced' = {}
  BY <1>0, <1>2, <1>6 DEF Record
<1>7. ASSUME NEW w \in Runs, NEW p \in Periods, StartRun(w, p) PROVE Fresh' /\ raced' = {}
  <2>1. run[w].step # "record" /\ run'[w].rows \subseteq run[w].rows /\ UNCHANGED raced
    BY <1>0, <1>7, Types DEF StartRun, Idle, past
  <2> QED BY <1>6, <2>1
<1>8. ASSUME NEW w \in Runs, NEW o \in Orgs, Issue(w, o) PROVE Fresh' /\ raced' = {}
  <2>1. run[w].step # "record" /\ UNCHANGED raced
    BY <1>8 DEF Issue, past
  <2>2. run'[w].rows \subseteq run[w].rows
    <3>1. CASE run' = [run EXCEPT ![w].groups[o] = {}]
      BY <1>0, <3>1, Types DEF Work
    <3>2. CASE run' = [run EXCEPT ![w].groups[o] = {}, ![w].step = "mail", ![w].at = <<o, run[w].period>>]
      BY <1>0, <3>2, Types DEF Work
    <3> QED BY <1>8, <3>1, <3>2 DEF Issue
  <2> QED BY <1>6, <2>1, <2>2
<1>9. ASSUME NEW w \in Runs, NEW ok \in BOOLEAN, MailInvoice(w, ok) PROVE Fresh' /\ raced' = {}
  <2>1. run[w].step # "record" /\ run'[w].rows \subseteq run[w].rows /\ UNCHANGED raced
    BY <1>0, <1>9, Types DEF MailInvoice, Work, past
  <2> QED BY <1>6, <2>1
<1>10. ASSUME NEW w \in Runs, (\E ok \in BOOLEAN : Letter(w, ok)) \/ Reject(w) PROVE Fresh' /\ raced' = {}
  <2>1. run'[w].rows \subseteq run[w].rows
    BY <1>0, <1>10, Dropped
  <2>2. UNCHANGED <<raced, invoice>>
    BY <1>10 DEF Letter, Reject, past
  <2> QED BY <1>0, <2>1, <2>2 DEF Fresh
<1>11. ASSUME UNCHANGED <<run, raced>> PROVE Fresh' /\ raced' = {}
  <2>1. \A w \in Runs : ~Record(w)
    BY <1>0, <1>11, Types DEF Record, Work
  <2> QED BY <1>0, <1>2, <1>11, <2>1
<1>12. ASSUME Restart PROVE Fresh' /\ raced' = {}
  <2>1. \A w \in Runs : run'[w].rows = {}
    BY <1>12 DEF Restart, Idle
  <2>2. Fresh'
    BY <2>1 DEF Fresh
  <2> QED BY <1>0, <1>12, <2>2 DEF Restart
<1>13. ASSUME NEW w \in Runs, RunStep(w) PROVE Fresh' /\ raced' = {}
  BY <1>3, <1>4, <1>5, <1>8, <1>9, <1>10, <1>13 DEF RunStep
<1>14. ASSUME NEW i \in Invoices, \/ SendByHand(i) \/ WeekOverdue(i) \/ Settle(i) \/ LookForOthers(i)
                                  \/ Restore(i) \/ RejectSettlement(i)
       PROVE  Fresh' /\ raced' = {}
  BY <1>11, <1>14 DEF past, SendByHand, WeekOverdue, Settle, LookForOthers, Restore, RejectSettlement
<1>15. ASSUME NEW o \in Orgs, (\E s \in Statuses : StatusByHand(o, s)) \/ (\E q \in Orgs : PartnerByHand(o, q))
       PROVE  Fresh' /\ raced' = {}
  BY <1>11, <1>15 DEF StatusByHand, PartnerByHand
<1>16. ASSUME UNCHANGED vars \/ \E p \in Periods : PeriodEnds(p) PROVE Fresh' /\ raced' = {}
  BY <1>11, <1>16 DEF vars, past, PeriodEnds
<1>17. Fresh' /\ raced' = {}
  BY <1>7, <1>12, <1>13, <1>14, <1>15, <1>16 DEF Next
<1> QED BY <1>1, <1>17 DEF AloneInv

(* The hourly run alone sends no dunning letter twice, without exception.    *)
THEOREM HourlyRunSendsOnce ==
  ASSUME ByHand = {}
  PROVE  Spec => [](LetterOnce /\ twice = {})
<1>1. Init => AloneInv
  BY TypeInit DEF Init, AloneInv, Fresh, Idle
<1>2. AloneInv /\ [Next]_vars => AloneInv'
  BY AloneStep
<1>3. Spec => [](raced = {})
  BY <1>1, <1>2, PTL DEF Spec, AloneInv
<1>4. LetterOnce /\ raced = {} => twice = {}
  BY DEF LetterOnce
<1> QED BY <1>3, <1>4, NoLetterTwice, PTL

----------------------------------------------------------------------------
(* Settlement.                                                               *)

\* What a run handles was issued; what is being settled is settled; and the invoice a
\* status is due to covers the organisation.
Real ==
  /\ \A w \in Runs : /\ run[w].at # NoInvoice => invoice[run[w].at].state # "none"
                     /\ \A row \in run[w].rows : invoice[row.id].state # "none"
  /\ \A i \in Invoices : settling[i].step # "no" => invoice[i].state = "settled"
  /\ \A o \in Orgs : cause[o] # NoInvoice => o \in invoice[cause[o]].covers /\ invoice[cause[o]].state # "none"

(* Of an invoice whose settlement met nothing that keeps it from lifting what *)
(* the invoice has set: once it is settled, whoever is held over it is about  *)
(* to be released, and who is suspended over it had come to its last stage.   *)
Lifted(i) ==
  invoice[i].state = "settled" =>
    \A o \in Orgs : cause[o] = i /\ status[o] \in {"past_due", "suspended"} =>
      /\ settling[i].step # "no"
      /\ status[o] = "suspended" => settling[i].stage >= 3

DebtInv == TypeOK /\ Shapes /\ Real /\ \A i \in Invoices \ unlifted : Lifted(i)

\* Invoices stay issued, for whom they are, and stay settled.
LEMMA Evolve ==
  ASSUME TypeOK, Shapes, [Next]_vars, NEW i \in Invoices
  PROVE  /\ invoice[i].state # "none" => invoice'[i].state # "none" /\ invoice'[i].covers = invoice[i].covers
         /\ invoice[i].state = "settled" => invoice'[i].state = "settled"
<1>0. invoice \in [Invoices -> Bill]
  BY DEF TypeOK, Bill
<1> DEFINE Goes == /\ invoice[i].state # "none" => invoice'[i].state # "none" /\ invoice'[i].covers = invoice[i].covers
                   /\ invoice[i].state = "settled" => invoice'[i].state = "settled"
<1>1. ASSUME NEW w \in Runs, NEW o \in Orgs, Issue(w, o) PROVE Goes
  BY <1>0, <1>1 DEF Issue, Unissued, Bill
<1>2. ASSUME NEW w \in Runs, NEW ok \in BOOLEAN, MailInvoice(w, ok) PROVE Goes
  BY <1>0, <1>2 DEF MailInvoice, Deliver, Bill
<1>3. ASSUME NEW w \in Runs, Record(w) PROVE Goes
  BY <1>0, <1>3 DEF Record, Bill
<1>4. ASSUME NEW j \in Invoices, SendByHand(j) \/ WeekOverdue(j) \/ Settle(j) PROVE Goes
  BY <1>0, <1>4 DEF SendByHand, Deliver, WeekOverdue, Settle, Bill
<1>5. ASSUME UNCHANGED invoice PROVE Goes
  BY <1>5
<1>6. ASSUME NEW w \in Runs, RunStep(w) PROVE Goes
  BY <1>1, <1>2, <1>3, <1>5, <1>6 DEF RunStep, ReadOverdue, Dun, Letter, Reject
<1> QED
  BY <1>4, <1>5, <1>6
  DEF Next, vars, StartRun, LookForOthers, Restore, RejectSettlement, PeriodEnds, StatusByHand,
      PartnerByHand, Restart

LEMMA RealStep ==
  ASSUME TypeOK, Shapes, Real, [Next]_vars
  PROVE  Real'
<1>0. TypeOK /\ Shapes /\ Real
  OBVIOUS
<1>1. ASSUME NEW w \in Runs
      PROVE  /\ run'[w].at # NoInvoice => run'[w].at \in Invoices /\ invoice'[run'[w].at].state # "none"
             /\ \A row \in run'[w].rows : row.id \in Invoices /\ invoice'[row.id].state # "none"
  <2> DEFINE Fine == /\ run'[w].at # NoInvoice => run'[w].at \in Invoices /\ invoice'[run'[w].at].state # "none"
                     /\ \A row \in run'[w].rows : row.id \in Invoices /\ invoice'[row.id].state # "none"
  <2>0. /\ run[w] \in Work /\ \A row \in run[w].rows : row.id \in Invoices /\ invoice[row.id].state # "none"
        /\ run[w].at # NoInvoice => run[w].at \in Invoices /\ invoice[run[w].at].state # "none"
    BY <1>0, Types DEF Real, Work
  <2>1. ASSUME run'[w].at = run[w].at \/ run'[w].at = NoInvoice, run'[w].rows \subseteq run[w].rows PROVE Fine
    BY <1>0, <2>0, <2>1, Evolve
  <2>2. ASSUME NEW v \in Runs, NEW p \in Periods, StartRun(v, p) PROVE Fine
    BY <2>1, <2>2, Types DEF StartRun, Idle
  <2>3. ASSUME NEW v \in Runs, NEW o \in Orgs, Issue(v, o) PROVE Fine
    <3> DEFINE i == <<o, run[v].period>>
    <3>0. run[v].step = "issue" /\ i \in Invoices
      BY <2>3, Types DEF Issue, Shape, Invoices
    <3>1. CASE run' = [run EXCEPT ![v].groups[o] = {}]
      <4>1. run'[w].at = run[w].at /\ run'[w].rows = run[w].rows
        BY <3>1, Types DEF Work
      <4> QED BY <2>1, <4>1
    <3>2. CASE /\ run' = [run EXCEPT ![v].groups[o] = {}, ![v].step = "mail", ![v].at = i]
               /\ invoice' = [invoice EXCEPT ![i] = [Unissued EXCEPT !.state = "issued", !.covers = run[v].groups[o]]]
      <4>1. run'[w].rows = run[w].rows /\ run'[w].at = IF w = v THEN i ELSE run[w].at
        BY <3>2, Types DEF Work
      <4>2. invoice'[i].state = "issued"
        BY <3>0, <3>2, Types DEF Unissued
      <4>3. \A j \in Invoices : invoice[j].state # "none" => invoice'[j].state # "none"
        BY <1>0, Evolve
      <4> QED BY <2>0, <3>0, <4>1, <4>2, <4>3
    <3> QED BY <2>3, <3>1, <3>2 DEF Issue
  <2>4. ASSUME NEW v \in Runs, NEW ok \in BOOLEAN, MailInvoice(v, ok) PROVE Fine
    <3>1. run'[w].rows = run[w].rows /\ (run'[w].at = run[w].at \/ run'[w].at = NoInvoice)
      BY <2>4, Types DEF MailInvoice, Work
    <3> QED BY <2>1, <3>1
  <2>5. ASSUME NEW v \in Runs, ReadOverdue(v) PROVE Fine
    <3>1. CASE v # w
      BY <1>0, <2>1, <2>5, <3>1, Types DEF ReadOverdue
    <3>2. CASE v = w
      <4>1. run'[w].rows \subseteq ToDun /\ run'[w].at = NoInvoice /\ UNCHANGED invoice
        BY <1>0, <2>5, <3>2, Types, ReadRows
      <4> QED BY <1>0, <4>1, ToDunRows DEF Row
    <3> QED BY <3>1, <3>2
  <2>6. ASSUME NEW v \in Runs, NEW row \in run[v].rows, Dun(v, row) PROVE Fine
    <3>1. row.id \in Invoices /\ invoice[row.id].state # "none" /\ UNCHANGED invoice
      BY <1>0, <2>6, Types DEF Real, Dun
    <3>2. run'[w] = run[w] \/ (run'[w].rows \subseteq run[w].rows /\ run'[w].at = row.id)
      BY <2>6, Types DEF Dun, Work
    <3> QED BY <2>0, <3>1, <3>2
  <2>7. ASSUME NEW v \in Runs, Record(v) PROVE Fine
    <3>1. run'[w].rows = run[w].rows /\ run'[w].at = run[w].at
      BY <2>7, Types DEF Record, Work
    <3> QED BY <2>1, <3>1
  <2>8. ASSUME NEW v \in Runs, (\E ok \in BOOLEAN : Letter(v, ok)) \/ Reject(v) PROVE Fine
    <3>1. run'[w] = run[w] \/ (run'[w].rows \subseteq run[w].rows /\ run'[w].at = NoInvoice)
      BY <1>0, <2>8, Dropped
    <3> QED BY <2>1, <3>1
  <2>9. CASE Restart
    BY <2>1, <2>9 DEF Restart, Idle
  <2>10. ASSUME UNCHANGED run PROVE Fine
    BY <2>1, <2>10
  <2>11. ASSUME NEW v \in Runs, RunStep(v) PROVE Fine
    BY <2>3, <2>4, <2>5, <2>6, <2>7, <2>8, <2>11 DEF RunStep
  <2> QED
    BY <2>2, <2>9, <2>10, <2>11
    DEF Next, vars, SendByHand, WeekOverdue, Settle, LookForOthers, Restore, RejectSettlement, PeriodEnds,
        StatusByHand, PartnerByHand
<1>2. ASSUME NEW i \in Invoices, settling'[i].step # "no" PROVE invoice'[i].state = "settled"
  <2>1. CASE settling[i].step # "no"
    BY <1>0, <2>1, Evolve DEF Real
  <2>2. CASE settling'[i] = settling[i]
    BY <1>2, <2>1, <2>2
  <2>3. ASSUME NEW j \in Invoices, Settle(j) PROVE invoice'[i].state = "settled"
    BY <2>2, <2>3, Types DEF Settle, Bill
  <2>4. ASSUME NEW j \in Invoices, LookForOthers(j) \/ Restore(j) \/ RejectSettlement(j)
        PROVE  invoice'[i].state = "settled"
    BY <2>1, <2>2, <2>4, Types DEF LookForOthers, Restore, RejectSettlement
  <2>5. CASE Restart
    BY <1>2, <2>5 DEF Restart, Settled
  <2>6. CASE UNCHANGED settling
    BY <2>2, <2>6
  <2>7. ASSUME NEW w \in Runs, RunStep(w) PROVE invoice'[i].state = "settled"
    BY <2>6, <2>7 DEF RunStep, Issue, MailInvoice, ReadOverdue, Dun, Record, Letter, Reject
  <2> QED
    BY <2>3, <2>4, <2>5, <2>6, <2>7
    DEF Next, vars, StartRun, SendByHand, WeekOverdue, PeriodEnds, StatusByHand, PartnerByHand
<1>3. ASSUME NEW o \in Orgs, cause'[o] # NoInvoice
      PROVE  o \in invoice'[cause'[o]].covers /\ invoice'[cause'[o]].state # "none"
  <2> DEFINE Due == o \in invoice'[cause'[o]].covers /\ invoice'[cause'[o]].state # "none"
  <2>0. cause[o] \in Invoices \cup {NoInvoice}
    BY <1>0 DEF TypeOK
  <2>1. CASE cause'[o] = cause[o]
    BY <1>0, <1>3, <2>0, <2>1, Evolve DEF Real
  <2>2. ASSUME NEW w \in Runs, NEW row \in run[w].rows, Dun(w, row) PROVE Due
    <3>1. row.id \in Invoices /\ invoice[row.id].state # "none" /\ UNCHANGED invoice
      BY <1>0, <2>2, Types DEF Real, Dun
    <3>2. cause'[o] = cause[o] \/ (cause'[o] = row.id /\ o \in invoice[row.id].covers)
      BY <2>2 DEF Dun, SetStatus
    <3> QED BY <2>1, <3>1, <3>2
  <2>3. ASSUME NEW i \in Invoices, Restore(i) PROVE Due
    BY <1>3, <2>1, <2>3 DEF Restore, SetStatus
  <2>4. ASSUME NEW q \in Orgs, NEW s \in Statuses, StatusByHand(q, s) PROVE Due
    BY <1>0, <1>3, <2>1, <2>4 DEF StatusByHand, TypeOK
  <2>5. CASE UNCHANGED cause
    BY <2>1, <2>5
  <2>6. ASSUME NEW w \in Runs, RunStep(w) PROVE Due
    BY <2>2, <2>5, <2>6 DEF RunStep, Issue, MailInvoice, ReadOverdue, Record, Letter, Reject, past
  <2> QED
    BY <2>3, <2>4, <2>5, <2>6
    DEF Next, vars, past, StartRun, SendByHand, WeekOverdue, Settle, LookForOthers, RejectSettlement,
        PeriodEnds, PartnerByHand, Restart
<1> QED BY <1>1, <1>2, <1>3 DEF Real

LEMMA LiftedDun ==
  ASSUME DebtInv, NEW w \in Runs, NEW row \in run[w].rows, Dun(w, row), NEW i \in Invoices \ unlifted'
  PROVE  Lifted(i)'
<1>1. i \notin unlifted /\ UNCHANGED <<invoice, settling>> /\ (i = row.id => invoice[i].state = "issued")
  BY DEF Dun
<1>2. \A o \in Orgs : \/ status'[o] = status[o] /\ cause'[o] = cause[o]
                      \/ cause'[o] = row.id
  BY DEF Dun, SetStatus
<1>3. Lifted(i)
  BY <1>1 DEF DebtInv
<1> QED BY <1>1, <1>2, <1>3 DEF Lifted

LEMMA LiftedSettle ==
  ASSUME DebtInv, NEW j \in Invoices, Settle(j), NEW i \in Invoices \ unlifted'
  PROVE  Lifted(i)'
<1>0. TypeOK /\ Shapes
  BY DEF DebtInv
<1>1. i \notin unlifted /\ UNCHANGED <<status, cause>> /\ (i = j => ~Halfway(i))
  BY DEF Settle
<1>2. CASE i # j
  <2>1. invoice'[i] = invoice[i] /\ settling'[i] = settling[i] /\ Lifted(i)
    BY <1>0, <1>1, <1>2, Types DEF Settle, DebtInv
  <2> QED BY <1>1, <2>1 DEF Lifted
<1>3. CASE i = j
  <2>1. settling'[i].step = "look" /\ settling'[i].stage = invoice[i].stage
    BY <1>0, <1>3, Types DEF Settle
  <2>2. invoice[i].stage \in 0 .. 3
    BY <1>0, Types DEF Bill, Stages
  <2>3. ASSUME NEW o \in Orgs, cause'[o] = i, status'[o] = "suspended" PROVE settling'[i].stage >= 3
    <3>1. cause[o] = i /\ status[o] = "suspended" /\ ~Halfway(i)
      BY <1>1, <1>3, <2>3
    <3>2. ~(invoice[i].stage < 3)
      BY <3>1 DEF Halfway
    <3> QED BY <2>1, <2>2, <3>2
  <2>4. settling'[i].step # "no"
    BY <2>1
  <2> QED BY <2>3, <2>4 DEF Lifted
<1> QED BY <1>2, <1>3

LEMMA LiftedLook ==
  ASSUME DebtInv, NEW j \in Invoices, LookForOthers(j), NEW i \in Invoices \ unlifted'
  PROVE  Lifted(i)'
<1>0. TypeOK /\ Shapes
  BY DEF DebtInv
<1>1. i \notin unlifted /\ UNCHANGED <<status, cause, invoice>> /\ Lifted(i)
  BY DEF LookForOthers, DebtInv
<1>2. CASE i # j
  <2>1. settling'[i] = settling[i]
    BY <1>0, <1>2, Types DEF LookForOthers
  <2> QED BY <1>1, <2>1 DEF Lifted
<1>3. CASE i = j
  <2>1. settling' = [settling EXCEPT ![i] = [settling[i] EXCEPT !.step = "restore"]]
    BY <1>3 DEF LookForOthers
  <2>2. settling'[i].step = "restore" /\ settling'[i].stage = settling[i].stage
    BY <1>0, <2>1, Types
  <2> QED BY <1>1, <2>2 DEF Lifted
<1> QED BY <1>2, <1>3

LEMMA LiftedRestore ==
  ASSUME DebtInv, NEW j \in Invoices, Restore(j), NEW i \in Invoices \ unlifted'
  PROVE  Lifted(i)'
<1>0. TypeOK /\ Shapes /\ Real
  BY DEF DebtInv
<1>1. i \notin unlifted /\ UNCHANGED invoice /\ Lifted(i) /\ i # NoInvoice
  BY BillingConstants DEF Restore, DebtInv
<1>2. \A o \in Orgs : \/ status'[o] = status[o] /\ cause'[o] = cause[o]
                      \/ cause'[o] = NoInvoice
  BY DEF Restore, SetStatus
<1>3. CASE i # j
  <2>1. settling'[i] = settling[i]
    BY <1>0, <1>3, Types DEF Restore
  <2> QED BY <1>1, <1>2, <2>1 DEF Lifted
<1>4. CASE i = j
  <2> SUFFICES ASSUME invoice[i].state = "settled", NEW o \in Orgs, cause'[o] = i,
                      status'[o] \in {"past_due", "suspended"}
               PROVE  FALSE
    BY <1>1 DEF Lifted
  <2>1. status'[o] = status[o] /\ cause[o] = i
    BY <1>1, <1>2
  <2>2. o \in invoice[i].covers
    BY <1>0, <1>1, <2>1 DEF Real
  <2>3. status[o] = "suspended" => settling[i].stage >= 3
    BY <1>1, <2>1 DEF Lifted
  <2>4. cause'[o] = NoInvoice
    BY <1>4, <2>1, <2>2, <2>3 DEF Restore, SetStatus
  <2> QED BY <1>1, <2>4
<1> QED BY <1>3, <1>4

LEMMA DebtInit == Init => DebtInv
<1> SUFFICES ASSUME Init PROVE DebtInv
  OBVIOUS
<1>1. TypeOK /\ Shapes
  BY TypeInit
<1>2. Real
  BY DEF Init, Real, Idle, Settled
<1>3. \A i \in Invoices : Lifted(i)
  BY DEF Init, Lifted, Unissued
<1> QED BY <1>1, <1>2, <1>3 DEF DebtInv

LEMMA DebtStep == DebtInv /\ [Next]_vars => DebtInv'
<1> SUFFICES ASSUME DebtInv, [Next]_vars PROVE DebtInv'
  OBVIOUS
<1>0. TypeOK /\ Shapes /\ Real
  BY DEF DebtInv
<1>1. TypeOK' /\ Shapes' /\ Real'
  BY <1>0, TypeStep, RealStep
<1> SUFFICES ASSUME NEW i \in Invoices \ unlifted' PROVE Lifted(i)'
  BY <1>1 DEF DebtInv
<1>2. ASSUME UNCHANGED <<status, cause, settling, unlifted>>,
             invoice'[i].state = invoice[i].state \/ invoice'[i].state = "issued"
      PROVE  Lifted(i)'
  BY <1>2 DEF DebtInv, Lifted
<1>3. ASSUME NEW w \in Runs, NEW o \in Orgs, Issue(w, o) PROVE Lifted(i)'
  <2> DEFINE j == <<o, run[w].period>>
             new == [Unissued EXCEPT !.state = "issued", !.covers = run[w].groups[o]]
  <2>1. UNCHANGED invoice \/ invoice' = [invoice EXCEPT ![j] = new]
    BY <1>3 DEF Issue
  <2>2. new.state = "issued"
    BY DEF Unissued
  <2> HIDE DEF j, new
  <2>3. invoice'[i].state = invoice[i].state \/ invoice'[i].state = "issued"
    BY <1>0, <2>1, <2>2, Types
  <2>4. UNCHANGED <<status, cause, settling, unlifted>>
    BY <1>3 DEF Issue, past
  <2> QED BY <1>2, <2>3, <2>4
<1>4. ASSUME NEW w \in Runs, NEW ok \in BOOLEAN, MailInvoice(w, ok) PROVE Lifted(i)'
  <2>0. UNCHANGED invoice \/ invoice' = [invoice EXCEPT ![run[w].at] = [invoice[run[w].at] EXCEPT !.sent = TRUE]]
    BY <1>4 DEF MailInvoice, Deliver
  <2>1. invoice'[i].state = invoice[i].state
    BY <1>0, <2>0, Types DEF Bill
  <2>2. UNCHANGED <<status, cause, settling, unlifted>>
    BY <1>4 DEF MailInvoice, past
  <2> QED BY <1>2, <2>1, <2>2
<1>5. ASSUME NEW w \in Runs, Record(w) PROVE Lifted(i)'
  <2>1. invoice'[i].state = invoice[i].state
    BY <1>0, <1>5, Types DEF Record, Bill
  <2>2. UNCHANGED <<status, cause, settling, unlifted>>
    BY <1>5 DEF Record, past
  <2> QED BY <1>2, <2>1, <2>2
<1>6. ASSUME UNCHANGED <<status, cause, settling, unlifted, invoice>> PROVE Lifted(i)'
  BY <1>2, <1>6
<1>7. ASSUME NEW w \in Runs, RunStep(w) PROVE Lifted(i)'
  BY <1>3, <1>4, <1>5, <1>6, <1>7, LiftedDun DEF RunStep, ReadOverdue, Letter, Reject, past
<1>8. ASSUME NEW j \in Invoices, SendByHand(j) \/ WeekOverdue(j) PROVE Lifted(i)'
  <2>1. invoice'[i].state = invoice[i].state
    BY <1>0, <1>8, Types DEF SendByHand, Deliver, WeekOverdue, Bill
  <2> QED BY <1>2, <1>8, <2>1 DEF SendByHand, Deliver, WeekOverdue, past
<1>9. ASSUME NEW j \in Invoices, RejectSettlement(j) PROVE Lifted(i)'
  <2>1. i \notin unlifted /\ i # j /\ UNCHANGED <<status, cause, invoice>>
    BY <1>9 DEF RejectSettlement
  <2>2. settling'[i] = settling[i]
    BY <1>0, <1>9, <2>1, Types DEF RejectSettlement
  <2> QED BY <2>1, <2>2 DEF DebtInv, Lifted
<1>10. CASE Restart
  <2>1. i \notin unlifted /\ settling[i].step = "no" /\ UNCHANGED <<status, cause, invoice>>
    BY <1>10 DEF Restart
  <2> QED BY <2>1 DEF DebtInv, Lifted
<1>11. ASSUME NEW o \in Orgs, NEW s \in Statuses, StatusByHand(o, s) PROVE Lifted(i)'
  <2>1. i \notin unlifted /\ i # NoInvoice /\ UNCHANGED <<settling, invoice>>
    BY <1>11, BillingConstants DEF StatusByHand
  <2>2. \A q \in Orgs : cause'[q] = i => cause[q] = i /\ status'[q] = status[q]
    BY <1>0, <1>11, <2>1 DEF StatusByHand, TypeOK
  <2> QED BY <2>1, <2>2 DEF DebtInv, Lifted
<1> QED
  BY <1>6, <1>7, <1>8, <1>9, <1>10, <1>11, LiftedSettle, LiftedLook, LiftedRestore
  DEF Next, vars, past, StartRun, PeriodEnds, PartnerByHand

(* Nobody stays past_due or suspended over an invoice that is settled, unless *)
(* a run dunned it after that, or had suspended without writing the stage, or *)
(* the settlement met another invoice that was being dunned, a rejected query *)
(* or a restart.                                                              *)
THEOREM PaymentRestores == Spec => []HeldForDebt
<1>1. DebtInv => HeldForDebt
  <2> SUFFICES ASSUME DebtInv, NEW o \in Orgs, status[o] \in {"past_due", "suspended"},
                      cause[o] # NoInvoice, cause[o] \notin unlifted
               PROVE  invoice[cause[o]].state = "issued" \/ settling[cause[o]].step # "no"
    BY DEF HeldForDebt
  <2>1. cause[o] \in Invoices
    BY DEF DebtInv, TypeOK
  <2>2. invoice[cause[o]].state \in {"issued", "settled"}
    BY <2>1, Types DEF DebtInv, Real, Bill
  <2> QED BY <2>1, <2>2 DEF DebtInv, Lifted
<1>2. Spec => []DebtInv
  BY DebtInit, DebtStep, PTL DEF Spec
<1> QED BY <1>1, <1>2, PTL
=============================================================================
