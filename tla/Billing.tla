------------------------------ MODULE Billing ------------------------------
(***************************************************************************)
(* Invoices and dunning of services/billing.js, and the status of the      *)
(* organisations they move: the hourly run, POST /billing/admin/run beside *)
(* it, payment, annulment and sending by hand, and a superadmin who sets   *)
(* statuses and partners.                                                  *)
(*                                                                         *)
(* A run waits for PostgreSQL or the mail server between its steps, and    *)
(* acts on the rows it read.  Amounts are left out; time is the order in   *)
(* which periods end and invoices reach days 7, 14 and 21.                 *)
(***************************************************************************)
EXTENDS Integers, FiniteSets

CONSTANTS
  Orgs,
  FirstPartner,  \* the payer of each organisation at first: its partner, or itself
  Periods,       \* calendar months, numbered
  Timer,         \* the hourly run
  ByHand,        \* bound: runs asked for by the superadmin at once
  SetByHand,     \* bound: statuses set by hand, or by the end of a trial
  NoInvoice,
  MaxIssued,     \* bound: invoices
  MaxIncidents   \* bound: restarts, queries and mails that fail, statuses and partners set by hand

Statuses == {"trial", "active", "past_due", "suspended", "closed"}
Runs     == {Timer} \cup ByHand
Invoices == Orgs \X Periods     \* UNIQUE (tenant_id, period_start)
PayerOf(i)  == i[1]
PeriodOf(i) == i[2]

ASSUME BillingConstants ==
  /\ FirstPartner \in [Orgs -> Orgs] /\ \A o \in Orgs : FirstPartner[FirstPartner[o]] = FirstPartner[o]
  /\ Periods \subseteq Nat /\ IsFiniteSet(Orgs) /\ IsFiniteSet(Periods)
  /\ Timer \notin ByHand /\ SetByHand \subseteq Statuses /\ NoInvoice \notin Invoices
  /\ MaxIssued \in Nat /\ MaxIncidents \in Nat

VARIABLES
  status,        \* tenants.status
  partner,       \* the payer of each organisation
  over,          \* periods that have ended
  invoice,       \* the rows of invoices
  run,           \* the runs under way
  settling,      \* markPaid and voidInvoice under way
  cause,         \* history: the invoice whose dunning set the status
  letters, twice, \* history: the stages each invoice was reminded of; invoices reminded of one again
  raced,         \* history: invoices a run dunned by a row that another run had dunned since
  unlifted,      \* history: invoices whose settlement could not lift what they had set
  moved,         \* history: organisations that changed their partner
  incidents

past == <<cause, letters, twice, raced, unlifted, moved>>
vars == <<status, partner, over, invoice, run, settling, past, incidents>>

----------------------------------------------------------------------------
BILLABLE_STATUSES == {"active", "past_due"}
Stages   == 0 .. 3              \* none, past_due, reminder, suspended

Unissued == [state |-> "none", covers |-> {}, reached |-> 0, sent |-> FALSE, stage |-> 0]
Idle     == [step |-> "idle", groups |-> [o \in Orgs |-> {}], period |-> 0, rows |-> {},
             at |-> NoInvoice, goal |-> 0]
Settled  == [step |-> "no", stage |-> 0]
Issued   == {i \in Invoices : invoice[i].state # "none"}
Incident == incidents < MaxIncidents /\ incidents' = incidents + 1

\* A row as a run read it.
Row == [id : Invoices, reached : Stages, sent : BOOLEAN, stage : Stages]

TypeOK ==
  /\ status \in [Orgs -> Statuses] /\ partner \in [Orgs -> Orgs]
  /\ over \subseteq Periods
  /\ invoice \in [Invoices -> [state : {"none", "issued", "settled"}, covers : SUBSET Orgs,
                               reached : Stages, sent : BOOLEAN, stage : Stages]]
  /\ run \in [Runs -> [step : {"idle", "issue", "mail", "dun", "record", "letter"},
                       groups : [Orgs -> SUBSET Orgs], period : Nat, rows : SUBSET Row,
                       at : Invoices \cup {NoInvoice}, goal : Stages]]
  /\ settling \in [Invoices -> [step : {"no", "look", "restore"}, stage : Stages]]
  /\ cause \in [Orgs -> Invoices \cup {NoInvoice}]
  /\ letters \in [Invoices -> SUBSET Stages] /\ twice \subseteq Invoices
  /\ raced \subseteq Invoices /\ unlifted \subseteq Invoices /\ moved \subseteq Orgs
  /\ incidents \in Nat

Init ==
  /\ status = [o \in Orgs |-> "active"]
  /\ partner = FirstPartner
  /\ over = {}
  /\ invoice = [i \in Invoices |-> Unissued]
  /\ run = [w \in Runs |-> Idle] /\ settling = [i \in Invoices |-> Settled]
  /\ cause = [o \in Orgs |-> NoInvoice]
  /\ letters = [i \in Invoices |-> {}] /\ twice = {} /\ raced = {} /\ unlifted = {} /\ moved = {}
  /\ incidents = 0

----------------------------------------------------------------------------
(* generateInvoices.                                                        *)

\* Faulty variant: a client is a payer of its own, too.
GroupsOfAll(p) ==
  [o \in Orgs |-> IF status[o] \in BILLABLE_STATUSES /\ invoice[<<o, p>>] = Unissued
                  THEN {m \in Orgs : (m = o \/ partner[m] = o) /\ status[m] \in BILLABLE_STATUSES} ELSE {}]

\* payerGroups: a payer and its clients, those that are billable; the payers that
\* have their invoice of the period are passed over later, and left out here.
Groups(p) ==
  [o \in Orgs |-> IF partner[o] = o /\ status[o] \in BILLABLE_STATUSES /\ invoice[<<o, p>>] = Unissued
                  THEN {m \in Orgs : partner[m] = o /\ status[m] \in BILLABLE_STATUSES} ELSE {}]

\* Nobody is taken beyond past_due over a letter that was never sent.
\* Faulty variant: the cap is forgotten.
UncappedGoal(row) == row.reached
Goal(row) == IF row.sent \/ row.reached < 1 THEN row.reached ELSE 1

\* Faulty variant: the first stage only.
ToDunOnce ==
  {row \in {[id |-> i, reached |-> invoice[i].reached, sent |-> invoice[i].sent,
             stage |-> invoice[i].stage] : i \in {j \in Invoices : invoice[j].state = "issued"}} :
     Goal(row) > row.stage /\ row.stage = 0}

\* runDunning: the rows of its SELECT; those that have reached nothing new are
\* passed over later, and left out here.
ToDun ==
  {row \in {[id |-> i, reached |-> invoice[i].reached, sent |-> invoice[i].sent,
             stage |-> invoice[i].stage] : i \in {j \in Invoices : invoice[j].state = "issued"}} :
     Goal(row) > row.stage}

NoGroups == [o \in Orgs |-> {}]

\* runOnce, unless it is `running'; the period is the last one.  By hand, `running'
\* is not asked, the period is any that is over, and either half may be left out.
StartRun(w, p) ==
  /\ run[w].step = "idle"
  /\ p \in over /\ (w = Timer => \A q \in over : q <= p)
  /\ \E groups \in {Groups(p)} \cup (IF w = Timer THEN {} ELSE {NoGroups}) :
       /\ groups # NoGroups \/ ToDun # {}
       /\ run' = [run EXCEPT ![w] = [Idle EXCEPT !.step = "issue", !.groups = groups, !.period = p]]
  /\ UNCHANGED <<status, partner, over, invoice, settling, past, incidents>>

\* One transaction: the row, unless it exists by now.  An amount of zero makes
\* no invoice.
Issue(w, o) ==
  LET i == <<o, run[w].period>> IN
  /\ run[w].step = "issue" /\ run[w].groups[o] # {}
  /\ \/ /\ invoice[i] = Unissued /\ Cardinality(Issued) < MaxIssued
        /\ invoice' = [invoice EXCEPT ![i] = [Unissued EXCEPT !.state = "issued", !.covers = run[w].groups[o]]]
        /\ run' = [run EXCEPT ![w].groups[o] = {}, ![w].step = "mail", ![w].at = i]
     \/ /\ run' = [run EXCEPT ![w].groups[o] = {}]
        /\ UNCHANGED invoice
  /\ UNCHANGED <<status, partner, over, settling, past, incidents>>

\* sendInvoiceEmail, from here or by hand: sent_at, if there is a recipient and
\* the mail server takes it.
Deliver(i, ok) ==
  IF ok THEN invoice' = [invoice EXCEPT ![i].sent = TRUE] /\ UNCHANGED incidents
        ELSE Incident /\ UNCHANGED invoice

MailInvoice(w, ok) ==
  /\ run[w].step = "mail"
  /\ Deliver(run[w].at, ok)
  /\ run' = [run EXCEPT ![w].step = "issue", ![w].at = NoInvoice]
  /\ UNCHANGED <<status, partner, over, settling, past>>

SendByHand(i) ==
  /\ invoice[i].state # "none" /\ ~invoice[i].sent
  /\ Deliver(i, TRUE)
  /\ UNCHANGED <<status, partner, over, run, settling, past>>

----------------------------------------------------------------------------
(* runDunning.                                                              *)

ReadOverdue(w) ==
  /\ run[w].step = "issue" /\ run[w].groups = NoGroups
  /\ \E rows \in {ToDun} \cup (IF w = Timer THEN {} ELSE {{}}) :
       run' = [run EXCEPT ![w] = IF rows = {} THEN Idle ELSE [Idle EXCEPT !.step = "dun", !.rows = rows]]
  /\ UNCHANGED <<status, partner, over, invoice, settling, past, incidents>>

\* setStatus: one UPDATE; what moves is remembered with the invoice it is for.
SetStatus(orgs, to, from, i) ==
  LET hit == {o \in orgs : status[o] \in from} IN
  /\ status' = [o \in Orgs |-> IF o \in hit THEN to ELSE status[o]]
  /\ cause'  = [o \in Orgs |-> IF o \in hit THEN i ELSE cause[o]]

\* Another run has dunned the invoice since this one read the row, or is at it.
Stale(row) == \/ invoice[row.id].stage # row.stage
              \/ \E v \in Runs : run[v].step = "record" /\ run[v].at = row.id

\* The row is not read again: what it says may be over, paid or dunned by now.
Dun(w, row) ==
  LET orgs == invoice[row.id].covers IN
  /\ run[w].step = "dun" /\ row \in run[w].rows
  /\ CASE Goal(row) = 3                  -> SetStatus(orgs, "suspended", {"active", "trial", "past_due"}, row.id)
       [] Goal(row) < 3 /\ row.stage < 1 -> SetStatus(orgs, "past_due", {"active", "trial"}, row.id)
       [] OTHER                          -> UNCHANGED <<status, cause>>
  /\ run' = [run EXCEPT ![w] = [run[w] EXCEPT !.rows = @ \ {row}, !.step = "record", !.at = row.id, !.goal = Goal(row)]]
  /\ raced' = IF Stale(row) THEN raced \cup {row.id} ELSE raced
  /\ unlifted' = IF invoice[row.id].state = "issued" THEN unlifted ELSE unlifted \cup {row.id}
  /\ UNCHANGED <<partner, over, invoice, settling, letters, twice, moved, incidents>>

\* Faulty variant: the stage is not written down.
RecordNothing(w) ==
  /\ run[w].step = "record"
  /\ run' = [run EXCEPT ![w].step = "letter"]
  /\ UNCHANGED <<status, partner, over, invoice, settling, past, incidents>>

\* The stage; the UPDATE names the row, and nothing else.
Record(w) ==
  /\ run[w].step = "record"
  /\ invoice' = [invoice EXCEPT ![run[w].at].stage = run[w].goal]
  /\ run' = [run EXCEPT ![w].step = "letter"]
  /\ UNCHANGED <<status, partner, over, settling, past, incidents>>

\* On to the next row.
NextRow(r) == IF r.rows = {} THEN Idle ELSE [r EXCEPT !.step = "dun", !.at = NoInvoice, !.goal = 0]

\* sendDunningEmail, whose failure is logged.
Letter(w, ok) ==
  LET i == run[w].at IN
  /\ run[w].step = "letter"
  /\ IF ok THEN /\ letters' = [letters EXCEPT ![i] = @ \cup {run[w].goal}]
                /\ twice' = IF run[w].goal \in letters[i] THEN twice \cup {i} ELSE twice
                /\ UNCHANGED incidents
           ELSE Incident /\ UNCHANGED <<letters, twice>>
  /\ run' = [run EXCEPT ![w] = NextRow(@)]
  /\ UNCHANGED <<status, partner, over, invoice, settling, cause, raced, unlifted, moved>>

\* A query rejects.  Between the rows it ends the run until the next hour; the row it
\* rejects for is passed over (billing.js:504), and if it was the stage, the status
\* is set all the same.
Reject(w) ==
  /\ Incident
  /\ \/ run[w].step = "issue" /\ run' = [run EXCEPT ![w] = Idle]
     \/ run[w].step = "dun" /\ \E row \in run[w].rows :
          run' = [run EXCEPT ![w] = NextRow([run[w] EXCEPT !.rows = @ \ {row}])]
     \/ run[w].step = "record" /\ run' = [run EXCEPT ![w] = NextRow(@)]
  /\ UNCHANGED <<status, partner, over, invoice, settling, past>>

----------------------------------------------------------------------------
(* markPaid, voidInvoice and restoreAfterSettlement.                        *)

\* An organisation is suspended over i, of which the row does not say so: the run is
\* between the two UPDATEs, or ended there, or another run wrote an earlier stage.
Halfway(i) == invoice[i].stage < 3 /\ \E o \in Orgs : status[o] = "suspended" /\ cause[o] = i

\* Paid, or annulled: the code treats them alike.  Days overdue count no more.  What
\* comes after is not of the same transaction, and a second request is refused.
Settle(i) ==
  /\ invoice[i].state = "issued"
  /\ invoice' = [invoice EXCEPT ![i].state = "settled", ![i].reached = 0]
  /\ settling' = [settling EXCEPT ![i] = [step |-> "look", stage |-> invoice[i].stage]]
  /\ unlifted' = IF Halfway(i) THEN unlifted \cup {i} ELSE unlifted
  /\ UNCHANGED <<status, partner, over, run, cause, letters, twice, raced, moved, incidents>>

Others(i) == {j \in Invoices \ {i} : PayerOf(j) = PayerOf(i) /\ invoice[j].state = "issued" /\ invoice[j].stage >= 1}

LookForOthers(i) ==
  /\ settling[i].step = "look"
  /\ settling' = [settling EXCEPT ![i] = IF Others(i) = {} THEN [@ EXCEPT !.step = "restore"] ELSE Settled]
  /\ unlifted' = IF Others(i) = {} THEN unlifted ELSE unlifted \cup {i}
  /\ UNCHANGED <<status, partner, over, invoice, run, cause, letters, twice, raced, moved, incidents>>

\* Faulty variant: a suspension is never lifted.
RestorePastDue(i) ==
  /\ settling[i].step = "restore"
  /\ SetStatus(invoice[i].covers, "active", {"past_due"}, NoInvoice)
  /\ settling' = [settling EXCEPT ![i] = Settled]
  /\ UNCHANGED <<partner, over, invoice, run, letters, twice, raced, unlifted, moved, incidents>>

\* A suspension is lifted if the invoice had come to that stage.
Restore(i) ==
  /\ settling[i].step = "restore"
  /\ SetStatus(invoice[i].covers, "active",
               IF settling[i].stage >= 3 THEN {"past_due", "suspended"} ELSE {"past_due"}, NoInvoice)
  /\ settling' = [settling EXCEPT ![i] = Settled]
  /\ UNCHANGED <<partner, over, invoice, run, letters, twice, raced, unlifted, moved, incidents>>

\* Either query rejects: the request fails, the invoice stays settled.
RejectSettlement(i) ==
  /\ Incident
  /\ settling[i].step # "no"
  /\ settling' = [settling EXCEPT ![i] = Settled] /\ unlifted' = unlifted \cup {i}
  /\ UNCHANGED <<status, partner, over, invoice, run, cause, letters, twice, raced, moved>>

----------------------------------------------------------------------------
(* Time, the superadmin and the process.                                    *)

PeriodEnds(p) ==
  /\ p \in Periods \ over /\ \A q \in Periods : q < p => q \in over
  /\ over' = over \cup {p}
  /\ UNCHANGED <<status, partner, invoice, run, settling, past, incidents>>

\* Seven more days past due; the invoice of a later month is due later.
WeekOverdue(i) ==
  /\ invoice[i].state = "issued" /\ invoice[i].reached < 3
  /\ \A j \in Issued : PeriodOf(j) < PeriodOf(i) /\ invoice[j].state = "issued" =>
       invoice[j].reached > invoice[i].reached
  /\ invoice' = [invoice EXCEPT ![i].reached = @ + 1]
  /\ UNCHANGED <<status, partner, over, run, settling, past, incidents>>

\* PATCH /tenants/:id, approve, and expireTrials.
StatusByHand(o, s) ==
  /\ Incident /\ s \in SetByHand \ {status[o]}
  /\ status' = [status EXCEPT ![o] = s] /\ cause' = [cause EXCEPT ![o] = NoInvoice]
  /\ UNCHANGED <<partner, over, invoice, run, settling, letters, twice, raced, unlifted, moved>>

\* An organisation with clients cannot become a client, a client no partner.
PartnerByHand(o, q) ==
  /\ Incident /\ partner[o] # q /\ (q = o \/ partner[q] = q)
  /\ \A m \in Orgs \ {o} : partner[m] # o
  /\ partner' = [partner EXCEPT ![o] = q] /\ moved' = moved \cup {o}
  /\ UNCHANGED <<status, over, invoice, run, settling, cause, letters, twice, raced, unlifted>>

Restart ==
  /\ Incident
  /\ run' = [w \in Runs |-> Idle] /\ settling' = [i \in Invoices |-> Settled]
  /\ unlifted' = unlifted \cup {i \in Invoices : settling[i].step # "no"}
  /\ UNCHANGED <<status, partner, over, invoice, cause, letters, twice, raced, moved>>

----------------------------------------------------------------------------
RunStep(w) ==
  \/ \E o \in Orgs : Issue(w, o)
  \/ ReadOverdue(w) \/ Record(w) \/ Reject(w)
  \/ \E row \in run[w].rows : Dun(w, row)
  \/ \E ok \in BOOLEAN : MailInvoice(w, ok) \/ Letter(w, ok)

Next ==
  \/ \E w \in Runs : RunStep(w) \/ \E p \in Periods : StartRun(w, p)
  \/ \E i \in Invoices : \/ SendByHand(i) \/ WeekOverdue(i)
                         \/ Settle(i) \/ LookForOthers(i) \/ Restore(i) \/ RejectSettlement(i)
  \/ \E p \in Periods : PeriodEnds(p)
  \/ \E o \in Orgs : \/ \E s \in Statuses : StatusByHand(o, s)
                     \/ \E q \in Orgs : PartnerByHand(o, q)
  \/ Restart

Spec == Init /\ [][Next]_vars

(* The timer ticks; PostgreSQL and the mail server answer or fail.           *)
(* Nothing is asked of the runs by hand.                                     *)
Fairness == WF_vars(RunStep(Timer) \/ \E p \in Periods : StartRun(Timer, p))

FairSpec == Spec /\ Fairness

----------------------------------------------------------------------------
(* What a customer may rely on.                                             *)

\* "Nobody is suspended over a letter that was never sent" (billing.js:481):
\* neither the stage of an invoice nor the status it caused goes beyond past_due.
NoSilentSuspension ==
  /\ \A i \in Invoices : invoice[i].stage >= 2 => invoice[i].sent
  /\ \A o \in Orgs : status[o] = "suspended" /\ cause[o] # NoInvoice => invoice[cause[o]].sent

\* "A run every hour sends each reminder exactly once" (billing.js:471): no letter
\* twice, whatever dies or rejects in between.  POST /billing/admin/run, which does
\* not ask whether a run is under way, breaks it: an invoice that two runs read
\* before either wrote its stage is dunned by both, and the letter goes out twice.
\* There is no other exception; of the hourly run alone, none.
LetterOnce == twice \subseteq raced

\* "Payment (markPaid) restores the status" (billing.js:18): what keeps an
\* organisation past_due or suspended is an invoice that is open, or whose
\* settlement is at work; unless a run that had read it open dunned it afterwards,
\* or suspended an organisation without its stage being written, or its settlement
\* met another invoice that was being dunned, a rejected query or a restart:
\* nobody comes back to it.
HeldForDebt ==
  \A o \in Orgs :
    status[o] \in {"past_due", "suspended"} /\ cause[o] # NoInvoice =>
      \/ invoice[cause[o]].state = "issued" \/ settling[cause[o]].step # "no"
      \/ cause[o] \in unlifted

\* An organisation is charged at most once for a period, by itself or by its partner;
\* unless its partner changed.
ChargedOnce ==
  \A o \in Orgs \ moved : \A i, j \in {k \in Issued : o \in invoice[k].covers} :
    PeriodOf(i) = PeriodOf(j) => i = j

\* An invoice that was sent and stays unpaid comes to its last stage.
DunningComes ==
  \A i \in Invoices :
    invoice[i].state = "issued" /\ invoice[i].sent /\ invoice[i].reached = 3
      ~> invoice[i].state # "issued" \/ invoice[i].stage = 3
=============================================================================
