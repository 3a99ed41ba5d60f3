-------------------------- MODULE OtaRolloutProofs --------------------------
(* Theorems about OtaRollout, for every number of controllers, workers,      *)
(* requests and stops.  The types hold under every fault.  As long as the    *)
(* administrator does not act amid a batch (checks may), one batch at most   *)
(* is in progress, the jobs it has in hand are queued, and no job is in hand *)
(* twice; a rollout that is paused or over sends nothing then, a completed   *)
(* one has nothing left, a job gets one command as long as the process does  *)
(* not crash, and some query of those that would tell of it succeeds.        *)
EXTENDS OtaRollout, FiniteSetTheorems, TLAPS

InHandStep == {"job", "mark_sent", "mark_failed", "mark_deferred"}

JobRow     == [status : JobStatus, deferrals : Nat, late : BOOLEAN]
RolloutRow == [status : {"running", "paused", "completed", "cancelled"},
               reason : {"none", "manual", "failures"}, acked : 0 .. Cardinality(Devices)]
BatchRow   == [pc : BatchStep, jobs : Seq([device : Devices, deferrals : Nat]),
               sent : BOOLEAN, acked : Nat]
CheckRow   == [pc : {"idle", "marking", "completing"}, done : SUBSET Devices,
               late : SUBSET Devices, touched : BOOLEAN]

Distinct(s) == \A i, j \in DOMAIN s : s[i] = s[j] => i = j

(* A controller yet to get a job has none, one in the queue's order has one. *)
JobsTyped  == /\ job \in [Devices -> JobRow]
              /\ creating \in Seq(Devices) /\ Distinct(creating)
              /\ order \in Seq(Devices) /\ Distinct(order)
              /\ \A i \in DOMAIN creating : job[creating[i]].status = "absent"
              /\ \A i \in DOMAIN order : job[order[i]].status # "absent"
BatchTyped == /\ batch \in [Workers -> BatchRow]
              /\ \A w \in Workers : batch[w].pc \in InHandStep => batch[w].jobs # << >>
RestTyped  == /\ settling \in {"nothing", "pause_timer", "cancel_jobs", "cancel_timer"}
              /\ firmware \in BOOLEAN /\ timer \in BOOLEAN /\ up \in BOOLEAN
              /\ window \in BOOLEAN
              /\ version \in [Devices -> {"old", "new"}] /\ ready \in [Devices -> BOOLEAN]

TypeInv == /\ rollout \in RolloutRow /\ check \in CheckRow /\ commands \in [Devices -> Nat]
           /\ JobsTyped /\ BatchTyped /\ RestTyped

\* What is remembered of rejected queries.
RejectsTyped == /\ stranded \in BOOLEAN /\ halfway \in BOOLEAN /\ unmarked \subseteq Devices
                /\ errors \in 0 .. MaxErrors

LEMMA TypeInvIsStronger == TypeInv /\ RejectsTyped => TypeOK
<1>1. SUFFICES ASSUME TypeInv, RejectsTyped PROVE TypeOK
  OBVIOUS
<1>2. \A d \in Devices : job[d] \in JobRow
  BY <1>1 DEF TypeInv, JobsTyped
<1>3. \A w \in Workers : batch[w] \in BatchRow
  BY <1>1 DEF TypeInv, BatchTyped
<1>4. {order[i] : i \in DOMAIN order} \cup {creating[i] : i \in DOMAIN creating} \subseteq Devices
  BY <1>1 DEF TypeInv, JobsTyped
<1>5. \A w \in Workers : batch[w].pc \in InHandStep => batch[w].jobs # << >>
  BY <1>1 DEF TypeInv, BatchTyped
<1>6. \A i, j \in DOMAIN order : order[i] = order[j] => i = j
  BY <1>1 DEF TypeInv, JobsTyped, Distinct
<1>7. \A w \in Workers :
        /\ batch[w].pc \in BatchStep
        /\ batch[w].pc \in {"job", "mark_sent", "mark_failed", "mark_deferred"} =>
             batch[w].jobs # << >>
  BY <1>3, <1>5 DEF BatchRow, InHandStep
<1>8. /\ \A d \in Devices : job[d].status \in JobStatus /\ job[d].deferrals \in Nat
      /\ \A d \in Devices : job[d].late \in BOOLEAN /\ commands[d] \in Nat
  BY <1>1, <1>2 DEF JobRow, TypeInv
<1>9. /\ rollout.status \in {"running", "paused", "completed", "cancelled"}
      /\ rollout.reason \in {"none", "manual", "failures"}
      /\ rollout.acked \in 0 .. Cardinality(Devices)
      /\ check.pc \in {"idle", "marking", "completing"}
  BY <1>1 DEF TypeInv, RolloutRow, CheckRow
<1> QED BY <1>1, <1>4, <1>6, <1>7, <1>8, <1>9 DEF TypeInv, RestTyped, RejectsTyped, TypeOK

----------------------------------------------------------------------------
(* What the ways of writing a worker's record leave of the types.            *)
LEMMA Stores ==
  ASSUME BatchTyped, NEW w \in Workers, NEW r \in BatchRow,
         r.pc \in InHandStep => r.jobs # << >>,
         batch' = [batch EXCEPT ![w] = r]
  PROVE  BatchTyped'
<1>1. batch' = [v \in Workers |-> IF v = w THEN r ELSE batch[v]]
  BY DEF BatchTyped
<1>2. batch' \in [Workers -> BatchRow]
  BY <1>1 DEF BatchTyped
<1> QED BY <1>1, <1>2 DEF BatchTyped

LEMMA RowOf ==
  ASSUME BatchTyped, NEW w \in Workers
  PROVE  /\ batch[w] \in BatchRow
         /\ batch[w] = [f \in {"pc", "jobs", "sent", "acked"} |-> batch[w][f]]
BY DEF BatchTyped, BatchRow

LEMMA GotoStores ==
  ASSUME BatchTyped, NEW w \in Workers, NEW pc \in BatchStep,
         pc \in InHandStep => batch[w].pc \in InHandStep, Goto(w, pc)
  PROVE  BatchTyped'
<1> DEFINE r == [batch[w] EXCEPT !.pc = pc]
<1>2. r \in BatchRow /\ r.pc = pc /\ r.jobs = batch[w].jobs
  BY RowOf DEF BatchRow
<1>3. batch' = [batch EXCEPT ![w] = r]
  BY DEF Goto
<1>4. batch[w].pc \in InHandStep => batch[w].jobs # << >>
  BY DEF BatchTyped
<1> HIDE DEF r
<1> QED BY <1>2, <1>3, <1>4, Stores

LEMMA LeaveStores ==
  ASSUME BatchTyped, NEW w \in Workers, Leave(w)
  PROVE  BatchTyped'
<1>1. NoBatch \in BatchRow /\ NoBatch.pc \notin InHandStep
  BY DEF NoBatch, BatchRow, InHandStep, BatchStep
<1> QED BY <1>1, Stores DEF Leave

LEMMA EnterStores ==
  ASSUME BatchTyped, NEW w \in Workers, Enter(w)
  PROVE  BatchTyped'
<1> DEFINE r == [NoBatch EXCEPT !.pc = "read"]
<1>1. NoBatch \in BatchRow
  BY DEF NoBatch, BatchRow, BatchStep
<1>2. r \in BatchRow /\ r.pc \notin InHandStep
  BY <1>1 DEF BatchRow, InHandStep, BatchStep
<1>3. batch' = [batch EXCEPT ![w] = r]
  BY DEF Enter
<1> HIDE DEF r
<1> QED BY <1>2, <1>3, Stores

LEMMA AdvanceStores ==
  ASSUME BatchTyped, NEW w \in Workers, NEW sent \in BOOLEAN,
         batch[w].pc \in InHandStep, Advance(w, sent)
  PROVE  BatchTyped'
<1> DEFINE rest == Tail(batch[w].jobs)
           pc   == IF rest = << >> THEN "remaining" ELSE "job"
           r    == [batch[w] EXCEPT !.jobs = rest, !.sent = @ \/ sent, !.pc = pc]
<1>1. batch[w].jobs # << >> /\ batch[w].jobs \in Seq([device : Devices, deferrals : Nat])
  BY RowOf DEF BatchTyped, BatchRow
<1>2. rest \in Seq([device : Devices, deferrals : Nat])
  BY <1>1
<1>3. pc \in BatchStep /\ (pc \in InHandStep => rest # << >>)
  BY DEF BatchStep, InHandStep
<1>4. batch' = [batch EXCEPT ![w] = r]
  BY DEF Advance
<1>5. batch[w].sent \in BOOLEAN /\ batch[w].acked \in Nat
  BY RowOf DEF BatchRow
<1> HIDE DEF rest, pc
<1>6. r \in BatchRow
  BY <1>2, <1>3, <1>5, RowOf DEF BatchRow
<1>7. r.pc = pc /\ r.jobs = rest
  BY RowOf
<1> HIDE DEF r
<1> QED BY <1>3, <1>4, <1>6, <1>7, Stores

----------------------------------------------------------------------------
(* A job that is not inserted stays so, and one that is stays.               *)
LEMMA JobsEdited ==
  ASSUME JobsTyped, UNCHANGED <<creating, order>>, job' \in [Devices -> JobRow],
         \A d \in Devices : job'[d].status = "absent" <=> job[d].status = "absent"
  PROVE  JobsTyped'
BY DEF JobsTyped

LEMMA OneJobEdited ==
  ASSUME JobsTyped, NEW d \in Devices, NEW r \in JobRow, job' = [job EXCEPT ![d] = r],
         r.status = "absent" <=> job[d].status = "absent"
  PROVE  /\ job' \in [Devices -> JobRow]
         /\ \A e \in Devices : job'[e].status = "absent" <=> job[e].status = "absent"
BY DEF JobsTyped

LEMMA JobOf ==
  ASSUME JobsTyped, NEW d \in Devices
  PROVE  /\ job[d] \in JobRow
         /\ job[d] = [f \in {"status", "deferrals", "late"} |-> job[d][f]]
BY DEF JobsTyped, JobRow

LEMMA FinishStores ==
  ASSUME JobsTyped, NEW d \in Devices, NEW s \in {"sent", "failed", "succeeded"},
         Finish(d, s), UNCHANGED <<creating, order>>
  PROVE  JobsTyped'
<1> DEFINE st == IF job[d].status = "absent" THEN job[d].status ELSE s
           r  == [job[d] EXCEPT !.status = st, !.late = FALSE]
<1>1. job' = [job EXCEPT ![d] = r]
  BY JobOf DEF Finish, JobsTyped
<1>2. r \in JobRow
  BY JobOf DEF JobRow, JobStatus
<1>3. r.status = "absent" <=> job[d].status = "absent"
  BY JobOf
<1> HIDE DEF r
<1>4. job' \in [Devices -> JobRow] /\ \A e \in Devices : job'[e].status = "absent" <=> job[e].status = "absent"
  BY <1>1, <1>2, <1>3, OneJobEdited
<1> QED BY <1>4, JobsEdited

\* The queue turned so that one job is the last keeps every job once.
LEMMA ToTheEndStores ==
  ASSUME order \in Seq(Devices), Distinct(order), NEW d, ToTheEnd(d)
  PROVE  /\ order' \in Seq(Devices) /\ Distinct(order')
         /\ \A i \in DOMAIN order' : \E j \in DOMAIN order : order'[i] = order[j]
<1> DEFINE n == Len(order)
<1>1. n \in Nat /\ DOMAIN order = 1 .. n
  OBVIOUS
<1>2. PICK p \in 1 .. n :
        /\ order[p] = d
        /\ order' = [i \in 1 .. n |-> IF i < p THEN order[i]
                                      ELSE IF i < n THEN order[i + 1] ELSE d]
  BY <1>1 DEF ToTheEnd
<1> DEFINE from(i) == IF i < p THEN i ELSE IF i < n THEN i + 1 ELSE p
<1>3. \A i \in 1 .. n : from(i) \in 1 .. n /\ order'[i] = order[from(i)]
  BY <1>1, <1>2
<1>4. \A i, j \in 1 .. n : from(i) = from(j) => i = j
  BY <1>1
<1>5. DOMAIN order' = 1 .. n
  BY <1>2
<1> HIDE DEF n, from
<1>6. order' \in [1 .. n -> Devices]
  <2>1. \A i \in 1 .. n : order'[i] \in Devices
    BY <1>1, <1>3
  <2>2. order' = [i \in 1 .. n |-> order'[i]]
    BY <1>2
  <2> QED BY <2>1, <2>2
<1>7. Distinct(order')
  BY <1>1, <1>3, <1>4, <1>5 DEF Distinct
<1> QED BY <1>1, <1>3, <1>5, <1>6, <1>7

\* The job a worker has in hand.
LEMMA HeadOf ==
  ASSUME BatchTyped, NEW w \in Workers, batch[w].pc \in InHandStep
  PROVE  Head(batch[w].jobs).device \in Devices
<1> DEFINE Row == [device : Devices, deferrals : Nat]
<1>1. batch[w].jobs # << >> /\ batch[w].jobs \in Seq(Row)
  BY RowOf DEF BatchTyped, BatchRow
<1>2. \A row \in Row : row.device \in Devices
  OBVIOUS
<1> HIDE DEF Row
<1>3. Head(batch[w].jobs) \in Row
  BY <1>1
<1> QED BY <1>2, <1>3

LEMMA QueuedEdited ==
  ASSUME JobsTyped, UNCHANGED <<creating, order>>, NEW s \in {"failed", "cancelled"},
         job' = [d \in Devices |-> IF job[d].status = "queued"
                                   THEN [job[d] EXCEPT !.status = s] ELSE job[d]]
  PROVE  JobsTyped'
<1>1. \A d \in Devices : /\ job[d] \in JobRow
                         /\ [job[d] EXCEPT !.status = s] \in JobRow
                         /\ [job[d] EXCEPT !.status = s].status = s
  BY JobOf DEF JobRow, JobStatus
<1> QED BY <1>1, JobsEdited

LEMMA FieldStores ==
  ASSUME JobsTyped, UNCHANGED <<creating, order>>, NEW d \in Devices,
         \/ job' = [job EXCEPT ![d].late = TRUE]
         \/ job[d].status # "absent" /\ job' = [job EXCEPT ![d].status = "cancelled"]
  PROVE  JobsTyped'
<1>1. CASE job' = [job EXCEPT ![d].late = TRUE]
  <2> DEFINE r == [job[d] EXCEPT !.late = TRUE]
  <2>1. r \in JobRow /\ r.status = job[d].status /\ job' = [job EXCEPT ![d] = r]
    BY <1>1, JobOf DEF JobRow
  <2> HIDE DEF r
  <2> QED BY <2>1, OneJobEdited, JobsEdited
<1>2. CASE job[d].status # "absent" /\ job' = [job EXCEPT ![d].status = "cancelled"]
  <2> DEFINE r == [job[d] EXCEPT !.status = "cancelled"]
  <2>1. r \in JobRow /\ r.status = "cancelled" /\ job' = [job EXCEPT ![d] = r]
    BY <1>2, JobOf DEF JobRow, JobStatus
  <2> HIDE DEF r
  <2> QED BY <1>2, <2>1, OneJobEdited, JobsEdited
<1> QED BY <1>1, <1>2

LEMMA DeferStores ==
  ASSUME JobsTyped, BatchTyped, NEW w \in Workers, MarkDeferred(w)
  PROVE  JobsTyped'
<1> DEFINE d == Head(batch[w].jobs).device
           r == [job[d] EXCEPT !.deferrals = @ + 1]
<1>1. d \in Devices
  BY HeadOf DEF MarkDeferred, InHandStep
<1>2. /\ job' = [job EXCEPT ![d] = r] /\ ToTheEnd(d) /\ UNCHANGED creating
  BY DEF MarkDeferred
<1> HIDE DEF d
<1>3. r \in JobRow /\ r.status = job[d].status
  <2>1. job[d].deferrals \in Nat
    BY <1>1, JobOf DEF JobRow
  <2>2. job[d].deferrals + 1 \in Nat
    BY <2>1
  <2> QED BY <1>1, <2>2, JobOf DEF JobRow
<1> HIDE DEF r
<1>4. /\ job' \in [Devices -> JobRow]
      /\ \A e \in Devices : job'[e].status = "absent" <=> job[e].status = "absent"
  BY <1>1, <1>2, <1>3, OneJobEdited
<1>5. /\ order' \in Seq(Devices) /\ Distinct(order')
      /\ \A i \in DOMAIN order' : \E j \in DOMAIN order : order'[i] = order[j]
  BY <1>2, ToTheEndStores DEF JobsTyped
<1>6. \A i \in DOMAIN order' : order'[i] \in Devices /\ job[order'[i]].status # "absent"
  BY <1>5 DEF JobsTyped
<1>7. \A i \in DOMAIN creating : creating[i] \in Devices
  BY DEF JobsTyped
<1> QED BY <1>2, <1>4, <1>5, <1>6, <1>7 DEF JobsTyped, Distinct

LEMMA CreateStores ==
  ASSUME JobsTyped, CreateJob
  PROVE  JobsTyped'
<1> DEFINE d == Head(creating)
           r == [job[d] EXCEPT !.status = "queued"]
<1>1. /\ creating # << >> /\ creating \in Seq(Devices) /\ d \in Devices
      /\ order \in Seq(Devices)
  BY DEF CreateJob, JobsTyped
<1>2. /\ job' = [job EXCEPT ![d] = r] /\ order' = Append(order, d)
      /\ creating' = Tail(creating)
  BY DEF CreateJob
<1>3. job[d].status = "absent" /\ 1 \in DOMAIN creating /\ creating[1] = d
  BY <1>1 DEF JobsTyped
<1>4. r \in JobRow /\ r.status = "queued"
  BY <1>1, JobOf DEF JobRow, JobStatus
<1>5. /\ creating' \in Seq(Devices) /\ order' \in Seq(Devices)
      /\ \A i \in DOMAIN creating' : i + 1 \in DOMAIN creating /\ creating'[i] = creating[i + 1]
      /\ \A i \in DOMAIN order' : IF i \in DOMAIN order THEN order'[i] = order[i]
                                  ELSE i = Len(order) + 1 /\ order'[i] = d
  BY <1>1, <1>2
<1> HIDE DEF d, r
<1>6. job' \in [Devices -> JobRow] /\ \A e \in Devices : job'[e] = IF e = d THEN r ELSE job[e]
  BY <1>2, <1>4 DEF JobsTyped
<1>7. \A i \in DOMAIN order : order[i] \in Devices /\ order[i] # d
  BY <1>1, <1>3 DEF JobsTyped
<1>8. Distinct(order')
  BY <1>5, <1>7 DEF JobsTyped, Distinct
<1>9. \A i \in DOMAIN order' : job'[order'[i]].status # "absent"
  BY <1>1, <1>4, <1>5, <1>6, <1>7 DEF JobsTyped
<1>10. \A i \in DOMAIN creating' : creating'[i] # d /\ creating'[i] \in Devices
  <2>1. SUFFICES ASSUME NEW i \in DOMAIN creating' PROVE creating'[i] # d /\ creating'[i] \in Devices
    OBVIOUS
  <2>2. i + 1 # 1 /\ i + 1 \in DOMAIN creating /\ creating'[i] = creating[i + 1]
    BY <1>1, <1>5, <2>1
  <2> QED BY <1>1, <1>3, <2>2 DEF JobsTyped, Distinct
<1>11. Distinct(creating')
  <2>1. SUFFICES ASSUME NEW i \in DOMAIN creating', NEW j \in DOMAIN creating',
                        creating'[i] = creating'[j]
                 PROVE  i = j
    BY DEF Distinct
  <2>2. i + 1 = j + 1 /\ i \in Nat /\ j \in Nat
    BY <1>1, <1>5, <2>1 DEF JobsTyped, Distinct
  <2> QED BY <2>2
<1>12. \A i \in DOMAIN creating' : job'[creating'[i]].status = "absent"
  BY <1>5, <1>6, <1>10 DEF JobsTyped
<1> QED BY <1>5, <1>6, <1>8, <1>9, <1>11, <1>12 DEF JobsTyped

----------------------------------------------------------------------------
LEMMA CountIsSmall ==
  ASSUME NEW s PROVE Count(s) \in 0 .. Cardinality(Devices)
<1>1. /\ With(s) \subseteq Devices /\ IsFiniteSet(Devices) /\ IsFiniteSet(With(s))
      /\ Cardinality(With(s)) <= Cardinality(Devices)
  BY RolloutConstants, FS_Subset DEF With
<1>2. Cardinality(With(s)) \in Nat /\ Cardinality(Devices) \in Nat
  BY <1>1, FS_CardinalityType
<1> QED BY <1>1, <1>2 DEF Count

LEMMA RowEdits ==
  ASSUME rollout \in RolloutRow
  PROVE  /\ Completed \in RolloutRow
         /\ [rollout EXCEPT !.status = "paused", !.reason = "failures"] \in RolloutRow
         /\ [rollout EXCEPT !.status = "paused", !.reason = "manual"] \in RolloutRow
         /\ [rollout EXCEPT !.status = "cancelled"] \in RolloutRow
         /\ [status |-> "running", reason |-> "none", acked |-> Count("failed")] \in RolloutRow
BY CountIsSmall DEF RolloutRow, Completed

LEMMA TypeInit == ASSUME Init PROVE TypeInv
<1>1. Cardinality(Devices) \in Nat
  BY RolloutConstants, FS_CardinalityType
<1>2. creating \in Seq(Devices) /\ Distinct(creating) /\ \A i \in DOMAIN creating : creating[i] \in Devices
  <2>1. creating \in [1 .. Cardinality(Devices) -> Devices]
    BY DEF Init
  <2>2. Distinct(creating)
    BY DEF Init, Distinct
  <2> QED BY <1>1, <2>1, <2>2
<1>3. rollout \in RolloutRow
  BY <1>1 DEF Init, RolloutRow
<1>4. \A d \in Devices : job[d] = [status |-> "absent", deferrals |-> 0, late |-> FALSE]
  BY DEF Init
<1>5. job \in [Devices -> JobRow]
  BY DEF Init, JobRow, JobStatus
<1>6. JobsTyped
  BY <1>2, <1>4, <1>5 DEF Init, JobsTyped, Distinct
<1>7. NoBatch \in BatchRow /\ NoBatch.pc \notin InHandStep
  BY DEF NoBatch, BatchRow, InHandStep, BatchStep
<1>8. BatchTyped
  BY <1>7 DEF Init, BatchTyped
<1>9. check \in CheckRow
  BY DEF Init, NoCheck, CheckRow
<1>10. firmware \in BOOLEAN /\ commands \in [Devices -> Nat]
  BY DEF Init
<1> QED BY <1>3, <1>6, <1>8, <1>9, <1>10 DEF Init, TypeInv, RestTyped

\* The jobs of a step that leaves them alone.
LEMMA JobsKept ==
  ASSUME JobsTyped, UNCHANGED <<job, creating, order>> PROVE JobsTyped'
BY DEF JobsTyped, Distinct

\* The jobs that a batch takes in hand are queued, none of them twice.
LEMMA PickStores ==
  ASSUME JobsTyped, BatchTyped, NEW w \in Workers, PickJobs(w)
  PROVE  BatchTyped'
<1>1. PICK s \in Picks :
        batch' = [batch EXCEPT
          ![w].pc = IF s = << >> THEN "complete" ELSE "job",
          ![w].jobs = [i \in DOMAIN s |-> [device |-> s[i], deferrals |-> job[s[i]].deferrals]]]
  BY DEF PickJobs
<1> DEFINE pc   == IF s = << >> THEN "complete" ELSE "job"
           jobs == [i \in DOMAIN s |-> [device |-> s[i], deferrals |-> job[s[i]].deferrals]]
           r    == [batch[w] EXCEPT !.pc = pc, !.jobs = jobs]
<1>2. BatchLen \in Nat
  BY CountIsSmall, RolloutConstants, FS_CardinalityType DEF BatchLen
<1>3. s \in [1 .. BatchLen -> Devices]
  BY DEF Picks, With
<1>4. jobs \in Seq([device : Devices, deferrals : Nat])
  <2>1. \A i \in 1 .. BatchLen : [device |-> s[i], deferrals |-> job[s[i]].deferrals]
                                   \in [device : Devices, deferrals : Nat]
    BY <1>3, JobOf DEF JobRow
  <2> QED BY <1>2, <1>3, <2>1
<1>5. pc = "job" => jobs # << >>
  <2>1. SUFFICES ASSUME jobs = << >> PROVE s = << >>
    OBVIOUS
  <2>2. DOMAIN s = {}
    BY <1>2, <1>3, <2>1
  <2> QED BY <1>2, <1>3, <2>2
<1>6. pc \in BatchStep /\ (pc \in InHandStep => pc = "job")
  BY DEF BatchStep, InHandStep
<1>7. batch' = [batch EXCEPT ![w] = r]
  BY <1>1
<1> HIDE DEF pc, jobs
<1>8. r \in BatchRow /\ r.pc = pc /\ r.jobs = jobs
  BY <1>4, <1>6, RowOf DEF BatchRow
<1> HIDE DEF r
<1> QED BY <1>5, <1>6, <1>7, <1>8, Stores

LEMMA TypeBatchStep ==
  ASSUME TypeInv, NEW w \in Workers, BatchSteps(w)
  PROVE  TypeInv'
<1> USE DEF tables, devices, rejections, TypeInv
<1>1. CASE ReadRollout(w)
  <2>1. BatchTyped'
    <3>1. CASE rollout.status = "running"
      <4> DEFINE r == [batch[w] EXCEPT !.pc = "stats", !.acked = rollout.acked]
      <4>0. rollout.acked \in Nat
        BY FS_CardinalityType, RolloutConstants DEF RolloutRow
      <4>1. r \in BatchRow /\ r.pc = "stats"
        BY <4>0, RowOf DEF BatchRow, BatchStep
      <4>2. batch' = [batch EXCEPT ![w] = r]
        BY <1>1, <3>1 DEF ReadRollout
      <4> HIDE DEF r
      <4> QED BY <4>1, <4>2, Stores DEF InHandStep
    <3>2. CASE rollout.status # "running"
      BY <1>1, <3>2, LeaveStores DEF ReadRollout
    <3> QED BY <3>1, <3>2
  <2> QED BY <1>1, <2>1, JobsKept DEF ReadRollout, RestTyped
<1>2. CASE CheckThreshold(w)
  <2>1. BatchTyped'
    BY <1>2, GotoStores DEF CheckThreshold, BatchStep, InHandStep
  <2> QED BY <1>2, <2>1, JobsKept DEF CheckThreshold, RestTyped
<1>3. CASE AutoPause(w)
  <2>1. BatchTyped' /\ rollout' \in RolloutRow
    BY <1>3, LeaveStores, RowEdits DEF AutoPause
  <2> QED BY <1>3, <2>1, JobsKept DEF AutoPause, RestTyped
<1>4. CASE CheckFirmware(w)
  <2>1. BatchTyped'
    BY <1>4, GotoStores DEF CheckFirmware, BatchStep, InHandStep
  <2> QED BY <1>4, <2>1, JobsKept DEF CheckFirmware, RestTyped
<1>5. CASE FailQueued(w)
  <2>1. BatchTyped'
    BY <1>5, GotoStores DEF FailQueued, BatchStep, InHandStep
  <2>2. JobsTyped'
    BY <1>5, QueuedEdited DEF FailQueued
  <2> QED BY <1>5, <2>1, <2>2 DEF FailQueued, RestTyped
<1>6. CASE CheckWindow(w)
  <2>1. BatchTyped' /\ timer' \in BOOLEAN
    BY <1>6, GotoStores, LeaveStores DEF CheckWindow, BatchStep, InHandStep, RestTyped
  <2> QED BY <1>6, <2>1, JobsKept DEF CheckWindow, RestTyped
<1>7. CASE PickJobs(w)
  BY <1>7, PickStores, JobsKept DEF PickJobs, RestTyped
<1>8. CASE Precheck(w)
  <2>1. BatchTyped'
    BY <1>8, GotoStores DEF Precheck, BatchStep, InHandStep
  <2>2. commands' \in [Devices -> Nat]
    BY <1>8 DEF Precheck
  <2> QED BY <1>8, <2>1, <2>2, JobsKept DEF Precheck, RestTyped
<1>9. CASE MarkSent(w)
  <2>1. BatchTyped'
    BY <1>9, AdvanceStores DEF MarkSent, InHandStep
  <2>2. JobsTyped'
    BY <1>9, HeadOf, FinishStores DEF MarkSent, InHandStep
  <2> QED BY <1>9, <2>1, <2>2 DEF MarkSent, RestTyped
<1>10. CASE MarkFailed(w)
  <2>1. BatchTyped'
    BY <1>10, AdvanceStores DEF MarkFailed, InHandStep
  <2>2. JobsTyped'
    BY <1>10, HeadOf, FinishStores DEF MarkFailed, InHandStep
  <2> QED BY <1>10, <2>1, <2>2 DEF MarkFailed, RestTyped
<1>11. CASE MarkDeferred(w)
  <2>1. BatchTyped'
    BY <1>11, AdvanceStores DEF MarkDeferred, InHandStep
  <2>2. JobsTyped'
    BY <1>11, DeferStores DEF MarkDeferred, InHandStep
  <2> QED BY <1>11, <2>1, <2>2 DEF MarkDeferred, RestTyped
<1>12. CASE ScheduleNext(w)
  <2>1. BatchTyped' /\ timer' \in BOOLEAN
    BY <1>12, GotoStores, LeaveStores DEF ScheduleNext, BatchStep, InHandStep, RestTyped
  <2> QED BY <1>12, <2>1, JobsKept DEF ScheduleNext, RestTyped
<1>13. CASE CompleteAfterBatch(w)
  <2>1. BatchTyped' /\ rollout' \in RolloutRow
    BY <1>13, LeaveStores, RowEdits DEF CompleteAfterBatch
  <2> QED BY <1>13, <2>1, JobsKept DEF CompleteAfterBatch, RestTyped
<1> QED BY <1>1, <1>2, <1>3, <1>4, <1>5, <1>6, <1>7, <1>8, <1>9, <1>10, <1>11, <1>12, <1>13
        DEF BatchSteps

LEMMA TypeNext == ASSUME TypeInv, [Next]_vars PROVE TypeInv'
<1> USE DEF tables, devices, rejections, TypeInv
<1>1. CASE CreateJob
  <2>1. BatchTyped'
    BY <1>1, EnterStores DEF CreateJob, BatchTyped
  <2>2. JobsTyped'
    BY <1>1, CreateStores DEF CreateJob
  <2> QED BY <1>1, <2>1, <2>2 DEF CreateJob, RestTyped
<1>2. ASSUME NEW w \in Workers, TimerFires(w) PROVE TypeInv'
  BY <1>2, EnterStores, JobsKept DEF TimerFires, RestTyped
<1>3. ASSUME NEW w \in Workers, BatchSteps(w) PROVE TypeInv'
  BY <1>3, TypeBatchStep
<1>4. ASSUME NEW w \in Workers, Resume(w) PROVE TypeInv'
  <2>1. BatchTyped' /\ rollout' \in RolloutRow
    BY <1>4, EnterStores, RowEdits DEF Resume
  <2> QED BY <1>4, <2>1, JobsKept DEF Resume, RestTyped
<1>5. CASE CheckRead
  <2>1. check' \in CheckRow
    BY <1>5 DEF CheckRead, CheckRow, With
  <2> QED BY <1>5, <2>1, JobsKept DEF CheckRead, RestTyped, BatchTyped
<1>6. CASE CompleteAfterCheck
  <2>1. check' \in CheckRow /\ rollout' \in RolloutRow
    BY <1>6, RowEdits DEF CompleteAfterCheck, CheckRow, NoCheck
  <2> QED BY <1>6, <2>1, JobsKept DEF CompleteAfterCheck, RestTyped, BatchTyped
<1>7. ASSUME NEW d \in Devices, CheckMark(d) PROVE TypeInv'
  <2>1. check' \in CheckRow
    BY <1>7 DEF CheckMark, CheckRow
  <2>2. PICK s \in {"succeeded", "failed"} : Finish(d, s)
    BY <1>7 DEF CheckMark
  <2>3. JobsTyped'
    BY <1>7, <2>2, FinishStores DEF CheckMark
  <2> QED BY <1>7, <2>1, <2>3 DEF CheckMark, RestTyped, BatchTyped
<1>8. ASSUME NEW d \in Devices, Expire(d) \/ Reassigned(d) PROVE TypeInv'
  <2>1. JobsTyped'
    BY <1>8, FieldStores DEF Expire, Reassigned, Active
  <2> QED BY <1>8, <2>1 DEF Expire, Reassigned, RestTyped, BatchTyped
<1>9. ASSUME NEW d \in Devices, Install(d) \/ ReadinessTurns(d) PROVE TypeInv'
  <2>1. version' \in [Devices -> {"old", "new"}] /\ ready' \in [Devices -> BOOLEAN]
    BY <1>9 DEF Install, ReadinessTurns, RestTyped
  <2> QED BY <1>9, <2>1, JobsKept DEF Install, ReadinessTurns, RestTyped, BatchTyped
<1>10. CASE Pause \/ Cancel
  <2>1. rollout' \in RolloutRow
    BY <1>10, RowEdits DEF Pause, Cancel
  <2> QED BY <1>10, <2>1, JobsKept DEF Pause, Cancel, RestTyped, BatchTyped
<1>11. CASE CancelJobs
  <2>1. JobsTyped'
    BY <1>11, QueuedEdited DEF CancelJobs
  <2> QED BY <1>11, <2>1 DEF CancelJobs, RestTyped, BatchTyped
<1>12. CASE StopTimer
  BY <1>12, JobsKept DEF StopTimer, RestTyped, BatchTyped
<1>13. CASE Stop
  <2>1. NoBatch \in BatchRow /\ NoBatch.pc \notin InHandStep /\ NoCheck \in CheckRow
    BY DEF NoBatch, BatchRow, InHandStep, BatchStep, NoCheck, CheckRow
  <2>2. BatchTyped' /\ check' \in CheckRow
    BY <1>13, <2>1 DEF Stop, BatchTyped
  <2>3. JobsTyped'
    BY <1>13 DEF Stop, JobsTyped, Distinct
  <2> QED BY <1>13, <2>2, <2>3 DEF Stop, RestTyped
<1>14. CASE Start
  <2>1. BatchTyped'
    BY <1>14, EnterStores DEF Start, BatchTyped
  <2> QED BY <1>14, <2>1, JobsKept DEF Start, RestTyped
<1>15. CASE WindowCloses \/ WindowOpens \/ Over \/ UNCHANGED vars
  BY <1>15, JobsKept DEF WindowCloses, WindowOpens, Over, vars, RestTyped, BatchTyped
<1>16. ASSUME NEW w \in Workers, BatchRejects(w) \/ MarkRejects(w) PROVE TypeInv'
  <2>1. BatchTyped'
    BY <1>16, GotoStores, LeaveStores DEF BatchRejects, MarkRejects, BatchStep, InHandStep
  <2> QED BY <1>16, <2>1, JobsKept DEF BatchRejects, MarkRejects, RestTyped
<1>17. CASE CheckRejects \/ CancelRejects \/ StartRejects
  <2>0. NoCheck \in CheckRow
    BY DEF CheckRow, NoCheck
  <2>1. check' \in CheckRow /\ UNCHANGED batch
    BY <1>17, <2>0 DEF CheckRejects, CancelRejects, StartRejects
  <2> QED BY <1>17, <2>1, JobsKept DEF CheckRejects, CancelRejects, StartRejects, RestTyped, BatchTyped
<1>18. CASE CreateRejects
  <2>1. JobsTyped'
    BY <1>18 DEF CreateRejects, JobsTyped, Distinct
  <2> QED BY <1>18, <2>1 DEF CreateRejects, RestTyped, BatchTyped
<1> QED BY <1>1, <1>2, <1>3, <1>4, <1>5, <1>6, <1>7, <1>8, <1>9, <1>10, <1>11, <1>12, <1>13,
           <1>14, <1>15, <1>16, <1>17, <1>18 DEF Next, Rejects

LEMMA RejectsTypedNext == ASSUME RejectsTyped, [Next]_vars PROVE RejectsTyped'
<1> USE DEF rejections, RejectsTyped
<1>1. CASE UNCHANGED rejections
  BY <1>1
<1>2. CASE stranded' = FALSE /\ UNCHANGED <<unmarked, halfway, errors>>
  BY <1>2
<1>3. CASE Rejects
  <2>1. errors' \in 0 .. MaxErrors
    BY <1>3, RolloutConstants
       DEF Rejects, Rejected, CreateRejects, CheckRejects, CancelRejects, StartRejects, BatchRejects, MarkRejects
  <2>2. /\ stranded' \in BOOLEAN
        /\ halfway' \in BOOLEAN
        /\ unmarked' \subseteq Devices
    BY <1>3 DEF Rejects, CreateRejects, CheckRejects, CancelRejects, StartRejects, BatchRejects, MarkRejects
  <2> QED BY <2>1, <2>2
<1>4. \/ UNCHANGED rejections
      \/ stranded' = FALSE /\ UNCHANGED <<unmarked, halfway, errors>>
      \/ Rejects
  <2>1. CASE Start
    BY <2>1 DEF Start
  <2> QED BY <2>1 DEF Next, vars, BatchSteps, CreateJob, TimerFires, Resume, CheckRead,
     CompleteAfterCheck, CheckMark, Install, Expire, ReadinessTurns, Reassigned, Pause, Cancel,
     CancelJobs, StopTimer, Stop, WindowCloses, WindowOpens, Over, ReadRollout, CheckThreshold,
     AutoPause, CheckFirmware, FailQueued, CheckWindow, PickJobs, Precheck, MarkSent, MarkFailed,
     MarkDeferred, ScheduleNext, CompleteAfterBatch
<1> QED BY <1>1, <1>2, <1>3, <1>4

(* Every state the rollout reaches has the types its tables declare, no job *)
(* stands twice in the order of the queue, and a batch that works on a job  *)
(* has one in hand.                                                         *)
THEOREM TypeCorrect == Spec => []TypeOK
<1>1. Init => TypeInv /\ RejectsTyped
  <2>1. 0 \in 0 .. MaxErrors
    BY RolloutConstants
  <2> QED BY <2>1, TypeInit DEF Init, RejectsTyped
<1>2. TypeInv /\ RejectsTyped /\ [Next]_vars => (TypeInv /\ RejectsTyped)'
  BY TypeNext, RejectsTypedNext
<1>3. TypeInv /\ RejectsTyped => TypeOK
  BY TypeInvIsStronger
<1> QED BY <1>1, <1>2, <1>3, PTL DEF Spec

----------------------------------------------------------------------------
(* At most one of these is at work: the creation, a timer, a batch; a batch  *)
(* past its first read works on a rollout that nobody has stopped; no timer  *)
(* outlives a pause; and before the last job is inserted, none is sent.      *)
Idle(w)  == batch[w].pc = "idle"
AllIdle  == \A w \in Workers : Idle(w)
OneBatch == \A v, w \in Workers : Idle(v) \/ Idle(w) \/ v = w
AtRest   == AllIdle /\ ~timer /\ check.pc = "idle" /\ settling = "nothing"
Alone    == /\ creating # << >> => AtRest /\ up /\ rollout.status = "running"
            /\ creating # << >> => \A d \in Devices : job[d].status \in {"absent", "queued"}
            /\ timer => AllIdle
            /\ ~up => AtRest /\ creating = << >>
Running  == \A w \in Workers : batch[w].pc \notin {"idle", "read"} =>
                                 rollout.status \in {"running", "completed"}
Stopped  == /\ settling = "pause_timer" => rollout.status = "paused"
            /\ settling \in {"cancel_jobs", "cancel_timer"} => rollout.status = "cancelled"
            /\ rollout.status = "paused" /\ timer => settling = "pause_timer"

AloneInv == TypeInv /\ OneBatch /\ Alone /\ Running /\ Stopped

\* Worker w, and no other, goes from where it is to pc.
Moved(w, pc) == /\ batch'[w].pc = pc
                /\ \A v \in Workers : v # w => batch'[v] = batch[v]

(* What the ways of writing a worker's record come to.                       *)
LEMMA Replaced ==
  ASSUME BatchTyped, NEW w \in Workers, NEW r, batch' = [batch EXCEPT ![w] = r]
  PROVE  Moved(w, r.pc) /\ batch'[w] = r
BY DEF BatchTyped, Moved

LEMMA Goes ==
  ASSUME BatchTyped, NEW w \in Workers, NEW pc, Goto(w, pc)
  PROVE  Moved(w, pc) /\ batch'[w].jobs = batch[w].jobs
<1> DEFINE r == [batch[w] EXCEPT !.pc = pc]
<1>1. r.pc = pc /\ r.jobs = batch[w].jobs
  BY RowOf
<1>2. batch' = [batch EXCEPT ![w] = r]
  BY DEF Goto
<1> HIDE DEF r
<1> QED BY <1>1, <1>2, Replaced

LEMMA Leaves ==
  ASSUME BatchTyped, NEW w \in Workers, Leave(w)
  PROVE  Moved(w, "idle")
BY Replaced DEF Leave, NoBatch

LEMMA Enters ==
  ASSUME BatchTyped, NEW w \in Workers, Enter(w)
  PROVE  Moved(w, "read")
<1> DEFINE r == [NoBatch EXCEPT !.pc = "read"]
<1>1. r.pc = "read"
  BY DEF NoBatch
<1>2. batch' = [batch EXCEPT ![w] = r]
  BY DEF Enter
<1> HIDE DEF r
<1> QED BY <1>1, <1>2, Replaced

LEMMA Reads ==
  ASSUME BatchTyped, NEW w \in Workers, ReadRollout(w)
  PROVE  \/ Moved(w, "idle")
         \/ rollout.status = "running" /\ Moved(w, "stats")
<1>1. CASE rollout.status = "running"
  <2> DEFINE r == [batch[w] EXCEPT !.pc = "stats", !.acked = rollout.acked]
  <2>1. r.pc = "stats"
    BY RowOf
  <2>2. batch' = [batch EXCEPT ![w] = r]
    BY <1>1 DEF ReadRollout
  <2> HIDE DEF r
  <2>3. Moved(w, "stats")
    BY <2>1, <2>2, Replaced
  <2> QED BY <1>1, <2>3
<1>2. CASE rollout.status # "running"
  BY <1>2, Leaves DEF ReadRollout
<1> QED BY <1>1, <1>2

LEMMA Takes ==
  ASSUME BatchTyped, NEW w \in Workers, PickJobs(w)
  PROVE  \E s \in Picks :
           /\ Moved(w, IF s = << >> THEN "complete" ELSE "job")
           /\ DOMAIN batch'[w].jobs = DOMAIN s
           /\ \A i \in DOMAIN s : batch'[w].jobs[i].device = s[i]
<1>1. PICK s \in Picks :
        batch' = [batch EXCEPT
          ![w].pc = IF s = << >> THEN "complete" ELSE "job",
          ![w].jobs = [i \in DOMAIN s |-> [device |-> s[i], deferrals |-> job[s[i]].deferrals]]]
  BY DEF PickJobs
<1> DEFINE pc   == IF s = << >> THEN "complete" ELSE "job"
           jobs == [i \in DOMAIN s |-> [device |-> s[i], deferrals |-> job[s[i]].deferrals]]
           r    == [batch[w] EXCEPT !.pc = pc, !.jobs = jobs]
<1>2. batch' = [batch EXCEPT ![w] = r]
  BY <1>1
<1>3. DOMAIN jobs = DOMAIN s /\ \A i \in DOMAIN s : jobs[i].device = s[i]
  OBVIOUS
<1> HIDE DEF jobs
<1>4. r.pc = pc /\ r.jobs = jobs
  BY RowOf
<1> HIDE DEF r
<1>5. Moved(w, pc) /\ batch'[w].jobs = jobs
  BY <1>2, <1>4, Replaced
<1> QED BY <1>3, <1>5

LEMMA Advances ==
  ASSUME BatchTyped, NEW w \in Workers, NEW sent, Advance(w, sent)
  PROVE  /\ Moved(w, IF Tail(batch[w].jobs) = << >> THEN "remaining" ELSE "job")
         /\ batch'[w].jobs = Tail(batch[w].jobs)
<1> DEFINE rest == Tail(batch[w].jobs)
           pc   == IF rest = << >> THEN "remaining" ELSE "job"
           r    == [batch[w] EXCEPT !.jobs = rest, !.sent = @ \/ sent, !.pc = pc]
<1>1. r.pc = pc /\ r.jobs = rest
  BY RowOf
<1>2. batch' = [batch EXCEPT ![w] = r]
  BY DEF Advance
<1> HIDE DEF r
<1> QED BY <1>1, <1>2, Replaced

----------------------------------------------------------------------------
(* A step of a batch in progress.                                            *)
LEMMA BatchMoves ==
  ASSUME AloneInv, TypeInv', NEW w \in Workers, NEW pc, Moved(w, pc), batch[w].pc # "idle",
         UNCHANGED <<creating, check, settling, up>>,
         \/ UNCHANGED timer
         \/ pc = "idle" /\ timer' = TRUE /\ batch[w].pc # "read" /\ UNCHANGED rollout,
         \/ UNCHANGED rollout
         \/ pc = "idle" /\ rollout.status = "running",
         pc # "idle" => pc # "read" /\ (batch[w].pc = "read" => rollout.status = "running")
  PROVE  AloneInv'
<1> USE DEF AloneInv
<1>1. \A v \in Workers : v # w => Idle(v) /\ batch'[v] = batch[v]
  BY DEF OneBatch, Idle, Moved
<1>2. ~AllIdle /\ ~timer /\ creating = << >> /\ up
  BY DEF Alone, AtRest, AllIdle, Idle
<1>3. batch[w].pc # "read" => rollout.status \in {"running", "completed"}
  BY DEF Running
<1>4. OneBatch'
  BY <1>1 DEF OneBatch, Idle, Moved
<1>5. pc = "idle" => AllIdle'
  BY <1>1 DEF AllIdle, Idle, Moved
<1>6. Alone'
  BY <1>2, <1>5 DEF Alone, AtRest
<1>7. Running'
  BY <1>1, <1>3 DEF Running, Moved, Idle
<1>8. Stopped'
  BY <1>2, <1>3 DEF Stopped
<1> QED BY <1>4, <1>6, <1>7, <1>8

(* A batch begins while none is in progress and no timer is left.            *)
LEMMA BatchBegins ==
  ASSUME AloneInv, TypeInv', NEW w \in Workers, Moved(w, "read"), AllIdle,
         creating' = << >>, timer' = FALSE, up' = TRUE,
         \/ UNCHANGED <<rollout, settling>>
         \/ settling' = "nothing"
  PROVE  AloneInv'
<1> USE DEF AloneInv
<1>1. \A v \in Workers : v # w => batch'[v].pc = "idle"
  BY DEF AllIdle, Idle, Moved
<1>2. OneBatch'
  BY <1>1 DEF OneBatch, Idle
<1>3. Alone'
  BY DEF Alone
<1>4. Running'
  BY <1>1 DEF Running, Moved
<1>5. Stopped'
  BY DEF Stopped
<1> QED BY <1>2, <1>3, <1>4, <1>5

(* No worker moves, and all jobs are inserted: the row, the timer, the       *)
(* checker and the request may change.                                       *)
LEMMA NoBatchMoves ==
  ASSUME AloneInv, TypeInv', UNCHANGED <<batch, up, creating>>, creating = << >>, up,
         timer' => timer,
         \/ AllIdle
         \/ UNCHANGED rollout
         \/ rollout'.status \in {"running", "completed"},
         Stopped'
  PROVE  AloneInv'
<1>1. AllIdle' <=> AllIdle
  BY DEF AllIdle, Idle
<1> QED BY <1>1 DEF AloneInv, OneBatch, Alone, Running, AllIdle, Idle

(* Nothing moves but jobs or controllers, and no job is back in the queue.   *)
LEMMA RowsMove ==
  ASSUME AloneInv, TypeInv',
         UNCHANGED <<creating, rollout, timer, batch, check, settling, up>>,
         creating = << >> \/ UNCHANGED job
  PROVE  AloneInv'
BY DEF AloneInv, OneBatch, Alone, AtRest, Running, Stopped, AllIdle, Idle

LEMMA AloneInit == ASSUME Init PROVE AloneInv
<1>1. \A w \in Workers : batch[w].pc = "idle"
  BY DEF Init, NoBatch
<1>2. AllIdle
  BY <1>1 DEF AllIdle, Idle
<1>3. check.pc = "idle"
  BY DEF Init, NoCheck
<1>4. \A d \in Devices : job[d].status = "absent"
  BY DEF Init
<1>5. Alone
  BY <1>2, <1>3, <1>4 DEF Init, Alone, AtRest
<1> QED BY <1>1, <1>5, TypeInit DEF Init, AloneInv, OneBatch, Running, Stopped, Idle

LEMMA AloneBatchStep ==
  ASSUME AloneInv, TypeInv', NEW w \in Workers, BatchSteps(w)
  PROVE  AloneInv'
<1> USE DEF tables, devices, rejections
<1>0. BatchTyped
  BY DEF AloneInv, TypeInv
<1>1. CASE ReadRollout(w)
  BY <1>0, <1>1, Reads, BatchMoves DEF ReadRollout
<1>2. CASE \/ CheckThreshold(w) \/ CheckFirmware(w) \/ FailQueued(w) \/ Precheck(w)
  <2>1. PICK pc : Moved(w, pc) /\ pc \notin {"idle", "read"}
    BY <1>0, <1>2, Goes DEF CheckThreshold, CheckFirmware, FailQueued, Precheck
  <2>2. /\ batch[w].pc \notin {"idle", "read"}
        /\ UNCHANGED <<creating, rollout, timer, check, settling, up>>
    BY <1>2 DEF CheckThreshold, CheckFirmware, FailQueued, Precheck
  <2> QED BY <2>1, <2>2, BatchMoves
<1>3. CASE AutoPause(w)
  <2>1. Moved(w, "idle")
    BY <1>0, <1>3, Leaves DEF AutoPause
  <2>2. \/ UNCHANGED rollout
        \/ rollout.status = "running"
    BY <1>3 DEF AutoPause
  <2> QED BY <1>3, <2>1, <2>2, BatchMoves DEF AutoPause
<1>4. CASE CheckWindow(w)
  <2>1. CASE Goto(w, "pick") /\ UNCHANGED timer
    <3>1. Moved(w, "pick")
      BY <1>0, <2>1, Goes
    <3> QED BY <1>4, <2>1, <3>1, BatchMoves DEF CheckWindow
  <2>2. CASE Leave(w) /\ timer' = TRUE
    <3>1. Moved(w, "idle")
      BY <1>0, <2>2, Leaves
    <3> QED BY <1>4, <2>2, <3>1, BatchMoves DEF CheckWindow
  <2>3. CASE Goto(w, "complete") /\ UNCHANGED timer
    <3>1. Moved(w, "complete")
      BY <1>0, <2>3, Goes
    <3> QED BY <1>4, <2>3, <3>1, BatchMoves DEF CheckWindow
  <2> QED BY <1>4, <2>1, <2>2, <2>3 DEF CheckWindow
<1>5. CASE PickJobs(w)
  <2>1. PICK pc : Moved(w, pc) /\ pc \notin {"idle", "read"}
    BY <1>0, <1>5, Takes
  <2> QED BY <1>5, <2>1, BatchMoves DEF PickJobs
<1>6. CASE MarkSent(w) \/ MarkFailed(w) \/ MarkDeferred(w)
  <2>1. PICK sent \in BOOLEAN : Advance(w, sent)
    BY <1>6 DEF MarkSent, MarkFailed, MarkDeferred
  <2>2. PICK pc : Moved(w, pc) /\ pc \notin {"idle", "read"}
    BY <1>0, <2>1, Advances
  <2>3. /\ batch[w].pc \notin {"idle", "read"}
        /\ UNCHANGED <<creating, rollout, timer, check, settling, up>>
    BY <1>6 DEF MarkSent, MarkFailed, MarkDeferred
  <2> QED BY <2>2, <2>3, BatchMoves
<1>7. CASE ScheduleNext(w)
  <2>1. CASE Goto(w, "complete") /\ UNCHANGED timer
    <3>1. Moved(w, "complete")
      BY <1>0, <2>1, Goes
    <3> QED BY <1>7, <2>1, <3>1, BatchMoves DEF ScheduleNext
  <2>2. CASE Leave(w) /\ timer' \in {timer, TRUE}
    <3>1. Moved(w, "idle")
      BY <1>0, <2>2, Leaves
    <3> QED BY <1>7, <2>2, <3>1, BatchMoves DEF ScheduleNext
  <2> QED BY <1>7, <2>1, <2>2 DEF ScheduleNext
<1>8. CASE CompleteAfterBatch(w)
  <2>1. Moved(w, "idle")
    BY <1>0, <1>8, Leaves DEF CompleteAfterBatch
  <2>2. \/ UNCHANGED rollout
        \/ rollout.status = "running"
    BY <1>8 DEF CompleteAfterBatch, Completed
  <2> QED BY <1>8, <2>1, <2>2, BatchMoves DEF CompleteAfterBatch
<1> QED BY <1>1, <1>2, <1>3, <1>4, <1>5, <1>6, <1>7, <1>8 DEF BatchSteps

(* Without that race, the administrator finds no batch.                      *)
LEMMA AloneNext ==
  ASSUME AloneInv, "admin_race" \notin Faults, [Next]_vars
  PROVE  AloneInv'
<1> USE DEF tables, devices, rejections
<1>0. TypeInv' /\ BatchTyped /\ timer \in BOOLEAN /\ up \in BOOLEAN
  BY TypeNext DEF AloneInv, TypeInv, RestTyped
<1>1. AllIdle <=> \A w \in Workers : batch[w].pc = "idle"
  BY DEF AllIdle, Idle
<1>2. CASE CreateJob
  <2>1. /\ up /\ AtRest /\ rollout.status = "running"
        /\ creating # << >> /\ creating \in Seq(Devices) /\ creating' = Tail(creating)
        /\ UNCHANGED <<rollout, timer, check, settling, up>>
    BY <1>2 DEF CreateJob, AloneInv, Alone, TypeInv, JobsTyped
  <2>2. CASE Len(creating) = 1
    <3>1. PICK w \in Workers : Moved(w, "read")
      BY <1>0, <1>2, <2>2, Enters DEF CreateJob
    <3>2. creating' = << >>
      BY <2>1, <2>2
    <3> QED BY <1>0, <2>1, <3>1, <3>2, BatchBegins DEF AtRest
  <2>3. CASE Len(creating) # 1
    <3>1. UNCHANGED batch
      BY <1>2, <2>3 DEF CreateJob
    <3>2. \A d \in Devices : job'[d].status \in {job[d].status, "queued"}
      BY <1>2 DEF CreateJob, AloneInv, TypeInv, JobsTyped, JobRow
    <3>3. AtRest'
      BY <2>1, <3>1 DEF AtRest, AllIdle, Idle
    <3>4. Alone'
      BY <2>1, <3>2, <3>3 DEF AloneInv, Alone, AtRest
    <3> QED BY <1>0, <2>1, <3>1, <3>4
            DEF AloneInv, OneBatch, Running, Stopped, Idle
  <2> QED BY <2>2, <2>3
<1>3. ASSUME NEW w \in Workers, TimerFires(w) PROVE AloneInv'
  <2>1. /\ Moved(w, "read") /\ timer /\ up = TRUE /\ timer' = FALSE
        /\ UNCHANGED <<creating, rollout, settling, up>>
    BY <1>0, <1>3, Enters DEF TimerFires
  <2>2. AllIdle /\ creating = << >>
    BY <2>1 DEF AloneInv, Alone, AtRest
  <2> QED BY <1>0, <2>1, <2>2, BatchBegins
<1>4. ASSUME NEW w \in Workers, BatchSteps(w) PROVE AloneInv'
  BY <1>0, <1>4, AloneBatchStep
<1>5. ASSUME NEW w \in Workers, Resume(w) PROVE AloneInv'
  <2>1. Resting /\ up = TRUE
    BY <1>0, <1>5 DEF Resume, MayAdminister
  <2>2. Moved(w, "read")
    BY <1>0, <1>5, Enters DEF Resume
  <2>3. timer = FALSE
    BY <1>0, <1>5, <2>1 DEF Resume, Resting, AloneInv, Stopped
  <2> QED BY <1>0, <1>1, <1>5, <2>1, <2>2, <2>3, BatchBegins
          DEF Resume, Resting, NoBatchRuns
<1>6. CASE CheckRead
  <2>1. \E d \in Devices : job[d].status = "sent"
    BY <1>6 DEF CheckRead, With
  <2>2. creating = << >> /\ up
    BY <1>6, <2>1 DEF AloneInv, Alone, CheckRead, MayCheck
  <2> QED BY <1>0, <1>6, <2>2, NoBatchMoves DEF CheckRead, AloneInv, Stopped
<1>7. CASE CompleteAfterCheck
  <2>1. creating = << >> /\ up /\ UNCHANGED <<creating, timer, batch, settling, up>>
    BY <1>7 DEF CompleteAfterCheck, AloneInv, Alone, AtRest
  <2>2. \/ UNCHANGED rollout
        \/ rollout.status = "running" /\ rollout'.status = "completed"
    BY <1>7 DEF CompleteAfterCheck, Completed, AloneInv, TypeInv, RolloutRow
  <2>3. Stopped'
    BY <2>1, <2>2 DEF Stopped, AloneInv
  <2> QED BY <1>0, <2>1, <2>2, <2>3, NoBatchMoves
<1>8. ASSUME NEW d \in Devices, CheckMark(d) PROVE AloneInv'
  <2>1. creating = << >> /\ up /\ UNCHANGED <<creating, rollout, timer, batch, settling, up>>
    BY <1>8 DEF CheckMark, AloneInv, Alone, AtRest
  <2> QED BY <1>0, <2>1, NoBatchMoves DEF Stopped, AloneInv
<1>9. ASSUME NEW d \in Devices, Install(d) \/ ReadinessTurns(d) PROVE AloneInv'
  BY <1>0, <1>9, RowsMove DEF Install, ReadinessTurns
<1>10. ASSUME NEW d \in Devices, Expire(d) \/ Reassigned(d) PROVE AloneInv'
  <2>1. creating = << >>
    BY <1>10 DEF Expire, Reassigned, NoBatchRuns, AloneInv, Alone
  <2> QED BY <1>0, <1>10, <2>1, RowsMove DEF Expire, Reassigned
<1>11. CASE Pause \/ Cancel
  <2>1. /\ Resting /\ up /\ UNCHANGED <<creating, timer, batch, check, up>>
        /\ \/ rollout'.status = "paused" /\ settling' = "pause_timer"
           \/ rollout'.status = "cancelled" /\ settling' = "cancel_jobs"
    BY <1>11 DEF Pause, Cancel, MayAdminister, AloneInv, TypeInv, RolloutRow
  <2>2. Stopped'
    BY <2>1 DEF Stopped
  <2> QED BY <1>0, <1>1, <2>1, <2>2, NoBatchMoves DEF Resting, NoBatchRuns
<1>12. CASE CancelJobs
  <2>1. /\ creating = << >> /\ up /\ settling' = "cancel_timer"
        /\ UNCHANGED <<creating, rollout, timer, batch, check, up>>
    BY <1>12 DEF CancelJobs, AloneInv, Alone, AtRest
  <2>2. Stopped'
    BY <1>12, <2>1 DEF Stopped, CancelJobs, AloneInv
  <2> QED BY <1>0, <2>1, <2>2, NoBatchMoves
<1>13. CASE StopTimer
  <2>1. /\ creating = << >> /\ up /\ settling' = "nothing" /\ timer' = FALSE
        /\ UNCHANGED <<creating, rollout, batch, check, up>>
    BY <1>13 DEF StopTimer, AloneInv, Alone, AtRest
  <2>2. Stopped'
    BY <2>1 DEF Stopped
  <2> QED BY <1>0, <2>1, <2>2, NoBatchMoves
<1>14. CASE Stop
  <2>1. /\ up' = FALSE /\ creating' = << >> /\ timer' = FALSE
        /\ batch' = [w \in Workers |-> NoBatch] /\ check'.pc = "idle"
        /\ settling' = "nothing" /\ UNCHANGED rollout
    BY <1>14 DEF Stop, NoCheck
  <2>2. \A w \in Workers : batch'[w].pc = "idle"
    BY <2>1 DEF NoBatch
  <2> QED BY <1>0, <2>1, <2>2
          DEF AloneInv, OneBatch, Alone, AtRest, Running, Stopped, AllIdle, Idle
<1>15. CASE Start
  <2>1. /\ up' = TRUE /\ AllIdle /\ timer = FALSE /\ creating = << >>
        /\ check.pc = "idle" /\ settling = "nothing"
        /\ UNCHANGED <<creating, rollout, timer, check, settling>>
    BY <1>0, <1>15 DEF Start, AloneInv, Alone, AtRest
  <2>2. CASE UNCHANGED batch
    BY <1>0, <2>1, <2>2
       DEF AloneInv, OneBatch, Alone, AtRest, Running, Stopped, AllIdle, Idle
  <2>3. CASE \E w \in Workers : Enter(w)
    <3>1. PICK w \in Workers : Moved(w, "read")
      BY <1>0, <2>3, Enters
    <3> QED BY <1>0, <2>1, <3>1, BatchBegins
  <2> QED BY <1>15, <2>2, <2>3 DEF Start
<1>16. CASE WindowCloses \/ WindowOpens \/ Over \/ UNCHANGED vars
  BY <1>0, <1>16, RowsMove DEF WindowCloses, WindowOpens, Over, vars
<1>17. ASSUME NEW w \in Workers, BatchRejects(w) \/ MarkRejects(w) PROVE AloneInv'
  <2>1. PICK pc : Moved(w, pc) /\ pc # "read" /\ batch[w].pc # "idle" /\ (pc # "idle" => batch[w].pc # "read")
    BY <1>0, <1>17, Leaves, Goes DEF BatchRejects, MarkRejects
  <2>2. UNCHANGED <<creating, rollout, timer, check, settling, up>>
    BY <1>17 DEF BatchRejects, MarkRejects
  <2> QED BY <1>0, <2>1, <2>2, BatchMoves
<1>18. CASE CheckRejects \/ CancelRejects
  <2>1. /\ creating = << >> /\ up /\ UNCHANGED <<creating, rollout, timer, batch, up>>
        /\ settling' \in {settling, "nothing"}
        /\ settling' # settling => settling = "cancel_jobs"
    BY <1>18 DEF CheckRejects, CancelRejects, AloneInv, Alone, AtRest
  <2>2. Stopped'
    BY <2>1 DEF Stopped, AloneInv
  <2> QED BY <1>0, <2>1, <2>2, NoBatchMoves
<1>19. CASE CreateRejects \/ StartRejects
  BY <1>0, <1>19
     DEF CreateRejects, StartRejects, AloneInv, OneBatch, Alone, AtRest, Running, Stopped, AllIdle, Idle
<1> QED BY <1>2, <1>3, <1>4, <1>5, <1>6, <1>7, <1>8, <1>9, <1>10, <1>11, <1>12, <1>13,
           <1>14, <1>15, <1>16, <1>17, <1>18, <1>19 DEF Next, Rejects

----------------------------------------------------------------------------
(* The jobs a batch has in hand are queued, none of them twice; those the    *)
(* checker goes through were sent once; and nothing of a completed rollout   *)
(* is waiting or in flight.                                                  *)
HandOf(w) == \A i, j \in DOMAIN batch[w].jobs :
               /\ job[batch[w].jobs[i].device].status = "queued"
               /\ batch[w].jobs[i].device = batch[w].jobs[j].device => i = j
InHand    == \A w \in Workers : batch[w].pc \in InHandStep => HandOf(w)
Checked   == \A d \in check.done \cup check.late : job[d].status \notin {"absent", "queued"}
Settled   == \A d \in Devices : job[d].status \notin Active
Final     == rollout.status = "completed" => Settled

HandInv == AloneInv /\ InHand /\ Checked /\ Final

LEMMA SettledIsFinal == Settled <=> With("queued") \cup With("sent") = {}
BY DEF Settled, With, Active

LEMMA CompletedSettles ==
  ASSUME rollout' = Completed, UNCHANGED job, Final
  PROVE  Final'
BY SettledIsFinal DEF Completed, Final, Settled

\* What the statements that change jobs leave of their states.
LEMMA Finishes ==
  ASSUME JobsTyped, NEW d \in Devices, NEW s, Finish(d, s)
  PROVE  \A e \in Devices : job'[e].status = IF e = d /\ job[d].status # "absent" THEN s
                                             ELSE job[e].status
<1> DEFINE st == IF job[d].status = "absent" THEN job[d].status ELSE s
           r  == [job[d] EXCEPT !.status = st, !.late = FALSE]
<1>1. job' = [job EXCEPT ![d] = r]
  BY JobOf DEF Finish, JobsTyped
<1>2. r.status = st
  BY JobOf
<1> HIDE DEF r
<1> QED BY <1>1, <1>2 DEF JobsTyped

LEMMA QueuedTurn ==
  ASSUME JobsTyped, NEW s,
         job' = [d \in Devices |-> IF job[d].status = "queued"
                                   THEN [job[d] EXCEPT !.status = s] ELSE job[d]]
  PROVE  \A d \in Devices : job'[d].status = IF job[d].status = "queued" THEN s ELSE job[d].status
<1>1. \A d \in Devices : [job[d] EXCEPT !.status = s].status = s
  BY JobOf
<1> QED BY <1>1

LEMMA StatusEdits ==
  ASSUME JobsTyped, NEW d \in Devices, NEW s, job' = [job EXCEPT ![d].status = s]
  PROVE  \A e \in Devices : job'[e].status = IF e = d THEN s ELSE job[e].status
<1> DEFINE r == [job[d] EXCEPT !.status = s]
<1>1. r.status = s /\ job' = [job EXCEPT ![d] = r]
  BY JobOf
<1> HIDE DEF r
<1> QED BY <1>1 DEF JobsTyped

LEMMA OtherEdits ==
  ASSUME JobsTyped, NEW d \in Devices, NEW x,
         \/ job' = [job EXCEPT ![d].deferrals = x]
         \/ job' = [job EXCEPT ![d].late = x]
  PROVE  \A e \in Devices : job'[e].status = job[e].status
<1>1. CASE job' = [job EXCEPT ![d].deferrals = x]
  <2> DEFINE r == [job[d] EXCEPT !.deferrals = x]
  <2>1. r.status = job[d].status /\ job' = [job EXCEPT ![d] = r]
    BY <1>1, JobOf
  <2> HIDE DEF r
  <2> QED BY <2>1 DEF JobsTyped
<1>2. CASE job' = [job EXCEPT ![d].late = x]
  <2> DEFINE r == [job[d] EXCEPT !.late = x]
  <2>1. r.status = job[d].status /\ job' = [job EXCEPT ![d] = r]
    BY <1>2, JobOf
  <2> HIDE DEF r
  <2> QED BY <2>1 DEF JobsTyped
<1> QED BY <1>1, <1>2

LEMMA Defers ==
  ASSUME JobsTyped, BatchTyped, NEW w \in Workers, MarkDeferred(w)
  PROVE  \A e \in Devices : job'[e].status = job[e].status
<1> DEFINE d == Head(batch[w].jobs).device
           x == job[d].deferrals + 1
<1>1. d \in Devices
  BY HeadOf DEF MarkDeferred, InHandStep
<1>2. job' = [job EXCEPT ![d].deferrals = x]
  BY DEF MarkDeferred
<1> HIDE DEF d, x
<1> QED BY <1>1, <1>2, OtherEdits

----------------------------------------------------------------------------
(* What a step of one worker must show of the jobs in hand.                  *)
LEMMA HandMoves ==
  ASSUME OneBatch, NEW w \in Workers, NEW pc, Moved(w, pc),
         ~Idle(w) \/ AllIdle,
         pc \in InHandStep => HandOf(w)'
  PROVE  InHand'
BY DEF OneBatch, Moved, Idle, AllIdle, InHand, InHandStep

LEMMA HandRests ==
  ASSUME InHand, BatchTyped, UNCHANGED batch,
         \A d \in Devices : job[d].status = "queued" => job'[d].status = "queued"
  PROVE  InHand'
<1>1. \A w \in Workers : \A i \in DOMAIN batch[w].jobs : batch[w].jobs[i].device \in Devices
  <2> DEFINE Row == [device : Devices, deferrals : Nat]
  <2>1. \A w \in Workers : batch[w].jobs \in Seq(Row)
    BY RowOf DEF BatchRow
  <2>2. \A row \in Row : row.device \in Devices
    OBVIOUS
  <2> HIDE DEF Row
  <2> QED BY <2>1, <2>2
<1> QED BY <1>1 DEF InHand, HandOf

LEMMA HandKept ==
  ASSUME InHand, UNCHANGED <<batch, job>>
  PROVE  InHand'
BY DEF InHand, HandOf

(* The rest of a batch, when its first job is done with.                     *)
LEMMA HandOfRest ==
  ASSUME BatchTyped, NEW w \in Workers, batch[w].pc \in InHandStep, HandOf(w),
         batch'[w].jobs = Tail(batch[w].jobs),
         \A e \in Devices : e # Head(batch[w].jobs).device => job'[e].status = job[e].status
  PROVE  HandOf(w)'
<1> DEFINE Row == [device : Devices, deferrals : Nat]
           js  == batch[w].jobs
<1>1. js # << >> /\ js \in Seq(Row)
  BY RowOf DEF BatchTyped, BatchRow
<1>2. \A row \in Row : row.device \in Devices
  OBVIOUS
<1> HIDE DEF Row
<1>3. /\ \A i \in DOMAIN Tail(js) : /\ i \in Nat /\ i + 1 \in DOMAIN js /\ i + 1 # 1
                                    /\ Tail(js)[i] = js[i + 1]
      /\ 1 \in DOMAIN js /\ Head(js) = js[1]
      /\ \A i \in DOMAIN js : js[i] \in Row
  BY <1>1
<1>4. \A i \in DOMAIN Tail(js) : /\ Tail(js)[i].device \in Devices
                                 /\ Tail(js)[i].device # Head(js).device
                                 /\ job[Tail(js)[i].device].status = "queued"
  BY <1>2, <1>3 DEF HandOf
<1>5. \A i, j \in DOMAIN Tail(js) : Tail(js)[i].device = Tail(js)[j].device => i = j
  <2>1. SUFFICES ASSUME NEW i \in DOMAIN Tail(js), NEW j \in DOMAIN Tail(js),
                        Tail(js)[i].device = Tail(js)[j].device
                 PROVE  i = j
    OBVIOUS
  <2>2. i + 1 = j + 1 /\ i \in Nat /\ j \in Nat
    BY <1>3, <2>1 DEF HandOf
  <2> QED BY <2>2
<1> HIDE DEF js
<1>6. batch'[w].jobs = Tail(js)
  BY DEF js
<1>7. \A i \in DOMAIN Tail(js) : job'[Tail(js)[i].device].status = "queued"
  BY <1>4 DEF js
<1> QED BY <1>5, <1>6, <1>7 DEF HandOf

LEMMA HandOfPicks ==
  ASSUME JobsTyped, NEW s \in Picks
  PROVE  /\ \A i \in DOMAIN s : job[s[i]].status = "queued"
         /\ \A i, j \in DOMAIN s : s[i] = s[j] => i = j
<1>1. BatchLen \in Nat
  BY CountIsSmall, RolloutConstants, FS_CardinalityType DEF BatchLen
<1>2. DOMAIN s = 1 .. BatchLen /\ \A i \in DOMAIN s : s[i] \in With("queued")
  BY DEF Picks
<1>3. \A i, j \in DOMAIN s : i < j => Before(s[i], s[j])
  BY DEF Picks
<1>4. \A d : ~Before(d, d)
  <2>1. SUFFICES ASSUME NEW d, Before(d, d) PROVE FALSE
    OBVIOUS
  <2>2. PICK i, j \in DOMAIN order : i < j /\ order[i] = d /\ order[j] = d
    BY <2>1 DEF Before
  <2>3. i = j /\ i \in Nat /\ j \in Nat
    BY <2>2 DEF JobsTyped, Distinct
  <2> QED BY <2>2, <2>3
<1>5. \A i, j \in DOMAIN s : s[i] = s[j] => ~(i < j) /\ ~(j < i)
  BY <1>3, <1>4
<1>6. \A i, j \in DOMAIN s : s[i] = s[j] => i = j
  BY <1>1, <1>2, <1>5
<1> QED BY <1>2, <1>6 DEF With

LEMMA HandInit == ASSUME Init PROVE HandInv
<1>1. \A w \in Workers : batch[w].pc = "idle"
  BY DEF Init, NoBatch
<1>2. check.done \cup check.late = {}
  BY DEF Init, NoCheck
<1>3. rollout.status = "running"
  BY DEF Init
<1> QED BY <1>1, <1>2, <1>3, AloneInit DEF HandInv, InHand, InHandStep, Checked, Final

\* Marking jobs, and moving on, in the hand of worker w.
LEMMA HandMark ==
  ASSUME HandInv, NEW w \in Workers, MarkSent(w) \/ MarkFailed(w) \/ MarkDeferred(w)
  PROVE  InHand' /\ Checked' /\ Final'
<1> USE DEF tables, devices, rejections
<1>0. /\ AloneInv /\ JobsTyped /\ BatchTyped /\ OneBatch
      /\ batch[w].pc \in InHandStep /\ batch[w].pc # "idle"
      /\ HandOf(w)
      /\ UNCHANGED <<rollout, check>>
  BY DEF HandInv, AloneInv, TypeInv, InHand, MarkSent, MarkFailed, MarkDeferred, InHandStep
<1> DEFINE d == Head(batch[w].jobs).device
<1>1. d \in Devices
  BY <1>0, HeadOf
<1>2. job[d].status = "queued"
  <2>1. batch[w].jobs # << >> /\ batch[w].jobs \in Seq([device : Devices, deferrals : Nat])
    BY <1>0, RowOf DEF BatchTyped, BatchRow
  <2>2. 1 \in DOMAIN batch[w].jobs /\ Head(batch[w].jobs) = batch[w].jobs[1]
    BY <2>1
  <2> QED BY <1>0, <2>2 DEF HandOf
<1>3. PICK sent \in BOOLEAN : Advance(w, sent)
  BY DEF MarkSent, MarkFailed, MarkDeferred
<1>4. /\ \A e \in Devices : e # d => job'[e].status = job[e].status
      /\ job'[d].status \in {"sent", "failed", "queued"}
  <2>1. CASE MarkSent(w)
    BY <1>0, <1>1, <1>2, <2>1, Finishes DEF MarkSent
  <2>2. CASE MarkFailed(w)
    BY <1>0, <1>1, <1>2, <2>2, Finishes DEF MarkFailed
  <2>3. CASE MarkDeferred(w)
    BY <1>0, <1>1, <1>2, <2>3, Defers
  <2> QED BY <2>1, <2>2, <2>3
<1>5. InHand'
  <2>1. PICK pc : Moved(w, pc)
    BY <1>0, <1>3, Advances
  <2>2. HandOf(w)'
    BY <1>0, <1>3, <1>4, Advances, HandOfRest
  <2> QED BY <1>0, <2>1, <2>2, HandMoves DEF Idle
<1> HIDE DEF d
<1>6. Checked'
  <2>1. d \notin check.done \cup check.late /\ check.done \cup check.late \subseteq Devices
    BY <1>1, <1>2 DEF HandInv, Checked, AloneInv, TypeInv, CheckRow
  <2> QED BY <1>0, <1>4, <2>1 DEF HandInv, Checked
<1>7. Final'
  <2>1. rollout.status # "completed"
    BY <1>1, <1>2 DEF HandInv, Final, Settled, Active
  <2> QED BY <1>0, <2>1 DEF Final
<1> QED BY <1>5, <1>6, <1>7

LEMMA HandBatchStep ==
  ASSUME HandInv, NEW w \in Workers, BatchSteps(w)
  PROVE  InHand' /\ Checked' /\ Final'
<1> USE DEF tables, devices, rejections
<1>0. AloneInv /\ JobsTyped /\ BatchTyped /\ OneBatch
  BY DEF HandInv, AloneInv, TypeInv
<1>1. CASE MarkSent(w) \/ MarkFailed(w) \/ MarkDeferred(w)
  BY <1>1, HandMark
<1>2. CASE FailQueued(w)
  <2>1. \A d \in Devices : job'[d].status = IF job[d].status = "queued" THEN "failed" ELSE job[d].status
    BY <1>0, <1>2, QueuedTurn DEF FailQueued
  <2>2. InHand'
    BY <1>0, <1>2, Goes, HandMoves DEF FailQueued, Idle, InHandStep
  <2>3. check.done \cup check.late \subseteq Devices /\ UNCHANGED <<check, rollout>>
    BY <1>0, <1>2 DEF AloneInv, TypeInv, CheckRow, FailQueued
  <2>4. Checked' /\ Final'
    BY <2>1, <2>3 DEF HandInv, Checked, Final, Settled, Active
  <2> QED BY <2>2, <2>4
<1>3. CASE Precheck(w)
  <2>1. PICK pc : Moved(w, pc) /\ batch'[w].jobs = batch[w].jobs
    BY <1>0, <1>3, Goes DEF Precheck
  <2>2. UNCHANGED <<job, rollout, check>> /\ batch[w].pc = "job"
    BY <1>3 DEF Precheck
  <2>3. HandOf(w)'
    BY <2>1, <2>2 DEF HandInv, InHand, HandOf, InHandStep
  <2> QED BY <1>0, <2>1, <2>2, <2>3, HandMoves DEF Idle, HandInv, Checked, Final, Settled
<1>4. CASE PickJobs(w)
  <2>1. PICK s \in Picks :
          /\ Moved(w, IF s = << >> THEN "complete" ELSE "job")
          /\ DOMAIN batch'[w].jobs = DOMAIN s
          /\ \A i \in DOMAIN s : batch'[w].jobs[i].device = s[i]
    BY <1>0, <1>4, Takes
  <2>2. UNCHANGED <<job, rollout, check>> /\ batch[w].pc # "idle"
    BY <1>4 DEF PickJobs
  <2>3. HandOf(w)'
    BY <1>0, <2>1, <2>2, HandOfPicks DEF HandOf
  <2> QED BY <1>0, <2>1, <2>2, <2>3, HandMoves DEF Idle, HandInv, Checked, Final, Settled
<1>5. CASE \/ ReadRollout(w) \/ CheckThreshold(w) \/ CheckFirmware(w) \/ CheckWindow(w)
           \/ ScheduleNext(w) \/ AutoPause(w) \/ CompleteAfterBatch(w)
  <2>1. PICK pc : Moved(w, pc) /\ pc \notin InHandStep
    BY <1>0, <1>5, Reads, Goes, Leaves
       DEF CheckThreshold, CheckFirmware, CheckWindow, ScheduleNext, AutoPause,
           CompleteAfterBatch, InHandStep
  <2>2. UNCHANGED <<job, check>> /\ batch[w].pc # "idle"
    BY <1>5 DEF ReadRollout, CheckThreshold, CheckFirmware, CheckWindow, ScheduleNext,
                AutoPause, CompleteAfterBatch
  <2>3. InHand'
    BY <1>0, <2>1, <2>2, HandMoves DEF Idle
  <2>4. Final'
    <3>1. CASE AutoPause(w)
      BY <2>2, <3>1 DEF AutoPause, HandInv, Final, Settled, AloneInv, TypeInv, RolloutRow
    <3>2. CASE CompleteAfterBatch(w)
      BY <2>2, <3>2, CompletedSettles DEF CompleteAfterBatch, HandInv
    <3>3. CASE UNCHANGED rollout
      BY <2>2, <3>3 DEF HandInv, Final, Settled
    <3> QED BY <1>5, <3>1, <3>2, <3>3 DEF ReadRollout, CheckThreshold, CheckFirmware,
               CheckWindow, ScheduleNext
  <2> QED BY <2>2, <2>3, <2>4 DEF HandInv, Checked
<1> QED BY <1>1, <1>2, <1>3, <1>4, <1>5 DEF BatchSteps

LEMMA HandNext ==
  ASSUME HandInv, "admin_race" \notin Faults, [Next]_vars
  PROVE  HandInv'
<1> USE DEF tables, devices, rejections
<1>0. /\ AloneInv /\ AloneInv' /\ JobsTyped /\ BatchTyped /\ OneBatch /\ InHand /\ Checked /\ Final
      /\ check.done \cup check.late \subseteq Devices
  BY AloneNext DEF HandInv, AloneInv, TypeInv, CheckRow
<1> SUFFICES InHand' /\ Checked' /\ Final'
  BY <1>0 DEF HandInv
<1>1. CASE CreateJob
  <2> DEFINE d == Head(creating)
  <2>1. /\ d \in Devices /\ job[d].status = "absent" /\ AllIdle
        /\ rollout.status = "running" /\ UNCHANGED <<rollout, check>>
    <3>1. creating \in Seq(Devices) /\ creating # << >>
      BY <1>0, <1>1 DEF CreateJob, JobsTyped
    <3>2. d \in Devices /\ 1 \in DOMAIN creating /\ creating[1] = d
      BY <3>1
    <3> QED BY <1>0, <1>1, <3>1, <3>2 DEF CreateJob, JobsTyped, AloneInv, Alone, AtRest
  <2>4. job' = [job EXCEPT ![d].status = "queued"]
    BY <1>1 DEF CreateJob
  <2> HIDE DEF d
  <2>2. \A e \in Devices : job'[e].status = IF e = d THEN "queued" ELSE job[e].status
    BY <1>0, <2>1, <2>4, StatusEdits
  <2>3. \A w \in Workers : batch'[w].pc \in {"idle", "read"}
    <3>1. CASE UNCHANGED batch
      BY <2>1, <3>1 DEF AllIdle, Idle
    <3>2. CASE \E w \in Workers : Enter(w)
      <4>1. PICK w \in Workers : Moved(w, "read")
        BY <1>0, <3>2, Enters
      <4> QED BY <2>1, <4>1 DEF Moved, AllIdle, Idle
    <3> QED BY <1>1, <3>1, <3>2 DEF CreateJob
  <2> QED BY <1>0, <2>1, <2>2, <2>3 DEF InHand, InHandStep, Checked, Final
<1>2. ASSUME NEW w \in Workers, TimerFires(w) \/ Resume(w) PROVE InHand' /\ Checked' /\ Final'
  <2>1. Moved(w, "read") /\ AllIdle /\ UNCHANGED <<job, check>>
    BY <1>0, <1>2, Enters DEF TimerFires, Resume, Enter, MayAdminister, Resting, NoBatchRuns,
                              AloneInv, Alone, AllIdle, Idle
  <2>2. InHand'
    BY <1>0, <2>1, HandMoves DEF InHandStep
  <2>3. \/ UNCHANGED rollout
        \/ rollout'.status = "running"
    BY <1>2 DEF TimerFires, Resume
  <2> QED BY <1>0, <2>1, <2>2, <2>3 DEF Checked, Final, Settled
<1>3. ASSUME NEW w \in Workers, BatchSteps(w) PROVE InHand' /\ Checked' /\ Final'
  BY <1>3, HandBatchStep
<1>4. CASE CheckRead
  <2>1. UNCHANGED <<batch, job, rollout>> /\ check'.done \cup check'.late \subseteq With("sent")
    BY <1>4 DEF CheckRead
  <2>2. Checked'
    BY <2>1 DEF Checked, With
  <2> QED BY <1>0, <2>1, <2>2, HandKept DEF Final, Settled
<1>5. CASE CompleteAfterCheck
  <2>1. UNCHANGED <<batch, job>> /\ rollout' = Completed /\ check'.done \cup check'.late = {}
    BY <1>5 DEF CompleteAfterCheck, NoCheck
  <2> QED BY <1>0, <2>1, HandKept, CompletedSettles DEF Checked
<1>6. ASSUME NEW d \in Devices, CheckMark(d) PROVE InHand' /\ Checked' /\ Final'
  <2>1. PICK s \in {"succeeded", "failed"} : Finish(d, s)
    BY <1>6 DEF CheckMark
  <2>2. /\ \A e \in Devices : job'[e].status = IF e = d /\ job[d].status # "absent" THEN s
                                               ELSE job[e].status
    BY <1>0, <2>1, Finishes
  <2>3. /\ job[d].status \notin {"absent", "queued"}
        /\ UNCHANGED <<batch, rollout>>
        /\ check'.done \cup check'.late \subseteq check.done \cup check.late
    BY <1>0, <1>6 DEF CheckMark, Checked, AloneInv, TypeInv, CheckRow
  <2>4. InHand'
    BY <1>0, <2>2, <2>3, HandRests
  <2> QED BY <1>0, <2>2, <2>3, <2>4 DEF Checked, Final, Settled, Active
<1>7. ASSUME NEW d \in Devices, Reassigned(d) PROVE InHand' /\ Checked' /\ Final'
  <2>1. \A e \in Devices : job'[e].status = IF e = d THEN "cancelled" ELSE job[e].status
    BY <1>0, <1>7, StatusEdits DEF Reassigned
  <2>2. UNCHANGED <<batch, rollout, check>> /\ \A w \in Workers : batch[w].pc = "idle"
    BY <1>7 DEF Reassigned, NoBatchRuns
  <2> QED BY <1>0, <2>1, <2>2 DEF InHand, InHandStep, Checked, Final, Settled, Active
<1>8. ASSUME NEW d \in Devices, Expire(d) PROVE InHand' /\ Checked' /\ Final'
  <2>1. \A e \in Devices : job'[e].status = job[e].status
    BY <1>0, <1>8, OtherEdits DEF Expire
  <2>2. UNCHANGED <<batch, rollout, check>>
    BY <1>8 DEF Expire
  <2> QED BY <1>0, <2>1, <2>2, HandRests DEF Checked, Final, Settled
<1>9. CASE CancelJobs
  <2>1. \A d \in Devices : job'[d].status = IF job[d].status = "queued" THEN "cancelled" ELSE job[d].status
    BY <1>0, <1>9, QueuedTurn DEF CancelJobs
  <2>2. UNCHANGED <<batch, rollout, check>> /\ \A w \in Workers : batch[w].pc \in {"idle", "read"}
    BY <1>0, <1>9 DEF CancelJobs, AloneInv, Running, Stopped
  <2> QED BY <1>0, <2>1, <2>2 DEF InHand, InHandStep, Checked, Final, Settled, Active
<1>10. CASE Pause \/ Cancel
  <2>1. UNCHANGED <<batch, job, check>> /\ rollout'.status \in {"paused", "cancelled"}
    BY <1>0, <1>10 DEF Pause, Cancel, AloneInv, TypeInv, RolloutRow
  <2> QED BY <1>0, <2>1, HandKept DEF Checked, Final
<1>11. CASE Stop
  <2>1. /\ UNCHANGED <<job, rollout>> /\ check'.done \cup check'.late = {}
        /\ \A w \in Workers : batch'[w].pc = "idle"
    BY <1>11 DEF Stop, NoCheck, NoBatch
  <2> QED BY <1>0, <2>1 DEF InHand, InHandStep, Checked, Final, Settled
<1>12. CASE Start
  <2>1. UNCHANGED <<job, rollout, check>>
    BY <1>12 DEF Start
  <2>2. InHand'
    <3>1. CASE UNCHANGED batch
      BY <1>0, <2>1, <3>1, HandKept
    <3>2. CASE \E w \in Workers : Enter(w)
      <4>1. PICK w \in Workers : Moved(w, "read") /\ Idle(w)
        BY <1>0, <3>2, Enters DEF Enter, Idle
      <4>2. AllIdle
        BY <1>0, <1>12 DEF Start, AloneInv, Alone, AtRest
      <4> QED BY <1>0, <4>1, <4>2, HandMoves DEF InHandStep
    <3> QED BY <1>12, <3>1, <3>2 DEF Start
  <2> QED BY <1>0, <2>1, <2>2 DEF Checked, Final, Settled
<1>13. ASSUME NEW d \in Devices, Install(d) \/ ReadinessTurns(d) PROVE InHand' /\ Checked' /\ Final'
  <2>1. UNCHANGED <<batch, job, rollout, check>>
    BY <1>13 DEF Install, ReadinessTurns
  <2> QED BY <1>0, <2>1, HandKept DEF Checked, Final, Settled
<1>14. CASE StopTimer \/ WindowCloses \/ WindowOpens \/ Over \/ UNCHANGED vars
  <2>1. UNCHANGED <<batch, job, rollout, check>>
    BY <1>14 DEF StopTimer, WindowCloses, WindowOpens, Over, vars
  <2> QED BY <1>0, <2>1, HandKept DEF Checked, Final, Settled
<1>15. ASSUME NEW w \in Workers, BatchRejects(w) \/ MarkRejects(w) PROVE InHand' /\ Checked' /\ Final'
  <2>1. PICK pc : Moved(w, pc) /\ (pc \in InHandStep => batch[w].pc \in InHandStep /\ batch'[w].jobs = batch[w].jobs)
    BY <1>0, <1>15, Leaves, Goes DEF BatchRejects, MarkRejects, InHandStep
  <2>2. UNCHANGED <<job, rollout, check>> /\ batch[w].pc # "idle"
    BY <1>15 DEF BatchRejects, MarkRejects
  <2>3. pc \in InHandStep => HandOf(w)'
    BY <1>0, <2>1, <2>2 DEF InHand, HandOf
  <2> QED BY <1>0, <2>1, <2>2, <2>3, HandMoves DEF Idle, Checked, Final, Settled
<1>16. CASE CreateRejects \/ CheckRejects \/ CancelRejects \/ StartRejects
  <2>1. /\ UNCHANGED <<batch, job, rollout>>
        /\ check'.done \cup check'.late \subseteq check.done \cup check.late
    BY <1>16 DEF CreateRejects, CheckRejects, CancelRejects, StartRejects, NoCheck
  <2> QED BY <1>0, <2>1, HandKept DEF Checked, Final, Settled
<1> QED BY <1>1, <1>2, <1>3, <1>4, <1>5, <1>6, <1>7, <1>8, <1>9, <1>10, <1>11, <1>12, <1>13,
           <1>14, <1>15, <1>16 DEF Next, Rejects

----------------------------------------------------------------------------
(* The job of which a worker is about to send, or has sent, the command.     *)
LEMMA HeadInHand ==
  ASSUME HandInv, NEW w \in Workers, batch[w].pc \in InHandStep
  PROVE  /\ Head(batch[w].jobs).device \in Devices
         /\ job[Head(batch[w].jobs).device].status = "queued"
<1>1. BatchTyped /\ HandOf(w)
  BY DEF HandInv, AloneInv, TypeInv, InHand
<1>2. batch[w].jobs # << >> /\ batch[w].jobs \in Seq([device : Devices, deferrals : Nat])
  BY <1>1, RowOf DEF BatchTyped, BatchRow
<1>3. 1 \in DOMAIN batch[w].jobs /\ Head(batch[w].jobs) = batch[w].jobs[1]
  BY <1>2
<1> QED BY <1>1, <1>3, HeadOf DEF HandOf

(* A command leaves in the turn of its pre-checks only, and there the rollout *)
(* is as the batch found it: it has a queued job, so it is not over.          *)
LEMMA CommandsOfPrecheck ==
  ASSUME [Next]_vars, commands' # commands
  PROVE  \E w \in Workers : Precheck(w)
<1> USE DEF tables, devices, rejections
<1>1. Next
  BY DEF vars
<1> QED BY <1>1 DEF Next, BatchSteps, CreateJob, TimerFires, Resume, CheckRead, CompleteAfterCheck,
     CheckMark, Install, Expire, ReadinessTurns, Reassigned, Pause, Cancel, CancelJobs,
     StopTimer, Stop, Start, WindowCloses, WindowOpens, Over, vars, ReadRollout,
     CheckThreshold, AutoPause, CheckFirmware, FailQueued, CheckWindow, PickJobs, MarkSent,
     MarkFailed, MarkDeferred, ScheduleNext, CompleteAfterBatch, Rejects, CreateRejects,
     CheckRejects, CancelRejects, StartRejects, BatchRejects, MarkRejects

LEMMA CommandsAreOfRunning ==
  ASSUME HandInv, [Next]_vars
  PROVE  [commands' # commands => rollout.status = "running"]_vars
<1>1. SUFFICES ASSUME commands' # commands PROVE rollout.status = "running"
  OBVIOUS
<1>2. PICK w \in Workers : Precheck(w)
  BY <1>1, CommandsOfPrecheck
<1>3. batch[w].pc = "job"
  BY <1>2 DEF Precheck
<1>4. ~Settled
  BY <1>3, HeadInHand DEF InHandStep, Settled, Active
<1> QED BY <1>3, <1>4 DEF HandInv, AloneInv, Running, Final

(* As long as the administrator does not act amid a batch, whatever checks,  *)
(* stops, crashes, failed sends and reassignments there are, a rollout that  *)
(* is paused or over sends no command: no timer outlives the request that    *)
(* stopped it, and no batch the rollout it found running.                    *)
THEOREM StoppedSendsNothing ==
  ASSUME "admin_race" \notin Faults
  PROVE  Spec => OnlyRunningSends
<1>1. Init => HandInv
  BY HandInit
<1>2. HandInv /\ [Next]_vars => HandInv'
  BY HandNext
<1>3. HandInv /\ [Next]_vars => [commands' # commands => rollout.status = "running"]_vars
  BY CommandsAreOfRunning
<1> QED BY <1>1, <1>2, <1>3, PTL DEF Spec, OnlyRunningSends

(* Under the same condition no job of a rollout announced as completed is  *)
(* waiting or in flight: its totals are final.                             *)
THEOREM CompletedIsOver ==
  ASSUME "admin_race" \notin Faults
  PROVE  Spec => []CompletedIsFinal
<1>1. Init => HandInv
  BY HandInit
<1>2. HandInv /\ [Next]_vars => HandInv'
  BY HandNext
<1>3. HandInv => CompletedIsFinal
  BY SettledIsFinal DEF HandInv, Final, CompletedIsFinal
<1> QED BY <1>1, <1>2, <1>3, PTL DEF Spec

----------------------------------------------------------------------------
(* No command was sent for a job that waits, but the one whose command the   *)
(* batch has just sent, and those of which neither UPDATE told.              *)
Sending(d) == \E w \in Workers : /\ batch[w].pc \in {"mark_sent", "mark_failed"}
                                 /\ Head(batch[w].jobs).device = d
OnceOf(d)  == \/ d \in unmarked
              \/ /\ commands[d] <= 1
                 /\ job[d].status \in {"absent", "queued"} /\ ~Sending(d) => commands[d] = 0

OnceInv == HandInv /\ \A d \in Devices : OnceOf(d)

LEMMA OnceInit == ASSUME Init PROVE OnceInv
<1>1. \A d \in Devices : commands[d] = 0
  BY DEF Init
<1>2. \A d \in Devices : OnceOf(d)
  BY <1>1 DEF OnceOf
<1> QED BY <1>2, HandInit DEF OnceInv

(* Steps after which no job waits that did not before, and no command has    *)
(* gone out.                                                                 *)
LEMMA OnceKept ==
  ASSUME \A d \in Devices : OnceOf(d), UNCHANGED commands, unmarked \subseteq unmarked',
         \A d \in Devices : job'[d].status \in {"absent", "queued"} /\ ~Sending(d)' =>
                              job[d].status \in {"absent", "queued"} /\ ~Sending(d)
  PROVE  \A d \in Devices : OnceOf(d)'
BY DEF OnceOf

LEMMA OnceBatchStep ==
  ASSUME OnceInv, NEW w \in Workers, BatchSteps(w)
  PROVE  \A d \in Devices : OnceOf(d)'
<1> USE DEF tables, devices, rejections
<1>0. /\ HandInv /\ AloneInv /\ JobsTyped /\ BatchTyped /\ OneBatch
      /\ \A d \in Devices : OnceOf(d)
      /\ commands \in [Devices -> Nat]
  BY DEF OnceInv, HandInv, AloneInv, TypeInv
<1>1. CASE Precheck(w)
  <2>0. PICK e : e = Head(batch[w].jobs).device
    OBVIOUS
  <2>1. e \in Devices /\ job[e].status = "queued" /\ batch[w].pc = "job" /\ UNCHANGED job
    BY <1>0, <1>1, <2>0, HeadInHand DEF Precheck, InHandStep
  <2>2. \A d : ~Sending(d)
    BY <1>0, <2>1 DEF Sending, OneBatch, Idle
  <2>3. PICK pc : Moved(w, pc) /\ batch'[w].jobs = batch[w].jobs /\ (UNCHANGED commands \/ pc = "mark_sent")
    BY <1>0, <1>1, Goes DEF Precheck
  <2>4. UNCHANGED commands \/ commands' = [commands EXCEPT ![e] = @ + 1]
    BY <1>1, <2>0 DEF Precheck
  <2>5. e \in unmarked \/ commands[e] = 0
    BY <1>0, <2>1, <2>2 DEF OnceOf
  <2>9. UNCHANGED unmarked
    BY <1>1 DEF Precheck
  <2>6. pc = "mark_sent" => Sending(e)'
    BY <2>0, <2>3 DEF Moved, Sending
  <2>7. CASE UNCHANGED commands
    BY <1>0, <2>1, <2>2, <2>7, <2>9, OnceKept
  <2>8. CASE commands' # commands
    <3>1. Sending(e)' /\ (e \in unmarked' \/ commands'[e] = 1)
      BY <1>0, <2>1, <2>3, <2>4, <2>5, <2>6, <2>8, <2>9
    <3>2. \A d \in Devices : d # e => commands'[d] = commands[d]
      BY <1>0, <2>4
    <3>3. OnceOf(e)'
      BY <3>1 DEF OnceOf
    <3>4. ASSUME NEW d \in Devices, d # e PROVE OnceOf(d)'
      <4>1. \/ d \in unmarked'
            \/ commands'[d] <= 1 /\ (job'[d].status \in {"absent", "queued"} => commands'[d] = 0)
        BY <1>0, <2>1, <2>2, <2>9, <3>2, <3>4 DEF OnceOf
      <4> QED BY <4>1 DEF OnceOf
    <3> QED BY <3>3, <3>4
  <2> QED BY <2>7, <2>8
<1>2. CASE MarkSent(w) \/ MarkFailed(w) \/ MarkDeferred(w)
  <2> DEFINE e == Head(batch[w].jobs).device
  <2>1. e \in Devices /\ job[e].status = "queued" /\ UNCHANGED <<commands, unmarked>>
    BY <1>0, <1>2, HeadInHand DEF MarkSent, MarkFailed, MarkDeferred, InHandStep
  <2>2. \A d : Sending(d) => (MarkSent(w) \/ MarkFailed(w)) /\ d = e
    BY <1>0, <1>2 DEF Sending, OneBatch, Idle, MarkSent, MarkFailed, MarkDeferred
  <2>3. CASE MarkSent(w)
    <3>1. \A d \in Devices : job'[d].status = IF d = e THEN "sent" ELSE job[d].status
      BY <1>0, <2>1, <2>3, Finishes DEF MarkSent
    <3> QED BY <1>0, <2>1, <2>2, <3>1, OnceKept
  <2>4. CASE MarkFailed(w)
    <3>1. \A d \in Devices : job'[d].status = IF d = e THEN "failed" ELSE job[d].status
      BY <1>0, <2>1, <2>4, Finishes DEF MarkFailed
    <3> QED BY <1>0, <2>1, <2>2, <3>1, OnceKept
  <2>5. CASE MarkDeferred(w)
    <3>1. \A d \in Devices : job'[d].status = job[d].status
      BY <1>0, <2>5, Defers
    <3>2. batch[w].pc = "mark_deferred"
      BY <2>5 DEF MarkDeferred
    <3>3. \A d : ~Sending(d)
      BY <1>0, <3>2 DEF Sending, OneBatch, Idle
    <3> QED BY <1>0, <2>1, <3>1, <3>3, OnceKept
  <2> QED BY <1>2, <2>3, <2>4, <2>5
<1>3. CASE \/ ReadRollout(w) \/ CheckThreshold(w) \/ CheckFirmware(w) \/ CheckWindow(w)
           \/ ScheduleNext(w) \/ AutoPause(w) \/ CompleteAfterBatch(w) \/ PickJobs(w)
           \/ FailQueued(w)
  <2>1. UNCHANGED <<commands, unmarked>> /\ batch[w].pc \notin {"idle", "mark_sent", "mark_failed"}
    BY <1>3 DEF ReadRollout, CheckThreshold, CheckFirmware, CheckWindow, ScheduleNext,
                AutoPause, CompleteAfterBatch, PickJobs, FailQueued
  <2>2. \A d : ~Sending(d)
    BY <1>0, <2>1 DEF Sending, OneBatch, Idle
  <2>3. \A d \in Devices : job'[d].status \in {job[d].status, "failed"}
    <3>1. CASE FailQueued(w)
      BY <1>0, <3>1, QueuedTurn DEF FailQueued
    <3>2. CASE UNCHANGED job
      BY <3>2
    <3> QED BY <1>3, <3>1, <3>2 DEF ReadRollout, CheckThreshold, CheckFirmware, CheckWindow,
               ScheduleNext, AutoPause, CompleteAfterBatch, PickJobs
  <2> QED BY <1>0, <2>1, <2>2, <2>3, OnceKept
<1> QED BY <1>1, <1>2, <1>3 DEF BatchSteps

LEMMA OnceNext ==
  ASSUME OnceInv, {"admin_race", "crash"} \cap Faults = {}, [Next]_vars
  PROVE  OnceInv'
<1> USE DEF tables, devices, rejections
<1>0. /\ HandInv /\ HandInv' /\ AloneInv /\ JobsTyped /\ BatchTyped /\ OneBatch
      /\ \A d \in Devices : OnceOf(d)
      /\ "crash" \notin Faults /\ "admin_race" \notin Faults
  BY HandNext DEF OnceInv, HandInv, AloneInv, TypeInv
<1> SUFFICES \A d \in Devices : OnceOf(d)'
  BY <1>0 DEF OnceInv
<1>1. ASSUME NEW w \in Workers, BatchSteps(w) PROVE \A d \in Devices : OnceOf(d)'
  BY <1>1, OnceBatchStep
<1>2. CASE CreateJob
  <2> DEFINE e == Head(creating)
  <2>1. e \in Devices /\ job[e].status = "absent" /\ AllIdle /\ UNCHANGED <<commands, unmarked>>
    <3>1. creating \in Seq(Devices) /\ creating # << >>
      BY <1>0, <1>2 DEF CreateJob, JobsTyped
    <3>2. e \in Devices /\ 1 \in DOMAIN creating /\ creating[1] = e
      BY <3>1
    <3> QED BY <1>0, <1>2, <3>1, <3>2 DEF CreateJob, JobsTyped, AloneInv, Alone, AtRest
  <2>2. job' = [job EXCEPT ![e].status = "queued"]
    BY <1>2 DEF CreateJob
  <2> HIDE DEF e
  <2>3. \A d \in Devices : job'[d].status = IF d = e THEN "queued" ELSE job[d].status
    BY <1>0, <2>1, <2>2, StatusEdits
  <2>4. \A d : ~Sending(d)
    BY <2>1 DEF Sending, AllIdle, Idle
  <2> QED BY <1>0, <2>1, <2>3, <2>4, OnceKept
<1>3. ASSUME NEW w \in Workers, TimerFires(w) \/ Resume(w) PROVE \A d \in Devices : OnceOf(d)'
  <2>1. AllIdle /\ UNCHANGED <<job, commands, unmarked>>
    BY <1>0, <1>3 DEF TimerFires, Resume, MayAdminister, Resting, NoBatchRuns,
                      AloneInv, Alone, AllIdle, Idle
  <2>2. \A d : ~Sending(d)
    BY <2>1 DEF Sending, AllIdle, Idle
  <2> QED BY <1>0, <2>1, <2>2, OnceKept
<1>4. CASE Stop \/ Start
  <2>1. AllIdle /\ UNCHANGED <<job, commands, unmarked>>
    BY <1>0, <1>4 DEF Stop, Start, Resting, NoBatchRuns, AloneInv, Alone, AtRest, AllIdle, Idle
  <2>2. \A d : ~Sending(d)
    BY <2>1 DEF Sending, AllIdle, Idle
  <2> QED BY <1>0, <2>1, <2>2, OnceKept
<1>5. ASSUME NEW d \in Devices, CheckMark(d) PROVE \A e \in Devices : OnceOf(e)'
  <2>1. PICK s \in {"succeeded", "failed"} : Finish(d, s)
    BY <1>5 DEF CheckMark
  <2>2. \A e \in Devices : job'[e].status = IF e = d /\ job[d].status # "absent" THEN s
                                            ELSE job[e].status
    BY <1>0, <2>1, Finishes
  <2>3. UNCHANGED <<batch, commands, unmarked>>
    BY <1>5 DEF CheckMark
  <2> QED BY <1>0, <2>2, <2>3, OnceKept DEF Sending
<1>6. ASSUME NEW d \in Devices, Reassigned(d) PROVE \A e \in Devices : OnceOf(e)'
  <2>1. \A e \in Devices : job'[e].status = IF e = d THEN "cancelled" ELSE job[e].status
    BY <1>0, <1>6, StatusEdits DEF Reassigned
  <2>2. UNCHANGED <<batch, commands, unmarked>>
    BY <1>6 DEF Reassigned
  <2> QED BY <1>0, <2>1, <2>2, OnceKept DEF Sending
<1>7. ASSUME NEW d \in Devices, Expire(d) PROVE \A e \in Devices : OnceOf(e)'
  <2>1. \A e \in Devices : job'[e].status = job[e].status
    BY <1>0, <1>7, OtherEdits DEF Expire
  <2>2. UNCHANGED <<batch, commands, unmarked>>
    BY <1>7 DEF Expire
  <2> QED BY <1>0, <2>1, <2>2, OnceKept DEF Sending
<1>8. CASE CancelJobs
  <2>1. \A d \in Devices : job'[d].status = IF job[d].status = "queued" THEN "cancelled" ELSE job[d].status
    BY <1>0, <1>8, QueuedTurn DEF CancelJobs
  <2>2. UNCHANGED <<batch, commands, unmarked>>
    BY <1>8 DEF CancelJobs
  <2> QED BY <1>0, <2>1, <2>2, OnceKept DEF Sending
<1>9. ASSUME NEW d \in Devices, Install(d) \/ ReadinessTurns(d) PROVE \A e \in Devices : OnceOf(e)'
  <2>1. UNCHANGED <<batch, job, commands, unmarked>>
    BY <1>9 DEF Install, ReadinessTurns
  <2> QED BY <1>0, <2>1, OnceKept DEF Sending
<1>10. CASE \/ CheckRead \/ CompleteAfterCheck \/ Pause \/ Cancel \/ StopTimer
            \/ WindowCloses \/ WindowOpens \/ Over \/ UNCHANGED vars
  <2>1. UNCHANGED <<batch, job, commands, unmarked>>
    BY <1>10 DEF CheckRead, CompleteAfterCheck, Pause, Cancel, StopTimer, WindowCloses,
                 WindowOpens, Over, vars
  <2> QED BY <1>0, <2>1, OnceKept DEF Sending
<1>11. ASSUME NEW w \in Workers, BatchRejects(w) PROVE \A d \in Devices : OnceOf(d)'
  <2>1. /\ UNCHANGED <<job, commands>> /\ batch[w].pc \notin {"idle", "mark_sent"}
        /\ unmarked' = unmarked \cup {d \in Devices : /\ batch[w].pc = "mark_failed" /\ commands[d] > 0
                                                     /\ Head(batch[w].jobs).device = d}
    BY <1>11 DEF BatchRejects
  <2>2. \A d : Sending(d) => batch[w].pc = "mark_failed" /\ Head(batch[w].jobs).device = d
    BY <1>0, <2>1 DEF Sending, OneBatch, Idle
  <2>3. ASSUME NEW d \in Devices PROVE OnceOf(d)'
    <3>1. CASE d \in unmarked'
      BY <3>1 DEF OnceOf
    <3>2. CASE d \notin unmarked'
      <4>1. commands[d] \in Nat /\ d \notin unmarked
        BY <1>0, <2>1, <3>2 DEF HandInv, AloneInv, TypeInv
      <4>2. Sending(d) => commands[d] = 0
        BY <2>1, <2>2, <3>2, <4>1
      <4>3. commands[d] <= 1 /\ (job[d].status \in {"absent", "queued"} => commands[d] = 0)
        BY <1>0, <4>1, <4>2 DEF OnceOf
      <4> QED BY <2>1, <4>3 DEF OnceOf
    <3> QED BY <3>1, <3>2
  <2> QED BY <2>3
<1>12. ASSUME NEW w \in Workers, MarkRejects(w) PROVE \A d \in Devices : OnceOf(d)'
  <2>1. UNCHANGED <<job, commands, unmarked>> /\ batch[w].pc = "mark_sent"
    BY <1>12 DEF MarkRejects
  <2>2. batch'[w].pc = "mark_failed" /\ batch'[w].jobs = batch[w].jobs
    BY <1>0, <1>12, Goes DEF MarkRejects, Moved
  <2>3. \A d : Sending(d) => Head(batch[w].jobs).device = d
    BY <1>0, <2>1 DEF Sending, OneBatch, Idle
  <2>4. \A d : Sending(d) => Sending(d)'
    BY <2>2, <2>3 DEF Sending
  <2> QED BY <1>0, <2>1, <2>4, OnceKept
<1>13. CASE CreateRejects \/ CheckRejects \/ CancelRejects \/ StartRejects
  <2>1. UNCHANGED <<batch, job, commands, unmarked>>
    BY <1>13 DEF CreateRejects, CheckRejects, CancelRejects, StartRejects
  <2> QED BY <1>0, <2>1, OnceKept DEF Sending
<1> QED BY <1>1, <1>2, <1>3, <1>4, <1>5, <1>6, <1>7, <1>8, <1>9, <1>10, <1>11, <1>12, <1>13 DEF Next, Rejects

(* As long as the process does not crash between a command and the UPDATE    *)
(* that records it, and the administrator does not act amid a batch, a       *)
(* controller is told once at most to install the firmware of a rollout,     *)
(* however often its job is deferred and whatever the checker, the restarts  *)
(* between batches, the failed sends, the reassignments and the rejected     *)
(* queries do, but where the UPDATE that records the command and the one     *)
(* that would record its failure are both rejected.                          *)
THEOREM CommandedOnce ==
  ASSUME {"admin_race", "crash"} \cap Faults = {}
  PROVE  Spec => []OneCommand
<1>1. Init => OnceInv
  BY OnceInit
<1>2. OnceInv /\ [Next]_vars => OnceInv'
  BY OnceNext
<1>3. OnceInv => OneCommand
  BY DEF OnceInv, OnceOf, OneCommand
<1> QED BY <1>1, <1>2, <1>3, PTL DEF Spec
=============================================================================
