---------------------------- MODULE DeviceProofs ----------------------------
(* Theorems about how controllers come in, for every value of the constants: *)
(* DeviceImport, any number of controllers and imports, and any number of    *)
(* restarts, failed queries and others at the same controllers; and          *)
(* DeviceOnboarding, any number of organisations, requests and mishaps.      *)
(* The two share no variable: theirs are two views of the devices table.     *)
EXTENDS DeviceImport, DeviceOnboarding, FiniteSetTheorems, TLAPS

----------------------------------------------------------------------------
(* DeviceImport.                                                            *)

DeviceRow == [status : {"none", "pending", "active"}, claim : {"nobody", "us", "them"}, hash : Secrets]
JobRow    == [status : InProgress \cup {"none", "asked", "done", "failed", "cancelled"}, cancel : BOOLEAN,
              enc : SUBSET Devices]
Worker    == [step : {"off", "scheduled", "claimed", "decide", "loop", "row", "write", "end"},
              todo : SUBSET Devices, will : [Devices -> {"skip", "assign", "pre_register"}], at : SUBSET Devices,
              processed : Nat, given : SUBSET Devices, end : {"done", "cancelled", "failed"}]

\* TypeOK, in its parts.
ImportRows  == /\ device \in [Devices -> DeviceRow] /\ held \in [Devices -> Secrets]
               /\ job \in [Jobs -> JobRow] /\ worker \in [Jobs -> Worker]
ImportMarks == /\ hand \in [Devices -> {"no", "read", "sent"}] /\ claiming \in [Devices -> SUBSET {"us", "them"}]
               /\ cancelling \subseteq Jobs /\ taken \subseteq Jobs /\ astray \subseteq Devices /\ lost \subseteq Jobs
               /\ others \in Nat /\ incidents \in Nat

(* The parts of the inductive invariant, job by job and controller by        *)
(* controller.  A worker at its rows is of a running import, has given no    *)
(* password before it began, and leaves the row it is at out of those to     *)
(* come.  A controller that an import decided to assign waits as it was when *)
(* the import read it, or is astray; so is one assigned by hand whose row an *)
(* import wrote meanwhile.  A hash that is not the bootstrap password's is   *)
(* on an admitted row.                                                       *)
Idle   == {"off", "scheduled"}
Early  == {"off", "scheduled", "claimed"}
Ended  == {"done", "failed", "cancelled"}
Writing(j, d) == worker[j].step = "write" /\ worker[j].at = {d}

JobInv(j) ==
  /\ worker[j].step \in Idle \/ job[j].status = "running"
  /\ worker[j].step \in Early => worker[j].given = {}
  /\ worker[j].at \cap worker[j].todo = {}
  /\ worker[j].step \in {"decide", "loop"} => worker[j].at = {}
  /\ worker[j].step = "write" => \A d \in worker[j].at : worker[j].will[d] = "assign"
  /\ job[j].enc # {} => job[j].status \in Ended

Standing(d) == \A j \in Jobs : Decided(j, d) => d \in astray \/ (device[d].status = "pending" /\ device[d].claim # "them")
Meet(d)     ==
  /\ held[d] # Boot => \/ device[d].hash = held[d] \/ d \in astray
                       \/ held[d] = ByHand /\ hand[d] = "sent"
                       \/ \E j \in Jobs : held[d] = j /\ Writing(j, d)
  /\ \A j \in Jobs : device[d].hash = j =>
       \/ held[d] = j \/ d \in worker[j].given \cup job[j].enc \/ j \in taken \cup lost
RowInv(d) ==
  /\ Standing(d) /\ Meet(d)
  /\ device[d].status = "active" /\ hand[d] # "no" => d \in astray
  /\ device[d].hash # Boot => device[d].status = "active"

ImportInv == ImportRows /\ ImportMarks /\ (\A j \in Jobs : JobInv(j)) /\ \A d \in Devices : RowInv(d)

LEMMA ImportTypes == TypeOK <=> ImportRows /\ ImportMarks
  BY DEF TypeOK, ImportRows, ImportMarks, DeviceRow, JobRow, Worker

LEMMA OffWorker ==
  /\ Off \in Worker /\ Off.step = "off" /\ Off.todo = {} /\ Off.at = {} /\ Off.given = {}
  /\ \A s \in {"scheduled", "decide"} : [Off EXCEPT !.step = s] \in Worker
BY DEF Off, Worker

LEMMA RowOverWorker ==
  ASSUME NEW w \in Worker
  PROVE  /\ RowOver(w) \in Worker /\ RowOver(w).at = {} /\ RowOver(w).step \in {"end", "loop"}
         /\ RowOver(w).todo = w.todo /\ RowOver(w).will = w.will /\ RowOver(w).given = w.given
<1> DEFINE next == IF w.todo = {} THEN "end" ELSE "loop"
<1>1. next \in {"end", "loop"} /\ w.processed + 1 \in Nat
  BY DEF Worker
<1>2. RowOver(w) = [w EXCEPT !.step = next, !.at = {}, !.processed = w.processed + 1]
  BY DEF RowOver
<1> HIDE DEF next
<1> QED BY <1>1, <1>2 DEF Worker

LEMMA ImportInit == Init => ImportInv
<1> SUFFICES ASSUME Init PROVE ImportInv
  OBVIOUS
<1>1. /\ NoDevice \in DeviceRow /\ NoDevice.hash = Boot
      /\ [NoDevice EXCEPT !.status = "pending"] \in DeviceRow
      /\ [NoDevice EXCEPT !.status = "pending"].hash = Boot /\ [NoDevice EXCEPT !.status = "pending"].status = "pending"
      /\ [NoDevice EXCEPT !.status = "pending", !.claim = "us"] \in DeviceRow
      /\ [NoDevice EXCEPT !.status = "pending", !.claim = "us"].hash = Boot
  BY DEF NoDevice, DeviceRow, Secrets
<1>2. ImportRows /\ ImportMarks
  BY <1>1, OffWorker DEF Init, NoJob, JobRow, InProgress, Secrets, ImportRows, ImportMarks
<1>3. \A j \in Jobs : worker[j] = Off /\ job[j].enc = {} /\ Boot # j
  BY ImportConstants DEF Init, NoJob
<1>4. \A j \in Jobs : JobInv(j)
  BY <1>3, OffWorker DEF JobInv, Early, Idle
<1>5. \A d \in Devices : device[d].hash = Boot /\ held[d] = Boot /\ hand[d] = "no"
  BY <1>1 DEF Init
<1>6. \A d \in Devices, j \in Jobs : ~Decided(j, d)
  BY <1>3, OffWorker DEF Decided
<1>7. \A d \in Devices : RowInv(d)
  BY <1>3, <1>5, <1>6 DEF RowInv, Standing, Meet
<1> QED BY <1>2, <1>4, <1>7 DEF ImportInv

\* A controller whose row, password and assignment by hand a step leaves alone: no
\* import decided it now unless it may, none that has sent a password is gone unless
\* it is astray, and the passwords given stay with the import, are handed out or lost.
LEMMA RowKept ==
  ASSUME NEW d \in Devices, RowInv(d), UNCHANGED <<device[d], hand[d], held[d]>>,
         astray \subseteq astray', taken \subseteq taken', lost \subseteq lost',
         \A j \in Jobs : Decided(j, d)' => Decided(j, d) \/ (device[d].status = "pending" /\ device[d].claim # "them"),
         \A j \in Jobs : Writing(j, d) => Writing(j, d)' \/ d \in astray',
         \A j \in Jobs : d \in worker[j].given \cup job[j].enc =>
           d \in worker'[j].given \cup job'[j].enc \/ j \in taken' \cup lost'
  PROVE  RowInv(d)'
<1>1. Standing(d)'
  BY DEF RowInv, Standing
<1>2. Meet(d)'
  BY DEF RowInv, Meet
<1> QED BY <1>1, <1>2 DEF RowInv

\* A step of one import that writes no row.
LEMMA WorkerStep ==
  ASSUME ImportInv, NEW j \in Jobs, ImportRows', ImportMarks', JobInv(j)',
         \A i \in Jobs : i # j => worker'[i] = worker[i] /\ job'[i] = job[i],
         UNCHANGED <<device, hand>>, astray \subseteq astray', taken \subseteq taken', lost \subseteq lost',
         \A d \in Devices : Decided(j, d)' => Decided(j, d) \/ (device[d].status = "pending" /\ device[d].claim # "them"),
         \A d \in Devices : Writing(j, d) => Writing(j, d)' \/ d \in astray',
         \A d \in worker[j].given \cup job[j].enc : d \in worker'[j].given \cup job'[j].enc \/ j \in taken' \cup lost',
         \A d \in Devices : held'[d] = held[d] \/ (held[d] = Boot /\ held'[d] = j /\ Writing(j, d)')
  PROVE  ImportInv'
<1>1. \A i \in Jobs : JobInv(i)'
  BY DEF ImportInv, JobInv
<1>2. ASSUME NEW d \in Devices
      PROVE  RowInv(d)'
  <2>0. RowInv(d) /\ Boot # j
    BY ImportConstants DEF ImportInv
  <2>1. /\ \A i \in Jobs : Decided(i, d)' => Decided(i, d) \/ (device[d].status = "pending" /\ device[d].claim # "them")
        /\ \A i \in Jobs : Writing(i, d) => Writing(i, d)' \/ d \in astray'
        /\ \A i \in Jobs : d \in worker[i].given \cup job[i].enc =>
             d \in worker'[i].given \cup job'[i].enc \/ i \in taken' \cup lost'
    BY DEF Decided, Writing
  <2>2. CASE held'[d] = held[d]
    BY <2>0, <2>1, <2>2, RowKept
  <2>3. CASE held[d] = Boot /\ held'[d] = j /\ Writing(j, d)'
    <3>1. Standing(d)'
      BY <2>0, <2>1 DEF RowInv, Standing
    <3>2. Meet(d)'
      <4>1. \A i \in Jobs : i # Boot
        BY ImportConstants
      <4> QED BY <2>0, <2>1, <2>3, <4>1 DEF RowInv, Meet
    <3> QED BY <2>0, <3>1, <3>2 DEF RowInv
  <2> QED BY <2>2, <2>3
<1> QED BY <1>1, <1>2 DEF ImportInv

\* One that moves the worker, and leaves the row of the import alone.
LEMMA WorkerMoves ==
  ASSUME ImportInv, NEW j \in Jobs, NEW w \in Worker, worker' = [worker EXCEPT ![j] = w],
         UNCHANGED <<device, job, hand, claiming, cancelling, taken, others>>,
         held' \in [Devices -> Secrets], incidents' \in Nat,
         astray \subseteq astray', astray' \subseteq Devices, lost \subseteq lost', lost' \subseteq Jobs,
         w.step \in Idle \/ job[j].status = "running",
         w.step \in Early => w.given = {},
         w.at \cap w.todo = {},
         w.step \in {"decide", "loop"} => w.at = {},
         w.step = "write" => \A d \in w.at : w.will[d] = "assign",
         w.given = worker[j].given \/ j \in lost',
         \A d \in Devices : Decided(j, d)' => Decided(j, d) \/ (device[d].status = "pending" /\ device[d].claim # "them"),
         \A d \in Devices : Writing(j, d) => Writing(j, d)' \/ d \in astray',
         \A d \in Devices : held'[d] = held[d] \/ (held[d] = Boot /\ held'[d] = j /\ Writing(j, d)')
  PROVE  ImportInv'
<1>1. ImportRows /\ ImportMarks /\ JobInv(j)
  BY DEF ImportInv
<1>2. ImportRows' /\ ImportMarks'
  BY <1>1 DEF ImportRows, ImportMarks
<1>3. worker'[j] = w /\ \A i \in Jobs : i # j => worker'[i] = worker[i]
  BY <1>1 DEF ImportRows
<1>4. JobInv(j)'
  BY <1>1, <1>3 DEF JobInv
<1> QED BY <1>2, <1>3, <1>4, WorkerStep

\* One that writes the row of the import, and leaves its worker alone.
LEMMA JobMoves ==
  ASSUME ImportInv, NEW j \in Jobs, NEW entry \in JobRow, job' = [job EXCEPT ![j] = entry],
         UNCHANGED <<device, held, worker, hand, claiming, astray, lost, incidents>>,
         others' \in Nat, cancelling' \subseteq Jobs, taken \subseteq taken', taken' \subseteq Jobs,
         job[j].status = "running" => entry.status = "running" \/ worker[j].step \in Idle,
         entry.enc # {} => entry.status \in Ended,
         entry.enc = job[j].enc \/ j \in taken'
  PROVE  ImportInv'
<1>1. ImportRows /\ ImportMarks /\ JobInv(j)
  BY DEF ImportInv
<1>2. ImportRows' /\ ImportMarks'
  BY <1>1 DEF ImportRows, ImportMarks
<1>3. job'[j] = entry /\ \A i \in Jobs : i # j => job'[i] = job[i]
  BY <1>1 DEF ImportRows
<1>4. JobInv(j)'
  BY <1>1, <1>3 DEF JobInv
<1>5. \A d \in Devices : /\ Decided(j, d)' => Decided(j, d)
                         /\ Writing(j, d) => Writing(j, d)'
  BY DEF Decided, Writing
<1> QED BY <1>2, <1>3, <1>4, <1>5, WorkerStep

LEMMA JobOnlyStep ==
  ASSUME ImportInv, NEW j \in Jobs, Upload(j) \/ AskCancel(j) \/ EndPending(j) \/ TakeCredentials(j)
  PROVE  ImportInv'
<1>0. job[j] \in JobRow /\ JobInv(j) /\ others \in Nat /\ cancelling \subseteq Jobs /\ taken \subseteq Jobs
  BY DEF ImportInv, ImportRows, ImportMarks
<1>1. CASE Upload(j)
  <2> DEFINE entry == [job[j] EXCEPT !.status = "asked"]
  <2>1. entry \in JobRow /\ entry.status = "asked" /\ entry.enc = job[j].enc
    BY <1>0 DEF JobRow
  <2>2. job' = [job EXCEPT ![j] = entry] /\ job[j].status = "none"
        /\ UNCHANGED <<device, held, worker, cancelling, hand, claiming, taken, astray, lost, others, incidents>>
    BY <1>1 DEF Upload, past
  <2>3. entry.enc = {}
    BY <1>0, <2>1, <2>2 DEF JobInv, Ended
  <2> HIDE DEF entry
  <2> QED BY <1>0, <2>1, <2>2, <2>3, JobMoves
<1>2. CASE AskCancel(j)
  <2> DEFINE entry == [job[j] EXCEPT !.cancel = TRUE]
  <2>1. entry \in JobRow /\ entry.status = job[j].status /\ entry.enc = job[j].enc
    BY <1>0 DEF JobRow
  <2>2. job' = [job EXCEPT ![j] = entry] /\ others' \in Nat /\ cancelling' \subseteq Jobs
        /\ UNCHANGED <<device, held, worker, hand, claiming, taken, astray, lost, incidents>>
    BY <1>0, <1>2 DEF AskCancel, Other, past
  <2> HIDE DEF entry
  <2> QED BY <1>0, <2>1, <2>2, JobMoves DEF JobInv
<1>3. CASE EndPending(j)
  <2> DEFINE entry == IF job[j].status = "pending" THEN [job[j] EXCEPT !.status = "cancelled"] ELSE job[j]
  <2>1. entry \in JobRow /\ entry.enc = job[j].enc
        /\ entry.status = IF job[j].status = "pending" THEN "cancelled" ELSE job[j].status
    BY <1>0 DEF JobRow, InProgress
  <2>2. job' = [job EXCEPT ![j] = entry] /\ cancelling' \subseteq Jobs
        /\ UNCHANGED <<device, held, worker, hand, claiming, taken, astray, lost, others, incidents>>
    BY <1>0, <1>3 DEF EndPending, past, ImportInv, ImportRows
  <2> HIDE DEF entry
  <2> QED BY <1>0, <2>1, <2>2, JobMoves DEF JobInv, Ended, Idle
<1>4. CASE TakeCredentials(j)
  <2> DEFINE entry == [job[j] EXCEPT !.enc = {}]
  <2>1. entry \in JobRow /\ entry.status = job[j].status /\ entry.enc = {}
    BY <1>0 DEF JobRow
  <2>2. job' = [job EXCEPT ![j] = entry] /\ taken' = taken \cup {j}
        /\ UNCHANGED <<device, held, worker, cancelling, hand, claiming, astray, lost, others, incidents>>
    BY <1>4 DEF TakeCredentials
  <2> HIDE DEF entry
  <2> QED BY <1>0, <2>1, <2>2, JobMoves
<1> QED BY <1>1, <1>2, <1>3, <1>4

\* The beginning of an import: no password was given yet.
LEMMA CreateStep ==
  ASSUME ImportInv, NEW j \in Jobs, Create(j) \/ ClaimJob(j)
  PROVE  ImportInv'
<1>0. job[j] \in JobRow /\ worker[j] \in Worker /\ ImportRows /\ ImportMarks /\ JobInv(j)
  BY DEF ImportInv, ImportRows
<1>1. PICK entry \in JobRow, w \in Worker :
        /\ job' = [job EXCEPT ![j] = entry] /\ worker' = [worker EXCEPT ![j] = w]
        /\ w.step \in Early /\ w.given = {} /\ w.at \cap w.todo = {} /\ worker[j].step \in Early
        /\ entry.enc = job[j].enc /\ (entry.status = job[j].status \/ job[j].status \in {"asked", "pending"})
        /\ w.step \in Idle \/ entry.status = "running"
  <2> DEFINE asked == [job[j] EXCEPT !.status = "pending"]
             begun == [job[j] EXCEPT !.status = "running"]
             next  == [worker[j] EXCEPT !.step = "scheduled"]
             mine  == [worker[j] EXCEPT !.step = "claimed"]
  <2>1. /\ asked \in JobRow /\ begun \in JobRow /\ asked.enc = job[j].enc /\ begun.enc = job[j].enc
        /\ begun.status = "running"
    BY <1>0 DEF JobRow, InProgress
  <2>2. /\ next \in Worker /\ next.step = "scheduled" /\ next.given = worker[j].given /\ next.at = worker[j].at
        /\ next.todo = worker[j].todo
        /\ mine \in Worker /\ mine.step \in Early /\ mine.given = worker[j].given /\ mine.at = worker[j].at
        /\ mine.todo = worker[j].todo
    BY <1>0 DEF Worker, Early, Idle
  <2>3. CASE Create(j)
    <3>1. job' = [job EXCEPT ![j] = asked] /\ worker' = [worker EXCEPT ![j] = next] /\ job[j].status = "asked"
      BY <2>3 DEF Create
    <3>2. worker[j].step \in Early
      BY <1>0, <3>1 DEF JobInv, Idle, Early
    <3>3. worker[j].given = {} /\ worker[j].at \cap worker[j].todo = {}
      BY <1>0, <3>2 DEF JobInv
    <3> HIDE DEF asked, next
    <3> QED BY <2>1, <2>2, <3>1, <3>2, <3>3 DEF Early, Idle
  <2>4. CASE ClaimJob(j)
    <3>1. worker[j].step = "scheduled"
      BY <2>4 DEF ClaimJob
    <3>2. worker[j].step \in Early /\ worker[j].given = {} /\ worker[j].at \cap worker[j].todo = {}
      BY <1>0, <3>1 DEF JobInv, Early, Idle
    <3>3. CASE job[j].status = "pending"
      <4>1. job' = [job EXCEPT ![j] = begun] /\ worker' = [worker EXCEPT ![j] = mine]
        BY <2>4, <3>3 DEF ClaimJob
      <4> HIDE DEF begun, mine
      <4> QED BY <2>1, <2>2, <3>2, <3>3, <4>1
    <3>4. CASE job[j].status # "pending"
      <4>1. job' = [job EXCEPT ![j] = job[j]] /\ worker' = [worker EXCEPT ![j] = Off]
        BY <1>0, <2>4, <3>4 DEF ClaimJob, ImportRows
      <4> QED BY <1>0, <3>2, <4>1, OffWorker DEF Early, Idle
    <3> QED BY <3>3, <3>4
  <2> QED BY <2>3, <2>4
<1>2. UNCHANGED <<device, held, cancelling, hand, claiming, taken, astray, lost, others, incidents>>
  BY DEF Create, ClaimJob, past
<1>3. ImportRows' /\ ImportMarks'
  BY <1>0, <1>1, <1>2 DEF ImportRows, ImportMarks
<1>4. worker'[j] = w /\ job'[j] = entry /\ \A i \in Jobs : i # j => worker'[i] = worker[i] /\ job'[i] = job[i]
  BY <1>0, <1>1 DEF ImportRows
<1>5. job[j].enc # {} => job[j].status \in Ended
  BY <1>0 DEF JobInv
<1>6. JobInv(j)'
  BY <1>1, <1>4, <1>5 DEF JobInv, Early, Idle, Ended
<1>7. /\ \A d \in Devices : ~Decided(j, d)' /\ ~Writing(j, d)
      /\ worker[j].given = {} /\ job'[j].enc = job[j].enc
  BY <1>0, <1>1, <1>4 DEF Decided, Writing, JobInv, Early
<1> QED BY <1>2, <1>3, <1>4, <1>6, <1>7, WorkerStep

LEMMA BeginStep ==
  ASSUME ImportInv, NEW j \in Jobs, ReadTenant(j) \/ RejectClaim(j)
  PROVE  ImportInv'
<1>0. /\ worker[j] \in Worker /\ JobInv(j) /\ held \in [Devices -> Secrets]
      /\ incidents \in Nat /\ astray \subseteq Devices /\ lost \subseteq Jobs
  BY DEF ImportInv, ImportRows, ImportMarks
<1>1. CASE ReadTenant(j)
  <2> DEFINE w == [Off EXCEPT !.step = "decide", !.todo = Listed[j]]
  <2>1. worker[j].step = "claimed" /\ worker' = [worker EXCEPT ![j] = w]
        /\ UNCHANGED <<device, held, job, cancelling, hand, claiming, taken, astray, lost, others, incidents>>
    BY <1>1 DEF ReadTenant, past
  <2>2. w \in Worker /\ w.step = "decide" /\ w.at = {} /\ w.given = {} /\ \A d \in Devices : w.will[d] = "skip"
    BY ImportConstants DEF Off, Worker
  <2> HIDE DEF w
  <2>3. worker[j].given = {} /\ job[j].status = "running" /\ \A d \in Devices : ~Writing(j, d)
    BY <1>0, <2>1 DEF JobInv, Early, Idle, Writing
  <2>4. worker'[j] = w
    BY <2>1 DEF ImportInv, ImportRows
  <2>5. \A d \in Devices : ~Decided(j, d)'
    BY <2>2, <2>4 DEF Decided
  <2> QED BY <1>0, <2>1, <2>2, <2>3, <2>5, WorkerMoves DEF Early, Idle
<1>2. CASE RejectClaim(j)
  <2>1. worker[j].step \in {"scheduled", "claimed"} /\ worker' = [worker EXCEPT ![j] = Off]
        /\ incidents' = incidents + 1 /\ lost' = lost \cup {j}
        /\ UNCHANGED <<device, held, job, cancelling, hand, claiming, taken, astray, others>>
    BY <1>2 DEF RejectClaim, Incident
  <2>2. worker'[j] = Off
    BY <2>1 DEF ImportInv, ImportRows
  <2>3. \A d \in Devices : ~Writing(j, d) /\ ~Decided(j, d)'
    BY <2>1, <2>2, OffWorker DEF Writing, Decided
  <2>4. incidents' \in Nat
    BY <1>0, <2>1
  <2> QED BY <1>0, <2>1, <2>3, <2>4, OffWorker, WorkerMoves DEF Early, Idle
<1> QED BY <1>1, <1>2

LEMMA DecideStep ==
  ASSUME ImportInv, NEW j \in Jobs, NEW d \in Devices, NEW will \in {"skip", "assign", "pre_register"},
         Decide(j, d, will)
  PROVE  ImportInv'
<1> DEFINE left == worker[j].todo \ {d}
           todo == IF left = {} THEN Listed[j] ELSE left
           step == IF left = {} THEN "loop" ELSE "decide"
           w == [worker[j] EXCEPT !.will[d] = will, !.todo = todo, !.step = step]
<1>0. worker[j] \in Worker /\ JobInv(j) /\ ImportRows /\ ImportMarks
  BY DEF ImportInv, ImportRows
<1>1. /\ worker[j].step = "decide" /\ will \in Decisions(device[d]) /\ worker' = [worker EXCEPT ![j] = w]
      /\ UNCHANGED <<device, held, job, cancelling, hand, claiming, taken, astray, lost, others, incidents>>
  BY DEF Decide, past
<1>2. worker[j].at = {} /\ job[j].status = "running" /\ todo \in SUBSET Devices
  BY <1>0, <1>1, ImportConstants DEF JobInv, Early, Idle, Worker
<1>3. /\ w \in Worker /\ w.step = step /\ w.at = {} /\ w.given = worker[j].given
      /\ w.will[d] = will /\ \A e \in Devices : e # d => w.will[e] = worker[j].will[e]
  BY <1>0, <1>2 DEF Worker
<1>4. step \in {"decide", "loop"}
  OBVIOUS
<1> HIDE DEF w, todo, step
<1>5. worker'[j] = w
  BY <1>0, <1>1 DEF ImportRows
<1>6. will = "assign" => device[d].status = "pending" /\ device[d].claim # "them"
  <2>1. device[d] \in DeviceRow
    BY <1>0 DEF ImportRows
  <2> QED BY <1>1, <2>1 DEF Decisions, DeviceRow
<1>7. \A e \in Devices : Decided(j, e)' => Decided(j, e) \/ (device[e].status = "pending" /\ device[e].claim # "them")
  BY <1>1, <1>3, <1>5, <1>6 DEF Decided
<1>8. \A e \in Devices : ~Writing(j, e)
  BY <1>1 DEF Writing
<1>9. /\ held' \in [Devices -> Secrets] /\ incidents' \in Nat /\ astray' \subseteq Devices /\ lost' \subseteq Jobs
  BY <1>0, <1>1 DEF ImportRows, ImportMarks
<1> QED BY <1>1, <1>2, <1>3, <1>4, <1>7, <1>8, <1>9, WorkerMoves DEF Early, Idle

LEMMA NextRowStep ==
  ASSUME ImportInv, NEW j \in Jobs, NEW d \in Devices, NextRow(j, d)
  PROVE  ImportInv'
<1> DEFINE stop  == [worker[j] EXCEPT !.step = "end", !.end = "cancelled"]
           entry == [worker[j] EXCEPT !.step = "row", !.todo = worker[j].todo \ {d}, !.at = {d}]
<1>0. worker[j] \in Worker /\ JobInv(j) /\ ImportRows /\ ImportMarks
  BY DEF ImportInv, ImportRows
<1>1. /\ worker[j].step = "loop" /\ d \in worker[j].todo
      /\ worker' = [worker EXCEPT ![j] = stop] \/ worker' = [worker EXCEPT ![j] = entry]
      /\ UNCHANGED <<device, held, job, cancelling, hand, claiming, taken, astray, lost, others, incidents>>
  BY DEF NextRow, First, past
<1>2. PICK w \in Worker : /\ worker' = [worker EXCEPT ![j] = w] /\ w.given = worker[j].given
                          /\ w.step \in {"row", "end"} /\ w.at \cap w.todo = {} /\ w.will = worker[j].will
                          /\ w.step = "row" => w.todo \cup w.at = worker[j].todo
  <2>1. stop \in Worker /\ stop.step = "end" /\ stop.at = worker[j].at /\ stop.todo = worker[j].todo
        /\ stop.given = worker[j].given /\ stop.will = worker[j].will
    BY <1>0 DEF Worker
  <2>2. entry \in Worker /\ entry.step = "row" /\ entry.at = {d} /\ entry.todo = worker[j].todo \ {d}
        /\ entry.given = worker[j].given /\ entry.will = worker[j].will
    BY <1>0 DEF Worker
  <2>3. worker[j].at \cap worker[j].todo = {}
    BY <1>0 DEF JobInv
  <2> HIDE DEF stop, entry
  <2> QED BY <1>1, <2>1, <2>2, <2>3
<1>3. worker'[j] = w
  BY <1>0, <1>2 DEF ImportRows
<1>4. \A e \in Devices : (Decided(j, e)' => Decided(j, e)) /\ ~Writing(j, e)
  BY <1>1, <1>2, <1>3 DEF Decided, Writing
<1>5. job[j].status = "running"
  BY <1>0, <1>1 DEF JobInv, Early, Idle
<1>6. /\ held' \in [Devices -> Secrets] /\ incidents' \in Nat /\ astray' \subseteq Devices /\ lost' \subseteq Jobs
  BY <1>0, <1>1 DEF ImportRows, ImportMarks
<1> QED BY <1>1, <1>2, <1>4, <1>5, <1>6, WorkerMoves DEF Early, Idle

\* A row is over without having been written.
LEMMA RowOverStep ==
  ASSUME ImportInv, NEW j \in Jobs, NEW d \in Devices, Skip(j, d) \/ RowFails(j, d)
  PROVE  ImportInv'
<1> DEFINE w == RowOver(worker[j])
<1>0. worker[j] \in Worker /\ JobInv(j) /\ ImportRows /\ ImportMarks
  BY DEF ImportInv, ImportRows
<1>1. /\ worker[j].step \in {"row", "write"} /\ worker[j].at = {d} /\ worker' = [worker EXCEPT ![j] = w]
      /\ worker[j].step = "write" => d \in astray'
      /\ astray \subseteq astray' /\ astray' \subseteq Devices /\ incidents' \in Nat
      /\ UNCHANGED <<device, held, job, cancelling, hand, claiming, taken, lost, others>>
  <2>1. CASE Skip(j, d)
    BY <1>0, <2>1 DEF Skip, past, ImportMarks
  <2>2. CASE RowFails(j, d)
    <3>1. incidents' \in Nat
      BY <1>0, <2>2 DEF RowFails, Incident, ImportMarks
    <3> QED BY <1>0, <2>2, <3>1 DEF RowFails, ImportMarks
  <2> QED BY <2>1, <2>2
<1>2. /\ w \in Worker /\ w.at = {} /\ w.step \in {"end", "loop"} /\ w.todo = worker[j].todo
      /\ w.will = worker[j].will /\ w.given = worker[j].given
  BY <1>0, RowOverWorker
<1> HIDE DEF w
<1>3. worker'[j] = w
  BY <1>0, <1>1 DEF ImportRows
<1>4. \A e \in Devices : (Decided(j, e)' => Decided(j, e)) /\ (Writing(j, e) => e \in astray')
  BY <1>1, <1>2, <1>3 DEF Decided, Writing
<1>5. job[j].status = "running"
  BY <1>0, <1>1 DEF JobInv, Early, Idle
<1>6. held' \in [Devices -> Secrets] /\ lost' \subseteq Jobs
  BY <1>0, <1>1 DEF ImportRows, ImportMarks
<1> QED BY <1>1, <1>2, <1>4, <1>5, <1>6, WorkerMoves DEF Early, Idle

LEMMA SendPasswordStep ==
  ASSUME ImportInv, NEW j \in Jobs, NEW d \in Devices, NEW heard \in BOOLEAN, SendPassword(j, d, heard)
  PROVE  ImportInv'
<1> DEFINE w == [worker[j] EXCEPT !.step = "write"]
<1>0. worker[j] \in Worker /\ JobInv(j) /\ ImportRows /\ ImportMarks
  BY DEF ImportInv, ImportRows
<1>1. /\ worker[j].step = "row" /\ worker[j].at = {d} /\ worker[j].will[d] = "assign"
      /\ worker' = [worker EXCEPT ![j] = w]
      /\ held' = held \/ (held[d] = Boot /\ held' = [held EXCEPT ![d] = j])
      /\ UNCHANGED <<device, job, cancelling, hand, claiming, taken, astray, lost, others, incidents>>
  BY DEF SendPassword, past
<1>2. /\ w \in Worker /\ w.step = "write" /\ w.at = {d} /\ w.todo = worker[j].todo
      /\ w.will = worker[j].will /\ w.given = worker[j].given
  BY <1>0, <1>1 DEF Worker
<1> HIDE DEF w
<1>3. worker'[j] = w
  BY <1>0, <1>1 DEF ImportRows
<1>4. \A e \in Devices : (Decided(j, e)' => Decided(j, e)) /\ ~Writing(j, e)
  BY <1>1, <1>2, <1>3 DEF Decided, Writing
<1>5. /\ held' \in [Devices -> Secrets]
      /\ \A e \in Devices : held'[e] = held[e] \/ (held[e] = Boot /\ held'[e] = j /\ Writing(j, e)')
  BY <1>0, <1>1, <1>2, <1>3 DEF ImportRows, Secrets, Writing
<1>6. job[j].status = "running" /\ worker[j].at \cap worker[j].todo = {}
  BY <1>0, <1>1 DEF JobInv, Early, Idle
<1>7. incidents' \in Nat /\ astray' \subseteq Devices /\ lost' \subseteq Jobs
  BY <1>0, <1>1 DEF ImportMarks
<1> QED BY <1>1, <1>2, <1>4, <1>5, <1>6, <1>7, WorkerMoves DEF Early, Idle

\* A query outside the rows fails: the worker goes to its end, or is gone.
LEMMA FailStep ==
  ASSUME ImportInv, NEW j \in Jobs, JobFails(j) \/ FlushFails(j)
  PROVE  ImportInv'
<1> DEFINE end == [worker[j] EXCEPT !.step = "end", !.end = "failed"]
<1>0. worker[j] \in Worker /\ JobInv(j) /\ ImportRows /\ ImportMarks
  BY DEF ImportInv, ImportRows
<1>1. PICK w \in Worker :
        /\ worker' = [worker EXCEPT ![j] = w] /\ worker[j].step \in {"decide", "loop", "end"}
        /\ w.at \cap w.todo = {}
        /\ w.step = "end" \/ (w.step = "off" /\ w.given = {})
        /\ w.given = worker[j].given \/ j \in lost'
  <2>1. CASE JobFails(j)
    <3>1. worker[j].step \in {"decide", "loop", "end"} /\ worker' = [worker EXCEPT ![j] = end]
      BY <2>1 DEF JobFails
    <3>2. /\ end \in Worker /\ end.step = "end" /\ end.at = worker[j].at /\ end.todo = worker[j].todo
          /\ end.given = worker[j].given
      BY <1>0 DEF Worker
    <3> HIDE DEF end
    <3> QED BY <1>0, <3>1, <3>2 DEF JobInv
  <2>2. CASE FlushFails(j)
    BY <2>2, OffWorker DEF FlushFails, Early
  <2> QED BY <2>1, <2>2
<1>2. /\ UNCHANGED <<device, held, job, cancelling, hand, claiming, taken, astray, others>> /\ incidents' \in Nat
      /\ lost \subseteq lost' /\ lost' \subseteq Jobs
  BY <1>0 DEF JobFails, FlushFails, Incident, past, ImportMarks
<1>3. worker'[j] = w
  BY <1>0, <1>1 DEF ImportRows
<1>5. \A e \in Devices : ~Decided(j, e)' /\ ~Writing(j, e)
  BY <1>1, <1>3 DEF Decided, Writing
<1>6. job[j].status = "running"
  BY <1>0, <1>1 DEF JobInv, Early, Idle
<1>7. held' \in [Devices -> Secrets] /\ astray' \subseteq Devices
  BY <1>0, <1>2 DEF ImportRows, ImportMarks
<1> QED BY <1>1, <1>2, <1>5, <1>6, <1>7, WorkerMoves DEF Early, Idle

\* The passwords given go into the row of the import.
LEMMA FlushStep ==
  ASSUME ImportInv, NEW j \in Jobs, Flush(j)
  PROVE  ImportInv'
<1> DEFINE entry == [job[j] EXCEPT !.status = worker[j].end, !.enc = worker[j].given]
<1>0. job[j] \in JobRow /\ worker[j] \in Worker /\ ImportRows /\ ImportMarks /\ JobInv(j)
  BY DEF ImportInv, ImportRows
<1>1. /\ worker[j].step = "end" /\ job' = [job EXCEPT ![j] = entry] /\ worker' = [worker EXCEPT ![j] = Off]
      /\ UNCHANGED <<device, held, cancelling, hand, claiming, taken, astray, lost, others, incidents>>
  BY DEF Flush, past
<1>2. entry \in JobRow /\ entry.status \in Ended /\ entry.enc = worker[j].given
  BY <1>0 DEF JobRow, Worker, Ended
<1> HIDE DEF entry
<1>3. ImportRows' /\ ImportMarks'
  BY <1>0, <1>1, <1>2, OffWorker DEF ImportRows, ImportMarks
<1>4. worker'[j] = Off /\ job'[j] = entry /\ \A i \in Jobs : i # j => worker'[i] = worker[i] /\ job'[i] = job[i]
  BY <1>0, <1>1 DEF ImportRows
<1>5. JobInv(j)'
  BY <1>2, <1>4, OffWorker DEF JobInv, Early, Idle
<1>6. job[j].enc = {} /\ \A d \in Devices : ~Decided(j, d)' /\ ~Writing(j, d)
  BY <1>0, <1>1, <1>4, OffWorker DEF Decided, Writing, JobInv, Early, Idle, Ended
<1> QED BY <1>1, <1>2, <1>3, <1>4, <1>5, <1>6, WorkerStep

\* A step that writes one row of devices, with what RowInv asks of it; the worker at that
\* row goes on, others stay.
LEMMA RowStep ==
  ASSUME ImportInv, NEW d \in Devices, NEW j \in Jobs, NEW w \in Worker, worker' = [worker EXCEPT ![j] = w],
         w = worker[j] \/ (/\ worker[j].at = {d} /\ w.at = {} /\ w.todo = worker[j].todo /\ w.will = worker[j].will
                           /\ worker[j].step \in {"row", "write"} /\ w.step \in {"loop", "end"}
                           /\ worker[j].given \subseteq w.given),
         device' \in [Devices -> DeviceRow], \A e \in Devices : e # d => device'[e] = device[e] /\ hand'[e] = hand[e],
         ImportMarks', UNCHANGED <<held, job>>, astray \subseteq astray', taken' = taken, lost' = lost,
         RowInv(d)'
  PROVE  ImportInv'
<1>1. ImportRows /\ ImportMarks /\ JobInv(j)
  BY DEF ImportInv
<1>2. ImportRows'
  BY <1>1 DEF ImportRows
<1>3. worker'[j] = w /\ \A i \in Jobs : i # j => worker'[i] = worker[i]
  BY <1>1 DEF ImportRows
<1>4. JobInv(j)'
  BY <1>1, <1>3 DEF JobInv, Early, Idle
<1>5. \A i \in Jobs : JobInv(i)'
  BY <1>3, <1>4 DEF ImportInv, JobInv
<1>6. ASSUME NEW e \in Devices, e # d
      PROVE  RowInv(e)'
  <2>1. RowInv(e) /\ UNCHANGED <<device[e], hand[e], held[e]>>
    BY <1>6 DEF ImportInv
  <2>2. \A i \in Jobs : /\ Decided(i, e)' => Decided(i, e)
                        /\ Writing(i, e) => Writing(i, e)'
                        /\ e \in worker[i].given \cup job[i].enc => e \in worker'[i].given \cup job'[i].enc
    BY <1>3, <1>6 DEF Decided, Writing
  <2> QED BY <2>1, <2>2, RowKept
<1> QED BY <1>2, <1>5, <1>6 DEF ImportInv

\* A row is written by the worker that is at it; its hash is this import's, or not
\* touched.
LEMMA WriteStep ==
  ASSUME ImportInv, NEW j \in Jobs, NEW d \in Devices, PreRegister(j, d) \/ WriteRow(j, d)
  PROVE  ImportInv'
<1>0. /\ worker[j] \in Worker /\ device[d] \in DeviceRow /\ ImportRows /\ ImportMarks /\ JobInv(j) /\ RowInv(d)
      /\ \A i \in Jobs : i # Boot /\ i # ByHand
  BY ImportConstants DEF ImportInv, ImportRows
<1>1. worker[j].at = {d} /\ worker[j].step \in {"row", "write"} /\ d \notin worker[j].todo
  BY <1>0 DEF PreRegister, WriteRow, JobInv
<1>2. PICK w \in Worker : /\ worker' = [worker EXCEPT ![j] = w]
                          /\ w.at = {} /\ w.todo = worker[j].todo /\ w.will = worker[j].will
                          /\ w.step \in {"end", "loop"} /\ worker[j].given \subseteq w.given
                          /\ WriteRow(j, d) => d \in w.given
  <2> DEFINE over == RowOver(worker[j])
             more == [over EXCEPT !.given = worker[j].given \cup {d}]
  <2>1. /\ over \in Worker /\ over.at = {} /\ over.todo = worker[j].todo /\ over.will = worker[j].will
        /\ over.step \in {"end", "loop"} /\ over.given = worker[j].given
    BY <1>0, RowOverWorker
  <2>2. CASE PreRegister(j, d) /\ ~WriteRow(j, d)
    <3>1. worker' = [worker EXCEPT ![j] = over]
      BY <2>2 DEF PreRegister
    <3> HIDE DEF over
    <3> QED BY <2>1, <2>2, <3>1
  <2>3. CASE WriteRow(j, d)
    <3>1. worker' = [worker EXCEPT ![j] = [over EXCEPT !.given = over.given \cup {d}]]
      BY <2>3 DEF WriteRow
    <3> HIDE DEF over
    <3>2. worker' = [worker EXCEPT ![j] = more]
      BY <2>1, <3>1
    <3>3. /\ more \in Worker /\ more.at = {} /\ more.todo = worker[j].todo /\ more.will = worker[j].will
          /\ more.step \in {"end", "loop"} /\ more.given = worker[j].given \cup {d}
      BY <1>0, <2>1 DEF Worker
    <3> HIDE DEF more
    <3> QED BY <3>2, <3>3
  <2> QED BY <2>2, <2>3
<1>3. worker'[j] = w /\ \A i \in Jobs : i # j => worker'[i] = worker[i]
  BY <1>0, <1>2 DEF ImportRows
<1>4. UNCHANGED <<held, job, cancelling, hand, claiming, taken, lost, others, incidents>>
  BY DEF PreRegister, WriteRow, past
<1>5. \A i \in Jobs : /\ Decided(i, d)' => i # j /\ Decided(i, d)
                      /\ i # j /\ Writing(i, d) => Writing(i, d)'
                      /\ d \in worker[i].given \cup job[i].enc => d \in worker'[i].given \cup job'[i].enc
  BY <1>1, <1>2, <1>3, <1>4 DEF Decided, Writing
<1>6. CASE PreRegister(j, d) \/ device[d].status # "pending"
  <2>1. /\ UNCHANGED astray /\ device' \in [Devices -> DeviceRow]
        /\ \A e \in Devices : e # d => device'[e] = device[e]
        /\ device'[d].hash = device[d].hash
        /\ device'[d] = device[d] \/ (device[d].status = "none" /\ device'[d].status = "pending")
    <3> DEFINE entry == [device[d] EXCEPT !.status = "pending", !.claim = "us"]
    <3>1. entry \in DeviceRow /\ entry.hash = device[d].hash /\ entry.status = "pending"
      BY <1>0 DEF DeviceRow
    <3>2. device' = device \/ (device[d].status = "none" /\ device' = [device EXCEPT ![d] = entry])
      BY <1>0, <1>6 DEF PreRegister, WriteRow, ImportRows, DeviceRow
    <3>3. UNCHANGED astray
      BY <1>6 DEF PreRegister, WriteRow, past
    <3> HIDE DEF entry
    <3> QED BY <1>0, <3>1, <3>2, <3>3 DEF ImportRows
  <2>2. PreRegister(j, d) => worker[j].step = "row"
    BY DEF PreRegister
  <2>3. Writing(j, d) => d \in astray
    <3> SUFFICES ASSUME Writing(j, d) PROVE d \in astray
      OBVIOUS
    <3>1. Decided(j, d) /\ device[d].status # "pending"
      BY <1>0, <1>1, <1>6, <2>2 DEF Writing, Decided, JobInv
    <3> QED BY <1>0, <3>1 DEF RowInv, Standing
  <2>4. Standing(d)'
    BY <1>0, <1>5, <2>1 DEF RowInv, Standing
  <2>5. Meet(d)'
    BY <1>0, <1>4, <1>5, <2>1, <2>3 DEF RowInv, Meet
  <2>6. RowInv(d)'
    BY <1>0, <1>4, <2>1, <2>4, <2>5 DEF RowInv
  <2>7. ImportMarks'
    BY <1>0, <1>4, <2>1 DEF ImportMarks
  <2> QED BY <1>1, <1>2, <1>4, <2>1, <2>6, <2>7, RowStep
<1>7. CASE WriteRow(j, d) /\ device[d].status = "pending"
  <2> DEFINE entry == [status |-> "active", claim |-> "us", hash |-> j]
  <2>1. entry \in DeviceRow /\ entry.hash = j /\ entry.status = "active"
    BY DEF DeviceRow, Secrets
  <2>2. /\ device' = [device EXCEPT ![d] = entry] /\ worker[j].step = "write"
        /\ astray' = IF hand[d] # "no" \/ \E i \in Jobs \ {j} : Decided(i, d) THEN astray \cup {d} ELSE astray
    BY <1>7 DEF WriteRow
  <2> HIDE DEF entry
  <2>3. /\ device' \in [Devices -> DeviceRow] /\ device'[d] = entry
        /\ \A e \in Devices : e # d => device'[e] = device[e]
    BY <1>0, <2>1, <2>2 DEF ImportRows
  <2>4. Standing(d)'
    BY <1>5, <2>2 DEF Standing
  <2>5. Meet(d)'
    <3>1. held[d] # Boot => d \in astray \/ held[d] = j \/ (held[d] = ByHand /\ hand[d] = "sent")
                            \/ \E i \in Jobs : i # j /\ held[d] = i /\ Writing(i, d)
      <4>1. device[d].hash = Boot
        BY <1>0, <1>7 DEF RowInv
      <4> QED BY <1>0, <4>1 DEF RowInv, Meet
    <3>2. d \in worker'[j].given
      BY <1>2, <1>3, <1>7
    <3> QED BY <1>4, <1>5, <2>1, <2>2, <2>3, <3>1, <3>2 DEF Meet
  <2>6. RowInv(d)'
    BY <1>4, <2>1, <2>2, <2>3, <2>4, <2>5 DEF RowInv
  <2>7. ImportMarks' /\ astray \subseteq astray'
    BY <1>0, <1>4, <2>2 DEF ImportMarks
  <2> QED BY <1>1, <1>2, <1>4, <2>3, <2>6, <2>7, RowStep
<1> QED BY <1>6, <1>7

\* Others register, claim and assign controllers: no worker and no import is touched.
LEMMA OthersStep ==
  ASSUME ImportInv, NEW d \in Devices, RowInv(d)', ImportRows', ImportMarks', UNCHANGED <<job, worker>>,
         \A e \in Devices : e # d => device'[e] = device[e] /\ hand'[e] = hand[e] /\ held'[e] = held[e],
         astray \subseteq astray', taken' = taken, lost' = lost
  PROVE  ImportInv'
<1>1. \A j \in Jobs : JobInv(j)'
  BY DEF ImportInv, JobInv
<1>2. ASSUME NEW e \in Devices, e # d
      PROVE  RowInv(e)'
  <2>1. RowInv(e) /\ UNCHANGED <<device[e], hand[e], held[e]>>
    BY <1>2 DEF ImportInv
  <2>2. \A i \in Jobs : /\ Decided(i, e)' => Decided(i, e)
                        /\ Writing(i, e) => Writing(i, e)'
                        /\ e \in worker[i].given \cup job[i].enc => e \in worker'[i].given \cup job'[i].enc
    BY DEF Decided, Writing
  <2> QED BY <2>1, <2>2, RowKept
<1> QED BY <1>1, <1>2 DEF ImportInv

LEMMA HandStep ==
  ASSUME ImportInv, NEW d \in Devices,
         \/ Appear(d) \/ ReadByHand(d) \/ AssignByHand(d) \/ FailByHand(d)
         \/ \E whose \in {"us", "them"} : ReadClaim(d, whose) \/ Claim(d, whose)
         \/ \E heard \in BOOLEAN : SendByHand(d, heard)
  PROVE  ImportInv'
<1>0. /\ device[d] \in DeviceRow /\ ImportRows /\ ImportMarks /\ RowInv(d)
      /\ \A i \in Jobs : i # Boot /\ i # ByHand /\ Boot # ByHand
  BY ImportConstants DEF ImportInv, ImportRows
<1>1. ASSUME UNCHANGED <<job, worker>>
      PROVE  \A i \in Jobs : (Decided(i, d)' <=> Decided(i, d)) /\ (Writing(i, d)' <=> Writing(i, d))
  BY <1>1 DEF Decided, Writing
<1>2. CASE Appear(d)
  <2> DEFINE entry == [device[d] EXCEPT !.status = "pending"]
  <2>1. entry \in DeviceRow /\ entry.hash = device[d].hash /\ entry.status = "pending"
    BY <1>0 DEF DeviceRow
  <2>2. /\ device' = [device EXCEPT ![d] = entry] /\ device[d].status = "none" /\ others' \in Nat
        /\ UNCHANGED <<held, job, worker, cancelling, hand, claiming, taken, astray, lost, incidents>>
    BY <1>0, <1>2 DEF Appear, Other, past, ImportMarks
  <2> HIDE DEF entry
  <2>3. /\ ImportRows' /\ ImportMarks' /\ device'[d] = entry /\ \A e \in Devices : e # d => device'[e] = device[e]
    BY <1>0, <2>1, <2>2 DEF ImportRows, ImportMarks
  <2>4. RowInv(d)'
    BY <1>0, <1>1, <2>1, <2>2, <2>3 DEF RowInv, Standing, Meet
  <2> QED BY <2>2, <2>3, <2>4, OthersStep
<1>3. CASE ReadByHand(d)
  <2>1. /\ hand' = [hand EXCEPT ![d] = "read"] /\ device[d].status = "pending" /\ hand[d] = "no" /\ others' \in Nat
        /\ UNCHANGED <<device, held, job, worker, cancelling, claiming, taken, astray, lost, incidents>>
    BY <1>0, <1>3 DEF ReadByHand, Other, past, ImportMarks
  <2>2. ImportRows' /\ ImportMarks' /\ \A e \in Devices : e # d => hand'[e] = hand[e]
    BY <1>0, <2>1 DEF ImportRows, ImportMarks
  <2>3. RowInv(d)'
    BY <1>0, <1>1, <2>1 DEF RowInv, Standing, Meet
  <2> QED BY <2>1, <2>2, <2>3, OthersStep
<1>4. ASSUME NEW heard \in BOOLEAN, SendByHand(d, heard)
      PROVE  ImportInv'
  <2>1. /\ hand' = [hand EXCEPT ![d] = "sent"] /\ hand[d] = "read"
        /\ held' = held \/ (held[d] = Boot /\ held' = [held EXCEPT ![d] = ByHand])
        /\ UNCHANGED <<device, job, worker, cancelling, claiming, taken, astray, lost, others, incidents>>
    BY <1>4 DEF SendByHand, past
  <2>2. /\ ImportRows' /\ ImportMarks' /\ hand'[d] = "sent"
        /\ \A e \in Devices : e # d => hand'[e] = hand[e] /\ held'[e] = held[e]
        /\ held'[d] = held[d] \/ (held[d] = Boot /\ held'[d] = ByHand)
    BY <1>0, <2>1 DEF ImportRows, ImportMarks, Secrets
  <2>3. Standing(d)' /\ Meet(d)'
    BY <1>0, <1>1, <2>1, <2>2 DEF RowInv, Standing, Meet
  <2>4. RowInv(d)'
    BY <1>0, <2>1, <2>3 DEF RowInv
  <2> QED BY <2>1, <2>2, <2>4, OthersStep
<1>5. CASE AssignByHand(d)
  <2> DEFINE entry == [device[d] EXCEPT !.status = "active", !.hash = ByHand]
  <2>1. entry \in DeviceRow /\ entry.hash = ByHand /\ entry.status = "active"
    BY <1>0 DEF DeviceRow, Secrets
  <2>2. /\ device' = [device EXCEPT ![d] = entry] /\ hand[d] = "sent" /\ hand' = [hand EXCEPT ![d] = "no"]
        /\ astray' = IF \E j \in Jobs : Decided(j, d) THEN astray \cup {d} ELSE astray
        /\ UNCHANGED <<held, job, worker, cancelling, claiming, taken, lost, others, incidents>>
    BY <1>0, <1>5 DEF AssignByHand, ImportRows
  <2> HIDE DEF entry
  <2>3. /\ ImportRows' /\ ImportMarks' /\ device'[d] = entry /\ hand'[d] = "no"
        /\ \A e \in Devices : e # d => device'[e] = device[e] /\ hand'[e] = hand[e]
    BY <1>0, <2>1, <2>2 DEF ImportRows, ImportMarks
  <2>4. Standing(d)'
    BY <1>1, <2>2 DEF Standing
  <2>5. held[d] # Boot => held[d] = ByHand \/ d \in astray \/ \E j \in Jobs : held[d] = j /\ Writing(j, d)
    BY <1>0, <2>2 DEF RowInv, Meet
  <2>6. Meet(d)'
    BY <1>0, <1>1, <2>1, <2>2, <2>3, <2>5 DEF Meet
  <2>7. RowInv(d)' /\ astray \subseteq astray'
    BY <2>1, <2>2, <2>3, <2>4, <2>6 DEF RowInv
  <2> QED BY <2>2, <2>3, <2>7, OthersStep
<1>6. CASE FailByHand(d)
  <2>1. /\ hand' = [hand EXCEPT ![d] = "no"] /\ (hand[d] = "read" \/ d \in astray')
        /\ astray' = astray \/ astray' = astray \cup {d}
        /\ UNCHANGED <<device, held, job, worker, cancelling, claiming, taken, lost, others>>
    BY <1>6 DEF FailByHand
  <2>2. incidents' \in Nat
    BY <1>0, <1>6 DEF FailByHand, Incident, ImportMarks
  <2>3. /\ ImportRows' /\ ImportMarks' /\ hand'[d] = "no" /\ \A e \in Devices : e # d => hand'[e] = hand[e]
    BY <1>0, <2>1, <2>2 DEF ImportRows, ImportMarks
  <2>4. Standing(d)' /\ Meet(d)'
    BY <1>0, <1>1, <2>1 DEF RowInv, Standing, Meet
  <2>5. RowInv(d)' /\ astray \subseteq astray'
    BY <1>0, <2>1, <2>3, <2>4 DEF RowInv
  <2> QED BY <2>1, <2>3, <2>5, OthersStep
<1>7. ASSUME NEW whose \in {"us", "them"}, ReadClaim(d, whose)
      PROVE  ImportInv'
  <2>1. /\ claiming' = [claiming EXCEPT ![d] = claiming[d] \cup {whose}] /\ others' \in Nat
        /\ UNCHANGED <<device, held, job, worker, cancelling, hand, taken, astray, lost, incidents>>
    BY <1>0, <1>7 DEF ReadClaim, Other, past, ImportMarks
  <2>2. ImportRows' /\ ImportMarks'
    BY <1>0, <2>1 DEF ImportRows, ImportMarks
  <2>3. RowInv(d)'
    BY <1>0, <1>1, <2>1 DEF RowInv, Standing, Meet
  <2> QED BY <2>1, <2>2, <2>3, OthersStep
<1>8. ASSUME NEW whose \in {"us", "them"}, Claim(d, whose)
      PROVE  ImportInv'
  <2> DEFINE entry == [device[d] EXCEPT !.claim = whose]
  <2>1. entry \in DeviceRow /\ entry.hash = device[d].hash /\ entry.status = device[d].status
    BY <1>0 DEF DeviceRow
  <2>2. /\ device' = [device EXCEPT ![d] = entry] /\ claiming' = [claiming EXCEPT ![d] = claiming[d] \ {whose}]
        /\ astray' = IF \E j \in Jobs : Decided(j, d) THEN astray \cup {d} ELSE astray
        /\ UNCHANGED <<held, job, worker, cancelling, hand, taken, lost, others, incidents>>
    BY <1>8 DEF Claim
  <2> HIDE DEF entry
  <2>3. /\ ImportRows' /\ ImportMarks' /\ device'[d] = entry
        /\ \A e \in Devices : e # d => device'[e] = device[e]
    BY <1>0, <2>1, <2>2 DEF ImportRows, ImportMarks
  <2>4. Standing(d)' /\ astray \subseteq astray'
    BY <1>1, <2>2 DEF Standing
  <2>5. Meet(d)'
    BY <1>0, <1>1, <2>1, <2>2, <2>3 DEF RowInv, Meet
  <2>6. RowInv(d)'
    BY <1>0, <2>1, <2>2, <2>3, <2>4, <2>5 DEF RowInv
  <2> QED BY <2>2, <2>3, <2>4, <2>6, OthersStep
<1> QED BY <1>2, <1>3, <1>4, <1>5, <1>6, <1>7, <1>8

LEMMA RestartStep ==
  ASSUME ImportInv, NEW resumed \in BOOLEAN, Restart(resumed)
  PROVE  ImportInv'
<1>0. ImportRows /\ ImportMarks /\ (\A j \in Jobs : JobInv(j) /\ job[j] \in JobRow) /\ \A d \in Devices : RowInv(d)
  BY DEF ImportInv, ImportRows
<1> DEFINE again == [Off EXCEPT !.step = "scheduled"]
<1>1. /\ UNCHANGED <<device, held, taken, others>> /\ cancelling' = {}
      /\ hand' = [d \in Devices |-> "no"] /\ claiming' = [d \in Devices |-> {}]
      /\ lost' = lost \cup {j \in Jobs : job[j].status = "running" \/ (job[j].status = "pending" /\ ~resumed)}
      /\ astray' = astray \cup {d \in Devices : \/ hand[d] = "sent"
                                               \/ \E j \in Jobs : worker[j].step = "write" /\ worker[j].at = {d}}
      /\ worker' = [j \in Jobs |-> IF job[j].status = "pending" /\ resumed THEN again ELSE Off]
  BY DEF Restart
<1>2. again \in Worker /\ again.step = "scheduled" /\ again.given = {} /\ again.at = {} /\ again.todo = {}
      /\ Off \in Worker /\ Off.step = "off" /\ Off.given = {} /\ Off.at = {} /\ Off.todo = {}
  BY OffWorker DEF Off
<1> HIDE DEF again
<1>3. /\ worker' \in [Jobs -> Worker]
      /\ \A j \in Jobs : worker'[j].step \in Idle /\ worker'[j].given = {} /\ worker'[j].at = {}
  BY <1>1, <1>2 DEF Idle
<1>4. /\ job' \in [Jobs -> JobRow]
      /\ \A j \in Jobs : job'[j].enc = job[j].enc /\ (job'[j].enc # {} => job'[j].status \in Ended)
  <2>1. /\ NoJob \in JobRow /\ NoJob.enc = {}
        /\ \A j \in Jobs : LET entry == [job[j] EXCEPT !.status = "failed"]
                           IN  entry \in JobRow /\ entry.enc = job[j].enc /\ entry.status \in Ended
    BY <1>0 DEF NoJob, JobRow, InProgress, Ended
  <2>2. \A j \in Jobs : job[j].enc # {} => job[j].status \in Ended
    BY <1>0 DEF JobInv
  <2>3. job' = [j \in Jobs |-> CASE job[j].status = "asked"               -> NoJob
                                 [] job[j].status = "running" /\ resumed -> [job[j] EXCEPT !.status = "failed"]
                                 [] OTHER                                -> job[j]]
    BY DEF Restart
  <2>4. \A j \in Jobs : \/ job[j].status = "asked" /\ job'[j] = NoJob
                        \/ job'[j] = [job[j] EXCEPT !.status = "failed"]
                        \/ job'[j] = job[j]
    BY <2>3
  <2>5. \A j \in Jobs : job[j].status = "asked" => job[j].enc = {}
    BY <2>2 DEF Ended
  <2>6. \A j \in Jobs : job'[j] \in JobRow
    BY <1>0, <2>1, <2>4
  <2>7. job' \in [Jobs -> JobRow]
    BY <2>3, <2>6
  <2> QED BY <2>1, <2>2, <2>4, <2>5, <2>7
<1>5. incidents' \in Nat
  BY <1>0 DEF Restart, Incident, ImportMarks
<1>6. ImportRows' /\ ImportMarks'
  BY <1>0, <1>1, <1>3, <1>4, <1>5 DEF ImportRows, ImportMarks
<1>7. \A j \in Jobs : JobInv(j)'
  BY <1>3, <1>4 DEF JobInv, Early, Idle
<1>8. ASSUME NEW d \in Devices
      PROVE  RowInv(d)'
  <2>1. \A j \in Jobs : ~Decided(j, d)' /\ (d \in worker[j].given => j \in lost')
    BY <1>0, <1>1, <1>3 DEF Decided, JobInv, Early, Idle
  <2>2. Standing(d)'
    BY <2>1 DEF Standing
  <2>3. (hand[d] = "sent" => d \in astray') /\ \A j \in Jobs : Writing(j, d) => d \in astray'
    BY <1>1 DEF Writing
  <2>4. Meet(d)'
    BY <1>0, <1>1, <1>4, <2>1, <2>3 DEF RowInv, Meet
  <2> QED BY <1>0, <1>1, <2>2, <2>4 DEF RowInv
<1> QED BY <1>6, <1>7, <1>8 DEF ImportInv

LEMMA ImportStep == ImportInv /\ [Next]_vars => ImportInv'
<1> SUFFICES ASSUME ImportInv, [Next]_vars PROVE ImportInv'
  OBVIOUS
<1>1. ASSUME NEW j \in Jobs, Upload(j) \/ Create(j) \/ AskCancel(j) \/ EndPending(j) \/ TakeCredentials(j)
      PROVE  ImportInv'
  BY <1>1, JobOnlyStep, CreateStep
<1>2. ASSUME NEW j \in Jobs, Run(j)
      PROVE  ImportInv'
  BY <1>2, CreateStep, BeginStep, FlushStep, FailStep, DecideStep, NextRowStep, RowOverStep,
     SendPasswordStep, WriteStep DEF Run
<1>3. ASSUME NEW d \in Devices,
             \/ Appear(d) \/ ReadByHand(d) \/ AssignByHand(d) \/ FailByHand(d)
             \/ \E whose \in {"us", "them"} : ReadClaim(d, whose) \/ Claim(d, whose)
             \/ \E heard \in BOOLEAN : SendByHand(d, heard)
      PROVE  ImportInv'
  BY <1>3, HandStep
<1>4. ASSUME NEW resumed \in BOOLEAN, Restart(resumed)
      PROVE  ImportInv'
  BY <1>4, RestartStep
<1>5. CASE UNCHANGED vars
  <2>1. UNCHANGED <<device, held, job, worker, cancelling, hand, claiming, taken, astray, lost, others, incidents>>
    BY <1>5 DEF vars, past
  <2>2. ImportRows' /\ ImportMarks'
    BY <2>1 DEF ImportInv, ImportRows, ImportMarks
  <2>3. (\A j \in Jobs : JobInv(j)') /\ \A d \in Devices : RowInv(d)'
    BY <2>1 DEF ImportInv, JobInv, RowInv, Standing, Meet, Decided, Writing
  <2> QED BY <2>2, <2>3 DEF ImportInv
<1> QED BY <1>1, <1>2, <1>3, <1>4, <1>5 DEF Next

\* Types, of every reachable state: of the rows, the workers and the histories.
THEOREM TypeCorrect == Spec => []TypeOK
<1>1. ImportInv => TypeOK
  BY ImportTypes DEF ImportInv
<1> QED BY <1>1, ImportInit, ImportStep, PTL DEF Spec

\* Row and controller come together, of any number of imports at once and of assignments
\* by hand: the password a controller took is the one in its row, or about to be; and the
\* password in a row is on the controller, in the import, or handed out - unless two
\* decided over the controller, each before the other had written its row, or an UPDATE
\* failed or died.
THEOREM PasswordsComeTogether == Spec => []PasswordsMeet
<1>1. ImportInv => PasswordsMeet
  BY DEF ImportInv, RowInv, Meet, Writing, PasswordsMeet
<1> QED BY <1>1, ImportInit, ImportStep, PTL DEF Spec

\* An import takes no controller that another organisation claimed, unless the claim
\* came after it decided the row.
THEOREM NobodyElsesTaken == Spec => OthersKeepTheirs
<1> DEFINE Theirs == \A d \in Devices :
      device[d].claim = "them" /\ device'[d].hash \in Jobs \ {device[d].hash} => d \in astray
<1>1. ImportInv /\ [Next]_vars => [Theirs]_vars
  <2> SUFFICES ASSUME ImportInv, [Next]_vars, NEW d \in Devices, device[d].claim = "them",
                      device'[d].hash \in Jobs, device'[d].hash # device[d].hash
               PROVE  d \in astray
    BY DEF Theirs
  <2>1. /\ device'[d] # device[d] /\ device \in [Devices -> DeviceRow]
        /\ (\A j \in Jobs : JobInv(j)) /\ RowInv(d)
    BY DEF ImportInv, ImportRows
  <2>2. PICK j \in Jobs : WriteRow(j, d)
    <3>1. Next /\ ByHand \notin Jobs
      BY <2>1, ImportConstants DEF vars
    <3>2. ASSUME NEW e \in Devices,
                 \/ Appear(e) \/ AssignByHand(e)
                 \/ \E whose \in {"us", "them"} : Claim(e, whose)
          PROVE  FALSE
      <4>1. PICK entry : device' = [device EXCEPT ![e] = entry] /\ (entry.hash = device[e].hash \/ entry.hash = ByHand)
        <5>1. /\ [device[e] EXCEPT !.status = "pending"].hash = device[e].hash
              /\ \A whose \in {"us", "them"} : [device[e] EXCEPT !.claim = whose].hash = device[e].hash
              /\ [device[e] EXCEPT !.status = "active", !.hash = ByHand].hash = ByHand
          BY <2>1 DEF DeviceRow
        <5>2. /\ Appear(e) => device' = [device EXCEPT ![e] = [device[e] EXCEPT !.status = "pending"]]
              /\ AssignByHand(e) => device' = [device EXCEPT ![e] = [device[e] EXCEPT !.status = "active", !.hash = ByHand]]
              /\ \A whose \in {"us", "them"} : Claim(e, whose) =>
                   device' = [device EXCEPT ![e] = [device[e] EXCEPT !.claim = whose]]
          BY <2>1 DEF Appear, AssignByHand, Claim
        <5> QED BY <3>2, <5>1, <5>2
      <4> QED BY <2>1, <3>1, <4>1
    <3>3. ASSUME NEW j \in Jobs, NEW e \in Devices, PreRegister(j, e) \/ WriteRow(j, e)
          PROVE  WriteRow(j, d)
      <4>1. CASE PreRegister(j, e)
        <5>1. device'[d].hash = device[d].hash
          BY <2>1, <4>1 DEF PreRegister, DeviceRow
        <5> QED BY <2>1, <5>1
      <4>2. CASE WriteRow(j, e)
        BY <2>1, <4>2 DEF WriteRow
      <4> QED BY <3>3, <4>1, <4>2
    <3>4. ASSUME NEW j \in Jobs, Run(j), \A e \in Devices : ~PreRegister(j, e) /\ ~WriteRow(j, e)
          PROVE  FALSE
      BY <2>1, <3>4
      DEF Run, ClaimJob, ReadTenant, RejectClaim, Flush, JobFails, FlushFails, Decide, NextRow, Skip,
          SendPassword, RowFails
    <3>5. ASSUME NEW j \in Jobs, Upload(j) \/ Create(j) \/ AskCancel(j) \/ EndPending(j) \/ TakeCredentials(j)
          PROVE  FALSE
      BY <2>1, <3>5 DEF Upload, Create, AskCancel, EndPending, TakeCredentials
    <3>6. ASSUME NEW e \in Devices,
                 \/ ReadByHand(e) \/ FailByHand(e) \/ \E whose \in {"us", "them"} : ReadClaim(e, whose)
                 \/ \E heard \in BOOLEAN : SendByHand(e, heard)
          PROVE  FALSE
      BY <2>1, <3>6 DEF ReadByHand, FailByHand, ReadClaim, SendByHand
    <3>7. \A resumed \in BOOLEAN : ~Restart(resumed)
      BY <2>1 DEF Restart
    <3> QED BY <3>1, <3>2, <3>3, <3>4, <3>5, <3>6, <3>7 DEF Next
  <2>3. worker[j].step = "write" /\ worker[j].at = {d}
    BY <2>2 DEF WriteRow
  <2>4. Decided(j, d)
    BY <2>1, <2>3 DEF JobInv, Decided
  <2> QED BY <2>1, <2>4 DEF RowInv, Standing
<1> QED BY <1>1, ImportInit, ImportStep, PTL DEF Spec, OthersKeepTheirs, Theirs

----------------------------------------------------------------------------
(* DeviceOnboarding.                                                        *)

Orders  == {"assign", "reassign", "reset", "delete", "discard", "recover"}
Device  == [status : Statuses, tenant : Slugs, cred : Passwords, grant : {"none", "open", "closed"},
            gone : BOOLEAN]
Entry   == [status : Statuses, tenant : Slugs]
Attempt == [pc : {"idle", "select", "send"}, tenant : Slugs, n : 0 .. RescueMax]
Order   == [pc : {"send", "write", "settle", "refresh"}, kind : Orders, to : Slugs, from : Slugs]
Rested  == [pc : {"new", "done"}]

(* What is where: an active row, entry or rescue names an organisation, and *)
(* so does a request that gives a controller to one.                        *)
RowSort      == /\ row \in Device
                /\ row.status = "active" <=> row.tenant \in Tenants
                /\ row.grant # "none" => row.status = "active"
RegistrySort == registry \in Entry /\ (registry.status = "active" => registry.tenant \in Tenants)
RescueSort   == rescue \in Attempt /\ (rescue.pc # "idle" => rescue.tenant \in Tenants)
OrderSort    == /\ request \in [Requests -> Order \cup Rested]
                /\ \A r \in Requests : request[r] \in Order =>
                     /\ request[r].kind \in {"assign", "reassign"} => request[r].to \in Tenants
                     /\ request[r].kind \in {"discard", "recover"} => request[r].pc # "send"
MemorySort   == /\ hint \in Slugs \cup {NoHint} /\ seen \in Slugs \cup {NoHint}
                /\ attempts \in 0 .. RescueMax + 1
                /\ grace \in BOOLEAN /\ blocked \in BOOLEAN
NoteSort     == /\ fresh \in BOOLEAN /\ checkedIn \in BOOLEAN /\ misled \in BOOLEAN /\ discovering \in BOOLEAN
                /\ suspended \subseteq Tenants /\ served \subseteq Tenants
RegisterSort == register \in [pc : {"idle", "select", "reset", "create", "settle", "refresh"}]
CtlSort      == ctl \in [slug : Slugs, cred : Passwords, conn : BOOLEAN, sub : BOOLEAN] /\ (ctl.sub => ctl.conn)

OnboardingSorts ==
  RowSort /\ RegistrySort /\ RescueSort /\ OrderSort /\ MemorySort /\ NoteSort /\ RegisterSort /\ CtlSort

USE DEF stored, retained, cloud, outside

(* With one handler at a time.  InTurn: no two requests, or a request and a  *)
(* registration, are at work.  Answered: what a rescue was told of the row   *)
(* still holds when it sends.  Found: so does what a request asked of the    *)
(* row, up to its UPDATE.  Ahead: the hint of an assignment is there before  *)
(* its row is.  Behind: after the UPDATE, the row is where the handler is    *)
(* about to point the hint.  HintHolds: the hint is true, but between the    *)
(* two writes of a handler, or after a handler that ended between them.      *)
InTurn     == /\ \A r, q \in Requests : request[r] \in Order /\ request[q] \in Order => r = q
              /\ \A r \in Requests : request[r] \in Order => register.pc = "idle"
Answered   == rescue.pc = "send" => row.status = "active" /\ row.tenant = rescue.tenant
Waits(r)   == request[r] \in Order /\ request[r].pc \in {"send", "write"}
Settles(r) == request[r] \in Order /\ request[r].pc = "settle"
Found      == \A r \in Requests : Waits(r) =>
                /\ request[r].kind = "assign" => row.status = "pending"
                /\ request[r].kind = "reassign" => row.status # "absent"
Ahead      == \A r \in Requests : Waits(r) /\ request[r].kind = "assign" /\ request[r].pc = "write"
                => hint = request[r].to
Behind     == /\ \A r \in Requests : Settles(r) /\ request[r].kind = "reassign" => row.tenant = request[r].to
              /\ \A r \in Requests : Settles(r) /\ request[r].kind \notin {"assign", "reassign"}
                   => row.status # "active"
              /\ register.pc \in {"create", "settle"} => row.status # "active"
Unsettled  == \/ \E r \in Requests : Settles(r) /\ request[r].kind # "assign"
              \/ \E r \in Requests : Waits(r) /\ request[r].kind = "assign" /\ request[r].pc = "write"
              \/ register.pc = "settle"
HintHolds  == misled \/ Unsettled \/ hint \in {NoHint, Place}

HintInv == OnboardingSorts /\ InTurn /\ Answered /\ Found /\ Ahead /\ Behind /\ HintHolds


LEMMA Places ==
  /\ Pending \in Slugs /\ Tenants \subseteq Slugs /\ Pending \notin Tenants /\ NoHint \notin Slugs
  /\ Bootstrap \in Passwords /\ Original \in Passwords /\ Requests \subseteq Passwords
  BY OnboardingConstants DEF Slugs, Passwords

LEMMA ToldSort ==
  ASSUME CtlSort, NEW slug \in Slugs, NEW pw \in Passwords
  PROVE  LET Ctl == [slug : Slugs, cred : Passwords, conn : BOOLEAN, sub : BOOLEAN] IN
         /\ Told(ctl, slug) \in Ctl /\ (Told(ctl, slug).sub => Told(ctl, slug).conn)
         /\ LET c == Told([ctl EXCEPT !.cred = pw], slug) IN c \in Ctl /\ (c.sub => c.conn)
  BY DEF Told, CtlSort

LEMMA HeardSort ==
  ASSUME CtlSort, NEW on, NEW slug \in Slugs, NEW pw \in Passwords,
         \/ HearTenant(on, slug)
         \/ HearBoth(on, pw, slug)
         \/ UNCHANGED ctl
  PROVE  CtlSort'
  BY ToldSort DEF CtlSort, HearTenant, HearBoth

(* The rows the handlers write.                                             *)
LEMMA RowsWritten ==
  ASSUME RowSort
  PROVE  /\ \A pw \in Passwords :
              Reset(pw) \in Device /\ Reset(pw).status = "pending" /\ Reset(pw).tenant = Pending /\ Reset(pw).grant = "none"
         /\ \A t \in Tenants, pw \in Passwords :
              Given(t, pw) \in Device /\ Given(t, pw).status = "active" /\ Given(t, pw).tenant = t /\ Given(t, pw).grant = "open"
         /\ Deleted \in Device /\ Deleted.status = "deleted" /\ Deleted.tenant = Pending /\ Deleted.grant = "none"
         /\ Recovered \in Device /\ Recovered.status = "pending" /\ Recovered.tenant = Pending /\ Recovered.grant = "none"
         /\ NoRow \in Device /\ NoRow.status = "absent" /\ NoRow.tenant = Pending /\ NoRow.grant = "none"
  BY Places DEF RowSort, Device, Reset, Given, Deleted, Recovered, NoRow, Statuses

LEMMA OrderPc ==
  ASSUME OrderSort, NEW r \in Requests
  PROVE  /\ request[r] \in Order <=> request[r].pc \in {"send", "write", "settle", "refresh"}
         /\ request[r] \in Rested <=> request[r].pc \in {"new", "done"}
  BY DEF OrderSort, Order, Rested

LEMMA RequestMoves ==
  ASSUME OrderSort, NEW r \in Requests, request[r] \in Order,
         NEW pc \in {"write", "settle", "refresh"}, To(r, pc)
  PROVE  /\ OrderSort'
         /\ request'[r] \in Order /\ request'[r].pc = pc
         /\ request'[r].kind = request[r].kind /\ request'[r].to = request[r].to
         /\ \A q \in Requests \ {r} : request'[q] = request[q]
<1>1. [request[r] EXCEPT !.pc = pc] \in Order
  BY DEF Order
<1>2. request' = [request EXCEPT ![r] = [request[r] EXCEPT !.pc = pc]]
  BY DEF To
<1>3. /\ request'[r] = [request[r] EXCEPT !.pc = pc]
      /\ \A q \in Requests \ {r} : request'[q] = request[q]
      /\ request' \in [Requests -> Order \cup Rested]
  BY <1>1, <1>2 DEF OrderSort
<1>4. /\ request'[r].pc = pc /\ request'[r].kind = request[r].kind /\ request'[r].to = request[r].to
  BY <1>3 DEF Order
<1> QED BY <1>1, <1>3, <1>4 DEF OrderSort

LEMMA RequestEnds ==
  ASSUME OrderSort, NEW r \in Requests, request' = [request EXCEPT ![r] = [pc |-> "done"]]
  PROVE  OrderSort' /\ request'[r] \notin Order /\ \A q \in Requests \ {r} : request'[q] = request[q]
<1>1. [pc |-> "done"] \in Rested
  BY DEF Rested
<1>2. \A x \in Rested : x \notin Order
  BY DEF Rested, Order
<1> QED BY <1>1, <1>2 DEF OrderSort

LEMMA RequestBegins ==
  ASSUME RowSort, OrderSort, NEW r \in Requests, NEW kind \in Orders, NEW t \in Slugs, Begin(r, kind, t),
         kind \in {"assign", "reassign"} => t \in Tenants
  PROVE  /\ OrderSort' /\ request[r] \notin Order
         /\ request'[r] \in Order /\ request'[r].kind = kind /\ request'[r].to = t
         /\ request'[r].pc = IF kind \in {"discard", "recover"} THEN "write" ELSE "send"
         /\ \A q \in Requests \ {r} : request'[q] = request[q]
<1> DEFINE pc  == IF kind \in {"discard", "recover"} THEN "write" ELSE "send"
           new == [pc |-> pc, kind |-> kind, to |-> t, from |-> row.tenant]
<1>1. row.tenant \in Slugs
  BY DEF RowSort, Device
<1>2. new \in Order /\ new.pc = pc /\ new.kind = kind /\ new.to = t
  BY <1>1 DEF Order
<1>3. request' = [request EXCEPT ![r] = new]
  BY DEF Begin
<1>4. request[r] \notin Order
  BY OrderPc DEF Begin
<1> HIDE DEF new
<1> QED BY <1>2, <1>3, <1>4 DEF OrderSort

(* A request's UPDATE.                                                      *)
LEMMA RowOfWrite ==
  ASSUME RowSort, OrderSort, NEW r \in Requests, Write(r)
  PROVE  /\ RowSort' /\ row'.grant \in {"none", "open"}
         /\ request[r].kind \in {"assign", "reassign"} /\ row.status # "absent"
              => row'.status = "active" /\ row'.tenant = request[r].to
         /\ request[r].kind \notin {"assign", "reassign"} => row'.status # "active"
<1>1. request[r] \in Order /\ request[r].kind \in Orders
  BY OrderPc DEF Write, Order
<1>2. r \in Passwords /\ row.cred \in Passwords
  BY Places DEF RowSort, Device
<1>3. CASE request[r].kind \in {"assign", "reassign"}
  <2>1. request[r].to \in Tenants
    BY <1>1, <1>3 DEF OrderSort
  <2>2. row' = IF row = NoRow THEN NoRow ELSE Given(request[r].to, r)
    BY <1>3 DEF Write, Store, Updated
  <2>3. row.status # "absent" => row # NoRow
    BY DEF NoRow
  <2> QED BY <1>2, <1>3, <2>1, <2>2, <2>3, RowsWritten, Places DEF RowSort
<1>4. CASE request[r].kind \notin {"assign", "reassign"}
  <2>1. row' \in {Recovered, Discarded, NoRow, Reset(row.cred), Deleted}
    BY <1>1, <1>4 DEF Write, Store, Updated, Orders
  <2> QED BY <1>2, <1>4, <2>1, RowsWritten, Places DEF RowSort, Discarded
<1> QED BY <1>3, <1>4

(* A discovery leaves the place of the row as it was.                       *)
LEMMA RowOfDiscovery ==
  ASSUME RowSort, DiscoverInsert
  PROVE  /\ RowSort' /\ (row'.status = "active" <=> row.status = "active")
         /\ row.status = "active" => row' = row
         /\ row.status = "pending" => row' = row
         /\ row.status # "absent" => row'.status # "absent"
         /\ row' = row \/ row'.grant = "none"
<1>1. \/ row' = row
      \/ /\ row.status \in {"absent", "deleted"}
         /\ row' = [row EXCEPT !.status = "pending", !.tenant = Pending, !.grant = "none", !.gone = FALSE]
  BY DEF DiscoverInsert, Store
<1>2. CASE row' = row
  BY <1>2 DEF RowSort
<1>3. CASE /\ row.status \in {"absent", "deleted"}
           /\ row' = [row EXCEPT !.status = "pending", !.tenant = Pending, !.grant = "none", !.gone = FALSE]
  BY <1>3, Places DEF RowSort, Device, Statuses
<1> QED BY <1>1, <1>2, <1>3

(* The other steps that write the row.                                      *)
LEMMA RowOfGrant ==
  ASSUME RowSort, PublishOnTenant \/ StateWriter \/ RearmPendingGrant
  PROVE  RowSort' /\ row'.status = row.status /\ row'.tenant = row.tenant
<1>1. row' = row \/ \E g \in {"open", "closed"} : row.grant # "none" /\ row' = [row EXCEPT !.grant = g]
  BY DEF PublishOnTenant, StateWriter, Closed, RearmPendingGrant, Store, RowSort, Device
<1> QED BY <1>1 DEF RowSort, Device

LEMMA RowOfRegister ==
  ASSUME RowSort, RegisterReset \/ RegisterCreate
  PROVE  /\ RowSort' /\ row'.grant \in {"none", row.grant}
         /\ RegisterReset => row'.status # "active"
         /\ RegisterCreate /\ row.status # "active" => row'.status # "active"
         /\ RegisterCreate /\ row.status = "active" => row'.status = "active" /\ row'.tenant = row.tenant
<1>1. CASE RegisterReset
  <2>1. row' \in {NoRow, Reset(Bootstrap)}
    BY <1>1 DEF RegisterReset, Store
  <2>2. ~RegisterCreate
    BY <1>1 DEF RegisterReset, RegisterCreate
  <2> QED BY <2>1, <2>2, RowsWritten, Places DEF RowSort
<1>2. CASE RegisterCreate
  <2>1. (row' = Reset(Bootstrap) /\ row = NoRow) \/ row' = [row EXCEPT !.cred = Bootstrap]
    BY <1>2 DEF RegisterCreate
  <2>2. ~RegisterReset
    BY <1>2 DEF RegisterReset, RegisterCreate
  <2>3. CASE row' = Reset(Bootstrap) /\ row = NoRow
    BY <2>2, <2>3, RowsWritten, Places DEF RowSort
  <2>4. CASE row' = [row EXCEPT !.cred = Bootstrap]
    BY <2>2, <2>4, Places DEF RowSort, Device
  <2> QED BY <2>1, <2>3, <2>4
<1> QED BY <1>1, <1>2

(* Which steps write the row at all.                                        *)
RowWriters == \/ PublishOnTenant \/ StateWriter \/ DiscoverInsert \/ RegisterReset \/ RegisterCreate
              \/ RearmPendingGrant \/ SoftDeleteCleanup \/ \E r \in Requests : Write(r)

LEMMA RowFrame == [OnboardingNext]_onboarding => RowWriters \/ UNCHANGED row
<1> SUFFICES ASSUME [OnboardingNext]_onboarding, ~RowWriters PROVE UNCHANGED row
  OBVIOUS
<1> QED
  BY DEF OnboardingNext, RowWriters, onboarding, Connect, Drop, Relapse, FactoryReset, Suspend, Reopen,
         PublishOnPending, Discovering, DiscoverRejects, Rescue, RescueSelect, RescueSend,
         Register, Registering, RegisterSelect, RegisterRejects, RegisterSettle, RegisterFinish, Ask, Handle, Begin,
         Send, WriteRejects, Settle, Finish, GraceOver, BlockOver, Refresh

LEMMA RowHolds == RowSort /\ OrderSort /\ [OnboardingNext]_onboarding => RowSort'
<1> SUFFICES ASSUME RowSort, OrderSort, [OnboardingNext]_onboarding PROVE RowSort'
  OBVIOUS
<1>1. CASE SoftDeleteCleanup
  BY <1>1, RowsWritten, Places DEF SoftDeleteCleanup, Store, RowSort
<1>2. CASE UNCHANGED row
  BY <1>2 DEF RowSort
<1> QED BY <1>1, <1>2, RowFrame, RowOfWrite, RowOfDiscovery, RowOfGrant, RowOfRegister DEF RowWriters

(* What a request sends, and what it does after its UPDATE, by its kind.    *)
LEMMA SendByKind ==
  ASSUME OrderSort, NEW r \in Requests, Send(r)
  PROVE  /\ request[r] \in Order /\ request[r].pc = "send" /\ To(r, "write")
         /\ \/ request[r].kind = "assign" /\ AssignCommands(r, request[r])
            \/ request[r].kind = "reassign" /\ ReassignCommands(r, request[r])
            \/ request[r].kind = "reset" /\ ResetCommands(request[r])
            \/ request[r].kind = "delete" /\ DeleteCommands(request[r])
<1>1. request[r] \in Order /\ request[r].kind \in Orders \ {"discard", "recover"}
  BY OrderPc DEF Send, Order, OrderSort
<1> QED BY <1>1 DEF Send, Orders

LEMMA SettleByKind ==
  ASSUME OrderSort, NEW r \in Requests, Settle(r)
  PROVE  /\ request[r] \in Order /\ request[r].pc = "settle" /\ To(r, "refresh")
         /\ \/ request[r].kind = "assign" /\ SettleAssign
            \/ request[r].kind = "reassign" /\ SettleReassign(request[r])
            \/ /\ request[r].kind = "recover"
               /\ SetPendingTenantHint(Pending)
               /\ UNCHANGED <<seen, registry, served, grace, blocked, discovering>>
            \/ request[r].kind \in {"reset", "delete", "discard"} /\ RemoveDeviceState
  BY OrderPc DEF Settle, Order, Orders

(* The registries are copies of the row, the entry of a discovery, or empty. *)
LEMMA RegistryHolds == RowSort /\ RegistrySort /\ OrderSort /\ [OnboardingNext]_onboarding => RegistrySort'
<1> SUFFICES ASSUME RowSort, RegistrySort, OrderSort, [OnboardingNext]_onboarding PROVE RegistrySort'
  OBVIOUS
<1>0. ASSUME NEW r \in Requests, Settle(r)
      PROVE  UNCHANGED registry \/ registry' = [status |-> "absent", tenant |-> Pending]
  BY <1>0, SettleByKind DEF SettleAssign, SettleReassign, RemoveDeviceState, NoEntry
<1>1. \/ UNCHANGED registry
      \/ registry' = [status |-> "pending", tenant |-> Pending]
      \/ registry' = [status |-> "absent", tenant |-> Pending]
      \/ registry' = [status |-> row.status, tenant |-> row.tenant]
  BY <1>0
  DEF OnboardingNext, onboarding, Connect, Drop, Relapse, FactoryReset, Suspend, Reopen, PublishOnTenant, StateWriter,
         PublishOnPending, Discover, Discovering, DiscoverInsert, DiscoverRejects,
         Rescue, RescueSelect, RescueSend, Register, Registering, RegisterSelect, RegisterReset, RegisterRejects,
         RegisterCreate, RegisterSettle, RegisterFinish, RemoveDeviceState, NoEntry, LoadRegistries, Ask, Handle, Begin,
         Send, Write, WriteRejects, Finish, GraceOver, BlockOver, Refresh, RearmPendingGrant,
         SoftDeleteCleanup
<1> QED BY <1>1, Places DEF RegistrySort, RowSort, Device, Entry, Statuses

\* What becomes of a rescue.
LEMMA RescueHolds ==
  RegistrySort /\ RescueSort /\ MemorySort /\ [OnboardingNext]_onboarding
    => /\ RescueSort'
       /\ rescue'.pc = "send" => \/ UNCHANGED rescue
                                 \/ /\ RescueSelect /\ UNCHANGED <<row, hint>>
                                    /\ row.tenant = rescue'.tenant /\ row.tenant \in Tenants
<1> SUFFICES ASSUME RegistrySort, RescueSort, MemorySort, [OnboardingNext]_onboarding
             PROVE  /\ RescueSort'
                    /\ rescue'.pc = "send" => \/ UNCHANGED rescue
                                              \/ /\ RescueSelect /\ UNCHANGED <<row, hint>>
                                                 /\ row.tenant = rescue'.tenant /\ row.tenant \in Tenants
  OBVIOUS
<1>1. NoRescue \in Attempt /\ NoRescue.pc = "idle"
  BY Places, OnboardingConstants DEF NoRescue, Attempt
<1>2. CASE UNCHANGED rescue
  BY <1>2 DEF RescueSort
<1>3. CASE PublishOnPending
  <2>1. \/ UNCHANGED rescue
        \/ /\ registry.status = "active" /\ attempts < RescueMax
           /\ rescue' = [pc |-> "select", tenant |-> registry.tenant, n |-> attempts]
    BY <1>3, OnboardingConstants DEF PublishOnPending, CheckStuck, MemorySort
  <2>2. CASE /\ registry.status = "active" /\ attempts < RescueMax
             /\ rescue' = [pc |-> "select", tenant |-> registry.tenant, n |-> attempts]
    <3>1. attempts \in 0 .. RescueMax /\ registry.tenant \in Tenants
      BY <2>2, OnboardingConstants DEF MemorySort, RegistrySort
    <3> QED BY <2>2, <3>1, Places DEF RescueSort, Attempt
  <2> QED BY <1>2, <2>1, <2>2
<1>4. CASE RescueSelect
  <2>1. rescue.tenant \in Tenants /\ [rescue EXCEPT !.pc = "send"] \in Attempt
    BY <1>4 DEF RescueSelect, RescueSort, Attempt
  <2>2. UNCHANGED <<row, hint>>
    BY <1>4 DEF RescueSelect
  <2>3. CASE row.status # "absent" /\ row.tenant = rescue.tenant
    BY <1>4, <2>1, <2>2, <2>3 DEF RescueSelect, RescueSort, Attempt
  <2>4. CASE ~(row.status # "absent" /\ row.tenant = rescue.tenant)
    BY <1>1, <1>4, <2>4 DEF RescueSelect, RescueSort
  <2> QED BY <2>3, <2>4
<1>5. CASE RescueSend
  BY <1>1, <1>5 DEF RescueSend, RescueSort
<1>6. UNCHANGED rescue \/ PublishOnPending \/ RescueSelect \/ RescueSend
  BY DEF OnboardingNext, onboarding, Connect, Drop, Relapse, FactoryReset, Suspend, Reopen, PublishOnTenant, StateWriter, Discovering,
         DiscoverInsert, DiscoverRejects, Rescue,
         Register, Registering, RegisterSelect, RegisterReset, RegisterRejects, RegisterCreate, RegisterSettle,
         RegisterFinish, Ask, Handle, Begin, Send, Write, WriteRejects, Settle, Finish, GraceOver, BlockOver, Refresh, RearmPendingGrant,
         SoftDeleteCleanup
<1> QED BY <1>2, <1>3, <1>4, <1>5, <1>6

LEMMA RegisterHolds == RegisterSort /\ [OnboardingNext]_onboarding => RegisterSort'
<1> SUFFICES ASSUME RegisterSort, [OnboardingNext]_onboarding PROVE RegisterSort'
  OBVIOUS
<1>1. \/ UNCHANGED register
      \/ \E pc \in {"idle", "select", "reset", "create", "settle", "refresh"} : register' = [pc |-> pc]
  BY DEF OnboardingNext, onboarding, Connect, Drop, Relapse, FactoryReset, Suspend, Reopen, PublishOnTenant, StateWriter,
         PublishOnPending, Discovering, DiscoverInsert, DiscoverRejects, Rescue, RescueSelect, RescueSend, Register, Registering, RegisterSelect, RegisterReset, RegisterRejects,
         RegisterCreate, RegisterSettle, RegisterFinish, Ask, Handle, Begin, Send, Write, WriteRejects, Settle, Finish, GraceOver, BlockOver,
         Refresh, RearmPendingGrant, SoftDeleteCleanup
<1> QED BY <1>1 DEF RegisterSort

LEMMA OrderHolds == RowSort /\ OrderSort /\ [OnboardingNext]_onboarding => OrderSort'
<1> SUFFICES ASSUME RowSort, OrderSort, [OnboardingNext]_onboarding PROVE OrderSort'
  OBVIOUS
<1>1. CASE UNCHANGED request
  BY <1>1 DEF OrderSort
<1>2. ASSUME NEW r \in Requests, Ask(r) PROVE OrderSort'
  <2>1. CASE \E t \in Tenants, kind \in {"assign", "reassign"} : Begin(r, kind, t)
    BY <2>1, RequestBegins, Places DEF Orders
  <2>2. CASE \E kind \in Kinds : Begin(r, kind, Pending)
    BY <2>2, RequestBegins, Places DEF Orders, Kinds
  <2> QED BY <1>2, <2>1, <2>2 DEF Ask
<1>3. ASSUME NEW r \in Requests, Handle(r) PROVE OrderSort'
  <2>1. CASE Send(r) \/ Write(r) \/ Settle(r)
    <3>1. request[r] \in Order /\ \E pc \in {"write", "settle", "refresh"} : To(r, pc)
      BY <2>1, OrderPc DEF Send, Write, Settle
    <3> QED BY <3>1, RequestMoves
  <2>2. CASE Finish(r) \/ WriteRejects(r)
    BY <2>2, RequestEnds DEF Finish, WriteRejects
  <2> QED BY <1>3, <2>1, <2>2 DEF Handle
<1>4. UNCHANGED request \/ \E r \in Requests : Ask(r) \/ Handle(r)
  BY DEF OnboardingNext, onboarding, Connect, Drop, Relapse, FactoryReset, Suspend, Reopen, PublishOnTenant, StateWriter,
         PublishOnPending, Discovering, DiscoverInsert, DiscoverRejects, Rescue, RescueSelect, RescueSend, Register, Registering, RegisterSelect, RegisterReset, RegisterRejects,
         RegisterCreate, RegisterSettle, RegisterFinish, GraceOver, BlockOver, Refresh, RearmPendingGrant, SoftDeleteCleanup
<1> QED BY <1>1, <1>2, <1>3, <1>4

(* What a controller hears leaves it a prefix and a password, and no        *)
(* subscription without a connection.                                       *)
LEMMA CtlHolds == RowSort /\ RescueSort /\ OrderSort /\ MemorySort /\ CtlSort /\ [OnboardingNext]_onboarding => CtlSort'
<1> SUFFICES ASSUME RowSort, RescueSort, OrderSort, MemorySort, CtlSort, [OnboardingNext]_onboarding PROVE CtlSort'
  OBVIOUS
<1>1. CASE UNCHANGED ctl
  BY <1>1 DEF CtlSort
<1>2. CASE Connect
  <2>1. PICK b \in BOOLEAN : b = Allowed(ctl.slug)
    BY DEF Allowed, RowSort
  <2> DEFINE c == [ctl EXCEPT !.conn = TRUE, !.sub = b]
  <2>2. c \in [slug : Slugs, cred : Passwords, conn : BOOLEAN, sub : BOOLEAN] /\ (c.sub => c.conn)
    BY DEF CtlSort
  <2>3. ctl' = c \/ (ctl' = Told(c, hint) /\ hint \in Slugs)
    BY <1>2, <2>1 DEF Connect, MemorySort
  <2>4. Told(c, hint) = c \/ Told(c, hint) = [c EXCEPT !.slug = hint, !.conn = FALSE, !.sub = FALSE]
    BY DEF Told
  <2> HIDE DEF c
  <2>5. CASE ctl' = c
    BY <2>2, <2>5 DEF CtlSort
  <2>6. CASE hint \in Slugs /\ ctl' = [c EXCEPT !.slug = hint, !.conn = FALSE, !.sub = FALSE]
    BY <2>2, <2>6 DEF CtlSort
  <2> QED BY <2>3, <2>4, <2>5, <2>6
<1>3. CASE Drop \/ Relapse \/ FactoryReset \/ Register
  <2>1. \/ ctl' = [ctl EXCEPT !.conn = FALSE, !.sub = FALSE]
        \/ \E pw \in {ctl.cred, Bootstrap} : ctl' = [slug |-> Pending, cred |-> pw, conn |-> FALSE, sub |-> FALSE]
        \/ ~ctl.conn /\ ctl' = [ctl EXCEPT !.slug = Pending, !.cred = Bootstrap]
    BY <1>3 DEF Drop, Relapse, FactoryReset, Register
  <2>2. CASE ctl' = [ctl EXCEPT !.conn = FALSE, !.sub = FALSE]
    BY <2>2 DEF CtlSort
  <2>3. CASE \E pw \in {ctl.cred, Bootstrap} : ctl' = [slug |-> Pending, cred |-> pw, conn |-> FALSE, sub |-> FALSE]
    BY <2>3, Places DEF CtlSort
  <2>4. CASE ~ctl.conn /\ ctl' = [ctl EXCEPT !.slug = Pending, !.cred = Bootstrap]
    BY <2>4, Places DEF CtlSort
  <2> QED BY <2>1, <2>2, <2>3, <2>4
<1>4. CASE PublishOnTenant
  BY <1>4, HeardSort, Places DEF PublishOnTenant
<1>5. CASE RescueSend
  BY <1>5, HeardSort, Places DEF RescueSend, RescueSort
<1>6. CASE RegisterSettle
  BY <1>6, HeardSort, Places DEF RegisterSettle, RemoveDeviceState, SetPendingTenantHint
<1>7. ASSUME NEW r \in Requests, Send(r) PROVE CtlSort'
  <2>1. request[r].to \in Slugs /\ r \in Passwords
    BY <1>7, SendByKind, Places DEF Order
  <2>2. \/ \E on : HearBoth(on, r, request[r].to)
        \/ \E on : HearTenant(on, Pending)
        \/ \E on : HearBoth(on, Bootstrap, Pending)
        \/ UNCHANGED ctl
    BY <1>7, SendByKind DEF AssignCommands, ReassignCommands, ResetCommands, DeleteCommands
  <2> QED BY <2>1, <2>2, HeardSort, Places
<1>8. ASSUME NEW r \in Requests, Settle(r) PROVE CtlSort'
  <2>1. request[r].to \in Slugs
    BY <1>8, SettleByKind DEF Order
  <2>2. \/ HearTenant(Pending, request[r].to)
        \/ HearTenant(Pending, Pending)
        \/ UNCHANGED ctl
    BY <1>8, SettleByKind DEF SettleAssign, SettleReassign, RemoveDeviceState, SetPendingTenantHint
  <2> QED BY <2>1, <2>2, HeardSort, Places
<1>9. \/ UNCHANGED ctl
      \/ Connect \/ Drop \/ Relapse \/ FactoryReset \/ Register \/ PublishOnTenant \/ RescueSend \/ RegisterSettle
      \/ \E r \in Requests : Send(r) \/ Settle(r)
  BY DEF OnboardingNext, onboarding, Suspend, Reopen, PublishOnPending, StateWriter, Discovering, DiscoverInsert,
         DiscoverRejects, Rescue, RescueSelect, Registering, RegisterSelect, RegisterReset, RegisterRejects,
         RegisterCreate, RegisterFinish, Ask, Handle, Begin, Write, WriteRejects, Finish, GraceOver, BlockOver, Refresh,
         RearmPendingGrant, SoftDeleteCleanup
<1> QED BY <1>1, <1>2, <1>3, <1>4, <1>5, <1>6, <1>7, <1>8, <1>9

(* The memory of the server, and the hint, in the same way.                 *)
LEMMA MemoryHolds ==
  RescueSort /\ OrderSort /\ MemorySort /\ CtlSort /\ [OnboardingNext]_onboarding => MemorySort'
<1> SUFFICES ASSUME RescueSort, OrderSort, MemorySort, CtlSort, [OnboardingNext]_onboarding PROVE MemorySort'
  OBVIOUS
<1>0. 0 \in 0 .. RescueMax + 1 /\ RescueMax + 1 \in 0 .. RescueMax + 1
  BY OnboardingConstants
<1>1. CASE UNCHANGED <<hint, seen, attempts, grace, blocked>>
  BY <1>1 DEF MemorySort
<1>2. CASE PublishOnTenant \/ PublishOnPending
  BY <1>0, <1>2, Places DEF PublishOnTenant, PublishOnPending, CheckStuck, MemorySort
<1>3. CASE RescueSend
  <2>1. rescue.tenant \in Slugs /\ rescue.n + 1 \in 0 .. RescueMax + 1
    BY OnboardingConstants DEF RescueSort, Attempt
  <2> QED BY <1>3, <2>1 DEF RescueSend, MemorySort
<1>4. CASE RegisterSettle
  BY <1>0, <1>4, Places DEF RegisterSettle, RemoveDeviceState, SetPendingTenantHint, MemorySort
<1>5. ASSUME NEW r \in Requests, Send(r) PROVE MemorySort'
  <2>1. request[r].to \in Slugs /\ UNCHANGED cloud
    BY <1>5, SendByKind DEF Send, Order
  <2>2. hint' = request[r].to \/ UNCHANGED hint
    BY <1>5, SendByKind DEF AssignCommands, ReassignCommands, ResetCommands, DeleteCommands
  <2> QED BY <2>1, <2>2 DEF MemorySort
<1>6. ASSUME NEW r \in Requests, Settle(r) PROVE MemorySort'
  <2>1. request[r].to \in Slugs
    BY <1>6, SettleByKind DEF Order
  <2> QED BY <1>0, <1>6, <2>1, SettleByKind, Places
          DEF SettleAssign, SettleReassign, RemoveDeviceState, SetPendingTenantHint, MemorySort
<1>7. CASE Refresh \/ RegisterFinish \/ \E r \in Requests : Finish(r)
  BY <1>0, <1>7 DEF Refresh, RegisterFinish, Finish, LoadRegistries, MemorySort
<1>8. CASE GraceOver \/ BlockOver
  BY <1>8 DEF GraceOver, BlockOver, MemorySort
<1>9. \/ UNCHANGED <<hint, seen, attempts, grace, blocked>>
      \/ PublishOnTenant \/ PublishOnPending \/ RescueSend \/ RegisterSettle \/ Refresh \/ RegisterFinish
      \/ GraceOver \/ BlockOver
      \/ \E r \in Requests : Send(r) \/ Settle(r) \/ Finish(r)
  BY DEF OnboardingNext, onboarding, Connect, Drop, Relapse, FactoryReset, Suspend, Reopen, StateWriter, Discovering,
         DiscoverInsert, DiscoverRejects, Rescue, RescueSelect, Register, Registering, RegisterSelect, RegisterReset,
         RegisterRejects, RegisterCreate, Ask, Handle, Begin, Write, WriteRejects, RearmPendingGrant, SoftDeleteCleanup
<1> QED BY <1>1, <1>2, <1>3, <1>4, <1>5, <1>6, <1>7, <1>8, <1>9

LEMMA NoteHolds == OrderSort /\ NoteSort /\ [OnboardingNext]_onboarding => NoteSort'
<1> SUFFICES ASSUME OrderSort, NoteSort, [OnboardingNext]_onboarding PROVE NoteSort'
  OBVIOUS
<1>1. CASE UNCHANGED <<stored, misled, suspended, served, discovering>>
  BY <1>1 DEF NoteSort
<1>2. CASE PublishOnTenant \/ StateWriter \/ PublishOnPending \/ Discovering
  BY <1>2 DEF PublishOnTenant, StateWriter, PublishOnPending, Discover, CheckStuck, Discovering, DiscoverInsert,
              DiscoverRejects, Store, NoteSort
<1>3. CASE (\E t \in Tenants : Suspend(t) \/ Reopen(t)) \/ RearmPendingGrant \/ SoftDeleteCleanup \/ Refresh \/ RescueSend
  BY <1>3 DEF Suspend, Reopen, RearmPendingGrant, SoftDeleteCleanup, Refresh, LoadRegistries, RescueSend, Store, NoteSort
<1>4. CASE Registering
  BY <1>4 DEF Registering, RegisterSelect, RegisterReset, RegisterRejects, RegisterCreate, RegisterSettle, RegisterFinish,
              RemoveDeviceState, SetPendingTenantHint, LoadRegistries, Store, NoteSort
<1>5. ASSUME NEW r \in Requests, Send(r) PROVE NoteSort'
  BY <1>5, SendByKind DEF Send, AssignCommands, ReassignCommands, ResetCommands, DeleteCommands, NoteSort
<1>6. ASSUME NEW r \in Requests, Settle(r) PROVE NoteSort'
  <2>1. UNCHANGED <<stored, suspended>>
    BY <1>6 DEF Settle
  <2> QED BY <1>6, <2>1, SettleByKind
          DEF SettleAssign, SettleReassign, RemoveDeviceState, SetPendingTenantHint, NoteSort
<1>7. ASSUME NEW r \in Requests, Write(r) \/ WriteRejects(r) \/ Finish(r) PROVE NoteSort'
  BY <1>7 DEF Write, WriteRejects, Finish, LoadRegistries, Store, NoteSort
<1>8. \/ UNCHANGED <<stored, misled, suspended, served, discovering>>
      \/ PublishOnTenant \/ StateWriter \/ PublishOnPending \/ Discovering
      \/ \E t \in Tenants : Suspend(t) \/ Reopen(t)
      \/ RearmPendingGrant \/ SoftDeleteCleanup \/ Refresh \/ RescueSend \/ Registering
      \/ \E r \in Requests : Send(r) \/ Settle(r) \/ Write(r) \/ WriteRejects(r) \/ Finish(r)
  BY DEF OnboardingNext, onboarding, Connect, Drop, Relapse, FactoryReset, Rescue, RescueSelect, Register, Ask, Handle,
         Begin, GraceOver, BlockOver
<1> QED BY <1>1, <1>2, <1>3, <1>4, <1>5, <1>6, <1>7, <1>8

LEMMA OnboardingSortsHold == OnboardingSorts /\ [OnboardingNext]_onboarding => OnboardingSorts'
  BY RowHolds, RegistryHolds, RescueHolds, OrderHolds, MemoryHolds, NoteHolds, RegisterHolds, CtlHolds DEF OnboardingSorts

LEMMA OnboardingSortsInit == OnboardingInit => OnboardingSorts
<1> SUFFICES ASSUME OnboardingInit PROVE OnboardingSorts
  OBVIOUS
<1>1. [pc |-> "new"] \in Rested /\ [pc |-> "new"] \notin Order
  BY DEF Rested, Order
<1>2. OrderSort
  BY <1>1 DEF OnboardingInit, OrderSort, Unsent
<1>3. RescueSort /\ RegisterSort
  BY Places, OnboardingConstants DEF OnboardingInit, RescueSort, NoRescue, Attempt, RegisterSort
<1>4. MemorySort
  <2>1. hint \in Slugs \cup {NoHint} /\ seen \in Slugs \cup {NoHint}
    BY Places DEF OnboardingInit
  <2>2. attempts = 0 /\ 0 \in 0 .. RescueMax + 1 /\ grace = FALSE /\ blocked = FALSE
    BY OnboardingConstants DEF OnboardingInit
  <2> QED BY <2>1, <2>2 DEF MemorySort
<1>8. NoteSort
  BY DEF OnboardingInit, NoteSort
<1>5. RowSort
  <2>1. NoRow \in Device /\ NoRow.status = "absent" /\ NoRow.tenant = Pending /\ NoRow.grant = "none"
    BY Places DEF NoRow, Device, Statuses
  <2>2. CASE row = NoRow
    BY <2>1, <2>2, Places DEF RowSort
  <2>3. ASSUME NEW t \in Tenants,
               row = [status |-> "active", tenant |-> t, cred |-> Original, grant |-> "closed", gone |-> FALSE]
        PROVE  RowSort
    BY <2>3, Places DEF RowSort, Device, Statuses
  <2> QED BY <2>2, <2>3 DEF OnboardingInit
<1>6. RegistrySort
  BY Places DEF OnboardingInit, RegistrySort, NoEntry, Entry, Statuses
<1>7. CtlSort
  <2>1. CASE ctl = [slug |-> Pending, cred |-> Bootstrap, conn |-> FALSE, sub |-> FALSE]
    BY <2>1, Places DEF CtlSort
  <2>2. ASSUME NEW t \in Tenants, ctl = [slug |-> t, cred |-> Original, conn |-> TRUE, sub |-> TRUE]
        PROVE  CtlSort
    BY <2>2, Places DEF CtlSort
  <2> QED BY <2>1, <2>2 DEF OnboardingInit
<1> QED BY <1>2, <1>3, <1>4, <1>5, <1>6, <1>7, <1>8 DEF OnboardingSorts

(* Every variable keeps its type, whatever is in flight, late or lost.      *)
THEOREM OnboardingTypeCorrect == Onboarding => []OnboardingTypes
<1>1. OnboardingSorts => OnboardingTypes
  <2> SUFFICES ASSUME OnboardingSorts PROVE OnboardingTypes
    OBVIOUS
  <2>1. \A r \in Requests :
          /\ request[r].pc \in {"new", "send", "write", "settle", "refresh", "done"}
          /\ request[r].pc \notin {"new", "done"} =>
               /\ request[r].kind \in {"assign", "reassign", "reset", "delete", "discard", "recover"}
               /\ request[r].to \in Slugs /\ request[r].from \in Slugs
    BY DEF OnboardingSorts, OrderSort, Order, Rested, Orders
  <2> QED BY <2>1 DEF OnboardingSorts, RowSort, RegistrySort, RescueSort, MemorySort, NoteSort, RegisterSort, CtlSort, Device,
                     Entry, Attempt, OnboardingTypes
<1> QED BY <1>1, OnboardingSortsInit, OnboardingSortsHold, PTL DEF Onboarding

(* A time kept in stateMap under an organisation, later than the date of an *)
(* open grant, is that of a message heard under it since: what is heard on   *)
(* the pending prefix is kept under it, reassign does not move that, and     *)
(* every other move of the row gives it a later date.                        *)
HeardSince == fresh /\ row.grant = "open" /\ seen \in Tenants => checkedIn

LEMMA HeardSinceHolds ==
  OnboardingSorts /\ HeardSince /\ [OnboardingNext]_onboarding => HeardSince'
<1> SUFFICES ASSUME OnboardingSorts, HeardSince, [OnboardingNext]_onboarding PROVE HeardSince'
  OBVIOUS
<1> USE DEF OnboardingSorts
<1>1. CASE UNCHANGED <<stored, seen>>
  BY <1>1 DEF HeardSince
<1>2. CASE fresh' = FALSE
  BY <1>2 DEF HeardSince
<1>3. CASE UNCHANGED stored /\ seen' \notin Tenants
  BY <1>3 DEF HeardSince
<1>4. CASE PublishOnTenant
  BY <1>1, <1>4 DEF PublishOnTenant, HeardSince
<1>5. CASE PublishOnPending
  BY <1>5, Places DEF PublishOnPending, HeardSince
<1>6. CASE RegisterCreate
  <2>1. UNCHANGED <<fresh, checkedIn, seen>>
    BY <1>6 DEF RegisterCreate
  <2> QED BY <1>6, <2>1, RowOfRegister DEF HeardSince
<1>7. CASE RegisterSettle
  BY <1>3, <1>7, OnboardingConstants DEF RegisterSettle, RemoveDeviceState
<1>8. ASSUME NEW r \in Requests, Settle(r) PROVE HeardSince'
  <2>1. UNCHANGED stored
    BY <1>8 DEF Settle
  <2>2. seen' = seen \/ seen' = NoHint \/ seen \in Tenants
    BY <1>8, SettleByKind DEF SettleAssign, SettleReassign, RemoveDeviceState
  <2> QED BY <2>1, <2>2, OnboardingConstants DEF HeardSince
<1>9. \/ UNCHANGED <<stored, seen>>
      \/ fresh' = FALSE
      \/ PublishOnTenant \/ PublishOnPending \/ RegisterCreate \/ RegisterSettle
      \/ \E r \in Requests : Settle(r)
  BY DEF OnboardingNext, onboarding, Connect, Drop, Relapse, FactoryReset, Suspend, Reopen, StateWriter, Discovering,
         DiscoverInsert, DiscoverRejects, Store, Rescue, RescueSelect, RescueSend, Register, Registering, RegisterSelect,
         RegisterReset, RegisterRejects, RegisterFinish, LoadRegistries, Ask, Handle, Begin, Send, Write, WriteRejects,
         Finish, GraceOver, BlockOver, Refresh, RearmPendingGrant, SoftDeleteCleanup
<1> QED BY <1>1, <1>2, <1>4, <1>5, <1>6, <1>7, <1>8, <1>9

(* The grant of an active row closes only once its controller was heard     *)
(* under its organisation since the grant was opened, with any number of     *)
(* handlers, discoveries and rescues at once and any number of mishaps: one  *)
(* that is not there yet keeps the pending prefix.                           *)
THEOREM GrantKeptOpen == Onboarding => GrantClosedByCheckIn
<1>1. OnboardingInit => HeardSince
  BY DEF OnboardingInit, HeardSince
<1>2. OnboardingSorts /\ HeardSince /\ [OnboardingNext]_onboarding
        => [row.grant = "open" /\ row'.grant = "closed" => checkedIn']_onboarding
  <2> SUFFICES ASSUME OnboardingSorts, HeardSince, [OnboardingNext]_onboarding, row.grant = "open", row'.grant = "closed"
               PROVE  checkedIn'
    OBVIOUS
  <2> USE DEF OnboardingSorts
  <2>1. CASE PublishOnTenant
    BY <2>1 DEF PublishOnTenant
  <2>2. CASE StateWriter
    <3>1. fresh /\ seen = row.tenant /\ UNCHANGED checkedIn
      BY <2>2 DEF StateWriter
    <3>2. row.tenant \in Tenants
      BY DEF RowSort
    <3> QED BY <3>1, <3>2 DEF HeardSince
  <2>3. ~DiscoverInsert
    BY RowOfDiscovery
  <2>4. ~(RegisterReset \/ RegisterCreate)
    BY RowOfRegister
  <2>5. ~RearmPendingGrant
    BY DEF RearmPendingGrant
  <2>6. ~SoftDeleteCleanup
    BY DEF SoftDeleteCleanup, Store, NoRow
  <2>7. ~\E r \in Requests : Write(r)
    BY RowOfWrite
  <2> QED BY <2>1, <2>2, <2>3, <2>4, <2>5, <2>6, <2>7, RowFrame DEF RowWriters
<1> QED BY <1>1, <1>2, HeardSinceHolds, OnboardingSortsInit, OnboardingSortsHold, PTL DEF Onboarding, GrantClosedByCheckIn

LEMMA OnlyOne ==
  ASSUME MaxOpen = 1, OrderSort, Busy < MaxOpen
  PROVE  register.pc = "idle" /\ \A r \in Requests : request[r] \notin Order
<1>1. Open \subseteq Requests /\ IsFiniteSet(Requests)
  BY OnboardingConstants DEF Open
<1>2. IsFiniteSet(Open) /\ Cardinality(Open) \in Nat
  BY <1>1, FS_Subset, FS_CardinalityType
<1>3. Cardinality(Open) = 0 /\ register.pc = "idle"
  BY <1>2 DEF Busy
<1>4. Open = {}
  BY <1>2, <1>3, FS_EmptySet
<1>5. \A r \in Requests : request[r].pc \in {"new", "done"}
  BY <1>4 DEF Open
<1> QED BY <1>3, <1>5, OrderPc

(* A step that writes neither hint nor place, and begins and ends nothing.  *)
LEMMA HintKept ==
  ASSUME HintInv, OnboardingSorts', UNCHANGED <<retained, request, register>>,
         row'.status = row.status, row'.tenant = row.tenant,
         rescue'.pc = "send" => UNCHANGED rescue \/ (row.tenant = rescue'.tenant /\ row.tenant \in Tenants)
  PROVE  HintInv'
<1> USE DEF HintInv
<1>1. InTurn'
  BY DEF InTurn
<1>2. Answered'
  BY DEF Answered, OnboardingSorts, RowSort
<1>3. Found' /\ Ahead' /\ Behind'
  BY DEF Found, Ahead, Behind, Waits, Settles
<1>4. HintHolds'
  BY DEF HintHolds, Unsettled, Waits, Settles, Place
<1> QED BY <1>1, <1>2, <1>3, <1>4

(* A rescue answered is of an active row, and no row changes its place      *)
(* before the rescue is sent.                                               *)
LEMMA AnsweredHolds ==
  ASSUME ~LateAnswers, HintInv, [OnboardingNext]_onboarding
  PROVE  Answered'
<1> USE DEF HintInv, OnboardingSorts
<1> SUFFICES ASSUME rescue'.pc = "send" PROVE row'.status = "active" /\ row'.tenant = rescue'.tenant
  BY DEF Answered
<1>1. CASE RescueSelect /\ UNCHANGED row /\ row.tenant = rescue'.tenant /\ row.tenant \in Tenants
  BY <1>1 DEF RowSort
<1>2. CASE UNCHANGED rescue
  <2>1. rescue.pc = "send" /\ row.status = "active" /\ row.tenant = rescue.tenant
    BY <1>2 DEF Answered
  <2>2. ~\E r \in Requests : Write(r)
    BY <2>1 DEF Write, InOrder
  <2>3. ~RegisterReset
    BY <2>1 DEF RegisterReset, InOrder
  <2>4. ~SoftDeleteCleanup
    BY <2>1 DEF SoftDeleteCleanup
  <2>5. CASE DiscoverInsert
    BY <1>2, <2>1, <2>5, RowOfDiscovery
  <2>6. CASE PublishOnTenant \/ StateWriter \/ RearmPendingGrant
    BY <1>2, <2>1, <2>6, RowOfGrant
  <2>7. CASE RegisterCreate
    BY <1>2, <2>1, <2>7, RowOfRegister
  <2>8. CASE UNCHANGED row
    BY <1>2, <2>1, <2>8
  <2> QED BY <2>2, <2>3, <2>4, <2>5, <2>6, <2>7, <2>8, RowFrame DEF RowWriters
<1> QED BY <1>1, <1>2, RescueHolds

LEMMA HintStep ==
  ASSUME MaxOpen = 1, ~LateAnswers
  PROVE  HintInv /\ [OnboardingNext]_onboarding => HintInv'
<1> SUFFICES ASSUME HintInv, [OnboardingNext]_onboarding PROVE HintInv'
  OBVIOUS
<1>0. OnboardingSorts /\ OnboardingSorts' /\ Answered'
  BY OnboardingSortsHold, AnsweredHolds DEF HintInv
<1>a. /\ RowSort /\ OrderSort /\ RowSort' /\ OrderSort'
      /\ rescue'.pc = "send" => UNCHANGED rescue \/ (row.tenant = rescue'.tenant /\ row.tenant \in Tenants)
  BY <1>0, RescueHolds DEF OnboardingSorts
<1>1. CASE UNCHANGED <<retained, request, register>> /\ row'.status = row.status /\ row'.tenant = row.tenant
  BY <1>0, <1>a, <1>1, HintKept
<1>2. CASE DiscoverInsert
  <2>1. UNCHANGED <<retained, request, register>>
    BY <1>2 DEF DiscoverInsert
  <2>2. /\ row'.status = "active" <=> row.status = "active"
        /\ row.status = "active" => row' = row
        /\ row.status = "pending" => row'.status = "pending"
        /\ row.status # "absent" => row'.status # "absent"
        /\ row.status # "active" => row'.tenant = row.tenant \/ (row'.tenant = Pending /\ row'.status # "active")
    BY <1>2, <1>a, RowOfDiscovery DEF DiscoverInsert, Store, RowSort, Device
  <2>3. InTurn' /\ Found' /\ Ahead'
    BY <2>1, <2>2 DEF HintInv, InTurn, Found, Ahead, Waits
  <2>4. Place' = Place
    BY <2>2 DEF Place
  <2>5. HintHolds'
    BY <2>1, <2>4 DEF HintInv, HintHolds, Unsettled, Waits, Settles
  <2>6. \A r \in Requests : Settles(r) /\ request[r].kind = "reassign" => row.status = "active"
    BY <1>a DEF HintInv, Behind, Settles, OrderSort, RowSort
  <2>7. Behind'
    BY <2>1, <2>2, <2>6 DEF HintInv, Behind, Settles
  <2> QED BY <1>0, <2>3, <2>5, <2>7 DEF HintInv
<1>3. CASE RescueSend
  <2>1. UNCHANGED <<row, request, register>> /\ hint' = rescue.tenant /\ rescue.pc = "send"
    BY <1>3 DEF RescueSend
  <2>2. row.status = "active" /\ hint' = row.tenant /\ Place' = hint'
    BY <2>1 DEF HintInv, Answered, Place
  <2>3. InTurn' /\ Found' /\ Behind'
    BY <2>1 DEF HintInv, InTurn, Found, Behind, Waits, Settles
  <2>4. Ahead'
    BY <2>1, <2>2 DEF HintInv, Found, Ahead, Waits
  <2>5. HintHolds'
    BY <2>2 DEF HintHolds
  <2> QED BY <1>0, <2>3, <2>4, <2>5 DEF HintInv
<1>4. CASE SoftDeleteCleanup
  <2>1. /\ row.status = "deleted" /\ row'.status = "absent" /\ row'.tenant = Pending
        /\ UNCHANGED <<retained, request, register>> /\ Busy < MaxOpen
    BY <1>4 DEF SoftDeleteCleanup, Store, NoRow
  <2>2. register.pc = "idle" /\ \A r \in Requests : request[r] \notin Order
    BY <1>a, <2>1, OnlyOne
  <2>3. InTurn' /\ Found' /\ Ahead' /\ Behind'
    BY <2>1, <2>2 DEF InTurn, Found, Ahead, Behind, Waits, Settles
  <2>4. HintHolds'
    BY <2>1, <2>2 DEF HintInv, HintHolds, Unsettled, Place, Waits, Settles
  <2> QED BY <1>0, <2>3, <2>4 DEF HintInv
<1>5. CASE Register
  <2>1. UNCHANGED <<row, retained, request>> /\ register' = [pc |-> "select"] /\ Busy < MaxOpen
    BY <1>5 DEF Register
  <2>2. register.pc = "idle" /\ \A r \in Requests : request[r] \notin Order
    BY <1>a, <2>1, OnlyOne
  <2>3. InTurn' /\ Found' /\ Ahead' /\ Behind'
    BY <2>1, <2>2 DEF InTurn, Found, Ahead, Behind, Waits, Settles
  <2>4. HintHolds'
    BY <2>1, <2>2 DEF HintInv, HintHolds, Unsettled, Place, Waits, Settles
  <2> QED BY <1>0, <2>3, <2>4 DEF HintInv
<1>6. CASE Registering
  <2>1. UNCHANGED request /\ register.pc # "idle"
    BY <1>6 DEF Registering, RegisterSelect, RegisterReset, RegisterRejects, RegisterCreate, RegisterSettle,
               RegisterFinish
  <2>2. \A r \in Requests : request[r] \notin Order /\ request'[r] \notin Order
    BY <2>1 DEF HintInv, InTurn
  <2>3. InTurn' /\ Found' /\ Ahead'
    BY <2>2 DEF InTurn, Found, Ahead, Waits
  <2>4. CASE RegisterSelect
    <3>1. /\ UNCHANGED <<row, retained>> /\ register.pc = "select" /\ register'.pc # "settle"
          /\ register'.pc = "create" => row.status # "active"
      BY <2>4 DEF RegisterSelect
    <3>2. Behind'
      BY <2>2, <3>1 DEF Behind, Settles
    <3>3. HintHolds'
      BY <2>2, <3>1 DEF HintInv, HintHolds, Unsettled, Place, Waits, Settles
    <3> QED BY <1>0, <2>3, <3>2, <3>3 DEF HintInv
  <2>5. CASE RegisterReset
    <3>1. row'.status # "active" /\ register'.pc = "settle"
      BY <1>a, <2>5, RowOfRegister DEF RegisterReset
    <3>2. Behind'
      BY <2>2, <3>1 DEF Behind, Settles
    <3>3. HintHolds'
      BY <3>1 DEF HintHolds, Unsettled
    <3> QED BY <1>0, <2>3, <3>2, <3>3 DEF HintInv
  <2>6. CASE RegisterCreate
    <3>1. UNCHANGED retained /\ register.pc = "create" /\ register'.pc = "refresh" /\ row.status # "active"
      BY <2>6 DEF RegisterCreate, HintInv, Behind
    <3>2. row'.status # "active"
      BY <1>a, <2>6, <3>1, RowOfRegister
    <3>3. Behind'
      BY <2>2, <3>1 DEF Behind, Settles
    <3>4. HintHolds'
      BY <2>2, <3>1, <3>2 DEF HintInv, HintHolds, Unsettled, Place, Waits, Settles
    <3> QED BY <1>0, <2>3, <3>3, <3>4 DEF HintInv
  <2>7. CASE RegisterSettle
    <3>1. UNCHANGED row /\ hint' = Pending /\ register.pc = "settle" /\ register'.pc = "refresh"
      BY <2>7 DEF RegisterSettle, RemoveDeviceState, SetPendingTenantHint
    <3>2. Behind' /\ Place' = Pending
      BY <2>2, <3>1 DEF HintInv, Behind, Settles, Place
    <3>3. HintHolds'
      BY <3>1, <3>2 DEF HintHolds
    <3> QED BY <1>0, <2>3, <3>2, <3>3 DEF HintInv
  <2>8. CASE RegisterFinish
    <3>1. UNCHANGED <<row, retained>> /\ register.pc = "refresh" /\ register'.pc = "idle"
      BY <2>8 DEF RegisterFinish
    <3>2. Behind'
      BY <2>2, <3>1 DEF Behind, Settles
    <3>3. HintHolds'
      BY <2>2, <3>1 DEF HintInv, HintHolds, Unsettled, Place, Waits, Settles
    <3> QED BY <1>0, <2>3, <3>2, <3>3 DEF HintInv
  <2>9. CASE RegisterRejects
    <3>1. /\ UNCHANGED <<row, hint>> /\ register'.pc = "idle"
          /\ misled' = (misled \/ register.pc = "settle")
      BY <2>9 DEF RegisterRejects
    <3>2. Behind'
      BY <2>2, <3>1 DEF Behind, Settles
    <3>3. HintHolds'
      BY <2>2, <3>1 DEF HintInv, HintHolds, Unsettled, Place, Waits, Settles
    <3> QED BY <1>0, <2>3, <3>2, <3>3 DEF HintInv
  <2> QED BY <1>6, <2>4, <2>5, <2>6, <2>7, <2>8, <2>9 DEF Registering
<1>7. ASSUME NEW r \in Requests, Ask(r) PROVE HintInv'
  <2>1. PICK kind \in Orders, t \in Slugs :
          Begin(r, kind, t) /\ (kind \in {"assign", "reassign"} => t \in Tenants)
    BY <1>7, Places DEF Ask, Kinds, Orders
  <2>2. UNCHANGED <<row, retained, register>> /\ Applies(kind, t) /\ Busy < MaxOpen
    BY <2>1 DEF Begin
  <2>3. register.pc = "idle" /\ \A q \in Requests : request[q] \notin Order
    BY <1>a, <2>2, OnlyOne
  <2>4. /\ request'[r].kind = kind /\ request'[r].pc = IF kind \in {"discard", "recover"} THEN "write" ELSE "send"
        /\ \A q \in Requests \ {r} : request'[q] \notin Order
    BY <1>a, <2>1, <2>3, RequestBegins
  <2>5. InTurn'
    BY <2>2, <2>3, <2>4 DEF InTurn
  <2>6. Found'
    BY <2>2, <2>4 DEF Found, Waits, Applies
  <2>7. Ahead' /\ Behind'
    BY <2>2, <2>3, <2>4 DEF Ahead, Behind, Waits, Settles
  <2>8. HintHolds'
    BY <2>2, <2>3, <2>4 DEF HintInv, HintHolds, Unsettled, Place, Waits, Settles
  <2> QED BY <1>0, <2>5, <2>6, <2>7, <2>8 DEF HintInv
<1>8. ASSUME NEW r \in Requests, Handle(r) PROVE HintInv'
  <2>1. request[r] \in Order
    BY <1>a, <1>8, OrderPc DEF Handle, Send, Write, WriteRejects, Settle, Finish
  <2>2. register.pc = "idle" /\ \A q \in Requests \ {r} : request[q] \notin Order
    BY <2>1 DEF HintInv, InTurn
  <2>3. UNCHANGED register
    BY <1>8 DEF Handle, Send, Write, WriteRejects, Settle, Finish
  <2>4. CASE Send(r)
    <3>1. /\ request[r].pc = "send" /\ request'[r].pc = "write" /\ UNCHANGED row
          /\ request'[r].kind = request[r].kind /\ request'[r].to = request[r].to
          /\ \A q \in Requests \ {r} : request'[q] \notin Order
      BY <1>a, <2>1, <2>2, <2>4, RequestMoves DEF Send
    <3>2. IF request[r].kind = "assign" THEN hint' = request[r].to ELSE UNCHANGED retained
      BY <1>a, <2>4, SendByKind DEF AssignCommands, ReassignCommands, ResetCommands, DeleteCommands
    <3>3. InTurn'
      BY <2>2, <2>3, <3>1 DEF InTurn
    <3>4. Found'
      BY <2>1, <3>1 DEF HintInv, Found, Waits
    <3>5. Ahead' /\ Behind'
      BY <2>2, <2>3, <3>1, <3>2 DEF Ahead, Behind, Waits, Settles
    <3>6. CASE request[r].kind = "assign"
      <4>1. request'[r] \in Order
        BY <1>a, <2>1, <2>4, RequestMoves DEF Send
      <4>2. HintHolds'
        BY <3>1, <3>6, <4>1 DEF HintHolds, Unsettled, Waits
      <4> QED BY <1>0, <3>3, <3>4, <3>5, <4>2 DEF HintInv
    <3>7. CASE request[r].kind # "assign"
      <4>1. HintHolds'
        BY <2>2, <2>3, <3>1, <3>2, <3>7 DEF HintInv, HintHolds, Unsettled, Place, Waits, Settles
      <4> QED BY <1>0, <3>3, <3>4, <3>5, <4>1 DEF HintInv
    <3> QED BY <3>6, <3>7
  <2>5. CASE Write(r)
    <3>1. /\ request[r].pc = "write" /\ request'[r].pc = "settle" /\ UNCHANGED hint
          /\ request'[r] \in Order
          /\ request'[r].kind = request[r].kind /\ request'[r].to = request[r].to
          /\ \A q \in Requests \ {r} : request'[q] \notin Order
      BY <1>a, <2>1, <2>2, <2>5, RequestMoves DEF Write
    <3>2. /\ request[r].kind \in {"assign", "reassign"} => row'.status = "active" /\ row'.tenant = request[r].to
          /\ request[r].kind \notin {"assign", "reassign"} => row'.status # "active"
      BY <1>a, <2>1, <2>5, <3>1, RowOfWrite DEF HintInv, Found, Waits
    <3>3. InTurn'
      BY <2>2, <2>3, <3>1 DEF InTurn
    <3>4. Found' /\ Ahead'
      BY <3>1 DEF Found, Ahead, Waits
    <3>5. Behind'
      BY <2>2, <2>3, <3>1, <3>2 DEF Behind, Settles
    <3>6. CASE request[r].kind = "assign"
      <4>1. hint' = request[r].to /\ Place' = request[r].to
        BY <2>1, <3>1, <3>2, <3>6 DEF HintInv, Ahead, Waits, Place
      <4>2. HintHolds'
        BY <4>1 DEF HintHolds
      <4> QED BY <1>0, <3>3, <3>4, <3>5, <4>2 DEF HintInv
    <3>7. CASE request[r].kind # "assign"
      <4>1. HintHolds'
        BY <3>1, <3>7 DEF HintHolds, Unsettled, Settles
      <4> QED BY <1>0, <3>3, <3>4, <3>5, <4>1 DEF HintInv
    <3> QED BY <3>6, <3>7
  <2>6. CASE Settle(r)
    <3>1. /\ request[r].pc = "settle" /\ request'[r].pc = "refresh" /\ UNCHANGED row
          /\ \A q \in Requests \ {r} : request'[q] \notin Order
      BY <1>a, <2>1, <2>2, <2>6, RequestMoves DEF Settle
    <3>2. InTurn' /\ Found' /\ Ahead' /\ Behind'
      BY <2>2, <2>3, <3>1 DEF InTurn, Found, Ahead, Behind, Waits, Settles
    <3>3. CASE request[r].kind = "assign"
      <4>1. UNCHANGED retained
        BY <1>a, <2>6, <3>3, SettleByKind DEF SettleAssign
      <4>2. HintHolds'
        BY <2>2, <2>3, <3>1, <3>3, <4>1 DEF HintInv, HintHolds, Unsettled, Place, Waits, Settles
      <4> QED BY <1>0, <3>2, <4>2 DEF HintInv
    <3>4. CASE request[r].kind = "reassign"
      <4>1. hint' = request[r].to
        BY <1>a, <2>6, <3>4, SettleByKind DEF SettleReassign, SetPendingTenantHint
      <4>2. request[r].to \in Tenants /\ row.tenant = request[r].to
        BY <1>a, <2>1, <3>1, <3>4 DEF HintInv, Behind, Settles, OrderSort
      <4>3. Place' = hint'
        BY <1>a, <3>1, <4>1, <4>2 DEF RowSort, Place
      <4>4. HintHolds'
        BY <4>3 DEF HintHolds
      <4> QED BY <1>0, <3>2, <4>4 DEF HintInv
    <3>5. CASE request[r].kind \notin {"assign", "reassign"}
      <4>1. hint' = Pending
        BY <1>a, <2>6, <3>5, SettleByKind DEF RemoveDeviceState, SetPendingTenantHint
      <4>2. Place' = Pending
        BY <2>1, <3>1, <3>5 DEF HintInv, Behind, Settles, Place
      <4>3. HintHolds'
        BY <4>1, <4>2 DEF HintHolds
      <4> QED BY <1>0, <3>2, <4>3 DEF HintInv
    <3> QED BY <3>3, <3>4, <3>5
  <2>7. CASE Finish(r)
    <3>1. /\ request[r].pc = "refresh" /\ UNCHANGED <<row, retained>>
          /\ \A q \in Requests : request'[q] \notin Order
      BY <1>a, <2>2, <2>7, RequestEnds DEF Finish
    <3>2. InTurn' /\ Found' /\ Ahead' /\ Behind'
      BY <2>2, <2>3, <3>1 DEF InTurn, Found, Ahead, Behind, Waits, Settles
    <3>3. HintHolds'
      BY <2>2, <2>3, <3>1 DEF HintInv, HintHolds, Unsettled, Place, Waits, Settles
    <3> QED BY <1>0, <3>2, <3>3 DEF HintInv
  <2>8. CASE WriteRejects(r)
    <3>1. /\ request[r].pc = "write" /\ UNCHANGED <<row, hint>>
          /\ misled' = (misled \/ request[r].kind = "assign")
          /\ \A q \in Requests : request'[q] \notin Order
      BY <1>a, <2>2, <2>8, RequestEnds DEF WriteRejects
    <3>2. InTurn' /\ Found' /\ Ahead' /\ Behind'
      BY <2>2, <2>3, <3>1 DEF InTurn, Found, Ahead, Behind, Waits, Settles
    <3>3. HintHolds'
      BY <2>2, <2>3, <3>1 DEF HintInv, HintHolds, Unsettled, Place, Waits, Settles
    <3> QED BY <1>0, <3>2, <3>3 DEF HintInv
  <2> QED BY <1>8, <2>4, <2>5, <2>6, <2>7, <2>8 DEF Handle
<1>9. CASE \/ Connect \/ Drop \/ Relapse \/ FactoryReset \/ RescueSelect \/ GraceOver \/ BlockOver \/ Refresh
           \/ PublishOnTenant \/ PublishOnPending \/ StateWriter \/ DiscoverRejects \/ RearmPendingGrant
           \/ UNCHANGED onboarding
           \/ \E t \in Tenants : Suspend(t) \/ Reopen(t)
  <2>1. UNCHANGED <<retained, request, register>>
    BY <1>9 DEF onboarding, Connect, Drop, Relapse, FactoryReset, RescueSelect, GraceOver, BlockOver, Refresh,
               PublishOnTenant, PublishOnPending, StateWriter, DiscoverRejects, Suspend, Reopen, RearmPendingGrant
  <2>2. UNCHANGED row \/ PublishOnTenant \/ StateWriter \/ RearmPendingGrant
    BY <1>9 DEF onboarding, Connect, Drop, Relapse, FactoryReset, RescueSelect, GraceOver, BlockOver, Refresh,
               PublishOnPending, DiscoverRejects, Suspend, Reopen
  <2> QED BY <1>1, <1>a, <2>1, <2>2, RowOfGrant
<1> QED BY <1>2, <1>3, <1>4, <1>5, <1>6, <1>7, <1>8, <1>9 DEF OnboardingNext, Rescue, Discovering

(* With handlers one at a time, and no answer to a rescue handled after a   *)
(* later COMMIT, the retained hint names the place of the row whenever none *)
(* is at work and the one that wrote it last was not cut short by a         *)
(* rejected query, for any number of organisations, requests and mishaps.   *)
THEOREM HintTrue ==
  ASSUME MaxOpen = 1, ~LateAnswers
  PROVE  Onboarding => []HintIsTrue
<1>1. OnboardingInit => HintInv
  <2> SUFFICES ASSUME OnboardingInit PROVE HintInv
    OBVIOUS
  <2>1. OnboardingSorts
    BY OnboardingSortsInit
  <2>2. \A r \in Requests : request[r] \notin Order
    BY <2>1, OrderPc DEF OnboardingInit, Unsent, OnboardingSorts
  <2>3. register.pc = "idle" /\ rescue.pc = "idle"
    BY DEF OnboardingInit, NoRescue
  <2>4. hint \in {NoHint, Place}
    BY Places DEF OnboardingInit, NoRow, Place
  <2>5. InTurn /\ Answered /\ Found /\ Ahead /\ Behind
    BY <2>2, <2>3 DEF InTurn, Answered, Found, Ahead, Behind, Waits, Settles
  <2>6. HintHolds
    BY <2>4 DEF HintHolds
  <2> QED BY <2>1, <2>5, <2>6 DEF HintInv
<1>2. HintInv => HintIsTrue
  <2> SUFFICES ASSUME HintInv, Quiet, ~misled PROVE hint \in {NoHint, Place}
    BY DEF HintIsTrue
  <2>1. \A r \in Requests : request[r] \notin Order
    BY OrderPc DEF HintInv, OnboardingSorts, Quiet, Open
  <2> QED BY <2>1 DEF HintInv, HintHolds, Unsettled, Waits, Settles, Quiet
<1> QED BY <1>1, <1>2, HintStep, PTL DEF Onboarding
=============================================================================
