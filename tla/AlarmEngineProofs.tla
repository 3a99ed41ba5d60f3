------------------------- MODULE AlarmEngineProofs --------------------------
(* Theorems about AlarmEngine, for every value of its constants.            *)
EXTENDS AlarmEngine, TLAPS

(* What a task and a batch may be: the types the steps below preserve.      *)
LEMMA IdleInTask == Idle \in Task /\ NoBatch \in Batch
  BY DEF Task, Batch

LEMMA IssueType ==
  ASSUME NEW op \in {"raise", "clear", "reconcile"}, NEW c \in Codes, NEW sl \in Names,
         NEW t \in Names, task \in [Slots -> Task], Issue(op, c, sl, t)
  PROVE  task' \in [Slots -> Task]
  BY DEF Issue, Task

LEMMA AnswerType ==
  ASSUME NEW s \in Slots, NEW r \in {"waiting", "hit", "miss", "error"},
         task \in [Slots -> Task], task[s] # Idle, Answer(s, r)
  PROVE  task' \in [Slots -> Task]
<1>1. task[s] \in [op : {"raise", "clear", "reconcile"}, code : Codes, slug : Names, tenant : Names,
                   result : {"waiting", "hit", "miss", "error"}]
  BY DEF Task
<1>2. [task[s] EXCEPT !.result = r] \in Task
  BY <1>1 DEF Task
<1>3. task' = [task EXCEPT ![s] = [task[s] EXCEPT !.result = r]]
  BY DEF Answer
<1> QED BY <1>2, <1>3

LEMMA EmitType ==
  ASSUME NEW t \in Names, NEW c \in Codes, NEW what \in {"active", "cleared"},
         emitted \in [Names -> [Codes -> {"nothing", "active", "cleared"}]],
         Emit(t, c, what)
  PROVE  emitted' \in [Names -> [Codes -> {"nothing", "active", "cleared"}]]
  BY DEF Emit

(* What the tail of a handler may send and enter.                           *)
LEMMA TailType ==
  ASSUME NEW sl \in Names, registry \in Names \cup Unloaded, told \in Names,
         AfterReport(sl)
  PROVE  registry' \in Names \cup Unloaded /\ told' \in Names
  BY DEF AfterReport, Names

(* Every variable keeps its type, whatever the constants and the faults.    *)
THEOREM TypeCorrect == Spec => []TypeOK
<1>1. Init => TypeOK
  <2> SUFFICES ASSUME Init PROVE TypeOK
    OBVIOUS
  <2>1. MaxRows \in Nat /\ 0 \in 0 .. MaxRows
    BY ConstantsAssumption
  <2>2. reassign \in Move
    BY DEF Init, Move, NoMove
  <2>3. task \in [Slots -> Task] /\ batch \in [Writers -> Batch]
    BY IdleInTask DEF Init
  <2>4. alarms \in [Names -> [Codes -> 0 .. MaxRows]]
    BY <2>1 DEF Init
  <2>5. emitted \in [Names -> [Codes -> {"nothing", "active", "cleared"}]]
    BY DEF Init
  <2>6. /\ tenantId \in Tenants /\ registry \in Names \cup Unloaded
        /\ stateTenant \in Names /\ stateSlug \in Names \cup {NoTenant}
        /\ topic \in Names /\ told \in Names
    BY DEF Init, Names
  <2>7. /\ restarts \in Nat /\ errors \in Nat /\ moves \in Nat
        /\ owners \subseteq Tenants /\ blind \subseteq Names
    BY DEF Init
  <2>8. stateKey \in [Codes -> Value] /\ lastState \in [Codes -> Value]
    BY DEF Init, Value
  <2>9. heard \in [Codes -> Heard]
    BY DEF Init, Heard
  <2>10. proc \in {"starting", "up", "flushing", "down"} /\ todo \subseteq Codes
    BY DEF Init
  <2>11. dirty \in BOOLEAN
    BY DEF Init
  <2>12. pendingAlarms \in [Codes -> Names \cup {NoTenant}]
    BY DEF Init
  <2> QED
    BY <2>2, <2>3, <2>4, <2>5, <2>6, <2>7, <2>8, <2>9, <2>10, <2>11, <2>12 DEF TypeOK
<1>2. TypeOK /\ [Next]_vars => TypeOK'
  <2> SUFFICES ASSUME TypeOK, [Next]_vars PROVE TypeOK'
    OBVIOUS
  <2> USE ConstantsAssumption
  <2>0. /\ \A t \in Names : Resolve(t) \in Names
        /\ \A t \in Tenants : t \in Names
        /\ System \in Names
    BY DEF Resolve, Names
  <2>1. ASSUME NEW c \in Codes, HandleStateKey(c) PROVE TypeOK'
    <3>0. /\ topic \in Names /\ Resolve(topic) \in Names
          /\ stateSlug' \in Names \cup {NoTenant} /\ stateTenant' \in Names
          /\ blind' \subseteq Names
          /\ registry' \in Names \cup Unloaded /\ told' \in Names
      BY <2>0, <2>1, TailType DEF HandleStateKey, TypeOK
    <3> USE <3>0
    <3>1. CASE ReportRise(c)
      <4>1. stateKey' \in [Codes -> Value] /\ heard' \in [Codes -> Heard] /\ dirty' \in BOOLEAN
        BY <3>1 DEF ReportRise, StoreKey, Hear, TypeOK, Value, Heard
      <4>2. CASE Delayed(Resolve(topic), c)
        BY <2>1, <3>1, <4>1, <4>2 DEF HandleStateKey, ReportRise, DetectOn, TypeOK
      <4>3. CASE ~Delayed(Resolve(topic), c)
        <5>1. Issue("raise", c, Resolve(topic), Resolve(topic)) /\ UNCHANGED pendingAlarms
          BY <3>1, <4>3 DEF ReportRise, DetectOn
        <5>2. task' \in [Slots -> Task]
          BY <5>1, IssueType DEF TypeOK
        <5> QED
          BY <2>1, <4>1, <5>1, <5>2 DEF HandleStateKey, TypeOK
      <4> QED BY <4>2, <4>3
    <3>2. CASE ReportTransient(c)
      BY <2>1, <3>2 DEF HandleStateKey, ReportTransient, StoreKey, Hear, TypeOK, Value, Heard
    <3>3. CASE ReportFall(c)
      <4>1. Issue("clear", c, topic, Resolve(topic)) /\ UNCHANGED <<pendingAlarms,
                                                                    stateKey,
                                                                    dirty>>
        BY <3>3 DEF ReportFall
      <4>2. task' \in [Slots -> Task]
        BY <4>1, IssueType DEF TypeOK
      <4>3. heard' \in [Codes -> Heard]
        BY <3>3 DEF ReportFall, Hear, TypeOK, Heard
      <4> QED
        BY <2>1, <4>1, <4>2, <4>3 DEF HandleStateKey, TypeOK
    <3>4. CASE ReportFirstOff(c)
      <4>1. Issue("reconcile", c, topic, Resolve(topic)) /\ UNCHANGED <<pendingAlarms,
                                                                        stateKey,
                                                                        dirty>>
        BY <3>4 DEF ReportFirstOff
      <4>2. task' \in [Slots -> Task]
        BY <4>1, IssueType DEF TypeOK
      <4>3. heard' \in [Codes -> Heard]
        BY <3>4 DEF ReportFirstOff, Hear, TypeOK, Heard
      <4> QED
        BY <2>1, <4>1, <4>2, <4>3 DEF HandleStateKey, TypeOK
    <3>5. ASSUME NEW v \in {"off", "on"}, ReportSame(c, v) PROVE TypeOK'
      BY <2>1, <3>5 DEF HandleStateKey, ReportSame, StoreKey, Hear, TypeOK, Value, Heard
    <3> QED
      BY <2>1, <3>1, <3>2, <3>3, <3>4, <3>5 DEF HandleStateKey
  <2>2. ASSUME NEW c \in Codes, NuisanceElapsed(c) PROVE TypeOK'
    <3>1. Issue("raise", c, pendingAlarms[c], pendingAlarms[c]) /\ pendingAlarms[c] \in Names
      BY <2>2 DEF NuisanceElapsed, TypeOK
    <3>2. task' \in [Slots -> Task]
      BY <3>1, IssueType DEF TypeOK
    <3> QED
      BY <2>2, <3>2 DEF NuisanceElapsed, TypeOK
  <2>3. ASSUME NEW c \in Codes, Rearm(c) PROVE TypeOK'
    <3> DEFINE t == Resolve(stateSlug)
    <3>0. t \in Names
      BY <2>0, <2>3 DEF Rearm, TypeOK
    <3> HIDE DEF t
    <3>1. CASE Delayed(t, c)
      BY <2>3, <3>0, <3>1 DEF Rearm, DetectOn, TypeOK, t
    <3>2. CASE ~Delayed(t, c)
      <4>1. Issue("raise", c, t, t) /\ UNCHANGED pendingAlarms
        BY <2>3, <3>2 DEF Rearm, DetectOn, t
      <4>2. task' \in [Slots -> Task]
        BY <3>0, <4>1, IssueType DEF TypeOK
      <4> QED
        BY <2>3, <4>1, <4>2 DEF Rearm, TypeOK
    <3> QED BY <3>1, <3>2
  <2>4. ASSUME NEW s \in Slots, Execute(s) PROVE TypeOK'
    <3>1. /\ task[s] # Idle
          /\ task[s].tenant \in Names /\ task[s].slug \in Names /\ task[s].code \in Codes
      BY <2>4 DEF Execute, TypeOK, Task
    <3>2. CASE ExecuteInsert(s)
      <4>1. task' \in [Slots -> Task]
        BY <3>1, <3>2, AnswerType DEF ExecuteInsert, TypeOK
      <4>2. alarms' \in [Names -> [Codes -> 0 .. MaxRows]]
        BY <3>1, <3>2 DEF ExecuteInsert, TypeOK
      <4> QED
        BY <2>4, <4>1, <4>2 DEF Execute, TypeOK
    <3>3. CASE ExecuteClose(s)
      <4>1. task' \in [Slots -> Task]
        BY <3>1, <3>3, AnswerType DEF ExecuteClose, TypeOK
      <4>2. alarms' \in [Names -> [Codes -> 0 .. MaxRows]]
        BY <3>1, <3>3 DEF ExecuteClose, TypeOK
      <4> QED
        BY <2>4, <4>1, <4>2 DEF Execute, TypeOK
    <3> QED BY <2>4, <3>2, <3>3 DEF Execute
  <2>5. ASSUME NEW s \in Slots, Reject(s) PROVE TypeOK'
    BY <2>5, AnswerType DEF Reject, TypeOK
  <2>6. ASSUME NEW s \in Slots, Resume(s) PROVE TypeOK'
    <3>1. /\ task[s] # Idle
          /\ task[s].tenant \in Names /\ task[s].slug \in Names /\ task[s].code \in Codes
      BY <2>6 DEF Resume, TypeOK, Task
    <3>2. task' \in [Slots -> Task]
      BY <2>6, IdleInTask DEF Resume, TypeOK
    <3>3. emitted' \in [Names -> [Codes -> {"nothing", "active", "cleared"}]]
      BY <2>6, <3>1, EmitType DEF Resume, ResumeRaise, ResumeClose, TypeOK
    <3>4. stateKey' \in [Codes -> Value] /\ dirty' \in BOOLEAN
      BY <2>6, <3>1 DEF Resume, ResumeRaise, ResumeClose, StoreKey, TypeOK, Value
    <3>5. UNCHANGED <<proc, todo, stateTenant, stateSlug, pendingAlarms, batch,
                      alarms, lastState, tenantId, topic, reassign, heard, owners,
                      blind, restarts, errors, moves>>
      BY <2>6 DEF Resume
    <3>6. registry' \in Names \cup Unloaded /\ told' \in Names
      BY <2>6, <3>1, TailType DEF Resume, ResumeRaise, ResumeClose, TypeOK
    <3> QED
      BY <3>2, <3>3, <3>4, <3>5, <3>6 DEF TypeOK
  <2>7. CASE StartWrite
    BY <2>7, IdleInTask DEF StartWrite, Snapshot, Batch, TypeOK
  <2>8. ASSUME NEW w \in Writers, FinishWrite(w) PROVE TypeOK'
    BY <2>8, IdleInTask DEF FinishWrite, Batch, TypeOK
  <2>9. ASSUME NEW w \in Writers, FailWrite(w) PROVE TypeOK'
    BY <2>9, IdleInTask DEF FailWrite, TypeOK
  <2>10. CASE BeginShutdown
    <3>1. Snapshot \in Batch
      BY DEF Snapshot, Batch, TypeOK
    <3>2. batch' \in [Writers -> Batch]
      BY <2>10, <3>1 DEF BeginShutdown, TypeOK
    <3> QED
      BY <2>10, <3>2 DEF BeginShutdown, TypeOK
  <2>11. CASE FinishShutdown
    BY <2>11, IdleInTask DEF FinishShutdown, Forget, Move, NoMove, TypeOK
  <2>12. CASE Crash
    BY <2>12, IdleInTask DEF Crash, Forget, Move, NoMove, TypeOK
  <2>13. CASE Start
    <3>1. errors' \in Nat /\ todo' \subseteq Codes
      BY <2>13 DEF Start, StartWith, TypeOK
    <3>2. /\ stateKey' \in [Codes -> Value]
          /\ stateSlug' \in Names \cup {NoTenant} /\ stateTenant' \in Names
          /\ registry' \in Names \cup Unloaded
      BY <2>0, <2>13 DEF Start, StartWith, TypeOK, Value
    <3> QED
      BY <2>13, <3>1, <3>2 DEF Start, StartWith, TypeOK
  <2>14. CASE Connect
    BY <2>14 DEF Connect, TypeOK
  <2>15. ASSUME NEW t \in Tenants, ReassignSend(t) PROVE TypeOK'
    BY <2>0, <2>15 DEF ReassignSend, Move, TypeOK
  <2>16. CASE ReassignCommit
    <3>1. reassign \in [to : Tenants, step : {"sent", "committed"}]
      BY <2>16 DEF ReassignCommit, TypeOK, Move, NoMove
    <3>2. reassign' \in Move /\ tenantId' \in Tenants /\ owners' \subseteq Tenants
      BY <2>16, <3>1 DEF ReassignCommit, TypeOK, Move
    <3>3. alarms' \in [Names -> [Codes -> 0 .. MaxRows]]
      BY <2>16 DEF ReassignCommit, TypeOK, Names
    <3> QED
      BY <2>16, <3>2, <3>3 DEF ReassignCommit, TypeOK
  <2>17. CASE ReassignSettle
    <3>1. reassign.to \in Tenants
      BY <2>17 DEF ReassignSettle, TypeOK, Move, NoMove
    <3>2. reassign' \in Move
      BY <2>17 DEF ReassignSettle, Move
    <3> QED
      BY <2>0, <2>17, <3>1, <3>2 DEF ReassignSettle, TypeOK
  <2>18. CASE RefreshRegistries
    BY <2>0, <2>18 DEF RefreshRegistries, TypeOK
  <2>19. CASE DeviceMoves
    BY <2>19 DEF DeviceMoves, TypeOK
  <2>20. CASE UNCHANGED vars
    BY <2>20 DEF TypeOK, vars
  <2> QED
    BY <2>1, <2>2, <2>3, <2>4, <2>5, <2>6, <2>7, <2>8, <2>9, <2>10, <2>11, <2>12,
       <2>13, <2>14, <2>15, <2>16, <2>17, <2>18, <2>19, <2>20 DEF Next
<1> QED
  BY <1>1, <1>2, PTL DEF Spec

----------------------------------------------------------------------------
(* The calm case: Faults \subseteq {"restart"}.                             *)

(* With no query in flight nothing holds a code.                            *)
LEMMA QuietMeansFree ==
  ASSUME Quiet, NEW k \in Codes
  PROVE  ~Busy(k) /\ ~Holding(k) /\ ~Inserting(k) /\ ~Closing(k) /\ ~Closed(k)
  BY DEF Quiet, Busy, Holding, Inserting, Closing, Closed

(* A query issued when there was none is the only one.                      *)
LEMMA IssueAlone ==
  ASSUME Quiet, task \in [Slots -> Task],
         NEW op \in {"raise", "clear", "reconcile"}, NEW c \in Codes, NEW sl \in Names,
         NEW t \in Names, Issue(op, c, sl, t)
  PROVE  /\ \A r, s \in Slots : task'[r] # Idle /\ task'[s] # Idle => r = s
         /\ \A s \in Slots : task'[s] # Idle => task'[s].tenant = t /\ task'[s].slug = sl
         /\ \A k \in Codes :
              /\ Busy(k)' => k = c
              /\ Holding(k)' => k = c /\ op \in {"raise", "clear"}
              /\ Inserting(k)' => k = c /\ op = "raise"
              /\ Closing(k)' => k = c /\ op \in {"clear", "reconcile"}
              /\ ~Closed(k)'
         /\ op = "raise" => Inserting(c)'
         /\ op # "raise" => Closing(c)'
<1> DEFINE new == [op |-> op, code |-> c, slug |-> sl, tenant |-> t, result |-> "waiting"]
<1>1. PICK x \in Slots : task' = [task EXCEPT ![x] = new]
  BY DEF Issue
<1>2. task'[x] = new /\ \A s \in Slots : s # x => task'[s] = Idle
  BY <1>1 DEF Quiet
<1>3. /\ new # Idle /\ new.op = op /\ new.code = c /\ new.tenant = t /\ new.slug = sl
     /\ new.result = "waiting"
  BY DEF Idle
<1> HIDE DEF new
<1> QED
  BY <1>2, <1>3 DEF Busy, Holding, Inserting, Closing, Closed

(* An answer changes only the result of the one query in flight.            *)
LEMMA AnswerAlone ==
  ASSUME task \in [Slots -> Task], CalmShape, NEW x \in Slots, task[x] # Idle,
         NEW r \in {"hit", "miss"}, Answer(x, r)
  PROVE  /\ \A p, s \in Slots : task'[p] # Idle /\ task'[s] # Idle => p = s
         /\ \A s \in Slots : task'[s] # Idle =>
              task'[s].tenant = tenantId /\ task'[s].slug = tenantId
         /\ \A k \in Codes :
              /\ Busy(k)' <=> k = task[x].code
              /\ Holding(k)' <=> k = task[x].code /\ task[x].op \in {"raise", "clear"}
              /\ ~Inserting(k)'
              /\ Closing(k)' <=> k = task[x].code /\ task[x].op \in {"clear", "reconcile"}
              /\ Closed(k)' => k = task[x].code /\ task[x].op \in {"clear", "reconcile"}
<1>1. \A s \in Slots : s # x => task[s] = Idle
  BY DEF CalmShape
<1>2. /\ task'[x] # Idle /\ task'[x].op = task[x].op /\ task'[x].code = task[x].code
      /\ task'[x].tenant = task[x].tenant /\ task'[x].slug = task[x].slug
      /\ task'[x].result = r
      /\ \A s \in Slots : s # x => task'[s] = Idle
  BY <1>1 DEF Answer, Task, Idle
<1>3. task[x].tenant = tenantId /\ task[x].slug = tenantId
  BY DEF CalmShape
<1> QED
  BY <1>2, <1>3 DEF Busy, Holding, Inserting, Closing, Closed

(* The predicates of the one query in flight.                               *)
LEMMA Alone ==
  ASSUME CalmShape, NEW x \in Slots, task[x] # Idle, NEW k \in Codes
  PROVE  /\ Busy(k) <=> k = task[x].code
         /\ Holding(k) <=> k = task[x].code /\ task[x].op \in {"raise", "clear"}
         /\ Inserting(k) <=> k = task[x].code /\ task[x].op = "raise" /\ task[x].result = "waiting"
         /\ Closing(k) <=> k = task[x].code /\ task[x].op \in {"clear", "reconcile"}
         /\ Closed(k) <=> /\ k = task[x].code /\ task[x].op \in {"clear", "reconcile"}
                          /\ task[x].result # "waiting"
  BY DEF CalmShape, Busy, Holding, Inserting, Closing, Closed

LEMMA RowsAreNat ==
  ASSUME TypeOK, NEW t \in Names, NEW c \in Codes
  PROVE  alarms[t][c] \in Nat
  BY ConstantsAssumption DEF TypeOK

(* In the calm case the registry is loaded and nothing is published under   *)
(* "pending": the tail of a handler does nothing.                           *)
LEMMA CalmRegistry ==
  ASSUME TypeOK, CalmShape
  PROVE  /\ tenantId \in Tenants /\ tenantId \in Names
         /\ registry = tenantId /\ registry \notin Unloaded
         /\ topic = tenantId /\ Resolve(topic) = tenantId
         /\ Resolve(stateSlug) = tenantId
         /\ AfterReport(tenantId) => UNCHANGED <<told, registry>>
<1>1. /\ tenantId \in Tenants /\ registry = tenantId /\ topic = tenantId
      /\ stateSlug = tenantId
  BY DEF CalmShape, TypeOK
<1>2. tenantId \notin Unloaded /\ tenantId # System /\ tenantId # "blank"
  BY <1>1, ConstantsAssumption DEF Unloaded
<1> QED
  BY <1>1, <1>2 DEF Resolve, AfterReport, Names

LEMMA CalmInit == Init => CalmInv
<1> SUFFICES ASSUME Init PROVE CalmInv
  OBVIOUS
<1>1. Quiet /\ ~Writing
  BY DEF Init, Quiet, Writing
<1>2. CalmShape
  BY <1>1 DEF Init, CalmShape, Quiet
<1>3. CalmPhase
  <2>1. proc = "up" /\ todo = {} /\ \A w \in Writers : batch[w] = NoBatch
    BY DEF Init
  <2> QED
    BY <1>1, <2>1 DEF CalmPhase, Writers
<1>4. CalmPersisted
  BY <1>1 DEF Init, CalmPersisted, Writing
<1>5. ASSUME NEW c \in Codes PROVE CalmKey(c)
  BY <1>1, <1>5, QuietMeansFree DEF Init, CalmKey, Names
<1> QED
  BY <1>2, <1>3, <1>4, <1>5 DEF CalmInv

(* The predicates of the queries read the task variable only, and Writing   *)
(* the batches.                                                             *)
LEMMA SameTasks ==
  ASSUME UNCHANGED task
  PROVE  /\ \A k \in Codes : /\ Busy(k)' <=> Busy(k)
                             /\ Holding(k)' <=> Holding(k)
                             /\ Inserting(k)' <=> Inserting(k)
                             /\ Closing(k)' <=> Closing(k)
                             /\ Closed(k)' <=> Closed(k)
         /\ Quiet' <=> Quiet
  BY DEF Busy, Holding, Inserting, Closing, Closed, Quiet

LEMMA SameBatches == UNCHANGED batch => (Writing' <=> Writing)
  BY DEF Writing

(* A step of handleStateKey keeps the calm invariant.                       *)
LEMMA CalmHandle ==
  ASSUME Calm, TypeOK, CalmInv, NEW c \in Codes, HandleStateKey(c)
  PROVE  CalmInv'
<1>1. /\ proc = "up" /\ Quiet /\ ~Writing /\ topic = tenantId /\ todo = {}
  BY DEF HandleStateKey, MayHandle, Calm, CalmInv, CalmShape, CalmPhase
<1>0. topic \in Names /\ Resolve(topic) = topic
  BY <1>1, CalmRegistry DEF CalmInv
<1>2. /\ UNCHANGED <<proc, todo, batch, alarms, lastState, tenantId, registry,
                     topic, told, reassign>>
      /\ stateTenant' = topic /\ stateSlug' = topic
  BY <1>0, <1>1, CalmRegistry DEF HandleStateKey, CalmInv, CalmShape
<1>3. \A k \in Codes : ~Busy(k) /\ ~Holding(k) /\ ~Inserting(k) /\ ~Closing(k) /\ ~Closed(k)
  BY <1>1, QuietMeansFree
<1>4. ~Writing'
  BY <1>1, <1>2, SameBatches
<1>5. CalmPhase'
  BY <1>1, <1>2, <1>4 DEF CalmPhase, CalmInv
<1>6. ASSUME \/ dirty' = TRUE
             \/ UNCHANGED <<stateKey, dirty>>
      PROVE  CalmPersisted'
  BY <1>1, <1>2, <1>4, <1>6 DEF CalmPersisted, CalmInv, Writing
<1>7. ASSUME UNCHANGED task
      PROVE  CalmShape' /\ \A k \in Codes : ~Busy(k)' /\ ~Holding(k)' /\ ~Inserting(k)'
                                          /\ ~Closing(k)' /\ ~Closed(k)'
  BY <1>1, <1>2, <1>3, <1>7, SameTasks DEF CalmShape, CalmInv
<1>8. ASSUME NEW op \in {"raise", "clear", "reconcile"}, Issue(op, c, topic, topic)
      PROVE  CalmShape'
  BY <1>0, <1>1, <1>2, <1>8, IssueAlone DEF CalmShape, CalmInv, TypeOK
<1>9. CASE ReportRise(c)
  <2>1. CalmPersisted'
    BY <1>6, <1>9 DEF ReportRise, StoreKey
  <2>2. CASE Delayed(topic, c)
    <3>1. /\ UNCHANGED task /\ c \in Nuisance
          /\ pendingAlarms' = IF pendingAlarms[c] = NoTenant
                              THEN [pendingAlarms EXCEPT ![c] = topic]
                              ELSE pendingAlarms
      BY <1>0, <1>9, <2>2 DEF ReportRise, DetectOn, Delayed
    <3>2. ASSUME NEW k \in Codes PROVE CalmKey(k)'
      <4>1. /\ pendingAlarms[c] = NoTenant /\ alarms[tenantId][c] = 0 /\ heard[c] \in Heard
        <5>1. CalmKey(c) /\ stateKey[c] = "off" /\ alarms[tenantId][c] \in Nat
          BY <1>9, RowsAreNat DEF ReportRise, CalmInv, TypeOK, Names
        <5>2. heard[c] \in Heard
          BY DEF TypeOK
        <5> QED BY <5>1, <5>2 DEF CalmKey
      <4>2. CASE k # c
        BY <1>1, <1>2, <1>3, <1>7, <1>9, <3>1, <4>2
           DEF ReportRise, StoreKey, Hear, CalmInv, CalmKey, TypeOK
      <4>3. CASE k = c
        <5>1. /\ stateKey'[c] = "on" /\ heard'[c] \in {"on", "rose"}
              /\ pendingAlarms'[c] = tenantId /\ alarms'[tenantId'][c] = 0
              /\ tenantId' = tenantId /\ proc' = "up" /\ todo' = {} /\ c \in Nuisance
          BY <1>1, <1>2, <1>9, <3>1, <4>1 DEF ReportRise, StoreKey, Hear, TypeOK
        <5>2. ~Busy(c)' /\ ~Holding(c)' /\ ~Inserting(c)' /\ ~Closing(c)' /\ ~Closed(c)'
          BY <1>7, <3>1
        <5> QED
          <6>1. pendingAlarms'[c] # NoTenant
            BY <5>1, ConstantsAssumption DEF TypeOK
          <6> QED BY <4>3, <5>1, <5>2, <6>1 DEF CalmKey
      <4> QED BY <4>2, <4>3
    <3> QED BY <1>5, <1>7, <2>1, <3>1, <3>2 DEF CalmInv
  <2>3. CASE ~Delayed(topic, c)
    <3>1. Issue("raise", c, topic, topic) /\ UNCHANGED pendingAlarms
      BY <1>0, <1>9, <2>3 DEF ReportRise, DetectOn
    <3>2. /\ Inserting(c)'
          /\ \A k \in Codes : /\ k # c => ~Busy(k)' /\ ~Holding(k)' /\ ~Inserting(k)'
                              /\ ~Closing(k)' /\ ~Closed(k)'
      BY <1>0, <1>1, <3>1, IssueAlone DEF TypeOK
    <3>3. ASSUME NEW k \in Codes PROVE CalmKey(k)'
      <4>1. /\ pendingAlarms[c] = NoTenant /\ alarms[tenantId][c] = 0 /\ heard[c] \in Heard
        <5>1. CalmKey(c) /\ stateKey[c] = "off" /\ alarms[tenantId][c] \in Nat
          BY <1>9, RowsAreNat DEF ReportRise, CalmInv, TypeOK, Names
        <5>2. heard[c] \in Heard
          BY DEF TypeOK
        <5> QED BY <5>1, <5>2 DEF CalmKey
      <4>2. CASE k # c
        BY <1>1, <1>2, <1>3, <1>9, <3>1, <3>2, <4>2
           DEF ReportRise, StoreKey, Hear, CalmInv, CalmKey, TypeOK
      <4>3. CASE k = c
        BY <1>1, <1>2, <1>3, <1>9, <3>1, <3>2, <4>1, <4>3
           DEF ReportRise, StoreKey, Hear, CalmInv, CalmKey, TypeOK
      <4> QED BY <4>2, <4>3
    <3> QED BY <1>5, <1>8, <2>1, <3>1, <3>3 DEF CalmInv
  <2> QED BY <2>2, <2>3
<1>10. CASE ReportTransient(c)
  <2>1. CalmPersisted'
    BY <1>6, <1>10 DEF ReportTransient, StoreKey
  <2>2. ASSUME NEW k \in Codes PROVE CalmKey(k)'
    BY <1>1, <1>2, <1>3, <1>7, <1>10, <2>2
       DEF ReportTransient, StoreKey, Hear, CalmInv, CalmKey, TypeOK
  <2> QED BY <1>5, <1>7, <1>10, <2>1, <2>2 DEF CalmInv, ReportTransient
<1>11. CASE ReportFall(c)
  <2>1. Issue("clear", c, topic, topic) /\ UNCHANGED <<pendingAlarms, stateKey,
                                                       dirty>>
    BY <1>0, <1>11 DEF ReportFall
  <2>2. /\ Closing(c)'
        /\ \A k \in Codes : /\ k # c => ~Busy(k)' /\ ~Holding(k)' /\ ~Closing(k)'
                            /\ ~Inserting(k)' /\ ~Closed(k)'
    BY <1>0, <1>1, <2>1, IssueAlone DEF TypeOK
  <2>3. ASSUME NEW k \in Codes PROVE CalmKey(k)'
    BY <1>1, <1>2, <1>3, <1>11, <2>1, <2>2, <2>3
       DEF ReportFall, Hear, CalmInv, CalmKey, TypeOK
  <2>4. CalmShape'
    BY <1>8, <2>1
  <2> QED BY <1>5, <1>6, <2>1, <2>3, <2>4 DEF CalmInv
<1>12. CASE ReportFirstOff(c)
  <2>1. Issue("reconcile", c, topic, topic) /\ UNCHANGED <<pendingAlarms, stateKey,
                                                           dirty>>
    BY <1>0, <1>12 DEF ReportFirstOff
  <2>2. /\ Closing(c)' /\ ~Holding(c)'
        /\ \A k \in Codes : /\ k # c => ~Busy(k)' /\ ~Holding(k)' /\ ~Closing(k)'
                            /\ ~Inserting(k)' /\ ~Closed(k)'
    BY <1>0, <1>1, <2>1, IssueAlone DEF TypeOK
  <2>3. ASSUME NEW k \in Codes PROVE CalmKey(k)'
    BY <1>1, <1>2, <1>3, <1>12, <2>1, <2>2, <2>3
       DEF ReportFirstOff, Hear, CalmInv, CalmKey, TypeOK
  <2>4. CalmShape'
    BY <1>8, <2>1
  <2> QED BY <1>5, <1>6, <2>1, <2>3, <2>4 DEF CalmInv
<1>13. ASSUME NEW v \in {"off", "on"}, ReportSame(c, v) PROVE CalmInv'
  <2>1. CalmPersisted'
    BY <1>6, <1>13 DEF ReportSame, StoreKey
  <2>2. ASSUME NEW k \in Codes PROVE CalmKey(k)'
    BY <1>1, <1>2, <1>3, <1>7, <1>13, <2>2
       DEF ReportSame, StoreKey, Hear, CalmInv, CalmKey, TypeOK
  <2> QED BY <1>5, <1>7, <1>13, <2>1, <2>2 DEF CalmInv, ReportSame
<1> QED
  BY <1>9, <1>10, <1>11, <1>12, <1>13 DEF HandleStateKey

(* A nuisance timer that elapses keeps the calm invariant.                  *)
LEMMA CalmElapsed ==
  ASSUME Calm, TypeOK, CalmInv, NEW c \in Codes, NuisanceElapsed(c)
  PROVE  CalmInv'
<1>1. /\ Quiet /\ pendingAlarms[c] = tenantId /\ c \notin todo
      /\ Issue("raise", c, tenantId, tenantId) /\ tenantId \in Names
      /\ pendingAlarms' = [pendingAlarms EXCEPT ![c] = NoTenant]
      /\ c \in Nuisance /\ stateKey[c] = "on" /\ alarms[tenantId][c] = 0 /\ proc # "down"
  BY CalmRegistry DEF NuisanceElapsed, Calm, CalmInv, CalmKey
<1>2. UNCHANGED <<proc, todo, stateKey, stateTenant, stateSlug, dirty, batch,
                  alarms, lastState, tenantId, registry, topic, told, reassign,
                  heard>>
  BY DEF NuisanceElapsed
<1>3. \A k \in Codes : ~Busy(k) /\ ~Holding(k) /\ ~Inserting(k) /\ ~Closing(k) /\ ~Closed(k)
  BY <1>1, QuietMeansFree
<1>4. /\ Inserting(c)'
      /\ \A k \in Codes : ~Closing(k)' /\ ~Closed(k)'
      /\ \A k \in Codes : k # c => ~Busy(k)' /\ ~Holding(k)' /\ ~Inserting(k)'
  BY <1>1, IssueAlone DEF TypeOK
<1>5. CalmShape'
  BY <1>1, <1>2, IssueAlone DEF CalmShape, CalmInv, TypeOK
<1>6. CalmPhase'
  BY <1>1, <1>2, <1>4, SameBatches DEF CalmPhase, CalmInv
<1>7. CalmPersisted'
  BY <1>1, <1>2 DEF CalmPersisted, CalmInv
<1>8. ASSUME NEW k \in Codes PROVE CalmKey(k)'
  <2>1. CASE k = c
    <3>1. pendingAlarms'[c] = NoTenant
      BY <1>1 DEF TypeOK
    <3> QED BY <1>1, <1>2, <1>3, <1>4, <2>1, <3>1 DEF CalmKey, CalmInv
  <2>2. CASE k # c
    BY <1>1, <1>2, <1>3, <1>4, <1>8, <2>2 DEF CalmKey, CalmInv, TypeOK
  <2> QED BY <2>1, <2>2
<1> QED
  BY <1>5, <1>6, <1>7, <1>8 DEF CalmInv

(* One code of rearmPendingAlarms keeps the calm invariant.                 *)
LEMMA CalmRearm ==
  ASSUME Calm, TypeOK, CalmInv, NEW c \in Codes, Rearm(c)
  PROVE  CalmInv'
<1>1. /\ Quiet /\ proc = "starting" /\ c \in todo /\ todo' = todo \ {c} /\ c \in Nuisance
      /\ tenantId \in Names /\ DetectOn(tenantId, c)
      /\ pendingAlarms[c] = NoTenant /\ stateKey[c] = "on" /\ alarms[tenantId][c] = 0
  BY CalmRegistry DEF Rearm, Calm, CalmInv, CalmShape, CalmPhase, CalmKey
<1>2. UNCHANGED <<proc, stateKey, stateTenant, stateSlug, dirty, batch, alarms,
                  lastState, tenantId, registry, topic, told, reassign, heard>>
  BY DEF Rearm
<1>3. \A k \in Codes : ~Busy(k) /\ ~Holding(k) /\ ~Inserting(k) /\ ~Closing(k) /\ ~Closed(k)
  BY <1>1, QuietMeansFree
<1>4. CalmPersisted'
  BY <1>1, <1>2 DEF CalmPersisted, CalmInv
<1>5. CASE Delayed(tenantId, c)
  <2>1. UNCHANGED task /\ pendingAlarms' = [pendingAlarms EXCEPT ![c] = tenantId]
    BY <1>1, <1>5 DEF DetectOn
  <2>2. \A k \in Codes : ~Busy(k)' /\ ~Holding(k)' /\ ~Inserting(k)' /\ ~Closing(k)' /\ ~Closed(k)'
    BY <1>3, <2>1, SameTasks
  <2>3. CalmShape' /\ CalmPhase'
    BY <1>1, <1>2, <2>1, <2>2, SameBatches DEF CalmShape, CalmPhase, CalmInv
  <2>4. ASSUME NEW k \in Codes PROVE CalmKey(k)'
    <3>1. CASE k = c
      <4>1. pendingAlarms'[c] = tenantId /\ tenantId # NoTenant /\ c \notin todo'
        BY <1>1, <2>1, ConstantsAssumption DEF TypeOK
      <4> QED BY <1>1, <1>2, <1>3, <2>2, <3>1, <4>1 DEF CalmKey, CalmInv
    <3>2. CASE k # c
      BY <1>1, <1>2, <1>3, <2>1, <2>2, <2>4, <3>2 DEF CalmKey, CalmInv, TypeOK
    <3> QED BY <3>1, <3>2
  <2> QED BY <1>4, <2>3, <2>4 DEF CalmInv
<1>6. CASE ~Delayed(tenantId, c)
  <2>1. Issue("raise", c, tenantId, tenantId) /\ UNCHANGED pendingAlarms
    BY <1>1, <1>6 DEF DetectOn
  <2>2. /\ Inserting(c)'
        /\ \A k \in Codes : ~Closing(k)' /\ ~Closed(k)'
        /\ \A k \in Codes : k # c => ~Busy(k)' /\ ~Holding(k)' /\ ~Inserting(k)'
    BY <1>1, <2>1, IssueAlone DEF TypeOK
  <2>3. CalmShape'
    BY <1>1, <1>2, <2>1, IssueAlone DEF CalmShape, CalmInv, TypeOK
  <2>4. CalmPhase'
    BY <1>1, <1>2, <2>2, SameBatches DEF CalmPhase, CalmInv
  <2>5. ASSUME NEW k \in Codes PROVE CalmKey(k)'
    <3>1. CASE k = c
      BY <1>1, <1>2, <1>3, <2>1, <2>2, <3>1 DEF CalmKey, CalmInv
    <3>2. CASE k # c
      BY <1>1, <1>2, <1>3, <2>1, <2>2, <2>5, <3>2 DEF CalmKey, CalmInv
    <3> QED BY <3>1, <3>2
  <2> QED BY <1>4, <2>3, <2>4, <2>5 DEF CalmInv
<1> QED BY <1>5, <1>6

(* A query executed in the database keeps the calm invariant.               *)
LEMMA CalmExecute ==
  ASSUME Calm, TypeOK, CalmInv, NEW s \in Slots, Execute(s)
  PROVE  CalmInv'
<1> DEFINE c == task[s].code
<1>1. /\ task[s] # Idle /\ task[s].result = "waiting" /\ c \in Codes
      /\ task[s].tenant = tenantId
  BY DEF Execute, CalmInv, CalmShape, TypeOK, Task
<1>2. UNCHANGED <<proc, todo, stateKey, stateTenant, stateSlug, dirty,
                  pendingAlarms, batch, lastState, tenantId, registry, topic, told,
                  reassign, heard>>
  BY DEF Execute
<1>3. \A k \in Codes :
        /\ Busy(k) <=> k = c
        /\ Holding(k) <=> k = c /\ task[s].op \in {"raise", "clear"}
        /\ Inserting(k) <=> k = c /\ task[s].op = "raise"
        /\ Closing(k) <=> k = c /\ task[s].op \in {"clear", "reconcile"}
        /\ ~Closed(k)
  BY <1>1, Alone DEF CalmInv
<1>4. CASE ExecuteInsert(s)
  <2>1. /\ task[s].op = "raise" /\ Answer(s, "hit")
        /\ alarms' = [alarms EXCEPT ![tenantId][c] = IF @ < MaxRows THEN @ + 1 ELSE MaxRows]
    BY <1>1, <1>4 DEF ExecuteInsert
  <2>2. /\ \A k \in Codes : /\ Busy(k)' <=> k = c
                            /\ Holding(k)' <=> k = c
                            /\ ~Inserting(k)' /\ ~Closing(k)' /\ ~Closed(k)'
    BY <1>1, <2>1, AnswerAlone DEF CalmInv, TypeOK
  <2>3. alarms[tenantId][c] = 0 /\ stateKey[c] = "on" /\ pendingAlarms[c] = NoTenant /\ c \notin todo
    BY <1>1, <1>3, <2>1 DEF CalmInv, CalmKey
  <2>4. /\ alarms'[tenantId][c] = 1
        /\ \A t \in Names, k \in Codes : t # tenantId \/ k # c => alarms'[t][k] = alarms[t][k]
    BY <1>1, <2>1, <2>3, ConstantsAssumption DEF TypeOK, Names
  <2>5. CalmShape'
    BY <1>1, <1>2, <2>1, <2>4, AnswerAlone DEF CalmShape, CalmInv, TypeOK
  <2>6. CalmPhase'
    <3>1. (Writing' <=> Writing) /\ (Quiet' => Quiet)
      BY <1>2, <1>1, <2>2, SameBatches, QuietMeansFree DEF Quiet, Busy, Answer, TypeOK
    <3> QED BY <1>1, <1>2, <2>2, <3>1 DEF CalmPhase, CalmInv, Quiet
  <2>7. CalmPersisted'
    BY <1>2 DEF CalmPersisted, CalmInv
  <2>8. ASSUME NEW k \in Codes PROVE CalmKey(k)'
    <3>1. CASE k = c
      BY <1>1, <1>2, <1>3, <2>1, <2>2, <2>3, <2>4, <3>1 DEF CalmKey, CalmInv
    <3>2. CASE k # c
      BY <1>1, <1>2, <1>3, <2>2, <2>4, <2>8, <3>2 DEF CalmKey, CalmInv, TypeOK, Names
    <3> QED BY <3>1, <3>2
  <2> QED BY <2>5, <2>6, <2>7, <2>8 DEF CalmInv
<1>5. CASE ExecuteClose(s)
  <2>1. /\ task[s].op \in {"clear", "reconcile"}
        /\ alarms' = [alarms EXCEPT ![tenantId][c] = 0]
        /\ \E r \in {"hit", "miss"} : Answer(s, r)
    BY <1>1, <1>5 DEF ExecuteClose
  <2>2. PICK r \in {"hit", "miss"} : Answer(s, r)
    BY <2>1
  <2>3. \A k \in Codes : /\ Busy(k)' <=> k = c
                         /\ Holding(k)' <=> Holding(k)
                         /\ ~Inserting(k)'
                         /\ Closing(k)' <=> k = c
                         /\ Closed(k)' => k = c
    BY <1>1, <1>3, <2>1, <2>2, AnswerAlone DEF CalmInv, TypeOK
  <2>4. /\ alarms'[tenantId][c] = 0
        /\ \A t \in Names, k \in Codes : t # tenantId \/ k # c => alarms'[t][k] = alarms[t][k]
    BY <1>1, <2>1 DEF TypeOK, Names
  <2>5. CalmShape'
    BY <1>1, <1>2, <2>2, <2>4, AnswerAlone DEF CalmShape, CalmInv, TypeOK
  <2>6. CalmPhase'
    <3>1. Writing' <=> Writing
      BY <1>2, SameBatches
    <3>2. ~Quiet /\ ~(Writing \/ proc # "up")
      BY <1>1, <1>3, <2>1 DEF Quiet, CalmInv, CalmPhase
    <3> QED BY <1>2, <3>1, <3>2 DEF CalmPhase, CalmInv
  <2>7. CalmPersisted'
    BY <1>2 DEF CalmPersisted, CalmInv
  <2>8. ASSUME NEW k \in Codes PROVE CalmKey(k)'
    <3>1. CASE k = c
      BY <1>1, <1>2, <1>3, <2>1, <2>3, <2>4, <3>1 DEF CalmKey, CalmInv
    <3>2. CASE k # c
      BY <1>1, <1>2, <1>3, <2>3, <2>4, <2>8, <3>2 DEF CalmKey, CalmInv, TypeOK, Names
    <3> QED BY <3>1, <3>2
  <2> QED BY <2>5, <2>6, <2>7, <2>8 DEF CalmInv
<1> QED
  BY <1>4, <1>5 DEF Execute

(* A handler that resumes keeps the calm invariant.                         *)
LEMMA CalmResume ==
  ASSUME Calm, TypeOK, CalmInv, NEW s \in Slots, Resume(s)
  PROVE  CalmInv'
<1> DEFINE c == task[s].code
<1>1. /\ task[s] # Idle /\ task[s].result # "waiting" /\ c \in Codes
      /\ task' = [task EXCEPT ![s] = Idle]
  BY DEF Resume, TypeOK, Task
<1>2. UNCHANGED <<proc, todo, stateTenant, stateSlug, pendingAlarms, batch, alarms,
                  lastState, tenantId, registry, topic, told, reassign, heard>>
  <2>1. task[s].slug = tenantId
    BY <1>1 DEF CalmInv, CalmShape
  <2> QED
    BY <2>1, CalmRegistry DEF Resume, ResumeRaise, ResumeClose, CalmInv
<1>3. \A k \in Codes :
        /\ Busy(k) <=> k = c
        /\ Holding(k) <=> k = c /\ task[s].op \in {"raise", "clear"}
        /\ ~Inserting(k)
        /\ Closing(k) <=> k = c /\ task[s].op \in {"clear", "reconcile"}
        /\ Closed(k) <=> k = c /\ task[s].op \in {"clear", "reconcile"}
  BY <1>1, Alone DEF CalmInv
<1>4. Quiet'
  BY <1>1 DEF Quiet, CalmInv, CalmShape, TypeOK
<1>5. \A k \in Codes : ~Busy(k)' /\ ~Holding(k)' /\ ~Inserting(k)' /\ ~Closing(k)' /\ ~Closed(k)'
  BY <1>4 DEF Quiet, Busy, Holding, Inserting, Closing, Closed
<1>6. CalmShape'
  BY <1>2, <1>4 DEF CalmShape, CalmInv, Quiet
<1>7. CalmPhase'
  BY <1>2, <1>4, <1>5, SameBatches DEF CalmPhase, CalmInv
<1>8. CASE ResumeRaise(s)
  <2>1. task[s].op = "raise" /\ UNCHANGED <<stateKey, dirty>>
    BY <1>8 DEF ResumeRaise
  <2>2. CalmPersisted'
    BY <1>2, <2>1 DEF CalmPersisted, CalmInv
  <2>3. ASSUME NEW k \in Codes PROVE CalmKey(k)'
    BY <1>2, <1>3, <1>5, <2>1, <2>3 DEF CalmKey, CalmInv
  <2> QED BY <1>6, <1>7, <2>2, <2>3 DEF CalmInv
<1>9. CASE ResumeClose(s)
  <2>1. /\ task[s].op \in {"clear", "reconcile"}
        /\ stateKey' = [stateKey EXCEPT ![c] = "off"] /\ dirty' = TRUE
    BY <1>9 DEF ResumeClose, StoreKey
  <2>2. ~Writing /\ proc = "up"
    BY <1>1, <1>3, <2>1 DEF CalmPhase, CalmInv
  <2>3. CalmPersisted'
    BY <1>2, <2>1, <2>2 DEF CalmPersisted, CalmInv, Writing
  <2>4. /\ heard[c] = "off" /\ alarms[tenantId][c] = 0
        /\ pendingAlarms[c] = NoTenant /\ c \notin todo
    BY <1>1, <1>3, <2>1 DEF CalmKey, CalmInv
  <2>5. stateKey'[c] = "off" /\ \A k \in Codes : k # c => stateKey'[k] = stateKey[k]
    BY <1>1, <2>1 DEF TypeOK
  <2>6. ASSUME NEW k \in Codes PROVE CalmKey(k)'
    <3>1. CASE k = c
      BY <1>2, <1>5, <2>4, <2>5, <3>1 DEF CalmKey
    <3>2. CASE k # c
      BY <1>2, <1>3, <1>5, <2>5, <2>6, <3>2 DEF CalmKey, CalmInv
    <3> QED BY <3>1, <3>2
  <2> QED BY <1>6, <1>7, <2>3, <2>6 DEF CalmInv
<1> QED
  BY <1>8, <1>9 DEF Resume

(* A step that leaves the keys, their timers, rows and queries alone keeps  *)
(* the last part of the calm invariant, as long as the phase allows it.     *)
LEMMA CalmKeySame ==
  ASSUME CalmInv, NEW k \in Codes,
         UNCHANGED <<todo, stateKey, pendingAlarms, task, alarms, tenantId, heard>>,
         \/ proc' = proc
         \/ proc = "starting" /\ proc' = "up" /\ todo = {}
         \/ proc = "up" /\ proc' = "flushing" /\ Quiet
  PROVE  CalmKey(k)'
<1>1. /\ Busy(k)' <=> Busy(k)
      /\ Holding(k)' <=> Holding(k)
      /\ Inserting(k)' <=> Inserting(k)
      /\ Closing(k)' <=> Closing(k)
      /\ Closed(k)' <=> Closed(k)
  BY SameTasks
<1>2. Quiet => ~Inserting(k)
  BY QuietMeansFree
<1> QED
  BY <1>1, <1>2 DEF CalmKey, CalmInv

(* The state writer keeps the calm invariant.                               *)
LEMMA CalmStartWrite ==
  ASSUME Calm, TypeOK, CalmInv, StartWrite
  PROVE  CalmInv'
<1>1. /\ Quiet /\ proc = "up" /\ batch' = [batch EXCEPT !["timer"] = Snapshot]
      /\ UNCHANGED <<proc, todo, stateKey, stateTenant, stateSlug, dirty,
                     pendingAlarms, task, alarms, lastState, tenantId, registry,
                     topic, told, reassign, heard>>
  BY DEF StartWrite, Calm
<1>2. Snapshot.keys = stateKey /\ Snapshot.tenant = tenantId
  BY DEF Snapshot, CalmInv, CalmShape
<1>3. /\ batch'["timer"] = Snapshot
      /\ batch'["shutdown"] = batch["shutdown"]
  BY <1>1 DEF TypeOK, Writers
<1>4. \A k \in Codes : ~Closing(k)'
  BY <1>1, QuietMeansFree, SameTasks
<1>5. CalmShape'
  BY <1>1 DEF CalmShape, CalmInv
<1>6. CalmPhase'
  BY <1>1, <1>3, <1>4 DEF CalmPhase, CalmInv
<1>7. CalmPersisted'
  BY <1>1, <1>2, <1>3 DEF CalmPersisted, CalmInv, Writers
<1> QED
  BY <1>1, <1>5, <1>6, <1>7, CalmKeySame DEF CalmInv

LEMMA CalmFinishWrite ==
  ASSUME Calm, TypeOK, CalmInv, NEW w \in Writers, FinishWrite(w)
  PROVE  CalmInv'
<1>1. /\ batch[w] # NoBatch /\ batch' = [batch EXCEPT ![w] = NoBatch] /\ dirty' = FALSE
      /\ lastState' = stateKey
      /\ UNCHANGED <<proc, todo, stateKey, stateTenant, stateSlug, pendingAlarms,
                     task, alarms, tenantId, registry, topic, told, reassign,
                     heard>>
  BY DEF FinishWrite, CalmInv, CalmPersisted
<1>2. \A x \in Writers : batch'[x] = NoBatch \/ batch'[x] = batch[x]
  BY <1>1 DEF TypeOK
<1>3. Writing /\ (Writing' => Writing)
  BY <1>1, <1>2 DEF Writing
<1>4. \A k \in Codes : ~Closing(k)'
  BY <1>1, <1>3, SameTasks DEF CalmPhase, CalmInv
<1>5. CalmShape'
  BY <1>1 DEF CalmShape, CalmInv
<1>6. CalmPhase'
  BY <1>1, <1>2, <1>3, <1>4 DEF CalmPhase, CalmInv, Writers
<1>7. CalmPersisted'
  BY <1>1, <1>2 DEF CalmPersisted, CalmInv
<1> QED
  BY <1>1, <1>5, <1>6, <1>7, CalmKeySame DEF CalmInv

(* shutdown() and start() keep the calm invariant.                          *)
LEMMA CalmBeginShutdown ==
  ASSUME Calm, TypeOK, CalmInv, BeginShutdown
  PROVE  CalmInv'
<1>1. /\ Quiet /\ ~Writing /\ proc = "up" /\ proc' = "flushing" /\ todo = {}
      /\ batch' = IF dirty THEN [batch EXCEPT !["shutdown"] = Snapshot] ELSE batch
      /\ UNCHANGED <<todo, stateKey, stateTenant, stateSlug, dirty, pendingAlarms,
                     task, alarms, lastState, tenantId, registry, topic, told,
                     reassign, heard>>
  BY DEF BeginShutdown, Calm, CalmInv, CalmPhase
<1>2. Snapshot.keys = stateKey /\ Snapshot.tenant = tenantId /\ Snapshot # NoBatch
  BY DEF Snapshot, NoBatch, CalmInv, CalmShape
<1>3. /\ batch'["timer"] = NoBatch
      /\ batch'["shutdown"] = IF dirty THEN Snapshot ELSE NoBatch
  BY <1>1 DEF TypeOK, Writers, Writing
<1>4. \A k \in Codes : ~Closing(k)'
  BY <1>1, QuietMeansFree, SameTasks
<1>5. CalmShape'
  BY <1>1 DEF CalmShape, CalmInv
<1>6. CalmPhase'
  BY <1>1, <1>3, <1>4 DEF CalmPhase, CalmInv
<1>7. CalmPersisted'
  BY <1>1, <1>2, <1>3 DEF CalmPersisted, CalmInv, Writers
<1> QED
  BY <1>1, <1>5, <1>6, <1>7, CalmKeySame DEF CalmInv

LEMMA CalmFinishShutdown ==
  ASSUME Calm, TypeOK, CalmInv, FinishShutdown
  PROVE  CalmInv'
<1>1. /\ proc = "flushing" /\ proc' = "down" /\ todo' = {} /\ batch["shutdown"] = NoBatch
      /\ pendingAlarms' = [c \in Codes |-> NoTenant] /\ task' = [s \in Slots |-> Idle]
      /\ batch' = [w \in Writers |-> NoBatch] /\ reassign' = NoMove
      /\ UNCHANGED <<stateKey, stateTenant, stateSlug, dirty, alarms, lastState,
                     tenantId, registry, topic, told, heard>>
  BY DEF FinishShutdown, Forget
<1>2. Quiet' /\ ~Writing'
  BY <1>1 DEF Quiet, Writing
<1>3. \A k \in Codes : ~Busy(k)' /\ ~Holding(k)' /\ ~Inserting(k)' /\ ~Closing(k)' /\ ~Closed(k)'
  BY <1>2 DEF Quiet, Busy, Holding, Inserting, Closing, Closed
<1>4. CalmShape'
  BY <1>1, <1>2 DEF CalmShape, CalmInv, Quiet
<1>5. CalmPhase'
  BY <1>1, <1>2, <1>3 DEF CalmPhase
<1>6. CalmPersisted'
  BY <1>1 DEF CalmPersisted, CalmInv
<1>7. ASSUME NEW k \in Codes PROVE CalmKey(k)'
  <2>1. CalmKey(k) /\ ~Closing(k) /\ todo = {}
    BY <1>1 DEF CalmInv, CalmPhase
  <2>2. pendingAlarms'[k] = NoTenant
    BY <1>1
  <2> QED BY <1>1, <1>3, <2>1, <2>2 DEF CalmKey
<1> QED
  BY <1>4, <1>5, <1>6, <1>7 DEF CalmInv

LEMMA CalmStart ==
  ASSUME Calm, TypeOK, CalmInv, Start
  PROVE  CalmInv'
<1>1. /\ proc = "down" /\ proc' = "starting" /\ Quiet /\ ~Writing /\ todo = {}
      /\ registry' = tenantId /\ stateKey' = stateKey /\ lastState = stateKey
      /\ stateTenant' = tenantId /\ stateSlug' = tenantId
      /\ todo' = {c \in Nuisance : /\ stateKey[c] = "on"
                                   /\ \A t \in Names : alarms[t][c] = 0}
      /\ UNCHANGED <<pendingAlarms, task, batch, alarms, lastState, tenantId, topic,
                     told, reassign, heard>>
  <2>1. PICK r, k, a \in {0, 1} :
          /\ proc = "down" /\ Misses(r + k + a)
          /\ proc' = "starting"
          /\ IF r = 0 THEN registry' = tenantId ELSE registry' \in Unloaded
          /\ stateKey' = IF k = 0 THEN lastState ELSE [c \in Codes |-> "unknown"]
          /\ stateTenant' = tenantId
          /\ stateSlug' = IF k = 0 THEN tenantId ELSE NoTenant
          /\ todo' = IF a = 0
                     THEN {c \in {d \in Nuisance : \A t \in Names : alarms[t][d] = 0} :
                             stateKey'[c] = "on"}
                     ELSE {}
          /\ UNCHANGED <<pendingAlarms, task, batch, alarms, lastState, tenantId,
                         topic, told, reassign, heard>>
    BY DEF Start, StartWith
  <2>2. r = 0 /\ k = 0 /\ a = 0
    BY <2>1 DEF Misses, Calm
  <2> QED
    BY <2>1, <2>2 DEF CalmInv, CalmPersisted, CalmPhase
<1>2. \A k \in Codes : /\ ~Busy(k) /\ ~Holding(k) /\ ~Inserting(k) /\ ~Closing(k) /\ ~Closed(k)
                       /\ ~Busy(k)' /\ ~Holding(k)' /\ ~Inserting(k)' /\ ~Closing(k)' /\ ~Closed(k)'
  BY <1>1, QuietMeansFree, SameTasks
<1>3. CalmShape'
  BY <1>1 DEF CalmShape, CalmInv
<1>4. CalmPhase'
  BY <1>1, <1>2, SameBatches DEF CalmPhase, CalmInv
<1>5. CalmPersisted'
  BY <1>1 DEF CalmPersisted, CalmInv, Writing
<1>6. ASSUME NEW k \in Codes PROVE CalmKey(k)'
  <2>1. CalmKey(k) /\ pendingAlarms[k] = NoTenant /\ alarms[tenantId][k] \in Nat
    BY <1>1, RowsAreNat DEF CalmInv, CalmKey, TypeOK, Names
  <2>2. \A t \in Names : t # tenantId => alarms[t][k] = 0
    BY DEF CalmInv, CalmShape
  <2>3. CASE k \in todo'
    <3>1. stateKey[k] = "on" /\ alarms[tenantId][k] = 0
      BY <1>1, <2>3 DEF TypeOK, Names
    <3> QED BY <1>1, <1>2, <2>1, <2>3, <3>1 DEF CalmKey
  <2>4. CASE k \notin todo'
    <3>1. stateKey[k] # "on" \/ k \notin Nuisance \/ alarms[tenantId][k] = 1
      BY <1>1, <2>1, <2>2, <2>4 DEF CalmKey
    <3> QED BY <1>1, <1>2, <2>1, <2>4, <3>1 DEF CalmKey
  <2> QED BY <2>3, <2>4
<1> QED
  BY <1>3, <1>4, <1>5, <1>6 DEF CalmInv

LEMMA CalmConnect ==
  ASSUME Calm, TypeOK, CalmInv, Connect
  PROVE  CalmInv'
<1>1. /\ proc = "starting" /\ proc' = "up" /\ todo = {} /\ ~Writing
      /\ UNCHANGED <<todo, stateKey, stateTenant, stateSlug, dirty, pendingAlarms,
                     task, batch, alarms, lastState, tenantId, registry, topic,
                     told, reassign, heard>>
  BY DEF Connect, CalmInv, CalmPhase
<1>2. ~Writing' /\ batch'["shutdown"] = NoBatch
  BY <1>1, SameBatches DEF Writing, Writers
<1>3. CalmShape'
  BY <1>1 DEF CalmShape, CalmInv
<1>4. CalmPhase'
  BY <1>1, <1>2 DEF CalmPhase, CalmInv
<1>5. CalmPersisted'
  BY <1>1 DEF CalmPersisted, CalmInv
<1> QED
  BY <1>1, <1>3, <1>4, <1>5, CalmKeySame DEF CalmInv

LEMMA CalmNext ==
  ASSUME Calm, TypeOK, CalmInv, [Next]_vars
  PROVE  CalmInv'
<1>1. \A s \in Slots : ~Reject(s)
  BY DEF Reject, Calm
<1>2. \A w \in Writers : ~FailWrite(w)
  BY DEF FailWrite, Calm
<1>3. ~Crash /\ \A t \in Tenants : ~ReassignSend(t)
  BY DEF Crash, ReassignSend, Calm
<1>4. ~ReassignCommit /\ ~ReassignSettle
  BY DEF ReassignCommit, ReassignSettle, CalmInv, CalmShape, NoMove
<1>5. ~RefreshRegistries /\ ~DeviceMoves
  BY DEF RefreshRegistries, DeviceMoves, CalmInv, CalmShape
<1>6. CASE UNCHANGED vars
  <2>1. UNCHANGED <<proc, todo, stateKey, stateTenant, stateSlug, dirty,
                    pendingAlarms, task, batch, alarms, lastState, tenantId,
                    registry, topic, told, reassign, heard>>
    BY <1>6 DEF vars
  <2>2. CalmShape' /\ CalmPersisted'
    BY <2>1 DEF CalmShape, CalmPersisted, CalmInv
  <2>3. CalmPhase'
    BY <2>1, SameTasks, SameBatches DEF CalmPhase, CalmInv
  <2> QED BY <2>1, <2>2, <2>3, CalmKeySame DEF CalmInv
<1> QED
  BY <1>1, <1>2, <1>3, <1>4, <1>5, <1>6, CalmHandle, CalmElapsed, CalmRearm, CalmExecute,
     CalmResume, CalmStartWrite, CalmFinishWrite, CalmBeginShutdown, CalmFinishShutdown,
     CalmStart, CalmConnect DEF Next

(* The calm invariant holds whatever the codes, the delays, the tenants and *)
(* the number of restarts.                                                  *)
THEOREM CalmInvariant ==
  ASSUME Calm
  PROVE  Spec => [](TypeOK /\ CalmInv)
<1>1. Init => CalmInv
  BY CalmInit
<1>2. TypeOK /\ CalmInv /\ [Next]_vars => CalmInv'
  BY CalmNext
<1> QED
  BY <1>1, <1>2, TypeCorrect, PTL DEF Spec

(* An off report the handlers have dealt with leaves no active row behind.  *)
THEOREM OffReportsClose ==
  ASSUME Calm
  PROVE  Spec => []OffReportCloses
<1>1. TypeOK /\ CalmInv => OffReportCloses
  <2> SUFFICES ASSUME TypeOK, CalmInv, Settled, NEW c \in Codes, heard[c] = "off"
               PROVE  alarms[tenantId][c] = 0
    BY DEF OffReportCloses
  <2>1. CalmKey(c) /\ ~Closing(c) /\ alarms[tenantId][c] \in Nat
    BY QuietMeansFree, RowsAreNat DEF Settled, CalmInv, TypeOK, Names
  <2> QED BY <2>1 DEF CalmKey
<1> QED
  BY <1>1, CalmInvariant, PTL

(* A rise the handlers have dealt with is recorded or counted down, across  *)
(* any number of graceful restarts.                                         *)
THEOREM RisesAreCovered ==
  ASSUME Calm
  PROVE  Spec => []RiseIsCovered
<1>1. TypeOK /\ CalmInv => RiseIsCovered
  <2> SUFFICES ASSUME TypeOK, CalmInv, Settled, NEW c \in Codes, heard[c] = "rose"
               PROVE  alarms[tenantId][c] > 0 \/ pendingAlarms[c] # NoTenant
    BY DEF RiseIsCovered
  <2>1. CalmKey(c) /\ ~Inserting(c) /\ proc = "up"
    BY QuietMeansFree DEF Settled, CalmInv
  <2> QED BY <2>1 DEF CalmKey
<1> QED
  BY <1>1, CalmInvariant, PTL

(* raiseAlarm, which never looks for an active row, never opens a second.   *)
THEOREM AlarmsAreOpenedOnce ==
  ASSUME Calm
  PROVE  Spec => []OneActiveRow
<1>1. TypeOK /\ CalmInv => OneActiveRow
  <2> SUFFICES ASSUME TypeOK, CalmInv, NEW t \in Tenants, NEW c \in Codes
               PROVE  alarms[t][c] <= 1
    BY DEF OneActiveRow
  <2> QED BY DEF CalmInv, CalmShape, CalmKey, Names
<1> QED
  BY <1>1, CalmInvariant, PTL

(* No nuisance timer counts for a condition reported over, or over an alarm *)
(* that is already open.                                                    *)
THEOREM TransientsAreDropped ==
  ASSUME Calm
  PROVE  Spec => []TransientNeverRecorded
<1>1. TypeOK /\ CalmInv => TransientNeverRecorded
  <2> SUFFICES ASSUME TypeOK, CalmInv, NEW c \in Codes, pendingAlarms[c] # NoTenant
               PROVE  heard[c] # "off" /\ alarms[pendingAlarms[c]][c] = 0
    BY DEF TransientNeverRecorded
  <2>1. CalmKey(c) /\ ~Busy(c)
    BY DEF CalmInv, CalmKey
  <2>2. ~Closing(c)
    BY <2>1 DEF Busy, Closing
  <2> QED BY <2>1, <2>2 DEF CalmKey
<1> QED
  BY <1>1, CalmInvariant, PTL

(* A graceful shutdown persists the alarm keys the process stopped with.    *)
THEOREM ShutdownPersists ==
  ASSUME Calm
  PROVE  Spec => []StoppedAsPersisted
<1>1. CalmInv => StoppedAsPersisted
  BY DEF CalmInv, CalmPersisted, StoppedAsPersisted
<1> QED
  BY <1>1, CalmInvariant, PTL

----------------------------------------------------------------------------
(* Every case: what holds whatever the handlers, the crashes and the moves. *)

(* Whatever carries a tenant into the alarms table - a timer, a query, the  *)
(* registry, a reassignment past its commit - carries an owner, the SYSTEM  *)
(* tenant, or one whose messages came in while the registry was empty; the  *)
(* topic and the command to the controller need not.                        *)
Heirs == owners \cup blind \cup {System}

OwnerInv ==
  /\ tenantId \in owners /\ registry \in owners \cup {System} \cup Unloaded
  /\ proc = "starting" => stateSlug \in owners \cup {NoTenant}
  /\ \A c \in Codes : pendingAlarms[c] \in Heirs \cup {NoTenant}
  /\ \A s \in Slots : task[s] # Idle => task[s].tenant \in Heirs
  /\ reassign.step = "committed" => reassign.to \in owners
  /\ OnlyOwnersHear

(* A query is issued for the tenant its caller passes on.                   *)
LEMMA OwnerIssue ==
  ASSUME NEW op, NEW c \in Codes, NEW sl, NEW H, NEW t \in H, Issue(op, c, sl, t),
         task \in [Slots -> Task],
         \A s \in Slots : task[s] # Idle => task[s].tenant \in H
  PROVE  \A s \in Slots : task'[s] # Idle => task'[s].tenant \in H
<1> DEFINE new == [op |-> op, code |-> c, slug |-> sl, tenant |-> t, result |-> "waiting"]
<1>1. PICK x \in Slots : task' = [task EXCEPT ![x] = new]
  BY DEF Issue
<1>2. new.tenant = t
  OBVIOUS
<1> HIDE DEF new
<1> QED BY <1>1, <1>2

LEMMA OwnerDetectOn ==
  ASSUME TypeOK, NEW H, NEW c \in Codes, NEW t \in H, DetectOn(t, c),
         \A k \in Codes : pendingAlarms[k] \in H \cup {NoTenant},
         \A s \in Slots : task[s] # Idle => task[s].tenant \in H
  PROVE  /\ \A k \in Codes : pendingAlarms'[k] \in H \cup {NoTenant}
         /\ \A s \in Slots : task'[s] # Idle => task'[s].tenant \in H
<1>1. CASE Delayed(t, c)
  BY <1>1 DEF DetectOn, TypeOK
<1>2. CASE ~Delayed(t, c)
  <2>1. Issue("raise", c, t, t) /\ UNCHANGED pendingAlarms
    BY <1>2 DEF DetectOn
  <2> QED BY <2>1, OwnerIssue DEF TypeOK
<1> QED BY <1>1, <1>2

(* The tail of a handler enters the controller under the SYSTEM tenant only. *)
LEMMA OwnerTail ==
  ASSUME NEW sl, AfterReport(sl)
  PROVE  registry' \in {registry, System}
  BY DEF AfterReport

LEMMA OwnerHandle ==
  ASSUME TypeOK, OwnerInv, NEW c \in Codes, HandleStateKey(c)
  PROVE  OwnerInv'
<1> DEFINE H == Heirs \cup blind'
<1>1. /\ UNCHANGED <<proc, tenantId, reassign, alarms, emitted, owners>>
      /\ proc # "starting" /\ Running
      /\ blind' = IF registry \in Unloaded THEN blind \cup {topic} ELSE blind
      /\ registry' \in {registry, System}
  BY OwnerTail DEF HandleStateKey, Running
<1>2. Resolve(topic) \in H
  BY <1>1 DEF HandleStateKey, Authorized, Resolve, OwnerInv, Heirs
<1>3. /\ \A k \in Codes : pendingAlarms[k] \in H \cup {NoTenant}
      /\ \A s \in Slots : task[s] # Idle => task[s].tenant \in H
  BY DEF OwnerInv
<1> HIDE DEF H
<1>4. /\ \A k \in Codes : pendingAlarms'[k] \in H \cup {NoTenant}
      /\ \A s \in Slots : task'[s] # Idle => task'[s].tenant \in H
  <2>1. CASE ReportRise(c)
    BY <1>2, <1>3, <2>1, OwnerDetectOn DEF ReportRise
  <2>2. CASE ReportTransient(c)
    BY <1>3, <2>2 DEF ReportTransient, TypeOK
  <2>3. CASE ReportFall(c)
    BY <1>2, <1>3, <2>3, OwnerIssue DEF ReportFall, TypeOK
  <2>4. CASE ReportFirstOff(c)
    BY <1>2, <1>3, <2>4, OwnerIssue DEF ReportFirstOff, TypeOK
  <2>5. ASSUME NEW v \in {"off", "on"}, ReportSame(c, v)
        PROVE  UNCHANGED <<pendingAlarms, task>>
    BY <2>5 DEF ReportSame
  <2> QED BY <1>3, <2>1, <2>2, <2>3, <2>4, <2>5 DEF HandleStateKey
<1>5. H = Heirs'
  BY <1>1 DEF H, Heirs
<1>6. OnlyOwnersHear'
  BY <1>1 DEF OwnerInv, OnlyOwnersHear
<1> QED BY <1>1, <1>4, <1>5, <1>6 DEF OwnerInv

LEMMA OwnerTimers ==
  ASSUME TypeOK, OwnerInv, NEW c \in Codes, NuisanceElapsed(c) \/ Rearm(c)
  PROVE  OwnerInv'
<1>1. /\ UNCHANGED <<proc, tenantId, registry, stateSlug, reassign, alarms, emitted,
                     owners, blind>>
      /\ todo' \subseteq todo
  BY DEF NuisanceElapsed, Rearm
<1>2. /\ \A k \in Codes : pendingAlarms'[k] \in Heirs \cup {NoTenant}
      /\ \A s \in Slots : task'[s] # Idle => task'[s].tenant \in Heirs
  <2>1. CASE NuisanceElapsed(c)
    <3>1. /\ pendingAlarms[c] \in Heirs
          /\ Issue("raise", c, pendingAlarms[c], pendingAlarms[c])
      BY <2>1 DEF NuisanceElapsed, OwnerInv
    <3>2. \A s \in Slots : task'[s] # Idle => task'[s].tenant \in Heirs
      BY <3>1, OwnerIssue DEF OwnerInv, TypeOK
    <3> QED BY <2>1, <3>2 DEF NuisanceElapsed, OwnerInv, TypeOK
  <2>2. CASE Rearm(c)
    <3>1. Resolve(stateSlug) \in Heirs
      BY <2>2, ConstantsAssumption DEF Rearm, OwnerInv, Resolve, Heirs
    <3> QED BY <2>2, <3>1, OwnerDetectOn DEF Rearm, OwnerInv
  <2> QED BY <2>1, <2>2
<1> QED BY <1>1, <1>2 DEF OwnerInv, OnlyOwnersHear, Heirs

LEMMA OwnerQueries ==
  ASSUME TypeOK, OwnerInv, NEW x \in Slots, Execute(x) \/ Reject(x) \/ Resume(x)
  PROVE  OwnerInv'
<1>1. /\ task[x] # Idle /\ task[x].tenant \in Heirs
      /\ task[x].tenant \in Names /\ task[x].code \in Codes
  BY DEF Execute, Reject, Resume, OwnerInv, TypeOK, Task
<1>2. /\ UNCHANGED <<proc, todo, tenantId, stateSlug, pendingAlarms, reassign,
                     owners, blind>>
      /\ registry' \in {registry, System}
  BY OwnerTail DEF Execute, Reject, Resume, ResumeRaise, ResumeClose
<1>3. ASSUME NEW r, Answer(x, r)
      PROVE  \A s \in Slots : task'[s] # Idle => task'[s].tenant \in Heirs
  <2>1. task'[x].tenant = task[x].tenant
    BY <1>1, <1>3 DEF Answer, TypeOK, Task
  <2>2. \A s \in Slots : s # x => task'[s] = task[s]
    BY <1>3 DEF Answer, TypeOK
  <2> QED BY <1>1, <2>1, <2>2 DEF OwnerInv
<1>4. \A s \in Slots : task'[s] # Idle => task'[s].tenant \in Heirs
  <2>1. CASE Execute(x)
    BY <2>1, <1>3 DEF Execute, ExecuteInsert, ExecuteClose
  <2>2. CASE Reject(x)
    BY <2>2, <1>3 DEF Reject
  <2>3. CASE Resume(x)
    BY <2>3 DEF Resume, OwnerInv, TypeOK
  <2> QED BY <2>1, <2>2, <2>3
<1>5. ASSUME NEW t \in Tenants \ (owners \cup blind), NEW c \in Codes
      PROVE  alarms'[t][c] = alarms[t][c] /\ emitted'[t][c] = emitted[t][c]
  <2>1. t # task[x].tenant /\ t \in Names
    BY <1>1, <1>5, ConstantsAssumption DEF Heirs, Names
  <2>2. CASE Execute(x)
    BY <2>1, <2>2, <1>1 DEF Execute, ExecuteInsert, ExecuteClose, TypeOK
  <2>3. CASE Reject(x)
    BY <2>3 DEF Reject
  <2>4. CASE Resume(x)
    BY <2>1, <2>4, <1>1 DEF Resume, ResumeRaise, ResumeClose, Emit, TypeOK
  <2> QED BY <2>2, <2>3, <2>4
<1>6. OnlyOwnersHear'
  BY <1>2, <1>5 DEF OwnerInv, OnlyOwnersHear
<1>7. Heirs' = Heirs
  BY <1>2 DEF Heirs
<1> QED BY <1>2, <1>4, <1>6, <1>7 DEF OwnerInv

LEMMA OwnerCommit ==
  ASSUME TypeOK, OwnerInv, ReassignCommit
  PROVE  OwnerInv'
<1>1. reassign \in [to : Tenants, step : {"sent", "committed"}]
  BY DEF ReassignCommit, TypeOK, Move, NoMove
<1>2. /\ tenantId' = reassign.to /\ owners' = owners \cup {reassign.to}
      /\ reassign'.to = reassign.to
      /\ alarms' = [alarms EXCEPT ![tenantId] = [c \in Codes |-> 0]]
      /\ UNCHANGED <<proc, todo, registry, stateSlug, pendingAlarms, task, emitted,
                     blind>>
      /\ Running
  BY <1>1 DEF ReassignCommit
<1>3. \A t \in Tenants \ (owners' \cup blind'), c \in Codes : alarms'[t][c] = 0
  BY <1>2 DEF OwnerInv, OnlyOwnersHear, TypeOK, Names
<1> QED BY <1>2, <1>3 DEF OwnerInv, OnlyOwnersHear, Heirs, Running

LEMMA OwnerNext == TypeOK /\ OwnerInv /\ [Next]_vars => OwnerInv'
<1> SUFFICES ASSUME TypeOK, OwnerInv, [Next]_vars PROVE OwnerInv'
  OBVIOUS
<1>1. ASSUME UNCHANGED <<tenantId, registry, stateSlug, todo, pendingAlarms, task,
                         reassign, owners, blind, alarms, emitted>>,
             proc' = "starting" => proc = "starting"
      PROVE  OwnerInv'
  BY <1>1 DEF OwnerInv, OnlyOwnersHear, Heirs
<1>2. ASSUME NEW w \in Writers, FinishWrite(w) \/ FailWrite(w) PROVE OwnerInv'
  BY <1>1, <1>2 DEF FinishWrite, FailWrite
<1>3. ASSUME StartWrite \/ BeginShutdown \/ Connect \/ DeviceMoves \/ UNCHANGED vars
      PROVE  OwnerInv'
  BY <1>1, <1>3 DEF StartWrite, BeginShutdown, Connect, DeviceMoves, vars
<1>4. ASSUME FinishShutdown \/ Crash PROVE OwnerInv'
  BY <1>4 DEF FinishShutdown, Crash, Forget, NoMove, OwnerInv, OnlyOwnersHear, Heirs
<1>5. CASE Start
  <2>1. /\ UNCHANGED <<tenantId, pendingAlarms, task, reassign, owners, blind,
                       alarms, emitted>>
        /\ registry' = tenantId \/ registry' \in Unloaded
        /\ \/ stateSlug' = tenantId
           \/ stateSlug' = NoTenant
    BY <1>5 DEF Start, StartWith
  <2> QED BY <2>1 DEF OwnerInv, OnlyOwnersHear, Heirs
<1>6. CASE RefreshRegistries
  BY <1>6 DEF RefreshRegistries, OwnerInv, OnlyOwnersHear, Heirs
<1>7. ASSUME NEW t \in Tenants, ReassignSend(t) PROVE OwnerInv'
  BY <1>7 DEF ReassignSend, OwnerInv, OnlyOwnersHear, Heirs
<1>8. CASE ReassignSettle
  BY <1>8 DEF ReassignSettle, Running, NoMove, OwnerInv, OnlyOwnersHear, Heirs
<1> QED
  BY <1>2, <1>3, <1>4, <1>5, <1>6, <1>7, <1>8, OwnerHandle, OwnerTimers, OwnerQueries,
     OwnerCommit DEF Next

(* Under every combination of disturbances - overlapping handlers,          *)
(* reassignments amid a handler, and starts with nothing loaded included -  *)
(* no row is opened for, and nothing announced to, an organisation that     *)
(* never owned the controller, unless a message under its prefix was taken  *)
(* while the device registry was empty.                                     *)
THEOREM StrangersHearNothing == Spec => []OnlyOwnersHear
<1>1. Init => OwnerInv
  BY DEF Init, NoMove, OwnerInv, OnlyOwnersHear, Names
<1>2. OwnerInv => OnlyOwnersHear
  BY DEF OwnerInv
<1> QED
  BY <1>1, <1>2, OwnerNext, TypeCorrect, PTL DEF Spec

----------------------------------------------------------------------------
(* Handlers that do not overlap, whatever else disturbs them.               *)

(* An announcement of an opened alarm is still to come.                     *)
Announcing(t, c) ==
  \E s \in Slots : /\ task[s] # Idle /\ task[s].op = "raise"
                   /\ task[s].tenant = t /\ task[s].code = c

SoleQuery == \A r, s \in Slots : task[r] # Idle /\ task[s] # Idle => r = s

(* An UPDATE that closed rows has not been overtaken; an announced clear    *)
(* stands, or a newer raise is about to correct it.  A stop loses the       *)
(* announcements in flight, and only then.                                  *)
ClearInv ==
  /\ SoleQuery
  /\ proc = "flushing" => restarts # 0
  /\ \A s \in Slots : /\ task[s] # Idle /\ task[s].op \in {"clear", "reconcile"}
                      /\ task[s].result = "hit"
                      => alarms[task[s].tenant][task[s].code] = 0
  /\ restarts = 0 => \A t \in Names, c \in Codes :
       emitted[t][c] = "cleared" => alarms[t][c] = 0 \/ Announcing(t, c)

LEMMA ClearIssue ==
  ASSUME TypeOK, ClearInv, Quiet,
         NEW op \in {"raise", "clear", "reconcile"}, NEW c \in Codes,
         NEW sl \in Names, NEW t \in Names, Issue(op, c, sl, t), UNCHANGED <<proc,
                                                                             restarts,
                                                                             alarms,
                                                                             emitted>>
  PROVE  ClearInv'
<1> DEFINE new == [op |-> op, code |-> c, slug |-> sl, tenant |-> t, result |-> "waiting"]
<1>1. PICK x \in Slots : task' = [task EXCEPT ![x] = new]
  BY DEF Issue
<1>2. task'[x] = new /\ \A s \in Slots : s # x => task'[s] = Idle
  BY <1>1 DEF Quiet, TypeOK
<1>3. new.result = "waiting"
  OBVIOUS
<1> HIDE DEF new
<1>4. SoleQuery'
  BY <1>2 DEF SoleQuery
<1>5. \A u \in Names, k \in Codes : ~Announcing(u, k)
  BY DEF Quiet, Announcing
<1> QED BY <1>2, <1>3, <1>4, <1>5 DEF ClearInv

LEMMA ClearQueries ==
  ASSUME TypeOK, ClearInv, NEW x \in Slots, Execute(x) \/ Reject(x) \/ Resume(x)
  PROVE  ClearInv'
<1> DEFINE t == task[x].tenant
           k == task[x].code
<1>1. /\ task[x] # Idle /\ t \in Names /\ k \in Codes
      /\ UNCHANGED <<proc, restarts>>
      /\ \A s \in Slots : s # x => task[s] = Idle
  BY DEF Execute, Reject, Resume, TypeOK, Task, ClearInv, SoleQuery
<1>2. ASSUME NEW r, Answer(x, r)
      PROVE  /\ \A s \in Slots : s # x => task'[s] = Idle
             /\ task'[x] # Idle /\ task'[x].op = task[x].op
             /\ task'[x].tenant = t /\ task'[x].code = k /\ task'[x].result = r
  BY <1>1, <1>2 DEF Answer, TypeOK, Task, Idle
<1>3. \A u \in Names, c \in Codes :
        Announcing(u, c) <=> task[x].op = "raise" /\ u = t /\ c = k
  BY <1>1 DEF Announcing
<1>4. CASE Execute(x) /\ ExecuteInsert(x)
  <2>1. /\ task[x].op = "raise" /\ Answer(x, "hit") /\ UNCHANGED emitted
        /\ \A u \in Names, c \in Codes : u # t \/ c # k => alarms'[u][c] = alarms[u][c]
    BY <1>1, <1>4 DEF Execute, ExecuteInsert, TypeOK
  <2>2. Announcing(t, k)'
    BY <1>2, <2>1 DEF Announcing
  <2>3. SoleQuery'
    BY <1>2, <2>1 DEF SoleQuery
  <2> QED BY <1>1, <1>2, <1>3, <2>1, <2>2, <2>3 DEF ClearInv
<1>5. CASE Execute(x) /\ ExecuteClose(x)
  <2>1. /\ task[x].op \in {"clear", "reconcile"} /\ UNCHANGED emitted
        /\ alarms'[t][k] = 0
        /\ \A u \in Names, c \in Codes : alarms'[u][c] = alarms[u][c] \/ alarms'[u][c] = 0
    BY <1>1, <1>5 DEF Execute, ExecuteClose, TypeOK
  <2>2. PICK r : Answer(x, r)
    BY <1>5 DEF ExecuteClose
  <2>3. SoleQuery'
    BY <1>2, <2>2 DEF SoleQuery
  <2> QED BY <1>1, <1>2, <1>3, <2>1, <2>2, <2>3 DEF ClearInv
<1>6. CASE Reject(x)
  <2>1. Answer(x, "error") /\ UNCHANGED <<alarms, emitted>>
    BY <1>6 DEF Reject
  <2>2. SoleQuery'
    BY <1>2, <2>1 DEF SoleQuery
  <2>3. \A u \in Names, c \in Codes : Announcing(u, c) => Announcing(u, c)'
    BY <1>2, <1>3, <2>1 DEF Announcing
  <2> QED BY <1>1, <1>2, <2>1, <2>2, <2>3 DEF ClearInv
<1>7. CASE Resume(x)
  <2>1. /\ \A s \in Slots : task'[s] = Idle
        /\ UNCHANGED alarms
    BY <1>1, <1>7 DEF Resume, TypeOK
  <2>2. CASE ResumeRaise(x)
    <3>1. /\ emitted'[t][k] = "active"
          /\ \A u \in Names, c \in Codes : u # t \/ c # k => emitted'[u][c] = emitted[u][c]
      BY <1>1, <2>2 DEF ResumeRaise, Emit, TypeOK
    <3> QED BY <1>1, <1>3, <2>1, <3>1 DEF ClearInv, SoleQuery
  <2>3. CASE ResumeClose(x)
    <3>1. task[x].op \in {"clear", "reconcile"}
      BY <2>3 DEF ResumeClose
    <3>2. /\ emitted'[t][k] # emitted[t][k] => alarms[t][k] = 0
          /\ \A u \in Names, c \in Codes : u # t \/ c # k => emitted'[u][c] = emitted[u][c]
      BY <1>1, <2>3 DEF ResumeClose, Emit, TypeOK, ClearInv
    <3> QED BY <1>1, <1>3, <2>1, <3>1, <3>2 DEF ClearInv, SoleQuery
  <2> QED BY <1>7, <2>2, <2>3 DEF Resume
<1> QED BY <1>4, <1>5, <1>6, <1>7 DEF Execute

LEMMA ClearNext ==
  ASSUME "overlap" \notin Faults
  PROVE  TypeOK /\ ClearInv /\ [Next]_vars => ClearInv'
<1> SUFFICES ASSUME TypeOK, ClearInv, [Next]_vars PROVE ClearInv'
  OBVIOUS
<1>1. ASSUME UNCHANGED <<restarts, task, alarms, emitted>>,
             proc' = "flushing" => proc = "flushing"
      PROVE  ClearInv'
  BY <1>1 DEF ClearInv, SoleQuery, Announcing
<1>2. ASSUME NEW c \in Codes, NEW t \in Names, Quiet, DetectOn(t, c),
             UNCHANGED <<proc, restarts, alarms, emitted>>
      PROVE  ClearInv'
  BY <1>1, <1>2, ClearIssue DEF DetectOn
<1>3. ASSUME NEW c \in Codes, HandleStateKey(c) PROVE ClearInv'
  <2>1. /\ Quiet /\ topic \in Names /\ Resolve(topic) \in Names
        /\ UNCHANGED <<proc, restarts, alarms, emitted>>
    BY <1>3 DEF HandleStateKey, MayHandle, TypeOK, Resolve, Names
  <2>2. CASE ReportRise(c)
    BY <1>2, <2>1, <2>2 DEF ReportRise
  <2>3. CASE ReportFall(c) \/ ReportFirstOff(c)
    BY <2>1, <2>3, ClearIssue DEF ReportFall, ReportFirstOff
  <2>4. CASE ReportTransient(c) \/ \E v \in {"off", "on"} : ReportSame(c, v)
    BY <1>1, <2>1, <2>4 DEF ReportTransient, ReportSame
  <2> QED BY <1>3, <2>2, <2>3, <2>4 DEF HandleStateKey
<1>4. ASSUME NEW c \in Codes, NuisanceElapsed(c) PROVE ClearInv'
  BY <1>4, ClearIssue DEF NuisanceElapsed, TypeOK
<1>5. ASSUME NEW c \in Codes, Rearm(c) PROVE ClearInv'
  <2>1. Resolve(stateSlug) \in Names
    BY <1>5 DEF Rearm, Resolve, Names
  <2> QED BY <1>2, <1>5, <2>1 DEF Rearm
<1>6. ASSUME NEW w \in Writers, FinishWrite(w) \/ FailWrite(w) PROVE ClearInv'
  BY <1>1, <1>6 DEF FinishWrite, FailWrite
<1>7. ASSUME StartWrite \/ Start \/ Connect \/ ReassignSettle \/ RefreshRegistries
             \/ DeviceMoves \/ UNCHANGED vars
      PROVE  ClearInv'
  BY <1>1, <1>7 DEF StartWrite, Start, StartWith, Connect, ReassignSettle, RefreshRegistries,
                    DeviceMoves, vars
<1>8. ASSUME NEW t \in Tenants, ReassignSend(t) PROVE ClearInv'
  BY <1>1, <1>8 DEF ReassignSend
<1>9. ASSUME BeginShutdown PROVE ClearInv'
  <2>1. restarts' # 0 /\ UNCHANGED <<task, alarms>>
    BY <1>9 DEF BeginShutdown, TypeOK
  <2> QED BY <2>1 DEF ClearInv, SoleQuery
<1>10. ASSUME FinishShutdown \/ Crash PROVE ClearInv'
  <2>1. restarts' # 0 /\ proc' = "down" /\ \A s \in Slots : task'[s] = Idle
    BY <1>10 DEF FinishShutdown, Crash, Forget, ClearInv, TypeOK
  <2> QED BY <2>1 DEF ClearInv, SoleQuery
<1>11. ASSUME ReassignCommit PROVE ClearInv'
  <2>1. /\ UNCHANGED <<proc, restarts, task, emitted>>
        /\ \A u \in Names, c \in Codes : alarms'[u][c] = alarms[u][c] \/ alarms'[u][c] = 0
    BY <1>11 DEF ReassignCommit, TypeOK
  <2>2. \A s \in Slots : task[s] # Idle => task[s].tenant \in Names /\ task[s].code \in Codes
    BY DEF TypeOK, Task
  <2> QED BY <2>1, <2>2 DEF ClearInv, SoleQuery, Announcing
<1> QED
  BY <1>3, <1>4, <1>5, <1>6, <1>7, <1>8, <1>9, <1>10, <1>11, ClearQueries DEF Next

(* As long as handlers do not overlap, an organisation whose last word was  *)
(* "cleared" has no active row for the code: whatever is rejected, moved or *)
(* written meanwhile, until the process stops for the first time.           *)
THEOREM ClearedMeansClosed ==
  ASSUME "overlap" \notin Faults
  PROVE  Spec => []ClearedIsClosed
<1>1. Init => ClearInv
  BY DEF Init, ClearInv, SoleQuery
<1>2. ClearInv => ClearedIsClosed
  BY DEF ClearInv, ClearedIsClosed, Quiet, Announcing, Names
<1> QED
  BY <1>1, <1>2, ClearNext, TypeCorrect, PTL DEF Spec

----------------------------------------------------------------------------
(* One process that is never disturbed: the ledger.                         *)

(* The rows and announcements of a code, as AlarmLedger sees them.          *)
Ledger(c) == INSTANCE AlarmLedger WITH rows <- alarms[tenantId][c],
                                       said <- (emitted[tenantId][c] = "active")

(* An announcement of an opening, or of a closing, is still to come.        *)
Opened(c) == \E s \in Slots : /\ task[s] # Idle /\ task[s].code = c
                              /\ task[s].op = "raise" /\ task[s].result # "waiting"
Shut(c)   == \E s \in Slots : /\ task[s] # Idle /\ task[s].code = c
                              /\ task[s].op \in {"clear", "reconcile"}
                              /\ task[s].result = "hit"

(* What was announced last is what the table holds, but for the one         *)
(* announcement still to come.                                              *)
TurnKey(c) ==
  /\ Opened(c) => alarms[tenantId][c] = 1
  /\ emitted[tenantId][c] = "active" <=>
       (alarms[tenantId][c] = 1 /\ ~Opened(c)) \/ Shut(c)

TurnInv == proc = "up" /\ todo = {} /\ \A c \in Codes : TurnKey(c)

(* What a step of the engine means to one code: a step of its ledger, or    *)
(* nothing; and the turns are kept.                                         *)
Turn(c) ==
  /\ TurnKey(c)'
  /\ [Ledger(c)!Next]_(Ledger(c)!ledger)

LEMMA TurnSame ==
  ASSUME NEW c \in Codes, TurnKey(c), UNCHANGED <<alarms, emitted, tenantId>>,
         Opened(c)' <=> Opened(c), Shut(c)' <=> Shut(c)
  PROVE  Turn(c)
  BY DEF Turn, TurnKey, Ledger!ledger

LEMMA TurnQueries ==
  ASSUME Calm, TypeOK, CalmInv, NEW x \in Slots, Execute(x) \/ Resume(x),
         NEW c \in Codes, TurnKey(c)
  PROVE  Turn(c)
<1> DEFINE t == task[x].tenant
           k == task[x].code
<1>1. /\ task[x] # Idle /\ t = tenantId /\ tenantId \in Tenants /\ k \in Codes
      /\ UNCHANGED tenantId
      /\ \A s \in Slots : s # x => task[s] = Idle
      /\ CalmKey(k)
  BY DEF Execute, Resume, TypeOK, Task, CalmInv, CalmShape
<1>2. ASSUME NEW r, Answer(x, r)
      PROVE  /\ \A s \in Slots : s # x => task'[s] = Idle
             /\ task'[x] # Idle /\ task'[x].op = task[x].op
             /\ task'[x].code = k /\ task'[x].result = r
  BY <1>1, <1>2 DEF Answer, TypeOK, Task, Idle
<1>3. /\ Opened(c) <=> c = k /\ task[x].op = "raise" /\ task[x].result # "waiting"
      /\ Shut(c) <=> c = k /\ task[x].op \in {"clear", "reconcile"} /\ task[x].result = "hit"
  BY <1>1 DEF Opened, Shut
<1>4. CASE Execute(x) /\ ExecuteInsert(x)
  <2>1. /\ task[x].op = "raise" /\ task[x].result = "waiting"
        /\ Answer(x, "hit") /\ UNCHANGED emitted
    BY <1>4 DEF Execute, ExecuteInsert
  <2>2. alarms[tenantId][k] = 0
    BY <1>1, <2>1 DEF CalmKey, Inserting
  <2>3. alarms'[tenantId][c] = IF c = k THEN 1 ELSE alarms[tenantId][c]
    BY <1>1, <1>4, <2>2, ConstantsAssumption DEF ExecuteInsert, TypeOK, Names
  <2>4. (Opened(c)' <=> c = k) /\ ~Shut(c)'
    BY <1>2, <2>1 DEF Opened, Shut
  <2> QED
    BY <1>1, <1>3, <2>1, <2>2, <2>3, <2>4
    DEF Turn, TurnKey, Ledger!Next, Ledger!Open, Ledger!ledger
<1>5. CASE Execute(x) /\ ExecuteClose(x)
  <2>1. /\ task[x].op \in {"clear", "reconcile"} /\ task[x].result = "waiting"
        /\ UNCHANGED emitted
        /\ alarms'[tenantId][c] = IF c = k THEN 0 ELSE alarms[tenantId][c]
    BY <1>1, <1>5 DEF Execute, ExecuteClose, TypeOK, Names
  <2>2. Answer(x, IF alarms[tenantId][k] > 0 THEN "hit" ELSE "miss")
    BY <1>1, <1>5 DEF ExecuteClose
  <2>3. alarms[tenantId][k] = 0 \/ alarms[tenantId][k] = 1
    BY <1>1, RowsAreNat DEF CalmKey, Names
  <2>4. ~Opened(c)' /\ (Shut(c)' <=> c = k /\ alarms[tenantId][k] = 1)
    BY <1>2, <2>1, <2>2, <2>3 DEF Opened, Shut
  <2> QED
    BY <1>1, <1>3, <2>1, <2>3, <2>4
    DEF Turn, TurnKey, Ledger!Next, Ledger!Close, Ledger!ledger
<1>6. CASE Resume(x)
  <2>1. /\ ~Opened(c)' /\ ~Shut(c)' /\ UNCHANGED alarms
    BY <1>1, <1>6 DEF Resume, TypeOK, Opened, Shut
  <2>2. CASE ResumeRaise(x)
    <3>1. /\ task[x].op = "raise" /\ task[x].result # "waiting"
          /\ emitted'[tenantId][c] = IF c = k THEN "active" ELSE emitted[tenantId][c]
      BY <1>1, <1>6, <2>2 DEF Resume, ResumeRaise, Emit, TypeOK, Names
    <3> QED
      BY <1>1, <1>3, <2>1, <3>1
      DEF Turn, TurnKey, Ledger!Next, Ledger!AnnounceOpen, Ledger!ledger
  <2>3. CASE ResumeClose(x)
    <3>1. /\ task[x].op \in {"clear", "reconcile"} /\ task[x].result # "waiting"
          /\ emitted'[tenantId][c] = IF c = k /\ task[x].result = "hit"
                                     THEN "cleared" ELSE emitted[tenantId][c]
      BY <1>1, <1>6, <2>3 DEF Resume, ResumeClose, Emit, TypeOK, Names
    <3>2. c = k => alarms[tenantId][c] = 0
      BY <1>1, <3>1 DEF CalmKey, Closed
    <3> QED
      BY <1>1, <1>3, <2>1, <3>1, <3>2
      DEF Turn, TurnKey, Ledger!Next, Ledger!AnnounceClosed, Ledger!ledger
  <2> QED BY <1>6, <2>2, <2>3 DEF Resume
<1> QED BY <1>4, <1>5, <1>6 DEF Execute

LEMMA TurnIssue ==
  ASSUME Quiet, TypeOK, NEW op \in {"raise", "clear", "reconcile"}, NEW k \in Codes,
         NEW sl \in Names, NEW t \in Names, Issue(op, k, sl, t), UNCHANGED <<alarms,
                                                                             emitted,
                                                                             tenantId>>,
         NEW c \in Codes, TurnKey(c)
  PROVE  Turn(c)
<1> DEFINE new == [op |-> op, code |-> k, slug |-> sl, tenant |-> t, result |-> "waiting"]
<1>1. PICK x \in Slots : task' = [task EXCEPT ![x] = new]
  BY DEF Issue
<1>2. \A s \in Slots : task'[s] = Idle \/ task'[s].result = "waiting"
  BY <1>1 DEF Quiet, TypeOK
<1>3. ~Opened(c) /\ ~Shut(c) /\ ~Opened(c)' /\ ~Shut(c)'
  BY <1>2 DEF Opened, Shut, Quiet
<1> QED BY <1>3, TurnSame

LEMMA TurnNext ==
  ASSUME Faults = {}
  PROVE  TypeOK /\ CalmInv /\ TurnInv /\ [Next]_vars =>
           TurnInv' /\ \A c \in Codes : [Ledger(c)!Next]_(Ledger(c)!ledger)
<1> SUFFICES ASSUME TypeOK, CalmInv, TurnInv, [Next]_vars
             PROVE  proc' = "up" /\ todo' = {} /\ \A c \in Codes : Turn(c)
  BY DEF TurnInv, Turn
<1>0. Calm
  BY DEF Calm
<1>1. ASSUME UNCHANGED <<task, alarms, emitted, tenantId>>, NEW c \in Codes
      PROVE  Turn(c)
  BY <1>1, TurnSame DEF TurnInv, Opened, Shut
<1>2. CASE \E k \in Codes : HandleStateKey(k)
  <2> SUFFICES ASSUME NEW k \in Codes, HandleStateKey(k), NEW c \in Codes
               PROVE  proc' = "up" /\ todo' = {} /\ Turn(c)
    BY <1>2
  <2>1. /\ Quiet /\ topic \in Names /\ Resolve(topic) \in Names /\ proc' = "up" /\ todo' = {}
        /\ UNCHANGED <<alarms, emitted, tenantId>>
    BY <1>0, CalmRegistry DEF HandleStateKey, MayHandle, TypeOK, TurnInv, CalmInv, Calm
  <2>2. \/ UNCHANGED task
        \/ \E op \in {"raise", "clear", "reconcile"}, sl \in Names :
              Issue(op, k, sl, Resolve(topic))
    BY <2>1 DEF HandleStateKey, ReportRise, DetectOn, ReportTransient, ReportFall,
           ReportFirstOff, ReportSame
  <2> QED BY <1>1, <2>1, <2>2, TurnIssue DEF TurnInv
<1>3. CASE \E k \in Codes : NuisanceElapsed(k)
  <2> SUFFICES ASSUME NEW k \in Codes, NuisanceElapsed(k), NEW c \in Codes
               PROVE  proc' = "up" /\ todo' = {} /\ Turn(c)
    BY <1>3
  <2>1. /\ Quiet /\ pendingAlarms[k] \in Names /\ proc' = "up" /\ todo' = {}
        /\ Issue("raise", k, pendingAlarms[k], pendingAlarms[k])
        /\ UNCHANGED <<alarms, emitted, tenantId>>
    BY DEF NuisanceElapsed, TypeOK, TurnInv
  <2> QED BY <2>1, TurnIssue DEF TurnInv
<1>4. CASE \E x \in Slots : Execute(x) \/ Resume(x)
  BY <1>0, <1>4, TurnQueries DEF Execute, Resume, TurnInv
<1>5. CASE StartWrite \/ (\E w \in Writers : FinishWrite(w)) \/ DeviceMoves \/ UNCHANGED vars
  BY <1>1, <1>5 DEF StartWrite, FinishWrite, DeviceMoves, vars, TurnInv
<1>6. /\ \A s \in Slots : ~Reject(s)
      /\ \A w \in Writers : ~FailWrite(w)
      /\ \A t \in Tenants : ~ReassignSend(t)
      /\ \A k \in Codes : ~Rearm(k)
      /\ ~BeginShutdown /\ ~FinishShutdown /\ ~Crash /\ ~Start /\ ~Connect
      /\ ~ReassignCommit /\ ~ReassignSettle /\ ~RefreshRegistries
  BY DEF Reject, FailWrite, ReassignSend, Rearm, BeginShutdown, FinishShutdown, Crash,
         Start, StartWith, Connect, ReassignCommit, ReassignSettle, RefreshRegistries, TurnInv,
         CalmInv, CalmShape, NoMove
<1> QED BY <1>2, <1>3, <1>4, <1>5, <1>6 DEF Next

(* A process that is never disturbed keeps the ledger of every code: each   *)
(* step opens a row, announces it, closes it or announces that, in turn, or *)
(* changes neither.                                                         *)
THEOREM EngineKeepsLedger ==
  ASSUME Faults = {}, NEW c \in Codes
  PROVE  Spec => Ledger(c)!Init /\ [][Ledger(c)!Next]_(Ledger(c)!ledger)
<1>0. Calm
  BY DEF Calm
<1>1. Init => TurnInv /\ Ledger(c)!Init
  BY DEF Init, TurnInv, TurnKey, Opened, Shut, Ledger!Init, Names
<1>2. Spec => [](TypeOK /\ CalmInv)
  BY <1>0, CalmInvariant
<1>3. TypeOK /\ CalmInv /\ TurnInv /\ [Next]_vars => TurnInv'
  BY TurnNext
<1>4. TypeOK /\ CalmInv /\ TurnInv /\ [Next]_vars => [Ledger(c)!Next]_(Ledger(c)!ledger)
  BY TurnNext
<1> QED
  BY <1>1, <1>2, <1>3, <1>4, PTL DEF Spec
=============================================================================
