------------------------- MODULE OfflineAlarmProofs -------------------------
(* Theorems about OfflineAlarm, for every value of its bounds: types under  *)
(* every combination of disturbances; and, as long as no message and no     *)
(* pass of the detector falls into a query (no overlap), what the alarm     *)
(* promises, and the ledger of rows and announcements it implements.        *)
EXTENDS OfflineAlarm, TLAPS

\* What TypeOK says of names, of flags, of the broker, and of the counters.
Names ==
  /\ link \in {"talking", "mute", "gone"}
  /\ prefix \in Prefixes /\ slug \in Prefixes /\ tenant \in Prefixes
  /\ replay \subseteq Prefixes \cup {"key"}
  /\ raise \in {"idle", "select", "insert", "announce"}
  /\ clear \in {"idle", "update", "announce"}
Flags ==
  /\ willDue \in BOOLEAN /\ serving \in BOOLEAN /\ up \in BOOLEAN
  /\ online \in BOOLEAN /\ offlineSince \in BOOLEAN /\ offlineAlarmed \in BOOLEAN
  /\ said \in BOOLEAN /\ lost \in BOOLEAN /\ spoke \in BOOLEAN
Broker == retained \in [Prefixes -> {"online", "offline", "none"}]
Sorts  == Names /\ Flags /\ Broker
Counts ==
  /\ rows \in 0 .. MaxRows
  /\ stops \in 0 .. MaxStops /\ errors \in 0 .. MaxErrors /\ turns \in 0 .. MaxTurns

LEMMA Bounds == /\ 0 \in 0 .. MaxStops /\ 0 \in 0 .. MaxErrors /\ 0 \in 0 .. MaxTurns /\ 0 \in 0 .. MaxRows
                /\ MaxRows \in 0 .. MaxRows
  BY OfflineConstants

LEMMA CountsHold == Counts /\ [Next]_vars => Counts'
<1> SUFFICES ASSUME Counts, [Next]_vars PROVE Counts'
  OBVIOUS
<1>1. UNCHANGED rows \/ (rows' = IF rows < MaxRows THEN rows + 1 ELSE MaxRows) \/ rows' = 0
  BY DEF Next, vars, table, GoMute, LoseLink, Relapse, WillPublished, Reconnect, Publish, ReplayStatus, ReplayKey,
         DetectSilence, DetectOffline, SelectRow, InsertRow, AnnounceOpen, CloseRow, AnnounceClosed,
         RejectRaise, RejectClear, Stop, Start, OnConnect, TenantStatus
<1>2. UNCHANGED stops \/ (stops < MaxStops /\ stops' = stops + 1)
  BY DEF Next, vars, GoMute, LoseLink, Relapse, WillPublished, Reconnect, Publish, ReplayStatus, ReplayKey,
         DetectSilence, DetectOffline, SelectRow, InsertRow, AnnounceOpen, CloseRow, AnnounceClosed,
         RejectRaise, RejectClear, Stop, Start, OnConnect, TenantStatus
<1>3. UNCHANGED errors \/ (errors < MaxErrors /\ errors' = errors + 1)
  BY DEF Next, vars, GoMute, LoseLink, Relapse, WillPublished, Reconnect, Publish, ReplayStatus, ReplayKey,
         DetectSilence, DetectOffline, SelectRow, InsertRow, AnnounceOpen, CloseRow, AnnounceClosed,
         RejectRaise, RejectClear, Stop, Start, OnConnect, TenantStatus
<1>4. UNCHANGED turns \/ (turns < MaxTurns /\ turns' = turns + 1)
  BY DEF Next, vars, environment, GoMute, LoseLink, Relapse, WillPublished, Reconnect, Publish, ReplayStatus, ReplayKey,
         DetectSilence, DetectOffline, SelectRow, InsertRow, AnnounceOpen, CloseRow, AnnounceClosed,
         RejectRaise, RejectClear, Stop, Start, OnConnect, TenantStatus
<1> QED BY <1>1, <1>2, <1>3, <1>4, OfflineConstants DEF Counts

LEMMA NamesHold == Names /\ [Next]_vars => Names'
<1> SUFFICES ASSUME Names, [Next]_vars PROVE Names'
  OBVIOUS
<1> USE DEF Names, Prefixes, environment, clock, file, table
<1>1. CASE GoMute \/ LoseLink \/ Relapse \/ SelectRow \/ InsertRow \/ AnnounceOpen \/ CloseRow
  BY <1>1 DEF GoMute, LoseLink, Relapse, SelectRow, InsertRow, AnnounceOpen, CloseRow, Retained, StartOfflineClock
<1>2. CASE AnnounceClosed \/ RejectRaise \/ RejectClear \/ Stop \/ Start \/ OnConnect \/ TenantStatus \/ DetectOffline \/ DetectSilence
  BY <1>2 DEF AnnounceClosed, RejectRaise, RejectClear, Stop, Start, OnConnect, TenantStatus, DetectOffline, DetectSilence, Retained, StartOfflineClock
<1>3. CASE WillPublished
  BY <1>3 DEF WillPublished, Dropped, Taken, Refile, StatusOffline, StartOfflineClock
<1>4. CASE Reconnect
  BY <1>4 DEF Reconnect, Dropped, Taken, Refile, StatusOnline, ClearOfflineAlarm
<1>5. CASE Publish
  BY <1>5 DEF Publish, Dropped, Taken, Refile, StateKey, Heartbeat, Revive, ClearOfflineAlarm
<1>6. CASE ReplayKey
  BY <1>6 DEF ReplayKey, Dropped, Taken, Refile, StateKey, Revive, ClearOfflineAlarm
<1>7. CASE ReplayStatus
  <2> PICK p \in replay \cap Prefixes :
         /\ replay' = replay \ {p}
         /\ \/ retained[p] = "online" /\ StatusOnline(p)
            \/ retained[p] = "offline" /\ StatusOffline(p)
    BY <1>7 DEF ReplayStatus
  <2>1. UNCHANGED <<environment, table, up, raise, stops, errors>>
    BY <1>7 DEF ReplayStatus
  <2>2. CASE StatusOnline(p)
    BY <2>1, <2>2 DEF StatusOnline, Dropped, Taken, Refile, ClearOfflineAlarm
  <2>3. CASE StatusOffline(p)
    BY <2>1, <2>3 DEF StatusOffline, Dropped, Taken, Refile, StartOfflineClock
  <2> QED BY <2>2, <2>3
<1>8. CASE UNCHANGED vars
  BY <1>8 DEF vars
<1> QED
  BY <1>1, <1>2, <1>3, <1>4, <1>5, <1>6, <1>7, <1>8 DEF Next

LEMMA FlagsHold == Flags /\ [Next]_vars => Flags'
<1> SUFFICES ASSUME Flags, [Next]_vars PROVE Flags'
  OBVIOUS
<1> USE DEF Flags, Prefixes, environment, clock, file, table
<1>1. CASE GoMute \/ LoseLink \/ Relapse \/ SelectRow \/ InsertRow \/ AnnounceOpen \/ CloseRow
  BY <1>1 DEF GoMute, LoseLink, Relapse, SelectRow, InsertRow, AnnounceOpen, CloseRow, Retained, StartOfflineClock
<1>2. CASE AnnounceClosed \/ RejectRaise \/ RejectClear \/ Stop \/ Start \/ OnConnect \/ TenantStatus \/ DetectOffline \/ DetectSilence
  BY <1>2 DEF AnnounceClosed, RejectRaise, RejectClear, Stop, Start, OnConnect, TenantStatus, DetectOffline, DetectSilence, Retained, StartOfflineClock
<1>3. CASE WillPublished
  BY <1>3 DEF WillPublished, Dropped, Taken, Refile, StatusOffline, StartOfflineClock
<1>4. CASE Reconnect
  BY <1>4 DEF Reconnect, Dropped, Taken, Refile, StatusOnline, ClearOfflineAlarm
<1>5. CASE Publish
  BY <1>5 DEF Publish, Dropped, Taken, Refile, StateKey, Heartbeat, Revive, ClearOfflineAlarm
<1>6. CASE ReplayKey
  BY <1>6 DEF ReplayKey, Dropped, Taken, Refile, StateKey, Revive, ClearOfflineAlarm
<1>7. CASE ReplayStatus
  <2> PICK p \in replay \cap Prefixes :
         /\ replay' = replay \ {p}
         /\ \/ retained[p] = "online" /\ StatusOnline(p)
            \/ retained[p] = "offline" /\ StatusOffline(p)
    BY <1>7 DEF ReplayStatus
  <2>1. UNCHANGED <<environment, table, up, raise, stops, errors>>
    BY <1>7 DEF ReplayStatus
  <2>2. CASE StatusOnline(p)
    BY <2>1, <2>2 DEF StatusOnline, Dropped, Taken, Refile, ClearOfflineAlarm
  <2>3. CASE StatusOffline(p)
    BY <2>1, <2>3 DEF StatusOffline, Dropped, Taken, Refile, StartOfflineClock
  <2> QED BY <2>2, <2>3
<1>8. CASE UNCHANGED vars
  BY <1>8 DEF vars
<1> QED
  BY <1>1, <1>2, <1>3, <1>4, <1>5, <1>6, <1>7, <1>8 DEF Next

LEMMA BrokerHolds == Names /\ Broker /\ [Next]_vars => Broker'
<1> SUFFICES ASSUME Names, Broker, [Next]_vars PROVE Broker'
  OBVIOUS
<1>1. \/ UNCHANGED retained
      \/ retained' = [retained EXCEPT ![prefix] = "offline"]
      \/ retained' = [retained EXCEPT ![prefix] = "online"]
  BY DEF Next, vars, environment, GoMute, LoseLink, Relapse, WillPublished, Reconnect, Publish, ReplayStatus,
         ReplayKey, DetectSilence, DetectOffline, SelectRow, InsertRow, AnnounceOpen, CloseRow,
         AnnounceClosed, RejectRaise, RejectClear, Stop, Start, OnConnect, TenantStatus
<1> QED BY <1>1 DEF Names, Broker

LEMMA SortsHold == Sorts /\ [Next]_vars => Sorts'
  BY NamesHold, FlagsHold, BrokerHolds DEF Sorts

\* Types, of every reachable state, under every combination of disturbances.
THEOREM TypeCorrect == Spec => []TypeOK
<1>1. Init => Sorts /\ Counts
  BY Bounds DEF Init, Sorts, Names, Flags, Broker, Counts, Prefixes
<1>2. Sorts /\ Counts => TypeOK
  BY DEF Sorts, Names, Flags, Broker, Counts, TypeOK
<1> QED BY <1>1, <1>2, CountsHold, SortsHold, PTL DEF Spec
(* Without overlap: one query at a time, rows and announcements in turn; a   *)
(* closing under way was asked for by a message; and a controller held to be *)
(* online has no row, or one that is being closed.                           *)
OneQuery == /\ raise = "idle" \/ clear = "idle"
            /\ ~up => raise = "idle" /\ clear = "idle"
Heard    == said <=> ~lost
InTurn   == /\ rows \in {0, 1}
            /\ raise \in {"idle", "select"} /\ clear \in {"idle", "update"} => (Heard <=> rows = 1)
            /\ raise = "insert" => rows = 0 /\ ~Heard
            /\ raise = "announce" => rows = 1 /\ ~Heard
            /\ clear = "announce" => rows = 0 /\ Heard
Asked    == /\ clear = "update" => spoke \/ stops > 0
            /\ replay # {} \/ ~up => stops > 0
Filed    == /\ prefix = "pending" \/ retained["pending"] # "none" \/ "pending" \in replay => turns > 0
            /\ slug = "pending" \/ tenant = "pending" => turns > 0
            /\ raise \in {"select", "insert"} => slug = "own" /\ tenant = "own"
Closing  == /\ ~serving => turns > 0
            /\ up /\ online => raise = "idle" /\ (rows = 0 \/ clear = "update" \/ Disturbed)

CalmInv == Sorts /\ Counts /\ OneQuery /\ InTurn /\ Asked /\ Filed /\ Closing

LEMMA CalmStep ==
  ASSUME "overlap" \notin Faults
  PROVE  CalmInv /\ [Next]_vars => CalmInv'
<1> SUFFICES ASSUME CalmInv, [Next]_vars PROVE CalmInv'
  OBVIOUS
<1>0. Sorts' /\ Counts' /\ Sorts /\ Counts
  BY SortsHold, CountsHold DEF CalmInv
<1>a. /\ stops \in Nat /\ errors \in Nat /\ turns \in Nat /\ 0 < MaxRows
      /\ rows = 0 => (rows < MaxRows /\ rows + 1 = 1)
  BY <1>0, OfflineConstants DEF Counts
<1> SUFFICES OneQuery' /\ InTurn' /\ Asked' /\ Filed' /\ Closing'
  BY <1>0 DEF CalmInv
<1> USE <1>0, <1>a DEF CalmInv, Sorts, Names, Flags, OneQuery, InTurn, Heard, Asked, Filed, Closing, Disturbed, MayHandle, Quiet,
        environment, clock, file, table, Prefixes, Retained, Dropped, Taken, Refile, StatusOnline,
            StatusOffline, StateKey, Heartbeat, Revive,
        StartOfflineClock, ClearOfflineAlarm
<1>1. CASE GoMute
  BY <1>1 DEF GoMute
<1>2. CASE LoseLink
  BY <1>2 DEF LoseLink
<1>3. CASE WillPublished
  BY <1>3 DEF WillPublished
<1>4. CASE Reconnect
  <2>1. OneQuery'
    BY <1>4 DEF Reconnect
  <2>2. InTurn'
    BY <1>4 DEF Reconnect
  <2>3. Asked'
    BY <1>4 DEF Reconnect
  <2>4. Filed'
    BY <1>4 DEF Reconnect
  <2>5. Closing'
    BY <1>4 DEF Reconnect
  <2> QED BY <2>1, <2>2, <2>3, <2>4, <2>5
<1>5. CASE Publish
  <2>1. OneQuery'
    BY <1>5 DEF Publish
  <2>2. InTurn'
    BY <1>5 DEF Publish
  <2>3. Asked'
    BY <1>5 DEF Publish
  <2>4. Filed'
    BY <1>5 DEF Publish
  <2>5. Closing'
    BY <1>5 DEF Publish
  <2> QED BY <2>1, <2>2, <2>3, <2>4, <2>5
<1>6. CASE ReplayStatus
  <2> PICK p \in replay \cap Prefixes :
         /\ replay' = replay \ {p}
         /\ \/ retained[p] = "online" /\ StatusOnline(p)
            \/ retained[p] = "offline" /\ StatusOffline(p)
    BY <1>6 DEF ReplayStatus
  <2>0. up /\ Quiet /\ UNCHANGED <<environment, table, up, raise, stops, errors>>
    BY <1>6 DEF ReplayStatus
  <2>1. OneQuery'
    BY <2>0
  <2>2. InTurn'
    BY <2>0
  <2>3. Asked'
    BY <2>0
  <2>4. Filed'
    BY <2>0
  <2>5. Closing'
    BY <2>0
  <2> QED BY <2>1, <2>2, <2>3, <2>4, <2>5
<1>7. CASE ReplayKey
  <2>1. OneQuery'
    BY <1>7 DEF ReplayKey
  <2>2. InTurn'
    BY <1>7 DEF ReplayKey
  <2>3. Asked'
    BY <1>7 DEF ReplayKey
  <2>4. Filed'
    BY <1>7 DEF ReplayKey
  <2>5. Closing'
    BY <1>7 DEF ReplayKey
  <2> QED BY <2>1, <2>2, <2>3, <2>4, <2>5
<1>8. CASE DetectSilence
  BY <1>8 DEF DetectSilence
<1>9. CASE DetectOffline
  BY <1>9 DEF DetectOffline
<1>10. CASE SelectRow
  BY <1>10 DEF SelectRow
<1>11. CASE InsertRow
  BY <1>11 DEF InsertRow
<1>12. CASE AnnounceOpen
  BY <1>12 DEF AnnounceOpen
<1>13. CASE CloseRow
  BY <1>13 DEF CloseRow
<1>14. CASE AnnounceClosed
  BY <1>14 DEF AnnounceClosed
<1>15. CASE RejectRaise
  BY <1>15 DEF RejectRaise
<1>16. CASE RejectClear
  BY <1>16 DEF RejectClear
<1>17. CASE Stop
  <2>1. OneQuery'
    BY <1>17 DEF Stop
  <2>2. InTurn'
    BY <1>17 DEF Stop
  <2>3. Asked'
    BY <1>17 DEF Stop
  <2>4. Filed'
    BY <1>17 DEF Stop
  <2>5. Closing'
    BY <1>17 DEF Stop
  <2> QED BY <2>1, <2>2, <2>3, <2>4, <2>5
<1>18. CASE Start
  BY <1>18 DEF Start
<1>19. CASE OnConnect
  BY <1>19 DEF OnConnect
<1>20. CASE TenantStatus
  BY <1>20 DEF TenantStatus
<1>22. CASE Relapse
  BY <1>22 DEF Relapse
<1>21. CASE UNCHANGED vars
  BY <1>21 DEF vars
<1> QED
  BY <1>1, <1>2, <1>3, <1>4, <1>5, <1>6, <1>7, <1>8, <1>9, <1>10, <1>11, <1>12, <1>13, <1>14, <1>15, <1>16, <1>17, <1>18, <1>19, <1>20, <1>21, <1>22 DEF Next

LEMMA CalmInit == Init => CalmInv
<1> SUFFICES ASSUME Init PROVE CalmInv
  OBVIOUS
<1>1. Sorts /\ Counts
  BY Bounds DEF Init, Sorts, Names, Flags, Broker, Counts, Prefixes
<1>2. OneQuery /\ InTurn /\ Asked /\ Filed /\ Closing
  BY DEF Prefixes, Init, OneQuery, InTurn, Heard, Asked, Filed, Closing, Disturbed
<1> QED BY <1>1, <1>2 DEF CalmInv

\* Without overlap, a controller that the backend holds to be online has no open alarm,
\* unless a query was rejected or the organisation has been suspended.
THEOREM OnlineHasNoAlarm ==
  ASSUME "overlap" \notin Faults
  PROVE  Spec => []OpenMeansOffline
<1>1. CalmInv => OpenMeansOffline
  BY DEF CalmInv, Closing, OpenMeansOffline, Quiet
<1> QED BY <1>1, CalmInit, CalmStep, PTL DEF Spec

\* Without overlap, an alarm is closed only after the controller published something,
\* or after a restart or a reconnection of the backend.
THEOREM OnlyTheDeviceCloses ==
  ASSUME "overlap" \notin Faults
  PROVE  Spec => ClosedByDevice
<1>1. CalmInv /\ [Next]_vars => [rows > 0 /\ rows' = 0 => spoke \/ stops > 0]_vars
  <2> SUFFICES ASSUME CalmInv, Next, rows > 0, rows' = 0 PROVE spoke \/ stops > 0
    OBVIOUS
  <2>1. rows \in Nat /\ rows + 1 # 0 /\ MaxRows # 0
    BY OfflineConstants DEF CalmInv, Counts
  <2>2. rows' # rows
    BY <2>1
  <2>3. CloseRow
    BY <2>1, <2>2
    DEF Next, table, GoMute, LoseLink, Relapse, WillPublished, Reconnect, Publish, ReplayStatus, ReplayKey,
        DetectSilence, DetectOffline, SelectRow, InsertRow, AnnounceOpen, AnnounceClosed,
        RejectRaise, RejectClear, Stop, Start, OnConnect, TenantStatus
  <2> QED BY <2>3 DEF CloseRow, CalmInv, Asked
<1> QED BY <1>1, CalmInit, CalmStep, PTL DEF Spec, ClosedByDevice

\* Without overlap, the alarms table and the announcements implement the ledger:
\* every step opens, announces, closes or announces, in turn, or changes neither;
\* no second row, no announcement repeated or out of turn, and none missing but
\* one that a stop of the backend cut off from its row (lost).
THEOREM LedgerImplemented ==
  ASSUME "overlap" \notin Faults
  PROVE  Spec => Ledger!Init /\ [][Ledger!Next]_(Ledger!ledger)
<1>1. Init => Ledger!Init
  BY DEF Init, Ledger!Init
<1>2. CalmInv /\ [Next]_vars => [Ledger!Next]_(Ledger!ledger)
  <2> SUFFICES ASSUME CalmInv, [Next]_vars PROVE Ledger!Next \/ UNCHANGED <<rows, Heard>>
    BY DEF Ledger!ledger, Heard
  <2> USE DEF Ledger!Next, Ledger!Open, Ledger!AnnounceOpen, Ledger!Close, Ledger!AnnounceClosed, Heard
  <2>1. CASE InsertRow
    <3>1. rows = 0 /\ ~Heard /\ rows' = rows + 1 /\ UNCHANGED <<said, lost>>
      BY <2>1, OfflineConstants DEF InsertRow, CalmInv, InTurn, Filed
    <3> QED BY <3>1
  <2>2. CASE AnnounceOpen
    BY <2>2 DEF AnnounceOpen, CalmInv, InTurn
  <2>3. CASE CloseRow
    BY <2>3 DEF CloseRow, CalmInv, OneQuery, InTurn
  <2>4. CASE AnnounceClosed
    BY <2>4 DEF AnnounceClosed, CalmInv, InTurn
  <2>5. CASE Stop
    <3>1. UNCHANGED <<rows, said>> /\ lost' = IF raise = "announce" \/ clear = "announce" THEN ~lost ELSE lost
      BY <2>5 DEF Stop
    <3>2. CASE raise = "announce"
      BY <3>1, <3>2 DEF CalmInv, InTurn, Sorts, Flags
    <3>3. CASE clear = "announce"
      BY <3>1, <3>3 DEF CalmInv, InTurn, Sorts, Flags
    <3> QED BY <3>1, <3>2, <3>3
  <2>6. CASE ~(InsertRow \/ AnnounceOpen \/ CloseRow \/ AnnounceClosed \/ Stop)
    <3>1. UNCHANGED <<rows, said, lost>>
      BY <2>6
      DEF Next, vars, table, GoMute, LoseLink, Relapse, WillPublished, Reconnect, Publish, ReplayStatus, ReplayKey,
          DetectSilence, DetectOffline, SelectRow, RejectRaise, RejectClear, Start, OnConnect, TenantStatus
    <3> QED BY <3>1
  <2> QED BY <2>1, <2>2, <2>3, <2>4, <2>5, <2>6
<1> QED BY <1>1, <1>2, CalmInit, CalmStep, PTL DEF Spec
=============================================================================
