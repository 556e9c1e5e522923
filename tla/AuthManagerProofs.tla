------------------------- MODULE AuthManagerProofs -------------------------
(***************************************************************************)
(* Proofs about AuthManager, for every set of addresses, every choice of   *)
(* thresholds, periods and windows, and every timing of the cleanup.       *)
(***************************************************************************)
EXTENDS AuthManager, TLAPS

USE DEF None

(* The dictionary operators: entries and types.                            *)
LEMMA WithoutEntry ==
  ASSUME NEW d, NEW gone
  PROVE  /\ DOMAIN Without(d, gone) = DOMAIN d \ gone
         /\ \A x \in DOMAIN d \ gone : Without(d, gone)[x] = d[x]
  BY DEF Without

LEMMA PutType ==
  ASSUME NEW R, NEW d, IsDict(d, R), NEW k \in IPs, NEW v \in R
  PROVE  IsDict(Put(d, k, v), R)
<1>1. PICK known \in SUBSET IPs : d \in [known -> R]
  BY DEF IsDict
<1>2. Put(d, k, v) \in [known \cup {k} -> R]
  BY <1>1 DEF Put
<1> QED
  BY <1>2 DEF IsDict

LEMMA WithoutType ==
  ASSUME NEW R, NEW d, IsDict(d, R), NEW gone
  PROVE  IsDict(Without(d, gone), R)
<1>1. PICK known \in SUBSET IPs : d \in [known -> R]
  BY DEF IsDict
<1>2. Without(d, gone) \in [known \ gone -> R]
  BY <1>1 DEF Without
<1> QED
  BY <1>2 DEF IsDict

LEMMA GetType ==
  ASSUME NEW R, NEW d, IsDict(d, R), NEW k, NEW v \in R
  PROVE  Get(d, k, v) \in R
<1>1. PICK known \in SUBSET IPs : d \in [known -> R]
  BY DEF IsDict
<1> QED
  BY <1>1 DEF Get

LEMMA EmptyDict ==
  ASSUME NEW R
  PROVE  IsDict(<<>>, R)
<1>1. <<>> \in [{} -> R]
  OBVIOUS
<1> QED
  BY <1>1 DEF IsDict

LEMMA TimeFacts ==
  /\ \A t \in Time : t \in Nat /\ t >= StartTime
  /\ StartTime \in Time
  BY ConstantsAssumption DEF ConstantsAssumption, Time

LEMMA HistoryType ==
  ASSUME NEW times \in History, clock \in Time
  PROVE  /\ AddNow(times) \in History
         /\ \A window : Recent(times, window) \in History
<1>1. AddNow(times) \in History
  BY DEF History, AddNow
<1>2. ASSUME NEW window
      PROVE  Recent(times, window) \in History
  BY DEF History, Recent
<1> QED
  BY <1>1, <1>2
----------------------------------------------------------------------------
LEMMA TypeInit == Init => TypeOK
<1> SUFFICES ASSUME Init PROVE TypeOK
  OBVIOUS
<1>1. /\ IsDict(attempts, Nat) /\ IsDict(thresholds, BruteMin..BruteMax)
      /\ IsDict(triedUsers, SUBSET Users) /\ IsDict(lastSeen, Time)
      /\ IsDict(connHistory, History) /\ IsDict(lastScanLog, Time)
  BY EmptyDict DEF Init
<1>2. nextCleanup \in Nat
  BY ConstantsAssumption DEF ConstantsAssumption, Init
<1>3. NoHistory \in History
  BY DEF NoHistory, History
<1>4. /\ checks \in [IPs -> History] /\ checked \in [IPs -> Nat]
      /\ logged \in [IPs -> Seq(Time)]
      /\ tries \in [IPs -> Nat] /\ streak \in [IPs -> Nat]
      /\ lastTry \in [IPs -> Times] /\ forgotten \in [IPs -> Times]
  BY <1>3 DEF Init, Times
<1> QED
  BY <1>1, <1>2, <1>4, TimeFacts DEF Init, TypeOK

LEMMA RegisterAttemptType ==
  ASSUME TypeOK, NEW ip \in IPs, NEW user \in Users \cup {NoUser}, NEW t \in Drawn,
         RegisterAttempt(ip, user, t)
  PROVE  TypeOK'
<1>1. IsDict(attempts', Nat)
  <2>1. Get(attempts, ip, 0) \in Nat
    BY GetType DEF TypeOK
  <2> QED
    BY <2>1, PutType DEF RegisterAttempt, Counted, TypeOK
<1>2. IsDict(thresholds', BruteMin..BruteMax)
  <2>1. Get(thresholds, ip, t) \in BruteMin..BruteMax
    BY GetType DEF TypeOK, Drawn
  <2> QED
    BY <2>1, PutType DEF RegisterAttempt, TypeOK
<1>3. IsDict(triedUsers', SUBSET Users)
  <2>1. {} \in SUBSET Users
    OBVIOUS
  <2>2. Get(triedUsers, ip, {}) \in SUBSET Users
    BY <2>1, GetType DEF TypeOK
  <2>3. user # NoUser => Get(triedUsers, ip, {}) \cup {user} \in SUBSET Users
    BY <2>2
  <2> QED
    BY <2>3, PutType DEF RegisterAttempt, TypeOK
<1>4. IsDict(lastSeen', Time)
  BY PutType DEF RegisterAttempt, TypeOK
<1>5. /\ granted' \subseteq IPs
      /\ tries' \in [IPs -> Nat] /\ streak' \in [IPs -> Nat]
      /\ lastTry' \in [IPs -> Times]
  BY DEF RegisterAttempt, TypeOK, Times
<1> QED
  BY <1>1, <1>2, <1>3, <1>4, <1>5 DEF RegisterAttempt, TypeOK, scans

LEMMA CleanupType ==
  ASSUME TypeOK, Cleanup
  PROVE  TypeOK'
<1>1. /\ IsDict(attempts', Nat) /\ IsDict(thresholds', BruteMin..BruteMax)
      /\ IsDict(triedUsers', SUBSET Users) /\ IsDict(lastSeen', Time)
      /\ IsDict(lastScanLog', Time)
  BY WithoutType DEF Cleanup, Forget, TypeOK
<1>2. IsDict(connHistory', History)
  <2>1. PICK known \in SUBSET IPs : connHistory \in [known -> History]
    BY DEF TypeOK, IsDict
  <2>2. connHistory' \in [known \ Expired -> History]
    BY <2>1, HistoryType DEF Cleanup, TypeOK
  <2> QED
    BY <2>2 DEF IsDict
<1>3. nextCleanup' \in Nat
  BY ConstantsAssumption, TimeFacts DEF ConstantsAssumption, Cleanup, TypeOK
<1>4. granted' \subseteq IPs /\ forgotten' \in [IPs -> Times]
  BY DEF Cleanup, Forget, TypeOK, Times
<1> QED
  BY <1>1, <1>2, <1>3, <1>4 DEF Cleanup, TypeOK

LEMMA TypeStep == TypeOK /\ [Next]_vars => TypeOK'
<1> SUFFICES ASSUME TypeOK, [Next]_vars
             PROVE  TypeOK'
  OBVIOUS
<1>1. ASSUME NEW ip \in IPs, NEW user \in Users \cup {NoUser}, NEW t \in Drawn,
             RegisterAttempt(ip, user, t)
      PROVE  TypeOK'
  BY <1>1, RegisterAttemptType
<1>2. ASSUME NEW ip \in IPs, CheckAggressiveScan(ip)
      PROVE  TypeOK'
  <2>1. NoHistory \in History
    BY DEF NoHistory, History
  <2>2. Recent(AddNow(Get(connHistory, ip, NoHistory)), ScanWindow) \in History
    BY <2>1, GetType, HistoryType DEF TypeOK
  <2>3. IsDict(connHistory', History)
    BY <1>2, <2>2, PutType DEF CheckAggressiveScan, TypeOK
  <2>4. checks' \in [IPs -> History] /\ checked' \in [IPs -> Nat]
    BY <1>2, HistoryType DEF CheckAggressiveScan, TypeOK
  <2> QED
    BY <1>2, <2>3, <2>4 DEF CheckAggressiveScan, TypeOK, records
<1>3. ASSUME NEW ip \in IPs, ShouldLogScan(ip)
      PROVE  TypeOK'
  <2>1. IsDict(lastScanLog', Time)
    BY <1>3, PutType DEF ShouldLogScan, TypeOK
  <2>2. logged' \in [IPs -> Seq(Time)]
    BY <1>3 DEF ShouldLogScan, TypeOK
  <2> QED
    BY <1>3, <2>1, <2>2 DEF ShouldLogScan, TypeOK, records
<1>4. CASE Cleanup
  BY <1>4, CleanupType
<1>5. CASE Tick
  <2>1. clock' \in Time
    BY <1>5, ConstantsAssumption DEF Tick, TypeOK, Time, ConstantsAssumption
  <2> QED
    BY <1>5, <2>1 DEF Tick, TypeOK, records, scans, history
<1>6. CASE UNCHANGED vars
  BY <1>6 DEF vars, TypeOK, records, scans, history
<1> QED
  BY <1>1, <1>2, <1>3, <1>4, <1>5, <1>6 DEF Next

(* The dictionaries map addresses to values of their kind, and every       *)
(* threshold stays in the configured range (auth_manager.py:8-108).        *)
THEOREM TypeCorrect == Spec => []TypeOK
  BY TypeInit, TypeStep, PTL DEF Spec
----------------------------------------------------------------------------
LEMMA RecordsAgreeStep == TypeOK /\ RecordsAgree /\ [Next]_vars => RecordsAgree'
<1> SUFFICES ASSUME TypeOK, RecordsAgree, [Next]_vars
             PROVE  RecordsAgree'
  OBVIOUS
<1>1. ASSUME NEW ip \in IPs, NEW user, NEW t, RegisterAttempt(ip, user, t)
      PROVE  RecordsAgree'
  <2>1. /\ DOMAIN attempts' = DOMAIN attempts \cup {ip}
        /\ DOMAIN thresholds' = DOMAIN attempts \cup {ip}
        /\ DOMAIN lastSeen' = DOMAIN attempts \cup {ip}
        /\ DOMAIN triedUsers' \subseteq DOMAIN attempts \cup {ip}
    <3>1. /\ DOMAIN attempts' = DOMAIN attempts \cup {ip}
          /\ DOMAIN thresholds' = DOMAIN thresholds \cup {ip}
          /\ DOMAIN lastSeen' = DOMAIN lastSeen \cup {ip}
      BY <1>1 DEF RegisterAttempt, Put
    <3>2. DOMAIN triedUsers' \subseteq DOMAIN triedUsers \cup {ip}
      BY <1>1 DEF RegisterAttempt, Put
    <3> QED
      BY <3>1, <3>2 DEF RecordsAgree
  <2>2. \A x \in DOMAIN attempts : x # ip => /\ attempts'[x] = attempts[x]
                                            /\ thresholds'[x] = thresholds[x]
    BY <1>1 DEF RegisterAttempt, Put, RecordsAgree
  <2>3. ip \in granted => attempts'[ip] >= thresholds'[ip]
    <3> SUFFICES ASSUME ip \in granted
                 PROVE  attempts'[ip] >= thresholds'[ip]
      OBVIOUS
    <3>1. /\ ip \in DOMAIN attempts /\ ip \in DOMAIN thresholds
          /\ attempts[ip] >= thresholds[ip]
      BY DEF RecordsAgree
    <3>2. attempts'[ip] = attempts[ip] + 1 /\ thresholds'[ip] = thresholds[ip]
      BY <1>1, <3>1 DEF RegisterAttempt, Counted, Put, Get
    <3>3. attempts[ip] \in Nat /\ thresholds[ip] \in BruteMin..BruteMax
      BY <3>1 DEF TypeOK, IsDict
    <3> QED
      BY <3>1, <3>2, <3>3, ConstantsAssumption DEF ConstantsAssumption
  <2>4. granted' = {x \in DOMAIN attempts' : attempts'[x] >= thresholds'[x]}
    <3>1. \A x : x # ip => (x \in granted' <=> x \in granted)
      BY <1>1 DEF RegisterAttempt
    <3>2. ip \in granted' <=> attempts'[ip] >= thresholds'[ip]
      BY <1>1, <2>3 DEF RegisterAttempt
    <3>3. \A x : x \in granted <=> x \in DOMAIN attempts /\ attempts[x] >= thresholds[x]
      BY DEF RecordsAgree
    <3>4. \A x : x \in granted' <=> x \in DOMAIN attempts' /\ attempts'[x] >= thresholds'[x]
      BY <2>1, <2>2, <3>1, <3>2, <3>3
    <3> QED
      BY <3>4
  <2> QED
    BY <2>1, <2>4 DEF RecordsAgree
<1>2. CASE Cleanup
  <2>1. \A d : /\ DOMAIN Without(d, Expired) = DOMAIN d \ Expired
               /\ \A x \in DOMAIN d \ Expired : Without(d, Expired)[x] = d[x]
    BY WithoutEntry
  <2>2. /\ DOMAIN attempts' = DOMAIN attempts \ Expired
        /\ DOMAIN thresholds' = DOMAIN thresholds \ Expired
        /\ DOMAIN lastSeen' = DOMAIN lastSeen \ Expired
        /\ DOMAIN triedUsers' = DOMAIN triedUsers \ Expired
        /\ \A x \in DOMAIN attempts \ Expired : attempts'[x] = attempts[x]
        /\ \A x \in DOMAIN thresholds \ Expired : thresholds'[x] = thresholds[x]
        /\ granted' = granted \ Expired
    BY <1>2, <2>1 DEF Cleanup, Forget
  <2> QED
    BY <2>2 DEF RecordsAgree
<1>3. CASE UNCHANGED records
  BY <1>3 DEF records, RecordsAgree
<1> QED
  BY <1>1, <1>2, <1>3
  DEF Next, CheckAggressiveScan, ShouldLogScan, Tick, vars

LEMMA RecordsAgreeInit == Init => RecordsAgree
  BY DEF Init, RecordsAgree

(* The records of an address live and die together and its grant is the    *)
(* comparison of two of them, whatever attempts and cleanups there are     *)
(* (auth_manager.py:19-43, 56-74).                                         *)
THEOREM RecordsAlwaysAgree == Spec => []RecordsAgree
  BY TypeInit, TypeStep, RecordsAgreeInit, RecordsAgreeStep, PTL DEF Spec
----------------------------------------------------------------------------
(* The record of an address that paused no longer than Retention is there, *)
(* and has counted every attempt of the streak.                            *)
Fresh(ip) == lastTry[ip] # None /\ clock - lastTry[ip] <= Retention

StreakCounted ==
  \A ip \in IPs :
    /\ ip \in DOMAIN lastSeen => lastSeen[ip] = lastTry[ip]
    /\ Fresh(ip) => ip \in DOMAIN attempts /\ attempts[ip] >= streak[ip]

LEMMA StreakCountedStep ==
  TypeOK /\ RecordsAgree /\ StreakCounted /\ [Next]_vars => StreakCounted'
<1> SUFFICES ASSUME TypeOK, RecordsAgree, StreakCounted, [Next]_vars
             PROVE  StreakCounted'
  OBVIOUS
<1>0. /\ clock \in Nat /\ Retention \in Nat
      /\ \A ip \in IPs : lastTry[ip] \in Int /\ streak[ip] \in Nat
      /\ \A ip \in DOMAIN attempts : attempts[ip] \in Nat
  <2>1. clock \in Nat /\ Retention \in Nat
    BY ConstantsAssumption, TimeFacts DEF ConstantsAssumption, TypeOK
  <2>2. \A ip \in IPs : lastTry[ip] \in Int /\ streak[ip] \in Nat
    BY TimeFacts DEF TypeOK, Times
  <2>3. \A ip \in DOMAIN attempts : attempts[ip] \in Nat
    BY DEF TypeOK, IsDict
  <2> QED
    BY <2>1, <2>2, <2>3
<1>1. ASSUME NEW ip \in IPs, NEW user, NEW t, RegisterAttempt(ip, user, t)
      PROVE  StreakCounted'
  <2>1. /\ ip \in DOMAIN lastSeen' /\ lastSeen'[ip] = clock
        /\ ip \in DOMAIN attempts' /\ attempts'[ip] = Get(attempts, ip, 0) + 1
        /\ lastTry'[ip] = clock
        /\ streak'[ip] = IF Fresh(ip) THEN streak[ip] + 1 ELSE 1
    BY <1>1 DEF RegisterAttempt, Counted, Put, TypeOK, Fresh
  <2>2. attempts'[ip] >= streak'[ip]
    <3>1. CASE Fresh(ip)
      BY <1>0, <2>1, <3>1 DEF StreakCounted, Get
    <3>2. CASE ~Fresh(ip)
      BY <1>0, <2>1, <3>2 DEF Get
    <3> QED
      BY <3>1, <3>2
  <2>3. ASSUME NEW x \in IPs, x # ip
        PROVE  /\ (x \in DOMAIN lastSeen' <=> x \in DOMAIN lastSeen)
               /\ (x \in DOMAIN lastSeen => lastSeen'[x] = lastSeen[x])
               /\ (x \in DOMAIN attempts' <=> x \in DOMAIN attempts)
               /\ (x \in DOMAIN attempts => attempts'[x] = attempts[x])
               /\ lastTry'[x] = lastTry[x] /\ streak'[x] = streak[x] /\ clock' = clock
    BY <1>1, <2>3 DEF RegisterAttempt, Put, TypeOK
  <2> QED
    BY <1>1, <2>1, <2>2, <2>3 DEF StreakCounted, Fresh
<1>2. CASE Cleanup
  <2>1. /\ DOMAIN lastSeen' = DOMAIN lastSeen \ Expired
        /\ DOMAIN attempts' = DOMAIN attempts \ Expired
        /\ \A x \in DOMAIN lastSeen \ Expired : lastSeen'[x] = lastSeen[x]
        /\ \A x \in DOMAIN attempts \ Expired : attempts'[x] = attempts[x]
        /\ UNCHANGED <<clock, lastTry, streak>>
    BY <1>2 DEF Cleanup, Forget, Without
  <2>2. ASSUME NEW x \in IPs, Fresh(x)
        PROVE  x \in DOMAIN attempts /\ x \notin Expired
    BY <1>0, <2>2 DEF StreakCounted, RecordsAgree, Fresh, Expired
  <2> QED
    BY <2>1, <2>2 DEF StreakCounted, Fresh
<1>3. CASE Tick
  <2>1. \A ip \in IPs : Fresh(ip)' => Fresh(ip)
    BY <1>0, <1>3 DEF Tick, history, Fresh
  <2> QED
    BY <1>3, <2>1 DEF Tick, records, history, StreakCounted
<1>4. CASE UNCHANGED <<clock, records, tries, streak, lastTry>>
  BY <1>4 DEF records, StreakCounted, Fresh
<1> QED
  BY <1>1, <1>2, <1>3, <1>4
  DEF Next, CheckAggressiveScan, ShouldLogScan, vars, history

(* BRUTE_MAX attempts without a pause longer than the retention period     *)
(* always end with the grant (auth_manager.py:29-42, 59-67).               *)
THEOREM PersistenceIsGranted == Spec => []PersistentIsGranted
<1>1. Init => StreakCounted
  BY DEF Init, StreakCounted, Fresh
<1>2. TypeOK /\ RecordsAgree /\ StreakCounted => PersistentIsGranted
  <2> SUFFICES ASSUME TypeOK, RecordsAgree, StreakCounted, NEW ip \in IPs,
                      streak[ip] >= BruteMax, Fresh(ip)
               PROVE  ip \in granted
    BY DEF PersistentIsGranted, Fresh
  <2>1. ip \in DOMAIN attempts /\ ip \in DOMAIN thresholds /\ attempts[ip] >= streak[ip]
    BY DEF StreakCounted, RecordsAgree
  <2>2. attempts[ip] \in Nat /\ thresholds[ip] \in BruteMin..BruteMax /\ streak[ip] \in Nat
    BY <2>1 DEF TypeOK, IsDict
  <2>3. attempts[ip] >= thresholds[ip]
    BY <2>1, <2>2, ConstantsAssumption DEF ConstantsAssumption
  <2> QED
    BY <2>1, <2>3 DEF RecordsAgree
<1> QED
  BY <1>1, <1>2, TypeInit, TypeStep, RecordsAgreeInit, RecordsAgreeStep,
     StreakCountedStep, PTL DEF Spec
----------------------------------------------------------------------------
(* should_log_scan remembers its last True of an address, or the address   *)
(* was forgotten since.                                                    *)
LastLogged(ip) == logged[ip][Len(logged[ip])]

LogRemembered ==
  \A ip \in IPs : logged[ip] # <<>> =>
    /\ LastLogged(ip) \in Time /\ LastLogged(ip) <= clock
    /\ \/ ip \in DOMAIN lastScanLog /\ lastScanLog[ip] = LastLogged(ip)
       \/ forgotten[ip] >= LastLogged(ip)

LEMMA LogRememberedStep == TypeOK /\ LogRemembered /\ [Next]_vars => LogRemembered'
<1> SUFFICES ASSUME TypeOK, LogRemembered, [Next]_vars
             PROVE  LogRemembered'
  OBVIOUS
<1>0. clock \in Nat /\ clock \in Time /\ clock <= clock
  BY TimeFacts DEF TypeOK
<1>1. ASSUME NEW ip \in IPs, ShouldLogScan(ip)
      PROVE  LogRemembered'
  <2>1. LastLogged(ip)' = clock
    <3>1. logged'[ip] = Append(logged[ip], clock) /\ logged[ip] \in Seq(Time)
      BY <1>1 DEF ShouldLogScan, TypeOK
    <3>2. logged'[ip][Len(logged'[ip])] = clock
      BY <3>1, <1>0
    <3> QED
      BY <3>2 DEF LastLogged
  <2>2. ip \in DOMAIN lastScanLog' /\ lastScanLog'[ip] = clock
    BY <1>1 DEF ShouldLogScan, Put
  <2>3. ASSUME NEW x \in IPs, x # ip
        PROVE  /\ logged'[x] = logged[x] /\ forgotten'[x] = forgotten[x] /\ clock' = clock
               /\ x \in DOMAIN lastScanLog =>
                    x \in DOMAIN lastScanLog' /\ lastScanLog'[x] = lastScanLog[x]
    BY <1>1, <2>3 DEF ShouldLogScan, Put, TypeOK
  <2>4. clock' = clock
    BY <1>1 DEF ShouldLogScan
  <2> QED
    BY <1>0, <2>1, <2>2, <2>3, <2>4 DEF LogRemembered, LastLogged
<1>2. CASE Cleanup
  <2>1. UNCHANGED <<clock, logged>>
    BY <1>2 DEF Cleanup
  <2>2. ASSUME NEW x \in IPs
        PROVE  IF x \in Expired THEN forgotten'[x] = clock
               ELSE /\ forgotten'[x] = forgotten[x]
                    /\ x \in DOMAIN lastScanLog =>
                         x \in DOMAIN lastScanLog' /\ lastScanLog'[x] = lastScanLog[x]
    BY <1>2, <2>2 DEF Cleanup, Forget, Without
  <2>3. \A x \in IPs : LastLogged(x)' = LastLogged(x)
    BY <2>1 DEF LastLogged
  <2> QED
    BY <2>1, <2>2, <2>3 DEF LogRemembered
<1>3. CASE Tick
  <2>1. clock' = clock + 1 /\ UNCHANGED <<logged, lastScanLog, forgotten>>
    BY <1>3 DEF Tick, scans, history
  <2>2. \A x \in IPs : LastLogged(x)' = LastLogged(x)
    BY <2>1 DEF LastLogged
  <2>3. ASSUME NEW x \in IPs, logged[x] # <<>>
        PROVE  LastLogged(x) <= clock + 1
    <3>1. LastLogged(x) \in Nat /\ LastLogged(x) <= clock
      BY <2>3, TimeFacts DEF LogRemembered
    <3> QED
      BY <1>0, <3>1
  <2> QED
    BY <2>1, <2>2, <2>3 DEF LogRemembered
<1>4. CASE UNCHANGED <<clock, logged, lastScanLog, forgotten>>
  BY <1>4 DEF LogRemembered, LastLogged
<1> QED
  BY <1>1, <1>2, <1>3, <1>4
  DEF Next, RegisterAttempt, CheckAggressiveScan, vars, scans, history

(* Scan events of an address keep their distance, but for the addresses    *)
(* the cleanup forgot in between (auth_manager.py:73, 102-108).            *)
THEOREM ScanGapIsKept == Spec => ScanGapKept
<1>1. Init => LogRemembered
  BY DEF Init, LogRemembered
<1>2. TypeOK /\ LogRemembered /\ [Next]_vars =>
        [\A ip \in IPs :
           logged'[ip] # logged[ip] /\ logged[ip] # <<>> =>
             LET last == logged[ip][Len(logged[ip])]
             IN  clock - last > ScanLogGap \/ forgotten[ip] >= last]_vars
  <2> SUFFICES ASSUME TypeOK, LogRemembered, [Next]_vars, NEW ip \in IPs,
                      logged'[ip] # logged[ip], logged[ip] # <<>>
               PROVE  clock - LastLogged(ip) > ScanLogGap \/ forgotten[ip] >= LastLogged(ip)
    BY DEF LastLogged
  <2>1. \E x \in IPs : ShouldLogScan(x)
    BY DEF Next, RegisterAttempt, CheckAggressiveScan, Cleanup, Tick, vars, history
  <2>2. ShouldLogScan(ip)
    BY <2>1 DEF ShouldLogScan, TypeOK
  <2>3. CASE ip \in DOMAIN lastScanLog /\ lastScanLog[ip] = LastLogged(ip)
    BY <2>2, <2>3 DEF ShouldLogScan, LogDue, Get
  <2> QED
    BY <2>3 DEF LogRemembered
<1> QED
  BY <1>1, <1>2, TypeInit, TypeStep, LogRememberedStep, PTL DEF Spec, ScanGapKept
----------------------------------------------------------------------------
(* Within the window the history of an address has every call, but for     *)
(* those a cleanup took away with its records; it never has more.          *)
HistoryOf(ip) == Get(connHistory, ip, NoHistory)

WindowKeptOf(ip) ==
  /\ forgotten[ip] # None => forgotten[ip] \in Time /\ forgotten[ip] <= clock
  /\ \A t \in Time :
       /\ HistoryOf(ip)[t] <= checks[ip][t]
       /\ t > clock => checks[ip][t] = 0
       /\ clock - t < ScanWindow =>
            \/ HistoryOf(ip)[t] = checks[ip][t]
            \/ forgotten[ip] # None /\ t <= forgotten[ip]

WindowKept == \A ip \in IPs : WindowKeptOf(ip)

LEMMA WindowTypes ==
  ASSUME TypeOK
  PROVE  /\ clock \in Time /\ clock \in Nat
         /\ ScanWindow \in Nat /\ KeepWindow \in Nat /\ ScanWindow <= KeepWindow
         /\ \A ip \in IPs, t \in Time : HistoryOf(ip)[t] \in Nat /\ checks[ip][t] \in Nat
<1>1. NoHistory \in History
  BY DEF NoHistory, History
<1>2. \A ip \in IPs : HistoryOf(ip) \in History /\ checks[ip] \in History
  BY <1>1, GetType DEF TypeOK, HistoryOf
<1>3. \A ip \in IPs, t \in Time : HistoryOf(ip)[t] \in Nat /\ checks[ip][t] \in Nat
  BY <1>2 DEF History
<1> QED
  BY <1>3, TimeFacts, ConstantsAssumption DEF ConstantsAssumption, TypeOK

LEMMA WindowKeptStep == TypeOK /\ WindowKept /\ [Next]_vars => WindowKept'
<1> SUFFICES ASSUME TypeOK, WindowKept, [Next]_vars
             PROVE  WindowKept'
  OBVIOUS
<1>1. ASSUME NEW ip \in IPs, CheckAggressiveScan(ip)
      PROVE  WindowKept'
  <2>1. UNCHANGED <<clock, forgotten>>
    BY <1>1 DEF CheckAggressiveScan
  <2>2. ASSUME NEW x \in IPs, x # ip
        PROVE  HistoryOf(x)' = HistoryOf(x) /\ checks'[x] = checks[x]
    BY <1>1, <2>2 DEF CheckAggressiveScan, HistoryOf, Get, Put, TypeOK
  <2>3. /\ HistoryOf(ip)' = Recent(AddNow(HistoryOf(ip)), ScanWindow)
        /\ checks'[ip] = AddNow(checks[ip])
    BY <1>1 DEF CheckAggressiveScan, HistoryOf, Get, Put, TypeOK
  <2>4. NoHistory \in History
    BY DEF NoHistory, History
  <2>5. HistoryOf(ip) \in History /\ checks[ip] \in History
    BY <2>4, GetType DEF TypeOK, HistoryOf
  <2>6. ASSUME NEW t \in Time
        PROVE  /\ checks'[ip][t] = IF t = clock THEN checks[ip][t] + 1 ELSE checks[ip][t]
               /\ HistoryOf(ip)'[t] =
                    IF clock - t < ScanWindow
                    THEN IF t = clock THEN HistoryOf(ip)[t] + 1 ELSE HistoryOf(ip)[t]
                    ELSE 0
    BY <2>3, <2>5 DEF Recent, AddNow, History
  <2> QED
    BY <2>1, <2>2, <2>6, WindowTypes DEF WindowKept, WindowKeptOf
<1>2. CASE Cleanup
  <2>1. UNCHANGED <<clock, checks>>
    BY <1>2 DEF Cleanup
  <2>2. ASSUME NEW x \in IPs, x \in Expired
        PROVE  forgotten'[x] = clock /\ \A t \in Time : HistoryOf(x)'[t] = 0
    BY <1>2, <2>2 DEF Cleanup, HistoryOf, Get, NoHistory
  <2>3. ASSUME NEW x \in IPs, x \notin Expired, NEW t \in Time
        PROVE  /\ forgotten'[x] = forgotten[x]
               /\ HistoryOf(x)'[t] = IF clock - t < KeepWindow THEN HistoryOf(x)[t] ELSE 0
    <3>1. CASE x \in DOMAIN connHistory
      BY <1>2, <2>3, <3>1 DEF Cleanup, HistoryOf, Get, Recent
    <3>2. CASE x \notin DOMAIN connHistory
      BY <1>2, <2>3, <3>2 DEF Cleanup, HistoryOf, Get, NoHistory
    <3> QED
      BY <3>1, <3>2
  <2>4. ASSUME NEW x \in IPs, x \in Expired
        PROVE  WindowKeptOf(x)'
    BY <2>1, <2>2, <2>4, WindowTypes, TimeFacts DEF WindowKept, WindowKeptOf
  <2>5. ASSUME NEW x \in IPs, x \notin Expired
        PROVE  WindowKeptOf(x)'
    BY <2>1, <2>3, <2>5, WindowTypes, TimeFacts DEF WindowKept, WindowKeptOf
  <2> QED
    BY <2>4, <2>5 DEF WindowKept
<1>3. CASE Tick
  <2>1. clock' = clock + 1 /\ UNCHANGED <<connHistory, checks, forgotten>>
    BY <1>3 DEF Tick, scans, history
  <2>2. \A x \in IPs : HistoryOf(x)' = HistoryOf(x)
    BY <2>1 DEF HistoryOf
  <2>3. ASSUME NEW x \in IPs
        PROVE  WindowKeptOf(x)'
    <3>1. WindowKeptOf(x)
      BY <2>3 DEF WindowKept
    <3>2. /\ clock' = clock + 1 /\ forgotten'[x] = forgotten[x] /\ checks'[x] = checks[x]
          /\ HistoryOf(x)' = HistoryOf(x)
      BY <2>1, <2>2
    <3>3. forgotten'[x] # None => forgotten'[x] \in Time /\ forgotten'[x] <= clock'
      <4>1. forgotten[x] # None => forgotten[x] \in Nat /\ forgotten[x] <= clock
        BY <3>1, TimeFacts DEF WindowKeptOf
      <4>2. forgotten[x] # None => forgotten[x] <= clock'
        BY <3>2, <4>1, WindowTypes
      <4> QED
        BY <3>1, <3>2, <4>2 DEF WindowKeptOf
    <3>4. ASSUME NEW t \in Time
          PROVE  /\ HistoryOf(x)'[t] <= checks'[x][t]
                 /\ t > clock' => checks'[x][t] = 0
                 /\ clock' - t < ScanWindow =>
                      \/ HistoryOf(x)'[t] = checks'[x][t]
                      \/ forgotten'[x] # None /\ t <= forgotten'[x]
      <4>1. (t > clock' => t > clock) /\ (clock' - t < ScanWindow => clock - t < ScanWindow)
        BY <3>2, WindowTypes, TimeFacts
      <4> QED
        BY <3>1, <3>2, <4>1 DEF WindowKeptOf
    <3> QED
      BY <3>3, <3>4 DEF WindowKeptOf
  <2> QED
    BY <2>3 DEF WindowKept
<1>4. CASE UNCHANGED <<clock, connHistory, checks, forgotten>>
  BY <1>4 DEF WindowKept, WindowKeptOf, HistoryOf
<1> QED
  BY <1>1, <1>2, <1>3, <1>4
  DEF Next, RegisterAttempt, ShouldLogScan, vars, scans, history

(* check_aggressive_scan counts every connection of its window, but for    *)
(* those of an address forgotten within it (auth_manager.py:72-76, 91-100). *)
THEOREM ScanWindowIsExact == Spec => []ScanWindowExact
<1>1. Init => WindowKept
  BY DEF Init, WindowKept, WindowKeptOf, HistoryOf, Get, NoHistory
<1>2. TypeOK /\ WindowKept => ScanWindowExact
  <2> SUFFICES ASSUME TypeOK, WindowKept, NEW ip \in IPs
               PROVE  LET counted == Recent(HistoryOf(ip), ScanWindow)
                          real    == Recent(checks[ip], ScanWindow)
                      IN  /\ \A t \in Time : counted[t] <= real[t]
                          /\ \/ counted = real
                             \/ forgotten[ip] # None /\ clock - forgotten[ip] < ScanWindow
    BY DEF ScanWindowExact, HistoryOf
  <2>1. ASSUME NEW t \in Time
        PROVE  Recent(HistoryOf(ip), ScanWindow)[t] <= Recent(checks[ip], ScanWindow)[t]
    BY WindowTypes DEF WindowKept, WindowKeptOf, Recent
  <2>2. CASE \A t \in Time : clock - t < ScanWindow => HistoryOf(ip)[t] = checks[ip][t]
    BY <2>1, <2>2 DEF Recent
  <2>3. CASE ~ \A t \in Time : clock - t < ScanWindow => HistoryOf(ip)[t] = checks[ip][t]
    <3>1. PICK t \in Time : clock - t < ScanWindow /\ HistoryOf(ip)[t] # checks[ip][t]
      BY <2>3
    <3>2. forgotten[ip] # None /\ t <= forgotten[ip] /\ forgotten[ip] \in Time
      BY <3>1 DEF WindowKept, WindowKeptOf
    <3>3. clock - forgotten[ip] < ScanWindow
      BY <3>1, <3>2, WindowTypes, TimeFacts
    <3> QED
      BY <2>1, <3>2, <3>3
  <2> QED
    BY <2>2, <2>3
<1> QED
  BY <1>1, <1>2, TypeInit, TypeStep, WindowKeptStep, PTL DEF Spec
----------------------------------------------------------------------------
LEMMA BookInit == Init => Book!Init
<1> SUFFICES ASSUME Init PROVE Book!Init
  OBVIOUS
<1>1. \A ip \in IPs : Get(attempts, ip, 0) = 0
  BY DEF Init, Get
<1> QED
  BY <1>1 DEF Init, Book!Init, Tally

(* An attempt of the manager is an attempt in the book: the threshold lies *)
(* between the bounds of the book.                                         *)
LEMMA BookAttempt ==
  ASSUME TypeOK, RecordsAgree,
         NEW ip \in IPs, NEW user, NEW t \in Drawn, RegisterAttempt(ip, user, t)
  PROVE  Book!Attempt(ip)
<1>1. Tally' = [Tally EXCEPT ![ip] = @ + 1]
  BY DEF RegisterAttempt, Counted, Put, Get, Tally
<1>2. Tally'[ip] = attempts'[ip] /\ attempts'[ip] \in Nat
  <2>1. Get(attempts, ip, 0) \in Nat
    BY GetType DEF TypeOK
  <2> QED
    BY <2>1 DEF RegisterAttempt, Counted, Put, Get, Tally
<1>3. thresholds'[ip] \in BruteMin..BruteMax
  <2>1. Get(thresholds, ip, t) \in BruteMin..BruteMax
    BY GetType DEF TypeOK, Drawn
  <2> QED
    BY <2>1 DEF RegisterAttempt, Put
<1>4. granted' = IF attempts'[ip] >= thresholds'[ip] THEN granted \cup {ip} ELSE granted
  BY DEF RegisterAttempt
<1>5. BruteMin \in Nat /\ BruteMax \in Nat
  BY ConstantsAssumption DEF ConstantsAssumption
<1>6. ip \in granted' \ granted => Tally'[ip] >= BruteMin
  BY <1>2, <1>3, <1>4, <1>5
<1>7. Tally'[ip] >= BruteMax => ip \in granted'
  BY <1>2, <1>3, <1>4, <1>5
<1> QED
  BY <1>1, <1>4, <1>6, <1>7 DEF Book!Attempt

(* A cleanup forgets, in the book, the addresses whose records expired.    *)
LEMMA BookForget ==
  ASSUME TypeOK, RecordsAgree, Cleanup
  PROVE  \E gone \in SUBSET IPs : Book!Forget(gone)
<1>1. Expired \in SUBSET IPs
  BY DEF Expired, TypeOK, IsDict
<1>2. Tally' = [ip \in IPs |-> IF ip \in Expired THEN 0 ELSE Tally[ip]]
  BY DEF Cleanup, Forget, Without, Get, Tally
<1>3. granted' = granted \ Expired
  BY DEF Cleanup, Forget
<1> QED
  BY <1>1, <1>2, <1>3 DEF Book!Forget

(* AuthManager implements GrantBook, for every set of addresses and every  *)
(* choice of the bounds and periods (auth_manager.py:19-43, 56-67).        *)
THEOREM ImplementsGrantBook == Spec => IsGrantBook
<1>1. TypeOK /\ RecordsAgree /\ [Next]_vars => [Book!Next]_(Book!bookVars)
  <2> SUFFICES ASSUME TypeOK, RecordsAgree, [Next]_vars
               PROVE  [Book!Next]_(Book!bookVars)
    OBVIOUS
  <2>1. ASSUME NEW ip \in IPs, NEW user \in Users \cup {NoUser}, NEW t \in Drawn,
               RegisterAttempt(ip, user, t)
        PROVE  Book!Next
    BY <2>1, BookAttempt DEF Book!Next
  <2>2. CASE Cleanup
    BY <2>2, BookForget DEF Book!Next
  <2>3. CASE UNCHANGED records
    BY <2>3 DEF records, Tally, Book!bookVars
  <2> QED
    BY <2>1, <2>2, <2>3 DEF Next, CheckAggressiveScan, ShouldLogScan, Tick, vars
<1> QED
  BY <1>1, BookInit, TypeInit, TypeStep, RecordsAgreeInit, RecordsAgreeStep,
     PTL DEF Spec, IsGrantBook, Book!Spec
=============================================================================
