---------------------------- MODULE AuthManager ----------------------------
(***************************************************************************)
(* AuthManager (app/auth_manager.py): per-address records of login         *)
(* attempts, the grants they earn, and the frequency of bare connections.  *)
(* Each server has a manager of its own (app/startup.py), shared by all    *)
(* its connections.  No method awaits anything while it holds              *)
(* AuthManager._lock, so the lock is never contended and a method is one   *)
(* step.  A dictionary is a function on the addresses it has an entry for. *)
(***************************************************************************)
EXTENDS Integers, Sequences, FiniteSets, Functions

CONSTANTS
    IPs,            \* peer addresses
    Users,          \* names after sanitize_identity
    NoUser,         \* the empty name, left of a name of NUL characters only
    BruteMin, BruteMax,  \* BRUTE_MIN, BRUTE_MAX
    Retention,      \* AUTH_RETENTION_PERIOD
    CleanupPeriod,  \* 1800 in _periodic_cleanup
    ScanWindow,     \* 10 in check_aggressive_scan
    KeepWindow,     \* 60 in cleanup_old_data
    ScanLogGap,     \* 600 in should_log_scan
    StartTime,      \* time.time() when the manager is created
    MaxTime,        \* bound on the clock
    MaxTries,       \* bound on the attempts of an address
    MaxChecks,      \* bound on its calls of check_aggressive_scan
    MaxScans        \* bound on its calls of should_log_scan that return True

None == -1

(* random.randint needs a nonempty range.  The epoch is long past: the     *)
(* default 0 of _last_scan_log.get is further away than the gap.           *)
ASSUME ConstantsAssumption ==
    /\ NoUser \notin Users
    /\ BruteMin \in Nat /\ BruteMax \in Nat /\ BruteMin <= BruteMax
    /\ Retention \in Nat /\ CleanupPeriod \in Nat
    /\ ScanWindow \in Nat /\ KeepWindow \in Nat /\ ScanWindow <= KeepWindow
    /\ ScanLogGap \in Nat
    /\ StartTime \in Nat /\ MaxTime \in Nat
    /\ ScanLogGap < StartTime /\ StartTime <= MaxTime
    /\ MaxTries \in Nat /\ MaxChecks \in Nat /\ MaxScans \in Nat

Time == StartTime..MaxTime

VARIABLES
    clock,        \* time.time()
    attempts,     \* _attempts
    thresholds,   \* _thresholds
    granted,      \* _granted
    triedUsers,   \* _tried_users
    lastSeen,     \* _last_seen
    connHistory,  \* _conn_history
    lastScanLog,  \* _last_scan_log
    nextCleanup,  \* when _periodic_cleanup wakes
    tries,        \* history: number of attempts of an address
    streak,       \* history: attempts in a row at most Retention apart
    lastTry,      \* history: time of its last attempt
    checks,       \* history: its calls of check_aggressive_scan, by time
    checked,      \* history: how many they are
    logged,       \* history: times should_log_scan returned True for it
    forgotten     \* history: when a cleanup last expired it

records == <<attempts, thresholds, granted, triedUsers, lastSeen>>
scans   == <<connHistory, lastScanLog>>
history == <<tries, streak, lastTry, checks, checked, logged, forgotten>>
vars == <<clock, records, scans, nextCleanup, history>>
----------------------------------------------------------------------------
Times == Time \cup {None}

(* A list of times is only measured and filtered: how many there are of    *)
(* each time says it all.                                                  *)
History == [Time -> Nat]

NoHistory == [t \in Time |-> 0]

(* A dictionary from addresses to values in R.                             *)
IsDict(d, R) == \E known \in SUBSET IPs : d \in [known -> R]

TypeOK ==
    /\ clock \in Time
    /\ granted \subseteq IPs
    /\ IsDict(attempts, Nat)
    /\ IsDict(thresholds, BruteMin..BruteMax)
    /\ IsDict(triedUsers, SUBSET Users)
    /\ IsDict(lastSeen, Time)
    /\ IsDict(connHistory, History)
    /\ IsDict(lastScanLog, Time)
    /\ nextCleanup \in Nat
    /\ tries \in [IPs -> Nat] /\ streak \in [IPs -> Nat]
    /\ lastTry \in [IPs -> Times] /\ forgotten \in [IPs -> Times]
    /\ checks \in [IPs -> History] /\ checked \in [IPs -> Nat]
    /\ logged \in [IPs -> Seq(Time)]

Init ==
    /\ clock = StartTime
    /\ attempts = <<>> /\ thresholds = <<>> /\ granted = {}
    /\ triedUsers = <<>> /\ lastSeen = <<>>
    /\ connHistory = <<>> /\ lastScanLog = <<>>
    /\ nextCleanup = StartTime + CleanupPeriod
    /\ tries = [ip \in IPs |-> 0] /\ streak = [ip \in IPs |-> 0]
    /\ lastTry = [ip \in IPs |-> None] /\ forgotten = [ip \in IPs |-> None]
    /\ checks = [ip \in IPs |-> NoHistory] /\ checked = [ip \in IPs |-> 0]
    /\ logged = [ip \in IPs |-> <<>>]
----------------------------------------------------------------------------
(* d.get(k, default), d[k] = v, and the removal of keys.                   *)
Get(d, k, default) == IF k \in DOMAIN d THEN d[k] ELSE default

Put(d, k, v) == [x \in DOMAIN d \cup {k} |-> IF x = k THEN v ELSE d[x]]

Without(d, keys) == [x \in DOMAIN d \ keys |-> d[x]]

(* The entries of a history younger than a window, and one more entry.     *)
Recent(times, window) == [t \in Time |-> IF clock - t < window THEN times[t] ELSE 0]

AddNow(times) == [times EXCEPT ![clock] = @ + 1]
----------------------------------------------------------------------------
(* random.randint(BRUTE_MIN, BRUTE_MAX), which includes both bounds.       *)
Drawn == BruteMin..BruteMax

(* The attempts of ip with the one being registered; the slip is to count  *)
(* it twice.                                                               *)
CountedTwice(ip) == Get(attempts, ip, 0) + 2

Counted(ip) == Get(attempts, ip, 0) + 1

(* register_attempt: one more attempt of ip; t is the threshold drawn if   *)
(* ip has none.  The empty name is not recorded.                           *)
RegisterAttempt(ip, user, t) ==
    /\ tries[ip] < MaxTries
    /\ lastSeen' = Put(lastSeen, ip, clock)
    /\ triedUsers' = IF user = NoUser THEN triedUsers
                     ELSE Put(triedUsers, ip, Get(triedUsers, ip, {}) \cup {user})
    /\ attempts' = Put(attempts, ip, Counted(ip))
    /\ thresholds' = Put(thresholds, ip, Get(thresholds, ip, t))
    /\ granted' = IF attempts'[ip] >= thresholds'[ip] THEN granted \cup {ip} ELSE granted
    /\ tries' = [tries EXCEPT ![ip] = @ + 1]
    /\ streak' = [streak EXCEPT ![ip] =
                     IF lastTry[ip] # None /\ clock - lastTry[ip] <= Retention THEN @ + 1 ELSE 1]
    /\ lastTry' = [lastTry EXCEPT ![ip] = clock]
    /\ UNCHANGED <<clock, scans, nextCleanup, checks, checked, logged, forgotten>>

(* A slip: an address seen exactly Retention ago expires too.              *)
ExpiredOffByOne == {ip \in DOMAIN lastSeen : lastSeen[ip] <= clock - Retention}

(* Addresses not seen for longer than Retention.  One that never tried a   *)
(* login has no _last_seen and never expires.                              *)
Expired == {ip \in DOMAIN lastSeen : lastSeen[ip] < clock - Retention}

(* A slip: the grant of a forgotten address stays.                         *)
ForgetKeepsGrant(gone) ==
    /\ attempts' = Without(attempts, gone)
    /\ thresholds' = Without(thresholds, gone)
    /\ triedUsers' = Without(triedUsers, gone)
    /\ lastSeen' = Without(lastSeen, gone)
    /\ granted' = granted
    /\ lastScanLog' = Without(lastScanLog, gone)

Forget(gone) ==
    /\ attempts' = Without(attempts, gone)
    /\ thresholds' = Without(thresholds, gone)
    /\ triedUsers' = Without(triedUsers, gone)
    /\ lastSeen' = Without(lastSeen, gone)
    /\ granted' = granted \ gone
    /\ lastScanLog' = Without(lastScanLog, gone)

(* cleanup_old_data, CleanupPeriod after the last one or later: expired    *)
(* addresses are forgotten, and the histories of the others trimmed.       *)
Cleanup ==
    /\ clock >= nextCleanup
    /\ nextCleanup' = clock + CleanupPeriod
    /\ Forget(Expired)
    /\ connHistory' = [ip \in DOMAIN connHistory \ Expired |->
                          Recent(connHistory[ip], KeepWindow)]
    /\ forgotten' = [ip \in IPs |-> IF ip \in Expired THEN clock ELSE forgotten[ip]]
    /\ UNCHANGED <<clock, tries, streak, lastTry, checks, checked, logged>>
----------------------------------------------------------------------------
(* A slip in check_aggressive_scan: the window one unit short.             *)
CheckAggressiveScanShort(ip) ==
    /\ checked[ip] < MaxChecks
    /\ connHistory' = Put(connHistory, ip,
                          Recent(AddNow(Get(connHistory, ip, NoHistory)), ScanWindow - 1))
    /\ checks' = [checks EXCEPT ![ip] = AddNow(@)]
    /\ checked' = [checked EXCEPT ![ip] = @ + 1]
    /\ UNCHANGED <<clock, records, lastScanLog, nextCleanup,
                   tries, streak, lastTry, logged, forgotten>>

(* check_aggressive_scan.  The result, whether more than 6 connections are *)
(* left in the history, goes into the text of a telnet scan event only.    *)
CheckAggressiveScan(ip) ==
    /\ checked[ip] < MaxChecks
    /\ connHistory' = Put(connHistory, ip,
                          Recent(AddNow(Get(connHistory, ip, NoHistory)), ScanWindow))
    /\ checks' = [checks EXCEPT ![ip] = AddNow(@)]
    /\ checked' = [checked EXCEPT ![ip] = @ + 1]
    /\ UNCHANGED <<clock, records, lastScanLog, nextCleanup,
                   tries, streak, lastTry, logged, forgotten>>

(* A slip in should_log_scan: >= for >.                                    *)
LogDueEarly(ip) == clock - Get(lastScanLog, ip, 0) >= ScanLogGap

LogDue(ip) == clock - Get(lastScanLog, ip, 0) > ScanLogGap

(* should_log_scan returning True; returning False, it changes nothing.    *)
ShouldLogScan(ip) ==
    /\ Len(logged[ip]) < MaxScans
    /\ LogDue(ip)
    /\ lastScanLog' = Put(lastScanLog, ip, clock)
    /\ logged' = [logged EXCEPT ![ip] = Append(@, clock)]
    /\ UNCHANGED <<clock, records, connHistory, nextCleanup,
                   tries, streak, lastTry, checks, checked, forgotten>>

Tick ==
    /\ clock < MaxTime
    /\ clock' = clock + 1
    /\ UNCHANGED <<records, scans, nextCleanup, history>>

Next ==
    \/ \E ip \in IPs :
         \/ \E user \in Users \cup {NoUser}, t \in Drawn : RegisterAttempt(ip, user, t)
         \/ CheckAggressiveScan(ip)
         \/ ShouldLogScan(ip)
    \/ Cleanup
    \/ Tick

Spec == Init /\ [][Next]_vars
----------------------------------------------------------------------------
(* The five records of an address live and die together, and a grant is    *)
(* held exactly by the addresses whose attempts have reached the threshold *)
(* drawn for them: no cleanup leaves a grant behind without its attempts   *)
(* or attempts without the grant they earned (auth_manager.py:19-43, 56). *)
RecordsAgree ==
    /\ DOMAIN thresholds = DOMAIN attempts
    /\ DOMAIN lastSeen = DOMAIN attempts
    /\ DOMAIN triedUsers \subseteq DOMAIN attempts
    /\ granted = {ip \in DOMAIN attempts : attempts[ip] >= thresholds[ip]}

(* A client that keeps trying, never pausing longer than the retention     *)
(* period, has its grant after BRUTE_MAX attempts and keeps it that long,  *)
(* whenever the cleanup runs in between (auth_manager.py:59-63).           *)
PersistentIsGranted ==
    \A ip \in IPs :
        streak[ip] >= BruteMax /\ lastTry[ip] # None /\ clock - lastTry[ip] <= Retention
            => ip \in granted

(* The number of connections check_aggressive_scan counts in its window is *)
(* the number there were, through the trimming of every call and of the    *)
(* cleanup; it is less only where the address was forgotten within the     *)
(* window (auth_manager.py:72, :76, :94-100).                              *)
ScanWindowExact ==
    \A ip \in IPs :
        LET counted == Recent(Get(connHistory, ip, NoHistory), ScanWindow)
            real    == Recent(checks[ip], ScanWindow)
        IN  /\ \A t \in Time : counted[t] <= real[t]
            /\ \/ counted = real
               \/ forgotten[ip] # None /\ clock - forgotten[ip] < ScanWindow

(* Two scan events of an address are logged more than ScanLogGap apart,    *)
(* unless its records expired in between, which resets the rate limit with *)
(* them (auth_manager.py:73, :102-108).                                    *)
ScanGapKept ==
    [][\A ip \in IPs :
         logged'[ip] # logged[ip] /\ logged[ip] # <<>> =>
             LET last == logged[ip][Len(logged[ip])]
             IN  clock - last > ScanLogGap \/ forgotten[ip] >= last]_vars

(* What the servers see of a manager is a GrantBook: whatever thresholds   *)
(* are drawn and whenever the cleanup runs, a grant comes with the         *)
(* attempts that earned it and goes only with them                         *)
(* (auth_manager.py:19-43, 56-67).                                         *)
Tally == [ip \in IPs |-> Get(attempts, ip, 0)]

Book == INSTANCE GrantBook WITH tally <- Tally

IsGrantBook == Book!Spec
=============================================================================
