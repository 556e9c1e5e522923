------------------------------ MODULE SshAuth ------------------------------
(***************************************************************************)
(* What an SSH connection leaves in the log and in the AuthManager: the    *)
(* attempts and their grants (validate_password, validate_public_key and   *)
(* _handle_auth_attempt of app/ssh/ssh_server.py), the scan event of one   *)
(* that ends without an attempt, and the channel that asks for a shell     *)
(* (shell_requested of app/ssh/ssh_session.py).                            *)
(*                                                                         *)
(* The AuthManager is a GrantBook with the names tried (get_user_count).   *)
(* Its lock is never held across a wait, so an attempt is registered in    *)
(* one step.  asyncssh runs one attempt of a connection at a time; one     *)
(* under way when the connection is lost may be cancelled or may go on.    *)
(***************************************************************************)
EXTENDS Integers, FiniteSets

CONSTANTS
    Conns,        \* connections, each made once
    IPs,          \* peer addresses
    UNKNOWN,      \* what stands for an address the transport does not tell
    Users,        \* names
    BruteMin, BruteMax,  \* BRUTE_MIN, BRUTE_MAX
    FewUsers,     \* more names than this from one address are stuffing: 3
    MaxAttempts,  \* bound on the attempts over a connection
    MaxFaults,    \* bound on the calls of log_event that raise
    MaxForgets    \* bound on the addresses the cleanup forgets

ASSUME ConstantsAssumption ==
    /\ IsFiniteSet(Conns) /\ IsFiniteSet(Users)
    /\ UNKNOWN \in IPs
    /\ BruteMin \in Nat \ {0} /\ BruteMax \in Nat /\ BruteMin <= BruteMax
    /\ FewUsers \in Nat /\ MaxAttempts \in Nat /\ MaxFaults \in Nat /\ MaxForgets \in Nat

VARIABLES
    peer,      \* the address _get_peer_info finds for a connection
    conn,      \* a connection: "new", "open", "closing" (close() called), "lost"
    auth,      \* where the attempt under way is
    try,       \* that attempt
    attempts,  \* attempts over the connection so far
    scan,      \* its _log_scan_event task
    chan,      \* its channel: "none", "open", "shell" (granted one), "closed"
    gauge,     \* PROM_SESSION_GAUGE of ssh
    tally, granted,  \* the AuthManager
    names,     \* its _tried_users
    quiet,     \* the addresses with a scan event less than 600 s ago
    rows,      \* the attempts in the log
    grants,    \* the connections with a grant in the log
    scans,     \* the connections with a scan event in the log
    cut,       \* history: connections an attempt or scan event of which was
               \* cancelled, or ended by log_event raising
    last,      \* history: the connection whose scan event made an address quiet
    voice,     \* history: the one whose scan event stands for a connection
    faults,
    forgets

peers   == <<peer, last, voice>>
book    == <<tally, granted, names, quiet>>
logged  == <<rows, grants, scans>>
counted == <<cut, faults, forgets>>
vars == <<peers, conn, auth, try, attempts, scan, chan, gauge, book, logged, counted>>

Book == INSTANCE GrantBook

Classes == {"exploit", "stuffing", "guess", "pubkey"}

Attempt == [by : {"password", "key"}, user : Users, class : Classes, granted : BOOLEAN]

NoAttempt == [by |-> "none", user |-> "none", class |-> "none", granted |-> FALSE]

(* The channels a session is attached to.                                  *)
Channels == {c \in Conns : chan[c] \in {"open", "shell"}}

TypeOK ==
    /\ peer \in [Conns -> IPs]
    /\ conn \in [Conns -> {"new", "open", "closing", "lost"}]
    /\ auth \in [Conns -> {"idle", "logAttempt", "logGrant", "accepted"}]
    /\ try \in [Conns -> Attempt \cup {NoAttempt}]
    /\ attempts \in [Conns -> 0..MaxAttempts]
    /\ scan \in [Conns -> {"none", "created", "logging", "over"}]
    /\ chan \in [Conns -> {"none", "open", "shell", "closed"}]
    /\ gauge = Cardinality(Channels)
    /\ tally \in [IPs -> Nat] /\ granted \subseteq IPs
    /\ names \in [IPs -> SUBSET Users] /\ quiet \subseteq IPs
    /\ rows \subseteq Conns \X Users \X Classes
    /\ grants \subseteq Conns /\ scans \subseteq Conns /\ cut \subseteq Conns
    /\ last \in [IPs -> SUBSET Conns] /\ voice \in [Conns -> SUBSET Conns]
    /\ faults \in 0..MaxFaults /\ forgets \in 0..MaxForgets

Init ==
    /\ peer \in [Conns -> IPs]
    /\ conn = [c \in Conns |-> "new"]
    /\ auth = [c \in Conns |-> "idle"] /\ try = [c \in Conns |-> NoAttempt]
    /\ attempts = [c \in Conns |-> 0]
    /\ scan = [c \in Conns |-> "none"]
    /\ chan = [c \in Conns |-> "none"] /\ gauge = 0
    /\ Book!Init /\ names = [ip \in IPs |-> {}] /\ quiet = {}
    /\ rows = {} /\ grants = {} /\ scans = {} /\ cut = {}
    /\ last = [ip \in IPs |-> {}] /\ voice = [c \in Conns |-> {}]
    /\ faults = 0 /\ forgets = 0
----------------------------------------------------------------------------
(* connection_made: admitted, or closed at the limit.                      *)
ConnectionMade(c) ==
    /\ conn[c] = "new"
    /\ \E state \in {"open", "closing"} : conn' = [conn EXCEPT ![c] = state]
    /\ UNCHANGED <<peers, auth, try, attempts, scan, chan, gauge, book, logged, counted>>

(* A slip in the callers of get_user_count: called before register_attempt.*)
PasswordClassesBefore(before, after) ==
    {"exploit", IF Cardinality(before) > FewUsers THEN "stuffing" ELSE "guess"}

(* classify_attempt, with the names tried from the address before and      *)
(* after the attempt.  Whether an exploit pattern matches is left open,    *)
(* and a guess within half a second, bot_harvesting, is a guess.           *)
PasswordClasses(before, after) ==
    {"exploit", IF Cardinality(after) > FewUsers THEN "stuffing" ELSE "guess"}

(* What validate_public_key takes instead.                                 *)
KeyClasses(tried) == IF Cardinality(tried) > FewUsers THEN {"stuffing"} ELSE {"pubkey"}

(* validate_password or validate_public_key up to the first log_event: the *)
(* attempt is registered, and its outcome and class are settled.           *)
Validate(c, by, user) ==
    LET ip == peer[c]
        tried == names[ip] \cup {user}
    IN  /\ conn[c] = "open" /\ auth[c] = "idle"
        /\ attempts[c] < MaxAttempts
        /\ attempts' = [attempts EXCEPT ![c] = @ + 1]
        /\ auth' = [auth EXCEPT ![c] = "logAttempt"]
        /\ Book!Attempt(ip)
        /\ names' = [names EXCEPT ![ip] = tried]
        /\ \E class \in IF by = "key" THEN KeyClasses(tried) ELSE PasswordClasses(names[ip], tried) :
               try' = [try EXCEPT ![c] = [by |-> by, user |-> user, class |-> class,
                                          granted |-> ip \in granted']]
        /\ UNCHANGED <<peers, conn, scan, chan, gauge, quiet, logged, counted>>

(* A slip in _handle_auth_attempt: accepted, the grant not logged.         *)
AttemptLoggedAccepts(c) ==
    /\ auth[c] = "logAttempt"
    /\ rows' = rows \cup {<<c, try[c].user, try[c].class>>}
    /\ auth' = [auth EXCEPT ![c] = IF try[c].granted THEN "accepted" ELSE "idle"]
    /\ try' = [try EXCEPT ![c] = NoAttempt]
    /\ UNCHANGED <<peers, conn, attempts, scan, chan, gauge, book, grants, scans, counted>>

(* The attempt is logged: it is refused, or the grant is logged next.      *)
AttemptLogged(c) ==
    /\ auth[c] = "logAttempt"
    /\ rows' = rows \cup {<<c, try[c].user, try[c].class>>}
    /\ IF try[c].granted
       THEN auth' = [auth EXCEPT ![c] = "logGrant"] /\ UNCHANGED try
       ELSE auth' = [auth EXCEPT ![c] = "idle"] /\ try' = [try EXCEPT ![c] = NoAttempt]
    /\ UNCHANGED <<peers, conn, attempts, scan, chan, gauge, book, grants, scans, counted>>

(* The grant is logged and the attempt accepted.  With a key that may have *)
(* been a query before the signature, after which the client tries again.  *)
GrantLogged(c) ==
    /\ auth[c] = "logGrant"
    /\ grants' = grants \cup {c}
    /\ \E next \in IF try[c].by = "key" THEN {"accepted", "idle"} ELSE {"accepted"} :
           auth' = [auth EXCEPT ![c] = next]
    /\ try' = [try EXCEPT ![c] = NoAttempt]
    /\ UNCHANGED <<peers, conn, attempts, scan, chan, gauge, book, rows, scans, counted>>

(* The attempt ends where it is.                                           *)
EndAttempt(c) ==
    /\ auth[c] \in {"logAttempt", "logGrant"}
    /\ auth' = [auth EXCEPT ![c] = "idle"]
    /\ try' = [try EXCEPT ![c] = NoAttempt]
    /\ cut' = cut \cup {c}

(* log_event raises, and asyncssh closes the connection.                   *)
AttemptRaises(c) ==
    /\ EndAttempt(c)
    /\ faults < MaxFaults
    /\ faults' = faults + 1
    /\ conn' = [conn EXCEPT ![c] = IF @ = "open" THEN "closing" ELSE @]
    /\ UNCHANGED <<peers, attempts, scan, chan, gauge, book, logged, forgets>>

AttemptCancelled(c) ==
    /\ conn[c] = "lost"
    /\ EndAttempt(c)
    /\ UNCHANGED <<peers, conn, attempts, scan, chan, gauge, book, logged, faults, forgets>>
----------------------------------------------------------------------------
(* The client opens a channel: the session's connection_made.              *)
OpenChannel(c) ==
    /\ conn[c] = "open" /\ auth[c] = "accepted" /\ chan[c] = "none"
    /\ chan' = [chan EXCEPT ![c] = "open"]
    /\ gauge' = gauge + 1
    /\ UNCHANGED <<peers, conn, auth, try, attempts, scan, book, logged, counted>>

(* A slip in shell_requested: the grant is not looked up again.            *)
ShellRequestedUnchecked(c) ==
    /\ conn[c] = "open" /\ chan[c] = "open"
    /\ chan' = [chan EXCEPT ![c] = "shell"]
    /\ UNCHANGED <<peers, conn, auth, try, attempts, scan, gauge, book, logged, counted>>

(* shell_requested: the address may have been forgotten since the attempt. *)
ShellRequested(c) ==
    /\ conn[c] = "open" /\ chan[c] = "open"
    /\ peer[c] \in granted
    /\ chan' = [chan EXCEPT ![c] = "shell"]
    /\ UNCHANGED <<peers, conn, auth, try, attempts, scan, gauge, book, logged, counted>>

(* The session's connection_lost.                                          *)
ChannelLost(c) ==
    /\ chan[c] \in {"open", "shell"}
    /\ chan' = [chan EXCEPT ![c] = "closed"]
    /\ gauge' = gauge - 1
    /\ UNCHANGED <<peers, conn, auth, try, attempts, scan, book, logged, counted>>

(* connection_lost: without any attempt, a task is made for a scan event,  *)
(* for a connection closed at the limit too.                               *)
ConnectionLost(c) ==
    /\ conn[c] \in {"open", "closing"}
    /\ conn' = [conn EXCEPT ![c] = "lost"]
    /\ scan' = [scan EXCEPT ![c] = IF attempts[c] = 0 THEN "created" ELSE "none"]
    /\ UNCHANGED <<peers, auth, try, attempts, chan, gauge, book, logged, counted>>
----------------------------------------------------------------------------
(* _log_scan_event up to log_event: an address that is not known is left  *)
(* out, and another scans at most every 600 s.                             *)
ScanSkipped(c) ==
    /\ scan[c] = "created" /\ peer[c] = UNKNOWN
    /\ scan' = [scan EXCEPT ![c] = "over"]
    /\ UNCHANGED <<peers, conn, auth, try, attempts, chan, gauge, book, logged, counted>>

ScanFiltered(c) ==
    /\ scan[c] = "created" /\ peer[c] # UNKNOWN
    /\ peer[c] \in quiet
    /\ scan' = [scan EXCEPT ![c] = "over"]
    /\ voice' = [voice EXCEPT ![c] = last[peer[c]]]
    /\ UNCHANGED <<peer, last, conn, auth, try, attempts, chan, gauge, book, logged, counted>>

ScanDue(c) ==
    /\ scan[c] = "created" /\ peer[c] # UNKNOWN
    /\ peer[c] \notin quiet
    /\ scan' = [scan EXCEPT ![c] = "logging"]
    /\ quiet' = quiet \cup {peer[c]}
    /\ last' = [last EXCEPT ![peer[c]] = {c}]
    /\ voice' = [voice EXCEPT ![c] = {c}]
    /\ UNCHANGED <<peer, conn, auth, try, attempts, chan, gauge, tally, granted, names, logged, counted>>

ScanLogged(c) ==
    /\ scan[c] = "logging"
    /\ scan' = [scan EXCEPT ![c] = "over"]
    /\ scans' = scans \cup {c}
    /\ UNCHANGED <<peers, conn, auth, try, attempts, chan, gauge, book, rows, grants, counted>>

(* log_event raises: the address stays quiet although nothing is logged.   *)
ScanRaises(c) ==
    /\ scan[c] = "logging"
    /\ faults < MaxFaults
    /\ faults' = faults + 1
    /\ scan' = [scan EXCEPT ![c] = "over"]
    /\ cut' = cut \cup {c}
    /\ UNCHANGED <<peers, conn, auth, try, attempts, chan, gauge, book, logged, forgets>>

(* A slip in should_log_scan: an address that scanned once is never due.   *)
QuietOverKept(ip) ==
    /\ ip \in quiet
    /\ last[ip] # {}
    /\ last' = [last EXCEPT ![ip] = {}]
    /\ UNCHANGED <<peer, voice, quiet, conn, auth, try, attempts, scan, chan, gauge,
                   tally, granted, names, logged, counted>>

(* 600 s have passed since the last scan event of ip.                      *)
QuietOver(ip) ==
    /\ ip \in quiet
    /\ quiet' = quiet \ {ip}
    /\ last' = [last EXCEPT ![ip] = {}]
    /\ UNCHANGED <<peer, voice, conn, auth, try, attempts, scan, chan, gauge,
                   tally, granted, names, logged, counted>>

(* cleanup_old_data: all there is about an address goes.                   *)
Forget(ip) ==
    /\ tally[ip] > 0
    /\ forgets < MaxForgets
    /\ forgets' = forgets + 1
    /\ Book!Forget({ip})
    /\ names' = [names EXCEPT ![ip] = {}]
    /\ quiet' = quiet \ {ip}
    /\ last' = [last EXCEPT ![ip] = {}]
    /\ UNCHANGED <<peer, voice, conn, auth, try, attempts, scan, chan, gauge, logged, cut, faults>>

Next ==
    \/ \E c \in Conns :
         \/ ConnectionMade(c) \/ ConnectionLost(c)
         \/ \E by \in {"password", "key"}, user \in Users : Validate(c, by, user)
         \/ AttemptLogged(c) \/ GrantLogged(c) \/ AttemptRaises(c) \/ AttemptCancelled(c)
         \/ OpenChannel(c) \/ ShellRequested(c) \/ ChannelLost(c)
         \/ ScanSkipped(c) \/ ScanFiltered(c) \/ ScanDue(c) \/ ScanLogged(c) \/ ScanRaises(c)
    \/ \E ip \in IPs : QuietOver(ip) \/ Forget(ip)

Spec == Init /\ [][Next]_vars
----------------------------------------------------------------------------
(* A shell over a connection has a grant of that connection in the log     *)
(* before it: whatever other connections of the address do, whatever       *)
(* raises, and however the attempt ends (ssh_server.py:143-177).           *)
ShellsAreLogged == \A c \in Conns : chan[c] = "shell" => c \in grants

(* A shell opens only on an address that has BRUTE_MIN attempts since it   *)
(* was last forgotten, also when the cleanup forgets it between the        *)
(* accepted attempt and the request (ssh_session.py:142).                  *)
ShellEarned ==
    [][\A c \in Conns :
         chan'[c] = "shell" /\ chan[c] # "shell" => tally[peer[c]] >= BruteMin]_vars

(* Many names tried from one address show in the log as stuffing (or one    *)
(* of them as an exploit), over whichever connections they came, in        *)
(* whichever order their events were logged and whichever were lost        *)
(* (ssh_server.py:75-77, utils.py:111).                                    *)
SprayShows ==
    forgets = 0 =>
        \A ip \in IPs :
            LET from == {row \in rows : peer[row[1]] = ip}
            IN  Cardinality({row[2] : row \in from}) > FewUsers =>
                    \E row \in from : row[3] \in {"stuffing", "exploit"}

(* Every connection that is over leaves a trace: an attempt in the log; or *)
(* a scan event of its own, in the log or on its way; or, kept out by the  *)
(* rate limit, the scan event of its address that began those 600 s.  Only *)
(* an event that raised or was cancelled can be missing, its own or that   *)
(* other one, and a connection without an attempt whose address is not     *)
(* known leaves none.  One the connection limit turned away is a scan like *)
(* any other (ssh_server.py:192-258).                                      *)
Over(c) == conn[c] = "lost" /\ auth[c] \in {"idle", "accepted"} /\ scan[c] \in {"none", "over"}

(* A scan event of the connection is logged, on its way or was lost.       *)
Traced(c) == c \in scans \cup cut \/ scan[c] = "logging"

LeavesATrace ==
    \A c \in Conns : Over(c) =>
        \/ \E row \in rows : row[1] = c
        \/ c \in cut
        \/ \E d \in voice[c] : peer[d] = peer[c] /\ Traced(d)
        \/ peer[c] = UNKNOWN /\ attempts[c] = 0
=============================================================================
