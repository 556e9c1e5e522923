---------------------------- MODULE TelnetServer ----------------------------
(***************************************************************************)
(* The Telnet server and its sessions (app/telnet/): admission, the login  *)
(* rounds, the shell, the idle watchdog and the way a session ends,        *)
(* sharing an AuthManager, here a GrantBook.                               *)
(*                                                                         *)
(* A step is the code between two awaits that suspend: the permit of a     *)
(* semaphore that is not locked and the lock of an AuthManager are had     *)
(* without suspending.  A line is what _read_line returns.  One that only  *)
(* redraws the prompt (a blank one, Ctrl-C) changes nothing here and is    *)
(* not a step.                                                             *)
(***************************************************************************)
EXTENDS Integers, FiniteSets

CONSTANTS
    Conns,        \* connections, each made once
    IPs,          \* peer addresses
    IpOf,         \* [Conns -> IPs]
    MaxSessions,  \* MAX_CONCURRENT_SESSIONS
    MaxCommands,  \* MAX_COMMANDS_PER_SESSION
    BruteMin, BruteMax,  \* BRUTE_MIN, BRUTE_MAX
    FaultSites,   \* the calls of log_event that may raise, by the pc that awaits them
    MaxFaults,    \* bound on the number that do
    MaxForgets    \* bound on the addresses the cleanup forgets

ASSUME ConstantsAssumption ==
    /\ IsFiniteSet(Conns)
    /\ IpOf \in [Conns -> IPs]
    /\ MaxSessions \in Nat /\ MaxCommands \in Nat
    /\ BruteMin \in Nat /\ BruteMax \in Nat \ {0} /\ BruteMin <= BruteMax
    /\ MaxFaults \in Nat /\ MaxForgets \in Nat

VARIABLES
    pc,         \* what the handler of a connection awaits
    sock,       \* its writer: "none", "open", "closing" (close() called), "closed"
    peer,       \* the client: "talking", "silent" (for good), "gone" (sent EOF)
    armed,      \* connections with an idle watchdog that sleeps
    named,      \* auth_activity_detected
    rounds,     \* rounds of _handle_login that are over
    won,        \* the granted of authenticate
    count,      \* _cmd_count
    value,      \* _CONN_SEMAPHORE._value
    gauge,      \* PROM_SESSION_GAUGE
    listening,  \* the server accepts connections
    tally, granted,  \* the AuthManager
    mine,       \* history: attempts made over the connection
    executed,   \* history: commands its shell ran
    stopped,    \* history: sessions that stop closed
    faults,
    forgets

socket == <<sock, armed, value, gauge>>
login  == <<named, rounds, won, mine>>
shell  == <<count, executed>>
book   == <<tally, granted>>
vars == <<pc, socket, peer, login, shell, book, listening, stopped, faults, forgets>>

Book == INSTANCE GrantBook

Reading == {"name", "password", "shell"}
Logging == {"logAttempt", "logGrant", "logCommand", "logScan"}
Running == Reading \cup Logging \cup {"sleep"}
Served  == Running \cup {"closing"}
Ended   == {"over", "broken"}  \* broken: by an exception in the finally of run

(* The connections whose handler is somewhere in S.                        *)
In(S) == {c \in Conns : pc[c] \in S}

TypeOK ==
    /\ pc \in [Conns -> Served \cup Ended \cup {"new", "accepted"}]
    /\ sock \in [Conns -> {"none", "open", "closing", "closed"}]
    /\ peer \in [Conns -> {"talking", "silent", "gone"}]
    /\ armed \subseteq Conns /\ named \subseteq Conns
    /\ stopped \subseteq Conns
    /\ rounds \in [Conns -> 0..BruteMax] /\ mine \in [Conns -> 0..BruteMax]
    /\ won \in [Conns -> BOOLEAN]
    /\ count \in [Conns -> 0..(MaxCommands + 1)] /\ executed \in [Conns -> Nat]
    /\ value \in 0..MaxSessions
    /\ gauge \in Nat
    /\ listening \in BOOLEAN
    /\ tally \in [IPs -> Nat] /\ granted \subseteq IPs
    /\ faults \in 0..MaxFaults /\ forgets \in 0..MaxForgets

Init ==
    /\ pc = [c \in Conns |-> "new"]
    /\ sock = [c \in Conns |-> "none"]
    /\ peer = [c \in Conns |-> "talking"]
    /\ armed = {} /\ named = {} /\ stopped = {}
    /\ rounds = [c \in Conns |-> 0] /\ mine = [c \in Conns |-> 0]
    /\ won = [c \in Conns |-> FALSE]
    /\ count = [c \in Conns |-> 0] /\ executed = [c \in Conns |-> 0]
    /\ value = MaxSessions
    /\ gauge = 0
    /\ listening = TRUE
    /\ Book!Init
    /\ faults = 0 /\ forgets = 0
----------------------------------------------------------------------------
Goto(c, place) == pc' = [pc EXCEPT ![c] = place]

CloseSocket(c) == sock' = [sock EXCEPT ![c] = "closing"]

(* A slip: the gauge forgotten when the writer is closed already.          *)
FinishRunKeepsGauge(c) ==
    /\ armed' = armed \ {c}
    /\ \/ sock[c] = "open" /\ CloseSocket(c) /\ Goto(c, "closing")
          /\ gauge' = gauge - 1 /\ UNCHANGED value
       \/ sock[c] # "open" /\ Goto(c, "over") /\ value' = value + 1 /\ UNCHANGED <<sock, gauge>>

(* The rest of the finally of run once a scan event is dealt with, and, if *)
(* the writer is closed already, of _handle_connection.                    *)
FinishRun(c) ==
    /\ gauge' = gauge - 1
    /\ armed' = armed \ {c}
    /\ \/ sock[c] = "open" /\ CloseSocket(c) /\ Goto(c, "closing") /\ UNCHANGED value
       \/ sock[c] # "open" /\ Goto(c, "over") /\ value' = value + 1 /\ UNCHANGED sock

(* run ends: a connection that never named a user is logged as a scan,     *)
(* unless its address had one logged lately or is unknown.                 *)
EndRun(c) ==
    \/ c \notin named /\ Goto(c, "logScan") /\ UNCHANGED socket
    \/ FinishRun(c)
----------------------------------------------------------------------------
(* A connection is accepted; its handler is a task yet to start.           *)
Accept(c) ==
    /\ listening
    /\ pc[c] = "new"
    /\ Goto(c, "accepted")
    /\ sock' = [sock EXCEPT ![c] = "open"]
    /\ UNCHANGED <<armed, value, gauge, peer, login, shell, book, listening, stopped, faults, forgets>>

Refuse(c) ==
    /\ pc[c] = "accepted"
    /\ value = 0
    /\ Goto(c, "over")
    /\ IF sock[c] = "open" THEN CloseSocket(c) ELSE UNCHANGED sock
    /\ UNCHANGED <<armed, value, gauge, peer, login, shell, book, listening, stopped, faults, forgets>>

(* A writer that is closing already: the permit is taken and given back.   *)
GiveUp(c) ==
    /\ pc[c] = "accepted"
    /\ value > 0
    /\ sock[c] # "open"
    /\ Goto(c, "over")
    /\ UNCHANGED <<socket, peer, login, shell, book, listening, stopped, faults, forgets>>

Admit(c) ==
    /\ pc[c] = "accepted"
    /\ value > 0
    /\ sock[c] = "open"
    /\ value' = value - 1
    /\ gauge' = gauge + 1
    /\ armed' = armed \cup {c}
    /\ Goto(c, "name")
    /\ UNCHANGED <<sock, peer, login, shell, book, listening, stopped, faults, forgets>>
----------------------------------------------------------------------------
(* What was received is read even when the writer is closed meanwhile.     *)
Reads(c, place) == pc[c] = place /\ peer[c] = "talking"

ReadName(c) ==
    /\ Reads(c, "name")
    /\ named' = named \cup {c}
    /\ Goto(c, "password")
    /\ UNCHANGED <<socket, peer, rounds, won, mine, shell, book,
                   listening, stopped, faults, forgets>>

(* The for loop of _handle_login: another round or no login.  The slip is  *)
(* one round too few.                                                      *)
LastRoundEarly(c) == rounds[c] + 2 >= BruteMax
LastRound(c) == rounds[c] + 1 = BruteMax

NextRound(c) ==
    /\ rounds' = [rounds EXCEPT ![c] = @ + 1]
    /\ IF LastRound(c) THEN EndRun(c) ELSE Goto(c, "name") /\ UNCHANGED socket

BlankName(c) ==
    /\ Reads(c, "name")
    /\ NextRound(c)
    /\ UNCHANGED <<peer, named, won, mine, shell, book,
                   listening, stopped, faults, forgets>>

ReadPassword(c) ==
    /\ Reads(c, "password")
    /\ Book!Attempt(IpOf[c])
    /\ won' = [won EXCEPT ![c] = IpOf[c] \in granted']
    /\ mine' = [mine EXCEPT ![c] = @ + 1]
    /\ Goto(c, "logAttempt")
    /\ UNCHANGED <<socket, peer, named, rounds, shell,
                   listening, stopped, faults, forgets>>

(* is_granted after authenticate returned.  The slip trusts its result.    *)
GrantedNowTrusting(c) == won[c]

GrantedNow(c) == IpOf[c] \in granted

EnterOrSleep(c) == Goto(c, IF GrantedNow(c) THEN "shell" ELSE "sleep")

AttemptLogged(c) ==
    /\ pc[c] = "logAttempt"
    /\ IF won[c] THEN Goto(c, "logGrant") ELSE EnterOrSleep(c)
    /\ UNCHANGED <<socket, peer, login, shell, book, listening, stopped, faults, forgets>>

GrantLogged(c) ==
    /\ pc[c] = "logGrant"
    /\ EnterOrSleep(c)
    /\ UNCHANGED <<socket, peer, login, shell, book, listening, stopped, faults, forgets>>

SleepEnds(c) ==
    /\ pc[c] = "sleep"
    /\ NextRound(c)
    /\ UNCHANGED <<peer, named, won, mine, shell, book,
                   listening, stopped, faults, forgets>>
----------------------------------------------------------------------------
(* The test of _handle_command.                                            *)
OverLimit(c) == count[c] + 1 > MaxCommands

ReadCommand(c) ==
    /\ Reads(c, "shell")
    /\ count' = [count EXCEPT ![c] = @ + 1]
    /\ IF OverLimit(c) THEN EndRun(c) ELSE Goto(c, "logCommand") /\ UNCHANGED socket
    /\ UNCHANGED <<peer, login, executed, book, listening, stopped, faults, forgets>>

(* The command runs; exit ends the session.                                *)
CommandLogged(c) ==
    /\ pc[c] = "logCommand"
    /\ executed' = [executed EXCEPT ![c] = @ + 1]
    /\ \/ Goto(c, "shell") /\ UNCHANGED socket
       \/ EndRun(c)
    /\ UNCHANGED <<peer, login, count, book, listening, stopped, faults, forgets>>
----------------------------------------------------------------------------
(* _read_line returns None: the client sent EOF or the writer was closed.  *)
ReadEnds(c) ==
    /\ pc[c] \in Reading
    /\ peer[c] = "gone" \/ sock[c] = "closed"
    /\ EndRun(c)
    /\ UNCHANGED <<peer, login, shell, book, listening, stopped, faults, forgets>>

ScanLogged(c) ==
    /\ pc[c] = "logScan"
    /\ FinishRun(c)
    /\ UNCHANGED <<peer, login, shell, book, listening, stopped, faults, forgets>>

Fault(c) ==
    /\ pc[c] \in FaultSites
    /\ faults < MaxFaults
    /\ faults' = faults + 1

(* log_event raises while the session runs: run ends.                      *)
LogRaises(c) ==
    /\ pc[c] \in {"logAttempt", "logGrant", "logCommand"}
    /\ Fault(c)
    /\ EndRun(c)
    /\ UNCHANGED <<peer, login, shell, book, listening, stopped, forgets>>

(* It raises in the finally of run, which is left there: the gauge, the    *)
(* watchdog and the writer stay as they are.                               *)
ScanLogRaises(c) ==
    /\ pc[c] = "logScan"
    /\ Fault(c)
    /\ Goto(c, "broken")
    /\ value' = value + 1
    /\ UNCHANGED <<sock, armed, gauge, peer, login, shell, book, listening, stopped, forgets>>

(* A slip: no permit is returned.                                          *)
CloseReturnsNoRelease(c) ==
    /\ pc[c] = "closing"
    /\ sock[c] = "closed"
    /\ Goto(c, "over")
    /\ UNCHANGED <<socket, peer, login, shell, book, listening, stopped, faults, forgets>>

(* wait_closed returns in the _close of run.                               *)
CloseReturns(c) ==
    /\ pc[c] = "closing"
    /\ sock[c] = "closed"
    /\ Goto(c, "over")
    /\ value' = value + 1
    /\ UNCHANGED <<sock, armed, gauge, peer, login, shell, book, listening, stopped, faults, forgets>>

(* A slip: nobody watches the login.                                       *)
WatchdogFiresInShell(c) ==
    /\ c \in armed
    /\ c \in In({"shell", "logCommand"})
    /\ armed' = armed \ {c}
    /\ IF sock[c] = "open" THEN CloseSocket(c) ELSE UNCHANGED sock
    /\ UNCHANGED <<pc, value, gauge, peer, login, shell, book, listening, stopped, faults, forgets>>

(* _idle_watchdog wakes.  A watchdog armed again after it finds a writer   *)
(* that is closing, and does nothing.                                      *)
WatchdogFires(c) ==
    /\ c \in armed
    /\ armed' = armed \ {c}
    /\ IF sock[c] = "open" THEN CloseSocket(c) ELSE UNCHANGED sock
    /\ UNCHANGED <<pc, value, gauge, peer, login, shell, book, listening, stopped, faults, forgets>>

(* The transport is closed, some time after close(), or by a reset.        *)
SocketCloses(c) ==
    /\ sock[c] \in {"open", "closing"}
    /\ sock' = [sock EXCEPT ![c] = "closed"]
    /\ UNCHANGED <<pc, armed, value, gauge, peer, login, shell, book, listening, stopped, faults, forgets>>

PeerStops(c) ==
    /\ peer[c] = "talking"
    /\ \E how \in {"silent", "gone"} : peer' = [peer EXCEPT ![c] = how]
    /\ UNCHANGED <<pc, socket, login, shell, book, listening, stopped, faults, forgets>>

(* cleanup_old_data forgets an address that has not tried lately.          *)
Cleanup(ip) ==
    /\ forgets < MaxForgets
    /\ forgets' = forgets + 1
    /\ Book!Forget({ip})
    /\ UNCHANGED <<pc, socket, peer, login, shell, listening, stopped, faults>>

(* A slip: the sessions are left open.                                     *)
StopListeningOnly ==
    /\ listening
    /\ listening' = FALSE
    /\ stopped' = In(Served)
    /\ UNCHANGED <<pc, socket, peer, login, shell, book, faults, forgets>>

(* stop: the server is closed, then the writers of its sessions.  What it  *)
(* then waits for, at most 3 seconds, changes nothing.                     *)
Stop ==
    /\ listening
    /\ listening' = FALSE
    /\ stopped' = In(Served)
    /\ sock' = [c \in Conns |-> IF c \in In(Served) /\ sock[c] = "open"
                                THEN "closing" ELSE sock[c]]
    /\ UNCHANGED <<pc, armed, value, gauge, peer, login, shell, book, faults, forgets>>
----------------------------------------------------------------------------
(* What the loop does for a connection without its client.                 *)
ServerStep(c) ==
    \/ Refuse(c) \/ GiveUp(c) \/ Admit(c)
    \/ AttemptLogged(c) \/ GrantLogged(c) \/ SleepEnds(c) \/ CommandLogged(c)
    \/ ReadEnds(c) \/ ScanLogged(c) \/ LogRaises(c) \/ ScanLogRaises(c) \/ CloseReturns(c)

ClientStep(c) ==
    \/ Accept(c) \/ ReadName(c) \/ BlankName(c) \/ ReadPassword(c) \/ ReadCommand(c)
    \/ PeerStops(c)

Next ==
    \/ \E c \in Conns : ServerStep(c) \/ ClientStep(c) \/ WatchdogFires(c) \/ SocketCloses(c)
    \/ \E ip \in IPs : Cleanup(ip)
    \/ Stop

Spec == Init /\ [][Next]_vars

(* The loop runs what can run, log_event returns or raises, a transport    *)
(* closes some time after close(), and the watchdog of a client that stays *)
(* silent is not armed again.  No client has to send anything.             *)
Fairness ==
    \A c \in Conns :
        /\ WF_vars(ServerStep(c))
        /\ WF_vars(sock[c] = "closing" /\ SocketCloses(c))
        /\ WF_vars(peer[c] # "talking" /\ WatchdogFires(c))

FairSpec == Spec /\ Fairness
----------------------------------------------------------------------------
(* A permit is free or the one of a session that has not ended: none is    *)
(* lost or returned twice however a session ends, and no more sessions     *)
(* than MAX_CONCURRENT_SESSIONS are served (telnet_server.py:54-96).       *)
PermitsConserved == value + Cardinality(In(Served)) = MaxSessions

(* The gauge of active sessions counts the sessions that run, however they *)
(* end and whatever interleaves with their end (telnet_session.py:248,     *)
(* :273); and for good those whose scan event raised in the finally of run *)
(* before the dec (:272), and no others.                                   *)
GaugeExact == gauge = Cardinality(In(Running \cup {"broken"}))

(* A shell is entered only by an address that at that moment has BRUTE_MIN *)
(* attempts on its tally: not on the word of an authenticate that other    *)
(* sessions of the address or the cleanup have overtaken in its awaits     *)
(* (telnet_session.py:186-188).                                            *)
ShellEarned ==
    [][\A c \in Conns :
         pc[c] # "shell" /\ pc'[c] = "shell" /\ pc[c] # "logCommand"
             => tally[IpOf[c]] >= BruteMin]_vars

(* A client that gives a name in every round is not sent away: unless the  *)
(* cleanup forgot an address, the last round ends with the grant, whichever*)
(* sessions try at the same time (telnet_session.py:169, auth_manager.py:29). *)
NotSentAway ==
    [][\A c \in Conns :
         (pc[c] = "sleep" /\ pc'[c] \notin {"sleep", "name"} /\ mine[c] = rounds[c] + 1)
             => forgets > 0]_vars

(* What README.md:91 says of HP_MAX_CMDS, here across the exits, faults    *)
(* and closed writers (telnet_session.py:211-216).                         *)
CommandsWithinLimit == \A c \in Conns : executed[c] <= MaxCommands

(* The two limits of a session, and the types: rounds and commands stay    *)
(* within their ranges                                                     *)
(* (telnet_server.py:54-96, telnet_session.py:169-216).                    *)
SessionInv == TypeOK /\ PermitsConserved /\ CommandsWithinLimit

(* A handler whose client falls silent or leaves ends and its writer is    *)
(* closed, whether it awaits a line, log_event, the sleep after a refusal  *)
(* (telnet_session.py:199) or wait_closed, and even when the scan event    *)
(* raised in its finally (telnet_session.py:102-112, 270-277).             *)
SilentSessionsEnd ==
    \A c \in Conns :
        peer[c] # "talking" /\ pc[c] # "new" ~> pc[c] \in Ended /\ sock[c] = "closed"

(* Every session that runs when the server stops ends, whatever its client *)
(* had already sent (telnet_server.py:31-36).  A handler accepted but not  *)
(* started by then is not in sessions, and stop does not close its writer. *)
StopEndsSessions == \A c \in Conns : c \in stopped ~> pc[c] \in Ended
=============================================================================
