--------------------------- MODULE SshAdmission ---------------------------
(***************************************************************************)
(* How the SSH server admits connections (app/ssh/ssh_server.py): the      *)
(* check in connection_made, the task that takes a permit of the           *)
(* BoundedSemaphore _CONN_SEMAPHORE, its return in connection_lost, and    *)
(* close_all_sessions at shutdown.                                         *)
(*                                                                         *)
(* The semaphore is asyncio's of Python 3.12: release hands the permit to  *)
(* the first waiter that has none, which stays in the queue until its task *)
(* runs again.  asyncssh calls connection_lost, and makes is_closed() true *)
(* in the same callback, some time after close() or after the peer left.   *)
(*                                                                         *)
(* SshProofs extends this module and SshSession; the definitions that both *)
(* have are named for the admission here.                                  *)
(***************************************************************************)
EXTENDS Integers, Sequences, FiniteSets, SequencesExt

CONSTANTS
    Conns,        \* connections, each made once
    MaxSessions   \* MAX_CONCURRENT_SESSIONS

ASSUME AdmissionAssumption == IsFiniteSet(Conns) /\ MaxSessions \in Nat

VARIABLES
    stage,      \* a connection: "new", "open", "closing" (close() called), "closed"
    acq,        \* its _acquire_semaphore task
    value,      \* _CONN_SEMAPHORE._value
    waiters,    \* _CONN_SEMAPHORE._waiters, in order
    allConns,   \* _all_connections
    auth,       \* the connections with auth_activity_detected
    scanned,    \* those connection_lost created a _log_scan_event task for
    closer,     \* close_all_sessions: "idle", "waiting" (in gather), "done"
    awaited,    \* the connections its gather waits for
    listening   \* the server accepts connections

admissionVars ==
    <<stage, acq, value, waiters, allConns, auth, scanned, closer, awaited, listening>>

AdmissionTypeOK ==
    /\ stage \in [Conns -> {"new", "open", "closing", "closed"}]
    /\ acq \in [Conns -> {"none", "created", "waiting", "woken", "held", "done"}]
    /\ value \in 0..MaxSessions
    /\ waiters \in Seq(Conns)
    /\ allConns \subseteq Conns /\ auth \subseteq Conns /\ scanned \subseteq Conns
    /\ closer \in {"idle", "waiting", "done"}
    /\ awaited \subseteq Conns
    /\ listening \in BOOLEAN

AdmissionInit ==
    /\ stage = [c \in Conns |-> "new"]
    /\ acq = [c \in Conns |-> "none"]
    /\ value = MaxSessions
    /\ waiters = <<>>
    /\ allConns = {} /\ auth = {} /\ scanned = {}
    /\ closer = "idle" /\ awaited = {} /\ listening = TRUE
----------------------------------------------------------------------------
(* Semaphore.locked().                                                     *)
Locked == value = 0 \/ waiters # <<>>

(* The first n waiters of queue without a permit.                          *)
FirstWaiting(queue, n) ==
    LET waiting(i) == acq[queue[i]] = "waiting"
    IN  {queue[i] : i \in {j \in DOMAIN queue :
            waiting(j) /\ Cardinality({k \in 1..(j - 1) : waiting(k)}) < n}}

(* n free permits, handed to the waiters of queue as far as they go; c's   *)
(* task is then in state s.                                                *)
HandOut(queue, n, c, s) ==
    LET lucky == FirstWaiting(queue, n)
    IN  /\ waiters' = queue
        /\ value' = n - Cardinality(lucky)
        /\ acq' = [d \in Conns |-> IF d = c THEN s
                                   ELSE IF d \in lucky THEN "woken" ELSE acq[d]]

(* release() by c: one more permit, for one waiter at most.                *)
Release(c) ==
    LET lucky == FirstWaiting(waiters, 1)
    IN  /\ value' = value + 1 - Cardinality(lucky)
        /\ acq' = [d \in Conns |-> IF d = c THEN "done"
                                   ELSE IF d \in lucky THEN "woken" ELSE acq[d]]
        /\ UNCHANGED waiters
----------------------------------------------------------------------------
(* connection_made: a connection over the limit is closed, any other gets  *)
(* a task that will take its permit.                                       *)
ConnectionMade(c) ==
    /\ listening
    /\ stage[c] = "new"
    /\ allConns' = allConns \cup {c}
    /\ IF Locked
       THEN stage' = [stage EXCEPT ![c] = "closing"] /\ UNCHANGED acq
       ELSE stage' = [stage EXCEPT ![c] = "open"] /\ acq' = [acq EXCEPT ![c] = "created"]
    /\ UNCHANGED <<value, waiters, auth, scanned, closer, awaited, listening>>

(* The task runs: it queues, or takes a permit, which it gives back when   *)
(* the connection is already closed.                                       *)
AcquireStarts(c) ==
    /\ acq[c] = "created"
    /\ \/ /\ Locked
          /\ waiters' = Append(waiters, c)
          /\ acq' = [acq EXCEPT ![c] = "waiting"]
          /\ UNCHANGED value
       \/ /\ ~Locked /\ stage[c] # "closed"
          /\ value' = value - 1
          /\ acq' = [acq EXCEPT ![c] = "held"]
          /\ UNCHANGED waiters
       \/ /\ ~Locked /\ stage[c] = "closed"
          /\ acq' = [acq EXCEPT ![c] = "done"]
          /\ UNCHANGED <<value, waiters>>
    /\ UNCHANGED <<stage, allConns, auth, scanned, closer, awaited, listening>>

(* A slip: the permit kept though the connection is closed.                *)
AcquireResumesKeeps(c) ==
    /\ acq[c] = "woken"
    /\ \E i \in DOMAIN waiters :
         waiters[i] = c /\ HandOut(RemoveAt(waiters, i), value, c, "held")
    /\ UNCHANGED <<stage, allConns, auth, scanned, closer, awaited, listening>>

(* A waiter with a permit runs again: it leaves the queue, wakes others as *)
(* far as permits are free, and gives its own back when the connection was *)
(* closed meanwhile.                                                       *)
AcquireResumes(c) ==
    /\ acq[c] = "woken"
    /\ \E i \in DOMAIN waiters :
         /\ waiters[i] = c
         /\ IF stage[c] = "closed"
            THEN HandOut(RemoveAt(waiters, i), value + 1, c, "done")
            ELSE HandOut(RemoveAt(waiters, i), value, c, "held")
    /\ UNCHANGED <<stage, allConns, auth, scanned, closer, awaited, listening>>

(* validate_password and validate_public_key begin.                        *)
Authenticate(c) ==
    /\ stage[c] = "open"
    /\ auth' = auth \cup {c}
    /\ UNCHANGED <<stage, acq, value, waiters, allConns, scanned, closer, awaited, listening>>

(* The session calls close(): exit, command limit, idle watchdog.          *)
Close(c) ==
    /\ stage[c] = "open"
    /\ stage' = [stage EXCEPT ![c] = "closing"]
    /\ UNCHANGED <<acq, value, waiters, allConns, auth, scanned, closer, awaited, listening>>

(* A slip in connection_lost: release() without _acquired_semaphore.       *)
ServerConnectionLostReleases(c) ==
    /\ stage[c] \in {"open", "closing"}
    /\ stage' = [stage EXCEPT ![c] = "closed"]
    /\ allConns' = allConns \ {c}
    /\ scanned' = IF c \in auth THEN scanned ELSE scanned \cup {c}
    /\ Release(c)
    /\ UNCHANGED <<auth, closer, awaited, listening>>

(* connection_lost, after close() or because the peer left.                *)
ServerConnectionLost(c) ==
    /\ stage[c] \in {"open", "closing"}
    /\ stage' = [stage EXCEPT ![c] = "closed"]
    /\ allConns' = allConns \ {c}
    /\ scanned' = IF c \in auth THEN scanned ELSE scanned \cup {c}
    /\ IF acq[c] = "held" THEN Release(c) ELSE UNCHANGED <<acq, value, waiters>>
    /\ UNCHANGED <<auth, closer, awaited, listening>>

(* A slip in close_all_sessions: only the admitted connections closed.     *)
CloseAllSessionsHeld ==
    /\ closer = "idle"
    /\ closer' = "waiting"
    /\ awaited' = allConns
    /\ stage' = [c \in Conns |-> IF c \in allConns /\ acq[c] = "held" THEN "closing" ELSE stage[c]]
    /\ UNCHANGED <<acq, value, waiters, allConns, auth, scanned, listening>>

(* close_all_sessions: every connection there is is closed, then awaited.  *)
CloseAllSessions ==
    /\ closer = "idle"
    /\ closer' = "waiting"
    /\ awaited' = allConns
    /\ stage' = [c \in Conns |-> IF c \in allConns THEN "closing" ELSE stage[c]]
    /\ UNCHANGED <<acq, value, waiters, allConns, auth, scanned, listening>>

(* gather returns, and main closes the listening server.                   *)
CloseAllReturns ==
    /\ closer = "waiting"
    /\ \A c \in awaited : stage[c] = "closed"
    /\ closer' = "done"
    /\ awaited' = {}
    /\ listening' = FALSE
    /\ UNCHANGED <<stage, acq, value, waiters, allConns, auth, scanned>>

LoopStep(c) ==
    \/ AcquireStarts(c) \/ AcquireResumes(c)
    \/ stage[c] = "closing" /\ ServerConnectionLost(c)

AdmissionNext ==
    \/ \E c \in Conns :
         \/ ConnectionMade(c) \/ AcquireStarts(c) \/ AcquireResumes(c)
         \/ Authenticate(c) \/ Close(c) \/ ServerConnectionLost(c)
    \/ CloseAllSessions \/ CloseAllReturns

AdmissionSpec == AdmissionInit /\ [][AdmissionNext]_admissionVars

(* The loop runs every task that can run and every callback scheduled by   *)
(* close(), and main's coroutine.  Nothing obliges a peer to connect, to   *)
(* authenticate or to leave, nor the operator to stop the program.         *)
AdmissionFairness ==
    /\ \A c \in Conns : WF_admissionVars(LoopStep(c))
    /\ WF_admissionVars(CloseAllReturns)

FairAdmissionSpec == AdmissionSpec /\ AdmissionFairness
----------------------------------------------------------------------------
(* Every permit is free, handed to a waiter, or held by a connection that  *)
(* is not closed: none is lost or returned twice, in whatever order the    *)
(* task, the close and connection_lost run (ssh_server.py:41-53, 205-207). *)
PermitsConserved ==
    /\ value + Cardinality({c \in Conns : acq[c] \in {"woken", "held"}}) = MaxSessions
    /\ \A c \in Conns : acq[c] = "held" => stage[c] \in {"open", "closing"}

(* The semaphore is never released beyond its bound, and its permits are   *)
(* conserved (ssh_server.py:14, 41-53, 205-207).                           *)
PermitsInv == AdmissionTypeOK /\ PermitsConserved

(* Once every connection is gone and while no other comes, the queue       *)
(* drains and every permit comes back, whichever tasks had yet to start,   *)
(* to get a permit or to run again (ssh_server.py:43-47, 205-206).         *)
AllGone == \A c \in Conns : stage[c] \in {"new", "closed"}

PermitsComeBack == AllGone ~> (~AllGone \/ (value = MaxSessions /\ waiters = <<>>))

(* close_all_sessions returns, although connections are accepted while it  *)
(* waits (ssh_server.py:217-223).                                          *)
CloseAllEnds == closer = "waiting" ~> closer = "done"
=============================================================================
