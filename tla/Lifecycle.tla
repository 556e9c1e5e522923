----------------------------- MODULE Lifecycle -----------------------------
(***************************************************************************)
(* Start and shutdown of the process (main.py, app/startup.py) with the    *)
(* connection to the database they open and close (init_db and close_db of *)
(* app/db.py), against the calls of log_event and the flushes that use the *)
(* connection meanwhile, and the end of asyncio.run, which cancels every   *)
(* task that is left and closes the loop when those have ended.            *)
(*                                                                         *)
(* A client of the connection is a call of log_event, the background saver *)
(* or main with its final flush.  Of a tally only the events in it count;  *)
(* days, classes and crashes are in EventPipeline.  The locks are had in   *)
(* any order here, not only the order of their queues.                     *)
(***************************************************************************)
EXTENDS Integers, FiniteSets

CONSTANTS
    Calls,        \* the calls of log_event
    Saver, Main,  \* the tasks that flush
    MaxFaults     \* bound on the statements that raise

ASSUME ConstantsAssumption ==
    /\ IsFiniteSet(Calls)
    /\ Saver # Main /\ {Saver, Main} \cap Calls = {}
    /\ MaxFaults \in Nat

VARIABLES
    main,     \* what main is about to do, or how it ended
    loop,     \* "running"; main over: "cancelling", "lingering" (so is a session), "ended"
    at,       \* where each client is
    tally,    \* the events in StatsManager
    dirty,    \* its _dirty
    opened,   \* connections that have been _DB_CONN, which are numbered in this order
    cur,      \* the connection in _DB_CONN, 0 for None
    threads,  \* connections not closed, each with a thread of its own
    writer,   \* the connection with an open transaction, or 0
    seen,     \* the tables as that connection sees them
    disk,     \* the tables as committed
    late,     \* history: calls not over when the final flush began, or made since
    due,      \* history: the tally when the tasks were cancelled
    faults

stats    == <<tally, dirty>>
database == <<opened, cur, threads>>
tables   == <<writer, seen, disk>>
history  == <<late, due>>
vars == <<main, loop, at, stats, database, tables, history, faults>>

Flushers == {Saver, Main}
Clients  == Calls \cup Flushers

Failed == {"initFailed", "sshFailed", "telnetFailed"}
Ended  == {"returned"} \cup Failed

Tables == [rows : SUBSET Calls, sum : SUBSET Calls]

TypeOK ==
    /\ main \in {"init", "ssh", "telnet", "serving", "sshStop", "telnetStop",
                 "flush", "close", "closing"} \cup Ended
    /\ loop \in {"running", "cancelling", "lingering", "ended"}
    /\ at \in [Clients -> {"idle", "wanting", "opening", "queued", "written", "created",
                           "counted", "raised", "lost", "over"}]
    /\ tally \subseteq Calls /\ dirty \in BOOLEAN
    /\ opened \in Nat /\ cur \in 0..opened
    /\ threads \in Nat
    /\ writer \in 0..opened
    /\ seen \in Tables /\ disk \in Tables
    /\ late \subseteq Calls /\ due \subseteq Calls
    /\ faults \in 0..MaxFaults

Init ==
    /\ main = "init" /\ loop = "running"
    /\ at = [x \in Clients |-> "idle"]
    /\ tally = {} /\ dirty = FALSE
    /\ opened = 0 /\ cur = 0 /\ threads = 0
    /\ writer = 0
    /\ disk = [rows |-> {}, sum |-> {}] /\ seen = disk
    /\ late = {} /\ due = {}
    /\ faults = 0
----------------------------------------------------------------------------
In(S) == {x \in Clients : at[x] \in S}

Goto(x, place) == at' = [at EXCEPT ![x] = place]

(* A client awaits a statement: it has _DB_LOCK.                           *)
DbLocked == In({"written"}) # {}

(* A flush is under way: it has StatsManager._lock.                        *)
StatsLocked == In({"opening", "queued", "written"}) \cap Flushers # {}

(* SSH connections may come in, and none of the tasks has to end.          *)
Serving == loop # "ended" /\ main \notin {"init", "initFailed", "ssh", "sshFailed"}

(* The final flush has begun.                                              *)
Stopping == main \in {"flush", "close", "closing", "returned"}

Fault == faults < MaxFaults /\ faults' = faults + 1

(* init_db is done: the new connection becomes _DB_CONN, whatever that is. *)
Connect ==
    /\ opened' = opened + 1
    /\ cur' = opened + 1
    /\ threads' = threads + 1
----------------------------------------------------------------------------
(* main: init_db, the statistics, the saver.                               *)
Start ==
    /\ main = "init"
    /\ main' = "ssh"
    /\ Connect
    /\ UNCHANGED <<loop, at, stats, tables, history, faults>>

(* init_db raises, before its connection is there or after: then nothing   *)
(* closes that, and main is left with no saver made.                       *)
StartFails ==
    /\ main = "init" /\ Fault
    /\ main' = "initFailed"
    /\ threads' \in {threads, threads + 1}
    /\ UNCHANGED <<loop, at, stats, opened, cur, tables, history>>

(* A server listens.                                                       *)
Listen ==
    /\ \/ main = "ssh" /\ main' = "telnet"
       \/ main = "telnet" /\ main' = "serving"
    /\ UNCHANGED <<loop, at, stats, database, tables, history, faults>>

(* It cannot, and main is left before its try.                             *)
ListenFails ==
    /\ \/ main = "ssh" /\ main' = "sshFailed"
       \/ main = "telnet" /\ main' = "telnetFailed"
    /\ UNCHANGED <<loop, at, stats, database, tables, history, faults>>

Signal ==
    /\ main = "serving"
    /\ main' = "sshStop"
    /\ UNCHANGED <<loop, at, stats, database, tables, history, faults>>

(* close_all_sessions, then at most 3 s for the server to close; a task of *)
(* a session may outlast it.                                               *)
StopSsh ==
    /\ main = "sshStop"
    /\ main' = "telnetStop"
    /\ UNCHANGED <<loop, at, stats, database, tables, history, faults>>

(* A slip in main: the database closed without a final flush.              *)
StopTelnetNoFlush ==
    /\ main = "telnetStop"
    /\ main' = "close"
    /\ Goto(Main, "over")
    /\ late' = In({"opening", "queued", "written", "created"}) \cap Calls
    /\ UNCHANGED <<loop, stats, database, tables, due, faults>>

(* close_cleaning_task, then at most 3 s for stop; then the final flush.   *)
StopTelnet ==
    /\ main = "telnetStop"
    /\ main' = "flush"
    /\ Goto(Main, "wanting")
    /\ late' = In({"opening", "queued", "written", "created"}) \cap Calls
    /\ UNCHANGED <<loop, stats, database, tables, due, faults>>

(* A slip in close_db: _DB_CONN set to None before the close.              *)
CloseDbNoneFirst ==
    /\ main = "close"
    /\ main' = "returned"
    /\ cur' = 0
    /\ threads' = threads - 1
    /\ writer' = 0
    /\ seen' = disk
    /\ UNCHANGED <<loop, at, stats, opened, disk, history, faults>>

(* close_db: the thread closes the connection, without _DB_LOCK; what is   *)
(* not committed is rolled back.                                           *)
CloseDb ==
    /\ main = "close"
    /\ main' = "closing"
    /\ threads' = threads - 1
    /\ writer' = 0
    /\ seen' = disk
    /\ UNCHANGED <<loop, at, stats, opened, cur, disk, history, faults>>

(* close returns, after every statement submitted before it did.           *)
DbClosed ==
    /\ main = "closing"
    /\ ~DbLocked
    /\ main' = "returned"
    /\ cur' = 0
    /\ UNCHANGED <<loop, at, stats, opened, threads, tables, history, faults>>
----------------------------------------------------------------------------
(* A flush is over; the saver goes back to sleep, unless it was cancelled. *)
FlushOver(f) ==
    /\ Goto(f, IF f = Saver /\ loop = "running" THEN "idle" ELSE "over")
    /\ main' = IF f = Main THEN "close" ELSE main

(* log_event and upsert_daily_summary open the database if there is none.  *)
Enter(x) == Goto(x, IF cur = 0 THEN "opening" ELSE "queued")

LogEvent(c) ==
    /\ Serving
    /\ at[c] = "idle"
    /\ Enter(c)
    /\ late' = IF Stopping THEN late \cup {c} ELSE late
    /\ UNCHANGED <<main, loop, stats, database, tables, due, faults>>

(* init_db returns; another client may have opened the database meanwhile. *)
Opened(x) ==
    /\ at[x] = "opening"
    /\ Connect
    /\ Goto(x, "queued")
    /\ UNCHANGED <<main, loop, stats, tables, history, faults>>

(* init_db raises, as in StartFails.                                       *)
OpenRaises(x) ==
    /\ at[x] = "opening" /\ Fault
    /\ threads' \in {threads, threads + 1}
    /\ IF x \in Flushers THEN FlushOver(x) ELSE Goto(x, "raised") /\ UNCHANGED main
    /\ UNCHANGED <<loop, stats, opened, cur, tables, history>>

(* The connection takes a statement: it is there, has not been closed, and *)
(* no other has a transaction open.                                        *)
Writable == cur # 0 /\ main # "closing" /\ writer \in {0, cur}

(* Under _DB_LOCK: the row of an event, or the tally as the summary.       *)
Write(x) ==
    /\ at[x] = "queued" /\ ~DbLocked
    /\ Writable
    /\ writer' = cur
    /\ seen' = IF x \in Calls THEN [seen EXCEPT !.rows = @ \cup {x}]
                              ELSE [seen EXCEPT !.sum = tally]
    /\ Goto(x, "written")
    /\ UNCHANGED <<main, loop, stats, database, disk, history, faults>>

(* A commit on the connection that _DB_CONN now is: on another than the    *)
(* one written on, it commits nothing and succeeds.                        *)
CommitCur ==
    \/ writer = cur /\ disk' = seen /\ writer' = 0 /\ UNCHANGED seen
    \/ writer # cur /\ UNCHANGED tables

SaverWakes ==
    /\ loop = "running" /\ main \notin {"init", "initFailed"}
    /\ at[Saver] = "idle"
    /\ Goto(Saver, "wanting")
    /\ UNCHANGED <<main, loop, stats, database, tables, history, faults>>

Flush(f) ==
    /\ at[f] = "wanting" /\ ~StatsLocked
    /\ \/ ~dirty /\ FlushOver(f)
       \/ dirty /\ Enter(f) /\ UNCHANGED main
    /\ UNCHANGED <<loop, stats, database, tables, history, faults>>

CommitInsert(c) ==
    /\ at[c] = "written"
    /\ main # "closing"
    /\ CommitCur
    /\ Goto(c, "created")
    /\ UNCHANGED <<main, loop, stats, database, history, faults>>

CommitUpsert(f) ==
    /\ at[f] = "written"
    /\ main # "closing"
    /\ CommitCur
    /\ dirty' = FALSE
    /\ FlushOver(f)
    /\ UNCHANGED <<loop, tally, database, history, faults>>

(* A statement or a commit raises, by itself or for want of a connection.  *)
Raises(x) ==
    /\ \/ at[x] = "queued" /\ ~DbLocked /\ (Fault \/ (~Writable /\ UNCHANGED faults))
       \/ at[x] = "written" /\ (Fault \/ (main = "closing" /\ UNCHANGED faults))
    /\ IF x \in Flushers THEN FlushOver(x) ELSE Goto(x, "raised") /\ UNCHANGED main
    /\ UNCHANGED <<loop, stats, database, tables, history>>

(* register_event, on the day of the tally.                                *)
Register(c) ==
    /\ at[c] = "created" /\ loop # "ended"
    /\ ~StatsLocked
    /\ tally' = tally \cup {c}
    /\ dirty' = TRUE
    /\ Goto(c, "counted")
    /\ UNCHANGED <<main, loop, database, tables, history, faults>>
----------------------------------------------------------------------------
(* Slips in run_background_saver: cancelled, it ends, or sleeps on.        *)
CancelledEnds(x) ==
    IF x = Saver THEN "over"
    ELSE IF at[x] \in {"opening", "queued", "written", "created"} THEN "lost" ELSE at[x]

CancelledSleeps(x) ==
    IF x = Saver THEN IF main = "initFailed" THEN "over" ELSE "idle"
    ELSE IF at[x] \in {"opening", "queued", "written", "created"} THEN "lost" ELSE at[x]

(* asyncio.run, main being over, cancels every task.  A commit under way   *)
(* may be done all the same, a connection being opened may keep its thread,*)
(* and the saver flushes once more.  A session may still log as it ends.   *)
Cancelled(x) ==
    IF x = Saver THEN IF main = "initFailed" THEN "over" ELSE "wanting"
    ELSE IF at[x] \in {"opening", "queued", "written", "created"} THEN "lost" ELSE at[x]

(* A Telnet session may outlive it: the bare except around the 10 ms read  *)
(* takes the cancellation, and _close waits for a client that does not     *)
(* read.                                                                   *)
CancelTasks ==
    /\ loop = "running" /\ main \in Ended
    /\ loop' \in {"cancelling"} \cup (IF main = "returned" THEN {"lingering"} ELSE {})
    /\ at' = [x \in Clients |-> Cancelled(x)]
    /\ IF DbLocked THEN CommitCur \/ UNCHANGED tables ELSE UNCHANGED tables
    /\ \E n \in 0..Cardinality(In({"opening"})) : threads' = threads + n
    /\ due' = tally
    /\ UNCHANGED <<main, stats, opened, cur, late, faults>>

(* The client of such a session lets go of it, which nothing makes it do.  *)
LingererEnds ==
    /\ loop = "lingering"
    /\ loop' = "cancelling"
    /\ UNCHANGED <<main, at, stats, database, tables, history, faults>>

(* Those tasks have ended, and the loop is closed; a register_event task   *)
(* made since may never have run.                                          *)
LoopEnds ==
    /\ loop = "cancelling"
    /\ In({"opening", "queued", "written"}) = {} /\ at[Saver] = "over"
    /\ loop' = "ended"
    /\ UNCHANGED <<main, at, stats, database, tables, history, faults>>

MainStep ==
    \/ Start \/ StartFails \/ Listen \/ ListenFails
    \/ StopSsh \/ StopTelnet \/ CloseDb \/ DbClosed
    \/ CancelTasks \/ LoopEnds

ClientStep(x) == Opened(x) \/ OpenRaises(x) \/ Write(x) \/ Raises(x)

FlushStep(f) == ClientStep(f) \/ Flush(f) \/ CommitUpsert(f)

CallStep(c) == ClientStep(c) \/ CommitInsert(c) \/ Register(c)

Next ==
    \/ MainStep \/ Signal \/ SaverWakes \/ LingererEnds
    \/ \E c \in Calls : LogEvent(c) \/ CallStep(c)
    \/ \E f \in Flushers : FlushStep(f)

Spec == Init /\ [][Next]_vars

(* The loop runs what can run, statements return or raise, and the waits   *)
(* of the shutdown end: each has a timeout, but for that of                *)
(* close_all_sessions, which ends once asyncssh has closed its sessions.   *)
(* Nothing makes the client of a lingering session let go of it.           *)
Fairness ==
    /\ WF_vars(MainStep)
    /\ \A c \in Calls : WF_vars(CallStep(c))
    /\ \A f \in Flushers : WF_vars(FlushStep(f))

FairSpec == Spec /\ Fairness
----------------------------------------------------------------------------
(* As long as the database is opened again at most once, an event whose    *)
(* log_event returned is in the log for good, and the stored summary counts*)
(* no event that is not, across close_db, which takes no lock, and the     *)
(* connection that replaces the closed one.  Two clients that open it      *)
(* again together break it (db.py:108-122): the second connection replaces *)
(* the first under its transaction.                                        *)
ReturnedHaveRows ==
    opened <= 2 =>
        /\ In({"created", "counted"}) \cap Calls \subseteq disk.rows
        /\ disk.sum \subseteq disk.rows

(* If nothing raised and the database was opened again at most once, what  *)
(* was tallied when main was over is stored when the loop has ended,       *)
(* whether main shut down or a server could not start, and whatever flush  *)
(* was cancelled half way: the saver's last one makes up for it            *)
(* (stats.py:85-87, main.py:53-54).  Two clients that open the database    *)
(* again together break it with nothing raised (db.py:108-122), as they do *)
(* ReturnedHaveRows.                                                       *)
TallyOutlivesMain ==
    loop = "ended" /\ faults = 0 /\ opened <= 2 => due \subseteq disk.sum

(* If the sessions are silent from the final flush on and nothing raises,  *)
(* the shutdown leaves nothing out and nothing running: what was tallied   *)
(* is stored, and no database thread keeps the process (main.py:88-94).    *)
QuietShutdownComplete ==
    loop = "ended" /\ main = "returned" /\ late = {} /\ faults = 0 =>
        tally = disk.sum /\ threads = 0

(* Once a signal has come, or the start failed, the loop ends, whatever    *)
(* raises and whoever still logs, provided every session that outlives its *)
(* cancellation ends (main.py:47-54, 73-94): the saver's last flush, which *)
(* asyncio.run waits for, comes to its end in every state the connection   *)
(* was left in.  The process ends when the threads of its connections have,*)
(* which is not said here.                                                 *)
ShutdownEnds ==
    []<>(loop # "lingering") =>
        (main \in {"sshStop"} \cup Failed ~> loop = "ended")
=============================================================================
