--------------------------- MODULE EventPipeline ---------------------------
(***************************************************************************)
(* The life of a logged event: log_event inserts it in the table logs      *)
(* (app/db.py), then a task of its own adds it to the in-memory tally of   *)
(* StatsManager (app/stats.py), and a flush writes that tally over the row *)
(* of the day in the table daily_summary.                                  *)
(*                                                                         *)
(* Everything runs on one asyncio loop, so a step of the model is the code *)
(* between two awaits.  The two asyncio.Locks are FIFO queues whose head   *)
(* is the holder: dbq is _DB_LOCK, sq is StatsManager._lock.  The SQLite   *)
(* connection has one transaction shared by every task: conn is what the   *)
(* connection sees, disk what a commit has made durable.                   *)
(***************************************************************************)
EXTENDS Integers, Sequences, FiniteSets

CONSTANTS
    Events,      \* the calls of log_event
    Classes,     \* classifications
    ClassOf,     \* [Events -> Classes]
    MaxTime,     \* bound on the wall clock
    MaxDay,      \* days are 0..MaxDay
    LocalDay,    \* day of datetime.now() at a time of the clock
    FaultSites,  \* operations that may raise: "insert", "upsert", "commit", "load"
    MaxFaults,   \* bound on the number of faults
    MaxCrashes,  \* bound on the number of crashes
    Upsert,      \* the flush, as a client of _DB_LOCK
    Saver        \* run_background_saver, as a client of StatsManager._lock

Time == 0..MaxTime
Days == 0..MaxDay
None == -1

ASSUME ConstantsAssumption ==
    /\ IsFiniteSet(Events)
    /\ ClassOf \in [Events -> Classes]
    /\ MaxTime \in Nat /\ MaxDay \in Nat
    /\ LocalDay \in [Time -> Days]
    /\ MaxFaults \in Nat /\ MaxCrashes \in Nat
    /\ Upsert \notin Events
    /\ Saver \notin Events

(* The wall clock is not set back.                                         *)
ASSUME ClockAssumption ==
    \A s, t \in Time : s <= t => LocalDay[s] <= LocalDay[t]

VARIABLES
    clock,     \* datetime.now()
    proc,      \* the process: "down", "loading" (before load_today_stats), "up"
    ev,        \* where each call of log_event and its register_event task are
    stamp,     \* the timestamp argument of log_event
    dbq,       \* queue of _DB_LOCK
    phase,     \* the statement the holder of _DB_LOCK awaits
    conn,      \* the tables as the connection sees them
    disk,      \* the tables as committed
    prom,      \* PROM_EVENTS, all labels together
    sq,        \* queue of StatsManager._lock
    mem,       \* _counts, _total, _first_seen, _last_seen
    day,       \* _current_day
    dirty,     \* _dirty
    flushing,  \* the holder of StatsManager._lock awaits upsert_daily_summary
    arg,       \* its arguments, and the local variable today of register_event
    home,      \* history: the day under which an event was tallied
    unread,    \* history: days whose stored row the load at start last failed to read
    dropped,   \* history: days whose tally a rollover reset though its flush had raised
    faults,
    crashes

dbVars    == <<dbq, phase, conn, disk>>
misses    == <<unread, dropped>>
statsVars == <<sq, mem, day, dirty, flushing, arg, home, misses>>
vars == <<clock, proc, ev, stamp, dbVars, prom, statsVars, faults, crashes>>
----------------------------------------------------------------------------
(* A row of daily_summary.  No row and the empty tally are one value: a    *)
(* flush never writes an empty tally, and loading one changes nothing.     *)
Row == [counts : [Classes -> Nat], total : Nat,
        first : Time \cup {None}, last : Time \cup {None}]

EmptyRow == [counts |-> [c \in Classes |-> 0], total |-> 0,
             first |-> None, last |-> None]

NoArg == [day |-> 0, row |-> EmptyRow, today |-> 0]

Tables == [rows : SUBSET Events, summary : [Days -> Row]]

EvStates == {"idle", "inserting", "created", "registering", "counted", "raised", "lost"}

TypeOK ==
    /\ clock \in Time
    /\ proc \in {"down", "loading", "up"}
    /\ ev \in [Events -> EvStates]
    /\ stamp \in [Events -> Time]
    /\ dbq \in Seq(Events \cup {Upsert})
    /\ phase \in {"exec", "retry", "commit"}
    /\ conn \in Tables
    /\ disk \in Tables
    /\ prom \in Nat
    /\ sq \in Seq(Events \cup {Saver})
    /\ mem \in Row
    /\ day \in Days
    /\ dirty \in BOOLEAN
    /\ flushing \in BOOLEAN
    /\ arg \in [day : Days, row : Row, today : Days]
    /\ home \in [Events -> Days \cup {None}]
    /\ unread \in SUBSET Days
    /\ dropped \in SUBSET Days
    /\ faults \in 0..MaxFaults
    /\ crashes \in 0..MaxCrashes

Init ==
    /\ clock = 0
    /\ proc = "down"
    /\ ev = [e \in Events |-> "idle"]
    /\ stamp = [e \in Events |-> 0]
    /\ dbq = <<>>
    /\ phase = "exec"
    /\ conn = [rows |-> {}, summary |-> [d \in Days |-> EmptyRow]]
    /\ disk = conn
    /\ prom = 0
    /\ sq = <<>>
    /\ mem = EmptyRow
    /\ day = 0
    /\ dirty = FALSE
    /\ flushing = FALSE
    /\ arg = NoArg
    /\ home = [e \in Events |-> None]
    /\ unread = {}
    /\ dropped = {}
    /\ faults = 0
    /\ crashes = 0
----------------------------------------------------------------------------
Today == LocalDay[clock]

HoldsDb(c, p) == dbq # <<>> /\ Head(dbq) = c /\ phase = p

ReleaseDb == dbq' = Tail(dbq) /\ phase' = "exec"

HoldsStats(c) == sq # <<>> /\ Head(sq) = c /\ ~flushing

(* An operation at this site raises.                                       *)
Fault(site) ==
    /\ site \in FaultSites
    /\ faults < MaxFaults
    /\ faults' = faults + 1
----------------------------------------------------------------------------
(* log_event: called with a timestamp, it queues for _DB_LOCK.             *)
LogEvent(e) ==
    /\ proc = "up"
    /\ ev[e] = "idle"
    /\ ev' = [ev EXCEPT ![e] = "inserting"]
    /\ stamp' = [stamp EXCEPT ![e] = clock]
    /\ dbq' = Append(dbq, e)
    /\ UNCHANGED <<clock, proc, phase, conn, disk, prom, statsVars, faults, crashes>>

InsertRow(e) ==
    /\ HoldsDb(e, "exec")
    /\ conn' = [conn EXCEPT !.rows = @ \cup {e}]
    /\ phase' = "commit"
    /\ UNCHANGED <<clock, proc, ev, stamp, dbq, disk, prom, statsVars, faults, crashes>>

(* The statement or its commit raises: the lock is released, the caller    *)
(* gets the exception, and no register_event task is created.  An inserted *)
(* row stays in the open transaction.                                      *)
InsertRaises(e) ==
    /\ \/ HoldsDb(e, "exec") /\ Fault("insert")
       \/ HoldsDb(e, "commit") /\ Fault("commit")
    /\ ev' = [ev EXCEPT ![e] = "raised"]
    /\ ReleaseDb
    /\ UNCHANGED <<clock, proc, stamp, conn, disk, prom, statsVars, crashes>>

(* A slip in log_event: no commit.                                         *)
CommitInsertNoCommit(e) ==
    /\ HoldsDb(e, "commit")
    /\ ReleaseDb
    /\ prom' = prom + 1
    /\ ev' = [ev EXCEPT ![e] = "created"]
    /\ UNCHANGED <<clock, proc, stamp, conn, disk, statsVars, faults, crashes>>

(* commit returns: the lock is released, PROM_EVENTS is incremented and    *)
(* the register_event task is created, all before the next await.          *)
CommitInsert(e) ==
    /\ HoldsDb(e, "commit")
    /\ disk' = conn
    /\ ReleaseDb
    /\ prom' = prom + 1
    /\ ev' = [ev EXCEPT ![e] = "created"]
    /\ UNCHANGED <<clock, proc, stamp, conn, statsVars, faults, crashes>>
----------------------------------------------------------------------------
(* The tally of one more event of class c, now.                            *)
Bump(row, c) ==
    [counts |-> [row.counts EXCEPT ![c] = @ + 1],
     total  |-> row.total + 1,
     first  |-> IF row.first = None THEN clock ELSE row.first,
     last   |-> clock]

(* The end of register_event, under the lock: the event joins row, which   *)
(* is the tally of day d.                                                  *)
Tally(e, row, d) ==
    /\ mem' = Bump(row, ClassOf[e])
    /\ day' = d
    /\ dirty' = TRUE
    /\ home' = [home EXCEPT ![e] = d]
    /\ ev' = [ev EXCEPT ![e] = "counted"]
    /\ sq' = Tail(sq)

(* The register_event task starts and queues for the lock.                 *)
RegisterStart(e) ==
    /\ ev[e] = "created"
    /\ ev' = [ev EXCEPT ![e] = "registering"]
    /\ sq' = Append(sq, e)
    /\ UNCHANGED <<clock, proc, stamp, dbVars, prom, mem, day, dirty, flushing,
                   arg, home, misses, faults, crashes>>

(* A slip in register_event: the tally reset without flushing it.          *)
RegisterNowUnflushed(e) ==
    /\ HoldsStats(e)
    /\ IF Today = day THEN Tally(e, mem, day) ELSE Tally(e, EmptyRow, Today)
    /\ UNCHANGED <<clock, proc, stamp, dbVars, prom, flushing, arg, misses, faults, crashes>>

(* Same day, or a new day with nothing to flush: no await under the lock.  *)
RegisterNow(e) ==
    /\ HoldsStats(e)
    /\ \/ Today = day /\ Tally(e, mem, day)
       \/ Today # day /\ ~dirty /\ Tally(e, EmptyRow, Today)
    /\ UNCHANGED <<clock, proc, stamp, dbVars, prom, flushing, arg, misses, faults, crashes>>

(* _flush_internal up to its await: the arguments of upsert_daily_summary  *)
(* are copies, and the call queues for _DB_LOCK.                           *)
FlushBegin ==
    /\ flushing' = TRUE
    /\ arg' = [day |-> day, row |-> mem, today |-> Today]
    /\ dbq' = Append(dbq, Upsert)

(* A new day and an unflushed tally: register_event flushes it first.      *)
RegisterRollover(e) ==
    /\ HoldsStats(e)
    /\ Today # day
    /\ dirty
    /\ FlushBegin
    /\ UNCHANGED <<clock, proc, ev, stamp, phase, conn, disk, prom,
                   sq, mem, day, dirty, home, misses, faults, crashes>>

(* run_background_saver wakes from its sleep and calls flush.              *)
SaverWakes ==
    /\ proc = "up"
    /\ \A i \in 1..Len(sq) : sq[i] # Saver
    /\ sq' = Append(sq, Saver)
    /\ UNCHANGED <<clock, proc, ev, stamp, dbVars, prom, mem, day, dirty,
                   flushing, arg, home, misses, faults, crashes>>

SaverFlushes ==
    /\ HoldsStats(Saver)
    /\ \/ ~dirty /\ sq' = Tail(sq) /\ UNCHANGED <<dbq, flushing, arg>>
       \/ dirty /\ FlushBegin /\ UNCHANGED sq
    /\ UNCHANGED <<clock, proc, ev, stamp, phase, conn, disk, prom,
                   mem, day, dirty, home, misses, faults, crashes>>
----------------------------------------------------------------------------
(* upsert_daily_summary.  INSERT ... ON CONFLICT, and REPLACE if it raised.*)
UpsertRow ==
    /\ HoldsDb(Upsert, "exec") \/ HoldsDb(Upsert, "retry")
    /\ conn' = [conn EXCEPT !.summary[arg.day] = arg.row]
    /\ phase' = "commit"
    /\ UNCHANGED <<clock, proc, ev, stamp, dbq, disk, prom, statsVars, faults, crashes>>

UpsertRetries ==
    /\ HoldsDb(Upsert, "exec")
    /\ Fault("upsert")
    /\ phase' = "retry"
    /\ UNCHANGED <<clock, proc, ev, stamp, dbq, conn, disk, prom, statsVars, crashes>>

(* _flush_internal after its await: flush returns to the saver, which      *)
(* leaves _dirty as stillDirty says, or to register_event, which goes on   *)
(* to tally its event on top of row for the day it read before the await.  *)
FlushReturns(stillDirty, row) ==
    /\ ReleaseDb
    /\ flushing' = FALSE
    /\ arg' = NoArg
    /\ \/ /\ Head(sq) = Saver
          /\ dirty' = stillDirty
          /\ sq' = Tail(sq)
          /\ UNCHANGED <<ev, mem, day, home>>
       \/ /\ Head(sq) # Saver
          /\ Tally(Head(sq), row, arg.today)

(* Slips in _flush_internal and _reset: _dirty cleared though the upsert   *)
(* raised, _first_seen or nothing reset.                                   *)
FlushEndAlwaysClean(ok) == FlushReturns(FALSE, EmptyRow)
FlushEndKeepsFirst(ok) == FlushReturns(~ok, [EmptyRow EXCEPT !.first = mem.first])
FlushEndNoReset(ok) == FlushReturns(~ok, mem)

(* _dirty is cleared when the upsert was committed and stays set when it   *)
(* raised; register_event resets the tally in both cases.                  *)
FlushEnd(ok) == FlushReturns(~ok, EmptyRow)

CommitUpsert ==
    /\ HoldsDb(Upsert, "commit")
    /\ disk' = conn
    /\ FlushEnd(TRUE)
    /\ UNCHANGED <<clock, proc, stamp, conn, prom, misses, faults, crashes>>

UpsertRaises ==
    /\ \/ HoldsDb(Upsert, "retry") /\ Fault("upsert")
       \/ HoldsDb(Upsert, "commit") /\ Fault("commit")
    /\ FlushEnd(FALSE)
    /\ dropped' = IF Head(sq) = Saver THEN dropped ELSE dropped \cup {arg.day}
    /\ UNCHANGED <<clock, proc, stamp, conn, disk, prom, unread, crashes>>
----------------------------------------------------------------------------
(* main: StatsManager(), then load_today_stats before any server starts.   *)
Start ==
    /\ proc = "down"
    /\ proc' = "loading"
    /\ day' = Today
    /\ UNCHANGED <<clock, ev, stamp, dbVars, prom, sq, mem, dirty, flushing,
                   arg, home, misses, faults, crashes>>

(* A slip in load_today_stats: the row is read and dropped.                *)
LoadTodayStatsDropped ==
    /\ proc = "loading"
    /\ proc' = "up"
    /\ UNCHANGED <<clock, ev, stamp, dbVars, prom, statsVars, faults, crashes>>

(* The row of the day becomes the tally; an exception is caught and the    *)
(* tally stays empty.                                                      *)
LoadTodayStats ==
    /\ proc = "loading"
    /\ proc' = "up"
    /\ \/ mem' = conn.summary[day] /\ unread' = unread \ {day} /\ UNCHANGED faults
       \/ Fault("load") /\ unread' = unread \cup {day} /\ UNCHANGED mem
    /\ UNCHANGED <<clock, ev, stamp, dbVars, prom, sq, day, dirty, flushing,
                   arg, home, dropped, crashes>>

(* The process is killed: its tasks, its tally and the open transaction    *)
(* are gone.                                                               *)
Crash ==
    /\ proc # "down"
    /\ crashes < MaxCrashes
    /\ crashes' = crashes + 1
    /\ proc' = "down"
    /\ ev' = [e \in Events |-> IF ev[e] \in {"inserting", "created", "registering"}
                               THEN "lost" ELSE ev[e]]
    /\ dbq' = <<>> /\ phase' = "exec"
    /\ conn' = disk
    /\ prom' = 0
    /\ sq' = <<>> /\ flushing' = FALSE /\ arg' = NoArg
    /\ mem' = EmptyRow /\ dirty' = FALSE
    /\ UNCHANGED <<clock, stamp, disk, day, home, misses, faults>>

Tick ==
    /\ clock < MaxTime
    /\ clock' = clock + 1
    /\ UNCHANGED <<proc, ev, stamp, dbVars, prom, statsVars, faults, crashes>>

(* What the event loop and the database thread do with an event.           *)
EventStep(e) ==
    \/ InsertRow(e) \/ InsertRaises(e) \/ CommitInsert(e)
    \/ RegisterStart(e) \/ RegisterNow(e) \/ RegisterRollover(e)

FlushStep ==
    \/ SaverFlushes
    \/ UpsertRow \/ UpsertRetries \/ CommitUpsert \/ UpsertRaises

Next ==
    \/ \E e \in Events : LogEvent(e) \/ EventStep(e)
    \/ SaverWakes
    \/ FlushStep
    \/ Start \/ LoadTodayStats \/ Crash \/ Tick

Spec == Init /\ [][Next]_vars

(* The loop runs every ready callback, the database thread every queued    *)
(* statement, and the saver's sleep expires.  Nothing obliges a caller to  *)
(* log, a fault or a crash to happen, or the clock to reach its bound.     *)
Fairness ==
    /\ \A e \in Events : WF_vars(EventStep(e))
    /\ WF_vars(FlushStep)
    /\ WF_vars(SaverWakes)

FairSpec == Spec /\ Fairness
----------------------------------------------------------------------------
(* Events of class c tallied, at whatever time, under day d.               *)
TalliedUnder(d, c) == {e \in Events : home[e] = d /\ ClassOf[e] = c}

(* A tally that is not dirty is on disk: whatever a crash then destroys,   *)
(* the saver and a rollover may skip the flush (stats.py:51).  It relates  *)
(* the flag to the committed row across the await in _flush_internal, the  *)
(* commits of other tasks and a failed upsert.                             *)
CleanMeansStored ==
    proc = "up" /\ ~dirty /\ mem.total > 0 => disk.summary[day] = mem

(* No event is counted twice, under two days, or under a day it was not    *)
(* registered on: neither by a flush retried or repeated, nor by a tally   *)
(* loaded after a crash (stats.py:19-47).                                  *)
NoOvercount ==
    \A c \in Classes :
        /\ \A d \in Days : disk.summary[d].counts[c] <= Cardinality(TalliedUnder(d, c))
        /\ proc = "up" => mem.counts[c] <= Cardinality(TalliedUnder(day, c))

(* total_events is the sum of by_class in every stored row and in memory,  *)
(* through _reset, load and the copies of a flush (stats.py:40, :55).  The *)
(* sum is the number of marks when every class makes one for each count.   *)
Marks(counts) == UNION {{c} \X (1..counts[c]) : c \in Classes}

SumsUp(row) == row.total = Cardinality(Marks(row.counts))

TotalIsSum ==
    /\ SumsUp(mem)
    /\ \A d \in Days : SumsUp(disk.summary[d])

(* first_seen and last_seen span the events of their day: none of them is  *)
(* inherited from the day before a rollover or a restart (stats.py:66).   *)
SpansItsDay(row, d) ==
    row.total > 0 => /\ row.first # None
                     /\ row.first <= row.last
                     /\ LocalDay[row.first] >= d

SeenWithinDay ==
    /\ SpansItsDay(mem, day)
    /\ \A d \in Days : SpansItsDay(disk.summary[d], d)

(* What a row says of its day is one account: its sum and its span are     *)
(* those of the same events, in memory and on disk (stats.py:40-73).       *)
RowsConsistent == TotalIsSum /\ SeenWithinDay

(* An event with a register_event task, and one that is tallied, has a     *)
(* committed row in logs: whatever raises and wherever the process stops,  *)
(* the summary never counts an event the log lacks (db.py:112-130).        *)
TalliedHaveRows ==
    {e \in Events : ev[e] \in {"created", "registering"} \/ home[e] # None}
        \subseteq disk.rows

(* As long as the process runs, a day that is over is stored completely,   *)
(* as README.md:103 says: its row counts every event tallied on it,        *)
(* whatever raises and whatever the saver, the queues and the clock do     *)
(* while it ends.  The one exception is a day whose flush at the rollover  *)
(* raises: _reset drops its tally all the same (stats.py:36-38).           *)
StoredInFull(d) ==
    \A c \in Classes : disk.summary[d].counts[c] = Cardinality(TalliedUnder(d, c))

DaysComplete ==
    crashes = 0 => \A d \in Days \ dropped : d < day => StoredInFull(d)

(* No step replaces a stored total by a smaller one: neither the flush     *)
(* after a restart nor one of a later day (db.py:147, ON CONFLICT UPDATE). *)
(* The one exception is the day of a process whose load at start raised:   *)
(* its tally starts from nothing (stats.py:30).                            *)
SummaryNeverShrinks ==
    [][\A d \in Days \ unread : disk'.summary[d].total >= disk.summary[d].total]_disk

(* Once its row is committed, an event is tallied, and the stored row of   *)
(* the day it was tallied under comes to count it with all the others of   *)
(* that day, however often upserts raise: _dirty keeps the saver trying    *)
(* (stats.py:62-65).  The exceptions are a killed process and the day      *)
(* whose flush raises at the rollover.                                     *)
EventuallyStored ==
    \A e \in Events :
        ev[e] = "created" ~>
            \/ ev[e] = "counted" /\ (StoredInFull(home[e]) \/ home[e] \in dropped)
            \/ crashes > 0
=============================================================================
