------------------------ MODULE EventPipelineProofs ------------------------
(***************************************************************************)
(* Proofs about EventPipeline, for every set of events, every clock and    *)
(* every number of faults and crashes: the type invariant, and each safety *)
(* property of the summary.                                                *)
(***************************************************************************)
EXTENDS EventPipeline, FiniteSetTheorems, TLAPS

USE DEF Time, Days, None

LEMMA EmptyRowType == EmptyRow \in Row
  BY DEF EmptyRow, Row

(* Counting one more event keeps a tally well formed.                      *)
LEMMA BumpType ==
  ASSUME NEW row \in Row, NEW c \in Classes, clock \in Time
  PROVE  Bump(row, c) \in Row
<1>1. [row.counts EXCEPT ![c] = @ + 1] \in [Classes -> Nat]
  BY DEF Row
<1>2. row.total + 1 \in Nat
  BY DEF Row
<1> QED
  BY <1>1, <1>2 DEF Bump, Row

LEMMA TodayType ==
  ASSUME clock \in Time
  PROVE  Today \in Days
  BY ConstantsAssumption DEF ConstantsAssumption, Today

(* The head of a queue is one of its clients, and its tail is a queue.     *)
LEMMA QueueType ==
  ASSUME NEW S, NEW q \in Seq(S), q # <<>>
  PROVE  Head(q) \in S /\ Tail(q) \in Seq(S)
  OBVIOUS

LEMMA TallyType ==
  ASSUME TypeOK, NEW e \in Events, NEW row \in Row, NEW d \in Days,
         sq # <<>>, Tally(e, row, d)
  PROVE  /\ mem' \in Row
         /\ day' \in Days
         /\ dirty' \in BOOLEAN
         /\ home' \in [Events -> Days \cup {None}]
         /\ ev' \in [Events -> EvStates]
         /\ sq' \in Seq(Events \cup {Saver})
<1>1. ClassOf[e] \in Classes
  BY ConstantsAssumption DEF ConstantsAssumption
<1>2. mem' \in Row
  BY <1>1, BumpType DEF TypeOK, Tally
<1>3. sq' \in Seq(Events \cup {Saver})
  BY QueueType DEF TypeOK, Tally
<1>4. home' \in [Events -> Days \cup {None}] /\ ev' \in [Events -> EvStates]
  BY DEF TypeOK, Tally, EvStates
<1> QED
  BY <1>2, <1>3, <1>4 DEF Tally

LEMMA FlushBeginType ==
  ASSUME TypeOK, FlushBegin
  PROVE  /\ flushing' \in BOOLEAN
         /\ arg' \in [day : Days, row : Row, today : Days]
         /\ dbq' \in Seq(Events \cup {Upsert})
<1>1. Today \in Days
  BY TodayType DEF TypeOK
<1> QED
  BY <1>1 DEF TypeOK, FlushBegin

LEMMA FlushEndType ==
  ASSUME TypeOK, NEW ok \in BOOLEAN, FlushEnd(ok), dbq # <<>>, sq # <<>>
  PROVE  /\ dbq' \in Seq(Events \cup {Upsert})
         /\ phase' \in {"exec", "retry", "commit"}
         /\ flushing' \in BOOLEAN
         /\ arg' \in [day : Days, row : Row, today : Days]
         /\ mem' \in Row
         /\ day' \in Days
         /\ dirty' \in BOOLEAN
         /\ home' \in [Events -> Days \cup {None}]
         /\ ev' \in [Events -> EvStates]
         /\ sq' \in Seq(Events \cup {Saver})
<1>1. NoArg \in [day : Days, row : Row, today : Days]
  BY EmptyRowType, ConstantsAssumption DEF NoArg, ConstantsAssumption
<1>2. /\ dbq' \in Seq(Events \cup {Upsert})
      /\ phase' \in {"exec", "retry", "commit"}
      /\ flushing' \in BOOLEAN
      /\ arg' \in [day : Days, row : Row, today : Days]
  BY <1>1, QueueType DEF TypeOK, FlushEnd, FlushReturns, ReleaseDb
<1>3. CASE /\ Head(sq) = Saver
           /\ dirty' = ~ok
           /\ sq' = Tail(sq)
           /\ UNCHANGED <<ev, mem, day, home>>
  BY <1>2, <1>3, QueueType DEF TypeOK
<1>4. CASE Head(sq) # Saver /\ Tally(Head(sq), EmptyRow, arg.today)
  <2>1. Head(sq) \in Events
    BY <1>4, QueueType DEF TypeOK
  <2>2. arg.today \in Days
    BY DEF TypeOK
  <2> QED
    BY <1>2, <1>4, <2>1, <2>2, EmptyRowType, TallyType
<1> QED
  BY <1>3, <1>4 DEF FlushEnd, FlushReturns
----------------------------------------------------------------------------
(* Occurrences in a queue.                                                 *)
InQueue(x, q) == \E i \in 1..Len(q) : q[i] = x

AtMostOnce(x, q) == \A i, j \in 1..Len(q) : q[i] = x /\ q[j] = x => i = j

LEMMA HeadInQueue ==
  ASSUME NEW S, NEW q \in Seq(S), q # <<>>
  PROVE  InQueue(Head(q), q)
<1>1. 1 \in 1..Len(q) /\ q[1] = Head(q)
  OBVIOUS
<1> QED
  BY <1>1 DEF InQueue

LEMMA AppendOther ==
  ASSUME NEW S, NEW q \in Seq(S), NEW x, NEW y \in S, y # x
  PROVE  /\ InQueue(x, Append(q, y)) => InQueue(x, q)
         /\ AtMostOnce(x, q) => AtMostOnce(x, Append(q, y))
  BY DEF InQueue, AtMostOnce

LEMMA AppendFirst ==
  ASSUME NEW S, NEW q \in Seq(S), NEW x \in S, ~InQueue(x, q)
  PROVE  AtMostOnce(x, Append(q, x))
  BY DEF InQueue, AtMostOnce

LEMMA TailOnce ==
  ASSUME NEW S, NEW q \in Seq(S), q # <<>>, NEW x, AtMostOnce(x, q)
  PROVE  /\ AtMostOnce(x, Tail(q))
         /\ InQueue(x, Tail(q)) => InQueue(x, q)
         /\ Head(q) = x => ~InQueue(x, Tail(q))
<1>1. /\ Len(Tail(q)) = Len(q) - 1
      /\ \A i \in 1..Len(Tail(q)) : Tail(q)[i] = q[i + 1] /\ i + 1 \in 1..Len(q)
      /\ Len(q) \in Nat /\ 1 \in 1..Len(q) /\ Head(q) = q[1]
  OBVIOUS
<1>2. AtMostOnce(x, Tail(q))
  BY <1>1 DEF AtMostOnce
<1>3. InQueue(x, Tail(q)) => InQueue(x, q)
  BY <1>1 DEF InQueue
<1>4. ASSUME Head(q) = x, InQueue(x, Tail(q))
      PROVE  FALSE
  <2>1. PICK i \in 1..Len(Tail(q)) : Tail(q)[i] = x
    BY <1>4 DEF InQueue
  <2>2. q[i + 1] = x /\ q[1] = x /\ i + 1 \in 1..Len(q) /\ i + 1 # 1
    BY <1>1, <1>4, <2>1
  <2> QED
    BY <1>1, <2>2 DEF AtMostOnce
<1> QED
  BY <1>2, <1>3, <1>4

(* An upsert is queued or running on the connection only for the one flush *)
(* that holds StatsManager._lock.                                          *)
FlushLocked ==
  /\ InQueue(Upsert, dbq) => flushing
  /\ AtMostOnce(Upsert, dbq)
  /\ flushing => sq # <<>>

LEMMA UpsertRunsLocked ==
  ASSUME TypeOK, FlushLocked, dbq # <<>>, Head(dbq) = Upsert
  PROVE  flushing /\ sq # <<>>
  BY HeadInQueue DEF TypeOK, FlushLocked

(* Releasing _DB_LOCK leaves the queue in order.                           *)
LEMMA ReleaseLocked ==
  ASSUME TypeOK, FlushLocked, dbq # <<>>, ReleaseDb
  PROVE  /\ AtMostOnce(Upsert, dbq')
         /\ InQueue(Upsert, dbq') => flushing
         /\ Head(dbq) = Upsert => ~InQueue(Upsert, dbq')
  BY TailOnce DEF TypeOK, FlushLocked, ReleaseDb

LEMMA TypeInit == Init => TypeOK
<1> SUFFICES ASSUME Init PROVE TypeOK
  OBVIOUS
<1>1. EmptyRow \in Row /\ 0 \in Days /\ 0 \in Time
  BY EmptyRowType, ConstantsAssumption DEF ConstantsAssumption
<1>2. NoArg \in [day : Days, row : Row, today : Days]
  BY <1>1 DEF NoArg
<1>3. conn \in Tables
  BY <1>1 DEF Init, Tables
<1>4. dbq \in Seq(Events \cup {Upsert}) /\ sq \in Seq(Events \cup {Saver})
  BY DEF Init
<1>5. faults \in 0..MaxFaults /\ crashes \in 0..MaxCrashes
  BY ConstantsAssumption DEF ConstantsAssumption, Init
<1> QED
  BY <1>1, <1>2, <1>3, <1>4, <1>5 DEF Init, TypeOK, EvStates

LEMMA FaultType ==
  ASSUME TypeOK, NEW site, Fault(site)
  PROVE  faults' \in 0..MaxFaults
  BY ConstantsAssumption DEF ConstantsAssumption, TypeOK, Fault

LEMMA TypeStep == TypeOK /\ FlushLocked /\ [Next]_vars => TypeOK'
<1> SUFFICES ASSUME TypeOK, FlushLocked, [Next]_vars
             PROVE  TypeOK'
  OBVIOUS
<1> USE DEF EvStates, misses
<1>1. ASSUME NEW e \in Events, LogEvent(e)
      PROVE  TypeOK'
  BY <1>1 DEF LogEvent, TypeOK, statsVars
<1>2. ASSUME NEW e \in Events, InsertRow(e)
      PROVE  TypeOK'
  <2>1. conn' \in Tables
    BY <1>2 DEF InsertRow, TypeOK, Tables
  <2> QED
    BY <1>2, <2>1 DEF InsertRow, TypeOK, statsVars
<1>3. ASSUME NEW e \in Events, InsertRaises(e)
      PROVE  TypeOK'
  <2>1. faults' \in 0..MaxFaults /\ dbq # <<>>
    BY <1>3, FaultType DEF InsertRaises, HoldsDb
  <2>2. dbq' \in Seq(Events \cup {Upsert}) /\ phase' = "exec"
    BY <1>3, <2>1, QueueType DEF InsertRaises, ReleaseDb, TypeOK
  <2> QED
    BY <1>3, <2>1, <2>2 DEF InsertRaises, TypeOK, statsVars
<1>4. ASSUME NEW e \in Events, CommitInsert(e)
      PROVE  TypeOK'
  <2>1. dbq' \in Seq(Events \cup {Upsert}) /\ phase' = "exec"
    BY <1>4, QueueType DEF CommitInsert, HoldsDb, ReleaseDb, TypeOK
  <2> QED
    BY <1>4, <2>1 DEF CommitInsert, TypeOK, statsVars
<1>5. ASSUME NEW e \in Events, RegisterStart(e)
      PROVE  TypeOK'
  BY <1>5 DEF RegisterStart, TypeOK, dbVars
<1>6. ASSUME NEW e \in Events, RegisterNow(e)
      PROVE  TypeOK'
  <2>1. Today \in Days /\ day \in Days /\ EmptyRow \in Row /\ mem \in Row
    BY TodayType, EmptyRowType DEF TypeOK
  <2>2. \E row \in Row, d \in Days : Tally(e, row, d)
    BY <1>6, <2>1 DEF RegisterNow
  <2>3. PICK row \in Row, d \in Days : Tally(e, row, d)
    BY <2>2
  <2>4. sq # <<>>
    BY <1>6 DEF RegisterNow, HoldsStats
  <2> QED
    BY <1>6, <2>3, <2>4, TallyType DEF RegisterNow, TypeOK, dbVars
<1>7. ASSUME NEW e \in Events, RegisterRollover(e)
      PROVE  TypeOK'
  BY <1>7, FlushBeginType DEF RegisterRollover, TypeOK
<1>8. CASE SaverWakes
  BY <1>8 DEF SaverWakes, TypeOK, dbVars
<1>9. CASE SaverFlushes
  <2>1. CASE ~dirty /\ sq' = Tail(sq) /\ UNCHANGED <<dbq, flushing, arg>>
    BY <1>9, <2>1, QueueType DEF SaverFlushes, HoldsStats, TypeOK
  <2>2. CASE dirty /\ FlushBegin /\ UNCHANGED sq
    BY <1>9, <2>2, FlushBeginType DEF SaverFlushes, TypeOK
  <2> QED
    BY <1>9, <2>1, <2>2 DEF SaverFlushes
<1>10. CASE UpsertRow
  <2>1. conn' \in Tables
    BY <1>10 DEF UpsertRow, TypeOK, Tables
  <2> QED
    BY <1>10, <2>1 DEF UpsertRow, TypeOK, statsVars
<1>11. CASE UpsertRetries
  BY <1>11, FaultType DEF UpsertRetries, TypeOK, statsVars
<1>12. CASE CommitUpsert
  <2>1. dbq # <<>> /\ FlushEnd(TRUE) /\ sq # <<>>
    BY <1>12, UpsertRunsLocked DEF CommitUpsert, HoldsDb, TypeOK
  <2> QED
    BY <1>12, <2>1, FlushEndType DEF CommitUpsert, TypeOK
<1>13. CASE UpsertRaises
  <2>1. dbq # <<>> /\ FlushEnd(FALSE) /\ sq # <<>>
    BY <1>13, UpsertRunsLocked DEF UpsertRaises, HoldsDb, TypeOK
  <2>2. faults' \in 0..MaxFaults /\ dropped' \in SUBSET Days
    BY <1>13, FaultType DEF UpsertRaises, TypeOK
  <2> QED
    BY <1>13, <2>1, <2>2, FlushEndType DEF UpsertRaises, TypeOK
<1>14. CASE Start
  BY <1>14, TodayType DEF Start, TypeOK, dbVars
<1>15. CASE LoadTodayStats
  <2>1. mem' \in Row /\ faults' \in 0..MaxFaults /\ unread' \in SUBSET Days
    BY <1>15, FaultType DEF LoadTodayStats, TypeOK, Tables
  <2> QED
    BY <1>15, <2>1 DEF LoadTodayStats, TypeOK, dbVars
<1>16. CASE Crash
  <2>1. NoArg \in [day : Days, row : Row, today : Days] /\ EmptyRow \in Row
    BY EmptyRowType, ConstantsAssumption DEF NoArg, ConstantsAssumption
  <2>2. crashes' \in 0..MaxCrashes
    BY <1>16, ConstantsAssumption DEF Crash, TypeOK, ConstantsAssumption
  <2>3. dbq' \in Seq(Events \cup {Upsert}) /\ sq' \in Seq(Events \cup {Saver})
    BY <1>16 DEF Crash
  <2> QED
    BY <1>16, <2>1, <2>2, <2>3 DEF Crash, TypeOK
<1>17. CASE Tick
  <2>1. clock' \in Time
    BY <1>17, ConstantsAssumption DEF Tick, TypeOK, ConstantsAssumption
  <2> QED
    BY <1>17, <2>1 DEF Tick, TypeOK, dbVars, statsVars
<1>18. CASE UNCHANGED vars
  BY <1>18 DEF vars, dbVars, statsVars, TypeOK
<1> QED
  BY <1>1, <1>2, <1>3, <1>4, <1>5, <1>6, <1>7, <1>8, <1>9, <1>10, <1>11, <1>12,
     <1>13, <1>14, <1>15, <1>16, <1>17, <1>18
  DEF Next, EventStep, FlushStep

----------------------------------------------------------------------------
LEMMA FlushLockedStep == TypeOK /\ FlushLocked /\ [Next]_vars => FlushLocked'
<1> SUFFICES ASSUME TypeOK, FlushLocked, [Next]_vars
             PROVE  FlushLocked'
  OBVIOUS
<1>0. \A e \in Events : e # Upsert /\ e \in Events \cup {Upsert}
  BY ConstantsAssumption DEF ConstantsAssumption
<1>1. ASSUME NEW e \in Events, LogEvent(e)
      PROVE  FlushLocked'
  <2>1. /\ AtMostOnce(Upsert, dbq')
        /\ InQueue(Upsert, dbq') => InQueue(Upsert, dbq)
    BY <1>0, <1>1, AppendOther DEF LogEvent, TypeOK, FlushLocked
  <2> QED
    BY <1>1, <2>1 DEF LogEvent, FlushLocked, statsVars
<1>2. ASSUME NEW e \in Events, InsertRaises(e) \/ CommitInsert(e)
      PROVE  FlushLocked'
  <2>1. dbq # <<>> /\ ReleaseDb /\ UNCHANGED <<sq, flushing>>
    BY <1>2 DEF InsertRaises, CommitInsert, HoldsDb, statsVars
  <2> QED
    BY <2>1, ReleaseLocked DEF FlushLocked
<1>3. ASSUME NEW e \in Events, InsertRow(e) \/ RegisterStart(e)
      PROVE  FlushLocked'
  BY <1>3 DEF InsertRow, RegisterStart, FlushLocked, TypeOK, dbVars, statsVars
<1>4. ASSUME NEW e \in Events, RegisterNow(e)
      PROVE  FlushLocked'
  BY <1>4 DEF RegisterNow, HoldsStats, FlushLocked, dbVars
<1>5. ASSUME FlushBegin, ~flushing, sq # <<>>, UNCHANGED sq
      PROVE  FlushLocked'
  <2>1. ~InQueue(Upsert, dbq)
    BY <1>5 DEF FlushLocked
  <2>2. AtMostOnce(Upsert, dbq')
    BY <1>5, <2>1, AppendFirst DEF FlushBegin, TypeOK
  <2> QED
    BY <1>5, <2>2 DEF FlushBegin, FlushLocked
<1>6. ASSUME NEW e \in Events, RegisterRollover(e)
      PROVE  FlushLocked'
  BY <1>5, <1>6 DEF RegisterRollover, HoldsStats
<1>7. CASE SaverWakes
  <2>1. sq \in Seq(Events \cup {Saver}) /\ sq' = Append(sq, Saver)
    BY <1>7 DEF SaverWakes, TypeOK
  <2>2. sq' # <<>>
    BY <2>1
  <2> QED
    BY <1>7, <2>2 DEF SaverWakes, FlushLocked, dbVars
<1>8. CASE SaverFlushes
  <2>1. CASE ~dirty /\ sq' = Tail(sq) /\ UNCHANGED <<dbq, flushing, arg>>
    BY <1>8, <2>1 DEF SaverFlushes, HoldsStats, FlushLocked
  <2>2. CASE dirty /\ FlushBegin /\ UNCHANGED sq
    BY <1>5, <1>8, <2>2 DEF SaverFlushes, HoldsStats
  <2> QED
    BY <1>8, <2>1, <2>2 DEF SaverFlushes
<1>9. CASE UpsertRow \/ UpsertRetries
  BY <1>9 DEF UpsertRow, UpsertRetries, FlushLocked, statsVars
<1>10. CASE CommitUpsert \/ UpsertRaises
  <2>1. dbq # <<>> /\ Head(dbq) = Upsert /\ ReleaseDb /\ flushing' = FALSE
    BY <1>10 DEF CommitUpsert, UpsertRaises, HoldsDb, FlushEnd, FlushReturns
  <2> QED
    BY <2>1, ReleaseLocked DEF FlushLocked
<1>11. CASE Crash
  BY <1>11 DEF Crash, FlushLocked, InQueue, AtMostOnce
<1>12. CASE Start \/ LoadTodayStats \/ Tick \/ UNCHANGED vars
  BY <1>12 DEF Start, LoadTodayStats, Tick, FlushLocked, vars, dbVars, statsVars
<1> QED
  BY <1>1, <1>2, <1>3, <1>4, <1>6, <1>7, <1>8, <1>9, <1>10, <1>11, <1>12
  DEF Next, EventStep, FlushStep

(* Every variable keeps its type, whatever raises and whenever the process *)
(* is killed (db.py:91-158, stats.py:9-87).                                *)
THEOREM TypeCorrect == Spec => []TypeOK
<1>1. Init => FlushLocked
  BY DEF Init, FlushLocked, InQueue, AtMostOnce
<1> QED
  BY <1>1, TypeInit, TypeStep, FlushLockedStep, PTL DEF Spec
----------------------------------------------------------------------------
(* Nothing runs, and nothing is uncommitted, while the process is not up.  *)
Quiet ==
  proc # "up" => /\ dbq = <<>> /\ sq = <<>>
                 /\ ~flushing /\ ~dirty
                 /\ conn = disk
                 /\ \A e \in Events : ev[e] # "created"

(* The flush in progress writes the tally as it is, and what it has        *)
(* executed but not committed is that tally.                               *)
FlushExact ==
  /\ flushing => dirty /\ arg.day = day /\ arg.row = mem
  /\ dbq # <<>> /\ Head(dbq) = Upsert /\ phase = "commit"
       => conn.summary[arg.day] = arg.row
  /\ dbq = <<>> => phase = "exec"

(* A clean tally is the row the connection sees and the row on disk.       *)
CleanStored ==
  ~dirty /\ mem.total > 0 => /\ proc = "up"
                             /\ conn.summary[day] = mem
                             /\ disk.summary[day] = mem

StoredInv == TypeOK /\ FlushLocked /\ Quiet /\ FlushExact /\ CleanStored

LEMMA StoredInit == Init => StoredInv
<1> SUFFICES ASSUME Init PROVE StoredInv
  OBVIOUS
<1>1. FlushLocked
  BY DEF Init, FlushLocked, InQueue, AtMostOnce
<1>2. Quiet /\ FlushExact /\ CleanStored
  BY DEF Init, Quiet, FlushExact, CleanStored, EmptyRow
<1> QED
  BY <1>1, <1>2, TypeInit DEF StoredInv

LEMMA QuietStep == StoredInv /\ [Next]_vars => Quiet'
<1> SUFFICES ASSUME StoredInv, [Next]_vars
             PROVE  Quiet'
  OBVIOUS
<1> USE DEF StoredInv, Quiet
<1>1. ASSUME NEW e \in Events, LogEvent(e)
      PROVE  Quiet'
  BY <1>1 DEF LogEvent
<1>2. ASSUME NEW e \in Events, EventStep(e)
      PROVE  Quiet'
  <2>1. proc = "up" /\ proc' = proc
    BY <1>2 DEF EventStep, InsertRow, InsertRaises, CommitInsert, RegisterStart,
                RegisterNow, RegisterRollover, HoldsDb, HoldsStats, TypeOK
  <2> QED
    BY <2>1
<1>3. CASE SaverWakes \/ FlushStep
  <2>1. proc = "up" /\ proc' = proc
    BY <1>3 DEF SaverWakes, FlushStep, SaverFlushes, UpsertRow, UpsertRetries,
                CommitUpsert, UpsertRaises, HoldsDb, HoldsStats
  <2> QED
    BY <2>1
<1>4. CASE Start \/ Tick \/ UNCHANGED vars
  BY <1>4 DEF Start, Tick, vars, dbVars, statsVars
<1>5. CASE LoadTodayStats
  BY <1>5 DEF LoadTodayStats
<1>6. CASE Crash
  BY <1>6 DEF Crash, TypeOK
<1> QED
  BY <1>1, <1>2, <1>3, <1>4, <1>5, <1>6 DEF Next

LEMMA FlushExactStep == StoredInv /\ [Next]_vars => FlushExact'
<1> SUFFICES ASSUME StoredInv, [Next]_vars
             PROVE  FlushExact'
  OBVIOUS
<1> USE DEF StoredInv, FlushExact
<1>0. \A e \in Events : e # Upsert
  BY ConstantsAssumption DEF ConstantsAssumption
<1>1. ASSUME NEW e \in Events, LogEvent(e)
      PROVE  FlushExact'
  <2>1. dbq' # <<>> /\ (dbq # <<>> => Head(dbq') = Head(dbq)) /\ (dbq = <<>> => Head(dbq') = e)
    BY <1>1 DEF LogEvent, TypeOK
  <2> QED
    BY <1>0, <1>1, <2>1 DEF LogEvent, statsVars
<1>2. ASSUME NEW e \in Events, InsertRow(e)
      PROVE  FlushExact'
  BY <1>0, <1>2 DEF InsertRow, HoldsDb, statsVars
<1>3. ASSUME NEW e \in Events, InsertRaises(e) \/ CommitInsert(e)
      PROVE  FlushExact'
  BY <1>3 DEF InsertRaises, CommitInsert, ReleaseDb, statsVars
<1>4. ASSUME NEW e \in Events, RegisterStart(e)
      PROVE  FlushExact'
  BY <1>4 DEF RegisterStart, dbVars
<1>5. ASSUME NEW e \in Events, RegisterNow(e)
      PROVE  FlushExact'
  BY <1>5 DEF RegisterNow, HoldsStats, dbVars
<1>6. ASSUME FlushBegin, ~flushing, dirty, UNCHANGED <<day, mem, dirty, phase, conn>>
      PROVE  FlushExact'
  <2>1. dbq' # <<>> /\ (dbq # <<>> => Head(dbq') = Head(dbq) /\ Head(dbq) # Upsert)
    BY <1>6, HeadInQueue DEF FlushBegin, FlushLocked, TypeOK
  <2> QED
    BY <1>6, <2>1 DEF FlushBegin
<1>7. ASSUME NEW e \in Events, RegisterRollover(e)
      PROVE  FlushExact'
  BY <1>6, <1>7 DEF RegisterRollover, HoldsStats
<1>8. CASE SaverWakes
  BY <1>8 DEF SaverWakes, dbVars
<1>9. CASE SaverFlushes
  <2>1. CASE ~dirty /\ sq' = Tail(sq) /\ UNCHANGED <<dbq, flushing, arg>>
    BY <1>9, <2>1 DEF SaverFlushes
  <2>2. CASE dirty /\ FlushBegin /\ UNCHANGED sq
    BY <1>6, <1>9, <2>2 DEF SaverFlushes, HoldsStats
  <2> QED
    BY <1>9, <2>1, <2>2 DEF SaverFlushes
<1>10. CASE UpsertRow
  <2>1. conn'.summary[arg.day] = arg.row
    BY <1>10 DEF UpsertRow, TypeOK, Tables
  <2> QED
    BY <1>10, <2>1 DEF UpsertRow, HoldsDb, statsVars
<1>11. CASE UpsertRetries
  BY <1>11 DEF UpsertRetries, HoldsDb, statsVars
<1>12. CASE CommitUpsert \/ UpsertRaises
  <2>1. phase' = "exec" /\ flushing' = FALSE
    BY <1>12 DEF CommitUpsert, UpsertRaises, FlushEnd, FlushReturns, ReleaseDb
  <2> QED
    BY <2>1
<1>13. CASE Start
  BY <1>13 DEF Start, Quiet, dbVars
<1>14. CASE LoadTodayStats
  BY <1>14 DEF LoadTodayStats, Quiet, dbVars
<1>15. CASE Crash
  BY <1>15 DEF Crash
<1>16. CASE Tick \/ UNCHANGED vars
  BY <1>16 DEF Tick, vars, dbVars, statsVars
<1> QED
  BY <1>1, <1>2, <1>3, <1>4, <1>5, <1>7, <1>8, <1>9, <1>10, <1>11, <1>12, <1>13,
     <1>14, <1>15, <1>16
  DEF Next, EventStep, FlushStep

LEMMA CleanStoredStep == StoredInv /\ [Next]_vars => CleanStored'
<1> SUFFICES ASSUME StoredInv, [Next]_vars
             PROVE  CleanStored'
  OBVIOUS
<1> USE DEF StoredInv, CleanStored
<1>1. ASSUME NEW e \in Events, InsertRow(e)
      PROVE  CleanStored'
  <2>1. conn'.summary = conn.summary
    BY <1>1 DEF InsertRow, TypeOK, Tables
  <2> QED
    BY <1>1, <2>1 DEF InsertRow, statsVars
<1>2. ASSUME NEW e \in Events, LogEvent(e) \/ InsertRaises(e) \/ CommitInsert(e)
      PROVE  CleanStored'
  BY <1>2 DEF LogEvent, InsertRaises, CommitInsert, statsVars
<1>3. ASSUME NEW e \in Events, RegisterStart(e) \/ RegisterRollover(e)
      PROVE  CleanStored'
  BY <1>3 DEF RegisterStart, RegisterRollover, dbVars
<1>4. ASSUME NEW e \in Events, RegisterNow(e)
      PROVE  CleanStored'
  BY <1>4 DEF RegisterNow, Tally
<1>5. CASE SaverWakes \/ SaverFlushes
  BY <1>5 DEF SaverWakes, SaverFlushes, dbVars
<1>6. CASE UpsertRow \/ UpsertRetries
  <2>1. dirty
    BY <1>6, UpsertRunsLocked DEF UpsertRow, UpsertRetries, HoldsDb, FlushExact
  <2> QED
    BY <1>6, <2>1 DEF UpsertRow, UpsertRetries, statsVars
<1>7. CASE CommitUpsert
  <2>1. flushing /\ dbq # <<>> /\ Head(dbq) = Upsert /\ phase = "commit" /\ proc = "up"
    BY <1>7, UpsertRunsLocked DEF CommitUpsert, HoldsDb, Quiet
  <2>2. conn.summary[day] = mem
    BY <2>1 DEF FlushExact
  <2>3. CASE UNCHANGED <<mem, day>>
    BY <1>7, <2>1, <2>2, <2>3 DEF CommitUpsert
  <2>4. CASE dirty' = TRUE
    BY <2>4
  <2> QED
    BY <1>7, <2>3, <2>4 DEF CommitUpsert, FlushEnd, FlushReturns, Tally
<1>8. CASE UpsertRaises
  <2>1. dirty' = TRUE
    BY <1>8 DEF UpsertRaises, FlushEnd, FlushReturns, Tally
  <2> QED
    BY <2>1
<1>9. CASE Start
  BY <1>9 DEF Start, Quiet
<1>10. CASE LoadTodayStats
  BY <1>10 DEF LoadTodayStats, Quiet, dbVars
<1>11. CASE Crash
  BY <1>11 DEF Crash, EmptyRow
<1>12. CASE Tick \/ UNCHANGED vars
  BY <1>12 DEF Tick, vars, dbVars, statsVars
<1> QED
  BY <1>1, <1>2, <1>3, <1>4, <1>5, <1>6, <1>7, <1>8, <1>9, <1>10, <1>11, <1>12
  DEF Next, EventStep, FlushStep

(* A tally that is not dirty is on disk, so a flush skipped because of the *)
(* flag (stats.py:51) never loses a count to a crash.                      *)
THEOREM CleanIsStored == Spec => []CleanMeansStored
<1>1. StoredInv /\ [Next]_vars => StoredInv'
  BY TypeStep, FlushLockedStep, QuietStep, FlushExactStep, CleanStoredStep DEF StoredInv
<1>2. StoredInv => CleanMeansStored
  BY DEF StoredInv, CleanStored, CleanMeansStored
<1> QED
  BY <1>1, <1>2, StoredInit, PTL DEF Spec
----------------------------------------------------------------------------
(* In the queue q an event waits at most once, and only in the state st.   *)
WaitsIn(q, f, st) == \A e \in Events : AtMostOnce(e, q) /\ (InQueue(e, q) => f[e] = st)

LEMMA WaitsKept ==
  ASSUME NEW q, NEW f, NEW g, NEW st, WaitsIn(q, f, st),
         \A e \in Events : f[e] = st => g[e] = st
  PROVE  WaitsIn(q, g, st)
  BY DEF WaitsIn

LEMMA WaitsAppended ==
  ASSUME NEW S, NEW q \in Seq(S), NEW f, NEW g, NEW st, WaitsIn(q, f, st),
         NEW x \in S, \A e \in Events \ {x} : f[e] = st => g[e] = st,
         x \in Events => f[x] # st /\ g[x] = st
  PROVE  WaitsIn(Append(q, x), g, st)
<1> SUFFICES ASSUME NEW e \in Events
             PROVE  /\ AtMostOnce(e, Append(q, x))
                    /\ InQueue(e, Append(q, x)) => g[e] = st
  BY DEF WaitsIn
<1>1. CASE e = x
  <2>1. ~InQueue(e, q)
    BY <1>1 DEF WaitsIn
  <2> QED
    BY <1>1, <2>1, AppendFirst
<1>2. CASE e # x
  BY <1>2, AppendOther DEF WaitsIn
<1> QED
  BY <1>1, <1>2

LEMMA WaitsServed ==
  ASSUME NEW S, NEW q \in Seq(S), q # <<>>, NEW f, NEW g, NEW st, WaitsIn(q, f, st),
         \A e \in Events \ {Head(q)} : f[e] = st => g[e] = st
  PROVE  WaitsIn(Tail(q), g, st)
<1> SUFFICES ASSUME NEW e \in Events
             PROVE  /\ AtMostOnce(e, Tail(q))
                    /\ InQueue(e, Tail(q)) => g[e] = st
  BY DEF WaitsIn
<1>1. AtMostOnce(e, q) /\ (InQueue(e, q) => f[e] = st)
  BY DEF WaitsIn
<1> QED
  BY <1>1, TailOnce

LEMMA WaitsEmpty ==
  ASSUME NEW f, NEW st
  PROVE  WaitsIn(<<>>, f, st)
  BY DEF WaitsIn, AtMostOnce, InQueue

(* Each lock is awaited by the events whose task is at its door.           *)
Queued == WaitsIn(dbq, ev, "inserting") /\ WaitsIn(sq, ev, "registering")

LEMMA QueuedInit == Init => Queued
  BY WaitsEmpty DEF Init, Queued

LEMMA QueuedStep == StoredInv /\ Queued /\ [Next]_vars => Queued'
<1> SUFFICES ASSUME StoredInv, Queued, [Next]_vars
             PROVE  Queued'
  OBVIOUS
<1> DEFINE D == Events \cup {Upsert}
           S == Events \cup {Saver}
<1>0. /\ ev \in [Events -> EvStates] /\ dbq \in Seq(D) /\ sq \in Seq(S)
      /\ Upsert \in D /\ Saver \in S /\ Upsert \notin Events /\ Saver \notin Events
      /\ WaitsIn(dbq, ev, "inserting") /\ WaitsIn(sq, ev, "registering")
      /\ \A e \in Events : e \in D /\ e \in S
  BY ConstantsAssumption DEF ConstantsAssumption, StoredInv, TypeOK, Queued
<1> HIDE DEF D, S
<1>1. ASSUME NEW e \in Events, LogEvent(e)
      PROVE  Queued'
  <2>1. ev' = [ev EXCEPT ![e] = "inserting"] /\ ev[e] = "idle"
        /\ dbq' = Append(dbq, e) /\ sq' = sq
    BY <1>1 DEF LogEvent, statsVars
  <2>2. WaitsIn(sq', ev', "registering")
    BY <1>0, <2>1, WaitsKept
  <2>3. WaitsIn(dbq', ev', "inserting")
    BY <1>0, <2>1, WaitsAppended
  <2> QED
    BY <2>2, <2>3 DEF Queued
<1>2. ASSUME NEW e \in Events, InsertRaises(e) \/ CommitInsert(e)
      PROVE  Queued'
  <2>1. /\ dbq # <<>> /\ Head(dbq) = e /\ dbq' = Tail(dbq) /\ sq' = sq
        /\ \E st \in EvStates : ev' = [ev EXCEPT ![e] = st]
    BY <1>2 DEF InsertRaises, CommitInsert, HoldsDb, ReleaseDb, statsVars, EvStates
  <2>2. ev[e] = "inserting"
    BY <1>0, <2>1, HeadInQueue DEF WaitsIn
  <2>3. WaitsIn(sq', ev', "registering")
    BY <1>0, <2>1, <2>2, WaitsKept
  <2>4. WaitsIn(dbq', ev', "inserting")
    BY <1>0, <2>1, WaitsServed
  <2> QED
    BY <2>3, <2>4 DEF Queued
<1>3. ASSUME NEW e \in Events, RegisterStart(e)
      PROVE  Queued'
  <2>1. ev' = [ev EXCEPT ![e] = "registering"] /\ ev[e] = "created"
        /\ sq' = Append(sq, e) /\ dbq' = dbq
    BY <1>3 DEF RegisterStart, dbVars
  <2>2. WaitsIn(dbq', ev', "inserting")
    BY <1>0, <2>1, WaitsKept
  <2>3. WaitsIn(sq', ev', "registering")
    BY <1>0, <2>1, WaitsAppended
  <2> QED
    BY <2>2, <2>3 DEF Queued
<1>4. ASSUME NEW e \in Events, NEW row, NEW d, sq # <<>>, Head(sq) = e, Tally(e, row, d)
      PROVE  WaitsIn(sq', ev', "registering") /\ WaitsIn(dbq, ev', "inserting")
  <2>1. ev' = [ev EXCEPT ![e] = "counted"] /\ sq' = Tail(sq)
    BY <1>4 DEF Tally
  <2>2. ev[e] = "registering"
    BY <1>0, <1>4, HeadInQueue DEF WaitsIn
  <2>3. WaitsIn(dbq, ev', "inserting")
    BY <1>0, <2>1, <2>2, WaitsKept
  <2>4. WaitsIn(sq', ev', "registering")
    BY <1>0, <1>4, <2>1, WaitsServed
  <2> QED
    BY <2>3, <2>4
<1>5. ASSUME NEW e \in Events, RegisterNow(e)
      PROVE  Queued'
  <2>1. PICK row, d : Tally(e, row, d)
    BY <1>5 DEF RegisterNow
  <2>2. sq # <<>> /\ Head(sq) = e /\ dbq' = dbq
    BY <1>5 DEF RegisterNow, HoldsStats, dbVars
  <2> QED
    BY <1>4, <2>1, <2>2 DEF Queued
<1>6. ASSUME FlushBegin, UNCHANGED <<ev, sq>>
      PROVE  Queued'
  <2>1. dbq' = Append(dbq, Upsert)
    BY <1>6 DEF FlushBegin
  <2>2. WaitsIn(dbq', ev, "inserting")
    BY <1>0, <2>1, WaitsAppended
  <2> QED
    BY <1>0, <1>6, <2>2 DEF Queued
<1>7. ASSUME NEW e \in Events, RegisterRollover(e)
      PROVE  Queued'
  BY <1>6, <1>7 DEF RegisterRollover
<1>8. CASE SaverWakes
  <2>1. sq' = Append(sq, Saver) /\ UNCHANGED <<ev, dbq>>
    BY <1>8 DEF SaverWakes, dbVars
  <2>2. WaitsIn(sq', ev, "registering")
    BY <1>0, <2>1, WaitsAppended
  <2> QED
    BY <1>0, <2>1, <2>2 DEF Queued
<1>9. CASE SaverFlushes
  <2>1. CASE ~dirty /\ sq' = Tail(sq) /\ UNCHANGED <<dbq, flushing, arg>>
    <3>1. sq # <<>> /\ sq' = Tail(sq) /\ UNCHANGED <<ev, dbq>>
      BY <1>9, <2>1 DEF SaverFlushes, HoldsStats
    <3>2. WaitsIn(sq', ev, "registering")
      BY <1>0, <3>1, WaitsServed
    <3> QED
      BY <1>0, <3>1, <3>2 DEF Queued
  <2>2. CASE dirty /\ FlushBegin /\ UNCHANGED sq
    BY <1>6, <1>9, <2>2 DEF SaverFlushes
  <2> QED
    BY <1>9, <2>1, <2>2 DEF SaverFlushes
<1>10. CASE CommitUpsert \/ UpsertRaises
  <2>1. dbq # <<>> /\ Head(dbq) = Upsert /\ dbq' = Tail(dbq)
    BY <1>10 DEF CommitUpsert, UpsertRaises, HoldsDb, FlushEnd, FlushReturns, ReleaseDb
  <2>2. flushing /\ sq # <<>> /\ Head(sq) \in S
    BY <1>0, <2>1, UpsertRunsLocked, QueueType DEF StoredInv
  <2>3. CASE Head(sq) = Saver /\ sq' = Tail(sq) /\ UNCHANGED ev
    <3>1. WaitsIn(sq', ev, "registering")
      BY <1>0, <2>2, <2>3, WaitsServed
    <3>2. WaitsIn(dbq', ev, "inserting")
      BY <1>0, <2>1, WaitsServed
    <3> QED
      BY <2>3, <3>1, <3>2 DEF Queued
  <2>4. CASE Head(sq) # Saver /\ Tally(Head(sq), EmptyRow, arg.today)
    <3>1. Head(sq) \in Events
      BY <2>2, <2>4 DEF S
    <3>2. WaitsIn(sq', ev', "registering") /\ WaitsIn(dbq, ev', "inserting")
      BY <1>4, <2>2, <2>4, <3>1
    <3>3. WaitsIn(dbq', ev', "inserting")
      BY <1>0, <2>1, <3>2, WaitsServed
    <3> QED
      BY <3>2, <3>3 DEF Queued
  <2> QED
    BY <1>10, <2>3, <2>4 DEF CommitUpsert, UpsertRaises, FlushEnd, FlushReturns
<1>11. CASE Crash
  BY <1>11, WaitsEmpty DEF Crash, Queued
<1>12. ASSUME UNCHANGED <<ev, dbq, sq>>
       PROVE  Queued'
  BY <1>12 DEF Queued
<1>13. ASSUME NEW e \in Events, InsertRow(e)
       PROVE  Queued'
  BY <1>12, <1>13 DEF InsertRow, statsVars
<1>14. CASE UpsertRow \/ UpsertRetries \/ Start \/ LoadTodayStats \/ Tick \/ UNCHANGED vars
  BY <1>12, <1>14 DEF UpsertRow, UpsertRetries, Start, LoadTodayStats, Tick, vars,
                      dbVars, statsVars
<1> QED
  BY <1>1, <1>2, <1>3, <1>5, <1>7, <1>8, <1>9, <1>10, <1>11, <1>13, <1>14
  DEF Next, EventStep, FlushStep
----------------------------------------------------------------------------
(* The day of the tally, the days of the events and the day for which a    *)
(* rollover tallies come in this order, and a process that is not up has   *)
(* no tally.                                                               *)
Dated ==
  /\ proc # "up" => mem = EmptyRow
  /\ day <= Today
  /\ \A e \in Events : home[e] # None => ev[e] = "counted" /\ home[e] <= day
  /\ flushing /\ Head(sq) # Saver => day < arg.today /\ arg.today <= Today

AccountsInv == StoredInv /\ Queued /\ Dated

(* What a step does to the tables of both sides.                           *)
KeepsTables == conn'.summary = conn.summary /\ disk'.summary = disk.summary

CommitsTables == conn'.summary = conn.summary /\ disk'.summary = conn.summary

RevertsTables == conn'.summary = disk.summary /\ disk'.summary = disk.summary

WritesTally ==
  /\ proc = "up" /\ proc' = "up"
  /\ conn'.summary = [conn.summary EXCEPT ![day] = mem]
  /\ disk'.summary = disk.summary
  /\ UNCHANGED <<mem, day, home>>

TablesFlow ==
  \/ KeepsTables \/ CommitsTables
  \/ RevertsTables /\ proc' = "down" /\ crashes' = crashes + 1
  \/ WritesTally

(* What a step does to the tally, its day and the days of the events.      *)
KeepsTally ==
  /\ UNCHANGED <<mem, day, home, unread, dropped>>
  /\ proc' = proc

LoadsTally ==
  /\ proc = "loading" /\ proc' = "up"
  /\ \/ mem' = conn.summary[day] /\ unread' = unread \ {day}
     \/ mem' = mem /\ unread' = unread \cup {day}
  /\ KeepsTables
  /\ UNCHANGED <<day, home, dropped>>

DropsTally ==
  /\ proc' = "down" /\ crashes' = crashes + 1
  /\ mem' = EmptyRow
  /\ UNCHANGED <<day, home, unread, dropped>>

OpensDay ==
  /\ proc = "down" /\ proc' = "loading"
  /\ day' = Today
  /\ UNCHANGED <<mem, home, unread, dropped>>

CountsFor(e) ==
  /\ proc = "up" /\ proc' = "up"
  /\ home[e] = None /\ home' = [home EXCEPT ![e] = day']
  /\ unread' = unread
  /\ \/ /\ day' = day /\ day = Today
        /\ mem' = Bump(mem, ClassOf[e])
        /\ KeepsTables /\ dropped' = dropped
     \/ /\ day < day' /\ day' <= Today
        /\ mem' = Bump(EmptyRow, ClassOf[e])
        /\ \/ KeepsTables /\ ~dirty /\ dropped' = dropped
           \/ CommitsTables /\ conn.summary[day] = mem /\ dropped' = dropped
           \/ KeepsTables /\ dropped' = dropped \cup {day}

TallyFlow ==
  \/ KeepsTally \/ LoadsTally \/ DropsTally \/ OpensDay
  \/ \E e \in Events : CountsFor(e)

Flow == TablesFlow /\ TallyFlow /\ day' \in Days /\ clock' \in Time /\ clock <= clock'

(* A flush that ends either leaves the tally alone or starts the next day. *)
LEMMA FlushEndFlow ==
  ASSUME AccountsInv, FlushEnd(TRUE) \/ FlushEnd(FALSE), dbq # <<>>, Head(dbq) = Upsert,
         UNCHANGED <<proc, clock, unread>>,
         \/ CommitsTables /\ conn.summary[day] = mem /\ dropped' = dropped
         \/ /\ KeepsTables
            /\ dropped' = IF Head(sq) = Saver THEN dropped ELSE dropped \cup {day}
  PROVE  TallyFlow /\ day' \in Days
<1>1. /\ flushing /\ sq # <<>> /\ proc = "up"
      /\ Head(sq) \in Events \cup {Saver}
  BY UpsertRunsLocked, QueueType DEF AccountsInv, StoredInv, TypeOK, Quiet
<1>2. CASE Head(sq) = Saver /\ UNCHANGED <<mem, day, home>>
  BY <1>2 DEF TallyFlow, KeepsTally, AccountsInv, StoredInv, TypeOK
<1>3. CASE Head(sq) # Saver /\ Tally(Head(sq), EmptyRow, arg.today)
  <2> DEFINE e == Head(sq)
  <2>1. e \in Events /\ day < arg.today /\ arg.today <= Today /\ arg.today \in Days
    BY <1>1, <1>3 DEF AccountsInv, Dated, StoredInv, TypeOK
  <2>2. ev[e] = "registering"
    BY <1>1, <2>1, HeadInQueue DEF AccountsInv, Queued, WaitsIn, StoredInv, TypeOK
  <2>3. home[e] = None
    BY <2>1, <2>2 DEF AccountsInv, Dated
  <2>4. CountsFor(e)
    BY <1>1, <1>3, <2>1, <2>3, ConstantsAssumption DEF CountsFor, Tally, ConstantsAssumption
  <2> QED
    BY <1>3, <2>1, <2>4 DEF TallyFlow, Tally
<1> QED
  BY <1>2, <1>3 DEF FlushEnd, FlushReturns

(* Every step is one of these.                                             *)
LEMMA StepFlows == AccountsInv /\ [Next]_vars => Flow
<1> SUFFICES ASSUME AccountsInv, [Next]_vars
             PROVE  Flow
  OBVIOUS
<1>0. /\ day \in Days /\ clock \in Time /\ TypeOK /\ clock <= clock
      /\ conn \in Tables /\ disk \in Tables
  BY ConstantsAssumption DEF AccountsInv, StoredInv, TypeOK, ConstantsAssumption
<1>1. ASSUME KeepsTables \/ CommitsTables, UNCHANGED <<proc, mem, day, home, clock, unread, dropped>>
      PROVE  Flow
  BY <1>0, <1>1 DEF Flow, TablesFlow, TallyFlow, KeepsTally
<1>2. ASSUME NEW e \in Events, LogEvent(e) \/ InsertRaises(e) \/ CommitInsert(e)
                               \/ RegisterStart(e) \/ RegisterRollover(e)
      PROVE  Flow
  <2>1. KeepsTables \/ CommitsTables
    BY <1>2 DEF LogEvent, InsertRaises, CommitInsert, RegisterStart, RegisterRollover,
                KeepsTables, CommitsTables, dbVars
  <2>2. UNCHANGED <<proc, mem, day, home, clock, unread, dropped>>
    BY <1>2 DEF LogEvent, InsertRaises, CommitInsert, RegisterStart, RegisterRollover, statsVars, misses
  <2> QED
    BY <1>1, <2>1, <2>2
<1>3. ASSUME NEW e \in Events, InsertRow(e)
      PROVE  Flow
  <2>1. conn'.summary = conn.summary
    BY <1>0, <1>3 DEF InsertRow, Tables
  <2> QED
    BY <1>1, <1>3, <2>1 DEF InsertRow, KeepsTables, statsVars, misses
<1>4. ASSUME NEW e \in Events, RegisterNow(e)
      PROVE  Flow
  <2>1. sq # <<>> /\ Head(sq) = e /\ ~flushing /\ KeepsTables
        /\ UNCHANGED <<proc, clock, unread, dropped>>
    BY <1>4 DEF RegisterNow, HoldsStats, dbVars, misses, KeepsTables
  <2>2. ev[e] = "registering" /\ proc = "up"
    BY <2>1, HeadInQueue DEF AccountsInv, Queued, WaitsIn, StoredInv, TypeOK, Quiet
  <2>3. home[e] = None /\ day <= Today /\ Today \in Days
    BY <1>0, <2>2, TodayType DEF AccountsInv, Dated
  <2>4. CASE Today = day /\ Tally(e, mem, day)
    <3>1. CountsFor(e)
      BY <2>1, <2>2, <2>3, <2>4 DEF CountsFor, Tally
    <3> QED
      BY <1>0, <2>1, <2>4, <3>1 DEF Flow, TablesFlow, TallyFlow, Tally
  <2>5. CASE Today # day /\ ~dirty /\ Tally(e, EmptyRow, Today)
    <3>1. day < Today
      BY <1>0, <2>3, <2>5, ConstantsAssumption DEF ConstantsAssumption
    <3>2. CountsFor(e)
      BY <2>1, <2>2, <2>3, <2>5, <3>1, ConstantsAssumption
      DEF CountsFor, Tally, ConstantsAssumption
    <3> QED
      BY <1>0, <2>1, <2>3, <2>5, <3>2 DEF Flow, TablesFlow, TallyFlow, Tally
  <2> QED
    BY <1>4, <2>4, <2>5 DEF RegisterNow
<1>5. CASE SaverWakes \/ SaverFlushes \/ UpsertRetries
  <2>1. KeepsTables /\ UNCHANGED <<proc, mem, day, home, clock, unread, dropped>>
    BY <1>5 DEF SaverWakes, SaverFlushes, UpsertRetries, dbVars, statsVars, misses, KeepsTables
  <2> QED
    BY <1>1, <2>1
<1>6. CASE UpsertRow
  <2>1. flushing /\ proc = "up" /\ arg.day = day /\ arg.row = mem
    BY <1>6, UpsertRunsLocked
    DEF UpsertRow, HoldsDb, AccountsInv, StoredInv, Quiet, FlushExact
  <2>2. conn'.summary = [conn.summary EXCEPT ![day] = mem] /\ disk'.summary = disk.summary
    BY <1>0, <1>6, <2>1 DEF UpsertRow, Tables
  <2>3. UNCHANGED <<proc, mem, day, home, clock, unread, dropped>>
    BY <1>6 DEF UpsertRow, statsVars, misses
  <2> QED
    BY <1>0, <2>1, <2>2, <2>3 DEF Flow, TablesFlow, WritesTally, TallyFlow, KeepsTally
<1>7. CASE CommitUpsert
  <2>1. dbq # <<>> /\ Head(dbq) = Upsert /\ phase = "commit" /\ FlushEnd(TRUE)
        /\ CommitsTables /\ UNCHANGED <<proc, clock, unread, dropped>>
    BY <1>7 DEF CommitUpsert, HoldsDb, CommitsTables, misses
  <2>2. conn.summary[day] = mem
    BY <2>1, UpsertRunsLocked DEF AccountsInv, StoredInv, FlushExact
  <2>3. TallyFlow /\ day' \in Days
    BY <2>1, <2>2, FlushEndFlow
  <2> QED
    BY <1>0, <2>1, <2>3 DEF Flow, TablesFlow
<1>8. CASE UpsertRaises
  <2>1. dbq # <<>> /\ Head(dbq) = Upsert /\ FlushEnd(FALSE)
        /\ KeepsTables /\ UNCHANGED <<proc, clock, unread>>
        /\ dropped' = IF Head(sq) = Saver THEN dropped ELSE dropped \cup {arg.day}
    BY <1>8 DEF UpsertRaises, HoldsDb, KeepsTables
  <2>2. arg.day = day
    BY <2>1, UpsertRunsLocked DEF AccountsInv, StoredInv, FlushExact
  <2>3. TallyFlow /\ day' \in Days
    BY <2>1, <2>2, FlushEndFlow
  <2> QED
    BY <1>0, <2>1, <2>3 DEF Flow, TablesFlow
<1>9. CASE Start
  BY <1>0, <1>9, TodayType DEF Start, dbVars, misses, Flow, TablesFlow, KeepsTables, TallyFlow, OpensDay
<1>10. CASE LoadTodayStats
  <2>1. KeepsTables /\ UNCHANGED <<day, home, clock, dropped>>
        /\ proc = "loading" /\ proc' = "up"
    BY <1>10 DEF LoadTodayStats, dbVars, KeepsTables
  <2>2. TallyFlow
    BY <1>10, <2>1 DEF LoadTodayStats, TallyFlow, LoadsTally
  <2> QED
    BY <1>0, <2>1, <2>2 DEF Flow, TablesFlow
<1>11. CASE Crash
  BY <1>0, <1>11 DEF Crash, misses, Flow, TablesFlow, RevertsTables, TallyFlow, DropsTally
<1>12. CASE Tick
  <2>1. clock' \in Time /\ clock <= clock'
    BY <1>0, <1>12, ConstantsAssumption DEF Tick, ConstantsAssumption
  <2> QED
    BY <1>0, <1>12, <2>1
    DEF Tick, dbVars, statsVars, misses, Flow, TablesFlow, KeepsTables, TallyFlow, KeepsTally
<1>13. CASE UNCHANGED vars
  BY <1>1, <1>13 DEF vars, dbVars, statsVars, misses, KeepsTables
<1> QED
  BY <1>2, <1>3, <1>4, <1>5, <1>6, <1>7, <1>8, <1>9, <1>10, <1>11, <1>12, <1>13
  DEF Next, EventStep, FlushStep
----------------------------------------------------------------------------
(* An event is tallied once: it stays counted, with its day.               *)
LEMMA CountedStep ==
  ASSUME AccountsInv, [Next]_vars, NEW x \in Events
  PROVE  /\ ev[x] = "counted" => ev'[x] = "counted"
         /\ home'[x] # home[x] => ev'[x] = "counted"
<1>0. /\ ev \in [Events -> EvStates] /\ home \in [Events -> Days \cup {None}]
      /\ dbq \in Seq(Events \cup {Upsert}) /\ sq \in Seq(Events \cup {Saver})
      /\ WaitsIn(dbq, ev, "inserting") /\ FlushLocked
  BY DEF AccountsInv, StoredInv, TypeOK, Queued
<1>1. ASSUME NEW e \in Events, NEW st, ev[e] # "counted", ev' = [ev EXCEPT ![e] = st],
             home' = home
      PROVE  /\ ev[x] = "counted" => ev'[x] = "counted"
             /\ home'[x] # home[x] => ev'[x] = "counted"
  BY <1>0, <1>1
<1>2. ASSUME NEW e \in Events, LogEvent(e) \/ RegisterStart(e)
      PROVE  /\ ev[x] = "counted" => ev'[x] = "counted"
             /\ home'[x] # home[x] => ev'[x] = "counted"
  <2>1. ev[e] # "counted" /\ home' = home /\ \E st : ev' = [ev EXCEPT ![e] = st]
    BY <1>2 DEF LogEvent, RegisterStart, statsVars
  <2> QED
    BY <1>1, <2>1
<1>3. ASSUME NEW e \in Events, InsertRaises(e) \/ CommitInsert(e)
      PROVE  /\ ev[x] = "counted" => ev'[x] = "counted"
             /\ home'[x] # home[x] => ev'[x] = "counted"
  <2>1. dbq # <<>> /\ Head(dbq) = e /\ home' = home /\ \E st : ev' = [ev EXCEPT ![e] = st]
    BY <1>3 DEF InsertRaises, CommitInsert, HoldsDb, statsVars
  <2>2. ev[e] = "inserting"
    BY <1>0, <2>1, HeadInQueue DEF WaitsIn
  <2> QED
    BY <1>1, <2>1, <2>2
<1>4. ASSUME NEW e \in Events, NEW row, NEW d, Tally(e, row, d)
      PROVE  /\ ev[x] = "counted" => ev'[x] = "counted"
             /\ home'[x] # home[x] => ev'[x] = "counted"
  BY <1>0, <1>4 DEF Tally
<1>5. ASSUME NEW e \in Events, RegisterNow(e)
      PROVE  /\ ev[x] = "counted" => ev'[x] = "counted"
             /\ home'[x] # home[x] => ev'[x] = "counted"
  BY <1>4, <1>5 DEF RegisterNow
<1>6. CASE CommitUpsert \/ UpsertRaises
  <2>1. sq # <<>>
    BY <1>0, <1>6, UpsertRunsLocked DEF CommitUpsert, UpsertRaises, HoldsDb, AccountsInv, StoredInv
  <2>2. CASE UNCHANGED <<ev, mem, day, home>>
    BY <2>2
  <2>3. CASE Head(sq) # Saver /\ Tally(Head(sq), EmptyRow, arg.today)
    <3>1. Head(sq) \in Events
      BY <1>0, <2>1, <2>3, QueueType
    <3> QED
      BY <1>4, <2>3, <3>1
  <2> QED
    BY <1>6, <2>2, <2>3 DEF CommitUpsert, UpsertRaises, FlushEnd, FlushReturns
<1>7. CASE Crash
  BY <1>0, <1>7 DEF Crash
<1>8. ASSUME NEW e \in Events, InsertRow(e) \/ RegisterRollover(e)
      PROVE  /\ ev[x] = "counted" => ev'[x] = "counted"
             /\ home'[x] # home[x] => ev'[x] = "counted"
  BY <1>8 DEF InsertRow, RegisterRollover, statsVars
<1>9. CASE \/ SaverWakes \/ SaverFlushes \/ UpsertRow \/ UpsertRetries
           \/ Start \/ LoadTodayStats \/ Tick \/ UNCHANGED vars
  BY <1>9 DEF SaverWakes, SaverFlushes, UpsertRow, UpsertRetries, Start, LoadTodayStats,
              Tick, vars, statsVars
<1> QED
  BY <1>2, <1>3, <1>5, <1>6, <1>7, <1>8, <1>9 DEF Next, EventStep, FlushStep

(* A flush that ends with a tally was begun for a later day than the day   *)
(* of its tally.                                                           *)
LEMMA FlushDated ==
  ASSUME AccountsInv, [Next]_vars
  PROVE  flushing' /\ Head(sq') # Saver => day' < arg'.today /\ arg'.today <= Today'
<1>0. /\ sq \in Seq(Events \cup {Saver}) /\ Today \in Days /\ Today' \in Days /\ day \in Days
      /\ flushing => sq # <<>> /\ arg.today \in Days
      /\ flushing /\ Head(sq) # Saver => day < arg.today /\ arg.today <= Today
      /\ day <= Today
      /\ Saver \notin Events /\ MaxDay \in Nat
  <2>1. clock \in Time /\ clock' \in Time /\ TypeOK
    BY StepFlows DEF Flow, AccountsInv, StoredInv, TypeOK
  <2>2. Today \in Days /\ Today' \in Days
    BY <2>1, ConstantsAssumption DEF Today, ConstantsAssumption
  <2> QED
    BY <2>1, <2>2, ConstantsAssumption
    DEF AccountsInv, StoredInv, TypeOK, Dated, FlushLocked, ConstantsAssumption
<1>1. Today <= Today'
  BY StepFlows, ClockAssumption DEF Flow, Today, AccountsInv, StoredInv, TypeOK
<1>2. ASSUME UNCHANGED <<flushing, day, arg>>, flushing => Head(sq') = Head(sq)
      PROVE  flushing' /\ Head(sq') # Saver => day' < arg'.today /\ arg'.today <= Today'
  BY <1>0, <1>1, <1>2
<1>3. ASSUME NEW e \in Events, LogEvent(e) \/ InsertRow(e) \/ InsertRaises(e) \/ CommitInsert(e)
      PROVE  UNCHANGED <<flushing, day, arg, sq>>
  BY <1>3 DEF LogEvent, InsertRow, InsertRaises, CommitInsert, statsVars
<1>4. CASE UpsertRow \/ UpsertRetries \/ Tick \/ UNCHANGED vars
  BY <1>2, <1>4 DEF UpsertRow, UpsertRetries, Tick, vars, statsVars
<1>5. ASSUME NEW e \in Events, RegisterStart(e)
      PROVE  UNCHANGED <<flushing, day, arg>> /\ (flushing => Head(sq') = Head(sq))
  BY <1>0, <1>5 DEF RegisterStart
<1>6. CASE SaverWakes
  BY <1>0, <1>2, <1>6 DEF SaverWakes
<1>7. ASSUME NEW e \in Events, RegisterNow(e)
      PROVE  ~flushing'
  BY <1>7 DEF RegisterNow, HoldsStats
<1>8. ASSUME NEW e \in Events, RegisterRollover(e)
      PROVE  day' < arg'.today /\ arg'.today <= Today'
  <2>1. day' = day /\ arg'.today = Today /\ Today # day
    BY <1>8 DEF RegisterRollover, FlushBegin
  <2> QED
    BY <1>0, <1>1, <2>1
<1>9. CASE SaverFlushes
  <2>1. CASE ~dirty /\ sq' = Tail(sq) /\ UNCHANGED <<dbq, flushing, arg>>
    BY <1>9, <2>1 DEF SaverFlushes, HoldsStats
  <2>2. CASE dirty /\ FlushBegin /\ UNCHANGED sq
    BY <1>9, <2>2 DEF SaverFlushes, HoldsStats
  <2> QED
    BY <1>9, <2>1, <2>2 DEF SaverFlushes
<1>10. CASE CommitUpsert \/ UpsertRaises \/ Crash
  BY <1>10 DEF CommitUpsert, UpsertRaises, FlushEnd, FlushReturns, Crash
<1>11. CASE Start \/ LoadTodayStats
  BY <1>11 DEF Start, LoadTodayStats, AccountsInv, StoredInv, Quiet
<1> QED
  BY <1>2, <1>3, <1>4, <1>5, <1>6, <1>7, <1>8, <1>9, <1>10, <1>11
  DEF Next, EventStep, FlushStep

LEMMA DatedStep == AccountsInv /\ [Next]_vars => Dated'
<1> SUFFICES ASSUME AccountsInv, [Next]_vars
             PROVE  Dated'
  OBVIOUS
<1>0. /\ day \in Days /\ home \in [Events -> Days \cup {None}] /\ MaxDay \in Nat /\ Dated
      /\ clock \in Time
  BY ConstantsAssumption DEF AccountsInv, StoredInv, TypeOK, ConstantsAssumption
<1>1. Flow
  BY StepFlows
<1>2. Today \in Days /\ Today' \in Days /\ Today <= Today'
  BY <1>0, <1>1, ConstantsAssumption, ClockAssumption DEF Flow, Today, ConstantsAssumption
<1>3. proc' # "up" => mem' = EmptyRow
  BY <1>0, <1>1 DEF Dated, Flow, TallyFlow, KeepsTally, LoadsTally, DropsTally, OpensDay, CountsFor
<1>4. day <= day' /\ day' <= Today'
  BY <1>0, <1>1, <1>2
  DEF Dated, Flow, TallyFlow, KeepsTally, LoadsTally, DropsTally, OpensDay, CountsFor
<1>5. ASSUME NEW e \in Events, home'[e] # None
      PROVE  ev'[e] = "counted" /\ home'[e] <= day'
  <2>1. CASE home'[e] = home[e]
    BY <1>0, <1>1, <1>4, <1>5, <2>1, CountedStep DEF Dated, Flow
  <2>2. CASE home'[e] # home[e]
    <3>1. home'[e] = day'
      BY <1>0, <1>1, <2>2
      DEF Flow, TallyFlow, KeepsTally, LoadsTally, DropsTally, OpensDay, CountsFor
    <3> QED
      BY <1>1, <2>2, <3>1, CountedStep DEF Flow
  <2> QED
    BY <2>1, <2>2
<1> QED
  BY <1>3, <1>4, <1>5, FlushDated DEF Dated

LEMMA AccountsInit == Init => AccountsInv
<1> SUFFICES ASSUME Init PROVE AccountsInv
  OBVIOUS
<1>1. Today \in Days /\ MaxDay \in Nat /\ day <= Today
  BY TodayType, ConstantsAssumption DEF Init, ConstantsAssumption
<1>2. Dated
  BY <1>1 DEF Init, Dated
<1> QED
  BY <1>2, StoredInit, QueuedInit DEF AccountsInv

LEMMA AccountsStep == AccountsInv /\ [Next]_vars => AccountsInv'
  BY TypeStep, FlushLockedStep, QuietStep, FlushExactStep, CleanStoredStep, QueuedStep, DatedStep
  DEF AccountsInv, StoredInv
----------------------------------------------------------------------------
(* TalliedUnder, of any record of days.                                    *)
Under(h, d, c) == {e \in Events : h[e] = d /\ ClassOf[e] = c}

Homes == [Events -> Days \cup {None}]

(* Events only join a day.                                                 *)
Joins(h, g) == \A e \in Events : h[e] # None => g[e] = h[e]

LEMMA UnderFinite ==
  ASSUME NEW h, NEW d, NEW c
  PROVE  IsFiniteSet(Under(h, d, c)) /\ Cardinality(Under(h, d, c)) \in Nat
  BY FS_Subset, FS_CardinalityType, ConstantsAssumption DEF Under, ConstantsAssumption

LEMMA UnderGrows ==
  ASSUME NEW h \in Homes, NEW g \in Homes, Joins(h, g), NEW d \in Days, NEW c
  PROVE  Cardinality(Under(h, d, c)) <= Cardinality(Under(g, d, c))
<1>1. Under(h, d, c) \subseteq Under(g, d, c)
  BY ConstantsAssumption DEF Under, Joins, Homes, ConstantsAssumption
<1> QED
  BY <1>1, UnderFinite, FS_Subset

LEMMA UnderJoined ==
  ASSUME NEW h \in Homes, NEW e \in Events, h[e] = None, NEW d \in Days
  PROVE  LET g == [h EXCEPT ![e] = d]
         IN  /\ g \in Homes /\ Joins(h, g)
             /\ Cardinality(Under(g, d, ClassOf[e])) = Cardinality(Under(h, d, ClassOf[e])) + 1
             /\ \A b \in Days, c \in Classes :
                  b # d \/ c # ClassOf[e] => Under(g, b, c) = Under(h, b, c)
<1> DEFINE g == [h EXCEPT ![e] = d]
<1>1. g \in Homes /\ Joins(h, g)
  BY DEF Homes, Joins
<1>2. Under(g, d, ClassOf[e]) = Under(h, d, ClassOf[e]) \cup {e}
  BY DEF Under, Homes
<1>3. e \notin Under(h, d, ClassOf[e])
  BY ConstantsAssumption DEF Under, ConstantsAssumption
<1>4. Cardinality(Under(g, d, ClassOf[e])) = Cardinality(Under(h, d, ClassOf[e])) + 1
  BY <1>2, <1>3, UnderFinite, FS_AddElement
<1>5. ASSUME NEW b \in Days, NEW c \in Classes, b # d \/ c # ClassOf[e]
      PROVE  Under(g, b, c) = Under(h, b, c)
  <2>1. ASSUME NEW x \in Events
        PROVE  g[x] = b /\ ClassOf[x] = c <=> h[x] = b /\ ClassOf[x] = c
    BY <1>5, ConstantsAssumption DEF Homes, ConstantsAssumption
  <2> QED
    BY <2>1 DEF Under
<1> QED
  BY <1>1, <1>4, <1>5

(* The marks of a tally: finitely many, one more for one more event.       *)
Summed(row) == IsFiniteSet(Marks(row.counts)) /\ SumsUp(row)

LEMMA EmptySummed == Summed(EmptyRow)
<1>1. Marks(EmptyRow.counts) = {}
  BY DEF Marks, EmptyRow
<1> QED
  BY <1>1, FS_EmptySet DEF Summed, SumsUp, EmptyRow

LEMMA BumpSummed ==
  ASSUME NEW row \in Row, NEW c \in Classes, Summed(row)
  PROVE  Summed(Bump(row, c))
<1> DEFINE old == row.counts
           new == [row.counts EXCEPT ![c] = @ + 1]
           mark == <<c, old[c] + 1>>
<1>0. old \in [Classes -> Nat] /\ row.total \in Nat
  BY DEF Row
<1>1. \A k \in Classes, n \in Nat : <<k, n>> \in Marks(old) <=> n \in 1..old[k]
  BY <1>0 DEF Marks
<1>2. Marks(new) = Marks(old) \cup {mark}
  <2>1. ASSUME NEW k \in Classes, NEW n
        PROVE  n \in 1..new[k] <=> n \in 1..old[k] \/ (k = c /\ n = old[c] + 1)
    <3>1. new[k] = IF k = c THEN old[c] + 1 ELSE old[k]
      BY <1>0
    <3>2. old[k] \in Nat /\ old[c] \in Nat
      BY <1>0
    <3> HIDE DEF new, old
    <3> QED
      BY <3>1, <3>2
  <2>2. ASSUME NEW m
        PROVE  m \in Marks(new) <=> m \in Marks(old) \/ m = mark
    <3>1. m \in Marks(new) <=> \E k \in Classes : \E n \in 1..new[k] : m = <<k, n>>
      BY DEF Marks
    <3>2. m \in Marks(old) <=> \E k \in Classes : \E n \in 1..old[k] : m = <<k, n>>
      BY DEF Marks
    <3> HIDE DEF new, old
    <3> QED
      BY <2>1, <3>1, <3>2
  <2> QED
    BY <2>2
<1>3. mark \notin Marks(old)
  <2>1. old[c] \in Nat
    BY <1>0
  <2> QED
    BY <1>1, <2>1
<1>4. IsFiniteSet(Marks(new)) /\ Cardinality(Marks(new)) = Cardinality(Marks(old)) + 1
  BY <1>2, <1>3, FS_AddElement DEF Summed
<1> QED
  BY <1>4 DEF Summed, SumsUp, Bump

(* No total means no count, and no count no total.                         *)
LEMMA NoTotal ==
  ASSUME NEW row \in Row, Summed(row)
  PROVE  row.total = 0 <=> \A c \in Classes : row.counts[c] = 0
<1>0. row.counts \in [Classes -> Nat]
  BY DEF Row
<1>1. ASSUME row.total = 0, NEW c \in Classes
      PROVE  row.counts[c] = 0
  <2>1. Marks(row.counts) = {}
    BY <1>1, FS_EmptySet DEF Summed, SumsUp
  <2>2. ASSUME row.counts[c] # 0
        PROVE  FALSE
    <3>1. 1 \in 1..row.counts[c]
      BY <1>0, <2>2
    <3>2. <<c, 1>> \in Marks(row.counts)
      BY <3>1 DEF Marks
    <3> QED
      BY <2>1, <3>2
  <2> QED
    BY <2>2
<1>2. ASSUME \A c \in Classes : row.counts[c] = 0
      PROVE  row.total = 0
  <2>1. Marks(row.counts) = {}
    BY <1>2 DEF Marks
  <2> QED
    BY <2>1, FS_EmptySet DEF Summed, SumsUp
<1> QED
  BY <1>1, <1>2
----------------------------------------------------------------------------
(* first_seen and last_seen of a row of day d, at time t.                  *)
Spans(row, d, t) ==
  /\ row.total = 0 => row.first = None
  /\ row.total > 0 => /\ row.first \in Time /\ row.last \in Time
                      /\ row.first <= row.last /\ row.last <= t
                      /\ d <= LocalDay[row.first]

(* A row of day d is an account of events of that day.                     *)
Sound(row, d, h, t) ==
  /\ Summed(row)
  /\ Spans(row, d, t)
  /\ \A c \in Classes : row.counts[c] <= Cardinality(Under(h, d, c))

LEMMA EmptySound ==
  ASSUME NEW d, NEW h, NEW t
  PROVE  Sound(EmptyRow, d, h, t)
<1>1. \A c \in Classes : EmptyRow.counts[c] <= Cardinality(Under(h, d, c))
  BY UnderFinite DEF EmptyRow
<1> QED
  BY <1>1, EmptySummed DEF Sound, Spans, EmptyRow

LEMMA StaysSound ==
  ASSUME NEW row \in Row, NEW d \in Days, NEW h \in Homes, NEW g \in Homes,
         NEW t \in Time, NEW u \in Time, t <= u, Joins(h, g), Sound(row, d, h, t)
  PROVE  Sound(row, d, g, u)
<1>1. ASSUME NEW c \in Classes
      PROVE  row.counts[c] <= Cardinality(Under(g, d, c))
  <2>1. row.counts[c] \in Nat /\ row.counts[c] <= Cardinality(Under(h, d, c))
    BY DEF Row, Sound
  <2> QED
    BY <2>1, UnderGrows, UnderFinite
<1>2. Spans(row, d, u)
  BY ConstantsAssumption DEF Sound, Spans, ConstantsAssumption
<1> QED
  BY <1>1, <1>2 DEF Sound

(* One more event of the day, now, which no row has counted.               *)
LEMMA BumpSound ==
  ASSUME NEW row \in Row, NEW d \in Days, NEW h \in Homes, NEW e \in Events,
         h[e] = None, clock \in Time, d <= Today, Sound(row, d, h, clock)
  PROVE  Sound(Bump(row, ClassOf[e]), d, [h EXCEPT ![e] = d], clock)
<1> DEFINE g == [h EXCEPT ![e] = d]
           new == Bump(row, ClassOf[e])
<1>0. /\ ClassOf[e] \in Classes /\ row.counts \in [Classes -> Nat] /\ row.total \in Nat
      /\ row.first \in Time \cup {None} /\ MaxTime \in Nat
  BY ConstantsAssumption DEF ConstantsAssumption, Row
<1>1. Summed(new)
  BY <1>0, BumpSummed DEF Sound
<1>2. Spans(new, d, clock)
  <2>1. new.total = row.total + 1 /\ new.last = clock
        /\ new.first = IF row.first = None THEN clock ELSE row.first
    BY DEF Bump
  <2>2. Spans(row, d, clock)
    BY DEF Sound
  <2> HIDE DEF new
  <2> QED
    BY <1>0, <2>1, <2>2 DEF Spans, Today
<1>3. ASSUME NEW c \in Classes
      PROVE  new.counts[c] <= Cardinality(Under(g, d, c))
  <2>1. row.counts[c] <= Cardinality(Under(h, d, c)) /\ row.counts[c] \in Nat
    BY <1>0 DEF Sound
  <2>2. CASE c = ClassOf[e]
    <3>1. new.counts[c] = row.counts[c] + 1
      BY <1>0, <2>2 DEF Bump
    <3>2. Cardinality(Under(g, d, c)) = Cardinality(Under(h, d, c)) + 1
      BY <2>2, UnderJoined
    <3> QED
      BY <2>1, <3>1, <3>2, UnderFinite
  <2>3. CASE c # ClassOf[e]
    <3>1. new.counts[c] = row.counts[c]
      BY <1>0, <2>3 DEF Bump
    <3>2. Under(g, d, c) = Under(h, d, c)
      BY <2>3, UnderJoined
    <3> QED
      BY <2>1, <3>1, <3>2
  <2> QED
    BY <2>2, <2>3
<1> QED
  BY <1>1, <1>2, <1>3 DEF Sound

(* The tally and every row, uncommitted or stored, are sound accounts.     *)
RowsSound ==
  /\ Sound(mem, day, home, clock)
  /\ \A d \in Days : /\ Sound(conn.summary[d], d, home, clock)
                     /\ Sound(disk.summary[d], d, home, clock)

(* Each step of the tally only lets events join a day.                     *)
LEMMA HomeJoins ==
  ASSUME AccountsInv, Flow
  PROVE  home \in Homes /\ home' \in Homes /\ Joins(home, home')
<1>1. home \in Homes /\ day' \in Days
  BY DEF AccountsInv, StoredInv, TypeOK, Homes, Flow
<1>2. CASE home' = home
  BY <1>1, <1>2 DEF Joins
<1>3. ASSUME NEW e \in Events, CountsFor(e)
      PROVE  home' \in Homes /\ Joins(home, home')
  BY <1>1, <1>3, UnderJoined DEF CountsFor
<1> QED
  BY <1>1, <1>2, <1>3 DEF Flow, TallyFlow, KeepsTally, LoadsTally, DropsTally, OpensDay

LEMMA RowsSoundStep == AccountsInv /\ AccountsInv' /\ RowsSound /\ [Next]_vars => RowsSound'
<1> SUFFICES ASSUME AccountsInv, AccountsInv', RowsSound, [Next]_vars
             PROVE  RowsSound'
  OBVIOUS
<1>0. Flow
  BY StepFlows
<1>1. /\ home \in Homes /\ home' \in Homes /\ Joins(home, home')
      /\ clock \in Time /\ clock' \in Time /\ clock <= clock'
      /\ day \in Days /\ day' \in Days
      /\ mem \in Row /\ mem' \in Row /\ conn \in Tables /\ disk \in Tables
  BY <1>0, HomeJoins DEF Flow, AccountsInv, StoredInv, TypeOK
<1>2. ASSUME NEW row \in Row, NEW d \in Days, Sound(row, d, home, clock)
      PROVE  Sound(row, d, home', clock')
  BY <1>1, <1>2, StaysSound
<1>3. Sound(mem, day, home', clock') /\ \A d \in Days :
        Sound(conn.summary[d], d, home', clock') /\ Sound(disk.summary[d], d, home', clock')
  BY <1>1, <1>2 DEF RowsSound, Tables
<1>4. Sound(mem', day', home', clock')
  <2>1. CASE KeepsTally
    BY <1>3, <2>1 DEF KeepsTally
  <2>2. CASE LoadsTally
    BY <1>1, <1>3, <2>2 DEF LoadsTally
  <2>3. CASE DropsTally
    BY <2>3, EmptySound DEF DropsTally
  <2>4. CASE OpensDay
    <3>1. mem' = EmptyRow
      BY <2>4 DEF OpensDay, AccountsInv, Dated
    <3> QED
      BY <3>1, EmptySound
  <2>5. ASSUME NEW e \in Events, CountsFor(e)
        PROVE  Sound(mem', day', home', clock')
    <3>1. home[e] = None /\ home' = [home EXCEPT ![e] = day']
      BY <2>5 DEF CountsFor
    <3>2. PICK row \in Row : /\ mem' = Bump(row, ClassOf[e]) /\ day' <= Today
                             /\ Sound(row, day', home, clock)
      <4>1. CASE day' = day /\ day = Today /\ mem' = Bump(mem, ClassOf[e])
        <5>1. day' <= Today
          BY <1>1, <4>1, ConstantsAssumption DEF ConstantsAssumption
        <5> QED
          BY <1>1, <4>1, <5>1 DEF RowsSound
      <4>2. CASE day' <= Today /\ mem' = Bump(EmptyRow, ClassOf[e])
        BY <4>2, EmptySound, EmptyRowType
      <4> QED
        BY <2>5, <4>1, <4>2 DEF CountsFor
    <3>3. Sound(mem', day', home', clock)
      BY <1>1, <3>1, <3>2, BumpSound
    <3>4. Joins(home', home')
      BY DEF Joins
    <3> QED
      BY <1>1, <3>3, <3>4, StaysSound
  <2> QED
    BY <1>0, <2>1, <2>2, <2>3, <2>4, <2>5 DEF Flow, TallyFlow
<1>5. ASSUME NEW d \in Days
      PROVE  /\ Sound(conn'.summary[d], d, home', clock')
             /\ Sound(disk'.summary[d], d, home', clock')
  <2>1. CASE KeepsTables \/ CommitsTables \/ RevertsTables
    BY <1>3, <2>1 DEF KeepsTables, CommitsTables, RevertsTables
  <2>2. CASE WritesTally
    <3>1. conn'.summary[d] = IF d = day THEN mem ELSE conn.summary[d]
      BY <1>1, <2>2 DEF WritesTally, Tables
    <3> QED
      BY <1>3, <2>2, <3>1 DEF WritesTally
  <2> QED
    BY <1>0, <2>1, <2>2 DEF Flow, TablesFlow
<1> QED
  BY <1>4, <1>5 DEF RowsSound

LEMMA RowsSoundInit == Init => RowsSound
<1> SUFFICES ASSUME Init PROVE RowsSound
  OBVIOUS
<1>1. \A d \in Days : conn.summary[d] = EmptyRow /\ disk.summary[d] = EmptyRow
  BY DEF Init
<1> QED
  BY <1>1, EmptySound DEF Init, RowsSound

(* What a row says of its day is one account (stats.py:40-73): its total   *)
(* is the sum of its counts, its span that of events of the day, through   *)
(* every flush, load, rollover, failed upsert and crash.                   *)
THEOREM RowsAreConsistent == Spec => []RowsConsistent
<1>1. AccountsInv /\ RowsSound => RowsConsistent
  <2> SUFFICES ASSUME AccountsInv, RowsSound PROVE RowsConsistent
    OBVIOUS
  <2>1. ASSUME NEW row \in Row, NEW d \in Days, Sound(row, d, home, clock)
        PROVE  SumsUp(row) /\ SpansItsDay(row, d)
    <3>1. \A t \in Time : t # None /\ LocalDay[t] \in Days
      BY ConstantsAssumption DEF ConstantsAssumption
    <3>2. row.total > 0 => /\ row.first # None /\ row.first <= row.last
                           /\ LocalDay[row.first] >= d
      BY <2>1, <3>1, ConstantsAssumption DEF Sound, Spans, ConstantsAssumption
    <3> QED
      BY <2>1, <3>2 DEF Sound, Summed, SpansItsDay
  <2>2. mem \in Row /\ day \in Days /\ \A d \in Days : disk.summary[d] \in Row
    BY DEF AccountsInv, StoredInv, TypeOK, Tables
  <2> QED
    BY <2>1, <2>2 DEF RowsSound, RowsConsistent, TotalIsSum, SeenWithinDay
<1> QED
  BY <1>1, AccountsInit, AccountsStep, RowsSoundInit, RowsSoundStep, PTL DEF Spec

(* No event is counted twice, under two days, or under a day it was not    *)
(* registered on (stats.py:19-47): a stored row and the tally count at     *)
(* most the events tallied under their day.                                *)
THEOREM NothingCountedTwice == Spec => []NoOvercount
<1>1. RowsSound => NoOvercount
  BY DEF RowsSound, Sound, NoOvercount, Under, TalliedUnder
<1> QED
  BY <1>1, AccountsInit, AccountsStep, RowsSoundInit, RowsSoundStep, PTL DEF Spec
----------------------------------------------------------------------------
(* An insert awaiting its commit has its row in the transaction, and a     *)
(* commit loses no row.                                                    *)
RowsKept ==
  /\ TalliedHaveRows
  /\ disk.rows \subseteq conn.rows
  /\ dbq # <<>> /\ Head(dbq) \in Events /\ phase = "commit" => Head(dbq) \in conn.rows

LEMMA RowsKeptStep == AccountsInv /\ RowsKept /\ [Next]_vars => RowsKept'
<1> SUFFICES ASSUME AccountsInv, RowsKept, [Next]_vars
             PROVE  RowsKept'
  OBVIOUS
<1>0. /\ conn \in Tables /\ disk \in Tables
      /\ ev \in [Events -> EvStates] /\ home \in [Events -> Days \cup {None}]
      /\ dbq \in Seq(Events \cup {Upsert}) /\ sq \in Seq(Events \cup {Saver})
      /\ WaitsIn(sq, ev, "registering") /\ FlushLocked /\ TypeOK
      /\ Upsert \notin Events
      /\ dbq = <<>> => phase = "exec"
  BY ConstantsAssumption DEF AccountsInv, StoredInv, TypeOK, Queued, FlushExact, ConstantsAssumption
<1> DEFINE Due == {e \in Events : ev[e] \in {"created", "registering"} \/ home[e] # None}
<1>1. Due \subseteq disk.rows /\ disk.rows \subseteq conn.rows
  BY DEF RowsKept, TalliedHaveRows
<1>2. ASSUME UNCHANGED <<conn, disk>>, Due' \subseteq Due,
             dbq' # <<>> /\ Head(dbq') \in Events /\ phase' = "commit"
               => dbq # <<>> /\ Head(dbq') = Head(dbq) /\ phase = "commit"
      PROVE  RowsKept'
  BY <1>1, <1>2 DEF RowsKept, TalliedHaveRows
<1>3. ASSUME NEW e \in Events, LogEvent(e)
      PROVE  RowsKept'
  <2>1. dbq' = Append(dbq, e) /\ UNCHANGED <<conn, disk, home, phase>>
        /\ ev' = [ev EXCEPT ![e] = "inserting"]
    BY <1>3 DEF LogEvent, statsVars
  <2>2. Due' \subseteq Due
    BY <1>0, <2>1
  <2>3. dbq # <<>> => Head(dbq') = Head(dbq)
    BY <1>0, <2>1
  <2> QED
    BY <1>0, <1>2, <2>1, <2>2, <2>3
<1>4. ASSUME NEW e \in Events, InsertRow(e)
      PROVE  RowsKept'
  <2>1. /\ conn'.rows = conn.rows \cup {e} /\ disk' = disk /\ dbq' = dbq
        /\ dbq # <<>> /\ Head(dbq) = e /\ UNCHANGED <<ev, home>>
    BY <1>0, <1>4 DEF InsertRow, HoldsDb, Tables, statsVars
  <2> QED
    BY <1>1, <2>1 DEF RowsKept, TalliedHaveRows
<1>5. ASSUME NEW e \in Events, InsertRaises(e)
      PROVE  RowsKept'
  <2>1. ev' = [ev EXCEPT ![e] = "raised"] /\ phase' = "exec" /\ UNCHANGED <<conn, disk, home>>
    BY <1>5 DEF InsertRaises, ReleaseDb, statsVars
  <2>2. Due' \subseteq Due
    BY <1>0, <2>1
  <2> QED
    BY <1>2, <2>1, <2>2
<1>6. ASSUME NEW e \in Events, CommitInsert(e)
      PROVE  RowsKept'
  <2>1. /\ dbq # <<>> /\ Head(dbq) = e /\ phase = "commit" /\ phase' = "exec"
        /\ disk' = conn /\ conn' = conn /\ home' = home
        /\ ev' = [ev EXCEPT ![e] = "created"]
    BY <1>6 DEF CommitInsert, HoldsDb, ReleaseDb, statsVars
  <2>2. e \in conn.rows
    BY <2>1 DEF RowsKept
  <2>3. Due' \subseteq Due \cup {e}
    BY <1>0, <2>1
  <2> QED
    BY <1>1, <2>1, <2>2, <2>3 DEF RowsKept, TalliedHaveRows
<1>7. ASSUME NEW e \in Events, RegisterStart(e)
      PROVE  RowsKept'
  <2>1. ev[e] = "created" /\ ev' = [ev EXCEPT ![e] = "registering"]
        /\ UNCHANGED <<conn, disk, home, dbq, phase>>
    BY <1>7 DEF RegisterStart, dbVars
  <2>2. Due' \subseteq Due
    BY <1>0, <2>1
  <2> QED
    BY <1>2, <2>1, <2>2
<1>8. ASSUME NEW e \in Events, NEW row, NEW d, Tally(e, row, d), sq # <<>>, Head(sq) = e
      PROVE  Due' \subseteq Due
  <2>1. ev' = [ev EXCEPT ![e] = "counted"] /\ home' = [home EXCEPT ![e] = d]
    BY <1>8 DEF Tally
  <2>2. ev[e] = "registering"
    BY <1>0, <1>8, HeadInQueue DEF WaitsIn
  <2> QED
    BY <1>0, <2>1, <2>2
<1>9. ASSUME NEW e \in Events, RegisterNow(e)
      PROVE  RowsKept'
  <2>1. Due' \subseteq Due
    BY <1>8, <1>9 DEF RegisterNow, HoldsStats
  <2> QED
    BY <1>2, <1>9, <2>1 DEF RegisterNow, dbVars
<1>10. ASSUME FlushBegin, UNCHANGED <<phase, conn, disk, ev, home>>
       PROVE  RowsKept'
  <2>1. dbq' = Append(dbq, Upsert)
    BY <1>10 DEF FlushBegin
  <2>2. dbq # <<>> => Head(dbq') = Head(dbq)
    BY <1>0, <2>1
  <2> QED
    BY <1>0, <1>2, <1>10, <2>1, <2>2
<1>11. ASSUME NEW e \in Events, RegisterRollover(e)
       PROVE  RowsKept'
  BY <1>10, <1>11 DEF RegisterRollover
<1>12. CASE SaverFlushes
  <2>1. CASE UNCHANGED <<dbq, flushing, arg>>
    BY <1>2, <1>12, <2>1 DEF SaverFlushes
  <2>2. CASE FlushBegin
    BY <1>10, <1>12, <2>2 DEF SaverFlushes
  <2> QED
    BY <1>12, <2>1, <2>2 DEF SaverFlushes
<1>13. CASE UpsertRow
  <2>1. conn'.rows = conn.rows /\ dbq' = dbq /\ Head(dbq) = Upsert /\ UNCHANGED <<disk, ev, home>>
    BY <1>0, <1>13 DEF UpsertRow, HoldsDb, Tables, statsVars
  <2> QED
    BY <1>0, <1>1, <2>1 DEF RowsKept, TalliedHaveRows
<1>14. CASE CommitUpsert \/ UpsertRaises
  <2>1. phase' = "exec" /\ sq # <<>> /\ conn' = conn /\ (disk' = conn \/ disk' = disk)
    BY <1>0, <1>14, UpsertRunsLocked
    DEF CommitUpsert, UpsertRaises, HoldsDb, FlushEnd, FlushReturns, ReleaseDb
  <2>2. Due' \subseteq Due
    <3>1. CASE UNCHANGED <<ev, mem, day, home>>
      BY <3>1
    <3>2. CASE Head(sq) # Saver /\ Tally(Head(sq), EmptyRow, arg.today)
      <4>1. Head(sq) \in Events
        BY <1>0, <2>1, <3>2, QueueType
      <4> QED
        BY <1>8, <2>1, <3>2, <4>1
    <3> QED
      BY <1>14, <3>1, <3>2 DEF CommitUpsert, UpsertRaises, FlushEnd, FlushReturns
  <2> QED
    BY <1>1, <2>1, <2>2 DEF RowsKept, TalliedHaveRows
<1>15. CASE Crash
  <2>1. dbq' = <<>> /\ conn' = disk /\ disk' = disk
    BY <1>15 DEF Crash
  <2>2. Due' \subseteq Due
    BY <1>0, <1>15 DEF Crash
  <2> QED
    BY <1>1, <2>1, <2>2 DEF RowsKept, TalliedHaveRows
<1>16. CASE SaverWakes \/ UpsertRetries \/ Start \/ LoadTodayStats \/ Tick \/ UNCHANGED vars
  <2>1. UNCHANGED <<conn, disk, ev, home, dbq>> /\ phase' \in {phase, "retry"}
    BY <1>16 DEF SaverWakes, UpsertRetries, Start, LoadTodayStats, Tick, vars, dbVars, statsVars
  <2> QED
    BY <1>2, <2>1
<1> QED
  BY <1>3, <1>4, <1>5, <1>6, <1>7, <1>9, <1>11, <1>12, <1>13, <1>14, <1>15, <1>16
  DEF Next, EventStep, FlushStep

(* The summary never counts an event the log lacks: what has a             *)
(* register_event task or is tallied has a committed row (db.py:112-130).  *)
THEOREM TalliedAreLogged == Spec => []TalliedHaveRows
<1>1. Init => RowsKept
  BY DEF Init, RowsKept, TalliedHaveRows
<1>2. RowsKept => TalliedHaveRows
  BY DEF RowsKept
<1> QED
  BY <1>1, <1>2, AccountsInit, AccountsStep, RowsKeptStep, PTL DEF Spec
----------------------------------------------------------------------------
(* A row that counts all events of its day.                                *)
Exact(row, d, h) == \A c \in Classes : row.counts[c] = Cardinality(Under(h, d, c))

LEMMA NobodyExact ==
  ASSUME NEW row \in Row, NEW d \in Days, NEW h, NEW t, Sound(row, d, h, t),
         \A e \in Events : h[e] # d
  PROVE  Exact(row, d, h) /\ row.total = 0
<1>1. ASSUME NEW c \in Classes
      PROVE  row.counts[c] = 0 /\ Cardinality(Under(h, d, c)) = 0
  <2>1. Under(h, d, c) = {}
    BY DEF Under
  <2>2. Cardinality(Under(h, d, c)) = 0
    BY <2>1, FS_EmptySet
  <2> QED
    BY <2>2 DEF Sound, Row
<1> QED
  BY <1>1, NoTotal DEF Exact, Sound

(* Counting one more event of the day keeps a row exact, and the rows of   *)
(* other days.                                                             *)
LEMMA BumpExact ==
  ASSUME NEW row \in Row, NEW d \in Days, NEW h \in Homes, NEW e \in Events,
         h[e] = None, Exact(row, d, h)
  PROVE  Exact(Bump(row, ClassOf[e]), d, [h EXCEPT ![e] = d])
<1> DEFINE g == [h EXCEPT ![e] = d]
<1> SUFFICES ASSUME NEW c \in Classes
             PROVE  Bump(row, ClassOf[e]).counts[c] = Cardinality(Under(g, d, c))
  BY DEF Exact
<1>1. ClassOf[e] \in Classes /\ row.counts \in [Classes -> Nat]
  BY ConstantsAssumption DEF ConstantsAssumption, Row
<1>2. row.counts[c] = Cardinality(Under(h, d, c))
  BY DEF Exact
<1>3. CASE c = ClassOf[e]
  <2>1. Bump(row, ClassOf[e]).counts[c] = row.counts[c] + 1
    BY <1>1, <1>3 DEF Bump
  <2>2. Cardinality(Under(g, d, c)) = Cardinality(Under(h, d, c)) + 1
    BY <1>3, UnderJoined
  <2> QED
    BY <1>2, <2>1, <2>2
<1>4. CASE c # ClassOf[e]
  <2>1. Bump(row, ClassOf[e]).counts[c] = row.counts[c]
    BY <1>1, <1>4 DEF Bump
  <2>2. Under(g, d, c) = Under(h, d, c)
    BY <1>4, UnderJoined
  <2> QED
    BY <1>2, <2>1, <2>2
<1> QED
  BY <1>3, <1>4

LEMMA OtherDayExact ==
  ASSUME NEW row, NEW b \in Days, NEW d \in Days, b # d, NEW h \in Homes, NEW e \in Events,
         h[e] = None, Exact(row, b, h)
  PROVE  Exact(row, b, [h EXCEPT ![e] = d])
  BY UnderJoined DEF Exact

LEMMA CrashesGrow ==
  ASSUME [Next]_vars
  PROVE  crashes' \in {crashes, crashes + 1}
<1>1. ASSUME NEW e \in Events, LogEvent(e) \/ EventStep(e)
      PROVE  crashes' = crashes
  BY <1>1 DEF LogEvent, EventStep, InsertRow, InsertRaises, CommitInsert, RegisterStart,
              RegisterNow, RegisterRollover
<1>2. CASE SaverWakes \/ FlushStep \/ Start \/ LoadTodayStats \/ Tick
  BY <1>2 DEF SaverWakes, FlushStep, SaverFlushes, UpsertRow, UpsertRetries, CommitUpsert,
              UpsertRaises, Start, LoadTodayStats, Tick
<1>3. CASE Crash \/ UNCHANGED vars
  BY <1>3 DEF Crash, vars
<1> QED
  BY <1>1, <1>2, <1>3 DEF Next

(* As long as nothing was killed, the tally counts all events of its day,  *)
(* and the rows of the days before all of theirs but for the days whose    *)
(* tally was dropped.                                                      *)
Complete ==
  crashes = 0 =>
    /\ proc # "up" => \A e \in Events : home[e] = None
    /\ proc = "up" => Exact(mem, day, home)
    /\ \A d \in Days \ dropped : d < day => /\ Exact(conn.summary[d], d, home)
                                            /\ Exact(disk.summary[d], d, home)

LEMMA CompleteStep == AccountsInv /\ RowsSound /\ Complete /\ [Next]_vars => Complete'
<1> SUFFICES ASSUME AccountsInv, RowsSound, Complete, [Next]_vars,
                    crashes' = 0
             PROVE  /\ proc' # "up" => \A e \in Events : home'[e] = None
                    /\ proc' = "up" => Exact(mem', day', home')
                    /\ \A d \in Days \ dropped' : d < day' =>
                         Exact(conn'.summary[d], d, home') /\ Exact(disk'.summary[d], d, home')
  BY DEF Complete
<1>0. Flow /\ crashes = 0 /\ crashes' # crashes + 1 /\ crashes \in Nat
  BY StepFlows, CrashesGrow, ConstantsAssumption
  DEF AccountsInv, StoredInv, TypeOK, ConstantsAssumption
<1>1. /\ home \in Homes /\ day \in Days /\ day' \in Days /\ mem \in Row
      /\ conn \in Tables /\ disk \in Tables /\ EmptyRow \in Row /\ MaxDay \in Nat
      /\ \A e \in Events : home[e] # None => home[e] <= day
      /\ proc # "up" => mem = EmptyRow
  BY <1>0, EmptyRowType, ConstantsAssumption
  DEF Flow, Homes, AccountsInv, StoredInv, TypeOK, Dated, ConstantsAssumption
<1>2. \A d \in Days : conn.summary[d] \in Row /\ disk.summary[d] \in Row
  BY <1>1 DEF Tables
<1>3. /\ proc # "up" => \A e \in Events : home[e] = None
      /\ proc = "up" => Exact(mem, day, home)
      /\ \A d \in Days \ dropped : d < day => /\ Exact(conn.summary[d], d, home)
                                              /\ Exact(disk.summary[d], d, home)
  BY <1>0 DEF Complete
<1>4. ASSUME NEW d \in Days, \A e \in Events : home[e] # d
      PROVE  /\ Exact(conn.summary[d], d, home) /\ Exact(disk.summary[d], d, home)
             /\ Exact(EmptyRow, d, home)
  BY <1>1, <1>2, <1>4, NobodyExact, EmptySound DEF RowsSound
<1>5. CASE KeepsTally
  <2>1. proc' = proc /\ UNCHANGED <<mem, day, home, dropped>>
    BY <1>5 DEF KeepsTally
  <2>2. CASE KeepsTables \/ CommitsTables
    BY <1>3, <2>1, <2>2 DEF KeepsTables, CommitsTables
  <2>3. CASE WritesTally
    <3>1. \A d \in Days : d < day => conn'.summary[d] = conn.summary[d]
      BY <1>1, <2>3 DEF WritesTally, Tables
    <3> QED
      BY <1>3, <2>1, <2>3, <3>1 DEF WritesTally
  <2> QED
    BY <1>0, <2>2, <2>3 DEF Flow, TablesFlow
<1>6. CASE LoadsTally
  <2>1. \A e \in Events : home[e] # day
    BY <1>1, <1>3, <1>6 DEF LoadsTally
  <2>2. Exact(conn.summary[day], day, home) /\ Exact(EmptyRow, day, home)
    BY <1>1, <1>4, <2>1
  <2>3. Exact(mem', day, home)
    BY <1>1, <1>6, <2>2 DEF LoadsTally
  <2> QED
    BY <1>3, <1>6, <2>3 DEF LoadsTally, KeepsTables
<1>7. CASE OpensDay
  <2>1. proc' # "up" /\ home' = home /\ \A e \in Events : home[e] = None
    BY <1>3, <1>7 DEF OpensDay
  <2>2. \A d \in Days : \A e \in Events : home[e] # d
    BY <1>1, <2>1
  <2>3. KeepsTables \/ CommitsTables
    BY <1>0, <1>7 DEF OpensDay, Flow, TablesFlow, WritesTally
  <2> QED
    BY <1>4, <2>1, <2>2, <2>3 DEF KeepsTables, CommitsTables
<1>8. ASSUME NEW e \in Events, CountsFor(e)
      PROVE  /\ proc' # "up" => \A x \in Events : home'[x] = None
             /\ proc' = "up" => Exact(mem', day', home')
             /\ \A d \in Days \ dropped' : d < day' =>
                  Exact(conn'.summary[d], d, home') /\ Exact(disk'.summary[d], d, home')
  <2>1. /\ proc = "up" /\ proc' = "up"
        /\ home[e] = None /\ home' = [home EXCEPT ![e] = day']
    BY <1>8 DEF CountsFor
  <2>2. ASSUME NEW row, NEW d \in Days, d < day', Exact(row, d, home)
        PROVE  Exact(row, d, home')
    <3>1. d # day'
      BY <1>1, <2>2
    <3> QED
      BY <1>1, <2>1, <2>2, <3>1, OtherDayExact
  <2>3. CASE day' = day /\ mem' = Bump(mem, ClassOf[e]) /\ KeepsTables /\ dropped' = dropped
    <3>1. Exact(mem', day', home')
      BY <1>1, <1>3, <2>1, <2>3, BumpExact
    <3> QED
      BY <1>3, <2>1, <2>2, <2>3, <3>1 DEF KeepsTables
  <2>4. CASE /\ day < day' /\ mem' = Bump(EmptyRow, ClassOf[e])
             /\ \/ KeepsTables /\ ~dirty /\ dropped' = dropped
                \/ CommitsTables /\ conn.summary[day] = mem /\ dropped' = dropped
                \/ KeepsTables /\ dropped' = dropped \cup {day}
    <3>1. \A x \in Events : home[x] # day'
      BY <1>1, <2>4
    <3>2. Exact(mem', day', home')
      BY <1>1, <1>4, <2>1, <2>4, <3>1, BumpExact
    <3>3. ASSUME day \notin dropped'
          PROVE  Exact(conn'.summary[day], day, home) /\ Exact(disk'.summary[day], day, home)
      <4>1. CASE CommitsTables /\ conn.summary[day] = mem
        BY <1>3, <2>1, <4>1 DEF CommitsTables
      <4>2. CASE KeepsTables /\ ~dirty /\ mem.total > 0
        <5>1. conn.summary[day] = mem /\ disk.summary[day] = mem
          BY <4>2 DEF AccountsInv, StoredInv, CleanStored
        <5> QED
          BY <1>3, <2>1, <4>2, <5>1 DEF KeepsTables
      <4>3. CASE KeepsTables /\ mem.total = 0
        <5>1. ASSUME NEW c \in Classes
              PROVE  Cardinality(Under(home, day, c)) = 0
          BY <1>1, <1>3, <2>1, <4>3, NoTotal DEF Exact, RowsSound, Sound
        <5>2. ASSUME NEW row \in Row, Sound(row, day, home, clock)
              PROVE  Exact(row, day, home)
          BY <5>1, <5>2 DEF Exact, Sound, Row
        <5> QED
          BY <1>1, <1>2, <4>3, <5>2 DEF KeepsTables, RowsSound
      <4> QED
        BY <1>1, <2>4, <3>3, <4>1, <4>2, <4>3 DEF Row
    <3>4. ASSUME NEW d \in Days \ dropped', d < day'
          PROVE  Exact(conn'.summary[d], d, home) /\ Exact(disk'.summary[d], d, home)
      <4>1. CASE d < day
        BY <1>3, <2>4, <3>4, <4>1 DEF KeepsTables, CommitsTables
      <4>2. CASE d = day
        BY <3>3, <3>4, <4>2
      <4>3. CASE d > day
        <5>1. \A x \in Events : home[x] # d
          BY <1>1, <4>3
        <5> QED
          BY <1>4, <2>4, <5>1 DEF KeepsTables, CommitsTables
      <4> QED
        BY <1>1, <4>1, <4>2, <4>3
    <3> QED
      BY <2>1, <2>2, <3>2, <3>4
  <2> QED
    BY <1>0, <1>8, <2>3, <2>4 DEF CountsFor
<1> QED
  BY <1>0, <1>5, <1>6, <1>7, <1>8 DEF Flow, TallyFlow, DropsTally

(* While nothing is killed, a day that is over is stored completely        *)
(* (stats.py:33-47, :51) unless its flush at the rollover raised, whatever *)
(* the queues, the saver, other faults and the clock do while it ends.     *)
THEOREM DaysAreComplete == Spec => []DaysComplete
<1>1. Init => Complete
  BY DEF Init, Complete
<1>2. Complete => DaysComplete
  BY DEF Complete, Exact, Under, TalliedUnder, DaysComplete, StoredInFull
<1> QED
  BY <1>1, <1>2, AccountsInit, AccountsStep, RowsSoundInit, RowsSoundStep, CompleteStep,
     PTL DEF Spec
----------------------------------------------------------------------------
(* What waits for a commit is never less than what it replaces, on a day   *)
(* whose row was read.                                                     *)
Rising ==
  /\ \A d \in Days \ unread : disk.summary[d].total <= conn.summary[d].total
  /\ proc = "up" /\ day \notin unread => conn.summary[day].total <= mem.total

LEMMA RisingStep ==
  ASSUME AccountsInv, RowsSound, Rising, [Next]_vars
  PROVE  Rising' /\ \A d \in Days \ unread : disk.summary[d].total <= disk'.summary[d].total
<1>0. Flow
  BY StepFlows
<1>1. /\ home \in Homes /\ day \in Days /\ day' \in Days /\ mem \in Row /\ MaxDay \in Nat
      /\ conn \in Tables /\ disk \in Tables
      /\ \A e \in Events : home[e] # None => home[e] <= day
  BY <1>0, ConstantsAssumption
  DEF Flow, Homes, AccountsInv, StoredInv, TypeOK, Dated, ConstantsAssumption
<1>2. /\ mem.total \in Nat
      /\ \A d \in Days : /\ conn.summary[d] \in Row
                         /\ conn.summary[d].total \in Nat /\ disk.summary[d].total \in Nat
  BY <1>1 DEF Tables, Row
<1>3. /\ \A d \in Days \ unread : disk.summary[d].total <= conn.summary[d].total
      /\ proc = "up" /\ day \notin unread => conn.summary[day].total <= mem.total
      /\ proc = "loading" => conn = disk
  BY DEF Rising, AccountsInv, StoredInv, Quiet
<1>4. ASSUME NEW d \in Days \ unread
      PROVE  /\ disk'.summary[d].total <= conn'.summary[d].total
             /\ disk.summary[d].total <= disk'.summary[d].total
  <2>1. CASE KeepsTables \/ CommitsTables \/ RevertsTables
    BY <1>2, <1>3, <2>1 DEF KeepsTables, CommitsTables, RevertsTables
  <2>2. CASE WritesTally
    <3>1. conn'.summary[d] = (IF d = day THEN mem ELSE conn.summary[d])
          /\ disk'.summary = disk.summary /\ proc = "up"
      BY <1>1, <2>2 DEF WritesTally, Tables
    <3> QED
      BY <1>1, <1>2, <1>3, <3>1
  <2> QED
    BY <1>0, <2>1, <2>2 DEF Flow, TablesFlow
<1>5. ASSUME NEW d \in Days \ unread'
      PROVE  disk'.summary[d].total <= conn'.summary[d].total
  <2>1. CASE d \notin unread
    BY <1>4, <2>1
  <2>2. CASE d \in unread
    <3>1. LoadsTally /\ proc = "loading"
      BY <1>0, <1>5, <2>2
      DEF Flow, TallyFlow, KeepsTally, LoadsTally, DropsTally, OpensDay, CountsFor
    <3> QED
      BY <1>2, <1>3, <3>1 DEF LoadsTally, KeepsTables
  <2> QED
    BY <2>1, <2>2
<1>6. ASSUME proc' = "up", day' \notin unread'
      PROVE  conn'.summary[day'].total <= mem'.total
  <2>1. CASE KeepsTally
    <3>1. proc = "up" /\ UNCHANGED <<mem, day, unread>>
      BY <1>6, <2>1 DEF KeepsTally
    <3>2. CASE KeepsTables \/ CommitsTables
      BY <1>3, <1>6, <3>1, <3>2 DEF KeepsTables, CommitsTables
    <3>3. CASE WritesTally
      BY <1>1, <1>2, <3>1, <3>3 DEF WritesTally, Tables
    <3> QED
      BY <1>0, <1>6, <3>2, <3>3 DEF Flow, TablesFlow
  <2>2. CASE LoadsTally
    BY <1>1, <1>2, <1>6, <2>2 DEF LoadsTally, KeepsTables
  <2>3. ASSUME NEW e \in Events, CountsFor(e)
        PROVE  conn'.summary[day'].total <= mem'.total
    <3>1. conn'.summary = conn.summary /\ proc = "up" /\ unread' = unread
      BY <2>3 DEF CountsFor, KeepsTables, CommitsTables
    <3>2. CASE day' = day /\ mem' = Bump(mem, ClassOf[e])
      BY <1>1, <1>2, <1>3, <1>6, <3>1, <3>2 DEF Bump
    <3>3. CASE day < day' /\ mem' = Bump(EmptyRow, ClassOf[e])
      <4>1. \A x \in Events : home[x] # day'
        BY <1>1, <3>3
      <4>2. conn.summary[day'].total = 0
        BY <1>1, <1>2, <4>1, NobodyExact DEF RowsSound
      <4> QED
        BY <3>1, <3>3, <4>2 DEF Bump, EmptyRow
    <3> QED
      BY <2>3, <3>2, <3>3 DEF CountsFor
  <2> QED
    BY <1>0, <1>6, <2>1, <2>2, <2>3 DEF Flow, TallyFlow, DropsTally, OpensDay
<1> QED
  BY <1>4, <1>5, <1>6 DEF Rising

(* A stored total is replaced by a smaller one (db.py:147) only for a day  *)
(* the running process failed to load (stats.py:30): neither by the flush  *)
(* after a restart, nor by that of a later day, whatever else raises.      *)
THEOREM TotalsOnlyGrow == Spec => SummaryNeverShrinks
<1> DEFINE Higher ==
      \A d \in Days \ unread : disk'.summary[d].total >= disk.summary[d].total
<1>1. Init => Rising
  BY DEF Init, Rising, EmptyRow
<1>2. AccountsInv /\ RowsSound /\ Rising /\ [Next]_vars => Rising' /\ [Higher]_disk
  <2> SUFFICES ASSUME AccountsInv, RowsSound, Rising, [Next]_vars
               PROVE  Rising' /\ Higher
    OBVIOUS
  <2>1. /\ Rising'
        /\ \A d \in Days \ unread : disk.summary[d].total <= disk'.summary[d].total
    BY RisingStep
  <2> QED
    BY <2>1
<1> QED
  BY <1>1, <1>2, AccountsInit, AccountsStep, RowsSoundInit, RowsSoundStep,
     PTL DEF Spec, SummaryNeverShrinks
=============================================================================
