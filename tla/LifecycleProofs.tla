-------------------------- MODULE LifecycleProofs --------------------------
(***************************************************************************)
(* Proofs about Lifecycle, for every set of calls and every number of      *)
(* faults: the types, what the log and the summary hold as long as the     *)
(* database is opened again at most once, and what a shutdown leaves.      *)
(***************************************************************************)
EXTENDS Lifecycle, FiniteSetTheorems, TLAPS

USE DEF Flushers, Clients

LEMMA ClientFacts ==
  /\ Saver # Main
  /\ \A c \in Calls : c # Saver /\ c # Main
  BY ConstantsAssumption DEF ConstantsAssumption

(* The connection is the first one until close_db is over; only after that *)
(* is one opened again, and only during the final flush does main flush.   *)
Phases ==
  /\ main = "init" => /\ opened = 0 /\ cur = 0 /\ threads = 0
                      /\ tally = {} /\ \A x \in Clients : at[x] = "idle"
  /\ main = "initFailed" => /\ opened = 0 /\ cur = 0 /\ tally = {}
                            /\ \A x \in Clients : at[x] \in {"idle", "over"}
  /\ main \notin {"init", "initFailed", "closing", "returned"} =>
        opened = 1 /\ cur = 1 /\ threads = 1
  /\ main = "closing" => opened = 1 /\ cur = 1 /\ threads = 0 /\ writer = 0
  /\ main = "returned" => opened >= 1 /\ cur # 1
  /\ main # "returned" => \A x \in Clients : at[x] # "opening"
  /\ at[Main] \in {"wanting", "opening", "queued", "written"} => main = "flush"

(* One client at a time awaits a statement, and none without a connection. *)
Locked ==
  /\ \A x, y \in Clients : at[x] = "written" /\ at[y] = "written" => x = y
  /\ cur = 0 => writer = 0 /\ \A x \in Clients : at[x] # "written"

Base == TypeOK /\ Phases /\ Locked

LEMMA FaultType ==
  ASSUME TypeOK, Fault \/ UNCHANGED faults
  PROVE  faults' \in 0..MaxFaults
  BY ConstantsAssumption DEF ConstantsAssumption, Fault, TypeOK

LEMMA CommitCurType ==
  ASSUME TypeOK, CommitCur
  PROVE  writer' \in 0..opened /\ seen' \in Tables /\ disk' \in Tables
  BY DEF CommitCur, TypeOK, tables

LEMMA LeaksType ==
  ASSUME TypeOK
  PROVE  /\ Cardinality(In({"opening"})) \in Nat
         /\ (\A x \in Clients : at[x] # "opening") => Cardinality(In({"opening"})) = 0
<1>1. IsFiniteSet(Clients)
  <2>1. Clients = (Calls \cup {Saver}) \cup {Main}
    OBVIOUS
  <2> QED
    BY <2>1, FS_AddElement, ConstantsAssumption DEF ConstantsAssumption
<1>2. IsFiniteSet(In({"opening"}))
  BY <1>1, FS_Subset DEF In
<1>3. (\A x \in Clients : at[x] # "opening") => In({"opening"}) = {}
  BY DEF In
<1> QED
  BY <1>2, <1>3, FS_CardinalityType, FS_EmptySet

LEMMA FlushOverType ==
  ASSUME TypeOK, NEW f \in Flushers, FlushOver(f)
  PROVE  /\ at' = [at EXCEPT ![f] = at'[f]]
         /\ at'[f] \in {"idle", "over"}
         /\ f = Main => main' = "close"
         /\ f = Saver => main' = main
  BY ClientFacts DEF FlushOver, Goto, TypeOK

LEMMA BaseInit == Init => Base
<1> SUFFICES ASSUME Init PROVE Base
  OBVIOUS
<1>1. disk \in Tables /\ seen \in Tables
  BY DEF Init, Tables
<1>2. faults \in 0..MaxFaults
  BY ConstantsAssumption DEF ConstantsAssumption, Init
<1>3. /\ opened \in Nat /\ cur \in 0..opened /\ threads \in 0..opened /\ writer \in 0..opened
  BY DEF Init
<1>4. at \in [Clients -> {"idle", "wanting", "opening", "queued", "written", "created",
                         "counted", "raised", "lost", "over"}]
  BY DEF Init
<1>5. TypeOK
  BY <1>1, <1>2, <1>3, <1>4 DEF Init, TypeOK
<1> QED
  BY <1>5 DEF Init, Base, Phases, Locked

LEMMA BaseStep == Base /\ [Next]_vars => Base'
<1> SUFFICES ASSUME Base, [Next]_vars
             PROVE  Base'
  OBVIOUS
<1> USE ClientFacts DEF Base, stats, database, tables, history, Ended, Failed
<1>0. CASE Start
  BY <1>0 DEF Start, Connect, TypeOK, Phases, Locked
<1>18. CASE StartFails
  <2>1. faults' \in 0..MaxFaults
    BY <1>18, FaultType DEF StartFails
  <2> QED
    BY <1>18, <2>1 DEF StartFails, TypeOK, Phases, Locked
<1>1. CASE Listen \/ ListenFails \/ Signal \/ StopSsh \/ LingererEnds
  <2>1. TypeOK'
    BY <1>1 DEF Listen, ListenFails, Signal, StopSsh, LingererEnds, TypeOK
  <2>2. Phases'
    BY <1>1 DEF Listen, ListenFails, Signal, StopSsh, LingererEnds, Phases
  <2>3. Locked'
    BY <1>1 DEF Listen, ListenFails, Signal, StopSsh, LingererEnds, Locked
  <2> QED
    BY <2>1, <2>2, <2>3
<1>2. CASE StopTelnet
  BY <1>2 DEF StopTelnet, Goto, In, TypeOK, Phases, Locked
<1>3. CASE CloseDb
  BY <1>3 DEF CloseDb, TypeOK, Phases, Locked
<1>17. CASE DbClosed
  <2>1. \A x \in Clients : at[x] # "written"
    BY <1>17 DEF DbClosed, DbLocked, In
  <2>2. writer = 0
    BY <1>17 DEF DbClosed, Phases
  <2> QED
    BY <1>17, <2>1, <2>2 DEF DbClosed, TypeOK, Phases, Locked
<1>4. ASSUME NEW c \in Calls, LogEvent(c)
      PROVE  Base'
  BY <1>4 DEF LogEvent, Serving, Enter, Goto, TypeOK, Phases, Locked
<1>5. ASSUME NEW x \in Clients, Opened(x)
      PROVE  Base'
  BY <1>5 DEF Opened, Connect, Goto, TypeOK, Phases, Locked
<1>6. ASSUME NEW x \in Clients, Write(x)
      PROVE  Base'
  <2>1. seen' \in Tables
    BY <1>6 DEF Write, TypeOK, Tables
  <2>2. \A y \in Clients : at[y] # "written"
    BY <1>6 DEF Write, DbLocked, In
  <2> QED
    BY <1>6, <2>1, <2>2 DEF Write, Writable, Goto, TypeOK, Phases, Locked
<1>7. ASSUME NEW f \in Flushers, FlushOver(f),
             at[f] \in {"wanting", "opening", "queued", "written"},
             UNCHANGED <<loop, cur, opened, history>>,
             threads' \in Nat, at[f] # "opening" => threads' = threads,
             dirty' \in BOOLEAN, UNCHANGED tally, faults' \in 0..MaxFaults,
             CommitCur \/ UNCHANGED tables
      PROVE  Base'
  <2>1. writer' \in 0..opened /\ seen' \in Tables /\ disk' \in Tables
    BY <1>7, CommitCurType DEF TypeOK
  <2>2. cur = 0 => writer' = 0
    BY <1>7 DEF CommitCur, Locked
  <2>3. /\ at' = [at EXCEPT ![f] = at'[f]]
        /\ at'[f] \in {"idle", "over"}
        /\ f = Main => main' = "close" /\ main = "flush"
        /\ f = Saver => main' = main
        /\ main # "returned" => threads' = threads
    BY <1>7, FlushOverType DEF Phases
  <2>4. TypeOK'
    <3>1. at' \in [Clients -> {"idle", "wanting", "opening", "queued", "written", "created",
                               "counted", "raised", "lost", "over"}]
      BY <2>3 DEF TypeOK
    <3>2. f = Main \/ f = Saver
      OBVIOUS
    <3> QED
      BY <1>7, <2>1, <2>3, <3>1, <3>2 DEF TypeOK
  <2>5. \A x \in Clients : at'[x] = at[x] \/ at'[x] \in {"idle", "over"}
    BY <2>3 DEF TypeOK
  <2>6. Phases'
    <3>1. CASE f = Main
      <4>1. at'[Main] \in {"idle", "over"}
        BY <2>3, <3>1
      <4> QED
        BY <1>7, <2>3, <2>5, <3>1, <4>1 DEF Phases
    <3>2. CASE f = Saver
      <4>1. at'[Main] = at[Main]
        BY <2>3, <3>2 DEF TypeOK
      <4>2. main \notin {"init", "initFailed"}
        BY <1>7 DEF Phases
      <4>3. main = "closing" => writer' = 0
        BY <1>7 DEF CommitCur, Phases
      <4>4. UNCHANGED <<main, opened, cur>> /\ (main # "returned" => threads' = threads)
        BY <1>7, <2>3, <3>2
      <4> QED
        BY <2>5, <4>1, <4>2, <4>3, <4>4 DEF Phases
    <3> QED
      BY <3>1, <3>2
  <2>7. Locked'
    BY <1>7, <2>2, <2>5 DEF Locked
  <2> QED
    BY <2>4, <2>6, <2>7
<1>8. ASSUME NEW f \in Flushers, Flush(f)
      PROVE  Base'
  <2>1. CASE ~dirty /\ FlushOver(f)
    BY <1>7, <1>8, <2>1 DEF Flush, TypeOK
  <2>2. CASE dirty /\ Enter(f) /\ UNCHANGED main
    <3>1. at[f] = "wanting" /\ UNCHANGED <<main, loop, stats, database, tables, history, faults>>
      BY <1>8, <2>2 DEF Flush
    <3>2. at' = [at EXCEPT ![f] = IF cur = 0 THEN "opening" ELSE "queued"]
      BY <2>2 DEF Enter, Goto
    <3>3. TypeOK'
      BY <3>1, <3>2 DEF TypeOK
    <3>4. Phases' /\ Locked'
      BY <3>1, <3>2 DEF TypeOK, Phases, Locked
    <3> QED
      BY <3>3, <3>4
  <2> QED
    BY <1>8, <2>1, <2>2 DEF Flush
<1>9. ASSUME NEW f \in Flushers, CommitUpsert(f)
      PROVE  Base'
  BY <1>7, <1>9 DEF CommitUpsert, TypeOK
<1>10. ASSUME NEW c \in Calls, CommitInsert(c)
       PROVE  Base'
  <2>1. writer' \in 0..opened /\ seen' \in Tables /\ disk' \in Tables
    BY <1>10, CommitCurType DEF CommitInsert
  <2>2. cur = 0 => writer' = 0
    BY <1>10 DEF CommitInsert, CommitCur, Locked
  <2> QED
    BY <1>10, <2>1, <2>2 DEF CommitInsert, Goto, TypeOK, Phases, Locked
<1>11. ASSUME NEW x \in Clients, Raises(x)
       PROVE  Base'
  <2>1. faults' \in 0..MaxFaults
    BY <1>11, FaultType DEF Raises
  <2>2. at[x] \in {"queued", "written"} /\ UNCHANGED <<loop, stats, database, tables, history>>
    BY <1>11 DEF Raises
  <2>3. CASE x \in Flushers
    BY <1>7, <1>11, <2>1, <2>2, <2>3 DEF Raises, TypeOK
  <2>4. CASE x \notin Flushers
    BY <1>11, <2>1, <2>2, <2>4 DEF Raises, Goto, TypeOK, Phases, Locked
  <2> QED
    BY <2>3, <2>4
<1>19. ASSUME NEW x \in Clients, OpenRaises(x)
       PROVE  Base'
  <2>1. faults' \in 0..MaxFaults
    BY <1>19, FaultType DEF OpenRaises
  <2>2. /\ at[x] = "opening" /\ threads' \in Nat
        /\ UNCHANGED <<loop, stats, opened, cur, tables, history>>
    BY <1>19 DEF OpenRaises, TypeOK
  <2>3. CASE x \in Flushers
    BY <1>7, <1>19, <2>1, <2>2, <2>3 DEF OpenRaises, TypeOK
  <2>4. CASE x \notin Flushers
    BY <1>19, <2>1, <2>2, <2>4 DEF OpenRaises, Goto, TypeOK, Phases, Locked
  <2> QED
    BY <2>3, <2>4
<1>12. ASSUME NEW c \in Calls, Register(c)
       PROVE  Base'
  BY <1>12 DEF Register, Goto, TypeOK, Phases, Locked
<1>13. CASE SaverWakes
  BY <1>13 DEF SaverWakes, Goto, TypeOK, Phases, Locked
<1>14. CASE CancelTasks
  <2>1. writer' \in 0..opened /\ seen' \in Tables /\ disk' \in Tables
    BY <1>14, CommitCurType DEF CancelTasks, TypeOK
  <2>2. cur = 0 => writer' = 0
    BY <1>14 DEF CancelTasks, CommitCur, Locked
  <2>3. PICK n \in 0..Cardinality(In({"opening"})) : threads' = threads + n
    BY <1>14 DEF CancelTasks
  <2>4. n \in Nat /\ (main # "returned" => n = 0)
    BY LeaksType, <2>3 DEF Phases
  <2>5. /\ \A x \in Clients : at'[x] \notin {"opening", "queued", "written", "created"}
        /\ at' \in [Clients -> {"idle", "wanting", "opening", "queued", "written", "created",
                                "counted", "raised", "lost", "over"}]
        /\ at'[Main] # "wanting"
        /\ main = "initFailed" => \A x \in Clients : at'[x] \in {"idle", "over"}
    BY <1>14 DEF CancelTasks, Cancelled, TypeOK, Phases
  <2>6. /\ UNCHANGED <<main, stats, opened, cur, late, faults>>
        /\ loop' \in {"cancelling", "lingering"} /\ due' = tally
    BY <1>14 DEF CancelTasks
  <2>7. TypeOK'
    BY <2>1, <2>3, <2>4, <2>5, <2>6 DEF TypeOK
  <2>8. Phases'
    <3>1. main \in {"returned", "initFailed", "sshFailed", "telnetFailed"}
      BY <1>14 DEF CancelTasks
    <3> QED
      BY <3>1, <2>3, <2>4, <2>5, <2>6 DEF Phases, TypeOK
  <2>9. Locked'
    BY <2>2, <2>5, <2>6 DEF Locked
  <2> QED
    BY <2>7, <2>8, <2>9
<1>15. CASE LoopEnds
  BY <1>15 DEF LoopEnds, TypeOK, Phases, Locked
<1>16. CASE UNCHANGED vars
  BY <1>16 DEF vars, TypeOK, Phases, Locked
<1> QED
  BY <1>0, <1>1, <1>2, <1>3, <1>4, <1>5, <1>6, <1>8, <1>9, <1>10, <1>11, <1>12, <1>13, <1>14, <1>15, <1>16, <1>17,
     <1>18, <1>19
  DEF Next, MainStep, CallStep, FlushStep, ClientStep, Clients

(* Every variable keeps its type; in particular no connection is closed    *)
(* that is not open (db.py:78-89).                                         *)
THEOREM TypeCorrect == Spec => []TypeOK
  BY BaseInit, BaseStep, PTL DEF Spec, Base
----------------------------------------------------------------------------
(* What a connection sees of the log includes what is committed.           *)
SeenGrows == disk.rows \subseteq seen.rows

(* As long as the second connection is the last, a transaction is on the   *)
(* connection in _DB_CONN: what a client has written there is what its     *)
(* commit commits, and what is tallied is in the log.                      *)
Pending ==
  opened <= 2 =>
    /\ writer \in {0, cur}
    /\ \A x \in Clients : at[x] = "written" /\ main # "closing" => writer = cur
    /\ \A c \in Calls : at[c] = "written" /\ main # "closing" => c \in seen.rows
    /\ \A c \in Calls : at[c] \in {"created", "counted"} => c \in disk.rows
    /\ tally \subseteq disk.rows
    /\ seen.sum \subseteq seen.rows
    /\ disk.sum \subseteq disk.rows

LEMMA CommitCurKeeps ==
  ASSUME TypeOK, SeenGrows, CommitCur \/ UNCHANGED tables
  PROVE  SeenGrows' /\ disk.rows \subseteq disk'.rows /\ seen' = seen
  BY DEF CommitCur, SeenGrows, tables

LEMMA SeenGrowsStep == Base /\ SeenGrows /\ [Next]_vars => SeenGrows'
<1> SUFFICES ASSUME Base, SeenGrows, [Next]_vars
             PROVE  SeenGrows'
  OBVIOUS
<1> USE DEF Base, SeenGrows
<1>1. ASSUME NEW x \in Clients, Write(x)
      PROVE  SeenGrows'
  BY <1>1 DEF Write, TypeOK, Tables
<1>2. CASE CommitCur
  BY <1>2, CommitCurKeeps
<1>3. CASE CloseDb
  BY <1>3 DEF CloseDb
<1>4. CASE UNCHANGED tables
  BY <1>4 DEF tables
<1> QED
  BY <1>1, <1>2, <1>3, <1>4
  DEF Next, MainStep, CallStep, FlushStep, ClientStep, Start, StartFails, Listen,
      ListenFails, Signal, StopSsh, StopTelnet, DbClosed, LogEvent, Opened, OpenRaises, Flush,
      CommitInsert, CommitUpsert, Raises, Register, SaverWakes, CancelTasks, LingererEnds,
      LoopEnds, vars, tables

LEMMA NeverFewerOpened ==
  ASSUME Base, [Next]_vars
  PROVE  opened' <= 2 => opened <= 2
  BY DEF Base, TypeOK, Next, MainStep, CallStep, FlushStep, ClientStep, Start, StartFails,
      Listen, ListenFails, Signal, StopSsh, StopTelnet, CloseDb, DbClosed, LogEvent, Opened,
      OpenRaises, Write, Flush, CommitInsert, CommitUpsert, Raises, Register, SaverWakes,
      CancelTasks, LingererEnds, LoopEnds, Connect, vars, database

LEMMA PendingStep == Base /\ SeenGrows /\ Pending /\ [Next]_vars => Pending'
<1> SUFFICES ASSUME Base, SeenGrows, Pending, [Next]_vars, opened' <= 2
             PROVE  Pending'
  BY DEF Pending
<1>0. opened <= 2
  BY NeverFewerOpened
<1> USE <1>0, ClientFacts DEF Base, Pending, stats, database, tables, history
<1>1. ASSUME UNCHANGED <<cur, tables, tally>>,
             main' = main \/ main # "closing",
             \A x \in Clients : at'[x] = at[x] \/ at'[x] \notin {"written", "created", "counted"}
      PROVE  Pending'
  BY <1>1
<1>2. CASE Start
  BY <1>2 DEF Start, Connect, Phases
<1>3. CASE \/ StartFails \/ Listen \/ ListenFails \/ Signal \/ StopSsh
           \/ LingererEnds \/ LoopEnds \/ UNCHANGED vars
  <2>1. UNCHANGED <<cur, tables, tally, at>> /\ (main' = main \/ main # "closing")
    BY <1>3 DEF StartFails, Listen, ListenFails, Signal, StopSsh, LingererEnds, LoopEnds, vars
  <2> QED
    BY <1>1, <2>1
<1>4. CASE StopTelnet \/ SaverWakes
  <2>1. UNCHANGED <<cur, tables, tally>> /\ (main' = main \/ main # "closing")
    BY <1>4 DEF StopTelnet, SaverWakes
  <2>2. \A x \in Clients : at'[x] = at[x] \/ at'[x] = "wanting"
    BY <1>4 DEF StopTelnet, SaverWakes, Goto, TypeOK
  <2> QED
    BY <1>1, <2>1, <2>2
<1>5. CASE CloseDb
  BY <1>5 DEF CloseDb
<1>6. CASE DbClosed
  <2>1. \A x \in Clients : at[x] # "written"
    BY <1>6 DEF DbClosed, DbLocked, In
  <2>2. writer = 0
    BY <1>6 DEF DbClosed, Phases
  <2> QED
    BY <1>6, <2>1, <2>2 DEF DbClosed
<1>7. ASSUME NEW c \in Calls, LogEvent(c)
      PROVE  Pending'
  <2>1. \A x \in Clients : at'[x] = at[x] \/ at'[x] \in {"opening", "queued"}
    BY <1>7 DEF LogEvent, Enter, Goto, TypeOK
  <2> QED
    BY <1>1, <1>7, <2>1 DEF LogEvent
<1>8. ASSUME NEW x \in Clients, Opened(x)
      PROVE  Pending'
  <2>1. cur = 0 /\ cur' = 2
    BY <1>8 DEF Opened, Connect, Phases, TypeOK
  <2>2. writer = 0 /\ \A y \in Clients : at[y] # "written"
    BY <2>1 DEF Locked
  <2>3. \A y \in Clients : at'[y] = at[y] \/ at'[y] = "queued"
    BY <1>8 DEF Opened, Goto, TypeOK
  <2> QED
    BY <1>8, <2>1, <2>2, <2>3 DEF Opened
<1>9. ASSUME NEW x \in Clients, Write(x)
      PROVE  Pending'
  <2>1. \A y \in Clients : at[y] # "written"
    BY <1>9 DEF Write, DbLocked, In
  <2>2. /\ at' = [at EXCEPT ![x] = "written"] /\ writer' = cur
        /\ UNCHANGED <<main, cur, tally, disk>>
    BY <1>9 DEF Write, Goto
  <2>3. /\ x \in Calls => x \in seen'.rows
        /\ seen'.sum \subseteq seen'.rows
    BY <1>9 DEF Write, TypeOK, Tables, SeenGrows
  <2> QED
    BY <2>1, <2>2, <2>3 DEF TypeOK
<1>10. ASSUME NEW x \in Clients, at[x] = "written", main # "closing", CommitCur
       PROVE  /\ disk' = seen /\ seen' = seen /\ writer' = 0
              /\ \A y \in Clients \ {x} : at[y] # "written"
              /\ disk.rows \subseteq disk'.rows
  BY <1>10 DEF CommitCur, Locked, SeenGrows
<1>11. ASSUME NEW c \in Calls, CommitInsert(c)
       PROVE  Pending'
  <2>1. at' = [at EXCEPT ![c] = "created"] /\ UNCHANGED <<main, cur, tally>>
    BY <1>11 DEF CommitInsert, Goto
  <2>2. /\ disk' = seen /\ seen' = seen /\ writer' = 0
        /\ \A y \in Clients \ {c} : at[y] # "written"
        /\ disk.rows \subseteq disk'.rows
    BY <1>10, <1>11 DEF CommitInsert
  <2>3. c \in seen.rows
    BY <1>11 DEF CommitInsert
  <2> QED
    BY <2>1, <2>2, <2>3 DEF TypeOK
<1>12. ASSUME NEW f \in Flushers, CommitUpsert(f)
       PROVE  Pending'
  <2>1. /\ at' = [at EXCEPT ![f] = at'[f]] /\ at'[f] \in {"idle", "over"}
        /\ UNCHANGED <<cur, tally>>
    BY <1>12, FlushOverType DEF CommitUpsert
  <2>2. /\ disk' = seen /\ seen' = seen /\ writer' = 0
        /\ \A y \in Clients \ {f} : at[y] # "written"
        /\ disk.rows \subseteq disk'.rows
    BY <1>10, <1>12 DEF CommitUpsert
  <2> QED
    BY <2>1, <2>2 DEF TypeOK
<1>13. ASSUME NEW f \in Flushers, FlushOver(f),
              at[f] \in {"wanting", "opening", "queued", "written"},
              UNCHANGED <<cur, tables, tally>>
       PROVE  Pending'
  <2>1. \A y \in Clients : at'[y] = at[y] \/ at'[y] \in {"idle", "over"}
    BY <1>13, FlushOverType DEF TypeOK
  <2>2. main' = main \/ main # "closing"
    BY <1>13, FlushOverType DEF Phases
  <2> QED
    BY <1>1, <1>13, <2>1, <2>2
<1>14. ASSUME NEW f \in Flushers, Flush(f)
       PROVE  Pending'
  <2>1. CASE ~dirty /\ FlushOver(f)
    BY <1>13, <1>14, <2>1 DEF Flush
  <2>2. CASE dirty /\ Enter(f) /\ UNCHANGED main
    <3>1. \A y \in Clients : at'[y] = at[y] \/ at'[y] \in {"opening", "queued"}
      BY <2>2 DEF Enter, Goto, TypeOK
    <3> QED
      BY <1>1, <1>14, <2>2, <3>1 DEF Flush
  <2> QED
    BY <1>14, <2>1, <2>2 DEF Flush
<1>15. ASSUME NEW x \in Clients, Raises(x)
       PROVE  Pending'
  <2>1. CASE x \in Flushers
    BY <1>13, <1>15, <2>1 DEF Raises
  <2>2. CASE x \notin Flushers
    <3>1. \A y \in Clients : at'[y] = at[y] \/ at'[y] = "raised"
      BY <1>15, <2>2 DEF Raises, Goto, TypeOK
    <3> QED
      BY <1>1, <1>15, <2>2, <3>1 DEF Raises
  <2> QED
    BY <2>1, <2>2
<1>18. ASSUME NEW x \in Clients, OpenRaises(x)
       PROVE  Pending'
  <2>1. CASE x \in Flushers
    BY <1>13, <1>18, <2>1 DEF OpenRaises
  <2>2. CASE x \notin Flushers
    <3>1. \A y \in Clients : at'[y] = at[y] \/ at'[y] = "raised"
      BY <1>18, <2>2 DEF OpenRaises, Goto, TypeOK
    <3> QED
      BY <1>1, <1>18, <2>2, <3>1 DEF OpenRaises
  <2> QED
    BY <2>1, <2>2
<1>16. ASSUME NEW c \in Calls, Register(c)
       PROVE  Pending'
  BY <1>16 DEF Register, Goto, TypeOK
<1>17. CASE CancelTasks
  <2>1. \A x \in Clients : at'[x] = at[x] \/ at'[x] \in {"wanting", "lost", "over"}
    BY <1>17 DEF CancelTasks, Cancelled, TypeOK
  <2>2. \A x \in Clients : at'[x] # "written"
    BY <1>17 DEF CancelTasks, Cancelled, TypeOK
  <2>3. UNCHANGED <<main, cur, tally>>
    BY <1>17 DEF CancelTasks
  <2>4. CASE UNCHANGED tables
    BY <1>1, <2>1, <2>3, <2>4
  <2>5. CASE CommitCur
    BY <2>1, <2>2, <2>3, <2>5 DEF CommitCur, SeenGrows
  <2> QED
    BY <1>17, <2>4, <2>5 DEF CancelTasks
<1> QED
  BY <1>2, <1>3, <1>4, <1>5, <1>6, <1>7, <1>8, <1>9, <1>11, <1>12, <1>14, <1>15, <1>16, <1>17,
     <1>18
  DEF Next, MainStep, CallStep, FlushStep, ClientStep

(* As long as the database is opened again at most once, an event whose    *)
(* log_event returned is in the log for good, and the summary counts no    *)
(* other (db.py:78-130).                                                   *)
THEOREM RowsAreKept == Spec => []ReturnedHaveRows
<1>1. Init => SeenGrows /\ Pending
  BY DEF Init, SeenGrows, Pending
<1>2. Base /\ Pending => ReturnedHaveRows
  <2> SUFFICES ASSUME Base, Pending, opened <= 2
               PROVE  /\ In({"created", "counted"}) \cap Calls \subseteq disk.rows
                      /\ disk.sum \subseteq disk.rows
    BY DEF ReturnedHaveRows
  <2> QED
    BY DEF Pending, In
<1> QED
  BY <1>1, <1>2, BaseInit, BaseStep, SeenGrowsStep, PendingStep, PTL DEF Spec
----------------------------------------------------------------------------
(* As long as the second connection is the last, the tables only ever hold *)
(* summaries of tallied events, what is not dirty is stored, and a tally   *)
(* does not move while a flush has it written and uncommitted.             *)
Summed ==
  opened <= 2 =>
    /\ disk.sum \subseteq seen.sum /\ seen.sum \subseteq tally
    /\ ~dirty => tally \subseteq disk.sum
    /\ \A f \in Flushers : at[f] = "written" /\ main # "closing" => seen.sum = tally

LEMMA SummedStep == Base /\ Pending /\ Summed /\ [Next]_vars => Summed'
<1> SUFFICES ASSUME Base, Pending, Summed, [Next]_vars, opened' <= 2
             PROVE  Summed'
  BY DEF Summed
<1>0. opened <= 2
  BY NeverFewerOpened
<1> USE <1>0, ClientFacts DEF Base, Summed, stats, database, tables, history
<1>1. ASSUME UNCHANGED <<tally, tables>>, dirty' = dirty,
             main' = main \/ main # "closing",
             \A f \in Flushers : at'[f] = at[f] \/ at'[f] # "written"
      PROVE  Summed'
  BY <1>1
<1>2. CASE \/ Start \/ StartFails \/ Listen \/ ListenFails \/ Signal \/ StopSsh
           \/ LingererEnds \/ LoopEnds \/ UNCHANGED vars
  <2>1. UNCHANGED <<tally, tables, dirty, at>> /\ (main' = main \/ main # "closing")
    BY <1>2 DEF Start, StartFails, Listen, ListenFails, Signal, StopSsh, LingererEnds,
      LoopEnds, vars
  <2> QED
    BY <1>1, <2>1
<1>3. CASE StopTelnet \/ SaverWakes
  <2>1. UNCHANGED <<tally, tables, dirty>> /\ (main' = main \/ main # "closing")
    BY <1>3 DEF StopTelnet, SaverWakes
  <2>2. \A x \in Clients : at'[x] = at[x] \/ at'[x] = "wanting"
    BY <1>3 DEF StopTelnet, SaverWakes, Goto, TypeOK
  <2> QED
    BY <1>1, <2>1, <2>2
<1>4. CASE CloseDb
  BY <1>4 DEF CloseDb
<1>5. CASE DbClosed
  <2>1. \A x \in Clients : at[x] # "written"
    BY <1>5 DEF DbClosed, DbLocked, In
  <2> QED
    BY <1>5, <2>1 DEF DbClosed
<1>6. ASSUME NEW c \in Calls, LogEvent(c)
      PROVE  Summed'
  <2>1. \A x \in Clients : at'[x] = at[x] \/ at'[x] \in {"opening", "queued"}
    BY <1>6 DEF LogEvent, Enter, Goto, TypeOK
  <2> QED
    BY <1>1, <1>6, <2>1 DEF LogEvent
<1>7. ASSUME NEW x \in Clients, Opened(x)
      PROVE  Summed'
  <2>1. \A y \in Clients : at'[y] = at[y] \/ at'[y] = "queued"
    BY <1>7 DEF Opened, Goto, TypeOK
  <2> QED
    BY <1>1, <1>7, <2>1 DEF Opened
<1>8. ASSUME NEW x \in Clients, Write(x)
      PROVE  Summed'
  <2>1. \A y \in Clients : at[y] # "written"
    BY <1>8 DEF Write, DbLocked, In
  <2>2. at' = [at EXCEPT ![x] = "written"] /\ UNCHANGED <<main, tally, dirty, disk>>
    BY <1>8 DEF Write, Goto
  <2>3. /\ x \in Calls => seen'.sum = seen.sum
        /\ x \notin Calls => seen'.sum = tally
    BY <1>8 DEF Write, TypeOK, Tables
  <2> QED
    BY <2>1, <2>2, <2>3 DEF TypeOK
<1>9. ASSUME NEW x \in Clients, at[x] = "written", main # "closing", CommitCur
      PROVE  /\ disk' = seen /\ seen' = seen
             /\ \A y \in Clients \ {x} : at[y] # "written"
  BY <1>9 DEF CommitCur, Locked, Pending
<1>10. ASSUME NEW c \in Calls, CommitInsert(c)
       PROVE  Summed'
  <2>1. at' = [at EXCEPT ![c] = "created"] /\ UNCHANGED <<main, tally, dirty>>
    BY <1>10 DEF CommitInsert, Goto
  <2>2. disk' = seen /\ seen' = seen /\ \A y \in Clients \ {c} : at[y] # "written"
    BY <1>9, <1>10 DEF CommitInsert
  <2> QED
    BY <2>1, <2>2 DEF TypeOK
<1>11. ASSUME NEW f \in Flushers, CommitUpsert(f)
       PROVE  Summed'
  <2>1. /\ at' = [at EXCEPT ![f] = at'[f]] /\ at'[f] \in {"idle", "over"}
        /\ UNCHANGED tally
    BY <1>11, FlushOverType DEF CommitUpsert
  <2>2. disk' = seen /\ seen' = seen /\ \A y \in Clients \ {f} : at[y] # "written"
    BY <1>9, <1>11 DEF CommitUpsert
  <2>3. seen.sum = tally
    BY <1>11 DEF CommitUpsert
  <2> QED
    BY <2>1, <2>2, <2>3 DEF TypeOK
<1>12. ASSUME NEW f \in Flushers, FlushOver(f),
              at[f] \in {"wanting", "opening", "queued", "written"},
              UNCHANGED <<tables, tally, dirty>>
       PROVE  Summed'
  <2>1. \A y \in Clients : at'[y] = at[y] \/ at'[y] \in {"idle", "over"}
    BY <1>12, FlushOverType DEF TypeOK
  <2>2. main' = main \/ main # "closing"
    BY <1>12, FlushOverType DEF Phases
  <2> QED
    BY <1>1, <1>12, <2>1, <2>2
<1>13. ASSUME NEW f \in Flushers, Flush(f)
       PROVE  Summed'
  <2>1. CASE ~dirty /\ FlushOver(f)
    BY <1>12, <1>13, <2>1 DEF Flush
  <2>2. CASE dirty /\ Enter(f) /\ UNCHANGED main
    <3>1. \A y \in Clients : at'[y] = at[y] \/ at'[y] \in {"opening", "queued"}
      BY <2>2 DEF Enter, Goto, TypeOK
    <3> QED
      BY <1>1, <1>13, <2>2, <3>1 DEF Flush
  <2> QED
    BY <1>13, <2>1, <2>2 DEF Flush
<1>14. ASSUME NEW x \in Clients, Raises(x)
       PROVE  Summed'
  <2>1. CASE x \in Flushers
    BY <1>12, <1>14, <2>1 DEF Raises
  <2>2. CASE x \notin Flushers
    <3>1. \A y \in Clients : at'[y] = at[y] \/ at'[y] = "raised"
      BY <1>14, <2>2 DEF Raises, Goto, TypeOK
    <3> QED
      BY <1>1, <1>14, <2>2, <3>1 DEF Raises
  <2> QED
    BY <2>1, <2>2
<1>17. ASSUME NEW x \in Clients, OpenRaises(x)
       PROVE  Summed'
  <2>1. CASE x \in Flushers
    BY <1>12, <1>17, <2>1 DEF OpenRaises
  <2>2. CASE x \notin Flushers
    <3>1. \A y \in Clients : at'[y] = at[y] \/ at'[y] = "raised"
      BY <1>17, <2>2 DEF OpenRaises, Goto, TypeOK
    <3> QED
      BY <1>1, <1>17, <2>2, <3>1 DEF OpenRaises
  <2> QED
    BY <2>1, <2>2
<1>15. ASSUME NEW c \in Calls, Register(c)
       PROVE  Summed'
  <2>1. \A f \in Flushers : at'[f] # "written"
    BY <1>15 DEF Register, StatsLocked, In, Goto, TypeOK
  <2> QED
    BY <1>15, <2>1 DEF Register
<1>16. CASE CancelTasks
  <2>1. \A x \in Clients : at'[x] # "written"
    BY <1>16 DEF CancelTasks, Cancelled, TypeOK
  <2>2. UNCHANGED <<main, tally, dirty>> /\ (CommitCur \/ UNCHANGED tables)
    BY <1>16 DEF CancelTasks
  <2> QED
    BY <2>1, <2>2 DEF CommitCur
<1> QED
  BY <1>2, <1>3, <1>4, <1>5, <1>6, <1>7, <1>8, <1>10, <1>11, <1>13, <1>14, <1>15, <1>16,
     <1>17
  DEF Next, MainStep, CallStep, FlushStep, ClientStep
----------------------------------------------------------------------------
(* Once the tasks are cancelled main is over, so that a connection that is *)
(* open stays in _DB_CONN; and the saver is not over before its last flush *)
(* has stored what was due.                                                *)
Rescue ==
  /\ loop # "running" =>
       /\ main \in Ended /\ due \subseteq tally
       /\ \A x \in Clients : at[x] = "queued" => cur # 0
  /\ loop = "ended" => at[Saver] = "over"
  /\ at[Saver] = "over" =>
       /\ loop # "running"
       /\ faults = 0 /\ opened <= 2 => due \subseteq disk.sum

LEMMA NoFaultsSoFar ==
  ASSUME TypeOK, Fault \/ UNCHANGED faults, faults' = 0
  PROVE  UNCHANGED faults
  BY DEF Fault, TypeOK

LEMMA NeverFewerFaults ==
  ASSUME Base, [Next]_vars, faults' = 0
  PROVE  faults = 0
  BY NoFaultsSoFar
  DEF Base, TypeOK, Next, MainStep, CallStep, FlushStep, ClientStep, Start, StartFails,
      Listen, ListenFails, Signal, StopSsh, StopTelnet, CloseDb, DbClosed, LogEvent, Opened,
      OpenRaises, Write, Flush, CommitInsert, CommitUpsert, Raises, Register, SaverWakes,
      CancelTasks, LingererEnds, LoopEnds, vars

(* The stored summary only grows, whatever is committed or rolled back.    *)
LEMMA StoredGrows ==
  ASSUME Summed, opened <= 2, CommitCur \/ UNCHANGED tables
  PROVE  disk.sum \subseteq disk'.sum
  BY DEF Summed, CommitCur, tables

LEMMA RescueStep == Base /\ Pending /\ Summed /\ Rescue /\ [Next]_vars => Rescue'
<1> SUFFICES ASSUME Base, Pending, Summed, Rescue, [Next]_vars
             PROVE  Rescue'
  OBVIOUS
<1> USE ClientFacts, NeverFewerOpened, NeverFewerFaults DEF stats, database, tables, history
<1>1. CASE loop = "running" /\ ~CancelTasks
  <2>1. at[Saver] # "over" /\ at \in [Clients -> {"idle", "wanting", "opening", "queued",
                "written", "created", "counted", "raised", "lost", "over"}]
    BY <1>1 DEF Rescue, Base, TypeOK
  <2>2. loop' = "running"
    BY <1>1 DEF Next, MainStep, CallStep, FlushStep, ClientStep, Start, StartFails, Listen,
      ListenFails, Signal, StopSsh, StopTelnet, CloseDb, DbClosed, LogEvent, Opened,
      OpenRaises, Write, Flush, CommitInsert, CommitUpsert, Raises, Register, SaverWakes,
      LingererEnds, LoopEnds, vars
  <2>3. ASSUME NEW f \in Flushers, FlushOver(f)
        PROVE  at'[Saver] # "over"
    BY <1>1, <2>1, <2>3 DEF FlushOver, Goto
  <2>4. ASSUME NEW x \in Clients, NEW place, place # "over", Goto(x, place)
        PROVE  at'[Saver] # "over"
    BY <2>1, <2>4 DEF Goto
  <2>5. at'[Saver] # "over"
    <3>1. CASE MainStep \/ Signal \/ LingererEnds \/ UNCHANGED vars
      BY <1>1, <2>1, <2>4, <3>1 DEF MainStep, Start, StartFails, Listen, ListenFails, Signal,
        StopSsh, StopTelnet, CloseDb, DbClosed, LingererEnds, LoopEnds, vars
    <3>2. CASE SaverWakes \/ \E c \in Calls : LogEvent(c)
      BY <2>4, <3>2 DEF SaverWakes, LogEvent, Enter
    <3>3. ASSUME NEW x \in Clients, ClientStep(x)
          PROVE  at'[Saver] # "over"
      BY <2>3, <2>4, <3>3 DEF ClientStep, Opened, OpenRaises, Write, Raises
    <3>4. ASSUME NEW c \in Calls, CommitInsert(c) \/ Register(c)
          PROVE  at'[Saver] # "over"
      BY <2>4, <3>4 DEF CommitInsert, Register
    <3>5. ASSUME NEW f \in Flushers, Flush(f) \/ CommitUpsert(f)
          PROVE  at'[Saver] # "over"
      BY <2>3, <2>4, <3>5 DEF Flush, Enter, CommitUpsert
    <3> QED
      BY <3>1, <3>2, <3>3, <3>4, <3>5 DEF Next, CallStep, FlushStep
  <2> QED
    BY <2>2, <2>5 DEF Rescue
<1>2. CASE CancelTasks
  <2>1. main = "initFailed" => due' = {}
    BY <1>2 DEF CancelTasks, Base, Phases
  <2> QED
    BY <1>2, <2>1 DEF CancelTasks, Cancelled, Rescue
<1>3. ASSUME loop # "running", loop' = loop, UNCHANGED <<main, due>>,
             tally \subseteq tally',
             cur # 0 => cur' # 0,
             \A x \in Clients : at'[x] = "queued" => at[x] = "queued" \/ cur' # 0,
             at[Saver] = "over" => at'[Saver] = "over",
             CommitCur \/ UNCHANGED disk,
             \/ at'[Saver] = "over" => at[Saver] = "over"
             \/ faults' = 0 /\ opened' <= 2 => due \subseteq disk'.sum
      PROVE  Rescue'
  <2>1. opened' <= 2 => disk.sum \subseteq disk'.sum
    BY <1>3, StoredGrows
  <2> QED
    BY <1>3, <2>1 DEF Rescue
<1>4. CASE loop # "running" /\ UNCHANGED vars
  BY <1>3, <1>4 DEF vars
<1>5. CASE LingererEnds \/ LoopEnds
  BY <1>5 DEF LingererEnds, LoopEnds, Rescue
<1>6. ASSUME loop # "running", NEW c \in Calls, LogEvent(c)
      PROVE  Rescue'
  BY <1>3, <1>6 DEF LogEvent, Enter, Goto, Base, TypeOK
<1>7. ASSUME loop # "running", NEW x \in Clients, Opened(x)
      PROVE  Rescue'
  BY <1>3, <1>7 DEF Opened, Connect, Goto, Base, TypeOK
<1>8. ASSUME loop # "running", NEW x \in Clients, Write(x)
      PROVE  Rescue'
  BY <1>3, <1>8 DEF Write, Goto, Base, TypeOK
<1>9. ASSUME loop # "running", NEW c \in Calls, CommitInsert(c) \/ Register(c)
      PROVE  Rescue'
  BY <1>3, <1>9 DEF CommitInsert, Register, Goto, Base, TypeOK
<1>10. ASSUME loop # "running", NEW f \in Flushers, FlushOver(f),
              UNCHANGED <<loop, cur, tally, due>>, CommitCur \/ UNCHANGED disk,
              at[f] \in {"wanting", "opening", "queued", "written"},
              faults' = 0 /\ opened' <= 2 => due \subseteq disk'.sum
       PROVE  Rescue'
  <2>1. /\ at' = [at EXCEPT ![f] = at'[f]] /\ at'[f] \in {"idle", "over"}
        /\ f = Main => main = "flush"
        /\ f = Saver => main' = main
    BY <1>10, FlushOverType DEF Base, Phases
  <2>2. f = Saver
    BY <1>10, <2>1 DEF Rescue, Ended, Failed
  <2> QED
    BY <1>3, <1>10, <2>1, <2>2 DEF Base, TypeOK
<1>11. ASSUME loop # "running", NEW f \in Flushers, Flush(f)
       PROVE  Rescue'
  <2>1. CASE ~dirty /\ FlushOver(f)
    <3>1. faults' = 0 /\ opened' <= 2 => due \subseteq disk'.sum
      BY <1>11, <2>1 DEF Flush, Summed, Rescue
    <3> QED
      BY <1>10, <1>11, <2>1, <3>1 DEF Flush
  <2>2. CASE dirty /\ Enter(f) /\ UNCHANGED main
    BY <1>3, <1>11, <2>2 DEF Flush, Enter, Goto, Base, TypeOK
  <2> QED
    BY <1>11, <2>1, <2>2 DEF Flush
<1>12. ASSUME loop # "running", NEW f \in Flushers, CommitUpsert(f)
       PROVE  Rescue'
  <2>1. opened' <= 2 => due \subseteq disk'.sum
    BY <1>12 DEF CommitUpsert, CommitCur, Pending, Summed, Rescue
  <2> QED
    BY <1>10, <1>12, <2>1 DEF CommitUpsert
<1>13. ASSUME loop # "running", NEW x \in Clients, Raises(x)
       PROVE  Rescue'
  <2>1. CASE x \in Flushers
    <3>1. ~(faults' = 0 /\ opened' <= 2)
      <4> SUFFICES ASSUME faults' = 0, opened' <= 2
                   PROVE  FALSE
        OBVIOUS
      <4>1. ~Fault
        BY NoFaultsSoFar DEF Fault, Base, TypeOK
      <4>2. main # "closing"
        BY <1>13 DEF Rescue, Ended, Failed
      <4>3. at[x] = "queued" /\ ~Writable
        BY <1>13, <4>1, <4>2 DEF Raises
      <4> QED
        BY <1>13, <4>2, <4>3 DEF Writable, Rescue, Pending
    <3> QED
      BY <1>10, <1>13, <2>1, <3>1 DEF Raises
  <2>2. CASE x \notin Flushers
    BY <1>3, <1>13, <2>2 DEF Raises, Goto, Base, TypeOK
  <2> QED
    BY <2>1, <2>2
<1>15. ASSUME loop # "running", NEW x \in Clients, OpenRaises(x)
       PROVE  Rescue'
  <2>1. faults' # 0
    BY <1>15 DEF OpenRaises, Fault, Base, TypeOK
  <2>2. CASE x \in Flushers
    BY <1>10, <1>15, <2>1, <2>2 DEF OpenRaises
  <2>3. CASE x \notin Flushers
    BY <1>3, <1>15, <2>3 DEF OpenRaises, Goto, Base, TypeOK
  <2> QED
    BY <2>2, <2>3
<1>14. loop # "running" => ~(Start \/ StartFails \/ Listen \/ ListenFails \/ Signal \/ StopSsh
                             \/ StopTelnet \/ CloseDb \/ DbClosed \/ SaverWakes)
  BY DEF Rescue, Ended, Failed, Start, StartFails, Listen, ListenFails, Signal, StopSsh,
    StopTelnet, CloseDb, DbClosed, SaverWakes
<1> QED
  BY <1>1, <1>2, <1>4, <1>5, <1>6, <1>7, <1>8, <1>9, <1>11, <1>12, <1>13, <1>14, <1>15
  DEF Next, MainStep, CallStep, FlushStep, ClientStep
----------------------------------------------------------------------------
Flushing == {"opening", "queued", "written"}
Busy     == Flushing \cup {"created"}

(* StatsManager._lock: main and the saver do not flush at once.            *)
OneFlush == at[Saver] \in Flushing => at[Main] \notin Flushing

LEMMA OneFlushStep == Base /\ OneFlush /\ [Next]_vars => OneFlush'
<1> SUFFICES ASSUME Base, OneFlush, [Next]_vars
             PROVE  OneFlush'
  OBVIOUS
<1> USE ClientFacts DEF OneFlush, Flushing
<1>1. at \in [Clients -> {"idle", "wanting", "opening", "queued", "written", "created",
                          "counted", "raised", "lost", "over"}]
  BY DEF Base, TypeOK
<1>2. ASSUME \A f \in Flushers : at'[f] \in Flushing => at[f] \in Flushing
      PROVE  OneFlush'
  BY <1>2
<1>3. ASSUME NEW f \in Flushers, FlushOver(f)
      PROVE  OneFlush'
  <2>1. at' = [at EXCEPT ![f] = at'[f]] /\ at'[f] \in {"idle", "over"}
    BY <1>3, FlushOverType DEF Base
  <2> QED
    BY <1>1, <2>1
<1>4. ASSUME NEW f \in Flushers, Flush(f)
      PROVE  OneFlush'
  <2>1. \A g \in Flushers : at[g] \notin Flushing
    BY <1>4 DEF Flush, StatsLocked, In
  <2>2. CASE Enter(f)
    BY <1>1, <2>1, <2>2 DEF Enter, Goto
  <2> QED
    BY <1>3, <1>4, <2>2 DEF Flush
<1>5. ASSUME NEW x \in Clients, Opened(x) \/ Write(x)
      PROVE  OneFlush'
  BY <1>1, <1>5 DEF Opened, Write, Goto
<1>6. ASSUME NEW x \in Clients, OpenRaises(x) \/ Raises(x)
      PROVE  OneFlush'
  BY <1>1, <1>3, <1>6 DEF OpenRaises, Raises, Goto
<1>7. ASSUME NEW c \in Calls, LogEvent(c) \/ CommitInsert(c) \/ Register(c)
      PROVE  OneFlush'
  BY <1>1, <1>7 DEF LogEvent, CommitInsert, Register, Enter, Goto
<1>8. CASE StopTelnet \/ SaverWakes \/ CancelTasks
  BY <1>1, <1>8 DEF StopTelnet, SaverWakes, CancelTasks, Cancelled, Goto
<1>9. CASE UNCHANGED at
  BY <1>9
<1> QED
  BY <1>3, <1>4, <1>5, <1>6, <1>7, <1>8, <1>9
  DEF Next, MainStep, CallStep, FlushStep, ClientStep, Start, StartFails, Listen,
      ListenFails, Signal, StopSsh, CloseDb, DbClosed, LingererEnds, LoopEnds, CommitUpsert,
      vars

(* If no call is under way when the final flush begins and none comes      *)
(* after, main has the connection to itself and the saver, and leaves      *)
(* nothing dirty behind: nobody opens the database again.                  *)
Quiet ==
  late = {} /\ faults = 0 =>
    /\ Stopping => \A c \in Calls : at[c] \notin Busy
    /\ main = "flush" => at[Main] \in {"wanting", "queued", "written"}
    /\ main \in {"close", "closing", "returned"} =>
         /\ ~dirty /\ opened = 1
         /\ \A f \in Flushers : at[f] \notin Flushing
    /\ main = "returned" => threads = 0

LEMMA QuietStep == Base /\ Pending /\ OneFlush /\ Quiet /\ [Next]_vars => Quiet'
<1> SUFFICES ASSUME Base, Pending, OneFlush, Quiet, [Next]_vars, late' = {}, faults' = 0
             PROVE  Quiet'
  BY DEF Quiet
<1> USE ClientFacts DEF stats, database, history, Flushing, Busy
<1>1. /\ faults = 0
      /\ at \in [Clients -> {"idle", "wanting", "opening", "queued", "written", "created",
                             "counted", "raised", "lost", "over"}]
  BY NeverFewerFaults DEF Base, TypeOK
<1>2. CASE Start \/ StartFails \/ Listen \/ ListenFails \/ Signal \/ StopSsh
  BY <1>2 DEF Start, StartFails, Listen, ListenFails, Signal, StopSsh, Quiet, Stopping
<1>3. CASE StopTelnet
  BY <1>1, <1>3 DEF StopTelnet, Goto, In, Quiet
<1>4. CASE CloseDb \/ DbClosed
  BY <1>1, <1>4 DEF CloseDb, DbClosed, Quiet, Stopping, Base, Phases
<1>5. ASSUME NEW c \in Calls, LogEvent(c)
      PROVE  Quiet'
  <2>1. ~Stopping /\ UNCHANGED main
    BY <1>5 DEF LogEvent
  <2> QED
    BY <2>1 DEF Stopping, Quiet
<1>6. ASSUME NEW x \in Clients, at[x] \in Flushing, late = {}
      PROVE  main \notin {"close", "closing", "returned"}
  <2>1. CASE x \in Flushers
    BY <1>1, <1>6, <2>1 DEF Quiet, Base, Phases
  <2>2. CASE x \in Calls
    BY <1>1, <1>6, <2>2 DEF Quiet, Stopping
  <2> QED
    BY <2>1, <2>2
<1>7. ASSUME NEW c \in Calls, at[c] \in Busy, late = {}
      PROVE  ~Stopping
  BY <1>1, <1>7 DEF Quiet
<1>8. ASSUME NEW c \in Calls, at[c] \in Busy, UNCHANGED <<main, late>>
      PROVE  Quiet'
  BY <1>7, <1>8 DEF Quiet, Stopping
<1>9. ASSUME NEW x \in Clients, Opened(x) \/ OpenRaises(x)
      PROVE  Quiet'
  <2>1. at[x] = "opening" /\ UNCHANGED late
    BY <1>9 DEF Opened, OpenRaises
  <2>2. main = "returned"
    BY <2>1 DEF Base, Phases
  <2> QED
    BY <1>6, <2>1, <2>2
<1>10. ASSUME NEW x \in Clients, Write(x)
       PROVE  Quiet'
  <2>1. CASE x \in Calls
    BY <1>8, <1>10, <2>1 DEF Write
  <2>2. CASE x \in Flushers
    <3>1. /\ main \notin {"close", "closing", "returned"}
          /\ at' = [at EXCEPT ![x] = "written"] /\ UNCHANGED <<main, late>>
      BY <1>6, <1>10 DEF Write, Goto
    <3> QED
      BY <1>1, <2>2, <3>1 DEF Quiet, Stopping
  <2> QED
    BY <2>1, <2>2
<1>11. ASSUME NEW f \in Flushers, FlushOver(f), at[f] \in {"wanting", "queued", "written"},
              UNCHANGED <<opened, threads, late>>, ~dirty',
              \A g \in Flushers \ {f} : at[g] \notin Flushing
       PROVE  Quiet'
  <2>1. /\ at' = [at EXCEPT ![f] = at'[f]] /\ at'[f] \in {"idle", "over"}
        /\ f = Main => main' = "close" /\ main = "flush"
        /\ f = Saver => main' = main
    BY <1>11, FlushOverType DEF Base, Phases
  <2>2. CASE f = Main
    BY <1>1, <1>11, <2>1, <2>2 DEF Quiet, Stopping, Base, Phases
  <2>3. CASE f = Saver
    BY <1>1, <1>11, <2>1, <2>3 DEF Quiet, Stopping
  <2> QED
    BY <2>2, <2>3
<1>12. ASSUME NEW f \in Flushers, Flush(f)
       PROVE  Quiet'
  <2>1. \A g \in Flushers : at[g] \notin Flushing
    BY <1>12 DEF Flush, StatsLocked, In
  <2>2. CASE ~dirty /\ FlushOver(f)
    BY <1>11, <1>12, <2>1, <2>2 DEF Flush
  <2>3. CASE dirty /\ Enter(f) /\ UNCHANGED main
    <3>1. main \notin {"close", "closing", "returned"} /\ late = {}
      BY <1>1, <1>12, <2>3 DEF Flush, Quiet
    <3>2. at' = [at EXCEPT ![f] = IF cur = 0 THEN "opening" ELSE "queued"]
      BY <2>3 DEF Enter, Goto
    <3>3. main = "flush" => cur = 1
      BY DEF Base, Phases
    <3> QED
      BY <1>1, <2>3, <3>1, <3>2, <3>3 DEF Quiet, Stopping
  <2> QED
    BY <1>12, <2>2, <2>3 DEF Flush
<1>13. ASSUME NEW f \in Flushers, CommitUpsert(f)
       PROVE  Quiet'
  <2>1. \A g \in Flushers \ {f} : at[g] \notin Flushing
    BY <1>13 DEF CommitUpsert, OneFlush
  <2> QED
    BY <1>11, <1>13, <2>1 DEF CommitUpsert
<1>14. ASSUME NEW f \in Flushers, Raises(f)
       PROVE  Quiet'
  <2>1. /\ main \notin {"close", "closing", "returned"}
        /\ FlushOver(f) /\ UNCHANGED <<late, dirty>> /\ late = {}
    BY <1>6, <1>14 DEF Raises
  <2>2. CASE main = "flush"
    <3>1. cur = 1 /\ writer \in {0, cur}
      BY <2>2 DEF Base, Phases, Pending
    <3>2. ~Fault
      BY <1>1 DEF Fault
    <3> QED
      BY <1>14, <2>2, <3>1, <3>2 DEF Raises, Writable
  <2>3. CASE main # "flush"
    <3>1. f = Saver /\ main' = main
      BY <1>14, <2>1, <2>3, FlushOverType DEF Raises, Base, Phases
    <3> QED
      BY <2>1, <2>3, <3>1 DEF Quiet, Stopping
  <2> QED
    BY <2>2, <2>3
<1>15. ASSUME NEW c \in Calls, Raises(c)
       PROVE  Quiet'
  BY <1>8, <1>15 DEF Raises
<1>16. ASSUME NEW c \in Calls, CommitInsert(c) \/ Register(c)
       PROVE  Quiet'
  BY <1>8, <1>16 DEF CommitInsert, Register
<1>17. CASE SaverWakes
  BY <1>1, <1>17 DEF SaverWakes, Goto, Quiet, Stopping
<1>18. CASE CancelTasks
  <2>1. \A x \in Clients : at'[x] \notin Busy /\ at'[x] \notin Flushing
    BY <1>18 DEF CancelTasks, Cancelled
  <2>2. UNCHANGED <<main, dirty, late>> /\ main \in Ended
    BY <1>18 DEF CancelTasks
  <2>3. CASE main = "returned"
    <3>1. \A x \in Clients : at[x] # "opening"
      BY <1>1, <2>2, <2>3 DEF Quiet, Stopping
    <3>2. Cardinality(In({"opening"})) = 0
      BY <3>1, LeaksType DEF Base
    <3>3. UNCHANGED <<opened, threads>>
      BY <1>18, <3>2 DEF CancelTasks, Base, TypeOK
    <3> QED
      BY <1>1, <2>1, <2>2, <2>3, <3>3 DEF Quiet, Stopping
  <2>4. CASE main # "returned"
    BY <2>2, <2>4 DEF Quiet, Stopping, Ended, Failed
  <2> QED
    BY <2>3, <2>4
<1>19. CASE LingererEnds \/ LoopEnds \/ UNCHANGED vars
  BY <1>1, <1>19 DEF LingererEnds, LoopEnds, vars, Quiet, Stopping
<1> QED
  BY <1>2, <1>3, <1>4, <1>5, <1>9, <1>10, <1>12, <1>13, <1>14, <1>15, <1>16, <1>17, <1>18, <1>19
  DEF Next, MainStep, CallStep, FlushStep, ClientStep
----------------------------------------------------------------------------
Shutdown == Base /\ SeenGrows /\ Pending /\ Summed /\ Rescue /\ OneFlush /\ Quiet

LEMMA ShutdownIsInvariant == Spec => []Shutdown
<1>1. Init => Shutdown
  BY BaseInit DEF Init, Shutdown, SeenGrows, Pending, Summed, Rescue, OneFlush, Quiet,
    Stopping, Flushing
<1>2. Shutdown /\ [Next]_vars => Shutdown'
  BY BaseStep, SeenGrowsStep, PendingStep, SummedStep, RescueStep, OneFlushStep, QuietStep
  DEF Shutdown
<1> QED
  BY <1>1, <1>2, PTL DEF Spec

(* If nothing raised and the database was opened again at most once, what  *)
(* was tallied when main was over is stored when the loop has ended: the   *)
(* saver, cancelled, flushes once more (stats.py:85-87, main.py:54).       *)
THEOREM TallyOutlives == Spec => []TallyOutlivesMain
<1>1. Shutdown => TallyOutlivesMain
  BY DEF Shutdown, Rescue, TallyOutlivesMain
<1> QED
  BY <1>1, ShutdownIsInvariant, PTL

(* A shutdown that nothing disturbs from the final flush on leaves nothing *)
(* out and nothing running (main.py:88-94).                                *)
THEOREM QuietShutdowns == Spec => []QuietShutdownComplete
<1>1. Shutdown => QuietShutdownComplete
  <2> SUFFICES ASSUME Shutdown, main = "returned", late = {}, faults = 0
               PROVE  tally = disk.sum /\ threads = 0
    BY DEF QuietShutdownComplete
  <2>1. opened = 1 /\ ~dirty /\ threads = 0
    BY DEF Shutdown, Quiet
  <2>2. tally \subseteq disk.sum /\ disk.sum \subseteq seen.sum /\ seen.sum \subseteq tally
    BY <2>1 DEF Shutdown, Summed
  <2> QED
    BY <2>1, <2>2
<1> QED
  BY <1>1, ShutdownIsInvariant, PTL
=============================================================================
