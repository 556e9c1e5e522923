------------------------- MODULE TelnetServerProofs -------------------------
(***************************************************************************)
(* Proofs about TelnetServer, for every set of connections and addresses,  *)
(* every limit and every number of faults and cleanups: the limits of a    *)
(* session with the permits of the server, the gauge, and what stands      *)
(* behind a shell and behind being sent away.                              *)
(***************************************************************************)
EXTENDS TelnetServer, FiniteSetTheorems, TLAPS

Places == Served \cup Ended \cup {"new", "accepted"}

(* Before its session ends.                                                *)
Live == {"new", "accepted"} \cup (Running \ {"logScan"})

(* The rounds and the attempts of a connection, by where its handler is.   *)
RoundsInv ==
  \A c \in Conns :
    /\ pc[c] \in Live => rounds[c] < BruteMax
    /\ pc[c] \in {"new", "accepted", "name", "password"} => mine[c] <= rounds[c]
    /\ pc[c] \in {"logAttempt", "logGrant", "sleep", "shell", "logCommand"}
         => mine[c] <= rounds[c] + 1

(* The commands counted and run.                                           *)
CommandsInv ==
  \A c \in Conns :
    /\ executed[c] <= count[c] /\ executed[c] <= MaxCommands
    /\ pc[c] \in Live => count[c] <= MaxCommands
    /\ pc[c] = "logCommand" => executed[c] + 1 <= count[c]

(* A grant was earned; while no address was forgotten, the tally of an     *)
(* address has the attempts of each of its connections, BruteMax attempts  *)
(* are a grant, and who sleeps after a refusal has fewer.                  *)
GrantsEarned == \A ip \in granted : tally[ip] >= BruteMin

AttemptsTold ==
  forgets = 0 =>
    /\ \A c \in Conns : mine[c] <= tally[IpOf[c]]
    /\ \A ip \in IPs : tally[ip] >= BruteMax => ip \in granted
    /\ \A c \in Conns : pc[c] = "sleep" => mine[c] < BruteMax

ServerInv ==
  /\ TypeOK /\ PermitsConserved /\ RoundsInv /\ CommandsInv /\ GaugeExact
  /\ GrantsEarned /\ AttemptsTold
----------------------------------------------------------------------------
LEMMA PlacesType ==
  /\ Running \subseteq Served /\ Served \subseteq Places /\ Live \subseteq Places
  /\ "closing" \in Served /\ "closing" \notin Running
  /\ Reading \subseteq Running /\ Logging \subseteq Running /\ "sleep" \in Running
  /\ Ended \subseteq Places /\ Ended \cap Served = {}
  /\ "new" \notin Served /\ "accepted" \notin Served
  BY DEF Running, Served, Ended, Places, Live, Reading, Logging

(* Where run goes when it ends.                                            *)
Ending == {"logScan", "closing", "over", "broken"}

LEMMA EndRunPlace ==
  ASSUME NEW c \in Conns, EndRun(c)
  PROVE  \E p \in Ending : pc' = [pc EXCEPT ![c] = p]
  BY DEF EndRun, FinishRun, Goto, Ending

(* The places the gauge counts.                                            *)
Gauged == Running \cup {"broken"}

(* How the handler of a connection moves between the groups of places that *)
(* the permits and the gauge count.                                        *)
Stays(c, p) ==
  /\ p \in Served <=> pc[c] \in Served
  /\ p \in Gauged <=> pc[c] \in Gauged
  /\ UNCHANGED <<value, gauge>>

Enters(c, p) ==
  /\ pc[c] = "accepted" /\ p = "name" /\ value > 0
  /\ value' = value - 1 /\ gauge' = gauge + 1

Leaves(c, p) ==
  /\ pc[c] \in Running /\ gauge' = gauge - 1
  /\ \/ p = "closing" /\ value' = value
     \/ p = "over" /\ value' = value + 1

Frees(c, p) ==
  /\ \/ pc[c] = "closing" /\ p = "over"
     \/ pc[c] = "logScan" /\ p = "broken"
  /\ value' = value + 1 /\ gauge' = gauge

Moves(c, p) ==
  /\ pc' = [pc EXCEPT ![c] = p]
  /\ Stays(c, p) \/ Enters(c, p) \/ Leaves(c, p) \/ Frees(c, p)

Flow == UNCHANGED <<pc, value, gauge>> \/ \E c \in Conns, p \in Places : Moves(c, p)

LEMMA FinishRunFlows ==
  ASSUME NEW c \in Conns, pc[c] \in Running, FinishRun(c)
  PROVE  Flow
<1>1. \E p \in {"closing", "over"} : Moves(c, p)
  BY DEF FinishRun, Goto, Moves, Leaves
<1> QED
  BY <1>1, PlacesType DEF Flow, Places, Ended

LEMMA EndRunFlows ==
  ASSUME NEW c \in Conns, pc[c] \in Running, EndRun(c)
  PROVE  Flow
<1>1. CASE Goto(c, "logScan") /\ UNCHANGED socket
  <2>1. Moves(c, "logScan")
    BY <1>1, PlacesType DEF Goto, Moves, Stays, Gauged, socket, Logging
  <2> QED
    BY <2>1, PlacesType DEF Flow, Logging
<1> QED
  BY <1>1, FinishRunFlows DEF EndRun

LEMMA StaysFlows ==
  ASSUME NEW c \in Conns, NEW p \in Running, pc[c] \in Running,
         pc' = [pc EXCEPT ![c] = p], UNCHANGED socket
  PROVE  Flow
<1>1. Moves(c, p)
  BY PlacesType DEF Moves, Stays, Gauged, socket
<1> QED
  BY <1>1, PlacesType DEF Flow

LEMMA NextRoundFlows ==
  ASSUME NEW c \in Conns, pc[c] \in Running, NextRound(c)
  PROVE  Flow
<1>1. "name" \in Running
  BY DEF Running, Reading
<1> QED
  BY <1>1, EndRunFlows, StaysFlows DEF NextRound, Goto

LEMMA StepFlows == TypeOK /\ [Next]_vars => Flow
<1> SUFFICES ASSUME TypeOK, [Next]_vars
             PROVE  Flow
  OBVIOUS
<1>0. /\ Running = {"name", "password", "shell", "logAttempt", "logGrant", "logCommand",
                    "logScan", "sleep"}
      /\ Reading = {"name", "password", "shell"}
      /\ Served = Running \cup {"closing"}
      /\ Places = Served \cup {"new", "accepted", "over", "broken"}
      /\ Gauged = Running \cup {"broken"}
  BY DEF Running, Reading, Logging, Served, Ended, Places, Gauged
<1> HIDE DEF Running, Reading, Served, Places, Gauged
<1>1. ASSUME NEW c \in Conns, NEW p \in {"accepted", "over"},
             pc[c] \in {"new", "accepted"}, pc' = [pc EXCEPT ![c] = p], UNCHANGED <<value, gauge>>
      PROVE  Flow
  <2>1. Moves(c, p)
    BY <1>0, <1>1 DEF Moves, Stays
  <2> QED
    BY <1>0, <2>1 DEF Flow
<1>2. ASSUME NEW c \in Conns, Accept(c) \/ Refuse(c) \/ GiveUp(c)
      PROVE  Flow
  BY <1>1, <1>2 DEF Accept, Refuse, GiveUp, Goto, socket
<1>3. ASSUME NEW c \in Conns, Admit(c)
      PROVE  Flow
  <2>1. Moves(c, "name")
    BY <1>3 DEF Admit, Goto, Moves, Enters
  <2> QED
    BY <1>0, <2>1 DEF Flow
<1>4. ASSUME NEW c \in Conns, \/ ReadName(c) \/ ReadPassword(c)
                              \/ AttemptLogged(c) \/ GrantLogged(c)
      PROVE  Flow
  <2>1. pc[c] \in Running /\ UNCHANGED socket
    BY <1>0, <1>4 DEF ReadName, ReadPassword, Reads, AttemptLogged, GrantLogged
  <2>2. \E p \in Running : pc' = [pc EXCEPT ![c] = p]
    BY <1>0, <1>4 DEF ReadName, ReadPassword, AttemptLogged, GrantLogged, EnterOrSleep, Goto
  <2> QED
    BY <2>1, <2>2, StaysFlows
<1>5. ASSUME NEW c \in Conns, BlankName(c) \/ SleepEnds(c)
      PROVE  Flow
  BY <1>0, <1>5, NextRoundFlows DEF BlankName, SleepEnds, Reads
<1>6. ASSUME NEW c \in Conns, ReadCommand(c) \/ CommandLogged(c)
      PROVE  Flow
  <2>1. pc[c] \in Running
    BY <1>0, <1>6 DEF ReadCommand, CommandLogged, Reads
  <2>2. EndRun(c) \/ (UNCHANGED socket /\ \E p \in Running : pc' = [pc EXCEPT ![c] = p])
    BY <1>0, <1>6 DEF ReadCommand, CommandLogged, Goto
  <2> QED
    BY <2>1, <2>2, EndRunFlows, StaysFlows
<1>7. ASSUME NEW c \in Conns, ReadEnds(c) \/ LogRaises(c)
      PROVE  Flow
  <2>1. pc[c] \in Running /\ EndRun(c)
    BY <1>0, <1>7 DEF ReadEnds, LogRaises
  <2> QED
    BY <2>1, EndRunFlows
<1>8. ASSUME NEW c \in Conns, ScanLogged(c)
      PROVE  Flow
  BY <1>0, <1>8, FinishRunFlows DEF ScanLogged
<1>9. ASSUME NEW c \in Conns, ScanLogRaises(c) \/ CloseReturns(c)
      PROVE  Flow
  <2>1. \E p \in {"over", "broken"} : Moves(c, p)
    BY <1>9 DEF ScanLogRaises, CloseReturns, Goto, Moves, Frees
  <2> QED
    BY <1>0, <2>1 DEF Flow
<1>10. ASSUME NEW c \in Conns, PeerStops(c) \/ WatchdogFires(c) \/ SocketCloses(c)
       PROVE  Flow
  BY <1>10 DEF PeerStops, WatchdogFires, SocketCloses, Flow, socket
<1>11. ASSUME NEW ip \in IPs, Cleanup(ip)
       PROVE  Flow
  BY <1>11 DEF Cleanup, Flow, socket
<1>12. CASE Stop \/ UNCHANGED vars
  BY <1>12 DEF Stop, Flow, vars, socket
<1> QED
  BY <1>2, <1>3, <1>4, <1>5, <1>6, <1>7, <1>8, <1>9, <1>10, <1>11, <1>12
  DEF Next, ServerStep, ClientStep
----------------------------------------------------------------------------
(* A connection that moves joins, leaves or neither.                       *)
LEMMA InFinite ==
  ASSUME NEW S
  PROVE  IsFiniteSet(In(S)) /\ Cardinality(In(S)) \in Nat
  BY FS_Subset, FS_CardinalityType, ConstantsAssumption DEF In, ConstantsAssumption

LEMMA InMoves ==
  ASSUME NEW S, NEW X, pc \in [Conns -> X], NEW c \in Conns, NEW p,
         pc' = [pc EXCEPT ![c] = p]
  PROVE  /\ (p \in S <=> pc[c] \in S) => Cardinality(In(S))' = Cardinality(In(S))
         /\ p \in S /\ pc[c] \notin S => Cardinality(In(S))' = Cardinality(In(S)) + 1
         /\ p \notin S /\ pc[c] \in S => Cardinality(In(S))' = Cardinality(In(S)) - 1
<1>1. (p \in S <=> pc[c] \in S) => In(S)' = In(S)
  BY DEF In
<1>2. p \in S /\ pc[c] \notin S => In(S)' = In(S) \cup {c} /\ c \notin In(S)
  BY DEF In
<1>3. p \notin S /\ pc[c] \in S => In(S)' = In(S) \ {c} /\ c \in In(S)
  BY DEF In
<1> QED
  BY <1>1, <1>2, <1>3, InFinite, FS_AddElement, FS_RemoveElement

LEMMA PermitsStep ==
  ASSUME TypeOK, PermitsConserved, GaugeExact, Flow
  PROVE  /\ PermitsConserved' /\ GaugeExact'
         /\ value' \in 0..MaxSessions /\ gauge' \in Nat
<1> DEFINE served == Cardinality(In(Served))
           gauged == Cardinality(In(Gauged))
<1>0. /\ pc \in [Conns -> Places] /\ value \in Nat /\ gauge \in Nat /\ MaxSessions \in Nat
      /\ served \in Nat /\ gauged \in Nat /\ served' \in Nat /\ gauged' \in Nat
      /\ value + served = MaxSessions /\ gauge = gauged
  <2>1. served' \in Nat /\ gauged' \in Nat
    <3>1. IsFiniteSet(In(Served)') /\ IsFiniteSet(In(Gauged)')
      BY FS_Subset, ConstantsAssumption DEF In, ConstantsAssumption
    <3> QED
      BY <3>1, FS_CardinalityType
  <2> QED
    BY <2>1, InFinite, ConstantsAssumption
    DEF TypeOK, Places, PermitsConserved, GaugeExact, Gauged, ConstantsAssumption
<1>1. ASSUME value' + served' = MaxSessions, gauge' = gauged', value' \in Nat
      PROVE  /\ PermitsConserved' /\ GaugeExact'
             /\ value' \in 0..MaxSessions /\ gauge' \in Nat
  <2>1. PermitsConserved' /\ GaugeExact'
    BY <1>1 DEF PermitsConserved, GaugeExact, Gauged
  <2>2. value' \in 0..MaxSessions /\ gauge' \in Nat
    BY <1>0, <1>1
  <2> QED
    BY <2>1, <2>2
<1>2. CASE UNCHANGED <<pc, value, gauge>>
  <2>1. In(Served)' = In(Served) /\ In(Gauged)' = In(Gauged)
    BY <1>2 DEF In
  <2>2. served' = served /\ gauged' = gauged
    BY <2>1
  <2>3. value' + served' = MaxSessions /\ gauge' = gauged' /\ value' \in Nat
    BY <1>0, <1>2, <2>2
  <2> QED
    BY <1>1, <2>3
<1>3. ASSUME NEW c \in Conns, NEW p \in Places, Moves(c, p)
      PROVE  value' + served' = MaxSessions /\ gauge' = gauged' /\ value' \in Nat
  <2>0. pc' = [pc EXCEPT ![c] = p]
    BY <1>3 DEF Moves
  <2>1. /\ (p \in Served <=> pc[c] \in Served) => served' = served
        /\ p \in Served /\ pc[c] \notin Served => served' = served + 1
        /\ p \notin Served /\ pc[c] \in Served => served' = served - 1
    BY <1>0, <2>0, InMoves
  <2>2. /\ (p \in Gauged <=> pc[c] \in Gauged) => gauged' = gauged
        /\ p \in Gauged /\ pc[c] \notin Gauged => gauged' = gauged + 1
        /\ p \notin Gauged /\ pc[c] \in Gauged => gauged' = gauged - 1
    BY <1>0, <2>0, InMoves
  <2>3. CASE Stays(c, p)
    BY <1>0, <2>1, <2>2, <2>3 DEF Stays
  <2>4. CASE Enters(c, p)
    <3>1. served' = served + 1 /\ gauged' = gauged + 1
      BY <2>1, <2>2, <2>4 DEF Enters, Served, Gauged, Running, Reading, Logging
    <3> QED
      BY <1>0, <2>4, <3>1 DEF Enters
  <2>5. CASE Leaves(c, p)
    <3>1. gauged' = gauged - 1
          /\ (p = "closing" => served' = served) /\ (p = "over" => served' = served - 1)
      BY <2>1, <2>2, <2>5 DEF Leaves, Served, Gauged, Running, Reading, Logging
    <3> QED
      BY <1>0, <2>5, <3>1 DEF Leaves
  <2>6. CASE Frees(c, p)
    <3>1. served' = served - 1 /\ gauged' = gauged
      BY <2>1, <2>2, <2>6 DEF Frees, Served, Gauged, Running, Reading, Logging
    <3> QED
      BY <1>0, <2>6, <3>1 DEF Frees
  <2> QED
    BY <1>3, <2>3, <2>4, <2>5, <2>6 DEF Moves
<1> QED
  BY <1>1, <1>2, <1>3 DEF Flow
----------------------------------------------------------------------------
(* The end of run: only the place, the writer and the watchdog change.     *)
LEMMA EndRunType ==
  ASSUME TypeOK, NEW c \in Conns, EndRun(c)
  PROVE  /\ pc' \in [Conns -> Served \cup Ended \cup {"new", "accepted"}]
         /\ sock' \in [Conns -> {"none", "open", "closing", "closed"}]
         /\ armed' \subseteq Conns
<1>1. pc' \in [Conns -> Served \cup Ended \cup {"new", "accepted"}]
  <2>1. Ending \subseteq Served \cup Ended \cup {"new", "accepted"}
    BY DEF Ending, Served, Ended, Running, Logging
  <2> QED
    BY <2>1, EndRunPlace DEF TypeOK
<1>2. CASE Goto(c, "logScan") /\ UNCHANGED socket
  BY <1>1, <1>2 DEF TypeOK, socket
<1>3. CASE FinishRun(c)
  BY <1>1, <1>3 DEF TypeOK, FinishRun, CloseSocket
<1> QED
  BY <1>2, <1>3 DEF EndRun

LEMMA NextRoundType ==
  ASSUME TypeOK, NEW c \in Conns, NextRound(c), rounds[c] < BruteMax
  PROVE  /\ pc' \in [Conns -> Served \cup Ended \cup {"new", "accepted"}]
         /\ sock' \in [Conns -> {"none", "open", "closing", "closed"}]
         /\ armed' \subseteq Conns
         /\ rounds' \in [Conns -> 0..BruteMax]
<1>1. rounds' \in [Conns -> 0..BruteMax]
  BY ConstantsAssumption DEF NextRound, TypeOK, ConstantsAssumption
<1>2. "name" \in Served
  BY DEF Served, Running, Reading
<1> QED
  BY <1>1, <1>2, EndRunType DEF NextRound, Goto, TypeOK, socket

(* Every step keeps the types; the permits and the gauge come from Flow.   *)
LEMMA TypeStep ==
  ASSUME TypeOK, RoundsInv, CommandsInv, [Next]_vars,
         value' \in 0..MaxSessions, gauge' \in Nat
  PROVE  TypeOK'
<1> DEFINE Where == Served \cup Ended \cup {"new", "accepted"}
           Sock == {"none", "open", "closing", "closed"}
<1>0. /\ Where = {"name", "password", "shell", "logAttempt", "logGrant", "logCommand",
                  "logScan", "sleep", "closing", "new", "accepted", "over", "broken"}
      /\ pc \in [Conns -> Where] /\ sock \in [Conns -> Sock]
  BY DEF Served, Ended, Running, Reading, Logging, TypeOK
<1>1. ASSUME pc' \in [Conns -> Where], sock' \in [Conns -> Sock], armed' \subseteq Conns,
             UNCHANGED <<peer, login, shell, book, listening, stopped, forgets>>,
             faults' \in 0..MaxFaults
      PROVE  TypeOK'
  BY <1>1 DEF TypeOK, login, shell, book
<1>2. ASSUME NEW c \in Conns, Accept(c) \/ Refuse(c) \/ GiveUp(c) \/ Admit(c)
      PROVE  TypeOK'
  <2>1. pc' \in [Conns -> Where]
    BY <1>0, <1>2 DEF Accept, Refuse, GiveUp, Admit, Goto
  <2>2. sock' \in [Conns -> Sock] /\ armed' \subseteq Conns
    BY <1>0, <1>2 DEF Accept, Refuse, GiveUp, Admit, CloseSocket, socket, TypeOK
  <2> QED
    BY <1>1, <1>2, <2>1, <2>2 DEF Accept, Refuse, GiveUp, Admit, TypeOK
<1>3. ASSUME NEW c \in Conns, ReadName(c)
      PROVE  TypeOK'
  <2>1. pc' \in [Conns -> Where] /\ named' \subseteq Conns
    BY <1>0, <1>3 DEF ReadName, Goto, TypeOK
  <2> QED
    BY <1>3, <2>1 DEF ReadName, TypeOK, socket, shell, book
<1>4. ASSUME NEW c \in Conns, BlankName(c) \/ SleepEnds(c)
      PROVE  TypeOK'
  <2>1. NextRound(c) /\ rounds[c] < BruteMax
    BY <1>4 DEF BlankName, SleepEnds, Reads, RoundsInv, Live, Running, Reading
  <2>2. /\ pc' \in [Conns -> Where] /\ sock' \in [Conns -> Sock] /\ armed' \subseteq Conns
        /\ rounds' \in [Conns -> 0..BruteMax]
    BY <2>1, NextRoundType
  <2> QED
    BY <1>4, <2>2 DEF BlankName, SleepEnds, TypeOK, shell, book
<1>5. ASSUME NEW c \in Conns, ReadPassword(c)
      PROVE  TypeOK'
  <2>0. IpOf[c] \in IPs
    BY ConstantsAssumption DEF ConstantsAssumption
  <2>1. pc' \in [Conns -> Where]
    BY <1>0, <1>5 DEF ReadPassword, Goto
  <2>2. tally' \in [IPs -> Nat] /\ granted' \subseteq IPs
    BY <1>5, <2>0 DEF ReadPassword, Book!Attempt, TypeOK
  <2>3. mine[c] <= rounds[c] /\ rounds[c] < BruteMax
    BY <1>5 DEF ReadPassword, Reads, RoundsInv, Live, Running, Reading
  <2>4. mine' \in [Conns -> 0..BruteMax]
    BY <1>5, <2>3, ConstantsAssumption DEF ReadPassword, TypeOK, ConstantsAssumption
  <2>5. won' \in [Conns -> BOOLEAN]
    BY <1>5 DEF ReadPassword, TypeOK
  <2> QED
    BY <1>5, <2>1, <2>2, <2>4, <2>5 DEF ReadPassword, TypeOK, socket, shell
<1>6. ASSUME NEW c \in Conns, AttemptLogged(c) \/ GrantLogged(c)
      PROVE  TypeOK'
  <2>1. pc' \in [Conns -> Where]
    BY <1>0, <1>6 DEF AttemptLogged, GrantLogged, EnterOrSleep, Goto
  <2> QED
    BY <1>0, <1>1, <1>6, <2>1 DEF AttemptLogged, GrantLogged, TypeOK, socket
<1>7. ASSUME NEW c \in Conns, ReadCommand(c)
      PROVE  TypeOK'
  <2>1. count[c] <= MaxCommands
    BY <1>7 DEF ReadCommand, Reads, CommandsInv, Live, Running, Reading
  <2>2. count' \in [Conns -> 0..(MaxCommands + 1)]
    BY <1>7, <2>1, ConstantsAssumption DEF ReadCommand, TypeOK, ConstantsAssumption
  <2>3. pc' \in [Conns -> Where] /\ sock' \in [Conns -> Sock] /\ armed' \subseteq Conns
    <3>1. CASE EndRun(c)
      BY <3>1, EndRunType
    <3>2. CASE Goto(c, "logCommand") /\ UNCHANGED socket
      BY <1>0, <3>2 DEF Goto, socket, TypeOK
    <3> QED
      BY <1>7, <3>1, <3>2 DEF ReadCommand
  <2> QED
    BY <1>7, <2>2, <2>3 DEF ReadCommand, TypeOK, login, book
<1>8. ASSUME NEW c \in Conns, CommandLogged(c)
      PROVE  TypeOK'
  <2>1. executed' \in [Conns -> Nat]
    BY <1>8 DEF CommandLogged, TypeOK
  <2>2. pc' \in [Conns -> Where] /\ sock' \in [Conns -> Sock] /\ armed' \subseteq Conns
    <3>1. CASE EndRun(c)
      BY <3>1, EndRunType
    <3>2. CASE Goto(c, "shell") /\ UNCHANGED socket
      BY <1>0, <3>2 DEF Goto, socket, TypeOK
    <3> QED
      BY <1>8, <3>1, <3>2 DEF CommandLogged
  <2> QED
    BY <1>8, <2>1, <2>2 DEF CommandLogged, TypeOK, login, book
<1>9. ASSUME NEW c \in Conns, ReadEnds(c) \/ LogRaises(c)
      PROVE  TypeOK'
  <2>1. pc' \in [Conns -> Where] /\ sock' \in [Conns -> Sock] /\ armed' \subseteq Conns
    BY <1>9, EndRunType DEF ReadEnds, LogRaises
  <2>2. faults' \in 0..MaxFaults
    BY <1>9, ConstantsAssumption DEF ReadEnds, LogRaises, Fault, TypeOK, ConstantsAssumption
  <2> QED
    BY <1>1, <1>9, <2>1, <2>2 DEF ReadEnds, LogRaises
<1>10. ASSUME NEW c \in Conns, ScanLogged(c)
       PROVE  TypeOK'
  <2>1. pc' \in [Conns -> Where] /\ sock' \in [Conns -> Sock] /\ armed' \subseteq Conns
    BY <1>10, EndRunType DEF ScanLogged, EndRun
  <2> QED
    BY <1>1, <1>10, <2>1 DEF ScanLogged, TypeOK
<1>11. ASSUME NEW c \in Conns, ScanLogRaises(c) \/ CloseReturns(c)
       PROVE  TypeOK'
  <2>1. pc' \in [Conns -> Where]
    BY <1>0, <1>11 DEF ScanLogRaises, CloseReturns, Goto
  <2>2. faults' \in 0..MaxFaults
    BY <1>11, ConstantsAssumption DEF ScanLogRaises, CloseReturns, Fault, TypeOK, ConstantsAssumption
  <2> QED
    BY <1>0, <1>1, <1>11, <2>1, <2>2 DEF ScanLogRaises, CloseReturns, TypeOK
<1>12. ASSUME NEW c \in Conns, WatchdogFires(c) \/ SocketCloses(c)
       PROVE  TypeOK'
  <2>1. sock' \in [Conns -> Sock] /\ armed' \subseteq Conns
    BY <1>0, <1>12 DEF WatchdogFires, SocketCloses, CloseSocket, TypeOK
  <2> QED
    BY <1>0, <1>1, <1>12, <2>1 DEF WatchdogFires, SocketCloses, TypeOK
<1>13. ASSUME NEW c \in Conns, PeerStops(c)
       PROVE  TypeOK'
  BY <1>13 DEF PeerStops, TypeOK, socket, login, shell, book
<1>14. ASSUME NEW ip \in IPs, Cleanup(ip)
       PROVE  TypeOK'
  <2>1. tally' \in [IPs -> Nat] /\ granted' \subseteq IPs /\ forgets' \in 0..MaxForgets
    BY <1>14, ConstantsAssumption DEF Cleanup, Book!Forget, TypeOK, ConstantsAssumption
  <2> QED
    BY <1>14, <2>1 DEF Cleanup, TypeOK, socket, login, shell
<1>15. CASE Stop
  <2>1. sock' \in [Conns -> Sock]
    BY <1>0, <1>15 DEF Stop
  <2>2. stopped' \subseteq Conns
    BY <1>15 DEF Stop, In
  <2> QED
    BY <1>15, <2>1, <2>2 DEF Stop, TypeOK, login, shell, book
<1>16. CASE UNCHANGED vars
  BY <1>16 DEF vars, socket, login, shell, book, TypeOK
<1> QED
  BY <1>2, <1>3, <1>4, <1>5, <1>6, <1>7, <1>8, <1>9, <1>10, <1>11, <1>12, <1>13,
     <1>14, <1>15, <1>16
  DEF Next, ServerStep, ClientStep
----------------------------------------------------------------------------
(* A step of a session is one of these.                                    *)
(*   Quits:   run ends, or the connection never gets that far.             *)
(*   Rounds:  another round of the login, from the name or the sleep.      *)
(*   Tries:   a password, for the AuthManager.                             *)
(*   Sleeps, Enters a shell: after the attempt is logged.                  *)
(*   Counts and Runs a command.                                            *)
Keep == UNCHANGED <<rounds, mine, count, executed, tally, granted, forgets>>

Quits(c) == Keep /\ pc[c] # "sleep" /\ \E p \in Ending : pc' = [pc EXCEPT ![c] = p]

Advances(c) ==
  /\ Keep
  /\ \/ pc[c] = "new" /\ pc' = [pc EXCEPT ![c] = "accepted"]
     \/ pc[c] = "accepted" /\ pc' = [pc EXCEPT ![c] = "name"]
     \/ pc[c] = "name" /\ pc' = [pc EXCEPT ![c] = "password"]
     \/ pc[c] = "logAttempt" /\ pc' = [pc EXCEPT ![c] = "logGrant"]

Decides(c) ==
  /\ Keep
  /\ pc[c] \in {"logAttempt", "logGrant"}
  /\ \/ IpOf[c] \in granted /\ pc' = [pc EXCEPT ![c] = "shell"]
     \/ IpOf[c] \notin granted /\ pc' = [pc EXCEPT ![c] = "sleep"]

Rounds(c) ==
  /\ pc[c] \in {"name", "sleep"}
  /\ rounds' = [rounds EXCEPT ![c] = @ + 1]
  /\ UNCHANGED <<mine, count, executed, tally, granted, forgets>>
  /\ \/ rounds[c] + 1 = BruteMax /\ \E p \in Ending : pc' = [pc EXCEPT ![c] = p]
     \/ rounds[c] + 1 # BruteMax /\ pc' = [pc EXCEPT ![c] = "name"]

Tries(c) ==
  /\ pc[c] = "password" /\ pc' = [pc EXCEPT ![c] = "logAttempt"]
  /\ Book!Attempt(IpOf[c])
  /\ mine' = [mine EXCEPT ![c] = @ + 1]
  /\ UNCHANGED <<rounds, count, executed, forgets>>

Counts(c) ==
  /\ pc[c] = "shell"
  /\ count' = [count EXCEPT ![c] = @ + 1]
  /\ UNCHANGED <<rounds, mine, executed, tally, granted, forgets>>
  /\ \/ \E p \in Ending : pc' = [pc EXCEPT ![c] = p]
     \/ count[c] + 1 <= MaxCommands /\ pc' = [pc EXCEPT ![c] = "logCommand"]

Runs(c) ==
  /\ pc[c] = "logCommand"
  /\ executed' = [executed EXCEPT ![c] = @ + 1]
  /\ UNCHANGED <<rounds, mine, count, tally, granted, forgets>>
  /\ \E p \in Ending \cup {"shell"} : pc' = [pc EXCEPT ![c] = p]

Forgets ==
  /\ forgets' = forgets + 1
  /\ \E ip \in IPs : Book!Forget({ip})
  /\ UNCHANGED <<pc, rounds, mine, count, executed>>

SessionStep(c) ==
  \/ Quits(c) \/ Advances(c) \/ Decides(c) \/ Rounds(c) \/ Tries(c) \/ Counts(c) \/ Runs(c)

Sessions == (Keep /\ pc' = pc) \/ Forgets \/ \E c \in Conns : SessionStep(c)

LEMMA StepSessions == TypeOK /\ [Next]_vars => Sessions
<1> SUFFICES ASSUME TypeOK, [Next]_vars
             PROVE  Sessions
  OBVIOUS
<1> USE DEF login, shell, book
<1>1. ASSUME NEW c \in Conns, Accept(c) \/ Admit(c) \/ ReadName(c)
      PROVE  Advances(c)
  BY <1>1 DEF Accept, Admit, ReadName, Reads, Goto, Advances, Keep
<1>2. ASSUME NEW c \in Conns, Refuse(c) \/ GiveUp(c) \/ ScanLogRaises(c) \/ CloseReturns(c)
      PROVE  Quits(c)
  BY <1>2 DEF Refuse, GiveUp, ScanLogRaises, CloseReturns, Goto, Quits, Keep, Ending
<1>3. ASSUME NEW c \in Conns, ReadEnds(c) \/ LogRaises(c) \/ ScanLogged(c)
      PROVE  Quits(c)
  <2>1. EndRun(c) /\ Keep /\ pc[c] # "sleep"
    BY <1>3 DEF ReadEnds, LogRaises, ScanLogged, EndRun, Keep, Reading
  <2> QED
    BY <2>1, EndRunPlace DEF Quits
<1>4. ASSUME NEW c \in Conns, BlankName(c) \/ SleepEnds(c)
      PROVE  Rounds(c)
  <2>1. /\ pc[c] \in {"name", "sleep"} /\ NextRound(c)
        /\ UNCHANGED <<mine, count, executed, tally, granted, forgets>>
    BY <1>4 DEF BlankName, SleepEnds, Reads
  <2>2. rounds' = [rounds EXCEPT ![c] = @ + 1]
    BY <2>1 DEF NextRound
  <2>3. CASE rounds[c] + 1 = BruteMax
    <3>1. EndRun(c)
      BY <2>1, <2>3 DEF NextRound, LastRound
    <3> QED
      BY <2>1, <2>2, <2>3, <3>1, EndRunPlace DEF Rounds
  <2>4. CASE rounds[c] + 1 # BruteMax
    BY <2>1, <2>2, <2>4 DEF NextRound, LastRound, Goto, Rounds
  <2> QED
    BY <2>3, <2>4
<1>5. ASSUME NEW c \in Conns, ReadPassword(c)
      PROVE  Tries(c)
  BY <1>5 DEF ReadPassword, Reads, Goto, Tries
<1>6. ASSUME NEW c \in Conns, AttemptLogged(c) \/ GrantLogged(c)
      PROVE  Advances(c) \/ Decides(c)
  BY <1>6 DEF AttemptLogged, GrantLogged, EnterOrSleep, GrantedNow, Goto, Advances, Decides, Keep
<1>7. ASSUME NEW c \in Conns, ReadCommand(c)
      PROVE  Counts(c)
  <2>1. /\ pc[c] = "shell" /\ count' = [count EXCEPT ![c] = @ + 1]
        /\ UNCHANGED <<rounds, mine, executed, tally, granted, forgets>>
    BY <1>7 DEF ReadCommand, Reads
  <2>2. EndRun(c) \/ (~OverLimit(c) /\ pc' = [pc EXCEPT ![c] = "logCommand"])
    BY <1>7 DEF ReadCommand, Goto
  <2>3. CASE EndRun(c)
    BY <2>1, <2>3, EndRunPlace DEF Counts
  <2>4. CASE ~OverLimit(c) /\ pc' = [pc EXCEPT ![c] = "logCommand"]
    <3>1. count[c] + 1 <= MaxCommands
      BY <2>4, ConstantsAssumption DEF OverLimit, TypeOK, ConstantsAssumption
    <3> QED
      BY <2>1, <2>4, <3>1 DEF Counts
  <2> QED
    BY <2>2, <2>3, <2>4
<1>8. ASSUME NEW c \in Conns, CommandLogged(c)
      PROVE  Runs(c)
  <2>1. /\ pc[c] = "logCommand" /\ executed' = [executed EXCEPT ![c] = @ + 1]
        /\ UNCHANGED <<rounds, mine, count, tally, granted, forgets>>
    BY <1>8 DEF CommandLogged
  <2>2. EndRun(c) \/ pc' = [pc EXCEPT ![c] = "shell"]
    BY <1>8 DEF CommandLogged, Goto
  <2> QED
    BY <2>1, <2>2, EndRunPlace DEF Runs
<1>9. ASSUME NEW c \in Conns, PeerStops(c) \/ WatchdogFires(c) \/ SocketCloses(c)
      PROVE  Keep /\ pc' = pc
  BY <1>9 DEF PeerStops, WatchdogFires, SocketCloses, Keep
<1>10. ASSUME NEW ip \in IPs, Cleanup(ip)
       PROVE  Forgets
  BY <1>10 DEF Cleanup, Forgets
<1>11. CASE Stop \/ UNCHANGED vars
  BY <1>11 DEF Stop, vars, Keep, Sessions
<1>12. ASSUME NEW c \in Conns,
              ServerStep(c) \/ ClientStep(c) \/ WatchdogFires(c) \/ SocketCloses(c)
       PROVE  SessionStep(c) \/ (Keep /\ pc' = pc)
  <2>1. ServerStep(c) => SessionStep(c)
    BY <1>1, <1>2, <1>3, <1>4, <1>6, <1>8 DEF ServerStep, SessionStep
  <2>2. ClientStep(c) => SessionStep(c) \/ (Keep /\ pc' = pc)
    BY <1>1, <1>4, <1>5, <1>7, <1>9 DEF ClientStep, SessionStep
  <2> QED
    BY <1>9, <1>12, <2>1, <2>2
<1> QED
  BY <1>10, <1>11, <1>12 DEF Next, Sessions

LEMMA EndingNotLive == Ending \cap Live = {} /\ "shell" \notin Ending
  BY DEF Ending, Live, Running, Reading, Logging

LEMMA RoundsStep ==
  ASSUME TypeOK, RoundsInv, Sessions
  PROVE  RoundsInv'
<1> SUFFICES ASSUME NEW x \in Conns
             PROVE  /\ pc'[x] \in Live => rounds'[x] < BruteMax
                    /\ pc'[x] \in {"new", "accepted", "name", "password"}
                         => mine'[x] <= rounds'[x]
                    /\ pc'[x] \in {"logAttempt", "logGrant", "sleep", "shell", "logCommand"}
                         => mine'[x] <= rounds'[x] + 1
  BY DEF RoundsInv
<1>0. /\ pc \in [Conns -> Served \cup Ended \cup {"new", "accepted"}]
      /\ rounds \in [Conns -> 0..BruteMax] /\ mine \in [Conns -> 0..BruteMax]
      /\ BruteMax \in Nat \ {0}
      /\ Live = {"new", "accepted", "name", "password", "shell", "logAttempt", "logGrant",
                 "logCommand", "sleep"}
      /\ Ending = {"logScan", "closing", "over", "broken"}
      /\ rounds[x] \in Nat /\ mine[x] \in Nat
  BY ConstantsAssumption
  DEF TypeOK, ConstantsAssumption, Live, Running, Reading, Logging, Ending, Ended
<1>1. /\ pc[x] \in Live => rounds[x] < BruteMax
      /\ pc[x] \in {"new", "accepted", "name", "password"} => mine[x] <= rounds[x]
      /\ pc[x] \in {"logAttempt", "logGrant", "sleep", "shell", "logCommand"}
           => mine[x] <= rounds[x] + 1
  BY DEF RoundsInv
<1>2. CASE (Keep /\ pc' = pc) \/ Forgets
  BY <1>1, <1>2 DEF Keep, Forgets
<1>3. ASSUME NEW c \in Conns, c # x, SessionStep(c)
      PROVE  pc'[x] = pc[x] /\ rounds'[x] = rounds[x] /\ mine'[x] = mine[x]
  BY <1>0, <1>3
  DEF SessionStep, Quits, Advances, Decides, Rounds, Tries, Counts, Runs, Keep
<1>4. CASE Quits(x)
  BY <1>0, <1>4 DEF Quits, Keep
<1>5. CASE Advances(x) \/ Decides(x)
  <2>1. rounds' = rounds /\ mine' = mine
    BY <1>5 DEF Advances, Decides, Keep
  <2>2. CASE pc[x] \in {"new", "accepted", "name"} /\ pc'[x] \in {"accepted", "name", "password"}
    BY <1>0, <1>1, <2>1, <2>2
  <2>3. CASE /\ pc[x] \in {"logAttempt", "logGrant"}
             /\ pc'[x] \in {"logGrant", "shell", "sleep"}
    BY <1>0, <1>1, <2>1, <2>3
  <2> QED
    BY <1>0, <1>5, <2>2, <2>3 DEF Advances, Decides
<1>6. CASE Rounds(x)
  <2>1. rounds'[x] = rounds[x] + 1 /\ mine'[x] = mine[x] /\ mine[x] <= rounds[x] + 1
        /\ rounds[x] < BruteMax
    BY <1>0, <1>1, <1>6 DEF Rounds
  <2>2. pc'[x] \in Ending \/ (pc'[x] = "name" /\ rounds[x] + 1 # BruteMax)
    BY <1>0, <1>6 DEF Rounds
  <2> QED
    BY <1>0, <2>1, <2>2
<1>7. CASE Tries(x)
  BY <1>0, <1>1, <1>7 DEF Tries
<1>8. CASE Counts(x) \/ Runs(x)
  BY <1>0, <1>1, <1>8 DEF Counts, Runs
<1> QED
  BY <1>1, <1>2, <1>3, <1>4, <1>5, <1>6, <1>7, <1>8 DEF Sessions, SessionStep

LEMMA CommandsStep ==
  ASSUME TypeOK, CommandsInv, Sessions
  PROVE  CommandsInv'
<1> SUFFICES ASSUME NEW x \in Conns
             PROVE  /\ executed'[x] <= count'[x] /\ executed'[x] <= MaxCommands
                    /\ pc'[x] \in Live => count'[x] <= MaxCommands
                    /\ pc'[x] = "logCommand" => executed'[x] + 1 <= count'[x]
  BY DEF CommandsInv
<1>0. /\ pc \in [Conns -> Served \cup Ended \cup {"new", "accepted"}]
      /\ count \in [Conns -> 0..(MaxCommands + 1)] /\ executed \in [Conns -> Nat]
      /\ MaxCommands \in Nat
      /\ Live = {"new", "accepted", "name", "password", "shell", "logAttempt", "logGrant",
                 "logCommand", "sleep"}
      /\ Ending = {"logScan", "closing", "over", "broken"}
      /\ count[x] \in Nat /\ executed[x] \in Nat
  BY ConstantsAssumption
  DEF TypeOK, ConstantsAssumption, Live, Running, Reading, Logging, Ending, Ended
<1>1. /\ executed[x] <= count[x] /\ executed[x] <= MaxCommands
      /\ pc[x] \in Live => count[x] <= MaxCommands
      /\ pc[x] = "logCommand" => executed[x] + 1 <= count[x]
  BY DEF CommandsInv
<1>2. CASE (Keep /\ pc' = pc) \/ Forgets
  BY <1>1, <1>2 DEF Keep, Forgets
<1>3. ASSUME NEW c \in Conns, c # x, SessionStep(c)
      PROVE  pc'[x] = pc[x] /\ count'[x] = count[x] /\ executed'[x] = executed[x]
  BY <1>0, <1>3
  DEF SessionStep, Quits, Advances, Decides, Rounds, Tries, Counts, Runs, Keep
<1>4. CASE Quits(x)
  BY <1>0, <1>1, <1>4 DEF Quits, Keep
<1>5. CASE Advances(x) \/ Decides(x) \/ Tries(x)
  BY <1>0, <1>1, <1>5 DEF Advances, Decides, Tries, Keep
<1>6. CASE Rounds(x)
  BY <1>0, <1>1, <1>6 DEF Rounds
<1>7. CASE Counts(x)
  BY <1>0, <1>1, <1>7 DEF Counts
<1>8. CASE Runs(x)
  BY <1>0, <1>1, <1>8 DEF Runs
<1> QED
  BY <1>1, <1>2, <1>3, <1>4, <1>5, <1>6, <1>7, <1>8 DEF Sessions, SessionStep
----------------------------------------------------------------------------
LEMMA GrantsStep ==
  ASSUME TypeOK, GrantsEarned, Sessions
  PROVE  GrantsEarned'
<1>1. ASSUME NEW ip \in IPs, Book!Attempt(ip)
      PROVE  GrantsEarned'
  BY <1>1, ConstantsAssumption DEF Book!Attempt, GrantsEarned, TypeOK, ConstantsAssumption
<1>2. CASE Forgets
  BY <1>2 DEF Forgets, Book!Forget, GrantsEarned, TypeOK
<1>3. CASE UNCHANGED <<tally, granted>>
  BY <1>3 DEF GrantsEarned
<1>4. ASSUME NEW c \in Conns, Tries(c)
      PROVE  GrantsEarned'
  BY <1>1, <1>4, ConstantsAssumption DEF Tries, ConstantsAssumption
<1> QED
  BY <1>2, <1>3, <1>4
  DEF Sessions, SessionStep, Quits, Advances, Decides, Rounds, Counts, Runs, Keep

LEMMA AttemptsToldStep ==
  ASSUME TypeOK, AttemptsTold, Sessions
  PROVE  AttemptsTold'
<1> SUFFICES ASSUME forgets' = 0
             PROVE  /\ \A x \in Conns : mine'[x] <= tally'[IpOf[x]]
                    /\ \A ip \in IPs : tally'[ip] >= BruteMax => ip \in granted'
                    /\ \A x \in Conns : pc'[x] = "sleep" => mine'[x] < BruteMax
  BY DEF AttemptsTold
<1>0. /\ pc \in [Conns -> Served \cup Ended \cup {"new", "accepted"}]
      /\ mine \in [Conns -> 0..BruteMax] /\ tally \in [IPs -> Nat]
      /\ IpOf \in [Conns -> IPs] /\ BruteMax \in Nat /\ forgets \in Nat
      /\ "sleep" \notin Ending
  BY ConstantsAssumption DEF TypeOK, ConstantsAssumption, Ending
<1>1. ~Forgets /\ forgets = 0
  BY <1>0
  DEF Sessions, SessionStep, Quits, Advances, Decides, Rounds, Tries, Counts, Runs, Forgets, Keep
<1>2. /\ \A x \in Conns : mine[x] <= tally[IpOf[x]]
      /\ \A ip \in IPs : tally[ip] >= BruteMax => ip \in granted
      /\ \A x \in Conns : pc[x] = "sleep" => mine[x] < BruteMax
  BY <1>1 DEF AttemptsTold
<1>3. ASSUME UNCHANGED <<mine, tally, granted>>,
             \A x \in Conns : pc'[x] = "sleep" => pc[x] = "sleep" \/ IpOf[x] \notin granted
      PROVE  /\ \A x \in Conns : mine'[x] <= tally'[IpOf[x]]
             /\ \A ip \in IPs : tally'[ip] >= BruteMax => ip \in granted'
             /\ \A x \in Conns : pc'[x] = "sleep" => mine'[x] < BruteMax
  <2>1. ASSUME NEW x \in Conns, IpOf[x] \notin granted
        PROVE  mine[x] < BruteMax
    <3>1. tally[IpOf[x]] < BruteMax /\ tally[IpOf[x]] \in Nat /\ mine[x] \in Nat
      BY <1>0, <1>2, <2>1
    <3> QED
      BY <1>0, <1>2, <3>1
  <2> QED
    BY <1>2, <1>3, <2>1
<1>4. ASSUME NEW c \in Conns, \/ Quits(c) \/ Advances(c) \/ Decides(c)
                              \/ Rounds(c) \/ Counts(c) \/ Runs(c)
      PROVE  /\ UNCHANGED <<mine, tally, granted>>
             /\ \A x \in Conns : pc'[x] = "sleep" => pc[x] = "sleep" \/ IpOf[x] \notin granted
  BY <1>0, <1>4 DEF Quits, Advances, Decides, Rounds, Counts, Runs, Keep
<1>5. ASSUME NEW c \in Conns, Tries(c)
      PROVE  /\ \A x \in Conns : mine'[x] <= tally'[IpOf[x]]
             /\ \A ip \in IPs : tally'[ip] >= BruteMax => ip \in granted'
             /\ \A x \in Conns : pc'[x] = "sleep" => mine'[x] < BruteMax
  <2>1. /\ IpOf[c] \in IPs /\ tally' = [tally EXCEPT ![IpOf[c]] = @ + 1]
        /\ granted \subseteq granted'
        /\ tally'[IpOf[c]] >= BruteMax => IpOf[c] \in granted'
    BY <1>0, <1>5 DEF Tries, Book!Attempt
  <2>2. mine' = [mine EXCEPT ![c] = @ + 1] /\ pc' = [pc EXCEPT ![c] = "logAttempt"]
    BY <1>5 DEF Tries
  <2>3. \A x \in Conns : mine'[x] <= tally'[IpOf[x]]
    BY <1>0, <1>2, <2>1, <2>2
  <2>4. \A ip \in IPs : tally'[ip] >= BruteMax => ip \in granted'
    BY <1>0, <1>2, <2>1
  <2>5. \A x \in Conns : pc'[x] = "sleep" => mine'[x] < BruteMax
    BY <1>0, <1>2, <2>2
  <2> QED
    BY <2>3, <2>4, <2>5
<1>6. CASE Keep /\ pc' = pc
  BY <1>3, <1>6 DEF Keep
<1> QED
  BY <1>1, <1>3, <1>4, <1>5, <1>6 DEF Sessions, SessionStep

LEMMA ServerInit == Init => ServerInv
<1> SUFFICES ASSUME Init PROVE ServerInv
  OBVIOUS
<1> USE DEF Init
<1>1. TypeOK
  BY ConstantsAssumption DEF TypeOK, ConstantsAssumption, Book!Init
<1>2. Cardinality(In(Served)) = 0 /\ Cardinality(In(Running \cup {"broken"})) = 0
  <2>1. In(Served) = {} /\ In(Running \cup {"broken"}) = {}
    BY DEF In, Served, Running, Reading, Logging
  <2> QED
    BY <2>1, FS_EmptySet
<1>3. PermitsConserved /\ GaugeExact
  BY <1>2, ConstantsAssumption DEF PermitsConserved, GaugeExact, ConstantsAssumption
<1>4. RoundsInv /\ CommandsInv
  BY ConstantsAssumption DEF RoundsInv, CommandsInv, ConstantsAssumption
<1>5. GrantsEarned /\ AttemptsTold
  BY ConstantsAssumption DEF GrantsEarned, AttemptsTold, Book!Init, ConstantsAssumption
<1> QED
  BY <1>1, <1>3, <1>4, <1>5 DEF ServerInv

LEMMA ServerStepKeeps == ServerInv /\ [Next]_vars => ServerInv'
<1> SUFFICES ASSUME ServerInv, [Next]_vars
             PROVE  ServerInv'
  OBVIOUS
<1> USE DEF ServerInv
<1>1. Flow /\ Sessions
  BY StepFlows, StepSessions
<1>2. PermitsConserved' /\ GaugeExact' /\ value' \in 0..MaxSessions /\ gauge' \in Nat
  BY <1>1, PermitsStep
<1>3. TypeOK'
  BY <1>2, TypeStep
<1> QED
  BY <1>1, <1>2, <1>3, RoundsStep, CommandsStep, GrantsStep, AttemptsToldStep

(* The types, the permits and the limit on commands: however sessions end, *)
(* a permit is free or that of one session, rounds and commands stay       *)
(* within BRUTE_MAX and HP_MAX_CMDS (telnet_server.py:54-96,               *)
(* telnet_session.py:169-216).                                             *)
THEOREM SessionsWithinLimits == Spec => []SessionInv
<1>1. ServerInv => SessionInv
  BY DEF ServerInv, SessionInv, CommandsInv, CommandsWithinLimit
<1> QED
  BY <1>1, ServerInit, ServerStepKeeps, PTL DEF Spec

(* The gauge counts the sessions that run (telnet_session.py:248, :273)    *)
(* and, for good, those left by a scan event that raised in the finally of *)
(* run (:272): nothing else moves it, however sessions end.                *)
THEOREM GaugeIsExact == Spec => []GaugeExact
<1>1. ServerInv => GaugeExact
  BY DEF ServerInv
<1> QED
  BY <1>1, ServerInit, ServerStepKeeps, PTL DEF Spec

(* A shell is entered only with BRUTE_MIN attempts on the tally of the     *)
(* address at that moment (telnet_session.py:186-188).                     *)
THEOREM ShellIsEarned == Spec => ShellEarned
<1> DEFINE Earned == \A c \in Conns :
                       pc[c] # "shell" /\ pc'[c] = "shell" /\ pc[c] # "logCommand"
                         => tally[IpOf[c]] >= BruteMin
<1>1. ServerInv /\ [Next]_vars => [Earned]_vars
  <2> SUFFICES ASSUME ServerInv, [Next]_vars, NEW c \in Conns,
                      pc[c] # "shell", pc'[c] = "shell", pc[c] # "logCommand"
               PROVE  tally[IpOf[c]] >= BruteMin
    OBVIOUS
  <2>1. Sessions /\ pc \in [Conns -> Places] /\ "shell" \notin Ending
    BY StepSessions, EndingNotLive DEF ServerInv, TypeOK, Places
  <2>2. PICK x \in Conns : SessionStep(x)
    BY <2>1 DEF Sessions, Forgets
  <2>3. x = c
    BY <2>1, <2>2
    DEF SessionStep, Quits, Advances, Decides, Rounds, Tries, Counts, Runs
  <2>4. Decides(c)
    BY <2>1, <2>2, <2>3 DEF SessionStep, Quits, Advances, Rounds, Tries, Counts, Runs
  <2>5. IpOf[c] \in granted
    BY <2>1, <2>4 DEF Decides
  <2> QED
    BY <2>5 DEF ServerInv, GrantsEarned
<1> QED
  BY <1>1, ServerInit, ServerStepKeeps, PTL DEF Spec, ShellEarned

(* A client that tried in every round is not sent away after the last one, *)
(* while no address was forgotten: its BRUTE_MAX attempts are the grant,   *)
(* whichever sessions tried at the same time (telnet_session.py:169,       *)
(* auth_manager.py:29).                                                    *)
THEOREM TriersAreServed == Spec => NotSentAway
<1> DEFINE Kept == \A c \in Conns :
                     (pc[c] = "sleep" /\ pc'[c] \notin {"sleep", "name"}
                        /\ mine[c] = rounds[c] + 1) => forgets > 0
<1>1. ServerInv /\ [Next]_vars => [Kept]_vars
  <2> SUFFICES ASSUME ServerInv, [Next]_vars, NEW c \in Conns,
                      pc[c] = "sleep", pc'[c] \notin {"sleep", "name"},
                      mine[c] = rounds[c] + 1, ~(forgets > 0)
               PROVE  FALSE
    OBVIOUS
  <2>1. /\ Sessions /\ pc \in [Conns -> Places] /\ forgets = 0
        /\ BruteMax \in Nat
    BY StepSessions, ConstantsAssumption DEF ServerInv, TypeOK, Places, ConstantsAssumption
  <2>2. PICK x \in Conns : SessionStep(x)
    BY <2>1 DEF Sessions, Forgets
  <2>3. x = c
    BY <2>1, <2>2
    DEF SessionStep, Quits, Advances, Decides, Rounds, Tries, Counts, Runs
  <2>4. Rounds(c)
    BY <2>1, <2>2, <2>3 DEF SessionStep, Quits, Advances, Decides, Tries, Counts, Runs
  <2>5. mine[c] < BruteMax
    BY <2>1 DEF ServerInv, AttemptsTold
  <2>6. rounds[c] + 1 = BruteMax
    BY <2>1, <2>4 DEF Rounds
  <2> QED
    BY <2>1, <2>5, <2>6
<1> QED
  BY <1>1, ServerInit, ServerStepKeeps, PTL DEF Spec, NotSentAway
=============================================================================
