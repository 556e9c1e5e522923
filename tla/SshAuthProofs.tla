--------------------------- MODULE SshAuthProofs ---------------------------
(***************************************************************************)
(* Proofs about SshAuth, for every set of connections, addresses and names *)
(* and every number of attempts, faults and cleanups: the types with the   *)
(* exact gauge, what stands behind a shell, the trace every connection     *)
(* leaves, and the class of an address that tries many names.              *)
(***************************************************************************)
EXTENDS SshAuth, FiniteSetTheorems, TLAPS

LEMMA ClassesType ==
  ASSUME NEW tried, NEW before
  PROVE  KeyClasses(tried) \subseteq Classes /\ PasswordClasses(before, tried) \subseteq Classes
  BY DEF KeyClasses, PasswordClasses, Classes

(* A channel more, and one less.                                           *)
LEMMA GaugeOpens ==
  ASSUME TypeOK, NEW c \in Conns, chan[c] \notin {"open", "shell"},
         chan' = [chan EXCEPT ![c] = "open"], gauge' = gauge + 1
  PROVE  gauge' = Cardinality(Channels)'
<1>1. IsFiniteSet(Channels)
  BY FS_Subset, ConstantsAssumption DEF ConstantsAssumption, Channels
<1>2. Channels' = Channels \cup {c} /\ c \notin Channels
  BY DEF Channels, TypeOK
<1> QED
  BY <1>1, <1>2, FS_AddElement DEF TypeOK

LEMMA GaugeCloses ==
  ASSUME TypeOK, NEW c \in Conns, chan[c] \in {"open", "shell"},
         chan' = [chan EXCEPT ![c] = "closed"], gauge' = gauge - 1
  PROVE  gauge' = Cardinality(Channels)'
<1>1. IsFiniteSet(Channels)
  BY FS_Subset, ConstantsAssumption DEF ConstantsAssumption, Channels
<1>2. Channels' = Channels \ {c} /\ c \in Channels
  BY DEF Channels, TypeOK
<1> QED
  BY <1>1, <1>2, FS_RemoveElement DEF TypeOK

LEMMA TypeInit == Init => TypeOK
<1> SUFFICES ASSUME Init PROVE TypeOK
  OBVIOUS
<1>1. Channels = {}
  BY DEF Init, Channels
<1> QED
  BY <1>1, FS_EmptySet, ConstantsAssumption
  DEF ConstantsAssumption, Init, TypeOK, Book!Init, peers

LEMMA ValidateType ==
  ASSUME TypeOK, NEW c \in Conns, NEW by \in {"password", "key"}, NEW user \in Users,
         Validate(c, by, user)
  PROVE  TypeOK'
<1> DEFINE ip == peer[c]
           tried == names[ip] \cup {user}
<1>1. ip \in IPs
  BY DEF TypeOK
<1>2. /\ tally' \in [IPs -> Nat] /\ granted' \subseteq IPs
      /\ names' \in [IPs -> SUBSET Users]
  BY <1>1 DEF Validate, Book!Attempt, TypeOK
<1>3. try' \in [Conns -> Attempt \cup {NoAttempt}]
  <2>1. PICK class \in IF by = "key" THEN KeyClasses(tried) ELSE PasswordClasses(names[ip], tried) :
          try' = [try EXCEPT ![c] = [by |-> by, user |-> user, class |-> class,
                                     granted |-> ip \in granted']]
    BY DEF Validate
  <2>2. class \in Classes
    BY <2>1, ClassesType
  <2>3. (ip \in granted') \in BOOLEAN
    OBVIOUS
  <2>4. [by |-> by, user |-> user, class |-> class, granted |-> ip \in granted'] \in Attempt
    BY <2>2, <2>3 DEF Attempt
  <2> QED
    BY <2>1, <2>4 DEF TypeOK
<1>4. attempts' \in [Conns -> 0..MaxAttempts] /\ auth' \in [Conns -> {"idle", "logAttempt", "logGrant", "accepted"}]
  BY ConstantsAssumption DEF ConstantsAssumption, Validate, TypeOK
<1> QED
  BY <1>2, <1>3, <1>4 DEF Validate, TypeOK, Channels, peers, logged, counted

(* The attempt under way is one.                                           *)
UnderWay == \A c \in Conns : auth[c] \in {"logAttempt", "logGrant"} => try[c] \in Attempt

LEMMA EndAttemptType ==
  ASSUME TypeOK, NEW c \in Conns, EndAttempt(c)
  PROVE  /\ auth' \in [Conns -> {"idle", "logAttempt", "logGrant", "accepted"}]
         /\ try' \in [Conns -> Attempt \cup {NoAttempt}]
         /\ cut' \subseteq Conns
  BY DEF EndAttempt, TypeOK

LEMMA TypeStep == TypeOK /\ UnderWay /\ [Next]_vars => TypeOK'
<1> SUFFICES ASSUME TypeOK, UnderWay, [Next]_vars
             PROVE  TypeOK'
  OBVIOUS
<1> USE DEF Channels, peers, book, logged, counted
<1>1. ASSUME NEW c \in Conns, ConnectionMade(c) \/ ConnectionLost(c)
      PROVE  TypeOK'
  <2>1. conn' \in [Conns -> {"new", "open", "closing", "lost"}]
    BY <1>1 DEF ConnectionMade, ConnectionLost, TypeOK
  <2>2. scan' \in [Conns -> {"none", "created", "logging", "over"}]
    BY <1>1 DEF ConnectionMade, ConnectionLost, TypeOK
  <2>3. UNCHANGED <<peers, auth, try, attempts, chan, gauge, book, logged, counted>>
    BY <1>1 DEF ConnectionMade, ConnectionLost
  <2> QED
    BY <2>1, <2>2, <2>3 DEF TypeOK
<1>2. ASSUME NEW c \in Conns, AttemptLogged(c)
      PROVE  TypeOK'
  <2>1. /\ try' \in [Conns -> Attempt \cup {NoAttempt}]
        /\ auth' \in [Conns -> {"idle", "logAttempt", "logGrant", "accepted"}]
    BY <1>2 DEF AttemptLogged, TypeOK
  <2>2. try[c].user \in Users /\ try[c].class \in Classes
    BY <1>2 DEF AttemptLogged, UnderWay, Attempt
  <2>3. rows' \subseteq Conns \X Users \X Classes
    BY <1>2, <2>2 DEF AttemptLogged, TypeOK
  <2> QED
    BY <1>2, <2>1, <2>3 DEF AttemptLogged, TypeOK
<1>3. ASSUME NEW c \in Conns, GrantLogged(c)
      PROVE  TypeOK'
  <2>1. /\ try' \in [Conns -> Attempt \cup {NoAttempt}]
        /\ auth' \in [Conns -> {"idle", "logAttempt", "logGrant", "accepted"}]
    BY <1>3 DEF GrantLogged, TypeOK
  <2> QED
    BY <1>3, <2>1 DEF GrantLogged, TypeOK
<1>4. ASSUME NEW c \in Conns, AttemptRaises(c)
      PROVE  TypeOK'
  <2>1. conn' \in [Conns -> {"new", "open", "closing", "lost"}] /\ faults' \in 0..MaxFaults
    BY <1>4, ConstantsAssumption DEF ConstantsAssumption, AttemptRaises, TypeOK
  <2>2. EndAttempt(c)
    BY <1>4 DEF AttemptRaises
  <2> QED
    BY <1>4, <2>1, <2>2, EndAttemptType DEF AttemptRaises, TypeOK
<1>5. ASSUME NEW c \in Conns, AttemptCancelled(c)
      PROVE  TypeOK'
  BY <1>5, EndAttemptType DEF AttemptCancelled, TypeOK
<1>6. ASSUME NEW c \in Conns, OpenChannel(c)
      PROVE  TypeOK'
  <2>1. gauge' = Cardinality(Channels)'
    BY <1>6, GaugeOpens DEF OpenChannel
  <2>2. chan' \in [Conns -> {"none", "open", "shell", "closed"}]
    BY <1>6 DEF OpenChannel, TypeOK
  <2> QED
    BY <1>6, <2>1, <2>2 DEF OpenChannel, TypeOK
<1>7. ASSUME NEW c \in Conns, ShellRequested(c)
      PROVE  TypeOK'
  <2>1. Channels' = Channels /\ chan' \in [Conns -> {"none", "open", "shell", "closed"}]
    BY <1>7 DEF ShellRequested, TypeOK
  <2> QED
    BY <1>7, <2>1 DEF ShellRequested, TypeOK
<1>8. ASSUME NEW c \in Conns, ChannelLost(c)
      PROVE  TypeOK'
  <2>1. gauge' = Cardinality(Channels)'
    BY <1>8, GaugeCloses DEF ChannelLost
  <2>2. chan' \in [Conns -> {"none", "open", "shell", "closed"}]
    BY <1>8 DEF ChannelLost, TypeOK
  <2> QED
    BY <1>8, <2>1, <2>2 DEF ChannelLost, TypeOK
<1>9. ASSUME NEW c \in Conns, ScanSkipped(c) \/ ScanFiltered(c) \/ ScanDue(c)
      PROVE  TypeOK'
  <2>1. CASE ScanSkipped(c)
    BY <2>1 DEF ScanSkipped, TypeOK
  <2>2. CASE ScanFiltered(c)
    <3>1. voice' \in [Conns -> SUBSET Conns]
      BY <2>2 DEF ScanFiltered, TypeOK
    <3> QED
      BY <2>2, <3>1 DEF ScanFiltered, TypeOK
  <2>3. CASE ScanDue(c)
    <3>1. /\ voice' \in [Conns -> SUBSET Conns] /\ last' \in [IPs -> SUBSET Conns]
          /\ quiet' \subseteq IPs
      BY <2>3 DEF ScanDue, TypeOK
    <3> QED
      BY <2>3, <3>1 DEF ScanDue, TypeOK
  <2> QED
    BY <1>9, <2>1, <2>2, <2>3
<1>10. ASSUME NEW c \in Conns, ScanLogged(c) \/ ScanRaises(c)
       PROVE  TypeOK'
  <2>1. scan' \in [Conns -> {"none", "created", "logging", "over"}]
    BY <1>10 DEF ScanLogged, ScanRaises, TypeOK
  <2>2. CASE ScanLogged(c)
    BY <2>1, <2>2 DEF ScanLogged, TypeOK
  <2>3. CASE ScanRaises(c)
    <3>1. faults' \in 0..MaxFaults
      BY <2>3, ConstantsAssumption DEF ConstantsAssumption, ScanRaises, TypeOK
    <3> QED
      BY <2>1, <2>3, <3>1 DEF ScanRaises, TypeOK
  <2> QED
    BY <1>10, <2>2, <2>3
<1>11. ASSUME NEW ip \in IPs, QuietOver(ip)
       PROVE  TypeOK'
  BY <1>11 DEF QuietOver, TypeOK
<1>12. ASSUME NEW ip \in IPs, Forget(ip)
       PROVE  TypeOK'
  <2>1. /\ tally' \in [IPs -> Nat] /\ granted' \subseteq IPs /\ names' \in [IPs -> SUBSET Users]
        /\ last' \in [IPs -> SUBSET Conns]
    BY <1>12 DEF Forget, Book!Forget, TypeOK
  <2> QED
    BY <1>12, <2>1, ConstantsAssumption DEF ConstantsAssumption, Forget, TypeOK
<1>13. CASE UNCHANGED vars
  BY <1>13 DEF vars, TypeOK
<1>14. ASSUME NEW c \in Conns, NEW by \in {"password", "key"}, NEW user \in Users,
              Validate(c, by, user)
       PROVE  TypeOK'
  BY <1>14, ValidateType
<1> HIDE DEF Channels, peers, book, logged, counted
<1> QED
  BY <1>1, <1>2, <1>3, <1>4, <1>5, <1>6, <1>7, <1>8, <1>9, <1>10, <1>11, <1>12, <1>13, <1>14
  DEF Next

LEMMA UnderWayStep == TypeOK /\ UnderWay /\ [Next]_vars => UnderWay'
<1> SUFFICES ASSUME TypeOK, UnderWay, [Next]_vars
             PROVE  UnderWay'
  OBVIOUS
<1> USE DEF TypeOK, UnderWay
<1>1. ASSUME NEW c \in Conns, NEW by \in {"password", "key"}, NEW user \in Users,
             Validate(c, by, user)
      PROVE  UnderWay'
  <2> DEFINE tried == names[peer[c]] \cup {user}
  <2>1. PICK class \in IF by = "key" THEN KeyClasses(tried) ELSE PasswordClasses(names[peer[c]], tried) :
          try' = [try EXCEPT ![c] = [by |-> by, user |-> user, class |-> class,
                                     granted |-> peer[c] \in granted']]
    BY <1>1 DEF Validate
  <2>2. class \in Classes /\ (peer[c] \in granted') \in BOOLEAN
    BY <2>1, ClassesType
  <2>3. try'[c] \in Attempt /\ \A d \in Conns \ {c} : try'[d] = try[d]
    BY <2>1, <2>2 DEF Attempt
  <2>4. \A d \in Conns \ {c} : auth'[d] = auth[d]
    BY <1>1 DEF Validate
  <2> QED
    BY <2>3, <2>4
<1>2. ASSUME NEW c \in Conns,
             AttemptLogged(c) \/ GrantLogged(c) \/ AttemptRaises(c) \/ AttemptCancelled(c)
      PROVE  UnderWay'
  BY <1>2 DEF AttemptLogged, GrantLogged, AttemptRaises, AttemptCancelled, EndAttempt
<1>3. CASE UNCHANGED <<auth, try>>
  BY <1>3
<1> QED
  BY <1>1, <1>2, <1>3
  DEF Next, ConnectionMade, ConnectionLost, OpenChannel, ShellRequested, ChannelLost,
      ScanSkipped, ScanFiltered, ScanDue, ScanLogged, ScanRaises, QuietOver, Forget, vars

(* Every variable keeps its type, and the gauge of SSH sessions is the     *)
(* number of channels attached to one (ssh_session.py:29-35).              *)
THEOREM TypeCorrect == Spec => []TypeOK
<1>1. Init => UnderWay
  BY DEF Init, UnderWay
<1> QED
  BY <1>1, TypeInit, TypeStep, UnderWayStep, PTL DEF Spec
----------------------------------------------------------------------------
(* What is accepted, or has a channel, has its grant in the log.           *)
AcceptedIsLogged ==
  \A c \in Conns : auth[c] = "accepted" \/ chan[c] \in {"open", "shell"} => c \in grants

(* What is granted has been earned.                                        *)
GrantsEarned == \A ip \in granted : tally[ip] >= BruteMin

ShellInv == TypeOK /\ UnderWay /\ AcceptedIsLogged /\ GrantsEarned

LEMMA AcceptedIsLoggedStep ==
  ASSUME TypeOK, AcceptedIsLogged, [Next]_vars
  PROVE  AcceptedIsLogged'
<1> USE DEF TypeOK, AcceptedIsLogged, logged
<1>1. ASSUME NEW c \in Conns, NEW by \in {"password", "key"}, NEW user \in Users,
             Validate(c, by, user)
      PROVE  AcceptedIsLogged'
  BY <1>1 DEF Validate
<1>2. ASSUME NEW c \in Conns,
             AttemptLogged(c) \/ GrantLogged(c) \/ AttemptRaises(c) \/ AttemptCancelled(c)
      PROVE  AcceptedIsLogged'
  BY <1>2 DEF AttemptLogged, GrantLogged, AttemptRaises, AttemptCancelled, EndAttempt
<1>3. ASSUME NEW c \in Conns, OpenChannel(c) \/ ShellRequested(c) \/ ChannelLost(c)
      PROVE  AcceptedIsLogged'
  BY <1>3 DEF OpenChannel, ShellRequested, ChannelLost
<1>4. CASE UNCHANGED <<auth, chan, grants>>
  BY <1>4
<1> QED
  BY <1>1, <1>2, <1>3, <1>4
  DEF Next, ConnectionMade, ConnectionLost, ScanSkipped, ScanFiltered, ScanDue, ScanLogged, ScanRaises,
      QuietOver, Forget, vars

LEMMA GrantsEarnedStep ==
  ASSUME TypeOK, GrantsEarned, [Next]_vars
  PROVE  GrantsEarned'
<1> USE DEF TypeOK, GrantsEarned
<1>1. ASSUME NEW c \in Conns, NEW by \in {"password", "key"}, NEW user \in Users,
             Validate(c, by, user)
      PROVE  GrantsEarned'
  <2>1. peer[c] \in IPs /\ BruteMin \in Nat
    BY ConstantsAssumption DEF ConstantsAssumption
  <2>2. Book!Attempt(peer[c])
    BY <1>1 DEF Validate
  <2> QED
    BY <2>1, <2>2 DEF Book!Attempt
<1>2. ASSUME NEW ip \in IPs, Forget(ip)
      PROVE  GrantsEarned'
  BY <1>2 DEF Forget, Book!Forget
<1>3. CASE UNCHANGED <<tally, granted>>
  BY <1>3
<1> QED
  BY <1>1, <1>2, <1>3
  DEF Next, ConnectionMade, ConnectionLost, AttemptLogged, GrantLogged, AttemptRaises,
      AttemptCancelled, OpenChannel, ShellRequested, ChannelLost, ScanSkipped, ScanFiltered,
      ScanDue, ScanLogged, ScanRaises, QuietOver, vars, book

LEMMA ShellInvariant == Spec => []ShellInv
<1>1. Init => ShellInv
  BY TypeInit DEF Init, ShellInv, UnderWay, AcceptedIsLogged, GrantsEarned, Book!Init
<1>2. ShellInv /\ [Next]_vars => ShellInv'
  BY TypeStep, UnderWayStep, AcceptedIsLoggedStep, GrantsEarnedStep DEF ShellInv
<1> QED
  BY <1>1, <1>2, PTL DEF Spec

(* A shell over a connection has a grant of that connection in the log     *)
(* before it (ssh_server.py:143-177).                                      *)
THEOREM ShellIsLogged == Spec => []ShellsAreLogged
<1>1. ShellInv => ShellsAreLogged
  BY DEF ShellInv, AcceptedIsLogged, ShellsAreLogged
<1> QED
  BY <1>1, ShellInvariant, PTL

(* A shell opens only on an address with BRUTE_MIN attempts since it was   *)
(* last forgotten (ssh_session.py:142).                                    *)
THEOREM ShellIsEarned == Spec => ShellEarned
<1> DEFINE Earned == \A c \in Conns :
             chan'[c] = "shell" /\ chan[c] # "shell" => tally[peer[c]] >= BruteMin
<1>1. ASSUME ShellInv, [Next]_vars
      PROVE  Earned
  <2> USE <1>1 DEF ShellInv, TypeOK
  <2>1. ASSUME NEW c \in Conns, ShellRequested(c)
        PROVE  Earned
    BY <2>1 DEF ShellRequested, GrantsEarned
  <2>2. ASSUME NEW c \in Conns, OpenChannel(c) \/ ChannelLost(c)
        PROVE  Earned
    BY <2>2 DEF OpenChannel, ChannelLost
  <2>3. CASE chan' = chan
    BY <2>3
  <2> QED
    BY <2>1, <2>2, <2>3
    DEF Next, ConnectionMade, ConnectionLost, Validate, AttemptLogged, GrantLogged,
        AttemptRaises, AttemptCancelled, ScanSkipped, ScanFiltered, ScanDue, ScanLogged, ScanRaises, QuietOver,
        Forget, vars
<1>2. ShellInv /\ [Next]_vars => [Earned]_vars
  BY <1>1
<1> QED
  BY <1>2, ShellInvariant, PTL DEF Spec, ShellEarned
----------------------------------------------------------------------------
(* No step changes the address of a connection.                            *)
LEMMA PeersStay == [Next]_vars => peer' = peer
BY DEF Next, ConnectionMade, ConnectionLost, Validate, AttemptLogged, GrantLogged,
       AttemptRaises, AttemptCancelled, OpenChannel, ShellRequested, ChannelLost,
       ScanSkipped, ScanFiltered, ScanDue, ScanLogged, ScanRaises, QuietOver, Forget,
       peers, vars

HasRow(c) == \E row \in rows : row[1] = c

(* One of the connections in S is of the address and leaves a trace.       *)
Speaks(S, ip) == \E d \in S : peer[d] = ip /\ Traced(d)

(* An address is quiet for a scan event; the scan of a connection whose    *)
(* address is known is its own or found that event.                        *)
QuietIsTraced == \A ip \in IPs : ip \in quiet => Speaks(last[ip], ip)

ScanIsTraced ==
  \A c \in Conns :
     scan[c] \in {"logging", "over"} => Speaks(voice[c], peer[c]) \/ peer[c] = UNKNOWN

(* An attempt has its row once it is past the first log_event.             *)
AttemptHasRow ==
  \A c \in Conns : attempts[c] > 0 /\ auth[c] # "logAttempt" => HasRow(c) \/ c \in cut

LostIsDealtWith == \A c \in Conns : conn[c] = "lost" /\ scan[c] = "none" => attempts[c] > 0

ScanAfterLoss == \A c \in Conns : scan[c] # "none" => conn[c] = "lost" /\ attempts[c] = 0

TraceInv ==
  QuietIsTraced /\ ScanIsTraced /\ AttemptHasRow /\ LostIsDealtWith /\ ScanAfterLoss

(* No trace is lost.                                                       *)
LEMMA TracesKept ==
  ASSUME TypeOK, ScanAfterLoss, [Next]_vars, NEW d \in Conns, Traced(d)
  PROVE  Traced(d)'
<1> USE DEF TypeOK, Traced, logged, counted
<1>1. ASSUME NEW c \in Conns, ScanLogged(c) \/ ScanRaises(c)
      PROVE  Traced(d)'
  BY <1>1 DEF ScanLogged, ScanRaises
<1>2. ASSUME NEW c \in Conns, ConnectionLost(c)
      PROVE  Traced(d)'
  BY <1>2 DEF ConnectionLost, ScanAfterLoss
<1>3. ASSUME NEW c \in Conns, AttemptRaises(c) \/ AttemptCancelled(c)
      PROVE  Traced(d)'
  BY <1>3 DEF AttemptRaises, AttemptCancelled, EndAttempt
<1>4. ASSUME NEW c \in Conns, ScanSkipped(c) \/ ScanFiltered(c) \/ ScanDue(c)
      PROVE  Traced(d)'
  BY <1>4 DEF ScanSkipped, ScanFiltered, ScanDue
<1>5. CASE UNCHANGED <<scans, cut, scan>>
  BY <1>5
<1> QED
  BY <1>1, <1>2, <1>3, <1>4, <1>5
  DEF Next, ConnectionMade, Validate, AttemptLogged, GrantLogged, OpenChannel,
      ShellRequested, ChannelLost, QuietOver, Forget, vars

LEMMA QuietIsTracedStep ==
  ASSUME TypeOK, TraceInv, [Next]_vars
  PROVE  QuietIsTraced'
<1>1. /\ \A d \in Conns : Traced(d) => Traced(d)'
      /\ peer' = peer /\ peer \in [Conns -> IPs] /\ last \in [IPs -> SUBSET Conns]
  BY TracesKept, PeersStay DEF TraceInv, TypeOK
<1>2. ASSUME NEW c \in Conns, ScanDue(c)
      PROVE  QuietIsTraced'
  <2>1. Traced(c)' /\ last' = [last EXCEPT ![peer[c]] = {c}] /\ quiet' = quiet \cup {peer[c]}
    BY <1>2 DEF ScanDue, Traced, TypeOK
  <2> QED
    BY <1>1, <2>1 DEF TraceInv, QuietIsTraced, Speaks
<1>3. ASSUME NEW ip \in IPs, QuietOver(ip) \/ Forget(ip)
      PROVE  QuietIsTraced'
  <2>1. last' = [last EXCEPT ![ip] = {}] /\ quiet' = quiet \ {ip}
    BY <1>3 DEF QuietOver, Forget
  <2> QED
    BY <1>1, <2>1 DEF TraceInv, QuietIsTraced, Speaks
<1>4. CASE UNCHANGED <<last, quiet>>
  BY <1>1, <1>4 DEF TraceInv, QuietIsTraced, Speaks
<1> QED
  BY <1>2, <1>3, <1>4
  DEF Next, ConnectionMade, ConnectionLost, Validate, AttemptLogged, GrantLogged,
      AttemptRaises, AttemptCancelled, OpenChannel, ShellRequested, ChannelLost,
      ScanSkipped, ScanFiltered, ScanLogged, ScanRaises, vars, book, peers

LEMMA ScanIsTracedStep ==
  ASSUME TypeOK, TraceInv, [Next]_vars
  PROVE  ScanIsTraced'
<1>1. /\ \A d \in Conns : Traced(d) => Traced(d)'
      /\ peer' = peer /\ peer \in [Conns -> IPs]
      /\ voice \in [Conns -> SUBSET Conns] /\ last \in [IPs -> SUBSET Conns]
  BY TracesKept, PeersStay DEF TraceInv, TypeOK
<1> USE DEF TraceInv, ScanIsTraced, Speaks
<1>2. ASSUME NEW c \in Conns, ScanDue(c)
      PROVE  ScanIsTraced'
  <2>1. Traced(c)' /\ voice' = [voice EXCEPT ![c] = {c}] /\ \A d \in Conns \ {c} : scan'[d] = scan[d]
    BY <1>2 DEF ScanDue, Traced, TypeOK
  <2> QED
    BY <1>1, <2>1
<1>3. ASSUME NEW c \in Conns, ScanFiltered(c)
      PROVE  ScanIsTraced'
  <2>1. /\ Speaks(last[peer[c]], peer[c])
        /\ voice' = [voice EXCEPT ![c] = last[peer[c]]]
        /\ \A d \in Conns \ {c} : scan'[d] = scan[d]
    BY <1>1, <1>3 DEF ScanFiltered, QuietIsTraced, TypeOK
  <2> QED
    BY <1>1, <2>1
<1>4. ASSUME NEW c \in Conns, ScanSkipped(c)
      PROVE  ScanIsTraced'
  <2>1. peer[c] = UNKNOWN /\ voice' = voice /\ \A d \in Conns \ {c} : scan'[d] = scan[d]
    BY <1>4 DEF ScanSkipped, TypeOK, peers
  <2> QED
    BY <1>1, <2>1
<1>5. ASSUME NEW c \in Conns, ScanLogged(c) \/ ScanRaises(c) \/ ConnectionLost(c)
      PROVE  ScanIsTraced'
  <2>1. /\ voice' = voice /\ \A d \in Conns \ {c} : scan'[d] = scan[d]
        /\ scan'[c] \in {"logging", "over"} => scan[c] \in {"logging", "over"}
    BY <1>5 DEF ScanLogged, ScanRaises, ConnectionLost, TypeOK, peers
  <2> QED
    BY <1>1, <2>1
<1>6. CASE UNCHANGED <<scan, voice>>
  BY <1>1, <1>6
<1> QED
  BY <1>2, <1>3, <1>4, <1>5, <1>6
  DEF Next, ConnectionMade, Validate, AttemptLogged, GrantLogged, AttemptRaises,
      AttemptCancelled, OpenChannel, ShellRequested, ChannelLost, QuietOver, Forget, vars, peers

LEMMA AttemptHasRowStep ==
  ASSUME TypeOK, AttemptHasRow, [Next]_vars
  PROVE  AttemptHasRow'
<1> USE DEF TypeOK, AttemptHasRow, logged, counted
<1>1. ASSUME NEW c \in Conns, NEW by \in {"password", "key"}, NEW user \in Users,
             Validate(c, by, user)
      PROVE  AttemptHasRow'
  BY <1>1 DEF Validate, HasRow
<1>2. ASSUME NEW c \in Conns, AttemptLogged(c)
      PROVE  AttemptHasRow'
  <2>1. HasRow(c)'
    <3>1. <<c, try[c].user, try[c].class>> \in rows'
      BY <1>2 DEF AttemptLogged
    <3> QED
      BY <3>1 DEF HasRow
  <2>2. \A d \in Conns : HasRow(d) => HasRow(d)'
    BY <1>2 DEF AttemptLogged, HasRow
  <2> QED
    BY <1>2, <2>1, <2>2 DEF AttemptLogged
<1>3. ASSUME NEW c \in Conns, GrantLogged(c)
      PROVE  AttemptHasRow'
  BY <1>3 DEF GrantLogged, HasRow
<1>4. ASSUME NEW c \in Conns, AttemptRaises(c) \/ AttemptCancelled(c)
      PROVE  AttemptHasRow'
  BY <1>4 DEF AttemptRaises, AttemptCancelled, EndAttempt, HasRow
<1>5. CASE UNCHANGED <<attempts, auth, rows>> /\ cut \subseteq cut'
  BY <1>5 DEF HasRow
<1> QED
  BY <1>1, <1>2, <1>3, <1>4, <1>5
  DEF Next, ConnectionMade, ConnectionLost, OpenChannel, ShellRequested, ChannelLost,
      ScanSkipped, ScanFiltered, ScanDue, ScanLogged, ScanRaises, QuietOver, Forget, vars

LEMMA LossStep ==
  ASSUME TypeOK, TraceInv, [Next]_vars
  PROVE  LostIsDealtWith' /\ ScanAfterLoss'
<1> USE DEF TypeOK, TraceInv, LostIsDealtWith, ScanAfterLoss
<1>1. ASSUME NEW c \in Conns, NEW by \in {"password", "key"}, NEW user \in Users,
             Validate(c, by, user)
      PROVE  LostIsDealtWith' /\ ScanAfterLoss'
  BY <1>1 DEF Validate
<1>2. ASSUME NEW c \in Conns, ConnectionMade(c) \/ ConnectionLost(c) \/ AttemptRaises(c)
      PROVE  LostIsDealtWith' /\ ScanAfterLoss'
  BY <1>2 DEF ConnectionMade, ConnectionLost, AttemptRaises
<1>3. ASSUME NEW c \in Conns,
             ScanSkipped(c) \/ ScanFiltered(c) \/ ScanDue(c) \/ ScanLogged(c) \/ ScanRaises(c)
      PROVE  LostIsDealtWith' /\ ScanAfterLoss'
  BY <1>3 DEF ScanSkipped, ScanFiltered, ScanDue, ScanLogged, ScanRaises
<1>4. CASE UNCHANGED <<conn, scan, attempts>>
  BY <1>4
<1> QED
  BY <1>1, <1>2, <1>3, <1>4
  DEF Next, AttemptLogged, GrantLogged, AttemptCancelled, OpenChannel, ShellRequested,
      ChannelLost, QuietOver, Forget, vars

(* Every connection that is over leaves a trace of its own, or the scan    *)
(* event that made its address quiet stands for it; but for an event that  *)
(* raised or was cancelled, and for a connection without an attempt whose  *)
(* address is not known (ssh_server.py:192-258).                           *)
THEOREM TraceIsLeft == Spec => []LeavesATrace
<1>1. Init => TraceInv
  BY DEF Init, TraceInv, QuietIsTraced, ScanIsTraced, AttemptHasRow, LostIsDealtWith, ScanAfterLoss
<1>2. TypeOK /\ TraceInv /\ [Next]_vars => TraceInv'
  BY QuietIsTracedStep, ScanIsTracedStep, AttemptHasRowStep, LossStep DEF TraceInv
<1>3. TypeOK /\ TraceInv => LeavesATrace
  <2> SUFFICES ASSUME TypeOK, TraceInv, NEW c \in Conns, Over(c), ~HasRow(c), c \notin cut
               PROVE  Speaks(voice[c], peer[c]) \/ (peer[c] = UNKNOWN /\ attempts[c] = 0)
    BY DEF LeavesATrace, HasRow, Speaks
  <2>1. CASE scan[c] = "over"
    BY <2>1 DEF TraceInv, ScanIsTraced, ScanAfterLoss
  <2>2. CASE scan[c] = "none"
    BY <2>2 DEF TraceInv, LostIsDealtWith, AttemptHasRow, Over
  <2> QED
    BY <2>1, <2>2 DEF Over
<1> QED
  BY <1>1, <1>2, <1>3, TypeCorrect, PTL DEF Spec
----------------------------------------------------------------------------
(* The names of the attempts from an address that were not marked as       *)
(* stuffing or as an exploit, in the log or on their way there.            *)
Plain == {"guess", "pubkey"}

PlainNames(ip) ==
  {user \in Users :
     \/ \E row \in rows : peer[row[1]] = ip /\ row[2] = user /\ row[3] \in Plain
     \/ \E c \in Conns : peer[c] = ip /\ auth[c] = "logAttempt"
                         /\ try[c].user = user /\ try[c].class \in Plain}

(* The last of them was classified with the names tried until then, which  *)
(* included the names of all the others, and those were few.               *)
FewPlain ==
  forgets = 0 =>
    \A ip \in IPs :
       PlainNames(ip) \subseteq names[ip] /\ Cardinality(PlainNames(ip)) <= FewUsers

LEMMA NamesAreFinite ==
  ASSUME NEW S \in SUBSET Users, NEW T \in SUBSET S
  PROVE  /\ IsFiniteSet(S) /\ Cardinality(S) \in Nat
         /\ Cardinality(T) \in Nat /\ Cardinality(T) <= Cardinality(S)
<1>1. IsFiniteSet(S)
  BY FS_Subset, ConstantsAssumption DEF ConstantsAssumption
<1> QED
  BY <1>1, FS_Subset, FS_CardinalityType

LEMMA PlainMeansFew ==
  ASSUME TypeOK, NEW tried \in SUBSET Users, NEW before, NEW class \in Plain,
         class \in KeyClasses(tried) \cup PasswordClasses(before, tried)
  PROVE  Cardinality(tried) <= FewUsers
<1>1. Cardinality(tried) \in Nat /\ FewUsers \in Nat
  BY NamesAreFinite, ConstantsAssumption DEF ConstantsAssumption
<1>2. ~(Cardinality(tried) > FewUsers)
  BY DEF KeyClasses, PasswordClasses, Plain
<1> QED
  BY <1>1, <1>2

LEMMA FewPlainStep ==
  ASSUME TypeOK, FewPlain, [Next]_vars
  PROVE  FewPlain'
<1> SUFFICES ASSUME forgets' = 0, NEW ip \in IPs
             PROVE  /\ PlainNames(ip)' \subseteq names'[ip]
                    /\ Cardinality(PlainNames(ip)') <= FewUsers
  BY DEF FewPlain
<1>0. peer' = peer
  BY PeersStay
<1>1. CASE forgets = 0 /\ PlainNames(ip)' \subseteq PlainNames(ip) /\ names[ip] \subseteq names'[ip]
  <2>1. PlainNames(ip) \in SUBSET Users /\ PlainNames(ip)' \in SUBSET PlainNames(ip)
    BY <1>1 DEF PlainNames
  <2>2. /\ Cardinality(PlainNames(ip)') \in Nat /\ Cardinality(PlainNames(ip)) \in Nat
        /\ Cardinality(PlainNames(ip)') <= Cardinality(PlainNames(ip))
    BY <2>1, NamesAreFinite
  <2> QED
    BY <1>1, <2>2, ConstantsAssumption DEF FewPlain, ConstantsAssumption
<1>2. ASSUME NEW c \in Conns, NEW by \in {"password", "key"}, NEW user \in Users,
             Validate(c, by, user)
      PROVE  /\ PlainNames(ip)' \subseteq names'[ip]
             /\ Cardinality(PlainNames(ip)') <= FewUsers
  <2> DEFINE tried == names[peer[c]] \cup {user}
  <2>1. /\ forgets = 0 /\ rows' = rows /\ peer[c] \in IPs /\ tried \in SUBSET Users
        /\ names' = [names EXCEPT ![peer[c]] = tried]
        /\ auth[c] = "idle" /\ auth' = [auth EXCEPT ![c] = "logAttempt"]
    BY <1>2, ConstantsAssumption DEF Validate, TypeOK, logged, counted, ConstantsAssumption
  <2>2. PICK class \in IF by = "key" THEN KeyClasses(tried) ELSE PasswordClasses(names[peer[c]], tried) :
          try' = [try EXCEPT ![c] = [by |-> by, user |-> user, class |-> class,
                                     granted |-> peer[c] \in granted']]
    BY <1>2 DEF Validate
  <2>3. /\ try'[c].user = user /\ try'[c].class = class
        /\ \A d \in Conns \ {c} : try'[d] = try[d] /\ auth'[d] = auth[d]
    BY <2>1, <2>2 DEF TypeOK
  <2>4. names[ip] \subseteq names'[ip] /\ names'[ip] \in SUBSET Users
    BY <2>1 DEF TypeOK
  <2>5. CASE ip = peer[c] /\ class \in Plain
    <3>1. PlainNames(ip)' \subseteq PlainNames(ip) \cup {user}
      BY <1>0, <2>1, <2>3 DEF PlainNames
    <3>2. PlainNames(ip)' \subseteq names'[ip] /\ names'[ip] = tried
      BY <2>1, <2>5, <3>1 DEF FewPlain, TypeOK
    <3>3. Cardinality(tried) <= FewUsers
      BY <2>1, <2>2, <2>5, PlainMeansFew
    <3>4. Cardinality(PlainNames(ip)') \in Nat /\ Cardinality(tried) \in Nat
          /\ Cardinality(PlainNames(ip)') <= Cardinality(tried)
      BY <2>1, <3>2, NamesAreFinite
    <3> QED
      BY <3>2, <3>3, <3>4, ConstantsAssumption DEF ConstantsAssumption
  <2>6. CASE ~(ip = peer[c] /\ class \in Plain)
    <3>1. PlainNames(ip)' \subseteq PlainNames(ip)
      BY <1>0, <2>1, <2>3, <2>6 DEF PlainNames
    <3> QED
      BY <1>1, <2>1, <2>4, <3>1
  <2> QED
    BY <2>5, <2>6
<1>3. ASSUME NEW c \in Conns, AttemptLogged(c)
      PROVE  PlainNames(ip)' \subseteq PlainNames(ip)
  <2>1. /\ rows' = rows \cup {<<c, try[c].user, try[c].class>>}
        /\ auth[c] = "logAttempt" /\ auth'[c] # "logAttempt"
        /\ \A d \in Conns \ {c} : try'[d] = try[d] /\ auth'[d] = auth[d]
    BY <1>3 DEF AttemptLogged, TypeOK
  <2> QED
    BY <1>0, <2>1 DEF PlainNames
<1>4. ASSUME NEW c \in Conns, GrantLogged(c) \/ AttemptRaises(c) \/ AttemptCancelled(c)
      PROVE  PlainNames(ip)' \subseteq PlainNames(ip)
  <2>1. /\ rows' = rows /\ auth'[c] # "logAttempt"
        /\ \A d \in Conns \ {c} : try'[d] = try[d] /\ auth'[d] = auth[d]
    BY <1>4 DEF GrantLogged, AttemptRaises, AttemptCancelled, EndAttempt, TypeOK, logged
  <2> QED
    BY <1>0, <2>1 DEF PlainNames
<1>5. ASSUME UNCHANGED <<rows, auth, try>>
      PROVE  PlainNames(ip)' \subseteq PlainNames(ip)
  BY <1>0, <1>5 DEF PlainNames
<1>6. ASSUME NEW addr \in IPs, Forget(addr)
      PROVE  FALSE
  BY <1>6 DEF Forget, TypeOK
<1> QED
  BY <1>1, <1>2, <1>3, <1>4, <1>5, <1>6
  DEF Next, ConnectionMade, ConnectionLost, AttemptLogged, GrantLogged, AttemptRaises,
      AttemptCancelled, OpenChannel, ShellRequested, ChannelLost, ScanSkipped, ScanFiltered, ScanDue, ScanLogged,
      ScanRaises, QuietOver, vars, book, logged, counted

(* Many names tried from one address show in the log as stuffing, or one   *)
(* of them as an exploit, over whichever connections they came and         *)
(* whichever of their events were lost (ssh_server.py:75-77, utils.py:111).*)
THEOREM SpraysShow == Spec => []SprayShows
<1>1. Init => FewPlain
  <2> SUFFICES ASSUME Init, NEW ip \in IPs
               PROVE  PlainNames(ip) \subseteq names[ip] /\ Cardinality(PlainNames(ip)) <= FewUsers
    BY DEF FewPlain
  <2>1. PlainNames(ip) = {}
    BY DEF Init, PlainNames
  <2> QED
    BY <2>1, FS_EmptySet, ConstantsAssumption DEF ConstantsAssumption
<1>2. TypeOK /\ FewPlain => SprayShows
  <2> SUFFICES ASSUME TypeOK, FewPlain, forgets = 0, NEW ip \in IPs
               PROVE  LET from == {row \in rows : peer[row[1]] = ip}
                      IN  Cardinality({row[2] : row \in from}) > FewUsers =>
                              \E row \in from : row[3] \in {"stuffing", "exploit"}
    BY DEF SprayShows
  <2> DEFINE from == {row \in rows : peer[row[1]] = ip}
             tried == {row[2] : row \in from}
  <2> SUFFICES ASSUME \A row \in from : row[3] \notin {"stuffing", "exploit"}
               PROVE  ~(Cardinality(tried) > FewUsers)
    OBVIOUS
  <2>1. \A row \in from : row[2] \in PlainNames(ip)
    <3> TAKE row \in from
    <3>1. row[2] \in Users /\ row[3] \in Classes
      BY DEF TypeOK
    <3>2. row[3] \in Plain
      BY <3>1 DEF Classes, Plain
    <3> QED
      BY <3>1, <3>2 DEF PlainNames
  <2>2. tried \in SUBSET PlainNames(ip) /\ PlainNames(ip) \in SUBSET Users
    BY <2>1 DEF PlainNames
  <2>3. /\ Cardinality(tried) \in Nat /\ Cardinality(PlainNames(ip)) \in Nat
        /\ Cardinality(tried) <= Cardinality(PlainNames(ip))
    BY <2>2, NamesAreFinite
  <2>4. Cardinality(PlainNames(ip)) <= FewUsers
    BY DEF FewPlain
  <2> QED
    BY <2>3, <2>4, ConstantsAssumption DEF ConstantsAssumption
<1> QED
  BY <1>1, <1>2, FewPlainStep, ShellInvariant, PTL DEF Spec, ShellInv
=============================================================================
