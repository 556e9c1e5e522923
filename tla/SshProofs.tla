------------------------------ MODULE SshProofs ------------------------------
(***************************************************************************)
(* Proofs about what happens to SSH connections: how the server admits     *)
(* them (SshAdmission) and how a session takes its client's text           *)
(* (SshSession).  The two models share no state.                           *)
(*                                                                         *)
(* Proved: the permits of the semaphore are conserved, though its release  *)
(* and its acquire each hand permits to waiters that run later; no line of *)
(* the client is lost, split or taken out of turn; a client that waits for *)
(* its answers never runs more commands than the limit; and nothing is run *)
(* after the goodbye.                                                      *)
(***************************************************************************)
EXTENDS SshAdmission, SshSession, FiniteSetTheorems, SequenceTheorems,
        WellFoundedInduction, TLAPS

(* The waiters of a queue that are handed one of n permits: no more than   *)
(* n, since an index with fewer than n waiting before it is known by how   *)
(* many those are.                                                         *)
LEMMA FewAreLucky ==
  ASSUME AdmissionTypeOK, NEW queue \in Seq(Conns), NEW n \in Nat
  PROVE  LET lucky == FirstWaiting(queue, n)
         IN  /\ lucky \subseteq {d \in Conns : acq[d] = "waiting"}
             /\ IsFiniteSet(lucky) /\ Cardinality(lucky) \in Nat
             /\ Cardinality(lucky) <= n
<1> DEFINE waiting(i) == acq[queue[i]] = "waiting"
           before(i) == {k \in 1..(i - 1) : waiting(k)}
           I == {i \in DOMAIN queue : waiting(i) /\ Cardinality(before(i)) < n}
           rank == [i \in I |-> Cardinality(before(i))]
           lucky == FirstWaiting(queue, n)
<1>1. lucky = {queue[i] : i \in I} /\ \A i \in I : i \in Nat /\ i > 0 /\ queue[i] \in Conns
  BY DEF FirstWaiting
<1>2. \A i \in I : IsFiniteSet(before(i)) /\ Cardinality(before(i)) \in Nat
  <2>1. ASSUME NEW i \in I
        PROVE  IsFiniteSet(before(i))
    <3>1. IsFiniteSet(1..(i - 1)) /\ before(i) \subseteq 1..(i - 1)
      BY <1>1, FS_Interval
    <3> QED
      BY <3>1, FS_Subset
  <2> QED
    BY <2>1, FS_CardinalityType
<1>3. rank \in Injection(I, 0..(n - 1))
  <2>1. rank \in [I -> 0..(n - 1)]
    <3>1. \A i \in I : Cardinality(before(i)) \in Nat /\ Cardinality(before(i)) < n
      BY <1>2
    <3>2. \A i \in I : Cardinality(before(i)) \in 0..(n - 1)
      BY <3>1
    <3> QED
      BY <3>2
  <2>2. ASSUME NEW i \in I, NEW j \in I, i < j
        PROVE  rank[i] # rank[j]
    <3>1. i \in before(j) /\ i \notin before(i) /\ before(i) \subseteq before(j)
      BY <1>1, <2>2
    <3>2. Cardinality(before(i)) # Cardinality(before(j))
      BY <1>2, <3>1, FS_Subset
    <3> QED
      BY <3>2
  <2>3. \A i, j \in I : rank[i] = rank[j] => i = j
    <3>1. \A i, j \in I : i = j \/ i < j \/ j < i
      BY <1>1
    <3> QED
      BY <2>2, <3>1
  <2> QED
    BY <2>1, <2>3 DEF Injection, IsInjective
<1>4. IsFiniteSet(I) /\ Cardinality(I) <= n
  <2>1. IsFiniteSet(0..(n - 1)) /\ Cardinality(0..(n - 1)) = n
    BY FS_Interval
  <2> QED
    BY <1>3, <2>1, FS_Injection
<1>5. [i \in I |-> queue[i]] \in Surjection(I, lucky)
  BY <1>1 DEF Surjection
<1>6. IsFiniteSet(lucky) /\ Cardinality(lucky) <= Cardinality(I)
  BY <1>4, <1>5, FS_Surjection
<1>7. Cardinality(lucky) \in Nat /\ Cardinality(I) \in Nat
  BY <1>4, <1>6, FS_CardinalityType
<1>8. lucky \subseteq {d \in Conns : acq[d] = "waiting"}
  BY <1>1
<1> QED
  BY <1>4, <1>6, <1>7, <1>8

(* Who has a permit.                                                       *)
Served == {c \in Conns : acq[c] \in {"woken", "held"}}

(* They can be counted.                                                    *)
LEMMA ServedFinite == IsFiniteSet(Served) /\ Cardinality(Served) \in Nat
  BY FS_Subset, FS_CardinalityType, AdmissionAssumption DEF Served, AdmissionAssumption

(* Permits handed to waiters, while c goes to s, with its permit or not.   *)
LEMMA HandedOut ==
  ASSUME AdmissionTypeOK, NEW lucky, lucky \subseteq {d \in Conns : acq[d] = "waiting"},
         IsFiniteSet(lucky), NEW c \in Served, NEW s \in {"held", "done"},
         acq' = [d \in Conns |-> IF d = c THEN s ELSE IF d \in lucky THEN "woken" ELSE acq[d]]
  PROVE  Cardinality(Served') = Cardinality(Served) + Cardinality(lucky)
                                - (IF s = "done" THEN 1 ELSE 0)
<1>1. Served \cap lucky = {} /\ c \notin lucky /\ lucky \subseteq Conns /\ c \in Conns
  BY DEF Served
<1>2. IsFiniteSet(Served) /\ Cardinality(Served) \in Nat /\ Cardinality(lucky) \in Nat
  BY ServedFinite, FS_CardinalityType
<1>3. CASE s = "held"
  <2>1. Served' = Served \cup lucky
    BY <1>1, <1>3 DEF Served
  <2>2. Cardinality(Served') = Cardinality(Served) + Cardinality(lucky) - Cardinality({})
    BY <1>1, <1>2, <2>1, FS_Union
  <2> QED
    BY <1>2, <1>3, <2>2, FS_EmptySet
<1>4. CASE s = "done"
  <2>1. Served' = (Served \ {c}) \cup lucky
    BY <1>1, <1>4 DEF Served
  <2>2. IsFiniteSet(Served \ {c}) /\ Cardinality(Served \ {c}) = Cardinality(Served) - 1
    BY <1>2, FS_RemoveElement
  <2>3. (Served \ {c}) \cap lucky = {}
    BY <1>1
  <2>4. Cardinality(Served') = Cardinality(Served \ {c}) + Cardinality(lucky) - Cardinality({})
    BY <2>1, <2>2, <2>3, FS_Union
  <2> QED
    BY <1>2, <1>4, <2>2, <2>4, FS_EmptySet
<1> QED
  BY <1>3, <1>4

(* A queue without one of its places is a queue.                           *)
LEMMA RemoveAtType ==
  ASSUME NEW S, NEW q \in Seq(S), NEW i \in DOMAIN q
  PROVE  RemoveAt(q, i) \in Seq(S)
<1>1. SubSeq(q, 1, i - 1) \in Seq(S) /\ SubSeq(q, i + 1, Len(q)) \in Seq(S)
  OBVIOUS
<1> QED
  BY <1>1 DEF RemoveAt

(* A connection that was not made has no task, and one that holds a permit *)
(* is open.                                                                *)
Tasks ==
  \A c \in Conns :
    /\ stage[c] = "new" => acq[c] = "none"
    /\ acq[c] = "held" => stage[c] \in {"open", "closing"}

AdmissionInv == AdmissionTypeOK /\ PermitsConserved /\ Tasks
----------------------------------------------------------------------------
(* The arithmetic of the permits: what is free and what is handed out.     *)
LEMMA Conserved ==
  ASSUME AdmissionInv
  PROVE  /\ value \in Nat /\ MaxSessions \in Nat /\ Cardinality(Served) \in Nat
         /\ value + Cardinality(Served) = MaxSessions
  BY ServedFinite, AdmissionAssumption
  DEF AdmissionInv, AdmissionTypeOK, PermitsConserved, Served, AdmissionAssumption

(* Permits handed out after c took, kept or returned one.                  *)
LEMMA HandOutStep ==
  ASSUME AdmissionInv, NEW queue \in Seq(Conns), NEW c \in Served, NEW s \in {"held", "done"},
         HandOut(queue, value + (IF s = "done" THEN 1 ELSE 0), c, s)
  PROVE  /\ value' \in 0..MaxSessions
         /\ value' + Cardinality(Served') = MaxSessions
         /\ acq' \in [Conns -> {"none", "created", "waiting", "woken", "held", "done"}]
         /\ \A d \in Conns : d # c => acq'[d] = acq[d] \/ (acq[d] = "waiting" /\ acq'[d] = "woken")
         /\ acq'[c] = s
<1> DEFINE back == IF s = "done" THEN 1 ELSE 0
           n == value + back
           lucky == FirstWaiting(queue, n)
<1>0. n \in Nat /\ back \in {0, 1} /\ c \in Conns /\ AdmissionTypeOK
  BY Conserved DEF Served, AdmissionInv
<1>1. /\ lucky \subseteq {d \in Conns : acq[d] = "waiting"}
      /\ IsFiniteSet(lucky) /\ Cardinality(lucky) \in Nat
      /\ Cardinality(lucky) <= n
  BY <1>0, FewAreLucky
<1>2. /\ value' = n - Cardinality(lucky)
      /\ acq' = [d \in Conns |-> IF d = c THEN s ELSE IF d \in lucky THEN "woken" ELSE acq[d]]
  BY DEF HandOut
<1>3. Cardinality(Served') = Cardinality(Served) + Cardinality(lucky) - back
  BY <1>0, <1>1, <1>2, HandedOut
<1>4. /\ value' + Cardinality(Served') = MaxSessions
      /\ value' >= 0 /\ value' \in Int
  BY <1>0, <1>1, <1>2, <1>3, Conserved
<1>5. Cardinality(Served') \in Nat
  <2>1. IsFiniteSet(Served')
    BY FS_Subset, AdmissionAssumption DEF Served, AdmissionAssumption
  <2> QED
    BY <2>1, FS_CardinalityType
<1>6. value' \in 0..MaxSessions
  BY <1>4, <1>5, Conserved
<1> QED
  BY <1>0, <1>1, <1>2, <1>4, <1>6 DEF AdmissionTypeOK

(* No step makes or loses a permit.                                        *)
LEMMA AdmissionStep == AdmissionInv /\ [AdmissionNext]_admissionVars => AdmissionInv'
<1> SUFFICES ASSUME AdmissionInv, [AdmissionNext]_admissionVars
             PROVE  AdmissionInv'
  OBVIOUS
<1> DEFINE Acq == {"none", "created", "waiting", "woken", "held", "done"}
           Conn == {"new", "open", "closing", "closed"}
<1>0. /\ AdmissionTypeOK /\ Tasks
      /\ stage \in [Conns -> Conn] /\ acq \in [Conns -> Acq] /\ waiters \in Seq(Conns)
      /\ value \in Nat /\ MaxSessions \in Nat /\ Cardinality(Served) \in Nat
      /\ value + Cardinality(Served) = MaxSessions
  BY Conserved DEF AdmissionInv, AdmissionTypeOK
<1>1. ASSUME stage' \in [Conns -> Conn], acq' \in [Conns -> Acq], waiters' \in Seq(Conns),
             value' \in 0..MaxSessions, value' + Cardinality(Served') = MaxSessions,
             allConns' \subseteq Conns, auth' \subseteq Conns, scanned' \subseteq Conns,
             awaited' \subseteq Conns,
             UNCHANGED <<closer, listening>>, Tasks'
      PROVE  AdmissionInv'
  BY <1>0, <1>1 DEF AdmissionInv, AdmissionTypeOK, PermitsConserved, Served, Tasks
<1>2. ASSUME UNCHANGED <<acq, value>>
      PROVE  value' \in 0..MaxSessions /\ value' + Cardinality(Served') = MaxSessions
  <2>1. Served' = Served
    BY <1>2 DEF Served
  <2> QED
    BY <1>0, <1>2, <2>1
<1>3. ASSUME NEW c \in Conns, ConnectionMade(c)
      PROVE  AdmissionInv'
  <2>1. stage[c] = "new" /\ acq[c] = "none"
    BY <1>0, <1>3 DEF ConnectionMade, Tasks
  <2>2. CASE Locked
    <3>1. stage' = [stage EXCEPT ![c] = "closing"] /\ UNCHANGED acq
      BY <1>3, <2>2 DEF ConnectionMade
    <3>2. stage' \in [Conns -> Conn] /\ Tasks'
      BY <1>0, <3>1 DEF Tasks
    <3> QED
      BY <1>0, <1>1, <1>2, <1>3, <3>1, <3>2 DEF ConnectionMade, AdmissionTypeOK
  <2>3. CASE ~Locked
    <3>1. stage' = [stage EXCEPT ![c] = "open"] /\ acq' = [acq EXCEPT ![c] = "created"]
      BY <1>3, <2>3 DEF ConnectionMade
    <3>2. stage' \in [Conns -> Conn] /\ acq' \in [Conns -> Acq] /\ Tasks'
      BY <1>0, <3>1 DEF Tasks
    <3>3. Served' = Served
      BY <1>0, <2>1, <3>1 DEF Served
    <3> QED
      BY <1>0, <1>1, <1>3, <3>2, <3>3 DEF ConnectionMade, AdmissionTypeOK
  <2> QED
    BY <2>2, <2>3
<1>4. ASSUME NEW c \in Conns, AcquireStarts(c)
      PROVE  AdmissionInv'
  <2>1. acq[c] = "created" /\ stage[c] # "new"
    BY <1>0, <1>4 DEF AcquireStarts, Tasks
  <2>2. CASE Locked /\ waiters' = Append(waiters, c)
             /\ acq' = [acq EXCEPT ![c] = "waiting"] /\ UNCHANGED value
    <3>1. waiters' \in Seq(Conns) /\ acq' \in [Conns -> Acq]
      BY <1>0, <2>2
    <3>2. Served' = Served
      BY <1>0, <2>1, <2>2 DEF Served
    <3>3. Tasks'
      BY <1>0, <1>4, <2>1, <2>2 DEF AcquireStarts, Tasks
    <3> QED
      BY <1>0, <1>1, <1>4, <2>2, <3>1, <3>2, <3>3 DEF AcquireStarts, AdmissionTypeOK
  <2>3. CASE ~Locked /\ stage[c] # "closed" /\ value' = value - 1
             /\ acq' = [acq EXCEPT ![c] = "held"] /\ UNCHANGED waiters
    <3>1. acq' \in [Conns -> Acq]
      BY <1>0, <2>3
    <3>2. Served' = Served \cup {c} /\ c \notin Served
      BY <1>0, <2>1, <2>3 DEF Served
    <3>3. Cardinality(Served') = Cardinality(Served) + 1
      BY <3>2, ServedFinite, FS_AddElement
    <3>4. value > 0
      BY <1>0, <2>3 DEF Locked
    <3>5. value' \in 0..MaxSessions /\ value' + Cardinality(Served') = MaxSessions
      BY <1>0, <2>3, <3>3, <3>4
    <3>6. Tasks'
      BY <1>0, <1>4, <2>1, <2>3 DEF AcquireStarts, Tasks
    <3> QED
      BY <1>0, <1>1, <1>4, <2>3, <3>1, <3>5, <3>6 DEF AcquireStarts, AdmissionTypeOK
  <2>4. CASE ~Locked /\ stage[c] = "closed"
             /\ acq' = [acq EXCEPT ![c] = "done"] /\ UNCHANGED <<value, waiters>>
    <3>1. acq' \in [Conns -> Acq]
      BY <1>0, <2>4
    <3>2. Served' = Served
      BY <1>0, <2>1, <2>4 DEF Served
    <3>3. Tasks'
      BY <1>0, <1>4, <2>1, <2>4 DEF AcquireStarts, Tasks
    <3> QED
      BY <1>0, <1>1, <1>4, <2>4, <3>1, <3>2, <3>3 DEF AcquireStarts, AdmissionTypeOK
  <2> QED
    BY <1>4, <2>2, <2>3, <2>4 DEF AcquireStarts
<1>5. ASSUME NEW c \in Served, NEW queue \in Seq(Conns), NEW s \in {"held", "done"},
             HandOut(queue, value + (IF s = "done" THEN 1 ELSE 0), c, s),
             stage' \in [Conns -> Conn], \A d \in Conns : stage[d] # "new" => stage'[d] # "new",
             \A d \in Conns : d # c => stage'[d] = stage[d],
             s = "held" => stage'[c] \in {"open", "closing"},
             allConns' \subseteq Conns, scanned' \subseteq Conns,
             UNCHANGED <<auth, awaited, closer, listening>>
      PROVE  AdmissionInv'
  <2>1. /\ value' \in 0..MaxSessions
        /\ value' + Cardinality(Served') = MaxSessions
        /\ acq' \in [Conns -> Acq]
        /\ \A d \in Conns : d # c => acq'[d] = acq[d] \/ (acq[d] = "waiting" /\ acq'[d] = "woken")
        /\ acq'[c] = s
    BY <1>5, HandOutStep
  <2>2. waiters' = queue
    BY <1>5 DEF HandOut
  <2>3. c \in Conns /\ stage[c] # "new"
    BY <1>0, <1>5 DEF Served, Tasks
  <2>4. Tasks'
    BY <1>0, <1>5, <2>1, <2>3 DEF Tasks
  <2> QED
    BY <1>0, <1>1, <1>5, <2>1, <2>2, <2>4 DEF AdmissionTypeOK
<1>6. ASSUME NEW c \in Conns, AcquireResumes(c)
      PROVE  AdmissionInv'
  <2>1. PICK i \in DOMAIN waiters :
             IF stage[c] = "closed"
             THEN HandOut(RemoveAt(waiters, i), value + 1, c, "done")
             ELSE HandOut(RemoveAt(waiters, i), value, c, "held")
    BY <1>6 DEF AcquireResumes
  <2>2. c \in Served /\ RemoveAt(waiters, i) \in Seq(Conns) /\ stage[c] # "new"
    BY <1>0, <1>6, RemoveAtType DEF AcquireResumes, Served, Tasks
  <2>3. UNCHANGED <<stage, allConns, auth, scanned, closer, awaited, listening>>
    BY <1>6 DEF AcquireResumes
  <2>4. allConns' \subseteq Conns /\ scanned' \subseteq Conns /\ stage' \in [Conns -> Conn]
    BY <1>0, <2>3 DEF AdmissionTypeOK
  <2>5. CASE stage[c] = "closed"
    <3>1. HandOut(RemoveAt(waiters, i), value + (IF "done" = "done" THEN 1 ELSE 0), c, "done")
      BY <2>1, <2>5
    <3> QED
      BY <1>5, <2>2, <2>3, <2>4, <3>1
  <2>6. CASE stage[c] # "closed"
    <3>1. HandOut(RemoveAt(waiters, i), value + (IF "held" = "done" THEN 1 ELSE 0), c, "held")
      BY <1>0, <2>1, <2>6
    <3>2. stage'[c] \in {"open", "closing"}
      BY <1>0, <2>2, <2>3, <2>6
    <3> QED
      BY <1>5, <2>2, <2>3, <2>4, <3>1, <3>2
  <2> QED
    BY <2>5, <2>6
<1>7. ASSUME NEW c \in Conns, Authenticate(c) \/ Close(c)
      PROVE  AdmissionInv'
  <2>1. stage' \in [Conns -> Conn] /\ auth' \subseteq Conns /\ Tasks'
    BY <1>0, <1>7 DEF Authenticate, Close, AdmissionTypeOK, Tasks
  <2> QED
    BY <1>0, <1>1, <1>2, <1>7, <2>1 DEF Authenticate, Close, AdmissionTypeOK
<1>8. ASSUME NEW c \in Conns, ServerConnectionLost(c)
      PROVE  AdmissionInv'
  <2>1. /\ stage' = [stage EXCEPT ![c] = "closed"] /\ stage' \in [Conns -> Conn]
        /\ allConns' \subseteq Conns /\ scanned' \subseteq Conns
        /\ UNCHANGED <<auth, closer, awaited, listening>>
    BY <1>0, <1>8 DEF ServerConnectionLost, AdmissionTypeOK
  <2>2. CASE acq[c] = "held"
    <3>1. Release(c)
      BY <1>8, <2>2 DEF ServerConnectionLost
    <3>2. c \in Served
      BY <2>2 DEF Served
    <3> DEFINE lucky == FirstWaiting(waiters, 1)
    <3>3. /\ lucky \subseteq {d \in Conns : acq[d] = "waiting"}
          /\ IsFiniteSet(lucky) /\ Cardinality(lucky) \in Nat
          /\ Cardinality(lucky) <= 1
      BY <1>0, FewAreLucky
    <3>4. /\ value' = value + 1 - Cardinality(lucky) /\ waiters' = waiters
          /\ acq' = [d \in Conns |-> IF d = c THEN "done"
                                     ELSE IF d \in lucky THEN "woken" ELSE acq[d]]
      BY <3>1 DEF Release
    <3>5. Cardinality(Served') = Cardinality(Served) + Cardinality(lucky) - 1
      BY <1>0, <3>2, <3>3, <3>4, HandedOut
    <3>6. value' \in Nat /\ value' + Cardinality(Served') = MaxSessions
      BY <1>0, <3>3, <3>4, <3>5
    <3>7. Cardinality(Served') \in Nat
      <4>1. IsFiniteSet(Served')
        BY FS_Subset, AdmissionAssumption DEF Served, AdmissionAssumption
      <4> QED
        BY <4>1, FS_CardinalityType
    <3>8. value' \in 0..MaxSessions
      BY <1>0, <3>6, <3>7
    <3>9. acq' \in [Conns -> Acq] /\ Tasks'
      BY <1>0, <2>1, <3>3, <3>4 DEF Tasks
    <3> QED
      BY <1>0, <1>1, <2>1, <3>4, <3>6, <3>8, <3>9 DEF AdmissionTypeOK
  <2>3. CASE acq[c] # "held"
    <3>1. UNCHANGED <<acq, value, waiters>>
      BY <1>8, <2>3 DEF ServerConnectionLost
    <3>2. Tasks'
      BY <1>0, <2>1, <2>3, <3>1 DEF Tasks
    <3> QED
      BY <1>0, <1>1, <1>2, <2>1, <3>1, <3>2 DEF AdmissionTypeOK
  <2> QED
    BY <2>2, <2>3
<1>9. CASE CloseAllSessions
  <2>1. stage' \in [Conns -> Conn] /\ Tasks'
    BY <1>0, <1>9 DEF CloseAllSessions, Tasks
  <2>2. value' \in 0..MaxSessions /\ value' + Cardinality(Served') = MaxSessions
    BY <1>2, <1>9 DEF CloseAllSessions
  <2>3. PermitsConserved'
    BY <2>1, <2>2 DEF PermitsConserved, Tasks, Served
  <2>4. AdmissionTypeOK'
    BY <1>0, <1>9, <2>1 DEF CloseAllSessions, AdmissionTypeOK
  <2> QED
    BY <2>1, <2>3, <2>4 DEF AdmissionInv
<1>10. CASE CloseAllReturns
  <2>1. Tasks' /\ value' + Cardinality(Served') = MaxSessions
    BY <1>0, <1>2, <1>10 DEF CloseAllReturns, Tasks
  <2>2. PermitsConserved'
    BY <2>1 DEF PermitsConserved, Tasks, Served
  <2>3. AdmissionTypeOK'
    BY <1>0, <1>10 DEF CloseAllReturns, AdmissionTypeOK
  <2> QED
    BY <2>1, <2>2, <2>3 DEF AdmissionInv
<1>11. CASE UNCHANGED admissionVars
  BY <1>11 DEF admissionVars, AdmissionInv, AdmissionTypeOK, PermitsConserved, Tasks
<1> QED
  BY <1>3, <1>4, <1>6, <1>7, <1>8, <1>9, <1>10, <1>11 DEF AdmissionNext

(* The semaphore is never released beyond its bound and loses no permit,   *)
(* in whatever order tasks, closes and losses of connections run; and only *)
(* a connection that is not closed holds one (ssh_server.py:14, 41-53,     *)
(* 205-207).                                                               *)
THEOREM PermitsAreConserved == AdmissionSpec => []PermitsInv
<1>1. AdmissionInit => AdmissionInv
  <2> SUFFICES ASSUME AdmissionInit PROVE AdmissionInv
    OBVIOUS
  <2>1. Served = {}
    BY DEF AdmissionInit, Served
  <2>2. AdmissionTypeOK /\ Tasks
    BY AdmissionAssumption DEF AdmissionInit, AdmissionTypeOK, Tasks, AdmissionAssumption
  <2>3. PermitsConserved
    BY <2>1, <2>2, FS_EmptySet, AdmissionAssumption
    DEF AdmissionInit, PermitsConserved, Served, Tasks, AdmissionAssumption
  <2> QED
    BY <2>2, <2>3 DEF AdmissionInv
<1>2. AdmissionInv => PermitsInv
  BY DEF AdmissionInv, PermitsInv
<1> QED
  BY <1>1, <1>2, AdmissionStep, PTL DEF AdmissionSpec
----------------------------------------------------------------------------
(* A set of numbers that is not empty has a least one.                     *)
LEMMA LeastExists ==
  ASSUME NEW S \in SUBSET Nat, S # {}
  PROVE  \E x \in S : \A y \in S : x <= y
<1>1. PICK x \in S : \A y \in S : <<y, x>> \notin OpToRel(<, Nat)
  BY NatLessThanWellFounded, WFMin, Zenon
<1>2. \A y \in S : ~(y < x)
  BY <1>1 DEF OpToRel
<1> QED
  BY <1>2

(* The lines t + 1 to u.                                                   *)
Chunk(t, u) == [i \in 1..(u - t) |-> t + i]

(* The text from line t + 1 on.                                            *)
From(tokens, t) ==
  /\ Len(tokens) \in Nat /\ 2 * t + Len(tokens) <= 2 * NumLines
  /\ \A i \in 1..Len(tokens) : tokens[i] = Text[2 * t + i]

(* A number is even or odd.                                                *)
LEMMA Parity ==
  ASSUME NEW n \in Nat
  PROVE  \E h \in Nat : n = 2 * h \/ n = 2 * h + 1
<1>1. n \div 2 \in Nat /\ (n = 2 * (n \div 2) \/ n = 2 * (n \div 2) + 1)
  OBVIOUS
<1> QED
  BY <1>1

(* Every line of the text is followed by a newline, and there is nothing   *)
(* else in it.                                                             *)
LEMMA TextFacts ==
  /\ NumLines \in Nat /\ NL \notin Nat
  /\ Text \in Seq(Lines \cup {NL}) /\ Len(Text) = 2 * NumLines
  /\ \A h \in Lines : Text[2 * h] = NL /\ Text[2 * h - 1] = h
<1>1. NumLines \in Nat /\ NL \notin Nat
  BY ConstantsAssumption DEF ConstantsAssumption
<1>2. ASSUME NEW i \in 1..(2 * NumLines)
      PROVE  Text[i] \in Lines \cup {NL}
  <2>1. i \in Nat
    BY <1>1
  <2>2. PICK h \in Nat : i = 2 * h \/ i = 2 * h + 1
    BY <2>1, Parity
  <2> QED
    BY <1>1, <2>2 DEF Text, Lines
<1>3. ASSUME NEW h \in Lines
      PROVE  Text[2 * h] = NL /\ Text[2 * h - 1] = h
  <2>1. h \in Nat /\ 1 <= h /\ h <= NumLines
    BY <1>1 DEF Lines
  <2>2. 2 * h \in 1..(2 * NumLines) /\ 2 * h - 1 \in 1..(2 * NumLines)
    BY <1>1, <2>1
  <2>3. (2 * h) % 2 = 0 /\ (2 * h - 1) % 2 = 1 /\ (2 * h - 1 + 1) \div 2 = h
    BY <2>1
  <2> QED
    BY <2>2, <2>3 DEF Text
<1>4. Text \in Seq(Lines \cup {NL}) /\ Len(Text) = 2 * NumLines
  <2>1. 2 * NumLines \in Nat
    BY <1>1
  <2>2. Text \in [1..(2 * NumLines) -> Lines \cup {NL}]
    BY <1>2 DEF Text
  <2> QED
    BY <2>1, <2>2, SeqDef, LenProperties
<1> QED
  BY <1>1, <1>3, <1>4

(* Lines and newlines alternate.                                           *)
TokenAt(tokens, t, n, h) ==
  \/ n = 2 * h /\ tokens[n] = NL
  \/ n = 2 * h + 1 /\ tokens[n] = t + h + 1 /\ tokens[n] # NL

(* What a place of such a text holds.                                      *)
LEMMA TokenFacts ==
  ASSUME NEW t \in Nat, NEW tokens, From(tokens, t), NEW n \in 1..Len(tokens)
  PROVE  \E h \in Nat : TokenAt(tokens, t, n, h)
<1>1. PICK k \in Nat : k = Len(tokens)
  BY DEF From
<1>2. /\ n \in Nat /\ n >= 1 /\ n <= k /\ 2 * t + k <= 2 * NumLines
      /\ NumLines \in Nat /\ NL \notin Nat
  BY <1>1, TextFacts DEF From
<1>3. tokens[n] = Text[2 * t + n]
  BY <1>1, <1>2 DEF From
<1>4. PICK h \in Nat : n = 2 * h \/ n = 2 * h + 1
  BY <1>2, Parity
<1>5. CASE n = 2 * h
  <2>1. 2 * t + n = 2 * (t + h) /\ t + h \in 1..NumLines
    BY <1>2, <1>5
  <2> QED
    BY <1>3, <1>5, <2>1, TextFacts DEF Lines, TokenAt
<1>6. CASE n = 2 * h + 1
  <2>1. 2 * t + n = 2 * (t + h + 1) - 1 /\ t + h + 1 \in 1..NumLines
    BY <1>2, <1>6
  <2>2. tokens[n] = t + h + 1
    BY <1>3, <2>1, TextFacts DEF Lines
  <2> QED
    BY <1>2, <1>6, <2>2 DEF TokenAt
<1> QED
  BY <1>4, <1>5, <1>6

(* A chunk with the next line is a chunk.                                  *)
LEMMA ChunkGrows ==
  ASSUME NEW t \in Nat, NEW u \in Nat, t <= u
  PROVE  Chunk(t, u + 1) = Append(Chunk(t, u), u + 1)
<1>1. PICK h \in Nat : u = t + h
  <2>1. u - t \in Nat /\ u = t + (u - t)
    OBVIOUS
  <2> QED
    BY <2>1
<1>2. u - t = h /\ u + 1 - t = h + 1
  BY <1>1
<1>3. Chunk(t, u) = [i \in 1..h |-> t + i] /\ Chunk(t, u + 1) = [i \in 1..(h + 1) |-> t + i]
  BY <1>2 DEF Chunk
<1>4. Append([i \in 1..h |-> t + i], u + 1)
        = [i \in 1..(h + 1) |-> IF i = h + 1 THEN u + 1 ELSE t + i]
  OBVIOUS
<1> QED
  BY <1>1, <1>3, <1>4

(* What the lines of a text that starts with line t + 1 are.               *)
LEMMA LinesOfText ==
  ASSUME NEW t \in Nat, NEW u \in Nat, NEW tokens, From(tokens, t),
         2 * u = 2 * t + Len(tokens) \/ 2 * u = 2 * t + Len(tokens) + 1
  PROVE  LinesOf(tokens) = Chunk(t, u)
<1> DEFINE got[n \in 0..Len(tokens)] ==
             IF n = 0 THEN <<>>
             ELSE IF tokens[n] = NL THEN got[n - 1]
             ELSE Append(got[n - 1], tokens[n])
           e == [n \in 0..Len(tokens) |-> Chunk(t, t + (n + 1) \div 2)]
<1>1. LinesOf(tokens) = got[Len(tokens)]
  BY DEF LinesOf
<1>2. e = [n \in 0..Len(tokens) |->
             IF n = 0 THEN <<>>
             ELSE IF tokens[n] = NL THEN e[n - 1]
             ELSE Append(e[n - 1], tokens[n])]
  <2>1. e[0] = <<>>
    <3>1. (0 + 1) \div 2 = 0 /\ 0 \in 0..Len(tokens)
      BY DEF From
    <3> QED
      BY <3>1 DEF Chunk
  <2>2. ASSUME NEW n \in 1..Len(tokens)
        PROVE  e[n] = IF tokens[n] = NL THEN e[n - 1] ELSE Append(e[n - 1], tokens[n])
    <3>1. PICK k \in Nat : k = Len(tokens)
      BY DEF From
    <3>2. n \in 0..k /\ n - 1 \in 0..k /\ n \in Nat
      BY <3>1
    <3>3. e[n] = Chunk(t, t + (n + 1) \div 2) /\ e[n - 1] = Chunk(t, t + n \div 2)
      <4>1. n - 1 + 1 = n
        BY <3>2
      <4> QED
        BY <3>1, <3>2, <4>1
    <3> HIDE DEF e
    <3>4. PICK h \in Nat : TokenAt(tokens, t, n, h)
      BY TokenFacts
    <3>5. CASE n = 2 * h /\ tokens[n] = NL
      <4>1. (n + 1) \div 2 = h /\ n \div 2 = h
        BY <3>5
      <4> QED
        BY <3>3, <3>5, <4>1
    <3>6. CASE n = 2 * h + 1 /\ tokens[n] = t + h + 1 /\ tokens[n] # NL
      <4>1. (n + 1) \div 2 = h + 1 /\ n \div 2 = h /\ t + (h + 1) = t + h + 1
        BY <3>6
      <4>2. t + h \in Nat /\ t <= t + h
        OBVIOUS
      <4>3. Chunk(t, t + h + 1) = Append(Chunk(t, t + h), t + h + 1)
        BY <4>2, ChunkGrows
      <4> QED
        BY <3>3, <3>6, <4>1, <4>3
    <3> QED
      BY <3>4, <3>5, <3>6 DEF TokenAt
  <2>3. \A n \in 0..Len(tokens) : n = 0 \/ n \in 1..Len(tokens)
    BY DEF From
  <2>4. e = [n \in 0..Len(tokens) |-> e[n]]
    OBVIOUS
  <2> HIDE DEF e
  <2> QED
    BY <2>1, <2>2, <2>3, <2>4
<1> HIDE DEF e
<1>3. got = [n \in 0..Len(tokens) |->
               IF n = 0 THEN <<>>
               ELSE IF tokens[n] = NL THEN got[n - 1]
               ELSE Append(got[n - 1], tokens[n])]
  BY <1>2
<1> HIDE DEF got
<1>4. Len(tokens) \in Nat
  BY DEF From
<1> DEFINE Differ == {i \in 0..Len(tokens) : got[i] # e[i]}
<1>5. Differ = {}
  <2> SUFFICES ASSUME Differ # {}
               PROVE  FALSE
    OBVIOUS
  <2>1. PICK m \in Differ : \A y \in Differ : m <= y
    <3>1. Differ \in SUBSET Nat
      BY <1>4
    <3> HIDE DEF Differ
    <3> QED
      BY <3>1, LeastExists
  <2>2. m \in 0..Len(tokens) /\ got[m] # e[m]
    BY <2>1
  <2>3. CASE m = 0
    BY <1>2, <1>3, <2>2, <2>3
  <2>4. CASE m # 0
    <3>1. m - 1 \in 0..Len(tokens) /\ ~(m <= m - 1)
      BY <1>4, <2>2, <2>4
    <3>2. got[m - 1] = e[m - 1]
      BY <2>1, <3>1
    <3>3. /\ got[m] = IF tokens[m] = NL THEN got[m - 1] ELSE Append(got[m - 1], tokens[m])
          /\ e[m] = IF tokens[m] = NL THEN e[m - 1] ELSE Append(e[m - 1], tokens[m])
      BY <1>2, <1>3, <2>2, <2>4
    <3> QED
      BY <2>2, <3>2, <3>3
  <2> QED
    BY <2>3, <2>4
<1>6. Len(tokens) \in 0..Len(tokens)
  BY <1>4
<1>7. got[Len(tokens)] = e[Len(tokens)]
  BY <1>5, <1>6
<1>8. e[Len(tokens)] = Chunk(t, u)
  <2>1. e[Len(tokens)] = Chunk(t, t + (Len(tokens) + 1) \div 2)
    BY <1>6 DEF e
  <2>2. PICK k \in Nat : k = Len(tokens)
    BY <1>4
  <2>3. t + (k + 1) \div 2 = u
    BY <2>2
  <2> QED
    BY <2>1, <2>2, <2>3
<1> QED
  BY <1>1, <1>7, <1>8
----------------------------------------------------------------------------
(* The first d lines are dealt with, or lost with their task.              *)
Dealt(d) ==
  /\ \A i \in DOMAIN handled : handled[i] \in 1..d
  /\ \A i \in DOMAIN lost : lost[i] \in 1..d
  /\ \A i, j \in DOMAIN handled : i < j => handled[i] < handled[j]
  /\ ToSet(handled) \cap ToSet(lost) = {}
  /\ faults = 0 => handled = Chunk(0, d)

(* The next ones up to t are with a task, and the buffer is what has come  *)
(* of the text behind them.                                                *)
Placed(d, t) ==
  /\ d <= t /\ Dealt(d)
  /\ work = Chunk(d, t)
  /\ From(buffer, t) /\ sent = 2 * t + Len(buffer)

(* A patient client has one line at most between its Enter and its answer, *)
(* and none once the session is over.                                      *)
Waits(d, t) ==
  patient =>
    /\ sent <= 2 * t + 2
    /\ IF sent = 2 * t + 2 THEN pending = 1 ELSE pending = 0
    /\ d < t => t = d + 1
    /\ pending = 0 \/ d = t
    /\ d < t => sent = 2 * t
    /\ chan => Len(executed) + (IF logging THEN 1 ELSE 0) <= count
    /\ ~chan => /\ conn # "open" /\ pending = 0 /\ d = t
                /\ Len(executed) <= MaxCommands

(* Lines 1 to d are dealt with, d + 1 to t are with a task.                *)
SessionInv == TypeOK /\ \E d, t \in Nat : Placed(d, t) /\ Waits(d, t)
----------------------------------------------------------------------------
(* What a chunk holds.                                                     *)
LEMMA ChunkFacts ==
  ASSUME NEW d \in Nat, NEW t \in Nat, d <= t
  PROVE  /\ Chunk(d, t) \in Seq(Nat) /\ Len(Chunk(d, t)) = t - d
         /\ \A i \in 1..(t - d) : Chunk(d, t)[i] = d + i
         /\ t <= NumLines => Chunk(d, t) \in Seq(Lines)
<1>1. t - d \in Nat
  OBVIOUS
<1>2. Chunk(d, t) \in [1..(t - d) -> Nat]
  BY <1>1 DEF Chunk
<1>3. ASSUME t <= NumLines
      PROVE  Chunk(d, t) \in [1..(t - d) -> Lines]
  BY <1>1, <1>3, TextFacts DEF Chunk, Lines
<1>4. Chunk(d, t) \in Seq(Nat) /\ Len(Chunk(d, t)) = t - d
  BY <1>1, <1>2, SeqDef, LenProperties
<1>5. t <= NumLines => Chunk(d, t) \in Seq(Lines)
  BY <1>1, <1>3, SeqDef
<1>6. \A i \in 1..(t - d) : Chunk(d, t)[i] = d + i
  BY DEF Chunk
<1> QED
  BY <1>4, <1>5, <1>6

(* A chunk without its first line is a chunk.                              *)
LEMMA ChunkHead ==
  ASSUME NEW d \in Nat, NEW t \in Nat, d <= t
  PROVE  /\ Chunk(d, t) = <<>> <=> d = t
         /\ d < t => /\ Chunk(d, t) # <<>> /\ Head(Chunk(d, t)) = d + 1
                     /\ Tail(Chunk(d, t)) = Chunk(d + 1, t)
<1>1. PICK s \in Seq(Nat) : s = Chunk(d, t)
  BY ChunkFacts
<1>2. Len(s) = t - d /\ \A i \in 1..(t - d) : s[i] = d + i
  BY <1>1, ChunkFacts
<1>3. s = <<>> <=> d = t
  BY <1>2, EmptySeq
<1>4. ASSUME d < t
      PROVE  s # <<>> /\ Head(s) = d + 1 /\ Tail(s) = Chunk(d + 1, t)
  <2>1. s # <<>> /\ Head(s) = s[1] /\ 1 \in 1..(t - d)
    BY <1>3, <1>4, HeadTailProperties
  <2>2. /\ Tail(s) \in Seq(Nat) /\ Len(Tail(s)) = t - d - 1
        /\ \A i \in 1..Len(Tail(s)) : Tail(s)[i] = s[i + 1]
    BY <1>2, <2>1, HeadTailProperties
  <2>3. d + 1 \in Nat /\ d + 1 <= t /\ t - (d + 1) = t - d - 1
    BY <1>4
  <2>4. /\ Chunk(d + 1, t) \in Seq(Nat) /\ Len(Chunk(d + 1, t)) = t - d - 1
        /\ \A i \in 1..(t - d - 1) : Chunk(d + 1, t)[i] = d + 1 + i
    BY <2>3, ChunkFacts
  <2>5. \A i \in 1..Len(Tail(s)) : Tail(s)[i] = Chunk(d + 1, t)[i]
    <3> TAKE i \in 1..Len(Tail(s))
    <3>1. i \in 1..(t - d - 1) /\ i + 1 \in 1..(t - d) /\ d + (i + 1) = d + 1 + i
      BY <1>4, <2>2
    <3> QED
      BY <1>2, <2>2, <2>4, <3>1
  <2>6. Tail(s) = Chunk(d + 1, t)
    BY <2>2, <2>4, <2>5, SeqEqual
  <2> QED
    BY <1>2, <2>1, <2>6
<1> QED
  BY <1>1, <1>3, <1>4

(* Two chunks that adjoin make one.                                        *)
LEMMA ChunksJoin ==
  ASSUME NEW a \in Nat, NEW b \in Nat, NEW c \in Nat, a <= b, b <= c
  PROVE  Chunk(a, b) \o Chunk(b, c) = Chunk(a, c)
<1>1. PICK r \in Seq(Nat) : r = Chunk(a, b)
  BY ChunkFacts
<1>2. PICK s \in Seq(Nat) : s = Chunk(b, c)
  BY ChunkFacts
<1>3. PICK w \in Seq(Nat) : w = Chunk(a, c)
  BY ChunkFacts
<1>4. /\ a <= c /\ b - a \in Nat /\ c - b \in Nat /\ c - a \in Nat
      /\ c - a = (b - a) + (c - b)
  OBVIOUS
<1>r. Len(r) = b - a /\ \A i \in 1..(b - a) : r[i] = a + i
  BY <1>1, ChunkFacts
<1>s. Len(s) = c - b /\ \A i \in 1..(c - b) : s[i] = b + i
  BY <1>2, ChunkFacts
<1>w. Len(w) = c - a /\ \A i \in 1..(c - a) : w[i] = a + i
  BY <1>3, <1>4, ChunkFacts
<1>p. /\ r \o s \in Seq(Nat) /\ Len(r \o s) = Len(r) + Len(s)
      /\ \A i \in 1..(Len(r) + Len(s)) :
           (r \o s)[i] = IF i <= Len(r) THEN r[i] ELSE s[i - Len(r)]
  BY ConcatProperties
<1>5. /\ r \o s \in Seq(Nat) /\ Len(r \o s) = c - a
      /\ \A i \in 1..(c - a) : (r \o s)[i] = IF i <= b - a THEN r[i] ELSE s[i - (b - a)]
  BY <1>4, <1>r, <1>s, <1>p
<1>6. \A i \in 1..(c - a) : (r \o s)[i] = a + i
  <2> TAKE i \in 1..(c - a)
  <2>1. CASE i <= b - a
    BY <1>r, <1>5, <2>1
  <2>2. CASE ~(i <= b - a)
    <3>1. i - (b - a) \in 1..(c - b) /\ b + (i - (b - a)) = a + i
      BY <2>2
    <3>2. s[i - (b - a)] = b + (i - (b - a))
      BY <1>s, <3>1
    <3> QED
      BY <1>5, <2>2, <3>1, <3>2
  <2> QED
    BY <2>1, <2>2
<1>7. r \o s = w
  <2>1. \A i \in 1..Len(r \o s) : (r \o s)[i] = w[i]
    BY <1>w, <1>5, <1>6
  <2> QED
    BY <1>w, <1>5, <2>1, SeqEqual
<1> QED
  BY <1>1, <1>2, <1>3, <1>7

(* A piece of the text, wherever it starts.                                *)
LEMMA PieceFacts ==
  ASSUME NEW m \in Nat, NEW n \in Nat, m <= n, n <= 2 * NumLines
  PROVE  /\ SubSeq(Text, m + 1, n) \in Seq(Lines \cup {NL})
         /\ Len(SubSeq(Text, m + 1, n)) = n - m
         /\ \A i \in 1..(n - m) : SubSeq(Text, m + 1, n)[i] = Text[m + i]
<1>1. PICK s \in Seq(Lines \cup {NL}) : s = Text /\ Len(s) = 2 * NumLines
  BY TextFacts
<1>2. m + 1 \in Int /\ n \in Int /\ n - (m + 1) + 1 = n - m
  OBVIOUS
<1>3. \A i \in (m + 1)..n : s[i] \in Lines \cup {NL}
  <2>1. \A i \in (m + 1)..n : i \in 1..Len(s)
    BY <1>1, TextFacts
  <2> QED
    BY <2>1
<1>4. /\ SubSeq(s, m + 1, n) \in Seq(Lines \cup {NL})
      /\ Len(SubSeq(s, m + 1, n)) = IF m + 1 <= n THEN n - (m + 1) + 1 ELSE 0
      /\ \A i \in 1..(n - (m + 1) + 1) : SubSeq(s, m + 1, n)[i] = s[m + 1 + i - 1]
  BY <1>2, <1>3, SubSeqProperties
<1>5. Len(SubSeq(s, m + 1, n)) = n - m
  BY <1>2, <1>4
<1>6. \A i \in 1..(n - m) : m + 1 + i - 1 = m + i
  OBVIOUS
<1> QED
  BY <1>1, <1>2, <1>4, <1>5, <1>6
----------------------------------------------------------------------------
(* There is a newline just if there is a whole line.                       *)
LEMMA NewlineFacts ==
  ASSUME NEW t \in Nat, NEW tokens, From(tokens, t)
  PROVE  Contains(tokens, NL) <=> Len(tokens) >= 2
<1>1. PICK k \in Nat : k = Len(tokens)
  BY DEF From
<1>2. ASSUME NEW i \in 1..k, tokens[i] = NL
      PROVE  k >= 2
  <2>1. PICK h \in Nat : TokenAt(tokens, t, i, h)
    BY <1>1, TokenFacts
  <2> QED
    BY <1>2, <2>1 DEF TokenAt
<1>3. ASSUME k >= 2
      PROVE  2 \in 1..k /\ tokens[2] = NL
  <2>1. 2 \in 1..Len(tokens)
    BY <1>1, <1>3
  <2>2. PICK h \in Nat : TokenAt(tokens, t, 2, h)
    BY <2>1, TokenFacts
  <2> QED
    BY <1>1, <2>1, <2>2 DEF TokenAt
<1> QED
  BY <1>1, <1>2, <1>3 DEF Contains

(* A task takes the lines t + 1 to u, and leaves the text from u on.       *)
LEMMA TakeFacts ==
  ASSUME NEW t \in Nat, From(buffer, t), Contains(buffer, NL),
         buffer \in Seq(Lines \cup {NL})
  PROVE  \E u \in Nat :
           /\ t < u /\ u <= NumLines /\ WholeLines = Chunk(t, u)
           /\ From(Rest, u) /\ Rest \in Seq(Lines \cup {NL})
           /\ 2 * t + Len(buffer) = 2 * u + Len(Rest)
<1>1. PICK k \in Nat : k = Len(buffer)
  BY DEF From
<1>2. k >= 2 /\ 2 * t + k <= 2 * NumLines /\ NumLines \in Nat
  BY <1>1, NewlineFacts, TextFacts DEF From
<1>3. \A i \in 1..k : buffer[i] = Text[2 * t + i]
  BY <1>1 DEF From
<1>4. PICK h \in Nat : k = 2 * h \/ k = 2 * h + 1
  BY Parity
<1>5. h >= 1 /\ 2 * h \in 1..k /\ 2 * h <= k
  BY <1>2, <1>4
<1>6. buffer[2 * h] = NL
  <2>1. PICK g \in Nat : TokenAt(buffer, t, 2 * h, g)
    BY <1>1, <1>5, TokenFacts
  <2> QED
    BY <2>1 DEF TokenAt
<1>7. ASSUME NEW i \in 1..k, buffer[i] = NL
      PROVE  i <= 2 * h
  <2>1. PICK g \in Nat : TokenAt(buffer, t, i, g)
    BY <1>1, TokenFacts
  <2> QED
    BY <1>4, <1>7, <2>1 DEF TokenAt
<1>8. DOMAIN buffer = 1..k /\ \A i \in 1..k : buffer[i] \in Lines \cup {NL}
  BY <1>1, LenProperties, ElementOfSeq
<1> DEFINE IsLast(i) ==
             buffer[i] = NL /\ \A j \in DOMAIN buffer : buffer[j] = NL => j <= i
<1>9. LastNL = 2 * h
  <2>1. 2 * h \in DOMAIN buffer /\ IsLast(2 * h)
    BY <1>5, <1>6, <1>7, <1>8
  <2>2. \A i \in DOMAIN buffer : IsLast(i) => i <= 2 * h
    BY <1>7, <1>8
  <2>3. \A i \in DOMAIN buffer : IsLast(i) => 2 * h <= i
    BY <2>1
  <2>4. \A i \in DOMAIN buffer : i \in Nat
    BY <1>8
  <2>5. \A i \in DOMAIN buffer : IsLast(i) => i = 2 * h
    BY <2>2, <2>3, <2>4
  <2>6. LastNL = CHOOSE i \in DOMAIN buffer : IsLast(i)
    BY DEF LastNL
  <2> HIDE DEF IsLast
  <2> QED
    BY <2>1, <2>5, <2>6
<1>10. WholeLines = Chunk(t, t + h)
  <2>1. PICK s : s = SubSeq(buffer, 1, 2 * h)
    OBVIOUS
  <2>2. \A i \in 1..(2 * h) : buffer[i] \in Lines \cup {NL}
    BY <1>5, <1>8
  <2>3. 2 * h \in Int /\ 1 \in Int /\ 2 * h - 1 + 1 = 2 * h
    OBVIOUS
  <2>4. /\ Len(s) = IF 1 <= 2 * h THEN 2 * h - 1 + 1 ELSE 0
        /\ \A i \in 1..(2 * h - 1 + 1) : s[i] = buffer[1 + i - 1]
    BY <2>1, <2>2, <2>3, SubSeqProperties
  <2>5. Len(s) = 2 * h /\ \A i \in 1..(2 * h) : s[i] = buffer[i]
    <3>1. \A i \in 1..(2 * h) : 1 + i - 1 = i
      OBVIOUS
    <3> QED
      BY <1>5, <2>3, <2>4, <3>1
  <2>6. From(s, t)
    <3>1. \A i \in 1..(2 * h) : s[i] = Text[2 * t + i]
      BY <1>3, <1>5, <2>5
    <3>2. 2 * h \in Nat /\ 2 * t + 2 * h <= 2 * NumLines
      BY <1>2, <1>5
    <3> QED
      BY <2>5, <3>1, <3>2 DEF From
  <2>7. 2 * (t + h) = 2 * t + Len(s) /\ t + h \in Nat
    BY <2>5
  <2>8. LinesOf(s) = Chunk(t, t + h)
    BY <2>6, <2>7, LinesOfText
  <2> QED
    BY <1>9, <2>1, <2>8 DEF WholeLines
<1>11. PICK s : s = SubSeq(buffer, 2 * h + 1, k)
  OBVIOUS
<1>12. s = Rest
  BY <1>1, <1>9, <1>11 DEF Rest
<1>13. /\ s \in Seq(Lines \cup {NL}) /\ Len(s) = k - 2 * h
       /\ \A i \in 1..(k - 2 * h) : s[i] = buffer[2 * h + i]
  <2>1. \A i \in (2 * h + 1)..k : buffer[i] \in Lines \cup {NL}
    BY <1>8
  <2>2. 2 * h + 1 \in Int /\ k \in Int /\ k - (2 * h + 1) + 1 = k - 2 * h
    OBVIOUS
  <2>3. /\ s \in Seq(Lines \cup {NL})
        /\ Len(s) = IF 2 * h + 1 <= k THEN k - (2 * h + 1) + 1 ELSE 0
        /\ \A i \in 1..(k - (2 * h + 1) + 1) : s[i] = buffer[2 * h + 1 + i - 1]
    BY <1>11, <2>1, <2>2, SubSeqProperties
  <2>4. Len(s) = k - 2 * h
    BY <1>5, <2>2, <2>3
  <2>5. \A i \in 1..(k - 2 * h) : 2 * h + 1 + i - 1 = 2 * h + i
    OBVIOUS
  <2> QED
    BY <2>2, <2>3, <2>4, <2>5
<1>14. From(s, t + h)
  <2>1. \A i \in 1..(k - 2 * h) : 2 * h + i \in 1..k /\ 2 * t + (2 * h + i) = 2 * (t + h) + i
    BY <1>5
  <2>2. \A i \in 1..(k - 2 * h) : s[i] = Text[2 * (t + h) + i]
    BY <1>3, <1>13, <2>1
  <2>3. k - 2 * h \in Nat /\ 2 * (t + h) + (k - 2 * h) <= 2 * NumLines
    BY <1>2, <1>5
  <2> QED
    BY <1>13, <2>2, <2>3 DEF From
<1>15. /\ t + h \in Nat /\ t < t + h /\ t + h <= NumLines
       /\ 2 * t + k = 2 * (t + h) + (k - 2 * h)
  BY <1>2, <1>5
<1> QED
  BY <1>1, <1>10, <1>12, <1>13, <1>14, <1>15

(* data_received puts the next of the text behind the buffer.              *)
LEMMA ReceiveFacts ==
  ASSUME TypeOK, NEW t \in Nat, From(buffer, t), sent = 2 * t + Len(buffer),
         NEW n \in 1..(2 * NumLines), DataReceived(n)
  PROVE  /\ From(buffer', t) /\ buffer' \in Seq(Lines \cup {NL})
         /\ sent' = sent + n /\ sent' \in 0..(2 * NumLines)
         /\ sent' = 2 * t + Len(buffer')
         /\ Contains(buffer', NL) <=> sent' >= 2 * t + 2
<1>1. PICK k \in Nat : k = Len(buffer)
  BY DEF From
<1>2. NumLines \in Nat /\ n \in Nat /\ sent = 2 * t + k /\ sent + n <= 2 * NumLines
  <2>1. n \in 1..(2 * NumLines - sent) /\ sent \in 0..(2 * NumLines)
    BY DEF DataReceived, TypeOK
  <2> QED
    BY <1>1, <2>1, TextFacts
<1>0. /\ sent' = sent + n /\ buffer' = buffer \o SubSeq(Text, sent + 1, sent + n)
      /\ buffer \in Seq(Lines \cup {NL})
  BY DEF DataReceived, TypeOK
<1>3. sent \in Nat /\ sent + n \in Nat /\ sent <= sent + n /\ sent + n - sent = n
  BY <1>2
<1>p. PICK piece : piece = SubSeq(Text, sent + 1, sent + n)
  OBVIOUS
<1>4. /\ piece \in Seq(Lines \cup {NL})
      /\ Len(piece) = n /\ \A i \in 1..n : piece[i] = Text[sent + i]
  <2>1. PICK last \in Nat : last = sent + n /\ sent <= last /\ last <= 2 * NumLines
    BY <1>2, <1>3
  <2>2. /\ SubSeq(Text, sent + 1, last) \in Seq(Lines \cup {NL})
        /\ Len(SubSeq(Text, sent + 1, last)) = last - sent
        /\ \A i \in 1..(last - sent) : SubSeq(Text, sent + 1, last)[i] = Text[sent + i]
    BY <1>3, <2>1, PieceFacts
  <2>3. last - sent = n
    BY <1>3, <2>1
  <2> QED
    BY <1>p, <2>1, <2>2, <2>3
<1>5. PICK b \in Seq(Lines \cup {NL}) : b = buffer \o piece
  BY <1>0, <1>4, ConcatProperties
<1>c. /\ Len(buffer \o piece) = Len(buffer) + Len(piece)
      /\ \A i \in 1..(Len(buffer) + Len(piece)) :
           (buffer \o piece)[i] = IF i <= Len(buffer) THEN buffer[i] ELSE piece[i - Len(buffer)]
  BY <1>0, <1>4, ConcatProperties
<1>6. Len(b) = k + n /\ \A i \in 1..(k + n) : b[i] = IF i <= k THEN buffer[i] ELSE piece[i - k]
  BY <1>1, <1>4, <1>5, <1>c
<1>7. \A i \in 1..(k + n) : b[i] = Text[2 * t + i]
  <2> TAKE i \in 1..(k + n)
  <2>1. CASE i <= k
    <3>1. i \in 1..Len(buffer)
      BY <1>1, <2>1
    <3> QED
      BY <1>6, <2>1, <3>1 DEF From
  <2>2. CASE ~(i <= k)
    <3>1. i - k \in 1..n /\ sent + (i - k) = 2 * t + i
      BY <1>2, <2>2
    <3>2. piece[i - k] = Text[2 * t + i]
      BY <1>4, <3>1
    <3> QED
      BY <1>6, <2>2, <3>2
  <2> QED
    BY <2>1, <2>2
<1>8. /\ k + n \in Nat /\ 2 * t + (k + n) <= 2 * NumLines /\ sent' = 2 * t + (k + n)
      /\ sent' \in 0..(2 * NumLines) /\ (k + n >= 2 <=> sent' >= 2 * t + 2)
  <2>1. sent' = 2 * t + (k + n)
    <3>1. sent' = sent + n
      BY <1>0
    <3> QED
      BY <1>2, <3>1
  <2>2. k + n \in Nat /\ 2 * t + (k + n) <= 2 * NumLines
    BY <1>2
  <2>3. PICK z \in Nat : z = sent'
    BY <2>1, <2>2
  <2>4. z \in 0..(2 * NumLines) /\ (k + n >= 2 <=> z >= 2 * t + 2)
    BY <1>2, <2>1, <2>2, <2>3
  <2> QED
    BY <2>1, <2>2, <2>3, <2>4
<1>9. From(b, t)
  BY <1>6, <1>7, <1>8 DEF From
<1>10. Contains(b, NL) <=> Len(b) >= 2
  BY <1>9, NewlineFacts
<1>11. buffer' = b
  BY <1>0, <1>p, <1>5
<1>12. From(buffer', t)
  BY <1>9, <1>11
<1>13. sent' = 2 * t + Len(buffer') /\ buffer' \in Seq(Lines \cup {NL})
  BY <1>6, <1>8, <1>11
<1>14. Contains(buffer', NL) <=> sent' >= 2 * t + 2
  <2>1. Len(b) >= 2 <=> sent' >= 2 * t + 2
    BY <1>6, <1>8
  <2> QED
    BY <1>10, <1>11, <2>1
<1> QED
  BY <1>0, <1>8, <1>12, <1>13, <1>14
----------------------------------------------------------------------------
(* Where the lines are, as numbers.                                        *)
LEMMA Standing ==
  ASSUME TypeOK, NEW d \in Nat, NEW t \in Nat, Placed(d, t)
  PROVE  /\ d <= t /\ t <= NumLines /\ NumLines \in Nat /\ sent \in Nat
         /\ sent >= 2 * t
         /\ Contains(buffer, NL) <=> sent >= 2 * t + 2
         /\ work = <<>> <=> d = t
         /\ d < t => /\ d + 1 \in Lines /\ d + 1 \in 1..t
                     /\ Head(work) = d + 1 /\ Tail(work) = Chunk(d + 1, t)
<1>1. PICK k \in Nat : k = Len(buffer)
  BY DEF Placed, From
<1>2. /\ d <= t /\ 2 * t + k <= 2 * NumLines /\ sent = 2 * t + k
      /\ NumLines \in Nat
  BY <1>1, TextFacts DEF Placed, From
<1>3. Contains(buffer, NL) <=> k >= 2
  BY <1>1, NewlineFacts DEF Placed
<1>4. Contains(buffer, NL) <=> sent >= 2 * t + 2
  BY <1>2, <1>3
<1>5. t <= NumLines /\ sent \in Nat /\ sent >= 2 * t
  BY <1>2
<1>6. work = Chunk(d, t)
  BY DEF Placed
<1>7. work = <<>> <=> d = t
  BY <1>2, <1>6, ChunkHead
<1>8. d < t => Head(work) = d + 1 /\ Tail(work) = Chunk(d + 1, t)
  BY <1>2, <1>6, ChunkHead
<1>9. d < t => d + 1 \in Lines /\ d + 1 \in 1..t
  BY <1>2, <1>5 DEF Lines
<1> QED
  BY <1>2, <1>4, <1>5, <1>7, <1>8, <1>9

(* The first line of the task is dealt with.                               *)
LEMMA LineDoneFacts ==
  ASSUME TypeOK, NEW d \in Nat, NEW t \in Nat, Placed(d, t), work # <<>>, LineDone,
         UNCHANGED <<sent, buffer, lost, faults>>
  PROVE  /\ Placed(d + 1, t)' /\ d < t
         /\ handled' \in Seq(Lines) /\ work' \in Seq(Lines)
<1>1. /\ d < t /\ d + 1 \in Lines /\ Head(work) = d + 1 /\ work' = Chunk(d + 1, t)
      /\ t <= NumLines /\ d + 1 \in Nat /\ d + 1 <= t
  BY Standing DEF LineDone
<1>2. PICK n \in Nat : n = Len(handled) /\ DOMAIN handled = 1..n
  BY LenProperties DEF TypeOK
<1>3. /\ handled' \in Seq(Lines) /\ DOMAIN handled' = 1..(n + 1)
      /\ \A i \in 1..n : handled'[i] = handled[i]
      /\ handled'[n + 1] = d + 1
  <2>1. handled \in Seq(Lines) /\ handled' = Append(handled, d + 1)
    BY <1>1 DEF TypeOK, LineDone
  <2>2. /\ Append(handled, d + 1) \in Seq(Lines) /\ Len(Append(handled, d + 1)) = n + 1
        /\ \A i \in 1..n : Append(handled, d + 1)[i] = handled[i]
        /\ Append(handled, d + 1)[n + 1] = d + 1
    BY <1>1, <1>2, <2>1, AppendProperties
  <2> QED
    BY <2>1, <2>2, LenProperties
<1>4. PICK L : L = DOMAIN lost /\ \A i \in L : lost[i] \in 1..d
  BY DEF Placed, Dealt
<1>5. \A i \in 1..n : handled[i] \in 1..d
  BY <1>2 DEF Placed, Dealt
<1>6. \A i \in DOMAIN handled' : handled'[i] \in 1..(d + 1)
  <2>1. \A i \in 1..(n + 1) : i \in 1..n \/ i = n + 1
    OBVIOUS
  <2> QED
    BY <1>3, <1>5, <2>1
<1>7. \A i, j \in DOMAIN handled' : i < j => handled'[i] < handled'[j]
  <2> SUFFICES ASSUME NEW i \in 1..(n + 1), NEW j \in 1..(n + 1), i < j
               PROVE  handled'[i] < handled'[j]
    BY <1>3
  <2>1. CASE j = n + 1
    BY <1>3, <1>5, <2>1
  <2>2. CASE j # n + 1
    <3>1. i \in 1..n /\ j \in 1..n
      BY <2>2
    <3> QED
      BY <1>2, <1>3, <3>1 DEF Placed, Dealt
  <2> QED
    BY <2>1, <2>2
<1>8. ToSet(handled') \cap ToSet(lost) = {}
  <2> SUFFICES ASSUME NEW i \in 1..(n + 1), NEW j \in L, handled'[i] = lost[j]
               PROVE  FALSE
    BY <1>3, <1>4 DEF ToSet
  <2>1. CASE i = n + 1
    BY <1>3, <1>4, <2>1
  <2>2. CASE i # n + 1
    <3>1. i \in 1..n
      BY <2>2
    <3>2. handled[i] \in ToSet(handled) /\ lost[j] \in ToSet(lost) /\ handled[i] = lost[j]
      BY <1>2, <1>3, <1>4, <3>1 DEF ToSet
    <3> QED
      BY <3>2 DEF Placed, Dealt
  <2> QED
    BY <2>1, <2>2
<1>9. faults = 0 => handled' = Chunk(0, d + 1)
  <2> SUFFICES ASSUME faults = 0
               PROVE  handled' = Chunk(0, d + 1)
    OBVIOUS
  <2>1. handled = Chunk(0, d)
    BY DEF Placed, Dealt
  <2>2. handled' = Append(handled, d + 1)
    BY <1>1 DEF LineDone
  <2>3. 0 \in Nat /\ 0 <= d
    OBVIOUS
  <2>4. Chunk(0, d + 1) = Append(Chunk(0, d), d + 1)
    BY <2>3, ChunkGrows
  <2> QED
    BY <2>1, <2>2, <2>4
<1>10. Dealt(d + 1)'
  BY <1>4, <1>6, <1>7, <1>8, <1>9 DEF Dealt
<1>11. Chunk(d + 1, t) \in Seq(Lines)
  BY <1>1, ChunkFacts
<1> QED
  BY <1>1, <1>3, <1>10, <1>11 DEF Placed, From

(* A task that ends takes its lines with it.                               *)
LEMMA LogRaisesFacts ==
  ASSUME TypeOK, NEW d \in Nat, NEW t \in Nat, Placed(d, t), LogRaises
  PROVE  Placed(t, t)' /\ lost' \in Seq(Lines) /\ work' \in Seq(Lines)
<1>1. /\ d <= t /\ t <= NumLines
      /\ lost' = lost \o work /\ work' = <<>> /\ faults' = faults + 1
      /\ UNCHANGED <<sent, buffer, handled>> /\ lost \in Seq(Lines) /\ work \in Seq(Lines)
      /\ faults \in Nat /\ work = Chunk(d, t)
  BY Standing, ConstantsAssumption DEF LogRaises, TypeOK, Placed, ConstantsAssumption
<1>2. PICK n \in Nat : n = Len(lost) /\ DOMAIN lost = 1..n
  BY <1>1, LenProperties
<1>3. PICK m \in Nat : m = t - d
  BY <1>1
<1>4. Len(work) = m /\ \A i \in 1..m : work[i] = d + i
  BY <1>1, <1>3, ChunkFacts
<1>5. /\ lost' \in Seq(Lines) /\ DOMAIN lost' = 1..(n + m)
      /\ \A i \in 1..(n + m) : lost'[i] = IF i <= n THEN lost[i] ELSE work[i - n]
  <2>1. /\ lost \o work \in Seq(Lines) /\ Len(lost \o work) = n + m
        /\ \A i \in 1..(n + m) : (lost \o work)[i] = IF i <= n THEN lost[i] ELSE work[i - n]
    BY <1>1, <1>2, <1>4, ConcatProperties
  <2> QED
    BY <1>1, <2>1, LenProperties
<1>6. ASSUME NEW i \in 1..(n + m)
      PROVE  \/ i \in 1..n /\ lost'[i] = lost[i]
             \/ lost'[i] \in (d + 1)..t
  <2>1. CASE i <= n
    BY <1>5, <2>1
  <2>2. CASE ~(i <= n)
    <3>1. i - n \in 1..m /\ d + (i - n) \in (d + 1)..t
      BY <1>3, <2>2
    <3> QED
      BY <1>4, <1>5, <2>2, <3>1
  <2> QED
    BY <2>1, <2>2
<1>7. /\ \A i \in 1..n : lost[i] \in 1..d
      /\ \A i \in DOMAIN handled : handled[i] \in 1..d
      /\ \A i, j \in DOMAIN handled : i < j => handled[i] < handled[j]
      /\ \A i \in DOMAIN handled : \A j \in 1..n : handled[i] # lost[j]
  BY <1>2 DEF Placed, Dealt, ToSet
<1>8. \A i \in DOMAIN lost' : lost'[i] \in 1..t
  BY <1>1, <1>5, <1>6, <1>7
<1>9. \A i \in DOMAIN handled : handled[i] \in 1..t
  BY <1>1, <1>7
<1>10. ToSet(handled) \cap ToSet(lost') = {}
  <2> SUFFICES ASSUME NEW i \in DOMAIN handled, NEW j \in 1..(n + m), handled[i] = lost'[j]
               PROVE  FALSE
    BY <1>5 DEF ToSet
  <2> QED
    BY <1>6, <1>7
<1>11. Dealt(t)'
  <2>1. faults' # 0
    BY <1>1
  <2> QED
    BY <1>1, <1>7, <1>8, <1>9, <1>10, <2>1 DEF Dealt
<1>12. work' = Chunk(t, t)
  BY <1>1, ChunkHead
<1> QED
  BY <1>1, <1>5, <1>11, <1>12, EmptySeq DEF Placed, From
----------------------------------------------------------------------------
(* What a step that leaves the lines where they are keeps.                 *)
LEMMA PlacedStays ==
  ASSUME NEW d, NEW t, Placed(d, t), UNCHANGED <<sent, buffer, work, handled, lost, faults>>
  PROVE  Placed(d, t)'
  BY DEF Placed, Dealt, From

(* Numbers of the session.                                                 *)
LEMMA CountFacts ==
  ASSUME TypeOK
  PROVE  /\ MaxCommands \in Nat /\ count \in Nat /\ count <= MaxCommands
         /\ Len(executed) \in Nat
  BY ConstantsAssumption, LenProperties DEF TypeOK, ConstantsAssumption

(* How far the session is.                                                 *)
Stands(d, t) == Placed(d, t) /\ Waits(d, t)

(* data_received, of a piece of any size.                                  *)
LEMMA ReceiveStep ==
  ASSUME TypeOK, NEW d \in Nat, NEW t \in Nat, Stands(d, t),
         NEW n \in 1..(2 * NumLines), DataReceived(n)
  PROVE  TypeOK' /\ Stands(d, t)'
<1>1. /\ From(buffer', t) /\ buffer' \in Seq(Lines \cup {NL})
      /\ sent' = sent + n /\ sent' \in 0..(2 * NumLines)
      /\ sent' = 2 * t + Len(buffer')
      /\ Contains(buffer', NL) <=> sent' >= 2 * t + 2
  BY ReceiveFacts DEF Stands, Placed
<1>2. TypeOK'
  <2>1. pending' \in Nat
    BY DEF DataReceived, TypeOK
  <2> QED
    BY <1>1, <2>1 DEF DataReceived, TypeOK, client, history
<1>3. Placed(d, t)'
  BY <1>1 DEF DataReceived, history, Stands, Placed, Dealt, From
<1>4. Waits(d, t)'
  <2> SUFFICES ASSUME patient
               PROVE  Waits(d, t)'
    BY DEF Waits, DataReceived, client
  <2>1. /\ conn = "open" /\ Settled
        /\ sent % 2 = 1 \/ n <= 2
        /\ sent % 2 = 0 \/ n <= 1
        /\ pending' = IF Contains(buffer', NL) THEN pending + 1 ELSE pending
        /\ UNCHANGED <<patient, work, logging, count, conn, chan, executed>>
    BY DEF DataReceived, client, history
  <2>2. pending = 0 /\ d = t /\ chan
    BY <2>1, Standing DEF Settled, Stands, Waits, TypeOK
  <2>3. sent \in Nat /\ sent >= 2 * t /\ sent <= 2 * t + 2 /\ sent # 2 * t + 2
    BY <2>2, Standing DEF Stands, Waits
  <2>4. sent' <= 2 * t + 2
    <3>1. n \in Nat /\ NumLines \in Nat
      BY TextFacts
    <3>2. CASE sent = 2 * t
      <4>1. sent % 2 = 0
        BY <3>2
      <4> QED
        BY <1>1, <2>1, <2>3, <3>1, <3>2, <4>1
    <3>3. CASE sent = 2 * t + 1
      <4>1. sent % 2 = 1
        BY <3>3
      <4> QED
        BY <1>1, <2>1, <2>3, <3>1, <3>3, <4>1
    <3> QED
      BY <2>3, <3>2, <3>3
  <2>5. IF sent' = 2 * t + 2 THEN pending' = 1 ELSE pending' = 0
    <3>1. PICK z \in Int : z = sent' /\ z <= 2 * t + 2
      BY <1>1, <2>4, TextFacts
    <3>2. Contains(buffer', NL) <=> z = 2 * t + 2
      BY <1>1, <3>1
    <3> QED
      BY <2>1, <2>2, <3>1, <3>2
  <2> QED
    BY <2>1, <2>2, <2>4, <2>5 DEF Waits, Stands
<1> QED
  BY <1>2, <1>3, <1>4 DEF Stands

(* A task takes the whole lines of the buffer.                             *)
LEMMA TakeStep ==
  ASSUME TypeOK, NEW d \in Nat, NEW t \in Nat, Stands(d, t), TakeLines
  PROVE  TypeOK' /\ \E u \in Nat : Stands(t, u)'
<1>1. /\ d = t /\ t <= NumLines /\ sent \in Nat /\ pending' \in Nat
      /\ Contains(buffer, NL) <=> sent >= 2 * t + 2
      /\ buffer \in Seq(Lines \cup {NL})
  BY Standing DEF TakeLines, TypeOK, Stands
<1>2. UNCHANGED <<kind, patient, sent, logging, count, conn, chan, handled, executed, lost, faults>>
  BY DEF TakeLines, client, history
<1>3. ASSUME ~Contains(buffer, NL)
      PROVE  TypeOK' /\ Stands(t, t)'
  <2>1. UNCHANGED <<work, buffer>>
    BY <1>3 DEF TakeLines
  <2>2. TypeOK'
    BY <1>1, <1>2, <2>1 DEF TypeOK
  <2>3. Placed(t, t)'
    BY <1>1, <1>2, <2>1, PlacedStays DEF Stands
  <2>4. ~patient
    <3>1. sent # 2 * t + 2
      BY <1>1, <1>3
    <3>2. pending # 0
      BY DEF TakeLines, TypeOK
    <3> QED
      BY <3>1, <3>2 DEF Stands, Waits
  <2> QED
    BY <1>2, <2>2, <2>3, <2>4 DEF Stands, Waits
<1>4. ASSUME Contains(buffer, NL)
      PROVE  TypeOK' /\ \E u \in Nat : Stands(t, u)'
  <2>1. work' = WholeLines /\ buffer' = Rest /\ pending' = pending - 1 /\ pending > 0
    BY <1>4 DEF TakeLines
  <2>2. From(buffer, t) /\ sent = 2 * t + Len(buffer) /\ Dealt(t)
    BY <1>1 DEF Stands, Placed
  <2>3. PICK u \in Nat :
          /\ t < u /\ u <= NumLines /\ WholeLines = Chunk(t, u)
          /\ From(Rest, u) /\ Rest \in Seq(Lines \cup {NL})
          /\ 2 * t + Len(buffer) = 2 * u + Len(Rest)
    BY <1>1, <1>4, <2>2, TakeFacts
  <2>4. Placed(t, u)'
    BY <1>2, <2>1, <2>2, <2>3 DEF Placed, Dealt, From
  <2>5. TypeOK'
    <3>1. Chunk(t, u) \in Seq(Lines) /\ Chunk(t, u) # <<>>
      BY <2>3, ChunkFacts, ChunkHead
    <3> QED
      BY <1>1, <1>2, <2>1, <2>3, <3>1 DEF TypeOK
  <2>6. Waits(t, u)'
    <3> SUFFICES ASSUME patient
                 PROVE  Waits(t, u)'
      BY <1>2 DEF Waits
    <3>1. pending = 1 /\ sent = 2 * t + 2 /\ chan
      BY <2>1 DEF Stands, Waits
    <3>2. PICK k \in Nat : k = Len(Rest)
      BY <2>3 DEF From
    <3>3. sent = 2 * u + k
      BY <2>2, <2>3, <3>2
    <3>4. u = t + 1 /\ sent = 2 * u
      BY <2>3, <3>1, <3>3
    <3>5. pending' = 0 /\ sent # 2 * u + 2 /\ sent <= 2 * u + 2
      BY <2>1, <3>1, <3>4
    <3> QED
      BY <1>2, <3>1, <3>4, <3>5 DEF Stands, Waits
  <2> QED
    BY <2>4, <2>5, <2>6 DEF Stands
<1> QED
  BY <1>3, <1>4

(* The three ways a line is dealt with.                                    *)
LEMMA LineStep ==
  ASSUME TypeOK, NEW d \in Nat, NEW t \in Nat, Stands(d, t),
         BlankLine \/ OverLimitLine \/ RunCommand
  PROVE  TypeOK' /\ Stands(d + 1, t)'
<1>1. work # <<>> /\ LineDone /\ logging' = FALSE
      /\ UNCHANGED <<kind, patient, sent, buffer, pending, lost, faults>>
  BY DEF BlankLine, OverLimitLine, RunCommand, TypeOK, client
<1>2. /\ Placed(d + 1, t)' /\ d < t
      /\ handled' \in Seq(Lines) /\ work' \in Seq(Lines)
  BY <1>1, LineDoneFacts DEF Stands
<1>3. Head(work) \in Lines /\ sent \in Nat
  BY <1>2, Standing DEF Stands
<1>4. /\ MaxCommands \in Nat /\ count \in Nat /\ count <= MaxCommands
      /\ Len(executed) \in Nat
  BY CountFacts
<1>5. executed' \in Seq(Lines)
      /\ \/ Len(executed') = Len(executed)
         \/ Len(executed') = Len(executed) + 1 /\ logging
  <2>1. CASE RunCommand
    <3>1. executed' = Append(executed, Head(work)) /\ logging /\ executed \in Seq(Lines)
      BY <2>1 DEF RunCommand, TypeOK
    <3> QED
      BY <1>3, <3>1, AppendProperties
  <2>2. CASE BlankLine \/ OverLimitLine
    BY <2>2 DEF BlankLine, OverLimitLine, TypeOK
  <2> QED
    BY <2>1, <2>2
<1>6. \/ UNCHANGED <<conn, chan, count>>
      \/ /\ chan' = FALSE /\ count' = 0
         /\ conn' = IF conn = "open" THEN "closing" ELSE conn
  BY DEF BlankLine, OverLimitLine, RunCommand, EndSession
<1>7. TypeOK'
  <2>1. count' \in 0..MaxCommands
    BY <1>4, <1>6
  <2>2. conn' \in {"open", "closing", "closed"} /\ chan' \in BOOLEAN
    BY <1>6 DEF TypeOK
  <2> QED
    BY <1>1, <1>2, <1>5, <2>1, <2>2 DEF TypeOK
<1>8. Waits(d + 1, t)'
  <2> SUFFICES ASSUME patient
               PROVE  Waits(d + 1, t)'
    BY <1>1 DEF Waits
  <2>1. /\ t = d + 1 /\ sent = 2 * t /\ pending = 0 /\ chan
        /\ Len(executed) + (IF logging THEN 1 ELSE 0) <= count
    BY <1>2 DEF Stands, Waits
  <2>2. sent # 2 * t + 2 /\ sent <= 2 * t + 2
    BY <2>1
  <2>3. PICK z \in Nat : z = Len(executed')
    BY <1>5, LenProperties
  <2>4. z <= count /\ z <= MaxCommands
    BY <1>4, <1>5, <2>1, <2>3
  <2>5. chan' => z + 0 <= count'
    BY <1>6, <2>1, <2>3, <2>4
  <2>6. ~chan' => conn' # "open"
    BY <1>6, <2>1
  <2> QED
    BY <1>1, <2>1, <2>2, <2>3, <2>4, <2>5, <2>6 DEF Waits
<1> QED
  BY <1>2, <1>7, <1>8 DEF Stands

(* The steps that deal with no line.                                       *)
LEMMA OtherStep ==
  ASSUME TypeOK, NEW d \in Nat, NEW t \in Nat, Stands(d, t),
         LogCommand \/ CloseConnection \/ ConnectionLost \/ UNCHANGED vars
  PROVE  TypeOK' /\ Stands(d, t)'
<1>1. UNCHANGED <<kind, patient, sent, buffer, pending, work, handled, executed, lost, faults, chan>>
  BY DEF LogCommand, CloseConnection, ConnectionLost, vars, client, history
<1>2. Placed(d, t)'
  BY <1>1, PlacedStays DEF Stands
<1>3. /\ MaxCommands \in Nat /\ count \in Nat /\ count <= MaxCommands
      /\ Len(executed) \in Nat
  BY CountFacts
<1>4. CASE LogCommand
  <2>1. /\ count' = count + 1 /\ logging' = TRUE /\ logging = FALSE /\ conn' = conn
        /\ work # <<>> /\ count + 1 <= MaxCommands
    BY <1>3, <1>4 DEF LogCommand, OverLimit, TypeOK
  <2>2. TypeOK'
    BY <1>1, <1>3, <2>1 DEF TypeOK
  <2>3. Waits(d, t)'
    <3> SUFFICES ASSUME patient
                 PROVE  Waits(d, t)'
      BY <1>1 DEF Waits
    <3>1. chan /\ Len(executed) + 0 <= count
      BY <2>1, Standing DEF Stands, Waits
    <3>2. Len(executed) + 1 <= count + 1
      BY <1>3, <3>1
    <3> QED
      BY <1>1, <2>1, <3>1, <3>2 DEF Stands, Waits
  <2> QED
    BY <1>2, <2>2, <2>3 DEF Stands
<1>5. CASE CloseConnection \/ ConnectionLost \/ UNCHANGED vars
  <2>1. UNCHANGED <<count, logging>> /\ (conn' = conn \/ conn' \in {"closing", "closed"})
    BY <1>5 DEF CloseConnection, ConnectionLost, vars
  <2>2. TypeOK'
    BY <1>1, <2>1 DEF TypeOK
  <2> QED
    BY <1>1, <1>2, <2>1, <2>2 DEF Stands, Waits
<1> QED
  BY <1>4, <1>5

(* log_event raises.                                                       *)
LEMMA RaiseStep ==
  ASSUME TypeOK, NEW d \in Nat, NEW t \in Nat, Stands(d, t), LogRaises
  PROVE  TypeOK' /\ Stands(t, t)'
<1>1. Placed(t, t)' /\ lost' \in Seq(Lines) /\ work' \in Seq(Lines)
  BY LogRaisesFacts DEF Stands
<1>2. /\ UNCHANGED <<kind, patient, sent, buffer, pending, count, conn, chan, handled, executed>>
      /\ logging' = FALSE /\ logging /\ faults < MaxFaults /\ faults' = faults + 1
  BY DEF LogRaises, client
<1>3. TypeOK'
  <2>1. faults' \in 0..MaxFaults
    BY <1>2, ConstantsAssumption DEF TypeOK, ConstantsAssumption
  <2> QED
    BY <1>1, <1>2, <2>1 DEF TypeOK
<1>4. Waits(t, t)'
  <2> SUFFICES ASSUME patient
               PROVE  Waits(t, t)'
    BY <1>2 DEF Waits
  <2>1. d < t
    BY <1>2, Standing DEF Stands, TypeOK
  <2>2. /\ chan /\ sent = 2 * t /\ pending = 0
        /\ Len(executed) + 1 <= count /\ Len(executed) \in Nat /\ count \in Nat
    BY <1>2, <2>1, CountFacts DEF Stands, Waits
  <2>3. sent # 2 * t + 2 /\ sent <= 2 * t + 2 /\ Len(executed) + 0 <= count
    BY <2>2
  <2> QED
    BY <1>2, <2>2, <2>3 DEF Waits
<1> QED
  BY <1>1, <1>3, <1>4 DEF Stands
----------------------------------------------------------------------------
(* Nothing is sent, taken or run at first.                                 *)
LEMMA SessionInit == Init => SessionInv
<1> SUFFICES ASSUME Init
             PROVE  SessionInv
  OBVIOUS
<1>1. /\ NumLines \in Nat /\ MaxCommands \in Nat /\ MaxFaults \in Nat
      /\ <<>> \in Seq(Lines \cup {NL}) /\ <<>> \in Seq(Lines) /\ Len(<<>>) = 0
  BY EmptySeq, ConstantsAssumption DEF ConstantsAssumption
<1>2. TypeOK
  <2>1. sent \in 0..(2 * NumLines) /\ count \in 0..MaxCommands /\ faults \in 0..MaxFaults
    BY <1>1 DEF Init
  <2>2. /\ buffer \in Seq(Lines \cup {NL}) /\ work \in Seq(Lines)
        /\ handled \in Seq(Lines) /\ executed \in Seq(Lines) /\ lost \in Seq(Lines)
    BY <1>1 DEF Init
  <2>3. /\ kind \in [Lines -> Kinds] /\ patient \in BOOLEAN /\ pending \in Nat
        /\ logging = FALSE /\ conn = "open" /\ chan = TRUE
    BY DEF Init
  <2> QED
    BY <2>1, <2>2, <2>3 DEF TypeOK
<1>3. Chunk(0, 0) = <<>>
  BY ChunkHead
<1>4. DOMAIN handled = {} /\ DOMAIN lost = {}
  BY DEF Init
<1>5. Dealt(0)
  BY <1>3, <1>4 DEF Init, Dealt, ToSet
<1>6. From(buffer, 0)
  BY <1>1 DEF Init, From
<1>7. Placed(0, 0)
  BY <1>1, <1>3, <1>5, <1>6 DEF Init, Placed
<1>8. Waits(0, 0)
  BY <1>1 DEF Init, Waits
<1> QED
  BY <1>2, <1>7, <1>8 DEF SessionInv

(* Every step keeps the lines where they belong.                           *)
LEMMA SessionStep == SessionInv /\ [Next]_vars => SessionInv'
<1> SUFFICES ASSUME SessionInv, [Next]_vars
             PROVE  SessionInv'
  OBVIOUS
<1>1. TypeOK
  BY DEF SessionInv
<1>2. PICK d \in Nat, t \in Nat : Stands(d, t)
  BY DEF SessionInv, Stands
<1>3. TypeOK' /\ \E e \in Nat, u \in Nat : Stands(e, u)'
  <2>1. ASSUME NEW n \in 1..(2 * NumLines), DataReceived(n)
        PROVE  TypeOK' /\ Stands(d, t)'
    BY <1>1, <1>2, <2>1, ReceiveStep
  <2>2. CASE TakeLines
    BY <1>1, <1>2, <2>2, TakeStep
  <2>3. CASE BlankLine \/ OverLimitLine \/ RunCommand
    <3>1. TypeOK' /\ Stands(d + 1, t)'
      BY <1>1, <1>2, <2>3, LineStep
    <3> QED
      BY <3>1
  <2>4. CASE LogCommand \/ CloseConnection \/ ConnectionLost \/ UNCHANGED vars
    BY <1>1, <1>2, <2>4, OtherStep
  <2>5. CASE LogRaises
    BY <1>1, <1>2, <2>5, RaiseStep
  <2> QED
    BY <2>1, <2>2, <2>3, <2>4, <2>5 DEF Next, TaskStep
<1> QED
  BY <1>3 DEF SessionInv, Stands

(* The lines are where they belong at all times.                           *)
LEMMA SessionInvariant == Spec => []SessionInv
  BY SessionInit, SessionStep, PTL DEF Spec

(* The lines the tokens received make, and those in the buffer.            *)
LEMMA LinesInOrder ==
  ASSUME TypeOK, NEW d \in Nat, NEW t \in Nat, Placed(d, t), faults = 0
  PROVE  handled \o work \o LinesOf(buffer) = LinesOf(SubSeq(Text, 1, sent))
<1>1. PICK k \in Nat : k = Len(buffer)
  BY DEF Placed, From
<1>2. /\ d <= t /\ handled = Chunk(0, d) /\ work = Chunk(d, t) /\ sent = 2 * t + k
      /\ 2 * t + k <= 2 * NumLines /\ NumLines \in Nat
  BY <1>1, TextFacts DEF Placed, Dealt, From
<1>3. PICK h \in Nat : k = 2 * h \/ k = 2 * h + 1
  BY Parity
<1>4. PICK u \in Nat : t <= u /\ (2 * u = 2 * t + k \/ 2 * u = 2 * t + k + 1)
  <2>1. CASE k = 2 * h
    <3>1. t + h \in Nat /\ t <= t + h /\ 2 * (t + h) = 2 * t + k
      BY <2>1
    <3> QED
      BY <3>1
  <2>2. CASE k = 2 * h + 1
    <3>1. t + h + 1 \in Nat /\ t <= t + h + 1 /\ 2 * (t + h + 1) = 2 * t + k + 1
      BY <2>2
    <3> QED
      BY <3>1
  <2> QED
    BY <1>3, <2>1, <2>2
<1>5. LinesOf(buffer) = Chunk(t, u)
  BY <1>1, <1>4, LinesOfText DEF Placed
<1>6. LinesOf(SubSeq(Text, 1, sent)) = Chunk(0, u)
  <2>1. PICK s : s = SubSeq(Text, 1, sent)
    OBVIOUS
  <2>2. PICK n \in Nat : n = sent /\ n <= 2 * NumLines /\ n = 2 * t + k
    BY <1>2
  <2>3. /\ SubSeq(Text, 0 + 1, n) = s
        /\ Len(SubSeq(Text, 0 + 1, n)) = n - 0
        /\ \A i \in 1..(n - 0) : SubSeq(Text, 0 + 1, n)[i] = Text[0 + i]
    BY <2>1, <2>2, PieceFacts
  <2>4. Len(s) = n /\ \A i \in 1..n : s[i] = Text[2 * 0 + i]
    BY <2>2, <2>3
  <2>5. From(s, 0)
    BY <2>2, <2>4 DEF From
  <2>6. 2 * u = 2 * 0 + Len(s) \/ 2 * u = 2 * 0 + Len(s) + 1
    BY <1>4, <2>2, <2>4
  <2> QED
    BY <2>1, <2>5, <2>6, LinesOfText
<1>7. Chunk(0, d) \o Chunk(d, t) = Chunk(0, t) /\ Chunk(0, t) \o Chunk(t, u) = Chunk(0, u)
  <2>1. 0 \in Nat /\ 0 <= d /\ 0 <= t /\ d <= t /\ t <= u
    BY <1>2, <1>4
  <2>2. Chunk(0, d) \o Chunk(d, t) = Chunk(0, t)
    BY <2>1, ChunksJoin
  <2>3. Chunk(0, t) \o Chunk(t, u) = Chunk(0, u)
    BY <2>1, ChunksJoin
  <2> QED
    BY <2>2, <2>3
<1> QED
  BY <1>2, <1>5, <1>6, <1>7

(* Lines are handled once and in the order they were typed, whatever       *)
(* pieces they come in and however their tasks overlap                     *)
(* (ssh_session.py:47-78).                                                 *)
THEOREM LinesAreKept == Spec => []LinesInv
<1>1. SessionInv => LinesInv
  <2> SUFFICES ASSUME SessionInv
               PROVE  InOrder
    BY DEF SessionInv, LinesInv
  <2>1. PICK d \in Nat, t \in Nat : Placed(d, t)
    BY DEF SessionInv
  <2>2. TypeOK
    BY DEF SessionInv
  <2> QED
    BY <2>1, <2>2, LinesInOrder DEF InOrder, Placed, Dealt
<1> QED
  BY <1>1, SessionInvariant, PTL

(* A client that waits for each answer runs at most HP_MAX_CMDS commands   *)
(* (ssh_session.py:84-93).                                                 *)
THEOREM PatienceIsLimited == Spec => []PatientWithinLimit
<1>1. SessionInv => PatientWithinLimit
  <2> SUFFICES ASSUME SessionInv, patient
               PROVE  Len(executed) <= MaxCommands
    BY DEF PatientWithinLimit, ExecutedWithinLimit
  <2>1. PICK d \in Nat, t \in Nat : Waits(d, t)
    BY DEF SessionInv
  <2>2. chan \in BOOLEAN /\ TypeOK
    BY DEF SessionInv, TypeOK
  <2> QED
    BY <2>1, <2>2, CountFacts DEF Waits
<1> QED
  BY <1>1, SessionInvariant, PTL

(* Nothing such a client sends runs after the goodbye                      *)
(* (ssh_session.py:88-93, 120-126).                                        *)
THEOREM GoodbyeIsFinal == Spec => NothingAfterGoodbye
<1>1. SessionInv /\ [Next]_vars => [patient /\ ~chan => UNCHANGED executed]_vars
  <2> SUFFICES ASSUME SessionInv, Next, patient, ~chan
               PROVE  executed' = executed
    BY DEF vars, history
  <2>1. PICK d \in Nat, t \in Nat : Placed(d, t) /\ Waits(d, t)
    BY DEF SessionInv
  <2>2. ~logging
    BY <2>1, Standing DEF SessionInv, Waits, TypeOK
  <2> QED
    BY <2>2 DEF Next, TaskStep, DataReceived, TakeLines, BlankLine, OverLimitLine,
                LogCommand, RunCommand, LogRaises, CloseConnection, ConnectionLost, history
<1> QED
  BY <1>1, SessionInvariant, PTL DEF Spec, NothingAfterGoodbye
=============================================================================
