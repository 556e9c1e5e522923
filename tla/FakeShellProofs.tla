-------------------------- MODULE FakeShellProofs --------------------------
(***************************************************************************)
(* Proofs about FakeShell, for every login name, every vocabulary of path  *)
(* parts and every number of directories made: what holds of the tree and  *)
(* the current directory whatever _resolve_path makes of a path; that it   *)
(* is a function of the parts, so that the three ways to a directory, of   *)
(* ls, cd and cat, meet; and that this function keeps just the parts that  *)
(* count.                                                                  *)
(***************************************************************************)
EXTENDS FakeShell, FiniteSetTheorems, SequenceTheorems, WellFoundedInduction, TLAPS

(* What a mkdir leaves of the tree, and what it adds.                      *)
LEMMA WithDirectoryTree ==
  ASSUME NEW full, DirName(full) \in DOMAIN fs
  PROVE  /\ DOMAIN WithDirectory(full) = DOMAIN fs \cup {full}
         /\ \A p \in DOMAIN fs : fs[p] \subseteq WithDirectory(full)[p]
         /\ BaseName(full) \in WithDirectory(full)[DirName(full)]
  BY DEF WithDirectory

(* The directories a session starts with.                                  *)
LEMMA InitialDirectories ==
  ASSUME NEW u
  PROVE  DOMAIN InitialTree(u) =
            {<<>>, <<"etc">>, <<"home">>, Home(u), Home(u) \o <<".ssh">>, <<"var">>, <<"proc">>}
  BY DEF InitialTree

(* The parent and the name of a path with one part, two or three.          *)
LEMMA PathOfThree ==
  ASSUME NEW a, NEW b, NEW c
  PROVE  Front(<<a, b, c>>) = <<a, b>> /\ Last(<<a, b, c>>) = c
<1> DEFINE S == {a, b, c}
           s == <<a, b, c>>
           r == SubSeq(s, 1, 2)
           t == <<a, b>>
<1>1. r \in Seq(S) /\ Len(r) = 2 /\ r[1] = a /\ r[2] = b
  BY SubSeqProperties
<1>2. t \in Seq(S) /\ Len(t) = 2 /\ t[1] = a /\ t[2] = b
  OBVIOUS
<1>3. r = t
  <2> HIDE DEF S, r, t
  <2> QED
    BY <1>1, <1>2, SeqEqual
<1> QED
  BY <1>3 DEF Front, Last

LEMMA ShortPaths ==
  ASSUME NEW a, NEW b
  PROVE  /\ Front(<<a>>) = <<>> /\ Last(<<a>>) = a
         /\ Front(<<a, b>>) = <<a>> /\ Last(<<a, b>>) = b
<1>1. Last(<<a>>) = a /\ Last(<<a, b>>) = b
  BY DEF Last
<1>2. Front(<<a>>) = <<>>
  BY DEF Front
<1>3. Front(<<a, b>>) = <<a>>
  <2> DEFINE S == {a, b}
             s == <<a, b>>
             r == SubSeq(s, 1, 1)
             t == <<a>>
  <2>1. r \in Seq(S) /\ Len(r) = 1 /\ r[1] = a
    BY SubSeqProperties
  <2>2. t \in Seq(S) /\ Len(t) = 1 /\ t[1] = a
    OBVIOUS
  <2>3. r = t
    <3> HIDE DEF S, r, t
    <3> QED
      BY <2>1, <2>2, SeqEqual
  <2> QED
    BY <2>3 DEF Front
<1> QED
  BY <1>1, <1>2, <1>3

(* The tree a session starts with, for a plain name.                       *)
LEMMA InitialTreeClosed ==
  ASSUME NEW u, Plain(u)
  PROVE  \A p \in DOMAIN InitialTree(u) \ {<<>>} :
            Front(p) \in DOMAIN InitialTree(u) /\ Last(p) \in InitialTree(u)[Front(p)]
<1> DEFINE T == InitialTree(u)
<1>1. Home(u) = <<"home", u.name>> /\ Home(u) \o <<".ssh">> = <<"home", u.name, ".ssh">>
  <2> DEFINE S == {"home", u.name, ".ssh"}
             h == <<"home", u.name>>
             k == <<"home", u.name, ".ssh">>
  <2>1. <<"home">> \in Seq(S) /\ <<u.name>> \in Seq(S) /\ <<".ssh">> \in Seq(S)
    OBVIOUS
  <2>2. /\ h \in Seq(S) /\ Len(h) = 2 /\ h[1] = "home" /\ h[2] = u.name
        /\ k \in Seq(S) /\ Len(k) = 3 /\ k[1] = "home" /\ k[2] = u.name /\ k[3] = ".ssh"
    OBVIOUS
  <2>3. Home(u) = <<"home">> \o <<u.name>>
    BY DEF Home, Plain
  <2>4. Home(u) = h
    <3>1. /\ Home(u) \in Seq(S) /\ Len(Home(u)) = 2
          /\ Home(u)[1] = "home" /\ Home(u)[2] = u.name
      BY <2>1, <2>3, ConcatProperties
    <3> HIDE DEF S, h
    <3> QED
      BY <3>1, <2>2, SeqEqual
  <2>5. h \o <<".ssh">> = k
    <3>1. /\ h \o <<".ssh">> \in Seq(S) /\ Len(h \o <<".ssh">>) = 3
          /\ (h \o <<".ssh">>)[1] = "home" /\ (h \o <<".ssh">>)[2] = u.name
          /\ (h \o <<".ssh">>)[3] = ".ssh"
      BY <2>1, <2>2, ConcatProperties
    <3> HIDE DEF S, h, k
    <3> QED
      BY <3>1, <2>2, SeqEqual
  <2> QED
    BY <2>4, <2>5
<1>2. DOMAIN T = {<<>>, <<"etc">>, <<"home">>, <<"home", u.name>>,
                  <<"home", u.name, ".ssh">>, <<"var">>, <<"proc">>}
  BY <1>1, InitialDirectories
<1>3. {"etc", "home", "var", "proc"} \subseteq T[<<>>]
  <2>1. <<>> \in DOMAIN T
    BY <1>2
  <2>2. T[<<>>] = {"bin", "boot", "dev", "etc", "home", "lib", "proc", "root",
                  "run", "sbin", "tmp", "usr", "var"}
    BY <2>1, <1>1 DEF InitialTree
  <2> QED
    BY <2>2
<1>4. u.name \in T[<<"home">>]
  <2>1. <<"home">> # <<>> /\ <<"home">> # <<"etc">> /\ <<"home">> \in DOMAIN T
    BY <1>2
  <2> DEFINE h == <<"home">>
  <2>2. T[h] = {u.name}
    BY <2>1, <1>1 DEF InitialTree
  <2> QED
    BY <2>2
<1>5. ".ssh" \in T[<<"home", u.name>>]
  BY <1>1 DEF InitialTree
<1>6. ASSUME NEW p \in DOMAIN T \ {<<>>}
      PROVE  Front(p) \in DOMAIN T /\ Last(p) \in T[Front(p)]
  <2>1. ASSUME NEW n \in {"etc", "home", "var", "proc"}, p = <<n>>
        PROVE  Front(p) = <<>> /\ Last(p) = n
    BY <2>1, ShortPaths
  <2>2. CASE \E n \in {"etc", "home", "var", "proc"} : p = <<n>>
    BY <2>2, <2>1, <1>2, <1>3
  <2>3. CASE p = <<"home", u.name>>
    BY <2>3, <1>2, <1>4, ShortPaths
  <2>4. CASE p = <<"home", u.name, ".ssh">>
    <3>1. Front(p) = <<"home", u.name>> /\ Last(p) = ".ssh"
      BY <2>4, PathOfThree
    <3>2. <<"home", u.name>> \in DOMAIN T
      BY <1>2
    <3> QED
      BY <3>1, <3>2, <1>5
  <2> QED
    BY <2>2, <2>3, <2>4, <1>2
<1> QED
  BY <1>6
----------------------------------------------------------------------------
LEMMA TypeInit == Init => TypeOK
<1> SUFFICES ASSUME Init PROVE TypeOK
  OBVIOUS
<1>1. Home(user) \in DOMAIN InitialTree(user)
  BY InitialDirectories
<1>2. 0 \in 0..MaxMade
  BY ConstantsAssumption DEF ConstantsAssumption
<1> QED
  BY <1>1, <1>2 DEF Init, TypeOK

LEMMA TypeStep == TypeOK /\ [Next]_vars => TypeOK'
<1> SUFFICES ASSUME TypeOK, [Next]_vars PROVE TypeOK'
  OBVIOUS
<1> USE ConstantsAssumption DEF ConstantsAssumption, TypeOK
<1>1. ASSUME NEW path \in Typed, Mkdir(path) PROVE TypeOK'
  <2>1. cwd' \in DOMAIN fs'
    BY <1>1, WithDirectoryTree DEF Mkdir
  <2>2. made' \in 0..MaxMade
    BY <1>1 DEF Mkdir
  <2> QED
    BY <1>1, <2>1, <2>2 DEF Mkdir
<1>2. ASSUME NEW path \in Typed, Cd(path) PROVE TypeOK'
  BY <1>2 DEF Cd
<1>3. CASE UNCHANGED vars
  BY <1>3 DEF vars
<1> QED
  BY <1>1, <1>2, <1>3 DEF Next

(* The current directory exists, however the session got there: mkdir      *)
(* replaces no directory and cd takes none that is not there               *)
(* (fake_shell.py:114-124, 220-227).                                       *)
THEOREM TypeCorrect == Spec => []TypeOK
  BY TypeInit, TypeStep, PTL DEF Spec

LEMMA TreeClosedInit == Init => TreeClosed
  BY InitialTreeClosed DEF Init, TreeClosed

LEMMA TreeClosedStep == TreeClosed /\ [Next]_vars => TreeClosed'
<1> SUFFICES ASSUME TreeClosed, [Next]_vars PROVE TreeClosed'
  OBVIOUS
<1>1. ASSUME NEW path \in Typed, Mkdir(path) PROVE TreeClosed'
  <2> DEFINE full == Resolve(cwd, path)
  <2>1. DirName(full) \in DOMAIN fs /\ fs' = WithDirectory(full) /\ user' = user
    BY <1>1 DEF Mkdir
  <2> HIDE DEF full
  <2>2. SUFFICES ASSUME Plain(user), NEW p \in DOMAIN fs' \ {<<>>}
                 PROVE  Front(p) \in DOMAIN fs' /\ Last(p) \in fs'[Front(p)]
    BY <2>1 DEF TreeClosed, Plain
  <2>3. CASE p \in DOMAIN fs
    BY <2>3, <2>2, <2>1, WithDirectoryTree DEF TreeClosed
  <2>4. CASE p = full
    BY <2>4, <2>2, <2>1, WithDirectoryTree DEF DirName, BaseName
  <2> QED
    BY <2>2, <2>3, <2>4, <2>1, WithDirectoryTree
<1>2. ASSUME NEW path \in Typed, Cd(path) PROVE TreeClosed'
  BY <1>2 DEF Cd, TreeClosed, Plain
<1>3. CASE UNCHANGED vars
  BY <1>3 DEF vars, TreeClosed, Plain
<1> QED
  BY <1>1, <1>2, <1>3 DEF Next

(* Every directory but the root is listed in one that exists, for every    *)
(* user name that is one part of a path and every sequence of commands     *)
(* (fake_shell.py:38-65, 114-124).                                         *)
THEOREM TreeIsClosed == Spec => []TreeClosed
  BY TreeClosedInit, TreeClosedStep, PTL DEF Spec
----------------------------------------------------------------------------
(* The prefixes of a path, each resolved: what _resolve_path has after     *)
(* every part.                                                             *)
Walk(e, parts, n, S) ==
  /\ e \in [0..n -> Seq(S)]
  /\ e[0] = <<>>
  /\ \A i \in 1..n : e[i] = Step(e[i - 1], parts[i])

Dots == {"", ".", ".."}

LEMMA FrontFacts ==
  ASSUME NEW S, NEW s \in Seq(S), s # <<>>
  PROVE  /\ Front(s) \in Seq(S) /\ Len(Front(s)) = Len(s) - 1
         /\ Last(s) \in S
         /\ Front(s) \o <<Last(s)>> = s
<1>1. PICK k \in Nat : k = Len(s) - 1 /\ Len(s) = k + 1
  <2>1. Len(s) \in Nat /\ Len(s) # 0
    BY EmptySeq
  <2> QED
    BY <2>1
<1>2. \A i \in 1..k + 1 : s[i] \in S
  BY <1>1
<1>3. Front(s) = SubSeq(s, 1, k) /\ Last(s) = s[k + 1]
  BY <1>1 DEF Front, Last
<1>4. \A i \in 1..k : s[i] \in S
  BY <1>2
<1>5. /\ SubSeq(s, 1, k) \in Seq(S) /\ Len(SubSeq(s, 1, k)) = k
      /\ \A i \in 1..k : SubSeq(s, 1, k)[i] = s[i]
  BY <1>4, SubSeqProperties
<1>6. Last(s) \in S
  BY <1>2, <1>3
<1>7. PICK f \in Seq(S) : f = Front(s)
  BY <1>3, <1>5
<1>8. PICK c \in S : c = Last(s)
  BY <1>6
<1>9. /\ f \o <<c>> \in Seq(S) /\ Len(f \o <<c>>) = k + 1
      /\ \A i \in 1..k : (f \o <<c>>)[i] = s[i]
      /\ (f \o <<c>>)[k + 1] = s[k + 1]
  <2>1. <<c>> \in Seq(S) /\ Len(<<c>>) = 1 /\ <<c>>[1] = c
    OBVIOUS
  <2>2. Len(f) = k /\ \A i \in 1..k : f[i] = s[i]
    BY <1>3, <1>5, <1>7
  <2> QED
    BY <1>3, <1>8, <2>1, <2>2, ConcatProperties
<1>10. \A i \in 1..k + 1 : i \in 1..k \/ i = k + 1
  OBVIOUS
<1>11. f \o <<c>> = s
  <2>1. \A i \in 1..k + 1 : (f \o <<c>>)[i] = s[i]
    BY <1>9, <1>10
  <2> QED
    BY <1>1, <1>9, <2>1, SeqEqual
<1> QED
  BY <1>1, <1>3, <1>5, <1>6, <1>7, <1>8, <1>11

LEMMA StepFacts ==
  ASSUME NEW S, NEW done \in Seq(S), NEW part, part \in S \/ part \in Dots
  PROVE  /\ Step(done, part) \in Seq(S)
         /\ part \notin Dots => Step(done, part) = Append(done, part)
<1>1. CASE part \notin Dots
  <2>1. Step(done, part) = Append(done, part)
    BY <1>1 DEF Step, Dots
  <2> QED
    BY <1>1, <2>1, AppendProperties
<1>2. CASE part \in {".", ""}
  BY <1>2 DEF Step, Dots
<1>3. CASE part = ".."
  <2>1. Step(done, part) = IF done = <<>> THEN done ELSE Front(done)
    BY <1>3 DEF Step
  <2> QED
    BY <1>3, <2>1, FrontFacts DEF Dots
<1> QED
  BY <1>1, <1>2, <1>3 DEF Dots

LEMMA LeastExists ==
  ASSUME NEW S \in SUBSET Nat, S # {}
  PROVE  \E x \in S : \A y \in S : x <= y
<1>1. PICK x \in S : \A y \in S : <<y, x>> \notin OpToRel(<, Nat)
  BY NatLessThanWellFounded, WFMin, Zenon
<1>2. \A y \in S : ~(y < x)
  BY <1>1 DEF OpToRel
<1> QED
  BY <1>2

(* There is one for every path: by the least prefix without one.           *)
LEMMA WalkExists ==
  ASSUME NEW S, NEW parts, NEW n \in Nat, \A i \in 1..n : parts[i] \in S \cup Dots
  PROVE  \E e : Walk(e, parts, n, S)
<1> DEFINE Without == {m \in 0..n : ~\E e : Walk(e, parts, m, S)}
<1>1. SUFFICES ASSUME Without # {}
               PROVE  FALSE
  <2>1. n \in 0..n
    OBVIOUS
  <2> QED
    BY <1>1, <2>1
<1>2. PICK m \in Without : \A y \in Without : m <= y
  <2>1. Without \in SUBSET Nat
    OBVIOUS
  <2> HIDE DEF Without
  <2> QED
    BY <1>1, <2>1, LeastExists
<1>3. CASE m = 0
  <2> DEFINE e == [i \in 0..0 |-> <<>>]
  <2>1. e \in [0..0 -> Seq(S)] /\ e[0] = <<>>
    BY EmptySeq
  <2>2. \A i \in 1..0 : FALSE
    OBVIOUS
  <2>3. Walk(e, parts, 0, S)
    BY <2>1, <2>2 DEF Walk
  <2> QED
    BY <1>2, <1>3, <2>3
<1>4. CASE m # 0
  <2>1. m \in Nat /\ m - 1 \in 0..n /\ m \in 1..n /\ ~(m <= m - 1)
    BY <1>2, <1>4
  <2>2. PICK f : Walk(f, parts, m - 1, S)
    BY <1>2, <2>1
  <2>3. /\ f \in [0..m - 1 -> Seq(S)] /\ f[0] = <<>>
        /\ \A i \in 1..m - 1 : f[i] = Step(f[i - 1], parts[i])
    BY <2>2 DEF Walk
  <2>4. m - 1 \in 0..m - 1 /\ 0 \in 0..m - 1
    BY <2>1
  <2>5. PICK last \in Seq(S) : last = Step(f[m - 1], parts[m])
    BY <2>1, <2>3, <2>4, StepFacts
  <2> DEFINE e == [i \in 0..m |-> IF i = m THEN last ELSE f[i]]
  <2>6. \A i \in 0..m : i # m => i \in 0..m - 1
    BY <2>1
  <2>7. e \in [0..m -> Seq(S)] /\ e[m] = last /\ \A i \in 0..m - 1 : e[i] = f[i]
    BY <2>1, <2>3, <2>6
  <2> HIDE DEF e
  <2>8. \A i \in 1..m : e[i] = Step(e[i - 1], parts[i])
    <3> TAKE i \in 1..m
    <3>1. CASE i = m
      BY <2>4, <2>5, <2>7, <3>1
    <3>2. CASE i # m
      <4>1. i \in 1..m - 1 /\ i \in 0..m - 1 /\ i - 1 \in 0..m - 1
        BY <2>1, <3>2
      <4> QED
        BY <2>3, <2>7, <4>1
    <3> QED
      BY <3>1, <3>2
  <2>9. Walk(e, parts, m, S)
    BY <2>3, <2>4, <2>7, <2>8 DEF Walk
  <2> QED
    BY <1>2, <2>9
<1> QED
  BY <1>3, <1>4

LEMMA NormalWalks ==
  ASSUME NEW S, NEW parts, Len(parts) \in Nat, \A i \in 1..Len(parts) : parts[i] \in S \cup Dots
  PROVE  \E e : Walk(e, parts, Len(parts), S) /\ Normal(parts) = e[Len(parts)]
<1> DEFINE done[n \in 0..Len(parts)] ==
             IF n = 0 THEN <<>> ELSE Step(done[n - 1], parts[n])
<1>1. Normal(parts) = done[Len(parts)]
  BY DEF Normal
<1>2. PICK e : Walk(e, parts, Len(parts), S)
  BY WalkExists
<1>3. e = [n \in 0..Len(parts) |-> IF n = 0 THEN <<>> ELSE Step(e[n - 1], parts[n])]
  <2>1. \A n \in 0..Len(parts) : n = 0 \/ n \in 1..Len(parts)
    OBVIOUS
  <2> QED
    BY <1>2, <2>1 DEF Walk
<1>4. done = [n \in 0..Len(parts) |-> IF n = 0 THEN <<>> ELSE Step(done[n - 1], parts[n])]
  BY <1>3
<1> HIDE DEF done
<1> DEFINE Differ == {i \in 0..Len(parts) : done[i] # e[i]}
<1>5. Differ = {}
  <2> SUFFICES ASSUME Differ # {}
               PROVE  FALSE
    OBVIOUS
  <2>1. PICK m \in Differ : \A y \in Differ : m <= y
    <3>1. Differ \in SUBSET Nat
      OBVIOUS
    <3> HIDE DEF Differ
    <3> QED
      BY <3>1, LeastExists
  <2>2. m \in 0..Len(parts) /\ done[m] # e[m]
    BY <2>1
  <2>3. CASE m = 0
    <3>1. done[0] = <<>> /\ e[0] = <<>>
      BY <1>3, <1>4, <2>2, <2>3
    <3> QED
      BY <2>2, <2>3, <3>1
  <2>4. CASE m # 0
    <3>1. m - 1 \in 0..Len(parts) /\ ~(m <= m - 1)
      BY <2>2, <2>4
    <3>2. done[m - 1] = e[m - 1]
      BY <2>1, <3>1
    <3>3. done[m] = Step(done[m - 1], parts[m]) /\ e[m] = Step(e[m - 1], parts[m])
      BY <1>3, <1>4, <2>2, <2>4
    <3> QED
      BY <2>2, <3>2, <3>3
  <2> QED
    BY <2>3, <2>4
<1>6. Len(parts) \in 0..Len(parts)
  OBVIOUS
<1>7. done[Len(parts)] = e[Len(parts)]
  BY <1>5, <1>6
<1> QED
  BY <1>1, <1>2, <1>7

(* A path resolves to parts of its own, and none of them is a dot.         *)
LEMMA NormalFacts ==
  ASSUME NEW S, NEW parts, Len(parts) \in Nat, \A i \in 1..Len(parts) : parts[i] \in S \cup Dots
  PROVE  Normal(parts) \in Seq(S)
<1>1. PICK e : Walk(e, parts, Len(parts), S) /\ Normal(parts) = e[Len(parts)]
  BY NormalWalks
<1>2. Len(parts) \in 0..Len(parts)
  OBVIOUS
<1> QED
  BY <1>1, <1>2 DEF Walk

(* A path with no dots resolves to itself.                                 *)
LEMMA WalkOfNames ==
  ASSUME NEW S, S \cap Dots = {}, NEW parts \in Seq(S), NEW k \in Nat, k = Len(parts),
         NEW e, NEW T, Walk(e, parts, k, S \cup T)
  PROVE  e[k] = parts
<1>2. \A i \in 1..k : parts[i] \in S
  BY LenProperties
<1>4. /\ e \in [0..k -> Seq(S \cup T)] /\ e[0] = <<>>
      /\ \A i \in 1..k : e[i] = Step(e[i - 1], parts[i])
  BY DEF Walk
<1> DEFINE Prefix(i) == Len(e[i]) = i /\ \A j \in 1..i : e[i][j] = parts[j]
           Not == {i \in 0..k : ~Prefix(i)}
<1>5. Not = {}
  <2> SUFFICES ASSUME Not # {}
               PROVE  FALSE
    OBVIOUS
  <2>1. PICK m \in Not : \A y \in Not : m <= y
    <3>1. Not \in SUBSET Nat
      OBVIOUS
    <3> HIDE DEF Not
    <3> QED
      BY <3>1, LeastExists
  <2>2. m \in 0..k /\ ~Prefix(m)
    BY <2>1
  <2>3. CASE m = 0
    <3>1. Len(e[0]) = 0 /\ \A j \in 1..0 : FALSE
      BY <1>4
    <3> QED
      BY <2>2, <2>3, <3>1
  <2>4. CASE m # 0
    <3>1. m - 1 \in 0..k /\ m \in 1..k /\ ~(m <= m - 1)
      BY <2>2, <2>4
    <3>2. Prefix(m - 1)
      BY <2>1, <3>1
    <3>3. PICK p \in Seq(S \cup T) : p = e[m - 1]
      BY <1>4, <3>1
    <3>4. parts[m] \in S /\ parts[m] \in S \cup T /\ parts[m] \notin Dots
      BY <1>2, <3>1
    <3>5. e[m] = Append(p, parts[m])
      <4>1. Step(p, parts[m]) = Append(p, parts[m])
        BY <3>4, StepFacts
      <4> QED
        BY <1>4, <3>1, <3>3, <4>1
    <3>6. Len(p) = m - 1 /\ \A j \in 1..m - 1 : p[j] = parts[j]
      BY <3>2, <3>3
    <3>7. /\ Len(e[m]) = m /\ e[m][m] = parts[m]
          /\ \A j \in 1..m - 1 : e[m][j] = p[j]
      BY <3>1, <3>4, <3>5, <3>6, AppendProperties
    <3>8. \A j \in 1..m : j = m \/ j \in 1..m - 1
      BY <3>1
    <3>9. \A j \in 1..m : e[m][j] = parts[j]
      BY <3>6, <3>7, <3>8
    <3> QED
      BY <2>2, <3>7, <3>9
  <2> QED
    BY <2>3, <2>4
<1>6. k \in 0..k
  OBVIOUS
<1>7. Prefix(k) /\ e[k] \in Seq(S \cup T)
  BY <1>4, <1>5, <1>6
<1>8. parts \in Seq(S \cup T)
  BY SeqMonotonic
<1> QED
  BY <1>7, <1>8, SeqEqual

LEMMA NormalOfNames ==
  ASSUME NEW S, S \cap Dots = {}, NEW parts \in Seq(S)
  PROVE  Normal(parts) = parts
<1>1. PICK k \in Nat : k = Len(parts)
  BY LenProperties
<1>2. \A i \in 1..k : parts[i] \in S
  BY <1>1, LenProperties
<1>3. PICK e : Walk(e, parts, k, S \cup {}) /\ Normal(parts) = e[k]
  BY <1>1, <1>2, NormalWalks
<1> QED
  BY <1>1, <1>3, WalkOfNames

(* One dot, two, or nothing behind such a path.                            *)
LEMMA NormalOfDotted ==
  ASSUME NEW S, S \cap Dots = {}, NEW parts \in Seq(S), NEW x \in Dots
  PROVE  Normal(parts \o <<x>>) = Step(parts, x)
<1>1. PICK k \in Nat : k = Len(parts)
  BY LenProperties
<1>2. PICK R : R = S \cup Dots
  OBVIOUS
<1>3. parts \in Seq(R) /\ <<x>> \in Seq(R) /\ Len(<<x>>) = 1 /\ <<x>>[1] = x
  <2>1. x \in R
    BY <1>2
  <2> QED
    BY <1>2, <2>1, SeqMonotonic
<1>4. PICK w \in Seq(R) : w = parts \o <<x>>
  BY <1>3, ConcatProperties
<1>5. Len(w) = k + 1 /\ w[k + 1] = x /\ \A i \in 1..k : w[i] = parts[i]
  BY <1>1, <1>3, <1>4, ConcatProperties
<1>6. Len(w) \in Nat /\ \A i \in 1..Len(w) : w[i] \in R \cup Dots
  BY <1>4, LenProperties
<1>7. PICK e : Walk(e, w, k + 1, R) /\ Normal(w) = e[k + 1]
  <2>1. \E e : Walk(e, w, Len(w), R) /\ Normal(w) = e[Len(w)]
    BY <1>6, NormalWalks
  <2> QED
    BY <1>5, <2>1
<1>8. /\ e \in [0..k + 1 -> Seq(R)] /\ e[0] = <<>>
      /\ \A i \in 1..k + 1 : e[i] = Step(e[i - 1], w[i])
  BY <1>7 DEF Walk
<1> DEFINE f == [i \in 0..k |-> e[i]]
<1>9. Walk(f, parts, k, S \cup Dots)
  <2>1. f \in [0..k -> Seq(S \cup Dots)] /\ f[0] = <<>>
    BY <1>2, <1>8
  <2>2. \A i \in 1..k : f[i] = Step(f[i - 1], parts[i])
    <3> TAKE i \in 1..k
    <3>1. i \in 1..k + 1 /\ i \in 0..k /\ i - 1 \in 0..k
      OBVIOUS
    <3>2. f[i] = e[i] /\ f[i - 1] = e[i - 1]
      BY <3>1
    <3> QED
      BY <1>5, <1>8, <3>1, <3>2
  <2> QED
    BY <2>1, <2>2 DEF Walk
<1>10. f[k] = parts
  BY <1>1, <1>9, WalkOfNames
<1>11. e[k] = parts /\ e[k + 1] = Step(e[k], x)
  <2>1. k \in 0..k /\ k + 1 \in 1..k + 1 /\ (k + 1) - 1 = k
    OBVIOUS
  <2>2. e[k] = parts
    BY <1>10, <2>1
  <2> QED
    BY <1>5, <1>8, <2>1, <2>2
<1> QED
  BY <1>4, <1>7, <1>11
----------------------------------------------------------------------------
(* The parts directories are made of.                                      *)
PartNames == (Words \cup {"etc", "home", "var", "proc", ".ssh", user.name}) \ Dots

(* No directory is known under a path with dots; what is listed is a name, *)
(* a "~" that is a directory, or the nameless entry of the root.           *)
NamesInv ==
  Plain(user) =>
    /\ DOMAIN fs \subseteq Seq(PartNames) /\ Home(user) \in DOMAIN fs
    /\ \A d \in DOMAIN fs : \A entry \in fs[d] :
          /\ entry \notin {".", ".."}
          /\ entry = "" => d = <<>>
          /\ entry = "~" => d \o <<"~">> \in DOMAIN fs

LEMMA NamesInit == Init => NamesInv
<1> SUFFICES ASSUME Init, Plain(user)
             PROVE  /\ DOMAIN fs \subseteq Seq(PartNames) /\ Home(user) \in DOMAIN fs
                    /\ \A d \in DOMAIN fs : \A entry \in fs[d] : entry \notin {".", "..", "", "~"}
  BY DEF NamesInv
<1>1. fs = InitialTree(user)
  BY DEF Init
<1>2. DOMAIN fs = {<<>>, <<"etc">>, <<"home">>, Home(user), Home(user) \o <<".ssh">>,
                   <<"var">>, <<"proc">>}
  BY <1>1, InitialDirectories
<1>3. user.path = <<user.name>> /\ user.name \notin {"", ".", "..", "~"}
  BY DEF Plain
<1>4. {"etc", "home", "var", "proc", ".ssh", user.name} \subseteq PartNames
  BY <1>3 DEF PartNames, Dots
<1>5. \A c \in PartNames : <<c>> \in Seq(PartNames)
  OBVIOUS
<1>6. Home(user) \in Seq(PartNames)
  BY <1>3, <1>4, <1>5, ConcatProperties DEF Home
<1>7. Home(user) \o <<".ssh">> \in Seq(PartNames)
  BY <1>4, <1>5, <1>6, ConcatProperties
<1>8. DOMAIN fs \subseteq Seq(PartNames) /\ Home(user) \in DOMAIN fs
  BY <1>2, <1>4, <1>5, <1>6, <1>7, EmptySeq
<1>9. ASSUME NEW d \in DOMAIN fs, NEW entry \in fs[d]
      PROVE  entry \notin {".", "..", "", "~"}
  BY <1>1, <1>2, <1>3, <1>9 DEF InitialTree
<1> QED
  BY <1>8, <1>9

(* What a path the client types resolves to.                               *)
LEMMA ResolvesToNames ==
  ASSUME TypeOK, NamesInv, Plain(user), NEW path \in Typed
  PROVE  Resolve(cwd, path) \in Seq(PartNames)
<1>1. cwd \in Seq(PartNames) /\ Home(user) \in Seq(PartNames)
  BY DEF TypeOK, NamesInv
<1>2. path.parts \in Seq(Words)
  <2>1. MaxWords \in Nat
    BY ConstantsAssumption DEF ConstantsAssumption
  <2>2. PICK m \in 0..MaxWords : path.parts \in [1..m -> Words]
    BY DEF Typed, BoundedSeq, SeqOf
  <2>3. m \in Nat
    BY <2>1, <2>2
  <2> QED
    BY <2>2, <2>3, SeqDef
<1>3. \A c \in Words : c \in PartNames \cup Dots
  BY DEF PartNames
<1>4. \A i \in 1..Len(path.parts) : path.parts[i] \in PartNames \cup Dots
  BY <1>2, <1>3, LenProperties
<1>5. Len(path.parts) \in Nat
  BY <1>2, LenProperties
<1>6. Normal(path.parts) \in Seq(PartNames)
  BY <1>4, <1>5, NormalFacts
<1>7. Normal(cwd \o path.parts) \in Seq(PartNames)
  <2>1. PICK T : T = PartNames \cup Dots
    OBVIOUS
  <2>2. cwd \in Seq(T)
    BY <1>1, <2>1, SeqMonotonic
  <2>3. path.parts \in Seq(T)
    BY <1>2, <1>3, <2>1, SeqMonotonic
  <2>4. cwd \o path.parts \in Seq(T)
    BY <2>2, <2>3, ConcatProperties
  <2>5. Len(cwd \o path.parts) \in Nat /\ \A i \in 1..Len(cwd \o path.parts) : (cwd \o path.parts)[i] \in T
    BY <2>4, LenProperties
  <2> QED
    BY <2>1, <2>5, NormalFacts
<1> QED
  BY <1>1, <1>6, <1>7 DEF Resolve

LEMMA NamesStep == TypeOK /\ NamesInv /\ [Next]_vars => NamesInv'
<1> SUFFICES ASSUME TypeOK, NamesInv, [Next]_vars
             PROVE  NamesInv'
  OBVIOUS
<1>1. ASSUME NEW path \in Typed, Mkdir(path)
      PROVE  NamesInv'
  <2>1. PICK full : full = Resolve(cwd, path)
    OBVIOUS
  <2>2. DirName(full) \in DOMAIN fs /\ fs' = WithDirectory(full) /\ user' = user
    BY <1>1, <2>1 DEF Mkdir
  <2>3. SUFFICES ASSUME Plain(user)
                 PROVE  /\ DOMAIN fs' \subseteq Seq(PartNames) /\ Home(user) \in DOMAIN fs'
                        /\ \A d \in DOMAIN fs' : \A entry \in fs'[d] :
                              /\ entry \notin {".", ".."}
                              /\ entry = "" => d = <<>>
                              /\ entry = "~" => d \o <<"~">> \in DOMAIN fs'
    BY <2>2 DEF NamesInv, PartNames, Plain, Home
  <2>4. full \in Seq(PartNames)
    BY <2>1, <2>3, ResolvesToNames
  <2>5. DOMAIN fs' = DOMAIN fs \cup {full}
    BY <2>2, WithDirectoryTree
  <2>6. ASSUME NEW d \in DOMAIN fs', NEW entry \in fs'[d]
        PROVE  d \in DOMAIN fs /\ (entry \in fs[d] \/ (d = DirName(full) /\ entry = BaseName(full)))
    BY <2>2, <2>6 DEF WithDirectory
  <2>7. /\ BaseName(full) \notin {".", ".."}
        /\ BaseName(full) = "" => DirName(full) = <<>>
        /\ BaseName(full) = "~" => DirName(full) \o <<"~">> = full
    <3>1. CASE full = <<>>
      BY <3>1 DEF BaseName, DirName
    <3>2. CASE full # <<>>
      <4>1. BaseName(full) = Last(full) /\ DirName(full) = Front(full)
        BY <3>2 DEF BaseName, DirName
      <4>2. Last(full) \in PartNames /\ Front(full) \o <<Last(full)>> = full
        BY <2>4, <3>2, FrontFacts
      <4>3. \A c \in PartNames : c \notin Dots
        BY DEF PartNames
      <4> QED
        BY <4>1, <4>2, <4>3 DEF Dots
    <3> QED
      BY <3>1, <3>2
  <2>8. DOMAIN fs' \subseteq Seq(PartNames) /\ Home(user) \in DOMAIN fs'
    BY <2>3, <2>4, <2>5 DEF NamesInv
  <2>9. ASSUME NEW d \in DOMAIN fs', NEW entry \in fs'[d]
        PROVE  /\ entry \notin {".", ".."}
               /\ entry = "" => d = <<>>
               /\ entry = "~" => d \o <<"~">> \in DOMAIN fs'
    <3>1. CASE d \in DOMAIN fs /\ entry \in fs[d]
      BY <2>3, <2>5, <3>1 DEF NamesInv
    <3>2. CASE d = DirName(full) /\ entry = BaseName(full)
      BY <2>5, <2>7, <3>2
    <3> QED
      BY <2>6, <3>1, <3>2
  <2> QED
    BY <2>8, <2>9
<1>2. ASSUME NEW path \in Typed, Cd(path)
      PROVE  NamesInv'
  BY <1>2 DEF Cd, NamesInv, PartNames, Plain, Home
<1>3. CASE UNCHANGED vars
  BY <1>3 DEF vars, NamesInv, PartNames, Plain, Home
<1> QED
  BY <1>1, <1>2, <1>3 DEF Next

LEMMA NamesInvariant == Spec => [](TypeOK /\ NamesInv)
<1>1. Init => TypeOK /\ NamesInv
  BY TypeInit, NamesInit
<1>2. TypeOK /\ NamesInv /\ [Next]_vars => (TypeOK /\ NamesInv)'
  BY TypeStep, NamesStep
<1> QED
  BY <1>1, <1>2, PTL DEF Spec

(* What cd makes of an entry of a directory that is not "~", by the path   *)
(* resolved and by the one ls makes.                                       *)
LEMMA EntryResolves ==
  ASSUME NamesInv, Plain(user), NEW d \in DOMAIN fs, NEW entry \in Listed(d), entry # "~",
         NEW path, path = [rooted |-> FALSE, parts |-> <<entry>>]
  PROVE  EntryPath(d, entry) = Resolve(d, path)
<1>1. d \in Seq(PartNames) /\ (entry = "" => d = <<>>)
  BY DEF NamesInv, Listed
<1>2. PartNames \cap Dots = {}
  BY DEF PartNames
<1>3. Resolve(d, path) = Normal(d \o <<entry>>)
  <2>1. path # [rooted |-> FALSE, parts |-> <<"~">>]
    <3>1. path.parts[1] = entry
      OBVIOUS
    <3>2. ASSUME path = [rooted |-> FALSE, parts |-> <<"~">>]
          PROVE  entry = "~"
      BY <3>1, <3>2
    <3> QED
      BY <3>2
  <2> QED
    BY <2>1 DEF Resolve
<1>4. CASE entry \in Dots
  <2>1. Normal(d \o <<entry>>) = Step(d, entry)
    BY <1>1, <1>2, <1>4, NormalOfDotted
  <2>2. CASE entry \in {".", ""}
    BY <1>3, <2>1, <2>2 DEF Step, EntryPath
  <2>3. CASE entry = ".."
    <3>1. Step(d, entry) = DirName(d)
      BY <2>3 DEF Step, DirName
    <3> QED
      BY <1>3, <2>1, <2>3, <3>1 DEF EntryPath
  <2> QED
    BY <1>4, <2>2, <2>3 DEF Dots
<1>5. CASE entry \notin Dots
  <2>1. PICK T : T = PartNames \cup {entry}
    OBVIOUS
  <2>2. T \cap Dots = {}
    BY <1>2, <1>5, <2>1
  <2>3. d \in Seq(T)
    BY <1>1, <2>1, SeqMonotonic
  <2>4. <<entry>> \in Seq(T)
    BY <2>1
  <2>5. d \o <<entry>> \in Seq(T)
    BY <2>3, <2>4, ConcatProperties
  <2>6. Normal(d \o <<entry>>) = d \o <<entry>>
    BY <2>2, <2>5, NormalOfNames
  <2>7. EntryPath(d, entry) = d \o <<entry>>
    BY <1>5 DEF EntryPath, EntryParts, Plain, Dots
  <2> QED
    BY <1>3, <2>6, <2>7
<1> QED
  BY <1>4, <1>5

(* "~" is the one entry that cd takes for another directory; both exist.   *)
LEMMA EntriesAgree ==
  ASSUME NamesInv, Plain(user), NEW d \in DOMAIN fs, NEW entry \in Listed(d),
         NEW path, path = [rooted |-> FALSE, parts |-> EntryParts(entry)]
  PROVE  /\ entry # "~" => EntryPath(d, entry) = Resolve(d, path)
         /\ ShownAsDirectory(d, entry) <=> Resolve(d, path) \in DOMAIN fs
<1>1. EntryParts(entry) = <<entry>>
  BY DEF EntryParts, Plain
<1>2. CASE entry = "~"
  <2>1. Resolve(d, path) = Home(user)
    BY <1>1, <1>2 DEF Resolve
  <2>2. EntryPath(d, entry) = d \o <<"~">>
    BY <1>1, <1>2 DEF EntryPath
  <2>3. entry \in fs[d]
    BY <1>2 DEF Listed
  <2>4. Home(user) \in DOMAIN fs /\ d \o <<"~">> \in DOMAIN fs
    BY <1>2, <2>3 DEF NamesInv
  <2> QED
    BY <1>2, <2>1, <2>2, <2>4 DEF ShownAsDirectory
<1>3. CASE entry # "~"
  <2>1. EntryPath(d, entry) = Resolve(d, path)
    BY <1>1, <1>3, EntryResolves
  <2> QED
    BY <2>1 DEF ShownAsDirectory
<1> QED
  BY <1>2, <1>3

(* For every user name that is one part of a path: ls -la, cd and cat      *)
(* agree on every entry of every directory, "." and ".." included, and no  *)
(* directory is known under a path that means another, however directories *)
(* are made: "mkdir /", "mkdir ./~" and paths through the root included    *)
(* (fake_shell.py:117, 150-163, 210-227).                                  *)
THEOREM ViewsAlwaysAgree == Spec => []ViewsAgree
<1>1. TypeOK /\ NamesInv => ViewsAgree
  <2> SUFFICES ASSUME TypeOK, NamesInv, Plain(user)
               PROVE  /\ \A p \in DOMAIN fs \cup {cwd} : Normal(p) = p
                      /\ \A d \in DOMAIN fs : \A entry \in Listed(d) :
                            LET path == [rooted |-> FALSE, parts |-> EntryParts(entry)]
                            IN  /\ entry # "~" => EntryPath(d, entry) = Resolve(d, path)
                                /\ ShownAsDirectory(d, entry) <=> Resolve(d, path) \in DOMAIN fs
                                /\ Cat(d, entry) = "directory" => ShownAsDirectory(d, entry)
    BY DEF ViewsAgree
  <2>1. ASSUME NEW p \in DOMAIN fs \cup {cwd}
        PROVE  Normal(p) = p
    <3>1. p \in Seq(PartNames)
      BY DEF TypeOK, NamesInv
    <3>2. PartNames \cap Dots = {}
      BY DEF PartNames
    <3> QED
      BY <3>1, <3>2, NormalOfNames
  <2>2. ASSUME NEW d \in DOMAIN fs, NEW entry \in Listed(d),
               NEW path, path = [rooted |-> FALSE, parts |-> EntryParts(entry)]
        PROVE  /\ entry # "~" => EntryPath(d, entry) = Resolve(d, path)
               /\ ShownAsDirectory(d, entry) <=> Resolve(d, path) \in DOMAIN fs
               /\ Cat(d, entry) = "directory" => ShownAsDirectory(d, entry)
    <3>1. /\ entry # "~" => EntryPath(d, entry) = Resolve(d, path)
          /\ ShownAsDirectory(d, entry) <=> Resolve(d, path) \in DOMAIN fs
      BY <2>2, EntriesAgree
    <3>2. Cat(d, entry) = "directory" => Resolve(d, path) \in DOMAIN fs
      BY <2>2 DEF Cat
    <3> QED
      BY <3>1, <3>2
  <2> QED
    BY <2>1, <2>2
<1> QED
  BY NamesInvariant, <1>1, PTL
----------------------------------------------------------------------------
(* How many of a set of places are in a stretch that gets one longer.      *)
LEMMA CountGrows ==
  ASSUME NEW T, NEW i \in Nat, NEW n \in Nat, i <= n
  PROVE  /\ Cardinality((i..n - 1) \cap T) \in Nat
         /\ Cardinality((i..n) \cap T)
              = Cardinality((i..n - 1) \cap T) + (IF n \in T THEN 1 ELSE 0)
<1> DEFINE A == (i..n - 1) \cap T
           B == (i..n) \cap T
<1>1. IsFiniteSet(A) /\ Cardinality(A) \in Nat
  <2>1. IsFiniteSet(i..n - 1)
    BY FS_Interval
  <2>2. IsFiniteSet(A)
    BY <2>1, FS_Intersection
  <2> QED
    BY <2>2, FS_CardinalityType
<1>2. B = IF n \in T THEN A \cup {n} ELSE A
  OBVIOUS
<1>3. n \notin A
  OBVIOUS
<1>4. Cardinality(B) = Cardinality(A) + (IF n \in T THEN 1 ELSE 0)
  <2> HIDE DEF A, B
  <2>1. CASE n \in T
    BY <1>1, <1>2, <1>3, <2>1, FS_AddElement
  <2>2. CASE n \notin T
    BY <1>1, <1>2, <2>2
  <2> QED
    BY <2>1, <2>2
<1> QED
  BY <1>1, <1>4

(* The ".." and the names in a stretch that gets one longer.               *)
LEMMA UpAndNames ==
  ASSUME NEW parts, NEW i \in Nat, NEW n \in Nat, i <= n
  PROVE  /\ Up(parts, i, n - 1) \in Nat /\ Names(parts, i, n - 1) \in Nat
         /\ Up(parts, i, n) = Up(parts, i, n - 1) + (IF parts[n] = ".." THEN 1 ELSE 0)
         /\ Names(parts, i, n) = Names(parts, i, n - 1) + (IF parts[n] \notin Dots THEN 1 ELSE 0)
<1> DEFINE U == {k \in Nat : parts[k] = ".."}
           N == {k \in Nat : parts[k] \notin {"", ".", ".."}}
<1>1. \A m \in {n, n - 1} : /\ Up(parts, i, m) = Cardinality((i..m) \cap U)
                            /\ Names(parts, i, m) = Cardinality((i..m) \cap N)
  <2> TAKE m \in {n, n - 1}
  <2>1. {k \in i..m : parts[k] = ".."} = (i..m) \cap U
    OBVIOUS
  <2>2. {k \in i..m : parts[k] \notin {"", ".", ".."}} = (i..m) \cap N
    <3>1. \A k : k \in i..m => k \in Nat
      OBVIOUS
    <3> DEFINE Name(k) == parts[k] \notin {"", ".", ".."}
    <3>2. N = {k \in Nat : Name(k)}
      OBVIOUS
    <3> HIDE DEF Name, N
    <3>3. {k \in i..m : Name(k)} = (i..m) \cap N
      BY <3>1, <3>2
    <3> QED
      BY <3>3 DEF Name
  <2> QED
    BY <2>1, <2>2 DEF Up, Names
<1>2. (n \in U <=> parts[n] = "..") /\ (n \in N <=> parts[n] \notin Dots)
  BY DEF Dots
<1> HIDE DEF U, N
<1>3. /\ Cardinality((i..n - 1) \cap U) \in Nat
      /\ Cardinality((i..n) \cap U) = Cardinality((i..n - 1) \cap U) + (IF n \in U THEN 1 ELSE 0)
  BY CountGrows
<1>4. /\ Cardinality((i..n - 1) \cap N) \in Nat
      /\ Cardinality((i..n) \cap N) = Cardinality((i..n - 1) \cap N) + (IF n \in N THEN 1 ELSE 0)
  BY CountGrows
<1> QED
  BY <1>1, <1>2, <1>3, <1>4

(* Nothing is in a stretch of no parts.                                    *)
LEMMA NothingBehind ==
  ASSUME NEW parts, NEW n \in Nat
  PROVE  Up(parts, n + 1, n) = 0 /\ Names(parts, n + 1, n) = 0
<1>1. (n + 1)..n = {}
  OBVIOUS
<1> QED
  BY <1>1, FS_EmptySet DEF Up, Names

(* The places among the first n that count, as if the path ended there.    *)
Standing(parts, n) ==
  {i \in 1..n : /\ parts[i] \notin Dots
                /\ \A j \in (i + 1)..n : Up(parts, i + 1, j) <= Names(parts, i + 1, j)}

(* A place counts as long as no ".." that comes takes it back.             *)
LEMMA StandingGrows ==
  ASSUME NEW parts, NEW n \in Nat, n # 0
  PROVE  /\ \A i \in 1..n - 1 :
              i \in Standing(parts, n) <=>
                /\ i \in Standing(parts, n - 1)
                /\ Up(parts, i + 1, n) <= Names(parts, i + 1, n)
         /\ n \in Standing(parts, n) <=> parts[n] \notin Dots
         /\ Standing(parts, n) \subseteq 1..n
<1>1. ASSUME NEW i \in 1..n - 1
      PROVE  i \in Standing(parts, n) <=>
                /\ i \in Standing(parts, n - 1)
                /\ Up(parts, i + 1, n) <= Names(parts, i + 1, n)
  <2>1. i \in 1..n /\ \A j : j \in (i + 1)..n <=> j = n \/ j \in (i + 1)..n - 1
    OBVIOUS
  <2> QED
    BY <2>1 DEF Standing
<1>2. n \in Standing(parts, n) <=> parts[n] \notin Dots
  <2>1. n \in 1..n /\ (n + 1)..n = {}
    OBVIOUS
  <2> QED
    BY <2>1 DEF Standing
<1> QED
  BY <1>1, <1>2 DEF Standing

(* q has the places of the parts of s in their order: those that count.    *)
(* Behind the one of part k there are more names than "..", by as many as  *)
(* there are parts of s behind k.                                          *)
Behind(parts, i, n, more) == Names(parts, i + 1, n) = Up(parts, i + 1, n) + more

Marks(q, s, m, parts, n) ==
  /\ m \in Nat /\ Len(s) = m
  /\ q \in [1..m -> 1..n]
  /\ \A a, b \in 1..m : a < b => q[a] < q[b]
  /\ \A k \in 1..m : /\ q[k] \in Standing(parts, n)
                     /\ s[k] = parts[q[k]]
                     /\ Behind(parts, q[k], n, m - k)
  /\ \A i \in Standing(parts, n) : \E k \in 1..m : q[k] = i

(* Another part: a name is marked, ".." takes the last mark away.          *)
LEMMA MarksStep ==
  ASSUME NEW S, NEW s \in Seq(S), NEW parts, NEW n \in Nat, n # 0,
         parts[n] \in S \cup Dots, NEW q, NEW m, Marks(q, s, m, parts, n - 1)
  PROVE  \E r, l : Marks(r, Step(s, parts[n]), l, parts, n)
<1>1. /\ m \in Nat /\ Len(s) = m
      /\ q \in [1..m -> 1..n - 1]
      /\ \A a, b \in 1..m : a < b => q[a] < q[b]
      /\ \A k \in 1..m : q[k] \in Standing(parts, n - 1) /\ s[k] = parts[q[k]]
      /\ \A i \in Standing(parts, n - 1) : \E k \in 1..m : q[k] = i
  BY DEF Marks
<1>2. \A k \in 1..m : q[k] \in 1..n - 1 /\ q[k] \in 1..n /\ q[k] \in Nat /\ q[k] + 1 \in Nat
                      /\ q[k] + 1 <= n /\ q[k] # n
  BY <1>1
<1>3. ASSUME NEW k \in 1..m
      PROVE  /\ Names(parts, q[k] + 1, n - 1) = Up(parts, q[k] + 1, n - 1) + (m - k)
             /\ Up(parts, q[k] + 1, n - 1) \in Nat
             /\ Up(parts, q[k] + 1, n)
                  = Up(parts, q[k] + 1, n - 1) + (IF parts[n] = ".." THEN 1 ELSE 0)
             /\ Names(parts, q[k] + 1, n)
                  = Names(parts, q[k] + 1, n - 1) + (IF parts[n] \notin Dots THEN 1 ELSE 0)
  <2>1. Names(parts, q[k] + 1, n - 1) = Up(parts, q[k] + 1, n - 1) + (m - k)
    BY <1>3 DEF Marks, Behind
  <2>2. q[k] + 1 \in Nat /\ q[k] + 1 <= n
    BY <1>2, <1>3
  <2> QED
    BY <2>1, <2>2, UpAndNames
<1>4. \A i \in Standing(parts, n) : i = n \/ (i \in 1..n - 1 /\ i \in Standing(parts, n - 1))
  <2>1. \A i \in 1..n : i = n \/ i \in 1..n - 1
    OBVIOUS
  <2> QED
    BY <2>1, StandingGrows
<1>5. CASE parts[n] \in {"", "."}
  <2>1. Step(s, parts[n]) = s
    BY <1>5 DEF Step
  <2>2. parts[n] \in Dots /\ parts[n] # ".."
    BY <1>5 DEF Dots
  <2>3. ASSUME NEW k \in 1..m
        PROVE  Behind(parts, q[k], n, m - k) /\ q[k] \in Standing(parts, n)
    <3>1. PICK u \in Nat, d \in Nat : u = Up(parts, q[k] + 1, n - 1) /\ d = m - k
      BY <1>1, <1>3
    <3>2. Names(parts, q[k] + 1, n - 1) = u + d
      BY <1>3, <3>1
    <3>3. Up(parts, q[k] + 1, n) = u /\ Names(parts, q[k] + 1, n) = u + d
      BY <1>3, <2>2, <3>1, <3>2
    <3>4. Behind(parts, q[k], n, m - k)
      BY <3>1, <3>3 DEF Behind
    <3>5. Up(parts, q[k] + 1, n) <= Names(parts, q[k] + 1, n)
      BY <3>3
    <3> QED
      BY <1>1, <1>2, <2>3, <3>4, <3>5, StandingGrows
  <2>4. q \in [1..m -> 1..n]
    BY <1>1
  <2>5. \A i \in Standing(parts, n) : \E k \in 1..m : q[k] = i
    BY <1>1, <1>4, <2>2, StandingGrows
  <2>6. Marks(q, s, m, parts, n)
    BY <1>1, <2>3, <2>4, <2>5 DEF Marks
  <2> QED
    BY <2>1, <2>6
<1>6. CASE parts[n] \notin Dots
  <2>1. Step(s, parts[n]) = Append(s, parts[n]) /\ parts[n] \in S /\ parts[n] # ".."
    BY <1>6, StepFacts DEF Dots
  <2>2. PICK t \in Seq(S) : t = Append(s, parts[n])
    BY <2>1, AppendProperties
  <2>3. Len(t) = m + 1 /\ t[m + 1] = parts[n] /\ \A k \in 1..m : t[k] = s[k]
    BY <1>1, <2>1, <2>2, AppendProperties
  <2> DEFINE r == [k \in 1..m + 1 |-> IF k = m + 1 THEN n ELSE q[k]]
  <2>4. /\ r[m + 1] = n
        /\ \A k \in 1..m : r[k] = q[k] /\ k \in 1..m + 1
    BY <1>1
  <2>5. \A k \in 1..m + 1 : k = m + 1 \/ k \in 1..m
    BY <1>1
  <2>6. r \in [1..m + 1 -> 1..n]
    BY <1>2, <2>5
  <2> HIDE DEF r
  <2>7. \A a, b \in 1..m + 1 : a < b => r[a] < r[b]
    <3> SUFFICES ASSUME NEW a \in 1..m + 1, NEW b \in 1..m + 1, a < b
                 PROVE  r[a] < r[b]
      OBVIOUS
    <3>1. a \in 1..m
      BY <1>1
    <3>2. CASE b = m + 1
      <4>1. r[a] \in 1..n - 1 /\ r[b] = n
        BY <1>1, <2>4, <3>1, <3>2
      <4> QED
        BY <4>1
    <3>3. CASE b \in 1..m
      BY <1>1, <2>4, <3>1, <3>3
    <3> QED
      BY <2>5, <3>2, <3>3
  <2>8. ASSUME NEW k \in 1..m + 1
        PROVE  /\ r[k] \in Standing(parts, n) /\ t[k] = parts[r[k]]
               /\ Behind(parts, r[k], n, m + 1 - k)
    <3>1. CASE k = m + 1
      <4>1. r[k] = n /\ n \in Standing(parts, n) /\ t[k] = parts[n]
        BY <1>6, <2>3, <2>4, <3>1, StandingGrows
      <4>2. Behind(parts, n, n, 0)
        BY NothingBehind DEF Behind
      <4>3. m + 1 - k = 0
        BY <1>1, <3>1
      <4> QED
        BY <4>1, <4>2, <4>3
    <3>2. CASE k \in 1..m
      <4>1. r[k] = q[k] /\ t[k] = parts[q[k]]
        BY <1>1, <2>3, <2>4, <3>2
      <4>2. Behind(parts, q[k], n, m + 1 - k)
        BY <1>1, <1>3, <1>6, <2>1, <3>2 DEF Behind
      <4>3. Up(parts, q[k] + 1, n) <= Names(parts, q[k] + 1, n)
        BY <1>1, <1>3, <1>6, <2>1, <3>2
      <4>4. q[k] \in Standing(parts, n)
        BY <1>1, <1>2, <3>2, <4>3, StandingGrows
      <4> QED
        BY <4>1, <4>2, <4>4
    <3> QED
      BY <2>5, <3>1, <3>2
  <2>9. ASSUME NEW i \in Standing(parts, n)
        PROVE  \E k \in 1..m + 1 : r[k] = i
    <3>1. CASE i = n
      <4>1. m + 1 \in 1..m + 1
        BY <1>1
      <4> QED
        BY <2>4, <3>1, <4>1
    <3>2. CASE i \in Standing(parts, n - 1)
      BY <1>1, <2>4, <3>2
    <3> QED
      BY <1>4, <3>1, <3>2
  <2>10. Marks(r, t, m + 1, parts, n)
    <3>1. m + 1 \in Nat
      BY <1>1
    <3> QED
      BY <2>3, <2>6, <2>7, <2>8, <2>9, <3>1 DEF Marks
  <2> QED
    BY <2>1, <2>2, <2>10
<1>7. CASE parts[n] = ".." /\ s = <<>>
  <2>1. Step(s, parts[n]) = s /\ m = 0 /\ parts[n] \in Dots
    BY <1>1, <1>7 DEF Step, Dots
  <2>2. \A k \in 1..m : FALSE
    BY <2>1
  <2>3. q \in [1..m -> 1..n]
    BY <1>1
  <2>4. \A i \in Standing(parts, n) : FALSE
    BY <1>1, <1>4, <2>1, <2>2, StandingGrows
  <2>5. Marks(q, s, m, parts, n)
    BY <1>1, <2>2, <2>3, <2>4 DEF Marks
  <2> QED
    BY <2>1, <2>5
<1>8. CASE parts[n] = ".." /\ s # <<>>
  <2>1. Step(s, parts[n]) = Front(s) /\ parts[n] \in Dots
    BY <1>8 DEF Step, Dots
  <2>2. PICK t \in Seq(S) : t = Front(s)
    BY <1>8, FrontFacts
  <2>3. m >= 1 /\ m - 1 \in Nat
    <3>1. m # 0
      BY <1>1, <1>8, EmptySeq
    <3> QED
      BY <1>1, <3>1
  <2>4. Len(t) = m - 1 /\ \A k \in 1..m - 1 : t[k] = s[k]
    <3>1. t = SubSeq(s, 1, m - 1)
      BY <1>1, <2>2 DEF Front
    <3>2. \A k \in 1..m : s[k] \in S
      BY <1>1
    <3>3. \A k \in 1..m - 1 : k \in 1..m
      BY <1>1
    <3>4. \A k \in 1..m - 1 : s[k] \in S
      BY <3>2, <3>3
    <3> QED
      BY <2>3, <3>1, <3>4, SubSeqProperties
  <2> DEFINE r == [k \in 1..m - 1 |-> q[k]]
  <2>5. \A k \in 1..m - 1 : k \in 1..m /\ r[k] = q[k]
    BY <1>1
  <2>6. r \in [1..m - 1 -> 1..n]
    BY <1>2, <2>5
  <2> HIDE DEF r
  <2>7. \A a, b \in 1..m - 1 : a < b => r[a] < r[b]
    BY <1>1, <2>5
  <2>8. ASSUME NEW k \in 1..m - 1
        PROVE  /\ r[k] \in Standing(parts, n) /\ t[k] = parts[r[k]]
               /\ Behind(parts, r[k], n, m - 1 - k)
    <3>1. k \in 1..m /\ r[k] = q[k] /\ t[k] = parts[q[k]]
      BY <1>1, <2>4, <2>5, <2>8
    <3>2. PICK u \in Nat, d \in Nat : /\ u = Up(parts, q[k] + 1, n - 1)
                                      /\ d = m - 1 - k /\ d + 1 = m - k
      BY <1>1, <1>3, <2>8, <3>1
    <3>3. Names(parts, q[k] + 1, n - 1) = u + (d + 1)
      BY <1>3, <3>2, <3>1
    <3>4. Up(parts, q[k] + 1, n) = u + 1 /\ Names(parts, q[k] + 1, n) = u + (d + 1)
      BY <1>3, <1>8, <2>1, <3>2, <3>1, <3>3
    <3>5. Behind(parts, q[k], n, m - 1 - k)
      BY <3>2, <3>4 DEF Behind
    <3>6. Up(parts, q[k] + 1, n) <= Names(parts, q[k] + 1, n)
      BY <3>4
    <3>7. q[k] \in Standing(parts, n)
      BY <1>1, <1>2, <3>1, <3>6, StandingGrows
    <3> QED
      BY <3>1, <3>5, <3>7
  <2>9. ASSUME NEW i \in Standing(parts, n)
        PROVE  \E k \in 1..m - 1 : r[k] = i
    <3>1. i \in 1..n - 1 /\ i \in Standing(parts, n - 1)
          /\ Up(parts, i + 1, n) <= Names(parts, i + 1, n)
      BY <1>4, <2>1, <2>9, StandingGrows
    <3>2. PICK k \in 1..m : q[k] = i
      BY <1>1, <3>1
    <3>3. k # m
      <4> SUFFICES ASSUME k = m
                   PROVE  FALSE
        OBVIOUS
      <4>1. m - k = 0
        BY <1>1
      <4>2. Names(parts, q[k] + 1, n - 1) = Up(parts, q[k] + 1, n - 1) + 0
        BY <1>3, <4>1
      <4> QED
        BY <1>3, <1>8, <2>1, <3>1, <3>2, <4>2
    <3>4. k \in 1..m - 1
      BY <1>1, <3>3
    <3> QED
      BY <2>5, <3>2, <3>4
  <2>10. Marks(r, t, m - 1, parts, n)
    BY <2>3, <2>4, <2>6, <2>7, <2>8, <2>9 DEF Marks
  <2> QED
    BY <2>1, <2>2, <2>10
<1> QED
  BY <1>5, <1>6, <1>7, <1>8 DEF Dots

(* The parts resolved so far are marked at every step of a walk.           *)
LEMMA MarksExist ==
  ASSUME NEW S, NEW parts, NEW n \in Nat, \A i \in 1..n : parts[i] \in S \cup Dots,
         NEW e, Walk(e, parts, n, S)
  PROVE  \E q, m : Marks(q, e[n], m, parts, n)
<1>1. /\ e \in [0..n -> Seq(S)] /\ e[0] = <<>>
      /\ \A i \in 1..n : e[i] = Step(e[i - 1], parts[i])
  BY DEF Walk
<1> DEFINE Marked(i) == \E q, m : Marks(q, e[i], m, parts, i)
           Not == {i \in 0..n : ~Marked(i)}
<1>2. Not = {}
  <2> SUFFICES ASSUME Not # {}
               PROVE  FALSE
    OBVIOUS
  <2>1. PICK i \in Not : \A y \in Not : i <= y
    <3>1. Not \in SUBSET Nat
      OBVIOUS
    <3> HIDE DEF Not
    <3> QED
      BY <3>1, LeastExists
  <2>2. i \in 0..n /\ ~Marked(i)
    BY <2>1
  <2>3. CASE i = 0
    <3> DEFINE q == [k \in 1..0 |-> k]
    <3>1. \A k \in 1..0 : FALSE
      OBVIOUS
    <3>2. Standing(parts, 0) = {}
      BY <3>1 DEF Standing
    <3>3. q \in [1..0 -> 1..0] /\ Len(e[0]) = 0
      BY <1>1
    <3>4. Marks(q, e[0], 0, parts, 0)
      BY <3>1, <3>2, <3>3 DEF Marks
    <3> QED
      BY <2>2, <2>3, <3>4
  <2>4. CASE i # 0
    <3>1. i \in Nat /\ i - 1 \in 0..n /\ i \in 1..n /\ ~(i <= i - 1)
      BY <2>2, <2>4
    <3>2. Marked(i - 1)
      BY <2>1, <3>1
    <3>3. PICK q, m : Marks(q, e[i - 1], m, parts, i - 1)
      BY <3>2
    <3>4. PICK s \in Seq(S) : s = e[i - 1]
      BY <1>1, <3>1
    <3>5. parts[i] \in S \cup Dots /\ e[i] = Step(s, parts[i])
      BY <1>1, <3>1, <3>4
    <3>6. \E r, l : Marks(r, Step(s, parts[i]), l, parts, i)
      BY <2>4, <3>1, <3>3, <3>4, <3>5, MarksStep
    <3> QED
      BY <2>2, <3>5, <3>6
  <2> QED
    BY <2>3, <2>4
<1>3. n \in 0..n
  OBVIOUS
<1> QED
  BY <1>2, <1>3

(* The first k places that count are k.                                    *)
LEMMA MarksCounted ==
  ASSUME NEW q, NEW s, NEW m, NEW parts, NEW n \in Nat, Marks(q, s, m, parts, n),
         NEW k \in 0..m
  PROVE  Cardinality({q[a] : a \in 1..k}) = k
<1>1. /\ m \in Nat /\ k \in Nat /\ q \in [1..m -> 1..n]
      /\ \A a, b \in 1..m : a < b => q[a] < q[b]
  BY DEF Marks
<1>2. \A a \in 1..k : a \in 1..m
  BY <1>1
<1>3. \A a, b \in 1..k : q[a] = q[b] => a = b
  <2> SUFFICES ASSUME NEW a \in 1..k, NEW b \in 1..k, a # b
               PROVE  q[a] # q[b]
    OBVIOUS
  <2>1. a \in 1..m /\ b \in 1..m /\ (a < b \/ b < a)
    BY <1>2
  <2>2. q[a] \in Nat /\ q[b] \in Nat
    BY <1>1, <2>1
  <2>3. q[a] < q[b] \/ q[b] < q[a]
    BY <1>1, <2>1
  <2> QED
    BY <2>2, <2>3
<1> DEFINE f == [a \in 1..k |-> q[a]]
           T == {q[a] : a \in 1..k}
<1>4. f \in Bijection(1..k, T)
  BY <1>3 DEF Bijection, Injection, Surjection, IsInjective
<1>5. IsFiniteSet(1..k) /\ Cardinality(1..k) = k
  <2>1. /\ IsFiniteSet(1..k)
        /\ Cardinality(1..k) = IF 1 > k THEN 0 ELSE k - 1 + 1
    BY <1>1, FS_Interval
  <2> QED
    BY <1>1, <2>1
<1>6. ExistsBijection(1..k, T)
  BY <1>4 DEF ExistsBijection
<1> QED
  BY <1>5, <1>6, FS_Bijection

(* What counts of a whole path is what is marked.                          *)
LEMMA KeptIsMarked ==
  ASSUME NEW S, NEW s \in Seq(S), NEW T, NEW parts \in Seq(T), NEW q, NEW m,
         Marks(q, s, m, parts, Len(parts))
  PROVE  Kept(parts) = s
<1>1. PICK n \in Nat : n = Len(parts) /\ DOMAIN parts = 1..n
  BY LenProperties
<1> DEFINE kept == {i \in DOMAIN parts : Counts(parts, i)}
           At(k) == CHOOSE i \in kept : Cardinality({j \in kept : j <= i}) = k
<1>2. kept = Standing(parts, n)
  BY <1>1 DEF Counts, Standing, Dots
<1>3. Kept(parts) = [k \in 1..Cardinality(kept) |-> parts[At(k)]]
  BY DEF Kept
<1>4. /\ m \in Nat /\ Len(s) = m /\ q \in [1..m -> 1..n]
      /\ \A a, b \in 1..m : a < b => q[a] < q[b]
      /\ \A k \in 1..m : q[k] \in kept /\ s[k] = parts[q[k]]
      /\ \A i \in kept : \E k \in 1..m : q[k] = i
  BY <1>1, <1>2 DEF Marks
<1> HIDE DEF kept
<1>5. kept = {q[a] : a \in 1..m}
  BY <1>4
<1>6. Cardinality(kept) = m
  <2>1. m \in 0..m
    BY <1>4
  <2> QED
    BY <1>1, <1>5, <2>1, MarksCounted
<1>7. ASSUME NEW k \in 1..m
      PROVE  Cardinality({j \in kept : j <= q[k]}) = k
  <2>1. \A a \in 1..m : q[a] <= q[k] <=> a <= k
    <3> TAKE a \in 1..m
    <3>1. q[a] \in Nat /\ q[k] \in Nat
      BY <1>4
    <3>2. a < k \/ a = k \/ k < a
      OBVIOUS
    <3>3. (a < k => q[a] < q[k]) /\ (k < a => q[k] < q[a])
      BY <1>4
    <3> QED
      BY <3>1, <3>2, <3>3
  <2>2. \A a : a \in 1..k <=> a \in 1..m /\ a <= k
    BY <1>4
  <2>3. {j \in kept : j <= q[k]} = {q[a] : a \in 1..k}
    BY <1>5, <2>1, <2>2
  <2>4. k \in 0..m
    OBVIOUS
  <2> QED
    BY <1>1, <2>3, <2>4, MarksCounted
<1>8. ASSUME NEW k \in 1..m
      PROVE  At(k) = q[k]
  <2>1. q[k] \in kept /\ Cardinality({j \in kept : j <= q[k]}) = k
    BY <1>4, <1>7
  <2>2. ASSUME NEW i \in kept, Cardinality({j \in kept : j <= i}) = k
        PROVE  i = q[k]
    <3>1. PICK a \in 1..m : i = q[a]
      BY <1>4
    <3>2. a = k
      BY <1>7, <2>2, <3>1
    <3> QED
      BY <3>1, <3>2
  <2> QED
    BY <2>1, <2>2
<1>9. Kept(parts) = [k \in 1..m |-> s[k]]
  <2>1. \A k \in 1..m : parts[At(k)] = s[k]
    BY <1>4, <1>8
  <2> HIDE DEF At
  <2> QED
    BY <1>3, <1>6, <2>1
<1> QED
  <2>1. s \in [1..m -> S]
    BY <1>4, LenProperties
  <2> QED
    BY <1>9, <2>1
----------------------------------------------------------------------------
(* What the paths of a session are made of: directories are known under    *)
(* sequences of parts, whatever the login name.                            *)
AnyPart == Words \cup STRING \cup {"etc", "home", "var", "proc", ".ssh"}

PathsInv == TypeOK /\ DOMAIN fs \subseteq Seq(AnyPart) /\ user.path \in Seq(AnyPart)

(* What is typed is a sequence of parts.                                   *)
LEMMA TypedParts ==
  ASSUME NEW path \in Typed
  PROVE  path.parts \in Seq(AnyPart)
<1>1. MaxWords \in Nat
  BY ConstantsAssumption DEF ConstantsAssumption
<1>2. PICK m \in 0..MaxWords : path.parts \in [1..m -> Words]
  BY DEF Typed, BoundedSeq, SeqOf
<1>3. m \in Nat /\ path.parts \in [1..m -> AnyPart]
  BY <1>1, <1>2 DEF AnyPart
<1> QED
  BY <1>3, SeqDef

(* A path of one name of the initial tree.                                 *)
LEMMA OneName ==
  \A w \in {"etc", "home", "var", "proc", ".ssh"} : <<w>> \in Seq(AnyPart)
<1>1. {"etc", "home", "var", "proc", ".ssh"} \subseteq AnyPart
  BY DEF AnyPart
<1>2. \A w \in AnyPart : <<w>> \in Seq(AnyPart)
  OBVIOUS
<1> QED
  BY <1>1, <1>2

(* The home directory and .ssh.                                            *)
LEMMA HomeParts ==
  ASSUME NEW u, u.path \in Seq(AnyPart)
  PROVE  Home(u) \in Seq(AnyPart) /\ Home(u) \o <<".ssh">> \in Seq(AnyPart)
<1>1. <<"home">> \in Seq(AnyPart) /\ <<".ssh">> \in Seq(AnyPart)
  BY OneName
<1>2. Home(u) \in Seq(AnyPart)
  BY <1>1, ConcatProperties DEF Home
<1> QED
  BY <1>1, <1>2, ConcatProperties

(* The path a path resolves along.                                         *)
LEMMA WholeParts ==
  ASSUME PathsInv, NEW path \in Typed
  PROVE  (IF path.rooted THEN path.parts ELSE cwd \o path.parts) \in Seq(AnyPart)
<1>1. path.parts \in Seq(AnyPart) /\ cwd \in Seq(AnyPart)
  BY TypedParts DEF PathsInv, TypeOK
<1> QED
  BY <1>1, ConcatProperties

(* Such a path resolves to the parts of it that count.                     *)
LEMMA NormalParts ==
  ASSUME NEW parts \in Seq(AnyPart)
  PROVE  Normal(parts) \in Seq(AnyPart) /\ Normal(parts) = Kept(parts)
<1>1. PICK n \in Nat : n = Len(parts) /\ \A i \in 1..n : parts[i] \in AnyPart \cup Dots
  BY LenProperties
<1>2. PICK e : Walk(e, parts, n, AnyPart) /\ Normal(parts) = e[n]
  BY <1>1, NormalWalks
<1>3. PICK s \in Seq(AnyPart) : s = e[n]
  BY <1>2 DEF Walk
<1>4. PICK q, m : Marks(q, s, m, parts, n)
  BY <1>1, <1>2, <1>3, MarksExist
<1> QED
  BY <1>1, <1>2, <1>3, <1>4, KeptIsMarked

(* mkdir adds a path that was resolved.                                    *)
LEMMA PathsStep == PathsInv /\ [Next]_vars => PathsInv'
<1> SUFFICES ASSUME PathsInv, [Next]_vars
             PROVE  PathsInv'
  OBVIOUS
<1>1. TypeOK'
  BY TypeStep DEF PathsInv
<1>2. ASSUME NEW path \in Typed, Mkdir(path)
      PROVE  PathsInv'
  <2>1. Resolve(cwd, path) \in Seq(AnyPart)
    BY WholeParts, NormalParts, HomeParts DEF Resolve, PathsInv
  <2>2. DOMAIN fs' = DOMAIN fs \cup {Resolve(cwd, path)}
    BY <1>2, WithDirectoryTree DEF Mkdir
  <2> QED
    BY <1>1, <1>2, <2>1, <2>2 DEF PathsInv, Mkdir
<1>3. ASSUME NEW path \in Typed, Cd(path)
      PROVE  PathsInv'
  BY <1>1, <1>3 DEF PathsInv, Cd
<1>4. CASE UNCHANGED vars
  BY <1>1, <1>4 DEF PathsInv, vars
<1> QED
  BY <1>2, <1>3, <1>4 DEF Next

(* _resolve_path keeps the parts that count and no others, in their order, *)
(* for every path typed in every directory: through the root, through      *)
(* directories that do not exist, with more ".." than there are names      *)
(* (fake_shell.py:183-192).                                                *)
THEOREM PathsResolveLexically == Spec => []ResolvesLexically
<1>1. Init => PathsInv
  <2> SUFFICES ASSUME Init
               PROVE  PathsInv
    OBVIOUS
  <2>1. user.path \in Seq(AnyPart)
    <3>1. user.path \in Seq(STRING) /\ STRING \subseteq AnyPart
      BY ConstantsAssumption DEF Init, ConstantsAssumption, AnyPart
    <3> QED
      BY <3>1, SeqMonotonic
  <2>2. DOMAIN fs = {<<>>, <<"etc">>, <<"home">>, Home(user), Home(user) \o <<".ssh">>,
                     <<"var">>, <<"proc">>}
    BY InitialDirectories DEF Init
  <2>3. DOMAIN fs \subseteq Seq(AnyPart)
    BY <2>1, <2>2, OneName, HomeParts, EmptySeq
  <2> QED
    BY <2>1, <2>3, TypeInit DEF PathsInv
<1>2. PathsInv => ResolvesLexically
  <2> SUFFICES ASSUME PathsInv, NEW path \in Typed, path.parts # <<"~">>
               PROVE  Resolve(cwd, path)
                        = Kept(IF path.rooted THEN path.parts ELSE cwd \o path.parts)
    BY DEF ResolvesLexically
  <2>1. Resolve(cwd, path) = Normal(IF path.rooted THEN path.parts ELSE cwd \o path.parts)
    BY DEF Resolve
  <2> QED
    BY <2>1, WholeParts, NormalParts
<1> QED
  BY <1>1, <1>2, PathsStep, PTL DEF Spec
=============================================================================
