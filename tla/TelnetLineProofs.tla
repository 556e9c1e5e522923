------------------------- MODULE TelnetLineProofs -------------------------
(***************************************************************************)
(* Proofs about TelnetLine, for every set of characters, every length of   *)
(* lines and of the history and every amount of typing ahead: what the     *)
(* history holds, what the terminal shows, and what becomes of the line    *)
(* and the password that a client in step has typed.                       *)
(***************************************************************************)
EXTENDS TelnetLine, SequenceTheorems, WellFoundedInduction, TLAPS

USE DEF CR, LF, NUL, BS, ETX, ESC, IAC, IP, DO

(* Lines of characters of S that Enter may return.                         *)
Lines(S) == {l \in Seq(S) : Len(l) <= MaxLength}

LEMMA LeastExists ==
  ASSUME NEW S \in SUBSET Nat, S # {}
  PROVE  \E x \in S : \A y \in S : x <= y
<1>1. PICK x \in S : \A y \in S : <<y, x>> \notin OpToRel(<, Nat)
  BY NatLessThanWellFounded, WFMin, Zenon
<1>2. \A y \in S : ~(y < x)
  BY <1>1 DEF OpToRel
<1> QED
  BY <1>2

LEMMA MinIsLeast ==
  ASSUME NEW S \in SUBSET Nat, S # {}
  PROVE  Min(S) \in S /\ \A y \in S : Min(S) <= y
  BY LeastExists DEF Min

LEMMA MaxIsGreatest ==
  ASSUME NEW n \in Nat, NEW S \in SUBSET 0..n, S # {}
  PROVE  Max(S) \in S /\ \A y \in S : Max(S) >= y
<1> DEFINE T == {n - x : x \in S}
<1>1. T \in SUBSET Nat
  <2>1. \A x \in S : x \in Int /\ x >= 0 /\ x <= n
    OBVIOUS
  <2> QED
    BY <2>1
<1>2. T # {}
  OBVIOUS
<1>3. PICK t \in T : \A u \in T : t <= u
  BY <1>1, <1>2, LeastExists
<1>4. \A y \in S : n - t >= y
  BY <1>3
<1>5. n - t \in S
  BY <1>3
<1> QED
  BY <1>4, <1>5 DEF Max

(* Strip keeps a part of the line, which begins with a character other     *)
(* than a space; nothing is left of a blank one only.                      *)
LEMMA StripFacts ==
  ASSUME NEW S, NEW l \in Seq(S)
  PROVE  /\ Strip(l) \in Seq(S) /\ Len(Strip(l)) <= Len(l)
         /\ Blank(l) => Strip(l) = <<>>
         /\ ~Blank(l) => Strip(l) # <<>> /\ ~Blank(Strip(l))
<1> DEFINE inked == {i \in DOMAIN l : l[i] # Space}
<1>1. DOMAIN l = 1..Len(l) /\ Len(l) \in Nat /\ \A i \in DOMAIN l : l[i] \in S
  BY LenProperties
<1>2. inked = {} <=> Blank(l)
  BY DEF Blank
<1>3. Strip(l) = IF inked = {} THEN <<>> ELSE SubSeq(l, Min(inked), Max(inked))
  BY DEF Strip
<1>4. inked \in SUBSET Nat /\ inked \in SUBSET 0..Len(l)
  <2>1. inked \subseteq 1..Len(l)
    BY <1>1
  <2> HIDE DEF inked
  <2> QED
    BY <1>1, <2>1
<1>5. ASSUME inked # {}
      PROVE  /\ Strip(l) \in Seq(S) /\ Len(Strip(l)) <= Len(l)
             /\ Strip(l) # <<>> /\ ~Blank(Strip(l))
  <2>1. PICK m : m = Min(inked)
    OBVIOUS
  <2>2. PICK n : n = Max(inked)
    OBVIOUS
  <2>3. m \in inked /\ n \in inked /\ m <= n
    <3> HIDE DEF inked
    <3> QED
      BY <1>1, <1>4, <1>5, <2>1, <2>2, MinIsLeast, MaxIsGreatest
  <2>4. /\ m \in Int /\ 1 <= m /\ m <= Len(l) /\ n \in Int /\ n <= Len(l)
        /\ l[m] # Space
    BY <1>1, <2>3
  <2> HIDE DEF inked
  <2>5. \A i \in m..n : l[i] \in S
    <3> TAKE i \in m..n
    <3>1. i \in 1..Len(l)
      BY <1>1, <2>4
    <3> QED
      BY <1>1, <3>1
  <2>6. Strip(l) = SubSeq(l, m, n)
    BY <1>3, <1>5, <2>1, <2>2
  <2>7. /\ Strip(l) \in Seq(S) /\ Len(Strip(l)) = n - m + 1
        /\ \A i \in 1..n - m + 1 : Strip(l)[i] = l[m + i - 1]
    BY <2>3, <2>4, <2>5, <2>6, SubSeqProperties
  <2>8. 1 \in 1..n - m + 1 /\ m + 1 - 1 = m /\ n - m + 1 <= Len(l)
    BY <1>1, <2>3, <2>4
  <2>9. Strip(l)[1] = l[m]
    BY <2>7, <2>8
  <2>10. DOMAIN Strip(l) = 1..n - m + 1 /\ Strip(l) # <<>>
    BY <2>7, <2>8, LenProperties
  <2>11. ~Blank(Strip(l))
    BY <2>4, <2>8, <2>9, <2>10 DEF Blank
  <2> QED
    BY <2>7, <2>8, <2>10, <2>11
<1>6. ASSUME inked = {}
      PROVE  Strip(l) = <<>> /\ Strip(l) \in Seq(S) /\ Len(Strip(l)) <= Len(l)
  BY <1>1, <1>3, <1>6, EmptySeq
<1> HIDE DEF inked
<1> QED
  BY <1>2, <1>5, <1>6

LEMMA VisibleFacts ==
  ASSUME NEW S, NEW l \in Seq(S), MaxLength \in Nat
  PROVE  /\ Visible(l) \in Seq(S) /\ Len(Visible(l)) <= MaxLength + 1
         /\ Len(l) <= MaxLength + 1 => Visible(l) = l
<1> DEFINE m == IF Len(l) - MaxLength > 1 THEN Len(l) - MaxLength ELSE 1
<1>1. Max({1, Len(l) - MaxLength}) = m
  <2>1. \E x \in {1, Len(l) - MaxLength} : \A y \in {1, Len(l) - MaxLength} : x >= y
    <3>1. m \in {1, Len(l) - MaxLength} /\ \A y \in {1, Len(l) - MaxLength} : m >= y
      OBVIOUS
    <3> QED
      BY <3>1
  <2>2. /\ Max({1, Len(l) - MaxLength}) \in {1, Len(l) - MaxLength}
        /\ \A y \in {1, Len(l) - MaxLength} : Max({1, Len(l) - MaxLength}) >= y
    BY <2>1 DEF Max
  <2> QED
    BY <2>2
<1>2. Visible(l) = SubSeq(l, m, Len(l))
  BY <1>1 DEF Visible
<1>3. /\ Len(l) \in Nat /\ DOMAIN l = 1..Len(l) /\ \A i \in 1..Len(l) : l[i] \in S
      /\ m \in Nat /\ m >= 1 /\ Len(l) - m <= MaxLength
      /\ Len(l) <= MaxLength + 1 => m = 1
  BY LenProperties
<1>4. Visible(l) \in Seq(S) /\ Len(Visible(l)) = IF m <= Len(l) THEN Len(l) - m + 1 ELSE 0
  <2> HIDE DEF m
  <2>1. \A i \in m..Len(l) : l[i] \in S
    BY <1>3
  <2> QED
    BY <1>2, <1>3, <2>1, SubSeqProperties
<1>5. Len(l) <= MaxLength + 1 => Visible(l) = l
  BY <1>2, <1>3, SubSeqFull
<1> HIDE DEF m
<1> QED
  BY <1>3, <1>4, <1>5
----------------------------------------------------------------------------
(* No blank line, and no line twice in a row.                              *)
Tidy(past) ==
  /\ \A i \in DOMAIN past : ~Blank(past[i])
  /\ \A i \in 1..(Len(past) - 1) : past[i] # past[i + 1]

(* What Enter makes of the history, with echo and without.                 *)
LEMMA RememberedFacts ==
  ASSUME NEW S, NEW l, Echo => l \in Lines(S), MaxLength \in Nat,
         history \in Seq(Lines(S)), Len(history) <= HistoryLimit, Tidy(history)
  PROVE  /\ Remembered(l) \in Seq(Lines(S))
         /\ Len(history) <= Len(Remembered(l)) /\ Len(Remembered(l)) <= HistoryLimit
         /\ Tidy(Remembered(l))
         /\ Echo /\ ~Blank(l) => Remembered(l) # <<>> /\ Last(Remembered(l)) = Strip(l)
<1> DEFINE clean == Strip(l)
           all == Append(history, clean)
           kept == ~Echo \/ clean = <<>> \/ (history # <<>> /\ Last(history) = clean)
<1>1. Remembered(l) = IF kept THEN history
                      ELSE IF Len(all) > HistoryLimit THEN Tail(all) ELSE all
  BY DEF Remembered
<1>2. Echo => /\ clean \in Lines(S)
              /\ Blank(l) => clean = <<>>
              /\ ~Blank(l) => clean # <<>> /\ ~Blank(clean)
  BY StripFacts DEF Lines
<1>3. HistoryLimit \in Nat \ {0} /\ Len(history) \in Nat
  BY ConstantsAssumption DEF ConstantsAssumption
<1> HIDE DEF clean
<1>4. CASE kept
  <2>1. Remembered(l) = history
    BY <1>1, <1>4
  <2>2. Echo /\ ~Blank(l) => history # <<>> /\ Last(history) = clean
    BY <1>2, <1>4
  <2> QED
    BY <1>3, <2>1, <2>2 DEF clean
<1>5. CASE ~kept
  <2>1. Echo /\ clean # <<>> /\ clean \in Lines(S) /\ ~Blank(clean)
    BY <1>2, <1>5
  <2>2. history # <<>> => Last(history) # clean
    BY <1>5
  <2>3. /\ all \in Seq(Lines(S)) /\ all # <<>> /\ Len(all) = Len(history) + 1
        /\ \A i \in 1..Len(history) : all[i] = history[i]
        /\ all[Len(history) + 1] = clean
    BY <2>1, AppendProperties
  <2> HIDE DEF all, kept
  <2>4. /\ DOMAIN all = 1..Len(history) + 1 /\ DOMAIN history = 1..Len(history)
    BY <2>3, LenProperties
  <2>5. Tidy(all)
    <3>1. \A i \in DOMAIN all : ~Blank(all[i])
      BY <1>3, <2>1, <2>3, <2>4 DEF Tidy
    <3>2. ASSUME NEW i \in 1..(Len(all) - 1)
          PROVE  all[i] # all[i + 1]
      <4>1. CASE i = Len(history)
        <5>1. history # <<>> /\ Last(history) = history[i]
          BY <1>3, <3>2, <4>1 DEF Last
        <5> QED
          BY <1>3, <2>2, <2>3, <3>2, <4>1, <5>1
      <4>2. CASE i # Len(history)
        <5>1. i \in 1..(Len(history) - 1) /\ i \in 1..Len(history) /\ i + 1 \in 1..Len(history)
          BY <1>3, <2>3, <3>2, <4>2
        <5> QED
          BY <2>3, <5>1 DEF Tidy
      <4> QED
        BY <4>1, <4>2
    <3> QED
      BY <3>1, <3>2 DEF Tidy
  <2>6. CASE Len(all) > HistoryLimit
    <3>1. Remembered(l) = Tail(all)
      BY <1>1, <1>5, <2>6
    <3>2. /\ Tail(all) \in Seq(Lines(S)) /\ Len(Tail(all)) = Len(history)
          /\ \A i \in 1..Len(history) : Tail(all)[i] = all[i + 1]
      BY <1>3, <2>3, HeadTailProperties
    <3>3. Len(history) >= 1 /\ Len(history) = HistoryLimit
      BY <1>3, <2>3, <2>6
    <3>4. DOMAIN Tail(all) = 1..Len(history) /\ Tail(all) # <<>>
      BY <1>3, <3>2, <3>3, LenProperties
    <3>5. Last(Tail(all)) = clean
      BY <1>3, <2>3, <3>2, <3>3 DEF Last
    <3>6. Tidy(Tail(all))
      <4>1. \A i \in 1..Len(history) : i + 1 \in DOMAIN all
        BY <1>3, <2>4
      <4>2. \A i \in 1..(Len(history) - 1) :
               i \in 1..Len(history) /\ i + 1 \in 1..Len(history) /\ i + 1 \in 1..(Len(all) - 1)
        BY <1>3, <2>3
      <4> QED
        BY <2>5, <3>2, <3>4, <4>1, <4>2 DEF Tidy
    <3> QED
      BY <1>3, <3>1, <3>2, <3>3, <3>4, <3>5, <3>6 DEF clean
  <2>7. CASE ~(Len(all) > HistoryLimit)
    <3>1. Remembered(l) = all
      BY <1>1, <1>5, <2>7
    <3>2. Last(all) = clean
      BY <2>3 DEF Last
    <3> QED
      BY <1>3, <2>3, <2>5, <2>7, <3>1, <3>2 DEF clean
  <2> QED
    BY <2>6, <2>7
<1> QED
  BY <1>4, <1>5
----------------------------------------------------------------------------
(* The next prompt, with nothing read behind it.                           *)
Fresh(past) ==
  /\ at' = "byte" /\ prompt' \in Prompts /\ seen' = prompt'
  /\ waiting' = FALSE /\ meant' = <<>>
  /\ line' = <<>> /\ shown' = <<>>
  /\ history' = past /\ index' = Len(past)

(* The session is over after the last round.                               *)
Quit(past) ==
  /\ at' = "over" /\ history' = past
  /\ UNCHANGED <<seen, waiting, meant, prompt, line, index, shown>>

(* The line is used: l is tried as a password or run as a command.         *)
Takes(l, past) ==
  /\ \/ prompt = "password" /\ at' = "auth"
     \/ prompt = "shell" /\ at' = "command" /\ ~Blank(l)
  /\ line' = l /\ history' = past
  /\ UNCHANGED <<seen, waiting, meant, prompt, index, shown>>

LEMMA NextRoundFacts ==
  ASSUME NEW past, NextRound(past), rounds \in 0..BruteMax
  PROVE  (Fresh(past) \/ Quit(past)) /\ rounds' \in 0..BruteMax
  BY ConstantsAssumption DEF ConstantsAssumption, NextRound, Prompt, Prompts, Fresh, Quit

LEMMA ReturnFacts ==
  ASSUME NEW l, NEW past, Return(l, past), rounds \in 0..BruteMax, prompt \in Prompts
  PROVE  (Fresh(past) \/ Quit(past) \/ Takes(l, past)) /\ rounds' \in 0..BruteMax
<1>1. CASE NextRound(past)
  BY <1>1, NextRoundFacts
<1>2. CASE UNCHANGED rounds /\ \E p \in {"password", "shell"} : Prompt(p, past)
  BY <1>2 DEF Prompt, Prompts, Fresh
<1>3. CASE /\ prompt # "login"
           /\ prompt = "shell" => ~Blank(l)
           /\ at' = IF prompt = "password" THEN "auth" ELSE "command"
           /\ line' = l /\ history' = past
           /\ UNCHANGED <<seen, waiting, meant, prompt, index, shown, rounds>>
  BY <1>3 DEF Takes, Prompts
<1> QED
  BY <1>1, <1>2, <1>3 DEF Return
----------------------------------------------------------------------------
Bytes == Printable \cup Controls

Typed ==
  /\ newline \in Newlines /\ waiting \in BOOLEAN /\ inStep \in BOOLEAN
  /\ wire \in Seq(Bytes) /\ Len(wire) <= MaxAhead + 3
  /\ prompt \in Prompts /\ seen = prompt
  /\ meant \in Seq(Printable) \cup {Unsure}
  /\ at \in {"byte", "afterCR", "escape", "iac", "option", "auth", "command", "over"}
  /\ line \in Seq(Printable) /\ Len(line) <= MaxLength + 1
  /\ at \notin {"byte", "over"} => Len(line) <= MaxLength
  /\ history \in Seq(Lines(Printable)) /\ Len(history) <= HistoryLimit
  /\ index \in 0..Len(history)
  /\ shown \in Seq(Printable) /\ Len(shown) <= MaxLength + 1
  /\ rounds \in 0..BruteMax

CommandIsLast == at = "command" => history # <<>> /\ Last(history) = Strip(line)

LineInv == Typed /\ ScreenShowsLine /\ Tidy(history) /\ CommandIsLast

LEMMA Limits ==
  /\ MaxLength \in Nat /\ BruteMax \in Nat /\ MaxAhead \in Nat
  /\ HistoryLimit \in Nat /\ HistoryLimit >= 1
  BY ConstantsAssumption DEF ConstantsAssumption

LEMMA EmptyLine ==
  ASSUME NEW S
  PROVE  Blank(<<>>) /\ <<>> \in Lines(S) /\ <<>> \in Seq(S) /\ Len(<<>>) = 0
  BY Limits DEF Blank, Lines

(* The history with which a line may end.                                  *)
Past(l, past) ==
  /\ past \in Seq(Lines(Printable))
  /\ Len(history) <= Len(past) /\ Len(past) <= HistoryLimit
  /\ Tidy(past)
  /\ prompt = "shell" /\ ~Blank(l) => past # <<>> /\ Last(past) = Strip(l)

LEMMA PastOfLine ==
  ASSUME LineInv, Len(line) <= MaxLength
  PROVE  line \in Lines(Printable) /\ Past(line, Remembered(line))
<1>1. line \in Lines(Printable)
  BY DEF LineInv, Typed, Lines
<1>2. prompt = "shell" => Echo
  BY DEF Echo
<1> QED
  BY <1>1, <1>2, Limits, RememberedFacts DEF LineInv, Typed, Past

LEMMA PastOfNone ==
  ASSUME LineInv
  PROVE  <<>> \in Lines(Printable) /\ Past(<<>>, history)
  BY EmptyLine DEF LineInv, Typed, Past

(* A line, or a round, ends.                                               *)
LEMMA EndKeeps ==
  ASSUME LineInv, NEW l \in Lines(Printable), NEW past, Past(l, past),
         Fresh(past) \/ Quit(past) \/ Takes(l, past), rounds' \in 0..BruteMax,
         newline' = newline, wire' \in Seq(Bytes), Len(wire') <= MaxAhead + 3,
         inStep' \in BOOLEAN
  PROVE  LineInv'
<1> USE Limits DEF LineInv, Past
<1>1. Len(past) \in Nat /\ Len(history) \in Nat /\ index \in Nat
  BY DEF Typed
<1>2. CASE Fresh(past)
  <2>1. Typed'
    <3>1. <<>> \in Seq(Printable) /\ Len(<<>>) = 0
      BY EmptyLine
    <3>2. /\ at' = "byte" /\ prompt' \in Prompts /\ seen' = prompt' /\ waiting' = FALSE
          /\ history' = past /\ index' = Len(past)
          /\ meant' = <<>> /\ line' = <<>> /\ shown' = <<>>
      BY <1>2 DEF Fresh
    <3>3. index' \in 0..Len(history')
      BY <1>1, <3>2
    <3>4. /\ meant' \in Seq(Printable)
          /\ line' \in Seq(Printable) /\ Len(line') = 0
          /\ shown' \in Seq(Printable) /\ Len(shown') = 0
      BY <3>1, <3>2, Zenon
    <3>5. at' = "byte" /\ prompt' \in Prompts /\ seen' = prompt' /\ waiting' \in BOOLEAN
      BY <3>2
    <3>6. history' \in Seq(Lines(Printable)) /\ Len(history') <= HistoryLimit
      BY <3>2
    <3> QED
      BY <3>3, <3>4, <3>5, <3>6 DEF Typed
  <2> QED
    BY <1>2, <2>1 DEF Fresh, ScreenShowsLine, CommandIsLast
<1>3. CASE Quit(past)
  <2>1. Typed'
    BY <1>1, <1>3 DEF Typed, Quit
  <2> QED
    BY <1>3, <2>1 DEF Quit, ScreenShowsLine, CommandIsLast
<1>4. CASE Takes(l, past)
  <2>1. l \in Seq(Printable) /\ Len(l) <= MaxLength /\ Len(l) <= MaxLength + 1
    BY DEF Lines
  <2>2. Typed'
    <3>1. /\ at' \in {"auth", "command"} /\ line' = l /\ history' = past
          /\ UNCHANGED <<seen, waiting, meant, prompt, index, shown>>
      BY <1>4 DEF Takes
    <3>2. index' \in 0..Len(history')
      BY <1>1, <3>1 DEF Typed
    <3> QED
      BY <2>1, <3>1, <3>2 DEF Typed
  <2>3. ScreenShowsLine' /\ CommandIsLast' /\ Tidy(history)'
    BY <1>4 DEF Takes, ScreenShowsLine, CommandIsLast
  <2> QED
    BY <2>2, <2>3
<1> QED
  BY <1>2, <1>3, <1>4
----------------------------------------------------------------------------
LEMMA FrontFacts ==
  ASSUME NEW S, NEW l \in Seq(S), l # <<>>
  PROVE  Front(l) \in Seq(S) /\ Len(Front(l)) = Len(l) - 1
<1>1. PICK k \in Nat : k = Len(l)
  BY LenProperties
<1>2. k >= 1
  BY <1>1, EmptySeq
<1>3. \A i \in 1..k - 1 : l[i] \in S
  BY <1>1, LenProperties
<1>4. Front(l) = SubSeq(l, 1, k - 1)
  BY <1>1 DEF Front
<1>5. PICK n \in Int : n = k - 1
  OBVIOUS
<1>6. /\ SubSeq(l, 1, n) \in Seq(S)
      /\ Len(SubSeq(l, 1, n)) = IF 1 <= n THEN n - 1 + 1 ELSE 0
  BY <1>3, <1>5, SubSeqProperties
<1> QED
  BY <1>1, <1>2, <1>4, <1>5, <1>6

LEMMA CharsAreBytes ==
  /\ Letters \subseteq Printable /\ Secrets \subseteq Printable
  /\ Printable \subseteq Bytes /\ Controls \subseteq Bytes
  /\ \A c \in Printable : c \notin Controls
  BY ConstantsAssumption DEF ConstantsAssumption, Printable, Bytes

(* What the client sends in one go, one case for each.                     *)
Keys ==
  {<<c>> : c \in Printable} \cup {<<BS>>, <<ETX>>, <<ESC>>, Up, Down}
  \cup {<<IAC, DO, NUL>>, <<IAC, IP>>}
  \cup {<<LF>>, <<CR>>, <<CR, LF>>, <<CR, NUL>>}

LEMMA KeysAreBytes ==
  ASSUME NEW bytes \in Keys
  PROVE  bytes \in Seq(Bytes) /\ Len(bytes) \in 1..3
<1>1. /\ "[" \in Bytes /\ "A" \in Bytes /\ "B" \in Bytes
      /\ CR \in Bytes /\ LF \in Bytes /\ NUL \in Bytes /\ BS \in Bytes /\ ETX \in Bytes
      /\ ESC \in Bytes /\ IAC \in Bytes /\ IP \in Bytes /\ DO \in Bytes
  BY DEF Bytes, Printable, Controls
<1>2. ASSUME NEW c \in Bytes, bytes = <<c>>
      PROVE  bytes \in Seq(Bytes) /\ Len(bytes) \in 1..3
  BY <1>2
<1>3. ASSUME NEW c \in Bytes, NEW d \in Bytes, bytes = <<c, d>>
      PROVE  bytes \in Seq(Bytes) /\ Len(bytes) \in 1..3
  BY <1>3
<1>4. ASSUME NEW b \in Bytes, NEW c \in Bytes, NEW d \in Bytes, bytes = <<b, c, d>>
      PROVE  bytes \in Seq(Bytes) /\ Len(bytes) \in 1..3
  BY <1>4
<1>5. CASE \E c \in Printable : bytes = <<c>>
  BY <1>2, <1>5, CharsAreBytes
<1>6. CASE bytes \in {<<BS>>, <<ETX>>, <<ESC>>, <<LF>>, <<CR>>}
  BY <1>1, <1>2, <1>6
<1>7. CASE bytes \in {<<IAC, IP>>, <<CR, LF>>, <<CR, NUL>>}
  BY <1>1, <1>3, <1>7
<1>8. CASE bytes \in {Up, Down, <<IAC, DO, NUL>>}
  BY <1>1, <1>4, <1>8 DEF Up, Down
<1> QED
  BY <1>5, <1>6, <1>7, <1>8 DEF Keys

LEMMA ClientFacts ==
  ASSUME Typed, TypeKey \/ PressEnter
  PROVE  /\ \E bytes \in Keys : Send(bytes)
         /\ meant' \in Seq(Printable) \cup {Unsure}
         /\ waiting' \in BOOLEAN /\ inStep' = (inStep /\ ~waiting)
<1>1. CASE TypeKey
  <2>1. waiting' \in BOOLEAN /\ inStep' = (inStep /\ ~waiting)
    BY <1>1 DEF TypeKey, Typed
  <2>2. ASSUME NEW c \in Printable,
               Send(<<c>>), meant' = IF meant = Unsure THEN Unsure ELSE Append(meant, c)
        PROVE  (\E bytes \in Keys : Send(bytes)) /\ meant' \in Seq(Printable) \cup {Unsure}
    <3>1. <<c>> \in Keys
      BY DEF Keys
    <3>2. meant # Unsure => Append(meant, c) \in Seq(Printable)
      BY AppendProperties DEF Typed
    <3> QED
      BY <2>2, <3>1, <3>2
  <2>3. CASE Send(<<BS>>) /\ meant' = IF meant \in {Unsure, <<>>} THEN meant ELSE Front(meant)
    <3>1. <<BS>> \in Keys
      BY DEF Keys
    <3>2. CASE meant = Unsure \/ meant = <<>>
      BY <2>1, <2>3, <3>1, <3>2 DEF Typed
    <3>3. CASE ~(meant = Unsure \/ meant = <<>>)
      <4>1. meant \in Seq(Printable)
        BY <3>3 DEF Typed
      <4>2. Front(meant) \in Seq(Printable)
        BY <3>3, <4>1, FrontFacts
      <4> QED
        BY <2>1, <2>3, <3>1, <3>3, <4>2
    <3> QED
      BY <3>2, <3>3
  <2>4. CASE \E key \in {<<ESC>>, Up, Down} : Send(key) /\ meant' = Unsure
    BY <2>1, <2>4 DEF Keys
  <2>5. CASE Send(<<IAC, DO, NUL>>) /\ UNCHANGED meant
    BY <2>1, <2>5 DEF Keys, Typed
  <2> QED
    BY <1>1, <2>1, <2>2, <2>3, <2>4, <2>5, CharsAreBytes DEF TypeKey
<1>2. CASE PressEnter
  <2>1. inStep' = (inStep /\ ~waiting) /\ waiting' \in BOOLEAN
    BY <1>2 DEF PressEnter, Typed
  <2>2. meant' = meant \/ meant' = <<>>
    BY <1>2 DEF PressEnter
  <2>3. newline \in Keys /\ <<ETX>> \in Keys /\ <<IAC, IP>> \in Keys
    BY ConstantsAssumption DEF ConstantsAssumption, Typed, Keys
  <2>4. <<>> \in Seq(Printable)
    BY EmptyLine
  <2>5. meant' \in Seq(Printable) \cup {Unsure}
    BY <2>2, <2>4 DEF Typed
  <2> QED
    BY <1>2, <2>1, <2>3, <2>5 DEF PressEnter
<1> QED
  BY <1>1, <1>2

LEMMA SendFacts ==
  ASSUME Typed, NEW bytes \in Keys, Send(bytes)
  PROVE  /\ wire' = wire \o bytes
         /\ wire' \in Seq(Bytes) /\ Len(wire') = Len(wire) + Len(bytes)
         /\ Len(wire') <= MaxAhead + 3
         /\ \A i \in 1..Len(wire) : wire'[i] = wire[i]
         /\ \A i \in 1..Len(bytes) : wire'[Len(wire) + i] = bytes[i]
         /\ UNCHANGED <<at, editor, rounds, newline, seen>>
<1>1. /\ wire' = wire \o bytes /\ UNCHANGED <<at, editor, rounds, newline, seen>>
      /\ Len(wire) <= MaxAhead
  BY DEF Send
<1>2. bytes \in Seq(Bytes) /\ Len(bytes) \in 1..3 /\ wire \in Seq(Bytes) /\ Len(wire) \in Nat
  BY KeysAreBytes DEF Typed
<1>3. /\ wire \o bytes \in Seq(Bytes) /\ Len(wire \o bytes) = Len(wire) + Len(bytes)
      /\ \A i \in 1..Len(wire) + Len(bytes) :
            (wire \o bytes)[i] = IF i <= Len(wire) THEN wire[i] ELSE bytes[i - Len(wire)]
  BY <1>2, ConcatProperties
<1>4. \A i \in 1..Len(wire) : (wire \o bytes)[i] = wire[i]
  BY <1>2, <1>3
<1>5. ASSUME NEW i \in 1..Len(bytes)
      PROVE  (wire \o bytes)[Len(wire) + i] = bytes[i]
  <2>1. /\ Len(wire) + i \in 1..Len(wire) + Len(bytes) /\ ~(Len(wire) + i <= Len(wire))
        /\ Len(wire) + i - Len(wire) = i
    BY <1>2
  <2> QED
    BY <1>3, <2>1
<1>6. Len(wire \o bytes) <= MaxAhead + 3
  BY <1>1, <1>2, <1>3, Limits
<1> QED
  BY <1>1, <1>3, <1>4, <1>5, <1>6

LEMMA ClientKeepsLine ==
  ASSUME LineInv, TypeKey \/ PressEnter
  PROVE  LineInv'
<1>1. /\ UNCHANGED <<at, editor, rounds, newline, seen>>
      /\ wire' \in Seq(Bytes) /\ Len(wire') <= MaxAhead + 3
  BY ClientFacts, SendFacts DEF LineInv
<1>2. meant' \in Seq(Printable) \cup {Unsure} /\ waiting' \in BOOLEAN /\ inStep' \in BOOLEAN
  BY ClientFacts DEF LineInv
<1>3. Typed'
  BY <1>1, <1>2 DEF LineInv, Typed, editor
<1> QED
  BY <1>1, <1>3 DEF LineInv, ScreenShowsLine, Echo, CommandIsLast, editor
----------------------------------------------------------------------------
(* The first n bytes are taken off the wire.                               *)
Drops(n) ==
  /\ n \in 0..Len(wire)
  /\ wire' \in Seq(Bytes) /\ Len(wire') = Len(wire) - n
  /\ \A i \in 1..Len(wire') : wire'[i] = wire[i + n]

LEMMA TailDrops ==
  ASSUME Typed, wire # <<>>, wire' = Tail(wire)
  PROVE  Drops(1) /\ Len(wire) >= 1 /\ Head(wire) = wire[1] /\ Head(wire) \in Bytes
<1>1. PICK k \in Nat : k = Len(wire)
  BY LenProperties DEF Typed
<1>2. wire \in Seq(Bytes) /\ k >= 1
  BY <1>1, EmptySeq DEF Typed
<1>3. /\ Tail(wire) \in Seq(Bytes) /\ Len(Tail(wire)) = Len(wire) - 1
      /\ \A i \in 1..Len(Tail(wire)) : Tail(wire)[i] = wire[i + 1]
      /\ Head(wire) \in Bytes
  BY <1>2, HeadTailProperties
<1>4. Head(wire) = wire[1]
  BY <1>2
<1> QED
  BY <1>1, <1>2, <1>3, <1>4 DEF Drops

LEMMA SubSeqDrops ==
  ASSUME Typed, NEW n \in 0..2, n <= Len(wire), wire' = SubSeq(wire, n + 1, Len(wire))
  PROVE  Drops(n)
<1>1. PICK k \in Nat : k = Len(wire)
  BY LenProperties DEF Typed
<1>2. \A i \in n + 1..k : wire[i] \in Bytes
  BY <1>1, LenProperties DEF Typed
<1>3. PICK m \in Int : m = n + 1
  OBVIOUS
<1>4. /\ SubSeq(wire, m, k) \in Seq(Bytes)
      /\ Len(SubSeq(wire, m, k)) = IF m <= k THEN k - m + 1 ELSE 0
      /\ \A i \in 1..k - m + 1 : SubSeq(wire, m, k)[i] = wire[m + i - 1]
  BY <1>2, <1>3, SubSeqProperties
<1>5. wire' = SubSeq(wire, m, k) /\ k - m + 1 = k - n /\ n <= k
  BY <1>1, <1>3
<1>6. Len(wire') = k - n
  BY <1>3, <1>4, <1>5
<1>7. ASSUME NEW i \in 1..k - n
      PROVE  wire'[i] = wire[i + n]
  <2>1. m + i - 1 = i + n /\ i \in 1..k - m + 1
    BY <1>3, <1>5
  <2> QED
    BY <1>4, <1>5, <2>1
<1> QED
  BY <1>1, <1>4, <1>5, <1>6, <1>7 DEF Drops

(* The line is replaced by one of the history, here and on the terminal.   *)
LEMMA RecallFacts ==
  ASSUME NEW S, shown \in Seq(S), history \in Seq(Lines(S)), line \in Seq(Printable),
         NEW i \in 0..Len(history), Recall(i, line)
  PROVE  /\ index' = i
         /\ line' \in Lines(S)
         /\ shown' \in Seq(S) /\ Len(shown') <= MaxLength + 1
         /\ shown = line => shown' = line'
<1> USE Limits
<1> DEFINE new == IF i < Len(history) THEN history[i + 1] ELSE <<>>
<1>1. index' = i /\ line' = new
  BY DEF Recall
<1>2. new \in Lines(S)
  <2>1. CASE i < Len(history)
    <3>1. i + 1 \in 1..Len(history)
      BY <2>1
    <3> QED
      BY <2>1, <3>1, ElementOfSeq
  <2>2. CASE ~(i < Len(history))
    BY <2>2, EmptyLine
  <2> QED
    BY <2>1, <2>2
<1> HIDE DEF new
<1>3. PICK n \in Int : n = Len(shown) - Len(line)
  BY LenProperties
<1>4. PICK k \in Nat : k = Len(shown)
  BY LenProperties
<1>5. n <= k
  BY <1>3, <1>4, LenProperties
<1>6. \A j \in 1..n : shown[j] \in S
  BY <1>4, <1>5, LenProperties
<1>7. /\ SubSeq(shown, 1, n) \in Seq(S)
      /\ Len(SubSeq(shown, 1, n)) = IF 1 <= n THEN n - 1 + 1 ELSE 0
  BY <1>6, SubSeqProperties
<1>8. PICK left \in Seq(S) : left = SubSeq(shown, 1, n)
  BY <1>7
<1>9. shown' = Visible(left \o new)
  BY <1>3, <1>8 DEF Recall, new
<1>10. new \in Seq(S) /\ Len(new) <= MaxLength + 1
  BY <1>2 DEF Lines
<1>11. left \o new \in Seq(S)
  BY <1>10, ConcatProperties
<1>12. shown' \in Seq(S) /\ Len(shown') <= MaxLength + 1
  BY <1>9, <1>11, VisibleFacts
<1>13. ASSUME shown = line
       PROVE  shown' = line'
  <2>1. n = 0
    BY <1>3, <1>4, <1>13
  <2>2. left = <<>>
    BY <1>8, <2>1, SubSeqEmpty
  <2>3. left \o new = new
    BY <1>10, <2>2, ConcatEmptySeq
  <2> QED
    BY <1>1, <1>9, <1>10, <2>3, VisibleFacts
<1> QED
  BY <1>1, <1>2, <1>12, <1>13

LEMMA NavigateFacts ==
  ASSUME Typed, NEW seq, Navigate(seq)
  PROVE  (\E i \in 0..Len(history) : Recall(i, line)) \/ UNCHANGED <<index, line, shown>>
<1>1. PICK k \in Nat : k = Len(history)
  BY LenProperties DEF Typed
<1>2. CASE index > 0 /\ Recall(index - 1, line)
  <2>1. index - 1 \in 0..Len(history)
    BY <1>1, <1>2 DEF Typed
  <2> QED
    BY <1>2, <2>1
<1>3. CASE index < Len(history) /\ Recall(index + 1, line)
  <2>1. index + 1 \in 0..Len(history)
    BY <1>1, <1>3 DEF Typed
  <2> QED
    BY <1>3, <2>1
<1> QED
  BY <1>2, <1>3 DEF Navigate
----------------------------------------------------------------------------
(* The session's answer to the end of a line: a prompt, the use of the     *)
(* line, or the end.                                                       *)
Ends(l, past) ==
  /\ \/ l = <<>> /\ past = history
     \/ l = line /\ past = Remembered(line) /\ Len(line) <= MaxLength
  /\ Fresh(past) \/ Quit(past) \/ Takes(l, past)
  /\ rounds' \in 0..BruteMax /\ newline' = newline

LEMMA EndsFacts ==
  ASSUME LineInv, NEW l, NEW past, Ends(l, past)
  PROVE  l \in Lines(Printable) /\ Past(l, past)
  BY PastOfLine, PastOfNone DEF Ends

LEMMA CutsShort ==
  ASSUME Typed, Return(<<>>, history), newline' = newline
  PROVE  Ends(<<>>, history)
  BY ReturnFacts DEF Typed, Ends

LEMMA EndsLine ==
  ASSUME Typed, Return(line, Remembered(line)), Len(line) <= MaxLength, newline' = newline
  PROVE  Ends(line, Remembered(line))
  BY ReturnFacts DEF Typed, Ends

LEMMA AnswerFacts ==
  ASSUME Typed, Authenticated \/ CommandDone
  PROVE  Ends(<<>>, history) /\ (Fresh(history) \/ Quit(history)) /\ UNCHANGED <<wire, inStep>>
<1>1. CASE Authenticated
  <2>1. CASE Prompt("shell", history) /\ UNCHANGED rounds
    BY <1>1, <2>1 DEF Authenticated, Prompt, Prompts, Fresh, Ends, Typed
  <2>2. CASE NextRound(history)
    BY <1>1, <2>2, NextRoundFacts DEF Authenticated, Ends, Typed
  <2> QED
    BY <1>1, <2>1, <2>2 DEF Authenticated
<1>2. CASE CommandDone
  <2>1. CASE Prompt("shell", history)
    BY <1>2, <2>1 DEF CommandDone, Prompt, Prompts, Fresh, Ends, Typed
  <2>2. CASE at' = "over" /\ UNCHANGED <<editor, seen, waiting, meant>>
    BY <1>2, <2>2 DEF CommandDone, editor, Quit, Ends, Typed
  <2> QED
    BY <1>2, <2>1, <2>2 DEF CommandDone
<1> QED
  BY <1>1, <1>2

(* Bytes that end no line.                                                 *)
LEMMA EditKeepsLine ==
  ASSUME LineInv, NEW n \in 0..2, Drops(n),
         UNCHANGED <<prompt, history, client, rounds, inStep>>,
         at' \in {"byte", "afterCR", "escape", "iac", "option"},
         line' \in Seq(Printable), Len(line') <= MaxLength + 1,
         at' # "byte" => Len(line') <= MaxLength,
         index' \in 0..Len(history),
         shown' \in Seq(Printable), Len(shown') <= MaxLength + 1,
         at' # "afterCR" /\ Echo => shown' = line'
  PROVE  LineInv'
<1>1. wire' \in Seq(Bytes) /\ Len(wire') <= MaxAhead + 3
  <2>1. PICK k \in Nat : k = Len(wire)
    BY LenProperties DEF LineInv, Typed
  <2> QED
    BY <2>1, Limits DEF LineInv, Typed, Drops
<1>2. Typed'
  BY <1>1 DEF LineInv, Typed, client
<1>3. ScreenShowsLine' /\ CommandIsLast' /\ Tidy(history)'
  BY DEF LineInv, ScreenShowsLine, Echo, CommandIsLast
<1> QED
  BY <1>2, <1>3 DEF LineInv

LEMMA LineStep == LineInv /\ [Next]_vars => LineInv'
<1> SUFFICES ASSUME LineInv, [Next]_vars
             PROVE  LineInv'
  OBVIOUS
<1>0. Typed /\ inStep \in BOOLEAN /\ waiting \in BOOLEAN
  BY DEF LineInv, Typed
<1>1. ASSUME NEW l, NEW past, Ends(l, past), wire' = wire \/ Drops(1), inStep' \in BOOLEAN
      PROVE  LineInv'
  <2>1. wire' \in Seq(Bytes) /\ Len(wire') <= MaxAhead + 3
    <3>1. PICK k \in Nat : k = Len(wire)
      BY <1>0, LenProperties DEF Typed
    <3> QED
      BY <1>0, <1>1, <3>1, Limits DEF Typed, Drops
  <2> QED
    BY <1>1, <2>1, EndsFacts, EndKeeps DEF Ends
<1>2. CASE TypeKey \/ PressEnter
  BY <1>2, ClientKeepsLine
<1>3. CASE TooLong
  BY <1>0, <1>1, <1>3, CutsShort DEF TooLong
<1>4. CASE ReadCtrlC
  BY <1>0, <1>1, <1>4, CutsShort, TailDrops DEF ReadCtrlC, Reads
<1>5. CASE ReadLF
  BY <1>0, <1>1, <1>5, EndsLine, TailDrops DEF ReadLF, Reads
<1>6. CASE AfterCR
  <2>1. Len(line) <= MaxLength
    BY <1>0, <1>6 DEF AfterCR, Typed
  <2> QED
    BY <1>0, <1>1, <1>6, <2>1, EndsLine, TailDrops DEF AfterCR
<1>7. CASE AfterCRTimesOut
  <2>1. Len(line) <= MaxLength
    BY <1>0, <1>7 DEF AfterCRTimesOut, Typed
  <2>2. inStep' \in BOOLEAN
    BY <1>0, <1>7 DEF AfterCRTimesOut
  <2> QED
    BY <1>0, <1>1, <1>7, <2>1, <2>2, EndsLine DEF AfterCRTimesOut
<1>8. CASE Authenticated \/ CommandDone
  BY <1>0, <1>1, <1>8, AnswerFacts
<1>9. ASSUME at \in {"byte", "iac", "option"}, wire # <<>>, wire' = Tail(wire),
             NEW place \in {"byte", "afterCR", "escape", "iac", "option"}, Awaits(place),
             Len(line) <= MaxLength, UNCHANGED inStep
      PROVE  LineInv'
  <2>1. Drops(1) /\ at' = place /\ UNCHANGED <<editor, client, rounds>>
    BY <1>0, <1>9, TailDrops DEF Awaits
  <2>2. Echo => shown = line
    BY <1>9 DEF LineInv, ScreenShowsLine
  <2> QED
    BY <1>0, <1>9, <2>1, <2>2, EditKeepsLine DEF editor, Typed
<1>10. CASE ReadPrefix
  BY <1>9, <1>10 DEF ReadPrefix, Reads
<1>11. CASE OptionReads
  BY <1>0, <1>9, <1>11 DEF OptionReads, Typed
<1>12. CASE IacReads
  <2>1. at = "iac" /\ wire # <<>> /\ wire' = Tail(wire) /\ UNCHANGED <<newline, inStep>>
    BY <1>12 DEF IacReads
  <2>2. Len(line) <= MaxLength
    BY <1>0, <2>1 DEF Typed
  <2>3. CASE Return(<<>>, history)
    BY <1>0, <1>1, <2>1, <2>3, CutsShort, TailDrops
  <2>4. CASE Awaits("option") \/ Awaits("byte")
    BY <1>9, <2>1, <2>2, <2>4
  <2> QED
    BY <1>12, <2>3, <2>4 DEF IacReads
<1>13. CASE ReadUnprintable
  <2>1. Awaits("byte")
    BY <1>13 DEF ReadUnprintable, Reads, Awaits
  <2> QED
    BY <1>9, <1>13, <2>1 DEF ReadUnprintable, Reads
<1>14. CASE ReadChar
  <2>1. /\ at = "byte" /\ Len(line) <= MaxLength /\ wire # <<>> /\ wire' = Tail(wire)
        /\ Head(wire) \in Printable /\ line' = Append(line, Head(wire))
        /\ shown' = IF Echo THEN Append(shown, Head(wire)) ELSE shown
        /\ UNCHANGED <<at, prompt, index, history, client, rounds, inStep>>
    BY <1>14 DEF ReadChar, Reads
  <2>2. Drops(1)
    BY <1>0, <2>1, TailDrops
  <2>3. line' \in Seq(Printable) /\ Len(line') = Len(line) + 1
    BY <1>0, <2>1, AppendProperties DEF Typed
  <2>4. Len(line') <= MaxLength + 1
    <3>1. PICK k \in Nat : k = Len(line)
      BY <1>0, LenProperties DEF Typed
    <3> QED
      BY <2>1, <2>3, <3>1, Limits
  <2>5. Echo => shown = line
    BY <2>1 DEF LineInv, ScreenShowsLine
  <2>6. Echo => shown' = line'
    BY <2>1, <2>5
  <2>7. shown' \in Seq(Printable) /\ Len(shown') <= MaxLength + 1
    BY <1>0, <2>1, <2>3, <2>4, <2>6 DEF Typed
  <2> QED
    BY <1>0, <2>1, <2>2, <2>3, <2>4, <2>6, <2>7, EditKeepsLine DEF Typed
<1>15. CASE ReadBackspace
  <2>1. /\ at = "byte" /\ Len(line) <= MaxLength /\ wire # <<>> /\ wire' = Tail(wire)
        /\ line' = IF line = <<>> THEN line ELSE Front(line)
        /\ shown' = IF line # <<>> /\ Echo /\ shown # <<>> THEN Front(shown) ELSE shown
        /\ UNCHANGED <<at, prompt, index, history, client, rounds, inStep>>
    BY <1>15 DEF ReadBackspace, Reads
  <2>2. Drops(1)
    BY <1>0, <2>1, TailDrops
  <2>3. ASSUME NEW l \in Seq(Printable), l # <<>>, Len(l) <= MaxLength + 1
        PROVE  Front(l) \in Seq(Printable) /\ Len(Front(l)) <= MaxLength + 1
    <3>1. PICK k \in Nat : k = Len(l)
      BY LenProperties
    <3> QED
      BY <2>3, <3>1, FrontFacts, Limits
  <2>4. line' \in Seq(Printable) /\ Len(line') <= MaxLength + 1
    BY <1>0, <2>1, <2>3 DEF Typed
  <2>5. shown' \in Seq(Printable) /\ Len(shown') <= MaxLength + 1
    BY <1>0, <2>1, <2>3 DEF Typed
  <2>6. Echo => shown = line
    BY <2>1 DEF LineInv, ScreenShowsLine
  <2>7. Echo => shown' = line'
    BY <2>1, <2>6
  <2> QED
    BY <1>0, <2>1, <2>2, <2>4, <2>5, <2>7, EditKeepsLine DEF Typed
<1>16. CASE EscapeReads
  <2>1. PICK n \in 0..2 : /\ n <= Len(wire)
                          /\ Navigate(SubSeq(wire, 1, n))
                          /\ wire' = SubSeq(wire, n + 1, Len(wire))
    BY <1>16 DEF EscapeReads
  <2>2. Drops(n)
    BY <1>0, <2>1, SubSeqDrops
  <2>3. /\ at = "escape" /\ at' = "byte"
        /\ UNCHANGED <<prompt, history, client, rounds, inStep>>
    BY <1>16 DEF EscapeReads
  <2>4. (Echo => shown = line) /\ Len(line) <= MaxLength
    BY <1>0, <2>3 DEF LineInv, ScreenShowsLine, Typed
  <2>5. CASE UNCHANGED <<index, line, shown>>
    BY <1>0, <2>2, <2>3, <2>4, <2>5, EditKeepsLine DEF Typed
  <2>6. ASSUME NEW i \in 0..Len(history), Recall(i, line)
        PROVE  LineInv'
    <3>1. /\ index' = i
          /\ line' \in Lines(Printable)
          /\ shown' \in Seq(Printable) /\ Len(shown') <= MaxLength + 1
          /\ shown = line => shown' = line'
      BY <1>0, <2>6, RecallFacts DEF Typed
    <3>2. line' \in Seq(Printable) /\ Len(line') <= MaxLength + 1
      BY <3>1, Limits DEF Lines
    <3> QED
      BY <2>2, <2>3, <2>4, <3>1, <3>2, EditKeepsLine
  <2> QED
    BY <1>0, <2>1, <2>5, <2>6, NavigateFacts
<1>17. CASE UNCHANGED vars
  BY <1>17 DEF vars, client, editor, LineInv, Typed, ScreenShowsLine, Echo, CommandIsLast
<1> QED
  BY <1>2, <1>3, <1>4, <1>5, <1>6, <1>7, <1>8, <1>10, <1>11, <1>12, <1>13, <1>14, <1>15,
     <1>16, <1>17
  DEF Next

LEMMA LineInit == Init => LineInv
<1> SUFFICES ASSUME Init
             PROVE  LineInv
  OBVIOUS
<1>1. /\ newline \in Newlines /\ waiting = FALSE /\ inStep = TRUE
      /\ at = "byte" /\ prompt = "login" /\ seen = "login" /\ rounds = 0
      /\ index = 0 /\ history = <<>>
      /\ wire = <<>> /\ meant = <<>> /\ line = <<>> /\ shown = <<>>
  BY DEF Init
<1>2. /\ wire \in Seq(Bytes) /\ Len(wire) = 0
      /\ history \in Seq(Lines(Printable)) /\ Len(history) = 0
  BY <1>1, EmptyLine, Zenon
<1>3. /\ meant \in Seq(Printable)
      /\ line \in Seq(Printable) /\ Len(line) = 0
      /\ shown \in Seq(Printable) /\ Len(shown) = 0
  BY <1>1, EmptyLine, Zenon
<1>4. Typed
  <2>1. /\ newline \in Newlines /\ waiting = FALSE /\ inStep = TRUE
        /\ at = "byte" /\ prompt = "login" /\ seen = "login" /\ rounds = 0 /\ index = 0
    BY <1>1
  <2>2. prompt \in Prompts /\ seen = prompt /\ at \notin {"afterCR", "escape", "iac", "option", "auth", "command"}
    BY <2>1 DEF Prompts
  <2>3. rounds \in 0..BruteMax /\ index \in 0..Len(history)
    BY <1>2, <2>1, Limits
  <2>4. Len(wire) <= MaxAhead + 3 /\ Len(history) <= HistoryLimit
    BY <1>2, Limits
  <2>5. Len(line) <= MaxLength + 1 /\ Len(line) <= MaxLength /\ Len(shown) <= MaxLength + 1
    BY <1>3, Limits
  <2> QED
    BY <1>2, <1>3, <2>1, <2>2, <2>3, <2>4, <2>5 DEF Typed
<1>5. Tidy(history)
  <2>1. DOMAIN history = 1..0
    BY <1>2, LenProperties
  <2> QED
    BY <1>2, <2>1 DEF Tidy
<1> QED
  BY <1>1, <1>4, <1>5 DEF LineInv, ScreenShowsLine, CommandIsLast

LEMMA LineInvariant == Spec => []LineInv
<1>1. LineInv /\ [Next]_vars => LineInv'
  BY LineStep
<1> QED
  BY LineInit, <1>1, PTL DEF Spec

(* While a line is read with echo, the terminal shows what Enter will      *)
(* return: backspaces, recalled lines of any length and sequences that     *)
(* come in pieces included (telnet_session.py:291-321).                    *)
THEOREM ScreenIsTrue == Spec => []ScreenShowsLine
<1>1. LineInv => ScreenShowsLine
  BY DEF LineInv
<1> QED
  BY LineInvariant, <1>1, PTL

(* The history never outgrows HISTORY_LIMIT, the index stays on one of its *)
(* entries or behind the last, it holds no blank line and no line twice in *)
(* a row, and a command being run is its last entry                        *)
(* (telnet_session.py:303-314, 348-352).                                   *)
THEOREM HistoryIsWellFormed == Spec => []HistoryInv
<1>1. LineInv => HistoryInv
  BY DEF LineInv, Typed, Tidy, CommandIsLast, HistoryInv, TypeOK, HistoryWellFormed
<1> QED
  BY LineInvariant, <1>1, PTL
----------------------------------------------------------------------------
(* What byte b makes of line l, as the client sees it.                     *)
After(l, b) ==
  IF b \in Printable THEN Append(l, b)
  ELSE IF b = BS /\ l # <<>> THEN Front(l) ELSE l

(* The bytes of w, one after the other, make m of l.                       *)
Leads(l, w, m) ==
  \E e \in [0..Len(w) -> Seq(Printable)] :
    /\ e[0] = l /\ e[Len(w)] = m
    /\ \A i \in 1..Len(w) : e[i] = After(e[i - 1], w[i])

LEMMA AfterFacts ==
  ASSUME NEW l \in Seq(Printable), NEW b
  PROVE  /\ After(l, b) \in Seq(Printable)
         /\ b \in Printable => After(l, b) = Append(l, b)
         /\ b = BS => After(l, b) = IF l = <<>> THEN l ELSE Front(l)
         /\ b \in Controls \ {BS} => After(l, b) = l
<1>1. \A c \in Printable : c \notin Controls
  BY CharsAreBytes
<1>2. l # <<>> => Front(l) \in Seq(Printable)
  BY FrontFacts
<1>3. b \in Printable => Append(l, b) \in Seq(Printable)
  BY AppendProperties
<1>4. BS \in Controls
  BY DEF Controls
<1>5. CASE b \in Printable
  BY <1>1, <1>3, <1>4, <1>5 DEF After
<1>6. CASE b \notin Printable
  BY <1>2, <1>6 DEF After
<1> QED
  BY <1>5, <1>6

LEMMA LeadsOne ==
  ASSUME NEW l \in Seq(Printable), NEW b
  PROVE  Leads(l, <<b>>, After(l, b))
<1>1. PICK m \in Seq(Printable) : m = After(l, b)
  BY AfterFacts
<1> DEFINE e == [i \in 0..1 |-> IF i = 0 THEN l ELSE m]
<1>2. e \in [0..1 -> Seq(Printable)] /\ e[0] = l /\ e[1] = m
  OBVIOUS
<1>3. PICK w : w = <<b>>
  OBVIOUS
<1>4. Len(w) = 1 /\ w[1] = b
  BY <1>3
<1> HIDE DEF e
<1>5. \A i \in 1..1 : e[i] = After(e[i - 1], w[i])
  <2> TAKE i \in 1..1
  <2>1. i = 1 /\ i - 1 = 0
    OBVIOUS
  <2> QED
    BY <1>1, <1>2, <1>4, <2>1
<1>6. Leads(l, w, m)
  BY <1>2, <1>4, <1>5 DEF Leads
<1> QED
  BY <1>1, <1>3, <1>6

(* Bytes that change nothing.                                              *)
LEMMA LeadsStill ==
  ASSUME NEW l \in Seq(Printable), NEW w, Len(w) \in Nat,
         \A i \in 1..Len(w) : After(l, w[i]) = l
  PROVE  Leads(l, w, l)
<1> DEFINE e == [i \in 0..Len(w) |-> l]
<1>1. e \in [0..Len(w) -> Seq(Printable)] /\ \A i \in 0..Len(w) : e[i] = l
  OBVIOUS
<1> HIDE DEF e
<1>2. \A i \in 1..Len(w) : i \in 0..Len(w) /\ i - 1 \in 0..Len(w)
  OBVIOUS
<1>3. 0 \in 0..Len(w) /\ Len(w) \in 0..Len(w)
  OBVIOUS
<1>4. \A i \in 1..Len(w) : e[i] = After(e[i - 1], w[i])
  BY <1>1, <1>2
<1> QED
  BY <1>1, <1>3, <1>4 DEF Leads

LEMMA LeadsNowhere ==
  ASSUME NEW l, NEW m, NEW w, Leads(l, w, m), Len(w) \in 0..1,
         \A i \in 1..Len(w) : After(l, w[i]) = l
  PROVE  m = l
<1>1. PICK e \in [0..Len(w) -> Seq(Printable)] :
         /\ e[0] = l /\ e[Len(w)] = m
         /\ \A i \in 1..Len(w) : e[i] = After(e[i - 1], w[i])
  BY DEF Leads
<1>2. CASE Len(w) = 0
  BY <1>1, <1>2
<1>3. CASE Len(w) = 1
  <2>1. 1 \in 1..Len(w) /\ 1 - 1 = 0
    BY <1>3
  <2>2. e[1] = After(e[1 - 1], w[1]) /\ After(l, w[1]) = l
    BY <1>1, <2>1
  <2> QED
    BY <1>1, <1>3, <2>1, <2>2
<1> QED
  BY <1>2, <1>3

(* The client sends the bytes of v after those of w.                       *)
LEMMA LeadsOn ==
  ASSUME NEW l, NEW m, NEW n, NEW w, NEW v, NEW x,
         Leads(l, w, m), Leads(m, v, n),
         Len(w) \in Nat, Len(v) \in Nat, Len(x) = Len(w) + Len(v),
         \A i \in 1..Len(w) : x[i] = w[i],
         \A i \in 1..Len(v) : x[Len(w) + i] = v[i]
  PROVE  Leads(l, x, n)
<1>1. PICK d \in [0..Len(w) -> Seq(Printable)] :
         /\ d[0] = l /\ d[Len(w)] = m
         /\ \A i \in 1..Len(w) : d[i] = After(d[i - 1], w[i])
  BY DEF Leads
<1>2. PICK f \in [0..Len(v) -> Seq(Printable)] :
         /\ f[0] = m /\ f[Len(v)] = n
         /\ \A i \in 1..Len(v) : f[i] = After(f[i - 1], v[i])
  BY DEF Leads
<1> DEFINE e == [i \in 0..Len(x) |-> IF i <= Len(w) THEN d[i] ELSE f[i - Len(w)]]
<1>3. /\ e \in [0..Len(x) -> Seq(Printable)]
      /\ \A i \in 0..Len(w) : e[i] = d[i]
      /\ \A i \in 1..Len(v) : e[Len(w) + i] = f[i]
  <2>1. \A i \in 0..Len(x) : i <= Len(w) => i \in 0..Len(w)
    OBVIOUS
  <2>2. \A i \in 0..Len(x) : ~(i <= Len(w)) => i - Len(w) \in 0..Len(v)
    OBVIOUS
  <2>3. ASSUME NEW i \in 0..Len(x)
        PROVE  (IF i <= Len(w) THEN d[i] ELSE f[i - Len(w)]) \in Seq(Printable)
    BY <2>1, <2>2
  <2>4. \A i \in 0..Len(w) : e[i] = d[i]
    OBVIOUS
  <2>5. ASSUME NEW i \in 1..Len(v)
        PROVE  e[Len(w) + i] = f[i]
    <3>1. Len(w) + i \in 0..Len(x) /\ ~(Len(w) + i <= Len(w)) /\ Len(w) + i - Len(w) = i
      OBVIOUS
    <3> QED
      BY <3>1
  <2> QED
    BY <2>3, <2>4, <2>5
<1> HIDE DEF e
<1>4. e[0] = l
  <2>1. 0 \in 0..Len(w)
    OBVIOUS
  <2> QED
    BY <1>1, <1>3, <2>1
<1>5. e[Len(w)] = m /\ e[Len(x)] = n
  <2>1. Len(w) \in 0..Len(w)
    OBVIOUS
  <2>2. e[Len(w)] = m
    BY <1>1, <1>3, <2>1
  <2>3. CASE Len(v) = 0
    BY <1>2, <2>2, <2>3
  <2>4. CASE Len(v) # 0
    <3>1. Len(v) \in 1..Len(v)
      BY <2>4
    <3>2. e[Len(w) + Len(v)] = n
      BY <1>2, <1>3, <3>1
    <3> QED
      BY <2>2, <3>2
  <2> QED
    BY <2>3, <2>4
<1>6. ASSUME NEW i \in 1..Len(x)
      PROVE  e[i] = After(e[i - 1], x[i])
  <2>0. i \in Int /\ 1 <= i /\ i <= Len(w) + Len(v)
    <3>1. Len(x) \in Nat
      OBVIOUS
    <3> QED
      BY <3>1
  <2>1. CASE i <= Len(w)
    <3>1. i \in 1..Len(w) /\ i \in 0..Len(w) /\ i - 1 \in 0..Len(w)
      BY <2>1
    <3> QED
      BY <1>1, <1>3, <3>1
  <2>2. CASE i = Len(w) + 1
    <3>1. 1 \in 1..Len(v) /\ i - 1 = Len(w) /\ 1 - 1 = 0
      BY <2>2
    <3>2. e[i] = f[1] /\ x[i] = v[1] /\ f[1] = After(f[1 - 1], v[1])
      BY <1>2, <1>3, <2>2, <3>1
    <3> QED
      BY <1>2, <1>5, <3>1, <3>2
  <2>3. CASE i > Len(w) + 1
    <3>0. PICK k \in Nat : k = Len(w)
      OBVIOUS
    <3>1. PICK j \in Int : j = i - k
      BY <2>0
    <3>2. i = Len(w) + j /\ i - 1 = Len(w) + (j - 1)
      BY <2>0, <3>0, <3>1
    <3>3. PICK h \in Nat : h = Len(v)
      OBVIOUS
    <3>4. j \in 1..Len(v) /\ j - 1 \in 1..Len(v)
      BY <2>0, <2>3, <3>0, <3>1, <3>3
    <3>5. e[i] = f[j] /\ e[i - 1] = f[j - 1] /\ x[i] = v[j] /\ f[j] = After(f[j - 1], v[j])
      BY <1>2, <1>3, <3>2, <3>4
    <3> QED
      BY <3>5
  <2>4. i <= Len(w) \/ i = Len(w) + 1 \/ i > Len(w) + 1
    <3>1. PICK k \in Nat : k = Len(w)
      OBVIOUS
    <3> QED
      BY <2>0, <3>1
  <2> QED
    BY <2>1, <2>2, <2>3, <2>4
<1> QED
  BY <1>3, <1>4, <1>5, <1>6 DEF Leads

(* The session reads the first of them.                                    *)
LEMMA LeadsFrom ==
  ASSUME NEW l, NEW m, NEW w, NEW x,
         Leads(l, w, m), Len(w) \in Nat \ {0}, Len(x) = Len(w) - 1,
         \A i \in 1..Len(x) : x[i] = w[i + 1]
  PROVE  Leads(After(l, w[1]), x, m)
<1>1. PICK d \in [0..Len(w) -> Seq(Printable)] :
         /\ d[0] = l /\ d[Len(w)] = m
         /\ \A i \in 1..Len(w) : d[i] = After(d[i - 1], w[i])
  BY DEF Leads
<1> DEFINE e == [i \in 0..Len(x) |-> d[i + 1]]
<1>2. e \in [0..Len(x) -> Seq(Printable)] /\ \A i \in 0..Len(x) : e[i] = d[i + 1]
  <2>1. \A i \in 0..Len(x) : i + 1 \in 0..Len(w)
    OBVIOUS
  <2> QED
    BY <2>1
<1> HIDE DEF e
<1>3. e[0] = After(l, w[1])
  <2>1. 0 \in 0..Len(x) /\ 1 \in 1..Len(w) /\ 0 + 1 = 1 /\ 1 - 1 = 0
    OBVIOUS
  <2>2. e[0] = d[1] /\ d[1] = After(d[0], w[1])
    BY <1>1, <1>2, <2>1
  <2> QED
    BY <1>1, <2>2
<1>4. e[Len(x)] = m
  <2>1. Len(x) \in 0..Len(x) /\ Len(x) + 1 = Len(w)
    OBVIOUS
  <2> QED
    BY <1>1, <1>2, <2>1
<1>5. ASSUME NEW i \in 1..Len(x)
      PROVE  e[i] = After(e[i - 1], x[i])
  <2>1. /\ i \in 0..Len(x) /\ i - 1 \in 0..Len(x) /\ i + 1 \in 1..Len(w)
        /\ i - 1 + 1 = i /\ i + 1 - 1 = i
    OBVIOUS
  <2>2. e[i] = d[i + 1] /\ e[i - 1] = d[i] /\ x[i] = w[i + 1]
    BY <1>2, <2>1
  <2>3. d[i + 1] = After(d[i], w[i + 1])
    BY <1>1, <2>1
  <2> QED
    BY <2>2, <2>3
<1> QED
  BY <1>2, <1>3, <1>4, <1>5 DEF Leads
----------------------------------------------------------------------------
(* A command of Telnet is on the wire as a whole.                          *)
Whole(w) ==
  \A i \in 1..Len(w) :
    /\ w[i] = IAC => i < Len(w) /\ w[i + 1] \in {IP, DO}
    /\ w[i] = DO => i < Len(w) /\ w[i + 1] = NUL

Framed ==
  /\ Whole(wire)
  /\ at = "iac" => Len(wire) >= 1 /\ wire[1] \in {IP, DO}
  /\ at = "option" => Len(wire) >= 1 /\ wire[1] = NUL

(* What cuts a line short at this prompt.                                  *)
Cuts == {ETX} \cup (IF prompt = "login" THEN {} ELSE {IP})

(* Behind the end of a line there is at most the second half of a newline. *)
Closes(w, i) ==
  i < Len(w) => Len(w) = i + 1 /\ w[i + 1] \in {NUL, LF} /\ (w[i + 1] = LF => w[i] = CR)

EndsLast(w) == \A i \in 1..Len(w) : w[i] \in {CR, LF} \cup Cuts => waiting /\ Closes(w, i)

Rest(w, B) == Len(w) <= 1 /\ \A i \in 1..Len(w) : w[i] \in B

(* A client in step waits once it has sent the end of a line.              *)
Orderly ==
  inStep =>
    /\ EndsLast(wire)
    /\ at = "afterCR" => waiting /\ Rest(wire, {NUL, LF})
    /\ at \in {"auth", "command"} => waiting /\ Rest(wire, {NUL})

Plain == Printable \ Secrets

Free(w, B) == \A i \in 1..Len(w) : w[i] \notin B

Hidden ==
  inStep =>
    /\ shown \in Seq(Plain) /\ history \in Seq(Lines(Plain))
    /\ prompt # "password" => line \in Seq(Plain) /\ Free(wire, Secrets)

(* What is left on the wire makes of the line the one that is meant.       *)
Pending ==
  /\ at \in {"byte", "afterCR", "iac", "option"}
  /\ Free(wire, {ESC} \cup Cuts)
  /\ Leads(line, wire, meant)

(* The line is going to be cut short.                                      *)
Interrupted ==
  /\ at \in {"byte", "escape", "iac", "option"}
  /\ waiting /\ meant = <<>>
  /\ Free(wire, {CR, LF})

AsMeant ==
  inStep /\ meant # Unsure =>
    \/ Pending
    \/ Interrupted
    \/ at \in {"auth", "command"} /\ line = meant
    \/ at = "over"

ClientInv == LineInv /\ Framed /\ Orderly /\ Hidden /\ AsMeant

LEMMA KeysAreWhole ==
  ASSUME NEW bytes \in Keys
  PROVE  Whole(bytes)
<1>1. ASSUME NEW c, c \notin {IAC, DO}, bytes = <<c>>
      PROVE  Whole(bytes)
  BY <1>1 DEF Whole
<1>2. CASE \E c \in Printable : bytes = <<c>>
  BY <1>1, <1>2, CharsAreBytes DEF Controls
<1>3. CASE bytes \in {<<BS>>, <<ETX>>, <<ESC>>, <<LF>>, <<CR>>}
  BY <1>1, <1>3
<1>4. CASE bytes \in {<<IAC, IP>>, <<CR, LF>>, <<CR, NUL>>}
  <2>1. \A i \in 1..2 : i = 1 \/ i = 2
    OBVIOUS
  <2> QED
    BY <1>4, <2>1 DEF Whole
<1>5. CASE bytes \in {Up, Down, <<IAC, DO, NUL>>}
  <2>1. \A i \in 1..3 : i = 1 \/ i = 2 \/ i = 3
    OBVIOUS
  <2> QED
    BY <1>5, <2>1 DEF Whole, Up, Down
<1> QED
  BY <1>2, <1>3, <1>4, <1>5 DEF Keys

(* What a client in step adds to the wire.                                 *)
Adds(bytes) ==
  /\ bytes \in Keys /\ Send(bytes)
  /\ prompt # "password" => Free(bytes, Secrets)
  /\ \A i \in 1..Len(bytes) : bytes[i] \in {CR, LF} \cup Cuts => waiting' /\ Closes(bytes, i)
  /\ \/ meant' = Unsure
     \/ waiting' /\ meant' = <<>> /\ Free(bytes, {CR, LF})
     \/ meant # Unsure /\ Leads(meant, bytes, meant') /\ Free(bytes, {ESC} \cup Cuts)

LEMMA CharAdds ==
  ASSUME Typed, NEW c \in Printable, Send(<<c>>), prompt # "password" => c \notin Secrets,
         meant' = IF meant = Unsure THEN Unsure ELSE Append(meant, c)
  PROVE  \E bytes : Adds(bytes)
<1>1. PICK bytes : bytes = <<c>>
  OBVIOUS
<1>2. Len(bytes) = 1 /\ bytes[1] = c /\ \A i \in 1..Len(bytes) : i = 1
  BY <1>1
<1>3. bytes \in Keys /\ Send(bytes)
  BY <1>1 DEF Keys
<1>4. c \notin Controls
  BY CharsAreBytes
<1>5. Free(bytes, Controls) /\ (prompt # "password" => Free(bytes, Secrets))
  BY <1>2, <1>4 DEF Free
<1>6. {CR, LF, ESC} \cup Cuts \subseteq Controls
  BY DEF Cuts, Controls
<1>7. Free(bytes, {ESC} \cup Cuts) /\ Free(bytes, {CR, LF} \cup Cuts)
  BY <1>5, <1>6 DEF Free
<1>8. meant # Unsure => Leads(meant, bytes, meant')
  <2>1. ASSUME meant # Unsure
        PROVE  Leads(meant, bytes, meant')
    <3>1. meant \in Seq(Printable) /\ meant' = Append(meant, c)
      BY <2>1 DEF Typed
    <3>2. After(meant, c) = meant'
      BY <3>1, AfterFacts
    <3> QED
      BY <1>1, <3>1, <3>2, LeadsOne
  <2> QED
    BY <2>1
<1>9. \A i \in 1..Len(bytes) : bytes[i] \in {CR, LF} \cup Cuts => waiting' /\ Closes(bytes, i)
  BY <1>7 DEF Free
<1>10. meant' = Unsure \/ meant # Unsure
  OBVIOUS
<1>11. Adds(bytes)
  BY <1>3, <1>5, <1>7, <1>8, <1>9, <1>10 DEF Adds
<1> QED
  BY <1>11

LEMMA BackspaceAdds ==
  ASSUME Typed, Send(<<BS>>),
         meant' = IF meant \in {Unsure, <<>>} THEN meant ELSE Front(meant)
  PROVE  \E bytes : Adds(bytes)
<1>1. PICK bytes : bytes = <<BS>>
  OBVIOUS
<1>2. Len(bytes) = 1 /\ bytes[1] = BS /\ \A i \in 1..Len(bytes) : i = 1
  BY <1>1
<1>3. bytes \in Keys /\ Send(bytes)
  BY <1>1 DEF Keys
<1>4. BS \notin {CR, LF, ESC} \cup Cuts /\ BS \notin Secrets
  <2>1. BS \in Controls
    BY DEF Controls
  <2>2. BS \notin Secrets
    BY <2>1, CharsAreBytes
  <2> QED
    BY <2>2 DEF Cuts
<1>5. Free(bytes, {ESC} \cup Cuts) /\ Free(bytes, {CR, LF} \cup Cuts) /\ Free(bytes, Secrets)
  BY <1>2, <1>4 DEF Free
<1>6. meant # Unsure => Leads(meant, bytes, meant')
  <2>1. ASSUME meant # Unsure
        PROVE  Leads(meant, bytes, meant')
    <3>1. meant \in Seq(Printable) /\ meant' = IF meant = <<>> THEN meant ELSE Front(meant)
      BY <2>1 DEF Typed
    <3>2. After(meant, BS) = meant'
      BY <3>1, AfterFacts
    <3> QED
      BY <1>1, <3>1, <3>2, LeadsOne
  <2> QED
    BY <2>1
<1>7. \A i \in 1..Len(bytes) : bytes[i] \in {CR, LF} \cup Cuts => waiting' /\ Closes(bytes, i)
  BY <1>5 DEF Free
<1>8. meant = Unsure => meant' = Unsure
  OBVIOUS
<1>9. Adds(bytes)
  BY <1>3, <1>5, <1>6, <1>7, <1>8 DEF Adds
<1> QED
  BY <1>9

LEMMA EscapeAdds ==
  ASSUME Typed, NEW bytes \in {<<ESC>>, Up, Down}, Send(bytes), meant' = Unsure
  PROVE  Adds(bytes)
<1>1. bytes \in Keys
  BY DEF Keys
<1>2. \A i \in 1..Len(bytes) : bytes[i] \in {ESC, "[", "A", "B"}
  <2>1. \A i \in 1..3 : i = 1 \/ i = 2 \/ i = 3
    OBVIOUS
  <2> QED
    BY <2>1 DEF Up, Down
<1>3. {ESC, "[", "A", "B"} \cap ({CR, LF} \cup Cuts) = {}
  BY DEF Cuts
<1>4. {ESC, "[", "A", "B"} \cap Secrets = {}
  <2>1. {"[", "A", "B"} \cap Secrets = {}
    BY ConstantsAssumption DEF ConstantsAssumption
  <2>2. ESC \notin Secrets
    BY CharsAreBytes DEF Controls
  <2> QED
    BY <2>1, <2>2
<1> QED
  BY <1>1, <1>2, <1>3, <1>4 DEF Adds, Free

(* Bytes that change nothing of the line: an option, a newline, and at the *)
(* login prompt Ctrl-C by IAC IP.                                          *)
LEMMA SilentAdds ==
  ASSUME Typed, NEW bytes \in Keys, Send(bytes), UNCHANGED meant,
         \/ bytes = <<IAC, DO, NUL>>
         \/ bytes = <<IAC, IP>> /\ prompt = "login"
         \/ bytes \in {<<LF>>, <<CR>>, <<CR, LF>>, <<CR, NUL>>} /\ waiting'
  PROVE  Adds(bytes)
<1>1. \A i \in 1..Len(bytes) : bytes[i] \in Controls \ ({BS, ESC} \cup Cuts)
  <2>1. \A i \in 1..3 : i = 1 \/ i = 2 \/ i = 3
    OBVIOUS
  <2>2. \A i \in 1..2 : i = 1 \/ i = 2
    OBVIOUS
  <2> QED
    BY <2>1, <2>2 DEF Controls, Cuts
<1>2. Free(bytes, {ESC} \cup Cuts) /\ Free(bytes, Secrets)
  BY <1>1, CharsAreBytes DEF Free
<1>3. meant # Unsure => Leads(meant, bytes, meant')
  <2>1. ASSUME meant # Unsure
        PROVE  Leads(meant, bytes, meant')
    <3>1. meant \in Seq(Printable) /\ meant' = meant
      BY <2>1 DEF Typed
    <3>2. \A i \in 1..Len(bytes) : After(meant, bytes[i]) = meant
      BY <1>1, <3>1, AfterFacts
    <3>3. Len(bytes) \in Nat
      BY KeysAreBytes
    <3> QED
      BY <3>1, <3>2, <3>3, LeadsStill
  <2> QED
    BY <2>1
<1>4. \A i \in 1..Len(bytes) : bytes[i] \in {CR, LF} \cup Cuts => waiting' /\ Closes(bytes, i)
  <2>1. CASE bytes = <<IAC, DO, NUL>> \/ (bytes = <<IAC, IP>> /\ prompt = "login")
    <3>1. Free(bytes, {CR, LF})
      <4>1. \A i \in 1..3 : i = 1 \/ i = 2 \/ i = 3
        OBVIOUS
      <4>2. \A i \in 1..2 : i = 1 \/ i = 2
        OBVIOUS
      <4> QED
        BY <2>1, <4>1, <4>2 DEF Free
    <3> QED
      BY <1>2, <3>1 DEF Free
  <2>2. CASE bytes \in {<<LF>>, <<CR>>, <<CR, LF>>, <<CR, NUL>>} /\ waiting'
    <3>1. \A i \in 1..2 : i = 1 \/ i = 2
      OBVIOUS
    <3>2. \A i \in 1..Len(bytes) : Closes(bytes, i)
      BY <2>2, <3>1 DEF Closes
    <3> QED
      BY <2>2, <3>2, Zenon
  <2> QED
    BY <2>1, <2>2, Zenon
<1> QED
  BY <1>2, <1>3, <1>4 DEF Adds

LEMMA CutAdds ==
  ASSUME Typed, NEW bytes \in {<<ETX>>, <<IAC, IP>>}, Send(bytes), waiting', meant' = <<>>
  PROVE  Adds(bytes)
<1>1. bytes \in Keys
  BY DEF Keys
<1>2. \A i \in 1..2 : i = 1 \/ i = 2
  OBVIOUS
<1>3. \A i \in 1..Len(bytes) : bytes[i] \in {ETX, IAC, IP} /\ (bytes[i] # IAC => i = Len(bytes))
  <2>1. CASE bytes = <<ETX>>
    <3>1. Len(bytes) = 1 /\ bytes[1] = ETX /\ \A i \in 1..1 : i = 1
      BY <2>1
    <3> QED
      BY <3>1
  <2>2. CASE bytes = <<IAC, IP>>
    <3>1. Len(bytes) = 2 /\ bytes[1] = IAC /\ bytes[2] = IP
      BY <2>2
    <3> QED
      BY <1>2, <3>1
  <2> QED
    BY <2>1, <2>2
<1>4. ETX \notin Secrets /\ IAC \notin Secrets /\ IP \notin Secrets
  BY CharsAreBytes DEF Controls
<1>5. Free(bytes, Secrets) /\ Free(bytes, {CR, LF})
  BY <1>3, <1>4 DEF Free
<1>6. Len(bytes) \in Nat
  BY <1>1, KeysAreBytes
<1>7. \A i \in 1..Len(bytes) : bytes[i] \in {CR, LF} \cup Cuts => Closes(bytes, i)
  BY <1>3, <1>6 DEF Closes, Cuts
<1> QED
  BY <1>1, <1>5, <1>7, Zenon DEF Adds

LEMMA ClientAdds ==
  ASSUME Typed, TypeKey \/ PressEnter
  PROVE  \E bytes : Adds(bytes)
<1>1. seen = prompt
  BY DEF Typed
<1>2. CASE TypeKey
  <2>1. CASE \E c \in IF seen = "password" THEN Secrets ELSE Letters :
               /\ Send(<<c>>)
               /\ meant' = IF meant = Unsure THEN Unsure ELSE Append(meant, c)
    <3>1. \A c \in Letters : c \notin Secrets
      BY ConstantsAssumption DEF ConstantsAssumption
    <3> QED
      BY <1>1, <2>1, <3>1, CharAdds, CharsAreBytes
  <2>2. CASE Send(<<BS>>) /\ meant' = IF meant \in {Unsure, <<>>} THEN meant ELSE Front(meant)
    BY <2>2, BackspaceAdds
  <2>3. CASE \E key \in {<<ESC>>, Up, Down} : Send(key) /\ meant' = Unsure
    BY <2>3, EscapeAdds
  <2>4. CASE Send(<<IAC, DO, NUL>>) /\ UNCHANGED meant
    <3>1. <<IAC, DO, NUL>> \in Keys
      BY DEF Keys
    <3> QED
      BY <2>4, <3>1, SilentAdds
  <2> QED
    BY <1>2, <2>1, <2>2, <2>3, <2>4 DEF TypeKey
<1>3. CASE PressEnter
  <2>1. newline \in {<<LF>>, <<CR>>, <<CR, LF>>, <<CR, NUL>>}
    BY ConstantsAssumption DEF ConstantsAssumption, Typed
  <2>2. newline \in Keys /\ <<IAC, IP>> \in Keys
    BY <2>1 DEF Keys
  <2>3. CASE Send(newline) /\ waiting' = TRUE /\ UNCHANGED meant
    BY <2>1, <2>2, <2>3, SilentAdds
  <2>4. CASE Send(<<ETX>>) /\ waiting' = TRUE /\ meant' = <<>>
    BY <2>4, CutAdds
  <2>5. CASE Send(<<IAC, IP>>) /\ seen # "login" /\ waiting' = TRUE /\ meant' = <<>>
    BY <2>5, CutAdds
  <2>6. CASE Send(<<IAC, IP>>) /\ seen = "login" /\ UNCHANGED <<waiting, meant>>
    BY <1>1, <2>2, <2>6, SilentAdds
  <2> QED
    BY <1>3, <2>3, <2>4, <2>5, <2>6 DEF PressEnter
<1> QED
  BY <1>2, <1>3

LEMMA AddedBytes ==
  ASSUME Typed, NEW bytes, Adds(bytes), NEW i \in 1..Len(wire')
  PROVE  \/ i \in 1..Len(wire) /\ wire'[i] = wire[i]
         \/ \E j \in 1..Len(bytes) : i = Len(wire) + j /\ wire'[i] = bytes[j]
<1>1. PICK k \in Nat : k = Len(wire)
  BY LenProperties DEF Typed
<1>2. PICK h \in Nat : h = Len(bytes)
  BY KeysAreBytes DEF Adds
<1>3. /\ Len(wire') = k + h
      /\ \A j \in 1..k : wire'[j] = wire[j]
      /\ \A j \in 1..h : wire'[k + j] = bytes[j]
  BY <1>1, <1>2, SendFacts DEF Adds
<1>4. CASE i <= k
  <2>1. i \in 1..k
    BY <1>3, <1>4
  <2> QED
    BY <1>1, <1>3, <2>1
<1>5. CASE ~(i <= k)
  <2>1. PICK j \in 1..h : i = k + j
    <3>1. i - k \in 1..h /\ i = k + (i - k)
      BY <1>3, <1>5
    <3> QED
      BY <3>1
  <2> QED
    BY <1>1, <1>2, <1>3, <2>1
<1> QED
  BY <1>4, <1>5

LEMMA AddedFree ==
  ASSUME Typed, NEW bytes, Adds(bytes), NEW B, Free(wire, B), Free(bytes, B)
  PROVE  Free(wire', B)
<1>1. ASSUME NEW i \in 1..Len(wire')
      PROVE  wire'[i] \notin B
  BY AddedBytes DEF Free
<1> QED
  BY <1>1 DEF Free

LEMMA ClientKeepsFrame ==
  ASSUME LineInv, Framed, TypeKey \/ PressEnter
  PROVE  Framed'
<1>1. PICK bytes : Adds(bytes)
  BY ClientAdds DEF LineInv
<1>2. Typed /\ Whole(wire) /\ Whole(bytes)
  BY <1>1, KeysAreWhole DEF LineInv, Framed, Adds
<1>3. PICK k \in Nat : k = Len(wire)
  BY <1>2, LenProperties DEF Typed
<1>4. PICK h \in Nat : h = Len(bytes)
  BY <1>1, KeysAreBytes DEF Adds
<1>5. /\ Len(wire') = k + h
      /\ \A j \in 1..k : wire'[j] = wire[j]
      /\ \A j \in 1..h : wire'[k + j] = bytes[j]
      /\ at' = at
  BY <1>1, <1>2, <1>3, <1>4, SendFacts DEF Adds
<1>6. ASSUME NEW i \in 1..k
      PROVE  /\ wire'[i] = IAC => i < k + h /\ wire'[i + 1] \in {IP, DO}
             /\ wire'[i] = DO => i < k + h /\ wire'[i + 1] = NUL
  <2>1. /\ wire[i] = IAC => i < k /\ wire[i + 1] \in {IP, DO}
        /\ wire[i] = DO => i < k /\ wire[i + 1] = NUL
    BY <1>2, <1>3 DEF Whole
  <2>2. i < k => i + 1 \in 1..k
    OBVIOUS
  <2>3. i < k => i < k + h
    OBVIOUS
  <2> QED
    BY <1>5, <2>1, <2>2, <2>3
<1>7. ASSUME NEW j \in 1..h
      PROVE  /\ wire'[k + j] = IAC => k + j < k + h /\ wire'[k + j + 1] \in {IP, DO}
             /\ wire'[k + j] = DO => k + j < k + h /\ wire'[k + j + 1] = NUL
  <2>1. /\ bytes[j] = IAC => j < h /\ bytes[j + 1] \in {IP, DO}
        /\ bytes[j] = DO => j < h /\ bytes[j + 1] = NUL
    BY <1>2, <1>4 DEF Whole
  <2>2. j < h => j + 1 \in 1..h /\ k + (j + 1) = k + j + 1
    OBVIOUS
  <2>3. j < h => wire'[k + j + 1] = bytes[j + 1]
    BY <1>5, <2>2
  <2> QED
    BY <1>5, <2>1, <2>3
<1>8. ASSUME NEW i \in 1..k + h
      PROVE  i \in 1..k \/ \E j \in 1..h : i = k + j
  <2>1. CASE i > k
    <3>1. i - k \in 1..h /\ i = k + (i - k)
      BY <2>1
    <3> QED
      BY <3>1
  <2>2. CASE ~(i > k)
    BY <2>2
  <2> QED
    BY <2>1, <2>2
<1>9. Whole(wire')
  <2> SUFFICES ASSUME NEW i \in 1..k + h
               PROVE  /\ wire'[i] = IAC => i < k + h /\ wire'[i + 1] \in {IP, DO}
                      /\ wire'[i] = DO => i < k + h /\ wire'[i + 1] = NUL
    BY <1>5 DEF Whole
  <2> QED
    BY <1>6, <1>7, <1>8
<1>10. k >= 1 => k + h >= 1 /\ wire'[1] = wire[1]
  BY <1>5
<1> QED
  BY <1>3, <1>5, <1>9, <1>10 DEF Framed

LEMMA ClientKeepsMeaning ==
  ASSUME ClientInv, TypeKey \/ PressEnter, inStep'
  PROVE  Orderly' /\ Hidden' /\ AsMeant'
<1>1. PICK bytes : Adds(bytes)
  BY ClientAdds DEF ClientInv, LineInv
<1>2. Typed /\ inStep /\ ~waiting
  BY ClientFacts DEF ClientInv, LineInv
<1>3. /\ UNCHANGED <<at, editor, rounds, newline, seen>>
      /\ at # "over" /\ bytes \in Keys
  BY <1>1, <1>2, SendFacts DEF Adds, Send
<1>4. Len(bytes) \in Nat /\ Len(wire) \in Nat /\ Len(wire') = Len(wire) + Len(bytes)
  BY <1>1, <1>2, <1>3, KeysAreBytes, SendFacts, LenProperties DEF Typed, Adds
<1>5. at \notin {"afterCR", "auth", "command"} /\ Free(wire, {CR, LF} \cup Cuts)
  BY <1>2 DEF ClientInv, Orderly, EndsLast, Free
<1>6. Orderly'
  <2>1. ASSUME NEW i \in 1..Len(wire'), wire'[i] \in {CR, LF} \cup Cuts
        PROVE  waiting' /\ Closes(wire', i)
    <3>1. PICK j \in 1..Len(bytes) : i = Len(wire) + j /\ wire'[i] = bytes[j]
      BY <1>1, <1>2, <1>5, <2>1, AddedBytes DEF Free
    <3>2. waiting' /\ Closes(bytes, j)
      BY <1>1, <2>1, <3>1 DEF Adds
    <3>3. ASSUME i < Len(wire')
          PROVE  /\ Len(wire') = i + 1 /\ wire'[i + 1] \in {NUL, LF}
                 /\ wire'[i + 1] = LF => wire'[i] = CR
      <4>1. j < Len(bytes)
        BY <1>4, <3>1, <3>3
      <4>2. Len(bytes) = j + 1 /\ bytes[j + 1] \in {NUL, LF} /\ (bytes[j + 1] = LF => bytes[j] = CR)
        BY <3>2, <4>1 DEF Closes
      <4>3. j + 1 \in 1..Len(bytes) /\ i + 1 = Len(wire) + (j + 1)
        BY <1>4, <3>1, <4>1
      <4>4. wire'[i + 1] = bytes[j + 1]
        BY <1>1, <1>2, <4>3, SendFacts DEF Adds
      <4> QED
        BY <1>4, <3>1, <4>2, <4>3, <4>4
    <3>4. Closes(wire', i)
      BY <3>3 DEF Closes
    <3> QED
      BY <3>2, <3>4, Zenon
  <2>2. Cuts' = Cuts
    BY <1>3 DEF Cuts, editor
  <2>3. EndsLast(wire)'
    BY <2>1, <2>2, Zenon DEF EndsLast
  <2> QED
    BY <1>3, <1>5, <2>3 DEF Orderly
<1>7. Hidden'
  <2>1. prompt # "password" => Free(wire, Secrets) /\ Free(bytes, Secrets)
    BY <1>1, <1>2 DEF ClientInv, Hidden, Adds
  <2>2. prompt # "password" => Free(wire', Secrets)
    BY <1>1, <1>2, <2>1, AddedFree
  <2> QED
    BY <1>2, <1>3, <2>2 DEF ClientInv, Hidden, editor
<1>8. CASE meant' = Unsure
  BY <1>6, <1>7, <1>8 DEF AsMeant
<1>9. CASE waiting' /\ meant' = <<>> /\ Free(bytes, {CR, LF})
  <2>1. Free(wire, {CR, LF})
    BY <1>5 DEF Free
  <2>2. Free(wire', {CR, LF})
    BY <1>1, <1>2, <1>9, <2>1, AddedFree
  <2>3. at \in {"byte", "escape", "iac", "option"}
    BY <1>2, <1>3, <1>5 DEF Typed
  <2>4. Interrupted'
    BY <1>3, <1>9, <2>2, <2>3 DEF Interrupted
  <2> QED
    BY <1>6, <1>7, <2>4 DEF AsMeant
<1>10. CASE meant # Unsure /\ Leads(meant, bytes, meant') /\ Free(bytes, {ESC} \cup Cuts)
  <2>1. Pending
    BY <1>2, <1>3, <1>5, <1>10 DEF ClientInv, AsMeant, Interrupted
  <2>2. at \in {"byte", "afterCR", "iac", "option"} /\ Free(wire, {ESC} \cup Cuts)
        /\ Leads(line, wire, meant)
    BY <2>1 DEF Pending
  <2>3. Free(wire', {ESC} \cup Cuts)
    BY <1>1, <1>2, <1>10, <2>2, AddedFree
  <2>4. Leads(line, wire', meant')
    <3>1. /\ \A i \in 1..Len(wire) : wire'[i] = wire[i]
          /\ \A i \in 1..Len(bytes) : wire'[Len(wire) + i] = bytes[i]
      BY <1>1, <1>2, SendFacts DEF Adds
    <3> QED
      BY <1>4, <1>10, <2>2, <3>1, LeadsOn
  <2>5. Pending'
    BY <1>3, <2>2, <2>3, <2>4 DEF Pending, Cuts, editor
  <2> QED
    BY <1>6, <1>7, <2>5 DEF AsMeant
<1> QED
  BY <1>1, <1>8, <1>9, <1>10 DEF Adds

LEMMA ClientKeeps ==
  ASSUME ClientInv, TypeKey \/ PressEnter
  PROVE  ClientInv'
<1>1. LineInv' /\ Framed'
  BY ClientKeepsLine, ClientKeepsFrame DEF ClientInv
<1>2. CASE inStep'
  BY <1>1, <1>2, ClientKeepsMeaning DEF ClientInv
<1>3. CASE ~inStep'
  BY <1>1, <1>3 DEF ClientInv, Orderly, Hidden, AsMeant
<1> QED
  BY <1>2, <1>3
----------------------------------------------------------------------------
(* What is left of the wire when its first n bytes are read.               *)
LEMMA DropsFree ==
  ASSUME Typed, NEW n \in 0..2, Drops(n), NEW B, Free(wire, B)
  PROVE  Free(wire', B)
<1>1. PICK k \in Nat : k = Len(wire)
  BY LenProperties DEF Typed
<1>2. n <= k /\ Len(wire') = k - n /\ \A i \in 1..k - n : wire'[i] = wire[i + n]
  BY <1>1 DEF Drops
<1>3. \A i \in 1..k - n : i + n \in 1..k
  BY <1>2
<1> QED
  BY <1>1, <1>2, <1>3 DEF Free

LEMMA DropsWhole ==
  ASSUME Typed, NEW n \in 0..2, Drops(n), Whole(wire)
  PROVE  Whole(wire')
<1>1. PICK k \in Nat : k = Len(wire)
  BY LenProperties DEF Typed
<1>2. n <= k /\ Len(wire') = k - n /\ \A i \in 1..k - n : wire'[i] = wire[i + n]
  BY <1>1 DEF Drops
<1>3. ASSUME NEW i \in 1..k - n
      PROVE  /\ wire'[i] = IAC => i < k - n /\ wire'[i + 1] \in {IP, DO}
             /\ wire'[i] = DO => i < k - n /\ wire'[i + 1] = NUL
  <2>1. PICK j \in Nat : j = i + n
    OBVIOUS
  <2>2. /\ wire[j] = IAC => j < k /\ wire[j + 1] \in {IP, DO}
        /\ wire[j] = DO => j < k /\ wire[j + 1] = NUL
    BY <1>1, <1>2, <2>1 DEF Whole
  <2>3. wire'[i] = wire[j]
    BY <1>2, <2>1
  <2>4. j < k => i < k - n /\ i + 1 \in 1..k - n /\ i + 1 + n = j + 1
    BY <1>2, <2>1
  <2>5. j < k => wire'[i + 1] = wire[j + 1]
    BY <1>2, <2>4
  <2> QED
    BY <2>2, <2>3, <2>4, <2>5
<1> QED
  BY <1>2, <1>3 DEF Whole

LEMMA DropsEndsLast ==
  ASSUME Typed, NEW n \in 0..2, Drops(n), EndsLast(wire), UNCHANGED <<waiting, prompt>>
  PROVE  EndsLast(wire)'
<1>1. PICK k \in Nat : k = Len(wire)
  BY LenProperties DEF Typed
<1>2. n <= k /\ Len(wire') = k - n /\ \A i \in 1..k - n : wire'[i] = wire[i + n]
  BY <1>1 DEF Drops
<1>3. ASSUME NEW i \in 1..k - n, wire'[i] \in {CR, LF} \cup Cuts
      PROVE  waiting /\ Closes(wire', i)
  <2>1. PICK j \in Nat : j = i + n
    OBVIOUS
  <2>2. j \in 1..k /\ wire'[i] = wire[j]
    BY <1>2, <2>1
  <2>3. waiting /\ Closes(wire, j)
    BY <1>1, <1>3, <2>2 DEF EndsLast
  <2>4. ASSUME i < k - n
        PROVE  /\ k - n = i + 1 /\ wire'[i + 1] \in {NUL, LF}
               /\ wire'[i + 1] = LF => wire'[i] = CR
    <3>1. j < k /\ i + 1 \in 1..k - n /\ i + 1 + n = j + 1
      BY <1>2, <2>1, <2>4
    <3>2. wire'[i + 1] = wire[j + 1]
      BY <1>2, <3>1
    <3>3. k = j + 1 /\ wire[j + 1] \in {NUL, LF} /\ (wire[j + 1] = LF => wire[j] = CR)
      BY <1>1, <2>3, <3>1 DEF Closes
    <3> QED
      BY <1>2, <2>1, <2>2, <3>2, <3>3
  <2> QED
    BY <1>2, <2>3, <2>4 DEF Closes
<1>4. Cuts' = Cuts
  BY DEF Cuts
<1> QED
  BY <1>2, <1>3, <1>4 DEF EndsLast

(* A client in step has sent nothing behind the end of the line.           *)
LEMMA EndIsLast ==
  ASSUME Typed, Orderly, inStep, Drops(1), Len(wire) >= 1, wire[1] \in {CR, LF} \cup Cuts
  PROVE  /\ waiting /\ Rest(wire', {NUL, LF})
         /\ wire[1] # CR => Rest(wire', {NUL})
<1>1. PICK k \in Nat : k = Len(wire)
  BY LenProperties DEF Typed
<1>2. Len(wire') = k - 1 /\ (k - 1 >= 1 => wire'[1] = wire[1 + 1])
  BY <1>1 DEF Drops
<1>3. 1 \in 1..k
  BY <1>1
<1>4. waiting /\ Closes(wire, 1)
  BY <1>1, <1>3 DEF Orderly, EndsLast
<1>5. 1 < k => k = 1 + 1 /\ wire[1 + 1] \in {NUL, LF} /\ (wire[1 + 1] = LF => wire[1] = CR)
  BY <1>1, <1>4 DEF Closes
<1>6. Len(wire') <= 1 /\ \A i \in 1..Len(wire') : i = 1 /\ 1 < k
  BY <1>1, <1>2, <1>5
<1> QED
  BY <1>2, <1>4, <1>5, <1>6 DEF Rest
----------------------------------------------------------------------------
(* Bytes that end no line.                                                 *)
LEMMA EditKeepsMeaning ==
  ASSUME ClientInv, NEW n \in 0..2, Drops(n),
         UNCHANGED <<prompt, history, client, rounds, inStep>>,
         at' \in {"byte", "afterCR", "escape", "iac", "option"},
         at' = "iac" => Len(wire') >= 1 /\ wire'[1] \in {IP, DO},
         at' = "option" => Len(wire') >= 1 /\ wire'[1] = NUL,
         inStep /\ at' = "afterCR" => waiting /\ Rest(wire', {NUL, LF}),
         inStep => shown' \in Seq(Plain),
         inStep /\ prompt # "password" => line' \in Seq(Plain)
  PROVE  Framed' /\ Orderly' /\ Hidden'
<1>1. Typed /\ UNCHANGED waiting
  BY DEF ClientInv, LineInv, client
<1>2. Framed'
  BY <1>1, DropsWhole DEF ClientInv, Framed
<1>3. Orderly'
  <2>1. inStep => EndsLast(wire)
    BY DEF ClientInv, Orderly
  <2>2. inStep => EndsLast(wire)'
    BY <1>1, <2>1, DropsEndsLast
  <2> QED
    BY <1>1, <2>2 DEF Orderly
<1>4. Hidden'
  <2>1. inStep /\ prompt # "password" => Free(wire, Secrets)
    BY DEF ClientInv, Hidden
  <2>2. inStep /\ prompt # "password" => Free(wire', Secrets)
    BY <1>1, <2>1, DropsFree
  <2> QED
    BY <2>2 DEF ClientInv, Hidden
<1> QED
  BY <1>2, <1>3, <1>4

(* The session reads one byte, and it does what the client sees it do.     *)
LEMMA ReadKeepsMeant ==
  ASSUME ClientInv, Drops(1), Len(wire) >= 1, line' = After(line, wire[1]),
         UNCHANGED <<prompt, client, inStep>>,
         at \in {"byte", "iac", "option"},
         at' \in {"byte", "afterCR", "escape", "iac", "option"},
         at' = "escape" => wire[1] = ESC,
         at' = "afterCR" => wire[1] = CR
  PROVE  AsMeant'
<1>1. Typed /\ UNCHANGED <<waiting, meant>>
  BY DEF ClientInv, LineInv, client
<1>2. Len(wire) \in Nat /\ 1 \in 1..Len(wire) /\ Len(wire) # 0
  BY <1>1, LenProperties DEF Typed
<1>3. CASE Pending
  <2>1. Free(wire, {ESC} \cup Cuts) /\ Leads(line, wire, meant)
    BY <1>3 DEF Pending
  <2>2. wire[1] # ESC
    BY <1>2, <2>1 DEF Free
  <2>3. Free(wire', {ESC} \cup Cuts)
    BY <1>1, <2>1, DropsFree
  <2>4. Leads(line', wire', meant)
    <3>1. Len(wire') = Len(wire) - 1 /\ \A i \in 1..Len(wire') : wire'[i] = wire[i + 1]
      BY DEF Drops
    <3> QED
      BY <1>2, <2>1, <3>1, LeadsFrom
  <2>5. Pending'
    BY <1>1, <2>2, <2>3, <2>4 DEF Pending, Cuts
  <2> QED
    BY <2>5 DEF AsMeant
<1>4. CASE Interrupted
  <2>1. waiting /\ meant = <<>> /\ Free(wire, {CR, LF})
    BY <1>4 DEF Interrupted
  <2>2. wire[1] # CR
    BY <1>2, <2>1 DEF Free
  <2>3. Free(wire', {CR, LF})
    BY <1>1, <2>1, DropsFree
  <2>4. Interrupted'
    BY <1>1, <2>1, <2>2, <2>3 DEF Interrupted
  <2> QED
    BY <2>4 DEF AsMeant
<1>5. CASE ~inStep \/ meant = Unsure
  BY <1>1, <1>5 DEF AsMeant
<1> QED
  BY <1>3, <1>4, <1>5 DEF ClientInv, AsMeant
----------------------------------------------------------------------------
LEMMA PlainFacts ==
  /\ Plain \subseteq Printable
  /\ \A c \in Plain : c \notin Secrets
  /\ \A c \in Printable : c \notin Secrets => c \in Plain
  /\ NUL \notin Secrets
  BY CharsAreBytes DEF Plain, Controls

(* What is remembered holds no secret: at the password prompt nothing is.  *)
LEMMA PlainPast ==
  ASSUME ClientInv, inStep, NEW l, NEW past, Ends(l, past)
  PROVE  /\ past \in Seq(Lines(Plain))
         /\ prompt # "password" => l \in Seq(Plain)
<1>1. history \in Seq(Lines(Plain)) /\ (prompt # "password" => line \in Seq(Plain))
  BY DEF ClientInv, Hidden
<1>2. CASE l = <<>> /\ past = history
  BY <1>1, <1>2, EmptyLine, Zenon
<1>3. CASE l = line /\ past = Remembered(line) /\ Len(line) <= MaxLength
  <2>1. Echo => line \in Lines(Plain)
    BY <1>1, <1>3 DEF Echo, Lines
  <2>2. Len(history) <= HistoryLimit /\ Tidy(history)
    BY DEF ClientInv, LineInv, Typed
  <2>3. Remembered(line) \in Seq(Lines(Plain))
    BY <1>1, <2>1, <2>2, Limits, RememberedFacts
  <2> QED
    BY <1>1, <1>3, <2>3
<1> QED
  BY <1>2, <1>3 DEF Ends

(* A line ends, or is cut short.                                           *)
LEMMA EndKeepsMeaning ==
  ASSUME ClientInv, inStep, NEW l, NEW past, Ends(l, past),
         wire' \in Seq(Bytes), Rest(wire', {NUL}),
         Takes(l, past) => waiting /\ (meant # Unsure => l = meant)
  PROVE  Orderly' /\ Hidden' /\ AsMeant'
<1>1. /\ past \in Seq(Lines(Plain))
      /\ prompt # "password" => l \in Seq(Plain)
      /\ shown \in Seq(Plain)
      /\ prompt # "password" => line \in Seq(Plain)
  BY PlainPast DEF ClientInv, Hidden
<1>2. Len(wire') <= 1 /\ \A i \in 1..Len(wire') : wire'[i] = NUL
  BY DEF Rest
<1>3. Free(wire', Secrets) /\ Free(wire', {CR, LF})
  BY <1>2, PlainFacts DEF Free
<1>4. EndsLast(wire)' /\ Free(wire', ({ESC} \cup Cuts)')
  BY <1>2 DEF EndsLast, Cuts, Free
<1>5. CASE Fresh(past)
  <2>1. /\ at' = "byte" /\ line' = <<>> /\ shown' = <<>> /\ history' = past /\ meant' = <<>>
    BY <1>5 DEF Fresh
  <2>2. Orderly'
    BY <1>4, <2>1 DEF Orderly
  <2>3. line' \in Seq(Plain) /\ shown' \in Seq(Plain) /\ <<>> \in Seq(Printable)
    BY <2>1, EmptyLine, Zenon
  <2>4. Hidden'
    BY <1>1, <1>3, <2>1, <2>3 DEF Hidden
  <2>5. Len(wire') \in Nat
    BY LenProperties
  <2>6. \A i \in 1..Len(wire') : After(<<>>, wire'[i]) = <<>>
    BY <1>2, <2>3, AfterFacts DEF Controls
  <2>7. Leads(<<>>, wire', <<>>)
    BY <2>3, <2>5, <2>6, LeadsStill
  <2>8. Leads(line', wire', meant')
    BY <2>1, <2>7, Zenon
  <2>9. Pending'
    BY <1>4, <2>1, <2>8 DEF Pending, Free
  <2> QED
    BY <2>2, <2>4, <2>9 DEF AsMeant
<1>6. CASE Quit(past)
  <2>1. at' = "over" /\ history' = past /\ UNCHANGED <<prompt, line, shown>>
    BY <1>6 DEF Quit
  <2> QED
    BY <1>1, <1>3, <1>4, <2>1 DEF Orderly, Hidden, AsMeant
<1>7. CASE Takes(l, past)
  <2>1. /\ at' \in {"auth", "command"} /\ line' = l /\ history' = past
        /\ UNCHANGED <<waiting, meant, prompt, shown>>
        /\ waiting /\ (meant # Unsure => l = meant)
    BY <1>7 DEF Takes
  <2>2. Orderly'
    BY <1>4, <2>1 DEF Orderly
  <2>3. Hidden'
    BY <1>1, <1>3, <2>1 DEF Hidden
  <2>4. AsMeant'
    BY <2>1 DEF AsMeant
  <2> QED
    BY <2>2, <2>3, <2>4
<1> QED
  BY <1>5, <1>6, <1>7 DEF Ends

LEMMA EndStep ==
  ASSUME ClientInv, LineInv', NEW l, NEW past, Ends(l, past),
         wire' = wire \/ Drops(1),
         inStep' => inStep /\ Rest(wire', {NUL}),
         inStep' /\ Takes(l, past) => waiting /\ (meant # Unsure => l = meant)
  PROVE  ClientInv'
<1>1. Typed /\ Whole(wire)
  BY DEF ClientInv, LineInv, Framed
<1>2. Whole(wire')
  BY <1>1, DropsWhole
<1>3. at' \notin {"iac", "option"}
  BY DEF Ends, Fresh, Quit, Takes
<1>4. Framed'
  BY <1>2, <1>3 DEF Framed
<1>5. wire' \in Seq(Bytes)
  BY DEF LineInv, Typed
<1>6. CASE inStep'
  <2>1. inStep /\ Rest(wire', {NUL}) /\ (Takes(l, past) => waiting /\ (meant # Unsure => l = meant))
    BY <1>6
  <2> QED
    BY <1>4, <1>5, <2>1, EndKeepsMeaning DEF ClientInv
<1>7. CASE ~inStep'
  BY <1>4, <1>7 DEF ClientInv, Orderly, Hidden, AsMeant
<1> QED
  BY <1>6, <1>7

(* Nothing but the second half of a newline is left: the line is meant.    *)
LEMMA RestMeans ==
  ASSUME Typed, NEW w \in Seq(Bytes), Rest(w, {NUL, LF}), Leads(line, w, meant)
  PROVE  meant = line
<1>1. \A i \in 1..Len(w) : w[i] \in Controls \ {BS}
  BY DEF Rest, Controls
<1>2. line \in Seq(Printable)
  BY DEF Typed
<1>3. \A i \in 1..Len(w) : After(line, w[i]) = line
  BY <1>1, <1>2, AfterFacts
<1>4. Len(w) \in 0..1
  BY LenProperties DEF Rest
<1> QED
  BY <1>3, <1>4, LeadsNowhere

LEMMA CtrlCKeeps ==
  ASSUME ClientInv, LineInv', wire # <<>>, wire' = Tail(wire), Head(wire) \in Cuts,
         at = "byte" \/ (at = "iac" /\ Head(wire) = IP),
         Return(<<>>, history), UNCHANGED <<newline, inStep>>
  PROVE  ClientInv'
<1>1. Typed
  BY DEF ClientInv, LineInv
<1>2. Drops(1) /\ Len(wire) >= 1 /\ Head(wire) = wire[1] /\ wire[1] \in Cuts
  BY <1>1, TailDrops
<1>3. Ends(<<>>, history)
  BY <1>1, CutsShort
<1>4. ASSUME inStep
      PROVE  waiting /\ Rest(wire', {NUL}) /\ (meant # Unsure => <<>> = meant)
  <2>1. waiting /\ Rest(wire', {NUL})
    BY <1>1, <1>2, <1>4, EndIsLast DEF ClientInv, Cuts
  <2>2. ~Pending
    <3>1. 1 \in 1..Len(wire)
      BY <1>1, <1>2, LenProperties DEF Typed
    <3> QED
      BY <1>2, <3>1 DEF Pending, Free
  <2>3. meant # Unsure => Interrupted
    BY <1>4, <2>2 DEF ClientInv, AsMeant
  <2> QED
    BY <2>1, <2>3 DEF Interrupted
<1> QED
  BY <1>2, <1>3, <1>4, EndStep

LEMMA EnterKeeps ==
  ASSUME ClientInv, LineInv', Return(line, Remembered(line)), UNCHANGED newline,
         \/ at = "byte" /\ wire # <<>> /\ Head(wire) = LF /\ wire' = Tail(wire)
            /\ Len(line) <= MaxLength /\ UNCHANGED inStep
         \/ at = "afterCR" /\ wire # <<>> /\ wire' = Tail(wire) /\ UNCHANGED inStep
         \/ at = "afterCR" /\ wire' = wire
            /\ inStep' = (inStep /\ (wire = <<>> \/ Head(wire) # LF))
  PROVE  ClientInv'
<1>1. Typed /\ wire \in Seq(Bytes) /\ wire' \in Seq(Bytes)
  BY DEF ClientInv, LineInv, Typed
<1>2. Len(line) <= MaxLength
  BY <1>1 DEF Typed
<1>3. Ends(line, Remembered(line))
  BY <1>1, <1>2, EndsLine
<1>4. PICK k \in Nat : k = Len(wire)
  BY <1>1, LenProperties
<1>5. inStep /\ meant # Unsure => Pending \/ Interrupted
  BY DEF ClientInv, AsMeant
<1>6. CASE /\ at = "byte" /\ wire # <<>> /\ Head(wire) = LF /\ wire' = Tail(wire)
           /\ UNCHANGED inStep
  <2>1. Drops(1) /\ Len(wire) >= 1 /\ wire[1] = LF
    BY <1>1, <1>6, TailDrops
  <2>2. ASSUME inStep
        PROVE  waiting /\ Rest(wire', {NUL})
    BY <1>1, <2>1, <2>2, EndIsLast DEF ClientInv
  <2>3. 1 \in 1..Len(wire) /\ Len(wire) \in Nat \ {0}
    BY <1>4, <2>1
  <2>4. ~Interrupted
    BY <2>1, <2>3 DEF Interrupted, Free
  <2>5. ASSUME inStep, meant # Unsure
        PROVE  line = meant
    <3>1. Leads(line, wire, meant)
      BY <1>5, <2>4, <2>5 DEF Pending
    <3>2. Len(wire') = Len(wire) - 1 /\ \A i \in 1..Len(wire') : wire'[i] = wire[i + 1]
      BY <2>1 DEF Drops
    <3>3. Leads(After(line, wire[1]), wire', meant)
      BY <2>3, <3>1, <3>2, LeadsFrom
    <3>4. After(line, wire[1]) = line
      BY <1>1, <2>1, AfterFacts DEF Typed, Controls
    <3>5. Rest(wire', {NUL, LF})
      BY <2>2, <2>5 DEF Rest
    <3> QED
      BY <1>1, <3>3, <3>4, <3>5, RestMeans
  <2> QED
    BY <1>3, <1>6, <2>1, <2>2, <2>5, EndStep
<1>7. ASSUME at = "afterCR", inStep
      PROVE  waiting /\ Rest(wire, {NUL, LF}) /\ (meant # Unsure => line = meant)
  <2>1. waiting /\ Rest(wire, {NUL, LF})
    BY <1>7 DEF ClientInv, Orderly
  <2>2. meant # Unsure => Leads(line, wire, meant)
    BY <1>5, <1>7 DEF Pending, Interrupted
  <2> QED
    BY <1>1, <2>1, <2>2, RestMeans
<1>8. CASE at = "afterCR" /\ wire # <<>> /\ wire' = Tail(wire) /\ UNCHANGED inStep
  <2>1. Drops(1) /\ Len(wire') = k - 1
    BY <1>1, <1>4, <1>8, TailDrops DEF Drops
  <2>2. inStep => Rest(wire', {NUL})
    BY <1>4, <1>7, <1>8, <2>1 DEF Rest
  <2> QED
    BY <1>3, <1>7, <1>8, <2>1, <2>2, EndStep
<1>9. CASE at = "afterCR" /\ wire' = wire /\ inStep' = (inStep /\ (wire = <<>> \/ Head(wire) # LF))
  <2>1. ASSUME inStep'
        PROVE  inStep /\ Rest(wire', {NUL})
    <3>1. inStep /\ Rest(wire, {NUL, LF}) /\ (wire = <<>> \/ Head(wire) # LF)
      BY <1>7, <1>9, <2>1
    <3>2. CASE wire = <<>>
      <4>1. Len(wire) = 0
        BY <3>2
      <4>2. Rest(wire, {NUL})
        BY <4>1 DEF Rest
      <4> QED
        BY <1>9, <3>1, <4>2
    <3>3. CASE wire # <<>> /\ Head(wire) # LF
      <4>1. Head(wire) = wire[1]
        OBVIOUS
      <4>2. Len(wire) <= 1 /\ \A i \in 1..Len(wire) : i = 1
        BY <1>4, <3>1 DEF Rest
      <4> QED
        BY <1>9, <3>1, <3>3, <4>1, <4>2 DEF Rest
    <3> QED
      BY <3>1, <3>2, <3>3
  <2> QED
    BY <1>3, <1>7, <1>9, <2>1, EndStep
<1> QED
  BY <1>6, <1>8, <1>9

LEMMA ReadKeeps ==
  ASSUME ClientInv, LineInv',
         at \in {"byte", "iac", "option"}, wire # <<>>, wire' = Tail(wire),
         line' = After(line, Head(wire)),
         \/ shown' = shown
         \/ shown' = Front(shown) /\ shown # <<>>
         \/ shown' = Append(shown, Head(wire)) /\ Echo /\ Head(wire) \in Printable,
         UNCHANGED <<prompt, history, client, rounds, inStep>>,
         \/ at' = "byte"
         \/ at' = "afterCR" /\ Head(wire) = CR
         \/ at' = "escape" /\ Head(wire) = ESC
         \/ at' = "iac" /\ Head(wire) = IAC
         \/ at' = "option" /\ at = "iac" /\ Head(wire) = DO
  PROVE  ClientInv'
<1>1. Typed /\ Whole(wire)
  BY DEF ClientInv, LineInv, Framed
<1>2. Drops(1) /\ Len(wire) >= 1 /\ Head(wire) = wire[1]
  BY <1>1, TailDrops
<1>3. PICK k \in Nat : k = Len(wire)
  BY <1>1, LenProperties DEF Typed
<1>4. 1 \in 1..k /\ Len(wire') = k - 1 /\ (k - 1 >= 1 => wire'[1] = wire[1 + 1])
  BY <1>2, <1>3 DEF Drops
<1>5. /\ wire[1] = IAC => 1 < k /\ wire[1 + 1] \in {IP, DO}
      /\ wire[1] = DO => 1 < k /\ wire[1 + 1] = NUL
  BY <1>1, <1>3, <1>4 DEF Whole
<1>6. /\ at' \in {"byte", "afterCR", "escape", "iac", "option"}
      /\ at' = "iac" => Len(wire') >= 1 /\ wire'[1] \in {IP, DO}
      /\ at' = "option" => Len(wire') >= 1 /\ wire'[1] = NUL
  BY <1>2, <1>4, <1>5
<1>7. inStep /\ at' = "afterCR" => waiting /\ Rest(wire', {NUL, LF})
  BY <1>1, <1>2, EndIsLast DEF ClientInv
<1>8. inStep /\ prompt # "password" => wire[1] \notin Secrets
  BY <1>3, <1>4 DEF ClientInv, Hidden, Free
<1>9. wire[1] \in Printable /\ wire[1] \notin Secrets => wire[1] \in Plain
  BY PlainFacts
<1>10. ASSUME NEW l \in Seq(Plain), wire[1] \in Printable => wire[1] \in Plain
       PROVE  After(l, wire[1]) \in Seq(Plain)
  <2>1. l # <<>> => Front(l) \in Seq(Plain)
    BY FrontFacts
  <2>2. wire[1] \in Printable => Append(l, wire[1]) \in Seq(Plain)
    BY <1>10, AppendProperties
  <2> QED
    BY <2>1, <2>2 DEF After
<1>11. inStep /\ prompt # "password" => line' \in Seq(Plain)
  BY <1>2, <1>8, <1>9, <1>10 DEF ClientInv, Hidden
<1>12. ASSUME inStep
       PROVE  shown' \in Seq(Plain)
  <2>1. shown \in Seq(Plain)
    BY <1>12 DEF ClientInv, Hidden
  <2>2. CASE shown' = shown
    BY <2>1, <2>2
  <2>3. CASE shown' = Front(shown) /\ shown # <<>>
    BY <2>1, <2>3, FrontFacts
  <2>4. CASE Echo /\ shown' = Append(shown, Head(wire)) /\ wire[1] \in Printable
    BY <1>2, <1>8, <1>9, <1>12, <2>1, <2>4, AppendProperties DEF Echo
  <2> QED
    BY <1>2, <2>2, <2>3, <2>4
<1>13. Framed' /\ Orderly' /\ Hidden'
  BY <1>2, <1>6, <1>7, <1>11, <1>12, EditKeepsMeaning
<1>14. AsMeant'
  BY <1>2, <1>6, ReadKeepsMeant
<1> QED
  BY <1>13, <1>14 DEF ClientInv

(* A byte that is no character leaves the line alone.                      *)
LEMMA SilentKeeps ==
  ASSUME ClientInv, LineInv',
         at \in {"byte", "iac", "option"}, wire # <<>>, wire' = Tail(wire),
         Head(wire) \in Controls \ {BS},
         UNCHANGED <<editor, client, rounds, inStep>>,
         \/ at' = "byte"
         \/ at' = "afterCR" /\ Head(wire) = CR
         \/ at' = "escape" /\ Head(wire) = ESC
         \/ at' = "iac" /\ Head(wire) = IAC
         \/ at' = "option" /\ at = "iac" /\ Head(wire) = DO
  PROVE  ClientInv'
<1>1. line \in Seq(Printable)
  BY DEF ClientInv, LineInv, Typed
<1>2. After(line, Head(wire)) = line
  BY <1>1, AfterFacts
<1> QED
  BY <1>2, ReadKeeps DEF editor

LEMMA EscapeKeeps ==
  ASSUME ClientInv, LineInv', EscapeReads
  PROVE  ClientInv'
<1>1. PICK n \in 0..2 : /\ n <= Len(wire)
                        /\ Navigate(SubSeq(wire, 1, n))
                        /\ wire' = SubSeq(wire, n + 1, Len(wire))
  BY DEF EscapeReads
<1>2. /\ at = "escape" /\ at' = "byte"
      /\ UNCHANGED <<prompt, history, client, rounds, inStep>>
  BY DEF EscapeReads
<1>3. Typed /\ line \in Seq(Printable)
  BY DEF ClientInv, LineInv, Typed
<1>4. Drops(n)
  BY <1>1, <1>3, SubSeqDrops
<1>5. /\ inStep => shown' \in Seq(Plain)
      /\ inStep /\ prompt # "password" => line' \in Seq(Plain)
  <2>1. CASE UNCHANGED <<index, line, shown>>
    BY <2>1 DEF ClientInv, Hidden
  <2>2. ASSUME NEW i \in 0..Len(history), Recall(i, line), inStep
        PROVE  shown' \in Seq(Plain) /\ line' \in Seq(Plain)
    <3>1. shown \in Seq(Plain) /\ history \in Seq(Lines(Plain))
      BY <2>2 DEF ClientInv, Hidden
    <3> QED
      BY <1>3, <2>2, <3>1, RecallFacts DEF Lines
  <2> QED
    BY <1>1, <1>3, <2>1, <2>2, NavigateFacts
<1>6. Framed' /\ Orderly' /\ Hidden'
  BY <1>2, <1>4, <1>5, EditKeepsMeaning
<1>7. AsMeant'
  <2>1. CASE inStep /\ meant # Unsure
    <3>1. Interrupted
      BY <1>2, <2>1 DEF ClientInv, AsMeant, Pending
    <3>2. Free(wire, {CR, LF}) /\ waiting /\ meant = <<>>
      BY <3>1 DEF Interrupted
    <3>3. Free(wire', {CR, LF})
      BY <1>3, <1>4, <3>2, DropsFree
    <3>4. Interrupted'
      BY <1>2, <3>2, <3>3 DEF Interrupted, client
    <3> QED
      BY <3>4 DEF AsMeant
  <2>2. CASE ~inStep \/ meant = Unsure
    BY <1>2, <2>2 DEF AsMeant, client
  <2> QED
    BY <2>1, <2>2
<1> QED
  BY <1>6, <1>7 DEF ClientInv

LEMMA IacKeeps ==
  ASSUME ClientInv, LineInv', IacReads
  PROVE  ClientInv'
<1>1. at = "iac" /\ wire # <<>> /\ wire' = Tail(wire) /\ UNCHANGED <<newline, inStep>>
  BY DEF IacReads
<1>2. Typed
  BY DEF ClientInv, LineInv
<1>3. Head(wire) \in {IP, DO}
  BY <1>1, <1>2, TailDrops DEF ClientInv, Framed
<1>4. CASE Head(wire) = IP /\ prompt # "login" /\ Return(<<>>, history)
  <2>1. Head(wire) \in Cuts
    BY <1>4 DEF Cuts
  <2> QED
    BY <1>1, <1>4, <2>1, CtrlCKeeps
<1>5. CASE Awaits("byte") \/ (Awaits("option") /\ Head(wire) = DO)
  <2>1. Head(wire) \in Controls \ {BS}
    BY <1>3 DEF Controls
  <2> QED
    BY <1>1, <1>5, <2>1, SilentKeeps DEF Awaits
<1> QED
  BY <1>4, <1>5 DEF IacReads

LEMMA ClientStep == ClientInv /\ [Next]_vars => ClientInv'
<1> SUFFICES ASSUME ClientInv, [Next]_vars
             PROVE  ClientInv'
  OBVIOUS
<1>0. Typed /\ LineInv'
  BY LineStep DEF ClientInv, LineInv
<1>1. CASE TypeKey \/ PressEnter
  BY <1>1, ClientKeeps
<1>2. CASE TooLong
  <2>1. Ends(<<>>, history)
    BY <1>0, <1>2, CutsShort DEF TooLong
  <2> QED
    BY <1>0, <1>2, <2>1, EndStep DEF TooLong
<1>3. CASE ReadCtrlC
  <2>1. Head(wire) \in Cuts
    BY <1>3 DEF ReadCtrlC, Reads, Cuts
  <2> QED
    BY <1>0, <1>3, <2>1, CtrlCKeeps DEF ReadCtrlC, Reads
<1>4. CASE ReadLF
  BY <1>0, <1>4, EnterKeeps DEF ReadLF, Reads
<1>5. CASE AfterCR
  BY <1>0, <1>5, EnterKeeps DEF AfterCR
<1>6. CASE AfterCRTimesOut
  BY <1>0, <1>6, EnterKeeps DEF AfterCRTimesOut
<1>7. CASE Authenticated \/ CommandDone
  <2>1. /\ Ends(<<>>, history) /\ (Fresh(history) \/ Quit(history))
        /\ UNCHANGED <<wire, inStep>>
    BY <1>0, <1>7, AnswerFacts
  <2>2. ~Takes(<<>>, history)
    BY <2>1 DEF Fresh, Quit, Takes
  <2>3. inStep => Rest(wire, {NUL})
    BY <1>7 DEF Authenticated, CommandDone, ClientInv, Orderly
  <2> QED
    BY <1>0, <2>1, <2>2, <2>3, EndStep
<1>8. CASE ReadPrefix
  <2>1. Head(wire) \in Controls \ {BS}
    BY <1>8 DEF ReadPrefix, Reads, Controls
  <2> QED
    BY <1>0, <1>8, <2>1, SilentKeeps DEF ReadPrefix, Reads, Awaits
<1>9. CASE ReadUnprintable
  <2>1. Head(wire) \in Controls \ {BS}
    BY <1>9 DEF ReadUnprintable, Reads, Controls
  <2> QED
    BY <1>0, <1>9, <2>1, SilentKeeps DEF ReadUnprintable, Reads
<1>10. CASE OptionReads
  <2>1. at = "option" /\ wire # <<>> /\ wire' = Tail(wire)
    BY <1>10 DEF OptionReads
  <2>2. Head(wire) = NUL
    BY <1>0, <2>1, TailDrops DEF ClientInv, Framed
  <2>3. Head(wire) \in Controls \ {BS}
    BY <2>2 DEF Controls
  <2> QED
    BY <1>0, <1>10, <2>1, <2>3, SilentKeeps DEF OptionReads, Awaits
<1>11. CASE IacReads
  BY <1>0, <1>11, IacKeeps
<1>12. CASE EscapeReads
  BY <1>0, <1>12, EscapeKeeps
<1>13. CASE ReadChar
  <2>1. After(line, Head(wire)) = Append(line, Head(wire)) /\ Head(wire) \in Printable
    BY <1>0, <1>13, AfterFacts DEF ReadChar, Reads, Typed
  <2> QED
    BY <1>0, <1>13, <2>1, ReadKeeps DEF ReadChar, Reads
<1>14. CASE ReadBackspace
  <2>1. Head(wire) = BS
    BY <1>14 DEF ReadBackspace, Reads
  <2>2. After(line, Head(wire)) = IF line = <<>> THEN line ELSE Front(line)
    BY <1>0, <2>1, AfterFacts DEF Typed
  <2>3. line' = After(line, Head(wire))
    BY <1>14, <2>2 DEF ReadBackspace
  <2> QED
    BY <1>0, <1>14, <2>3, ReadKeeps DEF ReadBackspace, Reads
<1>15. CASE UNCHANGED vars
  BY <1>0, <1>15
  DEF vars, client, editor, ClientInv, Framed, Orderly, Hidden, AsMeant, EndsLast, Cuts,
      Pending, Interrupted
<1> QED
  BY <1>1, <1>2, <1>3, <1>4, <1>5, <1>6, <1>7, <1>8, <1>9, <1>10, <1>11, <1>12, <1>13, <1>14,
     <1>15
  DEF Next

LEMMA ClientInit == Init => ClientInv
<1> SUFFICES ASSUME Init
             PROVE  ClientInv
  OBVIOUS
<1>1. at = "byte" /\ prompt = "login"
  BY DEF Init
<1>2. wire = <<>> /\ meant = <<>> /\ line = <<>> /\ shown = <<>> /\ history = <<>>
  BY DEF Init
<1>3. /\ shown \in Seq(Plain) /\ line \in Seq(Plain) /\ history \in Seq(Lines(Plain))
      /\ line \in Seq(Printable)
  BY <1>2, EmptyLine, Zenon
<1>4. Len(wire) = 0
  BY <1>2
<1>5. Framed /\ Orderly
  BY <1>1, <1>4 DEF Framed, Whole, Orderly, EndsLast
<1>6. Hidden
  BY <1>3, <1>4 DEF Hidden, Free
<1>7. Leads(line, wire, line)
  BY <1>3, <1>4, LeadsStill
<1>8. meant = line
  BY <1>2
<1>9. Pending
  BY <1>1, <1>4, <1>7, <1>8 DEF Pending, Free
<1> QED
  BY <1>5, <1>6, <1>9, LineInit DEF ClientInv, AsMeant

LEMMA ClientInvariant == Spec => []ClientInv
<1>1. ClientInv /\ [Next]_vars => ClientInv'
  BY ClientStep
<1> QED
  BY ClientInit, <1>1, PTL DEF Spec

(* Nothing a client in step types at the password prompt is shown on the   *)
(* terminal, and nothing of it gets into the history, from where the arrow *)
(* keys would put it into a name or a command                              *)
(* (telnet_session.py:182, 348).                                           *)
THEOREM SecretsStayUnseen == Spec => []SecretsStayHidden
<1>1. ClientInv => SecretsStayHidden
  <2> SUFFICES ASSUME ClientInv, inStep, NEW l \in {shown} \cup Range(history)
               PROVE  Secrets \cap Range(l) = {}
    BY DEF SecretsStayHidden
  <2>1. shown \in Seq(Plain) /\ history \in Seq(Lines(Plain))
    BY DEF ClientInv, Hidden
  <2>2. l \in Seq(Plain)
    <3>1. CASE l = shown
      BY <2>1, <3>1
    <3>2. CASE \E i \in DOMAIN history : l = history[i]
      <4>1. PICK i \in DOMAIN history : l = history[i]
        BY <3>2
      <4>2. i \in 1..Len(history)
        BY <2>1, <4>1, LenProperties
      <4>3. history[i] \in Lines(Plain)
        BY <2>1, <4>2, ElementOfSeq
      <4> QED
        BY <4>1, <4>3 DEF Lines
    <3> QED
      BY <3>1, <3>2 DEF Range
  <2>3. \A i \in DOMAIN l : l[i] \in Plain
    BY <2>2, LenProperties
  <2> QED
    BY <2>3, PlainFacts DEF Range
<1> QED
  BY ClientInvariant, <1>1, PTL

(* The line a client in step typed at a prompt, backspaces included, is    *)
(* the one that is tried as a password or run as a command, whatever it    *)
(* sends for Enter and however its bytes arrive; and no line used is       *)
(* longer than the limit (telnet_session.py:126, 334-341).                 *)
THEOREM LinesAreMeant == Spec => []LineAsTyped
<1>1. ClientInv => LineAsTyped
  <2> SUFFICES ASSUME ClientInv, at \in {"auth", "command"}
               PROVE  (inStep /\ meant # Unsure => line = meant) /\ Len(line) <= MaxLength
    BY DEF LineAsTyped
  <2>1. Len(line) <= MaxLength
    BY DEF ClientInv, LineInv, Typed
  <2>2. inStep /\ meant # Unsure => line = meant
    BY DEF ClientInv, AsMeant, Pending, Interrupted
  <2> QED
    BY <2>1, <2>2
<1> QED
  BY ClientInvariant, <1>1, PTL
=============================================================================
