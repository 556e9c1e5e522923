---------------------------- MODULE TelnetLine ----------------------------
(***************************************************************************)
(* The line editor of a Telnet session (app/telnet/telnet_session.py):     *)
(* _read_line and its helpers turn the bytes of the client into lines, for *)
(* the login rounds and the shell, while the server does the echo.         *)
(*                                                                         *)
(* wire holds the bytes the client has sent and the session has not read.  *)
(* A byte may take any time to arrive: a read with a timeout may time out  *)
(* whatever is on the wire, and read(2) may return one byte of two.  The   *)
(* client here is any client; inStep tells one that waits for each prompt. *)
(* A character is a byte.  The three letters an arrow key sends, ESC [ A,  *)
(* are of their own, for the last two are characters when they come late.  *)
(***************************************************************************)
EXTENDS Integers, SequencesExt

CONSTANTS
    Letters,       \* characters of names and commands, the space among them
    Secrets,       \* characters of passwords
    Newlines,      \* what a client may send for Enter
    MaxLength,     \* MAX_COMMAND_LENGTH
    HistoryLimit,  \* HISTORY_LIMIT
    BruteMax,      \* BRUTE_MAX
    MaxAhead       \* bound on the bytes unread when the client sends more

CR == "CR"  LF == "LF"  NUL == "NUL"  BS == "BS"  ETX == "ETX"
ESC == "ESC"  IAC == "IAC"  IP == "IP"  DO == "DO"
Space == " "

Up   == <<ESC, "[", "A">>
Down == <<ESC, "[", "B">>

(* What str.isprintable accepts; NUL stands for every byte it does not, or *)
(* that is no UTF-8 of its own, and for an option of Telnet.               *)
Printable == Letters \cup Secrets \cup {"[", "A", "B"}

(* What the session does something else with than read it as a character.  *)
Controls == {CR, LF, NUL, BS, ETX, ESC, IAC, IP, DO}

ASSUME ConstantsAssumption ==
    /\ Letters \cap Secrets = {}
    /\ Secrets \cap {"[", "A", "B", Space} = {}
    /\ Printable \cap Controls = {}
    /\ Newlines \subseteq {<<LF>>, <<CR>>, <<CR, LF>>, <<CR, NUL>>}
    /\ MaxLength \in Nat /\ BruteMax \in Nat /\ MaxAhead \in Nat
    /\ HistoryLimit \in Nat \ {0}

VARIABLES
    newline,  \* what this client sends for Enter
    wire,     \* bytes sent and not read
    seen,     \* the last prompt the client has seen
    waiting,  \* it has sent a line since then
    meant,    \* history: the line it means to send, as far as it can tell
    at,       \* what the session awaits
    prompt,   \* the prompt of the line being read
    line,     \* line_buffer, or the line returned
    index,    \* _history_index
    history,  \* _history
    shown,    \* what the terminal shows after the prompt, its end at least
    rounds,   \* rounds of _handle_login that are over
    inStep    \* history: lines and prompts have kept in step

client == <<newline, seen, waiting, meant>>
editor == <<prompt, line, index, history, shown>>
vars == <<client, wire, at, editor, rounds, inStep>>

Prompts == {"login", "password", "shell"}

Unsure == <<ESC>>

TypeOK ==
    /\ newline \in Newlines
    /\ Len(wire) <= MaxAhead + 3
    /\ seen \in Prompts /\ prompt \in Prompts
    /\ meant \in Seq(Printable) \cup {Unsure}
    /\ waiting \in BOOLEAN /\ inStep \in BOOLEAN
    /\ at \in {"byte", "afterCR", "escape", "iac", "option", "auth", "command", "over"}
    /\ line \in Seq(Printable) /\ Len(line) <= MaxLength + 1
    /\ Len(history) <= HistoryLimit
    /\ index \in 0..Len(history)
    /\ shown \in Seq(Printable) /\ Len(shown) <= MaxLength + 1
    /\ rounds \in 0..BruteMax

Init ==
    /\ newline \in Newlines
    /\ wire = <<>>
    /\ seen = "login" /\ waiting = FALSE /\ meant = <<>>
    /\ at = "byte" /\ prompt = "login"
    /\ line = <<>> /\ index = 0 /\ history = <<>> /\ shown = <<>>
    /\ rounds = 0
    /\ inStep = TRUE
----------------------------------------------------------------------------
Blank(l) == \A i \in DOMAIN l : l[i] = Space

(* str.strip                                                               *)
Strip(l) ==
    LET inked == {i \in DOMAIN l : l[i] # Space}
    IN  IF inked = {} THEN <<>> ELSE SubSeq(l, Min(inked), Max(inked))

(* At the password prompt recalled lines are shown and backspaces are not, *)
(* so that the terminal may fill up: its end is kept.                      *)
Visible(l) == SubSeq(l, Max({1, Len(l) - MaxLength}), Len(l))

Echo == prompt # "password"

(* The next call of _read_line, behind prompt p.                           *)
Prompt(p, past) ==
    /\ prompt' = p /\ seen' = p /\ waiting' = FALSE /\ meant' = <<>>
    /\ at' = "byte"
    /\ line' = <<>> /\ shown' = <<>>
    /\ history' = past /\ index' = Len(past)

(* A login round is over without a grant.                                  *)
NextRound(past) ==
    /\ rounds' = rounds + 1
    /\ \/ rounds + 1 < BruteMax /\ Prompt("login", past)
       \/ /\ rounds + 1 = BruteMax /\ at' = "over" /\ history' = past
          /\ UNCHANGED <<seen, waiting, meant, prompt, line, index, shown>>

(* _read_line returns l, with past as the history, and its caller goes on  *)
(* to its next await.                                                      *)
Return(l, past) ==
    \/ prompt = "login" /\ Blank(l) /\ NextRound(past)
    \/ prompt = "login" /\ ~Blank(l) /\ Prompt("password", past) /\ UNCHANGED rounds
    \/ prompt = "shell" /\ Blank(l) /\ Prompt("shell", past) /\ UNCHANGED rounds
    \/ /\ prompt # "login"
       /\ prompt = "shell" => ~Blank(l)
       /\ at' = IF prompt = "password" THEN "auth" ELSE "command"
       /\ line' = l /\ history' = past
       /\ UNCHANGED <<seen, waiting, meant, prompt, index, shown, rounds>>
----------------------------------------------------------------------------
(* The client sends some bytes in one go.                                  *)
Send(bytes) ==
    /\ at # "over"
    /\ Len(wire) <= MaxAhead
    /\ wire' = wire \o bytes
    /\ UNCHANGED <<at, editor, rounds, newline, seen>>

(* It types the secret at the password prompt, and falls out of step when  *)
(* it types ahead.  What arrow keys and ESC make of a line it cannot tell. *)
TypeKey ==
    /\ \/ \E c \in IF seen = "password" THEN Secrets ELSE Letters :
            /\ Send(<<c>>)
            /\ meant' = IF meant = Unsure THEN Unsure ELSE Append(meant, c)
       \/ /\ Send(<<BS>>)
          /\ meant' = IF meant \in {Unsure, <<>>} THEN meant ELSE Front(meant)
       \/ \E key \in {<<ESC>>, Up, Down} : Send(key) /\ meant' = Unsure
       \/ Send(<<IAC, DO, NUL>>) /\ UNCHANGED meant
    /\ inStep' = (inStep /\ ~waiting)
    /\ UNCHANGED waiting

(* Enter, or Ctrl-C as a byte or as IAC IP.  The login prompt does not     *)
(* answer an IP, and the client does not wait for it.                      *)
PressEnter ==
    /\ \/ Send(newline) /\ waiting' = TRUE /\ UNCHANGED meant
       \/ Send(<<ETX>>) /\ waiting' = TRUE /\ meant' = <<>>
       \/ Send(<<IAC, IP>>) /\ seen # "login" /\ waiting' = TRUE /\ meant' = <<>>
       \/ Send(<<IAC, IP>>) /\ seen = "login" /\ UNCHANGED <<waiting, meant>>
    /\ inStep' = (inStep /\ ~waiting)
----------------------------------------------------------------------------
(* _read_line takes a byte of B off the wire.                              *)
Reads(B) ==
    /\ at = "byte"
    /\ Len(line) <= MaxLength
    /\ wire # <<>> /\ Head(wire) \in B
    /\ wire' = Tail(wire)

Awaits(place) == at' = place /\ UNCHANGED <<editor, client, rounds>>

(* The top of the loop: what the client has sent of the line by now, and   *)
(* sends of it later, is read as the next line.                            *)
TooLong ==
    /\ at = "byte"
    /\ Len(line) > MaxLength
    /\ Return(<<>>, history)
    /\ inStep' = FALSE
    /\ UNCHANGED <<wire, newline>>

ReadCtrlC ==
    /\ Reads({ETX})
    /\ Return(<<>>, history)
    /\ UNCHANGED <<newline, inStep>>

ReadPrefix ==
    /\ \/ Reads({ESC}) /\ Awaits("escape")
       \/ Reads({IAC}) /\ Awaits("iac")
       \/ Reads({CR}) /\ Awaits("afterCR")
    /\ UNCHANGED inStep

ReadBackspace ==
    /\ Reads({BS})
    /\ IF line = <<>> THEN UNCHANGED line ELSE line' = Front(line)
    /\ shown' = IF line # <<>> /\ Echo /\ shown # <<>> THEN Front(shown) ELSE shown
    /\ UNCHANGED <<at, prompt, index, history, client, rounds, inStep>>

(* A slip in _handle_printable_char: echo ignored.                         *)
ReadCharAlwaysEchoes ==
    /\ Reads(Printable)
    /\ line' = Append(line, Head(wire))
    /\ shown' = Visible(Append(shown, Head(wire)))
    /\ UNCHANGED <<at, prompt, index, history, client, rounds, inStep>>

ReadChar ==
    /\ Reads(Printable)
    /\ line' = Append(line, Head(wire))
    /\ shown' = IF Echo THEN Append(shown, Head(wire)) ELSE shown
    /\ UNCHANGED <<at, prompt, index, history, client, rounds, inStep>>

ReadUnprintable ==
    /\ Reads({NUL, IP, DO})
    /\ UNCHANGED <<at, editor, client, rounds, inStep>>
----------------------------------------------------------------------------
(* A slip in _handle_enter: the line is compared with the oldest one.      *)
RememberedUnlessOldest(l) ==
    LET clean == Strip(l)
        all == Append(history, clean)
    IN  IF ~Echo \/ clean = <<>> \/ (history # <<>> /\ Head(history) = clean)
        THEN history
        ELSE IF Len(all) > HistoryLimit THEN Tail(all) ELSE all

(* The history once Enter is pressed on line l.                            *)
Remembered(l) ==
    LET clean == Strip(l)
        all == Append(history, clean)
    IN  IF ~Echo \/ clean = <<>> \/ (history # <<>> /\ Last(history) = clean)
        THEN history
        ELSE IF Len(all) > HistoryLimit THEN Tail(all) ELSE all

ReadLF ==
    /\ Reads({LF})
    /\ Return(line, Remembered(line))
    /\ UNCHANGED <<newline, inStep>>

(* A slip in _handle_enter: the byte after CR left on the wire.            *)
AfterCRLeaves ==
    /\ at = "afterCR"
    /\ wire # <<>>
    /\ Return(line, Remembered(line))
    /\ UNCHANGED <<wire, newline, inStep>>

(* The byte after CR is dropped, whatever it is.                           *)
AfterCR ==
    /\ at = "afterCR"
    /\ wire # <<>>
    /\ wire' = Tail(wire)
    /\ Return(line, Remembered(line))
    /\ UNCHANGED <<newline, inStep>>

(* It is not there after 10 ms.  A LF that comes later ends a line of its  *)
(* own.                                                                    *)
AfterCRTimesOut ==
    /\ at = "afterCR"
    /\ Return(line, Remembered(line))
    /\ inStep' = (inStep /\ (wire = <<>> \/ Head(wire) # LF))
    /\ UNCHANGED <<wire, newline>>
----------------------------------------------------------------------------
(* The line under the history index becomes the line, here and on the      *)
(* terminal, where as many characters are erased as erased has.            *)
Recall(i, erased) ==
    LET new  == IF i < Len(history) THEN history[i + 1] ELSE <<>>
        left == SubSeq(shown, 1, Len(shown) - Len(erased))
    IN  /\ index' = i
        /\ line' = new
        /\ shown' = Visible(left \o new)

(* A slip in _handle_history_navigation: as many as the new line has.      *)
NavigateErasesNew(seq) ==
    LET Under(i) == IF i < Len(history) THEN history[i + 1] ELSE <<>>
    IN  \/ seq = Tail(Up) /\ index > 0 /\ Recall(index - 1, Under(index - 1))
        \/ seq = Tail(Down) /\ index < Len(history) /\ Recall(index + 1, Under(index + 1))
        \/ /\ seq = Tail(Up) => index = 0
           /\ seq = Tail(Down) => index = Len(history)
           /\ UNCHANGED <<index, line, shown>>

Navigate(seq) ==
    \/ seq = Tail(Up) /\ index > 0 /\ Recall(index - 1, line)
    \/ seq = Tail(Down) /\ index < Len(history) /\ Recall(index + 1, line)
    \/ /\ seq = Tail(Up) => index = 0
       /\ seq = Tail(Down) => index = Len(history)
       /\ UNCHANGED <<index, line, shown>>

(* read(2) returns what has arrived, or nothing within 0.1 s.  A sequence  *)
(* that is no arrow is dropped, a newline in it too.                       *)
EscapeReads ==
    /\ at = "escape"
    /\ \E n \in 0..2 :
        /\ n <= Len(wire)
        /\ Navigate(SubSeq(wire, 1, n))
        /\ wire' = SubSeq(wire, n + 1, Len(wire))
    /\ at' = "byte"
    /\ UNCHANGED <<prompt, history, client, rounds, inStep>>

(* IAC IP returns a blank line; at the login prompt there is no shell yet, *)
(* the exception is swallowed and the reading goes on.  Of an option a     *)
(* second byte is read.                                                    *)
IacReads ==
    /\ at = "iac"
    /\ wire # <<>>
    /\ wire' = Tail(wire)
    /\ \/ Head(wire) = IP /\ prompt # "login" /\ Return(<<>>, history)
       \/ Head(wire) = DO /\ Awaits("option")
       \/ /\ Head(wire) # DO /\ (Head(wire) = IP => prompt = "login")
          /\ Awaits("byte")
    /\ UNCHANGED <<newline, inStep>>

OptionReads ==
    /\ at = "option"
    /\ wire # <<>>
    /\ wire' = Tail(wire)
    /\ Awaits("byte")
    /\ UNCHANGED inStep
----------------------------------------------------------------------------
(* authenticate returns: the address is granted, or the round is over.     *)
Authenticated ==
    /\ at = "auth"
    /\ \/ Prompt("shell", history) /\ UNCHANGED rounds
       \/ NextRound(history)
    /\ UNCHANGED <<wire, newline, inStep>>

(* _handle_command returns, or ends the session.                           *)
CommandDone ==
    /\ at = "command"
    /\ \/ Prompt("shell", history)
       \/ at' = "over" /\ UNCHANGED <<editor, seen, waiting, meant>>
    /\ UNCHANGED <<wire, newline, rounds, inStep>>

Next ==
    \/ TypeKey \/ PressEnter
    \/ TooLong \/ ReadCtrlC \/ ReadPrefix \/ ReadBackspace \/ ReadChar \/ ReadUnprintable
    \/ ReadLF \/ AfterCR \/ AfterCRTimesOut
    \/ EscapeReads \/ IacReads \/ OptionReads
    \/ Authenticated \/ CommandDone

Spec == Init /\ [][Next]_vars
----------------------------------------------------------------------------
(* While a line is read with echo, the terminal shows what Enter will      *)
(* return: through backspaces at its ends, recalled lines of other         *)
(* lengths, and sequences that come in pieces                              *)
(* (telnet_session.py:291-321).                                            *)
ScreenShowsLine == at \in {"byte", "escape", "iac", "option"} /\ Echo => shown = line

(* The line a client in step typed at a prompt, edited with backspaces, is *)
(* the one that is tried as a password or run and logged as a command,     *)
(* whatever it sends for Enter and however its bytes arrive: nothing of a  *)
(* newline is left over for the next line (telnet_session.py:334-341).     *)
(* Out of step too, none longer than the limit gets there, recalled ones   *)
(* included (telnet_session.py:126).                                       *)
LineAsTyped ==
    at \in {"auth", "command"} =>
        /\ inStep /\ meant # Unsure => line = meant
        /\ Len(line) <= MaxLength

(* Nothing such a client types at the password prompt is shown, or is      *)
(* remembered as a name or a command, which are logged as they are         *)
(* (telnet_session.py:182, :348).  A LF that arrives late, or a password   *)
(* that is too long, can break it: inStep rules them out.                  *)
SecretsStayHidden ==
    inStep => \A l \in {shown} \cup Range(history) : Secrets \cap Range(l) = {}

(* The history is what the arrow keys walk through: no blank line, no line *)
(* twice in a row, and a command being run is its last one, also when a    *)
(* full history drops its oldest line (telnet_session.py:348-352).         *)
HistoryWellFormed ==
    /\ \A i \in DOMAIN history : ~Blank(history[i])
    /\ \A i \in 1..(Len(history) - 1) : history[i] # history[i + 1]
    /\ at = "command" => history # <<>> /\ Last(history) = Strip(line)

(* The history stays within HISTORY_LIMIT with the index on one of its     *)
(* entries or behind the last, and is well formed                          *)
(* (telnet_session.py:303-314, 348-352).                                   *)
HistoryInv == TypeOK /\ HistoryWellFormed
=============================================================================
