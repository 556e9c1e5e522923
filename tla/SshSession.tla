----------------------------- MODULE SshSession -----------------------------
(***************************************************************************)
(* The shell session of an SSH client (app/ssh/ssh_session.py) once        *)
(* shell_requested has made its FakeShell: text arrives in pieces of any   *)
(* size in data_received, tasks of _process_buffer take the lines out of   *)
(* the buffer one task at a time, and every command is logged, which takes *)
(* a while, before the shell runs it.                                      *)
(*                                                                         *)
(* The client's text is the lines 1, 2, ... each ended by NL; a piece can  *)
(* end anywhere, so also between a line and its NL.                        *)
(***************************************************************************)
EXTENDS Integers, Sequences, FiniteSets, SequencesExt

CONSTANTS
    NumLines,     \* lines the client types
    Kinds,        \* what a line can be, of "command", "exit", "blank"
    NL,           \* the newline
    MaxCommands,  \* MAX_COMMANDS_PER_SESSION
    MaxFaults     \* bound on the calls of log_event that raise

ASSUME ConstantsAssumption ==
    /\ NumLines \in Nat /\ MaxCommands \in Nat /\ MaxFaults \in Nat
    /\ Kinds \subseteq {"command", "exit", "blank"}
    /\ NL \notin Nat

Lines == 1..NumLines

(* The client's text.                                                      *)
Text == [i \in 1..(2 * NumLines) |-> IF i % 2 = 1 THEN (i + 1) \div 2 ELSE NL]

VARIABLES
    kind,      \* what each line is
    patient,   \* the client sends a line only when the one before is dealt with
    sent,      \* how much of the text data_received has got
    buffer,    \* _buffer
    pending,   \* tasks of _process_buffer that have not got _process_lock
    work,      \* lines left to the task that has it
    logging,   \* that task awaits log_event for the first of them
    count,     \* _cmd_count
    conn,      \* the connection: "open", "closing", "closed"
    chan,      \* _chan is not None
    handled,   \* history: the lines _handle_line has dealt with
    executed,  \* history: the commands logged and run by the shell
    lost,      \* history: the lines of the tasks that log_event ended by raising
    faults

client == <<kind, patient>>
history == <<handled, executed, lost>>
vars == <<client, sent, buffer, pending, work, logging, count, conn, chan,
          history, faults>>

TypeOK ==
    /\ kind \in [Lines -> Kinds] /\ patient \in BOOLEAN
    /\ sent \in 0..(2 * NumLines)
    /\ buffer \in Seq(Lines \cup {NL})
    /\ pending \in Nat
    /\ work \in Seq(Lines)
    /\ logging \in BOOLEAN /\ (logging => work # <<>>)
    /\ count \in 0..MaxCommands
    /\ conn \in {"open", "closing", "closed"}
    /\ chan \in BOOLEAN
    /\ handled \in Seq(Lines) /\ executed \in Seq(Lines) /\ lost \in Seq(Lines)
    /\ faults \in 0..MaxFaults

Init ==
    /\ kind \in [Lines -> Kinds] /\ patient \in BOOLEAN
    /\ sent = 0 /\ buffer = <<>> /\ pending = 0 /\ work = <<>> /\ logging = FALSE
    /\ count = 0 /\ conn = "open" /\ chan = TRUE
    /\ handled = <<>> /\ executed = <<>> /\ lost = <<>> /\ faults = 0
----------------------------------------------------------------------------
(* The lines among the tokens of a text, in their order.                   *)
LinesOf(tokens) ==
    LET got[n \in 0..Len(tokens)] ==
            IF n = 0 THEN <<>>
            ELSE IF tokens[n] = NL THEN got[n - 1]
            ELSE Append(got[n - 1], tokens[n])
    IN  got[Len(tokens)]

(* buffer.split("\n"): the lines before the last newline, and the rest.    *)
LastNL == CHOOSE i \in DOMAIN buffer :
              buffer[i] = NL /\ \A j \in DOMAIN buffer : buffer[j] = NL => j <= i

WholeLines == LinesOf(SubSeq(buffer, 1, LastNL))

Rest == SubSeq(buffer, LastNL + 1, Len(buffer))

(* Nothing the client has sent is waiting to be dealt with.                *)
Settled == pending = 0 /\ work = <<>>

(* A slip in data_received: no new task while another is at work.          *)
DataReceivedOneTask(n) ==
    /\ conn = "open"
    /\ n \in 1..(2 * NumLines - sent)
    /\ patient => Settled /\ (sent % 2 = 1 \/ n <= 2) /\ (sent % 2 = 0 \/ n <= 1)
    /\ sent' = sent + n
    /\ buffer' = buffer \o SubSeq(Text, sent + 1, sent + n)
    /\ pending' = IF Contains(buffer', NL) /\ Settled THEN pending + 1 ELSE pending
    /\ UNCHANGED <<client, work, logging, count, conn, chan, history, faults>>

(* data_received: the next n tokens of the text.                           *)
DataReceived(n) ==
    /\ conn = "open"
    /\ n \in 1..(2 * NumLines - sent)
    /\ patient => Settled /\ (sent % 2 = 1 \/ n <= 2) /\ (sent % 2 = 0 \/ n <= 1)
    /\ sent' = sent + n
    /\ buffer' = buffer \o SubSeq(Text, sent + 1, sent + n)
    /\ pending' = IF Contains(buffer', NL) THEN pending + 1 ELSE pending
    /\ UNCHANGED <<client, work, logging, count, conn, chan, history, faults>>

(* A slip in _process_buffer: the unfinished line is dropped.              *)
TakeLinesDropsRest ==
    /\ pending > 0
    /\ work = <<>>
    /\ pending' = pending - 1
    /\ IF Contains(buffer, NL)
       THEN work' = WholeLines /\ buffer' = <<>>
       ELSE UNCHANGED <<work, buffer>>
    /\ UNCHANGED <<client, sent, logging, count, conn, chan, history, faults>>

(* A task of _process_buffer gets the lock, and takes every whole line     *)
(* there is; it may find that an earlier task took its own.                *)
TakeLines ==
    /\ pending > 0
    /\ work = <<>>
    /\ pending' = pending - 1
    /\ IF Contains(buffer, NL)
       THEN work' = WholeLines /\ buffer' = Rest
       ELSE UNCHANGED <<work, buffer>>
    /\ UNCHANGED <<client, sent, logging, count, conn, chan, history, faults>>

(* The first line of the task is dealt with.                               *)
LineDone ==
    /\ handled' = Append(handled, Head(work))
    /\ work' = Tail(work)

(* A slip in the end of a session: the connection is left open.            *)
EndSessionKeepsOpen ==
    /\ conn' = conn
    /\ chan' = FALSE
    /\ count' = 0

(* The session ends, but not the task: conn.close(), and the count starts  *)
(* again for the lines left.                                               *)
EndSession ==
    /\ conn' = IF conn = "open" THEN "closing" ELSE conn
    /\ chan' = FALSE
    /\ count' = 0

BlankLine ==
    /\ work # <<>> /\ ~logging
    /\ kind[Head(work)] = "blank"
    /\ LineDone
    /\ UNCHANGED <<client, sent, buffer, pending, logging, count, conn, chan, executed, lost, faults>>

(* The test of _handle_line, with the count already incremented; the slip  *)
(* is to compare before.                                                   *)
OverLimitLate == count > MaxCommands

OverLimit == count + 1 > MaxCommands

OverLimitLine ==
    /\ work # <<>> /\ ~logging
    /\ kind[Head(work)] # "blank"
    /\ OverLimit
    /\ EndSession
    /\ LineDone
    /\ UNCHANGED <<client, sent, buffer, pending, logging, executed, lost, faults>>

(* A command within the limit: log_event is awaited.                       *)
LogCommand ==
    /\ work # <<>> /\ ~logging
    /\ kind[Head(work)] # "blank"
    /\ ~OverLimit
    /\ count' = count + 1
    /\ logging' = TRUE
    /\ UNCHANGED <<client, sent, buffer, pending, work, conn, chan, history, faults>>

(* log_event returns: the shell runs the command.                          *)
RunCommand ==
    /\ logging
    /\ logging' = FALSE
    /\ executed' = Append(executed, Head(work))
    /\ LineDone
    /\ IF kind[Head(work)] = "exit" THEN EndSession ELSE UNCHANGED <<conn, chan, count>>
    /\ UNCHANGED <<client, sent, buffer, pending, lost, faults>>

(* log_event raises: the task ends, with the lines it had left.            *)
LogRaises ==
    /\ logging
    /\ faults < MaxFaults
    /\ faults' = faults + 1
    /\ logging' = FALSE
    /\ lost' = lost \o work
    /\ work' = <<>>
    /\ UNCHANGED <<client, sent, buffer, pending, count, conn, chan, handled, executed>>

(* The idle watchdog closes the connection, or a peer leaves; the tasks    *)
(* are not cancelled.                                                      *)
CloseConnection ==
    /\ conn = "open"
    /\ conn' = "closing"
    /\ UNCHANGED <<client, sent, buffer, pending, work, logging, count, chan,
                   history, faults>>

ConnectionLost ==
    /\ conn # "closed"
    /\ conn' = "closed"
    /\ UNCHANGED <<client, sent, buffer, pending, work, logging, count, chan,
                   history, faults>>

TaskStep == TakeLines \/ BlankLine \/ OverLimitLine \/ LogCommand \/ RunCommand

Next ==
    \/ \E n \in 1..(2 * NumLines) : DataReceived(n)
    \/ TaskStep \/ LogRaises
    \/ CloseConnection \/ ConnectionLost

Spec == Init /\ [][Next]_vars

(* The loop runs the tasks and log_event returns.                          *)
FairSpec == Spec /\ WF_vars(TaskStep)
----------------------------------------------------------------------------
(* Every line received is dealt with once and in the order it was typed,   *)
(* or is in a task that log_event ended, or is still in a task or the      *)
(* buffer, unfinished one included: the pieces, the tasks that overlap and *)
(* the wait in log_event neither lose, repeat nor swap a line              *)
(* (ssh_session.py:47-78).                                                 *)
InOrder ==
    /\ faults = 0 =>
         handled \o work \o LinesOf(buffer) = LinesOf(SubSeq(Text, 1, sent))
    /\ \A i, j \in DOMAIN handled : i < j => handled[i] < handled[j]
    /\ ToSet(handled) \cap ToSet(lost) = {}

(* The task that awaits log_event has a line to log, and the lines keep    *)
(* their order (ssh_session.py:47-93).                                     *)
LinesInv == TypeOK /\ InOrder

(* Every line received whole is dealt with, or lost in a task that         *)
(* log_event ended, even when the connection closes first: no line waits   *)
(* in the buffer for a task that does not come (ssh_session.py:63-64, 72). *)
WholeLinesHandled ==
    \A l \in Lines : sent >= 2 * l ~> (l \in ToSet(handled) \cup ToSet(lost))

(* What README.md:91 says of HP_MAX_CMDS: a session runs at most that many *)
(* commands.                                                               *)
ExecutedWithinLimit == Len(executed) <= MaxCommands

(* It does for a client that waits for the answer to each line, even when  *)
(* log_event raises or the watchdog closes in between                      *)
(* (ssh_session.py:84-93).                                                 *)
PatientWithinLimit == patient => ExecutedWithinLimit

(* Nothing such a client sends runs once the session has said goodbye, at  *)
(* exit or at the limit (ssh_session.py:88-93, 120-126).                   *)
NothingAfterGoodbye == [][patient /\ ~chan => UNCHANGED executed]_vars
=============================================================================
