# TLA+ models of honey-pot

honey-pot is an SSH and Telnet honeypot: one Python process on one asyncio
loop. It lets clients in after a few login attempts, gives them a fake shell,
logs what they do in SQLite and keeps a summary per day. This directory has
TLA+ modules of its parts, TLC configurations that check them on small
instances, and TLAPS proofs about them for every instance.

Paths below are relative to the repository (`src/`). `PROJECT.json` lists, for
every definition, the lines it stands for.

## 1. The system

All code runs on one loop, so code between two awaits that suspend is atomic;
everything that can go wrong by interleaving goes wrong at an await.

| Component | State | Operations | Talks to |
|---|---|---|---|
| Event log (`app/db.py`) | one SQLite connection, one open transaction for all tasks, `_DB_LOCK` | `log_event`, `upsert_daily_summary`, `get_daily_summary`, `init_db`, `close_db` | creates a `register_event` task per event |
| Summary (`app/stats.py`) | `_counts`, `_total`, `_first_seen`, `_last_seen`, `_current_day`, `_dirty`, `_lock` | `load_today_stats`, `register_event` (with the rollover), `flush`, `run_background_saver` | `upsert_daily_summary` |
| Grants (`app/auth_manager.py`) | seven dictionaries by address | `register_attempt`, `is_granted`, `cleanup_old_data`, `check_aggressive_scan`, `should_log_scan` | one manager for each of the two servers |
| SSH admission (`app/ssh/ssh_server.py`) | `_CONN_SEMAPHORE`, `_all_connections`, flags of each connection | `connection_made`, `_acquire_semaphore`, `connection_lost`, `close_all_sessions` | asyncssh's callbacks |
| SSH authentication (same file) | `auth_activity_detected` | `validate_password`, `validate_public_key`, `_log_scan_event` | grants, event log |
| SSH session (`app/ssh/ssh_session.py`) | `_buffer`, `_process_lock`, `_cmd_count`, idle timer | `data_received`, `_process_buffer`, `_handle_line` | event log, fake shell |
| Telnet server and session (`app/telnet/`) | a semaphore, `sessions`, round, command count, idle timer, gauge | `_handle_connection`, `_handle_login`, `authenticate`, `_handle_command`, `run`, `stop` | grants, event log, fake shell |
| Telnet line editor (`telnet_session.py:120-166, 291-380`) | line buffer, history and its index | `_read_line` and its helpers | the session |
| Fake shell (`app/fake_shell.py`) | `fs`, `cwd`, `hist` | `handle_line` | the sessions |
| Text helpers (`app/utils.py`) | none | sanitising, classification | everyone |
| Start and shutdown (`main.py`, `app/startup.py`) | the servers and the saver task | `main`, `start_*` | everyone |

What is hard in this code, with the line where it bites, is the list `hazards`
in `PROJECT.json`. In short: the await inside the flush of the summary, the
task between the row of an event and its tally, failures of single statements
in a transaction shared by all tasks, restarts, tests that are overtaken before
they are acted on (the SSH limit, `is_granted`), pieces of input handled by
overlapping tasks, bytes of one key or one newline that arrive apart, attempts
cut between the event of the attempt and that of the grant, a cleanup that runs
between any two attempts, an exception inside a `finally`, and a shutdown that
closes the database while tasks still log.

What makes each part correct, as far as the code goes (section 3 says where it
stops short):

- log and summary: a tally that counts as saved is saved; nothing is counted
  twice or without a row; days are complete, and every committed event is stored
  in the end, unless the flush at a rollover failed; restarts lose at most what
  was not flushed, unless the load failed;
- grants: the records of an address live and die together, a client that
  persists gets its grant, the scan window and the rate limit are exact;
- admission: permits are neither lost nor returned twice, and come back;
- sessions: every line is handled once, in order; commands are limited; nothing
  runs after the goodbye; silent clients do not hold a session forever; the
  gauge counts the sessions that run, and those an exception took out of their
  `finally`;
- authentication: a shell has its grant in the log before it, spraying shows in
  the classes logged, every connection of a known address leaves a trace;
- line editor: the line is what was typed and what the screen shows; passwords
  are neither shown nor remembered;
- fake shell: paths resolve as they should and, for plain user names, the tree is
  closed under parents and `ls`, `cat` and `cd` agree on it;
- start and shutdown: what was logged is stored across the connections of the
  process, and so is what was tallied if nothing raises; the loop ends, if the
  sessions do.

## 2. The modules

| Module | Models | Notes |
|---|---|---|
| `EventPipeline` | `log_event`, `upsert_daily_summary`, `StatsManager`, start, crash | `MCEventPipeline`, `EventPipelineProofs` |
| `GrantBook` | what the servers rely on in `AuthManager`: a tally and a set of grants | abstract specification |
| `AuthManager` | every method of `AuthManager` but `close_cleaning_task` | implements `GrantBook`; `MCAuthManager`, `AuthManagerProofs` |
| `SshAdmission` | permits of the SSH server and `close_all_sessions` | `MCSshAdmission`, `SshProofs` |
| `SshSession` | input and commands of an SSH shell | `MCSshSession`, `SshProofs` |
| `SshAuth` | SSH attempts, grants, scan events, `classify_attempt`, `shell_requested`, the gauge | uses `GrantBook`; `MCSshAuth`, `SshAuthProofs` |
| `TelnetServer` | Telnet admission, login, shell, watchdog, `stop` | uses `GrantBook`; `MCTelnetServer`, `TelnetServerProofs` |
| `TelnetLine` | `_read_line` and its helpers, with the login rounds around it | `MCTelnetLine`, `TelnetLineProofs` |
| `FakeShell` | the tree and the current directory under `mkdir` and `cd`; `ls -l`, `cat` as views | `MCFakeShell`, `FakeShellProofs` |
| `Lifecycle` | `main`, `init_db`, `close_db`, the end of `asyncio.run` | `MCLifecycle`, `LifecycleProofs` |

**EventPipeline.** An event goes `idle` → `inserting` (`log_event` queues for
`_DB_LOCK`) → `created` (row committed, task created) → `registering` (the task
queues for the manager's lock) → `counted`; or `raised`, or `lost` in a crash.
The locks are FIFO queues whose head is the holder. `conn` and `disk` are the
tables before and after a commit, so that a row left in the open transaction by
a failed commit is seen and may be committed by the next task. `phase` is the
statement the holder awaits. `FlushBegin` is `_flush_internal` up to its await:
the arguments are copied then. `FlushEnd` is what follows: the saver keeps or
clears `_dirty`, the rollover resets in both cases. Two history variables tell
what the code gives up: `unread`, the days whose last load at a start raised, and
`dropped`, the days whose flush raised at their rollover. A step of the lock queue of
its own for the start of a task allows more orders than the loop has.

**AuthManager.** No method awaits with its lock held, so each is one step.
Dictionaries are functions on the addresses they know. Lists of times are
counts by time. `random.randint` is any value between its bounds. Time is
`time.time()`, and is not set back.

**GrantBook.** Abstracts from thresholds and times: an attempt may earn the
grant from `BruteMin` attempts on and must at `BruteMax`; forgetting takes the
tally and the grant together.

**SshAdmission.** asyncio's `BoundedSemaphore` as of Python 3.12 (the version of
the `Dockerfile`): a released permit goes to the first waiter, which stays in
the queue until its task runs. The task of `_acquire_semaphore` is `created`,
`waiting`, `woken`, `held` or `done`, and the connection may be lost in any of
these.

**SshSession.** The client's text is a sequence of lines, each followed by a
newline, received in pieces of any size. A `patient` client sends a line only
when the one before is dealt with; which kind of client it is, is chosen at the
start, and likewise what each line is. A task takes the lock, takes all whole
lines, and handles them one by one with the await of `log_event` in each.
Blank lines and lines over the limit are steps of their own though the code
does not await between them: the other steps that can come in between (text
received, the connection closed) commute with them. The server is created with
`encoding='utf-8'` (`app/startup.py:37`), so `data_received` gets text and its
branch for the byte Ctrl-C is not modelled.

**TelnetServer.** `pc` is what the handler of a connection awaits. `sock` is its
writer and `peer` its client; what was received before the writer was closed
can still be read. `EndRun` is the `finally` of `run`: the scan event, then
`FinishRun`: gauge, watchdog, close. The AuthManager is a `GrantBook`; the
cleanup may forget an address between any two steps. Lines that only redraw
the prompt are not steps, and the timeouts of `stop` are part of one step of
`Lifecycle`.

**SshAuth.** `auth[c]` is the await of the attempt under way over connection
`c`: the event of the attempt, the event of the grant. What `register_attempt`
returned is in `try[c]` meanwhile, as in the local variables of the code. asyncssh
runs one attempt of a connection at a time; an attempt whose `log_event` raises
closes the connection, one whose connection is lost may be cancelled or go on.
The AuthManager is a `GrantBook` with the names tried and with `quiet`, the
addresses `should_log_scan` holds back. `cut` remembers the connections an event
of which never came. `peer` is the address asyncssh has for a connection, which
may be `UNKNOWN`: `_log_scan_event` leaves such a connection out (`ScanSkipped`).
`last[ip]` is the connection whose scan event made `ip` quiet, until the 600 s are
over or `ip` is forgotten, and `voice[c]` the one for which a scan of `c` was held
back, or `c` itself; both are history.

**TelnetLine.** `wire` are the bytes sent and not read, and a byte may take any
time: hence a read with a timeout may always time out, and `read(2)` may return
one byte of two. The client sends LF, CR, CR LF or CR NUL for Enter, one of them
for good. A key that prints is none of the bytes the session does something
else with (`Printable` and `Controls`). The terminal is `shown`, and a terminal that shows recalled lines at
the password prompt keeps its end only. `meant` is the line the client believes
it typed, and `inStep` says that it waited for each prompt and that no newline
and no line over the limit has been split over two prompts.

**FakeShell.** A path is the sequence of its parts. `Step`, applied to one part
after the other by a recursive function in `Normal`, is the loop of `_resolve_path`; `ResolvesLexically` compares it with a
definition without a stack. `ls -l` builds the paths of entries by itself
(`EntryPath`, with cases of their own for `.` and `..`, which `ls -a` adds to what
is `Listed`), so `ViewsAgree` is a property of four pieces of path arithmetic.
A user name may be a path ("a/b") or no name at all (".."); the properties of
the tree speak of plain names.

**Lifecycle.** `main` is what `main` is about to do. A client of the database (a
call of `log_event`, the saver, or main's final flush) is `wanting` (the
manager's lock), `opening` (inside `init_db`), `queued` (for `_DB_LOCK`),
`written` (its statement done, its commit not), and then `created`, `counted`,
`raised`, `lost` or `over`. Connections that become `_DB_CONN` are numbered;
`cur` is the one that is, `writer` the connection with the open transaction,
`threads` the connections not closed. An `init_db` that raises, at the start
(`StartFails`) or later (`OpenRaises`), may leave a connection with its thread
that nothing closes. `CancelTasks` is what `asyncio.run` does once main is over. A
commit that was under way may or may not be done; the saver flushes once more. A
Telnet session may outlive its cancellation (the loop is `lingering`): the bare
`except` of `telnet_session.py:340` takes it, or `_close` waits for a client that
does not read. `LingererEnds` is the end of these sessions. The
order of the two locks is left open, which allows more orders than the queues.

Each module has definitions named as slips: plausible mistakes in the code next
to the definition they would change. No specification uses them; with one of
them in place a property of the module must fail, and `PROJECT.json` says which.

## 3. The runs

| Run | Configuration | Shows |
|---|---|---|
| `pipeline_safety` | 3 events, 2 days, local day ahead of UTC, 2 faults anywhere, 1 crash | `CleanMeansStored`, `NoOvercount`, `TalliedHaveRows`, `RowsConsistent`, `SummaryNeverShrinks`, `DaysComplete` |
| `pipeline_live` | 2 events, 2 faults of upserts, commits and loads, fair | `EventuallyStored` |
| `auth_safety` | 1 address, thresholds 1..2, 3 attempts, 3 connections, 2 scan events | `RecordsAgree`, `PersistentIsGranted`, `ScanWindowExact`, `ScanGapKept`, `IsGrantBook` |
| `ssh_permits` | 4 connections, 2 permits, fair | `PermitsInv`, `PermitsComeBack`, `CloseAllEnds` |
| `ssh_lines` | 4 lines, limit 2, a fault, patient clients and others, fair | `LinesInv`, `WholeLinesHandled`, `PatientWithinLimit`, `NothingAfterGoodbye` |
| `telnet_safety` | 2 connections of one address, 2 permits, 2 rounds, a fault anywhere, a cleanup | `GaugeExact`, `ShellEarned`, `NotSentAway` |
| `telnet_live` | 2 connections, 1 permit, 2 rounds, a fault anywhere, fair | `SessionInv`, `SilentSessionsEnd`, `StopEndsSessions` |
| `ssh_auth` | 2 connections, each of one address or of none, 3 names, 2 attempts each, a fault, a cleanup | `ShellsAreLogged`, `ShellEarned`, `SprayShows`, `LeavesATrace` |
| `telnet_line` | 2 letters, a secret, 4 newlines, lines of 1, a history of 2, 2 rounds | `ScreenShowsLine`, `LineAsTyped`, `SecretsStayHidden`, `HistoryInv` |
| `fake_shell` | 3 user names, 9 words, paths of 2 words, 2 directories made | `TreeClosed`, `ResolvesLexically`, `ViewsAgree` |
| `lifecycle` | 3 calls of `log_event`, 2 faults, fair | `ReturnedHaveRows`, `TallyOutlivesMain`, `QuietShutdownComplete`, `ShutdownEnds` |

The types: `TypeOK` is a conjunct of `PermitsInv` (there `AdmissionTypeOK`), `LinesInv`
(`SshSession`), `SessionInv` (`TelnetServer`) and `HistoryInv` (`TelnetLine`),
and is proved for every module (section 4). The other conjuncts
are `PermitsConserved`, `InOrder`, `PermitsConserved` with
`CommandsWithinLimit`, and `HistoryWellFormed`; `RowsConsistent` is `TotalIsSum`
and `SeenWithinDay`.

One run shows that the code does not do what the README of the repository says: `ssh_flood`, with
`ExecutedWithinLimit`. At the limit the command count of an SSH session restarts
in the middle of a batch of lines (`ssh_session.py:87-93`), so a client that sends
lines ahead runs more than `HP_MAX_CMDS` commands: with a limit of two the third
is refused and the fourth runs. The run has commands only. An `exit` restarts the
count in the same way (`ssh_session.py:120-126`).

### What the models make plain, without a run of its own

Each of these shows when the premise named is dropped, or the property stated.

Log and summary:

- an event around midnight is in one day in `logs` and in the next in
  `daily_summary` (`db.py:111`, `stats.py:35`: the day of the timestamp in UTC,
  and the local day when the tally is made), although `README.md:103` says that
  the summary aggregates the events by day;
- a flush that fails at the rollover is not retried: `_reset` drops the tally of
  the day and its `_dirty` (`stats.py:37-38`). Hence `dropped` in `DaysComplete`
  and `EventuallyStored`;
- when the load at a start raises, `load_today_stats` swallows the exception
  (`stats.py:30`), and the next flush overwrites the row of the day with less.
  Hence `unread` in `SummaryNeverShrinks`;
- the row of an event whose commit raised stays in the transaction, and the
  commit of another task may store it although `log_event` raised (`db.py:122`).

Admission and sessions:

- the SSH limit of `README.md:90` is tested in `connection_made` and the permit
  taken by a task later (`ssh_server.py:35-39`): connections made in between are
  all served, one of them while its task waits for a permit;
- an exception of `log_event` in the `finally` of a Telnet session leaves the
  gauge one too high for good (`telnet_session.py:272`). Hence `GaugeExact` counts
  the sessions that are `broken`;
- the attempts of an address that pauses longer than the retention period are
  forgotten, so `BRUTE_MAX` attempts alone do not earn a grant (`README.md:145`
  says 3 to 7 do); `config.py:11` reads that period from `HP_BRUTE_MAX`, so that
  setting this variable to 7 makes the period seven seconds. Hence the premise
  on pauses in `PersistentIsGranted`;
- a Telnet session may enter its shell on a grant another session of its address
  earned during its awaits, with no `AUTH_GRANTED` event of its own
  (`telnet_session.py:188`). Hence `ShellEarned` of `TelnetServer` speaks of the
  tally of the address, not of the session. Over SSH there always is one
  (`ShellsAreLogged`);
- `should_log_scan` takes an address into its rate limit before `log_event` is
  awaited, so one that raises silences the address for 600 s
  (`ssh_server.py:232-243`). Hence `cut` in `LeavesATrace`: a connection held back
  has at least the one it was held back for in the log, or in `cut`;
- a connection without an attempt whose address asyncssh does not know leaves no
  event at all (`ssh_server.py:227-229`).

Line editor (each is ruled out by `inStep`, and without it breaks
`SecretsStayHidden`):

- a LF later than 10 ms after its CR is a line of its own: a blank password is
  tried, and the next thing the client types, its password, is read at a login
  prompt, echoed, kept in `_history` and logged as a name
  (`telnet_session.py:337`);
- so is the rest of a password over the limit, which is returned as a blank
  line in the middle of the typing (`telnet_session.py:126`).

Not ruled out: an arrow key whose bytes come apart leaves its letter in the
line; an ESC of its own swallows what follows it, a newline too; IAC IP at the
login prompt is swallowed with an exception, for there is no shell yet
(`telnet_session.py:361`). The line `__CTRL_C__`, typed as it is, is taken for
Ctrl-C and not logged (`telnet_session.py:259`).

Fake shell: `mkdir /` puts a nameless entry into the root; `mkdir /etc/passwd`
makes a file a directory as well; most directories listed, as `/tmp`, are not in
`fs`, so `cd` does not take them; `/etc/ssh/sshd_config` can be read in a
directory that is none; `ls` of a name like "a/b" shows an entry of `/home` that
is two levels deep. `_cmd_mkdir` is never called.

Shutdown: after `close_db` a late `log_event` opens the database again. Nothing
closes it, and the thread of aiosqlite, which is no daemon, keeps the process
until it is killed; so it is when a server does not start, and when `init_db`
raises after its connection was made (`db.py:43-78`). A Telnet session that takes
its cancellation in the 10 ms read after a CR (`telnet_session.py:340`) goes on,
with its watchdog cancelled, and the loop waits for its client: hence the premise
of `ShutdownEnds`, which speaks of the loop and not of the process. Two calls
that open it together leave one connection in a transaction the other cannot
write over, and their commits go to the wrong one: hence `opened <= 2` in
`ReturnedHaveRows` and `TallyOutlivesMain`, and the premise `late = {}` in
`QuietShutdownComplete`.

### Bounds

The bounds (`MaxTime`, `MaxFaults`, `MaxCrashes`, `MaxTries`, `MaxForgets`, ...)
are constants in the guards. They are chosen so that every case of the code
occurs: two days and a rollover with a dirty and with a clean tally, an event
registered during a flush of another task, a crash in every state; a cleanup
exactly at, before and after the retention period, and an address that starts
again; more connections than permits and two tasks waiting; batches of
several lines left behind a line over the limit; two sessions of one address.
Two or three actors are enough for these properties: every one of them is about
an actor, or a pair of them and a shared resource, and the shared resources are
at their limit in the runs. The records of an address never depend on another's,
so one address is enough for `auth_safety`; the proofs cover any number. Symmetry
is used only where no liveness is checked.

`ssh_auth`: three names are more than `FewUsers`, which is 2 there and 3 in the
code; two connections share them, so that a spray over both must show. The
thresholds 2..3 let a grant come early, late, or on the other connection.
`telnet_line`: lines of one character are followed by a line over the limit; a
history of two is filled, walked and drops its oldest; two rounds give a second
login prompt for what is left over of the first. Unread bytes are bounded by
`MaxAhead` before the client sends more, which is a whole key or newline, so a
sequence can be split at each of its bytes. `fake_shell`: two words reach the
directories there are, `..` above the root, a file as a directory, and with two
directories made a directory in a new directory; deeper paths repeat these
cases. `telnet_live`: with two
rounds and thresholds 1..2 a first attempt may fail, so that the sleep after it
and the round behind it are among what is awaited. `lifecycle`: three calls are one that is tallied, one under way at
`close_db` and one after it; the third also opens the database together with
the second.

Runs of bounded instances stop when their connections, lines or time are used
up, or the session or the process is over, so `CHECK_DEADLOCK` is `FALSE` there
(in `FakeShell` a directory can be made no more but `cd` always goes on). In `EventPipeline` the saver always
can wake, and deadlock is checked, so no order of the two locks blocks it.

### Fairness

`EventPipeline`: weak fairness of each event's steps, of the flush and of the
saver: the loop runs every ready callback, the database thread every queued
statement, the sleep of the saver ends. A retry needs no strong fairness,
because faults are finitely many. `SshAdmission`: the tasks and callbacks of
each connection, and main's coroutine. `SshSession`: the task that holds the
lock goes on and `log_event` returns. `TelnetServer`: the same, and a transport
closes some time after `close()`, and the watchdog of a client that has stopped
sending fires, since nothing arms it again. `Lifecycle`: `main` goes on, since
each wait of the shutdown has a timeout, and that of `close_all_sessions` ends
by `CloseAllEnds` of `SshAdmission`; tasks that can run do. Nothing assumes that
a signal comes, that the saver wakes, or that a session which outlived its
cancellation ends. Nothing assumes that a client
sends, leaves or reads, except that a transport that is closed with a full
write buffer is taken to close in the end (TCP gives up).

## 4. The proofs

All for every value of the constants, under the assumptions
`ConstantsAssumption` (and `ClockAssumption`) of the modules, and none with a
hypothesis of its own: what raises is in the specifications, and what the code
gives up then is in the properties. The
modules with many actions have a lemma first that says which few things a step
does to the variables at hand (`StepFlows` in `EventPipelineProofs`,
`StepSessions` in `TelnetServerProofs`): the invariants are then proved from
those, not from the actions once more.

| Theorem | Statement |
|---|---|
| `EventPipelineProofs!TypeCorrect` | `Spec => []TypeOK` |
| `EventPipelineProofs!CleanIsStored` | `Spec => []CleanMeansStored` |
| `EventPipelineProofs!RowsAreConsistent` | `Spec => []RowsConsistent` |
| `EventPipelineProofs!NothingCountedTwice` | `Spec => []NoOvercount` |
| `EventPipelineProofs!TalliedAreLogged` | `Spec => []TalliedHaveRows` |
| `EventPipelineProofs!DaysAreComplete` | `Spec => []DaysComplete` |
| `EventPipelineProofs!TotalsOnlyGrow` | `Spec => SummaryNeverShrinks` |
| `AuthManagerProofs!TypeCorrect` | `Spec => []TypeOK` |
| `AuthManagerProofs!RecordsAlwaysAgree` | `Spec => []RecordsAgree` |
| `AuthManagerProofs!PersistenceIsGranted` | `Spec => []PersistentIsGranted` |
| `AuthManagerProofs!ScanGapIsKept` | `Spec => ScanGapKept` |
| `AuthManagerProofs!ScanWindowIsExact` | `Spec => []ScanWindowExact` |
| `AuthManagerProofs!ImplementsGrantBook` | `Spec => GrantBook!Spec` under `Tally` |
| `SshAuthProofs!TypeCorrect` | `Spec => []TypeOK`, the gauge among it |
| `SshAuthProofs!ShellIsLogged` | `Spec => []ShellsAreLogged` |
| `SshAuthProofs!ShellIsEarned` | `Spec => ShellEarned` |
| `SshAuthProofs!TraceIsLeft` | `Spec => []LeavesATrace` |
| `SshAuthProofs!SpraysShow` | `Spec => []SprayShows` |
| `SshProofs!PermitsAreConserved` | `AdmissionSpec => []PermitsInv`, `AdmissionTypeOK` among it |
| `SshProofs!LinesAreKept` | `Spec => []LinesInv`, `TypeOK` among it |
| `SshProofs!PatienceIsLimited` | `Spec => []PatientWithinLimit` |
| `SshProofs!GoodbyeIsFinal` | `Spec => NothingAfterGoodbye` |
| `TelnetServerProofs!SessionsWithinLimits` | `Spec => []SessionInv`, `TypeOK` among it |
| `TelnetServerProofs!GaugeIsExact` | `Spec => []GaugeExact` |
| `TelnetServerProofs!ShellIsEarned` | `Spec => ShellEarned` |
| `TelnetServerProofs!TriersAreServed` | `Spec => NotSentAway` |
| `TelnetLineProofs!ScreenIsTrue` | `Spec => []ScreenShowsLine` |
| `TelnetLineProofs!HistoryIsWellFormed` | `Spec => []HistoryInv`, `TypeOK` among it |
| `TelnetLineProofs!SecretsStayUnseen` | `Spec => []SecretsStayHidden` |
| `TelnetLineProofs!LinesAreMeant` | `Spec => []LineAsTyped` |
| `LifecycleProofs!TypeCorrect` | `Spec => []TypeOK` |
| `LifecycleProofs!RowsAreKept` | `Spec => []ReturnedHaveRows` |
| `LifecycleProofs!TallyOutlives` | `Spec => []TallyOutlivesMain` |
| `LifecycleProofs!QuietShutdowns` | `Spec => []QuietShutdownComplete` |
| `FakeShellProofs!TypeCorrect` | `Spec => []TypeOK` |
| `FakeShellProofs!TreeIsClosed` | `Spec => []TreeClosed` |
| `FakeShellProofs!ViewsAlwaysAgree` | `Spec => []ViewsAgree` |
| `FakeShellProofs!PathsResolveLexically` | `Spec => []ResolvesLexically` |

`CleanIsStored`: `CleanMeansStored` is not inductive. When an upsert returns,
one must know that what it wrote is the tally of now. `StoredInv` adds:
`FlushLocked`, a flush in progress holds the manager's lock and has its one
place in the queue of the database; `Quiet`, with no flush and no process
nothing of it is left; `FlushExact`, the arguments of the flush in progress are
still the tally, and after its statement the row on the connection is the
arguments; `CleanStored`, the property with the row on the connection as well,
because a later commit of any task writes that row again.

The accounts of `EventPipeline`: `AccountsInv` adds to `StoredInv` who waits for
which lock (`Queued`) and the order of the days (`Dated`). Of the tables a step
then makes one of four things (it keeps them, commits, writes the tally, or
reverts as the process is lost) and of the tally one of five (`Flow`). `RowsSound` is
`RowsConsistent` and `NoOvercount` of the tally, of the uncommitted and of the
stored rows: an event joins one day, once, so a row that is copied stays sound.
`RowsKept`: an insert that awaits its commit has its row in the transaction, so
`TalliedHaveRows` survives the rollback of another task. `Complete`: while
no process was killed, the tally counts every event of its day, and the rows of
earlier days theirs, stored and uncommitted, because a rollover that is not dirty
has it stored and one that is stores it, or puts the day into `dropped`. `Rising`:
the stored row is no more than the uncommitted one, and that of the day no more
than the tally, for every day but those in `unread`, which a load that raises
puts there.

`PersistenceIsGranted`: `StreakCounted` says that an address that paused no
longer than the retention period still has its record, with at least the
attempts of the streak; `RecordsAgree` and the range of thresholds in `TypeOK`
do the rest. `ScanGapIsKept`: `LogRemembered`, the last time logged is in
`_last_scan_log` or the address was forgotten since. `ScanWindowIsExact`:
`WindowKept`, the same for each moment of the window, with `ScanWindow <=
KeepWindow` for the trimming of the cleanup. `ImplementsGrantBook`: initial
states map to initial states; an attempt maps to an attempt, since the
threshold lies between the bounds; a cleanup maps to forgetting the expired
addresses, and every other step to a stutter.

`ShellIsLogged` and `ShellIsEarned` rest on `ShellInv`: `UnderWay`, what
`register_attempt` answered an attempt under way is kept until its events are
logged; `AcceptedIsLogged`, an accepted connection has its grant in the log, and
a shell is on an accepted connection; `GrantsEarned`, every grant of the book
has at least `BruteMin` attempts, so that `shell_requested`, which asks the book
again, opens no shell on a grant forgotten meanwhile.

`TraceIsLeft`: `TraceInv` follows the scan event of a connection to its end. A
connection is traced if a scan event of it is logged, under way or cut.
`QuietIsTraced`: an address the rate limit holds back is quiet for a connection of
it that is traced; `ScanIsTraced`: so is the one a scan that is over was its own
or held back for, unless the address is not known; `AttemptHasRow`: an attempt
past its first `log_event` has a row, or its connection is in `cut`;
`LostIsDealtWith`: a connection lost without a scan event had an attempt;
`ScanAfterLoss`: scan events come after the loss. The step needs that no trace is
lost again (`TracesKept`).

`SpraysShow`: `FewPlain` says that the names from an address that were neither
stuffing nor an exploit, logged or on their way to the log, are among the names
the AuthManager knows, and no more than `FewUsers`. The one that comes last was
classified with all the others known.

`PermitsAreConserved`: `AdmissionInv` adds to `PermitsInv` which tasks a
connection can have. `FewAreLucky` counts the waiters a release or an `acquire`
hands permits to, which are not more than there are to hand out.

The two models of SSH connections share `SshProofs`, which extends both; this is
why `SshAdmission` has `AdmissionInit`, `AdmissionNext` and so on, and calls the
stage of a connection `stage` and not `conn`. They share no state, and no proof
about one uses the other.

`SshSession`: `SessionInv` names two places in the client's text. `Placed(d, t)`:
the first `d` lines are dealt with, run or lost with a task that `log_event`
ended; `d + 1` to `t` are with the task; the buffer is what has come behind
them. `LinesOfText` says what lines a stretch of the text has, by a least
counterexample; then taking the whole lines moves `t`, and dealing with one moves
`d`. `Waits(d, t)`, of a patient client: it has one line under way at most, in
the buffer or with the task, so no line is left when the session ends, and until
then every command run is in `_cmd_count`. This is what fails for a client that
sends ahead (`ssh_flood`).

`TelnetServer`: `ServerInv` has, with the types and the permits, what a place in
the handler says of rounds and attempts (`RoundsInv`) and of commands
(`CommandsInv`), the gauge itself (`GaugeExact`: each session enters it
once, and leaves it once or is `broken`), that grants were earned, and `AttemptsTold`: while nothing was
forgotten the tally of an address is at least what each of its connections
tried, so that one which tried in `BruteMax` rounds has the grant before its
last round is over, whatever other sessions of the address do.

`TelnetLine`: `LineInv` is enough for the screen and the history: the terminal
shows the line at every prompt with echo, recalled lines of any length included.
The client is in `ClientInv`. `Framed`: a Telnet command is whole on the wire.
`Orderly`: a client in step waits once it has sent the end of a line, and behind
that is at most the second half of a newline. `Hidden`: no secret is shown or in
the history, and none is on the wire but at the password prompt. `AsMeant`: what
is left on the wire leads from the line of the session to the line that is
meant (`Leads`: there is a sequence of lines from one to the other, a byte at a
time), or the line is cut short, or used. A key typed extends the sequence at
its end, a byte read shortens it at its start.

`RowsAreKept`: `Base` is `TypeOK` with `Phases`, the connection is the first one
until `close_db` is over, and `Locked`, at most one client is between its
statement and its commit. On top, `SeenGrows`: what a connection sees is on
disk or in its transaction; `Pending`: the open transaction is on the
connection in `_DB_CONN`, and what a client has written is what its commit
commits. `close_db` drops a transaction only of a client that has not returned.
`TallyOutlives` and `QuietShutdowns` (both while nothing raised, the first with one
connection opened after `close_db` at most): `Summed`, what is not dirty is stored and
the tally stands still while a flush has it written; `Rescue`, the saver is not
over before its last flush; `OneFlush`, the lock of the manager; `Quiet`, without
late events nobody but main and the saver touches the database, and nothing
opens it again.

`TreeIsClosed`: the initial tree is closed for a user name that is one part of a
path; `WithDirectory` keeps every directory with its entries and adds the name
to its parent, which `mkdir` has tested to exist.

`ViewsAlwaysAgree`: `NormalFacts` and `NormalOfNames` say that `Normal` gives
parts without dots and leaves such parts as they are. `Normal` is a recursive
function, and that there is one that satisfies its equation needs
induction on the length of the path, for which the library's theorems are out
of reach; `Walk` states the same without recursion, and a least counterexample
(`WFMin` on the natural numbers) shows that a walk of every length exists and is
unique. Every directory is then known under names only (`NamesInv`), which is
where the views meet: `WalkOfNames` and `NormalOfDotted` say what a walk makes of
names with `.` or `..` behind them, and `EntryResolves` that this is the path `ls`
builds of the entry.

`PathsResolveLexically`: `Marks` says of every prefix of a path that what
`_resolve_path` has by then are the parts at the places that count
(`Standing`), in their order, and that behind the place of part `k` there are
more names than `..`, by as many as there are parts behind `k`. A name adds a
place to the marks; a `..` takes the last one, which is the only place where the
balance gets negative (`MarksStep`). A least counterexample again carries this
over the length of the path (`MarksExist`); counting the places yields the
definition in `ResolvesLexically` (`KeptIsMarked`). It assumes that the path of
a login name is a sequence of strings, as the parts of a string are.

Only model-checked: liveness (`PermitsComeBack`, `CloseAllEnds`, `WholeLinesHandled`,
`SilentSessionsEnd`, `StopEndsSessions`, `ShutdownEnds`, and that of the event
log), which rests on fairness and `ENABLED` and is beyond the prover. Every
safety property of a passing run is stated by a theorem.

## 5. Not modelled

Text (prompts, sanitising, JSON, the dashboards), `classify_command`, which is a
list of patterns with no state, the queries, the SSH protocol inside asyncssh,
the schema, the host key, the metrics server, deployment. `test_db` in `main.py`,
`_cmd_mkdir` and the bytes branch of `data_received` are never run. A clock set
back, and a change of the local time zone while the program runs, are excluded
by assumption. A signal before the handlers are installed ends the process as
the crash in `EventPipeline` does, and is not in `Lifecycle`. The growth of the
dictionaries of addresses that connect without a login (`auth_manager.py:62`) is
no property of a bounded run.

## 6. Plan

Done: log, summary, grants, admission, sessions, authentication, line editor,
fake shell, start and shutdown, and the safety of all of them proved. What is
left are abstract specifications: `PermitPool` (a counter and a set of holders),
implemented by `SshAdmission` and `TelnetServer`; `LineQueue` (a FIFO of lines),
implemented by `SshSession`.
