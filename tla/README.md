# telco-vecchio in TLA+

telco-vecchio is a daemon for an OpenWrt router with an LTE modem. Users send it SMSs: it opens an
ssh reverse tunnel to an application of the local network and mails its url, closes tunnels, reports
its status, reboots or shuts the router down. It also closes tunnels that have lived too long, and
reboots the router when the internet is gone.

This directory models that program in TLA+, checks the models with TLC on small instances, and proves
their main safety properties with TLAPS for all instances. Every definition is translated from the
source, and `PROJECT.json` ("map") names the lines each one stands for.

## 1. Inventory

The daemon is one tokio task on a `current_thread` runtime (`main.rs`). It awaits one thing at a time,
so no two handlers overlap. What interleaves with it is the outside: SMSs, the ssh processes, the
clock, the modem, the init script, the power. Tasks of their own are the delayed reboot and shutdown
(`request.rs`); processes of their own are ssh, sendmail, uqmi, `reboot` and `poweroff`.

| Component (source) | State | Operations | What makes it correct |
|---|---|---|---|
| Main loop (`main.rs`) | the `Context`, the current wait | wait for an SMS for one period; handle a request, respond; on a timeout ping and clean up | every request is answered, strangers are not; the routines run |
| Request handler (`request.rs`) | the tunnels, the cached status | open, close, close all, status, reboot, shutdown | limit and uniqueness hold across the awaits of open; responses are true; a failure leaves no process behind |
| Tunnels and clean-up (`common.rs`) | `HashMap<u32, Tunnel>` with user, application, process, creation date | insert, remove, `clean_up_expired_tunnels` | references are stable; only expired tunnels are closed, and all of them; the process is dead before the user is told |
| Tunnel set-up (`ssh_utils.rs`) | the ssh `Child`, its pipes | spawn, read the url with a time limit, read stderr on failure | it ends; the process is killed on every failure |
| Mail (`email_utils.rs`) | the sendmail `Child` | send with a time limit | it ends |
| Initialisation (`init.rs`) | retries, whether the SIM card was tried, the register file | read the configuration, resolve the status, unlock, wait, set up SMSs, notify | it ends with a status that is Ready or the last attempt's; a wrong PIN costs one try a start; notices are due |
| Status (`status.rs`) | none of its own | three readings of the modem and the network; pings | it ends; it reports what is there |
| SMS transport (`sms_utils.rs`) | the serial port, the modem's modes | `init`, `send_sms`, `wait_sms`, PDU coding | an SMS that arrives is not lost, an answer is not taken for another's; coding and decoding agree |
| Init script (`telco-vecchio-init`) | the pid file, the daemon's process | start, stop, restart, status | one daemon at a time; status tells the truth |
| Configuration (`user.rs`, `application.rs`, `config.toml`) | constants of the run | parse | - |
| Web interface (`luci/`) | the page | read logs, edit files, call the init script | - |
| Packaging (`build-ipkg`, `control`) | - | build the package | - |

How they interact: the main loop calls all the others directly and awaits them; the serial port is
opened anew by every `wait_sms`, `send_sms` and `init`, so it is shared state over time; the register
file carries a user's name over a reboot, if it can be written, read and deleted; the status is written
by init and by the status command and read by open; the init script acts on the daemon by signals.

What is hard, with the line where it bites, is listed in `PROJECT.json` ("hazards"): checks made
before an await and used after it (open), a loop with an await over a table (the clean-up), failures
in the middle of a request, the end of the process by a signal, by a panic and by a reset, waits with
no time limit, a wall clock that is set back, a PIN that is tried again at every start, and a serial
port whose answers may be another command's.

## 2. Modules

| Module | What it is | Theorems | Instances |
|---|---|---|---|
| `TunnelService` | what the daemon promises its users: a table of grants, `Open` and `End` | | |
| `TunnelManager` | the main task: loop, open, close, status, clean-up, panics, stops and resets | `TunnelManagerProofs` | `MCTunnelManager` |
| `Boot` | initialisation, unlocking, the status and reboot commands, the register file, over any number of resets | `BootProofs` | `MCBoot` |
| `SmsPort` | the serial port: the AT transactions of `init` and `send_sms`, `wait_sms`, and the modem | `SmsPortProofs` | `MCSmsPort` |
| `PhoneNumber` | the digits of a phone number in a PDU, both ways | `PhoneNumberProofs` | (`MCPdu`) |
| `Pdu` | the coding of an SMS and its fields, both ways | `PduProofs` | `MCPdu` |
| `OpenPipes` | what an open makes of the pipes of ssh and sendmail | `OpenPipesProofs` | `MCOpenPipes` |
| `InitScript` | start, stop and restart over the pid file | `InitScriptProofs` | `MCInitScript` |

`TunnelManager` takes from the others their outcomes: that a `Receive` brings a request, that `Reply`
ends (`SendEnds` of `SmsPort`), that a set-up has a url or fails and a mail is sent or fails
(`UrlRead`, `SetupFails`, `EmailSent`, `EmailFails`: the terminal places of `OpenPipes`), that the
daemon panics or is stopped (`NoPanic` of `Pdu`, `KillPid` of `InitScript`).

### TunnelManager

`pc` is the place where the task awaits: `wait` (for an SMS), `retry` (listening failed), `handle`
(a request is at hand), `ssh` (reading the url), `stderr` (reading the reason of a failure), `email`,
`status`, `close` (killing a process), `reply` (sending the response), `ping`, `clean` and `notify`
(the loop of the clean-up), or `down`. Between two of these the code runs without interruption, and
so each action takes the task from one to the next. `tunnels` is `context.tunnels`; a `Tunnel` keeps
its user, application, ssh process and age, and as history whether the clock has ever shown it
expired. `alive` is the set of ssh processes that run, which is
the environment's to change too (`ProcExit`). `from` and `msg` are the request, `child` the process of
the tunnel being opened, `refs` and `todo` the locals of the loops of close and of the clean-up,
`skewed` whether the clean-up's `duration_since` will panic, `reply` the kind of response.

| Code | Actions |
|---|---|
| `run` | `Start`, `Receive`, `ListenFails`, `ListenAgain`, `RefreshDue`, `Reply`, `Ignore` |
| `handle_request`, open | `RejectOpen`, `SpawnSsh`, `UrlRead`, `SetupFails`, `StderrWritten`, `StderrClosed`, `EmailFails`, `EmailSent` |
| `handle_request`, close | `HandleClose`, `HandleCloseAll`, `CloseUnknown`, `CloseNext` |
| `handle_request`, status | `HandleStatus`, `StatusResolved` |
| `clean_up_expired_tunnels` | `BeginCleanUp`, `CleanNext`, `NotifyDone`, `CleanDone` |
| the end of the process | `Panic` (unwinds: every `Child` is dropped and so killed), `Stop` (SIGTERM: nothing is dropped), `MachineReset` |
| the world | `ProcExit`, `Tick`, `SetClockBack` |

Abstractions. A request is a command and an argument; the texts that are refused alike are one
(`invalid`). A status is reduced to what open asks of it: whether the device is ready and both services
answer, and which applications do. Creation dates are ages relative to the clock: exact from 0 to the
timeout, with one value for all that are beyond it and one for all that are in the future. A step of the
clock, forwards or back, may take a tunnel out of these two or leave it there, each for itself. An error
of `kill` in the clean-up is only logged, and changes nothing: SIGKILL reaches a child that has not been
waited for. The two loops over a hash map visit it in any order. Users, unlike phones, are the same in
every message: `UserOf` is the lookup of the configuration. The reboot and shutdown commands change
nothing here and are in `Boot`; their effect is `MachineReset`.

### TunnelService

The abstract table: a user is granted a tunnel under a free reference, never a second one to the same
application and never beyond the limit, and grants end. `TunnelManager` implements it under the
mapping `open <- Grants` exactly when a reference cannot be given out twice, which with this code
means `tunnel_max_number = 1` (`ImplementsService`). `ReferenceStable` with a limit of two fails (see
section 5). The constant `Reused` gives the weaker service in which a new tunnel may take the
reference of one that is open, which thereby ends: that one `TunnelManager` implements with any
limit (`ImplementsReusing`), so that nothing worse than this happens to the tunnels of others.

### Boot

`pc` is the place in `init` (`config`, the readings `sim`, `lte` and `internet`, `decide` for the
match of its loop, `unlock`, `sleep`, `sms`, `lookup`, `notify`), or `run`, `dead` (no daemon) or
`off`. The status command takes the same three readings: `serving` says that they are its own, so that
they lead back to `run`, with another `device` or, after an error, the old one. `device`, `retries` and
`unlocked` are the locals of `init` (`device` afterwards that of the context); `scheduled` the commands
that spawned tasks will run; `listener` the user the register file names, if it names one (an empty
file, a name that is not configured and no file are alike: nobody is told); `to` the user being
notified. The world is `modem` (set up to forward SMSs, until it restarts), `sim` and `tries` (of the
SIM card), `lte` and `internet`. `owed`, `kept` and `starts` are history variables, read by properties
only: the users who asked for a reboot and were not told of its end, the user whom the file still names
because it could not be deleted, and the starts since a PIN was accepted.

| Code | Actions |
|---|---|
| `init` | `ReadConfig`, `BeginUnlock`, `Unlock`, `BeginSleep`, `Wake`, `Settle`, `LookupListener`, `NotifyListener` |
| `get_device_status` | `ReadSim`, `ReadLte`, `ReadInternet`, `QmiFails` |
| `sms_utils::init` | `InitSms` (its success may be that of an older OK, as in `SmsPort`) |
| status, reboot, shutdown, the ping of `run` | `RequestStatus`, `RequestReboot`, `RequestShutdown`, `PingFails` |
| `register_init_listener` | `Registered`, `NotRegistered` (in `RequestReboot`) |
| the world | `Start`, `Reset`, `Die`, `ModemRestarts`, `NetworkChanges` |

### SmsPort

The port is `line`, the cells the modem wrote that nobody has read; `rx` and `todo` are the commands
the modem has not echoed and not acted on. A cell is a group of bytes that stays together: the echo of
a command takes as many cells as the command, an answer a line break and a text, an SMS its `+CMT`
line, its PDU and the end of that line. A read returns any beginning of `line` that fits its buffer
(`ReadSizes`). `pc` is the place of the daemon: `idle`, with the port closed, a transaction (`cmgf`,
`cnmi`, `cmgs`, `pdu`), or `wait`; `left` is what `at_transaction` still counts as echo. `accepted`,
`confirmed`, `pending`, `handled` and `lost` are histories of sends and SMSs.

| Code | Actions |
|---|---|
| `at_transaction` | `Write` (in the actions that begin one), `ReadEcho`, then one of the three below |
| `init`, `send_sms` | `StartInit`, `BeginSend`, `Proceed` (first answer as expected), `Succeed`, `Refused`, `SendTimesOut` |
| `wait_sms` | `Listen`, `Hear`, `IgnoreContent`, `ListenTimesOut` |
| errors, the end of the process | `IoError`, `Die` |
| the modem (external) | `EchoCommand`, `Obey`, `Prompted`, `Sent`, `Forward`, `ModemRestarts` |

Every call opens the port anew, and what is unread between two calls is kept or lost (`Lossy`).
Answers that come after a time limit, a prompt left by a dead daemon and an SMS that comes between an
echo and its answer are all reached: nothing in the module says that an answer belongs to a command.

### Pdu and PhoneNumber

Operators over sequences of hexadecimal digits, translated line by line from the byte offsets of
`send_sms`, `wait_sms` and the `encode_` and `decode_` functions, and around them three steps
(`Type` or `Send`, then `Receive`) with the network at the other end (`ReadSubmit`, `Deliver`,
external, after the standard the comments of the code refer to). A text is a sequence of characters
of five kinds, which differ in their septets and in their bytes of UTF-8: the code counts the second
where the field counts the first. `Written`, `Pack`, `Unpack` and `Spelt` are the library the code
calls (external), as what they do: an octet is the end of one septet and the beginning of the next,
moved by as many bits as octets precede it in a group of seven; an escape takes the septet after it.
`Keep` leaves characters out of a string (the F of numbers, the second septets). The network refuses
what is longer than `MaxSeptets`, so that `Type` does not send it; `MaxBytes` is the limit of
`send_sms`. `PduAssumption` says that numbers are made of at most twenty digits and texts of the
characters of the five kinds.

### OpenPipes

`output` is all that the service writes in a session, `written` and `seen` how much of it ssh has
written and the daemon read; `Urls` and `Codes` are the two regular expressions, `NotUtf8` the
conversion that fails on half a character. `sendmail` reads its standard input to the end, then talks
on its standard error, a pipe of `Capacity` lines that is only read once it has ended.

| Code | Actions |
|---|---|
| `setup_ssh_tunnel` | `SpawnSsh`, `ReadChunk`, `ReadFails`, `SetupTimesOut`, `ReadStderr` |
| `send_email` | `SpawnSendmail`, `WriteMail`, `Collect`, `MailTimesOut` |
| ssh (external) | `SshWrites`, `SshComplains`, `SshEnds` |
| sendmail (external) | `SendmailReads`, `SendmailTalks`, `MailDelivered`, `SendmailSucceeds`, `SendmailFails` |

### InitScript

A call is a shell; each command of it that looks at or changes the pid file or the processes is an
action: `StopChecks`, `ReadPid`, `RemoveFile`, `KillPid`; `StartChecks`, `Spawn`, `CreateFile` (the
redirection empties the file before `ps` runs), `WritePid`. `restart` runs the first four, then the
others. `FirstListed` is what `ps | grep | awk | head` leaves: a daemon, or the `grep`, or nothing.
`DaemonEnds` is a daemon's own end, at any moment.

## 3. Runs

Expected to hold:

| Run | Instance | What it shows |
|---|---|---|
| `three_tunnels` | 2 users, a stranger, 2 applications and an unknown one, 3 processes, limit 2, clock changes | never more processes than the limit, one tunnel per user and application, no orphaned process, true responses, dead before notified, no early clean-up; the weaker service is implemented; the inductive invariant |
| `one_tunnel` | the same with 2 processes, limit 1 and SIGTERM | references are stable, `TunnelService` is implemented, only the signal makes orphans; expired tunnels are closed, requests end |
| `boot` | 2 users, right and wrong PIN, 2 retries, 3 tries, every fault, those of the register file and a modem that restarts among them | tries spent, nobody told twice unless the file could not be deleted; init ends, unless the modem does not answer its set-up; the inductive invariant |
| `sms_port` | 2 starts, 2 sends, 1 SMS, every fault, reads in parts, unread cells that may be lost | Ok only for an SMS that was sent; the inductive invariant; stale answers do not hide an SMS; a send ends; the set-up of the modem ends unless it awaits a PDU |
| `pdu` | texts of 0 to 10 characters of five kinds, of 140, 141, 160 and 161, numbers of 10 to 13 digits | plain texts arrive whole both ways, one-byte characters never panic, what is heard begins as it was written |
| `open_pipes` | 5 outputs of the service, reads of 3 cells, 2 lines of dialogue in a pipe of 2 | the url mailed is whole, a failure is the service's own, opened means mailed, no wait of the two processes for each other |
| `init_script` | 1 caller, 3 pids, daemons that die | one daemon at a time, which can be stopped, and is |

The other five runs refute a sentence of the project: section 5.

### Bounds and why they are enough

- `TunnelManager`. Three processes are a table that is full at its limit of two and one more to
  spare, so that a process that is held twice or forgotten has another beside it; with two users and
  two applications a user has one tunnel or both, and another user's tunnel lies between. References
  `0..2` are those given out and one that is not in the table. With `TunnelTimeout = 1` the ages are
  -1 (in the future), 0, 1 (exactly the timeout) and 2 (beyond): all that the code does with an age is
  to compare it with the timeout and with zero. The clock is set back at any moment and as far as one
  likes, one unit at a step, so that expired tunnels stand beside ones from the future and an age can
  fall between the check and the removal. That the values -1 and 2 each stand for many ages, which a
  step may or may not leave, each tunnel for itself, allows a little more than one clock would.
- `Boot`. `MaxRetry = 2` has a first, a last and no retry left; `MaxTries = 3` is what SIM cards have.
  `starts` is counted up to `MaxTries`, beyond which it bounds nothing. Two users are the one in the
  file and another who asks after him.
- `SmsPort`. `MaxCalls = 2`: a send and what an earlier one left on the port; `MaxStarts = 2`: a start
  and what an earlier daemon left. A buffer of 6 cells holds an answer and an SMS, but not what two
  transactions left. The modem restarts once. The theorems are for any number of calls, starts and
  SMSs.
- `Pdu`. Eight septets fill seven octets: lengths up to ten cross that boundary with each kind of
  character in each of the last two places. 140 and 141 are the two sides of `MaxBytes`, 160 and 161
  of `MaxSeptets`; 10 to 13 digits the two sides of the padding. The theorems are for texts of any
  length.
- `OpenPipes`. Reads of one to three cells cut every output at every place; the theorems are for every
  output and every size of a read.
- `InitScript`. The number of pids only says how many daemons there could be: two would be one too
  many. The call of one shell after another is an assumption, see section 6.
- Symmetry of processes and applications is used in `three_tunnels` only, which has no liveness.
- Deadlock is checked in the runs of `TunnelManager`, `Boot` and `InitScript`, where a reset, a start
  or a call is always possible. It is not in `SmsPort` (starts and sends are bounded, and `init` may
  wait for an answer for ever), nor in `OpenPipes` and `Pdu` (one request, one message, and the end).

### Fairness

- `TunnelManager`: `WF_vars(MainStep)`. A `MainStep` is a step the task takes at the end of a wait that
  has a time limit in the code (the refresh period, the set-up of the tunnel, the mail, the SMS), or
  that ends when a killed process is reaped. The runtime polls the task when the wait is over; the
  panic of the clean-up, which is such a step too, has a condition of its own. Nothing is assumed of
  the environment: no SMS, url, output on stderr, status or sent mail is owed. In particular the read
  of stderr after a failed set-up and the status command, which have no limit, are fair only as far
  as `StderrClosed` (the pipe of a dead process reads as closed).
- `Boot`: `WF_vars(InitStep)`. Every step of it is a reading of the modem, a ping, a sleep, the notice
  or local. Pings, sleeps and the sending of the notice are limited by the code; `qmi_command` is not,
  so the assumption is that `uqmi` returns, with success or an error (`QmiFails`). The set-up of the
  modem (`InitSms`) is not an `InitStep`: `sms_utils::init` has no time limit and may wait for ever, so
  that `InitEnds` has it as the one place where init may stay (`SmsPort` says when: `InitReturns`).
  Resets, deaths, restarts and requests are not fair.
- `SmsPort`: a read that can return does, `sms_send_timeout_sec` passes, and the modem acts on what it
  is told (`WF_vars(Modem)`). `init` has no time limit, and none is assumed: `InitReturns` needs the
  modem. SMSs, the refresh period, errors and deaths are not fair.
- `OpenPipes`: the daemon's reads and writes, and sendmail while it is not kept waiting. No time limit
  is assumed to pass, because `MailEnds` is about the pipes: with one it would hold of a deadlock too.

## 4. Theorems

From the named assumptions on the constants only (`ConfigAssumption`, `MsgAssumption`,
`BootAssumption`, `ScriptAssumption`, `PipesAssumption`, `PortAssumption`, `PduAssumption`): the number
of users, applications and references, the limit, the timeout, the faults, the outputs of the service,
the texts and the numbers are arbitrary, and the set of process identifiers of `TunnelManager` any
finite one.

`TunnelManagerProofs`

| Theorem | States |
|---|---|
| `Invariance` | `Spec => []IInv` |
| `TypeCorrect`, `OneTunnelTheorem`, `AnswersTheorem`, `NoticeTheorem` | the invariants of run `three_tunnels` that are conjuncts of `IInv` |
| `NoOrphans`, `TunnelLimitTheorem` | `LiveTracked` and `TunnelLimit`, without SIGTERM |
| `NeverEarlyTheorem`, `OrphansTheorem` | the action properties `NeverCleanedEarly` and `OnlyStopOrphans` |
| `ReferenceTheorem`, `ImplementationTheorem` | with `tunnel_max_number = 1`, `ReferenceStable` and the refinement of `TunnelService` |
| `ReusingTheorem` | with any limit, the refinement of the weaker service, in which references are reused |

The invariants are not inductive by themselves. That no user has two tunnels to an application
depends on a check made two awaits before the insertion; what carries it is `ChecksHold`: while a
tunnel is being opened, the table has room, has none of this user to this application, and nobody
else changes the table. `ClosingOK` relates the loop of close to the table, `ChosenExpired` the loop
of the clean-up to what the clock has shown before it (it may show less by now),
`HeldOnce` says that removing one tunnel kills no other's process, and `LocalsOK` what the locals
hold at each await. `IInv` is their conjunction, itself checked by run `three_tunnels`. Each
conjunct has a lemma that a step preserves it, by cases on the few groups of actions that touch it
(`TableCases`: the table is left alone, gains a tunnel, shrinks, or ages).

`TunnelLimit` is about running processes, and follows from `LiveTracked`, `TableFits`, `ChecksHold` and
a counting lemma: the processes of the table are the image of its references.
The refinement maps `EmailSent` to `Open`, removals and ends of the process to `End`, all else to
stuttering; with a limit of one, the table is empty when a tunnel is inserted, so its reference is free.
With any limit, what is left to show is that the reference is one of the service's at all, and that the
limit and the uniqueness of grants hold at the insertion. The second is `ChecksHold`; the first is the
counting lemma `NextReferenceFits`: every tunnel of the table holds a process of its own (`HeldOnce`),
so that there are never more references than processes.

`BootProofs`: `Invariance`, `BootTypeCorrect`, `PinTheorem` and `NoticeTheorem`, for any `MaxRetry`,
number of tries, PIN and faults. `AttemptLeft` is the key of `PinTheorem`: until a start has tried the
PIN, the tries lost were paid by earlier starts. `ListenerOwed` is that of `NoticeTheorem`: what the file
names is a user who is owed a notice or whom a failed deletion left there, at every moment between a
registration, successful or not, and the next notice.

`InitScriptProofs`: `ScriptInvariance`, `ScriptTypeCorrect`, `OneDaemonTheorem`, `StoppableTheorem` and
`StopTheorem`, for one call after the other and process identifiers that have not wrapped around
(`OneCaller`, `NoWrap`: antecedents of the theorems, because the script does not ensure them). `CallOK`
says who could be running at each place of a call, and so that a start that finds no file finds no
daemon; type correctness is checked as a part of `IInv`.

`SmsPortProofs`: `PortInvariance`, `PortTypeCorrect`, `OkTheorem` and `HeardTheorem`, for any SMSs,
sizes and faults. Nothing in an answer says which command it belongs to, and a call that timed out leaves its own behind.
That Ok is still true comes from order (`PromptOrder`): a PDU is only written after a prompt was read, a
modem that shows a prompt answers nothing until it has been told a PDU, and so there is never a second
prompt or an OK on the port behind a first prompt, nor a second PDU on its way. While the answer to a
PDU is awaited (`AwaitingAnswer`), that PDU is the last thing the modem was told, and an OK on the
port is that of an SMS that was sent. A modem that restarts forgets the prompt that is still to be
read: the condition of `OkTrue`. `HeardIfAlone` is an action property, and its strengthening is
`Framed`: what is on the port of an SMS of which nothing was read is all of it, the `+CMT` before its
other cells and its end after them, whatever else lies between or around. A read that takes all of
the port then has both, and `wait_sms` hears the SMS unless there are cells of another one.

`OpenPipesProofs`: `PipesInvariance`, `PipesTypeCorrect`, `UrlTheorem`, `ReasonTheorem` and
`MailTheorem`. Between the reads, what was read is a beginning of what the service will have written
(in `TypeOK`). The lemmas are about the regular expressions: a line that has ended in a beginning of a
text ends at the same place in the whole text, and no line can begin before the first (`FirstUrlKept`);
a code may go on after the beginning that was read, and only that (`CodeKept`). This is why the url
is whole and the code is a prefix.

`PhoneNumberProofs`: `SwapTwice`, that swapping the digits of each pair twice gives an even sequence
back, and `NumberReturns`, that a number of at most twelve digits comes out of its field as it went in,
followed by the padding that the code removes.

`PduProofs`: `PduInvariance`, `PduTypeCorrect`, `WrittenTheorem`, `IntactTheorem` and `NoPanicTheorem`,
for every set of texts and numbers. The invariant (`IInv` of that module) is that what is on its way is
what was coded, and the result that of its being read; what there is to prove is in the operators:

- `SeptetsReturn`: unpacking gives any septets back, and a zero more if they were one short of full
  octets. A septet is put together from the two octets it was divided between (`SeptetFromOctets`, one
  case for each of the eight shifts), and its octets are found from its place in its group of eight.
- `HexReturns`, `SenderReturns` and the fields of a PDU (`Fields`: the sequences that it was joined of
  are found at the fixed places the code slices at).
- `LaidSpelt`: spelling gives back any text, escapes included. `Laid` says where each character of
  a text begins in its septets. Every septet is the first or second one of a character (`LaidPlaces`),
  and no character begins after an escape (`LaidBegins`), so that the places that `Spelt` keeps, those
  with an even number of escapes right before them, are the beginnings in their order (`KeepAlong`).
- `Written` joins its sequences by the recursive function of the community modules (`FlattenSeq`).
  `FlattenSteps` shows that for every text there is a function that joins them one by one, without
  the library's induction theorems: of the lengths up to which there is none, there would be a least.
  `LaidOut` follows that function.

`TextReturns` combines these, and `Decoded` says what the truncation makes of the result: with characters
of one byte there is a cut at every length (`CutText`), so that `truncate` never panics, and a text is
never longer in characters than in septets, so that nothing of it is cut off.

Model-checked only, being liveness: `ExpiredEventuallyClosed`, `HandlerProgress`, `InitEnds`, `SendEnds`,
`InitReturns`, `MailEnds`. Every invariant and every action property of a run that holds is a theorem.

## 5. Where the code and its words differ

Each is the counterexample of a run that checks one sentence of the project.

| Run | The project says | The code does |
|---|---|---|
| `reference_reuse` | the reference identifies the newly created tunnel (README) | references are the number of open tunnels: after a close, a live one is given out again and its tunnel silently dropped |
| `orphan` | `kill_on_drop`: "proper housekeeping in case daemon is killed" (`ssh_utils.rs`) | SIGTERM drops nothing, the ssh processes go on |
| `open_unanswered` | a failed open is answered with its reason (README) | the read of stderr after a timeout has no limit |
| `sms_swallowed` | the daemon monitors incoming SMSs (README) | an SMS that arrives during `init` or `send_sms` is read with the answer, and dropped |
| `len_in_septets` | "len is specified in terms of septets" (`sms_utils.rs`) | it is written in bytes of UTF-8 |

Other differences that the models have, in states that they reach, without a run of their own:

- Each SMS and each listening error starts the refresh period anew, so that the routines may never run
  (README: "periodically"). `ExpiredEventuallyClosed` has their end as its condition.
- A clock that is set back panics the clean-up (the `unwrap` of `duration_since`), perhaps after some
  users were told that their tunnels expired; all tunnels end.
- A reboot may come before its reply, or in the middle of it: it is started after five seconds whether
  the reply has been sent or not (README: "first replies", then reboots). Both orders are states of the
  models, see section 6.
- A user is told again, at each start, that the router is up, as long as the register file cannot be
  deleted; one whose registration failed, or whose notice cannot be read or sent, is never told.
- A daemon that found no LTE service or a locked SIM card, or whose modem has restarted since, receives
  nothing until the next start (README: the modem "may restart on its own and lose its configuration").
- A second reboot request replaces the sender of the first, who is never told that the reboot is done.
- An SMS of which the notice and PDU are longer than one read is never heard, and of two in one read
  only the first is (`HeardIfAlone` names both).
- A death of the daemon between `AT+CMGS` and the PDU leaves the modem at its prompt, where the next
  `init` waits for ever (`InitReturns` names it).
- An incoming text whose septets are one short of full octets is decoded with an "@" more. The
  truncation removes it, but counts characters where the field counts septets: if there is an escape in
  the text, the "@" stays (`HeardAsWritten` names it).
- An incoming text whose end is cut within an accented letter panics `wait_sms` (`truncate`), and so
  does a PDU that is too short. `NoPanic` has one-byte characters as its condition.
- A mail that was sent fails if sendmail's dialogue is not UTF-8, and one that has timed out may be
  delivered later: the url mailed then is that of a tunnel that was dropped. `MailTrue` is the other
  direction.
- The script's status says "running" when the daemon is dead, until a stop. A second start within the
  two seconds of the first runs a second daemon, and once process identifiers have wrapped around, the
  file may name the `grep`: `InitScript` with two `Callers`, or with the fault "wrap", reaches both.

## 6. Not modelled

- The composition of `Boot`, `TunnelManager` and `SmsPort` in one module. Each takes the outcomes of the
  others as a choice of its own: `TunnelManager` any status, any end of a wait and any reset; `Boot` any
  end of the set-up of the modem and of the notice, and no request but status, reboot and shutdown.
  A property that needs two of them at once, such as that a request is served by a modem that is set
  up, is not stated.
- The scheduled command that asks the modem for its state through the same port (`gl_modem`): a second
  process on the port, outside the code. With it, a foreign OK could be taken for that of a PDU.
- The five seconds of the delayed reboot and shutdown against the time a response takes. The README
  promises the reply first; the code relates neither clock to the other. `Boot` has the commands run at
  any later moment, and `TunnelManager` a reset while the reply is sent: without the two durations a
  run that refutes the order would show no more than that.
- The pings of services and applications, which `status.rs` does one after the other: one step with any
  outcome. Their name look-ups block the only thread of the runtime, which no module can express, as
  none has a thread below the tasks.
- The parsing of the modem's JSON and of the configuration: reduced to success or failure.
- The wrapping of process identifiers and concurrent calls of the init script are in `InitScript`
  (`Faults`, `Callers`) but outside its run and its theorems; a second SMS is in `SmsPort`, in its
  theorems but outside its runs.
- The web interface, packaging, logging and the command line: no state that another part relies on.

## 7. Plan

Done: `TunnelService` and `TunnelManager`, `Boot`, `SmsPort`, `Pdu` and `PhoneNumber`, `OpenPipes`,
`InitScript`, with the runs and theorems above; every safety property of a run that holds is proved.

Left, most useful first:

1. The exact condition under which a text of characters of several bytes panics `wait_sms`, as a
   property with a theorem: the condition of `NoPanic` is sufficient only.
2. A clock shared by the delayed reboot and its reply, with `sms_send_timeout_sec` and the five seconds
   as constants: for which of them the order that the README promises holds.
3. The pings of `status.rs` one by one, if something else than the first failure matters.
