# OPORA: formal models of remote control and field work

OPORA is a Flask monolith for a municipal street-lighting company (requests,
defects, work plans, contracts) that also drives the lighting boards: operators
press NIGHT, DAY or a single relay in the browser, and a controller in a cabinet
somewhere in the city switches contactors. This directory holds TLA+ modules of
the parts of the system where several processes, sockets and controllers act at
once - remote switching, the polling of the electricity meters behind the
ATM21 modems, plans and waybills that several masters edit, the import of mail,
the chain from an object to its contract and the import from the procurement
site -, the TLC configurations that check them, and theorems that TLAPS proves.

Everything is read from the source. A comment names the function each definition
stands for; the `map` of `PROJECT.json` gives its lines.

## Inventory

Processes: Gunicorn workers (gthread), the TCP gateway, the ATM21 modem gateway,
the IRZ poller, one PostgreSQL database between them, and the boards. Each
server process runs in docker with `restart: unless-stopped`.

| Component | State | Operations | What makes it correct |
|---|---|---|---|
| Device command queue, web side (`modules/devices`, `models/devices`) | rows of `device_commands` and `devices` | enqueue, settle (expire, release), edit, delete, status | one active command per device; every command reaches an outcome; buttons come back |
| TCP gateway (`tcp_gateway/main.py`) | connections, unsent lines, line awaiting a STATE, socket ends | authenticate, STATE/PONG/OK/ERR/ack frames, ping, dispatch, requeue, diagnostic GET | one serving connection per device, shown online; a completed command has switched the board; pending is sent |
| Board firmware (`Board/main.c`) | relay latches, socket, `authenticated`, one kept line | connect, authenticate, read lines, execute, answer, report, reconnect, power loss | executes what it answers OK to; keeps its outputs over reconnects |
| Input test and phase map (`models/devices/state.py`) | a session, a journal, the confirmed bits | start, sample, mark, reset, confirm, save the form | a result is in the journal, a confirmed bit has its test or its form, a marked test ends, whatever is overwritten |
| ATM21 modem gateway (`modem_gateway`) | connections by IMEI, a lock and one pending request each, open meter channels | register, ask, feed, open, poll, remove | an answer belongs to its request; a silent meter is left; a new connection is not hidden by the end of an old one |
| IRZ polling (`modules/irz`) | poll leases, slots, snapshots | schedule, lease, poll, record, release | a device is polled by one poller at a time, every device gets its turn |
| Requests, numbering (`modules/requests`, `core/numbering.py`) | requests, journals, history | register, assign, move, close, repeat, delete | legal transitions, unique numbers |
| Defects, work orders, waybills | defects, plans, plan items, stops | inspect, plan, start, complete, exclude, give back | a work is in one open plan; a plan ends with its works; a work that is held or closed is not given back |
| Objects, projects, tenders, contracts (`modules/objects` ... `modules/contracts`) | rows, links between them, some soft-deleted, statuses derived from each other | create, edit, link, unlink, move on, delete; the chain that a result calls for | one open project of an object; the primary project is a link; one row per number |
| EIS import (`modules/eis`) | import runs, the registration numbers on tenders and contracts | match a notice, ensure its project, tender and contract, fill what is empty | a card has one row, importing it again adds nothing, users' changes are kept |
| Inquiries (`modules/inquiries`) | a folder of mail, imported rows, an advisory lock | sync, import, restore files | a letter becomes one inquiry (in one numbering of the folder) with its own files, and none is forgotten |
| Messenger, notifications, search, audit, reports | rows | create, read, mark | row-level CRUD |
| Authentication, roles, field permissions | sessions, role tables | login, check | a decision table |
| Documents, agreements, uploads, addresses, geocoding | files, text | parse, normalise | text and I/O |

How they interact: a browser request is one transaction of a web worker. The
gateway reads and writes the same two tables in transactions of its own. Nothing
but PostgreSQL (a row lock in one place, a partial unique index, READ COMMITTED)
orders the two. The gateway is one asyncio loop: the code between two awaits is
not interrupted by another of its tasks, but a transaction in it runs beside the
web's. A board talks to it over one TCP connection per session; v2 lines carry
no command id.

What is hard here: two writers of one row that read, decide and write columns
later; answers that arrive late, twice, or not at all; connections that are
replaced while their handler still runs; commands of two lines; timeouts that
race with answers; a process that dies between a commit and a write; a board that
keeps one line per read. `hazards` in `PROJECT.json` lists each at its line with
the property that would catch it, or why none does.

## Modules

`SwitchProtocol` - relays, payloads, lines, frames; `_v2_steps` and
`payload_matches_actual` as operators.

`CommandStore` - the two tables. `cmd[c]` is a row of `device_commands`,
`dev[d]` one of `devices`. A transaction carries `Writes`, the columns it decided
to change, and commits them to whatever the row is by then (`Update`), as
SQLAlchemy's UPDATE by id does; `IndexHolds` is the partial unique index.
Deadlines are the flag `late` of a row.

`DeviceWeb` - the workers. `SettleBegin/SettleCommit` are
`_settle_command_queue`, `EnqueueBegin/EnqueueCommit` are
`_queue_switch_command` and `create_command`; `EditEnabled`, `DeleteDevice` the
administrator.

`Board` - connections and controllers. `link[k]` is one TCP connection: what each
end thinks of it and the lines or frames in flight in each direction. `Execute`
is one turn of `socket_read_once`: it takes any number of the lines that wait,
keeps the first (`text_feed`), executes and answers it; `Authenticated` is the
same turn while `auth_feed` looks for the greeting; `Drop` and `Reboot` are
failures. A v1 controller is the peer that the v1 branch of the gateway expects.

`TcpGateway` - the gateway. A stretch of code with a transaction is two steps:
one that reads, decides and changes the process's dictionaries, and `GwCommit`,
which writes and does what follows up to the next await. `gtx` is the open
transaction. `GwHello`, `GwReject`, `GwReport` (STATE, PONG), `GwNextStep` and
`GwAnswer` (OK, ERR, ack), `GwPing`, `GwBye` are the handler; `GwScan`, `GwSend`,
`GwRequeue`, `GwDiagnosticGet` the dispatcher; `GwCrash`, `GwStart` the process.

`DeviceControl` composes them: `Next`, fairness, the properties, the inductive
invariant `Inv`, and the refinement mapping to `CommandLifecycle`, the abstract
queue: a slot per device that a command enters pending, leaves pending only by
being sent, and leaves with an outcome that never changes.

`DeviceControlProofs` - the theorems about the composed system; `CommandQueueProofs` -
that it implements `CommandLifecycle`, and that a first command shown completed was
obeyed. `MCDeviceControl` - values for TLC.

`PollSchedule` - the slots of `modules/irz/scheduler.py`: `Offset` is
`schedule_offsets`, `SlotStart` is `slot_start`. Devices are numbers, the order of
their IMEIs.

`IrzPolling` - the poller process, its thread pool, the web workers that poll by
hand, and the rows of `irz_devices`. `Fetch` and `Submit` are `run_loop`: one query
for what is due, then a look at `in_flight` per device. `Take` to `Finish` are
`worker`, `poll_one` and `poll_device`: `Acquire` is the conditional UPDATE of the
lease, `Answer` whatever the gateway request ends with, `Record` `_record_poll`,
`Release` the unconditional UPDATE in the `finally`; `Fail` and `FailUnreleased`
are the exceptions between them, before and after which the session can still
release. `Crash` is the poller dying and docker starting it again; leases stay.
`Identify`, `ListDevices` and `Disconnect` bring and take modems.
`IrzPollingProofs` - its theorems.

`MeterTunnel` - the ATM21 gateway with one modem and its meter. `Connect`, `Cut`
and `HandlerEnds` are a connection from `register` to the `finally` of `handle`;
`registered` is `ConnectionRegistry`. `AskMercury` takes the lock of a connection,
sets its pending request and sends; `Answer` is `handle` reading a frame and
`feed_mercury_candidate` comparing it with that request (`Fits` is
`match_mercury_frame`); `Answered`, `GiveUp`, `Offline` and `SendFails` are the
ways out of `ask_mercury`, with all that the thread does up to its next request
(`After`: `poll`, `execute` and `open_channel`). `NextCommand` is the head of the
loop of `poll`. `RawSend` is `/send`. `MeterTunnelProofs` - its theorems.

`WorkStatus` - statuses of requests and defects, their transitions, and the two
operations by which plans move them. `WorkPlans` - the database as a function
from cells (columns of rows) to values, and an action per operation of
`plan_service.py` and `waybills/services.py`, with what they do to the statuses,
and the operations of requests and defects. A handler runs at once, or as the one
transaction `slow`, which reads now and commits later only the cells it changed
(`ReadNow`, `SlowCommits`), so that two of them overlap. `WorkPlansProofs` - its
theorems.

`InquirySync` - `InquiryService.sync` run by the service and by threads of the web.
`StartSync` is everything up to the first commit: the lock, the snapshot, the
restored files and the batch. `ImportMail` and `SkipOld` are one turn of the loop,
`EndRun` the unlock, on whatever connection the pool gives; `Recycle` is
`pool_recycle`. `Deliver`, `DeleteMail`, `Renumber` and `LoseFile` are the mail
server and the disk. `InquirySyncProofs` - its theorems.

`ProcurementChain` - objects, projects, tenders and contracts as one record of
tables, `db`. A helper of the services is an operator from tables to tables
(`AddProjects` is `create_project`, `SideEffects` `_apply_status_side_effects`,
`LinkProjects` `_ensure_project_link`, ...) and a handler is their composition in
the code's order, saved by one commit: a unique index or a check that refuses it
makes it no step. `Replan` is the edit of an object whose result changed and a row
of the lighting plan: `_ensure_chain_for_result` makes the project, tender and
contract that are missing, each reading what was made before it. `Transition`,
`LinkObject`, `UnlinkProject`, ... are the pages of a contract. Soft-deleted links
are kept (`leftTender`, `leftObject`) where code reads or restores them. The import
is `ImportOrder` (`_sync_order`, whole, or cut off after its first commit) and
`ImportContract` (`_sync_contract` of the register); `Publish` is the site going on.
`ProcurementProofs` - its theorems.

`MCBackOffice` puts `WorkPlans` and `MeterTunnel` side by side for TLC, `MCImports`
`InquirySync` and `ProcurementChain`, `MCPollsAndTests` `IrzPolling` and `InputTest`: a
behaviour exercises one of the two. Those of `InputTest` are of two kinds, about frames
or about maps (see Runs).

`InputTest` - the test that finds the bit of U2 or U3 a pin drives: `session`, its
journal `log` and the confirmed `map`. `ReadSession` and `CommitSample` are the
transaction of `_set_connection` around `apply_input_test_sample` (`Sampled`); `Start`,
`Reset`, `Mark`, `Confirm` and `EditForm` are the routes. A mark or a confirmation
opens a request with what it has read and `Commit` writes that; a start, a reset and a
form write the same whatever they have read, so they are their commit. `EditForm` is
`save_phase_map`: it stores any map, with any bit of any pin confirmed, and `entered`
remembers the pins and bits it confirmed. `PilotPins` are those that migration 066
confirms without a test. `late` remembers how many frames were on their way when each
test was started. `InputTestProofs` - its theorems.

### Abstractions

Left out of the modelled code because no property is about it: `desired_state`,
telemetry, diagnostic samples, audit rows, log and error texts.
HMAC and secrets are an auth frame that is accepted or refused. A malformed frame
ends a handler, as any failure does. Lines are whole: a read of the board takes
full lines and the gateway's reader full frames, except that an OK may be
joined to what follows it (`send_ok_one` announces 6 bytes of 7), so an answer
to a SET may be lost. `newer` (last_state_at >= created_at) is stamped for the
rows a report saw when it began. A change of key, secret or protocol of a
connected device, soft-deleted commands and a graceful stop are not modelled.
Timing: a command whose failed write is being handled does not reach its deadline
first; a failed `drain` is handled in microseconds, the deadline is seconds away.

Polling: time is a clock modulo the interval, a lease the ticks it has left, the
time of the last poll its age up to the interval. A tick is the sleep of
`run_loop`; one pass, and the steps of a thread other than the request and its
record, fit into it. `InTime` is the assumption that `poll_device` makes without
stating it: a request ends by `IRZ_POLL_TIMEOUT_SECONDS` (90; `urlopen` in fact
applies it to each socket operation) and its record is committed within the 30
seconds the lease adds. `enabled` is left out because no code clears it, row ids
are the IMEIs, and a poll that goes on in the modem gateway after its client has
timed out or died is that gateway's business, which serialises per modem.

The tunnel: connections are never identified with older ones (the code keys open
channels by `id(session)`, which Python may reuse). A password is tried again in
another encoding or not, as the password decides. What a thread does between
two requests without waiting is one step with the end of the first. A frame is its
sender, its length and whether it is an error status; garbage that does not start
at the buffer's head is "noise".

Plans and waybills: the number of a plan and the order of a stop are only their
unique indexes, which make one of two overlapping handlers fail. `raced` collects
the rows that a transaction committed over a change it had not read; no property
speaks of them, because the code promises nothing there: READ COMMITTED without
a second look at what was read. A waybill is the open one of a master's day. The
two legacy codes of a request have the transitions of `new`.

A command of a meter is one exchange. In the code those that read phases one by one,
tariffs and journals send several requests (`mercury230.py`). In a poll such a command
ends with its first timeout, as it does here, and the journals, which count their own
timeouts, are not polled.

The input test: a reading is the levels of the bits; the active levels of the map,
transitions and the measured bytes decide nothing and are left out. A pin that the map
names a bit for but does not confirm is as good as blank. A request that writes what it
has read is no UPDATE and no step. The page shows the pilot's pin as confirmed before
the row says so (`routes.py:138`); the model has the row.

Mail: a letter is its identity; a header that cannot be read is not distinguished
from a recent one. Fetching and importing one letter is a step, since no other run
reads what it writes before its commit. `purge_older_than_year` is left out.

Procurement: statuses that no guard of the code tells apart are one
(`ProcurementChain` lists them); the legacy status `on_hold` is left out, and so are
creating and deleting objects, contractors, documents and sums. What an address
matches is an input (`MainObject`, `OtherObjects`, `PlaceObject`); a notice has one
contract; a contract's number is that of some card, since another number meets
nothing. The importing process has an audit user (without one it can make no
tender). A card and a handler are one transaction each: two of them that read
before the other's commit are not modelled (`hazards`). Rows of the lighting plan
are saved one by one, although the code commits the file at once.

## Runs

Bounds are constants: `MaxConn` connections ever opened, `MaxQueue` lines or
frames in flight one way, `AdminBudget`, `RebootBudget`, `CrashBudget`, the
number of command rows. Ping and diagnostic GET are sent only with nothing in
flight, and a pass of the dispatcher with nothing to do is not a step.
`CHECK_DEADLOCK FALSE` because a behaviour ends when its connections and
commands are used up. `Interleaved = FALSE` runs transactions one at a time.

| Run | Instance | Shows |
|---|---|---|
| `device_queue` | 2 workers, 2 commands, 1 device of either protocol, all transactions interleaved | `TypeOK`, `OneActive`: the read that found the slot free is stale at commit, and the index still keeps one active command |
| `device_session` | 1 night command, 2 connections, an administrator, a gateway crash, interleaved (1.1 million states) | `OpenIsRegistered`, `Presence`, `CompletedSwitched` |
| `device_lifecycle` | 3 commands, diagnostic mode, a power loss, transactions one at a time | `ImplementsQueue`: refinement of `CommandLifecycle` |
| `device_liveness` | 1 command, 2 connections, a gateway crash, fairness | `SlotIsGivenBack`, `PendingIsSent` |
| `second_line`, `refused`, `late_timeout`, `state_completes` | small | the first four findings below |
| `irz_stale_due` | 1 modem, 1 pool thread | the fifth finding |
| `polls_and_tests` | polls: 2 modems, interval 3, 1 pool thread, 1 user, leases of 2 ticks, 1 manual poll, 1 failure, 1 crash, 2 changes of links; test: 2 pins, one of them the pilot's, 1 bit, 2 requests at once, 2 tests, 2 samples, 1 change of the input; about frames: 2 on their way, 2 marks and a fault, no confirmation; about maps: 2 confirmations or forms, 1 mark, at most 1 frame on its way (550 thousand states) | `TypeOK`, `OnePollPerAtm`, `LeaseOfHolder`, `SubmittedOnce`, and with fairness `DueIsPolled`; `TestTypeOK`, `DoneIsLogged`, `MapFromTests`, `LoggedHasChanged`, and with fairness `MarkedTestEnds` |
| `back_office` | works: 1 request, 1 defect, 1 master, 2 plans, 1 of them an old draft; tunnel: 1 poller, 1 operator, 2 connections, 2 commands, the second behind the channel, 2 requests under way (1.3 million states) | `WorksTypeOK`, `OneActivePlan`, `PlanEndsWithItsWorks`, `HeldWorkIsNotReturned`, `ClosedWorkStaysClosed`; `TunnelTypeOK`, `OwnAnswer`, `PollLeavesASilentMeter`, `LiveConnectionStays` |
| `imports` | mail: 2 processes with 1 and 2 pooled connections, 3 letters (recent, huge, dated before the year), batches of 2, one renumbering; site: 2 objects, 2 cards, 3 projects, 2 tenders, 2 contracts, 1 handler of a user (231 thousand states) | `MailTypeOK`, `OneInquiryPerNumbering`, `FileOfItsMail`, and with fairness `EveryMailImported`; `ChainTypeOK`, `PrimaryIsLinked`, `OneOpenProject`, `OneRowPerCard`, `SiteImportRepeats`, `ImportFillsOnly` |

Why the bounds are enough: a second command and a second worker are what a race
for the slot needs; a third command shows a slot being used again after a
replacement; a second connection is what replacing one needs; two lines in flight
is what a two-line command or the greeting takes. The second device is left out
because devices share no state but the loop; the theorems hold for any number.
For polling, a pool thread against a user is the only way two polls of one device
meet (`in_flight` keeps pool threads apart, which `SubmittedOnce` says); two
devices behind one thread make one wait; a lease of a dead poller runs out within
an interval. `InFlightLimit` is not reached with two devices: what happens to
safety at the limit is covered by the theorems, which hold for any limit, and
`DueIsPolled` is claimed only below it. At the limit it fails: the list is always
walked in IMEI order, so when low IMEIs are back in the list (or still in a stale
one) each time a place is free, a high IMEI waits for ever. The code has
`workers * 4` = 32 places.

For the input test, two tests are the one that is put back and the one it replaces, two
requests overwrite each other, and one bit is enough for a result or none; two bits
(AMBIGUOUS) are covered by the theorems. Nothing tells a level from its
opposite, so the inputs are low at first. What is hard about frames - old ones, a mark
that is written over, a death of the gateway - is about one session, and no map is
looked at by it; what is hard about maps is that two requests overlap and that the test
they look at is reset or replaced meanwhile, for which it does not matter how the test
came to its result. So the run has two kinds of behaviours; the theorems need neither
kind. Two samples make a stable run here, three in the code. As many frames can be on
their way as make one, so that the baseline of a test may be older than its start: a
bit is then logged that has not changed since, in the run as in the code.
`LoggedHasChanged` speaks of the tests at whose start fewer frames were on their way
(`late`); without that condition TLC finds it violated.

For plans, two plans and a waybill are the three holders that can meet over one
work; a request and a defect differ in how they are closed; a third handler
would have to overlap with two others. For the tunnel, two requests under way are
an abandoned one and the present one; two connections are a replaced one and its
successor; the two commands have the same expected length, so that the answer to
one can be taken for the other. The operator's command is the one behind the channel,
since the other one is run by a poll just so, and raw bytes go to the registered connection; on a
replaced one a request is abandoned by its deadline. For mail, one more letter than a
batch holds is what makes batches matter, and a process with two connections is what loses or
keeps the lock. Where two connections of a process, or two idle requests of the input
test, differ in nothing, the run takes the first (`AlwaysW1`, `FirstIsH1`): by symmetry
nothing is lost.

For the site, one card names two objects and the other, which no notice matches,
names the second of them in its contract, so that both cards meet over an object, a
project and a tender; one handler, with any of its inputs, comes before, between or
after any imports of either card at any stage of its notice; the second card, signed,
stays in force, since completion and termination are the first one's. `Typed` leaves out
statuses that a form can also enter but that a handler reaches by itself.
`SiteImportRepeats` looks two imports ahead from every state but the first, which is
also the state of the tables all through the behaviours of the mail; the proof covers
the first as well (`ImportRepeats`). More handlers in a row
are beyond TLC here; `PrimaryIsLinked`, `OneRowPerCard`, `ImportFillsOnly` and
`ImportRepeats` are proved for any number of them. `OneOpenProject` excepts objects of which a tender or
a contract has reopened a closed project (`reopened`): the code does that without
the check of the form. `SiteImportRepeats` excepts an import that has just reopened a
project, or that took over a contract to which a user gave another card's number:
there the next import sees other rows.

`CompletedSwitched` speaks of the first command of a device, until it is given a
second one, and is checked and proved where boards keep their power: one that reboots
after its OK has its relays off when the OK is read. With contrary
commands in flight the like does not hold, nor could it: v2 answers name no command
(see `second_line`), and a command may be completed from a state reported before
it (see `state_completes`). `ImplementsQueue` needs transactions one at a time:
interleaved, a completed row may turn into timeout (`late_timeout`).

### Fairness

`GwCommit`, `GwStart`, web turns, deadlines and a board's turn are weakly fair:
the event loop does not stop in the middle of a stretch, docker restarts the
gateway, Gunicorn finishes or kills a request, clocks move, `main` loops for
ever. The dispatcher and each connection's handler are strongly fair: asyncio's
ready queue is FIFO, so a task that is ready again and again gets its turn
although others keep the loop in transactions. Nothing is assumed of users, the
network, reconnecting, or of a commit that the database refuses.

The clock, the scheduler's loop and each thread's steps in `IrzPolling` are weakly
fair: every wait in them has a timeout, the pool's queue is FIFO, and docker
restarts the process. Nothing is assumed of users, modems, failures or crashes.

In `InputTest` the board reports every `STATE_PERIOD_MS` and the gateway reads and
commits what arrives; nothing is assumed of the operator.

In `InquirySync` a run always ends (every IMAP call has a timeout: weak fairness of
its steps), the service's loop tries again for ever, an idle connection is checked
out by other requests sooner or later, so that `pool_recycle` drops what it holds,
and the server does not refuse the same letter for ever (strong fairness of the
service's start, of passing over an old letter, and of importing each letter).
Nobody has to press the button of the page. `RoomBesideOldMails` is the assumption
the code makes without stating it: fewer letters dated before the year than a
batch holds, since they leave no trace and come again.

### Findings

* `second_line` - an OK delayed behind its STATE is taken for the next command's
  first line; its second line goes out before the first is executed.
* `refused` - the tail of `AUTHENTICATED 2` is read as a command, and the ERR it
  earns fails whatever command is in flight.
* `late_timeout` - a page view that read a command as sent commits `timeout` over
  the OK that came in between.
* `state_completes` - `docs/ARCHITECTURE.md` says OK completes a v2 command and
  STATE only updates the known state; the code completes by STATE as well.
* `irz_stale_due` - `docs/IRZ_MERCURY.md` has a device due once per slot; a poll
  that finishes between the query for due devices and the loop over them is
  submitted again, and nothing looks at `last_polled_at` before it runs.

Seen while modelling, not claimed by any document: after a gateway restart the rest
of a two-line command is never sent (`command_steps` is memory), and only a
matching state or its deadline ends it; a follow-up line may be sent after its command has failed; a crash leaves devices
shown online; a pending command never expires; disabling or deleting a device
does not stop what is queued; an `IntegrityError` in the requeue ends the
dispatcher task (`dead`). In polling: an exception in `_record_poll` leaves
assignments that the commit of the release makes permanent; when the database
refuses the record, the release fails as well and the lease runs out by itself;
single commands merge into `latest_snapshot` without the lease.
In plans: `plan_save` makes a plan of waybill stops, which are in progress already,
so the plan remembers `in_progress` as the status to give back, and excluding the
work leaves it in progress although its docstring
(`requests/services.py:956`) has the status returned that the plan took;
cancelling or deleting a waybill gives nothing back; a request deleted while a
started plan holds it can neither be completed nor excluded; `add_item` does
not look at waybills. In the tunnel: a command whose channel could not be opened
at the second timeout is in neither list of a poll's result; the second run of a
command after reopening goes to the connection of the first run. In mail: a lost
file is restored by UID whatever the folder's numbering is; a letter whose import
always fails ends every run before the older letters. In procurement: a lost or
cancelled tender turns a completed project back into an active one; completing a
contract completes the objects that were unlinked from it; the form of an object
leaves it `in_project` after making its tender and contract; importing a notice a
second time turns the projects of its tender back into `in_tender`, of which the
contract's part lifts only the first one's. In the input test: a start, a mark or a
reset that commits while a sample is being taken is written over by the test the
gateway had read, so that a test that was replaced or reset may come back with its
samples; three frames that were sent before a start and arrive after it make a baseline
older than the test, and a bit is logged that has not changed since. In mail, too: a
renumbered folder has all its letters of the year imported again, since only inquiries
of the present UIDVALIDITY count as imported.

## Proofs

`DeviceControlProofs` proves, for every value of the constants that meets the
named assumptions (payloads of the form, protocols "1" and "2", positive bounds):

* `Invariant`: `Spec => []Inv`, and from it `TypeCorrect`,
  `OpenConnectionIsRegistered`, `ServedIsOnline`;
* `OneActivePerDevice`: `Spec => []OneActive`.

`TypeOK` alone is not inductive: a commit writes to rows that the transaction
found earlier, and a handler indexes tables by the device of its connection. So
`Inv` adds that rows in use have a device and a payload (`RowsKnown`), that used
connections have a device and registered ones are of that device (`LinksKnown`),
that open transactions write only to rows that exist (`WebKnown`, `GatewayKnown`). No run
lists `Inv`, since its parts that are properties are checked by themselves.
`OpenIsRegistered` and `Presence` need to know what a transaction between the two
halves of a greeting or goodbye is about (`ConnectionsInv`): a goodbye that has
unregistered a connection commits "offline" later, and no greeting can come
between because the loop is in that stretch. `OneActive` is proved beside it: each
commit is guarded by the index, the steps that do not write a status keep it,
and an insert meets a row that the index admits. There is a lemma per action
and the theorems only combine them.

`CommandQueueProofs` proves, for the same constants, the refinement and what a completed
command means:

* `TablesImplementQueue`: `Spec => ImplementsQueue` when transactions run one at a time
  (`~Interleaved`), from `OneTransaction`;
* `OnlyStaleWritesBreakQueue`: with any interleaving, every step is one of the queue as
  long as what open transactions will write still fits their rows (`OpenFit`).

The first has its hypothesis because it is false without: `late_timeout` shows a row
completed that turns into timeout. The second says that this is the only way: nothing
that boards, connections, crashes, the administrator or the clock do breaks the queue.
`Serial` is the invariant between the two: who has a transaction open is alone, and a
write that was right when it was decided still is, because only commits change a
status. The mapping is by row: a row `Rests`, `Advances`, `Settles` or `Enters`, and
`RowsImplementQueue` puts rows together into slots with the help of `OneActive`.

* `FirstCommandSwitched`: `Spec => CompletedSwitched` where boards keep their power
  (`RebootBudget = 0`, see Runs), transactions interleaved or not.

For this one `SwitchInv` is needed, and `Inv` and `OneActive` beside it. The command's
lines in the stream to a board, their OKs in the stream back, and the line that waits
in `follow_after_state` for a STATE are one token that moves through the streams of
all connections the device ever had (`OneToken`); while the command is unsent, or is
to be put back after a failed write, there is none (`Unsent`, `NoToken`). Where the token
is says which relays may still be wrong: those that its line sets and those of the lines
in `command_steps` (`Covered`), so that when the last OK is read there are none
(`NothingForgotten`). A command may also be completed by a known state; states that
are in a stream, in an open report or in the table may be old, but only by relays that
have since become as asked (`StatesBehind`), so that one which matches means that the
board does. What a transaction will write was deserved when it was decided and, as
relays only come nearer to the command, still is when it commits (`Deserved`). `Wired`,
`WebMeans` and `GatewayMeans` say, for any number of commands, what the registry and an
open transaction are about. A crash takes the steps away with all connections: what
is on its way is never read, and the command is left to a
matching state or its deadline. TLC found no
violation of `SwitchInv` in the 3 million states it visited of an instance with two
commands, one device and a crash (that search was not exhaustive; the proof is).

`IrzPollingProofs` proves, for any devices, pool, users, limit, timeouts and
interval (positive; pool threads and users are different threads):

* `PollInvariant`, from it `PollTypes` and `OnePollAtATime`; `ExecutorHasItOnce`;
* `SlotContainsNow`, with `OffsetInInterval`: a slot has begun and has not ended.

Mutual exclusion is not inductive: a free lease says nothing about holders unless
it is known that a holder's lease still runs. `LeaseOfHolder` says it: what is left
of the lease and the time it has been held add up to the whole, and a holder has
not held it that long, which `InTime` keeps. `Acquire` then meets no holder, and
`Release` can only free its own. `ExecutorHasItOnce` splits "at most once" into
the queue, the threads, and between the two, and follows a device from one to
the other.

`LeaseAlwaysOfHolder` states `LeaseOfHolder` by itself.

`MeterTunnelProofs` proves, for any pollers, operators, connections and commands:

* `TunnelInvariant`, and from it `TunnelTypes`, `AnswersAreOwn`,
  `SilentMeterIsLeft`; `LiveConnectionIsKept`.

`OwnAnswer` is not inductive: it needs that who holds a connection's lock is who
its pending request is of, that at most one thread waits on a connection, and that
every request under way is the holder's or nobody's any more (`LockInv`,
`ConnInv`); then, when nothing was abandoned as the request went out, the
next answer is the holder's. `PollLeavesASilentMeter` rests on the poll's own count
being at least the number of silences in a row (`CallerInv`).

`InquirySyncProofs` proves, for any letters, processes, connections and batch size:

* `MailInvariant`, and from it `LetterOnce` and `FilesAreFaithful`, without a word
  about the lock: exclusion is not what keeps inquiries unique, but that the folder holds
  a letter under one UID (`HeldOnce`), that an inquiry of the present numbering is about
  the letter that has its UID, and that a key (UIDVALIDITY, UID) is taken once (`KeyOnce`);
* `MailTyped`: the types, with `LockTaken` (whoever runs has taken the lock, so that
  giving it back finds a depth of at least one unless the connection is gone).

`ProcurementProofs` proves, for any objects, cards, matches and bounds of the tables:

* `TablesSound`, and from it `PrimaryAlwaysLinked`, `CardsHaveOneRow` and
  `ImportOnlyFills`;
* `ObjectHasOneProject`;
* `TablesRegular`, and from it `ChainTypes`;
* `CardsRepeat`, from `TablesSound` and `TablesRegular`.

The tables are `Sound` when rows have their fields, primary projects are links,
numbers are unique, and a row that is not made yet is empty; the last is needed
because a handler fills the row it has just found room for. Most operators only
touch objects, projects and their places in tenders (`Beside`) and so keep
everything; the others have a lemma each (`AddContractSound`, `RegisterSound`,
`LinkProjectsSound`, ...). `FindContractIs` is the heart of it: whatever the import
finds by registration or own number is the only row that may take the
registration number. `Extends` composes the operators of the import, of which only
one changes the stage of a contract. That a user's step is no import step rests on
the budget `edits`, which only those steps lower.

`ObjectHasOneProject` follows a handler through its operators: `Carries(a, d, R)` says
that from tables `a` the handler has made tables `d` in which an object outside `R` has
a second open project only if it had one in `a`, and in which projects that were closed
stay closed or are those of `R`. Every operator carries on what the one before it has
done (a lemma each); `AddProjects` meets only objects without an open project, and the
numbers it hands out (`NumberOf`) are new and different, which is counted with
`FiniteSetTheorems`. What reopens projects is in `reopened`, as the property says.

`ChainTypes` is not inductive: a handler names rows by what it has found or by the next
free number, so that every row has its type only if what was found exists and there is a
free number. `TypesInv` adds that only rows that were made are linked to tenders, that
projects are numbered without gaps (`Regular`; several are added at once, and their
numbers must all be free) and that a committed table leaves room for one more handler
(`Fits`, the bound of the model). `Grows(d, e, T)` says what an operator does to regular
tables `d`: the result is regular, what was made or open stays so, only the tables of `T`
get rows, and a live contract keeps its card. It composes (`GrowsTrans`), so that each
reference a handler holds is still good when the handler uses it: the project it has
ensured is found again (`EnsureProjectsGrows`), and so is the contract that it has made or
filled (`UpsertContractRegular`, `CardIsFound`). `Ranks` is the counting behind
`AddProjects`: objects get different numbers, without a gap. A handler that closes
projects only keeps the tables `Regular`.

`CardsRepeat` is about three imports in a row, so it needs no new invariant of the
tables but three facts of an import. It is `Steady`: it takes back no link and no
number, closes no project, and opens one only where there was none or the object's was
closed. It leaves its own card `Settled`, unless it reopened a project: all rows and
links that this card needs are there (`CardDoneSteady`). And an import of a settled card
is `Quiet`: nothing changes by which rows are found, made or linked (`SettledRepeats`).
What lies between is `SettledStays`: a steady import that neither reopens a project nor
takes over a contract unsettles no card, its own or another, which is where the exceptions of the
property come from.

`WorkPlansProofs` proves, for any works, plans, masters and bounds:

* `WorksInvariant`, and from it `WorksTypes`, `WorkInOnePlan`, `PlanEnds`,
  `HeldIsNotReturned` and `ClosedStaysClosed`.

Handlers overlap here, so no table can be called good without regard to who is still
to commit. A handler that begins with a `Good` table takes a `Sound` step from it (a
lemma per handler, which also says what the step keeps: `ReturnsFree`, `KeepsClosed`).
While one transaction is open the table it has read is remembered: what the others have
made of it and what it will make of it are both `Sound` from there, and the late commit
is the merge of the two. A merge spares every cell whose row only one of them touched
(`Overlap`), so the properties hold but for rows in `raced`; after a race no handler
starts, since nothing is claimed of what follows it.

`InputTestProofs` proves, for any pins, bits, requests, number of samples and bounds:

* `TypeCorrect`; `JournalHolds`, and from it `FinishedIsLogged` and `MapHasEvidence`;
* `LoggedBitsChanged`.

`DoneIsLogged` is not inductive, because the row is overwritten by copies read
earlier. `JournalInv` says of every copy what must hold of the row (`Kept`, `Backed`):
a test is saved only when it is done, and a done one is in the journal, or is put
there by the commit that writes it (`KeptByCommit`). The journal only grows, so copies
cannot go stale in this respect; what is confirmed comes from a kept test or the
journal itself (`CandidatesAreLogged`), or from a form, whose entries are never forgotten
(`EditFormStep`). So `MapHasEvidence` holds whatever users type in: a confirmation never
gives a pin a bit of another pin's test, and no stale copy brings in a bit that neither a
test nor a form has had.

`LoggedBitsChanged` assumes nothing of the bounds; the property itself excepts tests at
whose start a stable run of frames was on its way, for which it is false. The code does
not exclude them: a board sends a STATE every two seconds, and after each change of its
inputs, whether the last one has arrived or not, and `STABLE_SAMPLES` is three, so a link
that delays readings by several seconds meets it. `TraceInv` says that of the samples of
any other test fewer than `StableSamples` date from before its start and that these come
first, so that a stable run has one from after the start; a mark keeps the baseline and
with it that reading, however many older frames arrive after the mark.

Only model-checked: the liveness properties (fairness and ENABLED are beyond the
prover) and the findings. With `RebootBudget > 0` or a second command
`CompletedSwitched` is neither checked nor proved, as said under Runs.

## Plan

1. (done) the switch queue, gateway and boards, their invariants proved;
   `IrzPolling`: lease, scheduler and pool, mutual exclusion proved.
2. (done) `MeterTunnel`, proved; `WorkStatus` and `WorkPlans`; `InquirySync`, proved;
   `ProcurementChain` with the import of the site's cards, proved; `InputTest`, proved.
3. (done) Proofs of `OneOpenProject`, `ChainTypeOK`, the invariants of `WorkPlans` and
   the refinement to `CommandLifecycle`; `SiteImportRepeats`; `CompletedSwitched`.
4. `Numbering` (the next number of a year by string order and by maximum); the board's
   input debouncing and its 16-bit clock.

## Not modelled

The rows of import runs and overlapping transactions of the procurement chain, the
messenger, authentication and permissions (a decision table), agreements and
documents (text and files): they have state, but less at stake than what is
modelled. Scraping and document parsing, geocoding, read-only pages, static front
end, migrations and seed data keep no state that a model would tell apart.
