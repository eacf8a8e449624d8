# ScheduleOS: specifications and proofs

TLA+ modules that model ScheduleOS (`src/`), TLC configurations that check them
on small instances, and TLAPS proofs of the properties that matter most. Paths
such as `scheduler.ts` are under `src/src/`. `PROJECT.json` lists the runs, the
mutants, the hazards, the theorems, and for each definition the lines it models.

## 1. The system

ScheduleOS is a TypeScript server that plans a user's tasks into the free time of
a calendar. One Node process serves a JSON API (`api.ts`) over a store that is
kept in memory and written to one file (`store.ts`). SQLite and PostgreSQL
repositories implement the same interfaces as a library: the command line uses them
(backup, clean-up, migrations) and tests do, while `server.ts` runs on the JSON store.
JavaScript runs one handler at a time: a handler is atomic between its
`await`s (the request body, an outgoing webhook, a managed secret, a statement), while
every JSON repository call writes the whole store to disk, so a crash can fall between
any two of them.

| Component | State | Operations | Interacts with | Here |
|---|---|---|---|---|
| Planning engine (`scheduler.ts`) | none between calls | `createSchedule`: order, validate, place, classify | called by plan requests and the command line | modelled |
| Working windows and time zones (`scheduler.ts` 358-560) | none | local dates, working hours and breaks as instants | planning engine | modelled |
| Plans, blocks, calendar (`api.ts` 1660-2505, `repositories.ts`) | plans with blocks, tasks, calendar events, working hours | create, accept, reject, replan, lock/unlock/complete/missed, move, write back | planning engine, store, audit events | partly |
| Provider deliveries (`api.ts` 1697-1743, 6656-6728, 7849-8030) | idempotency records, integration states, imported tasks | sync checkpoint, revocation, signed webhook | store, retention, throttles | partly |
| JSON store (`store.ts`, `repositories.ts`) | the collections, the file | load, write by temporary file and rename | every handler | partly |
| Retention (`api.ts` 5103-5253, 1608-1658; `retention-policy.ts`) | none of its own | clean-up as of a given time, per collection | all stored collections | partly |
| Sessions and credentials (`api.ts` 490-990, 2519-2600, 4733-4910) | users, credentials, sessions, reset tokens, memberships | login, logout, password change and reset, session creation and revocation | store; every authenticated handler | modelled |
| Backoff and throttles (`api.ts` 2653-2800, `repositories.ts` 495) | failed logins, request windows | count, lock, expire | login, imports, webhooks | modelled |
| Event delivery (`api.ts` 1284-1540, 3590-4400) | subscriptions and attempts, read back from audit events | subscribe, pause, deliver, retry, dead letter | audit events, outgoing HTTP | partly |
| ICS parser (`ics.ts`) | none | unfold, parse, expand recurrences | imports | partly |
| Imports (`api.ts` 1744-2170, 5977-6643, 7600-7760) | none of their own | rows of JSON, CSV and OwnerOps tasks, guidance, ICS files, ConnectOS events | tasks, calendar events, audit events, throttles | modelled |
| PostgreSQL (`postgres*.ts`) | tables, schema versions, one transaction client | repositories, migrations, transactions, clean-up | server, command line | modelled |
| SQLite (`sqlite.ts`) | a database file | repositories, migrations, backup, restore, export, deletion, clean-up | command line | modelled |
| Command line and guidance packets (`cli.ts`) | none | packets, commands over a repository | repositories, planning engine | partly |
| Destructive-operation approval (`destructive-approval.ts`) | none | compare a typed confirmation | command line, retention request | modelled |
| Server configuration, web page, evidence contracts, workflow validation, domain types | none | validate, render | - | not modelled |

What is hard about it, and what correctness means:

* **Planning engine.** A greedy search with nested minima over optional fields, a
  sweep with three early exits, a depth-first order over a graph that may be
  cyclic. Correct: no double booking, only allowed time, every task placed whole
  or reported, an order that respects dependencies, and an end.
* **Wall clocks.** Local times that do not exist or exist twice, seventeen loops that
  expand recurrence rules, some with no bound on their turns. Correct: the days and
  hours the rule or the working hours name, none missing, none twice, and an end.
* **Plans over time.** Requests in any order on blocks whose ids are shared by
  plans, around replans that keep some blocks and remake others. Correct: what the
  user settled stays, and nothing overlaps unless the user moved it there.
* **Provider deliveries.** Redelivery, crashes between four writes, writes that
  fail after memory has changed, records and states that retention removes
  separately. Correct: at most one effect, and nothing acknowledged is lost.
* **Imports.** Loops in which every row is a write of the whole file, whose ids are made
  from the sources' ids, and which go on after a row that failed. Correct: what an answer
  counts is what changed, and what it called imported stays.
* **Event delivery and sessions.** Waits in the middle of handlers, so what was
  read before may be stale; crashes between writes that belong together.
* **PostgreSQL.** Calls are sequences of statements between which other
  processes' statements run; locks, deadlocks, an unanswered COMMIT, a process that
  dies, two migrations at once. Correct: transactions are whole, what was answered
  stays, and every call ends.
* **The operator's console.** Commands that delete, replace and copy whole databases
  beside a running application, some of them typed from what another command
  printed. Correct: nothing is lost without the right confirmation, and nothing is
  left behind.

The full list, each at its line, is under "hazards" in `PROJECT.json`.

## 2. Modules

    Slots ------+--- SlotSearch --+-- SchedulerProofs
                |                 |
                +--- Scheduler ---+
    TaskOrder --+       |
                        | implements
                        v
                Planning ---> PlanContract
                                   ^
                                   | relies on
                              PlanLifecycle ---- PlanLifecycleProofs

    CivilTime --+-- Recurrence -- RecurrenceRules --+-- PlanningInputs
                +-- WorkingWindows -----------------+

    AtMostOnce <-- implements -- ProviderEvents ---- ProviderEventsProofs

    DeliveryLog <-- implements -- EventDelivery ---- EventDeliveryProofs

    AuthSessions --+-- AccessProofs
    Throttles -----+
    Imports --------- ImportsProofs

    PostgresPrograms --- PostgresStore ---- PostgresStoreProofs

    CommandLine ---------+
    SqliteRepositories --+--- OperatorConsole ---- OperatorConsoleProofs

An `MC...` module beside a module gives its constants values for TLC.

### Slots, SlotSearch: where a task fits

`Slots` has the intervals, the dayparts and `FindSlots`, the set definition of
`findSlot`'s answer: of all starts of gaps (and of preferred dayparts in them) where
the duration fits, the preferred, then earliest. `SlotSearch` is the code's
sweep: `windowAt` is the window of the outer loop, `busyAt` the busy block of the inner one,
`cursor` and `candidates` are the code's variables. An action is one turn of a
loop: `SkipWindow` and `SkipBusy` are the `continue`s, `SweepBusy` offers the gap
before a busy block and contains the early `break`, `CloseWindow` offers the rest
of the window, `Answer` sorts. Times are integers in one unit.

### TaskOrder: in which order tasks are placed

`orderTasksForScheduling`. The recursion of `visit` is the variable `stack`; the
temporary and permanent marks of the code are the tasks in `stack` and in
`ordered`. The sort is given by the relation `Before`, total because it is stable.

### Scheduler: the plan

`createSchedule`. It extends `TaskOrder`, whose steps come first (`Ordering`), and
uses `FindSlots` for each call of `findSlot`. `RejectTask` is `getInvalidReason`,
`StartTask`/`PlacePiece`/`CommitTask` are `scheduleTask` with its loop over pieces,
`FailTask` gives a task up with the classification of its failure, `Return` is the
status and the `OVER_CAPACITY` warning. Working windows are an input.

### PlanContract, Planning: what a plan promises

`PlanContract!Meets` relates what was asked to what was returned without an
algorithm: locked blocks are kept, new blocks are allowed, each task is placed whole
or reported, a task is left out only with reason, no block could start earlier, the
status is honest. `Planning` makes a one-step specification of it, and `Scheduler`
is shown to implement it (`KeepsItsPromise`) under the mapping `Asked`, `Returned`:
until `Return` the plan is `Unplanned`, which no plan equals.

### PlanLifecycle: plans over time

One user's plans, tasks and blocking events. Each handler is an action: they do not
wait after reading the body, so none is interrupted. `Create` and `Replan` return any
plan that meets `PlanContract`: the module depends on what `createSchedule` promises
and not on how it works. A plan's id is that of its range; a block's id that of its
task and piece, so `UpdateBlocks` changes the block in every plan that has it, as
`repositories.ts` does, and a patch (`Move`) gives both ends of a block or one. A
write-back names events by `EventId`, which is a parameter because `sanitizeId` spells
different ids alike: of blocks that share a name one event is left (`LastOfEachId`: the
upserts come in the plan's order, which is that of the starts until a block is moved).
`moved` is a history variable: which blocks were placed by hand since their plan was
made. A refused request changes nothing and is no action.

### AtMostOnce, ProviderEvents: deliveries of providers

`ProviderEvents` keeps the store twice, in `memory` and on `disk`. A delivery is
reserved (`Receive`), changes its target (`TakeEffect`), is completed (`Complete`) and
audited (`Audit`), and each of the four is one `Write`: the file follows memory, or
the write fails and the request ends with memory changed. `Crash` restarts from the
file; `Cleanup` is retention as of any time an administrator names; `Tick` is the
clock. The four requests share these actions and differ in what admits them
(`Admitted`) and in `Effect`. An audit event replaces the one of its name
(`Audited`), and the names are the code's (`AuditEvent`): a webhook's has the task and
whether it was created or updated, the others' the provider's event id and the time.
`taken`, `acknowledged`, `evidence` (the audit event an answer named) and `stranded` are
history variables. `AtMostOnce` is what a provider may rely on: an event is taken once
until it is forgotten, and acknowledged only after that.

### DeliveryLog, EventDelivery: public events to webhooks

Events, subscriptions and attempts are what the code reads back from audit events.
A request reads them once (`DeliverAll`, `Deliver`, `DeliverReady`, `RetryDue`) and
becomes a queue of `batches`, one for each subscription. `Send` and `Answer` are the two
halves of the `fetch` in the loop, between which other requests run; `Record` appends
the attempts of a batch, each of them a write of the store; `FailRecord` is such a write
that fails, which ends the request while the process lives, so that the rest of the
batch, sent already, is never recorded; `Abandon` is a target or secret that is not
available or not the registered one. `disk` is the file: it lags behind memory after a write
that failed (`Persist`), until anything else is saved (`PersistElsewhere`). `Crash` loses
the requests under way, may fall in the middle of recording, and starts again from the
file. `sent` numbers the deliveries, and `planned` counts them for the bound;
`lost` and `received` are history variables. `DeliveryLog` says what may be read from the
record: successes were acknowledged, an attempt n + 1 stands behind a recorded
failure n that was worth retrying, and what was saved is not forgotten. Retention of
audit events is not composed with it.

### AuthSessions: who is let in

`users`, `members`, `sessions` and `tokens` are the collections of one tenant;
`requests` are the requests that were authenticated and wait for their bodies with the
principal of then (`Receive`), which the handlers (`ChangePassword`, `PutUser`,
`ResetPassword`, `PutMembership`, `CreateSession`) go on with. Handlers with several
writes can be cut short at any of them: `SetCredential` revokes the sessions one by
one, and `gone` is how far it came; `WasteToken` ends between the use of a token and the
password. `disk` is the file: a write that fails leaves the change in memory only, with
an error for an answer, the next one that succeeds saves it with everything else, and
`Crash` goes back to what the file has. The next write is soon: every authenticated request saves
the session it came with, for its `lastSeenAt` (`Sighted`). That save finds the session
and writes it in one synchronous step, so it puts back nothing older than memory, but it
is what brings a half-done change into the file, and the file is where a revocation
could be undone. `version` numbers the changes of a credential so that a session remembers
under which it was opened (`born`); `swept`, `ended` (sessions whose revocation was
answered) and `resets` are history variables.

### Throttles: three fixed windows

`limiter` says which of the three is at work: the failed logins, whose lock and whose
window run on two readings of the clock; the stored records of imports and requests,
which let a number of rows in or refuse them as a whole; and the map of the server, which
is lost on `Restart`. `uses` is the history that the properties count in.

### Imports: rows written one by one

Like `ProviderEvents`, the store is kept twice, in `memory` and on `disk`; `serving` is
the import under way, `faults` counts crashes and failed writes, and `answered` is a
history of what the answers called imported, until it is deleted. `Begin` lets a request in
(its throttle may write). The loop over rows is `RejectRow` (a row that does not parse),
`MissTask` (guidance for a task that is not there ends the request), `SaveTask` and
`AuditTask` (the two writes of a task row, after either of which an error only makes the
row an error), `SaveEvent` (an ICS or ConnectOS event) and `EndRows`. ICS files then cancel
(`CancelEvent`, `EndCancelled`), ICS and ConnectOS log (`AuditEvent`, `EndLog`), and
`Answer` reports. `DeleteTask` is the request of that name between imports, `Crash` restarts
from the file. ConnectOS events are classified before the first is written (`known`), tasks
are looked up row by row (`Found`).

### CivilTime, Recurrence, RecurrenceRules: what a calendar event means

`CivilTime` has the date arithmetic of `Date.UTC`, the clocks of a zone (a base offset
and the spans of saving time, external) and the code's search for the instant of a local
time, correction by correction (`LocalTimeToUtc`, `ZonedDateTimeToUtc`). `Recurrence` is
the expansion of one event: `ParseRule` validates the rule and chooses the generator as
`generateRecurrenceOccurrences` does, `Scan` is one turn of its loop (a day, week, month
or year), `Take` hands a start out until COUNT, UNTIL or the limit ends it, `Merge` and
`Substitute` are RDATE, EXDATE, the range, and the RECURRENCE-ID exceptions. The
seventeen generators share these actions; where they differ (`PeriodDays`,
`PeriodTimes`, `Repeats`, `Bounded`) the definitions name them. `RecurrenceRules` is
the reference definition: a rule as a predicate on days and times, written from what
the parts of a rule mean and not from the loops, for the shapes that
`docs/integrations/calendar-providers.md` lists as expanded (`ExpandedShapes`).
The code does not keep to it everywhere: section 3 lists three points where it does not,
and the two properties say what they leave out for them. `FirstRecurrences` allows a start
twice only where two entries of BYMONTHDAY name one day, and leaves out daily rules with
BYMONTHDAY in a zone (`Expanded`);
`AnswerIsComplete` goes as far as the limit on occurrences lets the starts go
(`Reached`), for a COUNT that no repeated start used up (`CountsAsNamed`). Both compare
BYSETPOS from the second period on (`Comparable`).

### WorkingWindows, PlanningInputs: when a user works

`BuildWorkingWindows` with its enumeration of local dates in steps of six hours and the
breaks taken out one after the other. `PlanningInputs` puts the windows beside the
events of one calendar in the same zone, so that one instance shows both conversions
around the same changes of the clocks.

### PostgresPrograms, PostgresStore: calls as statements

`PostgresPrograms` gives for each method of `postgres-repositories.ts`, for
`cleanupPostgresRetention` and for the migration runner the statements it sends, in
order (`Program`); what follows may depend on what was read (`saw`). `PostgresStore`
runs calls of several callers: `Connect` and `Begun` are the two halves of BEGIN, between
which the client has no transaction yet, `Run` is one statement, `ThrowByCode`,
`ThrowByServer` and `StatementFails` are the ways it can fail, `CommitIt` and
`CommitFails` (applied or not, but unanswered) the end of a transaction, `Rollback` what
the code does after a failure, and `Crash` a process that dies. The server is external and at READ COMMITTED: a statement waits for rows that
another transaction has written, and a circle of waits fails one of its callers. A
DELETE or UPDATE that waits chooses its rows when it runs, so the re-check of a row
that changed during the wait is part of that choice. What the row it waited for
was replaced by is too new for it, though: `FindsNone` is an update of a block that
waited while the upsert of its plan deleted the row and inserted it again, and that
changes nothing. (The clean-up's delete of the blocks of old plans can miss rows in the same way, without
effect, since the delete of the plan takes them with it; `complete`
that waits for a clean-up's delete finds no row and throws, as it does without waiting.) `ClientOf`
may give two callers one client, whose statements then go into whichever transaction it
has open.

### SqliteRepositories, CommandLine, OperatorConsole: the operator's side

`SqliteRepositories` maps the content of a database to what a repository method, the
clean-up, the deletion of a workspace or the migrations make of it (`Outcomes`,
`CleanupRetention`, `DeleteWorkspace`, `ApplyMigrations`); each is synchronous and one
statement or transaction. `CommandLine` is the parser of each of the commands
(`Parse`), what a packet shows of its line (`Shown`) and the lines it prints
(`Printed`). `OperatorConsole` lets an operator type lines, among them those printed
before, and runs commands with effects in steps (`Program`), between which the
application calls its repositories, a step may fail (`StepFails`, `Disturbed`), and
what the code does in a `finally` still happens (`Finally`). Files hold databases,
sealed backups, exports or damaged content. A copy is made without a lock: `beside` has what the
application's file was while it wrote during the copy, and the copy is one of those
states, or takes each changed row from one of them (`Mixtures`), or does not open
(`Copies`). A mixture that is none of the states is marked as `Torn`: SQLite opens it
like any database, its plans and block rows may disagree, and what is made of it, by a
restore, a backup or the application, is torn as well.

## 3. Runs

| Run | Question | Instance and why it is enough |
|---|---|---|
| `slot_search` | Does the sweep offer only free slots, the earliest or preferred one, exactly as `FindSlots` says? | 3296 calls: two layouts of two windows (touching, apart), every sorted pair of busy intervals that are empty, short or long and lie apart, touch, nest or cross a window; bounds of the task that cut a window at either side; days of 6 units so that windows cross midnight |
| `create_schedule` | Is every task ordered once, dependencies first; does the loop avoid double booking, stay within limits, keep block ids apart, meet `Planning`, and end? | 840 requests of three tasks (fixed, splittable with every combination of piece lengths, with a deadline, an earliest start, dayparts, rejected for several reasons, dependent in a line or on each other) on seven calendars (one or two windows; buffers; free, blocking, overlapping events; locked blocks that overlap), and 864 batches with all graphs that three tasks with six dependency lists give (no, one or two dependencies, self-dependency, cycle, an id outside the batch) and four combinations of sort keys |
| `plan_lifecycle` | Do settled blocks stay, overlaps come only from the user's hand, and write-backs stay clear, whatever requests are made? | two plans whose ranges overlap, a task of one piece and one of two (so block ids are shared, and a task can be half kept) whose ids sanitise alike (so events are shared), one calendar, one event that can block a slot. `MaxEdits` = 2 bounds changes to blocks, tasks and events; plan requests are unbounded. Two edits make every pair of a block's states meet every plan request |
| `provider_events` | Is each delivery taken at most once, what was answered 201 never lost, with an audit event of the name it was given, and each completed record backed by its effect? | two checkpoints with one event id, a revocation and two webhooks of one account and task (the second updates what the first created); two faults, so that a crash can follow a failed write; a clock of two values with retention measured in the same unit, clean-up as of any time up to after every retention has passed |
| `event_delivery` | Is every delivery recorded once unless a crash or a failed write took its record, and is the record to be trusted? | two requests at a time, two events, two subscriptions of one target, of which one filters; three deliveries, so that two requests can retry one failure, a request can have two batches or a batch two deliveries; one crash and one failed write, so that a crash can find a file that lags; a clock of two values with the retry delay between them |
| `auth_sessions` | Does a changed password end the sessions before it, a token set one password, and a session whose revocation was answered stay revoked in memory and file? | two users, two workspaces, two sessions, one token, one waiting request: a session can be opened, revoked or expire, and the user, the membership and the credential change, between a request's authentication and its handling. `MaxVersion` = 2 changes of credentials, so that a reset can follow a change or be followed by one, `MaxEdits` = 1 of memberships, `MaxFaults` = 2, so that a crash can follow a failed write; of these at most three changes of credentials and faults together, or one of each beside the change of a membership (`FewAtATime`) |
| `throttles` | How many uses fit in any stretch of a window's length, and who is locked out? | windows of three with limit three at every position of a clock of ten: three windows can follow one another, and uses can fall on every side of a boundary; imports of one or two rows |
| `imports` | Do the counts of an answer match what changed, and does what it called imported stay, with its evidence? | fourteen requests of all kinds by two users: one to three rows, of which one may be wrong and two may be spelt alike, files that import and cancel one event; `MaxRequests` = 3, so that an import can be repeated and the other user's come between, with tasks deleted in between; `MaxFaults` = 2, so that a crash can follow a failed write |
| `recurrence` | Do the generators give the days the rule names, at the local time, all within their reach that are in range, and end; are working windows the local hours? | 38 rules of every documented shape, each from three starts (hours before the clocks change, a leap day, the night they change back) in UTC and in two zones, one of which changes at midnight UTC; events with every kind of exception; `MaxOccurrences` = 4 stands for the code's limit, `MaxPeriods` = 40 marks loops that may not end |
| `postgres_store` | Are plans and migrations whole, acknowledged rows kept, young rows spared, and does every call end? | 34 calls that cover every method, then one of five that race with everything (two plans that share a block, a reservation, a clean-up, a migration), by two processes with a client and a connection each, from an empty database and ones with young or old rows; one fault. Two plans sharing a block give every order of locks that can deadlock |
| `operator_console` | Is data lost only when the line confirmed it, do plans keep their rows, is nothing left behind, and do packets print lines that are accepted and about the same scope, time and database? | any line of any packet command (right, each option left out, empty or blank, unknown options), or two lines of the commands with effects with options right, missing or of another scope, beside one application call and one failure. One call beside a copy is enough for a mixture: if torn copies were not told apart, `PlanRowsAgree` would fail within seconds |
| `lost_checkpoint` | Checks a statement of the documents that the code does not keep (below) | the instance of `provider_events` |

A property of a passing run has a mutant in the module it is about: a definition,
marked `(mutant)`, that changes one definition the way a slip in the code would, with
which TLC finds the property violated. The `TypeOK` of a module states its types; it is
proved where the module has proofs (section 4) and otherwise serves as documentation of
the state, for a wrong type shows in the properties of the runs.

**Deadlock** is checked where the system never stops (`plan_lifecycle`,
`provider_events`, `event_delivery`). The others model calls that return, a bounded
number of requests, or a clock that ends.

**Fairness.** `Scheduler` and `Recurrence` have weak fairness on their
next-state relation because a synchronous call runs until it returns; with it they are
shown to end, `Recurrence` with the exception that its property names: three of the
loops have no limit on turns, and a valid rule that never names a day (BYMONTHDAY=30 with
BYMONTH=2) keeps them going for ever. `PostgresStore` has weak fairness on "some caller's
call takes a step": the runtime serves every callback, and the server answers, grants a
lock that is free and ends a deadlock; calls are finite, so one condition for all
callers is enough for each to end (`CallsEnd`). `SlotSearch` is bounded by its indices
and is checked for safety. The others have no fairness: nobody has to
send a request, nothing retries a request that was cut short, and no liveness is claimed.

### What the documents say and the code does not do

One is shown by a run:

* `lost_checkpoint`: a checkpoint or a revocation whose request died
  after the reservation is answered as an accepted duplicate from then on, though it was
  never recorded (`api.ts` 7892; `docs/integrations/calendar-providers.md` 98).

The definitions show the following as well, which no run checks. The properties that
would otherwise fail for one of them say so:

* Two accepted blocks whose ids sanitise alike are written back under one event id, and the
  second takes the event of the first (`api.ts` 7782, 8640;
  `docs/integrations/calendar-providers.md` 104). `WrittenIsClear` asks for one event for
  each id.
* The audit event of a webhook that updates a task replaces that of the update before, which
  was answered 201 (`api.ts` 6796, `repositories.ts` 417;
  `docs/integrations/task-sources.md` 66). `AcknowledgedSurvives` asks for an event of the
  name that the answer gave.
* A series that began more than 366 occurrences before the requested range has none in it
  (`ics.ts` 387; `docs/integrations/calendar-providers.md` 106). `AnswerIsComplete` ends
  where the limit cuts the starts.
* A daily rule of a zone ignores BYMONTHDAY (`ics.ts` 641-664, chosen at 1063;
  `docs/integrations/calendar-providers.md` 106). `Expanded` leaves such rules out.
* With BYMONTHDAY=31,-1 in a zone the last day of a long month counts twice and occurs once
  (`ics.ts` 750, 1007; `api.test.ts` 9422 reads COUNT as the number of events).
  `FirstRecurrences` allows the repeat, `CountsAsNamed` says what it does to COUNT.
* Of two callers that share one PostgreSQL client, the statements of one go into the
  transaction that the other has open: they are answered before it is committed, and rolled
  back with it (`postgres-client.ts` 41, 53; `docs/operations/postgresql-migrations.md`
  111). `postgres_store` gives each process a client of its own, as the command line does;
  with one client for both, TLC finds `AcknowledgedKept` violated without any fault.
* The command line that a delivery packet prints ends in `--dry-run`, which its parser does
  not know, and lacks `--as-of`, which it requires, so the program that printed it refuses
  it, though the packet asks to "Run this packet in dry-run mode first" (`cli.ts` 3569,
  3604, 6407). `PrintedLinesRun` excepts this line.
* A task may be placed before the task it depends on: dependencies decide who is
  placed first, not where (`scheduler.ts` 650; `docs/product/scheduling-constraints.md`
  22 calls the order a hard constraint).
* The last piece of a task may be shorter than its `minimumBlockMinutes`
  (`scheduler.ts` 221).
* Lock one piece of a split task and replan: the other pieces vanish from a plan that
  is PROPOSED, and nothing reports them (`api.ts` 5644; `docs/product/capacity.md` 9).
* Accepting a plan a second time makes its COMPLETED and MISSED blocks ACCEPTED again
  (`api.ts` 2265; `docs/product/replanning.md` 59).
* Two `retry-due` requests that overlap send an event twice and record one attempt
  number twice (`api.ts` 1501; `docs/architecture/integration-model.md` 167).
* The JSON store replaces an audit event by its id alone, whatever scope the other one has
  (`repositories.ts` 417), and the ids of imported tasks' events name neither scope nor time
  (`api.ts` 6796): one user's import of the same external ids takes away another user's
  audit event, and an import that is repeated its own earlier one. SQLite and PostgreSQL
  tell scopes apart (`docs/security/tenant-isolation-verification.md` 41). `ImportsKept`
  asks for the event under its id, in whichever scope.

### Remarks

Behaviour that the models contain, that no document contradicts, and that a reader of
the code may not expect:

* **Sessions.** A request that was authenticated before a password was changed may
  still open a session after it; sessions of other workspaces survive a reset, because
  they are listed in the scope of one.
* **Imports.** A row whose second write failed is reported as an error although its task
  was saved, without its audit event; rows count against the throttle even if they fail.
  Guidance stops at a task that is missing, after earlier ones were changed. Two rows whose
  ids are spelt alike share one item: ConnectOS, which classifies before it writes, then
  audits both as imported and counts one as created and one as updated.
* **Recurrence.** A monthly rule without days steps from a date that a month clamped, so
  it drifts to earlier days; combinations that no document lists are unions where RFC 5545
  intersects; BYSETPOS in the first period counts differently in two of the generators;
  MONTHLY with a plain BYDAY is ignored in UTC. Leap years follow the rule of 1901 to 2099 here.
* **PostgreSQL.** `updateTime` and `updateStatus` read a block and write all its columns
  back, so one of two overlapping changes is lost; `get` of a plan reads the plan and its
  blocks in two statements and may show a mixture; two throttled requests may both read
  the count before either saves.
* **SQLite and the console.** The system actor's `get` by id takes the row of any scope;
  retention of idempotency records counts from their creation; request throttles are
  never cleaned up; sessions, throttles, memberships and users stay when a workspace is
  deleted; `upsertPlan` does not compare the scope of blocks with that of their plan. The
  counts printed before a clean-up come from separate statements. A restore with overwrite
  replaces the target before it is migrated and checked; a backup and a restore copy
  without a lock, so that beside a writer the copy may be torn, and still open
  (`Copies`; `docs/operations/backup-restore-runbook.md` asks for a maintenance window); the JSON
  of `retention:operator-packet` shows no `--database` that was given with another backend; backup and export replace their output file
  without a question. An option takes the next word for its value, even `--json`;
  printed lines join words with spaces, unquoted; confirmation texts join ids with `/`.

## 4. Proofs

All theorems are for every value of the constants that satisfies the named
assumptions.

| Module | Theorems | From which invariant |
|---|---|---|
| `SchedulerProofs` (the sweep) | `SearchTypeCorrect`, `SearchIsSound`, `SearchIsComplete`, `AnswerIsEarliest`, `SweepIsFindSlots` | *Swept*: what lies between the window's start and the cursor is covered by busy blocks or by candidates; *Covered*: every feasible start of the windows already closed has a candidate at or before it. `CandidatesFree` alone is not inductive: that a gap is free of the blocks still to come needs that they are sorted and begin at or after the one at hand. That the sweep is `FindSlots` needs *SweepInv*: the cursor is a gap's start, every candidate is one of the definition's, and every one of the definition's before the cursor is a candidate. The sweep offers a slot from a gap that starts later than the definition's when blocks overlap; `LaterGapOffers` shows that the slot is the same |
| `SchedulerProofs` (order and plan) | `OrderIsPermutation`, `OrderIsFaithful`, `EveryTaskIsPlacedOnce`, `PlacedInOrder` | *OrderInv*: no task is twice in `ordered` and `stack` together, each sorted task before `root` is in one of them. *VisitInv* for the order: the stack is a path of dependencies, so what a visit steps over because it is being visited reaches back to the dependent (a cycle), and every listed task is reached from a root sorted at or before it |
| | `TypeCorrect`, `NeverDoubleBooks`, `StaysWithinLimits`, `BlockIdsAreUnique` | *IInv*: the blocks of the plan belong to tasks before `next`, the pieces to the current one, and their numbers are the numbers up to their count, so the next number is new |
| | `PromiseIsKept` (the refinement) | *PInv*: beside IInv, each task handled is left out or has blocks for its whole length (*BookedWhole*); the pieces and what remains add up to the current task's length (*UnderWay*); what is left out, and cannot be split, has no room beside what is booked (*LeftForRoom*), and no block could start earlier (*AsEarly*): both stay true as more is booked. The contract's sum over a set is the number of its units of time (`TotalIsUnits`), so that a piece adds its length. That nothing fits when `FindSlots` is empty needs that a fitting slot has a candidate at the start of its gap (`FittingGap`) |
| `PlanLifecycleProofs` | `TypeCorrect`, `OverlapsAreByHand`, `SettledStaysPut`, `WriteBackIsClear` | *Lengths*: blocks are not empty, which a patch of one end keeps because the code compares it with the other. `OverlapOnlyByHand` is then inductive, for the contract says that new blocks avoid the kept ones and each other. `SettledStays` and `WrittenIsClear` are properties of steps, with one case for each request. For any `EventId`: blocks with a name of their own have their event, those that share a name have one between them |
| `ProviderEventsProofs` | `TypeCorrect`, `CompletedRecords`, `AcknowledgedEvents`, `StrandedReservations`, `AtMostOnceEffect` (the refinement) | *IInv*: completed records have their effect in memory and on disk; while a request is served, the file equals memory and the record is the request's own; what was answered 201 left its audit event, or a later one of the same name, which a step of `Audit` can replace but not remove; an event without a record was not taken. The last is what a step of `TakeEffect` needs to be a step `Take` of `AtMostOnce` |
| `EventDeliveryProofs` | `TypeCorrect`, `AllAccounted`, `LogIsHonest` (the refinement) | *PlansDue*: every send still planned continues what is in the log, whatever was recorded since; *AnswersSound*: an answer not recorded yet is one the log may take; *IdsOnce* and *NoneForgotten*: each send is in exactly one of the log, one request's answers and `lost`. A crash goes back to a prefix of the log, so what stays is as honest as before, and what it takes is lost |
| `AccessProofs` (sessions) | `TypeCorrect`, `RotationIsThorough`, `ResetsAreSingle`, `RevocationIsFinal` | *VersionsOrdered*: a workspace is swept up to a version the user has had, so a session opened later is younger than any sweep; *OpenUnused*: a token that is not used has set no password; *RevokedIn*: what was answered as revoked is. All are required of memory and of the file (*Good*), for a write copies the one to the other and a crash the other to the one; a revocation is answered only after it is in both |
| `AccessProofs` (throttles) | `ThrottleTypeCorrect`, `NeverMoreThanTwice`, `LocksHaveCause` | *WindowInv*: the uses from the window's start on are those it counts, and those in the same length of time before its start leave out the first moment of the window before, because a stretch of a window's length meets one start at most; *LockInv*: the lock of a full window of logins outlasts that window |
| `ImportsProofs` | `TypeCorrect`, `ImportsAreKept`, `CountsAreRight` | *ImportedHold*: what the import under way counts as imported is in memory and on disk already, with its evidence except for what is still to be logged; *Counts*: the rows done are those created, updated and in error, and the tasks in memory exceed those of before by what was created, up to the errors |
| `PostgresStoreProofs` | `MigratedOnceHolds`, `PlansWholeHolds`, `AcknowledgedKeptHolds`, `CleanupSparesYoungHolds` | First the shape of every program, as what its statements may do (*Simple*, *Short*, *PlanShape*, *CleanupShape*, *MigrationShape*). *Disciplined*: a client's connection is the one its call opened, and a call inside a transaction has one; from it *Effect*, the eight things a step may be for all callers together. *Exclusive*: no two open transactions have written the same row; *Confined*: each writes rows of its own tables. *MigrationInv* says at each statement of a migration run what its transaction has written and what is recorded, *PlansInv* the same for an upsert of a plan (*SaveState*) and a clean-up (*CleanState*), *KeptInv* that the row a returned call promised (*PromisedRow*) is there, in what was committed and with what its own transaction still holds |
| `OperatorConsoleProofs` | `PlanRowsAgreeHolds` | *ConsoleInv*: databases are `Whole` in every file, also inside sealed ones, and torn ones at least `Shaped` (*FilesFit*), so that each step is shown to keep either (*Follows*); `Agree` alone is not inductive: that a deletion by scope leaves plans and rows in step needs that blocks are in the scope of their plan. Each step of a running command has the step before it that it relies on (*StepFits*), so what is sealed is what was copied, and what is copied is no sealed file (*CopyFits*); the states of the file beside a copy are databases (*BesideFits*), so a copy that is one of them is whole |
| | `NothingLeftBehindHolds` | *TidyInv*: a client is open only when the next step is to run or to end (*ClientFits*), a plain copy exists only when the next step of an encrypted backup is one that has it removed, also on failure (*Making*, *AsidesFit*), and no path of the running command is that of a plain copy (*PathsFit*) |
| | `DestructionConfirmedHolds` | *LossInv*: the running command is what the last line said, which was accepted and approved (*Ordered*), and a restore about to fill its target was told to overwrite, or there is no file (*LookFits*). Beside it `ValuesAreGiven`: an option's value in what `Parse` returned is a word of the line that follows the option (*Sourced*, for every number of words), so an approved confirmation was typed; and for each step what it takes away (`DeletionTakes`, `CleanupTakes`, `LossByWrite`, `LossByStore`) |

Assumptions. `DaypartAssumption` (offsets lie in a day), `CallAssumption` (busy
intervals are sorted by start and do not end before they start; durations are
positive), `NoSlotAssumption`, `BatchAssumption` (ids of a batch are distinct, sort keys
are numbers), `RequestAssumption` of `Scheduler` (field types; ids of existing blocks are
distinct and name their task), `LifecycleAssumption` (ranges and move targets are intervals, other events
are not empty), `EventAssumption` (a key names the kind and the account
of its event), `RetentionAssumption` (states are kept at least as long as records, as the
defaults of `retention-policy.ts` do), `DeliveryAssumption`, `MemberAssumption`,
`LimitAssumption` (windows and limits are positive: `api.ts` refuses others at
2662, 2818 and 2952), `RequestAssumption` of `Imports` (a file that is parsed as a whole
has no bad rows; only ICS files cancel), `AbsentAssumption`, `SentinelAssumption`,
`NoWindowAssumption`, `BoundAssumption`. Of PostgreSQL: `KeysAssumption` and
`VersionsAssumption` (rows are named by table and id; versions differ), `ClientsAssumption`,
`CallsAssumption` (calls are those of the repositories, the clean-up and the migration
runner), `SeedsAssumption` (the rows at the start are some that this code leaves: plans
whole, the first versions recorded). Of the console: `NamesAssumption` (rows are named by
table, scope and id), `LiveAssumption`, `CallsAssumption` (the calls are methods that exist,
and a plan's blocks are in the scope of the call: `api.ts` makes them there),
`FilesAssumption` (the files at the start are some that this code leaves),
`InstantAssumption` (a day's ISO text reads as that day). TLC evaluates each of them on the
instance of its run.

Two hypotheses of theorems are not assumptions of the models, for the models also run
without them. `OneClientEach`, of the four theorems about PostgreSQL: no two callers share a
client. The instance of `postgres_store` has it; section 3 says why it is needed.
`Typable(typed)`, of `DestructionConfirmedHolds`, only names a set of lines that has those
typed first and all that a packet prints for one in the set. `AsidesSpared(typed)`, of
`NothingLeftBehindHolds`, adds that none of them names the path at which a backup keeps its
plain copy. TLC evaluates both in `MCOperatorConsole` for the lines of the instance.

The bounds that the runs need (`MaxEdits`, `MaxFaults`, `Horizon`, ...) are
constants of the modules, and the theorems hold for each of their values: no bound is
what makes a theorem true.

What is recursive is handled without an induction scheme. A set of naturals or of
finite subsets on which a claim fails would have a least member (`WFMin`), which is
refuted: so the sums of `SchedulerProofs` and `AccessProofs` are shown to count
units, the earliest of several candidates is shown to exist, and so are the list of
migrations that a run finds missing and the reading of a line's words.

Only model-checked:

* Liveness: `Terminates`, `EndsUnlessBarren`, `CallsEnd`.
* `RecurrenceRules` and `PlanningInputs`: both sides compute dates by recursion over data.
* `PrintedLinesRun` of `OperatorConsole`: it is about texts that a packet puts together and
  the parsers read again, command by command, for 28 packets; the run has each of them.

## 5. What is left out

Inside the modelled parts: wording, explanations and identifiers' text; several
tenants, workspaces and users where every collection is keyed by them and no modelled
request crosses them; audit events of plan requests; optional fields that no guard
reads. In event delivery the views of attempts and of exhausted deliveries, their
reviews, and the retention of the audit events under the record. In imports the fields of rows, the
templates that map CSV columns, and dry runs, which write nothing. In sessions the
cookies, CSRF tokens, API keys and the time a session was last seen (the save of that
time is there), and sessions and tokens whose own first write fails, of which nobody is told. In the ICS parser the
unfolding of lines, parameters, and the text of dates and durations; BYMINUTE and BYSECOND
multiply the starts of a day as BYHOUR does. In the console the fixed sentences of packets,
the authorization matrix, summaries of results, and a killed process (which leaves the
plain copy of an encrypted backup behind); lines never name the live database as their
backup or output file. Of a torn copy only rows that were written meanwhile differ from
both states; what lies on one page with them is not modelled.

Not modelled:

* **Server configuration**, **evidence contracts**, **workflow validation**: each
  collects what is missing from a record or from the environment, without state.
* **The web page**: rendering. **Domain types**: declarations.
* **Cryptography**: signatures, hashes, the backup cipher.

## 6. Plan

Modules of the model are complete as far as the list above says, and the safety that the
runs check is proved, with the exceptions named in section 4. What is left, in the order of
what it is worth:

1. `Recurrence`: that a start lies in the range and on the rule's clock, which needs no
   reference definition by recursion.
2. Retention of audit events beside `EventDelivery`, which may forget attempts that a later
   retry counts.
