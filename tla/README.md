# Formal models of Lifetracker

TLA+ models of the parts of Lifetracker whose correctness depends on the order
in which things happen, model-checked with TLC on small instances and, for the
properties that matter most, proved with TLAPS for every value of the
constants. `PROJECT.json` ties every definition to the lines it models.

Paths below are relative to the repository's root; `core/`, `taxtracker/` and
`tasktracker/` are the packages under `src/lifetracker/`.

## 1. The system

Lifetracker is a Django application for one household: a checklist of tax
documents by financial year (`taxtracker`), a list of tasks (`tasktracker`),
and `core`, which they share. It runs in one container on a Fly Machine: a
shell script (`docker-entrypoint.sh`) starts Envoy and gunicorn; Envoy checks a
JWT cookie and proxies to gunicorn; gunicorn's master has worker processes that
serve requests, and helpers it spawns once ready: the idle watchdog and the
collector of client IPs. Everything is kept in one SQLite database in WAL mode,
uploaded files included. Its transactions are `BEGIN IMMEDIATE`
(`settings.py`, `transaction_mode`), so they take the write lock as they begin.

| Component | State it keeps | Operations | Interacts with | What is hard | What makes it correct |
|---|---|---|---|---|---|
| **Idle watchdog** (`core/idle_watchdog.py`, `gunicorn_conf.py`) | idle time, schedule of checks, whether the backup before stopping has begun | check connections and the request file, stop gunicorn | kernel's connection tables; workers touch the request file; drives the automatic backups and the uptime log; sends SIGTERM to the master | two reads in a check; late wakes; waiting for a backup while activity resumes | stops only when idle and backed up; does stop in the end |
| **Automatic backups** (`core/auto_backup.py`) | the running subprocess, since when, when the next is due | start, poll, kill, tick | called by the watchdog; runs `cloud_backup --if-changed` | hung and failing backups, the timeout beside the schedule | every activity is followed by a backup; a hung one holds nothing up for ever |
| **Cloud backup** (`core/backup.py`, `cloud_backup`) | the state file, the status row, the bucket | copy, upload, record; `database_changed` | SQLite's log and checkpoints; other backups; the app's commits | commits between any two steps, crashes, own commits, two backups at once | a skip only if the bucket has every commit; quiet means no uploads |
| **Restoring a backup** (`restore_cloud_backup`) | the database file | list, download, replace | the running app | failure half way | the old or the new database, never part of one |
| **Uptime log** (`core/uptime_log.py`) | one file a day, the last second recorded, seconds not yet written | record, fill gaps, report | the watchdog's loop | failed writes, stalls, clock steps, restarts | counts no second twice and none the app was down |
| **Client IP log** (`core/client_ips.py`, `update_geoip`) | offset in Envoy's log, pending lines, the database's rows, GeoIP and relay files | read, truncate, record, fill in | Envoy appends to the log; SQLite locked by others | truncation against the writer, a full queue, replaced files | no line counted twice, none lost but as the comments say |
| **JWT cookie and key** (`core/jwt_auth.py`, `ensure_jwt_key`) | key file, JWKS, cookies in browsers | create a key, issue, renew and remove a cookie | Envoy verifies; responses may arrive in any order | key creation by several processes, logout beside a renewal | one key for all; after a logout no session remains |
| **Envoy and container start** (`docker-entrypoint.sh`) | failures in a row, process IDs | start, restart, give up | Fly restarts the Machine | counting failures, signals during a restart | gives up after the promised number; exits with gunicorn |
| **Item tree and financial years** (`taxtracker/models.py`, `admin.py`, `core/trees.py`) | years, items with parent and year, a year's status history | add, change, delete, copy to a new year, `Item.save()` | attachments belong to items | the walk in `save()` made of several statements, cycles, stale collections of rows | children have their parent's year; only cycles are left out of walks |
| **Stored files and attachments** (`core/models.py`, `core/attachments.py`, `purge_orphaned_files`) | attachment rows, stored files (no foreign key between them) | add, replace, delete, purge, reassign, import | the item tree; admin requests | what a page has read before its transaction | every attachment has its file, to itself, and one parent |
| **Tasks** (`tasktracker/models.py`, `admin.py`) | task types, tasks, their attachments | as for items | shares the mixins of trees and attachments | as for items | as for items |
| **App icon and health check** (`core/app_icon.py`, `core/health.py`) | the icon's row and stored file | save, reset, serve | restores replace both; browsers cache a version for a year; the deploy check polls | a row read before its file | a version's URL is only ever cached with that version |
| **Deploy, pull request and setup scripts** (`scripts/`, `fly-setup.sh`) | comments and pull requests on GitHub, the app's secrets on Fly | post, edit, hide, recreate; create what is missing; poll and wait | GitHub, Fly, Codecov, each other's earlier runs | every request may fail before or after it took effect; late and cancelled jobs | the newest report stays; one pull request is open; nothing that exists is changed |
| **Envoy's configuration and whitelist** (`core/envoy_config.py`, `core/auth_whitelist.py`) | a file written at start | write it | Envoy reads it; the JWT cookie | | pages need a token, logging in and out doesn't |
| **Admin pages, manifest, sign-in, archives and HAR parsing, command line tools, settings** | nothing of their own that is shared | presentation, parsing, formatting, API calls | | | |

The last row's components are pure I/O, formatting or thin wrappers, and are
not modelled.

## 2. What is modelled

| Component | Modules | How far |
|---|---|---|
| Idle watchdog, automatic backups | `IdlePolicy` (abstract), `AutoBackup`, `IdleWatchdog`, `IdleWatchdogProofs`, `MCIdleWatchdog` | every operation |
| Cloud backup | `CloudBackup`, `CloudBackupProofs`, `MCCloudBackup` | making and skipping backups; not the lists of them |
| Restoring; the app icon | `Restore`, `RestoreProofs`, `MCRestore` | every step of the command; the icon's row and view |
| Item tree | `ItemTree`, `ItemTreeProofs`; `ZipPaths`; `YearPages` composes the two; `MCItemTree` | everything that changes items and parents, the paths of a year's ZIP; not a year's status history |
| Stored files and attachments | `Attachments`, `AttachmentsProofs`, `MCAttachments` | items' and received documents' attachments; not those of tasks, nor the serving of files |
| Client IP log and GeoIP | `RelayLookup` (the pure part), `ClientIps`; `Logs` puts it beside the uptime log; `LogProofs`, `MCLogs` | the collector and the updates; not the pages that read |
| Uptime log | `UptimeLog`; `Logs`, `LogProofs`, `MCLogs` | recording, and the arithmetic of the reports; not their layout |
| JWT cookie and key; Envoy's whitelist | `JwtSessions`, `JwtSessionsProofs`, `MCJwtSessions` | every operation |
| Envoy and container start; health and deploy check; superuser | `Container`, `IdleWatchdogProofs`, `MCContainer` | every operation |
| Scripts | `PrScripts`, `BaseCoverage`, `FlySetup`; `Scripts` puts them into one specification; `ScriptsProofs`, `MCScripts` | every request and command; not the texts |

Where several concerns share a run (`YearPages`, `Logs`, `Scripts`), a variable
chosen at the start says which of them the behaviour is about: they do not
interact in the code, and need not be interleaved. Three theorems,
`PagesOnTheirOwn`, `LogsOnTheirOwn` and `EachOnItsOwn`, say that every behaviour of such
a composition is one of each module on its own, so that what is proved of the
modules holds of what is run. `IdleWatchdogProofs` has the container's proofs
too, `ItemTreeProofs` those about the ZIP, and `LogProofs` those of both logs,
with what they share about sums, greatest and least elements.

### 2.1 IdleWatchdog (with AutoBackup), implementing IdlePolicy

`AutoBackup` is the class of that name as a record and operators on it (`Start`,
`Poll`, `TickBackup`, `WakeIn`); it has no thread of its own. `IdleWatchdog`
has the loop. The variable `pc` is where `run()` and `step()` are:

* `Wake` is the end of the sleep: `AutoBackup.tick()`, then a check if one is
  due, otherwise sleep until `wake_time()`;
* `CountConnections` reads the connection tables and `DecideCheck` the request
  file, after which it does all the rest of `_check()` and `_ready_to_stop()`;
  the two reads are two steps because requests end between them;
* `Kill` sends SIGTERM; `LeaveWithMaster` is the exit when the master has gone;
* the world outside: `PassTime`, `Connect`, `Disconnect`, `RequestEnds` (the
  worker's touch of the request file), `MasterExits`, `Boot` (a new container).

**Abstractions.** Times are kept relative to now and capped at the value past
which the code treats all alike, so a finite state space has endless runs. A
backup's exit and a failing `popen` are free choices. The loop may oversleep by
at most `MaxLate`, which stands for every delay; its own steps take no time.
The uptime log, the status file and the log messages are written and never read
by the loop, so they are left out. `quiet` and `unbacked` are history: the time
since the last activity, and whether any came after the last backup began. A
connection counts as activity when a check sees it; one that comes and goes
between checks without a request is not known to the program at all.

`IdlePolicy` says what is promised without saying how: the service may be told
to stop only in stop mode, after the idle timeout without activity, with no
backup under way, and (with automatic backups on) after one begun later than
the last activity. `ImplementsPolicy` is the refinement (`service` is "told to
stop" from the decision on).

### 2.2 CloudBackup

Each element of `Backups` is a process that runs `cloud_backup` (or the admin's
"Run Backup Now") over and over; its steps are the reads and writes between
which others can act: `ReadState`, `LookAtFile`, `LookAtLog` are
`database_changed()` with the two stats of `database_signature()`;
`ReadDataVersion`, `CopyDatabase`, `NameObject`, `Upload`, `RecordStatus` are
`run_cloud_backup()`; `Checkpoint` to `UnlinkState` are
`_record_backup_state()`. `Fail` ends a backup anywhere (an exception, the
timeout's kill, the Machine's end), `CannotRecord` is the handler that removes
the record, `CheckpointBlocked` a checkpoint that readers hold up. The app's
`Commit` and SQLite's `AutoCheckpoint` and `LastConnectionCloses` come at any
time SQLite allows them.

**Abstractions.** Of a copy or an object only whether it has every commit so
far is kept; times and keys are tokens, compared for equality. A checkpoint
that writes gives the file a modification time that nothing remembered has
(assumption: no two within the granularity of the file system's clock, see the
hazards). The backup's own status row is not counted as a commit to be backed
up, since it is never in its own backup, but it does write to the log and
change the others' `data_version`. The destination is fixed.
`OneBackupASecond` says whether backups never share an object key; `FALSE` is
what the code does, `TRUE` is the assumption under which two backups at once
are safe.

### 2.3 ItemTree

One variable for each column: `year` and `parent`, and `fys` for the years.
Admin pages for one object (`AddItem`, `ChangeItem`, `DeleteItem`, `AddYear`,
`DeleteYear`, `CopyToNewYear`) are one step each: Django's admin wraps them in
a transaction, which here excludes other writers from its start. "Delete
selected" collects first (`Collect`) and deletes later (`DeleteCollected`, or
`DeletionRefused` when a foreign key would be left dangling). A script's direct
`Item.save()`, without `clean()`, is taken statement by statement:
`BeginSave`, `ReadParentYear`, `WriteRow`, `NextLevel` for each level of the
walk, `UpdateDescendants`, and `SaveFails` for an exception or the end of the
process.

With `Autocommit = FALSE` the script saves inside a transaction: nobody else
writes until it is over, and it cannot fail half way with anything written (a
failure in a transaction is a rollback, hence a `save()` that stopped before it
wrote). With `Autocommit = TRUE` anything comes between its statements.

**Abstractions.** Rows are primary keys; titles, orders, amounts and the years'
numbers play no part. One script at a time. A row's deleted key is used again
only once nothing remembers it, which is as good as never. `Line`, `Below` and
`Reached` define walks along parents as least closed sets, without recursion,
so that they can be proved about.

### 2.4 Attachments

One variable for each column of attachments (`item`, `doc`, `dated`, `file`),
`stored` for the rows of `DBStoredFile`, and the years of items and received
documents. Pages for one object, the import of received documents and the purge
are one step. Requests that read before their transaction have two:
"Delete selected" (`Collect`, `DeleteCollected`), "Reassign attachments"
(`OpenReassign`, `Reassign`) and "Import archive" (`OpenImport`,
`ImportIntoItem`), each with the step in which the database refuses it.
`DeleteFrom` has the cascade and the `post_delete` signal that deletes the files
named in the instances collected.

**Abstractions.** Items are roots of one title and order, so each is another's
equivalent in its year; all years are there, and deleting a year (a cascade to
items and received documents, as `DeleteParent` for each) is left out. What the
reassign page reads is of one moment. `Kept` says what the storage makes of a
name longer than it can keep, which is why importing the same archive twice can
attach such a file twice. Two imports at once attach a file twice as well. The
documents promise nothing else of either. A script that stores a file in one
autocommit transaction and its row in the next, with a purge between the two,
is left out: no code in the repository does that.

### 2.5 ZipPaths

The ZIP of a financial year, with one action for each folder named
(`NameFolder`, in the order of the walk; `NameUnreachable` for items in or below
cycles, whose folders go under the mark of a cycle), each attachment written
and the index. `Exports` are the years: titles, parents and names of
attachments. `Takes` and `Deduped` are `_dedupe_name()` with its set of names in
lower case. **Abstractions.** A title is one of four: plain, the same with a
capital, the index's name and the cycle mark's. Names that already end in a
suffix such as ` (2)` are not among them. The ZIP of several years, whose
prefixes are the years' own, and the headings of the notes are left out.

### 2.6 ClientIps (with RelayLookup)

Envoy writes a line in two pieces (`Write`, `Killed` between the two); the
collector is `Boot` (the container's start deletes the old log), `Start`, the
refresh of the GeoIP directory, then `ReadLog`, `EmptyLog` (or `CannotEmptyLog`)
and `Record` (or `CannotRecord`, which keeps the lines), over and over, until
`Stop`, which comes at any time. `update_geoip` is the same actions run beside
it: `UpdateMmdb`, `DeleteOlder`, `UpdateRanges`, `WriteStatus`, `FillIn`, each
of which may fail. `ClockSet`, `Publish`, `Offer` and `LoseRanges` are the world
the downloads depend on.

`lost` has the lines the code gives up as its comments say, or as it must: those
written between a read and the truncation, those over the queue's limit, those
cut off or run into another when Envoy was killed, and those left at a stop.
`forgotten` has the lines it loses without saying so: those of a `read()` whose
`os.truncate()` then raises (`CannotEmptyLog`), as the offset is past them and
they never get to the queue; and those in `Separated`, which have a line
separator, a paragraph separator or a NEL in them: `read()` finds a line's end
at a newline but takes the lines apart with `str.splitlines()`, and neither part
parses. `EveryLineAccounted` allows for `forgotten`; `RequestsAreRetried` and
`CompleteLinesAreRead` do not, each for one of the two ways, and do not hold
(section 5).

**Abstractions.** What a line says is given by constants. That Envoy's JSON has
a user agent's separators as they are is assumed; control characters, where
`splitlines()` splits too, JSON escapes. A line that is split never leaves a
part that parses. One of the two
databases and one of the two counts. Two updates of the directory at once are
not modelled. The table of ranges answers from the range with the greatest
start, so nested ranges are not looked up rightly; Apple's list has none, and
`LookupFindsRange` assumes so by name (`Disjoint`).

### 2.7 UptimeLog

A call of `record()` is a step, `RecordSecond` or `Fail`; the call may fail in
any of the days it marks, before or after it has marked them in memory.
`StartRecording` has the seconds since boot, `ProcessEnds` ends the process,
`Crash` loses what was not synced. Days have four seconds and bytes two.
`lived`, `called`, `back` and `fell` are history. The reports are operators on
the bits. **What the properties except:** after a failed call, the next marks a
gap of any length as up, although the comments speak of gaps of at most five
seconds; `fell` marks that case. A clock that steps back after a failed call
loses the failed seconds; `back` marks it. `uptime_dir_from_env` is not
modelled.

### 2.8 JwtSessions

`ReadKey`, `LinkKey` and `Publish` are `signing_key()` in each process, which
may end (`Exit`) between any two; `StartEnvoy` reads the JWKS, `Restart` is a
new container. A request is sent with the browser's cookies (`Send`), passes
Envoy or does not, loads its session (`LoadSession`, with the middleware's
check and possible logout), is answered by one of the branches (`LogIn`,
`LogOut`, `AnswerVisitor`, `AnswerUser` then `SaveSession`, `Error`), and its
answer arrives (`Deliver`) or never does (`Lose`). Django's sessions, and the
login page that sends who is logged in away, are modelled as this code relies
on them. **Abstractions.** One browser, one user. A token is its session, expiry
and key. A change of password, for which Django gives a session a new key, is
not modelled.

### 2.9 Container

`Own` to `GunicornReady` are the entrypoint's commands, any of which may fail;
`EnvoyExits`, `EnvoyGivesUp`, `EnvoyAgain` and `EnvoyAges` the loop around
Envoy with its count; `IdleStop`, `GunicornExits`, `Killed` and `OutOfMemory`
the ends. `Restart`, `Visit` and `Deploy` are Fly's, from `fly.toml`;
`PollSucceeds`, `PollAgain`, `PollsEnd` are `check_deploy.py`. After a run of a
minute the count starts at 1 with that run's own end, so Envoy is given up after
four short runs more; the comment says five times in a row, and
`IdleStopStays` allows for the first. `flyssh.sh` is not modelled.

### 2.10 Restore

The command's steps are `Download`, `Confirm`, `Upload`, `Record`, `KeepStatus`,
`Replace`, `PutBack`, `Migrate`, each of which may fail as the code says, or be
the last (`GiveUp`, `Restart`). The database is a record of what it holds, so
that replacing it is one assignment. The icon's request reads its row
(`ReadRow`) and later its file (`Answer`), in two transactions; the database may
be replaced between the two, as at any time. `replaced` marks a request that has
met that: `CachedIconIsItsVersion` is about the others, and
`NoRequestSeesAMix`, which fails (section 5), about all. **Abstractions.**
`CloudBackupStatus` is put back unless the command is killed between the two
lines.

### 2.11 PrScripts, BaseCoverage, FlySetup

One action for each request to GitHub, Codecov or Fly. A request that fails may
have failed before it took effect or after: `CannotClose`, `CannotCreate` and
`CannotReopen` choose, and where a script ends after such a failure the action
may be followed by its end (`FailJob`, `SetupFails`). `PrScripts` has the jobs that post reports (edited, or posted
anew with the old ones hidden), which come late, fail and are cancelled, and
`recreate_pr.py`, which nobody stops half way here. `BaseCoverage` counts seconds, since its question is one of
deadlines; it takes the base's CI to run longer than the time between two looks,
and a request to end by its time limit (`urlopen`'s limit is one for each
operation of the socket, so an answer that drips in can take longer).
`FlySetup` is one run at a time, with changes to `.env` and to secrets only
between runs. A command that fails ends it, but for the lists of apps and of
volumes, which are conditions of an `if`: without an answer the script goes on
to create. For an app that there is, that fails in its turn; for a volume
(`ListVolumes`, `CreateVolume`) it makes another, so `volumes` counts them.

## 3. What the runs show

All with `tlc -config X.cfg M`. Safety runs use symmetry where the constants
are only compared for equality; runs with liveness do not use it.

| Run | Bounds | Shows |
|---|---|---|
| `watchdog` (`MCIdleWatchdog`) | every mode, backups and uptime on or off; 1 port; idle timeout 4, check interval 2, lateness 1, backup interval 5, timeout 3, poll 2 | `TypeOK`, `NextCheckNotices`, `ImplementsPolicy`, `StopsWhenIdle`, `ActivityIsBackedUp` |
| `backup_record` (`MCCloudBackup_record`) | 2 backups, 4 times, 4 keys, none shared in a second | `TypeOK`, `RecordIsTrue` |
| `backup_settles` (`MCCloudBackup_liveness`) | 1 backup, 4 times, 3 keys, a second's key may be used again | `EveryCommitReachesBucket`, `QuietDatabaseAddsNoBackups` |
| `backup_skip` (`MCCloudBackup_skip`) | 1 backup | `SkipsOnlyWhatIsBackedUp` **fails** (section 5) |
| `item_tree` (`MCItemTree`) | 4 items, 2 years, 1 request to delete selected rows, scripts in transactions; exports of 3 items with one attachment, or of 2 with up to two each, 4 titles | `TypeOK`, `YearsAgree`, `WalkMissesOnlyCycles`, `AdminMakesNoCycles`, `CascadeMeetsItemsOnce`, `PathsApart` |
| `attachments` (`MCAttachments`) | 2 attachments, 2 files, 2 items, 1 document, 2 names (the second cut to the first), 2 years, 1 request of each kind | `TypeOK`, `FilesPresent`, `OneParentEach` |
| `logs` (`MCLogs`) | 2 IPs, 4 lines, one of them split, a queue of 2, a file emptied at 4 pieces, 2 starts, 1 update, 2 months, 2 lists, 4 settings; 2 days of 4 seconds, gaps of 2 filled, 2 starts, 1 stall or step of the clock, both only before the first day's last second | `TypeOK`, `EveryLineAccounted`, `TotalsMatch`, `LookupFindsRange`, `DatabaseNeverOlder`, `ListIsCurrent`; `UptimeTypeOK`, `CallsAreMarked`, `PeriodsAddUp`, `MarksAreTrue` |
| `sessions` (`MCJwtSessions`) | 2 processes, 2 requests at once, times 0 to 3, sessions that last 2, a leeway of 1, 2 sessions, 2 keys | `OneKey`, `TokenGoesWithSession`, `NoRedirectLoop` |
| `container` (`MCContainer`) | the code's 5 failures, 2 restarts, 3 polls, 3 commits | `IdleStopStays`, `DeployCheckHonest`, `NotLeftUnreachable` |
| `restore` (`MCRestore`) | 1 restore at a time, 1 request, 2 images, 3 objects, 2 commits, 2 files | `RestoreCanBeUndone`, `CachedIconIsItsVersion` |
| `restore_mix` (`MCRestore_mix`) | the same | `NoRequestSeesAMix` **fails** (section 5) |
| `scripts` (`MCScripts`) | 2 kinds of report, 2 pushes, 3 jobs; 2 apps, 2 volumes each, 1 password, sign-in, 3 changes; a wait of 8 seconds | `OnePrOpen`, `GivesUpForCause`, `ReportsStand`, `SetupOnlyAdds` |

**Deadlock** is checked in the models of systems that never end (the watchdog,
the backups, the attachments, restoring). The runs `item_tree`, `logs`,
`sessions`, `container` and `scripts` switch the check off: an export
and a script come to their end, and the others stop where a bound on lines,
seconds, starts, sessions or deploys is reached.

**Why the bounds are enough.** The watchdog's units are chosen so that all the
orders of its periods occur: several checks fit in the idle timeout, a check may
be late by half an interval, a backup may be killed before or after the next is
due, and `CheckInterval + MaxLate < IdleTimeout` is the tightest case with those
values. Two backups and four times are what it takes for one backup's record to
outlive another's signature, with the file's present time and one to come.
Four items give a chain in which an item moves, its child follows, its
grandchild is deleted, and a cycle of three has something below it; two years
are a move. Two attachments and two files suffice for a file replaced, freed and
used again by another row. Of the others: four lines, three of which
parse, and a queue of two make the queue drop one, and a file of four pieces is
emptied with a line begun, finished or not; two days have a midnight inside a call, inside a gap and inside
a failure; two requests are what it takes for two answers to change places, two
keys for a lost race, and times up to three for a token that Django and then
Envoy find expired while its session, renewed by a request under way, is live. Five failures are the code's own. Two restores at once were checked too
(six million states) and add nothing to what one restore and a restart show.
`logs` lets the world of downloads change only with one line in the client IP
log, and that log grow only in a world that stays (`Bounds`): the two meet in `FillIn`
alone. The bounds on starts, steps, sessions, commits and changes (`Max...`)
stand in the guards of the actions they bound. The theorems of section 4 state
every invariant and every action property of the runs for any values of the
constants; the bounds matter to the liveness properties alone.

**What each property is about.** The comment above each definition says what
it states. In short: `NextCheckNotices` is why the watchdog cannot stop with
unsaved work; `RecordIsTrue` is the argument of the comment in
`core/backup.py:175-184`; `EveryCommitReachesBucket` says that even the wrong
skip of `backup_skip` (section 5) is put right; `QuietDatabaseAddsNoBackups` is the README's "a
Machine that's started and stopped again without anyone changing anything adds
no backups"; `YearsAgree` is "child items always share their parent's year";
`WalkMissesOnlyCycles` says what the summary page, the ZIP and the copy can
leave out; `AdminMakesNoCycles` that no sequence of edits makes a cycle although
`check_parent_cycle` lets an unchanged parent pass; `CascadeMeetsItemsOnce` that
`Item.save()`'s loop ends; `FilesPresent` that neither the purge nor a deletion
nor a stale save takes a file in use; `PathsApart` that no folder or file of a
year's ZIP hides another, where case is ignored too; `EveryLineAccounted` that
the reader's offset, the truncation and the queue lose only what section 2.6
lists; `TotalsMatch` that the merge of batches is what one pass over
the lines would give; `ListIsCurrent` and `DatabaseNeverOlder` that an update
never sticks or goes back; `MarksAreTrue` and `CallsAreMarked` that the uptime
log is neither more nor less than the time lived, but for what the code bridges;
`PeriodsAddUp` that the pages' periods agree over midnight; `OneKey`,
`TokenGoesWithSession` and `NoRedirectLoop` that Envoy, Django and the browser
agree on who is logged in; `IdleStopStays`, `NotLeftUnreachable` and
`DeployCheckHonest` that the container's exit status and the health check mean
what Fly and CI take them to (each deploy waits for the check of the one before); `RestoreCanBeUndone` is the command's own promise
(its lines 13-19 and 90-93), `CachedIconIsItsVersion` what the icon's cache
header relies on, `SetupOnlyAdds` the setup script's "safe to re-run" (nothing
is changed or missing; a volume may be one too many),
`ReportsStand`, `OnePrOpen` and `GivesUpForCause` what CI's scripts are for.
`OnePrOpen` excepts a script that
ends at the close of the old pull request. Every property of a passing run has a
mutant of the code, next to the definition it changes, under which it fails.

### Fairness

* Watchdog: the loop's steps are weakly fair because none of them blocks (a
  backup's exit is polled, files and tables are read); time passes; and a
  master that has been sent SIGTERM exits, by gunicorn's graceful timeout.
  Nothing is assumed of requests, connections, backups (which may all hang or
  fail) or restarts.
* Backups: automatic backups are started again and again (the watchdog's
  schedule, `ActivityIsBackedUp`) and a running one goes on or fails (one that
  hangs is killed after `TIMEOUT_SECONDS`). Commits and troubles are not fair;
  the two liveness properties are conditional on `SettlesDown`: from some time
  on nobody commits, nothing fails, and only automatic backups start.
* Container: the entrypoint's commands and gunicorn's end take their time and
  no more, Fly starts what it is to start, CI polls, and Envoy, with a
  configuration it cannot run with, exits each time. Nothing is assumed of
  visits, deploys, or of Envoy with a good configuration.
* The other models have no liveness: every request is one the user may
  abandon, and every script may be stopped. That `Item.save()`'s walk ends
  follows from `CascadeMeetsItemsOnce`, as there are finitely many items.

## 4. What is proved

Every invariant and every action property that a passing run checks is a
theorem, for every value of the constants (with the named assumptions), checked
by `tlapm` in the `*Proofs` modules:

| Theorem | Assuming | By |
|---|---|---|
| `WatchdogImplementsPolicy`, `ChecksNoticeActivity`, and `TypeCorrect` of the watchdog | `ChecksOftenEnough` | `WatchdogInv` |
| `IdleMachinesStay`, `DeployChecksAreHonest` (the container) | | `ContainerInv` |
| `RecordNeverWrong` | `OneBackupASecond` | `BackupInv` |
| `TypeCorrect` of the backups | | itself inductive |
| `RestoresCanBeUndone` | | `RunsAreUnderway`, `KeysDiffer`, `AllAccounted` |
| `CachedIconsAreTrue` | | `IconInv` |
| `ChildrenShareYears`, `CascadeMeetsNoItemTwice`, `OnlyCyclesAreMissed` | `~Autocommit` | `YearInv` |
| `OnlyScriptsMakeCycles`, `TypeCorrect` of the tree | | lemmas on walks; itself inductive |
| `PathsStayApart` (the ZIP) | | `ZipInv` |
| `FilesStay` | | `FilesInv` |
| `OneParentAlways`, `TypeCorrect` of the attachments | | themselves inductive |
| `LinesStayAccounted`, `TypeCorrect` of the client IP log | | `LogInv`, `UpdateInv` |
| `OnlyThoseAreForgotten` | `Separated = {}`, no `CannotEmptyLog` step | `LinesStayAccounted` |
| `TotalsAlwaysMatch` | | `RowsInv`, `FromLineOne`, `LogInv` |
| `LookupsFind`, `ListStaysCurrent`, `DatabaseGrowsNewer` | | `GeoipInv`; a lemma on the ranges |
| `CallsGetMarked`, `MarksStayTrue`, `UptimeTypesCorrect` | | `UptimeInv` |
| `PeriodsAlwaysAddUp` | | `UptimeInv`, `LastMarked` |
| `OneKeyAlways`, `NobodyLoops` | | `KeyInv`, `LoopInv` |
| `TokensGoWithSessions` | | `TokensHold` |
| `OnePullRequestOpen`, `ReportsAlwaysStand` | | `PullsInv`; `ReportInv` |
| `SetupIsSafeToRerun`, `GivesUpOnlyForCause` | | `SetupInv`; `WaitInv` |

Besides those in the table, the modules assume of their constants what the
`ASSUME` at the head of each says, and nothing more: that bounds and times are
numbers, that a value such as `None` is not one of the things it stands beside
(`None` is no version, key or content in `Restore`, not `"open"` in
`PrScripts`, no number elsewhere), that there is an app to set up
(`Apps # {}`), that Apple's lists are sequences of ranges that do not end before
they start, that a day has whole bytes. TLC evaluates all of them in the runs.

**Watchdog.** The property to keep is: if there was activity since the backup
before stopping began, the next check will find it too recent to be due. That
is not inductive without knowing that the next check is never late by more than
`MaxLate`; that needs the loop never to sleep past it (`wake_time()` is at most
`until_check`), and that an overdue check starts at once (`CheckIsDue`). With
`OffMeansNone` these make up `WatchdogInv`. The key lemma,
`KeptBackupIsFresh`, shows that a check which keeps the flag while there is
unsaved work is not due, because the activity is at most
`CheckInterval + MaxLate` old. The refinement then goes action by action: each
step is one of the policy's or a stutter.

`ChecksOftenEnough`, that is, `CheckInterval + MaxLate < IdleTimeout`, holds of
the defaults (30 seconds and 10 minutes) unless the loop is over nine minutes
late; `config_from_env()` does not demand it.

**Cloud backup.** `RecordIsTrue` alone is not inductive: between the upload and
the write of the record, a backup relies on not having been overtaken.
`CopyIsWhole` and `ObjectIsWhole` say that a backup whose `data_version` has not
changed has every commit, in its copy and later in its object; `WritesTruth`
that a signature once compared stays sound for as long as the file has its
time; `RecordHolds` strengthens the property to a log whose frames have all
been copied to the file; and `NamesDiffer`, where the assumption is used, that
nobody replaces the object.

**Item tree.** Outside the walk the invariant is that children have their
parent's year. During the walk (`ItemMoved`) only the moved item's children may
be in the year it left, and (`WalkHas`) those met so far are its descendants
level by level. A child met twice would have two parents or be in two years.
`OnlyCyclesAreMissed` follows from it by lemmas on closed sets in place of
induction: the items met, and those whose line does not end, are both closed.
`OnlyScriptsMakeCycles` looks at each admin step: a new item is nobody's parent,
a moved one was checked against its new parent's line, a copy's parents are
copies, and a deletion takes whole subtrees or is refused.

**Attachments.** A deletion collected earlier holds names of files; `DoomedOwn`
says that each is still that row's own or nobody's, since a key that anything
refers to is never given out again. With it no deletion takes another row's
file.

**The container.** `IdleStopStays` needs to know why the entrypoint exits: that
the file which says Envoy was given up is of this run of the container and no
earlier one (`FileOfThisRun`), and that the count of failures is one of short
runs, but perhaps for the first (`ShortRunsCounted`). `DeployCheckHonest` needs
that a server begins only after migrations and once there is an admin
(`HasAdmin`), and that nothing runs in a Machine that is down.

**Restoring.** A run has downloaded what it restores, has a copy, and a key
that is its own until it has uploaded (`RunsAreUnderway`, `KeysDiffer`);
`AllAccounted` says of each commit where it is: in the bucket, in the copy not
yet uploaded, or among those the user was warned of or that came since. Only
then can replacing the database be undone. For the icon the point is that files
are numbered freshly in every database there is, the bucket's included
(`IconKept`), so that what a request has read the row of is there or gone, and
never another image (`RowsReadHold`). That holds up to the end of the request, or
to a restore that comes first: the database put in place may have given the same
number to another image.

**The ZIP.** Places taken (`PlacesTaken`, `PlacesDiffer`) are told apart by the
key a name has where case is ignored. That a folder's path goes through its
parents' folders (`FoldersWithin`, `AboveAreFolders`) is what keeps a file from
sharing a path with something below another folder; it holds only where parents
make no cycles, the exception that section 5 describes. That a name always gets
a free suffix (`DedupedIsUntaken`) follows from the finiteness of `used`.

**Client IP log.** A line that was taken from the file is in one place
(`InOnePlace`) and not ahead of the collector as well (`NotAgain`): the latter
is why emptying the file and starting again from its first line count nothing
twice. `NothingWaits` is what lets the container's start delete the file. `LogInv` speaks
of lines `GivenUp`, lost or forgotten; `OnlyThoseAreForgotten` says that with
neither a failing truncation nor a split line the collector's comment is right:
every request read is recorded or waits to be. For
the table, `RowIs` says what a row has after any sequence of lines; the key
lemma, `MergeIs`, is that a row of one sequence merged with the row of another
is the row of both in either order, with the greatest and least of two sets of
times (`EarliestOfBoth`, `LatestOfBoth`), the last request by time and then by
place, and counts of disjoint places. `RangesFound` is the binary search: of
disjoint ranges, the one with the greatest start that is not after the address
is the only one that can have it.

**Uptime log.** What is due to be made up for reaches back to what was recorded
last (`CaughtUp`); what was called for is marked or due (`MarkedOrDue`); and all
that is due was lived, if the clock only went on (`LivedIfDue`). Each kind of
failure keeps these because it leaves `unrecordedFrom` no later than it was.
For the reports, each run of marks has a first second and a last (`EndIs`,
`InItsRun`), runs are apart, and a midnight between two marked seconds is the
only place where a day begins a period that the days together do not
(`StartsAddUp`).

**Keys and sessions.** `KeyInv` is that whoever has a key has the one on disk,
though it was linked by another process. `TokenGoesWithSession` is about the
browser's jar and all requests under way at once; it is kept because an answer
sets both cookies for one session, or neither (`AnswersAgree`), and because no
token lasts longer than one issued now would, so that a session renewed now
outlasts every token sent with it (`TokensExpire`).

**Scripts.** `ReportInv` has, for each kind of report, that a job past its look
at the pull request's head posts on no older commit than any report there is
(`NothingNewer`), and that what it still has to edit, delete or hide is what it
found: the workflow runs one job of a kind at a time. `PullsInv`, `SetupInv` and
`WaitInv` say at each step of the other scripts what has been done before it.

**Sums and induction.** The library's sums are folds, that is, functions on
subsets given by their value on a subset with one element less. `SumCounts`
takes the one with the values wanted, shows that it satisfies that equation,
and that no other differs from it, since a smallest subset on which it did would
be none (`WFMin`). In the same way `TimesEnd`, `AncestorIs` and `InItsRun` take
a smallest counterexample instead of going by induction.

### Only model-checked

Liveness: `StopsWhenIdle`, `ActivityIsBackedUp`, `EveryCommitReachesBucket`,
`QuietDatabaseAddsNoBackups` and `NotLeftUnreachable` need fairness and
`ENABLED`, out of the prover's reach; TLC checks them at the sizes of section 3.
`SkipsOnlyWhatIsBackedUp` and `NoRequestSeesAMix`, and the four definitions that
section 5 names without a run, are refuted by TLC's counterexamples. The
theorem schemas for induction, which take an operator as a parameter, are out of
reach too, and so are recursive operators; hence the smallest counterexamples
above, and the walks of the tree written as closures.

## 5. Findings

Two runs each show a disagreement of the code with its own documents:

* `backup_skip`: **`database_changed()` can miss a commit**
  (`core/backup.py:201`). It is "True unless that's certain not to be so" (lines
  253-254), but the file is looked at before the log: if the last connection
  closes in between, the file's old time and the missing log together look like
  the recorded state. The next automatic backup puts it right.
* `restore_mix`: **a request for the icon can see a mix** of the data before a
  restore and after (`core/app_icon.py:178`): "every request sees the restored
  data, never a mix of the two" (`README.md:354-355`). The row is read in one
  transaction, the file in another; the restored icon may have the same name, and
  is then cached for a year as the version before (lines 16-17).

Others met while modelling have no run of their own. Of the first four, a
definition says what the document does, and TLC refutes it when it is added to
the `.cfg` named, as `INVARIANT`, in the place of the others; of the rest, the
constants or assumptions named show them.

* **Requests are forgotten when the log can't be emptied**
  (`core/client_ips.py:269`; `RequestsAreRetried` in `MCLogs`, with
  `Separated = {}`). "Requests read but not yet recorded, as the reader has moved
  past them (and may have emptied the file): retried until recording works
  again" (lines 944-946), but `read()` moves its offset (line 265) before
  `os.truncate()`, and returns nothing if that raises: what it read is in
  neither the queue nor the database, and never will be.
* **A complete line need not come out of `read()` as one**
  (`core/client_ips.py:271`; `CompleteLinesAreRead` in `MCLogs`). It is to
  return "the complete lines added since the last call" (lines 244-245), and
  finds the last one's end at a newline, but takes them apart with
  `splitlines()`, which also splits at U+2028, U+2029 and U+0085. That Envoy
  writes these unescaped is assumed.
* **A token can expire before its session** (`core/jwt_auth.py:257`;
  `TokenLastsWithSession` in `MCJwtSessions`), of which lines 16-19 say "it never
  expires before the session does", and lines 27-29 that of two overlapping
  requests' tokens "each is valid for as long as the session is". An answer that
  renews both may be lost, or overtaken by an earlier one. The browser's session
  cookie is as old, so this costs a visitor a login at worst; `NoRedirectLoop`
  holds all the same.
* **`fly-setup.sh` can create a second volume** (line 109; `CreatesWhatIsMissing`
  in `MCScripts`). It "creates whatever is missing" and is "safe to re-run"
  (lines 7-10), but the list of volumes is the condition of an `if`, where
  `set -e` ends nothing: one that fails is taken for one without the app's.
* **Hung backups can keep a Machine up** (`core/auto_backup.py:112`) with a
  backup interval of half an hour or less (`BackupInterval = Timeout` in
  `MCIdleWatchdog`), since the hung backup is killed and the next started in one
  call; lines 25-26 say the timeout is there so that it cannot.
* **Two backups in one second** (`core/backup.py:151`; `OneBackupASecond =
  FALSE` in `MCCloudBackup_record`) have the same key, so the upload of the older
  copy can replace the newer object which the state file vouches for.
* **A direct `Item.save()` in autocommit mode** (`taxtracker/models.py:228`;
  `Autocommit = TRUE` in `MCItemTree`) can give a child the year its parent had,
  though the comment says that direct saves respect the invariant too.
* **"Delete selected" can leave a file behind** (`core/attachments.py:88`), one
  uploaded in place of another between the collection of the rows and their
  deletion. `purge_orphaned_files` removes it.
* **Two folders that differ only in case**, below cyclic parents that differ only
  in case, can share a path where case is ignored (`taxtracker/admin.py:770-787`
  says no two do): such a folder's path follows its parents' titles, not the
  suffixes they were given. `PathsApart` therefore asks it of years without cycles.
* **Four short runs of Envoy, not five,** follow one of a minute or more before
  it is given up (`docker-entrypoint.sh:97`), with a message that says five.
* **A pull request can be closed without a word** (`scripts/recreate_pr.py:138`):
  if `gh pr close` fails after it has closed the old one, `run_gh()` exits with
  gh's message, before the part that reopens it (line 141: "reopening the
  original if that fails", of the creation). `OnePrOpen` excepts that ending
  (`"failed"`); with it the property is violated.
* **A gap of any length counts as uptime** after a failed write
  (`core/uptime_log.py`), as section 2.7 says.

All other properties held. In particular the purge is safe beside the pages:
its transaction and theirs take the write lock as they begin, so it never sees a
page's file without its row. (Its own comment, at lines 42-45, and the
repository's README are more cautious than that.)

## 6. What is left

Not modelled, and why:

* a financial year's status history: `_loaded_status` may be stale only in a
  script that keeps an instance, as each admin page is one transaction; the
  primary rows of file types, for the same reason;
* tasks and their attachments: the same mixins and signals as items', with
  neither years nor a cascade;
* pages that only read (lists, filters, exports of client IPs, reports), and the
  serving of files;
* archives, HAR files, PNG checks and Envoy's configuration file, which are
  parsing and formatting in one thread;
* Google sign-in, the command line tools, settings and URLs, which are wrappers
  and configuration;
* the exceptions named under "Abstractions" in section 2.

What is worth proving next is not another of the runs' properties but what
links the models: that the idle watchdog's wait for a backup together with
`RecordIsTrue` leaves no commit behind when a Machine stops, for which
`IdleWatchdog` and `CloudBackup` would have to share a backup's outcome.

## 7. Reading and running

Each `MC` module EXTENDS a component's module (or one that composes several)
with the values of its constants; each `.cfg` names its `MC` module by prefix:
`tlc -config MCLogs.cfg MCLogs`. The longest runs (`item_tree`,
`attachments`, `sessions`, `logs`, `restore`) take two to four minutes with two
workers, the others less than one and a half. `tlapm ItemTreeProofs.tla` checks one module's
proofs.
