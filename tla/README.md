# Verification of the OKTE EDC integration

TLA+ models of the Home Assistant integration in `src/custom_components/okte_edc`,
TLC configurations that check them on small instances, and TLAPS proofs of the
properties that matter most for every instance.

OKTE, the Slovak market operator, mails a metering file (MSCONS, one metering
point, one day) every day, and corrections (`_V2`, `_V3`) of it later. The
integration polls an IMAP folder, imports the hours into Home Assistant's
recorder as long-term statistics, remembers per `(eic, measurement_date)` which
version it has imported, and shows a few sensors.

## 1. Inventory

| Part | State it keeps | Operations | What makes it hard |
|---|---|---|---|
| `coordinator.py` `OkteCoordinator` | processed versions in memory and in the Store, full-scan flag, first-refresh flag, sensor data | `_async_update_data` (window, load, seed, executor job, import loop, save), `_poll_sync`, `_collect_pending`, `_recompute_and_import_stat`, `async_trigger_full_rescan`, `update_from_options` | half of a poll runs in an executor thread; it may end with an exception at every IMAP, recorder or Store call, after some of its effects; restarts and power cuts in between |
| `imap_client.py` | the session; flags and messages on the server | SEARCH variants, FETCH, COPY + `\Deleted`, EXPUNGE, CLOSE | other clients of the same folder, STOREs refused one by one, CLOSE that expunges |
| `statistics.py` and the recorder | rows of each statistic, the recorder's queue | `quarters_to_hourly`, `import_hourly_statistics`, `get_last_cumulative` | imports are queued, reads may be older than the queue; sums depend on every earlier hour |
| `mscons.py` | none | `parse_mscons` | clock changes, four notations of times, payloads that disagree with their names |
| `config_flow.py` | what each dialog remembers between its forms; the entry's data and options | user, folder, discover, post-setup forms; options, rescan, reauth | merges into an entry that other dialogs change meanwhile; updates that each may reload it |
| `__init__.py` | the running coordinator, its copies of the entry, the update listener | setup and its failures, unload, remove, update listener | dialogs go on during a setup, before the listener is there; reloads queue up; a poll outlives its coordinator |
| the timer (`_within_window`, `_update_interval`) | time to the next refresh | refresh, change of options | windows across midnight, texts that are not `HH:MM`, intervals longer than the window |
| `button.py` | none | `Check mailbox now`, `Full mailbox scan` | presses while a poll runs |
| `sensor.py`, `diagnostics.py`, `const.py` | none of their own | views, redaction, names | stale or missing values |

Interactions. A timer, a button or the entry's setup starts a refresh. The refresh
loads the Store once, checks the window, and hands `_poll_sync` to an executor
thread; that thread talks to the mail server and writes the shared dictionary
`_last_processed_versions`. Its results come back to the event loop, which reads
the recorder and queues rewritten statistics one by one, then saves the Store and
publishes the sensors' values. The recorder writes its queue in a thread of its
own.

What should be true, part by part:

- coordinator: what the Store marks is in the recorder (or queued); what it marks is
  not imported again; what is not marked and in range is imported in the end; a file
  never gives way to an older version; sensors do not go back in time; requests are
  honoured.
- mailbox: nothing is lost that was not imported, archived or old.
- recorder import: rewriting a statistic from a day on keeps the other days; the
  running sums amount to what the last imported files say.
- parser: a good file is understood as it is meant on every day and in every notation;
  a file that lost quarters does not pass without a warning; what is understood is
  filed under its own day and feeds a sensor.
- polling window: it is the stretch of the clock the user chose, and none closes
  without a refresh in it.
- dialogs: what a dialog remembers belongs together when it is used; no metering
  point is forgotten, no sender dropped.
- lifecycle: coordinator and sensors follow the entry; a choice of metering points
  takes effect in the end; a password prompt opens only when there is cause.

The hazards, each with its line and the properties aimed at it, are in
`PROJECT.json` under `hazards`.

## 2. Modules

    OkteFiles            metering points, days, versions, files, statistics
    ├── Mailbox          the folder, its server and the IMAP session
    ├── Recorder         the recorder: rows and queue of every statistic
    └── StatsLedger      abstract: days of a statistic only move to newer versions
    Coordinator          EXTENDS Mailbox, Recorder: the poll cycle
    CoordinatorProperties  properties, fairness, inductive invariants, refinement
    Recompute            one statistic hour by hour: the running sums
    HourLedger           abstract: an import changes exactly its files' hours
    CoordinatorProofs    theorems that hold whatever fails
    └── LedgerProofs     the Store's marks; polls that nothing interrupts: the refinement
        └── MailProofs   theorems about the user's mail and what is collected of it
    RecomputeProofs      theorems about the running sums: HourLedger is implemented
    ConfigFlow           the dialogs and the entry they write
    └── EntryLifecycle   setup, reload, unload, update listener beside the dialogs
    EntryProperties      properties, fairness, inductive invariant of the entry
    EntryProofs          theorems about the entry's life
    Mscons               the parser, as operators
    └── DailyFiles       good and flawed files for it, and what it should make of them
    DailyFilesProofs     theorems about the parser
    PollWindow           the window's times and the timer that meets it
    PollWindowProofs     theorems about the window and the timer
    FiniteSums           facts about finite sets, sums and induction, for the proofs
    MCCoordinator, MCRecompute, MCEntry, MCConversions   instances for TLC

**OkteFiles.** A file is a record of EIC, day, version and `body`; `body` says
what reading it shows: a good file, a name without a valid date, a payload that does
not parse, or one that declares another EIC or day. `Series[e]` is the set of
sensors a file of `e` feeds.

**Mailbox.** A message is its UID, and the constant `Mail` says what it is: sender,
files, and the subject-filter variants that find it. `arrived` keeps the day of
delivery (INTERNALDATE, what SINCE and BEFORE compare). Each command the client
issues is an operator; with the fault `"imap"` each may be refused the way the code
handles it: a failed STORE is logged and the loop goes on, a failed archive falls
back to leaving the message, a refused search variant is passed over (`Answered`; when
all are refused the folder looks empty), the answer to EXPUNGE is not looked at, a
failed CLOSE is swallowed, everything else raises. EXPUNGE and CLOSE remove every flagged message, whoever flagged it.

**Recorder.** External code, modelled from the calls in `src/`. A row is a day of a
statistic; its value is the version of the file whose hours it holds. `Enqueue` is
`async_add_external_statistics`, `Commit` the recorder's thread. `Backlog` bounds the
batches of one statistic that wait.

**Coordinator.** One action per stretch of code in which nothing else can
interfere or fail: `BeginPoll` (window, Store), `ReadFlag` and `ClearFlag` (two
statements of another thread), `OpenSession`, `MarkOld`, `ExpungeOld`, `Collect`
(search, fetch, every check, sort, de-duplication: it shares nothing with what runs
meanwhile), `ProcessFile` per file (stage, mark, archive), `ExpungeArchived`,
`Close`, `ImportStat` per statistic, `FinishPoll` (save, merge). `SeedFails`,
`OpenFails`, `PollFails`, `ImportFails` and `SaveFails` are the exceptions: a regular
refresh that fails keeps the coordinator's memory, marks included; `SaveFails` comes after the merge, so
sensors may show what the Store does not have; a first refresh
that fails makes the entry's setup fail, and the retry builds a new coordinator
(`Abort`). `Reconfigure` is the update listener's reload, `Restart` an orderly
stop and start (Home Assistant drains the recorder first), `Crash` a power cut
that loses memory and the recorder's queue. Message fetching, header decoding and
the parser are abstracted to the outcome in `Mail` and `body`; the sensors' values to
measurement date and version, which the other freshness values go with.

**Recompute.** `_recompute_and_import_stat` and `statistics.py` for one statistic, at
the grain of an hour, where Coordinator has days: quarters become hours (`Hourly`),
the sum before the first changed day is looked up (`SumBefore`, with its lookback of 30
days and the polling zone's midnight, `From`), the later rows are read and turned back
into energies (`OldDeltas`), the new hours put over them (`Overlaid`), and the sums
summed up again (`RunningSums`). The two reads and the push are three steps, between
which the recorder may write and at the first two of which the poll may fail. After the push
the import of another statistic may raise (`PollFails`), the save may
(`SaveFails`; the merge comes before it and updates an entry in place), or the poll
ends well and its sum is merged into `coordinator.data` (`Save`). `shown` is that entry of
the data, which the energy sensor shows; `total` is `_last_cumulative`, which a new
coordinator seeds from the recorder and which only the diagnostics show; the
history variable `merged` says that the last push was merged. `Reload` puts a new
coordinator in place between polls, while a batch of the one before may still be
queued. After a first poll that failed the code always builds a new coordinator; the model
also lets the old one go on. Energies are integers; the code's floating-point
rounding is not modelled. Marks and Store are kept only so that the versions a poll
stages are those it can stage.

**ConfigFlow.** One action per submitted form. The wizard's `user`, `folder`,
`discover_eics` and `post_setup` forms fill in `wizard` and then create `entry`; the
folder form stays and may be submitted again when nothing was found. `SubmitOptions` is the
options screen (its EIC toggles and the allowlist; the other options are constants here and
of PollWindow and Coordinator), `BeginRescan` and `SubmitRescan` the rescan with its two
merges, `SubmitReauth` the password dialog. The mailbox's password is a number that
grows when its owner changes it (`accepted`). `Discoveries` is `discover_eics`: what any
part of the folder's mail shows. A request that is refused shows the form again and
changes nothing, so it is no step.

**EntryLifecycle.** `phase` is where the entry stands: being set up (`setup` is the first
refresh, `forwarding` the platforms), loaded, being unloaded, waiting to retry,
refused its password, in error. `coord` holds what the coordinator copied from the entry when
it was constructed, `entities` what the platforms made, `reloads` the reloads that wait for their
turn. The update listener exists from the end of the setup to the end of the unload
(`Listening`): an update before that is heard by nobody, which the history variable
`unheard` records. A dialog's submission makes up to two updates, each of which may
call the listener (`Updated`). A poll that a button began is not stopped by the unload; of it the
model keeps the password it logs in with (`stale`), because its refusal opens the
password dialog of an entry that has a new password. Home Assistant's own part (one setup
or unload at a time, the reload lock, the retry, at most one password dialog) is
external, modelled from how `__init__.py` and `config_flow.py` use it.

**Mscons, DailyFiles.** Time is counted in quarters of an hour, the two clock changes are days
`Spring` and `Autumn`, and Bratislava's offset is a function of the instant or of the
wall time (a time without an offset is the first of two, as `fold=0` has it). A document
is the structure the parser walks: blocks, location, series, quantities, times. Each
function of `mscons.py` is an operator, from `ParseDatum` to `Parse`; a loop that passes over
some elements is the set of places it keeps (`Kept`, `Valued`) and, where their order
matters, the sequence of what is there (`Picked`). DailyFiles writes
the file of every metering point, day and notation, whole and with each of twenty flaws.

**PollWindow.** The window's ends are texts (`HH:MM`, or `HH:MM:SS`, which the time selector of
the options screen returns), parsed by `ParseHhmm`; a clock of `DayMinutes` minutes and the timer
`wait` run beside changes of the options.

| Variable of Coordinator | Code |
|---|---|
| `store`, `versions`, `storeLoaded` | the Store's file, `_last_processed_versions`, `_store_loaded` |
| `firstRefreshDone`, `forceFullScan` | `_first_refresh_done`, `_force_full_scan` |
| `enabled` | `_enabled_eics` |
| `inWindow`, `requested` | the result of `_within_window`, a refresh asked for |
| `data`, `updates` | `coordinator.data`, `updates` (measurement date, file version) |
| `pending`, `toImport` | `pending_by_stat`, its statistics still to import |
| `deduped`, `forced` | locals of `_poll_sync` |
| `rows`, `queue` | the recorder |
| `today`, `arrived`, `inbox`, `flagged`, `archived` | the calendar and the mail server |

| Variable of EntryLifecycle | Code |
|---|---|
| `entry` | `entry.data` and `entry.options`: folder, password, EIC records, sender allowlist |
| `wizard`, `rescan` | attributes of `OkteConfigFlow` and `OkteOptionsFlow` between forms |
| `reauth` | the reauth flow: open, its reload waiting, its reload under way |
| `accepted` | the mail server's password |
| `phase`, `reloads` | the entry's state and the tasks waiting for its lock (Home Assistant) |
| `coord`, `entities` | the coordinator's `_enabled_eics` and IMAP client; entities of `sensor.py` |
| `stale`, `unheard` | logins of polls that outlive their coordinator; history |

Operators introduced by a comment `Mutant` are deliberate mistakes; nothing uses
them. Each stands for a plausible bug in the definition that follows it and is what a
property is tested against: put in place of that definition, it must make the
property fail.

## 3. Properties and runs

| Run | Mode and faults | Checks | Shows |
|---|---|---|---|
| `poll_safety` | delete; IMAP, Store | `TypeOK`, `StoreMarksLanded`, `LandedInv`, `OnlyOldDeleted`, `RecentMailCollected` | marks stand for hours; the proofs' invariants hold; a cleanup interrupted anywhere deletes only old mail; mail inside the correction buffer is collected |
| `poll_faults` | leave; IMAP, Store, restart, power cut; mail leaves the scan window; full scans; EICs switched off and on | `NeverReprocessed`, `SavedInv`, `SavedStays`, `FreshnessNeverRollsBack` | what the Store marks is neither staged again nor overwritten by an older version, even if a repeated poll finds other mail than the first; the proofs' invariant holds; sensors never go back |
| `archive` | archive; another client; both buttons, window opens and closes, EICs switched off and on | `ArchivedLanded`, `UninterruptedInv`, `RefinesLedger` | archived mail has been imported; the proofs' invariant holds; rows only move to newer versions of published files |
| `archive_faults` | archive; IMAP, recorder, restart, power cut | `NoMailLost` | a message leaves the folder only once it is copied |
| `liveness` | leave; IMAP, restart; fairness | `EventuallyImported` | every good file is imported in the end |
| `recompute` | recorder, Store, reload, restart, power cut | `TypeOK`, `SensorAgrees`, `RecomputeInv`, `RefinesHours` | running sums amount to the files' energies, for days in any order, corrections, a gap, a clock change; the sensor shows the last sum once its import is merged and written; the proofs' invariant holds |
| `marks_without_import` | recorder fails | `StoreMarksLanded` violated | finding 1 |
| `correction_undone` | archive; power cut | `RefinesLedger` violated | finding 2 |
| `recompute_zone` | polling zone an hour west | `RefinesHours` violated | finding 3 |
| `entry` | every dialog at every point of setups, reloads, unloads, restarts; password changes; fairness | `TypeOK`, `InSyncIfHeard`, `CredentialsCurrent`, `EicsFromFolder`, `EntryInv`, `PromptsJustified`, `KnownKept`, `RescanKeepsSenders`, `ChoiceTakesEffect` | coordinator, sensors and entry agree; prompts are justified; nothing is forgotten; a choice takes effect in the end |
| `conversions` | files whole and flawed on four days; the clock and every change of options | `GoodFileUnderstood`, `LossWarned`, `DayIsTheFilesDay`, `FeedsSensors`, `WindowAsConfigured`, `WindowInv`, `EveryWindowPolled` | the parser's and the window's arithmetic, clock changes and midnight included; the proofs' invariant of the timer holds |
| `window_with_seconds` | times with seconds | `WindowAsConfigured` violated | finding 4 |

`RefinesLedger` is a refinement: `StatsLedger!LedgerSpec` with `ledger` the
recorder's rows and `published` the good files that accepted senders have sent. It is meant for polls
that nothing interrupts between their first mark and their save, and run `archive`
checks it for these. A poll that is repeated need not find what the first one found: its
newest version may be archived (finding 2) or out of range, or its search variant may
be refused this time, and then an older version is written over it. In the
instance of `poll_faults` it is violated, by a power cut before the save and a refused
`TOKEN` search after it. What still holds there is `SavedStays`: a version the
Store marks never gives way to an older one.
`RefinesHours` is `HourLedger!LedgerSpec` with `energy` the difference of each row to the
row before it, which is what the Energy dashboard computes.

**Findings.** (1) A file is marked as processed before its hours are imported; if
the recorder raises in between, a later poll saves the mark and the file is never
imported. (2) In archive mode a superseded original stays behind; after a power cut
between the recorder's write and the save it is imported over its correction. (3) The
day's first hour is that of the polling zone, the hours themselves are those of
Bratislava: with a zone further west a correction is added to the first hours of its
day instead of replacing them. (4) A time with seconds, which the time selector
returns once it is touched, is read as midnight.

Other disagreements show in the models and have no run of their own, because one step or
one line shows them: `max_backfill` keeps the same end of the same list in every poll, so
mail beyond it may never be seen (`Newest`); the search cutoff is that of the
most advanced EIC, so a metering point enabled later does not get its scan window (`Cutoff`);
`Check mailbox now` does nothing outside the window (`SkipPoll`); an update that comes
while the entry is being set up is not applied until something else reloads it
(`NoListener`); a file that has lost exactly one hour in every series looks like the spring day
(`CountWarnings`).

**Bounds.** Three messages (UIDs 9, 10, 11, whose order as byte strings is 10, 11,
9, so that lists sorted as the code sorts them are not in UID order), two metering
points, one of them with two statistics, two to four days, two versions. Three
messages are enough for an original, its correction and a later day, two points for
one file to influence another, two statistics for one to be imported and the other
not. The mail of an instance is fixed but its arrival is not: any UID may be skipped,
and delivery, midnight, presses and failures come between any two steps. `Corrections`
has a correction that travels with another point's file, in a message that only one of
the search variants finds (a poll in which that variant is refused passes it over); `Forwarded` a correction that
arrives before its original, in a message that only the `TOKEN` search finds, a late file, a garbled copy and a sender outside the
allowlist. The scan window is one
or two days and the buffer one instead of 30 and 7. In `poll_faults`, with a window of one day
and a calendar of three, mail leaves the window and only a full scan reaches it
again; in the other runs of the poll cycle it stays in range, and a full scan finds nothing
that an ordinary one does not. In `liveness` the calendar is no longer than the
scan window and the buffer, because mail that cannot be found for that long is given up
by design. `Backlog` is 1: the recorder is taken to have written a statistic's
previous batch when a poll rewrites that statistic, the first poll of a reloaded coordinator included. It normally has, polls being
minutes apart; what happens when it has not is part of the plan below. `archive`, `archive_faults` and
`liveness` have two days, the latter two one statistic per point, to stay small. `recompute` has days of two, one and two hours and a lookback of two
hours, so that after a missing day the last row lies exactly at the lookback's bound; a
longer gap, or a recorder that lags a batch behind (`Backlog` = 2), breaks
`RefinesHours`, as does finding 3. Every action of the model, and every way an IMAP command can be
refused, is taken in some passing run; none of them disables deadlock checking.

`entry` has two folders, one with mail of
one metering point and one with mail of both, and two senders, so that a wrong folder or a lost
sender shows; the
password changes twice (`MaxRotations`), so that a new password can be outdated before its
reload is over; one reload waits besides the password dialog's (`MaxReloads`; more of
them repeat the same step), and at most one poll outlives a coordinator.
`conversions` has both clock changes and the normal days next to them with the real 92, 96
and 100 quarters, and a day of twelve minutes whose windows include one across midnight, one
of a single minute, one that ends with the day, and intervals below, inside and above the
timer's limits; the window's arithmetic only compares, so a longer day shows no more.

**Mutants.** `PROJECT.json` names for each property of a passing run a mistake in one
definition of the model under which TLC finds that property violated in the same run.

**Fairness** (`Fairness`). The coordinator's timer fires as long as Home Assistant
runs and a poll that has begun goes on, so `PollStep` is strongly fair: failures and
restarts put it aside again and again. Connecting and searching may fail any number
of times but not always (`OpenSession`, `CollectFrom(AcceptedSearches)`); a setup
that failed because of the password or the folder waits for the user in reality, and
fairness says that the user sees to it. The recorder thread writes
(weak fairness of `RecorderThread`), the window opens every day (`WindowOpens`) and
Home Assistant is not restarted for ever. Nothing is assumed of users, of mail or
of the calendar. That a window which opens is polled is PollWindow's
`EveryWindowPolled`; it takes an interval no longer than the window, so Coordinator's fairness does
too.

For the entry (`Fairness` of EntryProperties): what Home Assistant has begun goes on
(`LifecycleStep`, weakly fair); the password dialog's reload gets its turn among other reloads
(`ReloadForDialog`, strongly fair, because the lock is fair and the turn comes and goes); the user
types the password asked for (`NewPassword`) and reloads an entry that shows an error
and asks for nothing (`ReloadAfterError`); and from some time on the server is reachable with
its folder and Home Assistant is not restarted. A password may still be refused and
dialogs may still change everything, at any time.

## 4. Proofs

Every theorem is for arbitrary values of its module's constants: any metering points,
mailboxes, calendars, modes and faults; any days, files and energies of a statistic; any
options; any days of the clock changes. What is assumed of them are the named ASSUMEs of
the modules (`FilesAssumption`, `MailAssumption`, `RecorderAssumption`,
`CoordinatorAssumption`, `FlowAssumption`, `LifecycleAssumption`, `RecomputeAssumption`,
`WindowAssumption`, `ClockAssumption`, `DailyFilesAssumption`): constants have
their types, UIDs are distinct numbers, messages and files are not empty, days follow each other. A
theorem that needs more says so in its statement, and the condition is repeated here.

**The poll cycle.**

- `TypeCorrect`: `Spec => []TypeOK`.
- `SafeInvariant`: `SafeInv` is inductive. `NeverReprocessed` is not by itself: that
  what is staged is ahead of the Store follows from what is staged being equal to
  the mark in memory (`StagedInv`) and the candidate having been ahead of that mark
  (`CandidateInv`), which needs candidates to be unique per EIC and day, which is what
  sorting and de-duplicating ensure (lemma `FirstIsUnique`), and memory never to
  be behind the Store. `FreshnessNeverRollsBack` needs that shown values are marked
  (`ShownInv`), because the guard in `_collect_pending` compares with marks and not
  with what is shown. `PollInv` says which of a poll's locals are empty when.
- `NoReprocessing`: `Spec => []NeverReprocessed`, whatever fails.
- `FreshnessMonotone`: `Spec => FreshnessNeverRollsBack`, whatever fails.
- `LandedInvariant` and `MarksLanded`: `Reliable => (Spec => []LandedInv)`, and with it
  `[]StoreMarksLanded`. `Reliable` names exactly
  what the code needs: no recorder failure and no power cut, no IMAP failure in
  archive mode (where an exception can follow a mark), and one batch at a time. The
  invariant adds `MarksInv`: a mark in memory has landed, or its hours are staged and
  their statistic is still to be imported. Its lemmas say what `Landed` is when a batch
  is queued or written. Run `marks_without_import` is the counterexample when the first
  of these is dropped.

- `UninterruptedInvariant`, and from it `ArchivedHasLanded` (`[]ArchivedLanded`) and
  `LedgerImplemented` (`Spec => RefinesLedger`). `Uninterrupted` is `Reliable`, and
  besides no failing save and no restart; then a poll that fails does so before its first
  import (lemma `FaultsEarly`), in every cleanup mode. That a write is never a step back
  needs more than the version check in `_poll_sync`, which compares a file with the mark in memory:
  `AheadInv` says that marks are never behind what has landed, and the Store's neither, so
  that reloading them (`_load_state_if_needed`) loses nothing. That a write is of a published file needs
  `OriginInv` (candidates come from delivered mail of accepted senders) and `PublishedInv` (staged hours
  and landed ones were published). `ArchivedInv` follows a file of an archived message
  from staging to the recorder. One lemma per part reduces the steps to those that touch
  it (`LandedSteps`, `RowSteps`, `PendingSteps`, `MarkSteps`). Run `correction_undone` is the
  counterexample to the refinement when a power cut may interrupt a poll in archive mode.

- `SavedInvariant` and `SavedVersionsStay`: what is left of it when polls are interrupted.
  `Orderly => (Spec => SavedStays)`, for any mailbox and whatever a poll finds; `Orderly` is
  `Reliable` with power cuts allowed. A row above its mark in the Store may be lost to an older version, a
  row at or below it never. `SavedStays` is not inductive, because the batch that replaces a row was
  queued earlier; the invariant adds `WaitingInv`: if a waiting batch will take a day back,
  the Store does not have the day's newer version, and memory does not either
  unless the statistic is about to be rewritten, so no save can bring it there
  first.

- `MailKept` and `OnlyOldMailDeleted`: outside delete mode no message is lost, and in
  delete mode only old messages leave the folder, both whatever fails. They assume that
  no other client flags messages (`AloneInFolder`), because EXPUNGE and CLOSE take
  every flagged message. Lemma `StepsOnMail` first reduces every step to what it does to
  the mailbox; the invariants are that flagged messages are copied, or old.

- `RecentCollectedAlways`: `Spec => RecentMailCollected`, whatever fails, if there is no backfill limit
  (`MaxBackfill = 0`; with one, the limit may cut recent mail off, as section 3 says). The
  cutoff is computed from the marks, so the invariant needed is that no mark is ahead of
  the calendar (`PastInv`), which holds because files are delivered after their day; then the
  cutoff is no later than the buffer's first day, the server's search has the
  message, and sorting and de-duplicating keep the highest version of each day
  (`HighestIsKept`).

**The recorder's running sums** (RecomputeProofs).

- `RecomputeInductive`: `Spec /\ []ShortGaps => []RecomputeInv`, for `KeepsUp`. The conditions are the
  three that hazards and findings name: a recorder that has written a statistic's batch
  before any poll rewrites it, one of a reloaded coordinator included (`Backlog = 1`), a polling zone not west of the data's
  (`Shift <= 0`; finding 3 is what happens otherwise), and, at each
  read of the baseline, a row within the lookback if there is any before (`ShortGaps`). Reloads
with a batch still queued, restarts, power cuts, failing reads, imports and saves
are included. `RefinesHours` is not
  inductive; the invariant says that what a poll has read is still what the recorder has when it pushes (no
  batch waits meanwhile: `QueueInv`, `ReadInv`), that sums rise, and that a batch
  that waits replaces every row from its first hour on and changes the energy of exactly the hours
  staged (`BatchInv`). The heart is lemma `PushedIs`: from the baseline, the old rows
  turned into energies (`OverlaidIs`) and the new hours over them, the new sums are each the
  energy of the hour more than the one before (`RunningSumsAre`), so every hour after a
  correction moves by the same amount.
- `TypeCorrect` (no sum, baseline or total turns negative), `SensorCorrect` (`[]SensorAgrees`,
by `ShownInv`: from the push on `total` is the sum the recorder will have last, and what is
shown is `total` once it is merged) and
  `HoursRefined` (`RefinesHours`, by the step `StepIsImport`) follow, under the same conditions.

**The polling window** (PollWindowProofs), for window ends of the form `HH:MM` (`Texts \subseteq
{"HH:MM"}`; finding 4 is what other texts do).

- `WindowInductive`: in a window that no refresh has met, the timer has run since the window's first minute
  or longer (`WindowInv`), because a refresh in the window meets it and a change of
  options is followed by a refresh. `WindowCorrect`: the comparisons of `_within_window` make exactly the
  stretch of the clock from start to end, across midnight too. `WindowsPolled`:
  `EveryWindowPolled`, for every interval, day length and change of options.

**The parser** (DailyFilesProofs).

- `EveryResultFeeds`, about any document: one that is understood feeds a sensor of the role
  settled on. `ReadBack`, about any instant: written in any notation it is read as the same instant, but for the
  second pass through autumn's repeated hour without an offset.
- `DayUnderstood` (`[]DayIsTheFilesDay`), `GoodFilesUnderstood` (`[]GoodFileUnderstood`), `LossesWarned`
  (`[]LossWarned`), `ResultsFeed` (`[]FeedsSensors`), for all metering points, days from 1 on, the
  four notations, every flaw and every two days of clock changes in one year. Whatever is wrong with a file, its series begin
  with the day's first quarter (`FlawedBegins`), which lies on the file's day by the clock of Bratislava
  (`DayOfItsStart`); what the loops keep is a matter of `Picked` (all places but one
  leave one element less). A loss is noticed because none of 92, 96 and 100 less one, three or
  twelve is one of the three again, or because one series is shorter than the others.

**The entry's life** (EntryProofs).

- `EntryInvariant`: `EntryInv` is inductive. It joins three parts. `DialogsInv`: what a dialog
  remembers was found in the folder it remembers, which makes `EicsFromFolder` survive the
  wizard's and the rescan's last form. `EicsInv`: a coordinator under construction has the
  entry's EICs unless an update was not heard; a loaded one unless a reload waits. `PasswordInv`:
  a coordinator has the entry's password unless the password dialog's reload is to replace
  it, and that reload is over before the entry rests. The lemmas `FlowStep` and
  `StepsOnFlow` first reduce each dialog to what it does to the entry, so that the proof has
  one step per action of the lifecycle.
- `EntryTypeCorrect`, `EntryInSync`, `EntryCredentials`, `EntryFolder`: `TypeOK`,
  `InSyncIfHeard`, `CredentialsCurrent`, `EicsFromFolder` follow from it. `EntryPrompts`, `EntryKnown`
  and `EntrySenders` are the action properties. All for any metering points, folders, mail,
  senders and any number of waiting reloads and password changes.

**Sums and induction** (FiniteSums). The running sums are folds, `Picked` is a recursive function. A claim about all
of them needs induction, which the library offers only with the claim as an operator. FiniteSums states it with a
set instead: a family of subsets of a finite set that has each subset whose strict subsets it has, has all
of them (`SetInduction`, from the library's theorem that strict inclusion is well founded);
a set of numbers that has 0 and with each number the next has all up to N (`Upward`). The
largest and smallest element, and what a sum becomes when an element is added or a part of the set
taken away, follow.

Only model-checked: the two liveness properties, `EventuallyImported` and
`ChoiceTakesEffect`, which are beyond the prover, as is everything about fairness. Every other property of a passing run is
stated by a theorem.

## 5. Not modelled

- Two coordinators polling at once: a poll that a button began goes on through an unload,
  archiving and saving beside the next coordinator's polls. EntryLifecycle follows its login
  only; in Coordinator, `Reconfigure` happens between polls. Composing the two needs
  the whole poll twice over one mailbox, recorder and Store, more states than an instance that
  still shows something allows.
- `async_remove_entry`'s deletion of the Store file while such a poll may write it again.
- XML parsing, gzip and the size caps of `mscons.py` (the model starts from the elements found), and
  the document number's version, which nothing uses.
- The wording of names: header and folder-name decoding, sender addresses as text, EIC spelling,
  `statistic_id_for` (taken to be injective on the enabled EICs).
- Attribute lists, diagnostics, redaction, device and entity names, logging.
- Connection details: TLS, encodings, folder lists, `verify_credentials`.
- Two entries for one mailbox: each has its own coordinator and Store.
- An unload that Home Assistant refuses (`async_unload_entry` returning false), and the
  sensors' unavailability after a poll that failed.

## 6. Plan

1. *(done)* Mailbox, Recorder, Coordinator, StatsLedger, their properties and proofs.
2. *(done)* Recompute, HourLedger.
3. *(done)* ConfigFlow, EntryLifecycle, their properties and proofs.
4. *(done)* Mscons, DailyFiles, PollWindow.
5. Two recomputes of one statistic with a recorder that lags behind; a second coordinator
   that polls around a reload, on an instance of one metering point and one message.
6. *(done)* Proofs of `ArchivedLanded` and of the ledger's refinement when nothing interrupts a poll.
7. *(done)* Proofs of Recompute, PollWindow, DailyFiles and of `RecentMailCollected`.
8. *(done)* What is left of the ledger's refinement when polls are interrupted:
   `SavedStays`, checked and proved.
