# Fedora System Monitor: TLA+ models, checks and proofs

The monitor samples a Fedora host on timers, follows its journal, keeps
everything in one SQLite database, raises and recovers alerts, and tells Uptime
Kuma about them.  Around that core stand archives (executions, a Telegram chat,
a derived timeline), a dialog for moments of memory pressure and a command that
provisions Kuma.  The models cover the parts whose state is changed by several
processes, or by one process that may die between two steps, and the parts that
have to remember something from one run to the next.

Paths below are relative to `src/fedora_system_monitor/capsules/` unless they
begin with another directory of the repository.

## The system

| part | state | operations | interacts with | what is hard | what makes it correct |
|---|---|---|---|---|---|
| `alerting` | `dedup_state` `alert-condition:*` | `evaluate_metric_alerts`, `evaluate_event_alerts` | collector workers, event daemon | holds, hysteresis, consecutive samples, a worker killed between two transactions | no premature alert, no hidden breach, earned recovery |
| `database/alerts.py` | `alerts` | open, recover, mark, update | all who persist signals | one active row per key, events replayed out of order | the table agrees with the conditions |
| `runtime/coordinator.py` collections | `collector_runs`, `last-success:*`, locks | `_collect_command_with_kuma_snapshot`, `_run_scope`, `_run_isolated_scope` | collectors, alerts, notifications | deadlines, a result persisted just before a kill, two commands on one scope | each run reported as what it was |
| `runtime/coordinator.py` hooks | `lifecycle` | `_hook_command` for boot, shutdown, suspend, resume | systemd | hooks killed, power lost between two steps | a boot is reported unclean exactly if the one before ended so |
| `runtime/coordinator.py` notifications, `notifications` | `endpoint:*` signatures, `notifications.lock`, free-space baselines | transition flush, category heartbeats, Telegram notices | Kuma, Telegram | two flushers, heartbeats without the lock, lost pushes and replies | Kuma says what the table says; no drift stays untold |
| `smart_action` | `notification` states | `maybe_notify_smart_alert`, `_notify_worker` | event daemon, command line, desktop | state stored before delivery, no lock | silenced only by a notice like it |
| `eventing` | `journal_cursor` | `stream_journal`, classification | journald, events, alerts | restart between insert, alert and cursor; invalid cursor | nothing lost, everything eventually imported |
| `database` events, `_backfill` | `events`, `dedup_state` `event` and `journal_cursor` | `insert_events`, `consolidate_journal_events`, `mark_journal_cursor` | daemon, installer | clock jumps, replays, two importers | first import exact, rows of a key lie apart |
| `kuma_pn_monitor` | cursor, checkpoint per monitor | `run_once` | Kuma's database over SSH, an external incident writer | a record without its checkpoint, batches, deleted monitors | each heartbeat takes effect once; one incident per outage |
| `database/retention.py` | `metric_aggregates`, snapshots, backups | daily and weekly maintenance | collectors | a pass cut off between days, late samples, a clock set back | every sample counted once, the last of each period kept |
| `database/process_history.py` | `process_scans`, `process_hourly` | store, roll up, prune | `/proc` scans | reused pids, reboots, late scans of a closed hour | the rollup is the sum of what was measured |
| `systemd_history` | checkpoint, entries, executions | import | journald | vacuumed cursor, units discovered late, overlapping imports | the cursor passes nothing; executions follow entries |
| `collectors` | `software.dnf_seen_ids`, `journal.io.seen`, `temperature.identity`, `services.runtime` | one pass each | `dnf`, journal, sysfs, systemd | memory stored before its events and cut to a limit, lookbacks, reboots, a clock that stops in suspend | reported, and once as long as the memory has room; series keep their sensor; freshness remembered |
| `execution_archive` | event directories, index, cursors, `archive.lock` | capture, seal, recover, prune, collect | shells, journald | death between any two file operations, crossing collectors | no row without its original, sealed content faithful, nothing passed over |
| `execution_archive/terminal.py` | relay state, consent | relay, metadata events, controls | shell hook | two streams in any order, late answers, long output | only what shows beside an approved command is recorded |
| `context_index` | day files, checkpoint, Git clone | sync | database, Git remote | overlapping windows and runs, windows asked for and cut, a failed push | complete but for what a window left out; published in the end |
| `scripts/telegram_autodelete_archiver.py` | archive database, media files | `sync`, `watch` | Telegram | deletions, late updates and listings interleave; death before a commit | no false tombstone, media kept, archive settles |
| `scripts/telegram_history_collector.py` | files, clone, marker | `sync`, `sync-private` | Telegram, Git remote | cut off between files, commit and push | each message once and in order; published in the end |
| `resource_rescue` | gate, dialog, target | watch, dialog, close | PSI, desktop session | snooze, locked sessions, restarts; pids reused under the list | the dialog keeps its word; closes only what was chosen |
| `graphics_incident` | recent incident id | event enrichment | event daemon's threads | several reports of one crash | an incident stays in its window |
| `kuma_admin` | endpoints file, Kuma's monitors | `kuma-configure`, token recovery | Kuma, the browser's LevelDB | lost replies and repeats, tables and a log that change while they are read | one monitor per name, its endpoint live; the newest token of what was read |
| `service_health`, `prompt_history_freshness`, `event_jobs` | none | decisions over timestamps | service tables | staleness at a boundary | stale is never healthy |
| `config`, `reporting`, `prometheus` | none of their own | parsing, reads, rendering | host | none | out of scope: values, not protocols |
| `kuma_c2_bridge` | retired | `run_once` returns at once | none | none | none |

`PROJECT.json` lists every part with what is modelled of it, and under
`hazards` each line of the code where an order of events nobody tests for could
go wrong, with the properties that cover it.

## Modules

| module | models | state ↔ code |
|---|---|---|
| `AlertLevels` | the level functions of `alerting` (`_high_level`, `_inode_level`, links, services) | pure |
| `AlertLifecycle` | a collection: `evaluate_metric_alerts`, `_derived_recoveries`, `_persist_signals`, and the event daemon on the same keys | `cond` = `alert-condition:*`; `alerts` = active rows; `pc`, `todo`, `pending`, `derived` = locals of `_run_scope`; `ignored` = `storage.ignore_alert_mountpoints` |
| `EndpointNotify` | `_flush_transition_notifications` and the category heartbeats | `trans` = transitions of a `_persist_signals` call; `lock` = `notifications.lock`; `stored` = `endpoint:*`; `kuma` = what the last push that arrived said |
| `KumaOutage` | abstract: heartbeats taken in once each and in order | the follower's promise |
| `KumaPn` | `fetch_events`, `handle_event`, `run_once` | `cursor`, `cp` = its state file; `log`, `active`, `live`, `gone` = Kuma's database; `ledger`, `opened` = the external incident writer |
| `JournalImport` | `stream_journal`, `insert_events`, `_backfill`, `consolidate_journal_events` | `rows` = `events`; `dedup`, `seen` = two namespaces of `dedup_state`; `cursor` = the daemon's |
| `CollectionRuns` | `_collect_command_with_kuma_snapshot`: due scopes, the lock of a scope's group, `_run_isolated_scope` with the worker's deadline and kill, the look-up of a lost result, the run records | `runs` = `collector_runs`; `locks` = the lock files; `last` = `last-success:*`; `cmd[c].boundary` = the highest run id noted before the worker |
| `LifecycleHooks` | the four hooks, each reading `lifecycle` and writing it back | `state` = the record; `unclean` = `unclean_boot` events |
| `Retention` | `_maintenance_daily` and the weekly one: days folded, rows pruned, inventories thinned, backups made and pruned | `raw` = `periodic_metrics`; `aggregate` = `metric_aggregates`; `pass` = the maintenance in progress |
| `ProcessHistory` | the scan, its deltas, storing with rollup and pruning | `scans` = `process_scans`; `hourly` = `process_hourly` |
| `SystemdHistory` | the import with cursor, fallback and catalog | `checkpoint`, `entries`, `executions` = its tables; `journal` is journald's |
| `PackageHistory` | the DNF history collector up to the alerts its events raise | `seen` = `software.dnf_seen_ids`; `active` = alerts |
| `HostWatch` | `collect_journal_io`, the temperature series, the success of a oneshot service, on a host that sleeps and reboots | `listed`, `pin`, `wall` = the collectors' states; `up` = the monotonic clock, `older` = entries that `journalctl -b` no longer shows |
| `SessionCapture` | relay, shell hook and controls of a captured terminal | `tty`, `meta`, `ack` = the terminal and the two pipes; `cap` = `SessionCapture`; a piece of `tty` names the command beside which it shows, whoever writes it |
| `SpaceNotice` | the free-space messages of a five-minute run | `base`, `last` = the stored baseline and observation |
| `SmartNotice` | `smart_action` in the daemon and on the command line | `stored` = namespace `notification` |
| `TelegramArchive` | `sync` and `watch` of the self-deleting chat: listing, updates, deletions, reconciliation | `db` = what the one connection sees, `disk` = what is committed; `queue` = waiters of the `asyncio.Lock`; the file of a revision is kept by its media, `media` = `media_remote_id` |
| `TelegramHistory` | the export of the notification chat, to Git and private | `work`, `local`, `remote` = tree, clone, origin; `marker` = the transaction file |
| `ExecutionArchive` | adapter, collectors, sealing, recovery, pruning, one file operation per step | `dir` = event directories; `index` = rows; `lock.todo` = the file operations the holder still owes |
| `ContextIndex` | windows, the merge into day files, checkpoint, commit and push | `timeline`, `commits`, `published` = ids in files, commits and on the remote; `last` = `metadata/last-sync.json`; `excused` = ids that a window left out |
| `ResourceRescue` | the watcher, its `Gate`, the dialog's unit and its endings | `gate`, `held`, `healthy` = `Gate`; `saved` = the `incident` record, which is written under the sample's kind and level |
| `RescueTarget` | list, typed number, confirmation, `terminate` | `list` = `Snapshot`; `worker.fd` = the pidfd |
| `GraphicsIncident` | `_incident_id` and its callers in two threads | `recent` = `_RECENT_INCIDENT` |
| `KumaAdmin` | `kuma-configure` request by request | `kuma` = its monitors; `list` = the client's copy; `file` = the endpoints file |
| `ChromeSession` | `recover_chrome_session_token` over tables and a log in fragments | `tables` = the writes that the reader found in tables, before it reads the log; `log` = fragments; `rest` = what of a record is not in the log yet; `flushed` = records in tables; `lost`, `torn` = zeroed from the header on, or after it |
| `*_proofs` | theorems about `AlertLifecycle`, `CollectionRuns`, `EndpointNotify`, `KumaPn`, `JournalImport`, the components of `MCDesktop` (`Desktop_proofs`), `ExecutionArchive`, `TelegramArchive`, `TelegramHistory` and `ContextIndex` (`Archives_proofs`), the components of `MCRecords` that are named below (`Records_proofs`) | |
| `MC*` | values of the constants for TLC, and the compositions below | |

One action is one transaction of the code (or one step between two of them).
In `AlertLifecycle`, `Evaluate(k)` ends with the `set_state` of that metric and
`Persist(k)` is one `open_alert_transition` or `recover_alert`, so `Crash`
falls between any two.  In `EndpointNotify` a push (`SendDelivered`) and what
is stored after it (`Store`, `Mark`) are separate steps; `LockUnavailable` is
`GiveUp`.  In `KumaPn`, `Create`/`Update` is the call of the writer and
`Commit` the transaction around `handle_event`.  In `JournalImport`,
`LiveInsert`, `LiveAlert` and `LiveMark` are the three transactions of
`_consume_journal_line`.  In `CollectionRuns` the worker's `running` row, its
final row and its printed reply are separate steps and the kill falls between
any two of them.  In `ExecutionArchive` and `TelegramHistory` every file
written, renamed or removed is a step.

`AlertLifecycle` is composed with the event daemon on the same keys, and
`JournalImport` with the backfill; `EndpointNotify` stands for many persisting
processes at once.  The components of `MCRecords`, `MCArchives` and `MCDesktop`
meet in one database, one user session or not at all, but no state of one is
read by another.  Each of these modules is a disjoint sum: the variable `part`
picks at the start which component moves, and the others stay in their first
state.  What is checked of a component there is exactly what its own
specification allows.

Operators named `Definition_Fault` and marked "Defect" are not part of a
specification.  Each is a plausible bug in the definition that follows it; with
it in the place of that definition TLC finds the property that `PROJECT.json`
names with it violated.  Variables marked "history" or "ghost" record the past
for a property and guard no step.

### What the models leave out

* Values are small integers; only the order of a value and a threshold matters.
  The disk capacity policy, the memory pressure level and the one-threshold
  counters are further instances of the same evaluation and not written out.
  An essential service has one level; the oneshot and secondary variants differ
  in the sampled value only.
* All keys of `AlertLifecycle` belong to one worker.  In the code the minute
  scope and the slow scopes run beside each other on disjoint metric keys.
* Of `_derived_recoveries` the model has services, absent filesystems and
  excluded mount points; OOM, smartd, DNF, I/O lookback and read-only
  recoveries close alerts on host evidence in the same way.
* A condition stored with a level is never older than the longest hold: ages
  saturate there, beyond which the code cannot tell them apart.
* `EndpointNotify` lets alerts be raised and recovered in any order: it is
  `AlertLifecycle` seen from the notifications.
* In `KumaPn` every failed run is a crash; the names and links a checkpoint
  carries for display are left out.  The writer answers a heartbeat it knows
  with the incident it has, as `docs/human/kuma-pn-monitor.md` says.
* Deleting a monitor in Kuma leaves its heartbeats without a monitor and then
  without a row (`Delete`, `Purge`), as both queries of the follower allow.
* `JournalImport` has classified entries only, all younger than the window of
  the backfill, and one window for all keys.
* In `CollectionRuns` a worker belongs to the control group of its command:
  when the unit is stopped both end (`Stop`).  What a worker does between its
  two rows is `AlertLifecycle`.
* `ResourceRescue` keeps times as ages and remainders and has no reboot, which
  drops the recorded state.
* The time of `TelegramArchive` counts the whole seconds that dates are stored
  in.  The cutoff of a listing has a fraction of a second, so `Beyond`
  leaves out the cutoff's second and `AtBeyond` may stop in it, while `Missing`
  expects it.
* `HostWatch` has one pattern of errors and one oneshot.  The search for core
  dumps (`collectors/system.py:459`) remembers nothing and is not modelled.
* `SessionCapture` does not ask who writes what shows.  Output that an excluded
  command left running in the background is recorded beside the next approved
  one, as `docs/human/execution-archive.md:141-143` says it may.
* `ChromeSession` has no record that a partly zeroed header would forge; of a
  record with zeroed bytes it takes either outcome (`Tokens`).
* `RescueTarget` has no process that changes its command by `exec` while it
  keeps its pid; the code compares the start time and the scope.
* `ProcessHistory` leaves out that the rolled-up hours themselves expire after
  `aggregate_days`, long after the last scan that could change them.
* Row limits of single tables, vacuuming, inventory refreshes, rendering,
  parsing and the content of messages are data.

Some properties hold only under a condition on the world.  Each is a constant
or a conjunct one can change, and is named here so that nobody takes it for a
promise of the code (those named in a property are its exceptions, and hold
by what the property says, not by the bounds of a run):

| condition | where | without it |
|---|---|---|
| the day files of a window are replaced within a tick of reading its rows (`Tick`) | `ContextIndex` | a row that appears meanwhile, read by another run, is written over |
| no window was asked for that is shorter than the time since the last one, none exceeds `max_backfill_hours` or 20000 rows (`excused`) | `ContextIndex` | the rows passed over are never read, those cut are removed from the day files too |
| no listing's window begins in the second a message was sent (`AtTheEdge`) | `TelegramArchive` | the listing stops before it and its row is called deleted, until the message is seen again |
| rows appear at most `Overlap` after their timestamp (`MaxLag <= Overlap`) | `ContextIndex` | a row that appears later is never read |
| message ids grow as messages are sent (`Settings`) | `TelegramArchive` | the listing, which goes down by id, would call a message deleted that it has not come to |
| the clock is set back by at most `raw_hours`, and by at most the 24 hours that one pass rolls up (`SetBackIsShort`) | `ProcessHistory` | an hour is rolled up anew from the rows that are left |
| a hook ends before the next transition starts one (`Overlap = FALSE`) | `LifecycleHooks` | the sleep hook writes its stale copy back over the mark of a clean shutdown |
| the lookback covers period and slack (`Lookback`) | `HostWatch` | errors between two stretches are never found; the core dump search has no such margin (`collectors/system.py:462`) |
| there are no more errors than are remembered (`Memory`) | `HostWatch` | `new_seen` begins with a set in no order: any of the old ones is forgotten and returned again |
| the host neither reboots nor sleeps beyond the lookback between error and search (`missed`) | `HostWatch` | the error is never found |
| no sleep hook wrote a state where none was (`slept`) | `LifecycleHooks` | the next boot is reported as following an unclean end |
| Kuma's list of monitors comes within the waits (`Prompt = TRUE`) | `KumaAdmin` | monitors are added twice and every later run refuses |
| no record of the browser's log begins with an empty fragment (`EmptyStart`) | `ChromeSession` | the record is dropped and an older token used |
| the newest write is undamaged in the log with nothing lost, or in a table that was read (`TokenIsNewest`) | `ChromeSession` | a write that goes from the log to a table between the two readings, or to a table that is passed over, is missed and an older token used |
| the relay answers the shell's hook in time, for the commands concerned (`unasked`) | `SessionCapture` | the relay is no longer told where a command begins |
| less than 64 pieces show before a boundary is read (`late`) | `SessionCapture` | the capture is blocked, but the rest counts for what comes after the boundary |
| the record holds the dismissal (`Remembered`) | `ResourceRescue`, restarts only | a restart opens the dialog again within its snooze |
| no taken message lost its answer or its run (`doubt`) | `SpaceNotice` | the message is repeated |
| the dialog's unit starts (no `OpenFails` while owed) | `ResourceRescue` | the offer of that pressure is lost |
| nothing died, or could not be read, between the memory and the report (`excused`, `missed`) | `PackageHistory`, `HostWatch` | these events are lost |
| no monitor is deleted | `KumaPn`, `NothingSkipped` only | see the findings |
| the memory has room for all transactions (`Cardinality(Issued) <= Keep`), for reports at most once | `PackageHistory` | see the findings |

## Runs

Each run asks one question.  Its bounds are constants of the module with a
comment; what they must allow is said here.

| run | what it shows | bounds and why they are enough |
|---|---|---|
| `alert_levels` | the six safety properties of alerts with thresholds | a temperature and a filesystem; values 0..4 hit every interval that two thresholds and their hysteresis cut; a hold of 2 ticks can be met, missed and interrupted; one death |
| `alert_states` | links and services settle (`AlertsSettle`), liveness | a link (hold 2, two healthy samples) and a service that the daemon raises too; one death |
| `alert_lost` | **a recovery is lost** (finding) | one key, one death |
| `notify_flush` | reconciliation under the lock | two flushers, two keys on one endpoint, both severities, one failed push or kill; three attempts as in the code |
| `notify_live` | heartbeats repair | one flusher, one heartbeat process, a key on `system` (always up) and one on `storage`, one fault |
| `notify_late` | **a DOWN outlasts a recovery** (finding) | one flusher, one heartbeat process, no fault needed |
| `kuma_follow` | `KumaPn` implements `KumaOutage`; one incident per outage | two monitors, four heartbeats in batches of two, a grace of 2 that a gap of 0 or 1 per heartbeat can meet or miss, one crash |
| `kuma_live` | the cursor skips nothing and catches up | no cursor at first, one checkpoint older than incident ids, three heartbeats, two pauses, resumes or deletions, one crash |
| `journal` | at-least-once import, exact first import, liveness | two keys, two entries, gaps inside and beyond the window and a clock set back, two backfills, one death, one invalid cursor |
| `archives` | chat, export, executions, timeline | below |
| `records` | what the monitor records and remembers | below |
| `desktop` | dialog, closing, compositor incidents, provisioning | below |

The three composed runs, by part.  Faults are deaths, failed calls, lost
answers and set-backs of the clock, as the module has them; unless said
otherwise there is one.

| run, part | checked | bounds and why they are enough |
|---|---|---|
| `archives` chat | `NoFalseTombstone`, `MediaOutlivesMessage`, `ArchiveSettles` | a message the timer spares, sent when the window begins or later, which crosses its edge, and a new one; pages of one, so that a listing is several requests and a deletion falls between them; both commands; one edit, with the media replaced or not |
| `archives` export | `ArchiveExact`, `EverythingPublished` | three messages in two months (one file each), one foreign commit, two faults |
| `archives` executions | `RowsHaveOriginals`, `SealedIsFaithful`, `NothingPassed`, `RecoveryIndexesAll` | one command with two chunks on two streams, one collector, two journal entries, three copies of chunks per event so that a stream is truncated, buffers of one; what is sealed may be too old at any time, so that pruning runs |
| `archives` collectors | the same four | no output of the command, two collectors that cross over two journal entries, pruned in the same way |
| `archives` timeline | `TimelineComplete`, `TimelinePublished` | a timer's run that publishes and one by hand (`OneRow`), a day of two ticks so that windows cross it, a row that may appear one tick late, one foreign push |
| `archives` windows | `TimelineComplete` | two runs that do not publish (`NoPublish`), windows of their own or asked for (of the current tick only), a cap of one with two rows, a row that may appear one tick late |
| `records` runs | `ReportIsOwn` | the timer's command with the minute and a slow scope, a second command on the same slow scope, two turns each, three run records |
| `records` metrics, files | `EverySampleOnce`, `PeriodsKeepTheirLast`, `BackupsReachBack` | five days in weeks of two and months of three, that do not begin together; two samples; one set-back |
| `records` processes | `RollupExact`, `GrowthIsReal` | four hours of two ticks, one hour rolled up per scan, five scans, two faults (a reused pid, a reboot, a set-back, a blind scan) |
| `records` units, overlap | `NothingSkipped`, `ExecutionsFollowEntries` | two units of which one is discovered late with one importer, and one unit with two importers that overlap (`OneImporter`, `OneUnit`); two ticks, two entries |
| `records` packages | `EveryTransactionReported` | three transactions and a memory of two, a baseline of one, two read per pass, three passes |
| `records` host, sensors | `ErrorsFoundOnce`, `SeriesKeepTheirSensor`, `FreshnessIsRemembered` | up to three errors and a memory of two, reboots and sleeps at any time, two sensors with one name, three ticks, collections one or two ticks apart |
| `records` boots | `UncleanEndsAreReported` | four boots, two sleeps, three kills or losses of power |
| `records` session | `OnlyApprovedIsRecorded`, `WithdrawalForgets` | two commands, any of them excluded, three pieces of output at any time, a drain of two, a pending prompt of two, two controls |
| `records` space, smart | `DriftIsTold`, `SilenceIsEarned` | six values of free space, a threshold of two, two mount points; one disk, known or not and present or not, two processes |
| `desktop` rescue | `PendingIsOffered`, `DismissedStaysAway` | one kind of pressure with two levels; debounce, rate limit and snooze of one tick each; two healthy samples to recover; one failure or restart |
| `desktop` target | `OnlyChosenIsClosed` | two pids for three processes, so that a pid is reused; two applications and a protected one |
| `desktop` incident | `IncidentIsBounded` | two crashes, two ticks with a window of one, a restart |
| `desktop` admin | `EndpointsAreLive` | two names asked for and one that only the file has, four monitors ever |
| `desktop` session | `TokenIsNewest` | blocks of six with headers of two and records of two, three and nine, so that every kind of fragment occurs; the reader may come between any two fragments, and anything may happen between its tables and its log; three records, one fragment lost or torn |

`PROJECT.json` names the conjunctions: `ArchivesAreTrue`, `ArchivesCatchUp`,
`ExecutionArchiveIsTrue`, `RetentionKeepsWhatCounts`, `UnitHistoryIsTrue`,
`CollectorsRemember`, `CaptureIsConsented`, `NoticesAreTold`,
`DialogIsOffered`, `DialogStaysAway`, `IncidentIsBounded` and
`ProvisioningIsRepeatable`.
`MCArchives`, `MCRecords` and `MCDesktop` define each as the properties of its
parts in the table; `ReportIsOwn`, `OnlyChosenIsClosed` and
`ExecutionArchiveIsTrue` are those of the modules that `MCRecords`, `MCDesktop`
and `MCArchives` extend.

Deadlock is checked except in `journal`, `archives`, `records` and `desktop`,
where the bounded world ends (no entry, boot, message or run is left) and the
program is idle then.  `Refuse` in `KumaPn` is a run that fails and changes
nothing.

### Fairness

* `AlertLifecycle`: the worker's steps and the minute timer
  (`systemd/fedora-system-monitor-fast.timer`, `Persistent=true`) go on.
  Nothing is assumed of crashes except that they are finite.
* `EndpointNotify`: a flush in progress continues and heartbeats are sent again
  and again, by the same timer.  Nothing obliges an alert to change.
* `KumaPn`: a user timer starts run after run.
* `JournalImport`: systemd restarts the daemon (`Restart=` in
  `systemd/fedora-system-monitor-events.service`) and it reads on.  The
  backfill has no fairness: only the installer runs it.
* `TelegramArchive`: the timer or the service manager starts the process, its
  handlers and listing go on.  `ArchiveSettles` supposes in addition that the
  watch's periodic loop is alive again and again (`LoopGoesOn`): an exception
  other than a network error ends that task and nothing restarts it alone.
* `TelegramHistory`, `ContextIndex`: their timers start run after run.
* `ResourceRescue`: time passes, the watcher's loop goes on, a dialog loads and
  ends, for it has a timeout.  `PendingIsOffered` speaks of sessions that stay
  unlocked and of a pressure that settles.

In a composed run the fairness of a part is that of its own specification,
guarded by `part`: of the other parts nothing is asked.

### Findings

The two runs in bold show the code doing one thing where a document says
another; `PROJECT.json` quotes both.  More disagreements, met while modelling,
have no run:

* The DNF collector keeps the newest 2000 of the transactions it has seen
  (`collectors/dnf.py:103`), but lists all that there are (41).  Once there are
  more, those that were cut off are new in every pass (53): their details are
  read and their packages reported again, up to 50 transactions each hour,
  although `tests/test_collectors.py:394` says that a second collection reports
  none.  `records` goes beyond its memory (`Keep = 2`, three transactions);
  `EveryTransactionReported` asks for a report always and for one only as long
  as all that were issued fit.
* A signature read back from `dedup_state` holds lists where a new one holds
  tuples (`runtime/coordinator.py:184-190`, `217`), so an unchanged alert is
  pushed again by every flush of its endpoint, although
  `docs/ai/OPERATIONS.md:27` says unchanged alerts are not re-notified.  The
  model compares as the code does (`AlreadyTold`).
* A full batch that holds only heartbeats of deleted monitors moves the cursor
  to the watermark (`kuma_pn_monitor.py:406`), past heartbeats it never read;
  the comment above it says it advances only to the last processed row.  It
  needs orphaned heartbeats, which Kuma's own deletion does not leave for long;
  `NothingSkipped` supposes that no monitor is deleted.
* Once the daemon is enabled, a replayed entry opens again an alert that was
  recovered since; `docs/human/audit-471853.md:19` tells of one.
* A baseline run of the follower that dies between the receipt of the writer
  and its checkpoint starts over from the newest heartbeat and records a second
  incident for an outage that goes on (`docs/human/kuma-pn-monitor.md:9-11`).
* A backfill beside an enabled daemon counts again the entries the daemon
  coalesced (`docs/human/overview.md:107`), and a row id that the consolidation
  freed can be given to a row of another key, into which a repeat is then
  counted (`docs/ai/SCHEMA.md:10`).
* The archive of the self-deleting chat lists back to a cutoff with a fraction
  of a second (`scripts/telegram_autodelete_archiver.py:1046`) and then expects
  what was stored with the cutoff's whole second or later (916-922, 1034): a
  message of that second which is still there is called deleted.
* The timeline keeps the newest 20000 rows of a window (`context_index.py:325`)
  and replaces the window's days by them, so that older rows go which a smaller
  window had stored; and `--since-minutes` (745) moves the checkpoint over what
  it did not read.
* The search for I/O errors asks for this boot only (`collectors/periodic.py:1286`),
  so that what was logged shortly before a reboot is not found; its memory is
  cut in the order of a set (1290, 1327); and the time of a oneshot's last
  success (711) stands still while the host sleeps, so that an old success
  counts as fresh for longer.
* A suspend hook that finds no state stores one without a boot
  (`runtime/coordinator.py:1109`), and the next boot is reported as following
  an unclean end (1092).
* `recover_chrome_session_token` reads the tables before the log
  (`kuma_admin/__init__.py:289`, `319`) and passes over tables that it cannot
  read: it can miss the newest token although nothing was lost.
* The watcher records the kind and level of the sample, not those of its gate
  (`resource_rescue/watch.py:155`): after a restart a dialog that was put off
  can be offered again, because the pressure seems worse than what was recorded.
* What `ContextIndex`, `ProcessHistory`, `LifecycleHooks`, `HostWatch`,
  `KumaAdmin` and `ChromeSession` need of the world, in the table above, is
  nowhere enforced by the code.

## Proofs

`AlertLifecycle_proofs` proves, for every finite or infinite set of keys, any
thresholds, hysteresis, hold, and bound on deaths:

| theorem | says |
|---|---|
| `TypeCorrect` | `Spec => []TypeOK` |
| `PrematureSafe` | `Spec => []NoPrematureAlert` |
| `AgreementSafe` | `Spec => []AlertTracksCondition` |
| `BreachVisible` | `Spec => []BreachIsVisible` |
| `EvidenceCloses` | `Spec => []OtherEvidenceCloses` |
| `RecoverySafe` | `Spec => RecoveryIsEarned` (an action property) |

They assume what the module assumes of its constants (`KindAssumption`,
`ThresholdAssumption`, `HoldAssumption`, `BoundAssumption`), each of which TLC
evaluates in every run.

None of the safety properties is inductive.  `NoPrematureAlert` looks at
a signal and at the history of samples, but the age a signal depends on is the
one in the persisted condition: the invariant adds that the condition's breach
and age are those of the history (`HeldInv`), through crashes too, and that
what is still to be evaluated has no signal (`WorkInv`).  `AlertTracksCondition` speaks of the
end of a collection; before it (`TrackInv`), a key that is still to be evaluated has its
alert equal to its condition, and one that was evaluated has either no pending
signal and agreement, or a pending signal that brings it about.
`BreachIsVisible` adds (`VisibleInv`) that after `Evaluate(k)` the pending signal, or the row
once it was persisted, carries the level of every confirmed breach, which needs
that a derived recovery never concerns a sampled filesystem or an unhealthy
service.  `OtherEvidenceCloses` speaks of the end of a clean scan; `ClosingInv`
says of the steps before it that what the evidence speaks against has no alert
or is still among the recoveries derived from it.  `RecoveryIsEarned` needs
(`SampleInv`) that a stored condition never counts more healthy samples than
were taken in a row, which a death between two writes must not bring about.

`CollectionRuns_proofs` proves, for any set of commands, any plans of distinct
scopes and any bounds:

| theorem | says |
|---|---|
| `TypeCorrect` | `Spec => []TypeOK` |
| `Inductive` | `Spec => []IInv` |
| `ReportsOwn` | `Spec => []ReportIsOwn`: what a command notes of a turn is what the worker of that turn left, or an error of its own |

They assume `PlanAssumption` (no plan names a scope twice), `BoundAssumption`
and `CommandAssumption`.  `ReportIsOwn` speaks of the moment before a report is
noted, and compares outcomes; what makes it true is who can write which rows.
`IInv` says: a command past the lock holds it, and no other command has a turn
on the scope then (`Holds`); the rows of the scope up to the noted boundary are
of earlier turns and those above it of this one (`Divides`), for which the rows
of a turn that has not begun must not exist yet (`Fresh`); what the worker has
persisted so far is its own row (`Persisted`); and what was reported so far is
that row or the command's own record (`Told`).  The parent's look-up by row id
is right because the lock, and not the id, divides the rows.

`EndpointNotify_proofs` proves, for any flushers, keys and endpoints and any
number of faults:

| theorem | says |
|---|---|
| `PlaceCorrect` | `Spec => []PlaceInv`: one holder of the lock, one endpoint at a time, three attempts at most |
| `TypeCorrect` | `Spec => []TypeOK` |
| `FlushCorrect` | without heartbeats, `Spec => [](PlaceInv /\ FlushInv)` |
| `Reconciliation` | without heartbeats, `Spec => []HolderReconciles` |
| `ToldOnce` | without heartbeats, `Spec => RecoveryToldOnce` |

They assume `EndpointAssumption`, `BeatsAssumption`, `ScopeAssumption` and
`FaultAssumption`; the last three theorems also `Beaters = {}`, as the run
`notify_flush` does, since a heartbeat stores and pushes without the lock (the
run `notify_late` shows what comes of it).  The two properties speak of
behaviours in which no push was lost and no flusher killed (`faults = 0`).

`HolderReconciles` looks at the moment when every flush is over; `ReadInv`
carries it there.  Of every endpoint that is not in `owed` it says: a change
that nobody has read is still among the transitions of a flusher that has yet
to come to the lock (`Pending`), or the holder is certain to read the endpoint
again (`Reconciled`); and where nothing is unread and the holder is not certain
to return, Kuma is right.  A flusher that gives up takes the first disjunct
away, and is harmless exactly because of the second.  That a holder may leave
an endpoint without a push needs `ToldInv`, that an empty signature is stored
exactly when Kuma was told UP, except between a push and its storing; and that
it may leave after one needs `PushInv`, that Kuma has what the holder read.
`ToldOnce` follows from the same two.  `owed` is a history variable: it names
the endpoints for which the comment in the code, that the holder reconciles,
is not true, because a flusher gave up after the holder's last look, or because
the alerts changed under all three attempts.

`KumaPn_proofs` proves, for any monitors, any batch limit and grace and any
bounds on heartbeats, edits and crashes:

| theorem | says |
|---|---|
| `TypeCorrect` | `Spec => []TypeOK` |
| `NothingIsSkipped` | `Spec => []NothingSkipped` |
| `TakesInExactlyOnce` | `Spec => ExactlyOnce`: the follower implements `KumaOutage`; with `StartCursor = 0` and `MaxEdits = 0` |
| `OneIncidentPerOutage` | `Spec => []NoDuplicateEpisode`; under the same two |

The first two assume only `BatchAssumption`, `GraceAssumption`,
`StartAssumption` and `LimitAssumption`.  The cursor covers (`CoverInv`) what
was taken in, but a run moves through its batch before it stores the cursor: so
the invariant says of every heartbeat up to the run's target that it has its
checkpoint or a heartbeat of its monitor still to come in the batch is not
older than it, and that a run with a cursor works through the batch in order.

The refinement maps the follower to heartbeats that are taken in one by one.
The writer's call commits before the checkpoint does, so an incident can be
ahead of its monitor's checkpoint, through a crash and until the batch is read
again.  `TakenIn` counts such a heartbeat as taken in, and `FollowInv` says why
this is right: a recorded heartbeat without a checkpoint is the first of its
monitor that lacks one, and, read again, it asks the writer for what the ledger
already has (`AheadInv`), so that `Create` and `Update` are a step of
`KumaOutage` the first time and a stutter afterwards, and `Commit` the reverse.
The two assumptions are the claim's own limits, not the proof's: without a
cursor the first run takes the newest heartbeat of a monitor as a baseline and
never takes in the older ones, and a monitor that is paused and resumed is
rebased in the same way, as the code intends; `kuma_live` covers both.
`NoDuplicateEpisode` is proved of `KumaOutage` (`KnownInv`: whoever knows of a
recovery knows a heartbeat that was up after the last incident began) and
carried over by the refinement.

`JournalImport_proofs` proves, for any keys, window, lookback, gaps between the
time stamps, and bounds on entries, deaths and backfills:

| theorem | says |
|---|---|
| `TypeCorrect` | `Spec => []TypeOK` |
| `DaemonLosesNothing` | `Spec => []NothingLost` |
| `SkippedEntriesAreImported` | `Spec => []SkippedIsImported` |
| `ReplaysOpenNoStaleAlert` | `Spec => NoStaleAlert` (an action property) |
| `FirstImportCountsOnce` | `Spec => []FirstImportIsExact` |
| `CoalescedRowsLieApart` | `Spec => []RowsLieApart` |

They assume `KeysAssumption`, `WindowAssumption` and `BoundAssumption`.
`NothingLost` speaks of the stored cursor; `DaemonInv` carries the same promise
from the entry in hand, whose alert follows its insert, to the mark that stores
it.  `SkippedIsImported` needs that a row only names entries that were
inserted, because the consolidation marks what the rows name.  The three
properties of a first installation rest on `ReplayInv`: at any point exactly a
prefix of the journal is imported, and an entry that was inserted but not
marked, because the backfill died between the two, is the one its row names, so
that the next consolidation marks it and no replay inserts it twice.  From this
follows that the queue of signals holds entries marked by this backfill, each
once, none applied before (`SignalInv`); that the sum of a key's counts grows
with its imported entries (`CountInv`); and, with `Sound`, which ties each row
and the deduplication record of its key to the entry it ends with, that
coalescing opens a new row only past the window.  `RowsLieApart` itself is
inductive then.

The counts are totals over sets of rows of any size.  What is needed of them
(`TotalStep`: adding a row, or one occurrence to a row) is proved by a minimal
counterexample among the subsets of the set, since an induction theorem that
takes an operator cannot be instantiated.

`Desktop_proofs` proves, for any pids, applications, protected ones among them,
starts and ages (`RescueTarget`), for any window, crashes, ticks and ids
(`GraphicsIncident`), for any names asked for, other keys of the file and
number of monitors (`KumaAdmin`), for any kinds of pressure, debounce, rate
limit, snooze and number of failures (`ResourceRescue`), and for any sizes of
blocks, headers and records and any loss (`ChromeSession`):

| theorem | says |
|---|---|
| `ClosesOnlyTheChosen` | `Spec => []OnlyChosenIsClosed` |
| `TargetTypes` | `Spec => []TypeOK` of `RescueTarget` |
| `IncidentsAreBounded`, `DesktopIncidents` | `G!Spec => []G!IncidentIsBounded`, `AllSpec => []IncidentIsBounded` |
| `IncidentTypes` | `G!Spec => []G!TypeOK` |
| `EndpointsStayLive` | `AllSpec => []K!EndpointsAreLive`, if the list comes in time |
| `DismissedDialogStaysAway` | `AllSpec => DialogStaysAway` (an action property): until the pressure ends, changes its kind or rises, or the daemon restarts on a record without the dismissal |
| `NewestTokenFound` | `AllSpec => []C!TokenIsNewest`: what is read are whole records in order, always; the token is the newest where that was in what was read, undamaged |
| `ProvisioningRepeats` | `AllSpec => []ProvisioningIsRepeatable`, both of these |
| `DesktopTypes` | `AllSpec => []DesktopTypeOK` of all five parts |

Their assumptions (`Sizes`, `Bounds`, `Provision`, `Pressing`, `Cutting`) say
that the bounds are naturals, that there are finitely many applications and that
the protected ones are among them, that the names asked for are numbered in their
order, that a block has room for a header and more and no record is empty, and,
from the table above, that Kuma's list comes within the waits (`Prompt`).
`AllSpec` is the specification that the run `desktop` checks.  `OnlyChosenIsClosed` looks at requests made; `ChosenInv` follows the
choice there: while a number stands in the entry the list under it is what the
user saw or is gone, the worker's candidate is that one, its handle is on a
member's pid, and only the verification, which compares both the handle and the
candidate with the process that has the pid now, makes the handle the member's
own.  After it the pid may change hands: the request goes by the handle.
`IncidentIsBounded` needs that the age of the id that is held is the time since
its first report (`Incidents`), which is where an id that became recent again by
being used would break it.

`EndpointsAreLive` speaks of Kuma and of the file; in between are a copy of
Kuma's list and the tokens of a run that may end anywhere.  `CopyInv` says that
while a run goes through the names, the copy shows every monitor of a name that
is still to come, so that it creates one only where there is none, although an
administrator deletes others meanwhile and the answer to a creation may be lost
after it took effect; `TokenInv`, that every token taken is that of the name's
monitor unless one was deleted, which holds in the file from `Write` on.

`DialogStaysAway` is about one step, the opening of a dialog, and about a snooze
that was promised several steps before by another process.  `QuietInv` says what
a dismissal leaves behind for as long as it holds: no dialog, none that waits
for the session to be unlocked, a gate of the kind that was dismissed and of no
lower level than the last sample had, and either a snooze of the watcher that
lasts at least as long or a watcher that has not noticed the dismissal yet and
will set it when it does.  A sample of a lower level lowers the gate and what
the dismissal stands for; one of a higher level or another kind ends the
promise, and so does the recovery.  A restart takes the gate from the record,
which was written under the kind and level of a sample: it keeps the promise
exactly if that record has the snooze and a level that is not below
(`Remembered`).  Without this condition TLC finds a dialog that comes back after
a restart, from a record written beside a sample without pressure.

`TokenIsNewest` compares what is read with what was written, through tables that
were read earlier, all, some or none of them, and a log that is cut into blocks
and may have lost any of its fragments, bytes within them and the end of its
last record.  `LogInv` says what the log is: the fragments of a record follow each
other and end with a final one (`FragmentInv`, `ChainInv`), only the last record
may be unfinished, and what is missing of it is what `rest` says (`EndInv`).  The
reader is a recursive function over the log.  That it exists and that its state
keeps an invariant at every fragment are proved by a minimal counterexample among
the positions (`ReadingExists`), as for the totals above.  Always it is
`Holds`: what the reader gave is whole records in their order, and what is
pending is the beginning of one.  Without a loss and without an empty first
fragment it is `Follows` as well: nothing complete is missing.  Sequence numbers
make the rest: what is read out of order, or twice, from a table and the log
does not matter, and of the damaged records any number may count without
hiding an undamaged later one (`Newest`).

`Archives_proofs` proves of the composition `MCArchives`, over the specification
that the run `archives` checks, and of each of its parts alone:

| theorem | says |
|---|---|
| `ArchiveInvariant` | `Spec => []ArchiveInv` of the archive of executions |
| `TypeCorrect` | `Spec => []TypeOK` of it |
| `ArchiveIsTrue` | `Spec => []ExecutionArchiveIsTrue`: `RowsHaveOriginals`, `SealedIsFaithful`, `NothingPassed` and `RecoveryIndexesAll` |
| `ChatStaysTrue` | `A!Spec => []`: `NoFalseTombstone` (but for the cutoff's second), `MediaOutlivesMessage` and types of the archived chat |
| `ExportStaysExact` | `H!Spec => []`: `ArchiveExact` and types of the export |
| `TimelineStaysTrue` | `T!Spec => []`: `TimelineComplete` and types of the timeline, with what its windows left out excused |
| `ArchivesTypes` | `AllSpec => []ArchivesTypeOK` |
| `ArchivesStayTrue` | `AllSpec => [](ArchivesTypeOK /\ ArchivesAreTrue /\ ExecutionArchiveIsTrue)`: all of the above |

The first three hold for any finite set of streams, any number of chunks, sizes
of the buffers, of an event and of the quota, any collectors and entries, and
any number of deaths and failures; they assume `StreamAssumption`,
`SizeAssumption`, `CollectorAssumption` (no collector is called like the adapter
or the recovery) and `BoundAssumption`.  The others hold for any finite set of
messages, any page, horizon and timer, any months, any runs of the timeline at
once, any windows asked for, overlap, cap and length of day, and any bounds; they assume
`ChatAssumption` and `ExportAssumption` (messages are numbered as they are sent)
and `TimelineAssumption` (a row appears within the overlap).

Whoever holds the lock owes a list of file operations and may be cut off after
any of them, so that none of the four properties says enough to be kept by the
next step.  `ArchiveInv` says what the list may be, and what the files are while
it is open.  The list is ordered (`Ordered`): frames before the manifest, the
manifest before the raw streams go, a row after the manifest and before prunes
only, and of a pruned event the row first; this holds across a prune that puts
another event's operations before the rest.  Who owes what is `OwnerInv`, and
with it `PhaseInv` says that nothing of a running command is sealed: the
recovery leaves it alone.

`RowsHaveOriginals` is part of `RowInv`: a row that is owed has its seal done or
owed as well, and files that are to be deleted have lost their row or will
before.  `NothingPassed` needs `PassInv`: what a collector is past was recorded
once, but for the entry that it holds the lock for, which is why a collector
that fails must not go on.  `RecoveryIndexesAll` needs `ScanInv`: during the
scan every sealed event has a row, is still to be visited, or is owed one, and
after it only a prune that is not finished is without.

`SealedIsFaithful` needs most.  All that streams, frames and files hold is a
beginning of the output (`ContentInv`), what is about to be stored in a stream
included, which is the next chunk the stream lacks.  That it is comes from
`AccountInv`: as long as nothing was lost, the chunks read are, for each stream,
stored, due in their order, or pending, without one missing or twice, whatever
`PENDING_HIGH` and `PENDING_LOW` are.  When something was lost, the event says
so or the adapter knows it failed (`SecretInv`), and a seal that says complete
and names no gap has every chunk (`SealInv`).  TLC checked `ArchiveInv` on an
instance with two streams before it was proved: three chunks with one collector
and two failures, and two collectors with two entries and one failure.

`NoFalseTombstone` compares a row with a chat that changes while it is listed,
page by page, and between a message's disappearance and its update.  `ChatInv`
says that a listing goes down without a gap: a stored message that is still
there was seen, is on the page in hand, or lies below all of it and will be
asked for (`Sweeps`), so that what a finished listing missed inside its range is
gone (`MissingIsGone`), or was sent in the cutoff's second, the only one in
which the listing may stop and `Missing` still looks; a message sent meanwhile
has a higher id and a later time, which is why it does not count as missed,
whichever of the two limits of a listing applies.  What a death takes back
leaves the committed rows, of which the same is known (`TellsTrue(disk)`).
`MediaOutlivesMessage` needs that a revision with the media of the one before it
uses that one's file again, also from a late update and after a rollback
(`KeepsMedia`); an edit that replaces the media begins anew, and its download
may yield nothing.

`ArchiveExact` speaks of what is published; `ExportInv` says the same of every
archive there is (`Exact`), of the working tree in the middle of a run too.
A run that is cut off leaves files that are ahead of the cursor, and Git may
publish none, one or all of them later.  What makes the next run right is that a
month's file always holds the first messages of its month, so that what it lacks
belongs after what it has (`ListingsJoin`, from the fact that a finite set of
numbers can be listed in order in one way only, `OrderedOnce`); and that what
was left behind is among the records of the run that follows, so that the new
cursor has nothing missing below it (`Writing`).  Nothing is needed of what Git
takes for a prefix: whichever of the two histories wins, its archives are exact.

`TimelineComplete` speaks of the moment after a window; two runs may be anywhere
in theirs, of different lengths, replace each other's days, or die between two
of them.  `excused` names what a window left out: rows that no earlier window
passed and this one does not reach, because it was asked for or shortened by
`max_backfill_hours`, and rows its cut dropped.  `TimelineInv` says of a run
that is reading, and of every row too old to be joined by another, that it is in
the files or excused if it lies before the window, and was read or is excused if
it lies within (`ReadsOld`); and that what the run is about to write over a day
keeps the old rows before its window (`KeepsOld`).  It needs that no row appears
later than the overlap and that the clock waits for a run that is writing.

`Records_proofs` proves of the composition `MCRecords`, over the specification
that the run `records` checks:

| theorem | says |
|---|---|
| `NoticesTold` | `AllSpec => []NoticesAreTold`: `DriftIsTold` of free space and `SilenceIsEarned` of SMART |
| `CaptureConsented` | `AllSpec => []CaptureIsConsented`: `OnlyApprovedIsRecorded` and `WithdrawalForgets` of a captured session |
| `RetentionStaysTrue` | `R!Spec => []`: `EverySampleOnce`, `PeriodsKeepTheirLast`, `BackupsReachBack` of metrics, inventories and backups |
| `ScansStayTrue` | `P!Spec => []`: `RollupExact` and `GrowthIsReal` of the processes, if `SetBackIsShort` |
| `RetentionKept` | `AllSpec => []RetentionKeepsWhatCounts`, both of them, if `SetBackIsShort` |
| `HistoryStaysTrue`, `UnitHistoryTrue` | `U!Spec => []UnitHistoryIsTrue`, `AllSpec => []UnitHistoryIsTrue`: `NothingSkipped` and `ExecutionsFollowEntries` of the units |
| `CollectorsRemembered` | `AllSpec => []CollectorsRemember`, if `~Overlap`: `EveryTransactionReported` of DNF, `ErrorsFoundOnce`, `SeriesKeepTheirSensor` and `FreshnessIsRemembered` of the host watch, `UncleanEndsAreReported` of the boots |

They assume `SpaceAssumption` (a threshold above zero, mount points in an order),
`SessionAssumption` (commands numbered as they run), `PackageAssumption`
(transactions numbered from one), `HostAssumption` (the journal is searched
as far back as two collections can lie apart) and `RetentionAssumption` (days,
hours and copies are natural numbers, an hour is not empty and a pass rolls up
at least one).  `~Overlap` and `SetBackIsShort` are conditions of the table
above that the code does not ensure; they are hypotheses of the theorems, so
that nobody reads one without them.  What the memories have room for, what a
reboot or a sleep takes away and what a drain leaves unread are premises of the
properties themselves.  A step of
the composition moves one part and leaves the variables of the others alone, so
each part has an invariant of its own that every other part's step keeps.  `SpaceInv` says what an evaluation holds while its message
is under way: the value it observed, and whether Kuma took it, which is what
the baseline will say or, when the answer was lost, what is in doubt.
`SmartInv` says that a process which knows of no overlap is alone between the
comparison and the notice, so that what it stored is still there (`AloneInv`),
and that what was told of a disk is what is stored for it unless a process is
about to tell what it stored over it (`ToldInv`).

`OnlyApprovedIsRecorded` depends on two pipes and the terminal being read in an
order that nobody fixes.  `SessionInv` is why it holds: until the hook gives
up, shell and relay are in step (`InStep`), which of the seven ways follows from
the events on the pipe, at most two; after it, the relay still reads what was
sent before (`Follows`), and whatever the terminal showed since is of commands
that were never asked for.  What the relay has not read or holds back was shown
beside the command it is in or comes to, or beside none, or was left unread by
an earlier drain (`Known`): this is what the draining before B and E
keeps true, and without it (the mutant `Boundary_Begin`) the tail of an excluded
command would be recorded as the next one's.  A drain that reads its limit
blocks the capture and marks the rest as late.  What draining does to any number
of pieces is proved by a minimal counterexample among the sets of positions
(`DrainKeeps`).  Without this strengthening the property is not inductive; TLC
checked `SessionInv` with three commands before it was proved.

`CollectorsRemembered` holds three such invariants together.  `PackageInv` says
that a transaction which nothing excuses was reported if it is remembered, or
waits in hand of the worker that remembered it; as long as all that were issued
fit, it leaves the memory only in a
collection that could not read it, which is a fault and excuses all that was
issued, so packages are reported at most once more than there were faults
(`OnceInv`; every part counts its faults in one variable, hence `FaultsGrow`).
`HostInv` says that an error no search covered is not older than the last
collection that succeeded, and gone with a reboot or a sleep if it is of another
boot or beyond the lookback (`SearchInv`), which the lookback keeps true when
time passes, and that as long as there is room whatever was returned is still
remembered; and that the remembered success of a service is not before the
latest that stood at a collection, and is late only by as much as the host slept
since one of them (`ServiceInv`).
`BootInv` says that at most one hook is at work and read what is still stored
(`HookInv`), that the flag says of the recorded boot whether its shutdown wrote
it, and that there is a state once a boot or a sleep hook wrote one (`EndsInv`), and that a boot hook concluded from it what it will be judged by
(`JudgeInv`).  TLC checked the three as invariants of the run `records` first.

`HistoryStaysTrue` assumes nothing of its constants, and has any number of
importers at work on all units at once, where the run keeps to one of either.
An import stores what another may have passed meanwhile, or sets the cursor
back behind it; `HistoryInv` says why neither leaves a hole.  The cursor an
import began with stays covered, for what is stored is never removed; what it
read covers its places up to the last one it was shown (`ReadCovers`), with
what was stored before its cursor and what it could not see; and the new cursor
is one of these places, although it is that of the latest time stamp and not of
the last place, since the clock may have been set back.  That executions follow
their entries when the log grows needs that the latest of some entries is
unique (`LatestAgrees`).

`RetentionStaysTrue` holds for any days and any interleaving of samples, passes
that die and set-backs.  A day has an aggregate exactly if one of its samples is
gone, and then it is that of the samples gone, whether the pass made it or merged
into it (`FoldInv`): merging adds up because a pass takes all the rows of its day
at once, those that were inserted since the days were listed included.
Inventories and backups are thinned to the last of each period, which the rest
cannot change later (`PeriodInv`); for backups, the newest weeks among those left
are the newest of all (`FewerNewer`).

`ScansStayTrue` is where a proof found a condition that the run had not shown.
An hour is rolled up anew from all its scans, which are pruned only once they
are rolled up; so it is exact as long as no hour that was rolled up before waits
for the next pass while its old scans are pruned.  A late scan opens such an
hour again, and a pass takes the 24 oldest (`process_history.py:76`).
`BacklogInv` says why that is enough: of the hours to roll up, those before the
last one scanned never outnumber a pass, for a pass in order leaves only the
last one, and a clock set back opens at most as many as it is set back by.  The
last hour scanned may wait, since none of its scans was rolled up.  An hour with
pruned scans is older than `raw_hours` and is not opened again.  Both parts of
`SetBackIsShort` are needed: with hours of two ticks, one hour per pass and two
hours kept, a clock that is set back twice, by two hours in all, makes TLC find
an hour rolled up from its late scan alone (six scans, nine ticks); and so does
a set-back of more than the hours kept.  `records` has bounds within both.
`GrowthIsReal` needs that the latest scan is never pruned, for each scan is
differenced against it, and that the counters of a process rise with the scans
(`GrowthInv`); what is counted then telescopes.  Sums over scans do not depend
on the order the fold takes them in (`SumRemove`).

Only model-checked: all liveness properties (`AlertsSettle`, `HeartbeatRepairs`, `CatchesUp`, `EveryEntryImported`,
`ArchivesCatchUp` and `DialogIsOffered`), since liveness under fairness and
`ENABLED` are out of the prover's reach; and `RecordsTypeOK`, the types of
`MCRecords` as a whole, of which the proofs above carry what they need.
Induction theorems take an operator as a parameter, which no installed prover
can instantiate; where a theorem needed what a fold or a recursive function
gives for every input, a minimal counterexample took its place.

## Not modelled

* `config`, `reporting`, `prometheus`: parsing, read-only queries, rendering.
  Configured values appear as constants.
* `service_health`, `prompt_history_freshness`, `event_jobs`: each is one
  decision over timestamps without a state of its own.
* `kuma_c2_bridge` is retired and returns at once.
* The D-Bus, udev and power streams of `eventing` keep nothing across restarts;
  the classification of lines is data.
* The history of rows of an alert key.  `mark_alert_notification`
  (`database/alerts.py:205`) picks the row of a key with the latest timestamp,
  which need not be the newest row; the models keep one row per key, so nothing
  is shown about it.
* Derived recoveries by other host evidence (OOM, smartd, DNF, I/O lookback,
  read-only file systems), the disk capacity policy, pressure levels.
* Row limits of tables, vacuuming, migrations, inventory refreshes, service
  heartbeats, the contents of bundles, messages and dialogs.

`PROJECT.json` gives the reason at every component.

## Plan

1. Prove: the types of the components of `MCRecords` (`RecordsTypeOK`).
2. Model: the rows of an alert key with their timestamps, for the hazard at
   `database/alerts.py:205`; the remaining derived recoveries; the freshness
   decisions as operators against a reference definition.
3. A new component becomes a part of one of the composed runs, so that checking
   everything stays a matter of minutes.
