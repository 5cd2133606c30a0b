------------------------------ MODULE MCRecords ------------------------------
(* What the monitor records, for TLC: the runs of collections, the metrics   *)
(* and backups, the history of processes, of units and of packages, the      *)
(* signs of the host, the ends of boots, the capture of a session and what   *)
(* was told of free space and of SMART.  They meet in one database but share *)
(* no row, so each behaviour exercises one of them, "part", in full while    *)
(* the others stay where they began.                                         *)
EXTENDS CollectionRuns

CONSTANTS
  MaxDay, RawDays, DailyDays, WeekDays, MonthDays,          \* Retention
  DailyCount, WeeklyCount, MonthlyCount, MaxSamples, MaxSetBacks,
  HourTicks, RawHours, HoursPerPass, MaxScanTime,           \* ProcessHistory
  MaxScans, MaxBack, MaxScanFaults,
  Units, First, Initial, Fallback, Outcomes,                \* SystemdHistory
  Importers, Lone, MaxImportTime, MaxEntries,
  Transactions, Newcomers, PerPass, Keep, MaxPasses,         \* PackageHistory
  Period, Slack, Lookback, Memory, Fresh, Sensors, MaxWatch, \* HostWatch
  MaxBoots, MaxSleeps, MaxHookFaults, Overlap,              \* LifecycleHooks
  Lines, DrainReads, MaxChunks, MaxPending, MaxControls,    \* SessionCapture
  Threshold, MaxFree, Mounts                                \* SpaceNotice

\* Days and hours are counted, and the history of processes keeps some hours.
ASSUME RetentionAssumption ==
  /\ MaxDay \in Nat /\ DailyDays \in Nat /\ WeeklyCount \in Nat /\ MonthlyCount \in Nat
  /\ HourTicks \in Nat \ {0} /\ RawHours \in Nat /\ HoursPerPass \in Nat \ {0}
  /\ MaxScanTime \in Nat /\ MaxBack \in Nat

\* Free space is told when it has changed by something; one mount point of a
\* filesystem is preferred to another.
ASSUME SpaceAssumption ==
  Threshold \in Nat \ {0} /\ MaxFree \in Nat /\ Mounts \subseteq Nat

\* The command lines of a shell are numbered from one on in the order they run.
ASSUME SessionAssumption ==
  Lines \subseteq Nat \ {0} /\ DrainReads \in Nat \ {0} /\ MaxPending \in Nat

\* Transactions are numbered from one on.
ASSUME PackageAssumption ==
  IsFiniteSet(Transactions) /\ Transactions \subseteq Nat \ {0} /\ Keep \in Nat

\* The journal is searched as far back as two collections can lie apart, and
\* no sensor has the name that says that none owns a series yet.
ASSUME HostAssumption ==
  /\ Period \in Nat /\ Slack \in Nat /\ Fresh \in Nat /\ MaxWatch \in Nat \ {0}
  /\ Lookback \in Nat /\ Lookback >= Period + Slack /\ Memory \in Nat
  /\ "unpinned" \notin Sensors

VARIABLES
  part,
  slot, raw, aggregate, inventory, backups, pass, taken, daily, saved, setbacks,
  latest, boot, life, work, scans, hourly, made,
  journal, vacuumed, catalog, checkpoint, entries, executions, import, unread,
  status, seen, active, pc, events, reported, excused, passes,
  time, ran, up, errors, older, listed, found, missed, pin, samples, unit, wall, stood, verdict,
  thisBoot, power, hook, state, unclean, clean, slept, judged, sleeps,
  excluded, shell, tty, meta, ack, cap, failed, epoch, unasked, controls,
  base, observed, visit, settled, due, doubt,
  plugged, stored, caller, waiting, open, told, begun, again

runVars     == <<runs, locks, cmd, worker, last>>
keptVars    == <<slot, raw, aggregate, inventory, backups, pass, taken, daily, saved, setbacks>>
scanVars    == <<latest, boot, life, work, scans, hourly, made>>
unitVars    == <<journal, vacuumed, catalog, checkpoint, entries, executions, import, unread>>
packageVars == <<status, seen, active, pc, events, reported, excused, passes>>
hostVars    == <<time, ran, up, errors, older, listed, found, missed, pin, samples, unit, wall,
                 stood, verdict>>
bootVars    == <<thisBoot, power, hook, state, unclean, clean, slept, judged, sleeps>>
sessionVars == <<excluded, shell, tty, meta, ack, cap, failed, epoch, unasked, controls>>
spaceVars   == <<base, observed, visit, settled, due, doubt>>
smartVars   == <<plugged, stored, caller, waiting, open, told, begun, again>>
noticeVars  == <<spaceVars, smartVars>>
allVars == <<part, now, faults, runVars, keptVars, scanVars, unitVars, packageVars,
             hostVars, bootVars, sessionVars, spaceVars, smartVars>>

MCCommands == {"fast", "hand"}
MCPlan == [c \in MCCommands |-> IF c = "fast" THEN <<"minute", "five_minute">>
                                              ELSE <<"five_minute">>]

R == INSTANCE Retention
P == INSTANCE ProcessHistory WITH MaxTime <- MaxScanTime, MaxFaults <- MaxScanFaults
U == INSTANCE SystemdHistory WITH excused <- unread, MaxTime <- MaxImportTime
D == INSTANCE PackageHistory WITH Baseline <- Newcomers
H == INSTANCE HostWatch WITH now <- time, entries <- errors, judged <- verdict,
       MaxTime <- MaxWatch
L == INSTANCE LifecycleHooks WITH boot <- thisBoot, MaxFaults <- MaxHookFaults
S == INSTANCE SessionCapture WITH Commands <- Lines
F == INSTANCE SpaceNotice WITH last <- observed
N == INSTANCE SmartNotice

Parts == {"runs", "metrics", "files", "processes", "units", "overlap", "packages",
          "host", "sensors", "boots", "session", "space", "smart"}

AllInit ==
  /\ part \in Parts
  /\ Init /\ R!Init /\ P!Init /\ U!Init /\ D!Init /\ H!Init /\ L!Init /\ S!Init
  /\ F!Init /\ N!Init
  /\ part # "session" => excluded = {} /\ ~cap.consent
  /\ part # "packages" => status = [t \in Transactions |-> "none"]
  /\ part # "smart" => plugged

(* To stay small, imports overlap over the log of one unit only.            *)
OneImporter == \A i \in Importers \ {Lone} : import'[i] = import[i]
OneUnit == /\ UNCHANGED catalog
           /\ \A p \in DOMAIN journal' : journal'[p].unit \in First /\ journal'[p].says # "none"

AllNext ==
  \/ /\ part = "runs" /\ Next
     /\ UNCHANGED <<part, keptVars, scanVars, unitVars, packageVars, hostVars, bootVars, sessionVars, noticeVars>>
  \/ /\ \/ part = "metrics" /\ R!Next /\ UNCHANGED daily
        \/ part = "files" /\ R!Next /\ UNCHANGED taken
     /\ UNCHANGED <<part, runVars, scanVars, unitVars, packageVars, hostVars, bootVars, sessionVars, noticeVars>>
  \/ /\ part = "processes" /\ P!Next
     /\ UNCHANGED <<part, runVars, keptVars, unitVars, packageVars, hostVars, bootVars, sessionVars, noticeVars>>
  \/ /\ \/ part = "units" /\ U!Next /\ OneImporter
        \/ part = "overlap" /\ U!Next /\ OneUnit
     /\ UNCHANGED <<part, runVars, keptVars, scanVars, packageVars, hostVars, bootVars, sessionVars, noticeVars>>
  \/ /\ part = "packages" /\ D!Next
     /\ UNCHANGED <<part, now, runVars, keptVars, scanVars, unitVars, hostVars, bootVars, sessionVars, noticeVars>>
  \/ /\ \/ part = "host" /\ H!Next /\ UNCHANGED <<pin, samples>>
        \/ part = "sensors" /\ H!Next /\ UNCHANGED <<errors, unit>>
     /\ UNCHANGED <<part, now, runVars, keptVars, scanVars, unitVars, packageVars, bootVars, sessionVars, noticeVars>>
  \/ /\ part = "boots" /\ L!Next
     /\ UNCHANGED <<part, now, runVars, keptVars, scanVars, unitVars, packageVars, hostVars, sessionVars, noticeVars>>
  \/ /\ part = "session" /\ S!Next
     /\ UNCHANGED <<part, now, runVars, keptVars, scanVars, unitVars, packageVars, hostVars, bootVars, noticeVars>>
  \/ /\ \/ part = "space" /\ F!Next /\ UNCHANGED smartVars
        \/ part = "smart" /\ N!Next /\ UNCHANGED spaceVars
     /\ UNCHANGED <<part, now, faults, runVars, keptVars, scanVars, unitVars, packageVars,
                    hostVars, bootVars, sessionVars>>

AllSpec == AllInit /\ [][AllNext]_allVars

------------------------------------------------------------------------------
(* Properties; those of the runs of collections are CollectionRuns' own.    *)

(* Every variable of the records stays in its type.                         *)
RecordsTypeOK ==
  CASE part = "runs"                -> TypeOK
    [] part \in {"metrics", "files"} -> R!TypeOK
    [] part = "processes"           -> P!TypeOK
    [] part \in {"units", "overlap"} -> U!TypeOK
    [] part = "packages"            -> D!TypeOK
    [] part \in {"host", "sensors"}  -> H!TypeOK
    [] part = "boots"               -> L!TypeOK
    [] part = "session"             -> S!TypeOK
    [] part = "space"               -> F!TypeOK
    [] part = "smart"               -> N!TypeOK

(* What is aggregated, thinned, pruned or rolled up still says what was     *)
(* measured, and the last of each period stays.                             *)
RetentionKeepsWhatCounts ==
  /\ R!EverySampleOnce /\ R!PeriodsKeepTheirLast /\ R!BackupsReachBack
  /\ P!RollupExact /\ P!GrowthIsReal

(* What the cursor of the history of units has passed is stored, and its    *)
(* executions say what its entries say.                                     *)
UnitHistoryIsTrue == U!NothingSkipped /\ U!ExecutionsFollowEntries

(* What is remembered makes everything reported, and only once: package     *)
(* transactions, errors in the journal, series of one sensor, successes,    *)
(* and a boot as following an unclean end exactly if it does.               *)
CollectorsRemember ==
  /\ D!EveryTransactionReported
  /\ H!ErrorsFoundOnce /\ H!SeriesKeepTheirSensor /\ H!FreshnessIsRemembered
  /\ L!UncleanEndsAreReported

(* The capture of a session: only what was approved, and nothing from       *)
(* before the consent was withdrawn.                                        *)
CaptureIsConsented == S!OnlyApprovedIsRecorded /\ S!WithdrawalForgets

(* A message is withheld only for what was told: free space that drifts is  *)
(* told past the threshold, a SMART notice is silenced by one like it.      *)
NoticesAreTold == F!DriftIsTold /\ N!SilenceIsEarned

==============================================================================
