------------------------------ MODULE Retention ------------------------------
(* The daily and the weekly maintenance of the database (_maintenance_daily *)
(* of runtime/coordinator.py, database/retention.py): expired metrics are   *)
(* folded into one aggregate per UTC day, a day per transaction; expired    *)
(* rows and inventory snapshots go in one more; backups are made and        *)
(* pruned.  Collectors go on inserting, and the clock may be set back.      *)
EXTENDS Integers, Sequences, FiniteSets, FiniteSetsExt

CONSTANTS
  MaxDay,       \* bound on the clock
  RawDays,      \* minute_days
  DailyDays,    \* inventory_daily_days
  WeekDays, MonthDays,                \* days of a week, of a month
  DailyCount, WeeklyCount, MonthlyCount,  \* backups kept
  MaxSamples,   \* bound on samples
  MaxSetBacks,  \* bound on changes of the clock
  MaxFaults     \* bound on deaths of the worker

Days      == 0..MaxDay
Slots     == {0, 1}      \* timestamps of a day, to the second
Week   == [d \in Days |-> d \div WeekDays]
Month  == [d \in Days |-> d \div MonthDays]
NoAggregate == [count |-> 0, dropped |-> 0, least |-> 0, most |-> 0]

VARIABLES
  now, slot,    \* the clock
  raw,          \* periodic_metrics: samples, whose value is their id
  aggregate,    \* metric_aggregates, by day
  inventory,    \* days whose software snapshot is there
  backups,      \* days whose backup is there
  pass,         \* the maintenance that runs
  taken,        \* history: every sample
  daily,        \* history: days of a software snapshot
  saved,        \* history: days of a backup
  setbacks, faults

vars == <<now, slot, raw, aggregate, inventory, backups, pass, taken, daily,
          saved, setbacks, faults>>
data == <<raw, aggregate, inventory, backups>>
history == <<taken, daily, saved>>

Idle == [pc |-> "idle", weekly |-> FALSE, todo |-> {}, at |-> 0]

Init ==
  /\ now = 0 /\ slot = 0
  /\ raw = {} /\ aggregate = [d \in Days |-> NoAggregate]
  /\ inventory = {} /\ backups = {}
  /\ pass = Idle
  /\ taken = {} /\ daily = {} /\ saved = {}
  /\ setbacks = 0 /\ faults = 0

------------------------------------------------------------------------------
(* The clock and the collectors.                                            *)

Tick ==
  /\ \/ slot = 0 /\ slot' = 1 /\ UNCHANGED now
     \/ slot = 1 /\ now < MaxDay /\ now' = now + 1 /\ slot' = 0
  /\ UNCHANGED <<data, pass, history, setbacks, faults>>

SetBack ==
  /\ setbacks < MaxSetBacks /\ setbacks' = setbacks + 1
  /\ now > 0 /\ now' = now - 1
  /\ slot' = 0
  /\ UNCHANGED <<data, pass, history, faults>>

(* insert_metrics.                                                          *)
Sample ==
  /\ Cardinality(taken) < MaxSamples
  /\ LET s == [id |-> Cardinality(taken) + 1, day |-> now, slot |-> slot]
     IN raw' = raw \cup {s} /\ taken' = taken \cup {s}
  /\ UNCHANGED <<now, slot, aggregate, inventory, backups, pass, daily, saved, setbacks, faults>>

------------------------------------------------------------------------------
(* _aggregate_metrics.                                                      *)

Least(S) == Min(S)
Most(S)  == Max(S)

(* Of the samples of one timestamp the last one inserted counts.            *)
Counted(S) == {s \in S : \A t \in S : t.slot = s.slot => t.id <= s.id}

Merge(old, S) ==
  LET ids == {s.id : s \in Counted(S)}
      new == [count |-> Cardinality(ids), dropped |-> Cardinality(S) - Cardinality(ids),
              least |-> Least(ids), most |-> Most(ids)]
  IN  IF old.count = 0 THEN new
      ELSE [count   |-> old.count + new.count, dropped |-> old.dropped + new.dropped,
            least   |-> Least({old.least, new.least}), most |-> Most({old.most, new.most})]

OfDay(d) == {s \in raw : s.day = d}

(* One day of apply_retention: what the day holds now is folded and deleted. *)
AggregateDay ==
  /\ pass.pc = "metrics" /\ pass.todo # {}
  /\ LET d == Least(pass.todo)
     IN /\ aggregate' = IF OfDay(d) = {} THEN aggregate
                        ELSE [aggregate EXCEPT ![d] = Merge(@, OfDay(d))]
        /\ raw' = raw \ OfDay(d)
        /\ pass' = [pass EXCEPT !.todo = @ \ {d}]
  /\ UNCHANGED <<now, slot, inventory, backups, history, setbacks, faults>>

------------------------------------------------------------------------------
(* The second transaction: expired and the thinned inventory.         *)

LastOf(S, period) == {d \in S : \A e \in S : period[e] = period[d] => e <= d}

(* _thin_inventory_snapshots: the latest snapshot, those of the last days,  *)
(* and of the older ones the last of each week and of each month.           *)
Thinned(S, cutoff) ==
  LET older == {d \in S : d < cutoff}
  IN  {d \in S : d >= cutoff} \cup {Most(S)} \cup LastOf(older, Week) \cup LastOf(older, Month)

Clean ==
  /\ pass.pc = "metrics" /\ pass.todo = {}
  /\ inventory' = IF inventory = {} THEN {}
                  ELSE Thinned(inventory, pass.at - DailyDays)
  /\ pass' = IF pass.weekly THEN Idle ELSE [pass EXCEPT !.pc = "backups"]
  /\ UNCHANGED <<now, slot, raw, aggregate, backups, history, setbacks, faults>>

------------------------------------------------------------------------------
(* The maintenance of a day follows the snapshot of its software and makes  *)
(* a backup first; the weekly one has neither.                              *)

Begin(weekly) ==
  /\ pass = Idle
  /\ IF weekly THEN UNCHANGED <<inventory, daily>>
     ELSE inventory' = inventory \cup {now} /\ daily' = daily \cup {now}
  /\ pass' = [Idle EXCEPT !.pc = IF weekly THEN "start" ELSE "backup", !.weekly = weekly]
  /\ UNCHANGED <<now, slot, raw, aggregate, backups, taken, saved, setbacks, faults>>

Backup ==
  /\ pass.pc = "backup"
  /\ backups' = backups \cup {now} /\ saved' = saved \cup {now}
  /\ pass' = [pass EXCEPT !.pc = "start"]
  /\ UNCHANGED <<now, slot, raw, aggregate, inventory, taken, daily, setbacks, faults>>

(* apply_retention looks up the days before it folds them, one after another. *)
FindDays ==
  /\ pass.pc = "start"
  /\ pass' = [pass EXCEPT !.pc = "metrics", !.at = now,
                          !.todo = {s.day : s \in raw} \cap 0..(now - RawDays - 1)]
  /\ UNCHANGED <<now, slot, data, history, setbacks, faults>>

(* The newest members of S of the n newest periods.                         *)
NewestOf(S, period, n) ==
  {d \in LastOf(S, period) : Cardinality({period[e] : e \in {x \in S : period[x] > period[d]}}) < n}

(* _prune_backups.                                                          *)
KeptBackups(S) ==
  LET recent == {d \in S : Cardinality({e \in S : e > d}) < DailyCount}
  IN  recent \cup NewestOf(S, Week, WeeklyCount) \cup NewestOf(S, Month, MonthlyCount)

PruneBackups ==
  /\ pass.pc = "backups"
  /\ backups' = KeptBackups(backups)
  /\ pass' = Idle
  /\ UNCHANGED <<now, slot, raw, aggregate, inventory, history, setbacks, faults>>

(* The worker is killed at its deadline, or the host goes down.             *)
Die ==
  /\ pass # Idle /\ faults < MaxFaults
  /\ faults' = faults + 1
  /\ pass' = Idle
  /\ UNCHANGED <<now, slot, data, history, setbacks>>

Maintain == (\E weekly \in BOOLEAN : Begin(weekly)) \/ Backup \/ FindDays \/ AggregateDay \/ Clean \/ PruneBackups
Next     == Tick \/ SetBack \/ Sample \/ Maintain \/ Die
Spec     == Init /\ [][Next]_vars

------------------------------------------------------------------------------
(* Properties.                                                              *)

TypeOK ==
  /\ now \in Days /\ slot \in Slots
  /\ raw \subseteq taken /\ \A s \in taken : s.day \in Days /\ s.slot \in Slots
  /\ inventory \subseteq daily /\ backups \subseteq saved /\ daily \cup saved \subseteq Days
  /\ pass.pc \in {"idle", "backup", "start", "metrics", "backups"} /\ pass.todo \subseteq Days
  /\ setbacks \in 0..MaxSetBacks /\ faults \in 0..MaxFaults

(* Every sample ever inserted is either still a raw row or counted once in  *)
(* the aggregate of its day, and no extreme is lost, although rows arrive   *)
(* between two passes, between the lookup of the days and their turn, and   *)
(* for days that were folded before.                                        *)
EverySampleOnce ==
  \A d \in Days :
    LET gone == {s \in taken : s.day = d} \ raw  a == aggregate[d]
    IN  /\ a.count + a.dropped = Cardinality(gone)
        /\ gone # {} => a.most = Most({s.id : s \in gone})

(* Of every week and month that ever had a snapshot the last one stays, in  *)
(* whichever order thinning, late snapshots and dead passes come.           *)
PeriodsKeepTheirLast == LastOf(daily, Week) \cup LastOf(daily, Month) \subseteq inventory

(* So do the last backups of the newest weeks and months.                   *)
BackupsReachBack ==
  NewestOf(saved, Week, WeeklyCount) \cup NewestOf(saved, Month, MonthlyCount) \subseteq backups

==============================================================================
