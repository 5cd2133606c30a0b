---------------------------- MODULE ProcessHistory ----------------------------
(* The process history: a scan of /proc a minute (collectors/               *)
(* process_history.py) whose counters are differenced against the scan       *)
(* before, stored together with the rollup of the closed hours and the       *)
(* pruning of old scans (database/process_history.py).  The wall clock may   *)
(* be set back; counters follow the boot clock.                              *)
EXTENDS Integers, FiniteSets, FiniteSetsExt

CONSTANTS
  HourTicks,    \* ticks of the clock in an hour
  RawHours,     \* raw_hours
  HoursPerPass, \* hours rolled up by one scan, 24 in the code
  MaxTime,      \* bound on the wall clock
  MaxScans,     \* bound on scans
  MaxBack,      \* the furthest the wall clock is behind its latest value
  MaxFaults     \* bound on set-backs, reused pids, reboots and partial scans

Hour(t)  == t \div HourTicks
Hours    == 0..Hour(MaxTime)
Nobody   == [life |-> 0, work |-> 0]
NoDelta  == -1

VARIABLES
  now, latest,  \* the wall clock and the latest it has shown
  boot,     \* life at which the current boot began
  life,     \* the process that holds the pid: <<boot, start_ticks>>
  work,     \* its counter (cpu_ticks, read_bytes, write_bytes)
  scans,    \* process_scans and their one sample, by id
  hourly,   \* process_hourly: the sum and the number of deltas, by hour
  made,     \* history: every scan
  faults

vars == <<now, latest, boot, life, work, scans, hourly, made, faults>>

Init ==
  /\ now = 0 /\ latest = 0 /\ boot = 1 /\ life = 1 /\ work = 0
  /\ scans = {} /\ made = {} /\ faults = 0
  /\ hourly = [h \in Hours |-> [samples |-> 0, delta |-> 0]]

Fault == faults < MaxFaults /\ faults' = faults + 1

------------------------------------------------------------------------------
(* The host.                                                                *)

Tick ==
  /\ now < MaxTime /\ now' = now + 1 /\ latest' = Max({latest, now'}) /\ work' = work + 1
  /\ UNCHANGED <<boot, life, scans, hourly, made, faults>>

SetBack ==
  /\ Fault /\ now > 0
  /\ now' \in Max({0, latest - MaxBack})..(now - 1)
  /\ UNCHANGED <<latest, boot, life, work, scans, hourly, made>>

(* Another process gets the pid; with a reboot the boot id changes too.     *)
Restart ==
  /\ Fault
  /\ life' = life + 1 /\ work' = 0
  /\ boot' \in {boot, life'}
  /\ UNCHANGED <<now, latest, scans, hourly, made>>

------------------------------------------------------------------------------
(* A scan.                                                                  *)

Newest == CHOOSE s \in scans : \A t \in scans : t.id <= s.id

(* The growth since the previous scan, when it saw the same process.        *)
Delta(s) == IF scans = {} \/ s.life = 0 \/ Newest.life # s.life THEN NoDelta
            ELSE s.work - Newest.work

(* scan_processes leaves a boot's scan out when the last one is too recent. *)
TooSoon == scans # {} /\ Newest.boot = boot /\ now = Newest.at

Growth(S) == MapThenSumSet(LAMBDA s : s.delta, {s \in S : s.delta # NoDelta})
Rollup(S) == [samples |-> Cardinality({s \in S : s.life # 0}), delta |-> Growth(S)]
In(S, h)  == {s \in S : Hour(s.at) = h}

Earliest(S, n) == {h \in S : Cardinality({g \in S : g < h}) < n}

(* Defect: the hours are rolled up from the scans that are new.             *)
Kept_NewOnly(S, hours) == [h \in Hours |-> IF h \in hours THEN Rollup(In({s \in S : ~s.rolled}, h)) ELSE hourly[h]]

(* A rollup is made anew from all the scans of its hour.                    *)
Kept(S, hours) == [h \in Hours |-> IF h \in hours THEN Rollup(In(S, h)) ELSE hourly[h]]

(* persist and maintain: one transaction.                                   *)
Store(s) ==
  LET all    == scans \cup {s}
      closed == {h \in Hours : h < Hour(now) /\ \E t \in In(all, h) : ~t.rolled}
      hours  == Earliest(closed, HoursPerPass)
      rolled == {IF Hour(t.at) \in hours THEN [t EXCEPT !.rolled = TRUE] ELSE t : t \in all}
      old(t) == t.rolled /\ Hour(t.at) < Hour(now) - RawHours
  IN  /\ hourly' = Kept(all, hours)
      /\ scans' = {t \in rolled : ~old(t)}
      /\ made' = made \cup {s}

Sampled(l) ==
  LET s == [id |-> Cardinality(made) + 1, at |-> now, boot |-> boot, life |-> l,
            work |-> IF l = 0 THEN 0 ELSE work, delta |-> NoDelta, rolled |-> FALSE]
  IN  [s EXCEPT !.delta = Delta(s)]

Scan ==
  /\ Cardinality(made) < MaxScans /\ ~TooSoon
  /\ Store(Sampled(life))
  /\ UNCHANGED <<now, latest, boot, life, work, faults>>

(* The deadline of the scan passes, or a file of the process is unreadable. *)
ScanBlind ==
  /\ Cardinality(made) < MaxScans /\ ~TooSoon /\ Fault
  /\ Store(Sampled(0))
  /\ UNCHANGED <<now, latest, boot, life, work>>

Next == Tick \/ SetBack \/ Restart \/ Scan \/ ScanBlind
Spec == Init /\ [][Next]_vars

------------------------------------------------------------------------------
(* Properties.                                                              *)

TypeOK ==
  /\ now \in 0..latest /\ latest <= MaxTime /\ boot \in 1..life /\ work \in Nat
  /\ \A s \in scans : s \in made \/ [s EXCEPT !.rolled = FALSE] \in made
  /\ \A h \in Hours : hourly[h].samples \in 0..MaxScans /\ hourly[h].delta \in Nat
  /\ faults \in 0..MaxFaults

(* What was measured in an hour is what its rollup says, whenever every scan *)
(* of that hour is rolled up: late scans after a set-back, pruned scans and  *)
(* passes that roll up only some hours included.                             *)
RollupExact ==
  \A h \in Hours :
    (\A s \in In(scans, h) : s.rolled) => hourly[h] = Rollup(In(made, h))

(* The growth the scans recorded is growth the process had: never counted   *)
(* twice, never another process's.                                          *)
GrowthIsReal ==
  \A l \in 1..life :
    LET seen == {s \in made : s.life = l}
    IN  seen # {} => Growth(seen) <= Max({s.work : s \in seen}) - Min({s.work : s \in seen})

==============================================================================
