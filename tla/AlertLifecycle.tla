--------------------------- MODULE AlertLifecycle ---------------------------
(***************************************************************************)
(* From a sampled metric to an alert row and back.                         *)
(*                                                                         *)
(* A collector worker samples every metric, evaluates each one against its *)
(* persisted alert condition (evaluate_metric_alerts writes the new        *)
(* condition to dedup_state at once), computes the recoveries that follow  *)
(* from other evidence (_derived_recoveries), and only then applies the    *)
(* signals to the alerts table (_persist_signals).  The worker is a        *)
(* subprocess with a deadline, so it can be killed between any two of      *)
(* these transactions, and an exception in one loses the rest.  The event  *)
(* daemon opens alerts of its own on the same keys meanwhile.              *)
(*                                                                         *)
(* alerts[k] is the severity of the active row of key k, "none" when there *)
(* is none: a partial unique index allows one active row per key.          *)
(* Elapsed time is counted in ticks since the breach began and saturates   *)
(* at the longest hold, beyond which the code cannot tell it apart.        *)
(***************************************************************************)
EXTENDS AlertLevels, FiniteSets

CONSTANTS
  Keys,        \* alert keys "<metric name>:<device>"
  Kind,        \* [Keys -> {"high", "low", "link", "service"}]
  WarningAt,   \* warning threshold of high and low keys
  CriticalAt,  \* critical threshold of high and low keys
  Hysteresis,  \* recovery hysteresis of high and low keys
  Hold,        \* ticks a warning of a high or link key must last
  MaxValue,    \* sampled values are 0..MaxValue
  MaxCrashes   \* bound on worker deaths

ASSUME KindAssumption == Kind \in [Keys -> {"high", "low", "link", "service"}]
ASSUME ThresholdAssumption ==
  /\ WarningAt \in [Keys -> Int]
  /\ CriticalAt \in [Keys -> Int]
  /\ Hysteresis \in [Keys -> Nat]
ASSUME HoldAssumption == Hold \in Nat
ASSUME BoundAssumption == MaxValue \in Nat /\ MaxCrashes \in Nat

VARIABLES
  cond,      \* dedup_state "alert-condition:<key>"
  alerts,    \* active rows of the alerts table
  ignored,   \* storage keys whose mount point the operator excluded
  pc,        \* where the collector worker is
  sampled,   \* the values of the worker's current or last collection
  clean,     \* the collection reported no errors
  todo,      \* keys still to evaluate
  pending,   \* the metric signals not yet persisted
  derived,   \* the derived recoveries not yet persisted
  crashes,   \* worker deaths so far
  held,      \* history: the level of the unbroken run of samples, and its age
  good       \* history: consecutive healthy samples, at most 2

work    == <<pc, sampled, clean, todo, pending, derived>>
history == <<held, good>>
vars    == <<cond, alerts, ignored, work, crashes, history>>

Absent == -1          \* the metric is missing from the collection
StorageKeys == {k \in Keys : Kind[k] = "low"}
ServiceKeys == {k \in Keys : Kind[k] = "service"}

(* The values a metric can have; only a filesystem can be absent.          *)
ValuesOf(k) ==
  IF Kind[k] \in {"link", "service"} THEN {0, 1}
  ELSE IF Kind[k] = "low" THEN 0..MaxValue \cup {Absent}
  ELSE 0..MaxValue

Condition(k, v, active) ==
  IF Kind[k] = "high"
  THEN HighLevel(v, active, WarningAt[k], CriticalAt[k], Hysteresis[k], Hold)
  ELSE IF Kind[k] = "low"
  THEN LowLevel(v, active, WarningAt[k], CriticalAt[k], Hysteresis[k])
  ELSE IF Kind[k] = "link" THEN LinkLevel(v, Hold)
  ELSE ServiceLevel(v)

(* network. and wifi. keys need two healthy samples, the others one.       *)
RequiredSamples(k) == IF Kind[k] = "link" THEN 2 ELSE 1

CondStates == [active : Levels, breach : Levels, age : 0..Hold, samples : 0..2]
NoCondition == [active |-> "none", breach |-> "none", age |-> 0, samples |-> 0]
Signals == Severities \cup {"recover", "nothing"}
Quiet == [k \in Keys |-> "nothing"]

Init ==
  /\ cond = [k \in Keys |-> NoCondition]
  /\ alerts = [k \in Keys |-> "none"]
  /\ ignored = {}
  /\ pc = "idle"
  /\ sampled = [k \in Keys |-> IF Kind[k] = "low" THEN Absent ELSE 1]
  /\ clean = TRUE
  /\ todo = {}
  /\ pending = Quiet
  /\ derived = {}
  /\ crashes = 0
  /\ held = [k \in Keys |-> [level |-> "none", age |-> 0]]
  /\ good = [k \in Keys |-> 0]

------------------------------------------------------------------------------
(* One collection of _run_scope.                                           *)

Collect(values, ok) ==
  /\ pc = "idle"
  /\ pc' = "evaluate"
  /\ sampled' = values
  /\ clean' = ok
  /\ todo' = {k \in Keys : values[k] # Absent}
  /\ pending' = Quiet
  /\ derived' = {}
  /\ UNCHANGED <<cond, alerts, ignored, crashes, history>>

(* Defect: the age of a breach is not capped.                              *)
Older_Uncapped(n) == n + 1

Older(n) == IF n < Hold THEN n + 1 ELSE Hold

(* Defect: a breach keeps its beginning when its level changes.            *)
Breach_KeepsAge(k, asked) ==
  LET c     == cond[k]
      fires == c.age >= asked.hold
  IN  /\ cond' = [cond EXCEPT ![k] =
           [active  |-> IF fires THEN asked.level ELSE c.active,
            breach  |-> asked.level, age |-> c.age, samples |-> 0]]
      /\ pending' = [pending EXCEPT ![k] = IF fires THEN asked.level ELSE "nothing"]

(* Defect: an active level is signalled only when it changes.              *)
Breach_SignalsOnce(k, asked) ==
  LET c     == cond[k]
      age   == IF c.breach = asked.level THEN c.age ELSE 0
      fires == age >= asked.hold
  IN  /\ cond' = [cond EXCEPT ![k] =
           [active  |-> IF fires THEN asked.level ELSE c.active,
            breach  |-> asked.level, age |-> age, samples |-> 0]]
      /\ pending' = [pending EXCEPT ![k] =
           IF fires /\ c.active # asked.level THEN asked.level ELSE "nothing"]

(* A breach keeps its beginning while its level lasts.                     *)
Breach(k, asked) ==
  LET c     == cond[k]
      age   == IF c.breach = asked.level THEN c.age ELSE 0
      fires == age >= asked.hold
  IN  /\ cond' = [cond EXCEPT ![k] =
           [active  |-> IF fires THEN asked.level ELSE c.active,
            breach  |-> asked.level, age |-> age, samples |-> 0]]
      /\ pending' = [pending EXCEPT ![k] = IF fires THEN asked.level ELSE "nothing"]

(* Defect: healthy samples are compared but never counted.                 *)
Healthy_NeverCounts(k) ==
  LET c     == cond[k]
      fires == c.active # "none" /\ c.samples + 1 >= RequiredSamples(k)
  IN  /\ cond' = [cond EXCEPT ![k] =
           [active  |-> IF fires THEN "none" ELSE c.active,
            breach  |-> "none", age |-> 0,
            samples |-> IF fires THEN 0 ELSE c.samples]]
      /\ pending' = [pending EXCEPT ![k] = IF fires THEN "recover" ELSE "nothing"]

(* A healthy sample counts towards recovery only of an active condition.   *)
Healthy(k) ==
  LET c     == cond[k]
      n     == c.samples + 1
      fires == c.active # "none" /\ n >= RequiredSamples(k)
  IN  /\ cond' = [cond EXCEPT ![k] =
           [active  |-> IF fires THEN "none" ELSE c.active,
            breach  |-> "none", age |-> 0,
            samples |-> IF fires THEN 0
                        ELSE IF c.active # "none" THEN n ELSE c.samples]]
      /\ pending' = [pending EXCEPT ![k] = IF fires THEN "recover" ELSE "nothing"]

(* evaluate_metric_alerts for one metric, ending with its set_state.       *)
Evaluate(k) ==
  LET asked == Condition(k, sampled[k], cond[k].active)
  IN  /\ pc = "evaluate" /\ k \in todo
      /\ IF asked.level # "none" THEN Breach(k, asked) ELSE Healthy(k)
      /\ todo' = todo \ {k}
      /\ held' = [held EXCEPT ![k] =
           IF @.level = asked.level THEN @ ELSE [level |-> asked.level, age |-> 0]]
      /\ good' = [good EXCEPT ![k] =
           IF asked.level # "none" THEN 0 ELSE IF @ < 2 THEN @ + 1 ELSE 2]
      /\ UNCHANGED <<alerts, ignored, pc, sampled, clean, derived, crashes>>

(* Defect: alerts of excluded mount points are left open.                  *)
Derive_KeepsIgnored ==
  /\ pc = "evaluate" /\ todo = {}
  /\ pc' = "persist"
  /\ derived' = {k \in Keys : /\ alerts[k] # "none"
                              /\ \/ k \in ServiceKeys /\ sampled[k] = 1
                                 \/ clean /\ k \in StorageKeys /\ sampled[k] = Absent}
  /\ UNCHANGED <<cond, alerts, ignored, sampled, clean, todo, pending, crashes, history>>

(* _derived_recoveries reads the active rows: a healthy service, a         *)
(* filesystem absent from a clean scan, an excluded mount point.           *)
Derive ==
  /\ pc = "evaluate" /\ todo = {}
  /\ pc' = "persist"
  /\ derived' = {k \in Keys : /\ alerts[k] # "none"
                              /\ \/ k \in ServiceKeys /\ sampled[k] = 1
                                 \/ clean /\ k \in StorageKeys /\ sampled[k] = Absent
                                 \/ clean /\ k \in ignored}
  /\ UNCHANGED <<cond, alerts, ignored, sampled, clean, todo, pending, crashes, history>>

(* Defect: a row that is already open keeps its severity.                  *)
Persist_KeepsSeverity(k) ==
  /\ pc = "persist" /\ pending[k] # "nothing"
  /\ alerts' = [alerts EXCEPT ![k] =
       IF pending[k] = "recover" THEN "none"
       ELSE IF k \in ignored \/ @ # "none" THEN @ ELSE pending[k]]
  /\ pending' = [pending EXCEPT ![k] = "nothing"]
  /\ UNCHANGED <<cond, ignored, pc, sampled, clean, todo, derived, crashes, history>>

(* _persist_signals, one transaction per signal; an active signal of an    *)
(* excluded mount point is dropped.                                        *)
Persist(k) ==
  /\ pc = "persist" /\ pending[k] # "nothing"
  /\ alerts' = [alerts EXCEPT ![k] =
       IF pending[k] = "recover" THEN "none"
       ELSE IF k \in ignored THEN @ ELSE pending[k]]
  /\ pending' = [pending EXCEPT ![k] = "nothing"]
  /\ UNCHANGED <<cond, ignored, pc, sampled, clean, todo, derived, crashes, history>>

(* The derived recoveries come last in the list of signals.                *)
PersistDerived(k) ==
  /\ pc = "persist" /\ pending = Quiet /\ k \in derived
  /\ alerts' = [alerts EXCEPT ![k] = "none"]
  /\ derived' = derived \ {k}
  /\ UNCHANGED <<cond, ignored, pc, sampled, clean, todo, pending, crashes, history>>

(* Every signal of the collection has been applied.                        *)
Done == pc = "persist" /\ pending = Quiet /\ derived = {}

Finish ==
  /\ Done
  /\ pc' = "idle"
  /\ UNCHANGED <<cond, alerts, ignored, sampled, clean, todo, pending, derived,
                 crashes, history>>

(* The deadline kills the worker, or a transaction raises.                 *)
Crash ==
  /\ pc # "idle" /\ ~Done /\ crashes < MaxCrashes
  /\ crashes' = crashes + 1
  /\ pc' = "idle"
  /\ todo' = {} /\ pending' = Quiet /\ derived' = {}
  /\ UNCHANGED <<cond, alerts, ignored, sampled, clean, history>>

------------------------------------------------------------------------------
(* The world around the worker.                                            *)

(* A minute passes between two collections.                                *)
Tick ==
  /\ pc = "idle"
  /\ cond' = [k \in Keys |->
       IF cond[k].breach = "none" THEN cond[k]
       ELSE [cond[k] EXCEPT !.age = Older(@)]]
  /\ held' = [k \in Keys |-> [held[k] EXCEPT !.age = Older(@)]]
  /\ UNCHANGED <<alerts, ignored, work, crashes, good>>

(* The event daemon: service_failed and systemd_unit_failed open the alert *)
(* key of the service metric, whatever the condition state says.           *)
EventOpens(k, severity) ==
  /\ k \in ServiceKeys
  /\ alerts' = [alerts EXCEPT ![k] = severity]
  /\ UNCHANGED <<cond, ignored, work, crashes, history>>

(* The operator edits storage.ignore_alert_mountpoints; a worker loads the *)
(* configuration when it starts.                                           *)
Configure(k) ==
  /\ pc = "idle" /\ k \in StorageKeys
  /\ ignored' = IF k \in ignored THEN ignored \ {k} ELSE ignored \cup {k}
  /\ UNCHANGED <<cond, alerts, work, crashes, history>>

Collection == \E values \in [Keys -> 0..MaxValue \cup {Absent}], ok \in BOOLEAN :
                /\ \A k \in Keys : values[k] \in ValuesOf(k)
                /\ Collect(values, ok)

Next ==
  \/ Collection
  \/ \E k \in Keys : Evaluate(k) \/ Persist(k) \/ PersistDerived(k)
  \/ Derive
  \/ Finish
  \/ Crash
  \/ Tick
  \/ \E k \in Keys, s \in Severities : EventOpens(k, s)
  \/ \E k \in Keys : Configure(k)

(* The timers start a collection every minute and a started worker either  *)
(* runs to its end or is killed; time passes.                              *)
Fairness ==
  /\ WF_vars(Collection)
  /\ WF_vars(Derive)
  /\ WF_vars(Finish)
  /\ SF_vars(Tick)
  /\ \A k \in Keys : WF_vars(Evaluate(k)) /\ WF_vars(Persist(k))
                     /\ WF_vars(PersistDerived(k))

Spec     == Init /\ [][Next]_vars
FairSpec == Spec /\ Fairness

------------------------------------------------------------------------------
(* Properties.                                                             *)

TypeOK ==
  /\ cond \in [Keys -> CondStates]
  /\ alerts \in [Keys -> Levels]
  /\ ignored \subseteq StorageKeys
  /\ pc \in {"idle", "evaluate", "persist"}
  /\ sampled \in [Keys -> Int]
  /\ clean \in BOOLEAN
  /\ todo \subseteq Keys
  /\ pending \in [Keys -> Signals]
  /\ derived \subseteq Keys
  /\ crashes \in Nat
  /\ held \in [Keys -> [level : Levels, age : 0..Hold]]
  /\ good \in [Keys -> 0..2]

Confirmed(k) == LET asked == Condition(k, sampled[k], cond[k].active)
                IN  asked.level # "none" /\ held[k].age >= asked.hold

(* No alert opens or changes severity before the value has asked for that  *)
(* level in every sample since at least the hold of the level: a shorter   *)
(* breach, one interrupted by a healthy sample or by another level, or one *)
(* cut by a killed worker never counts (evaluate_metric_alerts).           *)
NoPrematureAlert ==
  \A k \in Keys : pending[k] \in Severities =>
    /\ held[k].level = pending[k]
    /\ pending[k] = "warning" /\ Kind[k] \in {"high", "link"} => held[k].age >= Hold

(* A metric closes its alert only after the value has crossed the          *)
(* hysteresis of the level that was active, and after the required number  *)
(* of consecutive healthy samples (two for links).                         *)
Crossed(k, v, level) ==
  LET threshold == IF level = "critical" THEN CriticalAt[k] ELSE WarningAt[k]
  IN  CASE Kind[k] = "high" -> v <= threshold - Hysteresis[k]
        [] Kind[k] = "low"  -> v >= threshold + Hysteresis[k]
        [] OTHER            -> v = 1
RecoveryIsEarned ==
  [][\A k \in Keys : pending[k] # "recover" /\ pending'[k] = "recover" =>
       /\ Crossed(k, sampled[k], cond[k].active)
       /\ good'[k] >= RequiredSamples(k)]_vars

(* Whatever was lost in earlier crashes, a collection that runs to its end *)
(* leaves every confirmed breach it saw visible as an active alert, at the *)
(* severity it asked for unless the event daemon wrote the row since:      *)
(* active conditions are signalled again on every sample.                  *)
BreachIsVisible ==
  Done => \A k \in Keys \ ignored :
    sampled[k] # Absent /\ Confirmed(k) =>
      /\ alerts[k] # "none"
      /\ k \notin ServiceKeys => alerts[k] = held[k].level

(* Without a crash the alerts table and the persisted alert conditions,    *)
(* two records written in separate transactions, agree at the end of every *)
(* collection for every key the collection sampled.                        *)
AlertTracksCondition ==
  Done /\ crashes = 0 => \A k \in Keys \ (ignored \cup ServiceKeys) :
    sampled[k] # Absent => alerts[k] = cond[k].active

(* A clean collection closes the alerts of unmounted filesystems and of    *)
(* excluded mount points, and opens none of the latter.                    *)
OtherEvidenceCloses ==
  Done /\ clean => \A k \in StorageKeys :
    (sampled[k] = Absent \/ k \in ignored) => alerts[k] = "none"

(* The documented recovery: once the value is healthy for the required     *)
(* samples, the collection that saw it leaves no active alert.             *)
RecoveryClosesAlert ==
  Done => \A k \in Keys \ ServiceKeys :
    sampled[k] # Absent /\ good[k] >= RequiredSamples(k) => alerts[k] = "none"

(* A link that stays down is eventually alerted, even across crashes.      *)
LinkDownIsAlerted ==
  \A k \in Keys : Kind[k] = "link" =>
    (<>[](sampled[k] = 0) => <>[](alerts[k] = "warning"))

(* An alert whose metric stays healthy is eventually closed for good.  A   *)
(* service needs the event daemon to stop opening it, and recovers even    *)
(* after crashes, since its recovery is derived again by each collection;  *)
(* the other metrics need their workers to survive.                        *)
HealthyIsClosed ==
  \A k \in Keys :
    LET ok     == sampled[k] # Absent /\ good[k] = 2
        closed == <>[](alerts[k] = "none")
    IN  /\ k \in ServiceKeys =>
             (<>[]ok /\ <>[][~\E s \in Severities : EventOpens(k, s)]_vars => closed)
        /\ k \notin ServiceKeys => (<>[]ok /\ [](crashes = 0) => closed)

(* Both: once a link stays down or a metric stays healthy, its alert comes  *)
(* to say so and goes on saying it.                                         *)
AlertsSettle == LinkDownIsAlerted /\ HealthyIsClosed

==============================================================================
