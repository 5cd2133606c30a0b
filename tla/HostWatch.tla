----------------------------- MODULE HostWatch -----------------------------
(***************************************************************************)
(* Collectors that look at the host again and again and remember what they *)
(* saw: the kernel journal of this boot, searched over a stretch that      *)
(* overlaps the one before and remembered up to a limit, the temperature   *)
(* series pinned to the sensor that had the name first, and the last       *)
(* success of a oneshot service, converted from a clock that stops while   *)
(* the host sleeps and remembered across the reboot that makes systemd     *)
(* forget it.  One collection reads all three; it can lose its events by   *)
(* dying, or miss one source that does not answer.                         *)
(***************************************************************************)
EXTENDS Naturals, FiniteSetsExt

CONSTANTS
  Period, Slack,   \* collections are at least Period and at most Period + Slack apart
  Lookback,        \* how far back the journal is searched
  Memory,          \* how many entries are remembered as returned
  Fresh,           \* the age up to which a success of the service counts
  Sensors,         \* sensors that share one chip and label
  MaxTime, MaxFaults   \* bounds

VARIABLES
  now, ran,        \* the time, and that of the last collection that succeeded
  up,              \* the monotonic clock: how long the host has been awake
  entries, older,  \* times the kernel logged an I/O error at; those of other boots
  listed,          \* journal.io.seen
  found,           \* entry -> how often it was returned as an event
  missed,          \* ghost: entries in the way of a death, a failed search, a
                   \* reboot or a sleep, none of which the code makes up for
  pin,             \* temperature.identity: the sensor that owns the plain name
  samples,         \* ghost: <<series, sensor>> of every sample taken
  unit,            \* the oneshot: its state, its exit on the monotonic clock, or 0
                   \* if this boot knows none, and the true time of it
  wall,            \* last_success_wall_epoch of services.runtime, or 0
  stood,           \* ghost: the successes that stood at a collection
  judged,          \* the last verdict on its freshness: when, on which state, which
  faults

journal == <<entries, older, listed, found, missed>>
sensing == <<pin, samples>>
service == <<unit, wall, stood, judged>>
vars == <<now, ran, up, journal, sensing, service, faults>>

Unpinned == "unpinned"

UnitStates == {"success", "failed", "running"}

-----------------------------------------------------------------------------
Init ==
  /\ now = 1 /\ ran = 1 /\ up = 1
  /\ entries = {} /\ older = {} /\ listed = {} /\ missed = {}
  /\ found = [t \in 1..MaxTime |-> 0]
  /\ pin = Unpinned /\ samples = {}
  /\ unit = [state |-> "success", exit |-> 0, at |-> 0]
  /\ wall = 0 /\ stood = {}
  /\ judged = [at |-> 0, up |-> 0, state |-> "running", fresh |-> FALSE]
  /\ faults = 0

\* collect_journal_io: the entries of this boot that the stretch covers.
Within(t) == t \notin older /\ t + Lookback >= now

\* new_seen[-1000:]: a set in the order of its hashes, then what is new in the
\* order of the journal, so the cut takes any of the old before the first new.
Remembered(new) ==
  {kept \in SUBSET (listed \cup new) :
     /\ Cardinality(kept) = Min({Memory, Cardinality(listed \cup new)})
     /\ new \subseteq kept \/ kept \subseteq new
     /\ \A x \in new \ kept, y \in new \cap kept : x < y}

Search(answers, dies) ==
  LET new == {t \in entries : Within(t)} \ listed
  IN IF answers
     THEN /\ listed' \in Remembered(new)
          /\ found' = [t \in DOMAIN found |->
                         IF t \in new /\ ~dies THEN found[t] + 1 ELSE found[t]]
          /\ missed' = IF dies THEN missed \cup new ELSE missed
     ELSE /\ missed' = missed \cup new
          /\ UNCHANGED <<listed, found>>

\* collect_temperatures: the first sensor in the order of the class owns the
\* plain name if nobody did, and keeps it when it is absent.
Owner(first) == IF pin = Unpinned THEN first ELSE pin

\* The plain name, or the name with the sensor.
Series(owner, s) == IF s = owner THEN <<>> ELSE <<s>>

Sense(present, first) ==
  IF present = {} THEN UNCHANGED sensing
  ELSE /\ first \in present
       /\ pin' = Owner(first)
       /\ samples' = samples \cup {<<Series(Owner(first), s), s>> : s \in present}

\* collect_services, for one oneshot with a freshness limit.
Succeeded == unit.state = "success" /\ unit.exit > 0

LastSuccess == IF Succeeded THEN now - (up - unit.exit) ELSE wall

Serve(answers) ==
  /\ IF answers
     THEN /\ wall' = LastSuccess
          /\ stood' = stood \cup (IF Succeeded THEN {[at |-> unit.at, up |-> unit.exit]} ELSE {})
          /\ judged' = [at |-> now, up |-> up, state |-> unit.state,
                        fresh |-> /\ unit.state \in {"success", "running"}
                                  /\ LastSuccess > 0 /\ LastSuccess + Fresh >= now]
     ELSE wall' = 0 /\ stood' = {} /\ UNCHANGED judged
  /\ UNCHANGED unit

Faulty(answers, served, dies) == ~answers \/ ~served \/ dies

Collect(answers, served, dies, present, first) ==
  /\ now - ran >= Period
  /\ Faulty(answers, served, dies) => faults < MaxFaults
  /\ Search(answers, dies)
  /\ Sense(present, first)
  /\ Serve(served)
  /\ ran' = IF dies THEN ran ELSE now
  /\ faults' = IF Faulty(answers, served, dies) THEN faults + 1 ELSE faults
  /\ UNCHANGED <<now, up, entries, older>>

\* Time passes; the timer does not let a collection wait longer than the slack.
Tick ==
  /\ now < MaxTime /\ now - ran < Period + Slack
  /\ now' = now + 1 /\ up' = up + 1
  /\ UNCHANGED <<ran, journal, sensing, service, faults>>

\* The host sleeps: no timer runs, and the monotonic clock stands still.
Sleep ==
  /\ now < MaxTime
  /\ now' = now + 1
  /\ missed' = missed \cup {t \in entries \ listed : t + Lookback < now'}
  /\ UNCHANGED <<ran, up, entries, older, listed, found, sensing, service, faults>>

LogError ==
  /\ now \notin entries
  /\ entries' = entries \cup {now}
  /\ UNCHANGED <<now, ran, up, older, listed, found, missed, sensing, service, faults>>

Run(to) ==
  /\ (to = "running") = (unit.state # "running")
  /\ unit' = IF to = "running" THEN [state |-> to, exit |-> 0, at |-> 0]
                                ELSE [state |-> to, exit |-> up, at |-> now]
  /\ UNCHANGED <<now, ran, up, journal, sensing, wall, stood, judged, faults>>

\* systemd and journalctl -b forget the boot before.
Reboot ==
  /\ unit' = [state |-> "success", exit |-> 0, at |-> 0]
  /\ older' = entries /\ missed' = missed \cup (entries \ listed)
  /\ UNCHANGED <<now, ran, up, entries, listed, found, sensing, wall, stood, judged, faults>>

Next ==
  \/ \E answers, served, dies \in BOOLEAN, present \in SUBSET Sensors, first \in Sensors :
       Collect(answers, served, dies, present, first)
  \/ Tick \/ Sleep \/ LogError \/ (\E to \in UnitStates : Run(to)) \/ Reboot

Spec == Init /\ [][Next]_vars

-----------------------------------------------------------------------------
TypeOK ==
  /\ now \in 1..MaxTime /\ ran \in 1..now /\ up \in 1..now /\ faults \in 0..MaxFaults
  /\ entries \subseteq 1..MaxTime /\ older \subseteq entries
  /\ listed \subseteq entries /\ missed \subseteq entries
  /\ found \in [1..MaxTime -> Nat]
  /\ pin \in Sensors \cup {Unpinned} /\ samples \subseteq ({<<>>} \cup {<<s>> : s \in Sensors}) \X Sensors
  /\ unit \in [state : UnitStates, exit : 0..MaxTime, at : 0..MaxTime]
  /\ wall \in 0..MaxTime /\ stood \subseteq [at : 1..MaxTime, up : 1..MaxTime]
  /\ judged.at \in 0..MaxTime /\ judged.up \in 0..MaxTime /\ judged.fresh \in BOOLEAN

\* An I/O error in the kernel journal becomes an event: stretches overlap far
\* enough that none falls between two collections of a boot; and as long as
\* there are no more of them than are remembered, what two stretches cover is
\* returned once (collect_journal_io).
ErrorsFoundOnce ==
  /\ \A t \in entries \ missed : t < ran => found[t] >= 1
  /\ Cardinality(entries) <= Memory => \A t \in entries : found[t] <= 1

\* The samples of one series come from one sensor and those of one sensor go to
\* one series, whatever the order of the class directory and whichever sensors
\* are absent (_temperature_series).
SeriesKeepTheirSensor == \A x, y \in samples : x[1] = y[1] <=> x[2] = y[2]

\* The verdict on a oneshot, also while it runs again and after a reboot that
\* made systemd forget it: fresh if it did not fail and a success that stood at
\* a collection lies within the limit; and never fresh after a failure, or when
\* the host has been awake for longer than the limit since every such success.
\* Between the two lies a success before a suspend, which looks younger than it
\* is.  A query that fails drops what was remembered (collect_services).
FreshnessIsRemembered ==
  stood # {} =>
    /\ judged.state # "failed" /\ (\E t \in stood : t.at + Fresh >= judged.at) => judged.fresh
    /\ judged.fresh => /\ judged.state # "failed"
                       /\ \E t \in stood : t.up + Fresh >= judged.up
=============================================================================
