--------------------------- MODULE ResourceRescue ---------------------------
(* The pressure watcher of the event daemon and the dialog it opens in the
   operator's session (resource_rescue/watch.py, pressure.py, dialog.py).

   The watcher takes a sample, lets the Gate debounce, snooze and rate-limit
   it, starts the dialog's one-shot unit and records the gate in the database;
   the dialog is a process of its own, which the user, its timeout, the lock
   screen or the recovery ends; the watcher learns how at a later sample.
   Times are kept as ages and remainders, in ticks, so that no run of the
   model ends.  A reboot, which drops the recorded state, is left out. *)
EXTENDS Integers

CONSTANTS Kinds,            \* the pressures a sample can show: memory, disk, io
          Debounce,         \* debounce_seconds
          MinPopup,         \* minimum_popup_seconds
          Snooze,           \* snooze_seconds
          RecoverySamples,  \* recovery_samples
          MaxFaults         \* restarts and failed calls in one behaviour

VARIABLES host,      \* what a sample would show now
          unlocked,  \* session_unlocked of the operator
          unit,      \* the dialog's unit: its process, and whether the lock screen ended
                     \* the last one (status 3, the only one told apart)
          gate,      \* Gate.state in memory
          saved,     \* the 'incident' record in the database
          held,      \* Gate.pending and Gate.since: the signature seen, how long
          healthy,   \* Gate.healthy
          active,    \* whether the watcher believes the dialog open
          event,     \* the event of a sample that is not yet recorded
          owed,      \* history: a pressure recorded as pending, not yet offered
          quiet,     \* history: what the user dismissed, as the last sample showed it,
                     \* and the ticks it stays away
          faults

daemon == <<gate, held, healthy, active, event>>
vars == <<host, unlocked, unit, gate, saved, held, healthy, active, event,
          owed, quiet, faults>>

None == "none"
Pressures == [kind : Kinds, level : {1, 2}]
Clear == [kind |-> "healthy", level |-> 0]      \* clearly_healthy
Settling == [kind |-> "settling", level |-> 0]  \* below the thresholds only
Unknown == [kind |-> "unknown", level |-> 0]    \* level -1: data are missing
Samples == Pressures \cup {Clear, Settling, Unknown}
NoSig == [kind |-> None, level |-> 0]
NoHold == [sig |-> NoSig, age |-> 0]
NoQuiet == [left |-> 0, sig |-> NoSig]
Gates == [incident : BOOLEAN, pending : BOOLEAN, recap : BOOLEAN,
          kind : Kinds \cup {None, "healthy"}, level : 0..2,
          opened : 0..MinPopup, snooze : 0..Snooze]

Older(age, top) == IF age < top THEN age + 1 ELSE age
(* Defect: the remainder of a snooze runs below zero. *)
Less_BelowZero(left) == left - 1
Less(left) == IF left > 0 THEN left - 1 ELSE 0

TypeOK ==
  /\ host \in Samples /\ unlocked \in BOOLEAN
  /\ unit \in [run : {None, "loading", "shown"}, locked : BOOLEAN]
  /\ gate \in Gates /\ saved \in Gates
  /\ held \in [sig : Pressures \cup {NoSig}, age : 0..Debounce]
  /\ healthy \in 0..RecoverySamples /\ active \in BOOLEAN
  /\ event \in {None, "quiet", "unknown", "pending", "told"}
  /\ owed \in BOOLEAN
  /\ quiet \in [left : 0..Snooze, sig : Pressures \cup {NoSig}]
  /\ faults \in 0..MaxFaults

Init ==
  /\ host = Clear /\ unlocked \in BOOLEAN
  /\ unit = [run |-> None, locked |-> FALSE]
  /\ gate = [incident |-> FALSE, pending |-> FALSE, recap |-> FALSE,
             kind |-> None, level |-> 0, opened |-> MinPopup, snooze |-> 0]
  /\ saved = gate
  /\ held = NoHold /\ healthy = 0 /\ active = FALSE /\ event = None
  /\ owed = FALSE /\ quiet = NoQuiet
  /\ faults = 0

-----------------------------------------------------------------------------
(* The host, the session and the clock. *)

Weather == /\ \E s \in Samples \ {host} : host' = s
           /\ UNCHANGED <<unlocked, unit, daemon, saved, owed, quiet, faults>>

Session == /\ unlocked' = ~unlocked
           /\ UNCHANGED <<host, unit, daemon, saved, owed, quiet, faults>>

Aged(g) == [g EXCEPT !.opened = Older(@, MinPopup), !.snooze = Less(@)]

Tick ==
  /\ gate' = Aged(gate) /\ saved' = Aged(saved)
  /\ held' = [held EXCEPT !.age = IF held.sig = NoSig THEN 0 ELSE Older(@, Debounce)]
  /\ quiet' = IF quiet.left > 1 THEN [quiet EXCEPT !.left = @ - 1] ELSE NoQuiet
  /\ UNCHANGED <<host, unlocked, unit, healthy, active, event, owed, faults>>

-----------------------------------------------------------------------------
(* The dialog, a process of the operator's session. *)

DialogLoads ==
  /\ unit.run = "loading"
  /\ unit' = IF unlocked THEN [unit EXCEPT !.run = "shown"]
                         ELSE [run |-> None, locked |-> TRUE]
  /\ UNCHANGED <<host, unlocked, daemon, saved, owed, quiet, faults>>

(* Recovered, dismissed or timed out, or the session was locked. *)
DialogEnds ==
  /\ unit.run = "shown"
  /\ \E code \in {"2"} \cup (IF host = Clear THEN {"0"} ELSE {})
                       \cup (IF unlocked THEN {} ELSE {"3"}) :
       /\ unit' = [run |-> None, locked |-> code = "3"]
       /\ LET sig == [kind |-> gate.kind, level |-> gate.level]
          IN quiet' = IF code = "2" /\ active /\ sig \in Pressures
                      THEN [left |-> Snooze, sig |-> sig] ELSE NoQuiet
  /\ UNCHANGED <<host, unlocked, daemon, saved, owed, faults>>

DialogFails ==
  /\ faults < MaxFaults /\ faults' = faults + 1
  /\ unit.run = "loading" /\ unit' = [run |-> None, locked |-> FALSE]
  /\ UNCHANGED <<host, unlocked, daemon, saved, owed, quiet>>

-----------------------------------------------------------------------------
(* One sample of the watcher. *)

(* The unit is inactive: gate.dismissed, unless the lock screen ended it. *)
Noticed(g) ==
  IF ~active \/ unit.run # None THEN g
  ELSE IF unit.locked
       THEN [g EXCEPT !.pending = TRUE, !.opened = MinPopup, !.snooze = 0]
       ELSE [g EXCEPT !.snooze = Snooze]
StillActive == active /\ unit.run # None

Held == IF host \notin Pressures THEN NoHold
        ELSE IF held.sig = host THEN held ELSE [sig |-> host, age |-> 0]
Counted == IF host = Clear THEN Older(healthy, RecoverySamples) ELSE 0

Confirmed(h) == host.level = 2 \/ h.age >= Debounce
(* Defect: a pressure that stays as it was counts as worse. *)
Worsened_OrEqual(g) == host.level >= g.level \/ (g.kind # None /\ host.kind # g.kind)
Worsened(g) == host.level > g.level \/ (g.kind # None /\ host.kind # g.kind)
Marked(g) == [g EXCEPT !.incident = TRUE, !.kind = host.kind, !.level = host.level]
Waits(g) == g.opened < MinPopup

(* Gate.step for a pressure: the state after it and its event. *)
UnderPressure(g, h) ==
  IF ~Confirmed(h) THEN [state |-> g, event |-> "debounce"]
  ELSE IF ~unlocked THEN [state |-> [Marked(g) EXCEPT !.pending = TRUE],
                          event |-> "pending"]
  ELSE IF StillActive \/ (~Worsened(g) /\ g.snooze > 0) \/ Waits(g)
       THEN [state |-> Marked(g), event |-> "held"]
  ELSE [state |-> [Marked(g) EXCEPT !.opened = 0, !.pending = FALSE],
        event |-> "open"]

(* Defect: what was pending is forgotten with the pressure. *)
Recovered_Forgets(g) ==
  [g EXCEPT !.incident = FALSE, !.pending = FALSE, !.level = 0]
(* Gate.step for level 0, with the recap of what was pending that watch adds. *)
Recovered(g) ==
  [g EXCEPT !.incident = FALSE, !.pending = FALSE, !.level = 0,
            !.recap = @ \/ g.pending]
Relieved(g, n) ==
  LET ends == n >= RecoverySamples /\ g.incident
      r == IF ends THEN Recovered(g) ELSE g
  IN IF r.recap /\ unlocked /\ ~StillActive /\ r.snooze = 0 /\ ~Waits(r)
     THEN [state |-> [r EXCEPT !.recap = FALSE, !.opened = 0], event |-> "recap"]
     ELSE [state |-> r, event |-> IF ends THEN "recovered" ELSE "healthy"]

Stepped(g) ==
  IF host = Unknown THEN [state |-> g, event |-> "unknown"]
  ELSE IF host \in Pressures THEN UnderPressure(g, Held)
  ELSE Relieved(g, Counted)

(* What the record waits for: a pending one, one that must be told, one without
   data, any other. *)
Recorded(e) == IF e \in {"pending", "unknown"} THEN e
               ELSE IF e \in {"recovered", "recap"} \/ host \in Pressures THEN "told"
               ELSE "quiet"

(* A dismissal ends with the pressure, and with a worse one or one of another
   kind; a lower level is what it stands for from then on. *)
Quieted(e) ==
  IF e = "recovered" THEN NoQuiet
  ELSE IF host \notin Pressures THEN quiet
  ELSE IF host.kind = quiet.sig.kind /\ host.level <= quiet.sig.level
       THEN [quiet EXCEPT !.sig = host]
  ELSE NoQuiet

SampleStep(g) ==
  /\ event = None
  /\ held' = IF host = Unknown THEN held ELSE Held
  /\ healthy' = IF host = Unknown THEN healthy ELSE Counted
  /\ quiet' = Quieted(g.event)
  /\ UNCHANGED <<host, unlocked, saved>>

(* A sample that opens nothing. *)
Check ==
  LET g == Stepped(Noticed(gate))
  IN /\ SampleStep(g) /\ g.event \notin {"open", "recap"}
     /\ gate' = g.state /\ active' = StillActive
     /\ event' = Recorded(g.event)
     /\ UNCHANGED <<unit, owed, faults>>

(* systemctl start --no-block; on an active unit it does nothing. *)
Open ==
  LET g == Stepped(Noticed(gate))
  IN /\ SampleStep(g) /\ g.event \in {"open", "recap"}
     /\ gate' = g.state /\ active' = TRUE
     /\ event' = Recorded(g.event)
     /\ unit' = IF unit.run = None THEN [run |-> "loading", locked |-> FALSE] ELSE unit
     /\ owed' = FALSE
     /\ UNCHANGED faults

(* The unit cannot be started: treated as a dismissal, a recap is kept. *)
OpenFails ==
  LET g == Stepped(Noticed(gate))
  IN /\ faults < MaxFaults /\ faults' = faults + 1
     /\ SampleStep(g) /\ g.event \in {"open", "recap"}
     /\ gate' = [g.state EXCEPT !.snooze = Snooze, !.recap = @ \/ g.event = "recap"]
     /\ active' = FALSE /\ event' = Recorded(g.event)
     /\ owed' = (owed /\ g.event = "recap")
     /\ UNCHANGED unit

(* systemctl does not answer within its timeout: the sample ends there. *)
OpenTimesOut ==
  LET g == Stepped(Noticed(gate))
  IN /\ faults < MaxFaults /\ faults' = faults + 1
     /\ SampleStep(g) /\ g.event \in {"open", "recap"}
     /\ gate' = g.state /\ active' = FALSE /\ event' = None
     /\ owed' = FALSE
     /\ UNCHANGED unit

(* The record: the gate, under the kind and the level of the sample.  A sample of
   no pressure has a kind no pressure has and a level below every pressure's;
   that level -1 and level 0 differ nobody asks. *)
Record == LET risk == IF event = "unknown" \/ held.sig = NoSig THEN Clear ELSE held.sig
          IN [gate EXCEPT !.kind = risk.kind, !.level = risk.level]

(* db.set_state; a sample without news is recorded once a minute only. *)
Save ==
  /\ event # None /\ event' = None
  /\ \/ saved' = Record
     \/ event \in {"quiet", "unknown"} /\ UNCHANGED saved
  /\ owed' = (owed \/ event = "pending")
  /\ UNCHANGED <<host, unlocked, unit, gate, held, healthy, active, quiet, faults>>

SaveFails ==
  /\ faults < MaxFaults /\ faults' = faults + 1
  /\ event # None /\ event' = None
  /\ UNCHANGED <<host, unlocked, unit, gate, saved, held, healthy, active, owed, quiet>>

(* The record holds what the user dismissed, at the kind and a level that keep it
   away: it was written after the dialog's end was noticed, and beside a sample
   that still showed the pressure. *)
Remembered == /\ saved.snooze >= quiet.left
              /\ saved.kind = quiet.sig.kind /\ saved.level >= quiet.sig.level

(* The daemon restarts, at any point, on the recorded state. *)
Restart ==
  /\ faults < MaxFaults /\ faults' = faults + 1
  /\ gate' = saved /\ held' = NoHold /\ healthy' = 0
  /\ active' = FALSE /\ event' = None
  /\ quiet' = IF Remembered THEN quiet ELSE NoQuiet
  /\ UNCHANGED <<host, unlocked, unit, saved, owed>>

Next == Weather \/ Session \/ Tick \/ DialogLoads \/ DialogEnds \/ DialogFails
        \/ Check \/ Open \/ OpenFails \/ OpenTimesOut \/ Save \/ SaveFails \/ Restart
Spec == Init /\ [][Next]_vars

(* Time passes, the watcher's loop goes on, and a dialog ends: it has a timeout. *)
Fairness == /\ WF_vars(Tick) /\ WF_vars(Check \/ Open) /\ WF_vars(Save)
            /\ WF_vars(DialogLoads) /\ WF_vars(DialogEnds)
FairSpec == Spec /\ Fairness

-----------------------------------------------------------------------------
(* A dialog the user put off stays away for the snooze as long as no sample shows
   another kind of pressure or a higher level than the sample before, and the
   pressure does not end: neither the debounce of a flapping sample nor a recap
   brings it back, nor a restart of the daemon on a record that holds the
   dismissal.  A restart on any other record may: one written before the end was
   noticed, or beside a sample that showed no pressure or had no data. *)
DismissedStaysAway == [][Open => quiet'.left = 0]_vars

(* A pressure that was recorded as pending because nobody could see it is
   offered once the session stays unlocked and the pressure either stays or ends
   for good, across restarts of the daemon and dialogs that came in between;
   only a start that failed loses it. *)
PendingIsOffered ==
  /\ <>[]unlocked
  /\ <>[](host = Clear) \/ \E p \in Pressures : <>[](host = p)
  => [](owed => <>~owed)
=============================================================================
