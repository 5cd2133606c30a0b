------------------------------- MODULE KumaPn -------------------------------
(***************************************************************************)
(* The incident follower of capsules/kuma_pn_monitor: a timer run reads    *)
(* Uptime Kuma's heartbeat table over SSH from a persisted cursor, has an  *)
(* external writer record DOWN/UP transitions as incidents, and commits a  *)
(* checkpoint per monitor, with the cursor, after each heartbeat.          *)
(*                                                                         *)
(* The heartbeat table (log), the monitors and the writer's ledger belong  *)
(* to other programs.  The writer deduplicates heartbeat identities, as    *)
(* docs/human/kuma-pn-monitor.md says of it.  A run holds an exclusive     *)
(* lock, so there is one at a time.  Every failure of a run (the query,    *)
(* the project lookup, a lost receipt, a kill) is a Crash: the transaction *)
(* it interrupts is rolled back and the next timer run starts over.        *)
(* The checkpoint's monitor name and opening heartbeat are never read and  *)
(* are left out; a dry run works on a copy and records nothing.            *)
(***************************************************************************)
EXTENDS Integers, Sequences, FiniteSets

CONSTANTS
  Monitors,
  Batch,        \* BATCH_SIZE of the incremental query
  Grace,        \* RECOVERY_GRACE_SECONDS, in units of heartbeat time
  StartCursor,  \* cursor the state file starts with, NoCursor for none
  Legacy,       \* monitors whose checkpoint predates incident ids
  MaxBeats,     \* bound on heartbeats
  MaxGap,       \* bound on the time between two heartbeats
  MaxCrashes,   \* bound on failed runs
  MaxEdits      \* bound on pauses, resumes and deletions of monitors

NoCursor == -1

ASSUME BatchAssumption == Batch \in Nat \ {0}
ASSUME GraceAssumption == Grace \in Nat /\ MaxGap \in Nat
ASSUME StartAssumption == StartCursor \in {NoCursor, 0} /\ Legacy \subseteq Monitors
ASSUME LimitAssumption == MaxBeats \in Nat /\ MaxCrashes \in Nat /\ MaxEdits \in Nat

VARIABLES
  log,      \* Kuma's heartbeats, in the order of their ids
  active,   \* monitors that are not paused
  live,     \* monitors that have a row; the heartbeats of others are orphans
  gone,     \* deleted monitors whose heartbeats are deleted too
  ledger,   \* the writer's incident of each recorded heartbeat
  opened,   \* the heartbeat that opened each incident
  cursor,   \* cursor_state "heartbeat"
  cp,       \* monitor_checkpoint
  run,      \* the run in progress
  crashes, edits

kuma == <<log, active, live, gone>>
vars == <<kuma, ledger, opened, cursor, cp, run, crashes, edits>>

None     == 0                        \* no incident
NoTime   == -1                       \* no recovery time
Beats    == 1..Len(log)
Mon(h)   == log[h].mon
Recorded == DOMAIN ledger

Idle == [pc |-> "idle", todo |-> {}, top |-> 0, mark |-> 0, delta |-> FALSE, on |-> {}]

Init ==
  /\ log = <<>>
  /\ active = Monitors
  /\ live = Monitors
  /\ gone = {}
  /\ ledger = <<>>
  /\ opened = <<>>
  /\ cursor = StartCursor
  /\ cp = [m \in Monitors |->
       [last |-> 0, down |-> m \in Legacy, inc |-> None, rec |-> NoTime]]
  /\ run = Idle
  /\ crashes = 0
  /\ edits = 0

------------------------------------------------------------------------------
(* Uptime Kuma.                                                            *)

Now == IF log = <<>> THEN 0 ELSE log[Len(log)].time

Beat(m, status, gap) ==
  /\ m \in live \cap active /\ Len(log) < MaxBeats
  /\ log' = Append(log, [mon |-> m, status |-> status, time |-> Now + gap])
  /\ UNCHANGED <<active, live, gone, ledger, opened, cursor, cp, run, crashes, edits>>

Edit(pausing, remaining) ==
  /\ edits < MaxEdits /\ edits' = edits + 1
  /\ active' = pausing /\ live' = remaining
  /\ UNCHANGED <<log, gone, ledger, opened, cursor, cp, run, crashes>>

Pause(m)  == m \in active /\ Edit(active \ {m}, live)
Resume(m) == m \notin active /\ Edit(active \cup {m}, live)
Delete(m) == m \in live /\ Edit(active, live \ {m})

(* The heartbeats of a deleted monitor go with it or later, and the newest *)
(* id there is can decrease; the ids of deleted rows are not given again.  *)
Purge(m) ==
  /\ m \notin live \cup gone
  /\ gone' = gone \cup {m}
  /\ UNCHANGED <<log, active, live, ledger, opened, cursor, cp, run, crashes, edits>>

------------------------------------------------------------------------------
(* run_once.                                                               *)

Newest(S) == {h \in S : \A j \in S : j <= h}
Oldest(S) == {h \in S : \A j \in S : h <= j}

Rows      == {h \in Beats : Mon(h) \notin gone}
Watermark == IF Rows = {} THEN 0 ELSE CHOOSE h \in Newest(Rows) : TRUE

(* _DELTA_QUERY limits the batch before it joins the monitors.             *)
BatchRows ==
  {h \in Rows : cursor < h /\ Cardinality({j \in Rows : cursor < j /\ j < h}) < Batch}
BaseRows  == UNION {Newest({h \in Rows : Mon(h) = m}) : m \in Monitors}

Fetch ==
  /\ run.pc = "idle"
  /\ cursor <= Watermark
  /\ LET delta  == cursor # NoCursor
         rows   == IF delta THEN BatchRows ELSE BaseRows
         events == {h \in rows : Mon(h) \in live}
     IN  run' = [pc |-> "next", todo |-> events,
                 top |-> IF events = {} THEN 0 ELSE CHOOSE h \in Newest(events) : TRUE,
                 mark |-> Watermark, delta |-> delta, on |-> active]
  /\ UNCHANGED <<kuma, ledger, opened, cursor, cp, crashes, edits>>

(* "Kuma heartbeat IDs decreased": the run fails and leaves all as it is.  *)
Refuse ==
  /\ run.pc = "idle" /\ cursor > Watermark
  /\ UNCHANGED vars

Seen(h)  == h <= cp[Mon(h)].last
IsDown(h) == Mon(h) \in run.on /\ log[h].status = "down"
IsUp(h)   == Mon(h) \in run.on /\ log[h].status = "up"

(* Defect: every outage is a new incident.                                 *)
Opens_NoGrace(h) ==
  ~Seen(h) /\ IsDown(h) /\ (cp[Mon(h)].inc = None \/ ~cp[Mon(h)].down)

(* handle_event: what a heartbeat asks of the writer.                      *)
Opens(h) ==
  LET c == cp[Mon(h)]
  IN  /\ ~Seen(h) /\ IsDown(h)
      /\ \/ c.inc = None
         \/ ~c.down /\ c.rec # NoTime /\ log[h].time - c.rec >= Grace
Reopens(h) == ~Seen(h) /\ IsDown(h) /\ ~Opens(h) /\ ~cp[Mon(h)].down
Closes(h)  == ~Seen(h) /\ IsUp(h) /\ cp[Mon(h)].down /\ cp[Mon(h)].inc # None

(* The external writer answers a known heartbeat with its incident.        *)
Create(h) ==
  /\ run.pc = "next" /\ h \in Oldest(run.todo) /\ Opens(h)
  /\ IF h \in Recorded THEN UNCHANGED <<ledger, opened>>
     ELSE /\ opened' = Append(opened, h)
          /\ ledger' = [j \in Recorded \cup {h} |-> IF j = h THEN Len(opened) + 1 ELSE ledger[j]]
  /\ run' = [run EXCEPT !.pc = "commit"]
  /\ UNCHANGED <<kuma, cursor, cp, crashes, edits>>

Update(h) ==
  /\ run.pc = "next" /\ h \in Oldest(run.todo) /\ (Reopens(h) \/ Closes(h))
  /\ ledger' = [j \in Recorded \cup {h} |->
                  IF j \in Recorded THEN ledger[j] ELSE cp[Mon(h)].inc]
  /\ run' = [run EXCEPT !.pc = "commit"]
  /\ UNCHANGED <<kuma, opened, cursor, cp, crashes, edits>>

(* The checkpoint a heartbeat leaves.                                      *)
After(h) ==
  LET c == cp[Mon(h)]
  IN  IF Seen(h) THEN c
      ELSE IF IsDown(h)
      THEN [last |-> h, down |-> TRUE, rec |-> NoTime,
            inc |-> IF Opens(h) THEN ledger[h] ELSE c.inc]
      ELSE IF IsUp(h)
      THEN [c EXCEPT !.last = h, !.down = FALSE,
                     !.rec = IF Closes(h) THEN log[h].time ELSE @]
      ELSE [c EXCEPT !.last = h]

(* The transaction around handle_event, which only an incremental run      *)
(* makes move the cursor too.                                              *)
Commit(h) ==
  /\ h \in Oldest(run.todo)
  /\ \/ run.pc = "commit"
     \/ run.pc = "next" /\ ~Opens(h) /\ ~Reopens(h) /\ ~Closes(h)
  /\ cp' = [cp EXCEPT ![Mon(h)] = After(h)]
  /\ cursor' = IF run.delta THEN h ELSE cursor
  /\ run' = [run EXCEPT !.pc = "next", !.todo = @ \ {h}]
  /\ UNCHANGED <<kuma, ledger, opened, crashes, edits>>

(* Defect: the cursor jumps to the watermark although the batch was full.  *)
Finish_ToWatermark ==
  /\ run.pc = "next" /\ run.todo = {}
  /\ cursor' = run.mark
  /\ run' = Idle
  /\ UNCHANGED <<kuma, ledger, opened, cp, crashes, edits>>

(* Defect: the next heartbeat to read is stored as the last one read.      *)
Finish_OneFurther ==
  /\ run.pc = "next" /\ run.todo = {}
  /\ cursor' = run.mark + 1
  /\ run' = Idle
  /\ UNCHANGED <<kuma, ledger, opened, cp, crashes, edits>>

(* Defect: a batch without events does not move the cursor.                *)
Finish_Stuck ==
  /\ run.pc = "next" /\ run.todo = {}
  /\ cursor' = IF ~run.delta THEN run.mark ELSE IF run.top = 0 THEN cursor ELSE run.top
  /\ run' = Idle
  /\ UNCHANGED <<kuma, ledger, opened, cp, crashes, edits>>

(* The last transaction of a run; top is events[-1], 0 without events.     *)
Finish ==
  /\ run.pc = "next" /\ run.todo = {}
  /\ cursor' = IF ~run.delta \/ run.top = 0 \/ run.top >= run.mark
               THEN run.mark ELSE run.top
  /\ run' = Idle
  /\ UNCHANGED <<kuma, ledger, opened, cp, crashes, edits>>

Crash ==
  /\ run.pc # "idle" /\ crashes < MaxCrashes
  /\ crashes' = crashes + 1
  /\ run' = Idle
  /\ UNCHANGED <<kuma, ledger, opened, cursor, cp, edits>>

World ==
  \/ \E m \in Monitors, s \in {"down", "up", "pending"}, gap \in 0..MaxGap : Beat(m, s, gap)
  \/ \E m \in Monitors : Pause(m) \/ Resume(m) \/ Delete(m) \/ Purge(m)

Run == Fetch \/ Refuse \/ (\E h \in Beats : Create(h) \/ Update(h) \/ Commit(h)) \/ Finish

Next == World \/ Run \/ Crash

(* The user timer starts run after run.                                    *)
Spec     == Init /\ [][Next]_vars
FairSpec == Spec /\ WF_vars(Run)

------------------------------------------------------------------------------
(* Properties.                                                             *)

Checkpoints == [last : Beats \cup {0}, down : BOOLEAN,
                inc : DOMAIN opened \cup {None}, rec : Nat \cup {NoTime}]

TypeOK ==
  /\ log \in Seq([mon : Monitors, status : {"down", "up", "pending"}, time : Nat])
  /\ active \subseteq Monitors /\ live \subseteq Monitors /\ gone \subseteq Monitors \ live
  /\ Recorded \subseteq Beats /\ \A h \in Recorded : ledger[h] \in 1..Len(opened)
  /\ opened \in Seq(Beats)
  /\ cursor \in Beats \cup {0, NoCursor}
  /\ cp \in [Monitors -> Checkpoints]
  /\ run.pc \in {"idle", "next", "commit"}
  /\ run.todo \subseteq Beats
  /\ run.top \in Nat /\ run.mark \in Nat /\ run.delta \in BOOLEAN /\ run.on \subseteq Monitors
  /\ crashes \in Nat /\ edits \in Nat

(* While no monitor is deleted the cursor never moves past a heartbeat     *)
(* that no checkpoint has taken in: what a run fetched but did not commit  *)
(* is fetched again, whatever the batch limit, the pauses and the crashes. *)
NothingSkipped ==
  live = Monitors => \A h \in Beats : h <= cursor => h <= cp[Mon(h)].last

(* One outage is one incident: between the heartbeats that open two        *)
(* incidents of a monitor it was up for the grace period or longer.        *)
NoDuplicateEpisode ==
  \A i, j \in DOMAIN opened : i < j /\ Mon(opened[i]) = Mon(opened[j]) =>
    \E u \in opened[i]..opened[j] :
      /\ Mon(u) = Mon(opened[i]) /\ log[u].status = "up"
      /\ log[opened[j]].time - log[u].time >= Grace

(* What each monitor is known to be once a record counts as taken in, even *)
(* though its checkpoint is not committed yet.                             *)
TakenIn(m) ==
  LET ahead == {r \in Recorded : Mon(r) = m /\ r > cp[m].last}
      r     == CHOOSE j \in ahead : TRUE
  IN  IF ahead = {} THEN cp[m]
      ELSE [last |-> r, down |-> log[r].status = "down", inc |-> ledger[r],
            rec |-> IF log[r].status = "down" THEN NoTime ELSE log[r].time]

Outage == INSTANCE KumaOutage WITH state <- [m \in Monitors |-> TakenIn(m)]

(* From an initial cursor on, and while no monitor is paused or deleted,   *)
(* every heartbeat is recorded in order and exactly once, although the     *)
(* record and the checkpoint are written by two programs and a run can die *)
(* between them.                                                           *)
ExactlyOnce == Outage!Spec

(* Once the heartbeats cease the cursor reaches the newest there is, and,  *)
(* if no monitor was edited, the follower knows how each monitor ended.    *)
LastKnown(m) ==
  \A h \in Newest({j \in Beats : Mon(j) = m}) :
    log[h].status # "pending" => cp[m].down = (log[h].status = "down")
CatchesUp ==
  /\ <>[](cursor >= Watermark)
  /\ [](edits = 0) => <>[](\A m \in Monitors : LastKnown(m))

==============================================================================
