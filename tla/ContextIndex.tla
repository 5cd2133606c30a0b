----------------------------- MODULE ContextIndex -----------------------------
(* The derived timeline of context_index.py: a sync, started by a timer or   *)
(* by hand, copies the monitor's rows of a window that overlaps the previous *)
(* one into day files, moves metadata/last-sync.json, and publishes the      *)
(* directory through git, where somebody else may push too.                  *)
EXTENDS Integers, FiniteSets, FiniteSetsExt

CONSTANTS
  Syncs,       \* runs that may overlap
  Publishers,  \* those of them that publish
  Day,         \* length of a day
  First,       \* window of the first sync, 30 minutes
  Overlap,     \* overlap_minutes
  Backfill,    \* max_backfill_hours
  Asked,       \* lengths of the windows that --since-minutes asks for
  Cap,         \* _MAX_CONTEXT_ROWS, the rows that a window is cut to
  MaxLag,      \* how long after its timestamp a row can appear
  MaxTime, MaxRows, MaxForeign,  \* bounds
  MaxFaults    \* bound on deaths and on failed git commands

Never == -1
DayOf(t) == t \div Day

VARIABLES
  now,
  rows,       \* events of the monitor: id and timestamp
  timeline,   \* ids in the day files
  last,       \* window_end_utc of last-sync.json
  sync,       \* of each run
  commits,    \* ids in the committed files
  unpushed,   \* a local commit is not on the remote
  published,  \* ids on the remote
  tip, base,  \* foreign commits on the remote, and under the local ones
  excused,    \* history: ids that a window left out
  faults

git  == <<commits, unpushed, published, tip, base>>
vars == <<now, rows, timeline, last, sync, git, excused, faults>>

Idle == [pc |-> "idle", start |-> 0, end |-> 0, read |-> {}, kept |-> {}, days |-> {}]

Init ==
  /\ now = 0 /\ rows = {} /\ timeline = {} /\ last = Never
  /\ sync = [s \in Syncs |-> Idle]
  /\ commits = {} /\ unpushed = FALSE /\ published = {}
  /\ tip = 0 /\ base = 0
  /\ excused = {} /\ faults = 0

Fault == faults < MaxFaults /\ faults' = faults + 1
Goto(s, pc) == sync' = [sync EXCEPT ![s].pc = pc]

------------------------------------------------------------------------------
(* The monitor, the clock and the other user of the repository.             *)

(* The day files are replaced within a tick of the rows being read.         *)
Tick ==
  /\ now < MaxTime /\ now' = now + 1
  /\ \A s \in Syncs : sync[s].pc \notin {"load", "loaded"}
  /\ UNCHANGED <<rows, timeline, last, sync, git, excused, faults>>

Insert ==
  /\ Cardinality(rows) < MaxRows
  /\ \E lag \in 0..MaxLag :
       /\ lag <= now
       /\ rows' = rows \cup {[id |-> Cardinality(rows) + 1, at |-> now - lag]}
  /\ UNCHANGED <<now, timeline, last, sync, git, excused, faults>>

Foreign ==
  /\ tip < MaxForeign /\ tip' = tip + 1
  /\ UNCHANGED <<now, rows, timeline, last, sync, commits, unpushed, published, base,
                 excused, faults>>

------------------------------------------------------------------------------
(* ContextGitRepo.                                                          *)

Begin(s) ==
  /\ sync[s].pc = "idle"
  /\ Goto(s, IF s \in Publishers THEN "recover" ELSE "window")
  /\ UNCHANGED <<now, rows, timeline, last, git, excused, faults>>

(* commit: everything in the directory, if anything changed.                *)
Commit(s, next) ==
  /\ Goto(s, next)
  /\ commits' = timeline /\ unpushed' = (unpushed \/ commits # timeline)

(* reconcile: what a run left uncommitted is committed first.               *)
Recover(s) ==
  /\ sync[s].pc = "recover"
  /\ Commit(s, "fetch")
  /\ UNCHANGED <<now, rows, timeline, last, published, tip, base, excused, faults>>

(* fetch, and rebase or fast-forward onto what it brought.                  *)
Fetch(s) ==
  /\ sync[s].pc \in {"fetch", "refetch", "retry"}
  /\ base' = tip
  /\ Goto(s, CASE sync[s].pc = "fetch" -> "push" [] sync[s].pc = "refetch" -> "repush" [] OTHER -> "lastpush")
  /\ UNCHANGED <<now, rows, timeline, last, commits, unpushed, published, tip, excused, faults>>

Pushing == {"push", "repush", "lastpush"}

(* The remote takes the commits when they lie on its tip.                   *)
Push(s) ==
  /\ sync[s].pc \in Pushing /\ (unpushed => base = tip)
  /\ published' = (IF unpushed THEN commits ELSE published) /\ unpushed' = FALSE
  /\ Goto(s, IF sync[s].pc = "push" THEN "window" ELSE "idle")
  /\ UNCHANGED <<now, rows, timeline, last, commits, tip, base, excused, faults>>

(* A push that fails ends the run, but the one after a commit is repeated.   *)
PushFails(s) ==
  /\ sync[s].pc \in Pushing /\ unpushed
  /\ IF base # tip THEN UNCHANGED faults ELSE Fault
  /\ sync' = [sync EXCEPT ![s] = IF @.pc = "repush" THEN [@ EXCEPT !.pc = "retry"] ELSE Idle]
  /\ UNCHANGED <<now, rows, timeline, last, git, excused>>

(* A run is killed or one of its git commands times out.                    *)
Die(s) ==
  /\ sync[s].pc # "idle" /\ Fault
  /\ sync' = [sync EXCEPT ![s] = Idle]
  /\ UNCHANGED <<now, rows, timeline, last, git, excused>>

------------------------------------------------------------------------------
(* sync_context_index.                                                      *)

Start == IF last = Never THEN now - First ELSE Max({last - Overlap, now - Backfill})

(* monitor_records keeps the newest rows of a window.                       *)
Cut(S) == {T \in SUBSET S : /\ Cardinality(T) = Min({Cap, Cardinality(S)})
                            /\ \A x \in S \ T, y \in T : x.at <= y.at}
Between(from, to) == {r \in rows : r.at \in from..to}
IdsOf(S) == {r.id : r \in S}

(* The rows that no earlier window has passed and this one does not reach.  *)
PassedOver(from) == {r \in rows : r.at < from /\ (last = Never \/ r.at >= last - Overlap)}

(* Rows that the cut drops go from the day files too: the days of a window  *)
(* are replaced by what was read.                                           *)
Window(s) ==
  /\ sync[s].pc = "window"
  /\ \E from \in {Start} \cup {now - k : k \in Asked} : \E T \in Cut(Between(from, now)) :
       /\ sync' = [sync EXCEPT ![s] =
            [@ EXCEPT !.pc = "load", !.start = from, !.end = now, !.read = IdsOf(T),
                      !.days = {d \in 0..DayOf(MaxTime) : DayOf(from) <= d /\ d <= DayOf(now)}]]
       /\ excused' = excused \cup IdsOf(PassedOver(from) \cup (Between(from, now) \ T))
  /\ UNCHANGED <<now, rows, timeline, last, git, faults>>

OfDay(d) == IdsOf({r \in rows : DayOf(r.at) = d})

(* _write_day keeps the rows outside the window and merges those inside.    *)
LoadDay(s) ==
  /\ sync[s].pc = "load" /\ sync[s].days # {}
  /\ LET d == Min(sync[s].days)
     IN  sync' = [sync EXCEPT ![s] =
           [@ EXCEPT !.pc = "loaded",
              !.kept = (timeline \cap OfDay(d)) \ IdsOf(Between(sync[s].start, sync[s].end))]]
  /\ UNCHANGED <<now, rows, timeline, last, git, excused, faults>>

ReplaceDay(s) ==
  /\ sync[s].pc = "loaded"
  /\ LET d == Min(sync[s].days)
     IN  /\ timeline' = (timeline \ OfDay(d)) \cup sync[s].kept \cup (sync[s].read \cap OfDay(d))
         /\ sync' = [sync EXCEPT ![s] = [@ EXCEPT !.pc = "load", !.kept = {},
                                               !.days = sync[s].days \ {d}]]
  /\ UNCHANGED <<now, rows, last, git, excused, faults>>

(* last-sync.json is written last.                                          *)
Written(s) == sync[s].days = {}

Conclude(s) ==
  /\ sync[s].pc = "load" /\ Written(s)
  /\ last' = sync[s].end
  /\ sync' = [sync EXCEPT ![s] = IF s \in Publishers THEN [Idle EXCEPT !.pc = "commit"] ELSE Idle]
  /\ UNCHANGED <<now, rows, timeline, git, excused, faults>>

CommitAll(s) ==
  /\ sync[s].pc = "commit"
  /\ Commit(s, "refetch")
  /\ UNCHANGED <<now, rows, timeline, last, published, tip, base, excused, faults>>

Sync(s) ==
  \/ Begin(s) \/ Recover(s) \/ Fetch(s) \/ Push(s) \/ PushFails(s) \/ Window(s)
  \/ LoadDay(s) \/ ReplaceDay(s) \/ Conclude(s) \/ CommitAll(s)

Next == Tick \/ Insert \/ Foreign \/ \E s \in Syncs : Sync(s) \/ Die(s)
Spec == Init /\ [][Next]_vars

(* The timer starts a run every quarter of an hour.                         *)
FairSpec == Spec /\ \A s \in Syncs : WF_vars(Sync(s))

------------------------------------------------------------------------------
(* Properties.                                                              *)

TypeOK ==
  /\ now \in 0..MaxTime /\ last \in {Never} \cup 0..now
  /\ timeline \cup commits \cup published \subseteq 1..Cardinality(rows)
  /\ base <= tip /\ faults \in 0..MaxFaults

(* A row whose time the last window has passed is in the timeline or will be *)
(* in the next window: rows that appear late, overlapping runs of different  *)
(* windows and runs that die between two files lose nothing but what the     *)
(* length of a window (max_backfill_hours, --since-minutes) or its cut to    *)
(* the newest rows left out.                                                 *)
TimelineComplete ==
  \A r \in rows : r.at < last - Overlap => r.id \in timeline \cup excused

(* What the timeline gains and keeps is published in the end.               *)
TimelinePublished ==
  \A id \in 1..MaxRows : id \in timeline ~> id \in published \/ id \notin timeline

==============================================================================
