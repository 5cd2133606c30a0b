---------------------------- MODULE JournalImport ----------------------------
(***************************************************************************)
(* From the systemd journal to the events table and the alerts it opens.   *)
(*                                                                         *)
(* The event daemon follows the journal: per classified entry it inserts   *)
(* the event, evaluates its alert and moves its cursor, in three           *)
(* transactions (_consume_journal_line).  The backfill command, run by the *)
(* installer, consolidates the table and replays the journal of the last   *)
(* week, and remembers each entry it imported by its immutable cursor.     *)
(* Both insert through insert_events, which coalesces repeats of a key     *)
(* inside a time window.  A first installation enables the daemon after    *)
(* its backfill; an upgrade backfills beside the running daemon.           *)
(*                                                                         *)
(* Entries are numbered in journal order, which is the order of cursors.   *)
(* Their realtime stamps may jump back (docs/ai/PROJECT.md, RISK.rtc).     *)
(* Only classified entries are in the model: the others change nothing.    *)
(* All of them lie within the week.                                        *)
(***************************************************************************)
EXTENDS Integers, Sequences, FiniteSets, FiniteSetsExt

CONSTANTS
  Keys,          \* event dedup keys
  AlertKeys,     \* those whose events open an alert
  Window,        \* dedup_window_seconds
  Gaps,          \* differences between the stamps of consecutive entries
  Lookback,      \* journal_lookback_seconds
  MaxEntries,    \* bound on journal entries
  MaxCrashes,    \* bound on daemon and backfill deaths
  MaxMisses,     \* bound on daemon starts that find the cursor invalid
  MaxBackfills   \* bound on backfill commands

ASSUME KeysAssumption == AlertKeys \subseteq Keys
ASSUME WindowAssumption == Window \in Nat /\ Lookback \in Nat /\ Gaps \subseteq Int
ASSUME BoundAssumption ==
  MaxEntries \in Nat /\ MaxCrashes \in Nat /\ MaxMisses \in Nat /\ MaxBackfills \in Nat

VARIABLES
  journal,   \* the classified entries: a key and a realtime stamp
  rows,      \* the events table: row id -> row
  dedup,     \* dedup_state namespace "event": the row and stamp last seen
  seen,      \* dedup_state namespace "journal_cursor"
  cursor,    \* dedup_state "journal_cursor" of the daemon, 0 for none
  alerts,    \* keys with an active alert
  enabled,   \* the daemon's service is enabled
  live,      \* the daemon
  fill,      \* the backfill command
  crashes, misses, fills,
  imported,  \* history: entries inserted at least once
  signalled, \* history: alert entries whose signal was applied
  passed     \* history: entries a start without a cursor passed over

table   == <<rows, dedup>>
bounds  == <<crashes, misses, fills>>
history == <<imported, signalled, passed>>
vars    == <<journal, table, seen, cursor, alerts, enabled, live, fill, bounds, history>>

Entries == 1..Len(journal)
Down == [pc |-> "down", at |-> 0]
Over == [pc |-> "over", at |-> 0, upto |-> 0, signals |-> <<>>]

Init ==
  /\ journal = <<>>
  /\ rows = <<>>
  /\ dedup = [k \in Keys |-> [row |-> 0, last |-> 0]]
  /\ seen = {} /\ cursor = 0 /\ alerts = {}
  /\ enabled \in BOOLEAN /\ live = Down /\ fill = Over
  /\ crashes = 0 /\ misses = 0 /\ fills = 0
  /\ imported = {} /\ signalled = {} /\ passed = {}

Latest == IF journal = <<>> THEN 0 ELSE journal[Len(journal)].time

Log(k, gap) ==
  /\ Len(journal) < MaxEntries
  /\ journal' = Append(journal, [key |-> k, time |-> Latest + gap])
  /\ UNCHANGED <<table, seen, cursor, alerts, enabled, live, fill, bounds, history>>

(* id is an INTEGER PRIMARY KEY without AUTOINCREMENT: SQLite takes the     *)
(* number after the highest row there is.                                  *)
NewRow == Max(DOMAIN rows \cup {0}) + 1

(* Defect: an event at the very end of the window is a new row.            *)
Insert_Strict(i) ==
  LET e   == journal[i]
      d   == dedup[e.key]
      gap == e.time - d.last
      repeated == d.row \in DOMAIN rows /\ 0 <= gap /\ gap < Window
      id  == IF repeated THEN d.row ELSE NewRow
  IN  /\ rows' = [r \in DOMAIN rows \cup {id} |->
           IF r # id THEN rows[r]
           ELSE IF repeated
           THEN [rows[id] EXCEPT !.count = @ + 1, !.last = e.time, !.entry = i]
           ELSE [key |-> e.key, count |-> 1, first |-> e.time, last |-> e.time, entry |-> i]]
      /\ dedup' = [dedup EXCEPT ![e.key] = [row |-> id, last |-> e.time]]
      /\ imported' = imported \cup {i}

(* insert_events for the event of one entry.                               *)
Insert(i) ==
  LET e   == journal[i]
      d   == dedup[e.key]
      gap == e.time - d.last
      repeated == d.row \in DOMAIN rows /\ 0 <= gap /\ gap <= Window
      id  == IF repeated THEN d.row ELSE NewRow
  IN  /\ rows' = [r \in DOMAIN rows \cup {id} |->
           IF r # id THEN rows[r]
           ELSE IF repeated
           THEN [rows[id] EXCEPT !.count = @ + 1, !.last = e.time, !.entry = i]
           ELSE [key |-> e.key, count |-> 1, first |-> e.time, last |-> e.time, entry |-> i]]
      /\ dedup' = [dedup EXCEPT ![e.key] = [row |-> id, last |-> e.time]]
      /\ imported' = imported \cup {i}

(* evaluate_event_alerts and _persist_signals: events only open alerts.    *)
Signal(i) ==
  IF journal[i].key \in AlertKeys
  THEN alerts' = alerts \cup {journal[i].key} /\ signalled' = signalled \cup {i}
  ELSE UNCHANGED <<alerts, signalled>>

------------------------------------------------------------------------------
(* stream_journal.                                                         *)

(* A stored cursor is resumed behind its entry.                            *)
Start ==
  /\ enabled /\ live = Down /\ cursor # 0
  /\ live' = [pc |-> "read", at |-> cursor]
  /\ UNCHANGED <<journal, table, seen, cursor, alerts, enabled, fill, bounds, history>>

(* How many entries journalctl passes over that reads since a lookback     *)
(* before now.                                                             *)
Older(now) == Cardinality({i \in Entries : \A j \in 1..i : journal[j].time < now - Lookback})

(* Without a cursor, or when _cursor_is_valid fails or times out on it,    *)
(* the daemon reads a recent stretch of the journal instead.               *)
StartOver(now) ==
  /\ enabled /\ live = Down
  /\ cursor # 0 => misses < MaxMisses
  /\ misses' = IF cursor # 0 THEN misses + 1 ELSE misses
  /\ live' = [pc |-> "read", at |-> Older(now)]
  /\ passed' = passed \cup (cursor + 1)..Older(now)
  /\ UNCHANGED <<journal, table, seen, cursor, alerts, enabled, fill, crashes, fills,
                 imported, signalled>>

(* Defect: an entry stamped before the previous one is never inserted.     *)
LiveInsert_InOrder ==
  /\ live.pc = "read" /\ live.at < Len(journal)
  /\ live.at > 0 => journal[live.at].time <= journal[live.at + 1].time
  /\ Insert(live.at + 1)
  /\ live' = [pc |-> "alert", at |-> live.at + 1]
  /\ UNCHANGED <<journal, seen, cursor, alerts, enabled, fill, bounds, signalled, passed>>

LiveInsert ==
  /\ live.pc = "read" /\ live.at < Len(journal)
  /\ Insert(live.at + 1)
  /\ live' = [pc |-> "alert", at |-> live.at + 1]
  /\ UNCHANGED <<journal, seen, cursor, alerts, enabled, fill, bounds, signalled, passed>>

(* Defect: the alert of an entry is left to the next start.                *)
LiveAlert_Skips ==
  /\ live.pc = "alert"
  /\ live' = [live EXCEPT !.pc = "mark"]
  /\ UNCHANGED <<journal, table, seen, cursor, alerts, enabled, fill, bounds, history>>

LiveAlert ==
  /\ live.pc = "alert"
  /\ Signal(live.at)
  /\ live' = [live EXCEPT !.pc = "mark"]
  /\ UNCHANGED <<journal, table, seen, cursor, enabled, fill, bounds, imported, passed>>

(* Defect: the cursor of the entry to read next is stored.                 *)
LiveMark_Next ==
  /\ live.pc = "mark"
  /\ cursor' = live.at + 1
  /\ live' = [live EXCEPT !.pc = "read"]
  /\ UNCHANGED <<journal, table, seen, alerts, enabled, fill, bounds, history>>

(* "never advance the cursor until the event insert has completed"         *)
LiveMark ==
  /\ live.pc = "mark"
  /\ cursor' = live.at
  /\ live' = [live EXCEPT !.pc = "read"]
  /\ UNCHANGED <<journal, table, seen, alerts, enabled, fill, bounds, history>>

LiveCrash ==
  /\ live # Down /\ crashes < MaxCrashes
  /\ crashes' = crashes + 1
  /\ live' = Down
  /\ UNCHANGED <<journal, table, seen, cursor, alerts, enabled, fill, misses, fills, history>>

------------------------------------------------------------------------------
(* _backfill.                                                              *)

(* consolidate_journal_events: rows that carry the same entry become one,  *)
(* and the entries the table names count as imported.  Its second merge,   *)
(* of rows equal in every detail, finds none among rows of the journal.    *)
Twins(r) == {j \in DOMAIN rows : rows[j].entry = rows[r].entry}
Merged(r) == [rows[r] EXCEPT
  !.count = MapThenSumSet(LAMBDA j : rows[j].count, Twins(r)),
  !.first = Min({rows[j].first : j \in Twins(r)}),
  !.last  = Max({rows[j].last : j \in Twins(r)})]

(* Defect: the identities of merged rows are not seeded.                   *)
Consolidate_NoSeed ==
  /\ fill = Over /\ fills < MaxBackfills
  /\ fills' = fills + 1
  /\ rows' = [r \in {j \in DOMAIN rows : j = Min(Twins(j))} |-> Merged(r)]
  /\ fill' = [Over EXCEPT !.pc = "query"]
  /\ UNCHANGED <<journal, dedup, seen, cursor, alerts, enabled, live, crashes, misses, history>>

Consolidate ==
  /\ fill = Over /\ fills < MaxBackfills
  /\ fills' = fills + 1
  /\ rows' = [r \in {j \in DOMAIN rows : j = Min(Twins(j))} |-> Merged(r)]
  /\ seen' = seen \cup {rows[r].entry : r \in DOMAIN rows}
  /\ fill' = [Over EXCEPT !.pc = "query"]
  /\ UNCHANGED <<journal, dedup, cursor, alerts, enabled, live, crashes, misses, history>>

(* journalctl prints what the journal holds at this moment.                *)
Query ==
  /\ fill.pc = "query"
  /\ fill' = [fill EXCEPT !.pc = "check", !.upto = Len(journal)]
  /\ UNCHANGED <<journal, table, seen, cursor, alerts, enabled, live, bounds, history>>

(* Defect: an entry is marked before it is inserted.                       *)
FillCheck_MarksFirst ==
  /\ fill.pc = "check" /\ fill.at < fill.upto
  /\ fill' = [fill EXCEPT !.at = @ + 1, !.pc = IF fill.at + 1 \in seen THEN "check" ELSE "insert"]
  /\ seen' = seen \cup {fill.at + 1}
  /\ UNCHANGED <<journal, table, cursor, alerts, enabled, live, bounds, history>>

(* Defect: the replay does not ask whether an entry was imported.          *)
FillCheck_Blind ==
  /\ fill.pc = "check" /\ fill.at < fill.upto
  /\ fill' = [fill EXCEPT !.at = @ + 1, !.pc = "insert"]
  /\ UNCHANGED <<journal, table, seen, cursor, alerts, enabled, live, bounds, history>>

FillCheck ==
  /\ fill.pc = "check" /\ fill.at < fill.upto
  /\ fill' = [fill EXCEPT !.at = @ + 1, !.pc = IF fill.at + 1 \in seen THEN "check" ELSE "insert"]
  /\ UNCHANGED <<journal, table, seen, cursor, alerts, enabled, live, bounds, history>>

FillInsert ==
  /\ fill.pc = "insert"
  /\ Insert(fill.at)
  /\ fill' = [fill EXCEPT !.pc = "mark"]
  /\ UNCHANGED <<journal, seen, cursor, alerts, enabled, live, bounds, signalled, passed>>

FillMark ==
  /\ fill.pc = "mark"
  /\ seen' = seen \cup {fill.at}
  /\ fill' = [fill EXCEPT !.pc = "check", !.signals = Append(@, fill.at)]
  /\ UNCHANGED <<journal, table, cursor, alerts, enabled, live, bounds, history>>

(* The signals of all entries are persisted after the last one.            *)
FillSignal ==
  /\ fill.pc = "check" /\ fill.at = fill.upto /\ fill.signals # <<>>
  /\ Signal(Head(fill.signals))
  /\ fill' = [fill EXCEPT !.signals = Tail(@)]
  /\ UNCHANGED <<journal, table, seen, cursor, enabled, live, bounds, imported, passed>>

FillEnd ==
  /\ fill.pc = "check" /\ fill.at = fill.upto /\ fill.signals = <<>>
  /\ fill' = Over
  /\ UNCHANGED <<journal, table, seen, cursor, alerts, enabled, live, bounds, history>>

FillCrash ==
  /\ fill # Over /\ crashes < MaxCrashes
  /\ crashes' = crashes + 1
  /\ fill' = Over
  /\ UNCHANGED <<journal, table, seen, cursor, alerts, enabled, live, misses, fills, history>>

(* install.sh enables and starts the daemon once its backfill has ended.   *)
Enable ==
  /\ ~enabled /\ fill = Over /\ fills > 0
  /\ enabled' = TRUE
  /\ UNCHANGED <<journal, table, seen, cursor, alerts, live, fill, bounds, history>>

(* Other evidence recovers an alert: a clean journal window, a mount.      *)
Recover(k) ==
  /\ k \in alerts
  /\ alerts' = alerts \ {k}
  /\ UNCHANGED <<journal, table, seen, cursor, enabled, live, fill, bounds, history>>

Daemon   == Start \/ (\E now \in Latest..Latest + Lookback + 1 : StartOver(now))
            \/ LiveInsert \/ LiveAlert \/ LiveMark
Backfill == Consolidate \/ Query \/ FillCheck \/ FillInsert \/ FillMark \/ FillSignal \/ FillEnd

Next ==
  \/ \E k \in Keys, gap \in Gaps : Log(k, gap)
  \/ Daemon \/ LiveCrash
  \/ Backfill \/ FillCrash \/ Enable
  \/ \E k \in Keys : Recover(k)

(* systemd restarts the daemon, and it reads on.                           *)
Spec     == Init /\ [][Next]_vars
FairSpec == Spec /\ WF_vars(Daemon)

------------------------------------------------------------------------------
(* Properties.                                                             *)

RowType == [key : Keys, count : Nat, first : Int, last : Int, entry : Entries]
TypeOK ==
  /\ journal \in Seq([key : Keys, time : Int])
  /\ DOMAIN rows \subseteq Nat \ {0} /\ \A r \in DOMAIN rows : rows[r] \in RowType
  /\ dedup \in [Keys -> [row : Nat, last : Int]]
  /\ seen \subseteq Entries /\ cursor \in Entries \cup {0}
  /\ alerts \subseteq AlertKeys
  /\ live \in [pc : {"down", "read", "alert", "mark"}, at : 0..Len(journal)]
  /\ fill.pc \in {"over", "query", "check", "insert", "mark"}
  /\ fill.at \in 0..fill.upto /\ fill.upto \in 0..Len(journal)
  /\ fill.signals \in Seq(Entries)
  /\ imported \cup signalled \cup passed \subseteq Entries

Count(k) == MapThenSumSet(LAMBDA r : rows[r].count, {j \in DOMAIN rows : rows[j].key = k})
Imported(k) == {i \in imported : journal[i].key = k}

(* The daemon loses nothing: every entry up to its cursor is in the table  *)
(* and has had its alert opened, whenever the daemon died, unless a start  *)
(* without a valid cursor passed over it.                                  *)
NothingLost ==
  /\ 1..cursor \subseteq imported \cup passed
  /\ {i \in 1..cursor : journal[i].key \in AlertKeys} \subseteq signalled \cup passed

(* An entry that the backfill will skip from now on is in the table: the   *)
(* mark follows the insert, also in a backfill that died.                  *)
SkippedIsImported == seen \subseteq imported

(* The occurrences counted for a key are the journal entries of that key,  *)
(* however often the journal was replayed.                                 *)
CountsAreExact == \A k \in Keys : Count(k) = Cardinality(Imported(k))

(* So they are on a first installation, until the daemon is enabled: a     *)
(* backfill that died between an insert and its mark is made good by the   *)
(* consolidation of the next, coalesced rows included.                     *)
FirstImportIsExact == ~enabled => CountsAreExact

(* Coalescing: on a first installation, and without clock jumps, two rows  *)
(* of a key lie farther apart than the window.                             *)
Monotone == \A i, j \in Entries : i < j => journal[i].time <= journal[j].time
RowsLieApart ==
  ~enabled /\ Monotone => \A r, s \in DOMAIN rows :
    r < s /\ rows[r].key = rows[s].key => rows[s].first - rows[r].last > Window

(* Until the daemon is enabled no replayed entry opens again an alert that *)
(* it had already opened and that was recovered since.                     *)
NoStaleAlert ==
  [][~enabled /\ FillSignal /\ alerts' # alerts => Head(fill.signals) \notin signalled]_vars

(* Once enabled, the daemon gets to every entry that no start passes over, *)
(* and opens its alert.                                                    *)
EveryEntryImported ==
  <>enabled => \A i \in 1..MaxEntries :
    [](Len(journal) >= i =>
         <>(i \in imported \cup passed
            /\ (journal[i].key \in AlertKeys => i \in signalled \cup passed)))

==============================================================================
