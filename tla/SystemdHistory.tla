---------------------------- MODULE SystemdHistory ----------------------------
(* The history of custom units (systemd_history.py): an import, started by   *)
(* hand, reads the journal of one scope after the stored cursor, or from a   *)
(* bounded time when there is no cursor or it cannot be used, and stores the *)
(* entries, the executions they belong to and the cursor in one transaction. *)
(* Two imports may overlap; the journal is vacuumed and its clock set back.  *)
EXTENDS Integers, Sequences, FiniteSets, FiniteSetsExt

CONSTANTS
  Units,       \* custom units; each has one invocation
  First,       \* units the first import knows
  Initial,     \* initial_lookback_hours
  Fallback,    \* fallback_lookback_hours
  Outcomes,    \* what an entry of the unit itself tells, "none" for nothing
  Importers,
  MaxTime, MaxEntries,  \* bounds on the clock and the journal
  MaxFaults    \* bound on set-backs, failed reads and deaths

NoCursor == 0

VARIABLES
  now,
  journal,     \* every entry ever logged, by position
  vacuumed,    \* how many of the oldest are gone
  catalog,     \* what discover_units returns
  checkpoint,  \* the cursor, as a position
  entries,     \* systemd_execution_entries: positions
  executions,  \* systemd_executions, by unit
  import,      \* of each importer
  excused,     \* history: positions an import could not or need not read
  faults

vars == <<now, journal, vacuumed, catalog, checkpoint, entries, executions,
          import, excused, faults>>

NotRun == [count |-> 0, status |-> "absent"]
Idle   == [pc |-> "idle", cursor |-> NoCursor, units |-> {}, mode |-> "cursor",
           read |-> {}, shown |-> NoCursor, unread |-> {}]

Init ==
  /\ now = 0 /\ journal = <<>> /\ vacuumed = 0 /\ catalog = First
  /\ checkpoint = NoCursor
  /\ entries = {} /\ executions = [u \in Units |-> NotRun]
  /\ import = [i \in Importers |-> Idle]
  /\ excused = {} /\ faults = 0

Fault == faults < MaxFaults /\ faults' = faults + 1
stored == <<checkpoint, entries, executions, excused>>

------------------------------------------------------------------------------
(* journald and the registry.                                               *)

Tick ==
  /\ now < MaxTime /\ now' = now + 1
  /\ UNCHANGED <<journal, vacuumed, catalog, stored, import, faults>>

SetBack ==
  /\ Fault /\ now > 0 /\ now' = now - 1
  /\ UNCHANGED <<journal, vacuumed, catalog, stored, import>>

(* A unit logs, or the service manager about it: _SYSTEMD_UNIT is then the   *)
(* manager's own.                                                            *)
Log ==
  /\ Len(journal) < MaxEntries
  /\ \E u \in Units, says \in Outcomes \cup {"manager"} :
       journal' = Append(journal, [unit |-> u, own |-> says # "manager", at |-> now, says |-> says])
  /\ UNCHANGED <<now, vacuumed, catalog, stored, import, faults>>

Vacuum ==
  /\ vacuumed < Len(journal) /\ vacuumed' = vacuumed + 1
  /\ UNCHANGED <<now, journal, catalog, stored, import, faults>>

Define ==
  /\ catalog # Units /\ \E u \in Units \ catalog : catalog' = catalog \cup {u}
  /\ UNCHANGED <<now, journal, vacuumed, stored, import, faults>>

------------------------------------------------------------------------------
(* An import.                                                               *)

Begin(i) ==
  /\ import[i].pc = "idle"
  /\ import' = [import EXCEPT ![i] =
       [Idle EXCEPT !.pc = "read", !.cursor = checkpoint, !.units = catalog,
                    !.mode = IF checkpoint = NoCursor THEN "fallback" ELSE "cursor"]]
  /\ UNCHANGED <<now, journal, vacuumed, catalog, stored, faults>>

Of(units) == {p \in vacuumed + 1..Len(journal) : journal[p].unit \in units}

(* journalctl --after-cursor or --since, --until now: it stops at the first  *)
(* matching entry that lies in the future.                                   *)
UpToNow(S) == {p \in S : \A q \in S : q <= p => journal[q].at <= now}
After(cursor, units) == UpToNow({p \in Of(units) : p > cursor})
Since(bound, units)  ==
  UpToNow({p \in Of(units) : \E q \in Of(units) : q <= p /\ journal[q].at >= bound})

(* The entries a read hands over; the manager's are dropped, though they     *)
(* show the cursor.                                                          *)
Result(i, S, cursor) ==
  [import[i] EXCEPT !.pc = "persist", !.read = {p \in S : journal[p].own},
     !.shown = IF S = {} THEN NoCursor ELSE Max(S),
     !.unread = {p \in DOMAIN journal : p > cursor /\ p <= Max(S \cup {NoCursor}) /\ p \notin S}]

Read(i) ==
  LET m == import[i]
      first == m.cursor = NoCursor
  IN  /\ m.pc = "read"
      /\ m.mode = "cursor" => m.cursor > vacuumed
      /\ import' = [import EXCEPT ![i] =
           IF m.mode = "cursor" THEN Result(i, After(m.cursor, m.units), m.cursor)
           ELSE Result(i, Since(now - (IF first THEN Initial ELSE Fallback), m.units), NoCursor)]
      /\ UNCHANGED <<now, journal, vacuumed, catalog, stored, faults>>

(* journalctl fails, because the cursor is gone or for a reason of its own;  *)
(* after a cursor the fallback is tried.                                     *)
ReadFails(i) ==
  /\ import[i].pc = "read"
  /\ \/ import[i].mode = "cursor" /\ import[i].cursor <= vacuumed /\ UNCHANGED faults
     \/ Fault
  /\ import' = [import EXCEPT ![i] =
       IF @.mode = "cursor" THEN [@ EXCEPT !.mode = "fallback"] ELSE [@ EXCEPT !.pc = "error"]]
  /\ UNCHANGED <<now, journal, vacuumed, catalog, stored>>

(* The error is recorded; the cursor stays.                                 *)
RecordError(i) ==
  /\ import[i].pc = "error"
  /\ import' = [import EXCEPT ![i] = Idle]
  /\ UNCHANGED <<now, journal, vacuumed, catalog, stored, faults>>

------------------------------------------------------------------------------
(* _persist_scope.                                                          *)

Later(p, q) == journal[p].at > journal[q].at \/ (journal[p].at = journal[q].at /\ p >= q)
Latest(S)   == CHOOSE p \in S : \A q \in S : Later(p, q)

(* Defect: the cursor is the entry after the last one read.                  *)
Cursor_Next(i) == 1 + (IF import[i].read # {} THEN Latest(import[i].read) ELSE import[i].cursor)

(* The cursor of the entry with the latest timestamp, else the one journalctl *)
(* showed, else the stored one.                                             *)
Cursor(i) ==
  IF import[i].read # {} THEN Latest(import[i].read)
  ELSE IF import[i].shown # NoCursor THEN import[i].shown ELSE import[i].cursor

(* _refresh_execution: the last entry that tells an outcome decides.        *)
Execution(S) ==
  LET telling == {p \in S : journal[p].says # "none"}
  IN  IF S = {} THEN NotRun
      ELSE [count |-> Cardinality(S),
            status |-> IF telling = {} THEN "running" ELSE journal[Latest(telling)].says]

EntriesOf(u, S) == {p \in S : journal[p].unit = u}

(* Defect: only executions that were not there are refreshed.               *)
Touched_New(new) == {u \in Units : EntriesOf(u, new) # {} /\ executions[u] = NotRun}

(* An execution is refreshed when a new entry of it was inserted.           *)
Touched(new) == {u \in Units : EntriesOf(u, new) # {}}

Persist(i) ==
  LET new == import[i].read \ entries
      all == entries \cup new
  IN  /\ import[i].pc = "persist"
      /\ entries' = all
      /\ executions' = [u \in Units |-> IF u \in Touched(new) THEN Execution(EntriesOf(u, all))
                                        ELSE executions[u]]
      /\ checkpoint' = Cursor(i)
      /\ excused' = excused \cup import[i].unread
      /\ import' = [import EXCEPT ![i] = Idle]
      /\ UNCHANGED <<now, journal, vacuumed, catalog, faults>>

Die(i) ==
  /\ import[i].pc # "idle" /\ Fault
  /\ import' = [import EXCEPT ![i] = Idle]
  /\ UNCHANGED <<now, journal, vacuumed, catalog, stored>>

Import(i) == Begin(i) \/ Read(i) \/ ReadFails(i) \/ RecordError(i) \/ Persist(i) \/ Die(i)
Next == Tick \/ SetBack \/ Log \/ Vacuum \/ Define \/ \E i \in Importers : Import(i)
Spec == Init /\ [][Next]_vars

------------------------------------------------------------------------------
(* Properties.                                                              *)

TypeOK ==
  /\ now \in 0..MaxTime /\ vacuumed \in 0..Len(journal) /\ First \subseteq catalog
  /\ checkpoint \in 0..Len(journal) /\ entries \subseteq DOMAIN journal
  /\ \A i \in Importers : import[i].pc \in {"idle", "read", "persist", "error"}
  /\ faults \in 0..MaxFaults

(* An entry of a unit at or before the cursor is stored, unless a read that  *)
(* was persisted could not see it: vacuumed, before the bound of a fallback  *)
(* or of a unit nobody had defined.  Overlapping imports, deaths, failed     *)
(* reads and a clock that is set back pass over nothing else.               *)
NothingSkipped ==
  \A p \in 1..checkpoint : journal[p].own => p \in entries \cup excused

(* An execution says what its stored entries say, in whichever imports and   *)
(* order they arrived.                                                       *)
ExecutionsFollowEntries ==
  \A u \in Units : executions[u] = Execution(EntriesOf(u, entries))

==============================================================================
