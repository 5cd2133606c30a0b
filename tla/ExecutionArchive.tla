-------------------------- MODULE ExecutionArchive --------------------------
(* The private archive of executions (execution_archive).  Each event is a  *)
(* directory: a manifest and, while it is active, raw streams with their    *)
(* timing; sealing compresses the streams.  SQLite indexes the sealed ones. *)
(* An adapter records one command, collectors record journal entries, and a *)
(* new shell recovers what the dead left.  All change the archive under one *)
(* lock, file by file; whoever dies, or fails, stops between two files.     *)
EXTENDS Integers, Sequences, SequencesExt, FiniteSets, FiniteSetsExt

CONSTANTS
  Streams,      \* the streams that are kept: all of the output, stdout
  Chunks,       \* what the command writes
  High, Low,    \* PENDING_HIGH and PENDING_LOW
  EventSize,    \* event_bytes: copies of chunks an event may hold
  Quota,        \* quota_bytes: manifests and copies of chunks
  Collectors,   \* passes of the collector of one unit
  Entries,      \* entries of the journal
  MaxFaults     \* bound on deaths and failures

ASSUME StreamAssumption == IsFiniteSet(Streams)
ASSUME SizeAssumption ==
  Chunks \in Nat /\ High \in Nat /\ Low \in Nat /\ EventSize \in Nat /\ Quota \in Nat
ASSUME CollectorAssumption == Collectors \cap {"nobody", "cmd", "recover"} = {}
ASSUME BoundAssumption == Entries \in Nat /\ MaxFaults \in Nat

Cmd        == 0
Events     == {Cmd} \cup 1..Entries

VARIABLES
  dir,      \* the event directories
  index,    \* events with a row
  order,    \* sealed events by the time they ended
  lock,     \* who holds archive.lock, and the file operations it has to do
  cmd,      \* the adapter
  col,      \* the collectors
  rec,      \* the recovery: the rows it has read, the directories to visit
  cursor,   \* local-source-cursors.json
  written,  \* entries in the journal so far
  ever,     \* history: entries that have had a manifest
  faults

vars == <<dir, index, order, lock, cmd, col, rec, cursor, written, ever, faults>>

Nothing  == [s \in Streams |-> <<>>]
NoDir    == [man |-> "none", gap |-> "no", raw |-> Nothing, tim |-> Nothing,
             zst |-> Nothing, files |-> Nothing]
Unlocked == [by |-> "nobody", todo |-> <<>>]
Idle     == [pc |-> "idle", at |-> 0, upto |-> 0]

Init ==
  /\ dir = [e \in Events |-> NoDir]
  /\ index = {} /\ order = <<>>
  /\ lock = Unlocked
  /\ cmd = [pc |-> "start", read |-> 0, pending |-> <<>>, due |-> <<>>,
            failed |-> FALSE, secret |-> FALSE]
  /\ col = [c \in Collectors |-> Idle]
  /\ rec = [pc |-> "idle", rows |-> {}, todo |-> {}]
  /\ cursor = 0 /\ written = 0
  /\ ever = {}
  /\ faults = 0

Sealed(e)   == dir[e].man \in {"complete", "interrupted"}
Copies(d)   == MapThenSumSet(LAMBDA s : Len(d[s]), Streams)
SizeOf(e)   == (IF dir[e].man = "none" THEN 0 ELSE 1) + Copies(dir[e].raw) + Copies(dir[e].zst)
Usage       == MapThenSumSet(SizeOf, Events)
Readable(e) == dir[e].zst = dir[e].files

------------------------------------------------------------------------------
(* What a holder of the lock does, one file at a time.                      *)

Op(name, e)      == [op |-> name, ev |-> e, s |-> "output", what |-> <<>>]
File(name, s, w) == [op |-> name, ev |-> Cmd, s |-> s, what |-> w]

Take(who, ops) == /\ lock = Unlocked
                  /\ lock' = [by |-> who, todo |-> ops]
Holder(who)    == lock.by = who

(* _seal: compressed frames, the manifest, and only then no raw streams.    *)
SealOps(e, state) == <<Op("frames", e), Op(state, e), Op("unlink", e)>>
EndOps(e)         == SealOps(e, "complete") \o <<Op("index", e), Op("prune", e)>>

(* A raw stream up to its last line of timing, and those lines.             *)
Shorter(a, b) == IF Len(a) < Len(b) THEN Len(a) ELSE Len(b)
Valid(s)      == SubSeq(dir[Cmd].raw[s], 1, Shorter(dir[Cmd].raw[s], dir[Cmd].tim[s]))
TrimOps(s)    == IF dir[Cmd].raw[s] = <<>> THEN <<>>
                 ELSE <<File("empty", s, <<>>), File("rewrite", s, Valid(s)),
                        File("retime", s, Valid(s))>>
Trims         == FlattenSeq([j \in 1..Cardinality(Streams) |-> TrimOps(SetToSeq(Streams)[j])])

(* _maintain deletes the rows of an event, then its directory: the manifest *)
(* first or the content first.                                              *)
Prunes(e, first) == <<Op("unindex", e), Op(first, e), Op("remove", e), Op("prune", e)>>

Prunable  == {i \in DOMAIN order : Sealed(order[i])}
Oldest    == order[Min(Prunable)]
Due(aged) == Prunable # {} /\ (aged \/ Usage > Quota)

(* The directory of an event after one operation on it.                     *)
After(o) ==
  LET d == dir[o.ev]
  IN CASE o.op = "begin"             -> [NoDir EXCEPT !.man = "active"]
       [] o.op = "raw"               -> [d EXCEPT !.raw[o.s] = @ \o o.what]
       [] o.op = "timing"            -> [d EXCEPT !.tim[o.s] = @ \o o.what]
       [] o.op \in {"empty", "rewrite"} -> [d EXCEPT !.raw[o.s] = o.what]
       [] o.op = "retime"            -> [d EXCEPT !.tim[o.s] = o.what]
       [] o.op = "truncated"         -> [d EXCEPT !.gap = o.op]
       [] o.op = "sensitive"         -> [d EXCEPT !.gap = o.op]
       [] o.op \in {"erase", "unlink"} -> [d EXCEPT !.raw = Nothing, !.tim = Nothing]
       [] o.op = "frames"            -> [d EXCEPT !.zst = d.raw]
       [] o.op = "interrupted"       -> [d EXCEPT !.man = o.op, !.files = d.zst]
       [] o.op = "complete"          ->
            [d EXCEPT !.man = o.op, !.files = d.zst,
                      !.gap = IF o.ev = Cmd /\ cmd.failed THEN "storage" ELSE @]
       [] o.op = "manifest"          -> [d EXCEPT !.man = "none"]
       [] o.op = "content"           -> [d EXCEPT !.zst = Nothing]
       [] o.op = "remove"            -> NoDir
       [] OTHER                      -> d

Ends(o) == o.op \in {"complete", "interrupted"}

(* The order without an event, which may have ended before.                 *)
Without(e) == IF e \in Range(order) THEN RemoveAt(order, CHOOSE i \in DOMAIN order : order[i] = e)
              ELSE order

Step ==
  /\ lock.todo # <<>> /\ Head(lock.todo).op # "prune"
  /\ LET o == Head(lock.todo)
     IN /\ o.op = "index" => Readable(o.ev)
        /\ dir' = [dir EXCEPT ![o.ev] = After(o)]
        /\ index' = CASE o.op = "index"   -> index \cup {o.ev}
                      [] o.op = "unindex" -> index \ {o.ev}
                      [] OTHER            -> index
        /\ order' = IF Ends(o) THEN Append(Without(o.ev), o.ev) ELSE order
        /\ ever' = IF Ends(o) THEN ever \cup {o.ev} ELSE ever
  /\ lock' = [lock EXCEPT !.todo = Tail(@)]
  /\ UNCHANGED <<cmd, col, rec, cursor, written, faults>>

(* Pruning goes on while the oldest sealed event is past retention_days,    *)
(* which it may be at any time, or the quota is exceeded.                   *)
Prune ==
  /\ lock.todo # <<>> /\ Head(lock.todo).op = "prune"
  /\ \E aged \in BOOLEAN, first \in {"manifest", "content"} :
       lock' = [lock EXCEPT !.todo = (IF Due(aged) THEN Prunes(Oldest, first) ELSE <<>>) \o Tail(@)]
  /\ UNCHANGED <<dir, index, order, cmd, col, rec, cursor, written, ever, faults>>

------------------------------------------------------------------------------
(* The adapter (process_adapter.run).                                       *)

Running == cmd.pc \in {"run", "end"}

Begin ==
  /\ cmd.pc = "start"
  /\ Take("cmd", <<Op("prune", Cmd), Op("begin", Cmd)>>)
  /\ cmd' = [cmd EXCEPT !.pc = "run"]
  /\ UNCHANGED <<dir, index, order, col, rec, cursor, written, ever, faults>>

Quiet == ~Holder("cmd") /\ cmd.due = <<>>

(* A chunk of output waits until more than High are waiting; then all but   *)
(* Low are stored, each in both streams.                                    *)
InEach(i)   == [j \in 1..Cardinality(Streams) |-> <<SetToSeq(Streams)[j], i>>]
Flush(waiting, target) ==
  LET n == Len(waiting) - target
  IN  IF n <= 0 THEN [pending |-> waiting, due |-> <<>>]
      ELSE [pending |-> SubSeq(waiting, n + 1, Len(waiting)), due |-> FlattenSeq([i \in 1..n |-> InEach(waiting[i])])]

Emit ==
  /\ cmd.pc = "run" /\ Quiet /\ cmd.read < Chunks
  /\ LET waiting == Append(cmd.pending, cmd.read + 1)
         flushed == Flush(waiting, IF Len(waiting) > High THEN Low ELSE Len(waiting))
     IN  cmd' = IF cmd.failed \/ cmd.secret THEN [cmd EXCEPT !.read = @ + 1]
                ELSE [cmd EXCEPT !.read = @ + 1, !.pending = flushed.pending, !.due = flushed.due]
  /\ UNCHANGED <<dir, index, order, lock, col, rec, cursor, written, ever, faults>>

(* A chunk that must not be kept: drop_content.                             *)
DropOps == <<Op("erase", Cmd), Op("sensitive", Cmd)>>
Drop ==
  /\ cmd.pc = "run" /\ Quiet /\ cmd.read < Chunks /\ ~cmd.failed /\ ~cmd.secret
  /\ Take("cmd", DropOps)
  /\ cmd' = [cmd EXCEPT !.read = @ + 1, !.secret = TRUE, !.pending = <<>>]
  /\ UNCHANGED <<dir, index, order, col, rec, cursor, written, ever, faults>>

Exit ==
  /\ cmd.pc = "run" /\ Quiet
  /\ cmd' = [cmd EXCEPT !.pc = "end", !.pending = <<>>, !.due = Flush(cmd.pending, 0).due]
  /\ UNCHANGED <<dir, index, order, lock, col, rec, cursor, written, ever, faults>>

Skips       == cmd.failed

(* append.                                                                  *)
Store ==
  /\ Running /\ cmd.due # <<>> /\ ~Holder("cmd") /\ ~Skips
  /\ LET s == Head(cmd.due)[1]  chunk == <<Head(cmd.due)[2]>>
         full == \/ Copies(dir[Cmd].raw) >= EventSize
                 \/ Usage >= Quota
     IN  Take("cmd", IF full THEN <<Op("truncated", Cmd)>>
                     ELSE IF dir[Cmd].gap = "truncated" THEN <<>>
                     ELSE <<File("raw", s, chunk), File("timing", s, chunk)>>)
  /\ cmd' = [cmd EXCEPT !.due = Tail(@)]
  /\ UNCHANGED <<dir, index, order, col, rec, cursor, written, ever, faults>>

StoreNot ==
  /\ Running /\ cmd.due # <<>> /\ ~Holder("cmd") /\ Skips
  /\ cmd' = [cmd EXCEPT !.due = Tail(@)]
  /\ UNCHANGED <<dir, index, order, lock, col, rec, cursor, written, ever, faults>>

FinishCmd ==
  /\ cmd.pc = "end" /\ Quiet
  /\ Take("cmd", EndOps(Cmd))
  /\ cmd' = [cmd EXCEPT !.pc = "done"]
  /\ UNCHANGED <<dir, index, order, col, rec, cursor, written, ever, faults>>

------------------------------------------------------------------------------
(* The collectors (local_sources.collect_journal).                          *)

JournalWrites ==
  /\ written < Entries
  /\ written' = written + 1
  /\ UNCHANGED <<dir, index, order, lock, cmd, col, rec, cursor, ever, faults>>

(* The cursor is read, and the journal after it.                            *)
Collect(c) ==
  /\ col[c].pc = "idle" /\ cursor < written
  /\ col' = [col EXCEPT ![c] = [pc |-> "record", at |-> cursor, upto |-> written]]
  /\ UNCHANGED <<dir, index, order, lock, cmd, rec, cursor, written, ever, faults>>

(* record_external, whose event an earlier pass may have left unindexed.    *)
Record(c) ==
  /\ col[c].pc = "record" /\ ~Holder(c) /\ col[c].at < col[c].upto
  /\ LET e == col[c].at + 1
     IN  Take(c, IF dir[e].man # "none" THEN <<Op("index", e)>>
                 ELSE <<Op("prune", e)>> \o EndOps(e))
  /\ col' = [col EXCEPT ![c].at = @ + 1]
  /\ UNCHANGED <<dir, index, order, cmd, rec, cursor, written, ever, faults>>

(* The cursor moves forward only, whatever another pass has saved.          *)
Save(c) ==
  /\ col[c].pc = "record" /\ ~Holder(c) /\ col[c].at = col[c].upto /\ lock = Unlocked
  /\ cursor' = IF col[c].upto >= cursor THEN col[c].upto ELSE cursor
  /\ col' = [col EXCEPT ![c] = Idle]
  /\ UNCHANGED <<dir, index, order, lock, cmd, rec, written, ever, faults>>

------------------------------------------------------------------------------
(* recover, when a shell starts.                                            *)

Recover ==
  /\ rec.pc = "idle"
  /\ Take("recover", <<>>)
  /\ rec' = [pc |-> "scan", rows |-> index, todo |-> {e \in Events : dir[e].man # "none"}]
  /\ UNCHANGED <<dir, index, order, cmd, col, cursor, written, ever, faults>>

Orphaned(e) == dir[e].man = "active" /\ cmd.pc \in {"done", "dead"}

Repairs(e) ==
  IF dir[e].man = "active" /\ ~Orphaned(e) THEN <<>>
  ELSE (IF Orphaned(e) THEN Trims \o SealOps(e, "interrupted") ELSE <<>>)
       \o (IF e \in rec.rows THEN <<>> ELSE <<Op("index", e)>>)

RecoverNext ==
  /\ rec.pc = "scan" /\ lock.todo = <<>>
  /\ IF rec.todo = {} THEN /\ lock' = [lock EXCEPT !.todo = <<Op("prune", Cmd)>>]
                           /\ rec' = [rec EXCEPT !.pc = "last"]
     ELSE \E e \in rec.todo : /\ lock' = [lock EXCEPT !.todo = Repairs(e)]
                              /\ rec' = [rec EXCEPT !.todo = @ \ {e}]
  /\ UNCHANGED <<dir, index, order, cmd, col, cursor, written, ever, faults>>

------------------------------------------------------------------------------
(* The lock, failures and deaths.                                           *)

RecIdle == [pc |-> "idle", rows |-> {}, todo |-> {}]

Release ==
  /\ lock # Unlocked /\ lock.todo = <<>> /\ (Holder("recover") => rec.pc = "last")
  /\ lock' = Unlocked
  /\ rec' = IF Holder("recover") THEN RecIdle ELSE rec
  /\ UNCHANGED <<dir, index, order, cmd, col, cursor, written, ever, faults>>

(* Defect: a collector whose record fails goes on with the next one.        *)
Stopped_Skips(c) == [col EXCEPT ![c].at = IF @ < col[c].upto THEN @ + 1 ELSE @]
Stopped(c)       == [col EXCEPT ![c] = Idle]

(* What an exception ends: the capture of a command, a recovery, a pass.    *)
Fails(who) ==
  /\ cmd' = IF who # "cmd" THEN cmd
            ELSE [cmd EXCEPT !.failed = TRUE, !.pc = IF dir[Cmd].man = "none" THEN "dead" ELSE @]
  /\ rec' = IF who = "recover" THEN RecIdle ELSE rec
  /\ col' = IF who \in Collectors THEN Stopped(who) ELSE col

(* No space, SQLite busy, or content that is not what the manifest says.    *)
Raise ==
  /\ lock.todo # <<>>
  /\ IF Head(lock.todo).op = "index" /\ ~Readable(Head(lock.todo).ev) THEN UNCHANGED faults
     ELSE faults < MaxFaults /\ faults' = faults + 1
  /\ lock' = Unlocked
  /\ Fails(lock.by)
  /\ UNCHANGED <<dir, index, order, cursor, written, ever>>

(* "archive busy": the lock is not free within 150 ms.                      *)
LockedOut(who) == lock # Unlocked /\ ~Holder(who) /\ faults < MaxFaults /\ faults' = faults + 1

BusyCmd ==
  /\ LockedOut("cmd")
  /\ \/ cmd.pc = "start" /\ cmd' = [cmd EXCEPT !.pc = "dead"]
     \/ Running /\ cmd.due # <<>> /\ ~Skips /\ cmd' = [cmd EXCEPT !.failed = TRUE, !.due = Tail(@)]
     \/ cmd.pc = "end" /\ cmd.due = <<>> /\ cmd' = [cmd EXCEPT !.pc = "done"]
     \/ /\ cmd.pc = "run" /\ cmd.due = <<>> /\ cmd.read < Chunks /\ ~cmd.failed /\ ~cmd.secret
        /\ cmd' = [cmd EXCEPT !.read = @ + 1, !.secret = TRUE, !.failed = TRUE, !.pending = <<>>]
  /\ UNCHANGED <<dir, index, order, lock, col, rec, cursor, written, ever>>

BusyCol(c) ==
  /\ LockedOut(c) /\ col[c].pc = "record"
  /\ col' = Stopped(c)
  /\ UNCHANGED <<dir, index, order, lock, cmd, rec, cursor, written, ever>>

(* The death of the adapter, of a collector, of the shell that recovers.    *)
Dies(who) == /\ faults < MaxFaults /\ faults' = faults + 1
             /\ lock' = IF Holder(who) THEN Unlocked ELSE lock
             /\ UNCHANGED <<dir, index, order, cursor, written, ever>>

CmdDies == Running /\ Dies("cmd") /\ cmd' = [cmd EXCEPT !.pc = "dead"] /\ UNCHANGED <<rec, col>>
ColDies(c) == col[c].pc = "record" /\ Dies(c) /\ col' = [col EXCEPT ![c] = Idle] /\ UNCHANGED <<cmd, rec>>
RecDies == rec.pc # "idle" /\ Dies("recover") /\ rec' = RecIdle /\ UNCHANGED <<cmd, col>>

Adapter  == Begin \/ Emit \/ Drop \/ Exit \/ Store \/ StoreNot \/ FinishCmd
Collects == \E c \in Collectors : Collect(c) \/ Record(c) \/ Save(c)
Files    == Step \/ Prune \/ Release
Recovers == Recover \/ RecoverNext
Faulty   == Raise \/ BusyCmd \/ CmdDies \/ RecDies \/ \E c \in Collectors : BusyCol(c) \/ ColDies(c)
Next     == Adapter \/ Collects \/ Files \/ Recovers \/ JournalWrites \/ Faulty

Spec     == Init /\ [][Next]_vars

------------------------------------------------------------------------------
(* Properties.                                                              *)

TypeOK ==
  /\ \A e \in Events : dir[e].man \in {"none", "active", "complete", "interrupted"}
  /\ index \subseteq Events /\ Range(order) \subseteq Events
  /\ lock.by \in {"nobody", "cmd", "recover"} \cup Collectors
  /\ cursor \in 0..written /\ faults \in 0..MaxFaults

(* The comment of _maintain: no row of the index points at an event whose   *)
(* manifest is gone, wherever recording, recovery or pruning is cut off.    *)
RowsHaveOriginals == \A e \in index : Sealed(e)

(* What is sealed of a command is the beginning of its output, in each      *)
(* stream and without holes; all of it when the event says complete and     *)
(* names no gap.                                                            *)
SealedIsFaithful ==
  Sealed(Cmd) => \A s \in Streams :
    /\ IsPrefix(dir[Cmd].files[s], [i \in 1..cmd.read |-> i])
    /\ dir[Cmd].man = "complete" /\ dir[Cmd].gap = "no" => Len(dir[Cmd].files[s]) = cmd.read

(* The cursor of a unit never passes an entry that was not recorded,        *)
(* although passes overlap, fail half way and save out of order.            *)
NothingPassed == 1..cursor \subseteq ever

(* A recovery that reaches its end leaves a row for every sealed event,     *)
(* whichever step of recording, of a prune or of another recovery was cut   *)
(* off before; it does not get there while a directory lacks content that   *)
(* its manifest names.                                                      *)
RecoveryIndexesAll ==
  rec.pc = "last" /\ (lock.todo = <<>> \/ Head(lock.todo).op = "prune") =>
    \A e \in Events : Sealed(e) => e \in index

(* All of this.                                                             *)
ExecutionArchiveIsTrue ==
  RowsHaveOriginals /\ SealedIsFaithful /\ NothingPassed /\ RecoveryIndexesAll

=============================================================================
