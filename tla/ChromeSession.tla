--------------------------- MODULE ChromeSession ---------------------------
(* recover_chrome_session_token (kuma_admin/__init__.py): the newest token of *)
(* the browser's local storage, from the tables of its LevelDB and from the   *)
(* write-ahead log the browser is still writing, read in this order while the *)
(* browser goes on.  A record of the log is cut into fragments that fit the   *)
(* rest of a block; after a crash of the host pages of it can read as zeros.  *)
EXTENDS Integers, Sequences, FiniteSetsExt

CONSTANTS Block,       \* _LEVELDB_LOG_BLOCK_SIZE
          Header,      \* _LEVELDB_LOG_HEADER_SIZE
          Lengths,     \* of a record
          MaxRecords,
          MaxLost

VARIABLES records,   \* the writes of the token: length, and whether it was set
          rest,      \* what of the last one is not in the log yet
          flushed,   \* the writes that are in the tables
          log,       \* the fragments of the others, in their order
          end,       \* where the log ends: its block, and how much of it is used
          lost,      \* fragments that read as zeros from their header on
          torn,      \* fragments of which only bytes after the header do
          tables     \* the writes that the reader found in the tables

vars == <<records, rest, flushed, log, end, lost, torn, tables>>

NoBlock == -1
Start == [block |-> 0, used |-> 0]

Init == /\ records = <<>> /\ rest = 0 /\ flushed = 0
        /\ log = <<>> /\ end = Start /\ lost = {} /\ torn = {} /\ tables = {}

TypeOK ==
  /\ records \in Seq([len : Lengths, set : BOOLEAN]) /\ Len(records) <= MaxRecords
  /\ flushed \in 0..Len(records) /\ tables \subseteq 1..flushed
  /\ lost \cup torn \subseteq DOMAIN log
  /\ rest = 0 \/ rest \in 1..records[Len(records)].len
  /\ end \in [block : Nat, used : 0..Block]
  /\ \A i \in DOMAIN log : log[i].rec \in (flushed + 1)..Len(records)

------------------------------------------------------------------------------
(* The browser. *)

WriteToken ==
  /\ Len(records) < MaxRecords /\ rest = 0
  /\ \E len \in Lengths, set \in BOOLEAN :
       records' = Append(records, [len |-> len, set |-> set]) /\ rest' = len
  /\ UNCHANGED <<flushed, log, end, lost, torn, tables>>

Kind(begins, ends) == IF begins THEN IF ends THEN "full" ELSE "first"
                                ELSE IF ends THEN "last" ELSE "middle"

(* LevelDB fills the rest of a block, with an empty fragment if only a header *)
(* fits, and leaves out what is too short for one.  A reader can come before  *)
(* the last fragment of a record.                                             *)
Place == IF Block - end.used < Header THEN [block |-> end.block + 1, used |-> 0] ELSE end
Begun == log # <<>> /\ log[Len(log)].rec = Len(records)

WriteFragment ==
  LET room == Block - Place.used - Header
      k    == IF rest <= room THEN rest ELSE room
  IN /\ rest > 0 /\ rest' = rest - k
     /\ log' = Append(log, [kind |-> Kind(~Begun, k = rest), block |-> Place.block, rec |-> Len(records),
                             from |-> records[Len(records)].len - rest, len |-> k])
     /\ end' = [Place EXCEPT !.used = @ + Header + k]
     /\ UNCHANGED <<records, flushed, lost, torn, tables>>

(* The log goes to a table and a new one begins.                              *)
Flush == /\ flushed < Len(records) /\ rest = 0 /\ lost \cup torn = {}
         /\ flushed' = Len(records) /\ log' = <<>> /\ end' = Start
         /\ UNCHANGED <<records, rest, lost, torn, tables>>

(* A page of the log did not reach the disk: what of it a header would follow *)
(* is left out until the next block; bytes within a fragment are zeros, which *)
(* no checksum tells.  Headers of which only a part is zeros are left out.    *)
Zero == /\ Cardinality(lost) + Cardinality(torn) < MaxLost
        /\ \E i \in DOMAIN log : \/ lost' = lost \cup {i} /\ UNCHANGED torn
                                 \/ torn' = torn \cup {i} /\ UNCHANGED lost
        /\ UNCHANGED <<records, rest, flushed, log, end, tables>>

(* The reader reads the tables; those that are gone since it listed them, are *)
(* damaged or compressed without a library for it are passed over.            *)
ReadTables == /\ tables' \in SUBSET (1..flushed)
              /\ UNCHANGED <<records, rest, flushed, log, end, lost, torn>>

Next == WriteToken \/ WriteFragment \/ Flush \/ Zero \/ ReadTables
Spec == Init /\ [][Next]_vars

------------------------------------------------------------------------------
(* The reader, when it reads the log after the tables. *)

Bytes(f) == [i \in 1..f.len |-> <<f.rec, f.from + i>>]

(* One fragment of _log_records: pending is empty when no record is open, and *)
(* also when the first fragment of one was empty.                             *)
Take(s, f) ==
  CASE f.kind = "full"   -> [s EXCEPT !.pending = <<>>, !.out = Append(@, Bytes(f))]
    [] f.kind = "first"  -> [s EXCEPT !.pending = Bytes(f)]
    [] f.kind = "middle" /\ s.pending # <<>> -> [s EXCEPT !.pending = @ \o Bytes(f)]
    [] f.kind = "last" /\ s.pending # <<>>   ->
         [s EXCEPT !.pending = <<>>, !.out = Append(@, s.pending \o Bytes(f))]
    [] OTHER             -> [s EXCEPT !.pending = <<>>]

Follow(s, i) ==
  IF log[i].block = s.skip THEN s
  ELSE IF i \in lost THEN [s EXCEPT !.pending = <<>>, !.skip = log[i].block]
  ELSE Take(s, log[i])

Unread == [pending |-> <<>>, out |-> <<>>, skip |-> NoBlock]
ReadTo[i \in 0..Len(log)] == IF i = 0 THEN Unread ELSE Follow(ReadTo[i - 1], i)
LogRecords == ReadTo[Len(log)].out

(* Sequence numbers decide, not the order in which files are read; a deleted  *)
(* token is none.  A record with zeros in it can be found or not, as they hit  *)
(* its value or its key and number.                                           *)
InLog   == {LogRecords[i][1][1] : i \in DOMAIN LogRecords}
Damaged == {log[i].rec : i \in torn}
Value(n) == IF n # 0 /\ records[n].set THEN n ELSE 0
Newest(S) == Value(Max(S \cup {0}))
Tokens  == {Newest(tables \cup S) : S \in {T \in SUBSET InLog : InLog \ Damaged \subseteq T}}

------------------------------------------------------------------------------
Whole(r) == [i \in 1..records[r].len |-> <<r, i>>]
EmptyStart == \E i \in DOMAIN log : log[i].kind = "first" /\ log[i].len = 0
Written == IF rest = 0 THEN Len(records) ELSE Len(records) - 1

(* Every record read from the log is one that was written, each byte in its   *)
(* place or a zero, in the order of writing, wherever blocks end, whatever is *)
(* lost and however much of the last one is there.  And the token is the      *)
(* newest one written, or none if that was a deletion, where the newest write *)
(* is undamaged in the log and nothing before it was lost, or was in a table  *)
(* that was read, whatever else was damaged or passed over.  It is missed if  *)
(* it went from the log to a table after the tables were read, and so is a    *)
(* record whose first fragment is empty.                                      *)
TokenIsNewest ==
  /\ \A i \in DOMAIN LogRecords :
       /\ \E r \in 1..Written : LogRecords[i] = Whole(r)
       /\ \A j \in 1..(i - 1) : LogRecords[j][1][1] < LogRecords[i][1][1]
  /\ \/ Written \in tables
     \/ Written > flushed /\ lost = {} /\ ~EmptyStart /\ Written \notin Damaged
     => \A token \in Tokens : token = Value(Written)

=============================================================================
