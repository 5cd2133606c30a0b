---------------------------- MODULE KumaPn_proofs ----------------------------
(***************************************************************************)
(* What the incident follower never loses and never doubles, for every set *)
(* of monitors, every batch size and grace and any number of heartbeats,   *)
(* edits and failed runs.                                                  *)
(***************************************************************************)
EXTENDS KumaPn, FiniteSetTheorems, SequenceTheorems, WellFoundedInduction, TLAPS

Statuses  == {"down", "up", "pending"}
Heartbeat == [mon : Monitors, status : Statuses, time : Nat]

(* The parts of the type invariant, with the marks of a run within the log *)
(* and a heartbeat that waits for its checkpoint in the ledger.            *)
KumaShape ==
  /\ log \in Seq(Heartbeat)
  /\ active \subseteq Monitors /\ live \subseteq Monitors /\ gone \subseteq Monitors \ live
  /\ crashes \in Nat /\ edits \in Nat

LedgerShape ==
  /\ ledger \in [Recorded -> 1..Len(opened)]
  /\ Recorded \subseteq Beats
  /\ opened \in Seq(Beats)

CheckShape ==
  /\ cursor \in Beats \cup {0, NoCursor}
  /\ cp \in [Monitors -> Checkpoints]

RunShape ==
  /\ run \in [pc : {"idle", "next", "commit"}, todo : SUBSET Beats, top : Beats \cup {0},
              mark : Beats \cup {0}, delta : BOOLEAN, on : SUBSET Monitors]
  /\ run.pc = "commit" => \A h \in Oldest(run.todo) : h \in Recorded

Shape == KumaShape /\ LedgerShape /\ CheckShape /\ RunShape

-----------------------------------------------------------------------------
(* A set of heartbeats has a newest and an oldest one.                     *)
LEMMA HasOldest ==
  ASSUME NEW n \in Nat, NEW S \in SUBSET (1..n), S # {}
  PROVE  \E h \in S : \A j \in S : h <= j
<1>1. \E h \in S : \A j \in S : ~(<<j, h>> \in OpToRel(<, Nat))
  <2>1. S \subseteq Nat
    OBVIOUS
  <2> QED BY <2>1, NatLessThanWellFounded, WFMin
<1>2. PICK h \in S : \A j \in S : ~(<<j, h>> \in OpToRel(<, Nat))
  BY <1>1
<1>3. ASSUME NEW j \in S PROVE h <= j
  <2>1. ~(<<j, h>> \in OpToRel(<, Nat))
    BY <1>2
  <2>2. j \in Nat /\ h \in Nat
    OBVIOUS
  <2> QED BY <2>1, <2>2 DEF OpToRel
<1> QED BY <1>3

(* A set of heartbeats that is not empty has a newest one.                  *)
LEMMA HasNewest ==
  ASSUME NEW n \in Nat, NEW S \in SUBSET (1..n), S # {}
  PROVE  \E h \in S : \A j \in S : j <= h
<1> DEFINE M == {n - h + 1 : h \in S}
<1>1. M \in SUBSET (1..n) /\ M # {}
  <2>1. \A h \in S : h \in 1..n
    OBVIOUS
  <2>2. \A k \in M : k \in 1..n
    BY <2>1
  <2> QED BY <2>2
<1>2. PICK k \in M : \A j \in M : k <= j
  BY <1>1, HasOldest
<1>3. PICK h \in S : k = n - h + 1
  OBVIOUS
<1>4. ASSUME NEW j \in S PROVE j <= h
  <2>1. k <= n - j + 1
    BY <1>2
  <2> QED BY <2>1, <1>3
<1> QED BY <1>4

(* The log, its ids and its heartbeats.                                    *)
LEMMA LogFacts ==
  ASSUME KumaShape
  PROVE  /\ Len(log) \in Nat
         /\ \A h \in Beats : /\ log[h] \in Heartbeat /\ Mon(h) \in Monitors
                             /\ log[h].time \in Nat /\ log[h].status \in Statuses
<1>1. Len(log) \in Nat /\ \A h \in Beats : log[h] \in Heartbeat
  BY LenProperties, ElementOfSeq DEF KumaShape, Beats
<1> QED BY <1>1 DEF Mon, Heartbeat

(* Rows within the log, and the newest of them.                            *)
LEMMA RowFacts ==
  ASSUME KumaShape
  PROVE  /\ Rows \in SUBSET (1..Len(log)) /\ BatchRows \subseteq Rows /\ BaseRows \subseteq Rows
         /\ Watermark \in Beats \cup {0}
         /\ \A j \in Rows : Watermark \in Rows /\ j <= Watermark
<1>1. Rows \in SUBSET (1..Len(log)) /\ BatchRows \subseteq Rows /\ BaseRows \subseteq Rows
  BY DEF Rows, Beats, BatchRows, BaseRows, Newest
<1>2. CASE Rows = {}
  BY <1>1, <1>2 DEF Watermark
<1>3. CASE Rows # {}
  <2>1. \E h \in Newest(Rows) : TRUE
    BY <1>1, <1>3, HasNewest, LogFacts DEF Newest
  <2>2. Watermark \in Newest(Rows)
    BY <1>3, <2>1 DEF Watermark
  <2> QED BY <1>1, <2>2 DEF Newest, Beats
<1> QED BY <1>2, <1>3

(* A batch leaves out no row between the cursor and one of its rows, and   *)
(* is empty only when there is no row beyond the cursor.                   *)
LEMMA BatchIsPrefix ==
  ASSUME KumaShape, cursor \in Int
  PROVE  /\ \A h \in BatchRows, j \in Rows : cursor < j /\ j <= h => j \in BatchRows
         /\ BatchRows = {} => \A h \in Rows : h <= cursor
<1> DEFINE Below(h) == {k \in Rows : cursor < k /\ k < h}
<1>1. Rows \in SUBSET (1..Len(log)) /\ Len(log) \in Nat
  BY RowFacts, LogFacts
<1>2. ASSUME NEW h \in Rows PROVE IsFiniteSet(Below(h)) /\ Cardinality(Below(h)) \in Nat
  <2>1. \A k \in Below(h) : k \in 1..Len(log)
    BY <1>1
  <2>2. IsFiniteSet(1..Len(log))
    BY <1>1, FS_Interval
  <2>3. IsFiniteSet(Below(h))
    <3> HIDE DEF Below
    <3> QED BY <2>1, <2>2, FS_Subset
  <2> QED BY <2>3, FS_CardinalityType
<1>3. \A h \in Rows : h \in BatchRows <=> cursor < h /\ Cardinality(Below(h)) < Batch
  BY DEF BatchRows
<1>4. BatchRows \subseteq Rows
  BY RowFacts
<1>5. ASSUME NEW h \in BatchRows, NEW j \in Rows, cursor < j, j <= h PROVE j \in BatchRows
  <2>1. h \in Rows
    BY <1>4
  <2>2. \A k \in Below(j) : k \in Below(h)
    <3>1. \A k \in Rows : k < j => k < h
      BY <1>1, <1>5, <2>1
    <3> QED BY <3>1
  <2>3. Cardinality(Below(j)) <= Cardinality(Below(h))
    <3> HIDE DEF Below
    <3> QED BY <1>2, <2>1, <2>2, FS_Subset
  <2>4. Cardinality(Below(j)) < Batch
    <3>1. Cardinality(Below(h)) < Batch
      BY <1>3, <2>1
    <3>2. Cardinality(Below(j)) \in Nat /\ Cardinality(Below(h)) \in Nat /\ Batch \in Nat
      BY <1>2, <2>1, BatchAssumption
    <3> HIDE DEF Below
    <3> QED BY <2>3, <3>1, <3>2
  <2> QED BY <1>3, <1>5, <2>4
<1>6. ASSUME BatchRows = {}, NEW h \in Rows, ~(h <= cursor) PROVE FALSE
  <2> DEFINE S == {k \in Rows : cursor < k}
  <2>1. S \in SUBSET (1..Len(log)) /\ S # {}
    <3>1. h \in S
      BY <1>1, <1>6
    <3>2. \A k \in S : k \in 1..Len(log)
      BY <1>1
    <3> QED BY <3>1, <3>2
  <2>2. PICK f \in S : \A j \in S : f <= j
    <3> HIDE DEF S
    <3> QED BY <1>1, <2>1, HasOldest
  <2>3. Below(f) = {}
    <3>1. \A k \in Rows : ~(cursor < k /\ k < f)
      BY <1>1, <2>2
    <3> QED BY <3>1
  <2>4. Cardinality(Below(f)) < Batch
    BY <2>3, FS_EmptySet, BatchAssumption
  <2>5. f \in Rows /\ cursor < f
    OBVIOUS
  <2>6. f \in BatchRows
    BY <1>3, <2>4, <2>5
  <2> QED BY <1>6, <2>6
<1> QED BY <1>5, <1>6

-----------------------------------------------------------------------------
(* Type correctness: one lemma per action.                                 *)

(* The follower starts well shaped.                                         *)
LEMMA InitShape == Init => Shape
<1> SUFFICES ASSUME Init PROVE Shape
  OBVIOUS
<1> USE DEF Init
<1>1. Len(log) = 0 /\ Beats = {} /\ Recorded = {} /\ DOMAIN opened = {}
  BY DEF Beats, Recorded
<1>2. KumaShape
  BY DEF KumaShape
<1>3. LedgerShape
  BY <1>1 DEF LedgerShape, Recorded
<1>4. CheckShape
  BY <1>1, StartAssumption DEF CheckShape, Checkpoints, None, NoTime
<1>5. RunShape
  BY <1>1 DEF RunShape, Idle
<1> QED BY <1>2, <1>3, <1>4, <1>5 DEF Shape

(* A heartbeat is a new id: those there were keep theirs.                  *)
LEMMA BeatFacts ==
  ASSUME KumaShape, NEW m \in Monitors, NEW s \in Statuses, NEW gap \in 0..MaxGap,
         log' = Append(log, [mon |-> m, status |-> s, time |-> Now + gap])
  PROVE  /\ log' \in Seq(Heartbeat) /\ Len(log') = Len(log) + 1
         /\ Beats \subseteq Beats' /\ Beats' = Beats \cup {Len(log) + 1}
         /\ \A h \in Beats : log'[h] = log[h] /\ Mon(h)' = Mon(h)
         /\ log'[Len(log) + 1].mon = m
<1> DEFINE b == [mon |-> m, status |-> s, time |-> Now + gap]
<1>1. Now \in Nat
  <2>1. log # <<>> => Len(log) \in Beats
    BY LogFacts, EmptySeq DEF KumaShape, Beats
  <2> QED BY <2>1, LogFacts DEF Now
<1>2. b \in Heartbeat /\ b.mon = m
  BY <1>1, GraceAssumption DEF Heartbeat
<1> HIDE DEF b
<1>3. log' = Append(log, b)
  BY DEF b
<1>4. /\ log' \in Seq(Heartbeat) /\ Len(log') = Len(log) + 1
      /\ \A h \in 1..Len(log) : log'[h] = log[h]
      /\ log'[Len(log) + 1] = b
  BY <1>2, <1>3, AppendProperties DEF KumaShape
<1>5. Beats \subseteq Beats' /\ Beats' = Beats \cup {Len(log) + 1}
  BY <1>4, LogFacts DEF Beats
<1>6. log'[Len(log) + 1].mon = m
  BY <1>2, <1>4
<1>7. \A h \in Beats : log'[h] = log[h] /\ Mon(h)' = Mon(h)
  BY <1>4 DEF Beats, Mon
<1> QED BY <1>4, <1>5, <1>6, <1>7

(* Checkpoints stay well-formed while the log and the incidents grow.      *)
LEMMA CheckpointsGrow ==
  ASSUME Beats \subseteq Beats', DOMAIN opened \subseteq DOMAIN opened'
  PROVE  Checkpoints \subseteq Checkpoints'
BY DEF Checkpoints

(* A heartbeat that Kuma records leaves the follower well shaped.           *)
LEMMA BeatShape ==
  ASSUME Shape, NEW m \in Monitors, NEW s \in Statuses, NEW gap \in 0..MaxGap, Beat(m, s, gap)
  PROVE  Shape'
<1>1. /\ log' \in Seq(Heartbeat) /\ Beats \subseteq Beats'
      /\ UNCHANGED <<active, live, gone, ledger, opened, cursor, cp, run, crashes, edits>>
  BY BeatFacts DEF Beat, Shape
<1>2. KumaShape'
  BY <1>1 DEF Shape, KumaShape
<1>3. LedgerShape'
  <2>1. opened \in Seq(Beats')
    <3>1. \A q \in Seq(Beats) : q \in Seq(Beats')
      BY <1>1
    <3> QED BY <3>1 DEF Shape, LedgerShape
  <2>2. Recorded' = Recorded /\ (1..Len(opened))' = 1..Len(opened)
    BY <1>1 DEF Recorded
  <2> QED BY <1>1, <2>1, <2>2 DEF Shape, LedgerShape
<1>4. CheckShape'
  BY <1>1, CheckpointsGrow DEF Shape, CheckShape
<1>5. RunShape'
  <2>1. Oldest(run.todo)' = Oldest(run.todo) /\ Recorded' = Recorded
    BY <1>1 DEF Oldest, Recorded
  <2> QED BY <1>1, <2>1 DEF Shape, RunShape
<1> QED BY <1>2, <1>3, <1>4, <1>5 DEF Shape

(* What changes neither the log nor the ledger keeps their shape.          *)
LEMMA Kept ==
  ASSUME UNCHANGED <<log, ledger, opened>>
  PROVE  /\ Beats' = Beats /\ Recorded' = Recorded /\ Checkpoints' = Checkpoints
         /\ Rows' = {h \in Beats : Mon(h) \notin gone'}
         /\ \A h \in Beats : Mon(h)' = Mon(h)
BY DEF Beats, Recorded, Checkpoints, Rows, Mon

(* So do the edits of a monitor in Kuma.                                    *)
LEMMA EditShape ==
  ASSUME Shape, NEW m \in Monitors, Pause(m) \/ Resume(m) \/ Delete(m) \/ Purge(m)
  PROVE  Shape'
<1>1. UNCHANGED <<log, ledger, opened, cursor, cp, run, crashes>>
  BY DEF Pause, Resume, Delete, Purge, Edit
<1>2. KumaShape'
  BY DEF Shape, KumaShape, Pause, Resume, Delete, Purge, Edit
<1>3. LedgerShape' /\ CheckShape'
  BY <1>1, Kept DEF Shape, LedgerShape, CheckShape
<1>4. RunShape'
  <2>1. Oldest(run.todo)' = Oldest(run.todo)
    BY <1>1 DEF Oldest
  <2> QED BY <1>1, <2>1, Kept DEF Shape, RunShape
<1> QED BY <1>2, <1>3, <1>4 DEF Shape

(* What a run fetches: heartbeats of the log, the newest of them marked.   *)
LEMMA FetchFacts ==
  ASSUME Shape, Fetch
  PROVE  LET delta == cursor # NoCursor
             rows == IF delta THEN BatchRows ELSE BaseRows
         IN  /\ run' = [pc |-> "next", todo |-> run'.todo, top |-> run'.top, mark |-> Watermark,
                        delta |-> delta, on |-> active]
             /\ run'.todo = {h \in rows : Mon(h) \in live}
             /\ run'.todo \subseteq Beats
             /\ run'.todo = {} => run'.top = 0
             /\ run'.todo # {} => run'.top \in Newest(run'.todo)
             /\ run'.top \in Beats \cup {0}
             /\ UNCHANGED <<kuma, ledger, opened, cursor, cp, crashes, edits>>
<1> DEFINE delta == cursor # NoCursor
           rows == IF delta THEN BatchRows ELSE BaseRows
           events == {h \in rows : Mon(h) \in live}
           top == IF events = {} THEN 0 ELSE CHOOSE h \in Newest(events) : TRUE
<1>1. /\ run' = [pc |-> "next", todo |-> events, top |-> top, mark |-> Watermark,
                delta |-> delta, on |-> active]
      /\ UNCHANGED <<kuma, ledger, opened, cursor, cp, crashes, edits>>
  BY DEF Fetch
<1>2. events \in SUBSET (1..Len(log)) /\ Len(log) \in Nat /\ Beats = 1..Len(log)
  <2>1. rows \subseteq Rows /\ Rows \subseteq 1..Len(log)
    BY RowFacts DEF Shape
  <2>2. \A h \in events : h \in 1..Len(log)
    BY <2>1
  <2> HIDE DEF events
  <2> QED BY <2>2, LogFacts DEF Shape, Beats
<1>3. events # {} => top \in Newest(events)
  <2>1. events # {} => \E h \in Newest(events) : TRUE
    <3> HIDE DEF events
    <3> QED BY <1>2, HasNewest DEF Newest
  <2> QED BY <2>1
<1>4. events = {} => top = 0
  OBVIOUS
<1>5. run'.todo = events /\ run'.top = top
  <2> HIDE DEF events, top, delta
  <2> QED BY <1>1
<1> HIDE DEF events, top
<1>6. top \in Beats \cup {0}
  BY <1>2, <1>3, <1>4 DEF Newest
<1>7. run' = [pc |-> "next", todo |-> run'.todo, top |-> run'.top, mark |-> Watermark,
             delta |-> delta, on |-> active]
  <2> HIDE DEF delta
  <2> QED BY <1>1, <1>5
<1>8. events = {h \in rows : Mon(h) \in live}
  BY DEF events
<1> HIDE DEF rows, delta
<1>9. /\ run'.todo = {h \in rows : Mon(h) \in live}
      /\ run'.todo \subseteq Beats
      /\ run'.todo = {} => run'.top = 0
      /\ run'.todo # {} => run'.top \in Newest(run'.todo)
      /\ run'.top \in Beats \cup {0}
  BY <1>2, <1>3, <1>4, <1>5, <1>6, <1>8
<1> QED BY <1>1, <1>7, <1>9 DEF rows, delta

(* So does a poll: the batch is what lies past the cursor, in order.        *)
LEMMA FetchShape == ASSUME Shape, Fetch PROVE Shape'
<1> DEFINE delta == cursor # NoCursor
<1>1. /\ run' = [pc |-> "next", todo |-> run'.todo, top |-> run'.top, mark |-> Watermark,
                delta |-> delta, on |-> active]
      /\ run'.todo \subseteq Beats /\ run'.top \in Beats \cup {0}
      /\ UNCHANGED <<log, active, live, gone, ledger, opened, cursor, cp, crashes, edits>>
  BY FetchFacts DEF kuma
<1>2. KumaShape' /\ LedgerShape' /\ CheckShape'
  BY <1>1, Kept DEF Shape, KumaShape, LedgerShape, CheckShape
<1>3. RunShape'
  <2>1. Watermark \in Beats \cup {0} /\ active \in SUBSET Monitors /\ delta \in BOOLEAN
    BY RowFacts DEF Shape, KumaShape
  <2>2. run'.pc = "next"
    <3> HIDE DEF delta
    <3> QED BY <1>1
  <2>3. Beats' = Beats
    BY <1>1, Kept
  <2> HIDE DEF delta
  <2>4. run' \in [pc : {"idle", "next", "commit"}, todo : SUBSET Beats, top : Beats \cup {0},
                mark : Beats \cup {0}, delta : BOOLEAN, on : SUBSET Monitors]
    BY <1>1, <2>1
  <2> QED BY <2>2, <2>3, <2>4 DEF RunShape
<1> QED BY <1>2, <1>3 DEF Shape

(* What the checkpoint of a monitor is made of.                             *)
LEMMA CheckpointFacts ==
  ASSUME CheckShape, NEW m \in Monitors
  PROVE  /\ cp[m] \in Checkpoints
         /\ cp[m] = [last |-> cp[m].last, down |-> cp[m].down, inc |-> cp[m].inc,
                     rec |-> cp[m].rec]
         /\ cp[m].last \in Beats \cup {0} /\ cp[m].down \in BOOLEAN
         /\ cp[m].inc \in DOMAIN opened \cup {None} /\ cp[m].rec \in Nat \cup {NoTime}
BY DEF CheckShape, Checkpoints

(* A recorded heartbeat joins the ledger; the others keep their incident.  *)
LEMMA LedgerGrows ==
  ASSUME LedgerShape, NEW h \in Beats, NEW n \in Nat, NEW i \in 1..n, Len(opened) <= n
  PROVE  LET new == [j \in Recorded \cup {h} |-> IF j = h THEN i ELSE ledger[j]]
             old == [j \in Recorded \cup {h} |-> IF j \in Recorded THEN ledger[j] ELSE i]
         IN  /\ new \in [Recorded \cup {h} -> 1..n]
             /\ old \in [Recorded \cup {h} -> 1..n]
<1>1. Len(opened) \in Nat
  BY LenProperties DEF LedgerShape
<1>2. \A j \in Recorded : ledger[j] \in 1..n
  BY <1>1 DEF LedgerShape
<1> QED BY <1>2

(* What a step that records the oldest heartbeat leaves: it is in the      *)
(* ledger and waits for its checkpoint.                                    *)
LEMMA RecordShape ==
  ASSUME Shape, NEW h \in Oldest(run.todo), h \in Beats,
         ledger' \in [Recorded \cup {h} -> 1..Len(opened')],
         opened' \in Seq(Beats), DOMAIN opened \subseteq DOMAIN opened',
         run' = [run EXCEPT !.pc = "commit"],
         UNCHANGED <<kuma, cursor, cp, crashes, edits>>
  PROVE  Shape'
<1>1. UNCHANGED <<log, active, live, gone, cursor, cp, crashes, edits>> /\ Beats' = Beats
  BY DEF kuma, Beats
<1>2. KumaShape'
  BY <1>1 DEF Shape, KumaShape
<1>3. Recorded' = Recorded \cup {h}
  BY DEF Recorded
<1>4. LedgerShape'
  BY <1>1, <1>3 DEF Shape, LedgerShape
<1>5. CheckShape'
  BY <1>1, CheckpointsGrow DEF Shape, CheckShape
<1>6. RunShape'
  <2>1. run' \in [pc : {"idle", "next", "commit"}, todo : SUBSET Beats, top : Beats \cup {0},
                  mark : Beats \cup {0}, delta : BOOLEAN, on : SUBSET Monitors]
    BY DEF Shape, RunShape
  <2>2. run'.todo = run.todo
    BY DEF Shape, RunShape
  <2>3. \A k \in Oldest(run.todo) : k = h
    BY DEF Oldest, Shape, RunShape, Beats
  <2>4. Oldest(run.todo)' = Oldest(run.todo)
    BY <2>2 DEF Oldest
  <2> QED BY <1>1, <1>3, <2>1, <2>3, <2>4 DEF RunShape
<1> QED BY <1>2, <1>4, <1>5, <1>6 DEF Shape

(* An incident that the writer opens leaves the follower well shaped.       *)
LEMMA CreateShape == ASSUME Shape, NEW h \in Beats, Create(h) PROVE Shape'
<1>1. /\ h \in Oldest(run.todo) /\ run' = [run EXCEPT !.pc = "commit"]
      /\ UNCHANGED <<kuma, cursor, cp, crashes, edits>>
  BY DEF Create
<1>2. opened \in Seq(Beats) /\ Len(opened) \in Nat /\ DOMAIN opened = 1..Len(opened)
  BY LenProperties DEF Shape, LedgerShape
<1>3. CASE h \in Recorded
  <2>1. UNCHANGED <<ledger, opened>> /\ Recorded \cup {h} = Recorded
    BY <1>3 DEF Create
  <2> QED BY <1>1, <1>2, <2>1, RecordShape DEF Shape, LedgerShape
<1>4. CASE h \notin Recorded
  <2>1. /\ opened' = Append(opened, h)
        /\ ledger' = [j \in Recorded \cup {h} |-> IF j = h THEN Len(opened) + 1 ELSE ledger[j]]
    BY <1>4 DEF Create
  <2>2. /\ opened' \in Seq(Beats) /\ Len(opened') = Len(opened) + 1
        /\ DOMAIN opened' = 1..(Len(opened) + 1)
    BY <1>2, <2>1, AppendProperties, LenProperties
  <2>3. ledger' \in [Recorded \cup {h} -> 1..Len(opened')]
    BY <1>2, <2>1, <2>2, LedgerGrows DEF Shape
  <2>4. DOMAIN opened \subseteq DOMAIN opened'
    BY <1>2, <2>2
  <2> QED BY <1>1, <2>2, <2>3, <2>4, RecordShape
<1> QED BY <1>3, <1>4

(* So does one that it closes.                                              *)
LEMMA UpdateShape == ASSUME Shape, NEW h \in Beats, Update(h) PROVE Shape'
<1>1. /\ h \in Oldest(run.todo) /\ run' = [run EXCEPT !.pc = "commit"]
      /\ UNCHANGED <<kuma, opened, cursor, cp, crashes, edits>>
      /\ ledger' = [j \in Recorded \cup {h} |->
                      IF j \in Recorded THEN ledger[j] ELSE cp[Mon(h)].inc]
      /\ Reopens(h) \/ Closes(h)
  BY DEF Update
<1>2. opened \in Seq(Beats) /\ Len(opened) \in Nat /\ DOMAIN opened = 1..Len(opened)
  BY LenProperties DEF Shape, LedgerShape
<1>3. cp[Mon(h)].inc \in 1..Len(opened)
  <2>1. cp[Mon(h)].inc # None
    BY <1>1 DEF Reopens, Closes, Opens
  <2> QED BY <1>2, <2>1, LogFacts, CheckpointFacts DEF Shape
<1>4. ledger' \in [Recorded \cup {h} -> 1..Len(opened')]
  BY <1>1, <1>2, <1>3, LedgerGrows DEF Shape
<1>5. UNCHANGED <<kuma, cursor, cp, crashes, edits>> /\ opened' = opened
  BY <1>1
<1> QED BY <1>1, <1>2, <1>4, <1>5, RecordShape

(* The checkpoint a heartbeat leaves: it never goes back.                  *)
LEMMA AfterFacts ==
  ASSUME Shape, NEW h \in Beats, Opens(h) => h \in Recorded
  PROVE  /\ After(h) \in Checkpoints
         /\ After(h).last = IF Seen(h) THEN cp[Mon(h)].last ELSE h
<1> DEFINE c == cp[Mon(h)]
<1>1. /\ Mon(h) \in Monitors /\ log[h].time \in Nat
      /\ c \in Checkpoints /\ c.last \in Beats \cup {0} /\ c.down \in BOOLEAN
      /\ c.inc \in DOMAIN opened \cup {None} /\ c.rec \in Nat \cup {NoTime}
  BY LogFacts, CheckpointFacts DEF Shape
<1>2. Opens(h) => ledger[h] \in DOMAIN opened
  BY LenProperties DEF Shape, LedgerShape
<1>3. CASE Seen(h)
  BY <1>1, <1>3 DEF After
<1>4. CASE ~Seen(h) /\ IsDown(h)
  <2> DEFINE i == IF Opens(h) THEN ledger[h] ELSE c.inc
  <2>1. After(h) = [last |-> h, down |-> TRUE, rec |-> NoTime, inc |-> i]
    BY <1>4 DEF After
  <2>2. i \in DOMAIN opened \cup {None}
    BY <1>1, <1>2
  <2> HIDE DEF i
  <2> QED BY <1>4, <2>1, <2>2 DEF Checkpoints
<1>5. CASE ~Seen(h) /\ ~IsDown(h) /\ IsUp(h)
  <2> DEFINE t == IF Closes(h) THEN log[h].time ELSE c.rec
  <2>1. After(h) = [c EXCEPT !.last = h, !.down = FALSE, !.rec = t]
    BY <1>5 DEF After
  <2>2. t \in Nat \cup {NoTime}
    BY <1>1
  <2> HIDE DEF t, c
  <2> QED BY <1>1, <1>5, <2>1, <2>2 DEF Checkpoints
<1>6. CASE ~Seen(h) /\ ~IsDown(h) /\ ~IsUp(h)
  <2>1. After(h) = [c EXCEPT !.last = h]
    BY <1>6 DEF After
  <2> HIDE DEF c
  <2> QED BY <1>1, <1>6, <2>1 DEF Checkpoints
<1> QED BY <1>3, <1>4, <1>5, <1>6

(* At a commit the heartbeat is the oldest of the run, in the ledger when  *)
(* it opens an incident, and the run goes on without it.                   *)
LEMMA CommitFacts ==
  ASSUME Shape, NEW h \in Beats, Commit(h)
  PROVE  /\ h \in run.todo /\ \A j \in run.todo : h <= j
         /\ Opens(h) => h \in Recorded
         /\ cp' \in [Monitors -> Checkpoints]
         /\ cp'[Mon(h)] = After(h) /\ After(h) \in Checkpoints
         /\ \A m \in Monitors : m # Mon(h) => cp'[m] = cp[m]
         /\ \A m \in Monitors : cp[m].last <= cp'[m].last
         /\ h <= cp'[Mon(h)].last
         /\ run' = [run EXCEPT !.pc = "next", !.todo = run.todo \ {h}]
         /\ run'.pc = "next" /\ run'.todo = run.todo \ {h} /\ run'.top = run.top
         /\ run'.mark = run.mark /\ run'.delta = run.delta /\ run'.on = run.on
         /\ UNCHANGED <<log, active, live, gone, ledger, opened, crashes, edits>>
<1>1. /\ h \in run.todo /\ \A j \in run.todo : h <= j
      /\ cp' = [cp EXCEPT ![Mon(h)] = After(h)]
      /\ run' = [run EXCEPT !.pc = "next", !.todo = run.todo \ {h}]
      /\ UNCHANGED <<log, active, live, gone, ledger, opened, crashes, edits>>
  BY DEF Commit, Oldest, kuma
<1>2. Opens(h) => h \in Recorded
  BY DEF Commit, Shape, RunShape
<1>3. After(h) \in Checkpoints /\ After(h).last = IF Seen(h) THEN cp[Mon(h)].last ELSE h
  BY <1>2, AfterFacts
<1>4. cp \in [Monitors -> Checkpoints] /\ Mon(h) \in Monitors
  BY LogFacts DEF Shape, CheckShape
<1>5. /\ cp' \in [Monitors -> Checkpoints] /\ cp'[Mon(h)] = After(h)
      /\ \A m \in Monitors : m # Mon(h) => cp'[m] = cp[m]
  BY <1>1, <1>3, <1>4
<1>6. /\ \A m \in Monitors : cp[m].last \in Int
      /\ h \in Int
  <2>1. \A k \in Beats \cup {0} : k \in Int
    BY LogFacts DEF Shape, Beats
  <2> QED BY <2>1, CheckpointFacts DEF Shape
<1>7. cp[Mon(h)].last <= After(h).last /\ h <= After(h).last
  BY <1>3, <1>4, <1>6 DEF Seen
<1>8. h <= cp'[Mon(h)].last /\ \A m \in Monitors : cp[m].last <= cp'[m].last
  BY <1>4, <1>5, <1>6, <1>7
<1>9. /\ run'.pc = "next" /\ run'.todo = run.todo \ {h} /\ run'.top = run.top
      /\ run'.mark = run.mark /\ run'.delta = run.delta /\ run'.on = run.on
  BY <1>1 DEF Shape, RunShape
<1> QED BY <1>1, <1>2, <1>3, <1>5, <1>8, <1>9

(* So does the transaction that ends the handling of a heartbeat.           *)
LEMMA CommitShape == ASSUME Shape, NEW h \in Beats, Commit(h) PROVE Shape'
<1>1. UNCHANGED <<log, active, live, gone, ledger, opened, crashes, edits>>
  BY CommitFacts
<1>2. KumaShape' /\ LedgerShape'
  BY <1>1, Kept DEF Shape, KumaShape, LedgerShape
<1>3. CheckShape'
  <2>1. cursor' \in Beats \cup {0, NoCursor}
    BY DEF Commit, Shape, CheckShape
  <2> QED BY <1>1, <2>1, Kept, CommitFacts DEF CheckShape
<1>4. RunShape'
  <2>1. run' = [run EXCEPT !.pc = "next", !.todo = run.todo \ {h}] /\ run'.pc = "next"
    BY CommitFacts
  <2>2. run' \in [pc : {"idle", "next", "commit"}, todo : SUBSET Beats, top : Beats \cup {0},
                mark : Beats \cup {0}, delta : BOOLEAN, on : SUBSET Monitors]
    BY <2>1 DEF Shape, RunShape
  <2> QED BY <1>1, <2>1, <2>2, Kept DEF RunShape
<1> QED BY <1>2, <1>3, <1>4 DEF Shape

(* A run ends, finished or failed.                                         *)
LEMMA EndShape ==
  ASSUME Shape, run' = Idle, cursor' \in Beats \cup {0, NoCursor}, crashes' \in Nat,
         UNCHANGED <<kuma, ledger, opened, cp, edits>>
  PROVE  Shape'
<1>1. UNCHANGED <<log, active, live, gone, ledger, opened, cp, edits>>
  BY DEF kuma
<1>2. KumaShape' /\ LedgerShape' /\ CheckShape'
  BY <1>1, Kept DEF Shape, KumaShape, LedgerShape, CheckShape
<1>3. RunShape'
  BY DEF RunShape, Idle
<1> QED BY <1>2, <1>3 DEF Shape

(* Every step keeps the shape.                                              *)
LEMMA NextShape == Shape /\ [Next]_vars => Shape'
<1> SUFFICES ASSUME Shape, [Next]_vars PROVE Shape'
  OBVIOUS
<1>1. ASSUME NEW m \in Monitors, NEW s \in Statuses, NEW gap \in 0..MaxGap, Beat(m, s, gap)
      PROVE  Shape'
  BY <1>1, BeatShape
<1>2. ASSUME NEW m \in Monitors, Pause(m) \/ Resume(m) \/ Delete(m) \/ Purge(m) PROVE Shape'
  BY <1>2, EditShape
<1>3. CASE Fetch
  BY <1>3, FetchShape
<1>4. ASSUME NEW h \in Beats, Create(h) PROVE Shape'
  BY <1>4, CreateShape
<1>5. ASSUME NEW h \in Beats, Update(h) PROVE Shape'
  BY <1>5, UpdateShape
<1>6. ASSUME NEW h \in Beats, Commit(h) PROVE Shape'
  BY <1>6, CommitShape
<1>7. CASE Finish
  <2>1. cursor' \in Beats \cup {0, NoCursor}
    BY <1>7 DEF Finish, Shape, RunShape
  <2> QED BY <1>7, <2>1, EndShape DEF Finish, Shape, KumaShape
<1>8. CASE Crash
  <2>1. cursor' \in Beats \cup {0, NoCursor} /\ crashes' \in Nat
    BY <1>8 DEF Crash, Shape, CheckShape, KumaShape
  <2> QED BY <1>8, <2>1, EndShape DEF Crash
<1>9. CASE UNCHANGED vars
  <2>1. Oldest(run.todo)' = Oldest(run.todo)
    BY <1>9 DEF vars, Oldest
  <2> QED BY <1>9, <2>1, Kept
      DEF vars, kuma, Shape, KumaShape, LedgerShape, CheckShape, RunShape
<1>10. Refuse => UNCHANGED vars
  BY DEF Refuse
<1> QED BY <1>1, <1>2, <1>3, <1>4, <1>5, <1>6, <1>7, <1>8, <1>9, <1>10
    DEF Next, World, Run, Statuses

(* The follower is always well shaped.                                      *)
LEMMA ShapeAlways == Spec => []Shape
<1>1. Init => Shape
  BY InitShape
<1>2. Shape /\ [Next]_vars => Shape'
  BY NextShape
<1> QED BY <1>1, <1>2, PTL DEF Spec

(* The shape implies the type invariant of the module.                      *)
LEMMA ShapeIsTypeOK == Shape => TypeOK
<1> SUFFICES ASSUME Shape PROVE TypeOK
  OBVIOUS
<1>1. \A h \in Beats \cup {0} : h \in Nat
  BY LogFacts DEF Beats, Shape
<1>2. /\ run.pc \in {"idle", "next", "commit"} /\ run.todo \subseteq Beats
      /\ run.top \in Nat /\ run.mark \in Nat /\ run.delta \in BOOLEAN /\ run.on \subseteq Monitors
  BY <1>1 DEF Shape, RunShape
<1>3. Recorded \subseteq Beats /\ (\A h \in Recorded : ledger[h] \in 1..Len(opened))
      /\ opened \in Seq(Beats)
  BY DEF Shape, LedgerShape
<1>4. log \in Seq([mon : Monitors, status : {"down", "up", "pending"}, time : Nat])
  BY DEF Shape, KumaShape, Heartbeat, Statuses
<1> QED BY <1>2, <1>3, <1>4 DEF Shape, KumaShape, CheckShape, TypeOK

(* Every reachable state of the log, the ledger, the checkpoints and the   *)
(* run has its type: the checkpoint a heartbeat leaves names an incident   *)
(* there is, and none is committed before the writer's answer.             *)
THEOREM TypeCorrect == Spec => []TypeOK
BY ShapeAlways, ShapeIsTypeOK, PTL

-----------------------------------------------------------------------------
(* Nothing is skipped.  What a run will set the cursor to, and what it     *)
(* still has to take in before it may.                                     *)

Target ==
  IF ~run.delta \/ run.top = 0 \/ run.top >= run.mark THEN run.mark ELSE run.top

(* Every heartbeat up to the target is taken in, or one of its monitor     *)
(* that is as new is still to come.                                        *)
Covers ==
  \A j \in Beats : j <= Target =>
    j <= cp[Mon(j)].last \/ \E h \in run.todo : Mon(h) = Mon(j) /\ j <= h

(* An incremental run moves the cursor heartbeat by heartbeat, so none     *)
(* below one still to come may be missing.                                 *)
InOrder ==
  run.delta => \A h \in run.todo, j \in Beats :
    j <= h => j <= cp[Mon(j)].last \/ j \in run.todo

CoverInv ==
  /\ NothingSkipped
  /\ live = Monitors /\ run.pc # "idle" => Covers /\ InOrder

(* Deleted monitors stay deleted.                                          *)
LEMMA LiveShrinks == Shape /\ [Next]_vars => (live' = Monitors => live = Monitors)
<1> SUFFICES ASSUME Shape, [Next]_vars, live' = Monitors PROVE live = Monitors
  OBVIOUS
<1>1. ASSUME NEW m \in Monitors, Pause(m) \/ Resume(m) \/ Delete(m) \/ Purge(m)
      PROVE  live = Monitors
  BY <1>1 DEF Pause, Resume, Delete, Purge, Edit, Shape, KumaShape
<1>2. live' = live => live = Monitors
  OBVIOUS
<1> QED BY <1>1, <1>2 DEF Next, World, Run, Beat, Fetch, Refuse, Create, Update, Commit, Finish,
                          Crash, kuma, vars

(* The marks of a run are within the log.                                  *)
LEMMA TargetFacts ==
  ASSUME Shape
  PROVE  /\ Target \in Beats \cup {0}
         /\ \A j \in Beats : j \in Nat /\ j # 0 /\ j <= Len(log)
         /\ \A m \in Monitors : cp[m].last \in Nat
<1>1. \A j \in Beats : j \in Nat /\ j # 0 /\ j <= Len(log)
  BY LogFacts DEF Shape, Beats
<1>2. Target \in Beats \cup {0}
  BY DEF Shape, RunShape, Target
<1>3. \A m \in Monitors : cp[m].last \in Nat
  <2>1. \A m \in Monitors : cp[m].last \in Beats \cup {0}
    BY CheckpointFacts DEF Shape
  <2> QED BY <1>1, <2>1
<1> QED BY <1>1, <1>2, <1>3

(* At the start nothing lies behind the cursor.                             *)
LEMMA InitCovers == Init => CoverInv
<1> SUFFICES ASSUME Init PROVE CoverInv
  OBVIOUS
<1>1. Beats = {} /\ run.pc = "idle"
  BY DEF Init, Beats, Idle
<1> QED BY <1>1 DEF CoverInv, NothingSkipped

(* A new heartbeat lies ahead of the cursor and of the batch.               *)
LEMMA BeatCovers ==
  ASSUME Shape, CoverInv, live = Monitors,
         NEW m \in Monitors, NEW s \in Statuses, NEW gap \in 0..MaxGap, Beat(m, s, gap)
  PROVE  CoverInv'
<1>1. /\ Beats' = Beats \cup {Len(log) + 1} /\ \A h \in Beats : Mon(h)' = Mon(h)
      /\ UNCHANGED <<live, cursor, cp, run>>
  BY BeatFacts DEF Beat, Shape
<1>2. ASSUME NEW k \in Beats \cup {0, NoCursor} PROVE ~(Len(log) + 1 <= k)
  BY TargetFacts, LogFacts DEF Shape, NoCursor
<1>3. Target' = Target /\ run.todo \subseteq Beats
  BY <1>1 DEF Target, Shape, RunShape
<1>4. NothingSkipped'
  <2>1. ~(Len(log) + 1 <= cursor)
    BY <1>2 DEF Shape, CheckShape
  <2> QED BY <1>1, <2>1 DEF CoverInv, NothingSkipped
<1>5. Covers => Covers'
  <2>1. ~(Len(log) + 1 <= Target)
    BY <1>2, TargetFacts
  <2> QED BY <1>1, <1>3, <2>1 DEF Covers
<1>6. InOrder => InOrder'
  <2>1. \A h \in run.todo : ~(Len(log) + 1 <= h)
    BY <1>2, <1>3
  <2> QED BY <1>1, <1>3, <2>1 DEF InOrder
<1> QED BY <1>1, <1>4, <1>5, <1>6 DEF CoverInv

(* A baseline run reads the newest heartbeat of every monitor, and an      *)
(* incremental one all heartbeats from the cursor to the last it reads.    *)
LEMMA FetchCovers ==
  ASSUME Shape, CoverInv, live = Monitors, Fetch
  PROVE  CoverInv'
<1> DEFINE delta == cursor # NoCursor
           rows == IF delta THEN BatchRows ELSE BaseRows
<1>1. /\ run' = [pc |-> "next", todo |-> run'.todo, top |-> run'.top, mark |-> Watermark,
                delta |-> delta, on |-> active]
      /\ run'.todo = {h \in rows : Mon(h) \in live} /\ run'.todo \subseteq Beats
      /\ run'.todo = {} => run'.top = 0
      /\ run'.todo # {} => run'.top \in Newest(run'.todo)
      /\ run'.top \in Beats \cup {0}
      /\ UNCHANGED <<log, active, live, gone, ledger, opened, cursor, cp, crashes, edits>>
  BY FetchFacts DEF kuma
<1>2. run'.mark = Watermark /\ run'.delta = delta /\ run'.pc = "next"
  <2> HIDE DEF delta
  <2> QED BY <1>1
<1>3. Rows = Beats /\ \A h \in Beats : Mon(h) \in Monitors
  BY LogFacts DEF Shape, KumaShape, Rows
<1>4. run'.todo = rows
  <2>1. rows \subseteq Beats
    BY <1>3, RowFacts DEF Shape
  <2> HIDE DEF rows
  <2> QED BY <1>1, <1>3, <2>1
<1>5. Beats' = Beats /\ \A h \in Beats : Mon(h)' = Mon(h)
  BY <1>1, Kept
<1>6. NothingSkipped'
  BY <1>1, <1>5 DEF CoverInv, NothingSkipped
<1>7. CASE delta
  <2>1. rows = BatchRows
    BY <1>7
  <2>2. cursor \in Int /\ run'.todo = BatchRows
    BY <1>4, <2>1 DEF Shape, CheckShape, Beats, NoCursor
  <2>3. /\ \A h \in BatchRows, j \in Beats : cursor < j /\ j <= h => j \in BatchRows
        /\ BatchRows = {} => \A h \in Beats : h <= cursor
    BY <1>3, <2>2, BatchIsPrefix DEF Shape
  <2>4. \A j \in Beats : j <= cursor => j <= cp[Mon(j)].last
    BY DEF CoverInv, NothingSkipped
  <2>5. \A h \in BatchRows, j \in Beats : j <= h => j <= cp[Mon(j)].last \/ j \in BatchRows
    BY <2>2, <2>3, <2>4, TargetFacts
  <2>6. InOrder'
    BY <1>1, <1>5, <2>2, <2>5 DEF InOrder
  <2>7. Covers'
    <3> SUFFICES ASSUME NEW j \in Beats, j <= Target'
                 PROVE  j <= cp[Mon(j)].last \/ \E h \in BatchRows : Mon(h) = Mon(j) /\ j <= h
      BY <1>1, <1>5, <2>2 DEF Covers
    <3>1. CASE run'.top = 0
      <4>1. BatchRows = {}
        BY <1>1, <2>2, <3>1, TargetFacts DEF Newest
      <4> QED BY <2>3, <2>4, <4>1
    <3>2. CASE run'.top # 0
      <4>1. run'.top \in BatchRows
        BY <1>1, <2>2, <3>2 DEF Newest
      <4>2. j <= run'.top
        <5>1. run'.top \in Nat /\ run'.mark \in Nat /\ j \in Nat
          BY <1>1, <1>2, TargetFacts, RowFacts DEF Shape
        <5>2. Target' = IF run'.top >= run'.mark THEN run'.mark ELSE run'.top
          BY <1>2, <1>7, <3>2 DEF Target
        <5> QED BY <5>1, <5>2
      <4>3. j <= cp[Mon(j)].last \/ j \in BatchRows
        BY <2>5, <4>1, <4>2
      <4> QED BY <4>3, TargetFacts
    <3> QED BY <3>1, <3>2
  <2> QED BY <1>6, <2>6, <2>7 DEF CoverInv
<1>8. CASE ~delta
  <2>1. rows = BaseRows /\ ~run'.delta
    BY <1>2, <1>8
  <2>2. InOrder'
    BY <2>1 DEF InOrder
  <2>3. Covers'
    <3> SUFFICES ASSUME NEW j \in Beats
                 PROVE  \E h \in BaseRows : Mon(h) = Mon(j) /\ j <= h
      BY <1>1, <1>4, <1>5, <2>1 DEF Covers
    <3> DEFINE S == {h \in Rows : Mon(h) = Mon(j)}
    <3>1. S \in SUBSET (1..Len(log)) /\ S # {} /\ j \in S
      <4>1. \A h \in S : h \in 1..Len(log)
        BY RowFacts DEF Shape
      <4>2. j \in S
        BY <1>3
      <4> QED BY <4>1, <4>2
    <3>2. PICK h \in S : \A k \in S : k <= h
      <4> HIDE DEF S
      <4> QED BY <3>1, HasNewest, LogFacts DEF Shape
    <3>3. h \in Newest(S) /\ j <= h
      BY <3>1, <3>2 DEF Newest
    <3>4. h \in BaseRows
      BY <1>3, <3>3 DEF BaseRows
    <3> QED BY <3>2, <3>3, <3>4
  <2> QED BY <1>6, <2>2, <2>3 DEF CoverInv
<1> QED BY <1>7, <1>8

(* A commit moves the cursor over the heartbeat that it took in.            *)
LEMMA CommitCovers ==
  ASSUME Shape, CoverInv, live = Monitors, NEW h \in Beats, Commit(h)
  PROVE  CoverInv'
<1>1. /\ h \in run.todo /\ \A j \in run.todo : h <= j
      /\ \A m \in Monitors : cp[m].last <= cp'[m].last
      /\ cp' \in [Monitors -> Checkpoints]
      /\ h <= cp'[Mon(h)].last
      /\ run'.todo = run.todo \ {h} /\ run'.top = run.top
      /\ run'.mark = run.mark /\ run'.delta = run.delta
      /\ UNCHANGED <<log, active, live, gone, ledger, opened, crashes, edits>>
  BY CommitFacts
<1>2. /\ Beats' = Beats /\ \A j \in Beats : Mon(j)' = Mon(j) /\ Mon(j) \in Monitors
      /\ run.todo \subseteq Beats /\ Target' = Target
  BY <1>1, Kept, LogFacts DEF Shape, RunShape, Target
<1>3. \A m \in Monitors : cp[m].last \in Nat /\ cp'[m].last \in Nat
  <2>1. \A m \in Monitors : cp'[m].last \in Beats \cup {0}
    BY <1>1 DEF Checkpoints
  <2> QED BY <2>1, TargetFacts
<1>4. ASSUME NEW j \in Beats, j <= cp[Mon(j)].last PROVE j <= cp'[Mon(j)].last
  BY <1>1, <1>2, <1>3, <1>4, TargetFacts
<1>5. ASSUME NEW j \in Beats, Mon(j) = Mon(h), j <= h PROVE j <= cp'[Mon(j)].last
  BY <1>1, <1>2, <1>3, <1>5, TargetFacts
<1>6. Covers /\ InOrder /\ \A j \in Beats : j <= cursor => j <= cp[Mon(j)].last
  BY DEF CoverInv, NothingSkipped, Commit
<1>7. Covers'
  <2> SUFFICES ASSUME NEW j \in Beats, j <= Target, ~(j <= cp'[Mon(j)].last)
               PROVE  \E k \in run'.todo : Mon(k) = Mon(j) /\ j <= k
    BY <1>1, <1>2 DEF Covers
  <2>1. PICK k \in run.todo : Mon(k) = Mon(j) /\ j <= k
    BY <1>4, <1>6 DEF Covers
  <2>2. k # h
    BY <1>5, <2>1
  <2> QED BY <1>1, <2>1, <2>2
<1>8. InOrder'
  <2> SUFFICES ASSUME run.delta, NEW k \in run.todo \ {h}, NEW j \in Beats, j <= k,
                      ~(j <= cp'[Mon(j)].last)
               PROVE  j \in run.todo \ {h}
    BY <1>1, <1>2 DEF InOrder
  <2>1. j \in run.todo
    BY <1>4, <1>6 DEF InOrder
  <2>2. j # h
    BY <1>5, TargetFacts
  <2> QED BY <2>1, <2>2
<1>9. NothingSkipped'
  <2> SUFFICES ASSUME NEW j \in Beats, j <= cursor' PROVE j <= cp'[Mon(j)].last
    BY <1>1, <1>2 DEF NothingSkipped
  <2>1. CASE ~run.delta
    BY <1>4, <1>6, <2>1 DEF Commit
  <2>2. CASE run.delta
    <3>1. j <= h
      BY <2>2 DEF Commit
    <3>2. j <= cp[Mon(j)].last \/ j \in run.todo
      BY <1>1, <1>6, <2>2, <3>1 DEF InOrder
    <3>3. j \in run.todo => j = h
      BY <1>1, <3>1, TargetFacts
    <3> QED BY <1>4, <1>5, <3>2, <3>3, TargetFacts
  <2> QED BY <2>1, <2>2 DEF Shape, RunShape
<1> QED BY <1>7, <1>8, <1>9 DEF CoverInv

(* Every step keeps what the cursor covers.                                 *)
LEMMA NextCovers == Shape /\ CoverInv /\ [Next]_vars => CoverInv'
<1> SUFFICES ASSUME Shape, CoverInv, [Next]_vars, live' = Monitors PROVE CoverInv'
  BY DEF CoverInv, NothingSkipped
<1> live = Monitors
  BY LiveShrinks
<1>1. ASSUME NEW m \in Monitors, NEW s \in Statuses, NEW gap \in 0..MaxGap, Beat(m, s, gap)
      PROVE  CoverInv'
  BY <1>1, BeatCovers
<1>2. ASSUME UNCHANGED <<log, ledger, opened, cursor, cp>>,
             UNCHANGED <<run.todo, run.top, run.mark, run.delta>>,
             run.pc = "idle" => run'.pc = "idle"
      PROVE  CoverInv'
  <2>1. /\ Beats' = Beats /\ \A j \in Beats : Mon(j)' = Mon(j)
        /\ Target' = Target /\ run.todo' = run.todo /\ run.todo \subseteq Beats
    BY <1>2, Kept DEF Target, Shape, RunShape
  <2> QED BY <1>2, <2>1 DEF CoverInv, NothingSkipped, Covers, InOrder
<1>3. ASSUME NEW m \in Monitors, Pause(m) \/ Resume(m) \/ Delete(m) \/ Purge(m) PROVE CoverInv'
  BY <1>2, <1>3 DEF Pause, Resume, Delete, Purge, Edit
<1>4. CASE Fetch
  BY <1>4, FetchCovers
<1>5. ASSUME NEW h \in Beats, Create(h) \/ Update(h) PROVE CoverInv'
  <2>1. /\ UNCHANGED <<run.todo, run.top, run.mark, run.delta>>
        /\ UNCHANGED <<log, live, cursor, cp>> /\ run.pc # "idle"
    BY <1>5 DEF Create, Update, kuma, Shape, RunShape
  <2>2. /\ Beats' = Beats /\ \A j \in Beats : Mon(j)' = Mon(j)
        /\ Target' = Target /\ run.todo \subseteq Beats
    BY <2>1 DEF Beats, Mon, Target, Shape, RunShape
  <2> QED BY <2>1, <2>2 DEF CoverInv, NothingSkipped, Covers, InOrder
<1>6. ASSUME NEW h \in Beats, Commit(h) PROVE CoverInv'
  BY <1>6, CommitCovers
<1>7. CASE Finish
  <2>1. /\ cursor' = Target /\ run'.pc = "idle" /\ run.todo = {} /\ run.pc # "idle"
        /\ UNCHANGED <<log, ledger, opened, cp, live>>
    BY <1>7 DEF Finish, Target, Idle, kuma
  <2>2. \A j \in Beats : j <= Target => j <= cp[Mon(j)].last
    BY <2>1 DEF CoverInv, Covers
  <2> QED BY <2>1, <2>2, Kept DEF CoverInv, NothingSkipped
<1>8. CASE Crash
  <2>1. run'.pc = "idle" /\ UNCHANGED <<log, ledger, opened, cursor, cp, live>>
    BY <1>8 DEF Crash, Idle, kuma
  <2> QED BY <2>1, Kept DEF CoverInv, NothingSkipped
<1>9. CASE UNCHANGED vars \/ Refuse
  BY <1>2, <1>9 DEF Refuse, vars, kuma
<1> QED BY <1>1, <1>3, <1>4, <1>5, <1>6, <1>7, <1>8, <1>9
    DEF Next, World, Run, Statuses

(* What lies behind the cursor is always covered.                           *)
LEMMA CoversAlways == Spec => []CoverInv
<1>1. Init => CoverInv
  BY InitCovers
<1>2. Shape /\ CoverInv /\ [Next]_vars => CoverInv'
  BY NextCovers
<1> QED BY <1>1, <1>2, ShapeAlways, PTL DEF Spec

(* While no monitor is deleted no heartbeat the cursor has passed lacks    *)
(* its checkpoint: whatever the batch limit cut off, a crash left half     *)
(* done or the baseline found is taken in before the cursor moves past it. *)
THEOREM NothingIsSkipped == Spec => []NothingSkipped
BY CoversAlways, PTL DEF CoverInv

-----------------------------------------------------------------------------
(* Exactly once, from an initial cursor on and while no monitor is edited. *)

Follows ==
  /\ active = Monitors /\ live = Monitors
  /\ cursor # NoCursor
  /\ run.pc # "idle" => run.delta /\ run.on = Monitors

(* h is the first heartbeat of its monitor without a checkpoint.           *)
FirstUnseen(h) ==
  ~Seen(h) /\ \A j \in Beats : Mon(j) = Mon(h) /\ ~Seen(j) => h <= j

(* h asks the same of the writer when it is read again, and the writer's   *)
(* answer is the incident the checkpoint will name.                        *)
AsksAgain(h) ==
  LET c == cp[Mon(h)]
  IN  \/ /\ log[h].status = "down"
         /\ c.inc = None \/ (~c.down /\ c.rec # NoTime /\ log[h].time - c.rec >= Grace)
      \/ /\ \/ log[h].status = "down" /\ ~c.down
            \/ log[h].status = "up" /\ c.down
         /\ c.inc # None /\ ledger[h] = c.inc

AheadInv == \A h \in Recorded : ~Seen(h) => FirstUnseen(h) /\ AsksAgain(h)

DownInv == \A m \in Monitors : cp[m].down => cp[m].rec = NoTime

WaitInv == run.pc = "commit" => \A h \in Oldest(run.todo) : ~Seen(h)

FollowInv == Follows /\ AheadInv /\ DownInv /\ WaitInv

(* Without edits the monitors stay as they are, and every run reads on     *)
(* from the cursor.                                                        *)
LEMMA NextFollows ==
  ASSUME MaxEdits = 0, Shape, Follows, [Next]_vars
  PROVE  Follows' /\ UNCHANGED <<active, live, gone>>
<1>1. edits \in Nat /\ gone = {} /\ cursor \in Beats \cup {0, NoCursor}
  BY DEF Follows, Shape, KumaShape, CheckShape
<1>2. ASSUME NEW m \in Monitors, Pause(m) \/ Resume(m) \/ Delete(m) \/ Purge(m) PROVE FALSE
  BY <1>1, <1>2 DEF Pause, Resume, Delete, Purge, Edit, Follows
<1>3. CASE Fetch
  <2> DEFINE delta == cursor # NoCursor
  <2>1. /\ run' = [pc |-> "next", todo |-> run'.todo, top |-> run'.top, mark |-> Watermark,
                  delta |-> delta, on |-> active]
        /\ UNCHANGED <<active, live, gone, cursor>>
    BY <1>3, FetchFacts DEF kuma
  <2>2. run'.delta = delta /\ run'.on = active
    <3> HIDE DEF delta
    <3> QED BY <2>1
  <2> QED BY <2>1, <2>2 DEF Follows
<1>4. ASSUME NEW h \in Beats, Create(h) \/ Update(h) \/ Commit(h)
      PROVE  Follows' /\ UNCHANGED <<active, live, gone>>
  <2>1. run'.delta = run.delta /\ run'.on = run.on /\ UNCHANGED <<active, live, gone>>
    BY <1>4 DEF Create, Update, Commit, Shape, RunShape, kuma
  <2>2. run.pc # "idle" /\ cursor' # NoCursor
    BY <1>1, <1>4, TargetFacts DEF Create, Update, Commit, Follows, NoCursor
  <2> QED BY <2>1, <2>2 DEF Follows
<1>5. CASE Finish
  <2>1. cursor' = Target
    BY <1>5 DEF Finish, Target
  <2>2. cursor' # NoCursor
    BY <2>1, TargetFacts DEF NoCursor
  <2> QED BY <1>5, <2>2 DEF Finish, Follows, Idle, kuma
<1>6. CASE Crash
  BY <1>6 DEF Crash, Follows, Idle, kuma
<1>7. CASE UNCHANGED <<active, live, gone, cursor, run>>
  BY <1>7 DEF Follows
<1> QED BY <1>2, <1>3, <1>4, <1>5, <1>6, <1>7
    DEF Next, World, Run, Beat, Refuse, vars, kuma

(* The heartbeat a run is at is the next of its monitor.                   *)
LEMMA AtNextIn ==
  ASSUME Shape, CoverInv, Follows, run.pc # "idle", NEW h \in Oldest(run.todo), ~Seen(h)
  PROVE  FirstUnseen(h)
<1>1. h \in run.todo /\ (\A j \in run.todo : h <= j) /\ h \in Beats
  BY DEF Oldest, Shape, RunShape
<1>2. ASSUME NEW j \in Beats, Mon(j) = Mon(h), ~Seen(j), ~(h <= j) PROVE FALSE
  <2>1. j <= h
    BY <1>1, <1>2, TargetFacts
  <2>2. j \in run.todo
    BY <1>1, <1>2, <2>1 DEF CoverInv, InOrder, Follows, Seen
  <2> QED BY <1>1, <1>2, <2>2
<1> QED BY <1>2 DEF FirstUnseen

(* What a heartbeat asks for depends on its status only.                   *)
LEMMA AskFacts ==
  ASSUME Shape, Follows, run.pc # "idle", NEW h \in Beats
  PROVE  /\ Mon(h) \in Monitors
         /\ IsDown(h) <=> log[h].status = "down"
         /\ IsUp(h) <=> log[h].status = "up"
         /\ log[h].status \in Statuses
         /\ h \in Recorded /\ ~Seen(h) /\ AheadInv => Opens(h) \/ Reopens(h) \/ Closes(h)
<1>1. Mon(h) \in Monitors /\ log[h].status \in Statuses
  BY LogFacts DEF Shape
<1>2. (IsDown(h) <=> log[h].status = "down") /\ (IsUp(h) <=> log[h].status = "up")
  BY <1>1 DEF Follows, IsDown, IsUp
<1>3. h \in Recorded /\ ~Seen(h) /\ AheadInv => Opens(h) \/ Reopens(h) \/ Closes(h)
  BY <1>2 DEF AheadInv, AsksAgain, Opens, Reopens, Closes
<1> QED BY <1>1, <1>2, <1>3

(* At the start no incident is ahead of its checkpoint.                     *)
LEMMA InitFollows == StartCursor = 0 /\ Init => FollowInv
<1> SUFFICES ASSUME StartCursor = 0, Init PROVE FollowInv
  OBVIOUS
<1>1. Recorded = {}
  BY DEF Init, Recorded
<1>2. Follows /\ WaitInv
  BY DEF Init, Follows, WaitInv, Idle, NoCursor
<1>3. DownInv
  BY DEF Init, DownInv
<1> QED BY <1>1, <1>2, <1>3 DEF FollowInv, AheadInv

(* A new heartbeat is newer than all that were recorded.                   *)
LEMMA BeatFollows ==
  ASSUME Shape, AheadInv, DownInv, WaitInv,
         NEW m \in Monitors, NEW s \in Statuses, NEW gap \in 0..MaxGap, Beat(m, s, gap)
  PROVE  AheadInv' /\ DownInv' /\ WaitInv'
<1>1. /\ Beats' = Beats \cup {Len(log) + 1}
      /\ \A h \in Beats : log'[h] = log[h] /\ Mon(h)' = Mon(h)
      /\ UNCHANGED <<ledger, opened, cp, run>>
  BY BeatFacts DEF Beat, Shape
<1>2. Recorded' = Recorded /\ Recorded \subseteq Beats /\ run.todo \subseteq Beats
  BY <1>1 DEF Recorded, Shape, LedgerShape, RunShape
<1>3. \A h \in Beats : Seen(h)' = Seen(h)
  BY <1>1 DEF Seen
<1>4. \A h \in Beats : h <= Len(log) + 1
  BY TargetFacts, LogFacts DEF Shape
<1>5. AheadInv'
  <2> SUFFICES ASSUME NEW h \in Recorded, ~Seen(h) PROVE FirstUnseen(h)' /\ AsksAgain(h)'
    BY <1>2, <1>3 DEF AheadInv
  <2>1. FirstUnseen(h) /\ AsksAgain(h) /\ h \in Beats
    BY <1>2 DEF AheadInv
  <2>2. FirstUnseen(h)'
    BY <1>1, <1>3, <1>4, <2>1 DEF FirstUnseen
  <2>3. AsksAgain(h)'
    BY <1>1, <2>1 DEF AsksAgain
  <2> QED BY <2>2, <2>3
<1>6. DownInv'
  BY <1>1 DEF DownInv
<1>7. WaitInv'
  <2>1. Oldest(run.todo)' = Oldest(run.todo) /\ Oldest(run.todo) \subseteq Beats
    BY <1>1, <1>2 DEF Oldest
  <2> QED BY <1>1, <1>3, <2>1 DEF WaitInv
<1> QED BY <1>5, <1>6, <1>7

(* Nothing of it depends on a run that starts or ends.                     *)
LEMMA RunFollows ==
  ASSUME Shape, AheadInv, DownInv, UNCHANGED <<log, ledger, opened, cp>>, run'.pc # "commit"
  PROVE  AheadInv' /\ DownInv' /\ WaitInv'
<1>1. /\ Beats' = Beats /\ Recorded' = Recorded /\ Recorded \subseteq Beats
      /\ \A h \in Beats : Mon(h)' = Mon(h) /\ Seen(h)' = Seen(h)
  BY Kept DEF Shape, LedgerShape, Seen
<1>2. AheadInv'
  <2> SUFFICES ASSUME NEW h \in Recorded, ~Seen(h) PROVE FirstUnseen(h)' /\ AsksAgain(h)'
    BY <1>1 DEF AheadInv
  <2>1. FirstUnseen(h) /\ AsksAgain(h) /\ h \in Beats
    BY <1>1 DEF AheadInv
  <2>2. FirstUnseen(h)'
    BY <1>1, <2>1 DEF FirstUnseen
  <2>3. AsksAgain(h)'
    BY <1>1, <2>1 DEF AsksAgain
  <2> QED BY <2>2, <2>3
<1> QED BY <1>2 DEF DownInv, WaitInv

(* What the writer records of the heartbeat a run is at.                   *)
LEMMA RecordFacts ==
  ASSUME Shape, CoverInv, FollowInv, NEW h \in Beats, Create(h) \/ Update(h)
  PROVE  /\ h \in Oldest(run.todo) /\ FirstUnseen(h)
         /\ Recorded' = Recorded \cup {h}
         /\ \A j \in Recorded : ledger'[j] = ledger[j]
         /\ h \notin Recorded =>
              ledger'[h] = IF Opens(h) THEN Len(opened) + 1 ELSE cp[Mon(h)].inc
         /\ opened' = IF Opens(h) /\ h \notin Recorded THEN Append(opened, h) ELSE opened
         /\ run'.todo = run.todo /\ run.pc # "idle"
         /\ UNCHANGED <<log, active, live, gone, cursor, cp>>
<1>1. /\ h \in Oldest(run.todo) /\ ~Seen(h) /\ run.pc = "next"
      /\ run' = [run EXCEPT !.pc = "commit"]
      /\ UNCHANGED <<log, active, live, gone, cursor, cp>>
  BY DEF Create, Update, Opens, Reopens, Closes, kuma
<1>2. FirstUnseen(h)
  BY <1>1, AtNextIn DEF FollowInv
<1>3. run'.todo = run.todo
  BY <1>1 DEF Shape, RunShape
<1>4. Recorded' = Recorded \cup {h}
  BY DEF Recorded, Create, Update
<1>5. \A j \in Recorded : ledger'[j] = ledger[j]
  BY DEF Create, Update
<1>6. Create(h) => Opens(h)
  BY DEF Create
<1>7. Update(h) => ~Opens(h)
  BY DEF Update, Reopens, Closes, Opens, IsDown, IsUp
<1>8. /\ h \notin Recorded =>
           ledger'[h] = IF Opens(h) THEN Len(opened) + 1 ELSE cp[Mon(h)].inc
      /\ opened' = IF Opens(h) /\ h \notin Recorded THEN Append(opened, h) ELSE opened
  BY <1>6, <1>7 DEF Create, Update
<1> QED BY <1>1, <1>2, <1>3, <1>4, <1>5, <1>8

(* What the writer did is ahead of the checkpoint until the commit.         *)
LEMMA RecordFollows ==
  ASSUME Shape, CoverInv, FollowInv, NEW h \in Beats, Create(h) \/ Update(h)
  PROVE  AheadInv' /\ DownInv' /\ WaitInv'
<1>1. /\ h \in Oldest(run.todo) /\ FirstUnseen(h) /\ Recorded' = Recorded \cup {h}
      /\ \A j \in Recorded : ledger'[j] = ledger[j]
      /\ run'.todo = run.todo /\ run.pc # "idle" /\ UNCHANGED <<log, cp>>
  BY RecordFacts
<1>2. /\ Beats' = Beats /\ Recorded \subseteq Beats /\ run.todo \subseteq Beats
      /\ \A j \in Beats : Mon(j)' = Mon(j) /\ Seen(j)' = Seen(j)
  BY <1>1 DEF Beats, Mon, Seen, Shape, LedgerShape, RunShape
<1>3. \A j \in Beats : FirstUnseen(j)' = FirstUnseen(j)
  BY <1>2 DEF FirstUnseen
<1>4. ASSUME NEW j \in Recorded, ~Seen(j) PROVE FirstUnseen(j)' /\ AsksAgain(j)'
  <2>1. FirstUnseen(j) /\ AsksAgain(j) /\ j \in Beats
    BY <1>2, <1>4 DEF FollowInv, AheadInv
  <2>2. AsksAgain(j)'
    BY <1>1, <1>2, <2>1 DEF AsksAgain
  <2> QED BY <1>3, <2>1, <2>2
<1>5. ASSUME h \notin Recorded PROVE FirstUnseen(h)' /\ AsksAgain(h)'
  <2>1. ledger'[h] = IF Opens(h) THEN Len(opened) + 1 ELSE cp[Mon(h)].inc
    BY <1>5, RecordFacts
  <2>2. Opens(h) \/ Reopens(h) \/ Closes(h)
    BY DEF Create, Update
  <2>3. AsksAgain(h)'
    BY <1>1, <1>2, <2>1, <2>2, AskFacts DEF FollowInv, AsksAgain, Opens, Reopens, Closes
  <2> QED BY <1>1, <1>3, <2>3
<1>6. AheadInv'
  <2> SUFFICES ASSUME NEW j \in Recorded \cup {h}, ~Seen(j)'
               PROVE  FirstUnseen(j)' /\ AsksAgain(j)'
    BY <1>1 DEF AheadInv
  <2>1. CASE j \in Recorded
    <3>1. j \in Beats
      BY <1>2, <2>1
    <3> QED BY <1>2, <1>4, <2>1, <3>1
  <2>2. CASE j \notin Recorded
    BY <1>5, <2>2
  <2> QED BY <2>1, <2>2
<1>7. DownInv'
  BY <1>1 DEF FollowInv, DownInv
<1>8. WaitInv'
  <2>1. Oldest(run.todo)' = Oldest(run.todo)
    BY <1>1 DEF Oldest
  <2>2. \A j \in Oldest(run.todo) : j = h
    BY <1>1, <1>2, TargetFacts DEF Oldest
  <2> QED BY <1>1, <1>2, <2>1, <2>2 DEF WaitInv, FirstUnseen
<1> QED BY <1>6, <1>7, <1>8

(* The checkpoint takes in the one heartbeat that was ahead of it.         *)
LEMMA CommitAhead ==
  ASSUME Shape, CoverInv, FollowInv, NEW h \in Beats, Commit(h), ~Seen(h)
  PROVE  /\ FirstUnseen(h) /\ run.pc # "idle"
         /\ cp'[Mon(h)].last = h
         /\ \A j \in Recorded : Mon(j) = Mon(h) => Seen(j)'
<1>1. h \in Oldest(run.todo) /\ run.pc # "idle" /\ UNCHANGED log
  BY DEF Commit, kuma
<1>2. FirstUnseen(h)
  BY <1>1, AtNextIn DEF FollowInv
<1>3. cp'[Mon(h)].last = h
  BY AfterFacts, CommitFacts
<1>4. ASSUME NEW j \in Recorded, Mon(j) = Mon(h) PROVE Seen(j)'
  <2>1. j \in Beats /\ Mon(j)' = Mon(h)
    BY <1>1, <1>4 DEF Shape, LedgerShape, Mon
  <2>2. Seen(j) \/ j <= h
    BY <1>2, <1>4, <2>1 DEF FollowInv, AheadInv, FirstUnseen
  <2>3. j <= h
    <3>1. cp[Mon(h)].last \in Nat /\ h \in Nat /\ j \in Nat /\ ~(h <= cp[Mon(h)].last)
      BY <1>2, <2>1, TargetFacts, LogFacts DEF Seen, Shape
    <3>2. Seen(j) => j <= cp[Mon(h)].last
      BY <1>4 DEF Seen
    <3> QED BY <2>2, <3>1, <3>2
  <2> QED BY <1>3, <2>1, <2>3 DEF Seen
<1> QED BY <1>1, <1>2, <1>3, <1>4

(* The commit brings the checkpoint up to what the writer did.              *)
LEMMA CommitFollows ==
  ASSUME Shape, CoverInv, FollowInv, NEW h \in Beats, Commit(h)
  PROVE  AheadInv' /\ DownInv' /\ WaitInv'
<1>1. /\ cp'[Mon(h)] = After(h) /\ \A m \in Monitors : m # Mon(h) => cp'[m] = cp[m]
      /\ run'.pc = "next" /\ UNCHANGED <<log, ledger, opened>>
      /\ cp' \in [Monitors -> Checkpoints]
  BY CommitFacts
<1>2. CASE Seen(h)
  <2>1. cp' = cp
    BY <1>2 DEF Commit, After, Shape, CheckShape
  <2> QED BY <1>1, <2>1, RunFollows DEF FollowInv
<1>3. CASE ~Seen(h)
  <2>1. \A j \in Recorded : Mon(j) = Mon(h) => Seen(j)'
    BY <1>3, CommitAhead
  <2>2. /\ Beats' = Beats /\ Recorded' = Recorded /\ Recorded \subseteq Beats
        /\ \A j \in Beats : Mon(j)' = Mon(j) /\ Mon(j) \in Monitors
        /\ \A j \in Beats : Mon(j) # Mon(h) => Seen(j)' = Seen(j)
    BY <1>1, Kept, LogFacts DEF Shape, LedgerShape, Seen
  <2>3. AheadInv'
    <3> SUFFICES ASSUME NEW j \in Recorded, ~Seen(j)' PROVE FirstUnseen(j)' /\ AsksAgain(j)'
      BY <2>2 DEF AheadInv
    <3>1. j \in Beats /\ Mon(j) # Mon(h) /\ ~Seen(j)
      BY <2>1, <2>2
    <3>2. FirstUnseen(j) /\ AsksAgain(j)
      BY <3>1 DEF FollowInv, AheadInv
    <3>3. FirstUnseen(j)'
      BY <2>2, <3>1, <3>2 DEF FirstUnseen
    <3>4. AsksAgain(j)'
      BY <1>1, <2>2, <3>1, <3>2 DEF AsksAgain
    <3> QED BY <3>3, <3>4
  <2>4. DownInv'
    <3>1. Mon(h) \in Monitors /\ cp[Mon(h)] \in Checkpoints
      BY <2>2, CheckpointFacts DEF Shape
    <3>2. After(h).down => After(h).rec = NoTime
      <4>1. CASE IsDown(h)
        BY <1>3, <4>1 DEF After
      <4>2. CASE ~IsDown(h) /\ IsUp(h)
        <5> DEFINE t == IF Closes(h) THEN log[h].time ELSE cp[Mon(h)].rec
        <5>1. After(h) = [cp[Mon(h)] EXCEPT !.last = h, !.down = FALSE, !.rec = t]
          BY <1>3, <4>2 DEF After
        <5> HIDE DEF t
        <5> QED BY <3>1, <5>1 DEF Checkpoints
      <4>3. CASE ~IsDown(h) /\ ~IsUp(h)
        <5>1. After(h) = [cp[Mon(h)] EXCEPT !.last = h]
          BY <1>3, <4>3 DEF After
        <5>2. After(h).down = cp[Mon(h)].down /\ After(h).rec = cp[Mon(h)].rec
          BY <3>1, <5>1 DEF Checkpoints
        <5> QED BY <3>1, <5>2 DEF FollowInv, DownInv
      <4> QED BY <4>1, <4>2, <4>3
    <3> QED BY <1>1, <3>2 DEF FollowInv, DownInv
  <2>5. WaitInv'
    BY <1>1 DEF WaitInv
  <2> QED BY <2>3, <2>4, <2>5
<1> QED BY <1>2, <1>3

(* Every step keeps the follower in pursuit of the heartbeats.              *)
LEMMA NextFollowInv ==
  ASSUME MaxEdits = 0, Shape, CoverInv, FollowInv, [Next]_vars
  PROVE  FollowInv'
<1>1. Follows' /\ UNCHANGED <<active, live, gone>>
  BY NextFollows DEF FollowInv
<1>2. ASSUME NEW m \in Monitors, NEW s \in Statuses, NEW gap \in 0..MaxGap, Beat(m, s, gap)
      PROVE  AheadInv' /\ DownInv' /\ WaitInv'
  BY <1>2, BeatFollows DEF FollowInv
<1>3. ASSUME NEW m \in Monitors, Pause(m) \/ Resume(m) \/ Delete(m) \/ Purge(m) PROVE FALSE
  BY <1>3 DEF Pause, Resume, Delete, Purge, Edit, FollowInv, Follows, Shape, KumaShape
<1>4. ASSUME Fetch \/ Finish \/ Crash PROVE AheadInv' /\ DownInv' /\ WaitInv'
  <2>1. run'.pc # "commit" /\ UNCHANGED <<log, ledger, opened, cp>>
    BY <1>4 DEF Fetch, Finish, Crash, Idle, kuma
  <2> QED BY <2>1, RunFollows DEF FollowInv
<1>5. ASSUME NEW h \in Beats, Create(h) \/ Update(h) PROVE AheadInv' /\ DownInv' /\ WaitInv'
  BY <1>5, RecordFollows
<1>6. ASSUME NEW h \in Beats, Commit(h) PROVE AheadInv' /\ DownInv' /\ WaitInv'
  BY <1>6, CommitFollows
<1>7. ASSUME UNCHANGED vars \/ Refuse PROVE AheadInv' /\ DownInv' /\ WaitInv'
  <2>1. UNCHANGED vars
    BY <1>7 DEF Refuse
  <2>2. UNCHANGED <<log, ledger, opened, cp>> /\ run' = run
    BY <2>1 DEF vars, kuma
  <2>3. CASE run.pc = "commit"
    <3>1. /\ Beats' = Beats /\ Recorded' = Recorded /\ Recorded \subseteq Beats
          /\ run.todo \subseteq Beats
          /\ \A h \in Beats : Mon(h)' = Mon(h) /\ Seen(h)' = Seen(h)
      BY <2>2, Kept DEF Shape, LedgerShape, RunShape, Seen
    <3>2. AheadInv'
      BY <2>2, <3>1 DEF FollowInv, AheadInv, FirstUnseen, AsksAgain
    <3>3. WaitInv'
      BY <2>2, <3>1 DEF FollowInv, WaitInv, Oldest
    <3>4. DownInv'
      BY <2>2 DEF FollowInv, DownInv
    <3> QED BY <3>2, <3>3, <3>4
  <2>4. CASE run.pc # "commit"
    BY <2>2, <2>4, RunFollows DEF FollowInv
  <2> QED BY <2>3, <2>4
<1>8. AheadInv' /\ DownInv' /\ WaitInv'
  BY <1>2, <1>3, <1>4, <1>5, <1>6, <1>7 DEF Next, World, Run, Statuses
<1> QED BY <1>1, <1>8 DEF FollowInv

(* The follower always is in pursuit of the heartbeats.                     *)
LEMMA FollowsAlways == ASSUME StartCursor = 0, MaxEdits = 0 PROVE Spec => []FollowInv
<1>1. Init => FollowInv
  BY InitFollows
<1>2. Shape /\ CoverInv /\ FollowInv /\ [Next]_vars => FollowInv'
  BY NextFollowInv
<1> QED BY <1>1, <1>2, ShapeAlways, CoversAlways, PTL DEF Spec

-----------------------------------------------------------------------------
(* The refinement.                                                         *)

Aheads(m) == {r \in Recorded : Mon(r) = m /\ r > cp[m].last}

(* The knowledge about a monitor is its checkpoint, or the record ahead.   *)
LEMMA TakenInFacts ==
  ASSUME Shape, AheadInv, NEW m \in Monitors
  PROVE  /\ Aheads(m) = {} => TakenIn(m) = cp[m]
         /\ \A r \in Recorded : Mon(r) = m /\ ~Seen(r) =>
              TakenIn(m) = [last |-> r, down |-> log[r].status = "down", inc |-> ledger[r],
                            rec |-> IF log[r].status = "down" THEN NoTime ELSE log[r].time]
<1>1. Aheads(m) = {} => TakenIn(m) = cp[m]
  BY DEF Aheads, TakenIn
<1>2. ASSUME NEW r \in Recorded, Mon(r) = m, ~Seen(r) PROVE Aheads(m) = {r}
  <2>1. \A j \in Recorded : j \in Beats /\ j \in Nat
    BY TargetFacts DEF Shape, LedgerShape
  <2>2. \A j \in Recorded : Mon(j) = m => (Seen(j) <=> ~(j > cp[m].last))
    BY <2>1, TargetFacts DEF Seen
  <2>3. \A j \in Recorded : Mon(j) = m /\ ~Seen(j) => j <= r /\ r <= j
    BY <1>2, <2>1 DEF AheadInv, FirstUnseen
  <2>4. \A j \in Recorded : Mon(j) = m /\ ~Seen(j) => j = r
    BY <2>1, <2>3
  <2> QED BY <1>2, <2>2, <2>4 DEF Aheads
<1>3. ASSUME NEW r \in Recorded, Aheads(m) = {r}
      PROVE  TakenIn(m) = [last |-> r, down |-> log[r].status = "down", inc |-> ledger[r],
                          rec |-> IF log[r].status = "down" THEN NoTime ELSE log[r].time]
  <2>1. Aheads(m) # {} /\ (CHOOSE j \in Aheads(m) : TRUE) = r
    BY <1>3
  <2> QED BY <2>1 DEF TakenIn, Aheads
<1> QED BY <1>1, <1>2, <1>3

(* The same of the next state.                                             *)
LEMMA TakenInState ==
  Shape /\ AheadInv => \A m \in Monitors :
    /\ Aheads(m) = {} => TakenIn(m) = cp[m]
    /\ \A r \in Recorded : Mon(r) = m /\ ~Seen(r) =>
         TakenIn(m) = [last |-> r, down |-> log[r].status = "down", inc |-> ledger[r],
                       rec |-> IF log[r].status = "down" THEN NoTime ELSE log[r].time]
BY TakenInFacts

(* What counts as taken in, in the next state.                              *)
LEMMA TakenInNext ==
  (Shape /\ AheadInv => \A m \in Monitors :
    /\ Aheads(m) = {} => TakenIn(m) = cp[m]
    /\ \A r \in Recorded : Mon(r) = m /\ ~Seen(r) =>
         TakenIn(m) = [last |-> r, down |-> log[r].status = "down", inc |-> ledger[r],
                       rec |-> IF log[r].status = "down" THEN NoTime ELSE log[r].time])'
BY TakenInState, PTL

(* What is known of a monitor depends on its own heartbeats only.          *)
LEMMA TakenInKept ==
  ASSUME Shape, NEW m \in Monitors, cp'[m] = cp[m],
         \A r \in Beats : log'[r] = log[r],
         Recorded \subseteq Recorded',
         \A r \in Recorded' \ Recorded : Mon(r)' # m,
         \A r \in Recorded : ledger'[r] = ledger[r]
  PROVE  Aheads(m)' = Aheads(m) /\ TakenIn(m)' = TakenIn(m)
<1>1. \A r \in Recorded : Mon(r)' = Mon(r) /\ log'[r] = log[r]
  BY DEF Mon, Shape, LedgerShape
<1>2. Aheads(m)' = Aheads(m)
  BY <1>1 DEF Aheads
<1>3. TakenIn(m) = LET r == CHOOSE j \in Aheads(m) : TRUE
                   IN  IF Aheads(m) = {} THEN cp[m]
                       ELSE [last |-> r, down |-> log[r].status = "down", inc |-> ledger[r],
                             rec |-> IF log[r].status = "down" THEN NoTime ELSE log[r].time]
  BY DEF TakenIn, Aheads
<1>4. TakenIn(m)' = LET r == CHOOSE j \in Aheads(m) : TRUE
                    IN  IF Aheads(m) = {} THEN cp[m]
                        ELSE [last |-> r, down |-> log'[r].status = "down", inc |-> ledger'[r],
                              rec |-> IF log'[r].status = "down" THEN NoTime ELSE log'[r].time]
  <2>1. TakenIn(m)' =
          LET r == CHOOSE j \in Aheads(m)' : TRUE
          IN  IF Aheads(m)' = {} THEN cp'[m]
              ELSE [last |-> r, down |-> log'[r].status = "down", inc |-> ledger'[r],
                    rec |-> IF log'[r].status = "down" THEN NoTime ELSE log'[r].time]
    BY DEF TakenIn, Aheads
  <2> QED BY <1>2, <2>1
<1>5. CASE Aheads(m) = {}
  BY <1>2, <1>3, <1>4, <1>5
<1>6. CASE Aheads(m) # {}
  <2>1. (CHOOSE j \in Aheads(m) : TRUE) \in Recorded
    BY <1>6 DEF Aheads
  <2> QED BY <1>1, <1>2, <1>3, <1>4, <1>6, <2>1
<1> QED BY <1>5, <1>6

State == [m \in Monitors |-> TakenIn(m)]

(* The first state is one of the abstract outage.                           *)
LEMMA InitRefines == Init => Outage!Init
<1> SUFFICES ASSUME Init PROVE Outage!Init
  OBVIOUS
<1>1. Recorded = {}
  BY DEF Init, Recorded
<1>2. ASSUME NEW m \in Monitors
      PROVE  TakenIn(m) \in [last : {0}, down : BOOLEAN, inc : {0}, rec : {-1}]
  <2>1. TakenIn(m) = cp[m]
    BY <1>1 DEF TakenIn
  <2>2. cp[m] = [last |-> 0, down |-> m \in Legacy, inc |-> None, rec |-> NoTime]
    BY DEF Init
  <2>3. (m \in Legacy) \in BOOLEAN
    OBVIOUS
  <2> QED BY <2>1, <2>2, <2>3 DEF None, NoTime
<1>3. State \in [Monitors -> [last : {0}, down : BOOLEAN, inc : {0}, rec : {-1}]]
  BY <1>2 DEF State
<1> QED BY <1>3 DEF Outage!Init, Init, State

(* A step that changes what is known of no monitor is a stutter.           *)
LEMMA Stutters ==
  ASSUME UNCHANGED <<log, ledger, opened>>, \A m \in Monitors : TakenIn(m)' = TakenIn(m)
  PROVE  UNCHANGED Outage!vars
BY DEF Outage!vars

(* A change of what is taken in of one monitor is a step of knowledge.      *)
LEMMA KnowsOne ==
  ASSUME NEW h, Mon(h) \in Monitors, NEW new, TakenIn(Mon(h))' = new, UNCHANGED log,
         \A m \in Monitors : m # Mon(h) => TakenIn(m)' = TakenIn(m)
  PROVE  Outage!Know(h, new)
<1> DEFINE s == [m \in Monitors |-> TakenIn(m)]
           t == [m \in Monitors |-> TakenIn(m)']
<1>1. \A m \in Monitors : t[m] = IF m = Mon(h) THEN new ELSE s[m]
  <2>1. TakenIn(Mon(h))' = new
    OBVIOUS
  <2>2. ASSUME NEW m \in Monitors PROVE TakenIn(m)' = IF m = Mon(h) THEN new ELSE TakenIn(m)
    <3>1. CASE m = Mon(h)
      <4>1. Mon(h)' = Mon(h)
        BY DEF Mon
      <4> QED BY <3>1, <4>1
    <3> QED BY <3>1
  <2> QED BY <2>2
<1>2. t = [s EXCEPT ![Mon(h)] = new]
  BY <1>1
<1> QED BY <1>2 DEF Outage!Know, Outage!Mon, Mon

(* A heartbeat of Kuma is one of the abstract outage.                       *)
LEMMA BeatRefines ==
  ASSUME Shape, NEW m \in Monitors, NEW s \in Statuses, NEW gap \in 0..MaxGap, Beat(m, s, gap)
  PROVE  Outage!Beat
<1>1. /\ log' = Append(log, [mon |-> m, status |-> s, time |-> Now + gap])
      /\ UNCHANGED <<ledger, opened, cp>>
  BY DEF Beat
<1>2. \A r \in Beats : log'[r] = log[r]
  BY <1>1, BeatFacts DEF Shape
<1>3. Recorded' = Recorded
  BY <1>1 DEF Recorded
<1>4. \A k \in Monitors : TakenIn(k)' = TakenIn(k)
  BY <1>1, <1>2, <1>3, TakenInKept
<1>5. Outage!Statuses = Statuses
  BY DEF Outage!Statuses, Statuses
<1> QED BY <1>1, <1>4, <1>5 DEF Outage!Beat, Now

(* A heartbeat that is not in the ledger yet finds nothing ahead of its    *)
(* monitor's checkpoint, and is the next one to take in.                   *)
LEMMA NothingAhead ==
  ASSUME Shape, AheadInv, NEW h \in Beats, FirstUnseen(h), h \notin Recorded
  PROVE  /\ Mon(h) \in Monitors /\ Aheads(Mon(h)) = {}
         /\ TakenIn(Mon(h)) = cp[Mon(h)]
         /\ Outage!NextOf(h)
<1>1. Mon(h) \in Monitors
  BY LogFacts DEF Shape
<1>2. ASSUME NEW r \in Aheads(Mon(h)) PROVE FALSE
  <2>1. r \in Recorded /\ r \in Beats /\ Mon(r) = Mon(h) /\ r > cp[Mon(h)].last
    BY DEF Aheads, Shape, LedgerShape
  <2>2. ~Seen(r) /\ r \in Nat /\ h \in Nat
    BY <1>1, <2>1, TargetFacts DEF Seen
  <2>3. r <= h /\ h <= r
    BY <2>1, <2>2 DEF AheadInv, FirstUnseen
  <2> QED BY <2>1, <2>2, <2>3
<1>3. TakenIn(Mon(h)) = cp[Mon(h)]
  BY <1>1, <1>2, TakenInFacts
<1>4. Outage!NextOf(h)
  <2>1. cp[Mon(h)].last \in Nat /\ \A j \in Beats : j \in Nat
    BY <1>1, TargetFacts
  <2>2. cp[Mon(h)].last < h
    BY <2>1 DEF FirstUnseen, Seen
  <2>3. \A j \in 1..Len(log) : Mon(j) = Mon(h) /\ cp[Mon(h)].last < j => h <= j
    BY <2>1 DEF FirstUnseen, Seen, Beats
  <2>4. State[Mon(h)] = cp[Mon(h)]
    BY <1>1, <1>3 DEF State
  <2> QED BY <2>2, <2>3, <2>4 DEF Outage!NextOf, Outage!Mon, Mon, State
<1> QED BY <1>1, <1>2, <1>3, <1>4

(* A checkpoint that is replaced except for its incident.                   *)
LEMMA CheckpointExcept ==
  ASSUME NEW c \in Checkpoints, NEW h, NEW d, NEW t
  PROVE  [c EXCEPT !.last = h, !.down = d, !.rec = t]
           = [last |-> h, down |-> d, inc |-> c.inc, rec |-> t]
<1> DEFINE e == [c EXCEPT !.last = h, !.down = d, !.rec = t]
<1>1. e \in [last : {h}, down : {d}, inc : {c.inc}, rec : {t}]
  BY DEF Checkpoints
<1> HIDE DEF e
<1>2. e = [last |-> h, down |-> d, inc |-> c.inc, rec |-> t]
  BY <1>1
<1> QED BY <1>2 DEF e

(* What the writer records is a new episode, a flap or a recovery, and a   *)
(* heartbeat it knows already changes nothing.                             *)
LEMMA RecordRefines ==
  ASSUME Shape, CoverInv, FollowInv, Shape', FollowInv', NEW h \in Beats, Create(h) \/ Update(h)
  PROVE  [Outage!Next]_(Outage!vars)
<1> DEFINE m0 == Mon(h)
<1>1. /\ FirstUnseen(h) /\ Recorded' = Recorded \cup {h} /\ run.pc # "idle"
      /\ \A j \in Recorded : ledger'[j] = ledger[j]
      /\ h \notin Recorded =>
           ledger'[h] = IF Opens(h) THEN Len(opened) + 1 ELSE cp[Mon(h)].inc
      /\ opened' = IF Opens(h) /\ h \notin Recorded THEN Append(opened, h) ELSE opened
      /\ UNCHANGED <<log, cp>>
  BY RecordFacts
<1>2. Mon(h)' = Mon(h) /\ Mon(h) \in Monitors /\ \A r \in Beats : log'[r] = log[r]
  BY <1>1, LogFacts DEF Mon, Shape
<1>3. ASSUME NEW m \in Monitors, h \in Recorded \/ m # Mon(h) PROVE TakenIn(m)' = TakenIn(m)
  <2>1. \A r \in Recorded' \ Recorded : r = h /\ Mon(r)' # m
    BY <1>1, <1>2, <1>3
  <2> QED BY <1>1, <2>1, TakenInKept
<1>4. /\ ledger = [j \in Recorded |-> ledger[j]]
      /\ ledger' = [j \in Recorded \cup {h} |-> ledger'[j]]
  BY <1>1 DEF Shape, LedgerShape
<1>5. CASE h \in Recorded
  <2>1. ledger' = ledger
    <3>1. Recorded \cup {h} = Recorded
      BY <1>5
    <3> QED BY <1>1, <1>4, <3>1
  <2> QED BY <1>1, <1>3, <1>5, <2>1, Stutters
<1>6. CASE h \notin Recorded
  <2> DEFINE c == cp[Mon(h)]
             i == IF Opens(h) THEN Len(opened) + 1 ELSE c.inc
             new == [last |-> h, down |-> log[h].status = "down", inc |-> i,
                     rec |-> IF log[h].status = "down" THEN NoTime ELSE log[h].time]
  <2>1. /\ TakenIn(Mon(h)) = c /\ State[Mon(h)] = c /\ Outage!NextOf(h)
    BY <1>1, <1>2, <1>6, NothingAhead DEF FollowInv, State
  <2>2. TakenIn(Mon(h))' = new
    <3>1. h \in Recorded' /\ ~Seen(h)' /\ log'[h] = log[h] /\ ledger'[h] = i
      BY <1>1, <1>2, <1>6 DEF FirstUnseen, Seen
    <3>2. AheadInv'
      BY DEF FollowInv
    <3> QED BY <1>2, <3>1, <3>2, TakenInNext
  <2>3. Outage!Record(h, i)
    <3>1. ledger'[h] = i
      BY <1>1, <1>6
    <3> HIDE DEF i
    <3>2. \A j \in Recorded \cup {h} : ledger'[j] = IF j = h THEN i ELSE ledger[j]
      BY <1>1, <1>6, <3>1
    <3>3. ledger' = [j \in Recorded \cup {h} |-> IF j = h THEN i ELSE ledger[j]]
      BY <1>4, <3>2
    <3> QED BY <3>3 DEF Outage!Record, Recorded
  <2>4. Outage!Know(h, new)
    <3> HIDE DEF new
    <3> QED BY <1>1, <1>2, <1>3, <2>2, KnowsOne
  <2>5. /\ IsDown(h) <=> log[h].status = "down"
        /\ IsUp(h) <=> log[h].status = "up"
        /\ ~Seen(h)
    BY <1>1, AskFacts DEF FollowInv, FirstUnseen
  <2>6. /\ c \in Checkpoints
        /\ c.rec \in Nat \cup {NoTime} /\ c.inc \in Nat /\ log[h].time \in Nat
        /\ c.down \in BOOLEAN
    <3>1. \A k \in DOMAIN opened : k \in Nat
      BY LenProperties DEF Shape, LedgerShape
    <3>2. log[h].time \in Nat
      BY LogFacts DEF Shape
    <3>3. /\ c \in Checkpoints /\ c.rec \in Nat \cup {NoTime} /\ c.down \in BOOLEAN
          /\ c.inc \in DOMAIN opened \cup {None}
      BY <1>2, CheckpointFacts DEF Shape
    <3> HIDE DEF c
    <3> QED BY <3>1, <3>2, <3>3 DEF None
  <2>7. CASE Opens(h)
    <3>1. new = [last |-> h, down |-> TRUE, inc |-> Len(opened) + 1, rec |-> -1]
      BY <2>5, <2>7 DEF Opens, NoTime
    <3>2. c.inc = 0 \/ (~c.down /\ c.rec # -1 /\ log[h].time - c.rec >= Grace)
      BY <2>7 DEF Opens, None, NoTime
    <3>3. opened' = Append(opened, h) /\ i = Len(opened) + 1 /\ log[h].status = "down"
      BY <1>1, <1>6, <2>5, <2>7 DEF Opens
    <3> HIDE DEF new, i, c
    <3>4. Outage!NewEpisode(h)
      BY <2>1, <2>3, <2>4, <3>1, <3>2, <3>3 DEF Outage!NewEpisode, Outage!Mon, Mon, State
    <3> QED BY <1>1, <2>1, <3>4 DEF Outage!Next, Outage!TakeIn, Beats
  <2>8. CASE Reopens(h)
    <3>1. /\ log[h].status = "down" /\ ~c.down /\ ~Opens(h) /\ i = c.inc /\ c.inc # 0
      BY <2>5, <2>8 DEF Reopens, Opens, None
    <3>2. c.rec # -1 => log[h].time - c.rec < Grace
      BY <2>5, <2>6, <2>8, GraceAssumption DEF Reopens, Opens, NoTime
    <3>3. new = [c EXCEPT !.last = h, !.down = TRUE, !.rec = -1]
      <4>1. new = [last |-> h, down |-> TRUE, inc |-> c.inc, rec |-> -1]
        BY <3>1 DEF NoTime
      <4>2. c \in Checkpoints
        BY <2>6
      <4> HIDE DEF new, c
      <4>3. [c EXCEPT !.last = h, !.down = TRUE, !.rec = -1]
              = [last |-> h, down |-> TRUE, inc |-> c.inc, rec |-> -1]
        BY ONLY <4>2, CheckpointExcept
      <4> QED BY <4>1, <4>3
    <3>4. opened' = opened
      BY <1>1, <3>1
    <3> HIDE DEF new, i, c
    <3>5. Outage!Flap(h)
      BY <2>1, <2>3, <2>4, <3>1, <3>2, <3>3, <3>4 DEF Outage!Flap, Outage!Mon, Mon, State
    <3> QED BY <1>1, <2>1, <3>5 DEF Outage!Next, Outage!TakeIn, Beats
  <2>9. CASE Closes(h)
    <3>1. log[h].status = "up" /\ c.down /\ ~Opens(h) /\ i = c.inc /\ c.inc # 0
      BY <2>5, <2>9 DEF Closes, Opens, None
    <3>2. new = [c EXCEPT !.last = h, !.down = FALSE, !.rec = log[h].time]
      <4>1. new = [last |-> h, down |-> FALSE, inc |-> c.inc, rec |-> log[h].time]
        BY <3>1
      <4>2. c \in Checkpoints
        BY <2>6
      <4> HIDE DEF new, c
      <4>3. [c EXCEPT !.last = h, !.down = FALSE, !.rec = log[h].time]
              = [last |-> h, down |-> FALSE, inc |-> c.inc, rec |-> log[h].time]
        BY ONLY <4>2, CheckpointExcept
      <4> QED BY <4>1, <4>3
    <3>3. opened' = opened
      BY <1>1, <3>1
    <3> HIDE DEF new, i, c
    <3>4. Outage!Recovery(h)
      BY <2>1, <2>3, <2>4, <3>1, <3>2, <3>3 DEF Outage!Recovery, Outage!Mon, Mon, State
    <3> QED BY <1>1, <2>1, <3>4 DEF Outage!Next, Outage!TakeIn, Beats
  <2>10. Opens(h) \/ Reopens(h) \/ Closes(h)
    BY DEF Create, Update
  <2> QED BY <2>7, <2>8, <2>9, <2>10
<1> QED BY <1>5, <1>6

(* A checkpoint that moves on and keeps its incident and recovery.          *)
LEMMA CheckpointMove ==
  ASSUME NEW c \in Checkpoints, NEW h, NEW d
  PROVE  /\ [c EXCEPT !.last = h, !.down = d]
              = [last |-> h, down |-> d, inc |-> c.inc, rec |-> c.rec]
         /\ [c EXCEPT !.last = h]
              = [last |-> h, down |-> c.down, inc |-> c.inc, rec |-> c.rec]
<1> DEFINE e == [c EXCEPT !.last = h, !.down = d]
           f == [c EXCEPT !.last = h]
<1>1. /\ e \in [last : {h}, down : {d}, inc : {c.inc}, rec : {c.rec}]
      /\ f \in [last : {h}, down : {c.down}, inc : {c.inc}, rec : {c.rec}]
  BY DEF Checkpoints
<1> HIDE DEF e, f
<1>2. /\ e = [last |-> h, down |-> d, inc |-> c.inc, rec |-> c.rec]
      /\ f = [last |-> h, down |-> c.down, inc |-> c.inc, rec |-> c.rec]
  BY <1>1
<1> QED BY <1>2 DEF e, f

(* A checkpoint adds nothing to what the record has told, and takes in the *)
(* heartbeats that ask nothing.                                            *)
LEMMA CommitRefines ==
  ASSUME Shape, CoverInv, FollowInv, Shape', FollowInv', NEW h \in Beats, Commit(h)
  PROVE  [Outage!Next]_(Outage!vars)
<1> DEFINE c == cp[Mon(h)]
           noted == [last |-> h, down |-> log[h].status = "down", inc |-> ledger[h],
                     rec |-> IF log[h].status = "down" THEN NoTime ELSE log[h].time]
<1>1. /\ cp'[Mon(h)] = After(h) /\ \A m \in Monitors : m # Mon(h) => cp'[m] = cp[m]
      /\ UNCHANGED <<log, ledger, opened>> /\ run.pc # "idle"
  BY CommitFacts DEF Commit
<1>2. /\ Recorded' = Recorded /\ Mon(h)' = Mon(h) /\ Mon(h) \in Monitors
      /\ c \in Checkpoints /\ log[h].time \in Nat /\ log[h].status \in Statuses
  BY <1>1, Kept, LogFacts, CheckpointFacts DEF Shape
<1>3. ASSUME NEW m \in Monitors, cp'[m] = cp[m] PROVE TakenIn(m)' = TakenIn(m)
  BY <1>1, <1>2, <1>3, TakenInKept
<1>4. CASE Seen(h)
  <2>1. cp'[Mon(h)] = cp[Mon(h)]
    BY <1>1, <1>4 DEF After
  <2>2. \A m \in Monitors : cp'[m] = cp[m]
    BY <1>1, <2>1
  <2> QED BY <1>1, <1>3, <2>2, Stutters
<1>5. CASE ~Seen(h)
  <2>1. /\ FirstUnseen(h) /\ \A j \in Recorded : Mon(j) = Mon(h) => Seen(j)'
    BY <1>5, CommitAhead
  <2>2. TakenIn(Mon(h))' = After(h)
    <3>1. ASSUME NEW j \in Recorded, Mon(j) = Mon(h) PROVE ~(j > cp'[Mon(h)].last)
      <4>1. Seen(j)' /\ j \in Beats /\ Mon(j)' = Mon(h)
        BY <1>1, <2>1, <3>1 DEF Shape, LedgerShape, Mon
      <4>2. j \in Nat /\ cp'[Mon(h)].last \in Nat
        <5>1. After(h).last = h
          BY <1>5, AfterFacts, CommitFacts
        <5> QED BY <1>1, <4>1, <5>1, TargetFacts
      <4> QED BY <1>1, <4>1, <4>2 DEF Seen
    <3>2. Aheads(Mon(h))' = {}
      BY <1>1, <1>2, <3>1 DEF Aheads, Mon
    <3>3. AheadInv'
      BY DEF FollowInv
    <3> QED BY <1>1, <1>2, <3>2, <3>3, TakenInNext
  <2>3. /\ IsDown(h) <=> log[h].status = "down"
        /\ IsUp(h) <=> log[h].status = "up"
        /\ IsDown(h) => ~IsUp(h)
    BY <1>1, AskFacts DEF FollowInv
  <2>4. CASE h \in Recorded
    <3>1. AsksAgain(h) /\ (Opens(h) \/ Reopens(h) \/ Closes(h))
      BY <1>1, <1>5, <2>4, AskFacts DEF FollowInv, AheadInv
    <3>2. TakenIn(Mon(h)) = noted
      BY <1>2, <1>5, <2>4, TakenInFacts DEF FollowInv
    <3>3. After(h) = noted
      <4>1. CASE IsDown(h)
        <5>1. noted = [last |-> h, down |-> TRUE, inc |-> ledger[h], rec |-> NoTime]
          BY <2>3, <4>1
        <5>2. Opens(h) \/ ledger[h] = c.inc
          BY <1>5, <2>3, <3>1, <4>1 DEF AsksAgain, Opens
        <5>3. After(h) = [last |-> h, down |-> TRUE, inc |-> ledger[h], rec |-> NoTime]
          BY <1>5, <4>1, <5>2 DEF After
        <5> QED BY <5>1, <5>3
      <4>2. CASE ~IsDown(h)
        <5>1. Closes(h) /\ IsUp(h) /\ log[h].status # "down"
          BY <2>3, <3>1, <4>2 DEF Opens, Reopens, Closes
        <5>2. ledger[h] = c.inc
          BY <3>1, <5>1 DEF AsksAgain
        <5>3. After(h) = [c EXCEPT !.last = h, !.down = FALSE, !.rec = log[h].time]
          BY <1>5, <4>2, <5>1 DEF After
        <5>4. After(h) = [last |-> h, down |-> FALSE, inc |-> c.inc, rec |-> log[h].time]
          <6> HIDE DEF c
          <6> QED BY <1>2, <5>3, CheckpointExcept
        <5>5. noted = [last |-> h, down |-> FALSE, inc |-> ledger[h], rec |-> log[h].time]
          BY <5>1
        <5> QED BY <5>2, <5>4, <5>5
      <4> QED BY <4>1, <4>2
    <3>4. \A m \in Monitors : TakenIn(m)' = TakenIn(m)
      <4>1. \A m \in Monitors : m # Mon(h) => TakenIn(m)' = TakenIn(m)
        BY <1>1, <1>3
      <4>2. ASSUME NEW m \in Monitors, m = Mon(h) PROVE TakenIn(m)' = TakenIn(m)
        BY <1>2, <2>2, <3>2, <3>3, <4>2
      <4> QED BY <4>1, <4>2
    <3> QED BY <1>1, <3>4, Stutters
  <2>5. CASE h \notin Recorded
    <3>1. /\ TakenIn(Mon(h)) = c /\ State[Mon(h)] = c /\ Outage!NextOf(h)
      BY <1>2, <2>1, <2>5, NothingAhead DEF FollowInv, State
    <3>2. ~Opens(h) /\ ~Reopens(h) /\ ~Closes(h)
      BY <2>5 DEF Commit, Shape, RunShape
    <3> DEFINE d == IF log[h].status = "pending" THEN c.down ELSE log[h].status = "down"
               new == [c EXCEPT !.last = h, !.down = d]
    <3>3. /\ \/ log[h].status = "pending"
             \/ log[h].status = "down" /\ c.down /\ c.inc # 0
             \/ log[h].status = "up" /\ ~(c.down /\ c.inc # 0)
      BY <1>2, <1>5, <2>3, <3>2 DEF Opens, Reopens, Closes, None, Statuses
    <3>4. After(h) = [last |-> h, down |-> d, inc |-> c.inc, rec |-> c.rec]
      <4>1. CASE log[h].status = "down"
        <5>1. c.down /\ c.rec = NoTime /\ d = TRUE
          BY <1>2, <3>3, <4>1 DEF FollowInv, DownInv
        <5> HIDE DEF d
        <5> QED BY <1>5, <2>3, <3>2, <4>1, <5>1 DEF After
      <4>2. CASE log[h].status = "up"
        <5>1. After(h) = [c EXCEPT !.last = h, !.down = FALSE, !.rec = c.rec] /\ d = FALSE
          BY <1>5, <2>3, <3>2, <4>2 DEF After
        <5> HIDE DEF c, d
        <5> QED BY <1>2, <5>1, CheckpointExcept
      <4>3. CASE log[h].status = "pending"
        <5>1. After(h) = [c EXCEPT !.last = h] /\ d = c.down
          BY <1>5, <2>3, <4>3 DEF After
        <5> HIDE DEF c, d
        <5> QED BY <1>2, <5>1, CheckpointMove
      <4> QED BY <1>2, <4>1, <4>2, <4>3 DEF Statuses
    <3>5. new = After(h)
      <4> HIDE DEF c, d
      <4> QED BY <1>2, <3>4, CheckpointMove
    <3>6. Outage!Know(h, new)
      <4>1. \A m \in Monitors : m # Mon(h) => TakenIn(m)' = TakenIn(m)
        BY <1>1, <1>3
      <4> HIDE DEF new
      <4> QED BY <1>1, <1>2, <2>2, <3>5, <4>1, KnowsOne
    <3> HIDE DEF c
    <3>7. Outage!Nothing(h)
      BY <1>1, <3>1, <3>3, <3>6 DEF Outage!Nothing, Outage!Mon, Mon, State
    <3> QED BY <1>1, <3>1, <3>7 DEF Outage!Next, Outage!TakeIn, Beats
  <2> QED BY <2>4, <2>5
<1> QED BY <1>4, <1>5

(* Every step of the follower is a step of the abstract outage or none.     *)
LEMMA NextRefines ==
  ASSUME Shape, CoverInv, FollowInv, Shape', FollowInv', MaxEdits = 0, [Next]_vars
  PROVE  [Outage!Next]_(Outage!vars)
<1>1. ASSUME NEW m \in Monitors, NEW s \in Statuses, NEW gap \in 0..MaxGap, Beat(m, s, gap)
      PROVE  [Outage!Next]_(Outage!vars)
  BY <1>1, BeatRefines DEF Outage!Next
<1>2. ASSUME NEW m \in Monitors, Pause(m) \/ Resume(m) \/ Delete(m) \/ Purge(m)
      PROVE  FALSE
  BY <1>2 DEF Pause, Resume, Delete, Purge, Edit, FollowInv, Follows, Shape, KumaShape
<1>3. ASSUME UNCHANGED <<log, ledger, opened, cp>> PROVE [Outage!Next]_(Outage!vars)
  <2>1. \A m \in Monitors : TakenIn(m)' = TakenIn(m)
    BY <1>3 DEF TakenIn, Recorded, Mon
  <2> QED BY <1>3, <2>1, Stutters
<1>4. CASE Fetch \/ Finish \/ Crash \/ Refuse \/ UNCHANGED vars
  BY <1>3, <1>4 DEF Fetch, Finish, Crash, Refuse, vars, kuma
<1>5. ASSUME NEW h \in Beats, Create(h) \/ Update(h) PROVE [Outage!Next]_(Outage!vars)
  BY <1>5, RecordRefines
<1>6. ASSUME NEW h \in Beats, Commit(h) PROVE [Outage!Next]_(Outage!vars)
  BY <1>6, CommitRefines
<1> QED BY <1>1, <1>2, <1>4, <1>5, <1>6 DEF Next, World, Run, Statuses

(* From an initial cursor on, and while no monitor is paused or deleted,   *)
(* the follower takes every heartbeat in as one atomic step of its         *)
(* monitor, in order and once: the two programs that write the record and  *)
(* the checkpoint, the batches and the runs that die between them do not   *)
(* show.                                                                   *)
THEOREM TakesInExactlyOnce ==
  ASSUME StartCursor = 0, MaxEdits = 0
  PROVE  Spec => ExactlyOnce
<1>1. Init => Outage!Init
  BY InitRefines
<1>2. /\ Shape /\ CoverInv /\ FollowInv /\ Shape' /\ FollowInv' /\ [Next]_vars
      => [Outage!Next]_(Outage!vars)
  BY NextRefines
<1>3. Spec => []FollowInv
  BY FollowsAlways
<1> QED BY <1>1, <1>2, <1>3, ShapeAlways, CoversAlways, PTL DEF Spec, ExactlyOnce, Outage!Spec

-----------------------------------------------------------------------------
(* One outage, one incident.                                               *)

(* What is known of a monitor is no older than its incidents, and a known  *)
(* recovery time is that of an UP heartbeat after all of them.             *)
KnownInv ==
  /\ \A i \in DOMAIN opened : opened[i] <= State[Mon(opened[i])].last
  /\ \A m \in Monitors : State[m].inc = None => \A i \in DOMAIN opened : Mon(opened[i]) # m
  /\ \A m \in Monitors : State[m].rec # NoTime =>
       \E u \in Beats : /\ u <= State[m].last /\ Mon(u) = m
                        /\ log[u].status = "up" /\ log[u].time = State[m].rec
                        /\ \A i \in DOMAIN opened : Mon(opened[i]) = m => opened[i] <= u

EpisodeInv == KnownInv /\ NoDuplicateEpisode

(* The incidents that were opened, and the heartbeats that opened them.     *)
LEMMA OpenedFacts ==
  ASSUME Shape, AheadInv
  PROVE  /\ Len(opened) \in Nat /\ DOMAIN opened = 1..Len(opened)
         /\ \A i \in DOMAIN opened : opened[i] \in Beats /\ i \in Nat
         /\ \A h \in Beats : h \in Nat /\ Mon(h) \in Monitors /\ log[h].time \in Nat
         /\ \A m \in Monitors : State[m].last \in Nat
<1>1. \A h \in Beats : h \in Nat /\ Mon(h) \in Monitors /\ log[h].time \in Nat
  BY TargetFacts, LogFacts DEF Shape
<1>2. /\ Len(opened) \in Nat /\ DOMAIN opened = 1..Len(opened)
      /\ \A i \in DOMAIN opened : opened[i] \in Beats /\ i \in Nat
  BY LenProperties, ElementOfSeq DEF Shape, LedgerShape
<1>3. ASSUME NEW m \in Monitors PROVE TakenIn(m).last \in Nat
  <2>1. CASE Aheads(m) = {}
    BY <2>1, TakenInFacts, TargetFacts
  <2>2. CASE Aheads(m) # {}
    <3>1. PICK r \in Aheads(m) : TRUE
      BY <2>2
    <3>2. r \in Recorded /\ Mon(r) = m /\ r > cp[m].last /\ r \in Nat
      BY <1>1 DEF Aheads, Shape, LedgerShape
    <3>3. ~Seen(r)
      BY <3>2, TargetFacts DEF Seen
    <3> QED BY <3>2, <3>3, TakenInFacts
  <2> QED BY <2>1, <2>2
<1> QED BY <1>1, <1>2, <1>3 DEF State

(* Heartbeats that are only added change nothing of it.                    *)
LEMMA EpisodesKept ==
  ASSUME Shape, AheadInv, EpisodeInv,
         \A h \in Beats : log'[h] = log[h], Beats \subseteq Beats',
         UNCHANGED opened, State' = State
  PROVE  EpisodeInv'
<1>1. \A i \in DOMAIN opened : opened[i] \in Beats
  BY OpenedFacts
<1>2. \A h \in Beats : Mon(h)' = Mon(h)
  BY DEF Mon
<1>3. \A i \in DOMAIN opened : Mon(opened[i])' = Mon(opened[i])
  BY <1>1, <1>2
<1>4. \A i \in DOMAIN opened : opened[i] <= State[Mon(opened[i])'].last
  BY <1>3 DEF EpisodeInv, KnownInv
<1>5. \A m \in Monitors : State[m].inc = None => \A i \in DOMAIN opened : Mon(opened[i])' # m
  BY <1>3 DEF EpisodeInv, KnownInv
<1>6. ASSUME NEW m \in Monitors, State[m].rec # NoTime
      PROVE  \E u \in Beats : /\ u <= State[m].last /\ Mon(u)' = m
                        /\ log'[u].status = "up" /\ log'[u].time = State[m].rec
                        /\ \A i \in DOMAIN opened : Mon(opened[i])' = m => opened[i] <= u
  <2>1. PICK u \in Beats : /\ u <= State[m].last /\ Mon(u) = m
                        /\ log[u].status = "up" /\ log[u].time = State[m].rec
                        /\ \A i \in DOMAIN opened : Mon(opened[i]) = m => opened[i] <= u
    BY <1>6 DEF EpisodeInv, KnownInv
  <2> QED BY <1>2, <1>3, <2>1
<1>7. KnownInv'
  BY <1>4, <1>5, <1>6 DEF KnownInv
<1>8. NoDuplicateEpisode'
  <2> SUFFICES ASSUME NEW i \in DOMAIN opened, NEW j \in DOMAIN opened, i < j,
                      Mon(opened[i]) = Mon(opened[j])
               PROVE  \E u \in opened[i]..opened[j] :
                        /\ Mon(u)' = Mon(opened[i]) /\ log'[u].status = "up"
                        /\ log'[opened[j]].time - log'[u].time >= Grace
    BY <1>3 DEF NoDuplicateEpisode
  <2>1. PICK u \in opened[i]..opened[j] :
          /\ Mon(u) = Mon(opened[i]) /\ log[u].status = "up"
          /\ log[opened[j]].time - log[u].time >= Grace
    BY DEF EpisodeInv, NoDuplicateEpisode
  <2>2. opened[i] \in 1..Len(log) /\ opened[j] \in 1..Len(log) /\ Len(log) \in Nat
    BY <1>1, LogFacts DEF Beats, Shape
  <2>3. u \in Beats
    BY <2>2 DEF Beats
  <2> QED BY <1>1, <1>2, <2>1, <2>3
<1> QED BY <1>7, <1>8 DEF EpisodeInv

(* A heartbeat that opens no incident: the recovery it may record is that  *)
(* of its own.                                                             *)
LEMMA EpisodeContinues ==
  ASSUME Shape, AheadInv, EpisodeInv, NEW h \in Beats, State[Mon(h)].last < h, NEW new,
         UNCHANGED <<log, opened>>, State' = [State EXCEPT ![Mon(h)] = new],
         new.last = h, new.inc = State[Mon(h)].inc,
         \/ new.rec = NoTime
         \/ new.rec = State[Mon(h)].rec
         \/ log[h].status = "up" /\ new.rec = log[h].time
  PROVE  EpisodeInv'
<1>1. /\ \A i \in DOMAIN opened : opened[i] \in Beats
      /\ \A k \in Beats : k \in Nat /\ Mon(k) \in Monitors
      /\ \A m \in Monitors : State[m].last \in Nat
  BY OpenedFacts
<1>2. Beats' = Beats /\ \A k : Mon(k)' = Mon(k)
  BY DEF Beats, Mon
<1>3. \A m \in Monitors : State'[m] = IF m = Mon(h) THEN new ELSE State[m]
  BY <1>1 DEF State
<1>4. \A m \in Monitors : State[m].last <= State'[m].last
  BY <1>1, <1>3
<1>5. \A i \in DOMAIN opened : opened[i] <= State'[Mon(opened[i])].last
  <2> SUFFICES ASSUME NEW i \in DOMAIN opened PROVE opened[i] <= State'[Mon(opened[i])].last
    OBVIOUS
  <2>1. opened[i] <= State[Mon(opened[i])].last
    BY DEF EpisodeInv, KnownInv
  <2>2. opened[i] \in Nat /\ Mon(opened[i]) \in Monitors
    BY <1>1
  <2>3. State'[Mon(opened[i])].last \in Nat
    BY <1>1, <1>3, <2>2
  <2> QED BY <1>1, <1>4, <2>1, <2>2, <2>3
<1>6. \A m \in Monitors : State'[m].inc = None => \A i \in DOMAIN opened : Mon(opened[i]) # m
  BY <1>3 DEF EpisodeInv, KnownInv
<1>7. ASSUME NEW m \in Monitors, State'[m].rec # NoTime
      PROVE  \E u \in Beats : /\ u <= State'[m].last /\ Mon(u) = m
                        /\ log[u].status = "up" /\ log[u].time = State'[m].rec
                        /\ \A i \in DOMAIN opened : Mon(opened[i]) = m => opened[i] <= u
  <2>1. CASE m = Mon(h) /\ log[h].status = "up" /\ new.rec = log[h].time
    <3>1. \A i \in DOMAIN opened : Mon(opened[i]) = m => opened[i] <= h
      BY <1>3, <1>5, <2>1
    <3>2. h <= State'[m].last
      BY <1>1, <1>3, <2>1
    <3> QED BY <1>3, <2>1, <3>1, <3>2
  <2>2. CASE State'[m].rec = State[m].rec
    <3>1. PICK u \in Beats : /\ u <= State[m].last /\ Mon(u) = m
                        /\ log[u].status = "up" /\ log[u].time = State[m].rec
                        /\ \A i \in DOMAIN opened : Mon(opened[i]) = m => opened[i] <= u
      BY <1>7, <2>2 DEF EpisodeInv, KnownInv
    <3>2. State'[m].last \in Nat
      BY <1>1, <1>3
    <3>3. u <= State'[m].last
      BY <1>1, <1>4, <3>1, <3>2
    <3> QED BY <2>2, <3>1, <3>3
  <2> QED BY <1>3, <1>7, <2>1, <2>2
<1>8. KnownInv'
  BY <1>2, <1>5, <1>6, <1>7 DEF KnownInv
<1>9. NoDuplicateEpisode'
  BY <1>2 DEF EpisodeInv, NoDuplicateEpisode
<1> QED BY <1>8, <1>9 DEF EpisodeInv

(* A heartbeat that opens an incident: the first of its monitor, or after  *)
(* a recovery that lasted.                                                 *)
LEMMA EpisodeOpens ==
  ASSUME Shape, AheadInv, EpisodeInv, NEW h \in Beats, State[Mon(h)].last < h, NEW new,
         UNCHANGED log, opened' = Append(opened, h), State' = [State EXCEPT ![Mon(h)] = new],
         new.last = h, new.inc # None, new.rec = NoTime,
         \/ State[Mon(h)].inc = None
         \/ State[Mon(h)].rec # NoTime /\ log[h].time - State[Mon(h)].rec >= Grace
  PROVE  EpisodeInv'
<1> DEFINE n == Len(opened)
<1>1. /\ n \in Nat /\ DOMAIN opened = 1..n
      /\ \A i \in 1..n : opened[i] \in Beats
      /\ \A k \in Beats : k \in Nat /\ Mon(k) \in Monitors
      /\ \A m \in Monitors : State[m].last \in Nat
  BY OpenedFacts
<1>2. Beats' = Beats /\ \A k : Mon(k)' = Mon(k)
  BY DEF Beats, Mon
<1>3. \A m \in Monitors : State'[m] = IF m = Mon(h) THEN new ELSE State[m]
  BY <1>1 DEF State
<1>4. /\ DOMAIN opened' = 1..(n + 1)
      /\ \A i \in 1..n : opened'[i] = opened[i]
      /\ opened'[n + 1] = h
  <2>1. opened \in Seq(Beats)
    BY DEF Shape, LedgerShape
  <2> QED BY <2>1, AppendProperties, LenProperties
<1> HIDE DEF n
<1>5. ASSUME NEW i \in 1..n, Mon(opened[i]) = Mon(h) PROVE opened[i] < h
  <2>1. opened[i] <= State[Mon(h)].last
    BY <1>1, <1>5 DEF EpisodeInv, KnownInv
  <2> QED BY <1>1, <2>1
<1>6. ASSUME NEW i \in 1..(n + 1) PROVE opened'[i] <= State'[Mon(opened'[i])].last
  <2>1. CASE i = n + 1
    BY <1>1, <1>3, <1>4, <2>1
  <2>2. CASE i \in 1..n /\ Mon(opened[i]) = Mon(h)
    BY <1>1, <1>3, <1>4, <1>5, <2>2
  <2>3. CASE i \in 1..n /\ Mon(opened[i]) # Mon(h)
    <3>1. opened[i] <= State[Mon(opened[i])].last
      BY <1>1, <2>3 DEF EpisodeInv, KnownInv
    <3> QED BY <1>1, <1>3, <1>4, <2>3, <3>1
  <2> QED BY <1>1, <2>1, <2>2, <2>3
<1>7. ASSUME NEW m \in Monitors, State'[m].inc = None, NEW i \in 1..(n + 1), Mon(opened'[i]) = m
      PROVE  FALSE
  <2>1. m # Mon(h) /\ State[m].inc = None
    BY <1>3, <1>7
  <2>2. i \in 1..n
    BY <1>1, <1>4, <1>7, <2>1
  <2> QED BY <1>1, <1>4, <1>7, <2>1, <2>2 DEF EpisodeInv, KnownInv
<1>8. ASSUME NEW m \in Monitors, State'[m].rec # NoTime
      PROVE  \E u \in Beats : /\ u <= State'[m].last /\ Mon(u) = m
                     /\ log[u].status = "up" /\ log[u].time = State'[m].rec
                     /\ \A i \in 1..(n + 1) : Mon(opened'[i]) = m => opened'[i] <= u
  <2>1. m # Mon(h) /\ State'[m] = State[m]
    BY <1>3, <1>8
  <2>2. PICK u \in Beats : /\ u <= State[m].last /\ Mon(u) = m
                        /\ log[u].status = "up" /\ log[u].time = State[m].rec
                        /\ \A i \in 1..n : Mon(opened[i]) = m => opened[i] <= u
    BY <1>1, <1>8, <2>1 DEF EpisodeInv, KnownInv
  <2>3. \A i \in 1..(n + 1) : Mon(opened'[i]) = m => opened'[i] <= u
    <3> SUFFICES ASSUME NEW i \in 1..(n + 1), Mon(opened'[i]) = m PROVE opened'[i] <= u
      OBVIOUS
    <3>1. i \in 1..n
      BY <1>1, <1>4, <2>1
    <3> QED BY <1>4, <2>2, <3>1
  <2> QED BY <2>1, <2>2, <2>3
<1>9. KnownInv'
  BY <1>2, <1>4, <1>6, <1>7, <1>8 DEF KnownInv
<1>10. ASSUME NEW i \in 1..n, Mon(opened[i]) = Mon(h)
       PROVE  \E u \in opened[i]..h : /\ Mon(u) = Mon(h) /\ log[u].status = "up"
                                      /\ log[h].time - log[u].time >= Grace
  <2>1. State[Mon(h)].inc # None
    BY <1>1, <1>10 DEF EpisodeInv, KnownInv
  <2>2. State[Mon(h)].rec # NoTime /\ log[h].time - State[Mon(h)].rec >= Grace
    BY <2>1
  <2>3. PICK u \in Beats : /\ u <= State[Mon(h)].last /\ Mon(u) = Mon(h)
                        /\ log[u].status = "up" /\ log[u].time = State[Mon(h)].rec
                        /\ \A k \in 1..n : Mon(opened[k]) = Mon(h) => opened[k] <= u
    BY <1>1, <2>2 DEF EpisodeInv, KnownInv
  <2>4. u \in opened[i]..h
    BY <1>1, <1>10, <2>3
  <2> QED BY <2>2, <2>3, <2>4
<1>11. NoDuplicateEpisode'
  <2> DEFINE Apart(i, j) == \E u \in opened'[i]..opened'[j] :
                              /\ Mon(u) = Mon(opened'[i]) /\ log[u].status = "up"
                              /\ log[opened'[j]].time - log[u].time >= Grace
  <2> SUFFICES ASSUME NEW i \in 1..(n + 1), NEW j \in 1..(n + 1), i < j,
                      Mon(opened'[i]) = Mon(opened'[j])
               PROVE  Apart(i, j)
    <3>1. NoDuplicateEpisode' <=>
            \A i, j \in DOMAIN opened' : i < j /\ Mon(opened'[i]) = Mon(opened'[j]) =>
              Apart(i, j)
      BY DEF NoDuplicateEpisode, Mon
    <3> HIDE DEF Apart
    <3> QED BY <1>4, <3>1
  <2>1. i \in 1..n /\ opened'[i] = opened[i] /\ (j = n + 1 \/ j \in 1..n)
    BY <1>1, <1>4
  <2>2. CASE j = n + 1
    BY <1>4, <1>10, <2>1, <2>2
  <2>3. CASE j \in 1..n
    <3>1. opened'[j] = opened[j] /\ i \in DOMAIN opened /\ j \in DOMAIN opened
      BY <1>1, <1>4, <2>1, <2>3
    <3>2. \E u \in opened[i]..opened[j] :
            /\ Mon(u) = Mon(opened[i]) /\ log[u].status = "up"
            /\ log[opened[j]].time - log[u].time >= Grace
      BY <2>1, <3>1 DEF EpisodeInv, NoDuplicateEpisode
    <3> QED BY <2>1, <3>1, <3>2
  <2> QED BY <2>1, <2>2, <2>3
<1> QED BY <1>9, <1>11 DEF EpisodeInv

(* Every step of the abstract outage keeps the episodes apart.              *)
LEMMA NextEpisodes ==
  ASSUME Shape, AheadInv, EpisodeInv, [Outage!Next]_(Outage!vars)
  PROVE  EpisodeInv'
<1>1. CASE Outage!Beat
  <2>1. PICK m \in Monitors, s \in Statuses, gap \in 0..MaxGap :
          log' = Append(log, [mon |-> m, status |-> s, time |-> Now + gap])
    BY <1>1 DEF Outage!Beat, Outage!Statuses, Statuses, Now
  <2>2. (\A h \in Beats : log'[h] = log[h]) /\ Beats \subseteq Beats'
    BY <2>1, BeatFacts DEF Shape
  <2>3. UNCHANGED opened /\ State' = State
    BY <1>1 DEF Outage!Beat, State
  <2> QED BY <2>2, <2>3, EpisodesKept
<1>2. CASE UNCHANGED Outage!vars
  <2>1. UNCHANGED <<log, opened>> /\ State' = State /\ Beats' = Beats
    BY <1>2 DEF Outage!vars, State, Beats
  <2> QED BY <2>1, EpisodesKept
<1>3. ASSUME NEW h \in 1..Len(log), Outage!TakeIn(h) PROVE EpisodeInv'
  <2> DEFINE s == State[Mon(h)]
  <2>1. h \in Beats /\ s.last < h /\ UNCHANGED log
    BY <1>3 DEF Beats, Outage!TakeIn, Outage!NextOf, Outage!Mon, Mon, State
  <2>2. ASSUME NEW new, Outage!Know(h, new) PROVE State' = [State EXCEPT ![Mon(h)] = new]
    BY <2>2 DEF Outage!Know, Outage!Mon, Mon, State
  <2>3. \E l, d, i, r : s = [last |-> l, down |-> d, inc |-> i, rec |-> r]
    <3>1. Mon(h) \in Monitors /\ s = TakenIn(Mon(h))
      BY <2>1, OpenedFacts DEF State
    <3>2. \/ TakenIn(Mon(h)) = cp[Mon(h)]
          \/ \E r : TakenIn(Mon(h)) =
                [last |-> r, down |-> log[r].status = "down", inc |-> ledger[r],
                 rec |-> IF log[r].status = "down" THEN NoTime ELSE log[r].time]
      BY DEF TakenIn
    <3>3. \E l, d, i, r : cp[Mon(h)] = [last |-> l, down |-> d, inc |-> i, rec |-> r]
      <4>1. cp[Mon(h)] = [last |-> cp[Mon(h)].last, down |-> cp[Mon(h)].down,
                          inc |-> cp[Mon(h)].inc, rec |-> cp[Mon(h)].rec]
        BY <3>1, CheckpointFacts DEF Shape
      <4> QED BY <4>1
    <3> QED BY <3>1, <3>2, <3>3
  <2>4. CASE Outage!NewEpisode(h)
    <3> DEFINE new == [last |-> h, down |-> TRUE, inc |-> Len(opened) + 1, rec |-> -1]
    <3>1. /\ s.inc = None \/ (s.rec # NoTime /\ log[h].time - s.rec >= Grace)
          /\ opened' = Append(opened, h)
          /\ Outage!Know(h, new)
      BY <2>4 DEF Outage!NewEpisode, Outage!Mon, Mon, State, None, NoTime
    <3>2. State' = [State EXCEPT ![Mon(h)] = new]
      <4> HIDE DEF new
      <4> QED BY <2>2, <3>1
    <3>3. new.last = h /\ new.inc # None /\ new.rec = NoTime
      BY OpenedFacts DEF None, NoTime
    <3>4. Shape /\ AheadInv /\ EpisodeInv
      OBVIOUS
    <3> HIDE DEF new, s
    <3>5. State[Mon(h)].last < h
      BY <2>1 DEF s
    <3>6. CASE State[Mon(h)].inc = None
      BY ONLY <2>1, <3>1, <3>2, <3>3, <3>4, <3>5, <3>6, EpisodeOpens
    <3>7. CASE State[Mon(h)].rec # NoTime /\ log[h].time - State[Mon(h)].rec >= Grace
      BY ONLY <2>1, <3>1, <3>2, <3>3, <3>4, <3>5, <3>7, EpisodeOpens
    <3> QED BY <3>1, <3>6, <3>7 DEF s
  <2>5. CASE Outage!Flap(h)
    <3> DEFINE new == [s EXCEPT !.last = h, !.down = TRUE, !.rec = -1]
    <3>1. Outage!Know(h, new) /\ UNCHANGED opened
      BY <2>5 DEF Outage!Flap, Outage!Mon, Mon, State
    <3>2. new.last = h /\ new.inc = s.inc /\ new.rec = NoTime
      BY <2>3 DEF NoTime
    <3> HIDE DEF new
    <3>3. State' = [State EXCEPT ![Mon(h)] = new]
      BY <2>2, <3>1
    <3> QED BY <2>1, <3>1, <3>2, <3>3, EpisodeContinues
  <2>6. CASE Outage!Recovery(h)
    <3> DEFINE new == [s EXCEPT !.last = h, !.down = FALSE, !.rec = log[h].time]
    <3>1. Outage!Know(h, new) /\ UNCHANGED opened /\ log[h].status = "up"
      BY <2>6 DEF Outage!Recovery, Outage!Mon, Mon, State
    <3>2. new.last = h /\ new.inc = s.inc /\ new.rec = log[h].time
      BY <2>3
    <3> HIDE DEF new
    <3>3. State' = [State EXCEPT ![Mon(h)] = new]
      BY <2>2, <3>1
    <3> QED BY <2>1, <3>1, <3>2, <3>3, EpisodeContinues
  <2>7. CASE Outage!Nothing(h)
    <3> DEFINE d == IF log[h].status = "pending" THEN s.down ELSE log[h].status = "down"
               new == [s EXCEPT !.last = h, !.down = d]
    <3>1. Outage!Know(h, new) /\ UNCHANGED opened
      BY <2>7 DEF Outage!Nothing, Outage!Mon, Mon, State
    <3>2. new.last = h /\ new.inc = s.inc /\ new.rec = s.rec
      <4> HIDE DEF d
      <4> QED BY <2>3
    <3> HIDE DEF new
    <3>3. State' = [State EXCEPT ![Mon(h)] = new]
      BY <2>2, <3>1
    <3> QED BY <2>1, <3>1, <3>2, <3>3, EpisodeContinues
  <2> QED BY <1>3, <2>4, <2>5, <2>6, <2>7 DEF Outage!TakeIn
<1> QED BY <1>1, <1>2, <1>3 DEF Outage!Next

(* At the start no incident is open.                                        *)
LEMMA InitEpisodes == Init => EpisodeInv
<1> SUFFICES ASSUME Init PROVE EpisodeInv
  OBVIOUS
<1>1. DOMAIN opened = {} /\ Recorded = {}
  BY DEF Init, Recorded
<1>2. \A m \in Monitors : State[m].rec = NoTime
  BY <1>1 DEF Init, State, TakenIn
<1> QED BY <1>1, <1>2 DEF EpisodeInv, KnownInv, NoDuplicateEpisode

(* Under the same conditions one outage is one incident: whichever run     *)
(* died, wherever, a monitor was up for the grace period or longer between *)
(* two heartbeats that open incidents.                                     *)
THEOREM OneIncidentPerOutage ==
  ASSUME StartCursor = 0, MaxEdits = 0
  PROVE  Spec => []NoDuplicateEpisode
<1>1. Init => EpisodeInv
  BY InitEpisodes
<1>2. /\ Shape /\ CoverInv /\ FollowInv /\ EpisodeInv /\ Shape' /\ FollowInv' /\ [Next]_vars
      => EpisodeInv'
  <2> SUFFICES ASSUME Shape, CoverInv, FollowInv, EpisodeInv, Shape', FollowInv', [Next]_vars
               PROVE  EpisodeInv'
    OBVIOUS
  <2>1. [Outage!Next]_(Outage!vars)
    BY NextRefines
  <2> QED BY <2>1, NextEpisodes DEF FollowInv
<1>3. Spec => []FollowInv
  BY FollowsAlways
<1>4. EpisodeInv => NoDuplicateEpisode
  BY DEF EpisodeInv
<1> QED BY <1>1, <1>2, <1>3, <1>4, ShapeAlways, CoversAlways, PTL DEF Spec
=============================================================================
