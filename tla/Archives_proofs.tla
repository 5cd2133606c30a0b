--------------------------- MODULE Archives_proofs ---------------------------
(***************************************************************************)
(* The archives.  The archive of executions, for any streams, chunks,      *)
(* buffers, quotas, collectors, journal entries and any number of deaths   *)
(* and failures: no row without its original, no hole in what is sealed,   *)
(* no entry passed over, and no original without its row once a recovery   *)
(* has ended.  The archive of a chat, its export and the timeline, for any *)
(* messages, months, rows, windows and faults: no false tombstone, each    *)
(* message once, and no row passed by the windows that is not there.  At   *)
(* the end, all of them in the composition that is checked.                *)
(***************************************************************************)
EXTENDS MCArchives, SequenceTheorems, FiniteSetTheorems, WellFoundedInduction, TLAPS

-----------------------------------------------------------------------------
(* Types.                                                                  *)

PruneOps == {"unindex", "manifest", "content", "remove"}
CmdOps   == {"begin", "raw", "timing", "truncated", "sensitive", "erase"}
TrimNames == {"empty", "rewrite", "retime"}
OpNames  == PruneOps \cup CmdOps \cup TrimNames
              \cup {"prune", "frames", "complete", "interrupted", "unlink", "index"}
OpSet    == [op : OpNames, ev : Events, s : Streams \cup {"output"}, what : Seq(Nat)]

Contents == [Streams -> Seq(Nat)]
DirSet   == [man : {"none", "active", "complete", "interrupted"},
             gap : {"no", "storage", "truncated", "sensitive"},
             raw : Contents, tim : Contents, zst : Contents, files : Contents]

ArchiveTypes ==
  /\ dir \in [Events -> DirSet]
  /\ index \subseteq Events /\ order \in Seq(Events)
  /\ lock \in [by : {"nobody", "cmd", "recover"} \cup Collectors, todo : Seq(OpSet)]
  /\ cmd \in [pc : {"start", "run", "end", "done", "dead"}, read : Nat, pending : Seq(Nat),
              due : Seq(Streams \X Nat), failed : BOOLEAN, secret : BOOLEAN]
  /\ col \in [Collectors -> [pc : {"idle", "record"}, at : Nat, upto : Nat]]
  /\ rec \in [pc : {"idle", "scan", "last"}, rows : SUBSET Events, todo : SUBSET Events]
  /\ cursor \in Nat /\ written \in 0..Entries /\ faults \in 0..MaxFaults
  /\ ever \subseteq Events

-----------------------------------------------------------------------------
(* The invariant.                                                          *)

Owed    == Range(lock.todo)
OwedOf(e) == {o \in Owed : o.ev = e}

(* The order of what a holder still has to do: the index comes after the   *)
(* manifest and only prunes after it, the rows of an event go before its   *)
(* files, what was pruned is gone before the next is, and what begins an   *)
(* event or writes to its stream waits for prunes only.                    *)
Before(o, p) ==
  /\ o.op = "index" => p.op = "prune"
  /\ p.op # "unindex" /\ o.op # "begin"
  /\ Ends(o) \/ o.op = "unlink" => p.op \in {"unlink", "index", "prune"}
  /\ o.op = "frames" => p.op \in {"complete", "interrupted", "unlink", "index", "prune"}
  /\ o.op = "prune" => p.op \notin PruneOps
  /\ p.op # "raw" /\ (p.op = "begin" => o.op \in PruneOps \cup {"prune"})
  /\ p.op = "complete" /\ p.ev = Cmd => o.op = "frames"
Reindexes(o, p) == o.op \in PruneOps \cup {"prune"} /\ p.op = "index"
Seals(o, p)     == Ends(o) /\ o.ev = p.ev
Ordered(q) == \A i, j \in DOMAIN q : i < j =>
  /\ Before(q[i], q[j])
  /\ Reindexes(q[i], q[j]) => \E k \in (i + 1)..(j - 1) : Seals(q[k], q[j])

(* Who owes which operation, and of which event.                           *)
Rightly(o) ==
  /\ o.op \in CmdOps => lock.by = "cmd" /\ o.ev = Cmd /\ cmd.pc \in {"run", "end"}
  /\ o.op \in TrimNames \cup {"interrupted"} => lock.by = "recover" /\ o.ev = Cmd
  /\ o.op = "complete" => \/ lock.by = "cmd" /\ o.ev = Cmd
                          \/ /\ lock.by \in Collectors /\ col[lock.by].pc = "record"
                             /\ o.ev = col[lock.by].at /\ o.ev # Cmd
  /\ o.op \notin CmdOps \cup {"prune"} /\ o.ev = Cmd => cmd.pc \in {"done", "dead"}
OwnerInv ==
  /\ lock.by = "nobody" => lock.todo = <<>>
  /\ rec.pc # "idle" <=> lock.by = "recover"
  /\ \A o \in Owed : Rightly(o)

(* Which manifests there are: only the command's is ever active, while it  *)
(* runs nothing of it is sealed, and before it began there is nothing.     *)
PhaseInv ==
  /\ \A e \in Events : dir[e].man = "active" => e = Cmd
  /\ Sealed(Cmd) => cmd.pc \in {"done", "dead"}
  /\ cmd.pc = "start" \/ (\E o \in Owed : o.op = "begin") =>
       /\ dir[Cmd] = NoDir
       /\ cmd.read = 0 /\ cmd.pending = <<>> /\ cmd.due = <<>> /\ ~cmd.failed /\ ~cmd.secret

(* The rows: what has one is sealed, what is about to get one will be, and *)
(* what is about to lose its files has lost its row.                       *)
RowInv ==
  /\ RowsHaveOriginals
  /\ \A o \in Owed : o.op = "index" => Sealed(o.ev) \/ \E p \in OwedOf(o.ev) : Ends(p)
  /\ \A o \in Owed : o.op \in {"manifest", "content", "remove"} =>
       o.ev \notin index \/ \E p \in OwedOf(o.ev) : p.op = "unindex"

(* The journal: what a collector is past, was recorded once, but for the   *)
(* entry it is recording.                                                  *)
PassInv ==
  /\ NothingPassed /\ cursor <= written
  /\ \A e \in Events \ {Cmd} : dir[e].man # "none" => e \in ever
  /\ \A c \in Collectors : col[c].pc = "record" =>
       /\ col[c].at <= col[c].upto /\ col[c].upto <= written
       /\ \A e \in 1..col[c].at : \/ e \in ever
                                  \/ /\ e = col[c].at /\ lock.by = c
                                     /\ \E o \in OwedOf(e) : Ends(o)

(* The recovery: during its scan every sealed event has its row, or is to  *)
(* be visited, or is about to get it; afterwards one that has none is      *)
(* about to be removed.                                                    *)
ScanInv ==
  /\ rec.pc = "scan" =>
       /\ rec.rows \subseteq index /\ \A e \in rec.todo : dir[e].man # "none"
       /\ \A o \in Owed : o.op \notin PruneOps \cup {"prune"}
       /\ \A o \in Owed : Ends(o) => o.ev \in index \/ \E p \in OwedOf(o.ev) : p.op = "index"
       /\ \A e \in Events : Sealed(e) =>
            e \in index \/ e \in rec.todo \/ \E p \in OwedOf(e) : p.op = "index"
  /\ rec.pc = "last" =>
       /\ \A o \in Owed : o.op \in PruneOps \cup {"prune"}
       /\ \A o \in Owed : o.op = "unindex" => \E p \in OwedOf(o.ev) : p.op = "remove"
       /\ \A e \in Events : Sealed(e) => e \in index \/ \E p \in OwedOf(e) : p.op = "remove"

(* The beginning of the command's output.                                  *)
Begins(x) == Len(x) <= cmd.read /\ \A i \in 1..Len(x) : x[i] = i

(* All that the streams hold, or will, begins the output.                  *)
ContentInv ==
  /\ \A s \in Streams : /\ Begins(dir[Cmd].raw[s]) /\ Begins(dir[Cmd].zst[s])
                        /\ Begins(dir[Cmd].files[s])
  /\ \A o \in Owed :
       /\ o.op = "rewrite" => Begins(o.what)
       /\ o.op = "empty" => o.what = <<>>
       /\ o.op = "raw" => /\ o.s \in Streams /\ Len(dir[Cmd].raw[o.s]) < cmd.read
                          /\ o.what = <<Len(dir[Cmd].raw[o.s]) + 1>>

(* As long as nothing was lost, every chunk of output is, for each stream, *)
(* stored, or due, or pending.                                             *)
Whole   == /\ ~cmd.failed /\ ~cmd.secret /\ dir[Cmd].gap = "no"
           /\ \A o \in Owed : o.op # "truncated"
HasRaw(s) == Len(dir[Cmd].raw[s]) + IF \E o \in Owed : o.op = "raw" /\ o.s = s THEN 1 ELSE 0
Flushed == cmd.read - Len(cmd.pending)
Waits(due, s, x) == \E j \in DOMAIN due : due[j] = <<s, x>>
InTurn(due) == \A i, j \in DOMAIN due : i < j /\ due[i][1] = due[j][1] => due[i][2] < due[j][2]
AccountInv ==
  /\ cmd.pc = "end" => cmd.pending = <<>>
  /\ cmd.pc \in {"start", "run", "end"} /\ Whole =>
       /\ Flushed \in Nat
       /\ \A i \in DOMAIN cmd.pending : cmd.pending[i] = Flushed + i
       /\ InTurn(cmd.due)
       /\ \A s \in Streams : /\ HasRaw(s) <= Flushed
                             /\ \A x \in Nat : Waits(cmd.due, s, x) <=> HasRaw(s) < x /\ x <= Flushed

(* After a chunk that must not be kept nothing waits to be stored, and     *)
(* either the gap says so or the adapter failed.                           *)
SecretInv ==
  /\ cmd.secret => cmd.pending = <<>> /\ cmd.due = <<>>
  /\ dir[Cmd].gap = "sensitive" \/ (\E o \in Owed : o.op \in {"erase", "sensitive"}) => cmd.secret
  /\ dir[Cmd].gap = "storage" => cmd.pc \in {"done", "dead"}
  /\ cmd.pc \in {"start", "run", "end"} /\ cmd.secret /\ ~cmd.failed =>
       dir[Cmd].gap # "no" \/ \E o \in Owed : o.op = "sensitive"

(* So a seal that says complete and names no gap has all of it.            *)
SealInv ==
  /\ \A o \in OwedOf(Cmd) : o.op = "complete" /\ ~cmd.failed /\ dir[Cmd].gap = "no" =>
       \A s \in Streams :
         IF \E p \in OwedOf(Cmd) : p.op = "frames" THEN Len(dir[Cmd].raw[s]) = cmd.read
                                                   ELSE Len(dir[Cmd].zst[s]) = cmd.read
  /\ dir[Cmd].man = "complete" /\ dir[Cmd].gap = "no" =>
       \A s \in Streams : Len(dir[Cmd].files[s]) = cmd.read

ArchiveInv ==
  /\ ArchiveTypes /\ Ordered(lock.todo) /\ OwnerInv /\ PhaseInv /\ RowInv /\ PassInv
  /\ ScanInv /\ ContentInv /\ AccountInv /\ SecretInv /\ SealInv

-----------------------------------------------------------------------------
(* Sequences.                                                              *)

(* A set of numbers that is not empty has a least one: the form of         *)
(* induction over the natural numbers used below.                          *)
LEMMA LeastNumber ==
  ASSUME NEW B \in SUBSET Nat, B # {}
  PROVE  \E n \in B : \A m \in B : n <= m
<1>1. PICK n \in B : \A m \in B : ~(<<m, n>> \in OpToRel(<, Nat))
  BY NatLessThanWellFounded, WFMin
<1>2. \A m \in B : ~(m < n)
  BY <1>1 DEF OpToRel
<1> QED BY <1>2

(* The recursion by which FlattenSeq puts sequences one behind the other.  *)
LEMMA FlattenUnfolds ==
  ASSUME NEW S, NEW q \in Seq(Seq(S)), q # <<>>
  PROVE  \E f \in [1..Len(q) -> Seq(S)] :
           /\ \A i \in 1..Len(q) : f[i] = IF i = 1 THEN q[i] ELSE f[i - 1] \o q[i]
           /\ FlattenSeq(q) = f[Len(q)]
<1> DEFINE n == Len(q)
           Is(m, f) == \A i \in 1..m : f[i] = IF i = 1 THEN q[i] ELSE f[i - 1] \o q[i]
           Bad == {m \in Nat : m \in 1..n /\ \A f \in [1..m -> Seq(S)] : ~Is(m, f)}
<1>1. n \in Nat /\ n > 0 /\ \A i \in 1..n : q[i] \in Seq(S)
  OBVIOUS
<1>2. Bad = {}
  <2> SUFFICES ASSUME Bad # {} PROVE FALSE
    OBVIOUS
  <2>1. PICK m \in Bad : \A k \in Bad : m <= k
    <3>1. Bad \in SUBSET Nat
      OBVIOUS
    <3> HIDE DEF Bad
    <3> QED BY <3>1, LeastNumber
  <2>2. CASE m = 1
    <3> DEFINE g == [i \in 1..1 |-> q[1]]
    <3>1. g \in [1..1 -> Seq(S)] /\ Is(1, g)
      BY <1>1
    <3> QED BY <2>2, <3>1
  <2>3. CASE m # 1
    <3>1. m - 1 \in Nat /\ m - 1 \in 1..n /\ ~(m <= m - 1) /\ m \in 1..n
      BY <1>1, <2>3
    <3>2. PICK f \in [1..(m - 1) -> Seq(S)] : Is(m - 1, f)
      BY <2>1, <3>1
    <3> DEFINE g == [i \in 1..m |-> IF i = m THEN f[m - 1] \o q[m] ELSE f[i]]
    <3>3. f[m - 1] \in Seq(S) /\ q[m] \in Seq(S)
      BY <1>1, <3>1
    <3>4. f[m - 1] \o q[m] \in Seq(S)
      BY <3>3
    <3>5. g \in [1..m -> Seq(S)]
      BY <3>1, <3>4
    <3>6. ASSUME NEW i \in 1..m PROVE g[i] = IF i = 1 THEN q[i] ELSE g[i - 1] \o q[i]
      <4>1. CASE i = m
        <5>1. m - 1 \in 1..m /\ m - 1 # m /\ i # 1
          BY <2>3, <3>1, <4>1
        <5>2. g[m - 1] = f[m - 1] /\ g[i] = f[m - 1] \o q[m]
          BY <4>1, <5>1
        <5> QED BY <4>1, <5>1, <5>2
      <4>2. CASE i # m
        <5>1. i \in 1..(m - 1) /\ g[i] = f[i] /\ (i # 1 => g[i - 1] = f[i - 1])
          BY <3>1, <4>2
        <5> QED BY <3>2, <5>1
      <4> QED BY <4>1, <4>2
    <3>7. Is(m, g)
      BY <3>6
    <3> HIDE DEF g
    <3> QED BY <3>5, <3>7
  <2> QED BY <2>2, <2>3
<1>3. PICK g \in [1..n -> Seq(S)] : Is(n, g)
  <2>1. n \in Nat /\ n \in 1..n
    BY <1>1
  <2> HIDE DEF Is, n
  <2> QED BY <1>2, <2>1
<1> DEFINE Rec(h) == h = [i \in 1..n |-> IF i = 1 THEN q[i] ELSE h[i - 1] \o q[i]]
           f == CHOOSE h : Rec(h)
<1>4. Rec(g)
  <2>1. g = [i \in 1..n |-> g[i]]
    OBVIOUS
  <2> QED BY <1>3, <2>1
<1>5. Rec(f)
  <2> HIDE DEF Rec
  <2> QED BY <1>4
<1>6. FlattenSeq(q) = f[n]
  BY <1>1 DEF FlattenSeq
<1> HIDE DEF f
<1>7. Is(n, f)
  BY <1>5
<1>8. DOMAIN f = 1..n
  BY <1>5
<1> DEFINE Odd == {m \in Nat : m \in 1..n /\ f[m] \notin Seq(S)}
<1>9. Odd = {}
  <2> SUFFICES ASSUME Odd # {} PROVE FALSE
    OBVIOUS
  <2>1. PICK m \in Odd : \A k \in Odd : m <= k
    <3>1. Odd \in SUBSET Nat
      OBVIOUS
    <3> HIDE DEF Odd
    <3> QED BY <3>1, LeastNumber
  <2>2. CASE m = 1
    BY <1>1, <1>7, <2>1, <2>2
  <2>3. CASE m # 1
    <3>1. m \in 1..n /\ m - 1 \in Nat /\ m - 1 \in 1..n /\ ~(m <= m - 1)
      BY <1>1, <2>3
    <3>2. f[m - 1] \in Seq(S) /\ q[m] \in Seq(S)
      BY <1>1, <2>1, <3>1
    <3>3. f[m] = f[m - 1] \o q[m]
      BY <1>7, <2>3, <3>1
    <3>4. f[m - 1] \o q[m] \in Seq(S)
      BY <3>2
    <3> QED BY <3>3, <3>4
  <2> QED BY <2>2, <2>3
<1>10. f \in [1..n -> Seq(S)]
  <2>1. ASSUME NEW i \in 1..n PROVE f[i] \in Seq(S)
    <3>1. i \in Nat
      BY <1>1
    <3> HIDE DEF n
    <3> QED BY <1>9, <3>1
  <2>2. f = [i \in 1..n |-> f[i]]
    BY <1>5
  <2> QED BY <2>1, <2>2
<1> QED BY <1>6, <1>7, <1>10

(* What FlattenSeq puts together is made of the same elements.             *)
LEMMA FlattenTypes ==
  ASSUME NEW S, NEW q \in Seq(Seq(S))
  PROVE  FlattenSeq(q) \in Seq(S)
<1>1. CASE q = <<>>
  BY <1>1 DEF FlattenSeq
<1>2. CASE q # <<>>
  <2>1. Len(q) \in 1..Len(q)
    BY <1>2
  <2> QED BY <1>2, <2>1, FlattenUnfolds
<1> QED BY <1>1, <1>2

(* SetToSeq lists a finite set.                                            *)
LEMMA ListFacts ==
  ASSUME NEW S, IsFiniteSet(S)
  PROVE  /\ Cardinality(S) \in Nat
         /\ SetToSeq(S) \in [1..Cardinality(S) -> S]
         /\ \A x \in S : \E i \in 1..Cardinality(S) : SetToSeq(S)[i] = x
         /\ \A i, j \in 1..Cardinality(S) : SetToSeq(S)[i] = SetToSeq(S)[j] => i = j
<1> DEFINE n == Cardinality(S)
<1>1. n \in Nat /\ ExistsBijection(1..n, S)
  BY FS_CardinalityType
<1>2. PICK g \in [1..n -> S] : IsInjective(g)
  BY <1>1 DEF ExistsBijection, Bijection, Injection
<1>3. SetToSeq(S) \in [1..n -> S] /\ IsInjective(SetToSeq(S))
  BY <1>2 DEF SetToSeq
<1>4. IsFiniteSet(1..n) /\ Cardinality(1..n) = n
  BY <1>1, FS_Interval
<1>5. SetToSeq(S) \in Surjection(1..n, S)
  <2>1. SetToSeq(S) \in Injection(1..n, S)
    BY <1>3 DEF Injection
  <2> QED BY <1>4, <2>1, FS_Injection
<1> QED BY <1>1, <1>3, <1>5 DEF Surjection, IsInjective

(* Two sequences, one behind the other.                                    *)
LEMMA Joined ==
  ASSUME NEW S, NEW x \in Seq(S), NEW y \in Seq(S)
  PROVE  /\ x \o y \in Seq(S) /\ Len(x \o y) = Len(x) + Len(y)
         /\ \A i \in 1..Len(x) : (x \o y)[i] = x[i]
         /\ \A i \in (Len(x) + 1)..(Len(x) + Len(y)) : (x \o y)[i] = y[i - Len(x)]
OBVIOUS

(* The elements of a sequence: of its first and the others, of two that    *)
(* are put together.                                                       *)
LEMMA RangeSplit ==
  ASSUME NEW S, NEW q \in Seq(S), q # <<>>
  PROVE  /\ Head(q) \in S /\ Tail(q) \in Seq(S)
         /\ Range(q) = {Head(q)} \cup Range(Tail(q))
<1>1. /\ Head(q) \in S /\ Tail(q) \in Seq(S) /\ Head(q) = q[1]
      /\ Len(q) \in Nat /\ Len(q) > 0 /\ DOMAIN q = 1..Len(q)
      /\ DOMAIN Tail(q) = 1..(Len(q) - 1)
      /\ \A i \in 1..(Len(q) - 1) : Tail(q)[i] = q[i + 1]
  OBVIOUS
<1>2. ASSUME NEW x \in Range(q) PROVE x \in {Head(q)} \cup Range(Tail(q))
  <2>1. PICK i \in 1..Len(q) : x = q[i]
    BY <1>1 DEF Range
  <2>2. CASE i = 1
    BY <1>1, <2>1, <2>2
  <2>3. CASE i # 1
    <3>1. i - 1 \in 1..(Len(q) - 1) /\ Tail(q)[i - 1] = q[i]
      BY <1>1, <2>3
    <3> QED BY <1>1, <2>1, <3>1 DEF Range
  <2> QED BY <2>2, <2>3
<1>3. ASSUME NEW x \in Range(Tail(q)) PROVE x \in Range(q)
  <2>1. PICK i \in 1..(Len(q) - 1) : x = Tail(q)[i]
    BY <1>1 DEF Range
  <2>2. i + 1 \in 1..Len(q) /\ x = q[i + 1]
    BY <1>1, <2>1
  <2> QED BY <1>1, <2>2 DEF Range
<1>4. Head(q) \in Range(q)
  <2>1. 1 \in 1..Len(q)
    BY <1>1
  <2> QED BY <1>1, <2>1 DEF Range
<1> QED BY <1>1, <1>2, <1>3, <1>4

(* What is in two sequences, one behind the other.                         *)
LEMMA RangeJoin ==
  ASSUME NEW S, NEW a \in Seq(S), NEW b \in Seq(S)
  PROVE  a \o b \in Seq(S) /\ Range(a \o b) = Range(a) \cup Range(b)
BY ConcatProperties, RangeConcatenation

(* The plans of a holder of the lock have up to six operations.            *)
LEMMA RangeNone == Range(<<>>) = {}
BY DEF Range

(* One operation.                                                          *)
LEMMA RangeOne ==
  ASSUME NEW a PROVE Range(<<a>>) = {a}
<1>1. DOMAIN <<a>> = {1}
  OBVIOUS
<1> QED BY <1>1 DEF Range

(* Two.                                                                    *)
LEMMA RangeTwo ==
  ASSUME NEW a, NEW b PROVE Range(<<a, b>>) = {a, b}
<1>1. DOMAIN <<a, b>> = {1, 2}
  OBVIOUS
<1> QED BY <1>1 DEF Range

(* Three: a seal (SealOps).                                                *)
LEMMA RangeThree ==
  ASSUME NEW a, NEW b, NEW c PROVE Range(<<a, b, c>>) = {a, b, c}
<1>1. DOMAIN <<a, b, c>> = {1, 2, 3}
  OBVIOUS
<1> QED BY <1>1 DEF Range

(* Four: a prune of one event (Prunes).                                    *)
LEMMA RangeFour ==
  ASSUME NEW a, NEW b, NEW c, NEW d PROVE Range(<<a, b, c, d>>) = {a, b, c, d}
<1>1. DOMAIN <<a, b, c, d>> = {1, 2, 3, 4}
  OBVIOUS
<1> QED BY <1>1 DEF Range

(* Five: the end of an event (EndOps).                                     *)
LEMMA RangeFive ==
  ASSUME NEW a, NEW b, NEW c, NEW d, NEW e PROVE Range(<<a, b, c, d, e>>) = {a, b, c, d, e}
<1>1. DOMAIN <<a, b, c, d, e>> = {1, 2, 3, 4, 5}
  OBVIOUS
<1> QED BY <1>1 DEF Range

(* Six: an entry of the journal, with the prune before it (Record).        *)
LEMMA RangeSix ==
  ASSUME NEW a, NEW b, NEW c, NEW d, NEW e, NEW f PROVE Range(<<a, b, c, d, e, f>>) = {a, b, c, d, e, f}
<1>1. DOMAIN <<a, b, c, d, e, f>> = {1, 2, 3, 4, 5, 6}
  OBVIOUS
<1> QED BY <1>1 DEF Range

(* An operation of a plan.                                                 *)
LEMMA OpTypes ==
  ASSUME NEW e \in Events
  PROVE  \A name \in OpNames : /\ Op(name, e) \in OpSet
                               /\ Op(name, e).op = name /\ Op(name, e).ev = e
<1>1. <<>> \in Seq(Nat)
  OBVIOUS
<1> QED BY <1>1 DEF Op, OpSet

(* An operation on one stream of the command.                              *)
LEMMA FileTypes ==
  ASSUME NEW s \in Streams, NEW w \in Seq(Nat)
  PROVE  \A name \in OpNames :
           /\ File(name, s, w) \in OpSet /\ File(name, s, w).op = name
           /\ File(name, s, w).ev = Cmd /\ File(name, s, w).s = s /\ File(name, s, w).what = w
BY DEF File, OpSet, Events

(* What comes after the operation that is next.                            *)
Follow(o, rest) == \A p \in Range(rest) :
  Before(o, p) /\ (Reindexes(o, p) => \E r \in Range(rest) : Seals(r, p))

(* An ordered plan stays ordered when its first operation is done.         *)
LEMMA OrderedTail ==
  ASSUME NEW q \in Seq(OpSet), q # <<>>, Ordered(q)
  PROVE  Ordered(Tail(q)) /\ Follow(Head(q), Tail(q))
<1> DEFINE n == Len(q)
           t == Tail(q)
<1>1. /\ n \in Nat /\ n > 0 /\ DOMAIN q = 1..n /\ Head(q) = q[1]
      /\ DOMAIN t = 1..(n - 1)
      /\ \A i \in 1..(n - 1) : t[i] = q[i + 1]
  OBVIOUS
<1> HIDE DEF n, t
<1>2. ASSUME NEW i \in DOMAIN t, NEW j \in DOMAIN t, i < j
      PROVE  /\ Before(t[i], t[j])
             /\ Reindexes(t[i], t[j]) => \E k \in (i + 1)..(j - 1) : Seals(t[k], t[j])
  <2>1. i + 1 \in DOMAIN q /\ j + 1 \in DOMAIN q /\ i + 1 < j + 1
    BY <1>1, <1>2
  <2>2. t[i] = q[i + 1] /\ t[j] = q[j + 1]
    BY <1>1
  <2>3. Before(q[i + 1], q[j + 1])
    BY <2>1 DEF Ordered
  <2>4. ASSUME Reindexes(t[i], t[j])
        PROVE  \E k \in (i + 1)..(j - 1) : Seals(t[k], t[j])
    <3>1. PICK k \in (i + 2)..j : Seals(q[k], q[j + 1])
      <4>1. \E k \in (i + 1 + 1)..(j + 1 - 1) : Seals(q[k], q[j + 1])
        <5>1. Reindexes(q[i + 1], q[j + 1])
          BY <2>2, <2>4
        <5> QED BY <2>1, <5>1 DEF Ordered
      <4> QED BY <1>1, <4>1
    <3>2. k - 1 \in (i + 1)..(j - 1) /\ k - 1 \in 1..(n - 1) /\ (k - 1) + 1 = k
      BY <1>1
    <3> QED BY <1>1, <2>2, <3>1, <3>2
  <2> QED BY <2>2, <2>3, <2>4
<1>3. Ordered(t)
  BY <1>2 DEF Ordered
<1>4. ASSUME NEW p \in Range(t)
      PROVE  Before(q[1], p) /\ (Reindexes(q[1], p) => \E r \in Range(t) : Seals(r, p))
  <2>1. PICK j \in 1..(n - 1) : p = t[j]
    BY <1>1 DEF Range
  <2>2. p = q[j + 1] /\ j + 1 \in DOMAIN q /\ 1 \in DOMAIN q /\ 1 < j + 1
    BY <1>1, <2>1
  <2>3. Before(q[1], p)
    BY <2>2 DEF Ordered
  <2>4. ASSUME Reindexes(q[1], p) PROVE \E r \in Range(t) : Seals(r, p)
    <3>1. PICK k \in (1 + 1)..(j + 1 - 1) : Seals(q[k], q[j + 1])
      BY <2>2, <2>4 DEF Ordered
    <3>2. k - 1 \in 1..(n - 1) /\ q[k] = t[k - 1]
      <4>1. k \in 2..j /\ k \in Int /\ (k - 1) + 1 = k
        OBVIOUS
      <4>2. k - 1 \in 1..(n - 1)
        BY <1>1, <2>1, <4>1
      <4> QED BY <1>1, <4>1, <4>2
    <3>3. t[k - 1] \in Range(t)
      BY <1>1, <3>2 DEF Range
    <3> QED BY <2>2, <3>1, <3>2, <3>3
  <2> QED BY <2>3, <2>4
<1> QED BY <1>1, <1>3, <1>4 DEF Follow, t

(* A plan whose operations trim streams, or are of one prune, put before   *)
(* another keeps its order.                                                *)
LEMMA OrderedTrims ==
  ASSUME NEW a \in Seq(OpSet), NEW b \in Seq(OpSet), Ordered(b),
         \A o \in Range(a) : o.op \in TrimNames,
         \A o \in Range(b) : o.op \notin {"unindex", "begin", "raw", "complete"}
  PROVE  Ordered(a \o b)
<1> DEFINE m == Len(a)
           n == Len(b)
           q == a \o b
<1>1. /\ m \in Nat /\ n \in Nat /\ DOMAIN q = 1..(m + n) /\ DOMAIN b = 1..n /\ DOMAIN a = 1..m
      /\ \A i \in 1..m : q[i] = a[i]
      /\ \A i \in (m + 1)..(m + n) : q[i] = b[i - m]
  OBVIOUS
<1> HIDE DEF m, n, q
<1>2. \A i \in 1..m : q[i].op \in TrimNames
  BY <1>1 DEF Range
<1>3. ASSUME NEW i \in DOMAIN q, NEW j \in DOMAIN q, i < j
      PROVE  /\ Before(q[i], q[j])
             /\ Reindexes(q[i], q[j]) => \E k \in (i + 1)..(j - 1) : Seals(q[k], q[j])
  <2>1. CASE i \in 1..m
    <3>1. q[i].op \in TrimNames
      BY <1>2, <2>1
    <3>2. q[j].op \notin {"unindex", "begin", "raw", "complete"}
      <4>1. CASE j \in 1..m
        BY <1>2, <4>1 DEF TrimNames
      <4>2. CASE j \notin 1..m
        <5>1. j - m \in 1..n /\ q[j] = b[j - m]
          BY <1>1, <4>2
        <5> QED BY <1>1, <5>1 DEF Range
      <4> QED BY <4>1, <4>2
    <3> QED BY <3>1, <3>2 DEF TrimNames, Before, Reindexes, PruneOps, Ends
  <2>2. CASE i \notin 1..m
    <3>1. /\ i - m \in DOMAIN b /\ j - m \in DOMAIN b /\ i - m < j - m
          /\ q[i] = b[i - m] /\ q[j] = b[j - m]
      BY <1>1, <1>3, <2>2
    <3>2. ASSUME Reindexes(q[i], q[j])
          PROVE  \E k \in (i + 1)..(j - 1) : Seals(q[k], q[j])
      <4>1. PICK k \in (i - m + 1)..(j - m - 1) : Seals(b[k], b[j - m])
        BY <3>1, <3>2 DEF Ordered
      <4>2. k + m \in (i + 1)..(j - 1) /\ k + m \in (m + 1)..(m + n) /\ (k + m) - m = k
        BY <1>1, <3>1
      <4> QED BY <1>1, <3>1, <4>1, <4>2
    <3> QED BY <3>1, <3>2 DEF Ordered
  <2> QED BY <2>1, <2>2
<1>4. Ordered(q)
  BY <1>3 DEF Ordered
<1> QED BY <1>4 DEF q

(* The plans of a holder, one by one: what they consist of and in which    *)
(* order.                                                                  *)
IsPlan(q, ops) == q \in Seq(OpSet) /\ Ordered(q) /\ Range(q) = ops

(* Nothing to do.                                                          *)
LEMMA PlanNone == IsPlan(<<>>, {})
BY RangeNone DEF IsPlan, Ordered

(* One operation.                                                          *)
LEMMA PlanOne ==
  ASSUME NEW o \in OpSet
  PROVE  IsPlan(<<o>>, {o})
<1>1. DOMAIN <<o>> = {1} /\ <<o>> \in Seq(OpSet)
  OBVIOUS
<1>2. Ordered(<<o>>)
  BY <1>1 DEF Ordered
<1> QED BY <1>1, <1>2, RangeOne DEF IsPlan

(* Two in the right order.                                                 *)
LEMMA PlanTwo ==
  ASSUME NEW o \in OpSet, NEW p \in OpSet, Before(o, p), ~Reindexes(o, p)
  PROVE  IsPlan(<<o, p>>, {o, p})
<1>1. Ordered(<<o, p>>)
  <2>1. DOMAIN <<o, p>> = {1, 2}
    OBVIOUS
  <2> QED BY <2>1 DEF Ordered
<1> QED BY <1>1, RangeTwo DEF IsPlan

(* _seal: frames, manifest, and only then no raw streams.                  *)
LEMMA PlanSeal ==
  ASSUME NEW e \in Events, NEW state \in {"complete", "interrupted"}
  PROVE  IsPlan(SealOps(e, state), {Op("frames", e), Op(state, e), Op("unlink", e)})
<1> DEFINE q == SealOps(e, state)
<1>1. q \in Seq(OpSet) /\ q = <<Op("frames", e), Op(state, e), Op("unlink", e)>>
  BY OpTypes DEF SealOps, OpNames
<1>2. Ordered(q)
  <2>1. /\ DOMAIN q = {1, 2, 3} /\ q[1].op = "frames" /\ q[2].op = state /\ q[3].op = "unlink"
    BY <1>1, OpTypes DEF OpNames
  <2> HIDE DEF q
  <2> QED BY <2>1 DEF Ordered, Before, Reindexes, PruneOps, Ends
<1> QED BY <1>1, <1>2, RangeThree DEF IsPlan

(* A recovered event is sealed and then indexed.                           *)
LEMMA PlanSealIndex ==
  ASSUME NEW e \in Events, NEW state \in {"complete", "interrupted"}
  PROVE  IsPlan(SealOps(e, state) \o <<Op("index", e)>>,
                {Op("frames", e), Op(state, e), Op("unlink", e), Op("index", e)})
<1> DEFINE q == <<Op("frames", e), Op(state, e), Op("unlink", e), Op("index", e)>>
<1>1. q \in Seq(OpSet) /\ q = SealOps(e, state) \o <<Op("index", e)>>
  BY OpTypes DEF SealOps, OpNames
<1>2. Ordered(q)
  <2>1. /\ DOMAIN q = {1, 2, 3, 4} /\ q[1].op = "frames" /\ q[2].op = state
        /\ q[3].op = "unlink" /\ q[4].op = "index"
    BY <1>1, OpTypes DEF OpNames
  <2> HIDE DEF q
  <2> QED BY <2>1 DEF Ordered, Before, Reindexes, PruneOps, Ends
<1>3. Range(q) = {Op("frames", e), Op(state, e), Op("unlink", e), Op("index", e)}
  BY RangeFour
<1> QED BY <1>1, <1>2, <1>3 DEF IsPlan

(* finish: seal, index, prune.                                             *)
LEMMA PlanEnd ==
  ASSUME NEW e \in Events
  PROVE  IsPlan(EndOps(e), {Op("frames", e), Op("complete", e), Op("unlink", e),
                            Op("index", e), Op("prune", e)})
<1> DEFINE q == <<Op("frames", e), Op("complete", e), Op("unlink", e), Op("index", e), Op("prune", e)>>
<1>1. q \in Seq(OpSet) /\ q = EndOps(e)
  BY OpTypes DEF EndOps, SealOps, OpNames
<1>2. Ordered(q)
  <2>1. /\ DOMAIN q = {1, 2, 3, 4, 5} /\ q[1].op = "frames" /\ q[2].op = "complete"
        /\ q[3].op = "unlink" /\ q[4].op = "index" /\ q[5].op = "prune"
    BY <1>1, OpTypes DEF OpNames
  <2> HIDE DEF q
  <2> QED BY <2>1 DEF Ordered, Before, Reindexes, PruneOps, Ends
<1>3. Range(q) = {Op("frames", e), Op("complete", e), Op("unlink", e), Op("index", e), Op("prune", e)}
  BY RangeFive
<1> QED BY <1>1, <1>2, <1>3 DEF IsPlan

(* record_external: prune, then all of an event at once.                   *)
LEMMA PlanRecord ==
  ASSUME NEW e \in Events, e # Cmd
  PROVE  IsPlan(<<Op("prune", e)>> \o EndOps(e),
                {Op("frames", e), Op("complete", e), Op("unlink", e), Op("index", e), Op("prune", e)})
<1> DEFINE q == <<Op("prune", e), Op("frames", e), Op("complete", e), Op("unlink", e),
                  Op("index", e), Op("prune", e)>>
<1>1. q \in Seq(OpSet) /\ q = <<Op("prune", e)>> \o EndOps(e)
  BY OpTypes DEF EndOps, SealOps, OpNames
<1>2. Ordered(q)
  <2>1. /\ DOMAIN q = {1, 2, 3, 4, 5, 6} /\ q[1].op = "prune" /\ q[2].op = "frames"
        /\ q[3].op = "complete" /\ q[4].op = "unlink" /\ q[5].op = "index" /\ q[6].op = "prune"
        /\ q[3].ev = e /\ q[5].ev = e
    BY <1>1, OpTypes DEF OpNames
  <2> HIDE DEF q
  <2>2. Reindexes(q[1], q[5]) => Seals(q[3], q[5])
    BY <2>1 DEF Seals, Ends
  <2>3. 3 \in (1 + 1)..(5 - 1)
    OBVIOUS
  <2>4. \A i, j \in DOMAIN q : i < j /\ ~(i = 1 /\ j = 5) => ~Reindexes(q[i], q[j])
    BY <2>1 DEF Reindexes, PruneOps
  <2>5. \A i, j \in DOMAIN q : i < j => Before(q[i], q[j])
    BY <2>1 DEF Before, Reindexes, PruneOps, Ends
  <2> QED BY <2>2, <2>3, <2>4, <2>5 DEF Ordered
<1>3. Range(q) = {Op("prune", e), Op("frames", e), Op("complete", e), Op("unlink", e), Op("index", e)}
  BY RangeSix
<1> QED BY <1>1, <1>2, <1>3 DEF IsPlan

(* A prune is put before what is left.                                     *)
LEMMA PlanPrunes ==
  ASSUME NEW e \in Events, NEW first \in {"manifest", "content"}
  PROVE  /\ Prunes(e, first) \in Seq(OpSet) /\ Len(Prunes(e, first)) = 4
         /\ Prunes(e, first)[1] = Op("unindex", e) /\ Prunes(e, first)[2] = Op(first, e)
         /\ Prunes(e, first)[3] = Op("remove", e) /\ Prunes(e, first)[4] = Op("prune", e)
         /\ Range(Prunes(e, first)) =
              {Op("unindex", e), Op(first, e), Op("remove", e), Op("prune", e)}
<1>1. first \in OpNames
  BY DEF OpNames, PruneOps
<1>2. Range(Prunes(e, first)) = {Op("unindex", e), Op(first, e), Op("remove", e), Op("prune", e)}
  BY RangeFour DEF Prunes
<1>3. Prunes(e, first) = <<Op("unindex", e), Op(first, e), Op("remove", e), Op("prune", e)>>
  BY DEF Prunes
<1>4. /\ Op("unindex", e) \in OpSet /\ Op(first, e) \in OpSet
      /\ Op("remove", e) \in OpSet /\ Op("prune", e) \in OpSet
  BY <1>1, OpTypes DEF OpNames, PruneOps
<1> QED BY <1>2, <1>3, <1>4

(* A prune puts its files before what was to follow it.                    *)
LEMMA OrderedPrunes ==
  ASSUME NEW e \in Events, NEW first \in {"manifest", "content"},
         NEW q \in Seq(OpSet), Ordered(q), q # <<>>, Head(q).op = "prune"
  PROVE  Ordered(Prunes(e, first) \o Tail(q))
<1> DEFINE a == Prunes(e, first)
           t == Tail(q)
           n == Len(q)
           z == a \o t
<1>1. /\ a \in Seq(OpSet) /\ Len(a) = 4 /\ a[1] = Op("unindex", e) /\ a[2] = Op(first, e)
      /\ a[3] = Op("remove", e) /\ a[4] = Op("prune", e)
  BY PlanPrunes
<1>2. /\ t \in Seq(OpSet) /\ n \in Nat /\ n > 0 /\ Len(t) = n - 1 /\ q[1].op = "prune"
      /\ DOMAIN q = 1..n /\ \A i \in 1..(n - 1) : t[i] = q[i + 1]
  <2>1. q \in Seq(OpSet) /\ q # <<>>
    OBVIOUS
  <2>2. Head(q) = q[1] /\ Head(q).op = "prune"
    BY <2>1
  <2> QED BY <2>1, <2>2
<1> HIDE DEF a, t, n
<1>3. /\ DOMAIN z = 1..(n + 3)
      /\ \A i \in 1..4 : z[i] = a[i]
      /\ \A i \in 5..(n + 3) : z[i] = t[i - 4]
  <2>1. /\ z \in Seq(OpSet) /\ Len(z) = Len(a) + Len(t)
        /\ \A i \in 1..Len(a) : z[i] = a[i]
        /\ \A i \in (Len(a) + 1)..(Len(a) + Len(t)) : z[i] = t[i - Len(a)]
    BY <1>1, <1>2, Joined
  <2> HIDE DEF z
  <2>2. DOMAIN z = 1..Len(z)
    BY <2>1
  <2>3. /\ Len(z) = 4 + (n - 1)
        /\ \A i \in 1..4 : z[i] = a[i]
        /\ \A i \in (4 + 1)..(4 + (n - 1)) : z[i] = t[i - 4]
    BY <1>1, <1>2, <2>1
  <2>4. 4 + (n - 1) = n + 3 /\ 4 + 1 = 5
    BY <1>2
  <2> QED BY <2>2, <2>3, <2>4
<1> HIDE DEF z
<1>4. \A i \in 5..(n + 3) : z[i] = q[i - 3] /\ i - 3 \in DOMAIN q
  <2> SUFFICES ASSUME NEW i \in 5..(n + 3) PROVE z[i] = q[i - 3] /\ i - 3 \in DOMAIN q
    OBVIOUS
  <2>1. i - 4 \in 1..(n - 1) /\ (i - 4) + 1 = i - 3 /\ i - 3 \in 1..n
    BY <1>2
  <2>2. t[i - 4] = q[(i - 4) + 1]
    BY <1>2, <2>1
  <2> QED BY <1>2, <1>3, <2>1, <2>2
<1>5. /\ z[1].op = "unindex" /\ z[2].op = first /\ z[3].op = "remove" /\ z[4].op = "prune"
  <2>1. /\ 1 \in 1..4 /\ 2 \in 1..4 /\ 3 \in 1..4 /\ 4 \in 1..4
    OBVIOUS
  <2>2. first \in OpNames /\ "unindex" \in OpNames /\ "remove" \in OpNames /\ "prune" \in OpNames
    BY DEF OpNames, PruneOps
  <2> QED BY <1>1, <1>3, <2>1, <2>2, OpTypes
<1>6. ASSUME NEW i \in DOMAIN z, NEW j \in DOMAIN z, i < j
      PROVE  /\ Before(z[i], z[j])
             /\ Reindexes(z[i], z[j]) => \E k \in (i + 1)..(j - 1) : Seals(z[k], z[j])
  <2>1. CASE j \in 1..4
    <3>1. i \in {1, 2, 3} /\ j \in {2, 3, 4}
      BY <1>3, <1>6, <2>1
    <3>2. z[i].op \in {"unindex", "manifest", "content", "remove"}
      BY <1>5, <3>1
    <3>3. z[j].op \in {"manifest", "content", "remove", "prune"}
      BY <1>5, <3>1
    <3> QED BY <3>2, <3>3 DEF Before, Reindexes, PruneOps, Ends
  <2>2. CASE i \in 1..4 /\ j \notin 1..4
    <3>1. j \in 5..(n + 3) /\ z[j] = q[j - 3] /\ j - 3 \in DOMAIN q /\ 1 \in DOMAIN q /\ 1 < j - 3
      <4>1. j \in 5..(n + 3)
        BY <1>2, <1>3, <2>2
      <4>2. z[j] = q[j - 3] /\ j - 3 \in DOMAIN q
        BY <1>4, <4>1
      <4>3. 1 \in DOMAIN q /\ 1 < j - 3
        BY <1>2, <4>1
      <4> QED BY <4>1, <4>2, <4>3
    <3>2. /\ Before(q[1], q[j - 3])
          /\ Reindexes(q[1], q[j - 3]) => \E k \in (1 + 1)..(j - 3 - 1) : Seals(q[k], q[j - 3])
      BY <3>1 DEF Ordered
    <3>3. i \in {1, 2, 3, 4}
      BY <2>2
    <3>4. Before(z[i], z[j])
      BY <1>2, <1>5, <3>1, <3>2, <3>3 DEF Before, PruneOps, Ends
    <3>5. ASSUME Reindexes(z[i], z[j]) PROVE \E k \in (i + 1)..(j - 1) : Seals(z[k], z[j])
      <4>1. PICK k \in 2..(j - 4) : Seals(q[k], q[j - 3])
        <5>1. Reindexes(q[1], q[j - 3])
          BY <1>2, <3>1, <3>5 DEF Reindexes
        <5>2. \E k \in (1 + 1)..(j - 3 - 1) : Seals(q[k], q[j - 3])
          BY <3>2, <5>1
        <5> QED BY <3>1, <5>2
      <4>2. k + 3 \in (i + 1)..(j - 1) /\ k + 3 \in 5..(n + 3) /\ (k + 3) - 3 = k
        BY <1>2, <3>1, <3>3
      <4> QED BY <1>4, <3>1, <4>1, <4>2
    <3> QED BY <3>4, <3>5
  <2>3. CASE i \notin 1..4
    <3>0. i \in 5..(n + 3) /\ j \in 5..(n + 3) /\ i - 3 < j - 3
      BY <1>2, <1>3, <1>6, <2>3
    <3>1. /\ i \in 5..(n + 3) /\ j \in 5..(n + 3)
          /\ i - 3 \in DOMAIN q /\ j - 3 \in DOMAIN q /\ i - 3 < j - 3
          /\ z[i] = q[i - 3] /\ z[j] = q[j - 3]
      BY <1>4, <3>0
    <3>2. ASSUME Reindexes(z[i], z[j]) PROVE \E k \in (i + 1)..(j - 1) : Seals(z[k], z[j])
      <4>1. PICK k \in (i - 3 + 1)..(j - 3 - 1) : Seals(q[k], q[j - 3])
        BY <3>1, <3>2 DEF Ordered
      <4>2. k + 3 \in (i + 1)..(j - 1) /\ k + 3 \in 5..(n + 3) /\ (k + 3) - 3 = k
        <5>1. i \in Int /\ i >= 5 /\ j \in Int /\ j <= n + 3
          BY <1>2, <3>1
        <5>2. k \in Int /\ i - 3 + 1 <= k /\ k <= j - 3 - 1
          BY <5>1
        <5> QED BY <1>2, <5>1, <5>2
      <4> QED BY <1>4, <3>1, <4>1, <4>2
    <3>3. Before(z[i], z[j])
      BY <3>1 DEF Ordered
    <3> QED BY <3>2, <3>3
  <2> QED BY <2>1, <2>2, <2>3
<1>7. Ordered(z)
  BY <1>6 DEF Ordered
<1> QED BY <1>7 DEF z, a, t

-----------------------------------------------------------------------------
(* What a flush makes due.                                                 *)

(* A chunk is due once for each stream.                                    *)
LEMMA EachFacts ==
  ASSUME NEW x \in Nat
  PROVE  /\ InEach(x) \in Seq(Streams \X Nat)
         /\ \A j \in DOMAIN InEach(x) : InEach(x)[j][1] \in Streams /\ InEach(x)[j][2] = x
         /\ \A s \in Streams : \E j \in DOMAIN InEach(x) : InEach(x)[j] = <<s, x>>
         /\ \A i, j \in DOMAIN InEach(x) : InEach(x)[i][1] = InEach(x)[j][1] => i = j
<1> DEFINE n == Cardinality(Streams)
<1>1. /\ n \in Nat /\ SetToSeq(Streams) \in [1..n -> Streams]
      /\ \A s \in Streams : \E i \in 1..n : SetToSeq(Streams)[i] = s
      /\ \A i, j \in 1..n : SetToSeq(Streams)[i] = SetToSeq(Streams)[j] => i = j
  BY StreamAssumption, ListFacts
<1>2. InEach(x) = [j \in 1..n |-> <<SetToSeq(Streams)[j], x>>]
  BY DEF InEach
<1> HIDE DEF n
<1>3. InEach(x) \in [1..n -> Streams \X Nat]
  BY <1>1, <1>2
<1>4. InEach(x) \in Seq(Streams \X Nat)
  BY <1>1, <1>3
<1>5. DOMAIN InEach(x) = 1..n /\ \A j \in 1..n : InEach(x)[j] = <<SetToSeq(Streams)[j], x>>
  BY <1>2
<1>6. \A j \in 1..n : InEach(x)[j][1] = SetToSeq(Streams)[j] /\ InEach(x)[j][2] = x
  BY <1>5
<1>7. \A j \in DOMAIN InEach(x) : InEach(x)[j][1] \in Streams /\ InEach(x)[j][2] = x
  BY <1>1, <1>5, <1>6
<1>8. \A s \in Streams : \E j \in DOMAIN InEach(x) : InEach(x)[j] = <<s, x>>
  <2> SUFFICES ASSUME NEW s \in Streams PROVE \E j \in DOMAIN InEach(x) : InEach(x)[j] = <<s, x>>
    OBVIOUS
  <2>1. PICK j \in 1..n : SetToSeq(Streams)[j] = s
    BY <1>1
  <2> QED BY <1>5, <2>1
<1>9. \A i, j \in DOMAIN InEach(x) : InEach(x)[i][1] = InEach(x)[j][1] => i = j
  BY <1>1, <1>5, <1>6
<1> QED BY <1>4, <1>7, <1>8, <1>9

(* The chunks from after a to b are due, in turn.                          *)
Covers(due, a, b) ==
  InTurn(due) /\ \A s \in Streams, x \in Nat : Waits(due, s, x) <=> a < x /\ x <= b

(* One more chunk, due behind the others.                                  *)
LEMMA CoversMore ==
  ASSUME NEW due \in Seq(Streams \X Nat), NEW a \in Nat, NEW b \in Nat, a <= b, Covers(due, a, b)
  PROVE  Covers(due \o InEach(b + 1), a, b + 1)
<1> DEFINE t == InEach(b + 1)
           z == due \o t
           m == Len(due)
           k == Len(t)
<1>1. b + 1 \in Nat
  OBVIOUS
<1>2. /\ t \in Seq(Streams \X Nat)
      /\ \A j \in DOMAIN t : t[j][1] \in Streams /\ t[j][2] = b + 1
      /\ \A s \in Streams : \E j \in DOMAIN t : t[j] = <<s, b + 1>>
      /\ \A i, j \in DOMAIN t : t[i][1] = t[j][1] => i = j
  BY <1>1, EachFacts
<1> HIDE DEF t
<1>3. /\ z \in Seq(Streams \X Nat) /\ Len(z) = m + k
      /\ \A i \in 1..m : z[i] = due[i]
      /\ \A i \in (m + 1)..(m + k) : z[i] = t[i - m]
  BY <1>2, Joined
<1>4. m \in Nat /\ k \in Nat /\ DOMAIN due = 1..m /\ DOMAIN t = 1..k /\ DOMAIN z = 1..(m + k)
  BY <1>2, <1>3
<1> HIDE DEF z, m, k
<1>5. ASSUME NEW i \in 1..m PROVE due[i] \in Streams \X Nat /\ due[i][2] <= b
  <2>1. due[i] \in Streams \X Nat
    BY <1>4
  <2>2. due[i][1] \in Streams /\ due[i][2] \in Nat /\ due[i] = <<due[i][1], due[i][2]>>
    BY <2>1
  <2>3. Waits(due, due[i][1], due[i][2])
    BY <1>4, <2>2 DEF Waits
  <2> QED BY <2>1, <2>2, <2>3 DEF Covers
<1>6. ASSUME NEW i \in DOMAIN z, NEW j \in DOMAIN z, i < j, z[i][1] = z[j][1]
      PROVE  z[i][2] < z[j][2]
  <2>1. CASE j \in 1..m
    <3>1. i \in 1..m /\ i \in DOMAIN due /\ j \in DOMAIN due /\ z[i] = due[i] /\ z[j] = due[j]
      BY <1>3, <1>4, <1>6, <2>1
    <3>2. InTurn(due)
      BY DEF Covers
    <3> QED BY <1>6, <3>1, <3>2 DEF InTurn
  <2>2. CASE j \notin 1..m /\ i \in 1..m
    <3>0. j \in (m + 1)..(m + k) /\ j - m \in 1..k
      BY <1>4, <2>2
    <3>1. j - m \in 1..k /\ z[j] = t[j - m] /\ z[i] = due[i]
      BY <1>3, <2>2, <3>0
    <3>2. z[j][2] = b + 1
      BY <1>2, <1>4, <3>1
    <3>3. z[i][2] <= b /\ z[i][2] \in Nat
      BY <1>5, <2>2, <3>1
    <3> QED BY <3>2, <3>3
  <2>3. CASE i \notin 1..m
    <3>1. /\ i - m \in 1..k /\ z[i] = t[i - m] /\ j - m \in 1..k /\ z[j] = t[j - m]
          /\ i - m # j - m
      <4>1. i \in (m + 1)..(m + k) /\ j \in (m + 1)..(m + k)
        BY <1>4, <1>6, <2>3
      <4>2. i - m \in 1..k /\ j - m \in 1..k /\ i - m # j - m
        BY <1>4, <1>6, <4>1
      <4> QED BY <1>3, <4>1, <4>2
    <3> QED BY <1>2, <1>4, <1>6, <3>1
  <2> QED BY <2>1, <2>2, <2>3
<1>7. ASSUME NEW s \in Streams, NEW x \in Nat
      PROVE  Waits(z, s, x) <=> a < x /\ x <= b + 1
  <2>1. ASSUME Waits(z, s, x) PROVE a < x /\ x <= b + 1
    <3>1. PICK i \in 1..(m + k) : z[i] = <<s, x>>
      BY <1>4, <2>1 DEF Waits
    <3>2. CASE i \in 1..m
      <4>1. Waits(due, s, x)
        BY <1>3, <1>4, <3>1, <3>2 DEF Waits
      <4> QED BY <4>1 DEF Covers
    <3>3. CASE i \notin 1..m
      <4>1. i - m \in 1..k /\ z[i] = t[i - m]
        BY <1>3, <1>4, <3>3
      <4>2. t[i - m][2] = b + 1 /\ t[i - m][2] = x
        <5>1. i - m \in DOMAIN t /\ t[i - m] = <<s, x>>
          BY <1>4, <3>1, <4>1
        <5> QED BY <1>2, <5>1
      <4> QED BY <4>2
    <3> QED BY <3>2, <3>3
  <2>2. ASSUME a < x, x <= b PROVE Waits(z, s, x)
    <3>1. PICK i \in 1..m : due[i] = <<s, x>>
      BY <1>4, <2>2 DEF Covers, Waits
    <3>2. i \in DOMAIN z /\ z[i] = <<s, x>>
      BY <1>3, <1>4, <3>1
    <3> QED BY <3>2 DEF Waits
  <2>3. ASSUME x = b + 1 PROVE Waits(z, s, x)
    <3>1. PICK j \in 1..k : t[j] = <<s, b + 1>>
      BY <1>2, <1>4
    <3>2. m + j \in DOMAIN z /\ m + j \in (m + 1)..(m + k) /\ (m + j) - m = j
      BY <1>4
    <3>3. z[m + j] = <<s, x>>
      BY <1>3, <2>3, <3>1, <3>2
    <3> QED BY <3>2, <3>3 DEF Waits
  <2>4. x <= b + 1 => x <= b \/ x = b + 1
    OBVIOUS
  <2> QED BY <2>1, <2>2, <2>3, <2>4
<1>8. InTurn(z)
  BY <1>6 DEF InTurn
<1> QED BY <1>7, <1>8 DEF Covers, z, t

(* What a flush makes due, is for each stream a chunk.                     *)
LEMMA DueTypes ==
  ASSUME NEW w \in Seq(Nat), NEW n \in Nat, n <= Len(w)
  PROVE  /\ [i \in 1..n |-> InEach(w[i])] \in Seq(Seq(Streams \X Nat))
         /\ Len([i \in 1..n |-> InEach(w[i])]) = n
         /\ FlattenSeq([i \in 1..n |-> InEach(w[i])]) \in Seq(Streams \X Nat)
<1> DEFINE q == [i \in 1..n |-> InEach(w[i])]
           W == Seq(Streams \X Nat)
<1>1. \A i \in 1..n : InEach(w[i]) \in W
  <2>1. \A i \in 1..n : w[i] \in Nat
    OBVIOUS
  <2> QED BY <2>1, EachFacts
<1> HIDE DEF W
<1>2. q \in [1..n -> W]
  BY <1>1
<1>3. q \in Seq(W) /\ Len(q) = n
  BY <1>2
<1>4. FlattenSeq(q) \in W
  BY <1>3, FlattenTypes DEF W
<1> QED BY <1>3, <1>4 DEF W

(* A flush of the n chunks after a makes exactly these due, in turn.       *)
LEMMA DueCovers ==
  ASSUME NEW w \in Seq(Nat), NEW n \in Nat, n <= Len(w), NEW a \in Nat,
         \A i \in 1..n : w[i] = a + i
  PROVE  Covers(FlattenSeq([i \in 1..n |-> InEach(w[i])]), a, a + n)
<1> DEFINE q == [i \in 1..n |-> InEach(w[i])]
           W == Streams \X Nat
<1>1. q \in Seq(Seq(W)) /\ Len(q) = n
  BY DueTypes
<1>2. \A i \in 1..n : q[i] = InEach(a + i)
  OBVIOUS
<1>3. Covers(<<>>, a, a)
  <2>1. DOMAIN <<>> = {}
    OBVIOUS
  <2>2. \A x \in Nat : ~(a < x /\ x <= a)
    OBVIOUS
  <2> QED BY <2>1, <2>2 DEF Covers, InTurn, Waits
<1>4. CASE n = 0
  <2>1. q = <<>>
    BY <1>4
  <2>2. FlattenSeq(q) = <<>>
    BY <2>1 DEF FlattenSeq
  <2>3. a + n = a
    BY <1>4
  <2> QED BY <1>3, <2>2, <2>3
<1>5. CASE n # 0
  <2>1. q # <<>>
    BY <1>1, <1>5
  <2> HIDE DEF q
  <2>2. PICK f \in [1..n -> Seq(W)] :
          /\ \A i \in 1..n : f[i] = IF i = 1 THEN q[i] ELSE f[i - 1] \o q[i]
          /\ FlattenSeq(q) = f[n]
    <3>1. \E f \in [1..Len(q) -> Seq(W)] :
            /\ \A i \in 1..Len(q) : f[i] = IF i = 1 THEN q[i] ELSE f[i - 1] \o q[i]
            /\ FlattenSeq(q) = f[Len(q)]
      <4> HIDE DEF W
      <4> QED BY <1>1, <2>1, FlattenUnfolds
    <3> QED BY <1>1, <3>1
  <2> DEFINE Bad == {m \in Nat : m \in 1..n /\ ~Covers(f[m], a, a + m)}
  <2>3. Bad = {}
    <3> SUFFICES ASSUME Bad # {} PROVE FALSE
      OBVIOUS
    <3>1. PICK m \in Bad : \A k \in Bad : m <= k
      <4>1. Bad \in SUBSET Nat
        OBVIOUS
      <4> HIDE DEF Bad
      <4> QED BY <4>1, LeastNumber
    <3>2. CASE m = 1
      <4>1. Covers(<<>> \o InEach(a + 1), a, a + 1)
        <5>1. <<>> \in Seq(W) /\ a <= a
          OBVIOUS
        <5> QED BY <1>3, <5>1, CoversMore
      <4>2. InEach(a + 1) \in Seq(W)
        <5>1. a + 1 \in Nat
          OBVIOUS
        <5> QED BY <5>1, EachFacts
      <4>3. <<>> \o InEach(a + 1) = InEach(a + 1)
        BY <4>2
      <4>4. 1 \in 1..n /\ f[1] = q[1] /\ q[1] = InEach(a + 1)
        <5>1. 1 \in 1..n
          BY <1>5
        <5>2. f[1] = IF 1 = 1 THEN q[1] ELSE f[1 - 1] \o q[1]
          BY <2>2, <5>1
        <5>3. q[1] = InEach(a + 1)
          BY <1>2, <5>1
        <5> QED BY <5>1, <5>2, <5>3
      <4>5. m \in Bad /\ ~Covers(f[m], a, a + m)
        OBVIOUS
      <4> QED BY <3>2, <4>1, <4>3, <4>4, <4>5
    <3>3. CASE m # 1
      <4>1. m \in 1..n /\ m - 1 \in Nat /\ m - 1 \in 1..n /\ ~(m <= m - 1)
        BY <3>3
      <4>2. Covers(f[m - 1], a, a + (m - 1))
        BY <3>1, <4>1
      <4>3. f[m - 1] \in Seq(W) /\ a + (m - 1) \in Nat /\ a <= a + (m - 1)
        BY <4>1
      <4>4. Covers(f[m - 1] \o InEach((a + (m - 1)) + 1), a, (a + (m - 1)) + 1)
        BY <4>2, <4>3, CoversMore
      <4>5. (a + (m - 1)) + 1 = a + m
        BY <4>1
      <4>6. f[m] = f[m - 1] \o InEach(a + m)
        BY <1>2, <2>2, <3>3, <4>1
      <4>7. ~Covers(f[m], a, a + m)
        OBVIOUS
      <4> QED BY <4>4, <4>5, <4>6, <4>7
    <3> QED BY <3>2, <3>3
  <2>4. n \in 1..n /\ Covers(f[n], a, a + n)
    <3>1. n \in 1..n
      BY <1>5
    <3> QED BY <2>3, <3>1
  <2> QED BY <2>2, <2>4 DEF q
<1> QED BY <1>4, <1>5

-----------------------------------------------------------------------------
(* What an operation leaves of the directory of its event.                 *)

ManAfter(o) == IF o.op = "begin" THEN "active"
               ELSE IF Ends(o) THEN o.op
               ELSE IF o.op \in {"manifest", "remove"} THEN "none" ELSE dir[o.ev].man
GapAfter(o) == IF o.op \in {"truncated", "sensitive"} THEN o.op
               ELSE IF o.op = "complete" /\ o.ev = Cmd /\ cmd.failed THEN "storage"
               ELSE IF o.op \in {"begin", "remove"} THEN "no" ELSE dir[o.ev].gap
RawAfter(o) == IF o.op = "raw" THEN [dir[o.ev].raw EXCEPT ![o.s] = @ \o o.what]
               ELSE IF o.op \in {"empty", "rewrite"} THEN [dir[o.ev].raw EXCEPT ![o.s] = o.what]
               ELSE IF o.op \in {"begin", "erase", "unlink", "remove"} THEN Nothing ELSE dir[o.ev].raw
ZstAfter(o) == IF o.op = "frames" THEN dir[o.ev].raw
               ELSE IF o.op \in {"begin", "content", "remove"} THEN Nothing ELSE dir[o.ev].zst
FilesAfter(o) == IF Ends(o) THEN dir[o.ev].zst
                 ELSE IF o.op \in {"begin", "remove"} THEN Nothing ELSE dir[o.ev].files
TimAfter(o) == IF o.op = "timing" THEN [dir[o.ev].tim EXCEPT ![o.s] = @ \o o.what]
               ELSE IF o.op = "retime" THEN [dir[o.ev].tim EXCEPT ![o.s] = o.what]
               ELSE IF o.op \in {"begin", "erase", "unlink", "remove"} THEN Nothing ELSE dir[o.ev].tim

(* Each field of the directory after an operation, by itself.              *)
LEMMA AfterFacts ==
  ASSUME ArchiveTypes, NEW o \in OpSet
  PROVE  /\ After(o) \in DirSet
         /\ After(o).man = ManAfter(o) /\ After(o).gap = GapAfter(o)
         /\ After(o).raw = RawAfter(o) /\ After(o).zst = ZstAfter(o)
         /\ After(o).files = FilesAfter(o) /\ After(o).tim = TimAfter(o)
<1> DEFINE d == dir[o.ev]
<1>1. /\ d \in DirSet /\ o.op \in OpNames
      /\ d.raw \in Contents /\ d.tim \in Contents /\ d.zst \in Contents /\ d.files \in Contents
      /\ o.what \in Seq(Nat) /\ cmd.failed \in BOOLEAN
  BY DEF ArchiveTypes, OpSet, DirSet
<1>2. Nothing \in Contents /\ NoDir \in DirSet
  <2>1. Nothing \in Contents
    BY DEF Nothing, Contents
  <2> QED BY <2>1 DEF NoDir, DirSet
<1>3. \A x \in Contents : /\ [x EXCEPT ![o.s] = @ \o o.what] \in Contents
                          /\ [x EXCEPT ![o.s] = o.what] \in Contents
  <2> SUFFICES ASSUME NEW x \in Contents
               PROVE  /\ [x EXCEPT ![o.s] = @ \o o.what] \in Contents
                      /\ [x EXCEPT ![o.s] = o.what] \in Contents
    OBVIOUS
  <2>1. o.s \in Streams => x[o.s] \o o.what \in Seq(Nat)
    <3>1. o.s \in Streams => x[o.s] \in Seq(Nat)
      BY DEF Contents
    <3> QED BY <1>1, <3>1
  <2> QED BY <1>1, <2>1 DEF Contents
<1>4. After(o) = [man |-> ManAfter(o), gap |-> GapAfter(o), raw |-> RawAfter(o),
                  tim |-> TimAfter(o), zst |-> ZstAfter(o), files |-> FilesAfter(o)]
  <2>0. d = [man |-> d.man, gap |-> d.gap, raw |-> d.raw, tim |-> d.tim, zst |-> d.zst, files |-> d.files]
    BY <1>1 DEF DirSet
  <2> DEFINE Z == [man |-> ManAfter(o), gap |-> GapAfter(o), raw |-> RawAfter(o),
                   tim |-> TimAfter(o), zst |-> ZstAfter(o), files |-> FilesAfter(o)]
  <2>1. CASE o.op \in {"begin", "remove"}
    BY <2>1 DEF After, ManAfter, GapAfter, RawAfter, TimAfter, ZstAfter, FilesAfter, Ends, NoDir
  <2>2. CASE o.op \in {"raw", "timing", "empty", "rewrite", "retime"}
    BY <1>1, <2>0, <2>2 DEF After, ManAfter, GapAfter, RawAfter, TimAfter, ZstAfter, FilesAfter, Ends, DirSet
  <2>3. CASE o.op \in {"truncated", "sensitive", "erase", "unlink"}
    BY <1>1, <2>0, <2>3 DEF After, ManAfter, GapAfter, RawAfter, TimAfter, ZstAfter, FilesAfter, Ends, DirSet
  <2>4. CASE o.op \in {"frames", "interrupted", "complete"}
    BY <1>1, <2>0, <2>4 DEF After, ManAfter, GapAfter, RawAfter, TimAfter, ZstAfter, FilesAfter, Ends, DirSet
  <2>5. CASE o.op \in {"manifest", "content"}
    BY <1>1, <2>0, <2>5 DEF After, ManAfter, GapAfter, RawAfter, TimAfter, ZstAfter, FilesAfter, Ends, DirSet
  <2>6. CASE o.op \in {"prune", "index", "unindex"}
    BY <1>1, <2>0, <2>6 DEF After, ManAfter, GapAfter, RawAfter, TimAfter, ZstAfter, FilesAfter, Ends, DirSet
  <2> QED BY <1>1, <2>1, <2>2, <2>3, <2>4, <2>5, <2>6 DEF OpNames, PruneOps, CmdOps, TrimNames
<1>5. /\ RawAfter(o) \in Contents /\ TimAfter(o) \in Contents /\ ZstAfter(o) \in Contents
      /\ FilesAfter(o) \in Contents
  BY <1>1, <1>2, <1>3 DEF RawAfter, TimAfter, ZstAfter, FilesAfter
<1>6. ManAfter(o) \in {"none", "active", "complete", "interrupted"}
  BY <1>1 DEF ManAfter, Ends, DirSet
<1>7. GapAfter(o) \in {"no", "storage", "truncated", "sensitive"}
  BY <1>1 DEF GapAfter, DirSet
<1> HIDE DEF d
<1>8. After(o) \in DirSet
  BY <1>4, <1>5, <1>6, <1>7 DEF DirSet
<1> QED BY <1>4, <1>8

(* The order stays one of events, whatever is taken out or put last.       *)
LEMMA OrderTypes ==
  ASSUME ArchiveTypes, NEW e \in Events
  PROVE  Append(Without(e), e) \in Seq(Events)
<1>1. order \in Seq(Events)
  BY DEF ArchiveTypes
<1>2. CASE e \in Range(order)
  <2> DEFINE k == CHOOSE i \in DOMAIN order : order[i] = e
  <2>1. k \in DOMAIN order
    BY <1>2 DEF Range
  <2> HIDE DEF k
  <2>2. k \in 1..Len(order) /\ Len(order) \in Nat
    BY <1>1, <2>1
  <2>3. SubSeq(order, 1, k - 1) \in Seq(Events) /\ SubSeq(order, k + 1, Len(order)) \in Seq(Events)
    BY <1>1, <2>2
  <2>4. RemoveAt(order, k) \in Seq(Events)
    BY <2>3 DEF RemoveAt
  <2>5. Without(e) = RemoveAt(order, k)
    BY <1>2 DEF Without, k
  <2> QED BY <2>4, <2>5
<1>3. CASE e \notin Range(order)
  BY <1>1, <1>3 DEF Without
<1> QED BY <1>2, <1>3

(* What is pruned first is sealed.                                         *)
LEMMA OldestFacts ==
  ASSUME ArchiveTypes, Prunable # {}
  PROVE  Oldest \in Events /\ Sealed(Oldest)
<1>1. order \in Seq(Events)
  BY DEF ArchiveTypes
<1>2. Prunable \in SUBSET Nat /\ Prunable \subseteq DOMAIN order
  BY <1>1 DEF Prunable
<1>3. \E n \in Prunable : \A m \in Prunable : n <= m
  BY <1>2, LeastNumber
<1>4. Min(Prunable) \in Prunable
  BY <1>3 DEF Min
<1> QED BY <1>1, <1>2, <1>4 DEF Oldest, Prunable

(* The plan that begins with a prune, after the prune has looked.          *)
LEMMA PlanPruneStep ==
  ASSUME NEW q \in Seq(OpSet), Ordered(q), q # <<>>, Head(q).op = "prune",
         NEW e \in Events, NEW first \in {"manifest", "content"}
  PROVE  IsPlan(Prunes(e, first) \o Tail(q),
                {Op("unindex", e), Op(first, e), Op("remove", e), Op("prune", e)} \cup Range(Tail(q)))
<1>1. Ordered(Prunes(e, first) \o Tail(q))
  BY OrderedPrunes
<1>2. Tail(q) \in Seq(OpSet)
  BY RangeSplit
<1>3. /\ Prunes(e, first) \in Seq(OpSet)
      /\ Range(Prunes(e, first)) = {Op("unindex", e), Op(first, e), Op("remove", e), Op("prune", e)}
  BY PlanPrunes
<1>4. /\ Prunes(e, first) \o Tail(q) \in Seq(OpSet)
      /\ Range(Prunes(e, first) \o Tail(q)) = Range(Prunes(e, first)) \cup Range(Tail(q))
  <2> DEFINE a == Prunes(e, first)
             b == Tail(q)
  <2>1. a \in Seq(OpSet) /\ b \in Seq(OpSet)
    BY <1>2, <1>3
  <2> HIDE DEF a, b
  <2>2. a \o b \in Seq(OpSet) /\ Range(a \o b) = Range(a) \cup Range(b)
    BY <2>1, RangeJoin
  <2> QED BY <2>2 DEF a, b
<1> QED BY <1>1, <1>3, <1>4 DEF IsPlan

(* The repairs of a recovery: the trims of the streams come first.         *)
TrimSet == {o \in OpSet : /\ o.op \in TrimNames /\ o.ev = Cmd
                          /\ o.op = "empty" => o.what = <<>>
                          /\ o.op = "rewrite" => \E s \in Streams : o.what = Valid(s)}

(* What the timing of a stream vouches for is a beginning of it.           *)
LEMMA ValidFacts ==
  ASSUME ArchiveTypes, NEW s \in Streams
  PROVE  /\ Valid(s) \in Seq(Nat) /\ Len(Valid(s)) <= Len(dir[Cmd].raw[s])
         /\ \A i \in 1..Len(Valid(s)) : Valid(s)[i] = dir[Cmd].raw[s][i]
<1> DEFINE r == dir[Cmd].raw[s]
           t == dir[Cmd].tim[s]
           n == Shorter(r, t)
<1>1. r \in Seq(Nat) /\ t \in Seq(Nat)
  BY DEF ArchiveTypes, DirSet, Contents, Events
<1>2. Len(r) \in Nat /\ Len(t) \in Nat
  BY <1>1
<1>3. n \in Nat /\ n <= Len(r)
  BY <1>2 DEF Shorter
<1>4. Valid(s) = SubSeq(r, 1, n)
  BY DEF Valid
<1> HIDE DEF r, t, n
<1>5. /\ SubSeq(r, 1, n) \in Seq(Nat) /\ Len(SubSeq(r, 1, n)) = n
      /\ \A i \in 1..n : SubSeq(r, 1, n)[i] = r[i]
  BY <1>1, <1>2, <1>3
<1> QED BY <1>3, <1>4, <1>5 DEF r

(* The recovery trims streams, and does nothing else to them.              *)
LEMMA TrimFacts ==
  ASSUME ArchiveTypes
  PROVE  Trims \in Seq(OpSet) /\ Range(Trims) \subseteq TrimSet
<1> DEFINE n == Cardinality(Streams)
           q == [j \in 1..n |-> TrimOps(SetToSeq(Streams)[j])]
<1>1. n \in Nat /\ \A j \in 1..n : SetToSeq(Streams)[j] \in Streams
  BY StreamAssumption, ListFacts
<1>2. ASSUME NEW s \in Streams PROVE TrimOps(s) \in Seq(TrimSet)
  <2>1. <<>> \in Seq(Nat) /\ Valid(s) \in Seq(Nat)
    BY ValidFacts
  <2>2. File("empty", s, <<>>) \in TrimSet
    <3>1. "empty" \in OpNames /\ "empty" \in TrimNames
      BY DEF TrimNames, OpNames
    <3>2. /\ File("empty", s, <<>>) \in OpSet /\ File("empty", s, <<>>).op = "empty"
          /\ File("empty", s, <<>>).ev = Cmd /\ File("empty", s, <<>>).what = <<>>
      BY <2>1, <3>1 DEF File, OpSet, Events
    <3> QED BY <3>1, <3>2 DEF TrimSet
  <2>3. File("rewrite", s, Valid(s)) \in TrimSet
    BY <2>1, FileTypes DEF TrimSet, TrimNames, OpNames
  <2>4. File("retime", s, Valid(s)) \in TrimSet
    BY <2>1, FileTypes DEF TrimSet, TrimNames, OpNames
  <2>5. TrimOps(s) = <<>> \/ TrimOps(s) = <<File("empty", s, <<>>), File("rewrite", s, Valid(s)),
                                           File("retime", s, Valid(s))>>
    BY DEF TrimOps
  <2>6. \A x, y, z \in TrimSet : <<x, y, z>> \in Seq(TrimSet)
    OBVIOUS
  <2>7. <<>> \in Seq(TrimSet)
    OBVIOUS
  <2> HIDE DEF TrimSet
  <2> QED BY <2>2, <2>3, <2>4, <2>5, <2>6, <2>7
<1>3. Trims = FlattenSeq(q)
  BY DEF Trims
<1> DEFINE W == Seq(TrimSet)
<1>4. q \in Seq(W)
  <2>1. \A j \in 1..n : TrimOps(SetToSeq(Streams)[j]) \in W
    BY <1>1, <1>2
  <2> HIDE DEF W, n
  <2> QED BY <1>1, <2>1
<1>5. FlattenSeq(q) \in Seq(TrimSet)
  <2> HIDE DEF q
  <2> QED BY <1>4, FlattenTypes
<1>6. Trims \in Seq(TrimSet)
  BY <1>3, <1>5
<1>7. Range(Trims) \subseteq TrimSet
  BY <1>6 DEF Range
<1>8. TrimSet \subseteq OpSet
  BY DEF TrimSet
<1> QED BY <1>6, <1>7, <1>8

(* What the recovery does to one directory: trim, seal, index.             *)
LEMMA PlanRepairs ==
  ASSUME ArchiveTypes, NEW e \in Events
  PROVE  /\ Repairs(e) \in Seq(OpSet) /\ Ordered(Repairs(e))
         /\ Range(Repairs(e)) \subseteq
              (IF Orphaned(e) THEN TrimSet \cup {Op("frames", e), Op("interrupted", e), Op("unlink", e)} ELSE {})
                \cup (IF dir[e].man # "active" \/ Orphaned(e) THEN {Op("index", e)} ELSE {})
         /\ e \notin rec.rows /\ (dir[e].man # "active" \/ Orphaned(e)) => Op("index", e) \in Range(Repairs(e))
         /\ Orphaned(e) => Op("interrupted", e) \in Range(Repairs(e))
<1> DEFINE seal == SealOps(e, "interrupted")
           rest == IF e \in rec.rows THEN <<>> ELSE <<Op("index", e)>>
<1>0. Op("index", e) \in OpSet /\ "interrupted" \in {"complete", "interrupted"}
  BY OpTypes DEF OpNames
<1>1. rest \in Seq(OpSet) /\ Ordered(rest) /\ Range(rest) = IF e \in rec.rows THEN {} ELSE {Op("index", e)}
  <2>1. IsPlan(<<>>, {}) /\ IsPlan(<<Op("index", e)>>, {Op("index", e)})
    BY <1>0, PlanNone, PlanOne
  <2> QED BY <2>1 DEF IsPlan
<1>2. CASE dir[e].man = "active" /\ ~Orphaned(e)
  <2>1. Repairs(e) = <<>>
    BY <1>2 DEF Repairs
  <2> QED BY <1>2, <2>1, PlanNone DEF IsPlan
<1>3. CASE ~Orphaned(e) /\ dir[e].man # "active"
  <2>1. Repairs(e) = <<>> \o rest
    BY <1>3 DEF Repairs
  <2>2. <<>> \o rest = rest
    BY <1>1
  <2> HIDE DEF rest
  <2>3. Repairs(e) = rest
    BY <2>1, <2>2
  <2> QED BY <1>1, <1>3, <2>3
<1>4. CASE Orphaned(e)
  <2>1. Repairs(e) = (Trims \o seal) \o rest
    BY <1>4 DEF Repairs, Orphaned
  <2>2. /\ Trims \in Seq(OpSet) /\ Range(Trims) \subseteq TrimSet
        /\ \A o \in Range(Trims) : o.op \in TrimNames
    BY TrimFacts DEF TrimSet
  <2>3. IsPlan(seal, {Op("frames", e), Op("interrupted", e), Op("unlink", e)})
    BY <1>0, PlanSeal
  <2>4. IsPlan(seal \o <<Op("index", e)>>,
               {Op("frames", e), Op("interrupted", e), Op("unlink", e), Op("index", e)})
    BY <1>0, PlanSealIndex
  <2>5. (Trims \o seal) \o rest = Trims \o (seal \o rest)
    <3>1. Trims \in Seq(OpSet) /\ seal \in Seq(OpSet) /\ rest \in Seq(OpSet)
      BY <1>1, <2>2, <2>3 DEF IsPlan
    <3> HIDE DEF seal, rest
    <3> QED BY <3>1, ConcatAssociative
  <2>6. /\ seal \o rest \in Seq(OpSet) /\ Ordered(seal \o rest)
        /\ Range(seal \o rest) = {Op("frames", e), Op("interrupted", e), Op("unlink", e)} \cup Range(rest)
    <3>1. CASE e \in rec.rows
      <4>1. rest = <<>> /\ seal \o <<>> = seal
        BY <2>3, <3>1 DEF IsPlan
      <4> HIDE DEF seal, rest
      <4> QED BY <1>1, <2>3, <3>1, <4>1 DEF IsPlan
    <3>2. CASE e \notin rec.rows
      <4>1. rest = <<Op("index", e)>> /\ Range(rest) = {Op("index", e)}
        BY <1>1, <3>2
      <4> HIDE DEF seal, rest
      <4> QED BY <2>4, <4>1 DEF IsPlan
    <3> QED BY <3>1, <3>2
  <2>7. \A o \in Range(seal \o rest) : o.op \notin {"unindex", "begin", "raw", "complete"}
    <3> HIDE DEF seal, rest
    <3>1. \A o \in Range(seal \o rest) :
            o \in {Op("frames", e), Op("interrupted", e), Op("unlink", e), Op("index", e)}
      BY <1>1, <2>6
    <3>2. \A name \in {"frames", "interrupted", "unlink", "index"} : Op(name, e).op = name
      BY OpTypes DEF OpNames
    <3> QED BY <3>1, <3>2
  <2> HIDE DEF seal, rest
  <2>8. Ordered(Trims \o (seal \o rest))
    BY <2>2, <2>6, <2>7, OrderedTrims
  <2>9. /\ Trims \o (seal \o rest) \in Seq(OpSet)
        /\ Range(Trims \o (seal \o rest)) = Range(Trims) \cup Range(seal \o rest)
    <3> DEFINE z == seal \o rest
    <3>1. Trims \in Seq(OpSet) /\ z \in Seq(OpSet)
      BY <2>2, <2>6
    <3> HIDE DEF z
    <3>2. Trims \o z \in Seq(OpSet) /\ Range(Trims \o z) = Range(Trims) \cup Range(z)
      BY <3>1, RangeJoin
    <3> QED BY <3>2 DEF z
  <2>10. Range(Repairs(e)) = Range(Trims) \cup ({Op("frames", e), Op("interrupted", e), Op("unlink", e)} \cup Range(rest))
    BY <2>1, <2>5, <2>6, <2>9
  <2>11. Range(Repairs(e)) \subseteq TrimSet \cup {Op("frames", e), Op("interrupted", e), Op("unlink", e)} \cup {Op("index", e)}
    BY <1>1, <2>2, <2>10
  <2>12. e \notin rec.rows => Op("index", e) \in Range(Repairs(e))
    BY <1>1, <2>10
  <2>13. Op("interrupted", e) \in Range(Repairs(e))
    BY <2>10
  <2> QED BY <1>4, <2>1, <2>5, <2>8, <2>9, <2>11, <2>12, <2>13
<1> QED BY <1>2, <1>3, <1>4

-----------------------------------------------------------------------------
(* The steps, one kind rest the other: those that take the lock, with     *)
(* what they owe then.                                                     *)

Free == lock.by = "nobody" /\ lock.todo = <<>> /\ Owed = {}

(* Whoever takes the lock finds nothing left to do.                        *)
LEMMA FreeFacts ==
  ASSUME lock = Unlocked
  PROVE  Free
BY RangeNone DEF Free, Unlocked, Owed

(* Begin.                                                                  *)
LEMMA BeginPlan ==
  ASSUME ArchiveInv, Begin
  PROVE  /\ Free /\ lock'.by = "cmd" /\ lock' = [by |-> "cmd", todo |-> lock'.todo]
         /\ IsPlan(lock'.todo, {Op("prune", Cmd), Op("begin", Cmd)})
<1>1. Cmd \in Events
  BY DEF Events
<1>2. /\ Op("prune", Cmd) \in OpSet /\ Op("begin", Cmd) \in OpSet
      /\ Op("prune", Cmd).op = "prune" /\ Op("begin", Cmd).op = "begin"
  BY <1>1, OpTypes DEF OpNames, CmdOps
<1>3. /\ Before(Op("prune", Cmd), Op("begin", Cmd)) /\ ~Reindexes(Op("prune", Cmd), Op("begin", Cmd))
  BY <1>2 DEF Before, Reindexes, PruneOps, Ends
<1>4. IsPlan(<<Op("prune", Cmd), Op("begin", Cmd)>>, {Op("prune", Cmd), Op("begin", Cmd)})
  BY <1>2, <1>3, PlanTwo
<1>5. lock = Unlocked /\ lock' = [by |-> "cmd", todo |-> <<Op("prune", Cmd), Op("begin", Cmd)>>]
  BY DEF Begin, Take
<1> QED BY <1>4, <1>5, FreeFacts

(* drop_content: the streams, then the gap.                                *)
LEMMA DropPlan ==
  ASSUME ArchiveInv, Drop
  PROVE  /\ Free /\ lock'.by = "cmd" /\ lock' = [by |-> "cmd", todo |-> lock'.todo]
         /\ IsPlan(lock'.todo, {Op("erase", Cmd), Op("sensitive", Cmd)})
<1>1. Cmd \in Events
  BY DEF Events
<1>2. /\ Op("erase", Cmd) \in OpSet /\ Op("sensitive", Cmd) \in OpSet
      /\ Op("erase", Cmd).op = "erase" /\ Op("sensitive", Cmd).op = "sensitive"
  BY <1>1, OpTypes DEF OpNames, CmdOps
<1>3. /\ Before(Op("erase", Cmd), Op("sensitive", Cmd)) /\ ~Reindexes(Op("erase", Cmd), Op("sensitive", Cmd))
  BY <1>2 DEF Before, Reindexes, PruneOps, Ends
<1>4. IsPlan(<<Op("erase", Cmd), Op("sensitive", Cmd)>>, {Op("erase", Cmd), Op("sensitive", Cmd)})
  BY <1>2, <1>3, PlanTwo
<1>5. lock = Unlocked /\ lock' = [by |-> "cmd", todo |-> <<Op("erase", Cmd), Op("sensitive", Cmd)>>]
  BY DEF Drop, Take, DropOps
<1> QED BY <1>4, <1>5, FreeFacts

(* A chunk that is due is stored in its stream, or the stream is full.     *)
Writes(s, x) == {File("raw", s, <<x>>), File("timing", s, <<x>>)}

(* append: the chunk and its timing, or that there is no room, or nothing. *)
LEMMA StorePlan ==
  ASSUME ArchiveInv, Store
  PROVE  \E s \in Streams, x \in Nat :
           /\ Free /\ lock'.by = "cmd" /\ lock' = [by |-> "cmd", todo |-> lock'.todo]
           /\ cmd.due # <<>> /\ Head(cmd.due) = <<s, x>>
           /\ \/ IsPlan(lock'.todo, {Op("truncated", Cmd)})
              \/ dir[Cmd].gap = "truncated" /\ IsPlan(lock'.todo, {})
              \/ dir[Cmd].gap # "truncated" /\ IsPlan(lock'.todo, Writes(s, x))
<1>1. Cmd \in Events
  BY DEF Events
<1>2. cmd.due # <<>> /\ cmd.due \in Seq(Streams \X Nat)
  BY DEF Store, ArchiveInv, ArchiveTypes
<1>3. Head(cmd.due) \in Streams \X Nat
  BY <1>2
<1> DEFINE s == Head(cmd.due)[1]
           x == Head(cmd.due)[2]
<1>4. s \in Streams /\ x \in Nat /\ Head(cmd.due) = <<s, x>>
  BY <1>3
<1>5. /\ lock = Unlocked
      /\ \/ lock' = [by |-> "cmd", todo |-> <<Op("truncated", Cmd)>>]
         \/ dir[Cmd].gap = "truncated" /\ lock' = [by |-> "cmd", todo |-> <<>>]
         \/ /\ dir[Cmd].gap # "truncated"
            /\ lock' = [by |-> "cmd", todo |-> <<File("raw", s, <<x>>), File("timing", s, <<x>>)>>]
  BY DEF Store, Take
<1> HIDE DEF s, x
<1>6. IsPlan(<<Op("truncated", Cmd)>>, {Op("truncated", Cmd)})
  <2>1. Op("truncated", Cmd) \in OpSet
    BY <1>1, OpTypes DEF OpNames, CmdOps
  <2> QED BY <2>1, PlanOne
<1>7. IsPlan(<<File("raw", s, <<x>>), File("timing", s, <<x>>)>>, Writes(s, x))
  <2>1. <<x>> \in Seq(Nat)
    BY <1>4
  <2>2. /\ File("raw", s, <<x>>) \in OpSet /\ File("timing", s, <<x>>) \in OpSet
        /\ File("raw", s, <<x>>).op = "raw" /\ File("timing", s, <<x>>).op = "timing"
    BY <1>1, <1>4, <2>1 DEF File, OpSet, OpNames, CmdOps
  <2>3. /\ Before(File("raw", s, <<x>>), File("timing", s, <<x>>))
        /\ ~Reindexes(File("raw", s, <<x>>), File("timing", s, <<x>>))
    BY <2>2 DEF Before, Reindexes, PruneOps, Ends
  <2> QED BY <2>2, <2>3, PlanTwo DEF Writes
<1>8. Free /\ lock'.by = "cmd" /\ lock' = [by |-> "cmd", todo |-> lock'.todo]
  BY <1>5, FreeFacts
<1>9. \/ IsPlan(lock'.todo, {Op("truncated", Cmd)})
      \/ dir[Cmd].gap = "truncated" /\ IsPlan(lock'.todo, {})
      \/ dir[Cmd].gap # "truncated" /\ IsPlan(lock'.todo, Writes(s, x))
  BY <1>5, <1>6, <1>7, PlanNone
<1> QED BY <1>2, <1>4, <1>8, <1>9

(* finish.                                                                 *)
LEMMA FinishPlan ==
  ASSUME ArchiveInv, FinishCmd
  PROVE  /\ Free /\ lock'.by = "cmd" /\ lock' = [by |-> "cmd", todo |-> lock'.todo]
         /\ IsPlan(lock'.todo, {Op("frames", Cmd), Op("complete", Cmd), Op("unlink", Cmd),
                                Op("index", Cmd), Op("prune", Cmd)})
<1>1. Cmd \in Events
  BY DEF Events
<1>2. lock = Unlocked /\ lock' = [by |-> "cmd", todo |-> EndOps(Cmd)]
  BY DEF FinishCmd, Take
<1> QED BY <1>1, <1>2, PlanEnd, FreeFacts

(* record_external, which indexes what an earlier pass left.               *)
LEMMA RecordPlan ==
  ASSUME ArchiveInv, NEW c \in Collectors, Record(c)
  PROVE  LET e == col[c].at + 1
         IN  /\ Free /\ lock'.by = c /\ lock' = [by |-> c, todo |-> lock'.todo]
             /\ e \in 1..Entries /\ e \in Events /\ e # Cmd
             /\ IF dir[e].man # "none" THEN IsPlan(lock'.todo, {Op("index", e)})
                ELSE IsPlan(lock'.todo, {Op("frames", e), Op("complete", e), Op("unlink", e),
                                         Op("index", e), Op("prune", e)})
<1> DEFINE e == col[c].at + 1
<1>1. e \in 1..Entries
  <2>1. col[c].at \in Nat /\ col[c].upto \in Nat /\ written \in 0..Entries /\ col[c].pc = "record"
    BY DEF ArchiveInv, ArchiveTypes, Record
  <2>2. col[c].at < col[c].upto /\ col[c].upto <= written
    BY <2>1 DEF ArchiveInv, PassInv, Record
  <2> QED BY <2>1, <2>2, BoundAssumption
<1>2. e \in Events /\ e # Cmd
  BY <1>1 DEF Events, Cmd
<1>3. /\ lock = Unlocked
      /\ lock' = [by |-> c, todo |-> IF dir[e].man # "none" THEN <<Op("index", e)>>
                                      ELSE <<Op("prune", e)>> \o EndOps(e)]
  BY DEF Record, Take
<1> HIDE DEF e
<1>4. IsPlan(<<Op("index", e)>>, {Op("index", e)})
  <2>1. Op("index", e) \in OpSet
    BY <1>2, OpTypes DEF OpNames
  <2> QED BY <2>1, PlanOne
<1>5. IsPlan(<<Op("prune", e)>> \o EndOps(e),
             {Op("frames", e), Op("complete", e), Op("unlink", e), Op("index", e), Op("prune", e)})
  BY <1>2, PlanRecord
<1>6. Free /\ lock'.by = c /\ lock' = [by |-> c, todo |-> lock'.todo]
  BY <1>3, FreeFacts
<1>7. IF dir[e].man # "none" THEN IsPlan(lock'.todo, {Op("index", e)})
      ELSE IsPlan(lock'.todo, {Op("frames", e), Op("complete", e), Op("unlink", e),
                               Op("index", e), Op("prune", e)})
  BY <1>3, <1>4, <1>5
<1> QED BY <1>1, <1>2, <1>6, <1>7 DEF e

(* recover, as it begins.                                                  *)
LEMMA RecoverPlan ==
  ASSUME ArchiveInv, Recover
  PROVE  /\ Free /\ lock'.by = "recover" /\ lock' = [by |-> "recover", todo |-> <<>>]
         /\ IsPlan(lock'.todo, {})
<1>1. lock = Unlocked /\ lock' = [by |-> "recover", todo |-> <<>>]
  BY DEF Recover, Take
<1> QED BY <1>1, PlanNone, FreeFacts

(* recover, from one directory to the next, and the last prune.            *)
LEMMA RecoverNextPlan ==
  ASSUME ArchiveInv, RecoverNext
  PROVE  /\ lock.by = "recover" /\ lock.todo = <<>> /\ Owed = {}
         /\ lock'.by = "recover" /\ lock' = [by |-> "recover", todo |-> lock'.todo]
         /\ \/ /\ rec.todo = {} /\ rec' = [rec EXCEPT !.pc = "last"]
               /\ IsPlan(lock'.todo, {Op("prune", Cmd)})
            \/ \E e \in rec.todo :
                 /\ lock'.todo = Repairs(e) /\ e \in Events
                 /\ rec' = [rec EXCEPT !.todo = @ \ {e}]
                 /\ IsPlan(lock'.todo, Range(Repairs(e)))
<1>1. lock.by = "recover" /\ lock.todo = <<>> /\ Owed = {}
  BY RangeNone DEF RecoverNext, ArchiveInv, OwnerInv, Owed
<1>2. lock = [by |-> lock.by, todo |-> lock.todo] /\ rec.todo \subseteq Events
  BY DEF ArchiveInv, ArchiveTypes
<1>3. IsPlan(<<Op("prune", Cmd)>>, {Op("prune", Cmd)})
  <2>1. Op("prune", Cmd) \in OpSet
    BY OpTypes DEF OpNames, Events
  <2> QED BY <2>1, PlanOne
<1>4. CASE rec.todo = {}
  <2>1. lock' = [lock EXCEPT !.todo = <<Op("prune", Cmd)>>] /\ rec' = [rec EXCEPT !.pc = "last"]
    BY <1>4 DEF RecoverNext
  <2>2. lock' = [by |-> "recover", todo |-> <<Op("prune", Cmd)>>]
    BY <1>1, <1>2, <2>1
  <2> QED BY <1>1, <1>3, <1>4, <2>1, <2>2
<1>5. CASE rec.todo # {}
  <2>1. PICK e \in rec.todo : /\ lock' = [lock EXCEPT !.todo = Repairs(e)]
                              /\ rec' = [rec EXCEPT !.todo = @ \ {e}]
    BY <1>5 DEF RecoverNext
  <2>2. lock' = [by |-> "recover", todo |-> Repairs(e)]
    BY <1>1, <1>2, <2>1
  <2>3. e \in Events
    BY <1>2
  <2>4. IsPlan(Repairs(e), Range(Repairs(e)))
    BY <2>3, PlanRepairs DEF IsPlan, ArchiveInv
  <2>5. lock'.todo = Repairs(e) /\ lock'.by = "recover"
    BY <2>2
  <2>6. lock' = [by |-> "recover", todo |-> lock'.todo]
    BY <2>2, <2>5
  <2>7. IsPlan(lock'.todo, Range(Repairs(e)))
    BY <2>4, <2>5
  <2> QED BY <1>1, <2>1, <2>3, <2>5, <2>6, <2>7
<1> QED BY <1>4, <1>5

(* An operation is done, and what comes after it is left.                  *)
LEMMA StepFacts ==
  ASSUME ArchiveInv, Step
  PROVE  LET o == Head(lock.todo)
         IN  /\ o \in OpSet /\ o.op # "prune" /\ o.ev \in Events
             /\ lock'.by = lock.by /\ lock' = [by |-> lock.by, todo |-> lock'.todo]
             /\ lock.todo # <<>> /\ lock'.todo = Tail(lock.todo)
             /\ lock'.todo \in Seq(OpSet) /\ Ordered(lock'.todo)
             /\ Owed = {o} \cup Owed' /\ Owed' \subseteq OpSet
             /\ \A p \in Owed' : /\ Before(o, p)
                                 /\ Reindexes(o, p) => \E r \in Owed' : Seals(r, p)
             /\ dir'[o.ev] = After(o) /\ \A e \in Events : e # o.ev => dir'[e] = dir[e]
             /\ UNCHANGED <<cmd, col, rec, cursor, written, faults>>
<1> DEFINE o == Head(lock.todo)
           t == Tail(lock.todo)
<1>1. lock.todo \in Seq(OpSet) /\ lock.todo # <<>> /\ lock = [by |-> lock.by, todo |-> lock.todo]
  BY DEF ArchiveInv, ArchiveTypes, Step
<1>2. o \in OpSet /\ t \in Seq(OpSet) /\ Range(lock.todo) = {o} \cup Range(t)
  BY <1>1, RangeSplit
<1>3. Ordered(t) /\ Follow(o, t)
  BY <1>1, OrderedTail DEF ArchiveInv
<1>4. lock' = [lock EXCEPT !.todo = Tail(lock.todo)]
  BY DEF Step
<1>5. lock'.by = lock.by /\ lock'.todo = t /\ lock' = [by |-> lock.by, todo |-> lock'.todo]
  BY <1>1, <1>4
<1>6. o.op # "prune" /\ o.ev \in Events
  BY <1>2 DEF Step, OpSet
<1>7. Owed' = Range(t) /\ Owed = {o} \cup Range(t)
  BY <1>2, <1>5 DEF Owed
<1>8. Range(t) \subseteq OpSet
  BY <1>2 DEF Range
<1>9. /\ dir' = [dir EXCEPT ![o.ev] = After(o)] /\ dir \in [Events -> DirSet]
      /\ UNCHANGED <<cmd, col, rec, cursor, written, faults>>
  BY DEF Step, ArchiveInv, ArchiveTypes
<1>10. dir'[o.ev] = After(o) /\ \A e \in Events : e # o.ev => dir'[e] = dir[e]
  BY <1>6, <1>9
<1>11. \A p \in Range(t) : Before(o, p) /\ (Reindexes(o, p) => \E r \in Range(t) : Seals(r, p))
  BY <1>3 DEF Follow
<1> HIDE DEF o, t
<1>12. /\ o \in OpSet /\ o.op # "prune" /\ o.ev \in Events
       /\ lock'.by = lock.by /\ lock' = [by |-> lock.by, todo |-> lock'.todo]
       /\ lock.todo # <<>> /\ lock'.todo = t
       /\ lock'.todo \in Seq(OpSet) /\ Ordered(lock'.todo)
       /\ Owed = {o} \cup Owed' /\ Owed' \subseteq OpSet
       /\ \A p \in Owed' : /\ Before(o, p)
                           /\ Reindexes(o, p) => \E r \in Owed' : Seals(r, p)
  BY <1>1, <1>2, <1>3, <1>5, <1>6, <1>7, <1>8, <1>11
<1> QED BY <1>9, <1>10, <1>12 DEF o, t

(* A prune has looked: one more event goes, or none.                       *)
PruneSet(e, first) == {Op("unindex", e), Op(first, e), Op("remove", e), Op("prune", e)}

(* Prune puts one event's operations before the rest, or none.             *)
LEMMA PruneFacts ==
  ASSUME ArchiveInv, Prune
  PROVE  LET o == Head(lock.todo)  t == Tail(lock.todo)
         IN  /\ o \in OpSet /\ o.op = "prune" /\ Range(t) \subseteq OpSet
             /\ lock'.by = lock.by /\ lock' = [by |-> lock.by, todo |-> lock'.todo]
             /\ lock.todo # <<>> /\ lock'.todo \in Seq(OpSet) /\ Ordered(lock'.todo)
             /\ Owed = {o} \cup Range(t)
             /\ \A p \in Range(t) : Before(o, p)
             /\ \/ Owed' = Range(t)
                \/ \E e \in Events, first \in {"manifest", "content"} :
                     Sealed(e) /\ Owed' = PruneSet(e, first) \cup Range(t)
<1> DEFINE o == Head(lock.todo)
           t == Tail(lock.todo)
<1>1. lock.todo \in Seq(OpSet) /\ lock.todo # <<>> /\ lock = [by |-> lock.by, todo |-> lock.todo]
  BY DEF ArchiveInv, ArchiveTypes, Prune
<1>2. o \in OpSet /\ t \in Seq(OpSet) /\ Range(lock.todo) = {o} \cup Range(t)
  BY <1>1, RangeSplit
<1>3. Ordered(t) /\ \A p \in Range(t) : Before(o, p)
  BY <1>1, OrderedTail DEF ArchiveInv, Follow
<1>4. PICK aged \in BOOLEAN, first \in {"manifest", "content"} :
        lock' = [lock EXCEPT !.todo = (IF Due(aged) THEN Prunes(Oldest, first) ELSE <<>>) \o Tail(lock.todo)]
  BY DEF Prune
<1>5. o.op = "prune" /\ Range(t) \subseteq OpSet
  BY <1>2 DEF Prune, Range
<1>6. /\ lock'.by = lock.by /\ lock' = [by |-> lock.by, todo |-> lock'.todo]
      /\ lock'.todo = (IF Due(aged) THEN Prunes(Oldest, first) ELSE <<>>) \o t
  BY <1>1, <1>4
<1>7. CASE Due(aged)
  <2>1. Prunable # {} /\ ArchiveTypes
    BY <1>7 DEF Due, ArchiveInv
  <2>2. Oldest \in Events /\ Sealed(Oldest)
    BY <2>1, OldestFacts
  <2>3. lock'.todo = Prunes(Oldest, first) \o t
    BY <1>6, <1>7
  <2>4. IsPlan(Prunes(Oldest, first) \o t, PruneSet(Oldest, first) \cup Range(t))
    BY <1>1, <1>5, <2>2, PlanPruneStep DEF PruneSet, ArchiveInv
  <2>5. lock'.todo \in Seq(OpSet) /\ Ordered(lock'.todo) /\ Owed' = PruneSet(Oldest, first) \cup Range(t)
    BY <2>3, <2>4 DEF IsPlan, Owed
  <2> HIDE DEF o, t
  <2>6. \E e \in Events, f \in {"manifest", "content"} :
          Sealed(e) /\ Owed' = PruneSet(e, f) \cup Range(t)
    BY <2>2, <2>5
  <2> QED BY <1>1, <1>2, <1>3, <1>5, <1>6, <2>5, <2>6 DEF Owed, o, t
<1>8. CASE ~Due(aged)
  <2>1. lock'.todo = <<>> \o t /\ <<>> \o t = t
    BY <1>2, <1>6, <1>8
  <2>2. lock'.todo \in Seq(OpSet) /\ Ordered(lock'.todo) /\ Owed' = Range(t)
    BY <1>2, <1>3, <2>1 DEF Owed
  <2> HIDE DEF o, t
  <2> QED BY <1>1, <1>2, <1>3, <1>5, <1>6, <2>2 DEF Owed, o, t
<1> QED BY <1>7, <1>8

-----------------------------------------------------------------------------
(* Types are kept.                                                         *)

LockSet == [by : {"nobody", "cmd", "recover"} \cup Collectors, todo : Seq(OpSet)]
CmdSet  == [pc : {"start", "run", "end", "done", "dead"}, read : Nat, pending : Seq(Nat),
            due : Seq(Streams \X Nat), failed : BOOLEAN, secret : BOOLEAN]
ColSet  == [Collectors -> [pc : {"idle", "record"}, at : Nat, upto : Nat]]
RecSet  == [pc : {"idle", "scan", "last"}, rows : SUBSET Events, todo : SUBSET Events]

(* The types hold at the start.                                            *)
LEMMA InitTypes ==
  ASSUME Init
  PROVE  ArchiveTypes
<1>1. <<>> \in Seq(Nat) /\ <<>> \in Seq(OpSet) /\ <<>> \in Seq(Events) /\ <<>> \in Seq(Streams \X Nat)
  OBVIOUS
<1>2. NoDir \in DirSet
  BY <1>1 DEF NoDir, DirSet, Nothing, Contents
<1>3. dir \in [Events -> DirSet] /\ index \subseteq Events /\ order \in Seq(Events) /\ ever \subseteq Events
  BY <1>1, <1>2 DEF Init
<1>4. lock \in LockSet
  BY <1>1 DEF Init, LockSet, Unlocked
<1>5. cmd \in CmdSet
  BY <1>1 DEF Init, CmdSet
<1>6. col \in ColSet /\ rec \in RecSet
  BY DEF Init, ColSet, RecSet, Idle
<1>7. cursor \in Nat /\ written \in 0..Entries /\ faults \in 0..MaxFaults
  BY BoundAssumption DEF Init
<1> QED BY <1>3, <1>4, <1>5, <1>6, <1>7 DEF ArchiveTypes, LockSet, CmdSet, ColSet, RecSet

(* What a flush leaves waiting, and what it makes due.                     *)
LEMMA FlushTypes ==
  ASSUME NEW w \in Seq(Nat), NEW target \in Nat
  PROVE  /\ Flush(w, target).pending \in Seq(Nat)
         /\ Flush(w, target).due \in Seq(Streams \X Nat)
<1> DEFINE n == Len(w) - target
           d == FlattenSeq([i \in 1..n |-> InEach(w[i])])
           p == SubSeq(w, n + 1, Len(w))
<1>1. CASE n <= 0
  <2>1. Flush(w, target) = [pending |-> w, due |-> <<>>]
    BY <1>1 DEF Flush
  <2> QED BY <2>1
<1>2. CASE ~(n <= 0)
  <2>1. n \in Nat /\ n <= Len(w) /\ Len(w) \in Nat
    BY <1>2
  <2>2. d \in Seq(Streams \X Nat)
    BY <2>1, DueTypes
  <2>3. p \in Seq(Nat)
    BY <2>1
  <2>4. Flush(w, target) = [pending |-> p, due |-> d]
    BY <1>2 DEF Flush
  <2> HIDE DEF p, d
  <2> QED BY <2>2, <2>3, <2>4
<1> QED BY <1>1, <1>2

(* And after a failure.                                                    *)
LEMMA FailsTypes ==
  ASSUME ArchiveTypes, NEW who, Fails(who)
  PROVE  cmd' \in CmdSet /\ col' \in ColSet /\ rec' \in RecSet
<1>1. cmd \in CmdSet /\ col \in ColSet /\ rec \in RecSet
  BY DEF ArchiveTypes, CmdSet, ColSet, RecSet
<1>2. cmd' \in CmdSet
  BY <1>1 DEF Fails, CmdSet
<1>3. col' \in ColSet
  BY <1>1 DEF Fails, ColSet, Stopped, Idle
<1>4. rec' \in RecSet
  BY <1>1 DEF Fails, RecSet, RecIdle
<1> QED BY <1>2, <1>3, <1>4

(* And after every step.                                                   *)
LEMMA TypesStep ==
  ASSUME ArchiveInv, [Next]_vars
  PROVE  ArchiveTypes'
<1> USE DEF vars
<1>1. /\ ArchiveTypes /\ dir \in [Events -> DirSet]
      /\ index \subseteq Events /\ order \in Seq(Events) /\ ever \subseteq Events
      /\ lock \in LockSet /\ cmd \in CmdSet /\ col \in ColSet /\ rec \in RecSet
      /\ cursor \in Nat /\ written \in 0..Entries /\ faults \in 0..MaxFaults
  BY DEF ArchiveInv, ArchiveTypes, LockSet, CmdSet, ColSet, RecSet
<1> DEFINE Held == /\ dir' \in [Events -> DirSet]
                   /\ index' \subseteq Events /\ order' \in Seq(Events) /\ ever' \subseteq Events
                   /\ lock' \in LockSet /\ cmd' \in CmdSet /\ col' \in ColSet /\ rec' \in RecSet
                   /\ cursor' \in Nat /\ written' \in 0..Entries /\ faults' \in 0..MaxFaults
<1>2. SUFFICES Held
  BY DEF ArchiveTypes, LockSet, CmdSet, ColSet, RecSet
<1>3. Unlocked \in LockSet /\ RecIdle \in RecSet
  <2>1. <<>> \in Seq(OpSet)
    OBVIOUS
  <2> QED BY <2>1 DEF Unlocked, LockSet, RecIdle, RecSet
<1>4. \A f \in Nat : f < MaxFaults => f + 1 \in 0..MaxFaults
  BY BoundAssumption
<1>5. CASE Begin
  <2>1. lock' \in LockSet
    BY <1>5, BeginPlan DEF IsPlan, LockSet
  <2>2. cmd' \in CmdSet
    BY <1>1, <1>5 DEF Begin, CmdSet
  <2> QED BY <1>1, <1>5, <2>1, <2>2 DEF Begin
<1>6. CASE Emit
  <2> DEFINE w == Append(cmd.pending, cmd.read + 1)
             k == IF Len(w) > High THEN Low ELSE Len(w)
  <2>1. w \in Seq(Nat) /\ k \in Nat /\ cmd.read + 1 \in Nat
    BY <1>1, SizeAssumption DEF CmdSet
  <2>2. Flush(w, k).pending \in Seq(Nat) /\ Flush(w, k).due \in Seq(Streams \X Nat)
    BY <2>1, FlushTypes
  <2>3. \/ cmd' = [cmd EXCEPT !.read = cmd.read + 1]
        \/ cmd' = [cmd EXCEPT !.read = cmd.read + 1, !.pending = Flush(w, k).pending, !.due = Flush(w, k).due]
    BY <1>6 DEF Emit
  <2> HIDE DEF w, k
  <2>4. cmd' \in CmdSet
    BY <1>1, <2>1, <2>2, <2>3 DEF CmdSet
  <2> QED BY <1>1, <1>6, <2>4 DEF Emit
<1>7. CASE Drop
  <2>1. lock' \in LockSet
    BY <1>7, DropPlan DEF IsPlan, LockSet
  <2>2. cmd' \in CmdSet
    <3>1. <<>> \in Seq(Nat) /\ cmd.read + 1 \in Nat
      BY <1>1 DEF CmdSet
    <3>2. cmd' = [cmd EXCEPT !.read = cmd.read + 1, !.secret = TRUE, !.pending = <<>>]
      BY <1>7 DEF Drop
    <3> QED BY <1>1, <3>1, <3>2 DEF CmdSet
  <2> QED BY <1>1, <1>7, <2>1, <2>2 DEF Drop
<1>8. CASE Exit
  <2>1. <<>> \in Seq(Nat) /\ Flush(cmd.pending, 0).due \in Seq(Streams \X Nat)
    <3>1. cmd.pending \in Seq(Nat) /\ 0 \in Nat
      BY <1>1 DEF CmdSet
    <3> QED BY <3>1, FlushTypes
  <2>2. cmd' = [cmd EXCEPT !.pc = "end", !.pending = <<>>, !.due = Flush(cmd.pending, 0).due]
    BY <1>8 DEF Exit
  <2>3. cmd' \in CmdSet
    BY <1>1, <2>1, <2>2 DEF CmdSet
  <2> QED BY <1>1, <1>8, <2>3 DEF Exit
<1>9. ASSUME cmd.due # <<>> PROVE Tail(cmd.due) \in Seq(Streams \X Nat)
  BY <1>1, <1>9 DEF CmdSet
<1>10. CASE Store
  <2>1. lock' \in LockSet
    BY <1>10, StorePlan DEF IsPlan, LockSet
  <2>2. cmd' \in CmdSet
    BY <1>1, <1>9, <1>10 DEF Store, CmdSet
  <2> QED BY <1>1, <1>10, <2>1, <2>2 DEF Store
<1>11. CASE StoreNot
  <2>1. cmd' \in CmdSet
    BY <1>1, <1>9, <1>11 DEF StoreNot, CmdSet
  <2> QED BY <1>1, <1>11, <2>1 DEF StoreNot
<1>12. CASE FinishCmd
  <2>1. lock' \in LockSet
    BY <1>12, FinishPlan DEF IsPlan, LockSet
  <2>2. cmd' \in CmdSet
    BY <1>1, <1>12 DEF FinishCmd, CmdSet
  <2> QED BY <1>1, <1>12, <2>1, <2>2 DEF FinishCmd
<1>13. CASE JournalWrites
  <2>1. written' \in 0..Entries
    BY <1>1, <1>13, BoundAssumption DEF JournalWrites
  <2> QED BY <1>1, <1>13, <2>1 DEF JournalWrites
<1>14. ASSUME NEW c \in Collectors, Collect(c)
       PROVE  Held
  <2>1. col' \in ColSet
    BY <1>1, <1>14, BoundAssumption DEF Collect, ColSet
  <2> QED BY <1>1, <1>14, <2>1 DEF Collect
<1>15. ASSUME NEW c \in Collectors, Record(c)
       PROVE  Held
  <2>1. lock' \in LockSet
    BY <1>15, RecordPlan DEF IsPlan, LockSet
  <2>2. col' \in ColSet
    <3>1. /\ col' = [col EXCEPT ![c] = [col[c] EXCEPT !.at = col[c].at + 1]]
          /\ col[c] \in [pc : {"idle", "record"}, at : Nat, upto : Nat]
      BY <1>1, <1>15 DEF Record, ColSet
    <3>2. [col[c] EXCEPT !.at = col[c].at + 1] \in [pc : {"idle", "record"}, at : Nat, upto : Nat]
      BY <3>1
    <3> QED BY <1>1, <3>1, <3>2 DEF ColSet
  <2> QED BY <1>1, <1>15, <2>1, <2>2 DEF Record
<1>16. ASSUME NEW c \in Collectors, Save(c)
       PROVE  Held
  <2>1. col' \in ColSet
    BY <1>1, <1>16 DEF Save, ColSet, Idle
  <2>2. cursor' \in Nat
    BY <1>1, <1>16 DEF Save, ColSet
  <2> QED BY <1>1, <1>16, <2>1, <2>2 DEF Save
<1>17. CASE Step
  <2> DEFINE o == Head(lock.todo)
  <2>1. /\ o \in OpSet /\ o.ev \in Events
        /\ lock' = [by |-> lock.by, todo |-> lock'.todo] /\ lock'.todo \in Seq(OpSet)
    BY <1>17, StepFacts
  <2>2. lock' \in LockSet
    BY <1>1, <2>1 DEF LockSet
  <2>3. After(o) \in DirSet
    BY <1>1, <2>1, AfterFacts
  <2>4. dir' = [dir EXCEPT ![o.ev] = After(o)]
    BY <1>17 DEF Step
  <2>5. dir' \in [Events -> DirSet]
    BY <1>1, <2>1, <2>3, <2>4
  <2>6. index' \subseteq Events /\ ever' \subseteq Events
    BY <1>1, <1>17, <2>1 DEF Step
  <2>7. order' \in Seq(Events)
    BY <1>1, <1>17, <2>1, OrderTypes DEF Step
  <2> QED BY <1>1, <1>17, <2>2, <2>5, <2>6, <2>7 DEF Step
<1>18. CASE Prune
  <2>1. lock' \in LockSet
    BY <1>1, <1>18, PruneFacts DEF LockSet
  <2> QED BY <1>1, <1>18, <2>1 DEF Prune
<1>19. CASE Release
  <2>1. lock' \in LockSet /\ rec' \in RecSet
    BY <1>1, <1>3, <1>19 DEF Release
  <2> QED BY <1>1, <1>19, <2>1 DEF Release
<1>20. CASE Recover
  <2>1. lock' \in LockSet
    BY <1>20, RecoverPlan DEF IsPlan, LockSet
  <2>2. rec' \in RecSet
    BY <1>1, <1>20 DEF Recover, RecSet
  <2> QED BY <1>1, <1>20, <2>1, <2>2 DEF Recover
<1>21. CASE RecoverNext
  <2>1. lock' \in LockSet
    BY <1>21, RecoverNextPlan DEF IsPlan, LockSet
  <2>2. rec' \in RecSet
    BY <1>1, <1>21 DEF RecoverNext, RecSet
  <2> QED BY <1>1, <1>21, <2>1, <2>2 DEF RecoverNext
<1>22. CASE Raise
  <2>1. cmd' \in CmdSet /\ col' \in ColSet /\ rec' \in RecSet
    BY <1>1, <1>22, FailsTypes DEF Raise
  <2>2. faults' \in 0..MaxFaults
    BY <1>1, <1>4, <1>22 DEF Raise
  <2> QED BY <1>1, <1>3, <1>22, <2>1, <2>2 DEF Raise
<1>23. CASE BusyCmd
  <2>1. faults' \in 0..MaxFaults
    BY <1>1, <1>4, <1>23 DEF BusyCmd, LockedOut
  <2>2. <<>> \in Seq(Nat) /\ cmd.read + 1 \in Nat
    BY <1>1 DEF CmdSet
  <2>3. \/ cmd' = [cmd EXCEPT !.pc = "dead"]
        \/ cmd.due # <<>> /\ cmd' = [cmd EXCEPT !.failed = TRUE, !.due = Tail(cmd.due)]
        \/ cmd' = [cmd EXCEPT !.pc = "done"]
        \/ cmd' = [cmd EXCEPT !.read = cmd.read + 1, !.secret = TRUE, !.failed = TRUE, !.pending = <<>>]
    BY <1>23 DEF BusyCmd
  <2>4. cmd' \in CmdSet
    BY <1>1, <1>9, <2>2, <2>3 DEF CmdSet
  <2> QED BY <1>1, <1>23, <2>1, <2>4 DEF BusyCmd
<1>24. CASE CmdDies
  <2>1. faults' \in 0..MaxFaults /\ lock' \in LockSet
    BY <1>1, <1>3, <1>4, <1>24 DEF CmdDies, Dies
  <2>2. cmd' \in CmdSet
    BY <1>1, <1>24 DEF CmdDies, CmdSet
  <2> QED BY <1>1, <1>24, <2>1, <2>2 DEF CmdDies, Dies
<1>25. CASE RecDies
  <2>1. faults' \in 0..MaxFaults /\ lock' \in LockSet
    BY <1>1, <1>3, <1>4, <1>25 DEF RecDies, Dies
  <2> QED BY <1>1, <1>3, <1>25, <2>1 DEF RecDies, Dies
<1>26. ASSUME NEW c \in Collectors, BusyCol(c)
       PROVE  Held
  <2>1. faults' \in 0..MaxFaults
    BY <1>1, <1>4, <1>26 DEF BusyCol, LockedOut
  <2>2. col' \in ColSet
    BY <1>1, <1>26 DEF BusyCol, Stopped, ColSet, Idle
  <2> QED BY <1>1, <1>26, <2>1, <2>2 DEF BusyCol
<1>27. ASSUME NEW c \in Collectors, ColDies(c)
       PROVE  Held
  <2>1. faults' \in 0..MaxFaults /\ lock' \in LockSet
    BY <1>1, <1>3, <1>4, <1>27 DEF ColDies, Dies
  <2>2. col' \in ColSet
    BY <1>1, <1>27 DEF ColDies, ColSet, Idle
  <2> QED BY <1>1, <1>27, <2>1, <2>2 DEF ColDies, Dies
<1>28. CASE UNCHANGED vars
  BY <1>1, <1>28
<1> HIDE DEF Held
<1> QED BY <1>5, <1>6, <1>7, <1>8, <1>10, <1>11, <1>12, <1>13, <1>14, <1>15, <1>16, <1>17, <1>18,
           <1>19, <1>20, <1>21, <1>22, <1>23, <1>24, <1>25, <1>26, <1>27, <1>28
        DEF Next, Adapter, Collects, Files, Recovers, Faulty

-----------------------------------------------------------------------------
(* The kinds of steps: those that let the lock go, whether its holder is   *)
(* done or failed or died; those of the adapter, and those of collectors   *)
(* and the journal, that touch no file; and the others, one by one.        *)

LetsGo ==
  /\ UNCHANGED <<dir, index, order, cursor, written, ever>> /\ lock' = Unlocked
  /\ rec' = IF lock.by = "recover" THEN RecIdle ELSE rec
  /\ \/ cmd' = cmd /\ (lock.by = "cmd" => lock.todo = <<>>)
     \/ cmd' = [cmd EXCEPT !.failed = TRUE, !.pc = IF dir[Cmd].man = "none" THEN "dead" ELSE @]
     \/ Running /\ cmd' = [cmd EXCEPT !.pc = "dead"]
  /\ \A c \in Collectors : \/ col'[c] = Idle
                           \/ col'[c] = col[c] /\ (lock.by = c => lock.todo = <<>>)

CmdMoves ==
  /\ UNCHANGED <<dir, index, order, lock, col, rec, cursor, written, ever>> /\ lock.by # "cmd"
  /\ cmd.pc \in {"start", "run", "end"} /\ cmd'.pc \in {"run", "end", "done", "dead"}
  /\ cmd.read <= cmd'.read /\ (cmd.pc = "start" => cmd'.pc = "dead")
  /\ Emit \/ Exit \/ StoreNot \/ BusyCmd \/ CmdDies

ColMoves ==
  /\ UNCHANGED <<dir, index, order, lock, cmd, rec, ever>>
  /\ \A c \in Collectors : col[c].pc = "record" /\ lock.by = c => col'[c] = col[c]
  /\ \/ UNCHANGED <<col, cursor>> /\ (written' = written \/ written' = written + 1)
     \/ UNCHANGED <<written, cursor>> /\ \A c \in Collectors :
          col'[c] = col[c] \/ col'[c] = Idle \/ col'[c] = [pc |-> "record", at |-> cursor, upto |-> written]
     \/ UNCHANGED written /\ \E c \in Collectors :
          /\ col[c].pc = "record" /\ lock.by # c /\ col[c].at = col[c].upto
          /\ cursor' \in {cursor, col[c].upto} /\ col' = [col EXCEPT ![c] = Idle]

(* Every step is one of twelve kinds; what ends without a change of files  *)
(* is one kind, whoever it ends for.                                       *)
LEMMA Kinds ==
  ASSUME ArchiveInv, [Next]_vars
  PROVE  \/ LetsGo \/ CmdMoves \/ ColMoves
         \/ Begin \/ Drop \/ Store \/ FinishCmd \/ (\E c \in Collectors : Record(c))
         \/ Recover \/ RecoverNext \/ Step \/ Prune
<1> USE DEF vars
<1>1. /\ lock \in LockSet /\ cmd \in CmdSet /\ col \in ColSet /\ rec \in RecSet /\ cursor \in Nat
      /\ written \in Nat
  BY BoundAssumption DEF ArchiveInv, ArchiveTypes, LockSet, CmdSet, ColSet, RecSet
<1>2. \A c \in Collectors : c # "cmd" /\ c # "recover" /\ c # "nobody"
  BY CollectorAssumption
<1>3. CASE Emit
  <2>1. cmd'.pc = cmd.pc /\ cmd'.read = cmd.read + 1 /\ cmd.pc = "run"
    BY <1>1, <1>3 DEF Emit, CmdSet
  <2>2. cmd.read <= cmd'.read
    BY <1>1, <2>1 DEF CmdSet
  <2> QED BY <1>3, <2>1, <2>2 DEF Emit, CmdMoves, Quiet, Holder
<1>4. CASE Exit
  <2>1. cmd'.pc = "end" /\ cmd'.read = cmd.read /\ cmd.pc = "run"
    BY <1>1, <1>4 DEF Exit, CmdSet
  <2>2. cmd.read <= cmd'.read
    BY <1>1, <2>1 DEF CmdSet
  <2> QED BY <1>4, <2>1, <2>2 DEF Exit, CmdMoves, Quiet, Holder
<1>5. CASE StoreNot
  <2>1. cmd'.pc = cmd.pc /\ cmd'.read = cmd.read /\ cmd.pc \in {"run", "end"}
    BY <1>1, <1>5 DEF StoreNot, CmdSet, Running
  <2>2. cmd.read <= cmd'.read
    BY <1>1, <2>1 DEF CmdSet
  <2> QED BY <1>5, <2>1, <2>2 DEF StoreNot, CmdMoves, Holder
<1>6. CASE BusyCmd
  <2>1. /\ UNCHANGED <<dir, index, order, lock, col, rec, cursor, written, ever>> /\ lock.by # "cmd"
    BY <1>6 DEF BusyCmd, LockedOut, Holder
  <2>2. /\ cmd.pc \in {"start", "run", "end"} /\ cmd'.pc \in {"run", "end", "done", "dead"}
        /\ cmd.read <= cmd'.read /\ (cmd.pc = "start" => cmd'.pc = "dead")
    <3>1. \/ cmd.pc = "start" /\ cmd' = [cmd EXCEPT !.pc = "dead"]
          \/ Running /\ cmd' = [cmd EXCEPT !.failed = TRUE, !.due = Tail(cmd.due)]
          \/ cmd.pc = "end" /\ cmd' = [cmd EXCEPT !.pc = "done"]
          \/ /\ cmd.pc = "run"
             /\ cmd' = [cmd EXCEPT !.read = cmd.read + 1, !.secret = TRUE, !.failed = TRUE, !.pending = <<>>]
      BY <1>6 DEF BusyCmd
    <3>2. cmd.read \in Nat /\ cmd.read <= cmd.read /\ cmd.read <= cmd.read + 1
      BY <1>1 DEF CmdSet
    <3> QED BY <1>1, <3>1, <3>2 DEF CmdSet, Running
  <2> QED BY <1>6, <2>1, <2>2 DEF CmdMoves
<1>7. CASE CmdDies
  <2>1. /\ cmd' = [cmd EXCEPT !.pc = "dead"] /\ Running /\ UNCHANGED <<rec, col>>
        /\ UNCHANGED <<dir, index, order, cursor, written, ever>>
        /\ lock' = IF lock.by = "cmd" THEN Unlocked ELSE lock
    BY <1>7 DEF CmdDies, Dies, Holder
  <2>2. CASE lock.by = "cmd"
    BY <1>2, <2>1, <2>2 DEF LetsGo
  <2>3. CASE lock.by # "cmd"
    <3>1. cmd'.pc = "dead" /\ cmd'.read = cmd.read /\ cmd.pc \in {"run", "end"} /\ cmd.read <= cmd'.read
      BY <1>1, <2>1 DEF CmdSet, Running
    <3> QED BY <1>7, <2>1, <2>3, <3>1 DEF CmdMoves
  <2> QED BY <2>2, <2>3
<1>8. CASE RecDies
  <2>1. lock.by = "recover"
    BY <1>8 DEF RecDies, ArchiveInv, OwnerInv
  <2>2. /\ cmd' = cmd /\ col' = col /\ rec' = RecIdle /\ lock' = Unlocked
        /\ UNCHANGED <<dir, index, order, cursor, written, ever>>
    BY <1>8, <2>1 DEF RecDies, Dies, Holder
  <2> QED BY <1>2, <2>1, <2>2 DEF LetsGo
<1>9. CASE Release
  BY <1>9 DEF Release, Holder, LetsGo
<1>10. CASE Raise
  <2>1. /\ UNCHANGED <<dir, index, order, cursor, written, ever>> /\ lock' = Unlocked
        /\ lock.todo # <<>> /\ Fails(lock.by)
    BY <1>10 DEF Raise
  <2>2. \/ cmd' = cmd /\ (lock.by = "cmd" => lock.todo = <<>>)
        \/ cmd' = [cmd EXCEPT !.failed = TRUE, !.pc = IF dir[Cmd].man = "none" THEN "dead" ELSE @]
    BY <2>1 DEF Fails
  <2>3. ASSUME NEW c \in Collectors
        PROVE  col'[c] = Idle \/ (col'[c] = col[c] /\ (lock.by = c => lock.todo = <<>>))
    <3>1. CASE lock.by \in Collectors
      <4>1. col' = [col EXCEPT ![lock.by] = Idle]
        BY <2>1, <3>1 DEF Fails, Stopped
      <4> QED BY <1>1, <4>1 DEF ColSet
    <3>2. CASE lock.by \notin Collectors
      BY <2>1, <3>2 DEF Fails
    <3> QED BY <3>1, <3>2
  <2>4. rec' = IF lock.by = "recover" THEN RecIdle ELSE rec
    BY <2>1 DEF Fails
  <2> QED BY <2>1, <2>2, <2>3, <2>4 DEF LetsGo
<1>11. CASE JournalWrites
  BY <1>11 DEF JournalWrites, ColMoves
<1>12. ASSUME NEW c \in Collectors, Collect(c) PROVE ColMoves
  <2>1. /\ UNCHANGED <<dir, index, order, lock, cmd, rec, cursor, written, ever>> /\ col[c].pc = "idle"
        /\ col' = [col EXCEPT ![c] = [pc |-> "record", at |-> cursor, upto |-> written]]
    BY <1>12 DEF Collect
  <2>2. \A b \in Collectors : col'[b] = IF b = c THEN [pc |-> "record", at |-> cursor, upto |-> written] ELSE col[b]
    BY <1>1, <2>1 DEF ColSet
  <2> QED BY <2>1, <2>2 DEF ColMoves
<1>13. ASSUME NEW c \in Collectors, Save(c) PROVE ColMoves
  <2>1. /\ UNCHANGED <<dir, index, order, lock, cmd, rec, written, ever>>
        /\ col[c].pc = "record" /\ lock.by # c /\ col[c].at = col[c].upto
        /\ cursor' \in {cursor, col[c].upto} /\ col' = [col EXCEPT ![c] = Idle]
    BY <1>13 DEF Save, Holder
  <2>2. \A b \in Collectors : b # c => col'[b] = col[b]
    BY <1>1, <2>1 DEF ColSet
  <2> QED BY <2>1, <2>2 DEF ColMoves
<1>14. ASSUME NEW c \in Collectors, BusyCol(c) PROVE ColMoves
  <2>1. /\ UNCHANGED <<dir, index, order, lock, cmd, rec, cursor, written, ever>>
        /\ col[c].pc = "record" /\ lock.by # c /\ col' = [col EXCEPT ![c] = Idle]
    BY <1>14 DEF BusyCol, LockedOut, Holder, Stopped
  <2>2. \A b \in Collectors : col'[b] = IF b = c THEN Idle ELSE col[b]
    BY <1>1, <2>1 DEF ColSet
  <2> QED BY <2>1, <2>2 DEF ColMoves
<1>15. ASSUME NEW c \in Collectors, ColDies(c) PROVE ColMoves \/ LetsGo
  <2>1. /\ UNCHANGED <<dir, index, order, cmd, rec, cursor, written, ever>>
        /\ col[c].pc = "record" /\ col' = [col EXCEPT ![c] = Idle]
        /\ lock' = IF lock.by = c THEN Unlocked ELSE lock
    BY <1>15 DEF ColDies, Dies, Holder
  <2>2. \A b \in Collectors : col'[b] = IF b = c THEN Idle ELSE col[b]
    BY <1>1, <2>1 DEF ColSet
  <2>3. CASE lock.by = c
    BY <1>2, <2>1, <2>2, <2>3 DEF LetsGo
  <2>4. CASE lock.by # c
    BY <2>1, <2>2, <2>4 DEF ColMoves
  <2> QED BY <2>3, <2>4
<1>16. CASE UNCHANGED vars
  BY <1>16 DEF ColMoves
<1> HIDE DEF vars
<1> QED BY <1>3, <1>4, <1>5, <1>6, <1>7, <1>8, <1>9, <1>10, <1>11, <1>12, <1>13, <1>14, <1>15, <1>16
        DEF Next, Adapter, Collects, Files, Recovers, Faulty

-----------------------------------------------------------------------------
(* Every part of the invariant is kept by every kind of step.              *)

(* Who has let the lock go owes nothing.                                   *)
LEMMA NothingOwed ==
  ASSUME lock' = Unlocked
  PROVE  Owed' = {} /\ lock'.by = "nobody" /\ lock'.todo = <<>>
BY RangeNone DEF Unlocked, Owed

(* What is owed stays in order.                                            *)
LEMMA OrderStep ==
  ASSUME ArchiveInv, [Next]_vars
  PROVE  Ordered(lock'.todo)
<1>1. CASE LetsGo
  BY <1>1, NothingOwed, PlanNone DEF LetsGo, IsPlan
<1>2. CASE CmdMoves \/ ColMoves
  BY <1>2 DEF CmdMoves, ColMoves, ArchiveInv
<1>3. CASE Begin
  BY <1>3, BeginPlan DEF IsPlan
<1>4. CASE Drop
  BY <1>4, DropPlan DEF IsPlan
<1>5. CASE Store
  BY <1>5, StorePlan DEF IsPlan
<1>6. CASE FinishCmd
  BY <1>6, FinishPlan DEF IsPlan
<1>7. ASSUME NEW c \in Collectors, Record(c) PROVE Ordered(lock'.todo)
  BY <1>7, RecordPlan DEF IsPlan
<1>8. CASE Recover
  BY <1>8, RecoverPlan DEF IsPlan
<1>9. CASE RecoverNext
  BY <1>9, RecoverNextPlan DEF IsPlan
<1>10. CASE Step
  BY <1>10, StepFacts
<1>11. CASE Prune
  BY <1>11, PruneFacts
<1> QED BY <1>1, <1>2, <1>3, <1>4, <1>5, <1>6, <1>7, <1>8, <1>9, <1>10, <1>11, Kinds

(* The lock keeps others out: who owes an operation may do it.             *)
LEMMA OwnerStep ==
  ASSUME ArchiveInv, [Next]_vars
  PROVE  OwnerInv'
<1>1. /\ OwnerInv /\ PhaseInv /\ \A o \in Owed : Rightly(o)
      /\ cmd \in CmdSet /\ col \in ColSet /\ rec \in RecSet
  BY DEF ArchiveInv, ArchiveTypes, OwnerInv, CmdSet, ColSet, RecSet
<1>2. \A c \in Collectors : c # "cmd" /\ c # "recover" /\ c # "nobody"
  BY CollectorAssumption
<1>3. CASE LetsGo
  <2>1. Owed' = {} /\ lock'.by = "nobody" /\ lock'.todo = <<>>
    BY <1>3, NothingOwed DEF LetsGo
  <2>2. rec'.pc = "idle"
    BY <1>1, <1>3 DEF LetsGo, OwnerInv, RecIdle
  <2> QED BY <2>1, <2>2 DEF OwnerInv
<1>4. CASE CmdMoves
  <2>1. /\ lock' = lock /\ col' = col /\ rec' = rec /\ Owed' = Owed /\ lock.by # "cmd"
        /\ cmd.pc \notin {"done", "dead"}
    BY <1>4 DEF CmdMoves, Owed
  <2>2. ASSUME NEW o \in Owed PROVE Rightly(o)'
    BY <1>1, <2>1, <2>2 DEF Rightly
  <2> QED BY <1>1, <2>1, <2>2 DEF OwnerInv
<1>5. CASE ColMoves
  <2>1. /\ lock' = lock /\ rec' = rec /\ cmd' = cmd /\ Owed' = Owed
        /\ \A c \in Collectors : col[c].pc = "record" /\ lock.by = c => col'[c] = col[c]
    BY <1>5 DEF ColMoves, Owed
  <2>2. ASSUME NEW o \in Owed PROVE Rightly(o)'
    BY <1>1, <2>1, <2>2 DEF Rightly
  <2> QED BY <1>1, <2>1, <2>2 DEF OwnerInv
<1>6. CASE Begin
  <2>1. /\ Free /\ lock'.by = "cmd" /\ Owed' = {Op("prune", Cmd), Op("begin", Cmd)}
    BY <1>6, BeginPlan DEF IsPlan, Owed
  <2>2. cmd'.pc = "run" /\ rec' = rec
    BY <1>1, <1>6 DEF Begin, CmdSet
  <2>3. ASSUME NEW o \in Owed' PROVE Rightly(o)'
    BY <2>1, <2>2, <2>3 DEF Rightly, Op, CmdOps, TrimNames
  <2> QED BY <1>1, <2>1, <2>2, <2>3 DEF OwnerInv, Free
<1>7. CASE Drop
  <2>1. /\ Free /\ lock'.by = "cmd" /\ Owed' = {Op("erase", Cmd), Op("sensitive", Cmd)}
    BY <1>7, DropPlan DEF IsPlan, Owed
  <2>2. cmd'.pc = "run" /\ rec' = rec
    BY <1>1, <1>7 DEF Drop, CmdSet
  <2>3. ASSUME NEW o \in Owed' PROVE Rightly(o)'
    BY <2>1, <2>2, <2>3 DEF Rightly, Op, CmdOps, TrimNames
  <2> QED BY <1>1, <2>1, <2>2, <2>3 DEF OwnerInv, Free
<1>8. CASE Store
  <2>1. PICK s \in Streams, x \in Nat :
          /\ Free /\ lock'.by = "cmd"
          /\ Owed' \in {{Op("truncated", Cmd)}, {}, Writes(s, x)}
    BY <1>8, StorePlan DEF IsPlan, Owed
  <2>2. cmd'.pc \in {"run", "end"} /\ rec' = rec
    BY <1>1, <1>8 DEF Store, CmdSet, Running
  <2>3. ASSUME NEW o \in Owed' PROVE Rightly(o)'
    BY <2>1, <2>2, <2>3 DEF Rightly, Op, CmdOps, TrimNames, Writes, File
  <2> QED BY <1>1, <2>1, <2>2, <2>3 DEF OwnerInv, Free
<1>9. CASE FinishCmd
  <2>1. /\ Free /\ lock'.by = "cmd"
        /\ Owed' = {Op("frames", Cmd), Op("complete", Cmd), Op("unlink", Cmd),
                    Op("index", Cmd), Op("prune", Cmd)}
    BY <1>9, FinishPlan DEF IsPlan, Owed
  <2>2. cmd'.pc = "done" /\ rec' = rec
    BY <1>1, <1>9 DEF FinishCmd, CmdSet
  <2>3. ASSUME NEW o \in Owed' PROVE Rightly(o)'
    BY <2>1, <2>2, <2>3 DEF Rightly, Op, CmdOps, TrimNames
  <2> QED BY <1>1, <2>1, <2>2, <2>3 DEF OwnerInv, Free
<1>10. ASSUME NEW c \in Collectors, Record(c) PROVE OwnerInv'
  <2> DEFINE e == col[c].at + 1
  <2>1. /\ Free /\ lock'.by = c /\ e # Cmd
        /\ Owed' \subseteq {Op("frames", e), Op("complete", e), Op("unlink", e),
                            Op("index", e), Op("prune", e)}
    BY <1>10, RecordPlan DEF IsPlan, Owed
  <2>2. col'[c].pc = "record" /\ col'[c].at = e /\ rec' = rec
    BY <1>1, <1>10 DEF Record, ColSet
  <2> HIDE DEF e
  <2>3. ASSUME NEW o \in Owed' PROVE Rightly(o)'
    BY <2>1, <2>2, <2>3 DEF Rightly, Op, CmdOps, TrimNames
  <2> QED BY <1>1, <1>2, <2>1, <2>2, <2>3 DEF OwnerInv, Free
<1>11. CASE Recover
  <2>1. /\ lock'.by = "recover" /\ Owed' = {}
    BY <1>11, RecoverPlan DEF IsPlan, Owed
  <2>2. rec'.pc = "scan"
    BY <1>11 DEF Recover
  <2> QED BY <2>1, <2>2 DEF OwnerInv
<1>12. CASE RecoverNext
  <2>1. rec'.pc # "idle" /\ lock'.by = "recover" /\ cmd' = cmd
    BY <1>1, <1>12, RecoverNextPlan DEF RecoverNext, RecSet
  <2>2. CASE Owed' = {Op("prune", Cmd)}
    <3>1. ASSUME NEW o \in Owed' PROVE Rightly(o)'
      BY <2>1, <2>2, <3>1 DEF Rightly, Op, CmdOps, TrimNames
    <3> QED BY <2>1, <3>1 DEF OwnerInv
  <2>3. ASSUME NEW e \in rec.todo, e \in Events, Owed' = Range(Repairs(e)) PROVE OwnerInv'
    <3>1. ArchiveTypes
      BY DEF ArchiveInv
    <3>2. Owed' \subseteq
            (IF Orphaned(e) THEN TrimSet \cup {Op("frames", e), Op("interrupted", e), Op("unlink", e)} ELSE {})
              \cup (IF dir[e].man # "active" \/ Orphaned(e) THEN {Op("index", e)} ELSE {})
      BY <2>3, <3>1, PlanRepairs
    <3>3. Orphaned(e) => e = Cmd /\ cmd.pc \in {"done", "dead"}
      BY <1>1, <2>3 DEF Orphaned, PhaseInv
    <3>4. dir[e].man # "active" /\ e = Cmd => cmd.pc \in {"done", "dead"}
      <4>1. dir[e].man # "none"
        BY <2>3, <1>12 DEF RecoverNext, ArchiveInv, ScanInv
      <4> QED BY <1>1, <2>3, <3>1, <4>1 DEF PhaseInv, Sealed, ArchiveTypes, DirSet
    <3>5. ASSUME NEW o \in Owed' PROVE Rightly(o)'
      <4>1. CASE o \in TrimSet
        <5>1. Orphaned(e) \/ o = Op("index", e)
          BY <3>2, <3>5
        <5>2. o.op \in TrimNames /\ o.ev = Cmd
          BY <4>1 DEF TrimSet
        <5>3. Orphaned(e)
          BY <5>1, <5>2 DEF Op, TrimNames
        <5> QED BY <2>1, <3>3, <5>2, <5>3 DEF Rightly, CmdOps, TrimNames
      <4>2. CASE Orphaned(e) /\ o \in {Op("frames", e), Op("interrupted", e), Op("unlink", e)}
        BY <2>1, <3>3, <4>2 DEF Rightly, Op, CmdOps, TrimNames
      <4>3. CASE o = Op("index", e) /\ (dir[e].man # "active" \/ Orphaned(e))
        BY <2>1, <3>3, <3>4, <4>3 DEF Rightly, Op, CmdOps, TrimNames
      <4> QED BY <3>2, <3>5, <4>1, <4>2, <4>3
    <3> QED BY <2>1, <3>5 DEF OwnerInv
  <2> QED BY <1>12, <2>2, <2>3, RecoverNextPlan DEF IsPlan, Owed
<1>13. CASE Step
  <2>1. /\ lock'.by = lock.by /\ Owed' \subseteq Owed /\ UNCHANGED <<cmd, col, rec>>
        /\ lock.todo # <<>>
    BY <1>13, StepFacts
  <2>2. ASSUME NEW o \in Owed' PROVE Rightly(o)'
    BY <1>1, <2>1 DEF Rightly
  <2> QED BY <1>1, <2>1, <2>2 DEF OwnerInv
<1>14. CASE Prune
  <2> DEFINE t == Tail(lock.todo)
  <2>1. /\ lock'.by = lock.by /\ Range(t) \subseteq Owed /\ lock.todo # <<>>
        /\ \/ Owed' = Range(t)
           \/ \E e \in Events, first \in {"manifest", "content"} :
                Sealed(e) /\ Owed' = PruneSet(e, first) \cup Range(t)
    BY <1>14, PruneFacts
  <2> HIDE DEF t
  <2>2. UNCHANGED <<cmd, col, rec>>
    BY <1>14 DEF Prune
  <2>3. ASSUME NEW o \in Range(t) PROVE Rightly(o)'
    BY <1>1, <2>1, <2>2 DEF Rightly
  <2>4. ASSUME NEW e \in Events, NEW first \in {"manifest", "content"}, Sealed(e),
               NEW o \in PruneSet(e, first)
        PROVE  Rightly(o)'
    <3>1. e = Cmd => cmd.pc \in {"done", "dead"}
      BY <1>1, <2>4 DEF PhaseInv
    <3>2. o.op \in {"unindex", "manifest", "content", "remove", "prune"} /\ o.ev = e
      BY DEF PruneSet, Op
    <3> QED BY <2>2, <3>1, <3>2 DEF Rightly, CmdOps, TrimNames
  <2>5. ASSUME NEW o \in Owed' PROVE Rightly(o)'
    BY <2>1, <2>3, <2>4
  <2> QED BY <1>1, <2>1, <2>2, <2>5 DEF OwnerInv
<1> QED BY <1>3, <1>4, <1>5, <1>6, <1>7, <1>8, <1>9, <1>10, <1>11, <1>12, <1>13, <1>14, Kinds

(* What a recovery owes for the directory it visits, or at its end.        *)
LEMMA RepairFacts ==
  ASSUME ArchiveInv, RecoverNext
  PROVE  /\ lock.by = "recover" /\ lock'.by = "recover" /\ Owed = {}
         /\ UNCHANGED <<dir, index, order, cmd, col, cursor, written, ever>>
         /\ \/ /\ rec.todo = {} /\ rec'.pc = "last" /\ Owed' = {Op("prune", Cmd)}
            \/ \E e \in rec.todo \cap Events :
                 /\ rec'.pc = "scan" /\ rec'.rows = rec.rows /\ rec'.todo = rec.todo \ {e}
                 /\ \A o \in Owed' :
                      \/ o \in TrimSet /\ Orphaned(e)
                      \/ o \in {Op("frames", e), Op("interrupted", e), Op("unlink", e)} /\ Orphaned(e)
                      \/ o = Op("index", e) /\ (Sealed(e) \/ Op("interrupted", e) \in Owed')
                 /\ Orphaned(e) => e = Cmd /\ cmd.pc \in {"done", "dead"} /\ Op("interrupted", e) \in Owed'
                 /\ Sealed(e) \/ Orphaned(e) => e \in rec.rows \/ Op("index", e) \in Owed'
<1>1. ArchiveTypes /\ rec \in RecSet /\ PhaseInv
  BY DEF ArchiveInv, ArchiveTypes, RecSet
<1>2. /\ lock.by = "recover" /\ lock'.by = "recover" /\ Owed = {}
      /\ UNCHANGED <<dir, index, order, cmd, col, cursor, written, ever>> /\ rec.pc = "scan"
  BY RecoverNextPlan DEF RecoverNext
<1>3. CASE /\ rec.todo = {} /\ rec' = [rec EXCEPT !.pc = "last"]
           /\ IsPlan(lock'.todo, {Op("prune", Cmd)})
  <2>1. rec'.pc = "last" /\ Owed' = {Op("prune", Cmd)}
    BY <1>1, <1>3 DEF RecSet, IsPlan, Owed
  <2> QED BY <1>2, <1>3, <2>1
<1>4. ASSUME NEW e \in rec.todo, e \in Events, rec' = [rec EXCEPT !.todo = @ \ {e}],
             lock'.todo = Repairs(e)
      PROVE  /\ rec'.pc = "scan" /\ rec'.rows = rec.rows /\ rec'.todo = rec.todo \ {e}
             /\ \A o \in Owed' :
                  \/ o \in TrimSet /\ Orphaned(e)
                  \/ o \in {Op("frames", e), Op("interrupted", e), Op("unlink", e)} /\ Orphaned(e)
                  \/ o = Op("index", e) /\ (Sealed(e) \/ Op("interrupted", e) \in Owed')
             /\ Orphaned(e) => e = Cmd /\ cmd.pc \in {"done", "dead"} /\ Op("interrupted", e) \in Owed'
             /\ Sealed(e) \/ Orphaned(e) => e \in rec.rows \/ Op("index", e) \in Owed'
  <2>1. rec'.pc = "scan" /\ rec'.rows = rec.rows /\ rec'.todo = rec.todo \ {e}
    BY <1>1, <1>2, <1>4 DEF RecSet
  <2>2. Owed' = Range(Repairs(e))
    BY <1>4 DEF Owed
  <2>3. /\ Owed' \subseteq
              (IF Orphaned(e) THEN TrimSet \cup {Op("frames", e), Op("interrupted", e), Op("unlink", e)} ELSE {})
                \cup (IF dir[e].man # "active" \/ Orphaned(e) THEN {Op("index", e)} ELSE {})
        /\ e \notin rec.rows /\ (dir[e].man # "active" \/ Orphaned(e)) => Op("index", e) \in Owed'
        /\ Orphaned(e) => Op("interrupted", e) \in Owed'
    BY <1>1, <1>4, <2>2, PlanRepairs
  <2>4. dir[e].man # "none"
    BY <1>2, <1>4 DEF ArchiveInv, ScanInv
  <2>5. dir[e].man \in {"none", "active", "complete", "interrupted"}
    BY <1>1, <1>4 DEF ArchiveTypes, DirSet
  <2>6. Orphaned(e) => e = Cmd /\ cmd.pc \in {"done", "dead"} /\ dir[e].man = "active"
    BY <1>1, <1>4 DEF Orphaned, PhaseInv
  <2>7. dir[e].man # "active" => Sealed(e)
    BY <2>4, <2>5 DEF Sealed
  <2>8. Sealed(e) => dir[e].man # "active"
    BY DEF Sealed
  <2>9. ASSUME NEW o \in Owed'
        PROVE  \/ o \in TrimSet /\ Orphaned(e)
               \/ o \in {Op("frames", e), Op("interrupted", e), Op("unlink", e)} /\ Orphaned(e)
               \/ o = Op("index", e) /\ (Sealed(e) \/ Op("interrupted", e) \in Owed')
    BY <2>3, <2>7, <2>9
  <2>10. Sealed(e) \/ Orphaned(e) => e \in rec.rows \/ Op("index", e) \in Owed'
    BY <2>3, <2>8
  <2>11. Orphaned(e) => e = Cmd /\ cmd.pc \in {"done", "dead"} /\ Op("interrupted", e) \in Owed'
    BY <2>3, <2>6
  <2> QED BY <2>1, <2>9, <2>10, <2>11
<1>5. ASSUME NEW e \in rec.todo, e \in Events, rec' = [rec EXCEPT !.todo = @ \ {e}],
             lock'.todo = Repairs(e)
      PROVE  \E d \in rec.todo \cap Events :
                 /\ rec'.pc = "scan" /\ rec'.rows = rec.rows /\ rec'.todo = rec.todo \ {d}
                 /\ \A o \in Owed' :
                      \/ o \in TrimSet /\ Orphaned(d)
                      \/ o \in {Op("frames", d), Op("interrupted", d), Op("unlink", d)} /\ Orphaned(d)
                      \/ o = Op("index", d) /\ (Sealed(d) \/ Op("interrupted", d) \in Owed')
                 /\ Orphaned(d) => d = Cmd /\ cmd.pc \in {"done", "dead"} /\ Op("interrupted", d) \in Owed'
                 /\ Sealed(d) \/ Orphaned(d) => d \in rec.rows \/ Op("index", d) \in Owed'
  <2>1. e \in rec.todo \cap Events
    BY <1>5
  <2> QED BY <1>4, <1>5, <2>1
<1> QED BY <1>2, <1>3, <1>5, RecoverNextPlan

(* It seals or indexes, at most, and prunes only at its end.               *)
LEMMA RepairNames ==
  ASSUME ArchiveInv, RecoverNext, NEW p \in Owed'
  PROVE  /\ p.op \in TrimNames \cup {"frames", "interrupted", "unlink", "index", "prune"}
         /\ p.op = "prune" => rec'.pc = "last"
         /\ p.op \in TrimNames => p \in TrimSet
<1>1. \A o \in TrimSet : o.op \in TrimNames
  BY DEF TrimSet
<1>2. CASE rec'.pc = "last" /\ Owed' = {Op("prune", Cmd)}
  BY <1>2 DEF Op, TrimNames
<1>3. CASE p \in TrimSet
  BY <1>1, <1>3 DEF TrimNames
<1>4. ASSUME NEW e, p \in {Op("frames", e), Op("interrupted", e), Op("unlink", e), Op("index", e)}
      PROVE  p.op \in {"frames", "interrupted", "unlink", "index"}
  BY <1>4 DEF Op
<1>5. (\E e \in Events : p \in {Op("frames", e), Op("interrupted", e), Op("unlink", e), Op("index", e)})
        \/ p \in TrimSet \/ (rec'.pc = "last" /\ Owed' = {Op("prune", Cmd)})
  <2>1. CASE rec'.pc = "last" /\ Owed' = {Op("prune", Cmd)}
    BY <2>1
  <2>2. ASSUME NEW e \in rec.todo \cap Events,
               \A o \in Owed' :
                      \/ o \in TrimSet /\ Orphaned(e)
                      \/ o \in {Op("frames", e), Op("interrupted", e), Op("unlink", e)} /\ Orphaned(e)
                      \/ o = Op("index", e) /\ (Sealed(e) \/ Op("interrupted", e) \in Owed')
        PROVE  (\E d \in Events : p \in {Op("frames", d), Op("interrupted", d), Op("unlink", d), Op("index", d)})
                 \/ p \in TrimSet
    <3>1. p \in TrimSet \/ p \in {Op("frames", e), Op("interrupted", e), Op("unlink", e), Op("index", e)}
      BY <2>2
    <3> QED BY <2>2, <3>1
  <2> QED BY <2>1, <2>2, RepairFacts
<1> QED BY <1>2, <1>3, <1>4, <1>5 DEF TrimNames

(* Only the command's manifest is active, and only while it runs.          *)
LEMMA PhaseStep ==
  ASSUME ArchiveInv, [Next]_vars
  PROVE  PhaseInv'
<1>1. /\ ArchiveTypes /\ OwnerInv /\ PhaseInv /\ \A o \in Owed : Rightly(o)
      /\ cmd \in CmdSet
      /\ \A e \in Events : dir[e].man \in {"none", "active", "complete", "interrupted"}
  BY DEF ArchiveInv, ArchiveTypes, OwnerInv, CmdSet, DirSet
<1>2. Cmd \in Events
  BY DEF Events
<1> DEFINE Fresh == /\ dir[Cmd] = NoDir /\ cmd.read = 0 /\ cmd.pending = <<>> /\ cmd.due = <<>>
                    /\ ~cmd.failed /\ ~cmd.secret
           Begun == \E o \in Owed : o.op = "begin"
<1>3. ASSUME dir' = dir, cmd' = cmd, ~Begun'
      PROVE  PhaseInv'
  BY <1>1, <1>3 DEF PhaseInv, Sealed
<1>4. CASE LetsGo
  <2>1. Owed' = {} /\ dir' = dir
    BY <1>4, NothingOwed DEF LetsGo
  <2>2. CASE cmd' = cmd
    BY <1>3, <2>1, <2>2
  <2>3. CASE cmd' = [cmd EXCEPT !.failed = TRUE, !.pc = IF dir[Cmd].man = "none" THEN "dead" ELSE @]
    <3>1. cmd'.pc # "start"
      BY <1>1, <2>3 DEF CmdSet, PhaseInv, NoDir
    <3>2. cmd.pc \in {"done", "dead"} => cmd'.pc \in {"done", "dead"}
      BY <1>1, <2>3 DEF CmdSet
    <3> QED BY <1>1, <2>1, <3>1, <3>2 DEF PhaseInv, Sealed
  <2>4. CASE cmd' = [cmd EXCEPT !.pc = "dead"]
    <3>1. cmd'.pc = "dead"
      BY <1>1, <2>4 DEF CmdSet
    <3> QED BY <1>1, <2>1, <3>1 DEF PhaseInv, Sealed
  <2> QED BY <1>4, <2>2, <2>3, <2>4 DEF LetsGo
<1>5. CASE CmdMoves
  <2>1. /\ dir' = dir /\ Owed' = Owed /\ lock.by # "cmd" /\ cmd.pc \notin {"done", "dead"}
        /\ cmd'.pc # "start"
    BY <1>5 DEF CmdMoves, Owed
  <2>2. ~Begun
    BY <1>1, <2>1 DEF Rightly, CmdOps
  <2> QED BY <1>1, <2>1, <2>2 DEF PhaseInv, Sealed
<1>6. CASE ColMoves
  BY <1>1, <1>6 DEF ColMoves, Owed, PhaseInv, Sealed
<1>7. CASE Begin
  <2>1. /\ cmd' = [cmd EXCEPT !.pc = "run"] /\ cmd.pc = "start" /\ dir' = dir
    BY <1>7 DEF Begin
  <2>2. /\ cmd'.pc = "run" /\ cmd'.read = cmd.read /\ cmd'.pending = cmd.pending /\ cmd'.due = cmd.due
        /\ cmd'.failed = cmd.failed /\ cmd'.secret = cmd.secret
    BY <1>1, <2>1 DEF CmdSet
  <2>3. Fresh /\ ~Sealed(Cmd)
    BY <1>1, <2>1 DEF PhaseInv
  <2>4. Fresh'
    BY <2>1, <2>2, <2>3
  <2> QED BY <1>1, <2>1, <2>3, <2>4 DEF PhaseInv, Sealed
<1>8. CASE Drop \/ Store \/ FinishCmd
  <2>1. dir' = dir /\ cmd.pc \in {"run", "end"} /\ cmd'.pc # "start"
    BY <1>1, <1>8 DEF Drop, Store, FinishCmd, Running, CmdSet
  <2>2. ~Begun'
    <3>1. CASE Drop
      BY <3>1, DropPlan DEF IsPlan, Owed, Op
    <3>2. CASE Store
      BY <3>2, StorePlan DEF IsPlan, Owed, Op, Writes, File
    <3>3. CASE FinishCmd
      BY <3>3, FinishPlan DEF IsPlan, Owed, Op
    <3> QED BY <1>8, <3>1, <3>2, <3>3
  <2>3. ~Sealed(Cmd)
    BY <1>1, <2>1 DEF PhaseInv
  <2> QED BY <1>1, <2>1, <2>2, <2>3 DEF PhaseInv, Sealed
<1>9. ASSUME NEW c \in Collectors, Record(c) PROVE PhaseInv'
  <2>1. ~Begun'
    BY <1>9, RecordPlan DEF IsPlan, Owed, Op
  <2> QED BY <1>3, <1>9, <2>1 DEF Record
<1>10. CASE Recover
  <2>1. ~Begun'
    BY <1>10, RecoverPlan DEF IsPlan, Owed
  <2> QED BY <1>3, <1>10, <2>1 DEF Recover
<1>11. CASE RecoverNext
  <2>1. ~Begun'
    BY <1>11, RepairNames DEF TrimNames
  <2> QED BY <1>3, <1>11, <2>1 DEF RecoverNext
<1>12. CASE Step
  <2> DEFINE o == Head(lock.todo)
  <2>1. /\ o \in OpSet /\ o.op # "prune" /\ o.ev \in Events /\ Owed = {o} \cup Owed'
        /\ \A p \in Owed' : Before(o, p)
        /\ dir'[o.ev] = After(o) /\ \A e \in Events : e # o.ev => dir'[e] = dir[e]
        /\ cmd' = cmd
    BY <1>12, StepFacts
  <2>2. After(o).man = ManAfter(o)
    BY <1>1, <2>1, AfterFacts
  <2>3. Rightly(o)
    BY <1>1, <2>1
  <2> HIDE DEF o
  <2>4. ASSUME NEW e \in Events, dir'[e].man = "active" PROVE e = Cmd
    BY <1>1, <2>1, <2>2, <2>3, <2>4 DEF ManAfter, Ends, Rightly, CmdOps, PhaseInv
  <2>5. Sealed(Cmd)' => cmd'.pc \in {"done", "dead"}
    BY <1>1, <1>2, <2>1, <2>2, <2>3 DEF ManAfter, Ends, Rightly, CmdOps, PhaseInv, Sealed
  <2>6. ASSUME cmd'.pc = "start" \/ Begun' PROVE Fresh'
    <3>1. Fresh
      BY <1>1, <2>1, <2>6 DEF PhaseInv
    <3>2. o.ev # Cmd
      <4>1. CASE cmd.pc = "start"
        BY <2>1, <2>3, <4>1 DEF Rightly
      <4>2. CASE Begun'
        <5>1. PICK p \in Owed' : p.op = "begin"
          BY <4>2
        <5>2. o.op \in PruneOps \cup {"prune"} /\ cmd.pc \in {"run", "end"}
          BY <1>1, <2>1, <5>1 DEF Before, Rightly, CmdOps
        <5> QED BY <2>1, <2>3, <5>2 DEF Rightly, PruneOps, CmdOps
      <4> QED BY <2>1, <2>6, <4>1, <4>2
    <3> QED BY <1>2, <2>1, <3>1, <3>2
  <2> QED BY <2>4, <2>5, <2>6 DEF PhaseInv
<1>13. CASE Prune
  <2> DEFINE t == Tail(lock.todo)
  <2>1. /\ Range(t) \subseteq Owed
        /\ \/ Owed' = Range(t)
           \/ \E e \in Events, first \in {"manifest", "content"} :
                Owed' = PruneSet(e, first) \cup Range(t)
    BY <1>13, PruneFacts
  <2> HIDE DEF t
  <2>2. \A e \in Events, first \in {"manifest", "content"} : \A p \in PruneSet(e, first) : p.op # "begin"
    BY DEF PruneSet, Op
  <2>3. Begun' => Begun
    BY <2>1, <2>2
  <2> QED BY <1>1, <1>13, <2>3 DEF Prune, PhaseInv, Sealed
<1> QED BY <1>4, <1>5, <1>6, <1>7, <1>8, <1>9, <1>10, <1>11, <1>12, <1>13, Kinds

(* A row comes after the seal and goes before the files.                   *)
LEMMA RowStep ==
  ASSUME ArchiveInv, [Next]_vars
  PROVE  RowInv'
<1>1. /\ ArchiveTypes /\ PhaseInv /\ RowInv /\ \A o \in Owed : Rightly(o)
      /\ \A e \in Events : dir[e].man \in {"none", "active", "complete", "interrupted"}
      /\ index \subseteq Events
  BY DEF ArchiveInv, ArchiveTypes, OwnerInv, DirSet
<1> DEFINE Order == {"index", "manifest", "content", "remove"}
<1>2. ASSUME dir' = dir, index' = index, \A o \in Owed' : o.op \notin Order
      PROVE  RowInv'
  BY <1>1, <1>2 DEF RowInv, RowsHaveOriginals, Sealed
<1>3. ASSUME dir' = dir, index' = index, NEW e \in Events,
             \A o \in Owed' : o.op \in Order => o.op = "index" /\ o.ev = e,
             Sealed(e) \/ \E p \in Owed' : p.ev = e /\ Ends(p)
      PROVE  RowInv'
  BY <1>1, <1>3 DEF RowInv, RowsHaveOriginals, Sealed, OwedOf, Ends
<1>4. CASE LetsGo
  BY <1>2, <1>4, NothingOwed DEF LetsGo
<1>5. CASE CmdMoves \/ ColMoves
  <2>1. dir' = dir /\ index' = index /\ Owed' = Owed
    BY <1>5 DEF CmdMoves, ColMoves, Owed
  <2> QED BY <1>1, <2>1 DEF RowInv, RowsHaveOriginals, Sealed, OwedOf, Ends
<1>6. CASE Begin
  BY <1>2, <1>6, BeginPlan DEF Begin, IsPlan, Owed, Op
<1>7. CASE Drop
  BY <1>2, <1>7, DropPlan DEF Drop, IsPlan, Owed, Op
<1>8. CASE Store
  BY <1>2, <1>8, StorePlan DEF Store, IsPlan, Owed, Op, Writes, File
<1>9. CASE FinishCmd
  <2>1. Owed' = {Op("frames", Cmd), Op("complete", Cmd), Op("unlink", Cmd), Op("index", Cmd), Op("prune", Cmd)}
    BY <1>9, FinishPlan DEF IsPlan, Owed
  <2>2. \A o \in Owed' : o.ev = Cmd /\ (o.op \in Order => o.op = "index")
    BY <2>1 DEF Op
  <2>3. \E p \in Owed' : p.ev = Cmd /\ Ends(p)
    <3>1. Op("complete", Cmd) \in Owed' /\ Op("complete", Cmd).ev = Cmd /\ Ends(Op("complete", Cmd))
      BY <2>1 DEF Op, Ends
    <3> QED BY <3>1
  <2> QED BY <1>3, <1>9, <2>2, <2>3 DEF FinishCmd, Events
<1>10. ASSUME NEW c \in Collectors, Record(c) PROVE RowInv'
  <2> DEFINE e == col[c].at + 1
  <2>1. /\ e \in Events /\ e # Cmd /\ dir' = dir /\ index' = index
        /\ IF dir[e].man # "none" THEN Owed' = {Op("index", e)}
           ELSE Owed' = {Op("frames", e), Op("complete", e), Op("unlink", e), Op("index", e), Op("prune", e)}
    BY <1>10, RecordPlan DEF Record, IsPlan, Owed
  <2> HIDE DEF e
  <2>2. \A o \in Owed' : o.ev = e /\ (o.op \in Order => o.op = "index")
    BY <2>1 DEF Op
  <2>3. Sealed(e) \/ \E p \in Owed' : p.ev = e /\ Ends(p)
    <3>1. CASE dir[e].man # "none"
      BY <1>1, <2>1, <3>1 DEF PhaseInv, Sealed
    <3>2. CASE dir[e].man = "none"
      <4>1. Op("complete", e) \in Owed' /\ Op("complete", e).ev = e /\ Ends(Op("complete", e))
        BY <2>1, <3>2 DEF Op, Ends
      <4> QED BY <4>1
    <3> QED BY <3>1, <3>2
  <2> QED BY <1>3, <2>1, <2>2, <2>3
<1>11. CASE Recover
  BY <1>2, <1>11, RecoverPlan DEF Recover, IsPlan, Owed
<1>12. CASE RecoverNext
  <2>1. dir' = dir /\ index' = index
    BY <1>12, RepairFacts
  <2>2. \A o \in Owed' : o.op \in Order => o.op = "index"
    BY <1>12, RepairNames DEF TrimNames
  <2>3. ASSUME NEW o \in Owed', o.op = "index"
        PROVE  Sealed(o.ev) \/ \E p \in Owed' : p.ev = o.ev /\ Ends(p)
    <3>1. CASE Owed' = {Op("prune", Cmd)}
      BY <2>3, <3>1 DEF Op
    <3>2. ASSUME NEW e \in rec.todo \cap Events,
                 \A q \in Owed' :
                      \/ q \in TrimSet /\ Orphaned(e)
                      \/ q \in {Op("frames", e), Op("interrupted", e), Op("unlink", e)} /\ Orphaned(e)
                      \/ q = Op("index", e) /\ (Sealed(e) \/ Op("interrupted", e) \in Owed')
          PROVE  Sealed(o.ev) \/ \E p \in Owed' : p.ev = o.ev /\ Ends(p)
      <4>1. o \notin TrimSet
        BY <2>3 DEF TrimSet, TrimNames
      <4>2. o \notin {Op("frames", e), Op("interrupted", e), Op("unlink", e)}
        BY <2>3 DEF Op
      <4>3. o = Op("index", e) /\ (Sealed(e) \/ Op("interrupted", e) \in Owed')
        BY <2>3, <3>2, <4>1, <4>2
      <4>4. o.ev = e /\ Op("interrupted", e).ev = e /\ Ends(Op("interrupted", e))
        BY <4>3 DEF Op, Ends
      <4> QED BY <4>3, <4>4
    <3> QED BY <1>12, <3>1, <3>2, RepairFacts
  <2> QED BY <1>1, <2>1, <2>2, <2>3 DEF RowInv, RowsHaveOriginals, Sealed, OwedOf, Ends
<1>13. CASE Step
  <2> DEFINE o == Head(lock.todo)
  <2>1. /\ o \in OpSet /\ o.op # "prune" /\ o.ev \in Events /\ Owed = {o} \cup Owed'
        /\ \A p \in Owed' : Before(o, p) /\ (Reindexes(o, p) => \E r \in Owed' : Seals(r, p))
        /\ dir'[o.ev] = After(o) /\ \A e \in Events : e # o.ev => dir'[e] = dir[e]
        /\ Owed' \subseteq OpSet
    BY <1>13, StepFacts
  <2>2. After(o).man = ManAfter(o)
    BY <1>1, <2>1, AfterFacts
  <2>3. Rightly(o)
    BY <1>1, <2>1
  <2>4. index' = IF o.op = "index" THEN index \cup {o.ev}
                 ELSE IF o.op = "unindex" THEN index \ {o.ev} ELSE index
    BY <1>13 DEF Step
  <2> HIDE DEF o
  <2>5. o.op = "index" => Sealed(o.ev)
    <3> SUFFICES ASSUME o.op = "index" PROVE Sealed(o.ev)
      OBVIOUS
    <3>1. \A p \in Owed' : p.op = "prune"
      BY <2>1 DEF Before
    <3>2. \A p \in Owed : ~Ends(p)
      BY <2>1, <3>1 DEF Ends
    <3> QED BY <1>1, <2>1, <3>2 DEF RowInv, OwedOf
  <2>6. o.op \in {"manifest", "remove"} => o.ev \notin index
    <3> SUFFICES ASSUME o.op \in {"manifest", "remove"} PROVE o.ev \notin index
      OBVIOUS
    <3>1. \A p \in Owed' : p.op # "unindex"
      BY <2>1 DEF Before
    <3>2. \A p \in Owed : p.op # "unindex"
      BY <2>1, <3>1
    <3> QED BY <1>1, <2>1, <3>2 DEF RowInv, OwedOf
  <2>7. o.op = "begin" => o.ev = Cmd /\ ~Sealed(Cmd)
    BY <1>1, <2>3 DEF Rightly, CmdOps, PhaseInv
  <2>8. ASSUME NEW e \in Events, Sealed(e)
        PROVE  \/ Sealed(e)'
               \/ o.op \in {"manifest", "remove"} /\ e = o.ev
    <3>1. CASE e # o.ev
      BY <2>1, <2>8, <3>1 DEF Sealed
    <3>2. CASE e = o.ev
      BY <2>1, <2>2, <2>7, <2>8, <3>2 DEF Sealed, ManAfter, Ends
    <3> QED BY <3>1, <3>2
  <2>9. \A e \in index' : Sealed(e)'
    <3> SUFFICES ASSUME NEW e \in index' PROVE Sealed(e)'
      OBVIOUS
    <3>1. e \in Events /\ Sealed(e)
      BY <1>1, <2>1, <2>4, <2>5 DEF RowInv, RowsHaveOriginals
    <3>2. ~(o.op \in {"manifest", "remove"} /\ e = o.ev)
      BY <2>4, <2>6
    <3> QED BY <2>8, <3>1, <3>2
  <2>10. ASSUME NEW p \in Owed', p.op = "index"
         PROVE  Sealed(p.ev)' \/ \E r \in Owed' : r.ev = p.ev /\ Ends(r)
    <3>1. p \in Owed /\ p.ev \in Events
      BY <2>1 DEF OpSet
    <3>2. CASE \E r \in Owed : r.ev = p.ev /\ Ends(r)
      <4>1. PICK r \in Owed : r.ev = p.ev /\ Ends(r)
        BY <3>2
      <4>2. CASE r = o
        BY <2>1, <2>2, <3>1, <4>1, <4>2 DEF Sealed, ManAfter, Ends
      <4>3. CASE r # o
        BY <2>1, <4>1, <4>3
      <4> QED BY <4>2, <4>3
    <3>3. CASE Sealed(p.ev)
      <4>1. CASE o.op \in {"manifest", "remove"} /\ p.ev = o.ev
        <5>1. Reindexes(o, p)
          BY <2>10, <4>1 DEF Reindexes, PruneOps
        <5> QED BY <2>1, <5>1 DEF Seals
      <4>2. CASE ~(o.op \in {"manifest", "remove"} /\ p.ev = o.ev)
        BY <2>8, <3>1, <3>3, <4>2
      <4> QED BY <4>1, <4>2
    <3> QED BY <1>1, <2>10, <3>1, <3>2, <3>3 DEF RowInv, OwedOf
  <2>11. ASSUME NEW p \in Owed', p.op \in {"manifest", "content", "remove"}
         PROVE  p.ev \notin index' \/ \E r \in Owed' : r.ev = p.ev /\ r.op = "unindex"
    <3>1. o.op # "index"
      BY <2>1, <2>11 DEF Before
    <3>2. p.ev \notin index \/ \E r \in Owed : r.ev = p.ev /\ r.op = "unindex"
      BY <1>1, <2>1, <2>11 DEF RowInv, OwedOf
    <3> QED BY <2>1, <2>4, <3>1, <3>2
  <2> QED BY <2>9, <2>10, <2>11 DEF RowInv, RowsHaveOriginals, OwedOf, Ends
<1>14. CASE Prune
  <2> DEFINE t == Tail(lock.todo)
             o == Head(lock.todo)
  <2>1. /\ Owed = {o} \cup Range(t) /\ o.op = "prune"
        /\ \/ Owed' = Range(t)
           \/ \E e \in Events, first \in {"manifest", "content"} :
                Owed' = PruneSet(e, first) \cup Range(t)
    BY <1>14, PruneFacts
  <2> HIDE DEF t, o
  <2>2. dir' = dir /\ index' = index
    BY <1>14 DEF Prune
  <2>3. \A p \in Range(t) : p \in Owed'
    BY <2>1
  <2>4. ASSUME NEW p \in Owed', p.op = "index"
        PROVE  Sealed(p.ev) \/ \E r \in Owed' : r.ev = p.ev /\ Ends(r)
    <3>1. p \in Range(t)
      BY <2>1, <2>4 DEF PruneSet, Op
    <3>2. Sealed(p.ev) \/ \E r \in Owed : r.ev = p.ev /\ Ends(r)
      BY <1>1, <2>1, <2>4, <3>1 DEF RowInv, OwedOf
    <3>3. ~Ends(o)
      BY <2>1 DEF Ends
    <3> QED BY <2>1, <2>3, <3>2, <3>3
  <2>5. ASSUME NEW p \in Owed', p.op \in {"manifest", "content", "remove"}
        PROVE  p.ev \notin index \/ \E r \in Owed' : r.ev = p.ev /\ r.op = "unindex"
    <3>1. CASE p \in Range(t)
      <4>1. p.ev \notin index \/ \E r \in Owed : r.ev = p.ev /\ r.op = "unindex"
        BY <1>1, <2>1, <2>5, <3>1 DEF RowInv, OwedOf
      <4> QED BY <2>1, <2>3, <4>1
    <3>2. CASE p \notin Range(t)
      <4>1. PICK e \in Events, first \in {"manifest", "content"} :
              Owed' = PruneSet(e, first) \cup Range(t) /\ p \in PruneSet(e, first)
        BY <2>1, <2>5, <3>2
      <4>2. /\ p.ev = e /\ Op("unindex", e) \in Owed'
            /\ Op("unindex", e).ev = e /\ Op("unindex", e).op = "unindex"
        BY <4>1 DEF PruneSet, Op
      <4> QED BY <4>2
    <3> QED BY <3>1, <3>2
  <2> QED BY <1>1, <2>2, <2>4, <2>5 DEF RowInv, RowsHaveOriginals, Sealed, OwedOf, Ends
<1> QED BY <1>4, <1>5, <1>6, <1>7, <1>8, <1>9, <1>10, <1>11, <1>12, <1>13, <1>14, Kinds

(* A collector moves on only past what it recorded.                        *)
LEMMA PassStep ==
  ASSUME ArchiveInv, [Next]_vars
  PROVE  PassInv'
<1> DEFINE Past(c) == /\ col[c].at <= col[c].upto /\ col[c].upto <= written
                      /\ \A e \in 1..col[c].at : \/ e \in ever
                                                 \/ /\ e = col[c].at /\ lock.by = c
                                                    /\ \E o \in Owed : o.ev = e /\ Ends(o)
           Held == \A e \in Events \ {Cmd} : dir[e].man # "none" => e \in ever
<1>1. /\ ArchiveTypes /\ PhaseInv /\ NothingPassed /\ cursor <= written /\ Held
      /\ \A c \in Collectors : col[c].pc = "record" => Past(c)
      /\ \A o \in Owed : Rightly(o)
      /\ col \in ColSet /\ cursor \in Nat /\ written \in Nat
  BY DEF ArchiveInv, ArchiveTypes, OwnerInv, PassInv, OwedOf, ColSet
<1>2. SUFFICES /\ NothingPassed' /\ cursor' <= written' /\ Held'
               /\ \A c \in Collectors : col'[c].pc = "record" => Past(c)'
  BY DEF PassInv, OwedOf
<1>3. \A c \in Collectors : c # "cmd" /\ c # "recover" /\ c # "nobody"
  BY CollectorAssumption
<1>4. ASSUME NEW c \in Collectors, col[c].pc = "record", lock.by # c \/ Owed = {}
      PROVE  \A e \in 1..col[c].at : e \in ever
  BY <1>1, <1>4
<1>5. ASSUME UNCHANGED <<dir, cursor, written, ever, col>>, lock.by \notin Collectors
      PROVE  /\ NothingPassed' /\ cursor' <= written' /\ Held'
             /\ \A c \in Collectors : col'[c].pc = "record" => Past(c)'
  BY <1>1, <1>4, <1>5 DEF NothingPassed
<1>6. CASE LetsGo
  <2>1. UNCHANGED <<dir, cursor, written, ever>>
    BY <1>6 DEF LetsGo
  <2>2. ASSUME NEW c \in Collectors, col'[c].pc = "record" PROVE Past(c)'
    <3>1. col'[c] = col[c] /\ (lock.by = c => lock.todo = <<>>)
      BY <1>6, <2>2 DEF LetsGo, Idle
    <3>2. lock.by # c \/ Owed = {}
      BY <3>1, RangeNone DEF Owed
    <3> QED BY <1>1, <1>4, <2>1, <2>2, <3>1, <3>2
  <2> QED BY <1>1, <2>1, <2>2 DEF NothingPassed
<1>7. CASE CmdMoves
  BY <1>1, <1>7 DEF CmdMoves, NothingPassed, Owed
<1>8. CASE ColMoves
  <2>1. dir' = dir /\ ever' = ever /\ lock' = lock /\ Owed' = Owed
    BY <1>8 DEF ColMoves, Owed
  <2>2. CASE UNCHANGED <<col, cursor>> /\ (written' = written \/ written' = written + 1)
    <3>1. \A n \in Nat : n <= written => n <= written'
      BY <1>1, <2>2
    <3>2. ASSUME NEW c \in Collectors, col'[c].pc = "record" PROVE Past(c)'
      <4>1. Past(c) /\ col[c].upto \in Nat
        BY <1>1, <2>2, <3>2 DEF ColSet
      <4> QED BY <2>1, <2>2, <3>1, <4>1
    <3> QED BY <1>1, <2>1, <2>2, <3>1, <3>2 DEF NothingPassed
  <2>3. CASE UNCHANGED <<written, cursor>> /\ \A c \in Collectors :
          col'[c] = col[c] \/ col'[c] = Idle \/ col'[c] = [pc |-> "record", at |-> cursor, upto |-> written]
    <3>1. ASSUME NEW c \in Collectors, col'[c].pc = "record" PROVE Past(c)'
      <4>1. CASE col'[c] = col[c]
        BY <1>1, <2>1, <2>3, <3>1, <4>1
      <4>2. CASE col'[c] = [pc |-> "record", at |-> cursor, upto |-> written]
        BY <1>1, <2>1, <2>3, <4>2 DEF NothingPassed
      <4> QED BY <2>3, <3>1, <4>1, <4>2 DEF Idle
    <3> QED BY <1>1, <2>1, <2>3, <3>1 DEF NothingPassed
  <2>4. ASSUME UNCHANGED written, NEW c \in Collectors,
               col[c].pc = "record", lock.by # c, col[c].at = col[c].upto,
               cursor' \in {cursor, col[c].upto}, col' = [col EXCEPT ![c] = Idle]
        PROVE  /\ NothingPassed' /\ cursor' <= written' /\ Held'
               /\ \A b \in Collectors : col'[b].pc = "record" => Past(b)'
    <3>1. \A e \in 1..col[c].upto : e \in ever
      BY <1>4, <2>4
    <3>2. cursor' <= written' /\ NothingPassed'
      BY <1>1, <2>1, <2>4, <3>1 DEF NothingPassed
    <3>3. ASSUME NEW b \in Collectors, col'[b].pc = "record" PROVE Past(b)'
      <4>1. b # c /\ col'[b] = col[b]
        BY <1>1, <2>4, <3>3 DEF ColSet, Idle
      <4> QED BY <1>1, <2>1, <2>4, <3>3, <4>1
    <3> QED BY <1>1, <2>1, <3>2, <3>3
  <2> QED BY <1>8, <2>2, <2>3, <2>4 DEF ColMoves
<1>9. CASE Begin
  BY <1>3, <1>5, <1>9, BeginPlan DEF Begin, Free
<1>10. CASE Drop
  BY <1>3, <1>5, <1>10, DropPlan DEF Drop, Free
<1>11. CASE Store
  BY <1>3, <1>5, <1>11, StorePlan DEF Store, Free
<1>12. CASE FinishCmd
  BY <1>3, <1>5, <1>12, FinishPlan DEF FinishCmd, Free
<1>13. ASSUME NEW c \in Collectors, Record(c)
       PROVE  /\ NothingPassed' /\ cursor' <= written' /\ Held'
              /\ \A b \in Collectors : col'[b].pc = "record" => Past(b)'
  <2> DEFINE e == col[c].at + 1
  <2>1. /\ lock.by = "nobody" /\ lock'.by = c /\ e \in Events /\ e # Cmd
        /\ dir[e].man = "none" => Op("complete", e) \in Owed'
    BY <1>13, RecordPlan DEF IsPlan, Owed, Free
  <2>2. /\ UNCHANGED <<dir, cursor, written, ever>> /\ col[c].pc = "record" /\ col[c].at < col[c].upto
        /\ col' = [col EXCEPT ![c] = [col[c] EXCEPT !.at = col[c].at + 1]]
    BY <1>13 DEF Record
  <2>3. /\ col[c].at \in Nat /\ col[c].upto \in Nat /\ col'[c].at = e /\ col'[c].upto = col[c].upto
        /\ \A b \in Collectors : b # c => col'[b] = col[b]
    BY <1>1, <2>2 DEF ColSet
  <2>4. e \in ever \/ \E o \in Owed' : o.ev = e /\ Ends(o)
    <3> HIDE DEF e
    <3>1. CASE dir[e].man # "none"
      BY <1>1, <2>1, <3>1
    <3>2. CASE dir[e].man = "none"
      <4>1. Op("complete", e).ev = e /\ Ends(Op("complete", e))
        BY DEF Op, Ends
      <4> QED BY <2>1, <3>2, <4>1
    <3> QED BY <3>1, <3>2
  <2>5. Past(c)'
    <3>1. col'[c].at <= col'[c].upto /\ col'[c].upto <= written'
      BY <1>1, <2>2, <2>3
    <3>2. ASSUME NEW d \in 1..e PROVE d \in ever \/ (d = e /\ \E o \in Owed' : o.ev = e /\ Ends(o))
      <4>1. CASE d = e
        BY <2>4, <4>1
      <4>2. CASE d # e
        <5>1. d \in 1..col[c].at
          BY <2>3, <4>2
        <5>2. lock.by # c
          BY <1>3, <2>1
        <5> QED BY <1>4, <2>2, <5>1, <5>2
      <4> QED BY <4>1, <4>2
    <3> HIDE DEF e
    <3> QED BY <2>1, <2>2, <2>3, <3>1, <3>2
  <2>6. ASSUME NEW b \in Collectors, col'[b].pc = "record" PROVE Past(b)'
    <3>1. CASE b = c
      BY <2>5, <3>1
    <3>2. CASE b # c
      <4>1. col'[b] = col[b] /\ lock.by # b /\ col[b].pc = "record"
        BY <1>3, <2>1, <2>3, <2>6, <3>2
      <4>2. Past(b) /\ \A d \in 1..col[b].at : d \in ever
        BY <1>1, <1>4, <4>1
      <4> QED BY <2>2, <4>1, <4>2
    <3> QED BY <3>1, <3>2
  <2> HIDE DEF Past
  <2> QED BY <1>1, <2>2, <2>6 DEF NothingPassed
<1>14. CASE Recover
  BY <1>3, <1>5, <1>14, RecoverPlan DEF Recover, Free
<1>15. CASE RecoverNext
  BY <1>3, <1>5, <1>15, RepairFacts
<1>16. CASE Step
  <2> DEFINE o == Head(lock.todo)
  <2>1. /\ o \in OpSet /\ o.op # "prune" /\ o.ev \in Events /\ Owed = {o} \cup Owed'
        /\ dir'[o.ev] = After(o) /\ \A e \in Events : e # o.ev => dir'[e] = dir[e]
        /\ lock'.by = lock.by /\ UNCHANGED <<col, cursor, written>>
    BY <1>16, StepFacts
  <2>2. After(o).man = ManAfter(o)
    BY <1>1, <2>1, AfterFacts
  <2>3. Rightly(o)
    BY <1>1, <2>1
  <2>4. ever' = IF Ends(o) THEN ever \cup {o.ev} ELSE ever
    BY <1>16 DEF Step
  <2> HIDE DEF o
  <2>5. Held'
    <3> SUFFICES ASSUME NEW e \in Events \ {Cmd}, dir'[e].man # "none" PROVE e \in ever'
      OBVIOUS
    <3>1. CASE e # o.ev
      BY <1>1, <2>1, <2>4, <3>1
    <3>2. CASE e = o.ev
      BY <1>1, <2>1, <2>2, <2>3, <2>4, <3>2 DEF ManAfter, Ends, Rightly, CmdOps
    <3> QED BY <3>1, <3>2
  <2>6. ASSUME NEW c \in Collectors, col'[c].pc = "record" PROVE Past(c)'
    <3>1. Past(c)
      BY <1>1, <2>1, <2>6
    <3>2. ASSUME NEW e \in 1..col[c].at
          PROVE  e \in ever' \/ (e = col[c].at /\ lock'.by = c /\ \E p \in Owed' : p.ev = e /\ Ends(p))
      BY <2>1, <2>4, <3>1, <3>2
    <3> QED BY <2>1, <3>1, <3>2
  <2>7. NothingPassed'
    BY <1>1, <2>1, <2>4 DEF NothingPassed
  <2> QED BY <1>1, <2>1, <2>5, <2>6, <2>7
<1>17. CASE Prune
  <2> DEFINE t == Tail(lock.todo)
             o == Head(lock.todo)
  <2>1. /\ Owed = {o} \cup Range(t) /\ o.op = "prune" /\ lock'.by = lock.by
        /\ \/ Owed' = Range(t)
           \/ \E e \in Events, first \in {"manifest", "content"} :
                Owed' = PruneSet(e, first) \cup Range(t)
    BY <1>17, PruneFacts
  <2> HIDE DEF t, o
  <2>2. UNCHANGED <<dir, col, cursor, written, ever>>
    BY <1>17 DEF Prune
  <2>3. \A p \in Owed : Ends(p) => p \in Owed'
    BY <2>1 DEF Ends
  <2>4. ASSUME NEW c \in Collectors, col'[c].pc = "record" PROVE Past(c)'
    <3>1. Past(c)
      BY <1>1, <2>2, <2>4
    <3> QED BY <2>1, <2>2, <2>3, <3>1
  <2> QED BY <1>1, <2>2, <2>4 DEF NothingPassed
<1> HIDE DEF Past, Held
<1> QED BY <1>6, <1>7, <1>8, <1>9, <1>10, <1>11, <1>12, <1>13, <1>14, <1>15, <1>16, <1>17, Kinds

(* The recovery visits what lacks a row.                                   *)
LEMMA ScanStep ==
  ASSUME ArchiveInv, [Next]_vars
  PROVE  ScanInv'
<1>1. /\ ArchiveTypes /\ OwnerInv /\ ScanInv /\ \A o \in Owed : Rightly(o)
      /\ rec \in RecSet /\ index \subseteq Events
      /\ \A e \in Events : dir[e].man \in {"none", "active", "complete", "interrupted"}
      /\ rec.pc # "idle" <=> lock.by = "recover"
  BY DEF ArchiveInv, ArchiveTypes, OwnerInv, RecSet, DirSet
<1>2. \A c \in Collectors : c # "cmd" /\ c # "recover" /\ c # "nobody"
  BY CollectorAssumption
<1>3. ASSUME rec'.pc = "idle" PROVE ScanInv'
  BY <1>3 DEF ScanInv
<1>4. ASSUME Free, rec' = rec PROVE ScanInv'
  BY <1>1, <1>3, <1>4 DEF Free, RecSet
<1>5. CASE LetsGo
  BY <1>1, <1>3, <1>5 DEF LetsGo, RecIdle, RecSet
<1>6. CASE CmdMoves \/ ColMoves
  <2>1. dir' = dir /\ index' = index /\ rec' = rec /\ Owed' = Owed
    BY <1>6 DEF CmdMoves, ColMoves, Owed
  <2> QED BY <1>1, <2>1 DEF ScanInv, OwedOf, Ends, Sealed
<1>7. CASE Begin
  BY <1>4, <1>7, BeginPlan DEF Begin
<1>8. CASE Drop
  BY <1>4, <1>8, DropPlan DEF Drop
<1>9. CASE Store
  BY <1>4, <1>9, StorePlan DEF Store
<1>10. CASE FinishCmd
  BY <1>4, <1>10, FinishPlan DEF FinishCmd
<1>11. ASSUME NEW c \in Collectors, Record(c) PROVE ScanInv'
  BY <1>4, <1>11, RecordPlan DEF Record
<1>12. CASE Recover
  <2>1. Owed' = {} /\ dir' = dir /\ index' = index
    BY <1>12, RecoverPlan DEF Recover, IsPlan, Owed
  <2>2. rec' = [pc |-> "scan", rows |-> index, todo |-> {e \in Events : dir[e].man # "none"}]
    BY <1>12 DEF Recover
  <2>3. rec'.pc = "scan" /\ rec'.rows = index /\ rec'.todo = {e \in Events : dir[e].man # "none"}
    BY <2>2
  <2> QED BY <2>1, <2>3 DEF ScanInv, Sealed
<1>13. CASE RecoverNext
  <2>1. /\ dir' = dir /\ index' = index /\ Owed = {} /\ rec.pc = "scan"
        /\ rec.rows \subseteq index /\ \A e \in rec.todo : dir[e].man # "none"
    BY <1>1, <1>13, RepairFacts DEF RecoverNext, ScanInv
  <2>2. \A e \in Events : Sealed(e) => e \in index \/ e \in rec.todo
    BY <1>1, <2>1 DEF ScanInv, OwedOf
  <2>3. ASSUME rec.todo = {}, rec'.pc = "last", Owed' = {Op("prune", Cmd)}
        PROVE  ScanInv'
    <3>1. \A o \in Owed' : o.op = "prune"
      BY <2>3 DEF Op
    <3> QED BY <2>1, <2>2, <2>3, <3>1 DEF ScanInv, Sealed
  <2>4. ASSUME NEW e \in rec.todo \cap Events,
               rec'.pc = "scan", rec'.rows = rec.rows, rec'.todo = rec.todo \ {e},
               \A o \in Owed' :
                    \/ o \in TrimSet /\ Orphaned(e)
                    \/ o \in {Op("frames", e), Op("interrupted", e), Op("unlink", e)} /\ Orphaned(e)
                    \/ o = Op("index", e) /\ (Sealed(e) \/ Op("interrupted", e) \in Owed'),
               Sealed(e) \/ Orphaned(e) => e \in rec.rows \/ Op("index", e) \in Owed'
        PROVE  ScanInv'
    <3>1. Op("index", e).ev = e /\ Op("index", e).op = "index"
      BY DEF Op
    <3>2. \A o \in Owed' : o.op \notin PruneOps \cup {"prune"}
      BY <1>13, <2>4, RepairNames DEF PruneOps, TrimNames
    <3>3. ASSUME NEW o \in Owed', Ends(o)
          PROVE  o.ev \in index \/ \E p \in Owed' : p.ev = o.ev /\ p.op = "index"
      <4>1. o \notin TrimSet
        BY <3>3 DEF TrimSet, TrimNames, Ends
      <4>2. o # Op("index", e)
        BY <3>1, <3>3 DEF Ends
      <4>3. o \in {Op("frames", e), Op("interrupted", e), Op("unlink", e)} /\ Orphaned(e)
        BY <2>4, <3>3, <4>1, <4>2
      <4>4. o.ev = e
        BY <4>3 DEF Op
      <4> QED BY <2>1, <2>4, <3>1, <4>3, <4>4
    <3>4. ASSUME NEW d \in Events, Sealed(d)
          PROVE  d \in index \/ d \in rec'.todo \/ \E p \in Owed' : p.ev = d /\ p.op = "index"
      BY <2>1, <2>2, <2>4, <3>1, <3>4
    <3> QED BY <2>1, <2>4, <3>2, <3>3, <3>4 DEF ScanInv, Sealed, OwedOf, Ends
  <2> QED BY <1>13, <2>3, <2>4, RepairFacts
<1>14. CASE Step
  <2> DEFINE o == Head(lock.todo)
  <2>1. /\ o \in OpSet /\ o.op # "prune" /\ o.ev \in Events /\ Owed = {o} \cup Owed'
        /\ \A p \in Owed' : Before(o, p)
        /\ dir'[o.ev] = After(o) /\ \A e \in Events : e # o.ev => dir'[e] = dir[e]
        /\ rec' = rec /\ Owed' \subseteq OpSet
    BY <1>14, StepFacts
  <2>2. After(o).man = ManAfter(o)
    BY <1>1, <2>1, AfterFacts
  <2>3. Rightly(o)
    BY <1>1, <2>1
  <2>4. index' = IF o.op = "index" THEN index \cup {o.ev}
                 ELSE IF o.op = "unindex" THEN index \ {o.ev} ELSE index
    BY <1>14 DEF Step
  <2> HIDE DEF o
  <2>5. CASE rec.pc = "scan"
    <3>1. /\ rec.rows \subseteq index /\ \A e \in rec.todo : dir[e].man # "none"
          /\ \A p \in Owed : p.op \notin PruneOps \cup {"prune"}
          /\ \A p \in Owed : Ends(p) => p.ev \in index \/ \E r \in Owed : r.ev = p.ev /\ r.op = "index"
          /\ \A e \in Events : Sealed(e) =>
               e \in index \/ e \in rec.todo \/ \E r \in Owed : r.ev = e /\ r.op = "index"
      BY <1>1, <2>5 DEF ScanInv, OwedOf
    <3>2. o.op \notin PruneOps /\ o.op \notin CmdOps
      BY <1>1, <2>1, <2>3, <2>5, <3>1 DEF Rightly
    <3>3. index \subseteq index' /\ (o.op = "index" => o.ev \in index')
      BY <2>4, <3>2 DEF PruneOps
    <3>4. ASSUME NEW e \in Events
          PROVE  (dir[e].man # "none" => dir'[e].man # "none")
                 /\ (Sealed(e)' => Sealed(e) \/ (Ends(o) /\ e = o.ev))
      <4>1. CASE e # o.ev
        BY <2>1, <4>1 DEF Sealed
      <4>2. CASE e = o.ev
        BY <2>1, <2>2, <3>2, <4>2 DEF ManAfter, Ends, Sealed, PruneOps, CmdOps
      <4> QED BY <4>1, <4>2
    <3>5. ASSUME NEW e \in Events, e \in index \/ \E r \in Owed : r.ev = e /\ r.op = "index"
          PROVE  e \in index' \/ \E r \in Owed' : r.ev = e /\ r.op = "index"
      BY <2>1, <3>3, <3>5
    <3>6. ASSUME NEW p \in Owed', Ends(p)
          PROVE  p.ev \in index' \/ \E r \in Owed' : r.ev = p.ev /\ r.op = "index"
      <4>1. p \in Owed /\ p.ev \in Events
        BY <2>1 DEF OpSet
      <4> QED BY <3>1, <3>5, <3>6, <4>1
    <3>7. ASSUME NEW e \in Events, Sealed(e)'
          PROVE  e \in index' \/ e \in rec'.todo \/ \E r \in Owed' : r.ev = e /\ r.op = "index"
      <4>1. CASE Sealed(e)
        BY <2>1, <3>1, <3>5, <4>1
      <4>2. CASE Ends(o) /\ e = o.ev
        BY <2>1, <3>1, <3>5, <4>2
      <4> QED BY <3>4, <3>7, <4>1, <4>2
    <3>8. \A e \in rec'.todo : dir'[e].man # "none"
      BY <1>1, <2>1, <3>1, <3>4 DEF RecSet
    <3>9. rec'.rows \subseteq index' /\ \A p \in Owed' : p.op \notin PruneOps \cup {"prune"}
      BY <2>1, <3>1, <3>3
    <3> QED BY <2>1, <2>5, <3>6, <3>7, <3>8, <3>9 DEF ScanInv, OwedOf, Ends
  <2>6. CASE rec.pc = "last"
    <3>1. /\ \A p \in Owed : p.op \in PruneOps \cup {"prune"}
          /\ \A p \in Owed : p.op = "unindex" => \E r \in Owed : r.ev = p.ev /\ r.op = "remove"
          /\ \A e \in Events : Sealed(e) => e \in index \/ \E r \in Owed : r.ev = e /\ r.op = "remove"
      BY <1>1, <2>6 DEF ScanInv, OwedOf
    <3>2. o.op \in PruneOps
      BY <2>1, <3>1
    <3>3. \A p \in Owed' : p.op # "unindex"
      BY <2>1 DEF Before
    <3>4. ASSUME NEW e \in Events, Sealed(e)'
          PROVE  e \in index' \/ \E r \in Owed' : r.ev = e /\ r.op = "remove"
      <4>1. Sealed(e) /\ ~(e = o.ev /\ o.op = "remove")
        <5>1. CASE e # o.ev
          BY <2>1, <3>4, <5>1 DEF Sealed
        <5>2. CASE e = o.ev
          BY <2>1, <2>2, <3>2, <3>4, <5>2 DEF Sealed, ManAfter, Ends, PruneOps
        <5> QED BY <5>1, <5>2
      <4>2. CASE e \in index /\ ~(o.op = "unindex" /\ o.ev = e)
        BY <2>4, <4>2
      <4>3. CASE o.op = "unindex" /\ o.ev = e
        BY <2>1, <3>1, <4>3
      <4>4. CASE e \notin index
        BY <2>1, <3>1, <4>1, <4>4
      <4> QED BY <4>2, <4>3, <4>4
    <3> QED BY <2>1, <2>6, <3>1, <3>3, <3>4 DEF ScanInv, OwedOf
  <2>7. CASE rec.pc = "idle"
    BY <1>3, <2>1, <2>7
  <2> QED BY <1>1, <2>5, <2>6, <2>7 DEF RecSet
<1>15. CASE Prune
  <2> DEFINE t == Tail(lock.todo)
             o == Head(lock.todo)
  <2>1. /\ Owed = {o} \cup Range(t) /\ o.op = "prune"
        /\ \/ Owed' = Range(t)
           \/ \E e \in Events, first \in {"manifest", "content"} :
                Owed' = PruneSet(e, first) \cup Range(t)
    BY <1>15, PruneFacts
  <2> HIDE DEF t, o
  <2>2. UNCHANGED <<dir, index, rec>>
    BY <1>15 DEF Prune
  <2>3. CASE rec.pc = "scan"
    BY <1>1, <2>1, <2>3 DEF ScanInv
  <2>4. CASE rec.pc = "last"
    <3>1. /\ \A p \in Owed : p.op \in PruneOps \cup {"prune"}
          /\ \A p \in Owed : p.op = "unindex" => \E r \in Owed : r.ev = p.ev /\ r.op = "remove"
          /\ \A e \in Events : Sealed(e) => e \in index \/ \E r \in Owed : r.ev = e /\ r.op = "remove"
      BY <1>1, <2>4 DEF ScanInv, OwedOf
    <3>2. \A r \in Owed : r.op = "remove" => r \in Owed'
      BY <2>1
    <3>3. \A e, first : \A p \in PruneSet(e, first) : p.ev = e
      BY DEF PruneSet, Op
    <3>4. \A e, first : Op("remove", e) \in PruneSet(e, first) /\ Op("remove", e).op = "remove" /\ Op("remove", e).ev = e
      BY DEF PruneSet, Op
    <3>5. ASSUME NEW p \in Owed', p \notin Range(t)
          PROVE  p.op \in PruneOps \cup {"prune"} /\ \E r \in Owed' : r.ev = p.ev /\ r.op = "remove"
      <4>1. PICK e \in Events, first \in {"manifest", "content"} :
              Owed' = PruneSet(e, first) \cup Range(t) /\ p \in PruneSet(e, first)
        BY <2>1, <3>5
      <4>2. p.op \in PruneOps \cup {"prune"}
        BY <4>1 DEF PruneSet, Op, PruneOps
      <4>3. Op("remove", e) \in Owed' /\ p.ev = e
        BY <3>3, <3>4, <4>1
      <4> QED BY <3>4, <4>2, <4>3
    <3>6. \A p \in Owed' : p.op \in PruneOps \cup {"prune"}
      BY <2>1, <3>1, <3>5
    <3>7. \A p \in Owed' : p.op = "unindex" => \E r \in Owed' : r.ev = p.ev /\ r.op = "remove"
      BY <2>1, <3>1, <3>2, <3>5
    <3> QED BY <2>2, <2>4, <3>1, <3>2, <3>6, <3>7 DEF ScanInv, OwedOf, Sealed
  <2>5. CASE rec.pc = "idle"
    BY <1>3, <2>2, <2>5
  <2> QED BY <1>1, <2>3, <2>4, <2>5 DEF RecSet
<1> QED BY <1>5, <1>6, <1>7, <1>8, <1>9, <1>10, <1>11, <1>12, <1>13, <1>14, <1>15, Kinds

(* The first chunk that is due is the next of its stream.                  *)
LEMMA TailDue ==
  ASSUME NEW d \in Seq(Streams \X Nat), d # <<>>, InTurn(d),
         NEW s \in Streams, NEW x \in Nat, Head(d) = <<s, x>>
  PROVE  /\ InTurn(Tail(d)) /\ Waits(d, s, x)
         /\ \A y \in Nat : Waits(d, s, y) => x <= y
         /\ \A r \in Streams, y \in Nat : Waits(Tail(d), r, y) <=> Waits(d, r, y) /\ ~(r = s /\ y = x)
<1> DEFINE n == Len(d)
           t == Tail(d)
<1>1. /\ n \in Nat /\ n > 0 /\ DOMAIN d = 1..n /\ d[1] = <<s, x>>
      /\ DOMAIN t = 1..(n - 1) /\ \A i \in 1..(n - 1) : t[i] = d[i + 1]
  OBVIOUS
<1> HIDE DEF n, t
<1>2. ASSUME NEW i \in DOMAIN t, NEW j \in DOMAIN t, i < j, t[i][1] = t[j][1]
      PROVE  t[i][2] < t[j][2]
  <2>1. i + 1 \in DOMAIN d /\ j + 1 \in DOMAIN d /\ i + 1 < j + 1 /\ t[i] = d[i + 1] /\ t[j] = d[j + 1]
    <3>1. i \in 1..(n - 1) /\ j \in 1..(n - 1)
      BY <1>1
    <3>2. n \in Nat /\ i < j
      BY <1>1, <1>2
    <3>3. i + 1 \in 1..n /\ j + 1 \in 1..n /\ i + 1 < j + 1
      BY <3>1, <3>2
    <3> QED BY <1>1, <3>1, <3>3
  <2> QED BY <1>2, <2>1 DEF InTurn
<1>3. ASSUME NEW j \in DOMAIN d, NEW y \in Nat, d[j] = <<s, y>>, j # 1
      PROVE  x < y
  <2>1. 1 \in DOMAIN d /\ 1 < j /\ d[1][1] = s /\ d[1][2] = x /\ d[j][1] = s /\ d[j][2] = y
    BY <1>1, <1>3
  <2> QED BY <2>1 DEF InTurn
<1>4. Waits(d, s, x)
  <2>1. 1 \in DOMAIN d
    BY <1>1
  <2> QED BY <1>1, <2>1 DEF Waits
<1>5. ASSUME NEW y \in Nat, Waits(d, s, y) PROVE x <= y
  <2>1. PICK j \in DOMAIN d : d[j] = <<s, y>>
    BY <1>5 DEF Waits
  <2>2. j = 1 => x = y
    BY <1>1, <2>1
  <2>3. j # 1 => x < y
    BY <1>3, <2>1
  <2> QED BY <2>2, <2>3
<1>6. ASSUME NEW r \in Streams, NEW y \in Nat, Waits(t, r, y)
      PROVE  Waits(d, r, y) /\ ~(r = s /\ y = x)
  <2>1. PICK j \in 1..(n - 1) : t[j] = <<r, y>>
    BY <1>1, <1>6 DEF Waits
  <2>2. j + 1 \in DOMAIN d /\ j + 1 # 1 /\ d[j + 1] = <<r, y>>
    BY <1>1, <2>1
  <2>3. r = s => x < y
    BY <1>3, <2>2
  <2> QED BY <2>2, <2>3 DEF Waits
<1>7. ASSUME NEW r \in Streams, NEW y \in Nat, Waits(d, r, y), ~(r = s /\ y = x)
      PROVE  Waits(t, r, y)
  <2>1. PICK j \in 1..n : d[j] = <<r, y>>
    BY <1>1, <1>7 DEF Waits
  <2>2. j # 1
    BY <1>1, <1>7, <2>1
  <2>3. j - 1 \in 1..(n - 1) /\ (j - 1) + 1 = j
    BY <1>1, <2>2
  <2>4. t[j - 1] = <<r, y>>
    BY <1>1, <2>1, <2>3
  <2> QED BY <1>1, <2>3, <2>4 DEF Waits
<1>8. InTurn(t)
  BY <1>2 DEF InTurn
<1> QED BY <1>4, <1>5, <1>6, <1>7, <1>8 DEF t

(* The chunk that is stored next is the one its stream lacks next.         *)
LEMMA StoreFacts ==
  ASSUME ArchiveInv, Running, Owed = {}, cmd.due # <<>>, ~cmd.failed, dir[Cmd].gap # "truncated",
         NEW s \in Streams, NEW x \in Nat, Head(cmd.due) = <<s, x>>
  PROVE  /\ Whole /\ Flushed \in Nat /\ Flushed <= cmd.read
         /\ x = Len(dir[Cmd].raw[s]) + 1 /\ x <= Flushed
<1>1. /\ dir[Cmd].gap \in {"no", "storage", "truncated", "sensitive"}
      /\ cmd.due \in Seq(Streams \X Nat) /\ cmd.pending \in Seq(Nat) /\ cmd.read \in Nat
      /\ \A r \in Streams : dir[Cmd].raw[r] \in Seq(Nat)
  BY DEF ArchiveInv, ArchiveTypes, DirSet, Contents, Events
<1>2. ~cmd.secret /\ dir[Cmd].gap = "no"
  BY <1>1 DEF ArchiveInv, SecretInv, Running
<1>3. Whole
  BY <1>2 DEF Whole
<1>4. /\ Flushed \in Nat /\ InTurn(cmd.due)
      /\ \A r \in Streams : /\ HasRaw(r) <= Flushed
                            /\ \A y \in Nat : Waits(cmd.due, r, y) <=> HasRaw(r) < y /\ y <= Flushed
  BY <1>3 DEF ArchiveInv, AccountInv, Running
<1>5. HasRaw(s) = Len(dir[Cmd].raw[s]) /\ HasRaw(s) \in Nat
  BY <1>1 DEF HasRaw
<1>6. Waits(cmd.due, s, x) /\ \A y \in Nat : Waits(cmd.due, s, y) => x <= y
  BY <1>1, <1>4, TailDue
<1>7. x > HasRaw(s) /\ x <= Flushed
  BY <1>4, <1>5, <1>6
<1>8. HasRaw(s) + 1 \in Nat /\ HasRaw(s) < HasRaw(s) + 1 /\ HasRaw(s) + 1 <= Flushed
  BY <1>4, <1>5, <1>7
<1>9. x <= HasRaw(s) + 1
  BY <1>4, <1>6, <1>8
<1>10. Flushed <= cmd.read
  BY <1>1 DEF Flushed
<1> QED BY <1>3, <1>4, <1>5, <1>7, <1>9, <1>10

(* The streams, the frames and the files stay a beginning of the output.   *)
LEMMA ContentStep ==
  ASSUME ArchiveInv, [Next]_vars
  PROVE  ContentInv'
<1> DEFINE Named(o) == o.op \in {"rewrite", "empty", "raw"}
           Holds == \A s \in Streams : /\ Begins(dir[Cmd].raw[s]) /\ Begins(dir[Cmd].zst[s])
                                       /\ Begins(dir[Cmd].files[s])
           Good(o) == /\ o.op = "rewrite" => Begins(o.what)
                      /\ o.op = "empty" => o.what = <<>>
                      /\ o.op = "raw" => /\ o.s \in Streams /\ Len(dir[Cmd].raw[o.s]) < cmd.read
                                         /\ o.what = <<Len(dir[Cmd].raw[o.s]) + 1>>
<1>1. /\ ArchiveTypes /\ \A o \in Owed : Rightly(o) /\ Good(o)
      /\ Holds /\ cmd \in CmdSet /\ Owed \subseteq OpSet
      /\ \A s \in Streams : /\ dir[Cmd].raw[s] \in Seq(Nat) /\ dir[Cmd].zst[s] \in Seq(Nat)
                            /\ dir[Cmd].files[s] \in Seq(Nat)
  <2>1. /\ ArchiveTypes /\ ContentInv /\ \A o \in Owed : Rightly(o)
    BY DEF ArchiveInv, OwnerInv
  <2>2. cmd \in CmdSet /\ Owed \subseteq OpSet
    BY <2>1 DEF ArchiveTypes, CmdSet, Owed, Range
  <2>3. dir[Cmd] \in DirSet
    BY <2>1 DEF ArchiveTypes, Events
  <2> QED BY <2>1, <2>2, <2>3 DEF ContentInv, DirSet, Contents
<1>2. SUFFICES Holds' /\ \A o \in Owed' : Good(o)'
  BY DEF ContentInv
<1>3. ASSUME cmd'.read \in Nat, cmd.read <= cmd'.read, NEW x \in Seq(Nat), Begins(x) PROVE Begins(x)'
  <2>1. Len(x) \in Nat /\ cmd.read \in Nat
    BY <1>1 DEF CmdSet
  <2> QED BY <1>3, <2>1 DEF Begins
<1>4. ASSUME dir' = dir, cmd'.read \in Nat, cmd.read <= cmd'.read, \A o \in Owed' : o \in Owed \/ ~Named(o)
      PROVE  Holds' /\ \A o \in Owed' : Good(o)'
  <2>1. Holds'
    BY <1>1, <1>3, <1>4
  <2>2. ASSUME NEW o \in Owed' PROVE Good(o)'
    <3>1. CASE ~Named(o)
      BY <3>1
    <3>2. CASE o \in Owed
      <4>1. Good(o) /\ o.what \in Seq(Nat)
        BY <1>1, <3>2 DEF OpSet
      <4>2. o.op = "rewrite" => Begins(o.what)'
        BY <1>3, <1>4, <4>1
      <4>3. o.op = "raw" => Len(dir[Cmd].raw[o.s]) < cmd'.read
        <5>1. o.op = "raw" => Len(dir[Cmd].raw[o.s]) \in Nat
          BY <1>1, <4>1
        <5>2. cmd.read \in Nat
          BY <1>1 DEF CmdSet
        <5> QED BY <1>4, <4>1, <5>1, <5>2
      <4> QED BY <1>4, <4>1, <4>2, <4>3
    <3> QED BY <1>4, <3>1, <3>2
  <2> QED BY <2>1, <2>2
<1>5. cmd.read \in Nat /\ cmd.read <= cmd.read
  BY <1>1 DEF CmdSet
<1>6. CASE LetsGo
  <2>1. Owed' = {} /\ dir' = dir
    BY <1>6, NothingOwed DEF LetsGo
  <2>2. cmd'.read = cmd.read
    BY <1>1, <1>6 DEF LetsGo, CmdSet
  <2> QED BY <1>4, <1>5, <2>1, <2>2
<1>7. cmd' \in CmdSet
  BY TypesStep DEF ArchiveTypes, CmdSet
<1>8. CASE CmdMoves
  BY <1>4, <1>7, <1>8 DEF CmdMoves, Owed, CmdSet
<1>9. CASE ColMoves
  BY <1>4, <1>5, <1>9 DEF ColMoves, Owed
<1>10. CASE Begin
  <2>1. cmd'.read = cmd.read /\ dir' = dir
    BY <1>1, <1>10 DEF Begin, CmdSet
  <2>2. \A o \in Owed' : ~Named(o)
    BY <1>10, BeginPlan DEF IsPlan, Owed, Op
  <2> QED BY <1>4, <1>5, <2>1, <2>2
<1>11. CASE Drop
  <2>1. cmd'.read = cmd.read + 1 /\ dir' = dir
    BY <1>1, <1>11 DEF Drop, CmdSet
  <2>2. \A o \in Owed' : ~Named(o)
    BY <1>11, DropPlan DEF IsPlan, Owed, Op
  <2> QED BY <1>4, <1>5, <2>1, <2>2
<1>12. CASE Store
  <2>1. cmd'.read = cmd.read /\ dir' = dir /\ Running /\ ~cmd.failed
    BY <1>1, <1>12 DEF Store, CmdSet, Skips
  <2>2. PICK s \in Streams, x \in Nat :
          /\ Free /\ cmd.due # <<>> /\ Head(cmd.due) = <<s, x>>
          /\ \/ Owed' = {Op("truncated", Cmd)}
             \/ Owed' = {}
             \/ dir[Cmd].gap # "truncated" /\ Owed' = Writes(s, x)
    BY <1>12, StorePlan DEF IsPlan, Owed
  <2>3. CASE Owed' = {Op("truncated", Cmd)} \/ Owed' = {}
    <3>1. \A o \in Owed' : ~Named(o)
      BY <2>3 DEF Op
    <3> QED BY <1>4, <1>5, <2>1, <3>1
  <2>4. CASE dir[Cmd].gap # "truncated" /\ Owed' = Writes(s, x)
    <3>1. x = Len(dir[Cmd].raw[s]) + 1 /\ x <= cmd.read
      <4>1. /\ Flushed \in Nat /\ Flushed <= cmd.read
            /\ x = Len(dir[Cmd].raw[s]) + 1 /\ x <= Flushed
        BY <2>1, <2>2, <2>4, StoreFacts DEF Free
      <4> QED BY <1>5, <4>1
    <3>2. Holds'
      BY <1>1, <1>3, <1>5, <2>1
    <3>3. ASSUME NEW o \in Owed' PROVE Good(o)'
      <4>1. \/ o.op = "timing"
            \/ o.op = "raw" /\ o.s = s /\ o.what = <<x>>
        BY <2>4 DEF Writes, File
      <4>2. Len(dir[Cmd].raw[s]) \in Nat /\ Len(dir[Cmd].raw[s]) < cmd.read
        BY <1>1, <1>5, <3>1
      <4> QED BY <2>1, <3>1, <4>1, <4>2
    <3> QED BY <3>2, <3>3
  <2> QED BY <2>2, <2>3, <2>4
<1>13. CASE FinishCmd
  <2>1. cmd'.read = cmd.read /\ dir' = dir
    BY <1>1, <1>13 DEF FinishCmd, CmdSet
  <2>2. \A o \in Owed' : ~Named(o)
    BY <1>13, FinishPlan DEF IsPlan, Owed, Op
  <2> QED BY <1>4, <1>5, <2>1, <2>2
<1>14. ASSUME NEW c \in Collectors, Record(c)
       PROVE  Holds' /\ \A o \in Owed' : Good(o)'
  <2>1. \A o \in Owed' : ~Named(o)
    BY <1>14, RecordPlan DEF IsPlan, Owed, Op
  <2> QED BY <1>4, <1>5, <1>14, <2>1 DEF Record
<1>15. CASE Recover
  <2>1. Owed' = {}
    BY <1>15, RecoverPlan DEF IsPlan, Owed
  <2> QED BY <1>4, <1>5, <1>15, <2>1 DEF Recover
<1>16. CASE RecoverNext
  <2>1. dir' = dir /\ cmd' = cmd
    BY <1>16, RepairFacts
  <2>2. Holds'
    BY <1>1, <1>3, <1>5, <2>1
  <2>3. ASSUME NEW o \in Owed' PROVE Good(o)'
    <3>1. CASE o \in TrimSet
      <4>1. o.op = "rewrite" => Begins(o.what)
        <5> SUFFICES ASSUME o.op = "rewrite" PROVE Begins(o.what)
          OBVIOUS
        <5>1. PICK s \in Streams : o.what = Valid(s)
          BY <3>1 DEF TrimSet
        <5>2. /\ Valid(s) \in Seq(Nat) /\ Len(Valid(s)) <= Len(dir[Cmd].raw[s])
              /\ \A i \in 1..Len(Valid(s)) : Valid(s)[i] = dir[Cmd].raw[s][i]
          BY <1>1, ValidFacts
        <5>3. Len(Valid(s)) \in Nat /\ Len(dir[Cmd].raw[s]) \in Nat /\ Begins(dir[Cmd].raw[s])
          BY <1>1, <5>2
        <5>4. cmd.read \in Nat /\ Len(dir[Cmd].raw[s]) <= cmd.read
          BY <1>1, <5>3 DEF Begins, CmdSet
        <5>5. Len(Valid(s)) <= cmd.read
          BY <5>2, <5>3, <5>4
        <5>6. ASSUME NEW i \in 1..Len(Valid(s)) PROVE Valid(s)[i] = i
          <6>1. i \in 1..Len(dir[Cmd].raw[s])
            BY <5>2, <5>3
          <6> QED BY <5>2, <5>3, <5>6, <6>1 DEF Begins
        <5> QED BY <5>1, <5>5, <5>6 DEF Begins
      <4> QED BY <2>1, <3>1, <4>1 DEF TrimSet, TrimNames, Begins
    <3>2. CASE o \notin TrimSet
      <4>1. ~Named(o)
        BY <1>16, <3>2, RepairNames DEF TrimNames
      <4> QED BY <4>1
    <3> QED BY <3>1, <3>2
  <2> QED BY <2>2, <2>3
<1>17. CASE Step
  <2> DEFINE o == Head(lock.todo)
  <2>1. /\ o \in OpSet /\ o.op # "prune" /\ o.ev \in Events /\ Owed = {o} \cup Owed'
        /\ \A p \in Owed' : Before(o, p)
        /\ dir'[o.ev] = After(o) /\ \A e \in Events : e # o.ev => dir'[e] = dir[e]
        /\ cmd' = cmd
    BY <1>17, StepFacts
  <2>2. After(o).raw = RawAfter(o) /\ After(o).zst = ZstAfter(o) /\ After(o).files = FilesAfter(o)
    BY <1>1, <2>1, AfterFacts
  <2>3. Good(o) /\ Rightly(o) /\ Cmd \in Events /\ o.op \in OpNames
    BY <1>1, <2>1 DEF Events, OpSet
  <2> HIDE DEF o
  <2>4. ASSUME NEW p \in Owed' PROVE Good(p)'
    <3>1. p.op # "raw"
      BY <2>1 DEF Before
    <3>2. Good(p)
      BY <1>1, <2>1
    <3> QED BY <2>1, <3>1, <3>2 DEF Begins
  <2>5. CASE o.ev # Cmd
    BY <1>1, <2>1, <2>3, <2>4, <2>5 DEF Begins
  <2>6. CASE o.ev = Cmd
    <3>1. Begins(<<>>) /\ \A s \in Streams : Nothing[s] = <<>>
      BY <1>5 DEF Begins, Nothing
    <3>2. ASSUME NEW s \in Streams PROVE Begins(RawAfter(o)[s])
      <4>1. CASE o.op = "raw"
        <5>1. /\ o.s \in Streams /\ Len(dir[Cmd].raw[o.s]) < cmd.read
              /\ o.what = <<Len(dir[Cmd].raw[o.s]) + 1>>
          BY <2>3, <4>1
        <5>2. RawAfter(o) = [dir[Cmd].raw EXCEPT ![o.s] = @ \o o.what]
          BY <2>6, <4>1 DEF RawAfter
        <5>3. dir[Cmd].raw \in [Streams -> Seq(Nat)]
          BY <1>1 DEF ArchiveTypes, DirSet, Contents, Events
        <5>4. CASE s # o.s
          BY <1>1, <5>2, <5>3, <5>4
        <5>5. CASE s = o.s
          <6> DEFINE r == dir[Cmd].raw[s]
                     z == r \o <<Len(r) + 1>>
          <6>1. RawAfter(o)[s] = z
            BY <5>1, <5>2, <5>3, <5>5
          <6>2. r \in Seq(Nat) /\ Begins(r) /\ Len(r) < cmd.read
            BY <1>1, <5>1, <5>5
          <6> HIDE DEF r
          <6>3. Len(z) = Len(r) + 1 /\ \A i \in 1..(Len(r) + 1) : z[i] = IF i <= Len(r) THEN r[i] ELSE Len(r) + 1
            BY <6>2
          <6> HIDE DEF z
          <6>4. Len(r) \in Nat
            BY <6>2
          <6>5. Len(z) <= cmd.read
            BY <1>5, <6>2, <6>3, <6>4
          <6>6. ASSUME NEW i \in 1..Len(z) PROVE z[i] = i
            <7>1. i \in 1..(Len(r) + 1) /\ (i <= Len(r) => i \in 1..Len(r)) /\ (~(i <= Len(r)) => i = Len(r) + 1)
              BY <6>3, <6>4
            <7> QED BY <6>2, <6>3, <7>1 DEF Begins
          <6>7. Begins(z)
            BY <6>5, <6>6 DEF Begins
          <6> QED BY <6>1, <6>7
        <5> QED BY <5>4, <5>5
      <4>2. CASE o.op \in {"empty", "rewrite"}
        <5>1. RawAfter(o) = [dir[Cmd].raw EXCEPT ![o.s] = o.what]
          BY <2>6, <4>2 DEF RawAfter
        <5>2. Begins(o.what)
          BY <2>3, <3>1, <4>2
        <5>3. dir[Cmd].raw \in [Streams -> Seq(Nat)]
          BY <1>1 DEF ArchiveTypes, DirSet, Contents, Events
        <5>4. RawAfter(o)[s] = IF s = o.s THEN o.what ELSE dir[Cmd].raw[s]
          BY <5>1, <5>3
        <5> QED BY <1>1, <5>2, <5>4
      <4>3. CASE o.op \notin {"raw", "empty", "rewrite"}
        <5>1. RawAfter(o) = Nothing \/ RawAfter(o) = dir[Cmd].raw
          BY <2>6, <4>3 DEF RawAfter
        <5> QED BY <1>1, <3>1, <5>1
      <4> QED BY <4>1, <4>2, <4>3
    <3>3. ASSUME NEW s \in Streams PROVE Begins(ZstAfter(o)[s]) /\ Begins(FilesAfter(o)[s])
      BY <1>1, <2>6, <3>1 DEF ZstAfter, FilesAfter
    <3>4. /\ dir'[Cmd].raw = RawAfter(o) /\ dir'[Cmd].zst = ZstAfter(o) /\ dir'[Cmd].files = FilesAfter(o)
      BY <2>1, <2>2, <2>6
    <3>5. Holds'
      BY <2>1, <3>2, <3>3, <3>4 DEF Begins
    <3> QED BY <2>4, <3>5
  <2> QED BY <2>5, <2>6
<1>18. CASE Prune
  <2> DEFINE t == Tail(lock.todo)
             o == Head(lock.todo)
  <2>1. /\ Owed = {o} \cup Range(t)
        /\ \/ Owed' = Range(t)
           \/ \E e \in Events, first \in {"manifest", "content"} :
                Owed' = PruneSet(e, first) \cup Range(t)
    BY <1>18, PruneFacts
  <2> HIDE DEF t, o
  <2>2. dir' = dir /\ cmd' = cmd
    BY <1>18 DEF Prune
  <2>3. \A e \in Events, first \in {"manifest", "content"} : \A p \in PruneSet(e, first) : ~Named(p)
    BY DEF PruneSet, Op
  <2>4. \A p \in Owed' : p \in Owed \/ ~Named(p)
    BY <2>1, <2>3
  <2> QED BY <1>4, <1>5, <2>2, <2>4
<1> HIDE DEF Holds, Good
<1> QED BY <1>6, <1>8, <1>9, <1>10, <1>11, <1>12, <1>13, <1>14, <1>15, <1>16, <1>17, <1>18, Kinds

(* What was dropped leaves nothing waiting, and a gap.                     *)
LEMMA SecretStep ==
  ASSUME ArchiveInv, [Next]_vars
  PROVE  SecretInv'
<1> DEFINE Drops(o) == o.op \in {"erase", "sensitive"}
           Busy == cmd.pc \in {"start", "run", "end"}
           Done == cmd.pc \in {"done", "dead"}
           Gap  == dir[Cmd].gap
<1>1. /\ ArchiveTypes /\ PhaseInv /\ SecretInv /\ cmd \in CmdSet /\ Cmd \in Events
      /\ \A o \in Owed : Rightly(o)
      /\ cmd.secret => cmd.pending = <<>> /\ cmd.due = <<>>
      /\ Gap = "sensitive" \/ (\E o \in Owed : Drops(o)) => cmd.secret
      /\ Gap = "storage" => Done
      /\ Busy /\ cmd.secret /\ ~cmd.failed => Gap # "no" \/ \E o \in Owed : o.op = "sensitive"
      /\ Busy \/ Done
  BY DEF ArchiveInv, ArchiveTypes, OwnerInv, SecretInv, CmdSet, Events
<1> DEFINE Held == /\ cmd'.secret => cmd'.pending = <<>> /\ cmd'.due = <<>>
                   /\ Gap' = "sensitive" \/ (\E o \in Owed' : Drops(o)) => cmd'.secret
                   /\ Gap' = "storage" => Done'
                   /\ Busy' /\ cmd'.secret /\ ~cmd'.failed => Gap' # "no" \/ \E o \in Owed' : o.op = "sensitive"
<1>2. SUFFICES Held
  BY DEF SecretInv
<1>3. ASSUME dir' = dir, cmd' = cmd, Owed' = Owed \/ (Owed = {} /\ \A o \in Owed' : ~Drops(o))
      PROVE  Held
  BY <1>1, <1>3
<1>4. CASE LetsGo
  <2>1. Owed' = {} /\ dir' = dir
    BY <1>4, NothingOwed DEF LetsGo
  <2>2. CASE cmd' = cmd /\ (lock.by = "cmd" => lock.todo = <<>>)
    <3>1. \A o \in Owed : o.op # "sensitive"
      BY <1>1, <2>2, RangeNone DEF Rightly, CmdOps, Owed
    <3> QED BY <1>1, <2>1, <2>2, <3>1
  <2>3. CASE cmd' = [cmd EXCEPT !.failed = TRUE, !.pc = IF dir[Cmd].man = "none" THEN "dead" ELSE @]
    <3>1. /\ cmd'.failed /\ cmd'.secret = cmd.secret /\ cmd'.pending = cmd.pending /\ cmd'.due = cmd.due
          /\ Done => Done'
      BY <1>1, <2>3 DEF CmdSet
    <3> QED BY <1>1, <2>1, <3>1
  <2>4. CASE cmd' = [cmd EXCEPT !.pc = "dead"]
    <3>1. /\ cmd'.secret = cmd.secret /\ cmd'.pending = cmd.pending /\ cmd'.due = cmd.due
          /\ cmd'.pc = "dead"
      BY <1>1, <2>4 DEF CmdSet
    <3> QED BY <1>1, <2>1, <3>1
  <2> QED BY <1>4, <2>2, <2>3, <2>4 DEF LetsGo
<1>5. CASE CmdMoves
  <2>1. dir' = dir /\ Owed' = Owed /\ lock.by # "cmd" /\ Busy
    BY <1>5 DEF CmdMoves, Owed
  <2>2. /\ Gap # "storage" /\ \A o \in Owed : ~Drops(o)
    BY <1>1, <2>1 DEF Rightly, CmdOps
  <2>3. ASSUME cmd.secret => cmd'.secret,
               cmd'.secret => cmd'.pending = <<>> /\ cmd'.due = <<>>,
               Busy' /\ cmd'.secret /\ ~cmd'.failed => cmd.secret /\ ~cmd.failed
        PROVE  Held
    BY <1>1, <2>1, <2>2, <2>3
  <2>4. CASE Emit
    <3>1. CASE cmd.failed \/ cmd.secret
      <4>1. cmd' = [cmd EXCEPT !.read = cmd.read + 1]
        BY <2>4, <3>1 DEF Emit
      <4>2. /\ cmd'.secret = cmd.secret /\ cmd'.failed = cmd.failed
            /\ cmd'.pending = cmd.pending /\ cmd'.due = cmd.due
        BY <1>1, <4>1 DEF CmdSet
      <4> QED BY <1>1, <2>3, <4>2
    <3>2. CASE ~cmd.failed /\ ~cmd.secret
      <4>1. cmd'.secret = cmd.secret
        BY <1>1, <2>4, <3>2 DEF Emit, CmdSet
      <4> QED BY <2>3, <3>2, <4>1
    <3> QED BY <3>1, <3>2
  <2>5. CASE Exit
    <3>1. cmd' = [cmd EXCEPT !.pc = "end", !.pending = <<>>, !.due = Flush(cmd.pending, 0).due]
      BY <2>5 DEF Exit
    <3>2. /\ cmd'.secret = cmd.secret /\ cmd'.failed = cmd.failed
          /\ cmd'.pending = <<>> /\ cmd'.due = Flush(cmd.pending, 0).due
      BY <1>1, <3>1 DEF CmdSet
    <3>3. cmd.pending = <<>> => Flush(cmd.pending, 0).due = <<>>
      BY DEF Flush
    <3> QED BY <1>1, <2>3, <3>2, <3>3
  <2>6. CASE StoreNot
    <3>1. cmd' = [cmd EXCEPT !.due = Tail(cmd.due)] /\ cmd.due # <<>>
      BY <2>6 DEF StoreNot
    <3>2. cmd'.secret = cmd.secret /\ ~cmd.secret
      BY <1>1, <3>1 DEF CmdSet
    <3> QED BY <2>3, <3>2
  <2>7. CASE BusyCmd
    <3>1. \/ cmd' = [cmd EXCEPT !.pc = "dead"]
          \/ cmd.due # <<>> /\ cmd' = [cmd EXCEPT !.failed = TRUE, !.due = Tail(cmd.due)]
          \/ cmd' = [cmd EXCEPT !.pc = "done"]
          \/ /\ cmd.due = <<>>
             /\ cmd' = [cmd EXCEPT !.read = cmd.read + 1, !.secret = TRUE, !.failed = TRUE, !.pending = <<>>]
      BY <2>7 DEF BusyCmd
    <3>2. CASE cmd' = [cmd EXCEPT !.pc = "dead"] \/ cmd' = [cmd EXCEPT !.pc = "done"]
      <4>1. /\ cmd'.secret = cmd.secret /\ cmd'.failed = cmd.failed
            /\ cmd'.pending = cmd.pending /\ cmd'.due = cmd.due
        BY <1>1, <3>2 DEF CmdSet
      <4> QED BY <1>1, <2>3, <4>1
    <3>3. CASE cmd.due # <<>> /\ cmd' = [cmd EXCEPT !.failed = TRUE, !.due = Tail(cmd.due)]
      <4>1. cmd'.secret = cmd.secret /\ ~cmd.secret
        BY <1>1, <3>3 DEF CmdSet
      <4> QED BY <2>3, <4>1
    <3>4. CASE /\ cmd.due = <<>>
               /\ cmd' = [cmd EXCEPT !.read = cmd.read + 1, !.secret = TRUE, !.failed = TRUE, !.pending = <<>>]
      <4>1. cmd'.secret /\ cmd'.failed /\ cmd'.pending = <<>> /\ cmd'.due = <<>>
        BY <1>1, <3>4 DEF CmdSet
      <4> QED BY <2>3, <4>1
    <3> QED BY <3>1, <3>2, <3>3, <3>4
  <2>8. CASE CmdDies
    <3>1. cmd' = [cmd EXCEPT !.pc = "dead"]
      BY <2>8 DEF CmdDies
    <3>2. /\ cmd'.secret = cmd.secret /\ cmd'.failed = cmd.failed
          /\ cmd'.pending = cmd.pending /\ cmd'.due = cmd.due
      BY <1>1, <3>1 DEF CmdSet
    <3> QED BY <1>1, <2>3, <3>2
  <2> HIDE DEF Held
  <2> QED BY <1>5, <2>4, <2>5, <2>6, <2>7, <2>8 DEF CmdMoves
<1>6. CASE ColMoves
  BY <1>3, <1>6 DEF ColMoves, Owed
<1>7. CASE Begin
  <2>1. cmd' = [cmd EXCEPT !.pc = "run"] /\ dir' = dir /\ ~cmd.secret
    BY <1>1, <1>7 DEF Begin, PhaseInv
  <2>2. cmd'.secret = cmd.secret
    BY <1>1, <2>1 DEF CmdSet
  <2>3. \A o \in Owed' : ~Drops(o)
    BY <1>7, BeginPlan DEF IsPlan, Owed, Op
  <2>4. Gap = "no"
    BY <1>1, <1>7 DEF Begin, PhaseInv, NoDir
  <2> QED BY <2>1, <2>2, <2>3, <2>4
<1>8. CASE Drop
  <2>1. /\ cmd' = [cmd EXCEPT !.read = cmd.read + 1, !.secret = TRUE, !.pending = <<>>]
        /\ dir' = dir /\ cmd.due = <<>> /\ cmd.pc = "run"
    BY <1>8 DEF Drop, Quiet
  <2>2. cmd'.secret /\ cmd'.pending = <<>> /\ cmd'.due = <<>>
    BY <1>1, <2>1 DEF CmdSet
  <2>3. Op("sensitive", Cmd) \in Owed' /\ Op("sensitive", Cmd).op = "sensitive"
    BY <1>8, DropPlan DEF IsPlan, Owed, Op
  <2>4. Gap # "storage"
    BY <1>1, <2>1
  <2> QED BY <2>1, <2>2, <2>3, <2>4
<1>9. CASE Store
  <2>1. cmd' = [cmd EXCEPT !.due = Tail(cmd.due)] /\ cmd.due # <<>> /\ dir' = dir /\ Running
    BY <1>9 DEF Store
  <2>2. cmd'.secret = cmd.secret /\ ~cmd.secret
    BY <1>1, <2>1 DEF CmdSet
  <2>3. \A o \in Owed' : ~Drops(o)
    BY <1>9, StorePlan DEF IsPlan, Owed, Op, Writes, File
  <2>4. Gap # "storage"
    BY <1>1, <2>1 DEF Running
  <2> QED BY <1>1, <2>1, <2>2, <2>3, <2>4
<1>10. CASE FinishCmd
  <2>1. cmd' = [cmd EXCEPT !.pc = "done"] /\ dir' = dir
    BY <1>10 DEF FinishCmd
  <2>2. /\ cmd'.secret = cmd.secret /\ cmd'.pending = cmd.pending /\ cmd'.due = cmd.due /\ cmd'.pc = "done"
    BY <1>1, <2>1 DEF CmdSet
  <2>3. \A o \in Owed' : ~Drops(o)
    BY <1>10, FinishPlan DEF IsPlan, Owed, Op
  <2> QED BY <1>1, <2>1, <2>2, <2>3
<1>11. ASSUME NEW c \in Collectors, Record(c) PROVE Held
  <2>1. Owed = {} /\ \A o \in Owed' : ~Drops(o)
    BY <1>11, RecordPlan DEF IsPlan, Owed, Op, Free
  <2> QED BY <1>3, <1>11, <2>1 DEF Record
<1>12. CASE Recover
  <2>1. Owed = {} /\ Owed' = {}
    BY <1>12, RecoverPlan DEF IsPlan, Owed, Free
  <2> QED BY <1>3, <1>12, <2>1 DEF Recover
<1>13. CASE RecoverNext
  <2>1. Owed = {} /\ dir' = dir /\ cmd' = cmd
    BY <1>13, RepairFacts
  <2>2. \A o \in Owed' : ~Drops(o)
    BY <1>13, RepairNames DEF TrimNames
  <2> QED BY <1>3, <2>1, <2>2
<1>14. CASE Step
  <2> DEFINE o == Head(lock.todo)
  <2>1. /\ o \in OpSet /\ o.op # "prune" /\ o.ev \in Events /\ Owed = {o} \cup Owed'
        /\ dir'[o.ev] = After(o) /\ \A e \in Events : e # o.ev => dir'[e] = dir[e]
        /\ cmd' = cmd
    BY <1>14, StepFacts
  <2>2. After(o).gap = GapAfter(o)
    BY <1>1, <2>1, AfterFacts
  <2>3. Rightly(o)
    BY <1>1, <2>1
  <2> HIDE DEF o
  <2>4. CASE o.ev # Cmd
    <3>1. o.op # "sensitive" /\ Gap' = Gap
      BY <1>1, <2>1, <2>3, <2>4 DEF Rightly, CmdOps
    <3> QED BY <1>1, <2>1, <3>1
  <2>5. CASE o.ev = Cmd
    <3>1. Gap' = GapAfter(o)
      BY <2>1, <2>2, <2>5
    <3>2. Gap' = "sensitive" => cmd.secret
      BY <1>1, <2>1, <2>5, <3>1 DEF GapAfter
    <3>3. Gap' = "storage" => Done
      BY <1>1, <2>3, <2>5, <3>1 DEF GapAfter, Rightly, CmdOps
    <3>4. ASSUME Busy, cmd.secret, ~cmd.failed PROVE Gap' # "no" \/ \E p \in Owed' : p.op = "sensitive"
      <4>1. o.op # "begin"
        BY <1>1, <2>1, <3>4 DEF PhaseInv
      <4>2. o.op # "remove"
        BY <2>3, <2>5, <3>4 DEF Rightly, CmdOps
      <4>3. CASE Gap # "no"
        BY <2>5, <3>1, <4>1, <4>2, <4>3 DEF GapAfter
      <4>4. CASE \E p \in Owed : p.op = "sensitive"
        BY <2>1, <3>1, <4>4 DEF GapAfter
      <4> QED BY <1>1, <3>4, <4>3, <4>4
    <3> QED BY <1>1, <2>1, <3>2, <3>3, <3>4
  <2> QED BY <2>4, <2>5
<1>15. CASE Prune
  <2> DEFINE t == Tail(lock.todo)
             o == Head(lock.todo)
  <2>1. /\ Owed = {o} \cup Range(t) /\ o.op = "prune"
        /\ \/ Owed' = Range(t)
           \/ \E e \in Events, first \in {"manifest", "content"} :
                Owed' = PruneSet(e, first) \cup Range(t)
    BY <1>15, PruneFacts
  <2> HIDE DEF t, o
  <2>2. dir' = dir /\ cmd' = cmd
    BY <1>15 DEF Prune
  <2>3. \A e \in Events, first \in {"manifest", "content"} : \A p \in PruneSet(e, first) : ~Drops(p)
    BY DEF PruneSet, Op
  <2>4. (\E p \in Owed' : Drops(p)) => \E p \in Owed : Drops(p)
    BY <2>1, <2>3
  <2>5. (\E p \in Owed : p.op = "sensitive") => \E p \in Owed' : p.op = "sensitive"
    BY <2>1
  <2> QED BY <1>1, <2>2, <2>4, <2>5
<1> HIDE DEF Held
<1> QED BY <1>4, <1>5, <1>6, <1>7, <1>8, <1>9, <1>10, <1>11, <1>12, <1>13, <1>14, <1>15, Kinds

(* A flush of chunks that follow on a, makes the first of them due.        *)
LEMMA FlushCovers ==
  ASSUME NEW w \in Seq(Nat), NEW target \in Nat, NEW a \in Nat, \A i \in 1..Len(w) : w[i] = a + i
  PROVE  \E n \in 0..Len(w) :
           /\ Flush(w, target).pending \in Seq(Nat) /\ Len(Flush(w, target).pending) = Len(w) - n
           /\ \A i \in 1..(Len(w) - n) : Flush(w, target).pending[i] = (a + n) + i
           /\ Covers(Flush(w, target).due, a, a + n)
           /\ target = 0 => n = Len(w)
<1>1. Len(w) \in Nat /\ \A i \in 1..Len(w) : w[i] \in Nat
  OBVIOUS
<1>2. CASE Len(w) - target <= 0
  <2>1. Flush(w, target).pending = w /\ Flush(w, target).due = <<>>
    BY <1>2 DEF Flush
  <2>2. Covers(<<>>, a, a + 0)
    BY DEF Covers, InTurn, Waits
  <2>3. 0 \in 0..Len(w) /\ Len(w) = Len(w) - 0 /\ (target = 0 => 0 = Len(w)) /\ a + 0 = a
    BY <1>1, <1>2
  <2>4. \A i \in 1..(Len(w) - 0) : w[i] = (a + 0) + i
    BY <2>3
  <2> QED BY <2>1, <2>2, <2>3, <2>4
<1>3. CASE ~(Len(w) - target <= 0)
  <2> DEFINE n == Len(w) - target
             p == SubSeq(w, n + 1, Len(w))
             d == FlattenSeq([i \in 1..n |-> InEach(w[i])])
  <2>1. n \in Nat /\ n \in 0..Len(w) /\ n <= Len(w) /\ (target = 0 => n = Len(w))
    BY <1>1, <1>3
  <2>2. Flush(w, target).pending = p /\ Flush(w, target).due = d
    BY <1>3 DEF Flush
  <2> HIDE DEF n
  <2>3. \A i \in 1..n : w[i] = a + i
    BY <1>1, <2>1
  <2>4. Covers(d, a, a + n)
    BY <2>1, <2>3, DueCovers
  <2>5. p \in Seq(Nat) /\ Len(p) = Len(w) - n /\ \A i \in 1..(Len(w) - n) : p[i] = w[n + i]
    BY <1>1, <2>1
  <2>6. ASSUME NEW i \in 1..(Len(w) - n) PROVE p[i] = (a + n) + i
    <3>1. n + i \in 1..Len(w) /\ a + (n + i) = (a + n) + i
      BY <1>1, <2>1
    <3>2. w[n + i] = a + (n + i)
      BY <3>1
    <3> HIDE DEF p
    <3> QED BY <2>5, <3>1, <3>2
  <2> HIDE DEF p, d
  <2> QED BY <2>1, <2>2, <2>4, <2>5, <2>6
<1> QED BY <1>2, <1>3

(* The account stays even: a chunk moves from pending to due, and from due *)
(* to the stream, or the event is no longer whole.                         *)
LEMMA AccountStep ==
  ASSUME ArchiveInv, [Next]_vars
  PROVE  AccountInv'
<1> DEFINE Busy == cmd.pc \in {"start", "run", "end"}
           Some(s) == \E o \in Owed : o.op = "raw" /\ o.s = s
           Raw(s) == dir[Cmd].raw[s]
           Has(s) == HasRaw(s)
           Even == /\ Flushed \in Nat
                   /\ \A i \in DOMAIN cmd.pending : cmd.pending[i] = Flushed + i
                   /\ InTurn(cmd.due)
                   /\ \A s \in Streams : /\ Has(s) <= Flushed
                                         /\ \A x \in Nat : Waits(cmd.due, s, x) <=> Has(s) < x /\ x <= Flushed
           Held == (cmd'.pc = "end" => cmd'.pending = <<>>) /\ (Busy' /\ Whole' => Even')
<1>1. /\ ArchiveTypes /\ PhaseInv /\ cmd \in CmdSet /\ Cmd \in Events
      /\ \A o \in Owed : Rightly(o)
      /\ (cmd.pc = "end" => cmd.pending = <<>>) /\ (Busy /\ Whole => Even)
      /\ cmd.pc \in {"start", "run", "end", "done", "dead"}
      /\ cmd.read \in Nat /\ cmd.pending \in Seq(Nat) /\ cmd.due \in Seq(Streams \X Nat)
      /\ \A s \in Streams : Raw(s) \in Seq(Nat) /\ Len(Raw(s)) \in Nat
      /\ dir[Cmd].raw \in [Streams -> Seq(Nat)]
  <2>1. ArchiveTypes /\ PhaseInv /\ OwnerInv /\ AccountInv /\ Cmd \in Events
    BY DEF ArchiveInv, Events
  <2>2. dir[Cmd] \in DirSet
    BY <2>1 DEF ArchiveTypes
  <2>3. dir[Cmd].raw \in [Streams -> Seq(Nat)]
    BY <2>2 DEF DirSet, Contents
  <2> QED BY <2>1, <2>3 DEF OwnerInv, AccountInv, ArchiveTypes, CmdSet
<1>2. SUFFICES Held
  BY DEF AccountInv
<1>3. ASSUME cmd' = cmd, Busy /\ Whole' => Whole /\ \A s \in Streams : HasRaw(s)' = HasRaw(s)
      PROVE  Held
  <2> SUFFICES ASSUME Busy, Whole' PROVE Even'
    BY <1>1, <1>3
  <2>1. Even /\ Flushed' = Flushed /\ \A s \in Streams : HasRaw(s)' = HasRaw(s)
    BY <1>1, <1>3 DEF Flushed
  <2> QED BY <1>3, <2>1
<1>4. ASSUME cmd' = cmd, dir' = dir,
             \A o : o.op \in {"raw", "truncated"} => (o \in Owed' <=> o \in Owed)
      PROVE  Held
  <2>1. Whole' => Whole
    BY <1>4 DEF Whole
  <2>2. \A s \in Streams : Some(s)' <=> Some(s)
    BY <1>4
  <2>3. \A s \in Streams : HasRaw(s)' = HasRaw(s)
    BY <1>4, <2>2 DEF HasRaw
  <2> QED BY <1>3, <1>4, <2>1, <2>3
<1>5. ASSUME lock.by # "cmd" \/ lock.todo = <<>>
      PROVE  \A o \in Owed : o.op \notin CmdOps
  BY <1>1, <1>5, RangeNone DEF Rightly, Owed
<1>6. CASE LetsGo
  <2>1. Owed' = {} /\ dir' = dir
    BY <1>6, NothingOwed DEF LetsGo
  <2>2. CASE cmd' = cmd /\ (lock.by = "cmd" => lock.todo = <<>>)
    <3>1. \A o \in Owed : o.op \notin CmdOps
      BY <1>5, <2>2
    <3> QED BY <1>4, <2>1, <2>2, <3>1 DEF CmdOps
  <2>3. CASE cmd' = [cmd EXCEPT !.failed = TRUE, !.pc = IF dir[Cmd].man = "none" THEN "dead" ELSE @]
    <3>1. cmd'.failed /\ cmd'.pending = cmd.pending /\ cmd'.pc \in {"dead", cmd.pc}
      BY <1>1, <2>3 DEF CmdSet
    <3> QED BY <1>1, <3>1 DEF Whole
  <2>4. CASE cmd' = [cmd EXCEPT !.pc = "dead"]
    <3>1. cmd'.pc = "dead"
      BY <1>1, <2>4 DEF CmdSet
    <3> QED BY <3>1
  <2> QED BY <1>6, <2>2, <2>3, <2>4 DEF LetsGo
<1>7. CASE CmdMoves
  <2>1. dir' = dir /\ Owed' = Owed /\ lock.by # "cmd" /\ Busy
    BY <1>7 DEF CmdMoves, Owed
  <2>2. \A s \in Streams : HasRaw(s) = Len(Raw(s)) /\ HasRaw(s)' = HasRaw(s)
    <3>1. \A s \in Streams : ~Some(s) /\ ~Some(s)'
      BY <1>5, <2>1 DEF CmdOps
    <3>2. \A s \in Streams : Len(Raw(s)) + 0 = Len(Raw(s))
      <4>1. \A s \in Streams : Len(Raw(s)) \in Nat
        BY <1>1
      <4> QED BY <4>1
    <3>3. \A s \in Streams : HasRaw(s) = Len(Raw(s))
      BY <3>1, <3>2 DEF HasRaw
    <3>4. \A s \in Streams : HasRaw(s)' = Len(Raw(s)) + 0
      BY <2>1, <3>1 DEF HasRaw
    <3> QED BY <3>2, <3>3, <3>4
  <2>3. ASSUME cmd.due = <<>>, ~cmd.failed, ~cmd.secret, Whole', cmd'.read \in Nat,
               NEW w \in Seq(Nat), NEW target \in Nat,
               cmd.read <= cmd'.read, cmd'.read - Len(w) = Flushed,
               Even => \A i \in 1..Len(w) : w[i] = Flushed + i,
               cmd'.due = Flush(w, target).due,
               \/ cmd'.pending = Flush(w, target).pending
               \/ target = 0 /\ cmd'.pending = <<>>
        PROVE  Even'
    <3>1. Whole
      BY <2>1, <2>3 DEF Whole
    <3>2. Even
      BY <1>1, <2>1, <3>1
    <3>3. \A s \in Streams : HasRaw(s) = Flushed
      <4>1. \A s \in Streams, x \in Nat : ~Waits(cmd.due, s, x)
        BY <2>3 DEF Waits
      <4>2. \A s \in Streams : HasRaw(s) \in Nat
        BY <1>1, <2>2
      <4>3. /\ Flushed \in Nat
            /\ \A s \in Streams : HasRaw(s) <= Flushed
            /\ \A s \in Streams, x \in Nat : Waits(cmd.due, s, x) <=> HasRaw(s) < x /\ x <= Flushed
        BY <3>2
      <4> HIDE DEF Flushed, Even, Has
      <4>4. ASSUME NEW s \in Streams PROVE HasRaw(s) = Flushed
        <5>1. ~(HasRaw(s) < Flushed /\ Flushed <= Flushed)
          BY <4>1, <4>3
        <5> QED BY <4>2, <4>3, <5>1
      <4> QED BY <4>4
    <3> DEFINE a == Flushed
               f == Flush(w, target)
    <3>4. a \in Nat /\ \A i \in 1..Len(w) : w[i] = a + i
      BY <2>3, <3>2
    <3> HIDE DEF a
    <3>5. PICK n \in 0..Len(w) :
            /\ f.pending \in Seq(Nat) /\ Len(f.pending) = Len(w) - n
            /\ \A i \in 1..(Len(w) - n) : f.pending[i] = (a + n) + i
            /\ Covers(f.due, a, a + n)
            /\ target = 0 => n = Len(w)
      BY <3>4, FlushCovers
    <3> HIDE DEF f
    <3>6. Len(w) \in Nat /\ n \in Nat /\ a + n \in Nat
      BY <3>4
    <3>7. cmd'.pending \in Seq(Nat) /\ Len(cmd'.pending) = Len(w) - n
      <4>1. <<>> \in Seq(Nat) /\ Len(<<>>) = 0 /\ Len(w) - Len(w) = 0
        BY <3>6
      <4> QED BY <2>3, <3>5, <4>1 DEF f
    <3>8. \A i \in 1..(Len(w) - n) : cmd'.pending[i] = (a + n) + i
      <4>1. CASE cmd'.pending = f.pending
        BY <3>5, <4>1
      <4>2. CASE target = 0
        BY <3>5, <3>6, <4>2
      <4> QED BY <2>3, <4>1, <4>2 DEF f
    <3>9. Flushed' = a + n
      <4>1. Flushed' = cmd'.read - (Len(w) - n)
        BY <3>7 DEF Flushed
      <4>2. cmd'.read - Len(w) = a
        BY <2>3 DEF a
      <4> QED BY <2>3, <3>6, <4>1, <4>2
    <3>10. DOMAIN cmd'.pending = 1..(Len(w) - n)
      BY <3>7
    <3>11. InTurn(cmd'.due) /\ \A s \in Streams, x \in Nat : Waits(cmd'.due, s, x) <=> a < x /\ x <= a + n
      BY <2>3, <3>5 DEF Covers, f
    <3>12. \A s \in Streams : HasRaw(s)' = a /\ a <= a + n
      BY <2>2, <3>3, <3>4, <3>6 DEF a
    <3> QED BY <3>6, <3>8, <3>9, <3>10, <3>11, <3>12
  <2>4. CASE Emit
    <3>1. cmd.pc = "run" /\ cmd'.pc = "run"
      BY <1>1, <2>4 DEF Emit, CmdSet
    <3>2. CASE cmd.failed \/ cmd.secret
      <4>1. cmd' = [cmd EXCEPT !.read = cmd.read + 1]
        BY <2>4, <3>2 DEF Emit
      <4>2. cmd'.secret = cmd.secret /\ cmd'.failed = cmd.failed
        BY <1>1, <4>1 DEF CmdSet
      <4> QED BY <3>1, <3>2, <4>2 DEF Whole
    <3>3. CASE ~cmd.failed /\ ~cmd.secret
      <4> DEFINE w == Append(cmd.pending, cmd.read + 1)
                 target == IF Len(w) > High THEN Low ELSE Len(w)
      <4>1. cmd' = [cmd EXCEPT !.read = cmd.read + 1, !.pending = Flush(w, target).pending,
                               !.due = Flush(w, target).due] /\ cmd.due = <<>>
        BY <2>4, <3>3 DEF Emit, Quiet
      <4>2. /\ cmd'.read = cmd.read + 1 /\ cmd'.pending = Flush(w, target).pending
            /\ cmd'.due = Flush(w, target).due
        BY <1>1, <4>1 DEF CmdSet
      <4>3. w \in Seq(Nat) /\ Len(w) = Len(cmd.pending) + 1
            /\ \A i \in 1..Len(w) : w[i] = IF i <= Len(cmd.pending) THEN cmd.pending[i] ELSE cmd.read + 1
        BY <1>1
      <4>4. Len(w) \in Nat /\ target \in Nat
        BY <4>3, SizeAssumption
      <4>5. ASSUME Even PROVE \A i \in 1..Len(w) : w[i] = Flushed + i
        <5> TAKE i \in 1..Len(w)
        <5>1. Len(cmd.pending) \in Nat /\ Flushed = cmd.read - Len(cmd.pending)
          BY <1>1 DEF Flushed
        <5>2. CASE i <= Len(cmd.pending)
          <6>1. i \in DOMAIN cmd.pending
            BY <1>1, <5>1, <5>2
          <6>2. w[i] = cmd.pending[i]
            BY <4>3, <5>2
          <6> QED BY <4>5, <6>1, <6>2
        <5>3. CASE ~(i <= Len(cmd.pending))
          <6>1. i = Len(cmd.pending) + 1
            BY <4>3, <5>1, <5>3
          <6>2. w[i] = cmd.read + 1
            BY <4>3, <5>3
          <6> QED BY <1>1, <5>1, <6>1, <6>2
        <5> QED BY <5>2, <5>3
      <4> HIDE DEF w, target
      <4>6. cmd'.read - Len(w) = Flushed /\ cmd.read <= cmd'.read /\ cmd'.read \in Nat
        <5>1. Len(cmd.pending) \in Nat
          BY <1>1
        <5>2. (cmd.read + 1) - (Len(cmd.pending) + 1) = cmd.read - Len(cmd.pending)
          <6>1. cmd.read \in Nat
            BY <1>1
          <6> QED BY <5>1, <6>1
        <5>3. cmd.read + 1 \in Nat /\ cmd.read <= cmd.read + 1
          BY <1>1
        <5> QED BY <4>2, <4>3, <5>2, <5>3 DEF Flushed
      <4>7. Whole' => Even'
        BY <2>3, <3>3, <4>1, <4>2, <4>3, <4>4, <4>5, <4>6
      <4> QED BY <3>1, <4>7
    <3> QED BY <3>2, <3>3
  <2>5. CASE Exit
    <3>1. /\ cmd' = [cmd EXCEPT !.pc = "end", !.pending = <<>>, !.due = Flush(cmd.pending, 0).due]
          /\ cmd.due = <<>>
      BY <2>5 DEF Exit, Quiet
    <3>2. /\ cmd'.secret = cmd.secret /\ cmd'.failed = cmd.failed /\ cmd'.read = cmd.read
          /\ cmd'.pending = <<>> /\ cmd'.due = Flush(cmd.pending, 0).due
      BY <1>1, <3>1 DEF CmdSet
    <3>3. cmd'.read - Len(cmd.pending) = Flushed /\ cmd.read <= cmd'.read /\ cmd'.read \in Nat
      BY <1>1, <3>2 DEF Flushed
    <3>4. Even => \A i \in 1..Len(cmd.pending) : cmd.pending[i] = Flushed + i
      BY <1>1
    <3>5. Whole' => ~cmd.failed /\ ~cmd.secret
      BY <3>2 DEF Whole
    <3>6. Whole' => Even'
      BY <1>1, <2>3, <3>1, <3>2, <3>3, <3>4, <3>5
    <3> QED BY <3>2, <3>6
  <2>6. CASE StoreNot
    <3>1. cmd' = [cmd EXCEPT !.due = Tail(cmd.due)] /\ cmd.failed
      BY <2>6 DEF StoreNot, Skips
    <3>2. cmd'.failed /\ cmd'.pending = cmd.pending /\ cmd'.pc = cmd.pc
      BY <1>1, <3>1 DEF CmdSet
    <3> QED BY <1>1, <3>2 DEF Whole
  <2>7. CASE BusyCmd
    <3>1. \/ cmd' = [cmd EXCEPT !.pc = "dead"]
          \/ cmd' = [cmd EXCEPT !.failed = TRUE, !.due = Tail(cmd.due)]
          \/ cmd' = [cmd EXCEPT !.pc = "done"]
          \/ cmd' = [cmd EXCEPT !.read = cmd.read + 1, !.secret = TRUE, !.failed = TRUE, !.pending = <<>>]
      BY <2>7 DEF BusyCmd
    <3>2. \/ cmd'.pc \in {"dead", "done"}
          \/ cmd'.failed /\ cmd'.pc = cmd.pc /\ cmd'.pending \in {cmd.pending, <<>>}
      BY <1>1, <3>1 DEF CmdSet
    <3> QED BY <1>1, <3>2 DEF Whole
  <2>8. CASE CmdDies
    <3>1. cmd' = [cmd EXCEPT !.pc = "dead"]
      BY <2>8 DEF CmdDies
    <3>2. cmd'.pc = "dead"
      BY <1>1, <3>1 DEF CmdSet
    <3> QED BY <3>2
  <2> HIDE DEF Held
  <2> QED BY <1>7, <2>4, <2>5, <2>6, <2>7, <2>8 DEF CmdMoves
<1>8. CASE ColMoves
  BY <1>4, <1>8 DEF ColMoves, Owed
<1>9. CASE Begin
  <2>1. /\ cmd' = [cmd EXCEPT !.pc = "run"] /\ dir' = dir
        /\ cmd.read = 0 /\ cmd.pending = <<>> /\ cmd.due = <<>> /\ dir[Cmd] = NoDir
    BY <1>1, <1>9 DEF Begin, PhaseInv
  <2>2. cmd'.pc = "run" /\ cmd'.read = 0 /\ cmd'.pending = <<>> /\ cmd'.due = <<>>
    BY <1>1, <2>1 DEF CmdSet
  <2>3. \A o \in Owed' : o.op # "raw"
    BY <1>9, BeginPlan DEF IsPlan, Owed, Op
  <2>4. \A s \in Streams : HasRaw(s)' = 0
    <3>1. \A s \in Streams : dir'[Cmd].raw[s] = <<>>
      BY <2>1 DEF NoDir, Nothing
    <3>2. \A s \in Streams : ~Some(s)'
      BY <2>3
    <3>3. Len(<<>>) = 0
      OBVIOUS
    <3>4. \A s \in Streams : HasRaw(s)' = 0 + 0
      BY <3>1, <3>2, <3>3 DEF HasRaw
    <3> QED BY <3>4
  <2>5. Flushed' = 0
    <3>1. Len(<<>>) = 0 /\ 0 - 0 = 0
      OBVIOUS
    <3> QED BY <2>2, <3>1 DEF Flushed
  <2> QED BY <2>2, <2>4, <2>5 DEF InTurn, Waits
<1>10. CASE Drop
  <2>1. cmd' = [cmd EXCEPT !.read = cmd.read + 1, !.secret = TRUE, !.pending = <<>>] /\ cmd.pc = "run"
    BY <1>10 DEF Drop
  <2>2. cmd'.secret /\ cmd'.pc = "run"
    BY <1>1, <2>1 DEF CmdSet
  <2> QED BY <2>2 DEF Whole
<1>11. CASE Store
  <2>1. cmd' = [cmd EXCEPT !.due = Tail(cmd.due)] /\ dir' = dir /\ Running /\ ~cmd.failed /\ cmd.due # <<>>
    BY <1>11 DEF Store, Skips
  <2>2. /\ cmd'.read = cmd.read /\ cmd'.pending = cmd.pending /\ cmd'.pc = cmd.pc
        /\ cmd'.failed = cmd.failed /\ cmd'.secret = cmd.secret /\ cmd'.due = Tail(cmd.due)
    BY <1>1, <2>1 DEF CmdSet
  <2>3. PICK s \in Streams, x \in Nat :
          /\ Owed = {} /\ Head(cmd.due) = <<s, x>>
          /\ \/ Owed' = {Op("truncated", Cmd)}
             \/ dir[Cmd].gap = "truncated"
             \/ dir[Cmd].gap # "truncated" /\ Owed' = Writes(s, x)
    BY <1>11, StorePlan DEF IsPlan, Owed, Free
  <2>4. CASE Owed' = {Op("truncated", Cmd)} \/ dir[Cmd].gap = "truncated"
    <3>1. Op("truncated", Cmd) \in {Op("truncated", Cmd)} /\ Op("truncated", Cmd).op = "truncated"
      BY DEF Op
    <3>2. dir[Cmd].gap = "truncated" => dir'[Cmd].gap # "no"
      BY <2>1
    <3>3. ~Whole'
      BY <2>4, <3>1, <3>2 DEF Whole
    <3> QED BY <1>1, <2>2, <3>3
  <2>5. CASE dir[Cmd].gap # "truncated" /\ Owed' = Writes(s, x)
    <3>1. /\ Whole /\ x = Len(Raw(s)) + 1 /\ x <= Flushed
      BY <2>1, <2>3, <2>5, StoreFacts
    <3>2. Even
      BY <1>1, <2>1, <3>1 DEF Running
    <3>3. \A r \in Streams : HasRaw(r) = Len(Raw(r))
      BY <2>3 DEF HasRaw
    <3>4. \A r \in Streams : HasRaw(r)' = Len(Raw(r)) + IF r = s THEN 1 ELSE 0
      <4>1. \A r : (\E o \in Writes(s, x) : o.op = "raw" /\ o.s = r) <=> r = s
        BY DEF Writes, File
      <4> QED BY <2>1, <2>5, <4>1 DEF HasRaw
    <3>5. /\ InTurn(Tail(cmd.due))
          /\ \A r \in Streams, y \in Nat :
               Waits(Tail(cmd.due), r, y) <=> Waits(cmd.due, r, y) /\ ~(r = s /\ y = x)
      <4>1. cmd.due \in Seq(Streams \X Nat) /\ cmd.due # <<>> /\ InTurn(cmd.due) /\ Head(cmd.due) = <<s, x>>
        BY <1>1, <2>1, <2>3, <3>2
      <4> HIDE DEF Even
      <4> QED BY <4>1, TailDue
    <3>6. Flushed' = Flushed /\ Flushed \in Nat
      BY <2>2, <3>2 DEF Flushed
    <3>7. ASSUME NEW r \in Streams
          PROVE  /\ HasRaw(r)' <= Flushed
                 /\ \A y \in Nat : Waits(cmd'.due, r, y) <=> HasRaw(r)' < y /\ y <= Flushed
      <4>1. Len(Raw(r)) \in Nat /\ Len(Raw(r)) <= Flushed
        BY <1>1, <3>2, <3>3
      <4>2. \A y \in Nat : Waits(cmd.due, r, y) <=> Len(Raw(r)) < y /\ y <= Flushed
        BY <3>2, <3>3
      <4>3. CASE r = s
        <5>1. HasRaw(r)' = x /\ x = Len(Raw(r)) + 1
          BY <3>1, <3>4, <4>3
        <5>2. \A y \in Nat : Waits(cmd'.due, r, y) <=> Waits(cmd.due, r, y) /\ y # x
          BY <2>2, <3>5, <4>3
        <5>3. \A y \in Nat : Len(Raw(r)) < y /\ y # x <=> x < y
          BY <4>1, <5>1
        <5> QED BY <3>1, <4>2, <5>1, <5>2, <5>3
      <4>4. CASE r # s
        <5>1. HasRaw(r)' = Len(Raw(r))
          <6>1. Len(Raw(r)) + 0 = Len(Raw(r))
            BY <4>1
          <6> QED BY <3>4, <4>4, <6>1
        <5>2. \A y \in Nat : Waits(cmd'.due, r, y) <=> Waits(cmd.due, r, y)
          BY <2>2, <3>5, <4>4
        <5> QED BY <4>1, <4>2, <5>1, <5>2
      <4> QED BY <4>3, <4>4
    <3>8. \A i \in DOMAIN cmd'.pending : cmd'.pending[i] = Flushed' + i
      BY <2>2, <3>2, <3>6
    <3>9. Even'
      BY <2>2, <3>5, <3>6, <3>7, <3>8
    <3> QED BY <1>1, <2>2, <3>9
  <2> QED BY <2>3, <2>4, <2>5
<1>12. CASE FinishCmd
  <2>1. cmd' = [cmd EXCEPT !.pc = "done"]
    BY <1>12 DEF FinishCmd
  <2>2. cmd'.pc = "done"
    BY <1>1, <2>1 DEF CmdSet
  <2> QED BY <2>2
<1>13. ASSUME NEW c \in Collectors, Record(c) PROVE Held
  <2>1. Owed = {} /\ \A o \in Owed' : o.op \notin {"raw", "truncated"}
    BY <1>13, RecordPlan DEF IsPlan, Owed, Op, Free
  <2> QED BY <1>4, <1>13, <2>1 DEF Record
<1>14. CASE Recover
  <2>1. Owed = {} /\ Owed' = {}
    BY <1>14, RecoverPlan DEF IsPlan, Owed, Free
  <2> QED BY <1>4, <1>14, <2>1 DEF Recover
<1>15. CASE RecoverNext
  <2>1. Owed = {} /\ dir' = dir /\ cmd' = cmd
    BY <1>15, RepairFacts
  <2>2. \A o \in Owed' : o.op \notin {"raw", "truncated"}
    BY <1>15, RepairNames DEF TrimNames
  <2> QED BY <1>4, <2>1, <2>2
<1>16. CASE Step
  <2> DEFINE o == Head(lock.todo)
  <2>1. /\ o \in OpSet /\ o.op # "prune" /\ o.ev \in Events /\ Owed = {o} \cup Owed'
        /\ \A p \in Owed' : Before(o, p)
        /\ dir'[o.ev] = After(o) /\ \A e \in Events : e # o.ev => dir'[e] = dir[e]
        /\ cmd' = cmd
    BY <1>16, StepFacts
  <2>2. After(o).gap = GapAfter(o) /\ After(o).raw = RawAfter(o)
    BY <1>1, <2>1, AfterFacts
  <2>3. Rightly(o) /\ o.op \in OpNames
    BY <1>1, <2>1 DEF OpSet
  <2> HIDE DEF o
  <2>4. \A p \in Owed' : p.op # "raw"
    BY <2>1 DEF Before
  <2> SUFFICES ASSUME Busy, Whole' PROVE Whole /\ \A s \in Streams : HasRaw(s)' = HasRaw(s)
    BY <1>3, <2>1
  <2>5. CASE o.ev # Cmd
    <3>1. o.op \notin CmdOps /\ dir'[Cmd] = dir[Cmd]
      BY <1>1, <2>1, <2>3, <2>5 DEF Rightly
    <3>2. Whole
      BY <2>1, <3>1 DEF Whole, CmdOps
    <3>3. \A s \in Streams : HasRaw(s)' = HasRaw(s)
      BY <2>1, <3>1 DEF HasRaw, CmdOps
    <3> QED BY <3>2, <3>3
  <2>6. CASE o.ev = Cmd
    <3>1. dir'[Cmd].gap = GapAfter(o) /\ dir'[Cmd].raw = RawAfter(o)
      BY <2>1, <2>2, <2>6
    <3>2. o.op \in CmdOps
      BY <2>1, <2>3, <2>6 DEF Rightly
    <3>3. o.op = "begin" => dir[Cmd] = NoDir
      BY <1>1, <2>1 DEF PhaseInv
    <3>4. o.op # "erase"
      BY <2>1 DEF ArchiveInv, SecretInv, Whole
    <3>5. o.op \notin {"truncated", "sensitive"}
      BY <3>1 DEF GapAfter, Whole
    <3>6. o.op \in {"begin", "raw", "timing"}
      BY <3>2, <3>4, <3>5 DEF CmdOps
    <3>7. dir[Cmd].gap = "no"
      BY <2>6, <3>1, <3>3, <3>6 DEF GapAfter, Whole, NoDir
    <3>8. Whole
      BY <2>1, <3>6, <3>7 DEF Whole
    <3>9. CASE o.op = "raw"
      <4>1. o.s \in Streams /\ o.what = <<Len(Raw(o.s)) + 1>>
        BY <2>1, <3>9 DEF ArchiveInv, ContentInv
      <4>2. RawAfter(o) = [dir[Cmd].raw EXCEPT ![o.s] = @ \o o.what]
        BY <2>6, <3>9 DEF RawAfter
      <4>3. ASSUME NEW s \in Streams PROVE HasRaw(s)' = HasRaw(s)
        <5>1. HasRaw(s)' = Len(RawAfter(o)[s])
          <6>1. Len(RawAfter(o)[s]) \in Nat
            <7>1. Len(Raw(o.s)) + 1 \in Nat
              BY <1>1, <4>1
            <7>2. Raw(o.s) \o o.what \in Seq(Nat)
              BY <1>1, <4>1, <7>1
            <7>3. RawAfter(o)[s] = IF s = o.s THEN Raw(o.s) \o o.what ELSE Raw(s)
              BY <1>1, <4>1, <4>2
            <7>4. RawAfter(o)[s] \in Seq(Nat)
              BY <1>1, <7>2, <7>3
            <7> QED BY <7>4
          <6>2. ~Some(s)'
            BY <2>4
          <6> QED BY <3>1, <6>1, <6>2 DEF HasRaw
        <5>2. HasRaw(s) = Len(Raw(s)) + IF s = o.s THEN 1 ELSE 0
          <6>1. (\E p \in Owed : p.op = "raw" /\ p.s = s) <=> s = o.s
            BY <2>1, <2>4, <3>9
          <6> QED BY <6>1 DEF HasRaw
        <5>3. CASE s = o.s
          <6>1. RawAfter(o)[s] = Raw(s) \o <<Len(Raw(s)) + 1>>
            BY <1>1, <4>1, <4>2, <5>3
          <6>2. Len(Raw(s) \o <<Len(Raw(s)) + 1>>) = Len(Raw(s)) + 1
            BY <1>1
          <6> QED BY <5>1, <5>2, <5>3, <6>1, <6>2
        <5>4. CASE s # o.s
          <6>1. RawAfter(o)[s] = Raw(s)
            BY <1>1, <4>1, <4>2, <5>4
          <6> QED BY <1>1, <5>1, <5>2, <5>4, <6>1
        <5> QED BY <5>3, <5>4
      <4> QED BY <3>8, <4>3
    <3>10. CASE o.op # "raw"
      <4>1. RawAfter(o) = dir[Cmd].raw
        BY <2>6, <3>3, <3>6, <3>10 DEF RawAfter, NoDir
      <4>2. \A p \in Owed : p.op # "raw"
        BY <2>1, <2>4, <3>10
      <4>3. \A s \in Streams : HasRaw(s)' = HasRaw(s)
        BY <2>4, <3>1, <4>1, <4>2 DEF HasRaw
      <4> QED BY <3>8, <4>3
    <3> QED BY <3>9, <3>10
  <2> QED BY <2>5, <2>6
<1>17. CASE Prune
  <2> DEFINE t == Tail(lock.todo)
             o == Head(lock.todo)
  <2>1. /\ Owed = {o} \cup Range(t) /\ o.op = "prune"
        /\ \/ Owed' = Range(t)
           \/ \E e \in Events, first \in {"manifest", "content"} :
                Owed' = PruneSet(e, first) \cup Range(t)
    BY <1>17, PruneFacts
  <2> HIDE DEF t, o
  <2>2. dir' = dir /\ cmd' = cmd
    BY <1>17 DEF Prune
  <2>3. \A e \in Events, first \in {"manifest", "content"} :
          \A p \in PruneSet(e, first) : p.op \notin {"raw", "truncated"}
    BY DEF PruneSet, Op
  <2>4. \A p : p.op \in {"raw", "truncated"} => (p \in Owed' <=> p \in Owed)
    BY <2>1, <2>3
  <2> QED BY <1>4, <2>2, <2>4
<1> HIDE DEF Held
<1> QED BY <1>6, <1>7, <1>8, <1>9, <1>10, <1>11, <1>12, <1>13, <1>14, <1>15, <1>16, <1>17, Kinds

(* The adapter ends when nothing is pending or due, so that what it seals  *)
(* without a gap is everything.                                            *)
LEMMA SealStep ==
  ASSUME ArchiveInv, [Next]_vars
  PROVE  SealInv'
<1> DEFINE Names(o) == o.op \in {"frames", "complete"} /\ o.ev = Cmd
           Framed == \E p \in OwedOf(Cmd) : p.op = "frames"
           Full(s) == IF Framed THEN Len(dir[Cmd].raw[s]) = cmd.read ELSE Len(dir[Cmd].zst[s]) = cmd.read
           Sealing == \E o \in OwedOf(Cmd) : o.op = "complete"
           Owes == Sealing /\ ~cmd.failed /\ dir[Cmd].gap = "no" => \A s \in Streams : Full(s)
           Has  == dir[Cmd].man = "complete" /\ dir[Cmd].gap = "no" =>
                     \A s \in Streams : Len(dir[Cmd].files[s]) = cmd.read
           Busy == cmd.pc \in {"start", "run", "end"}
           Held == Owes' /\ Has'
<1>1. /\ ArchiveTypes /\ PhaseInv /\ cmd \in CmdSet /\ Cmd \in Events
      /\ \A o \in Owed : Rightly(o)
      /\ Owes /\ Has
      /\ Busy => dir[Cmd].man # "complete"
      /\ Busy => \A o \in Owed : ~Names(o)
  <2>1. ArchiveTypes /\ PhaseInv /\ OwnerInv /\ SealInv /\ Cmd \in Events
    BY DEF ArchiveInv, Events
  <2>2. Owes /\ Has
    BY <2>1 DEF SealInv
  <2>3. Busy => dir[Cmd].man # "complete"
    BY <2>1 DEF PhaseInv, Sealed
  <2>4. Busy => \A o \in Owed : ~Names(o)
    BY <2>1 DEF OwnerInv, Rightly, CmdOps
  <2> QED BY <2>1, <2>2, <2>3, <2>4 DEF OwnerInv, ArchiveTypes, CmdSet
<1>2. SUFFICES Held
  BY DEF SealInv
<1>3. ASSUME dir' = dir, cmd'.read = cmd.read, cmd'.failed = cmd.failed,
             \A o : Names(o) => (o \in Owed' <=> o \in Owed)
      PROVE  Held
  <2>1. (Sealing' <=> Sealing) /\ (Framed' <=> Framed)
    BY <1>3 DEF OwedOf
  <2>2. \A s \in Streams : Full(s)' <=> Full(s)
    BY <1>3, <2>1
  <2> HIDE DEF Sealing, Framed, Full
  <2> QED BY <1>1, <1>3, <2>1, <2>2
<1>4. ASSUME dir' = dir, cmd'.read = cmd.read \/ Busy, \A o \in Owed' : ~Names(o)
      PROVE  Held
  <2>1. ~Sealing'
    BY <1>4 DEF OwedOf
  <2> QED BY <1>1, <1>4, <2>1
<1>5. CASE LetsGo
  <2>1. Owed' = {} /\ dir' = dir
    BY <1>5, NothingOwed DEF LetsGo
  <2>2. cmd'.read = cmd.read
    BY <1>1, <1>5 DEF LetsGo, CmdSet
  <2> QED BY <1>4, <2>1, <2>2
<1>6. CASE CmdMoves
  BY <1>1, <1>4, <1>6 DEF CmdMoves, Owed
<1>7. CASE ColMoves
  BY <1>3, <1>7 DEF ColMoves, Owed
<1>8. CASE Begin
  <2>1. Busy /\ dir' = dir
    BY <1>8 DEF Begin
  <2>2. \A o \in Owed' : ~Names(o)
    BY <1>8, BeginPlan DEF IsPlan, Owed, Op
  <2> QED BY <1>4, <2>1, <2>2
<1>9. CASE Drop
  <2>1. Busy /\ dir' = dir
    BY <1>9 DEF Drop
  <2>2. \A o \in Owed' : ~Names(o)
    BY <1>9, DropPlan DEF IsPlan, Owed, Op
  <2> QED BY <1>4, <2>1, <2>2
<1>10. CASE Store
  <2>1. Busy /\ dir' = dir
    BY <1>10 DEF Store, Running
  <2>2. \A o \in Owed' : ~Names(o)
    BY <1>10, StorePlan DEF IsPlan, Owed, Op, Writes, File
  <2> QED BY <1>4, <2>1, <2>2
<1>11. CASE FinishCmd
  <2>1. /\ cmd' = [cmd EXCEPT !.pc = "done"] /\ dir' = dir
        /\ cmd.pc = "end" /\ cmd.due = <<>>
    BY <1>11 DEF FinishCmd, Quiet
  <2>2. cmd'.read = cmd.read /\ cmd'.failed = cmd.failed
    BY <1>1, <2>1 DEF CmdSet
  <2>3. /\ Owed = {}
        /\ Owed' = {Op("frames", Cmd), Op("complete", Cmd), Op("unlink", Cmd), Op("index", Cmd), Op("prune", Cmd)}
    BY <1>11, FinishPlan DEF IsPlan, Owed, Free
  <2>4. Framed'
    <3>1. /\ Op("frames", Cmd) \in Owed' /\ Op("frames", Cmd).ev = Cmd
          /\ Op("frames", Cmd).op = "frames"
      BY <2>3 DEF Op
    <3> QED BY <3>1 DEF OwedOf
  <2>5. ASSUME ~cmd.failed, dir[Cmd].gap = "no", NEW s \in Streams
        PROVE  Len(dir[Cmd].raw[s]) = cmd.read
    <3>1. ~cmd.secret
      BY <2>1, <2>3, <2>5 DEF ArchiveInv, SecretInv
    <3>2. Whole
      BY <2>3, <2>5, <3>1 DEF Whole
    <3>3. /\ Flushed \in Nat /\ cmd.pending = <<>> /\ HasRaw(s) <= Flushed
          /\ \A x \in Nat : Waits(cmd.due, s, x) <=> HasRaw(s) < x /\ x <= Flushed
      BY <2>1, <3>2 DEF ArchiveInv, AccountInv
    <3>4. Len(<<>>) = 0 /\ cmd.read \in Nat
      BY <1>1 DEF CmdSet
    <3>5. cmd.read - 0 = cmd.read
      BY <3>4
    <3>6. Flushed = cmd.read
      BY <3>3, <3>4, <3>5 DEF Flushed
    <3>7. Len(dir[Cmd].raw[s]) \in Nat
      <4>1. dir[Cmd].raw \in [Streams -> Seq(Nat)]
        BY <1>1 DEF ArchiveTypes, DirSet, Contents
      <4>2. dir[Cmd].raw[s] \in Seq(Nat)
        BY <4>1
      <4> QED BY <4>2
    <3>8. HasRaw(s) = Len(dir[Cmd].raw[s])
      <4>1. Len(dir[Cmd].raw[s]) + 0 = Len(dir[Cmd].raw[s])
        BY <3>7
      <4> QED BY <2>3, <4>1 DEF HasRaw
    <3>9. \A x \in Nat : ~Waits(cmd.due, s, x)
      BY <2>1 DEF Waits
    <3> QED BY <3>3, <3>6, <3>7, <3>8, <3>9
  <2>6. Owes'
    BY <2>1, <2>2, <2>4, <2>5
  <2>7. Has'
    BY <1>1, <2>1
  <2> QED BY <2>6, <2>7
<1>12. ASSUME NEW c \in Collectors, Record(c) PROVE Held
  <2>1. \A o \in Owed' : ~Names(o)
    BY <1>12, RecordPlan DEF IsPlan, Owed, Op
  <2> QED BY <1>4, <1>12, <2>1 DEF Record
<1>13. CASE Recover
  <2>1. Owed' = {}
    BY <1>13, RecoverPlan DEF IsPlan, Owed
  <2> QED BY <1>4, <1>13, <2>1 DEF Recover
<1>14. CASE RecoverNext
  <2>1. Owed = {} /\ dir' = dir /\ cmd' = cmd
    BY <1>14, RepairFacts
  <2>2. \A o \in Owed' : o.op # "complete"
    BY <1>14, RepairNames DEF TrimNames
  <2>3. ~Sealing'
    BY <2>2 DEF OwedOf
  <2> QED BY <1>1, <2>1, <2>3
<1>15. CASE Step
  <2> DEFINE o == Head(lock.todo)
  <2>1. /\ o \in OpSet /\ o.op # "prune" /\ o.ev \in Events /\ Owed = {o} \cup Owed'
        /\ \A p \in Owed' : Before(o, p)
        /\ dir'[o.ev] = After(o) /\ \A e \in Events : e # o.ev => dir'[e] = dir[e]
        /\ cmd' = cmd
    BY <1>15, StepFacts
  <2>2. /\ After(o).man = ManAfter(o) /\ After(o).gap = GapAfter(o)
        /\ After(o).zst = ZstAfter(o) /\ After(o).files = FilesAfter(o)
    BY <1>1, <2>1, AfterFacts
  <2> HIDE DEF o
  <2>3. CASE o.ev # Cmd
    <3>1. OwedOf(Cmd)' = OwedOf(Cmd) /\ dir'[Cmd] = dir[Cmd]
      BY <1>1, <2>1, <2>3 DEF OwedOf
    <3>2. (Sealing' <=> Sealing) /\ (Framed' <=> Framed)
      BY <3>1
    <3>3. \A s \in Streams : Full(s)' <=> Full(s)
      BY <2>1, <3>1, <3>2
    <3> HIDE DEF Sealing, Framed, Full
    <3> QED BY <1>1, <2>1, <3>1, <3>2, <3>3
  <2>4. CASE o.ev = Cmd
    <3>1. /\ dir'[Cmd].man = ManAfter(o) /\ dir'[Cmd].gap = GapAfter(o)
          /\ dir'[Cmd].zst = ZstAfter(o) /\ dir'[Cmd].files = FilesAfter(o)
      BY <2>1, <2>2, <2>4
    <3>2. Owes'
      <4> SUFFICES ASSUME Sealing', ~cmd'.failed, dir'[Cmd].gap = "no", NEW s \in Streams
                   PROVE  Full(s)'
        OBVIOUS
      <4>1. PICK q \in Owed' : q.ev = Cmd /\ q.op = "complete"
        BY DEF OwedOf
      <4>2. o.op = "frames"
        BY <2>1, <4>1 DEF Before
      <4>3. Sealing /\ Framed
        BY <2>1, <2>4, <4>1, <4>2 DEF OwedOf
      <4>4. dir[Cmd].gap = "no"
        BY <2>4, <3>1, <4>2 DEF GapAfter
      <4>5. Len(dir[Cmd].raw[s]) = cmd.read
        BY <1>1, <2>1, <4>3, <4>4
      <4>6. ~Framed'
        BY <2>1, <4>2 DEF OwedOf, Before
      <4>7. dir'[Cmd].zst = dir[Cmd].raw
        BY <2>4, <3>1, <4>2 DEF ZstAfter
      <4> QED BY <2>1, <4>5, <4>6, <4>7
    <3>3. Has'
      <4> SUFFICES ASSUME dir'[Cmd].man = "complete", dir'[Cmd].gap = "no", NEW s \in Streams
                   PROVE  Len(dir'[Cmd].files[s]) = cmd'.read
        OBVIOUS
      <4>1. CASE o.op = "complete"
        <5>1. dir[Cmd].gap = "no" /\ ~cmd.failed
          BY <2>4, <3>1, <4>1 DEF GapAfter
        <5>2. Sealing /\ ~Framed
          BY <2>1, <2>4, <4>1 DEF OwedOf, Before, Ends
        <5>3. Len(dir[Cmd].zst[s]) = cmd.read
          BY <1>1, <5>1, <5>2
        <5>4. dir'[Cmd].files = dir[Cmd].zst
          BY <2>4, <3>1, <4>1 DEF FilesAfter, Ends
        <5> QED BY <2>1, <5>3, <5>4
      <4>2. CASE o.op # "complete"
        <5>1. dir[Cmd].man = "complete" /\ o.op \notin {"begin", "interrupted", "manifest", "remove"}
          BY <2>4, <3>1, <4>2 DEF ManAfter, Ends
        <5>2. dir[Cmd].gap = "no" /\ dir'[Cmd].files = dir[Cmd].files
          BY <2>4, <3>1, <4>2, <5>1 DEF GapAfter, FilesAfter, Ends
        <5> QED BY <1>1, <2>1, <5>1, <5>2
      <4> QED BY <4>1, <4>2
    <3> HIDE DEF Owes, Has
    <3> QED BY <3>2, <3>3
  <2> QED BY <2>3, <2>4
<1>16. CASE Prune
  <2> DEFINE t == Tail(lock.todo)
             o == Head(lock.todo)
  <2>1. /\ Owed = {o} \cup Range(t) /\ o.op = "prune"
        /\ \/ Owed' = Range(t)
           \/ \E e \in Events, first \in {"manifest", "content"} :
                Owed' = PruneSet(e, first) \cup Range(t)
    BY <1>16, PruneFacts
  <2> HIDE DEF t, o
  <2>2. dir' = dir /\ cmd' = cmd
    BY <1>16 DEF Prune
  <2>3. \A e \in Events, first \in {"manifest", "content"} : \A p \in PruneSet(e, first) : ~Names(p)
    BY DEF PruneSet, Op
  <2>4. \A p : Names(p) => (p \in Owed' <=> p \in Owed)
    BY <2>1, <2>3
  <2> QED BY <1>3, <2>2, <2>4
<1> HIDE DEF Held
<1> QED BY <1>5, <1>6, <1>7, <1>8, <1>9, <1>10, <1>11, <1>12, <1>13, <1>14, <1>15, <1>16, Kinds

-----------------------------------------------------------------------------
(* The theorems.                                                           *)

(* Nothing is archived yet.                                                *)
LEMMA InitInv ==
  ASSUME Init
  PROVE  ArchiveInv
<1>1. ArchiveTypes
  BY InitTypes
<1>2. /\ \A e \in Events : dir[e] = NoDir
      /\ index = {} /\ lock.by = "nobody" /\ lock.todo = <<>> /\ Owed = {}
      /\ cmd = [pc |-> "start", read |-> 0, pending |-> <<>>, due |-> <<>>, failed |-> FALSE, secret |-> FALSE]
      /\ \A c \in Collectors : col[c].pc = "idle"
      /\ rec.pc = "idle" /\ cursor = 0 /\ written = 0 /\ Cmd \in Events
  BY RangeNone DEF Init, Unlocked, Idle, Owed, Events
<1>3. NoDir.man = "none" /\ NoDir.gap = "no" /\ \A s \in Streams : NoDir.raw[s] = <<>> /\ NoDir.zst[s] = <<>> /\ NoDir.files[s] = <<>>
  BY DEF NoDir, Nothing
<1>4. Len(<<>>) = 0 /\ 0 + 0 = 0 /\ 0 - 0 = 0 /\ DOMAIN <<>> = {}
  OBVIOUS
<1>5. Ordered(lock.todo)
  BY <1>2 DEF Ordered
<1>6. OwnerInv /\ PhaseInv /\ RowInv /\ ScanInv
  BY <1>2, <1>3 DEF OwnerInv, PhaseInv, RowInv, ScanInv, RowsHaveOriginals, Sealed
<1>7. PassInv
  BY <1>2, <1>3 DEF PassInv, NothingPassed
<1>8. ContentInv
  <2>1. Begins(<<>>)
    BY <1>2, <1>4 DEF Begins
  <2> QED BY <1>2, <1>3, <2>1 DEF ContentInv
<1>9. AccountInv
  <2>1. Flushed = 0
    BY <1>2, <1>4 DEF Flushed
  <2>2. \A s \in Streams : HasRaw(s) = 0
    <3>1. \A s \in Streams : Len(dir[Cmd].raw[s]) = 0
      BY <1>2, <1>3, <1>4
    <3> QED BY <1>2, <1>4, <3>1 DEF HasRaw
  <2>3. \A s \in Streams, x \in Nat : ~Waits(cmd.due, s, x)
    BY <1>2 DEF Waits
  <2>4. InTurn(cmd.due) /\ \A i \in DOMAIN cmd.pending : cmd.pending[i] = Flushed + i
    BY <1>2, <1>4 DEF InTurn
  <2> QED BY <1>2, <2>1, <2>2, <2>3, <2>4 DEF AccountInv
<1>10. SecretInv /\ SealInv
  BY <1>2, <1>3 DEF SecretInv, SealInv, OwedOf
<1> QED BY <1>1, <1>5, <1>6, <1>7, <1>8, <1>9, <1>10 DEF ArchiveInv

(* Every step keeps the invariant.                                         *)
LEMMA ArchiveStep ==
  ASSUME ArchiveInv, [Next]_vars
  PROVE  ArchiveInv'
BY TypesStep, OrderStep, OwnerStep, PhaseStep, RowStep, PassStep, ScanStep, ContentStep,
   AccountStep, SecretStep, SealStep DEF ArchiveInv

(* The invariant holds of every behaviour.                                 *)
THEOREM ArchiveInvariant == Spec => []ArchiveInv
<1>1. Init => ArchiveInv
  BY InitInv
<1>2. ArchiveInv /\ [Next]_vars => ArchiveInv'
  BY ArchiveStep
<1> QED BY <1>1, <1>2, PTL DEF Spec

(* What begins the output is a prefix of it.                               *)
LEMMA BeginsIsPrefix ==
  ASSUME ArchiveTypes, NEW x \in Seq(Nat), Begins(x)
  PROVE  IsPrefix(x, [i \in 1..cmd.read |-> i])
<1> DEFINE t == [i \in 1..cmd.read |-> i]
<1>1. cmd.read \in Nat /\ Len(x) \in Nat /\ Len(x) <= cmd.read /\ \A i \in 1..Len(x) : x[i] = i
  BY DEF Begins, ArchiveTypes
<1>2. t \in Seq(Nat) /\ Len(t) = cmd.read /\ \A i \in 1..cmd.read : t[i] = i
  BY <1>1
<1> HIDE DEF t
<1>3. SubSeq(t, 1, Len(x)) \in Seq(Nat) /\ Len(SubSeq(t, 1, Len(x))) = Len(x)
      /\ \A i \in 1..Len(x) : SubSeq(t, 1, Len(x))[i] = t[i]
  BY <1>1, <1>2
<1>4. \A i \in 1..Len(x) : SubSeq(t, 1, Len(x))[i] = x[i]
  BY <1>1, <1>2, <1>3
<1>5. SubSeq(t, 1, Len(x)) = x
  <2> DEFINE u == SubSeq(t, 1, Len(x))
  <2>1. u \in Seq(Nat) /\ Len(u) = Len(x) /\ \A i \in 1..Len(x) : u[i] = x[i]
    BY <1>3, <1>4
  <2> HIDE DEF u
  <2>2. u = x
    BY <2>1, SeqEqual
  <2> QED BY <2>2 DEF u
<1> QED BY <1>1, <1>2, <1>5 DEF IsPrefix, t

(* What the invariant says of the archive.                                 *)
LEMMA ArchiveTold == ASSUME ArchiveInv PROVE TypeOK /\ ExecutionArchiveIsTrue
<1> SUFFICES TypeOK /\ (RowsHaveOriginals /\ NothingPassed /\ SealedIsFaithful /\ RecoveryIndexesAll)
  BY DEF ExecutionArchiveIsTrue
<1>1. TypeOK
  <2>1. ArchiveTypes /\ cursor <= written
    BY DEF ArchiveInv, PassInv
  <2>2. Range(order) \subseteq Events
    BY <2>1 DEF ArchiveTypes, Range
  <2>3. \A e \in Events : dir[e].man \in {"none", "active", "complete", "interrupted"}
    BY <2>1 DEF ArchiveTypes, DirSet
  <2>4. cursor \in 0..written
    BY <2>1, BoundAssumption DEF ArchiveTypes
  <2> QED BY <2>1, <2>2, <2>3, <2>4 DEF TypeOK, ArchiveTypes
<1>2. RowsHaveOriginals /\ NothingPassed
  BY DEF ArchiveInv, RowInv, PassInv
<1>3. SealedIsFaithful
  <2>1. ArchiveTypes /\ \A s \in Streams : Begins(dir[Cmd].files[s]) /\ dir[Cmd].files[s] \in Seq(Nat)
    BY DEF ArchiveInv, ContentInv, ArchiveTypes, DirSet, Contents, Events
  <2>2. \A s \in Streams : IsPrefix(dir[Cmd].files[s], [i \in 1..cmd.read |-> i])
    BY <2>1, BeginsIsPrefix
  <2>3. dir[Cmd].man = "complete" /\ dir[Cmd].gap = "no" => \A s \in Streams : Len(dir[Cmd].files[s]) = cmd.read
    BY DEF ArchiveInv, SealInv
  <2> QED BY <2>2, <2>3 DEF SealedIsFaithful
<1>4. RecoveryIndexesAll
  <2> SUFFICES ASSUME rec.pc = "last", lock.todo = <<>> \/ Head(lock.todo).op = "prune",
                      NEW e \in Events, Sealed(e)
               PROVE  e \in index
    BY DEF RecoveryIndexesAll
  <2>1. e \in index \/ \E p \in OwedOf(e) : p.op = "remove"
    BY DEF ArchiveInv, ScanInv
  <2>2. ASSUME NEW p \in Owed PROVE p.op # "remove"
    <3>1. lock.todo \in Seq(OpSet) /\ Ordered(lock.todo)
      BY DEF ArchiveInv, ArchiveTypes
    <3>2. lock.todo # <<>>
      BY <2>2, RangeNone DEF Owed
    <3>3. /\ Owed = {Head(lock.todo)} \cup Range(Tail(lock.todo))
          /\ Follow(Head(lock.todo), Tail(lock.todo))
      BY <3>1, <3>2, RangeSplit, OrderedTail DEF Owed
    <3>4. Head(lock.todo).op = "prune"
      BY <3>2
    <3>5. \A q \in Range(Tail(lock.todo)) : Before(Head(lock.todo), q)
      BY <3>3 DEF Follow
    <3> QED BY <2>2, <3>3, <3>4, <3>5 DEF Before, PruneOps
  <2> QED BY <2>1, <2>2 DEF OwedOf
<1> QED BY <1>1, <1>2, <1>3, <1>4

(* The types of the archive, the index, the lock and the cursor.           *)
THEOREM TypeCorrect == Spec => []TypeOK
<1>1. ArchiveInv => TypeOK
  BY ArchiveTold
<1> QED BY <1>1, ArchiveInvariant, PTL

(* Whatever dies or fails between two files: no row of the index is        *)
(* without its original; what is sealed of a command begins its output,    *)
(* and is all of it when the event names no gap; the cursor passes nothing *)
(* that was not recorded; and a recovery that reaches its end leaves a row *)
(* for every sealed event.                                                 *)
THEOREM ArchiveIsTrue == Spec => []ExecutionArchiveIsTrue
<1>1. ArchiveInv => ExecutionArchiveIsTrue
  BY ArchiveTold
<1> QED BY <1>1, ArchiveInvariant, PTL

-----------------------------------------------------------------------------
(* Messages in order.  The rank of a number counts those up to it.          *)
Rank(S, x)  == Cardinality({y \in S : y <= x})
Rises(f, n) == \A i, j \in 1..n : i < j => f[i] < f[j]

LEMMA RankGrows ==
  ASSUME NEW S, IsFiniteSet(S), S \subseteq Int, NEW x \in S
  PROVE  /\ Cardinality(S) \in Nat
         /\ Rank(S, x) \in 1..Cardinality(S)
         /\ \A y \in S : x < y => Rank(S, x) < Rank(S, y)
<1> DEFINE U(y) == {z \in S : z <= y}
<1>1. Cardinality(S) \in Nat
  BY FS_CardinalityType
<1>2. ASSUME NEW y \in S
      PROVE  /\ IsFiniteSet(U(y)) /\ Cardinality(U(y)) \in Nat
             /\ Cardinality(U(y)) <= Cardinality(S) /\ U(y) # {} /\ Rank(S, y) = Cardinality(U(y))
  <2>1. U(y) \in SUBSET S /\ y \in U(y)
    OBVIOUS
  <2>2. IsFiniteSet(U(y)) /\ Cardinality(U(y)) <= Cardinality(S)
    BY <2>1, FS_Subset
  <2> QED BY <2>1, <2>2, FS_CardinalityType DEF Rank
<1>3. Rank(S, x) \in 1..Cardinality(S)
  <2>1. Cardinality(U(x)) # 0
    BY <1>2, FS_EmptySet
  <2> HIDE DEF U
  <2> QED BY <1>1, <1>2, <2>1
<1>4. ASSUME NEW y \in S, x < y PROVE Rank(S, x) < Rank(S, y)
  <2>1. U(x) \in SUBSET U(y) /\ y \in U(y) /\ y \notin U(x)
    <3>1. x \in Int /\ y \in Int /\ \A z \in S : z \in Int
      OBVIOUS
    <3>2. \A z \in S : z <= x => z <= y
      BY <1>4, <3>1
    <3>3. y <= y /\ ~(y <= x)
      BY <1>4, <3>1
    <3> QED BY <3>2, <3>3
  <2>2. IsFiniteSet(U(y))
    BY <1>2
  <2> HIDE DEF U
  <2>3. Cardinality(U(x)) <= Cardinality(U(y)) /\ Cardinality(U(x)) # Cardinality(U(y))
    BY <2>1, <2>2, FS_Subset
  <2> QED BY <1>2, <2>3
<1> QED BY <1>1, <1>3, <1>4

(* A finite set of numbers can be listed in order,                         *)
LEMMA CanBeOrdered ==
  ASSUME NEW S, IsFiniteSet(S), S \subseteq Int
  PROVE  \E f \in [1..Cardinality(S) -> S] : Rises(f, Cardinality(S))
<1> DEFINE n == Cardinality(S)
           q == [x \in S |-> Rank(S, x)]
           f == [i \in 1..n |-> CHOOSE x \in S : q[x] = i]
<1>1. n \in Nat /\ IsFiniteSet(1..n) /\ Cardinality(1..n) = n
  BY FS_CardinalityType, FS_Interval
<1>2. \A x \in S : q[x] = Rank(S, x) /\ q[x] \in 1..n
  BY RankGrows
<1>3. q \in [S -> 1..n]
  BY <1>2
<1>4. ASSUME NEW x \in S, NEW y \in S PROVE (x < y => q[x] < q[y]) /\ (q[x] = q[y] => x = y)
  <2>1. (x < y => q[x] < q[y]) /\ (y < x => q[y] < q[x])
    BY <1>2, RankGrows
  <2>2. q[x] \in Int /\ q[y] \in Int /\ x \in Int /\ y \in Int
    BY <1>1, <1>2
  <2> HIDE DEF q
  <2> QED BY <2>1, <2>2
<1> HIDE DEF q
<1>5. q \in Injection(S, 1..n)
  BY <1>3, <1>4 DEF Injection, IsInjective
<1>6. q \in Surjection(S, 1..n)
  <2> HIDE DEF n
  <2>1. n = Cardinality(S)
    BY DEF n
  <2> QED BY <1>1, <1>5, <2>1, FS_Injection
<1>7. \A i \in 1..n : \E x \in S : q[x] = i
  BY <1>6 DEF Surjection
<1>8. \A i \in 1..n : f[i] \in S /\ q[f[i]] = i
  BY <1>7
<1>9. f \in [1..n -> S]
  BY <1>8
<1>10. ASSUME NEW i \in 1..n, NEW j \in 1..n, i < j PROVE f[i] < f[j]
  <2>1. f[i] \in S /\ f[j] \in S /\ q[f[i]] = i /\ q[f[j]] = j
    BY <1>8
  <2> HIDE DEF f
  <2>2. ~(f[j] < f[i]) /\ f[i] # f[j]
    <3>1. i \in Int /\ j \in Int
      BY <1>1
    <3>2. f[j] < f[i] => q[f[j]] < q[f[i]]
      BY <1>4, <2>1
    <3> QED BY <1>10, <2>1, <3>1, <3>2
  <2>3. f[i] \in Int /\ f[j] \in Int
    BY <2>1
  <2> QED BY <2>2, <2>3
<1> QED BY <1>9, <1>10 DEF Rises

(* which leaves nothing out,                                               *)
LEMMA OrderedCovers ==
  ASSUME NEW S, IsFiniteSet(S), S \subseteq Int,
         NEW f \in [1..Cardinality(S) -> S], Rises(f, Cardinality(S))
  PROVE  /\ \A x \in S : \E i \in 1..Cardinality(S) : f[i] = x
         /\ \A i, j \in 1..Cardinality(S) : f[i] = f[j] => i = j
<1> DEFINE n == Cardinality(S)
<1>1. n \in Nat /\ IsFiniteSet(1..n) /\ Cardinality(1..n) = n
  BY FS_CardinalityType, FS_Interval
<1>2. ASSUME NEW j \in 1..n, NEW k \in 1..n PROVE f[j] = f[k] => j = k
  <2>1. f[j] \in Int /\ f[k] \in Int
    OBVIOUS
  <2>2. (j < k => f[j] < f[k]) /\ (k < j => f[k] < f[j])
    BY DEF Rises
  <2>3. j \in Int /\ k \in Int
    BY <1>1
  <2> HIDE DEF n
  <2> QED BY <2>1, <2>2, <2>3
<1>3. f \in Surjection(1..n, S)
  <2>1. f \in Injection(1..n, S)
    BY <1>2 DEF Injection, IsInjective
  <2> QED BY <1>1, <2>1, FS_Injection
<1> QED BY <1>2, <1>3 DEF Surjection

(* A finite set of numbers has a greatest one.                             *)
LEMMA HasGreatest ==
  ASSUME NEW S, IsFiniteSet(S), S \subseteq Int, S # {}
  PROVE  \E x \in S : \A y \in S : y <= x
<1> DEFINE n == Cardinality(S)
<1>1. n \in Nat /\ n # 0
  BY FS_CardinalityType, FS_EmptySet
<1>2. PICK f \in [1..n -> S] : Rises(f, n)
  BY CanBeOrdered
<1>3. n \in 1..n /\ f[n] \in S
  BY <1>1, <1>2
<1>4. ASSUME NEW y \in S PROVE y <= f[n]
  <2>1. PICK i \in 1..n : f[i] = y
    <3>1. \A x \in S : \E i \in 1..Cardinality(S) : f[i] = x
      BY <1>2, OrderedCovers
    <3> QED BY <3>1
  <2>2. i = n \/ i < n
    BY <1>1
  <2>3. f[n] \in Int /\ y \in Int
    BY <1>3
  <2> HIDE DEF n
  <2> QED BY <1>2, <1>3, <2>1, <2>2, <2>3 DEF Rises
<1> QED BY <1>3, <1>4

(* and in one way only: the i-th has rank i.                                   *)
LEMMA RankIsPlace ==
  ASSUME NEW S, IsFiniteSet(S), S \subseteq Int,
         NEW f \in [1..Cardinality(S) -> S], Rises(f, Cardinality(S)),
         NEW i \in 1..Cardinality(S)
  PROVE  Rank(S, f[i]) = i
<1> DEFINE n == Cardinality(S)
           U == {z \in S : z <= f[i]}
           g == [k \in 1..i |-> f[k]]
<1>1. n \in Nat /\ IsFiniteSet(1..n) /\ Cardinality(1..n) = n
  BY FS_CardinalityType, FS_Interval
<1>2. /\ i \in Nat /\ IsFiniteSet(1..i) /\ Cardinality(1..i) = i
      /\ 1..i \subseteq 1..n
  <2>1. i \in Nat /\ i >= 1 /\ i <= n
    BY <1>1
  <2> QED BY <1>1, <2>1, FS_Interval
<1>3. \A j, k \in 1..n : f[j] = f[k] => j = k
  BY OrderedCovers
<1>4. \A x \in S : \E k \in 1..n : f[k] = x
  BY OrderedCovers
<1>5. ASSUME NEW k \in 1..n PROVE f[k] <= f[i] <=> k <= i
  <2>1. f[i] \in Int /\ f[k] \in Int
    OBVIOUS
  <2>2. (i < k => f[i] < f[k]) /\ (k < i => f[k] < f[i])
    BY DEF Rises
  <2>3. i \in Int /\ k \in Int
    BY <1>1
  <2> QED BY <2>1, <2>2, <2>3
<1>6. g \in [1..i -> U] /\ \A k \in 1..i : g[k] = f[k]
  <2>1. \A k \in 1..i : k \in 1..n /\ k <= i
    BY <1>2
  <2>2. \A k \in 1..i : f[k] \in U
    BY <1>5, <2>1
  <2> QED BY <2>2
<1>7. g \in Bijection(1..i, U)
  <2>1. ASSUME NEW z \in U PROVE \E k \in 1..i : g[k] = z
    <3>1. PICK k \in 1..n : f[k] = z
      BY <1>4
    <3>2. k \in 1..i
      BY <1>1, <1>2, <1>5, <3>1
    <3> QED BY <1>6, <3>1, <3>2
  <2>2. \A j, k \in 1..i : g[j] = g[k] => j = k
    BY <1>2, <1>3, <1>6
  <2> QED BY <1>6, <2>1, <2>2 DEF Bijection, Injection, Surjection, IsInjective
<1>8. Cardinality(U) = i
  BY <1>2, <1>7, FS_Bijection DEF ExistsBijection
<1> QED BY <1>8 DEF Rank

LEMMA OrderedOnce ==
  ASSUME NEW S, IsFiniteSet(S), S \subseteq Int,
         NEW f \in [1..Cardinality(S) -> S], Rises(f, Cardinality(S)),
         NEW g \in [1..Cardinality(S) -> S], Rises(g, Cardinality(S))
  PROVE  f = g
<1>1. ASSUME NEW i \in 1..Cardinality(S) PROVE f[i] = g[i]
  <2>1. Rank(S, f[i]) = i /\ Rank(S, g[i]) = i
    BY RankIsPlace
  <2>2. f[i] \in S /\ g[i] \in S
    OBVIOUS
  <2>3. (f[i] < g[i] => i < i) /\ (g[i] < f[i] => i < i)
    BY <2>1, <2>2, RankGrows
  <2>4. f[i] \in Int /\ g[i] \in Int
    BY <2>2
  <2>5. ~(i < i)
    <3>1. Cardinality(S) \in Nat
      BY FS_CardinalityType
    <3> QED BY <3>1
  <2> QED BY <2>3, <2>4, <2>5
<1> DEFINE D == 1..Cardinality(S)
<1>2. f \in [D -> S] /\ g \in [D -> S] /\ \A i \in D : f[i] = g[i]
  BY <1>1
<1> HIDE DEF D
<1>3. f = [i \in D |-> f[i]] /\ g = [i \in D |-> g[i]]
  BY <1>2
<1>4. [i \in D |-> f[i]] = [i \in D |-> g[i]]
  BY <1>2
<1> QED BY <1>3, <1>4

-----------------------------------------------------------------------------
(* The archive of a chat.                                                  *)
MessageSet == [there : BOOLEAN, at : Int, ver : Nat, media : Nat]
RevSet     == [ver : Nat, media : Nat, file : BOOLEAN]
RowSet     == [revs : Seq(RevSet), gone : A!Reasons, when : Int]
UpdateSet  == [kind : {"new", "edit", "deleted"}, id : Ids, ver : Nat, media : Nat]
WaitingSet == [kind : {"new", "edit", "deleted", "reconcile"}, id : Nat, ver : Nat, media : Nat]
ListedSet  == [kind : {"listed"}, id : Ids, ver : Nat, media : Nat]
RunSet     == [mode : {"none", "sync", "watch"}, pc : {"off", "list", "free"}, seen : SUBSET Ids,
               page : Seq(ListedSet), below : Int, all : BOOLEAN, at : Int, loop : BOOLEAN]

HoldsRows(f) == DOMAIN f \subseteq Ids /\ \A m \in DOMAIN f : f[m] \in RowSet /\ f[m].revs # <<>>

ChatTypes ==
  /\ chat \in [Ids -> MessageSet]
  /\ now \in Nat
  /\ wire \in Seq(UpdateSet) /\ queue \in Seq(WaitingSet)
  /\ HoldsRows(db) /\ HoldsRows(disk) /\ DOMAIN disk \subseteq DOMAIN db
  /\ run \in RunSet
  /\ edits \in 0..MaxEdits /\ faults \in 0..MaxFaults

(* Messages are sent in the order of their ids, and what is known of was    *)
(* sent.                                                                   *)
SentInOrder ==
  /\ \A m \in Ids : (chat[m].there => A!Sent(m)) /\ (A!Sent(m) => chat[m].at <= now)
  /\ \A i, j \in Ids : i < j /\ A!Sent(j) => A!Sent(i) /\ chat[i].at <= chat[j].at

KnownOf(q) == \A i \in DOMAIN q : q[i].id \in Ids /\ A!Sent(q[i].id)
QueueKnown ==
  \A i \in DOMAIN queue :
    queue[i].kind # "reconcile" => queue[i].id \in Ids /\ A!Sent(queue[i].id)
OnlySent ==
  /\ \A m \in DOMAIN db : A!Sent(m)
  /\ KnownOf(wire) /\ KnownOf(run.page)
  /\ QueueKnown

(* Deletions that are stored happened, or lie at the edge of their window;  *)
(* and the file of a medium stays with it.                                 *)
Edge(f, m) == f[m].when = chat[m].at + Horizon
TellsTrue(f) == \A m \in DOMAIN f : f[m].gone # "no" => A!Lost(m) \/ Edge(f, m)
Follows(revs) ==
  \A i \in 1..Len(revs) - 1 :
    revs[i].file /\ revs[i + 1].media = revs[i].media => revs[i + 1].file
KeepsMedia(f) == \A m \in DOMAIN f : Follows(f[m].revs)

(* A listing goes down, and whatever is there and has a row is still to     *)
(* come until it was seen.                                                 *)
ToCome(m) == /\ m < run.below
             /\ \/ \E i \in DOMAIN run.page : run.page[i].id = m
                \/ \A i \in DOMAIN run.page : m < run.page[i].id
Sweeps ==
  /\ \A i, j \in DOMAIN run.page : i < j => run.page[j].id < run.page[i].id
  /\ \A i \in DOMAIN run.page : run.page[i].id < run.below
  /\ \A m \in DOMAIN db \ run.seen : chat[m].there => ToCome(m)

ChatInv ==
  /\ ChatTypes /\ SentInOrder /\ OnlySent
  /\ TellsTrue(db) /\ TellsTrue(disk)
  /\ KeepsMedia(db) /\ KeepsMedia(disk)
  /\ run.pc = "list" => Sweeps

(* What is assumed of the chat.                                            *)
LEMMA ChatSettings ==
  /\ IsFiniteSet(Ids) /\ Ids # {} /\ Ids \subseteq Nat /\ Kept \subseteq Ids
  /\ \A k \in Kept, m \in Ids \ Kept : k < m
  /\ TTL \in Nat /\ Horizon \in Nat /\ Page \in Nat
  /\ MaxTime \in Nat /\ MaxEdits \in Nat /\ MaxFaults \in Nat
  /\ Modes \subseteq {"sync", "watch"}
<1>1. A!IsFiniteSet(Ids) <=> IsFiniteSet(Ids)
  BY DEF A!IsFiniteSet, IsFiniteSet
<1> QED BY <1>1, ChatAssumption DEF A!Settings

LEMMA InitChat == ASSUME A!Init PROVE ChatInv
<1> USE ChatSettings
<1>1. PICK date \in A!Dates :
        chat = [m \in Ids |-> IF m \in Kept
                              THEN [there |-> TRUE, at |-> date[m], ver |-> 1, media |-> 1]
                              ELSE A!Unsent]
  BY DEF A!Init
<1>2. /\ \A k \in Kept : date[k] \in Int /\ date[k] <= 0
      /\ \A j, k \in Kept : j < k => date[j] <= date[k]
  BY DEF A!Dates
<1>3. /\ \A m \in Kept : /\ chat[m] \in MessageSet
                         /\ chat[m].there /\ chat[m].at = date[m] /\ chat[m].ver = 1
      /\ \A m \in Ids \ Kept : /\ chat[m] \in MessageSet
                               /\ ~chat[m].there /\ chat[m].at = 0 /\ chat[m].ver = 0
  BY <1>1, <1>2 DEF MessageSet, A!Unsent
<1>4. Kept \subseteq Ids /\ DOMAIN chat = Ids
  BY <1>1
<1>5. chat \in [Ids -> MessageSet]
  <2>1. \A m \in Ids : chat[m] \in MessageSet
    BY <1>3
  <2> QED BY <1>1, <2>1
<1>6. now = 0 /\ wire = <<>> /\ queue = <<>> /\ db = <<>> /\ disk = <<>>
      /\ run = A!Off /\ edits = 0 /\ faults = 0
  BY DEF A!Init
<1>7. /\ run \in RunSet /\ run.pc = "off" /\ run.page = <<>>
  BY <1>6 DEF A!Off, RunSet
<1>8. DOMAIN db = {} /\ DOMAIN disk = {} /\ DOMAIN wire = {} /\ DOMAIN queue = {} /\ DOMAIN run.page = {}
  BY <1>6, <1>7
<1>9. ChatTypes
  <2>1. wire \in Seq(UpdateSet) /\ queue \in Seq(WaitingSet)
    BY <1>6
  <2>2. HoldsRows(db) /\ HoldsRows(disk)
    BY <1>8 DEF HoldsRows
  <2>3. now \in Nat /\ edits \in 0..MaxEdits /\ faults \in 0..MaxFaults
    BY <1>6
  <2> QED BY <1>5, <1>6, <1>7, <1>8, <2>1, <2>2, <2>3 DEF ChatTypes
<1>10. SentInOrder
  <2>1. ASSUME NEW m \in Ids
        PROVE  (chat[m].there => A!Sent(m)) /\ (A!Sent(m) => chat[m].at <= now)
    BY <1>2, <1>3, <1>6 DEF A!Sent
  <2>2. ASSUME NEW i \in Ids, NEW j \in Ids, i < j, A!Sent(j)
        PROVE  A!Sent(i) /\ chat[i].at <= chat[j].at
    <3>1. j \in Kept
      BY <1>3, <2>2 DEF A!Sent
    <3>2. i \in Kept
      <4>1. i \in Int /\ j \in Int
        OBVIOUS
      <4>2. i \notin Kept => j < i
        BY <3>1
      <4> QED BY <2>2, <4>1, <4>2
    <3> QED BY <1>2, <1>3, <2>2, <3>1, <3>2 DEF A!Sent
  <2> QED BY <2>1, <2>2 DEF SentInOrder
<1>11. OnlySent
  BY <1>8 DEF OnlySent, KnownOf, QueueKnown
<1>12. TellsTrue(db) /\ TellsTrue(disk)
  BY <1>8 DEF TellsTrue
<1>13. KeepsMedia(db) /\ KeepsMedia(disk)
  BY <1>8 DEF KeepsMedia
<1> QED BY <1>7, <1>9, <1>10, <1>11, <1>12, <1>13 DEF ChatInv

(* The chat goes on: what was sent stays so, what is gone does not come     *)
(* back, and what comes is new.                                            *)
LEMMA ChatGoesOn ==
  ASSUME ChatInv, UNCHANGED <<queue, db, disk, run, faults>>,
         chat' \in [Ids -> MessageSet], now' \in Nat, wire' \in Seq(UpdateSet),
         edits' \in 0..MaxEdits, SentInOrder',
         \A m \in Ids : A!Sent(m) =>
           A!Sent(m)' /\ (chat'[m].there => chat[m].there) /\ chat'[m].at = chat[m].at,
         KnownOf(wire)'
  PROVE  ChatInv'
<1>1. ChatTypes'
  BY DEF ChatInv, ChatTypes, HoldsRows
<1>2. DOMAIN db \subseteq Ids /\ DOMAIN disk \subseteq Ids /\ \A m \in DOMAIN db : A!Sent(m)
  BY DEF ChatInv, ChatTypes, HoldsRows, OnlySent
<1>3. OnlySent'
  <2>1. \A m \in DOMAIN db' : A!Sent(m)'
    BY <1>2
  <2>2. KnownOf(run.page)'
    BY DEF ChatInv, OnlySent, KnownOf
  <2>3. QueueKnown'
    BY DEF ChatInv, OnlySent, QueueKnown
  <2> QED BY <2>1, <2>2, <2>3 DEF OnlySent
<1>4. \A m \in Ids : A!Lost(m) => A!Lost(m)'
  BY DEF A!Lost
<1>5. TellsTrue(db)' /\ TellsTrue(disk)'
  <2>1. \A m \in DOMAIN disk : m \in DOMAIN db
    BY DEF ChatInv, ChatTypes
  <2> QED BY <1>2, <1>4, <2>1 DEF ChatInv, TellsTrue, Edge
<1>6. KeepsMedia(db)' /\ KeepsMedia(disk)'
  BY DEF ChatInv, KeepsMedia, Follows
<1>7. ASSUME run.pc = "list" PROVE Sweeps'
  <2>1. Sweeps
    BY <1>7 DEF ChatInv
  <2>2. \A m \in DOMAIN db \ run.seen : chat'[m].there => ToCome(m)'
    BY <1>2, <2>1 DEF Sweeps, ToCome
  <2> QED BY <2>1, <2>2 DEF Sweeps
<1> QED BY <1>1, <1>3, <1>5, <1>6, <1>7 DEF ChatInv

LEMMA WireTakes ==
  ASSUME ChatInv, NEW kind \in {"new", "edit", "deleted"}, NEW m \in Ids, A!Update(kind, m),
         chat' \in [Ids -> MessageSet], A!Sent(m)',
         \A j \in Ids : A!Sent(j) => A!Sent(j)'
  PROVE  wire' \in Seq(UpdateSet) /\ KnownOf(wire)'
<1>1. wire \in Seq(UpdateSet) /\ \A i \in DOMAIN wire : wire[i].id \in Ids /\ A!Sent(wire[i].id)
  BY DEF ChatInv, ChatTypes, OnlySent, KnownOf
<1> DEFINE u == [kind |-> kind, id |-> m, ver |-> chat'[m].ver, media |-> chat'[m].media]
<1>2. u \in UpdateSet /\ u.id = m
  BY DEF UpdateSet, MessageSet
<1>3. wire' = wire \/ wire' = Append(wire, u)
  BY DEF A!Update, A!Known
<1> HIDE DEF u
<1>4. CASE wire' = wire
  BY <1>1, <1>4 DEF KnownOf
<1>5. CASE wire' = Append(wire, u)
  <2>1. /\ wire' \in Seq(UpdateSet) /\ DOMAIN wire = 1..Len(wire) /\ Len(wire) \in Nat
        /\ DOMAIN wire' = 1..(Len(wire) + 1)
        /\ \A i \in 1..Len(wire) : wire'[i] = wire[i]
        /\ wire'[Len(wire) + 1] = u
    BY <1>1, <1>2, <1>5
  <2>2. \A i \in DOMAIN wire' : i \in 1..Len(wire) \/ i = Len(wire) + 1
    BY <2>1
  <2>3. \A i \in DOMAIN wire' : wire'[i].id \in Ids /\ (wire'[i].id = m \/ A!Sent(wire'[i].id))
    BY <1>1, <1>2, <2>1, <2>2 DEF A!Sent
  <2> QED BY <2>1, <2>3 DEF KnownOf, A!Sent
<1> QED BY <1>3, <1>4, <1>5

LEMMA MessageSent == ASSUME ChatInv, NEW m \in Ids, A!Send(m) PROVE ChatInv'
<1> DEFINE new == [there |-> TRUE, at |-> now, ver |-> 1, media |-> 1]
<1>1. chat \in [Ids -> MessageSet] /\ now \in Nat /\ edits \in 0..MaxEdits
  BY DEF ChatInv, ChatTypes
<1>2. ~A!Sent(m) /\ \A j \in Ids : j < m => A!Sent(j)
  BY DEF A!Send
<1>3. chat' = [chat EXCEPT ![m] = new] /\ A!Update("new", m)
      /\ UNCHANGED <<now, queue, db, disk, run, edits, faults>>
  BY DEF A!Send
<1>4. new \in MessageSet /\ new.there /\ new.at = now /\ new.ver = 1
  BY <1>1 DEF MessageSet
<1> HIDE DEF new
<1>5. chat' \in [Ids -> MessageSet] /\ chat'[m] = new /\ \A j \in Ids \ {m} : chat'[j] = chat[j]
  BY <1>1, <1>3, <1>4
<1>6. A!Sent(m)' /\ \A j \in Ids \ {m} : A!Sent(j)' <=> A!Sent(j)
  BY <1>4, <1>5 DEF A!Sent
<1>7. \A j \in Ids : A!Sent(j) =>
        A!Sent(j)' /\ (chat'[j].there => chat[j].there) /\ chat'[j].at = chat[j].at
  BY <1>2, <1>5, <1>6
<1>8. wire' \in Seq(UpdateSet) /\ KnownOf(wire)'
  BY <1>3, <1>5, <1>6, <1>7, WireTakes
<1>9. SentInOrder'
  <2>1. SentInOrder
    BY DEF ChatInv
  <2>2. now <= now
    BY <1>1
  <2>3. \A j \in Ids : (chat'[j].there => A!Sent(j)') /\ (A!Sent(j)' => chat'[j].at <= now')
    BY <1>3, <1>4, <1>5, <1>6, <2>1, <2>2 DEF SentInOrder
  <2>4. ASSUME NEW i \in Ids, NEW j \in Ids, i < j, A!Sent(j)'
        PROVE  A!Sent(i)' /\ chat'[i].at <= chat'[j].at
    <3>1. i # j
      BY <2>4, ChatSettings
    <3>2. CASE j = m
      <4>1. A!Sent(i) /\ chat'[i] = chat[i] /\ chat[i].at <= now
        BY <1>2, <1>5, <2>1, <2>4, <3>1, <3>2 DEF SentInOrder
      <4> QED BY <1>4, <1>5, <1>6, <3>1, <3>2, <4>1
    <3>3. CASE j # m
      <4>1. A!Sent(j) /\ A!Sent(i) /\ chat[i].at <= chat[j].at
        BY <1>6, <2>1, <2>4, <3>3 DEF SentInOrder
      <4>2. i # m
        BY <1>2, <4>1
      <4> QED BY <1>5, <1>6, <3>3, <4>1, <4>2
    <3> QED BY <3>2, <3>3
  <2> QED BY <2>3, <2>4 DEF SentInOrder
<1> QED BY <1>1, <1>3, <1>5, <1>7, <1>8, <1>9, ChatGoesOn

(* An edit or a deletion.                                                  *)
LEMMA MessageChanged ==
  ASSUME ChatInv, NEW m \in Ids, chat[m].there, NEW v \in MessageSet, v.at = chat[m].at, v.ver > 0,
         chat' = [chat EXCEPT ![m] = v], NEW kind \in {"edit", "deleted"}, A!Update(kind, m),
         UNCHANGED <<now, queue, db, disk, run, faults>>, edits' \in 0..MaxEdits
  PROVE  ChatInv'
<1>1. chat \in [Ids -> MessageSet] /\ now \in Nat /\ SentInOrder
  BY DEF ChatInv, ChatTypes
<1>2. chat' \in [Ids -> MessageSet] /\ chat'[m] = v /\ \A j \in Ids \ {m} : chat'[j] = chat[j]
  BY <1>1
<1>3. A!Sent(m) /\ A!Sent(m)'
  BY <1>1, <1>2 DEF SentInOrder, A!Sent
<1>4. \A j \in Ids : (A!Sent(j)' <=> A!Sent(j)) /\ chat'[j].at = chat[j].at /\ (chat'[j].there => chat[j].there)
  BY <1>2, <1>3 DEF A!Sent
<1>5. SentInOrder'
  BY <1>1, <1>4 DEF SentInOrder
<1>6. wire' \in Seq(UpdateSet) /\ KnownOf(wire)'
  BY <1>2, <1>3, <1>4, WireTakes
<1> QED BY <1>1, <1>2, <1>4, <1>5, <1>6, ChatGoesOn

LEMMA WorldGoesOn == ASSUME ChatInv, A!World PROVE ChatInv'
<1>1. chat \in [Ids -> MessageSet] /\ now \in Nat /\ edits \in 0..MaxEdits /\ SentInOrder
  BY DEF ChatInv, ChatTypes
<1>2. CASE A!Tick
  <2>1. now' = now + 1 /\ UNCHANGED <<chat, wire, queue, db, disk, run, edits, faults>>
    BY <1>2 DEF A!Tick
  <2>2. SentInOrder'
    <3>1. \A m \in Ids : A!Sent(m) => chat[m].at <= now + 1
      BY <1>1 DEF SentInOrder, MessageSet
    <3> QED BY <1>1, <2>1, <3>1 DEF SentInOrder, A!Sent
  <2>3. wire' \in Seq(UpdateSet) /\ KnownOf(wire)'
    BY <2>1 DEF ChatInv, ChatTypes, OnlySent, KnownOf, A!Sent
  <2>4. \A m \in Ids : A!Sent(m) =>
          A!Sent(m)' /\ (chat'[m].there => chat[m].there) /\ chat'[m].at = chat[m].at
    BY <2>1 DEF A!Sent
  <2> QED BY <1>1, <2>1, <2>2, <2>3, <2>4, ChatGoesOn
<1>3. ASSUME NEW m \in Ids, A!Send(m) PROVE ChatInv'
  BY <1>3, MessageSent
<1>4. ASSUME NEW m \in Ids, A!Edit(m) PROVE ChatInv'
  <2>1. chat[m].there /\ chat[m] \in MessageSet
    BY <1>1, <1>4 DEF A!Edit, A!Present
  <2>2. PICK other \in {0, 1} :
          chat' = [chat EXCEPT ![m].ver = @ + 1, ![m].media = @ + other]
    BY <1>4 DEF A!Edit
  <2> DEFINE up == [chat[m] EXCEPT !.ver = @ + 1]
             v == [up EXCEPT !.media = @ + other]
  <2>3. v \in MessageSet /\ v.at = chat[m].at /\ v.ver > 0
    <3>1. up \in MessageSet /\ up.at = chat[m].at /\ up.ver > 0
      BY <2>1 DEF MessageSet
    <3> HIDE DEF up
    <3> QED BY <3>1 DEF MessageSet
  <2>4. chat' = [chat EXCEPT ![m] = v]
    <3> DEFINE one == [chat EXCEPT ![m].ver = @ + 1]
    <3>1. DOMAIN one = Ids /\ one[m] = [chat[m] EXCEPT !.ver = @ + 1]
          /\ \A j \in Ids \ {m} : one[j] = chat[j]
      BY <1>1
    <3>2. chat' = [one EXCEPT ![m].media = @ + other]
      BY <2>2
    <3> HIDE DEF one
    <3>3. DOMAIN chat' = Ids /\ chat'[m] = [one[m] EXCEPT !.media = @ + other]
          /\ \A j \in Ids \ {m} : chat'[j] = chat[j]
      BY <3>1, <3>2
    <3>4. chat'[m] = v
      BY <3>1, <3>3
    <3>5. chat' = [j \in Ids |-> chat'[j]]
      BY <3>2, <3>1
    <3> HIDE DEF v
    <3>6. chat' = [j \in Ids |-> IF j = m THEN v ELSE chat[j]]
      BY <3>3, <3>4, <3>5
    <3> QED BY <1>1, <3>6
  <2>5. edits' \in 0..MaxEdits
    BY <1>1, <1>4, ChatSettings DEF A!Edit
  <2>6. A!Update("edit", m) /\ UNCHANGED <<now, queue, db, disk, run, faults>>
    BY <1>4 DEF A!Edit
  <2> HIDE DEF v
  <2> QED BY <2>1, <2>3, <2>4, <2>5, <2>6, MessageChanged
<1>5. ASSUME NEW m \in Ids, A!Delete(m) PROVE ChatInv'
  <2> DEFINE v == [chat[m] EXCEPT !.there = FALSE]
  <2>1. chat[m].there /\ chat[m] \in MessageSet /\ chat[m].ver > 0
    BY <1>1, <1>5 DEF A!Delete, A!Present, SentInOrder, A!Sent
  <2>2. v \in MessageSet /\ v.at = chat[m].at /\ v.ver > 0
    BY <2>1 DEF MessageSet
  <2>3. chat' = [chat EXCEPT ![m] = v]
    BY <1>1, <1>5 DEF A!Delete
  <2>4. edits' \in 0..MaxEdits
    BY <1>1, <1>5, ChatSettings DEF A!Delete
  <2>5. A!Update("deleted", m) /\ UNCHANGED <<now, queue, db, disk, run, faults>>
    BY <1>5 DEF A!Delete
  <2> HIDE DEF v
  <2> QED BY <2>1, <2>2, <2>3, <2>4, <2>5, MessageChanged
<1> QED BY <1>2, <1>3, <1>4, <1>5 DEF A!World

(* What is stored of a message that was sent is true, and the file of its   *)
(* medium stays with it.                                                   *)
LEMMA KeepFacts ==
  ASSUME ChatInv, NEW u, u.id \in Ids, u.ver \in Nat, u.media \in Nat, A!Sent(u.id),
         A!Keep(u), UNCHANGED chat
  PROVE  /\ HoldsRows(db)' /\ DOMAIN db' = DOMAIN db \cup {u.id}
         /\ faults' \in 0..MaxFaults
         /\ TellsTrue(db)' /\ KeepsMedia(db)'
<1>1. HoldsRows(db) /\ faults \in 0..MaxFaults /\ TellsTrue(db) /\ KeepsMedia(db)
  BY DEF ChatInv, ChatTypes
<1> DEFINE m == u.id
<1>2. PICK file \in BOOLEAN : db' = A!Stored(u, file) /\ (A!Reused(u) => file)
  BY DEF A!Keep
<1>3. faults' \in 0..MaxFaults
  <2>1. faults' = faults \/ (faults < MaxFaults /\ faults' = faults + 1)
    BY DEF A!Keep
  <2> QED BY <1>1, <2>1, ChatSettings
<1> DEFINE new == [ver |-> u.ver, media |-> u.media, file |-> file]
           old == db[m].revs
           revs == IF m \notin DOMAIN db THEN <<new>>
                   ELSE IF A!Last(old) = new THEN old
                   ELSE Append(old, new)
           row == [revs |-> revs, gone |-> "no", when |-> 0]
<1>5. new \in RevSet /\ new.media = u.media /\ new.file = file
  BY DEF RevSet
<1>6. db' = [j \in DOMAIN db \cup {m} |-> IF j = m THEN row ELSE db[j]]
  BY <1>2 DEF A!Stored, A!Rows
<1> HIDE DEF new
<1>7. ASSUME m \in DOMAIN db
      PROVE  old \in Seq(RevSet) /\ old # <<>> /\ Follows(old)
  BY <1>1, <1>7 DEF HoldsRows, RowSet, KeepsMedia
<1>8. revs \in Seq(RevSet) /\ revs # <<>> /\ Follows(revs)
  <2>1. CASE m \notin DOMAIN db
    <3>1. revs = <<new>>
      BY <2>1
    <3> HIDE DEF revs
    <3>2. revs \in Seq(RevSet) /\ revs # <<>> /\ Len(revs) = 1
      BY <1>5, <3>1
    <3> QED BY <3>2 DEF Follows
  <2>2. CASE m \in DOMAIN db /\ revs = old
    <3> HIDE DEF revs
    <3> QED BY <1>7, <2>2
  <2>3. CASE m \in DOMAIN db /\ revs = Append(old, new)
    <3> DEFINE n == Len(old)
    <3>1. old \in Seq(RevSet) /\ n \in Nat /\ n > 0 /\ Follows(old)
      BY <1>7, <2>3
    <3>2. old[n].file /\ new.media = old[n].media => new.file
      <4>1. A!Last(old) = old[n]
        BY DEF A!Last
      <4>2. old[n].file /\ u.media = old[n].media => A!Reused(u)
        BY <2>3, <4>1 DEF A!Reused, A!Rows
      <4> QED BY <1>2, <1>5, <4>2
    <3>3. revs = Append(old, new)
      BY <2>3
    <3> HIDE DEF revs, old
    <3>4. /\ revs \in Seq(RevSet) /\ revs # <<>> /\ Len(revs) = n + 1
          /\ \A i \in 1..n : revs[i] = old[i]
          /\ revs[n + 1] = new
      BY <1>5, <3>1, <3>3
    <3>5. ASSUME NEW i \in 1..n, revs[i].file, revs[i + 1].media = revs[i].media
          PROVE  revs[i + 1].file
      <4>1. CASE i = n
        BY <3>1, <3>2, <3>4, <3>5, <4>1
      <4>2. CASE i # n
        <5>1. i \in 1..n - 1 /\ i + 1 \in 1..n
          BY <3>1, <4>2
        <5> QED BY <3>1, <3>4, <3>5, <5>1 DEF Follows
      <4> QED BY <4>1, <4>2
    <3>6. 1..Len(revs) - 1 = 1..n
      BY <3>1, <3>4
    <3> QED BY <3>4, <3>5, <3>6 DEF Follows
  <2> QED BY <2>1, <2>2, <2>3
<1> HIDE DEF revs
<1>9. row \in RowSet /\ row.revs = revs /\ row.gone = "no"
  BY <1>8 DEF RowSet, A!Reasons
<1> HIDE DEF row
<1>10. /\ DOMAIN db' = DOMAIN db \cup {m} /\ db'[m] = row
       /\ \A j \in DOMAIN db' : j # m => j \in DOMAIN db /\ db'[j] = db[j]
  BY <1>6
<1>11. HoldsRows(db)'
  BY <1>1, <1>8, <1>9, <1>10 DEF HoldsRows
<1>12. TellsTrue(db)'
  BY <1>1, <1>9, <1>10 DEF TellsTrue, Edge, A!Lost, A!Sent
<1>13. KeepsMedia(db)'
  <2>1. \A j \in DOMAIN db' : Follows(db'[j].revs)
    BY <1>1, <1>8, <1>9, <1>10 DEF KeepsMedia
  <2> QED BY <2>1 DEF KeepsMedia, Follows
<1> QED BY <1>3, <1>10, <1>11, <1>12, <1>13

(* A tombstone tells of a message that is gone, or of one at the edge.      *)
LEMMA TombstoneFacts ==
  ASSUME ChatInv, NEW S, NEW at \in Int,
         \A m \in S \cap DOMAIN db : A!Lost(m) \/ at = chat[m].at + Horizon,
         db' = A!Tombstones(S, at), UNCHANGED chat
  PROVE  HoldsRows(db)' /\ DOMAIN db' = DOMAIN db /\ TellsTrue(db)' /\ KeepsMedia(db)'
<1>1. HoldsRows(db) /\ TellsTrue(db) /\ KeepsMedia(db)
  BY DEF ChatInv, ChatTypes
<1>2. db' = [m \in DOMAIN db |-> IF m \in S /\ db[m].gone = "no"
                                 THEN [revs |-> db[m].revs, gone |-> A!Why(m, at), when |-> at]
                                 ELSE db[m]]
  BY DEF A!Tombstones, A!Rows
<1>3. ASSUME NEW m \in DOMAIN db
      PROVE  /\ db'[m] \in RowSet /\ db'[m].revs = db[m].revs
             /\ db'[m] = db[m] \/ (m \in S /\ db'[m].when = at)
  <2>1. db[m] \in RowSet
    BY <1>1 DEF HoldsRows
  <2>2. A!Why(m, at) \in A!Reasons
    BY DEF A!Why, A!Reasons
  <2> DEFINE w == [revs |-> db[m].revs, gone |-> A!Why(m, at), when |-> at]
  <2>3. w \in RowSet /\ w.revs = db[m].revs /\ w.when = at
    BY <2>1, <2>2 DEF RowSet
  <2>4. db'[m] = IF m \in S /\ db[m].gone = "no" THEN w ELSE db[m]
    BY <1>2
  <2> HIDE DEF w
  <2> QED BY <2>1, <2>3, <2>4
<1>4. DOMAIN db' = DOMAIN db
  BY <1>2
<1>5. HoldsRows(db)'
  BY <1>1, <1>3, <1>4 DEF HoldsRows
<1>6. \A m \in DOMAIN db : A!Lost(m) => A!Lost(m)'
  BY DEF A!Lost, A!Sent
<1>7. TellsTrue(db)'
  BY <1>1, <1>3, <1>4, <1>6 DEF TellsTrue, Edge
<1>8. KeepsMedia(db)'
  BY <1>1, <1>3, <1>4 DEF KeepsMedia, Follows
<1> QED BY <1>4, <1>5, <1>7, <1>8

(* Who waits: one more, or one less.                                       *)
LEMMA QueueShrinks ==
  ASSUME ChatInv, queue # <<>>, queue' = Tail(queue), UNCHANGED chat
  PROVE  /\ Head(queue) \in WaitingSet /\ queue' \in Seq(WaitingSet) /\ QueueKnown'
         /\ Head(queue).kind # "reconcile" => Head(queue).id \in Ids /\ A!Sent(Head(queue).id)
<1>1. queue \in Seq(WaitingSet) /\ QueueKnown
  BY DEF ChatInv, ChatTypes, OnlySent
<1>2. /\ Head(queue) = queue[1] /\ 1 \in DOMAIN queue
      /\ queue' \in Seq(WaitingSet) /\ DOMAIN queue' = 1..(Len(queue) - 1) /\ Len(queue) \in Nat
      /\ \A i \in 1..(Len(queue) - 1) : queue'[i] = queue[i + 1] /\ i + 1 \in DOMAIN queue
  BY <1>1
<1>3. QueueKnown'
  BY <1>1, <1>2 DEF QueueKnown, A!Sent
<1> QED BY <1>1, <1>2, <1>3 DEF QueueKnown

LEMMA QueueGrows ==
  ASSUME ChatInv, NEW w \in WaitingSet, w.kind # "reconcile" => w.id \in Ids /\ A!Sent(w.id),
         queue' = Append(queue, w), UNCHANGED chat
  PROVE  queue' \in Seq(WaitingSet) /\ QueueKnown'
<1>1. queue \in Seq(WaitingSet) /\ QueueKnown
  BY DEF ChatInv, ChatTypes, OnlySent
<1>2. /\ queue' \in Seq(WaitingSet) /\ DOMAIN queue = 1..Len(queue) /\ Len(queue) \in Nat
      /\ DOMAIN queue' = 1..(Len(queue) + 1)
      /\ \A i \in 1..Len(queue) : queue'[i] = queue[i]
      /\ queue'[Len(queue) + 1] = w
  BY <1>1
<1>3. \A i \in DOMAIN queue' : i \in 1..Len(queue) \/ i = Len(queue) + 1
  BY <1>2
<1> QED BY <1>1, <1>2, <1>3 DEF QueueKnown, A!Sent

(* A step of the process that leaves the chat alone, and the listing alone  *)
(* or off.                                                                 *)
LEMMA ProcessGoesOn ==
  ASSUME ChatInv, UNCHANGED <<chat, now, edits>>,
         wire' \in Seq(UpdateSet), KnownOf(wire)', queue' \in Seq(WaitingSet), QueueKnown',
         HoldsRows(db)', HoldsRows(disk)', DOMAIN disk' \subseteq DOMAIN db',
         \A m \in DOMAIN db' : A!Sent(m),
         TellsTrue(db)', TellsTrue(disk)', KeepsMedia(db)', KeepsMedia(disk)',
         run' \in RunSet, KnownOf(run.page)', (run.pc = "list" => Sweeps)',
         faults' \in 0..MaxFaults
  PROVE  ChatInv'
<1>1. ChatTypes'
  BY DEF ChatInv, ChatTypes
<1>2. SentInOrder'
  BY DEF ChatInv, SentInOrder, A!Sent
<1>3. \A m \in DOMAIN db' : A!Sent(m)'
  BY DEF A!Sent
<1>4. OnlySent'
  BY <1>3 DEF OnlySent
<1> QED BY <1>1, <1>2, <1>4 DEF ChatInv

(* What holds of what a step leaves alone.                                 *)
LEMMA LeftAlone ==
  ASSUME ChatInv, UNCHANGED chat
  PROVE  /\ UNCHANGED wire => wire' \in Seq(UpdateSet) /\ KnownOf(wire)'
         /\ UNCHANGED queue => queue' \in Seq(WaitingSet) /\ QueueKnown'
         /\ UNCHANGED db => HoldsRows(db)' /\ TellsTrue(db)' /\ \A m \in DOMAIN db' : A!Sent(m)
         /\ UNCHANGED disk => HoldsRows(disk)' /\ TellsTrue(disk)'
         /\ UNCHANGED db => KeepsMedia(db)'
         /\ UNCHANGED disk => KeepsMedia(disk)'
         /\ UNCHANGED run => run' \in RunSet /\ KnownOf(run.page)'
         /\ UNCHANGED <<run, db>> => (run.pc = "list" => Sweeps)'
         /\ UNCHANGED faults => faults' \in 0..MaxFaults
         /\ wire' = <<>> => wire' \in Seq(UpdateSet) /\ KnownOf(wire)'
         /\ queue' = <<>> => queue' \in Seq(WaitingSet) /\ QueueKnown'
<1>1. UNCHANGED wire => wire' \in Seq(UpdateSet) /\ KnownOf(wire)'
  BY DEF ChatInv, ChatTypes, OnlySent, KnownOf, A!Sent
<1>2. UNCHANGED queue => queue' \in Seq(WaitingSet) /\ QueueKnown'
  BY DEF ChatInv, ChatTypes, OnlySent, QueueKnown, A!Sent
<1>3. UNCHANGED db => HoldsRows(db)' /\ TellsTrue(db)' /\ \A m \in DOMAIN db' : A!Sent(m)
  BY DEF ChatInv, ChatTypes, OnlySent, HoldsRows, TellsTrue, Edge, A!Lost, A!Sent
<1>4. UNCHANGED disk => HoldsRows(disk)' /\ TellsTrue(disk)'
  BY DEF ChatInv, ChatTypes, HoldsRows, TellsTrue, Edge, A!Lost, A!Sent
<1>5. /\ UNCHANGED db => KeepsMedia(db)'
      /\ UNCHANGED disk => KeepsMedia(disk)'
  BY DEF ChatInv, KeepsMedia, Follows
<1>6. UNCHANGED run => run' \in RunSet /\ KnownOf(run.page)'
  BY DEF ChatInv, ChatTypes, OnlySent, KnownOf, A!Sent
<1>7. UNCHANGED <<run, db>> => (run.pc = "list" => Sweeps)'
  BY DEF ChatInv, Sweeps, ToCome
<1>8. UNCHANGED faults => faults' \in 0..MaxFaults
  BY DEF ChatInv, ChatTypes
<1>9. wire' = <<>> => wire' \in Seq(UpdateSet) /\ KnownOf(wire)'
  BY DEF KnownOf
<1>10. queue' = <<>> => queue' \in Seq(WaitingSet) /\ QueueKnown'
  BY DEF QueueKnown
<1> QED BY <1>1, <1>2, <1>3, <1>4, <1>5, <1>6, <1>7, <1>8, <1>9, <1>10

(* Updates arrive and are handled.                                         *)
LEMMA UpdateArrives == ASSUME ChatInv, A!Arrive PROVE ChatInv'
<1>1. /\ wire # <<>> /\ wire' = Tail(wire) /\ (queue' = Append(queue, Head(wire)) \/ queue' = queue)
      /\ UNCHANGED <<chat, now, db, disk, run, edits, faults>>
  BY DEF A!Arrive
<1>2. wire \in Seq(UpdateSet) /\ KnownOf(wire)
  BY DEF ChatInv, ChatTypes, OnlySent
<1>3. /\ Head(wire) = wire[1] /\ 1 \in DOMAIN wire /\ Head(wire) \in UpdateSet
      /\ wire' \in Seq(UpdateSet) /\ DOMAIN wire' = 1..(Len(wire) - 1) /\ Len(wire) \in Nat
      /\ \A i \in 1..(Len(wire) - 1) : wire'[i] = wire[i + 1] /\ i + 1 \in DOMAIN wire
  BY <1>1, <1>2
<1>4. KnownOf(wire)'
  BY <1>1, <1>2, <1>3 DEF KnownOf, A!Sent
<1>5. Head(wire) \in WaitingSet /\ Head(wire).id \in Ids /\ A!Sent(Head(wire).id)
  BY <1>2, <1>3, ChatSettings DEF KnownOf, UpdateSet, WaitingSet
<1>6. queue' \in Seq(WaitingSet) /\ QueueKnown'
  <2>1. CASE queue' = Append(queue, Head(wire))
    BY <1>1, <1>5, <2>1, QueueGrows
  <2>2. CASE queue' = queue
    BY <1>1, <2>2, LeftAlone
  <2> QED BY <1>1, <2>1, <2>2
<1>7. DOMAIN disk' \subseteq DOMAIN db'
  BY <1>1 DEF ChatInv, ChatTypes
<1> QED BY <1>1, <1>3, <1>4, <1>6, <1>7, LeftAlone, ProcessGoesOn

LEMMA UpdateStored == ASSUME ChatInv, A!Ingest PROVE ChatInv'
<1> DEFINE h == Head(queue)
<1>1. /\ queue # <<>> /\ queue' = Tail(queue) /\ disk' = db' /\ run.pc = "free"
      /\ h.kind \in {"new", "edit"} /\ A!Keep(h)
      /\ UNCHANGED <<chat, now, wire, run, edits>>
  BY DEF A!Ingest, A!Turn
<1>2. /\ h \in WaitingSet /\ queue' \in Seq(WaitingSet) /\ QueueKnown'
      /\ h.id \in Ids /\ A!Sent(h.id)
  BY <1>1, QueueShrinks
<1> HIDE DEF h
<1>3. h.ver \in Nat /\ h.media \in Nat
  BY <1>2 DEF WaitingSet
<1>4. /\ HoldsRows(db)' /\ DOMAIN db' = DOMAIN db \cup {h.id}
      /\ faults' \in 0..MaxFaults /\ TellsTrue(db)' /\ KeepsMedia(db)'
  BY <1>1, <1>2, <1>3, KeepFacts
<1>5. HoldsRows(disk)' /\ TellsTrue(disk)' /\ KeepsMedia(disk)' /\ DOMAIN disk' \subseteq DOMAIN db'
  BY <1>1, <1>4 DEF HoldsRows, TellsTrue, Edge, A!Lost, A!Sent, KeepsMedia, Follows
<1>6. \A m \in DOMAIN db' : A!Sent(m)
  BY <1>2, <1>4 DEF ChatInv, OnlySent
<1>7. (run.pc = "list" => Sweeps)'
  BY <1>1
<1> QED BY <1>1, <1>2, <1>4, <1>5, <1>6, <1>7, LeftAlone, ProcessGoesOn

LEMMA UpdateFails == ASSUME ChatInv, A!HandlerFails PROVE ChatInv'
<1>1. /\ queue # <<>> /\ queue' = Tail(queue) /\ faults' \in 0..MaxFaults
      /\ UNCHANGED <<chat, now, wire, db, disk, run, edits>>
  BY ChatSettings DEF A!HandlerFails, A!Turn, ChatInv, ChatTypes
<1>2. queue' \in Seq(WaitingSet) /\ QueueKnown'
  BY <1>1, QueueShrinks
<1>3. DOMAIN disk' \subseteq DOMAIN db'
  BY <1>1 DEF ChatInv, ChatTypes
<1> QED BY <1>1, <1>2, <1>3, LeftAlone, ProcessGoesOn

LEMMA DeletionStored == ASSUME ChatInv, A!Bury PROVE ChatInv'
<1> DEFINE h == Head(queue)
           S == {h.id} \ A!Present
<1>1. /\ queue # <<>> /\ queue' = Tail(queue) /\ disk' = db' /\ run.pc = "free"
      /\ h.kind = "deleted" /\ db' = A!Tombstones(S, now)
      /\ UNCHANGED <<chat, now, wire, run, edits, faults>>
  BY DEF A!Bury, A!Turn
<1>2. /\ queue' \in Seq(WaitingSet) /\ QueueKnown' /\ h.id \in Ids /\ A!Sent(h.id)
  BY <1>1, QueueShrinks
<1>3. now \in Int /\ \A m \in S \cap DOMAIN db : A!Lost(m)
  BY <1>2 DEF A!Lost, A!Present, ChatInv, ChatTypes
<1> HIDE DEF S, h
<1>4. HoldsRows(db)' /\ DOMAIN db' = DOMAIN db /\ TellsTrue(db)' /\ KeepsMedia(db)'
  BY <1>1, <1>3, TombstoneFacts
<1>5. HoldsRows(disk)' /\ TellsTrue(disk)' /\ KeepsMedia(disk)' /\ DOMAIN disk' \subseteq DOMAIN db'
  BY <1>1, <1>4 DEF HoldsRows, TellsTrue, Edge, A!Lost, A!Sent, KeepsMedia, Follows
<1>6. \A m \in DOMAIN db' : A!Sent(m)
  BY <1>4 DEF ChatInv, OnlySent
<1>7. (run.pc = "list" => Sweeps)'
  BY <1>1
<1> QED BY <1>1, <1>2, <1>4, <1>5, <1>6, <1>7, LeftAlone, ProcessGoesOn

(* A listing begins above every message.                                   *)
LEMMA ListingBegins ==
  ASSUME ChatInv, NEW mode \in {"sync", "watch"}, NEW loop \in BOOLEAN,
         run' = A!Listing(mode, loop), UNCHANGED <<chat, db>>
  PROVE  run' \in RunSet /\ KnownOf(run.page)' /\ Sweeps'
<1>1. PICK top \in Ids : \A j \in Ids : j <= top
  <2>1. IsFiniteSet(Ids) /\ Ids \subseteq Int /\ Ids # {}
    BY ChatSettings
  <2> QED BY <2>1, HasGreatest
<1>2. \E m \in Ids : \A j \in Ids : j <= m
  BY <1>1
<1> DEFINE m == CHOOSE m \in Ids : \A j \in Ids : j <= m
<1>3. m \in Ids /\ \A j \in Ids : j <= m
  BY <1>2
<1>4. A!Above = 1 + m
  BY DEF A!Above
<1> HIDE DEF m
<1>5. A!Above \in Int /\ \A j \in Ids : j < A!Above
  BY <1>3, <1>4, ChatSettings
<1>6. now \in Int
  BY DEF ChatInv, ChatTypes
<1>7. (db = <<>>) \in BOOLEAN
  OBVIOUS
<1>8. run' \in RunSet /\ run'.page = <<>> /\ run'.below = A!Above
  BY <1>5, <1>6, <1>7 DEF A!Listing, RunSet
<1>9. DOMAIN db \subseteq Ids
  BY DEF ChatInv, ChatTypes, HoldsRows
<1>10. DOMAIN run'.page = {}
  BY <1>8
<1>11. \A k \in DOMAIN db' : ToCome(k)'
  BY <1>5, <1>8, <1>9, <1>10 DEF ToCome
<1> QED BY <1>8, <1>10, <1>11 DEF KnownOf, Sweeps

LEMMA ProcessStarts == ASSUME ChatInv, NEW mode \in Modes, A!Start(mode) PROVE ChatInv'
<1>1. /\ run' = A!Listing(mode, FALSE)
      /\ UNCHANGED <<chat, now, wire, queue, db, disk, edits, faults>>
  BY DEF A!Start
<1>2. run' \in RunSet /\ KnownOf(run.page)' /\ Sweeps'
  BY <1>1, ListingBegins, ChatSettings
<1>3. DOMAIN disk' \subseteq DOMAIN db'
  BY <1>1 DEF ChatInv, ChatTypes
<1> QED BY <1>1, <1>2, <1>3, LeftAlone, ProcessGoesOn

LEMMA ListsAgain == ASSUME ChatInv, A!Again PROVE ChatInv'
<1>1. /\ queue # <<>> /\ queue' = Tail(queue) /\ run' = A!Listing("watch", TRUE)
      /\ UNCHANGED <<chat, now, wire, db, disk, edits, faults>>
  BY DEF A!Again, A!Turn
<1>2. run' \in RunSet /\ KnownOf(run.page)' /\ Sweeps'
  BY <1>1, ListingBegins
<1>3. queue' \in Seq(WaitingSet) /\ QueueKnown'
  BY <1>1, QueueShrinks
<1>4. DOMAIN disk' \subseteq DOMAIN db'
  BY <1>1 DEF ChatInv, ChatTypes
<1> QED BY <1>1, <1>2, <1>3, <1>4, LeftAlone, ProcessGoesOn

LEMMA LoopAwakes == ASSUME ChatInv, A!Awake PROVE ChatInv'
<1> DEFINE w == [kind |-> "reconcile", id |-> 0, ver |-> 0, media |-> 0]
<1>1. queue' = Append(queue, w) /\ UNCHANGED <<chat, now, wire, db, disk, run, edits, faults>>
  BY DEF A!Awake
<1>2. w \in WaitingSet /\ w.kind = "reconcile"
  BY DEF WaitingSet
<1> HIDE DEF w
<1>3. queue' \in Seq(WaitingSet) /\ QueueKnown'
  BY <1>1, <1>2, QueueGrows
<1>4. DOMAIN disk' \subseteq DOMAIN db'
  BY <1>1 DEF ChatInv, ChatTypes
<1> QED BY <1>1, <1>3, <1>4, LeftAlone, ProcessGoesOn

(* A page goes down from the newest message, and skips none.               *)
LEMMA PageFacts ==
  ASSUME NEW S, S \subseteq Ids
  PROVE  /\ A!PageOf(S) \in Seq(S)
         /\ \A i, j \in DOMAIN A!PageOf(S) : i < j => A!PageOf(S)[j] < A!PageOf(S)[i]
         /\ \A m \in S : \/ \E i \in DOMAIN A!PageOf(S) : A!PageOf(S)[i] = m
                         \/ \A i \in DOMAIN A!PageOf(S) : m < A!PageOf(S)[i]
<1> DEFINE N == A!Newest(S)
           n == Cardinality(N)
<1>1. \A U : A!Cardinality(U) = Cardinality(U)
  BY DEF A!Cardinality, Cardinality
<1>2. IsFiniteSet(S) /\ S \subseteq Int
  <2>1. S \in SUBSET Ids /\ IsFiniteSet(Ids) /\ Ids \subseteq Int
    BY ChatSettings
  <2> QED BY <2>1, FS_Subset
<1>3. N \subseteq S
  BY DEF A!Newest
<1>4. IsFiniteSet(N) /\ N \subseteq Int /\ n \in Nat
  BY <1>2, <1>3, FS_Subset, FS_CardinalityType
<1>5. ASSUME NEW m \in S, m \notin N, NEW k \in N PROVE m < k
  <2>1. m \in Int /\ k \in Int /\ k \in S
    BY <1>2, <1>3
  <2> SUFFICES ASSUME k < m \/ k = m PROVE FALSE
    BY <2>1
  <2>2. k < m
    BY <1>5
  <2> DEFINE U == {j \in S : j > m}
             V == {j \in S : j > k}
  <2>3. U \subseteq V
    <3>1. \A j \in S : j \in Int
      BY <1>2
    <3>2. \A j \in S : j > m => j > k
      BY <2>1, <2>2, <3>1
    <3> QED BY <3>2
  <2>4. IsFiniteSet(V) /\ IsFiniteSet(U)
    BY <1>2, FS_Subset
  <2>5. Cardinality(V) < Page /\ ~(Cardinality(U) < Page)
    BY <1>1, <1>5 DEF A!Newest
  <2> HIDE DEF U, V
  <2>6. Cardinality(U) <= Cardinality(V) /\ Cardinality(U) \in Nat /\ Cardinality(V) \in Nat
    BY <2>3, <2>4, FS_Subset, FS_CardinalityType
  <2> QED BY <2>5, <2>6, ChatSettings
<1> HIDE DEF N
<1>6. PICK f \in [1..n -> N] : Rises(f, n)
  BY <1>4, CanBeOrdered
<1> DEFINE g == [i \in 1..n |-> f[(n + 1) - i]]
<1>7. ASSUME NEW i \in 1..n PROVE (n + 1) - i \in 1..n /\ g[i] = f[(n + 1) - i] /\ g[i] \in N
  <2>1. (n + 1) - i \in 1..n
    BY <1>4
  <2> QED BY <1>6, <2>1
<1>8. g \in [1..n -> N]
  BY <1>7
<1>9. ASSUME NEW i \in 1..n, NEW j \in 1..n, i < j PROVE g[i] > g[j]
  <2> DEFINE a == (n + 1) - i
             b == (n + 1) - j
  <2>1. a \in 1..n /\ b \in 1..n /\ b < a /\ g[i] = f[a] /\ g[j] = f[b] /\ f[a] \in Int /\ f[b] \in Int
    <3>1. b < a
      BY <1>4, <1>9
    <3> QED BY <1>4, <1>6, <1>7, <3>1
  <2> HIDE DEF a, b, g
  <2>2. f[b] < f[a]
    BY <1>6, <2>1 DEF Rises
  <2> QED BY <2>1, <2>2
<1>10. \E p \in [1..n -> N] : \A i, j \in DOMAIN p : i < j => p[i] > p[j]
  BY <1>8, <1>9
<1> DEFINE p == A!PageOf(S)
<1>11. p = CHOOSE x \in [1..n -> N] : \A i, j \in DOMAIN x : i < j => x[i] > x[j]
  BY <1>1 DEF A!PageOf, N
<1> HIDE DEF p, g
<1>12. p \in [1..n -> N] /\ \A i, j \in DOMAIN p : i < j => p[i] > p[j]
  BY <1>10, <1>11
<1>13. p \in Seq(S) /\ DOMAIN p = 1..n
  <2>1. p \in [1..n -> S]
    BY <1>3, <1>12
  <2> QED BY <1>4, <2>1
<1>14. ASSUME NEW i \in 1..n, NEW j \in 1..n, i < j PROVE p[j] < p[i]
  <2>1. p[i] > p[j] /\ p[i] \in Int /\ p[j] \in Int
    BY <1>4, <1>12, <1>14
  <2> QED BY <2>1
<1>15. ASSUME NEW m \in N PROVE \E i \in 1..n : p[i] = m
  <2> DEFINE q == [i \in 1..n |-> p[(n + 1) - i]]
  <2>1. ASSUME NEW i \in 1..n PROVE (n + 1) - i \in 1..n /\ q[i] = p[(n + 1) - i] /\ q[i] \in N
    <3>1. (n + 1) - i \in 1..n
      BY <1>4
    <3> QED BY <1>12, <3>1
  <2>2. q \in [1..n -> N]
    BY <2>1
  <2>3. ASSUME NEW i \in 1..n, NEW j \in 1..n, i < j PROVE q[i] < q[j]
    <3>1. (n + 1) - j < (n + 1) - i
      BY <1>4, <2>3
    <3> QED BY <1>14, <2>1, <3>1
  <2>4. Rises(q, n)
    BY <2>3 DEF Rises
  <2> HIDE DEF q
  <2>5. \A x \in N : \E i \in 1..Cardinality(N) : q[i] = x
    BY <1>4, <2>2, <2>4, OrderedCovers
  <2>6. PICK i \in 1..n : q[i] = m
    BY <2>5
  <2> QED BY <2>1, <2>6
<1>16. ASSUME NEW m \in S
       PROVE  (\E i \in DOMAIN p : p[i] = m) \/ (\A i \in DOMAIN p : m < p[i])
  <2>1. CASE m \in N
    BY <1>13, <1>15, <2>1
  <2>2. CASE m \notin N
    BY <1>5, <1>12, <1>13, <2>2
  <2> QED BY <2>1, <2>2
<1>17. \A i, j \in DOMAIN p : i < j => p[j] < p[i]
  BY <1>13, <1>14
<1> QED BY <1>13, <1>16, <1>17 DEF p

LEMMA PageFetched == ASSUME ChatInv, A!FetchPage PROVE ChatInv'
<1> DEFINE p == A!PageOf(A!Older)
           page == [i \in DOMAIN p |-> A!Known("listed", p[i])]
<1>1. /\ run' = [run EXCEPT !.page = page] /\ run.pc = "list" /\ run.page = <<>>
      /\ UNCHANGED <<chat, now, wire, queue, db, disk, edits, faults>>
  BY DEF A!FetchPage
<1>2. chat \in [Ids -> MessageSet] /\ run \in RunSet /\ Sweeps /\ SentInOrder /\ DOMAIN db \subseteq Ids
  BY <1>1 DEF ChatInv, ChatTypes, HoldsRows
<1>3. \A m : m \in A!Older <=> m \in Ids /\ chat[m].there /\ m < run.below
  BY DEF A!Older, A!Present
<1>4. /\ p \in Seq(A!Older)
      /\ \A i, j \in DOMAIN p : i < j => p[j] < p[i]
      /\ \A m \in A!Older : (\E i \in DOMAIN p : p[i] = m) \/ (\A i \in DOMAIN p : m < p[i])
  BY <1>3, PageFacts
<1> HIDE DEF p
<1>5. \A i \in DOMAIN p : p[i] \in Ids /\ chat[p[i]].there /\ p[i] < run.below
                            /\ chat[p[i]].ver \in Nat /\ chat[p[i]].media \in Nat
  <2>1. \A i \in DOMAIN p : p[i] \in A!Older
    BY <1>4
  <2> QED BY <1>2, <1>3, <2>1 DEF MessageSet
<1>6. /\ DOMAIN page = DOMAIN p /\ DOMAIN p = 1..Len(p) /\ Len(p) \in Nat
      /\ \A i \in DOMAIN p : page[i] \in ListedSet /\ page[i].id = p[i]
  BY <1>4, <1>5 DEF ListedSet, A!Known
<1>7. page \in Seq(ListedSet)
  BY <1>6
<1> HIDE DEF page
<1>8. run' \in RunSet /\ run'.page = page /\ run'.below = run.below /\ run'.seen = run.seen
  BY <1>1, <1>2, <1>7 DEF RunSet
<1>9. KnownOf(run.page)'
  <2>1. \A i \in DOMAIN p : A!Sent(p[i])
    BY <1>2, <1>5 DEF SentInOrder
  <2> QED BY <1>1, <1>5, <1>6, <1>8, <2>1 DEF KnownOf, A!Sent
<1>10. Sweeps'
  <2>1. \A i, j \in DOMAIN page : i < j => page[j].id < page[i].id
    BY <1>4, <1>6
  <2>2. \A i \in DOMAIN page : page[i].id < run.below
    BY <1>5, <1>6
  <2>3. ASSUME NEW m \in DOMAIN db \ run.seen, chat[m].there
        PROVE  /\ m < run.below
               /\ (\E i \in DOMAIN page : page[i].id = m) \/ (\A i \in DOMAIN page : m < page[i].id)
    <3>1. m < run.below
      BY <1>2, <2>3 DEF Sweeps, ToCome
    <3>2. m \in A!Older
      BY <1>2, <1>3, <2>3, <3>1
    <3> QED BY <1>4, <1>6, <3>1, <3>2
  <2> QED BY <1>1, <1>8, <2>1, <2>2, <2>3 DEF Sweeps, ToCome
<1>11. DOMAIN disk' \subseteq DOMAIN db'
  BY <1>1 DEF ChatInv, ChatTypes
<1> QED BY <1>1, <1>8, <1>9, <1>10, <1>11, LeftAlone, ProcessGoesOn

LEMMA MessageVisited == ASSUME ChatInv, A!Visit PROVE ChatInv'
<1> DEFINE h == Head(run.page)
<1>1. /\ run.pc = "list" /\ run.page # <<>> /\ A!Keep(h)
      /\ run' = [run EXCEPT !.page = Tail(@), !.below = h.id, !.seen = @ \cup {h.id}]
      /\ UNCHANGED <<chat, now, wire, queue, disk, edits>>
  BY DEF A!Visit
<1>2. run \in RunSet /\ run.page \in Seq(ListedSet) /\ run.seen \subseteq Ids
  BY DEF ChatInv, ChatTypes, RunSet
<1> DEFINE page == run.page
           n == Len(page)
<1>3. /\ n \in Nat /\ n > 0 /\ DOMAIN page = 1..n /\ 1 \in DOMAIN page
      /\ h = page[1] /\ h \in ListedSet
      /\ Tail(page) \in Seq(ListedSet) /\ DOMAIN Tail(page) = 1..(n - 1)
      /\ \A i \in 1..(n - 1) : Tail(page)[i] = page[i + 1] /\ i + 1 \in DOMAIN page
  BY <1>1, <1>2
<1> HIDE DEF h
<1>4. h.id \in Ids /\ h.ver \in Nat /\ h.media \in Nat /\ h.id \in Int
  <2>1. h.id \in Ids /\ h.ver \in Nat /\ h.media \in Nat
    BY <1>3 DEF ListedSet
  <2>2. \A m \in Ids : m \in Int
    BY ChatSettings
  <2> QED BY <2>1, <2>2
<1>5. A!Sent(h.id) /\ KnownOf(page) /\ Sweeps
  BY <1>1, <1>3 DEF ChatInv, OnlySent, KnownOf
<1>6. /\ HoldsRows(db)' /\ DOMAIN db' = DOMAIN db \cup {h.id}
      /\ faults' \in 0..MaxFaults /\ TellsTrue(db)' /\ KeepsMedia(db)'
  BY <1>1, <1>4, <1>5, KeepFacts
<1>7. KeepsMedia(disk)'
  BY <1>1, LeftAlone
<1>8. \A m \in DOMAIN db' : A!Sent(m)
  BY <1>5, <1>6 DEF ChatInv, OnlySent
<1>9. run' \in RunSet /\ run'.page = Tail(page) /\ run'.below = h.id /\ run'.seen = run.seen \cup {h.id}
  <2> DEFINE a == [run EXCEPT !.page = Tail(page)]
             b == [a EXCEPT !.below = h.id]
  <2>1. a \in RunSet
    BY <1>2, <1>3 DEF RunSet
  <2>2. b \in RunSet
    <3> HIDE DEF a
    <3> QED BY <1>4, <2>1 DEF RunSet, b
  <2>3. run' = [b EXCEPT !.seen = run.seen \cup {h.id}]
    BY <1>1, <1>2 DEF RunSet
  <2>4. run.seen \cup {h.id} \subseteq Ids
    BY <1>2, <1>4
  <2>5. run' \in RunSet
    <3> HIDE DEF a, b
    <3> QED BY <2>2, <2>3, <2>4 DEF RunSet
  <2> QED BY <1>1, <1>2, <2>5 DEF RunSet
<1>10. KnownOf(run.page)'
  BY <1>1, <1>3, <1>5, <1>9 DEF KnownOf, A!Sent
<1>11. Sweeps'
  <2> DEFINE rest == Tail(page)
  <2>1. \A i, j \in DOMAIN rest : i < j => rest[j].id < rest[i].id
    <3>1. \A i, j \in DOMAIN rest : i < j => i + 1 < j + 1
      BY <1>3
    <3> QED BY <1>3, <1>5, <3>1 DEF Sweeps
  <2>2. \A i \in DOMAIN rest : rest[i].id < h.id
    <3>1. \A i \in DOMAIN rest : 1 < i + 1
      BY <1>3
    <3> QED BY <1>3, <1>5, <3>1 DEF Sweeps
  <2>3. ASSUME NEW m \in DOMAIN db' \ run'.seen, chat[m].there
        PROVE  /\ m < h.id
               /\ (\E i \in DOMAIN rest : rest[i].id = m) \/ (\A i \in DOMAIN rest : m < rest[i].id)
    <3>1. m \in DOMAIN db /\ m \notin run.seen /\ m # h.id
      BY <1>6, <1>9, <2>3
    <3>2. (\E i \in DOMAIN page : page[i].id = m) \/ (\A i \in DOMAIN page : m < page[i].id)
      BY <1>5, <2>3, <3>1 DEF Sweeps, ToCome
    <3>3. CASE \E i \in DOMAIN page : page[i].id = m
      <4>1. PICK i \in DOMAIN page : page[i].id = m
        BY <3>3
      <4>2. i # 1
        BY <1>3, <3>1, <4>1
      <4>3. i - 1 \in DOMAIN rest /\ (i - 1) + 1 = i
        BY <1>3, <4>2
      <4>4. rest[i - 1] = page[i]
        BY <1>3, <4>3
      <4> HIDE DEF rest
      <4> QED BY <2>2, <4>1, <4>3, <4>4
    <3>4. CASE \A i \in DOMAIN page : m < page[i].id
      BY <1>3, <3>4
    <3> QED BY <3>2, <3>3, <3>4
  <2> HIDE DEF rest
  <2>4. run'.page = rest /\ run'.below = h.id /\ chat' = chat
    BY <1>1, <1>9 DEF rest
  <2> QED BY <2>1, <2>2, <2>3, <2>4 DEF Sweeps, ToCome
<1>12. DOMAIN disk' \subseteq DOMAIN db'
  BY <1>1, <1>6 DEF ChatInv, ChatTypes
<1> QED BY <1>1, <1>6, <1>7, <1>8, <1>9, <1>10, <1>11, <1>12, LeftAlone, ProcessGoesOn

(* When the listing has ended, what has a row in the window and was not     *)
(* seen is gone, for it is neither on the page nor below it, or it was sent *)
(* in the second in which the window begins.                               *)
LEMMA MissingIsGone ==
  ASSUME ChatInv, A!Listed, NEW m \in A!Missing
  PROVE  A!Lost(m) \/ run.at = chat[m].at + Horizon
<1>1. /\ run.pc = "list" /\ run \in RunSet /\ Sweeps /\ SentInOrder /\ chat \in [Ids -> MessageSet]
      /\ DOMAIN db \subseteq Ids /\ KnownOf(run.page)
      /\ IF run.page = <<>> THEN A!Older = {} ELSE A!AtBeyond(Head(run.page).id)
  BY DEF A!Listed, ChatInv, ChatTypes, HoldsRows, OnlySent
<1>2. m \in DOMAIN db \ run.seen /\ m \in Ids /\ A!Sent(m) /\ chat[m].at >= A!Cutoff
  BY <1>1 DEF A!Missing, A!Rows, ChatInv, OnlySent
<1> SUFFICES ASSUME chat[m].there PROVE run.at = chat[m].at + Horizon
  BY <1>2 DEF A!Lost
<1>3. ToCome(m)
  BY <1>1, <1>2 DEF Sweeps
<1>4. CASE run.page = <<>>
  <2>1. m \in A!Older
    BY <1>2, <1>3 DEF A!Older, A!Present, ToCome
  <2> QED BY <1>1, <1>4, <2>1
<1>5. CASE run.page # <<>>
  <2> DEFINE h == run.page[1].id
  <2>1. run.page \in Seq(ListedSet)
    BY <1>1 DEF RunSet
  <2>2. 1 \in DOMAIN run.page /\ Head(run.page) = run.page[1] /\ \A i \in DOMAIN run.page : i \in Nat /\ (i = 1 \/ 1 < i)
    BY <1>5, <2>1
  <2>3. h \in Ids /\ A!Sent(h) /\ chat[h].at <= A!Cutoff
    BY <1>1, <1>5, <2>2 DEF KnownOf, A!AtBeyond
  <2> HIDE DEF h
  <2>4. m = h \/ m < h
    <3>1. ASSUME NEW i \in DOMAIN run.page, run.page[i].id = m PROVE m = h \/ m < h
      BY <1>1, <2>2, <3>1 DEF Sweeps, h
    <3>2. ASSUME \A i \in DOMAIN run.page : m < run.page[i].id PROVE m < h
      BY <2>2, <3>2 DEF h
    <3> QED BY <1>3, <3>1, <3>2 DEF ToCome
  <2>5. chat[m].at \in Int /\ chat[h].at \in Int /\ run.at \in Int /\ A!Cutoff = run.at - Horizon
    BY <1>1, <1>2, <2>3 DEF MessageSet, RunSet, A!Cutoff
  <2>6. chat[m].at <= chat[h].at
    <3>1. CASE m = h
      BY <2>5, <3>1
    <3>2. CASE m < h
      BY <1>1, <1>2, <2>3, <3>2 DEF SentInOrder
    <3> QED BY <2>4, <3>1, <3>2
  <2> QED BY <1>2, <2>3, <2>5, <2>6, ChatSettings
<1> QED BY <1>4, <1>5

LEMMA OffFacts ==
  /\ A!Off \in RunSet /\ A!Off.pc = "off" /\ A!Off.page = <<>>
  /\ \A loop \in BOOLEAN :
       LET free == [A!Off EXCEPT !.mode = "watch", !.pc = "free", !.loop = loop]
       IN  free \in RunSet /\ free.pc = "free" /\ free.page = <<>>
  /\ LET free == [A!Off EXCEPT !.mode = "watch", !.pc = "free"]
     IN  free \in RunSet /\ free.pc = "free" /\ free.page = <<>>
<1> DEFINE off == A!Off
           watch == [off EXCEPT !.mode = "watch"]
           ready == [watch EXCEPT !.pc = "free"]
<1>1. off \in RunSet /\ off.pc = "off" /\ off.page = <<>>
  BY DEF A!Off, RunSet
<1>2. watch \in RunSet /\ watch.page = <<>>
  <2> HIDE DEF off
  <2> QED BY <1>1 DEF RunSet
<1>3. ready \in RunSet /\ ready.pc = "free" /\ ready.page = <<>>
  <2> HIDE DEF watch
  <2> QED BY <1>2 DEF RunSet
<1>4. ASSUME NEW loop \in BOOLEAN
      PROVE  LET free == [ready EXCEPT !.loop = loop]
             IN  free \in RunSet /\ free.pc = "free" /\ free.page = <<>>
  <2> HIDE DEF ready
  <2> QED BY <1>3 DEF RunSet
<1>5. \A loop \in BOOLEAN :
        [A!Off EXCEPT !.mode = "watch", !.pc = "free", !.loop = loop] = [ready EXCEPT !.loop = loop]
  OBVIOUS
<1> QED BY <1>1, <1>3, <1>4, <1>5

LEMMA ListingEnds == ASSUME ChatInv, A!Finish PROVE ChatInv'
<1>1. /\ A!Listed /\ db' = A!Tombstones(A!Missing, run.at) /\ disk' = db'
      /\ UNCHANGED <<chat, now, wire, queue, edits, faults>>
  BY DEF A!Finish
<1>2. run.at \in Int /\ \A m \in A!Missing \cap DOMAIN db : A!Lost(m) \/ run.at = chat[m].at + Horizon
  BY <1>1, MissingIsGone DEF ChatInv, ChatTypes, RunSet
<1>3. HoldsRows(db)' /\ DOMAIN db' = DOMAIN db /\ TellsTrue(db)' /\ KeepsMedia(db)'
  BY <1>1, <1>2, TombstoneFacts
<1>4. HoldsRows(disk)' /\ TellsTrue(disk)' /\ KeepsMedia(disk)' /\ DOMAIN disk' \subseteq DOMAIN db'
  BY <1>1, <1>3 DEF HoldsRows, TellsTrue, Edge, A!Lost, A!Sent, KeepsMedia, Follows
<1>5. \A m \in DOMAIN db' : A!Sent(m)
  BY <1>3 DEF ChatInv, OnlySent
<1>6. run' = A!Off \/ run' = [A!Off EXCEPT !.mode = "watch", !.pc = "free", !.loop = TRUE]
  BY DEF A!Finish
<1>7. run' \in RunSet /\ run'.pc \in {"off", "free"} /\ run'.page = <<>>
  BY <1>6, OffFacts
<1>8. KnownOf(run.page)' /\ (run.pc = "list" => Sweeps)'
  BY <1>7 DEF KnownOf
<1> QED BY <1>1, <1>3, <1>4, <1>5, <1>7, <1>8, LeftAlone, ProcessGoesOn

LEMMA LoopEnds == ASSUME ChatInv, A!LoopDies PROVE ChatInv'
<1>1. /\ run' = [A!Off EXCEPT !.mode = "watch", !.pc = "free"] /\ faults' \in 0..MaxFaults
      /\ UNCHANGED <<chat, now, wire, queue, db, disk, edits>>
  BY ChatSettings DEF A!LoopDies, ChatInv, ChatTypes
<1>2. run' \in RunSet /\ run'.pc = "free" /\ run'.page = <<>>
  BY <1>1, OffFacts
<1>3. KnownOf(run.page)' /\ (run.pc = "list" => Sweeps)'
  BY <1>2 DEF KnownOf
<1>4. DOMAIN disk' \subseteq DOMAIN db'
  BY <1>1 DEF ChatInv, ChatTypes
<1> QED BY <1>1, <1>2, <1>3, <1>4, LeftAlone, ProcessGoesOn

LEMMA ProcessDies == ASSUME ChatInv, A!Die PROVE ChatInv'
<1>1. /\ run' = A!Off /\ db' = disk /\ wire' = <<>> /\ queue' = <<>> /\ faults' \in 0..MaxFaults
      /\ UNCHANGED <<chat, now, disk, edits>>
  BY ChatSettings DEF A!Die, A!Down, ChatInv, ChatTypes
<1>2. run' \in RunSet /\ run'.pc = "off" /\ run'.page = <<>>
  BY <1>1, OffFacts
<1>3. KnownOf(run.page)' /\ (run.pc = "list" => Sweeps)'
  BY <1>2 DEF KnownOf
<1>4. HoldsRows(disk)' /\ TellsTrue(disk)' /\ KeepsMedia(disk)'
  BY <1>1, LeftAlone
<1>5. HoldsRows(db)' /\ TellsTrue(db)' /\ KeepsMedia(db)' /\ DOMAIN disk' \subseteq DOMAIN db'
  BY <1>1, <1>4 DEF HoldsRows, TellsTrue, Edge, A!Lost, A!Sent, KeepsMedia, Follows
<1>6. \A m \in DOMAIN db' : A!Sent(m)
  BY <1>1 DEF ChatInv, ChatTypes, OnlySent
<1> QED BY <1>1, <1>2, <1>3, <1>4, <1>5, <1>6, LeftAlone, ProcessGoesOn

LEMMA NextChat == ASSUME ChatInv, A!Next PROVE ChatInv'
<1>1. CASE A!World
  BY <1>1, WorldGoesOn
<1>2. CASE A!Launch
  BY <1>2, ProcessStarts DEF A!Launch
<1>3. CASE A!Awake
  BY <1>3, LoopAwakes
<1>4. CASE A!Handle
  BY <1>4, UpdateArrives, UpdateStored, DeletionStored, ListsAgain DEF A!Handle
<1>5. CASE A!List
  BY <1>5, PageFetched, MessageVisited, ListingEnds DEF A!List
<1>6. CASE A!HandlerFails \/ A!LoopDies \/ A!Die
  BY <1>6, UpdateFails, LoopEnds, ProcessDies
<1> QED BY <1>1, <1>2, <1>3, <1>4, <1>5, <1>6 DEF A!Next, A!Process

LEMMA ChatStutters == ASSUME ChatInv, UNCHANGED A!vars PROVE ChatInv'
<1>1. UNCHANGED <<chat, now, wire, queue, db, disk, run, edits, faults>>
  BY DEF A!vars
<1>2. DOMAIN disk' \subseteq DOMAIN db'
  BY <1>1 DEF ChatInv, ChatTypes
<1> QED BY <1>1, <1>2, LeftAlone, ProcessGoesOn

LEMMA ChatIsTrue ==
  ASSUME ChatInv
  PROVE  A!TypeOK /\ A!NoFalseTombstone /\ A!MediaOutlivesMessage
<1>1. A!TypeOK
  <2>1. run \in RunSet /\ HoldsRows(db) /\ DOMAIN disk \subseteq DOMAIN db
        /\ faults \in 0..MaxFaults /\ edits \in 0..MaxEdits
    BY DEF ChatInv, ChatTypes
  <2>2. \A m \in DOMAIN db : db[m].revs # <<>> /\ db[m].gone \in A!Reasons
    BY <2>1 DEF HoldsRows, RowSet
  <2>3. DOMAIN db \subseteq Ids
    BY <2>1 DEF HoldsRows
  <2>4. run.pc \in {"off", "list", "free"} /\ run.seen \subseteq Ids
    BY <2>1 DEF RunSet
  <2> QED BY <2>1, <2>2, <2>3, <2>4 DEF A!TypeOK, A!Rows
<1>2. A!NoFalseTombstone
  BY DEF ChatInv, TellsTrue, Edge, A!NoFalseTombstone, A!AtTheEdge
<1>3. A!MediaOutlivesMessage
  BY DEF ChatInv, KeepsMedia, Follows, A!MediaOutlivesMessage
<1> QED BY <1>1, <1>2, <1>3

(* The archive of a chat (reconcile, ingest_message, mark_missing_deleted): *)
(* whatever listing, update, deletion, failed request and death cross, a    *)
(* message that the archive says was deleted was, or was sent in the very   *)
(* second in which the window of the listing that missed it began; and a    *)
(* file that was archived stays with the revisions of the same medium.      *)
THEOREM ChatStaysTrue == A!Spec => [](A!TypeOK /\ A!NoFalseTombstone /\ A!MediaOutlivesMessage)
<1>1. A!Init => ChatInv
  BY InitChat
<1>2. ChatInv /\ [A!Next]_(A!vars) => ChatInv'
  BY NextChat, ChatStutters
<1>3. ChatInv => A!TypeOK /\ A!NoFalseTombstone /\ A!MediaOutlivesMessage
  BY ChatIsTrue
<1> QED BY <1>1, <1>2, <1>3, PTL DEF A!Spec

-----------------------------------------------------------------------------
(* The export of the chat.                                                 *)
OfMonth(S, mo) == {m \in S : MonthOf[m] = mo}

(* An archive that may be published holds, in the file of each month, the   *)
(* first messages of that month; its cursor has nothing missing before it.  *)
Exact(a, top) ==
  /\ a \in H!Archives
  /\ \A mo \in H!Months : a.files[mo] = H!InOrder(OfMonth(H!Archived(a), mo))
  /\ \A m \in H!Archived(a), j \in H!Messages :
       j < m /\ MonthOf[j] = MonthOf[m] => j \in H!Archived(a)
  /\ \A j \in H!Messages : j <= a.cursor => j \in H!Archived(a)
  /\ \A m \in H!Archived(a) : m <= top
  /\ a.cursor <= top
AllExact(q, top) == q \in Seq(H!Archives) /\ q # <<>> /\ \A i \in DOMAIN q : Exact(q[i], top)

ExportPcs == {"idle", "rescue", "prepare", "collect", "write", "commit", "push", "unmark"}
ExportSet == [pc : ExportPcs, base : Seq(H!Archives), todo : SUBSET H!Months,
              records : SUBSET H!Messages]

(* A run writes the messages after the cursor, and what an earlier one left *)
(* behind is among them.                                                   *)
Writing ==
  /\ \A m \in export.records : work.cursor < m /\ m <= sent
  /\ \A m \in export.records, j \in H!Messages : work.cursor < j /\ j < m => j \in export.records
  /\ \A m \in H!Archived(work) : work.cursor < m => m \in export.records
  /\ \A m \in export.records : MonthOf[m] \notin export.todo => m \in H!Archived(work)

ExportInv ==
  /\ private \in BOOLEAN /\ sent \in 0..Len(MonthOf)
  /\ AllExact(remote, sent) /\ AllExact(local, sent) /\ Exact(work, sent)
  /\ IsFiniteSet(marker) /\ Cardinality(marker) <= 1
  /\ export \in ExportSet
  /\ export.pc = "write" => Writing
  /\ foreign \in 0..MaxForeign /\ faults \in 0..MaxExportFaults

(* The messages of an export are numbers.                                  *)
LEMMA ExportFacts ==
  /\ Len(MonthOf) \in Nat /\ H!Messages = 1..Len(MonthOf) /\ IsFiniteSet(H!Messages)
  /\ \A m \in H!Messages : m \in Nat /\ m > 0 /\ m <= Len(MonthOf)
  /\ \A m \in H!Messages : MonthOf[m] \in Nat /\ MonthOf[m] \in H!Months
  /\ MaxForeign \in Nat /\ MaxExportFaults \in Nat
<1>1. Len(MonthOf) \in Nat /\ H!Messages = 1..Len(MonthOf)
  BY ExportAssumption DEF H!Messages
<1>2. IsFiniteSet(H!Messages)
  BY <1>1, FS_Interval
<1>3. \A m \in H!Messages : m \in Nat /\ m > 0 /\ m <= Len(MonthOf)
  BY <1>1
<1>4. \A m \in H!Messages : MonthOf[m] \in Nat /\ MonthOf[m] \in H!Months
  BY <1>1, ExportAssumption DEF H!Months
<1> QED BY <1>1, <1>2, <1>3, <1>4, ExportAssumption

LEMMA SomeMessages ==
  ASSUME NEW S, S \subseteq H!Messages
  PROVE  IsFiniteSet(S) /\ S \subseteq Int
<1>1. S \in SUBSET H!Messages /\ IsFiniteSet(H!Messages)
  BY ExportFacts
<1>2. IsFiniteSet(S)
  BY <1>1, FS_Subset
<1>3. \A m \in S : m \in Int
  BY ExportFacts
<1> QED BY <1>2, <1>3

(* InOrder lists a finite set once, in order,                              *)
LEMMA InOrderFacts ==
  ASSUME NEW S, IsFiniteSet(S), S \subseteq Int
  PROVE  /\ Cardinality(S) \in Nat
         /\ H!InOrder(S) \in [1..Cardinality(S) -> S] /\ Rises(H!InOrder(S), Cardinality(S))
         /\ H!InOrder(S) \in Seq(S) /\ Len(H!InOrder(S)) = Cardinality(S)
         /\ H!Range(H!InOrder(S)) = S
<1> DEFINE n == Cardinality(S)
           q == H!InOrder(S)
<1>1. n \in Nat /\ n = H!Cardinality(S)
  BY FS_CardinalityType DEF H!Cardinality, Cardinality
<1>2. \E f \in [1..n -> S] : \A i, j \in DOMAIN f : i < j => f[i] < f[j]
  <2>1. PICK f \in [1..n -> S] : Rises(f, n)
    BY CanBeOrdered
  <2>2. DOMAIN f = 1..n
    BY <2>1
  <2> QED BY <2>1, <2>2 DEF Rises
<1>3. q \in [1..n -> S] /\ \A i, j \in DOMAIN q : i < j => q[i] < q[j]
  <2>1. q = CHOOSE f \in [1..n -> S] : \A i, j \in DOMAIN f : i < j => f[i] < f[j]
    BY <1>1 DEF H!InOrder
  <2> HIDE DEF q
  <2> QED BY <1>2, <2>1
<1> HIDE DEF q
<1>4. Rises(q, n)
  <2>1. DOMAIN q = 1..n
    BY <1>3
  <2> QED BY <1>3, <2>1 DEF Rises
<1>5. \A x \in S : \E i \in 1..n : q[i] = x
  BY <1>3, <1>4, OrderedCovers
<1>6. H!Range(q) = S
  BY <1>3, <1>5 DEF H!Range
<1>7. q \in Seq(S) /\ Len(q) = n
  BY <1>1, <1>3
<1> QED BY <1>1, <1>3, <1>4, <1>6, <1>7 DEF q

(* and what comes later can be appended.                                   *)
LEMMA ListingsJoin ==
  ASSUME NEW S, IsFiniteSet(S), S \subseteq Int, NEW T1, IsFiniteSet(T1), T1 \subseteq Int,
         \A x \in S, y \in T1 : x < y
  PROVE  H!InOrder(S) \o H!InOrder(T1) = H!InOrder(S \cup T1)
<1> DEFINE n == Cardinality(S)
           k == Cardinality(T1)
           s == H!InOrder(S)
           t == H!InOrder(T1)
           U == S \cup T1
           g == s \o t
<1>1. /\ n \in Nat /\ s \in [1..n -> S] /\ Rises(s, n) /\ s \in Seq(S) /\ Len(s) = n
      /\ k \in Nat /\ t \in [1..k -> T1] /\ Rises(t, k) /\ t \in Seq(T1) /\ Len(t) = k
  BY InOrderFacts
<1>2. IsFiniteSet(U) /\ U \subseteq Int /\ Cardinality(U) = n + k
  <2>1. S \cap T1 = {}
    <3>1. \A x \in S : ~(x < x)
      OBVIOUS
    <3> QED BY <3>1
  <2>2. Cardinality(S \cap T1) = 0
    BY <2>1, FS_EmptySet
  <2>3. IsFiniteSet(U) /\ Cardinality(U) = n + k - Cardinality(S \cap T1)
    BY FS_Union
  <2> HIDE DEF n, k
  <2> QED BY <1>1, <2>2, <2>3
<1> HIDE DEF s, t, n, k
<1>3. /\ g \in Seq(U) /\ Len(g) = n + k
      /\ \A i \in 1..n : g[i] = s[i]
      /\ \A i \in 1..(n + k) : i > n => g[i] = t[i - n] /\ i - n \in 1..k
  <2>1. s \in Seq(U) /\ t \in Seq(U)
    <3>1. s \in [1..n -> U] /\ t \in [1..k -> U]
      BY <1>1
    <3> QED BY <1>1, <3>1
  <2>2. g \in Seq(U) /\ Len(g) = n + k
    BY <1>1, <2>1
  <2>3. \A i \in 1..n : g[i] = s[i]
    BY <1>1
  <2>4. \A i \in 1..(n + k) : i > n => g[i] = t[i - n] /\ i - n \in 1..k
    BY <1>1
  <2> QED BY <2>2, <2>3, <2>4
<1> HIDE DEF g, U
<1>4. g \in [1..(n + k) -> U]
  BY <1>1, <1>3
<1>5. Rises(g, n + k)
  <2> SUFFICES ASSUME NEW i \in 1..(n + k), NEW j \in 1..(n + k), i < j PROVE g[i] < g[j]
    BY DEF Rises
  <2>1. i \in Int /\ j \in Int
    BY <1>1
  <2>2. CASE i <= n /\ j <= n
    <3>1. i \in 1..n /\ j \in 1..n
      BY <1>1, <2>1, <2>2
    <3> QED BY <1>1, <1>3, <3>1 DEF Rises
  <2>3. CASE i <= n /\ j > n
    <3>1. i \in 1..n /\ j - n \in 1..k /\ g[i] = s[i] /\ g[j] = t[j - n]
      BY <1>1, <1>3, <2>1, <2>3
    <3>2. s[i] \in S /\ t[j - n] \in T1
      BY <1>1, <3>1
    <3> QED BY <3>1, <3>2
  <2>4. CASE i > n
    <3>1. i - n \in 1..k /\ j - n \in 1..k /\ g[i] = t[i - n] /\ g[j] = t[j - n] /\ i - n < j - n
      BY <1>1, <1>3, <2>1, <2>4
    <3> QED BY <1>1, <3>1 DEF Rises
  <2> QED BY <1>1, <2>1, <2>2, <2>3, <2>4
<1>6. H!InOrder(U) \in [1..(n + k) -> U] /\ Rises(H!InOrder(U), n + k)
  BY <1>2, InOrderFacts
<1>7. g = H!InOrder(U)
  BY <1>2, <1>4, <1>5, <1>6, OrderedOnce
<1> QED BY <1>7 DEF g, s, t, U

(* What an exact archive holds, file by file.                              *)
LEMMA ExactFacts ==
  ASSUME NEW a, NEW top, Exact(a, top)
  PROVE  /\ H!Archived(a) \subseteq H!Messages
         /\ \A mo \in H!Months : H!Range(a.files[mo]) = OfMonth(H!Archived(a), mo)
<1>1. /\ a \in H!Archives
      /\ \A mo \in H!Months : a.files[mo] = H!InOrder(OfMonth(H!Archived(a), mo))
  BY DEF Exact
<1>2. \A mo \in H!Months : a.files[mo] \in Seq(H!Messages)
  BY <1>1 DEF H!Archives
<1>3. \A mo \in H!Months : H!Range(a.files[mo]) \subseteq H!Messages
  <2> SUFFICES ASSUME NEW mo \in H!Months PROVE H!Range(a.files[mo]) \subseteq H!Messages
    OBVIOUS
  <2> DEFINE q == a.files[mo]
  <2>1. q \in Seq(H!Messages)
    BY <1>2
  <2> HIDE DEF q
  <2>2. H!Range(q) \subseteq H!Messages
    BY <2>1 DEF H!Range
  <2> QED BY <2>2 DEF q
<1>4. H!Archived(a) \subseteq H!Messages
  BY <1>3 DEF H!Archived
<1>5. ASSUME NEW mo \in H!Months PROVE H!Range(a.files[mo]) = OfMonth(H!Archived(a), mo)
  <2>1. OfMonth(H!Archived(a), mo) \subseteq H!Messages
    BY <1>4 DEF OfMonth
  <2>2. H!Range(H!InOrder(OfMonth(H!Archived(a), mo))) = OfMonth(H!Archived(a), mo)
    BY <2>1, SomeMessages, InOrderFacts
  <2> QED BY <1>1, <2>2
<1> QED BY <1>4, <1>5

(* An archive with the same files and cursor is as exact, and so it is when *)
(* more was sent.                                                          *)
LEMMA SameFiles ==
  ASSUME NEW a, NEW top \in Int, Exact(a, top), NEW b \in H!Archives, NEW more \in Int,
         b.files = a.files, b.cursor = a.cursor, top <= more
  PROVE  Exact(b, more)
<1>1. H!Archived(b) = H!Archived(a)
  BY DEF H!Archived
<1>2. a \in H!Archives /\ H!Archived(a) \subseteq H!Messages
  BY ExactFacts DEF Exact
<1>3. a.cursor \in Int /\ \A m \in H!Archived(a) : m \in Int
  BY <1>2, ExportFacts DEF H!Archives
<1>4. b.cursor <= more /\ \A m \in H!Archived(b) : m <= more
  BY <1>1, <1>3 DEF Exact
<1> QED BY <1>1, <1>4 DEF Exact

LEMMA StillExact ==
  ASSUME NEW q, NEW top \in Int, AllExact(q, top), NEW more \in Int, top <= more
  PROVE  AllExact(q, more)
<1>1. \A i \in DOMAIN q : Exact(q[i], top) /\ q[i] \in H!Archives
  BY DEF AllExact, Exact
<1>2. \A i \in DOMAIN q : Exact(q[i], more)
  BY <1>1, SameFiles
<1> QED BY <1>2 DEF AllExact

LEMMA HeadFacts ==
  ASSUME NEW q, NEW top, AllExact(q, top)
  PROVE  Exact(H!HeadOf(q), top) /\ H!HeadOf(q) \in H!Archives
<1>1. Len(q) \in DOMAIN q
  BY DEF AllExact
<1> QED BY <1>1 DEF AllExact, H!HeadOf, Exact

LEMMA AppendFacts ==
  ASSUME NEW q, NEW top, AllExact(q, top), NEW a, Exact(a, top)
  PROVE  AllExact(Append(q, a), top)
<1>1. q \in Seq(H!Archives) /\ a \in H!Archives /\ \A i \in DOMAIN q : Exact(q[i], top)
  BY DEF AllExact, Exact
<1>2. Append(q, a) \in Seq(H!Archives) /\ Append(q, a) # <<>>
  <2>1. q \in Seq(H!Archives) /\ a \in H!Archives
    BY <1>1
  <2>2. Append(q, a) \in Seq(H!Archives) /\ Len(Append(q, a)) = Len(q) + 1 /\ Len(q) \in Nat
    BY <2>1
  <2>3. Len(Append(q, a)) # 0
    BY <2>2
  <2> QED BY <2>2, <2>3
<1>3. ASSUME NEW i \in DOMAIN Append(q, a) PROVE Exact(Append(q, a)[i], top)
  <2>1. Len(q) \in Nat /\ i \in 1..(Len(q) + 1) /\ DOMAIN q = 1..Len(q)
    BY <1>1
  <2>2. CASE i = Len(q) + 1
    BY <1>1, <2>2
  <2>3. CASE i \in 1..Len(q)
    BY <1>1, <2>1, <2>3
  <2> QED BY <2>1, <2>2, <2>3
<1> QED BY <1>1, <1>2, <1>3 DEF AllExact

LEMMA EmptyExact == Exact(H!Empty, 0) /\ H!Archived(H!Empty) = {}
<1> DEFINE a == H!Empty
           none == [mo \in H!Months |-> <<>>]
<1>1. a.cursor = 0 /\ a.files = none /\ a.other = 0
  BY DEF H!Empty
<1>2. \A mo \in H!Months : a.files[mo] = <<>>
  <2>1. a.files = none
    BY <1>1
  <2> HIDE DEF a
  <2> QED BY <2>1
<1>3. a \in H!Archives
  <2>1. none \in [H!Months -> Seq(H!Messages)]
    OBVIOUS
  <2> HIDE DEF none
  <2>2. H!Empty = [cursor |-> 0, files |-> none, other |-> 0]
    BY DEF H!Empty, none
  <2> QED BY <2>1, <2>2 DEF H!Archives
<1> HIDE DEF a
<1>4. H!Archived(a) = {}
  <2>1. H!Range(<<>>) = {}
    BY DEF H!Range
  <2> QED BY <1>2, <2>1 DEF H!Archived
<1>5. ASSUME NEW mo \in H!Months PROVE a.files[mo] = H!InOrder(OfMonth(H!Archived(a), mo))
  <2>1. OfMonth(H!Archived(a), mo) = {}
    BY <1>4 DEF OfMonth
  <2>2. H!InOrder({}) \in Seq({}) /\ Len(H!InOrder({})) = 0
    BY FS_EmptySet, InOrderFacts
  <2>3. H!InOrder({}) = <<>>
    BY <2>2
  <2> QED BY <1>2, <2>1, <2>3
<1>6. \A j \in H!Messages : ~(j <= a.cursor)
  BY <1>1, ExportFacts
<1> QED BY <1>1, <1>3, <1>4, <1>5, <1>6 DEF Exact, a

LEMMA InitExport == ASSUME H!Init PROVE ExportInv
<1>1. /\ private \in BOOLEAN /\ sent = 0 /\ remote = <<H!Empty>> /\ local = <<H!Empty>>
      /\ work = H!Empty /\ marker = {} /\ export = H!Idle /\ foreign = 0 /\ faults = 0
  BY DEF H!Init
<1>2. AllExact(<<H!Empty>>, 0)
  <2>1. H!Empty \in H!Archives
    BY EmptyExact DEF Exact
  <2>2. <<H!Empty>> \in Seq(H!Archives) /\ <<H!Empty>> # <<>>
        /\ \A i \in DOMAIN <<H!Empty>> : <<H!Empty>>[i] = H!Empty
    BY <2>1
  <2> QED BY <2>2, EmptyExact DEF AllExact
<1>3. export \in ExportSet /\ export.pc = "idle"
  BY <1>1 DEF H!Idle, ExportSet, ExportPcs
<1>4. IsFiniteSet(marker) /\ Cardinality(marker) = 0
  BY <1>1, FS_EmptySet
<1>5. 0 \in 0..Len(MonthOf) /\ 0 \in 0..MaxForeign /\ 0 \in 0..MaxExportFaults
  BY ExportFacts
<1> QED BY <1>1, <1>2, <1>3, <1>4, <1>5, EmptyExact DEF ExportInv

(* What a step leaves alone.                                               *)
LEMMA Unmoved ==
  ASSUME ExportInv, private' = private, sent' = sent
  PROVE  /\ private' \in BOOLEAN /\ sent' \in 0..Len(MonthOf) /\ sent' \in Int /\ sent \in Int
         /\ remote' = remote => AllExact(remote', sent')
         /\ local' = local => AllExact(local', sent')
         /\ work' = work => Exact(work', sent')
         /\ marker' = marker => IsFiniteSet(marker') /\ Cardinality(marker') <= 1
         /\ foreign' = foreign => foreign' \in 0..MaxForeign
         /\ faults' = faults => faults' \in 0..MaxExportFaults
<1>1. private' \in BOOLEAN
  BY Zenon DEF ExportInv
<1>2. sent' \in 0..Len(MonthOf) /\ sent \in 0..Len(MonthOf)
  BY DEF ExportInv
<1>3. sent' \in Int /\ sent \in Int
  BY <1>2, ExportFacts
<1> QED BY <1>1, <1>2, <1>3 DEF ExportInv

LEMMA MarkerFacts ==
  /\ IsFiniteSet({}) /\ Cardinality({}) <= 1
  /\ \A x : IsFiniteSet({x}) /\ Cardinality({x}) <= 1
<1>1. IsFiniteSet({}) /\ Cardinality({}) = 0
  BY FS_EmptySet
<1>2. \A x : IsFiniteSet({x}) /\ Cardinality({x}) = 1
  BY FS_Singleton
<1>3. 0 <= 1 /\ 1 <= 1
  OBVIOUS
<1> QED BY <1>1, <1>2, <1>3, Zenon

LEMMA MessagePosted == ASSUME ExportInv, H!Post PROVE ExportInv'
<1>1. sent < Len(MonthOf) /\ sent' = sent + 1
      /\ UNCHANGED <<private, remote, local, work, marker, export, foreign, faults>>
  BY DEF H!Post
<1>2. sent \in Int /\ sent' \in Int /\ sent <= sent' /\ sent' \in 0..Len(MonthOf)
  BY <1>1, ExportFacts DEF ExportInv
<1>3. AllExact(remote', sent') /\ AllExact(local', sent')
  BY <1>1, <1>2, StillExact DEF ExportInv
<1>4. Exact(work', sent')
  <2>1. Exact(work, sent) /\ work \in H!Archives
    BY DEF ExportInv, Exact
  <2> QED BY <1>1, <1>2, <2>1, SameFiles
<1>5. (export.pc = "write" => Writing)'
  <2> SUFFICES ASSUME export.pc = "write" PROVE Writing'
    BY <1>1
  <2>1. Writing /\ export.records \subseteq H!Messages
    BY DEF ExportInv, ExportSet
  <2>2. \A m \in export.records : m <= sent'
    BY <1>2, <2>1, ExportFacts DEF Writing
  <2>3. H!Archived(work)' = H!Archived(work)
    BY <1>1 DEF H!Archived
  <2> QED BY <1>1, <2>1, <2>2, <2>3 DEF Writing
<1>6. private' \in BOOLEAN
  BY <1>1, Zenon DEF ExportInv
<1> QED BY <1>1, <1>2, <1>3, <1>4, <1>5, <1>6 DEF ExportInv

LEMMA OthersPushed == ASSUME ExportInv, H!ForeignPush PROVE ExportInv'
<1> DEFINE a == H!HeadOf(remote)
           b == [a EXCEPT !.other = a.other + 1]
<1>1. foreign < MaxForeign /\ foreign' = foreign + 1 /\ remote' = Append(remote, b)
      /\ UNCHANGED <<private, sent, local, work, marker, export, faults>>
  BY DEF H!ForeignPush
<1>2. foreign' \in 0..MaxForeign
  BY <1>1, ExportFacts DEF ExportInv
<1>3. Exact(a, sent) /\ a \in H!Archives /\ AllExact(remote, sent)
  BY HeadFacts DEF ExportInv
<1> HIDE DEF a
<1>4. b \in H!Archives /\ b.files = a.files /\ b.cursor = a.cursor
  BY <1>3 DEF H!Archives
<1>5. Exact(b, sent)
  <2>1. sent \in Int /\ sent <= sent
    BY ExportFacts DEF ExportInv
  <2> HIDE DEF b
  <2> QED BY <1>3, <1>4, <2>1, SameFiles
<1>6. AllExact(remote', sent')
  <2> HIDE DEF b
  <2> QED BY <1>1, <1>3, <1>5, AppendFacts
<1>7. (export.pc = "write" => Writing)'
  BY <1>1 DEF ExportInv, Writing, H!Archived
<1> QED BY <1>1, <1>2, <1>6, <1>7, Unmoved DEF ExportInv

(* Steps that end in a phase that writes nothing.                           *)
LEMMA Elsewhere ==
  ASSUME ExportInv, private' = private, sent' = sent, foreign' = foreign,
         faults' \in 0..MaxExportFaults, marker' \in {marker, {}, {local}},
         remote' \in {remote, local}, local' \in {local, remote},
         work' \in {work, H!HeadOf(remote), H!HeadOf(local)},
         export' \in ExportSet, export'.pc # "write"
  PROVE  ExportInv'
<1>1. Exact(H!HeadOf(remote), sent) /\ Exact(H!HeadOf(local), sent)
  BY HeadFacts DEF ExportInv
<1>2. AllExact(remote', sent') /\ AllExact(local', sent') /\ Exact(work', sent')
  BY <1>1 DEF ExportInv
<1>3. IsFiniteSet(marker') /\ Cardinality(marker') <= 1
  BY MarkerFacts DEF ExportInv
<1> QED BY <1>2, <1>3, Unmoved DEF ExportInv

LEMMA RunTypes ==
  ASSUME ExportInv
  PROVE  /\ H!Idle \in ExportSet /\ H!Idle.pc = "idle"
         /\ \A pc \in ExportPcs :
              /\ [export EXCEPT !.pc = pc] \in ExportSet
              /\ [export EXCEPT !.pc = pc].pc = pc
              /\ [H!Idle EXCEPT !.pc = pc] \in ExportSet
              /\ [H!Idle EXCEPT !.pc = pc].pc = pc
<1>1. export \in ExportSet
  BY DEF ExportInv
<1>2. H!Idle \in ExportSet /\ H!Idle.pc = "idle"
  BY DEF H!Idle, ExportSet, ExportPcs
<1>3. ASSUME NEW e \in ExportSet, NEW pc \in ExportPcs
      PROVE  [e EXCEPT !.pc = pc] \in ExportSet /\ [e EXCEPT !.pc = pc].pc = pc
  BY DEF ExportSet
<1> QED BY <1>1, <1>2, <1>3

LEMMA GitExport ==
  ASSUME ExportInv,
         \/ H!Recover \/ H!Prepare \/ H!Refuse \/ H!StartPrivate
         \/ (\E replied \in BOOLEAN : H!Push(replied)) \/ H!Unmark \/ H!Die
  PROVE  ExportInv'
<1>1. marker \in {marker, {}, {local}} /\ faults \in 0..MaxExportFaults
  BY DEF ExportInv
<1>2. ExportPcs = {"idle", "rescue", "prepare", "collect", "write", "commit", "push", "unmark"}
  BY DEF ExportPcs
<1>3. CASE H!Recover
  <2>1. /\ UNCHANGED <<private, sent, remote, foreign, faults>> /\ marker' = {}
        /\ local' \in {local, remote} /\ work' \in {work, H!HeadOf(remote)}
    BY <1>3 DEF H!Recover
  <2>2. \E pc \in {"prepare", "idle"} : export' = [H!Idle EXCEPT !.pc = pc]
    BY <1>3 DEF H!Recover
  <2>3. export' \in ExportSet /\ export'.pc # "write"
    BY <1>2, <2>2, RunTypes
  <2> QED BY <1>1, <2>1, <2>3, Elsewhere
<1>4. CASE H!Prepare
  <2>1. /\ UNCHANGED <<private, sent, marker, foreign, faults>>
        /\ local' \in {local, remote} /\ remote' \in {local, remote}
        /\ work' = H!HeadOf(local') /\ export' = [export EXCEPT !.pc = "collect"]
    BY <1>4 DEF H!Prepare
  <2>2. export' \in ExportSet /\ export'.pc # "write"
    BY <1>2, <2>1, RunTypes
  <2>3. work' \in {work, H!HeadOf(remote), H!HeadOf(local)}
    BY <2>1
  <2> QED BY <1>1, <2>1, <2>2, <2>3, Elsewhere
<1>5. CASE H!Refuse
  <2>1. UNCHANGED <<private, sent, remote, local, work, marker, foreign, faults>> /\ export' = H!Idle
    BY <1>5 DEF H!Refuse
  <2> QED BY <1>1, <2>1, RunTypes, Elsewhere
<1>6. CASE H!StartPrivate
  <2>1. UNCHANGED <<private, sent, remote, local, work, marker, foreign, faults>>
        /\ export' = [export EXCEPT !.pc = "collect"]
    BY <1>6 DEF H!StartPrivate
  <2>2. export' \in ExportSet /\ export'.pc # "write"
    BY <1>2, <2>1, RunTypes
  <2> QED BY <1>1, <2>1, <2>2, Elsewhere
<1>7. ASSUME NEW replied \in BOOLEAN, H!Push(replied) PROVE ExportInv'
  <2>1. UNCHANGED <<private, sent, local, work, marker, foreign>> /\ remote' \in {local, remote}
    BY <1>7 DEF H!Push
  <2>2. \E pc \in {"unmark", "rescue"} : export' = [export EXCEPT !.pc = pc]
    BY <1>7 DEF H!Push
  <2>3. export' \in ExportSet /\ export'.pc # "write"
    BY <1>2, <2>2, RunTypes
  <2>4. faults' \in 0..MaxExportFaults
    <3>1. faults' = faults \/ (faults' = faults + 1 /\ faults < MaxExportFaults)
      BY <1>7 DEF H!Push
    <3> QED BY <1>1, <3>1, ExportFacts
  <2> QED BY <1>1, <2>1, <2>3, <2>4, Elsewhere
<1>8. CASE H!Unmark
  <2>1. UNCHANGED <<private, sent, remote, local, work, foreign, faults>>
        /\ marker' = {} /\ export' = H!Idle
    BY <1>8 DEF H!Unmark
  <2> QED BY <1>1, <2>1, RunTypes, Elsewhere
<1>9. CASE H!Die
  <2>1. /\ UNCHANGED <<private, sent, remote, local, work, marker, foreign>> /\ export' = H!Idle
        /\ faults < MaxExportFaults /\ faults' = faults + 1
    BY <1>9 DEF H!Die
  <2>2. faults' \in 0..MaxExportFaults
    BY <1>1, <2>1, ExportFacts
  <2> QED BY <1>1, <2>1, <2>2, RunTypes, Elsewhere
<1> QED BY <1>3, <1>4, <1>5, <1>6, <1>7, <1>8, <1>9

LEMMA MessagesCollected == ASSUME ExportInv, H!Collect PROVE ExportInv'
<1> DEFINE fresh == {m \in H!Messages : work.cursor < m /\ m <= sent}
           start == [pc |-> "write", base |-> local, records |-> fresh,
                     todo |-> {MonthOf[m] : m \in fresh}]
<1>1. /\ UNCHANGED <<private, sent, remote, local, work, foreign, faults>>
      /\ export' = IF fresh = {} THEN H!Idle ELSE start
      /\ marker' \in {marker, {local}}
  BY DEF H!Collect
<1>2. faults' \in 0..MaxExportFaults /\ marker' \in {marker, {}, {local}}
  BY <1>1 DEF ExportInv
<1>3. CASE fresh = {}
  BY <1>1, <1>2, <1>3, RunTypes, Elsewhere
<1>4. CASE fresh # {}
  <2>1. start \in ExportSet
    <3>1. {MonthOf[m] : m \in fresh} \subseteq H!Months /\ fresh \subseteq H!Messages
      BY ExportFacts
    <3>2. local \in Seq(H!Archives)
      BY DEF ExportInv, AllExact
    <3> HIDE DEF fresh
    <3> QED BY <3>1, <3>2 DEF ExportSet, ExportPcs
  <2>2. export'.records = fresh /\ export'.todo = {MonthOf[m] : m \in fresh} /\ export' = start
    BY <1>1, <1>4
  <2>3. H!Archived(work)' = H!Archived(work) /\ H!Archived(work) \subseteq H!Messages
        /\ (\A m \in H!Archived(work) : m <= sent) /\ work \in H!Archives
    BY <1>1, ExactFacts DEF H!Archived, ExportInv, Exact
  <2>4. Writing'
    <3>1. sent \in Int /\ work.cursor \in Int /\ \A m \in H!Messages : m \in Int
      BY <2>3, ExportFacts DEF ExportInv, H!Archives
    <3>2. \A m \in fresh : work.cursor < m /\ m <= sent
      OBVIOUS
    <3>3. \A m \in fresh, j \in H!Messages : work.cursor < j /\ j < m => j \in fresh
      BY <3>1
    <3>4. \A m \in H!Archived(work) : work.cursor < m => m \in fresh
      BY <2>3
    <3>5. \A m \in fresh : MonthOf[m] \in {MonthOf[k] : k \in fresh}
      OBVIOUS
    <3> HIDE DEF fresh
    <3> QED BY <1>1, <2>2, <2>3, <3>2, <3>3, <3>4, <3>5 DEF Writing
  <2>5. IsFiniteSet(marker') /\ Cardinality(marker') <= 1
    BY <1>1, MarkerFacts DEF ExportInv
  <2> QED BY <1>1, <2>1, <2>2, <2>4, <2>5, Unmoved DEF ExportInv
<1> QED BY <1>3, <1>4

LEMMA Committed == ASSUME ExportInv, H!Commit PROVE ExportInv'
<1>1. /\ UNCHANGED <<private, sent, remote, work, marker, foreign, faults>>
      /\ local' = Append(local, work) /\ export' = [export EXCEPT !.pc = "push"]
  BY DEF H!Commit
<1>2. AllExact(local', sent')
  BY <1>1, AppendFacts DEF ExportInv
<1>3. export' \in ExportSet /\ export'.pc = "push"
  BY <1>1, RunTypes DEF ExportPcs
<1> QED BY <1>1, <1>2, <1>3, Unmoved DEF ExportInv

(* A month file gets what it lacks of the run, all of it later.             *)
LEMMA MonthAdded ==
  ASSUME ExportInv, Writing, NEW mo \in H!Months
  PROVE  LET add == H!Additions(mo)
             b == [work EXCEPT !.files[mo] = work.files[mo] \o H!InOrder(add)]
         IN  /\ Exact(b, sent) /\ b.cursor = work.cursor
             /\ H!Archived(b) = H!Archived(work) \cup add
<1> DEFINE add == H!Additions(mo)
           held == H!Archived(work)
           file == H!InOrder(OfMonth(held \cup add, mo))
           fs == [work.files EXCEPT ![mo] = file]
           b == [work EXCEPT !.files = fs]
<1>1. /\ Exact(work, sent) /\ work \in H!Archives /\ held \subseteq H!Messages
      /\ work.files \in [H!Months -> Seq(H!Messages)] /\ work.cursor \in Int
      /\ \A m \in H!Months : H!Range(work.files[m]) = OfMonth(held, m)
  BY ExactFacts DEF ExportInv, Exact, H!Archives
<1>2. /\ \A m \in add : m \in export.records /\ m \notin held /\ MonthOf[m] = mo
      /\ \A m \in export.records : m \notin held /\ MonthOf[m] = mo => m \in add
      /\ export.records \subseteq H!Messages /\ add \subseteq H!Messages
  BY DEF H!Additions, ExportInv, ExportSet
<1> HIDE DEF add, held
<1>3. /\ OfMonth(held \cup add, mo) = OfMonth(held, mo) \cup add
      /\ \A m \in H!Months : m # mo => OfMonth(held \cup add, m) = OfMonth(held, m)
  BY <1>2 DEF OfMonth
<1>4. \A x \in OfMonth(held, mo), y \in add : x < y
  <2> SUFFICES ASSUME NEW x \in OfMonth(held, mo), NEW y \in add PROVE x < y
    OBVIOUS
  <2>1. x \in held /\ MonthOf[x] = mo /\ y \notin held /\ MonthOf[y] = mo
        /\ x \in H!Messages /\ y \in H!Messages
    BY <1>1, <1>2 DEF OfMonth
  <2>2. ~(y < x)
    BY <1>1, <2>1 DEF Exact, held
  <2>3. x \in Int /\ y \in Int /\ x # y
    BY <2>1, ExportFacts
  <2> QED BY <2>2, <2>3
<1>5. work.files[mo] \o H!InOrder(add) = file
  <2>1. OfMonth(held, mo) \subseteq H!Messages
    BY <1>1 DEF OfMonth
  <2>2. work.files[mo] = H!InOrder(OfMonth(held, mo))
    BY <1>1 DEF Exact, held
  <2>3. H!InOrder(OfMonth(held, mo)) \o H!InOrder(add) = H!InOrder(OfMonth(held, mo) \cup add)
    <3>1. /\ IsFiniteSet(OfMonth(held, mo)) /\ OfMonth(held, mo) \subseteq Int
          /\ IsFiniteSet(add) /\ add \subseteq Int
      BY <1>2, <2>1, SomeMessages
    <3> QED BY <1>4, <3>1, ListingsJoin
  <2> QED BY <1>3, <2>2, <2>3
<1>6. file \in Seq(H!Messages) /\ H!Range(file) = OfMonth(held \cup add, mo)
  <2>1. OfMonth(held \cup add, mo) \subseteq H!Messages
    BY <1>1, <1>2 DEF OfMonth
  <2>2. file \in Seq(OfMonth(held \cup add, mo)) /\ H!Range(file) = OfMonth(held \cup add, mo)
    BY <2>1, SomeMessages, InOrderFacts
  <2> HIDE DEF file
  <2> QED BY <2>1, <2>2
<1> HIDE DEF file
<1>7. /\ fs \in [H!Months -> Seq(H!Messages)] /\ fs[mo] = file
      /\ \A m \in H!Months : m # mo => fs[m] = work.files[m]
  BY <1>1, <1>6
<1> HIDE DEF fs
<1>8. b \in H!Archives /\ b.files = fs /\ b.cursor = work.cursor
  BY <1>1, <1>7 DEF H!Archives
<1>9. [work EXCEPT !.files[mo] = work.files[mo] \o H!InOrder(add)] = b
  BY <1>1, <1>5 DEF fs, H!Archives
<1> HIDE DEF b
<1>10. \A m \in H!Months : H!Range(b.files[m]) = OfMonth(held \cup add, m)
  BY <1>1, <1>3, <1>6, <1>7, <1>8
<1>11. H!Archived(b) = held \cup add
  <2>1. \A x \in held \cup add : MonthOf[x] \in H!Months /\ x \in OfMonth(held \cup add, MonthOf[x])
    BY <1>1, <1>2, ExportFacts DEF OfMonth
  <2>2. \A m \in H!Months : OfMonth(held \cup add, m) \subseteq held \cup add
    BY DEF OfMonth
  <2> QED BY <1>10, <2>1, <2>2 DEF H!Archived
<1>12. \A m \in H!Months : b.files[m] = H!InOrder(OfMonth(held \cup add, m))
  <2>1. b.files[mo] = H!InOrder(OfMonth(held \cup add, mo))
    BY <1>7, <1>8 DEF file
  <2>2. \A m \in H!Months : m # mo => b.files[m] = H!InOrder(OfMonth(held, m))
    BY <1>1, <1>7, <1>8 DEF Exact, held
  <2> QED BY <1>3, <2>1, <2>2
<1>13. ASSUME NEW m \in held \cup add, NEW j \in H!Messages, j < m, MonthOf[j] = MonthOf[m]
       PROVE  j \in held \cup add
  <2>1. CASE m \in held
    BY <1>1, <1>13, <2>1 DEF Exact, held
  <2>2. CASE m \in add
    <3>1. MonthOf[j] = mo /\ m \in export.records /\ j \in Int
      BY <1>2, <1>13, <2>2, ExportFacts
    <3>2. CASE j <= work.cursor
      BY <1>1, <3>2 DEF Exact, held
    <3>3. CASE work.cursor < j
      <4>1. j \in export.records
        BY <1>13, <3>1, <3>3 DEF Writing
      <4> QED BY <1>2, <3>1, <4>1
    <3> QED BY <1>1, <3>1, <3>2, <3>3
  <2> QED BY <2>1, <2>2
<1>14. \A j \in H!Messages : j <= b.cursor => j \in held \cup add
  BY <1>1, <1>8 DEF Exact, held
<1>15. \A m \in held \cup add : m <= sent
  BY <1>1, <1>2 DEF Exact, held, Writing
<1>16. b.cursor <= sent
  BY <1>1, <1>8 DEF Exact
<1>17. Exact(b, sent)
  BY <1>8, <1>11, <1>12, <1>13, <1>14, <1>15, <1>16 DEF Exact
<1> QED BY <1>8, <1>9, <1>11, <1>17 DEF add, held

LEMMA MonthWritten == ASSUME ExportInv, NEW mo \in H!Months, H!WriteMonth(mo) PROVE ExportInv'
<1> DEFINE add == H!Additions(mo)
           b == [work EXCEPT !.files[mo] = work.files[mo] \o H!InOrder(add)]
<1>1. /\ UNCHANGED <<private, sent, remote, local, marker, foreign, faults>>
      /\ export.pc = "write" /\ work' = b
      /\ export' = [export EXCEPT !.todo = export.todo \ {mo}]
  BY DEF H!WriteMonth
<1>2. Writing /\ export \in ExportSet
  BY <1>1 DEF ExportInv
<1>3. /\ Exact(work', sent) /\ work'.cursor = work.cursor
      /\ H!Archived(work') = H!Archived(work) \cup add
  BY <1>1, <1>2, MonthAdded
<1> HIDE DEF b
<1>4. /\ export' \in ExportSet /\ export'.pc = "write"
      /\ export'.records = export.records /\ export'.todo = export.todo \ {mo}
  <2>1. export.todo \ {mo} \subseteq H!Months
    BY <1>2 DEF ExportSet
  <2> QED BY <1>1, <1>2, <2>1 DEF ExportSet
<1>5. H!Archived(work)' = H!Archived(work) \cup add
  BY <1>3 DEF H!Archived
<1>6. /\ \A m \in add : m \in export.records
      /\ \A m \in export.records : MonthOf[m] = mo => m \in H!Archived(work) \cup add
  BY DEF H!Additions
<1> HIDE DEF add
<1>7. Writing'
  <2>1. \A m \in export.records : work.cursor < m /\ m <= sent
    BY <1>2 DEF Writing
  <2>2. \A m \in H!Archived(work) \cup add : work.cursor < m => m \in export.records
    BY <1>2, <1>6 DEF Writing
  <2>3. \A m \in export.records : MonthOf[m] \notin export.todo \ {mo} => m \in H!Archived(work) \cup add
    BY <1>2, <1>6 DEF Writing
  <2>4. \A m \in export.records, j \in H!Messages :
          work.cursor < j /\ j < m => j \in export.records
    BY <1>2 DEF Writing
  <2> QED BY <1>1, <1>3, <1>4, <1>5, <2>1, <2>2, <2>3, <2>4 DEF Writing
<1>8. Exact(work', sent')
  BY <1>1, <1>3
<1> QED BY <1>1, <1>4, <1>7, <1>8, Unmoved DEF ExportInv

LEMMA StateWritten == ASSUME ExportInv, H!WriteState PROVE ExportInv'
<1> DEFINE held == H!Archived(work)
           S == held \cup {work.cursor}
           top == CHOOSE t \in S : \A m \in S : m <= t
           b == [work EXCEPT !.cursor = top]
<1>1. /\ UNCHANGED <<private, sent, remote, local, marker, foreign, faults>>
      /\ export.pc = "write" /\ export.todo = {} /\ work' = b
      /\ export' = IF private THEN H!Idle ELSE [export EXCEPT !.pc = "commit"]
  BY DEF H!WriteState
<1>2. Writing /\ export \in ExportSet
  BY <1>1 DEF ExportInv
<1>3. /\ Exact(work, sent) /\ work \in H!Archives /\ held \subseteq H!Messages
      /\ work.cursor \in Nat
  BY ExactFacts DEF ExportInv, Exact, H!Archives
<1>4. top \in S /\ \A m \in S : m <= top
  <2>1. IsFiniteSet(held) /\ held \subseteq Int
    BY <1>3, SomeMessages
  <2> HIDE DEF held
  <2>2. IsFiniteSet(S) /\ S \subseteq Int /\ S # {}
    <3>1. IsFiniteSet({work.cursor})
      BY FS_Singleton
    <3>2. IsFiniteSet(held \cup {work.cursor})
      BY <2>1, <3>1, FS_Union
    <3>3. work.cursor \in Int
      BY <1>3
    <3>4. S = held \cup {work.cursor} /\ work.cursor \in S
      OBVIOUS
    <3> QED BY <2>1, <3>2, <3>3, <3>4
  <2>3. \E t \in S : \A m \in S : m <= t
    BY <2>2, HasGreatest
  <2> QED BY <2>3
<1>5. top \in Nat /\ top <= sent /\ work.cursor <= top
  <2>1. top \in held \/ top = work.cursor
    BY <1>4
  <2>2. \A m \in held : m \in Nat /\ m <= sent
    BY <1>3, ExportFacts DEF Exact
  <2>3. work.cursor <= sent
    BY <1>3 DEF Exact
  <2>4. work.cursor \in S
    OBVIOUS
  <2> HIDE DEF top, held
  <2> QED BY <1>3, <1>4, <2>1, <2>2, <2>3, <2>4
<1>6. ASSUME NEW j \in H!Messages, j <= top PROVE j \in held
  <2>1. j \in Int
    BY ExportFacts
  <2>2. CASE j <= work.cursor
    BY <1>3, <2>2 DEF Exact
  <2>3. CASE work.cursor < j
    <3>1. top \in held /\ work.cursor < top
      <4>1. top \in held \/ top = work.cursor
        BY <1>4
      <4> HIDE DEF top, held
      <4>2. top # work.cursor
        BY <1>3, <1>5, <1>6, <2>1, <2>3
      <4> QED BY <1>3, <1>5, <4>1, <4>2
    <3>2. top \in export.records
      BY <1>2, <3>1 DEF Writing
    <3>3. j \in export.records
      <4>1. j = top \/ j < top
        BY <1>5, <1>6, <2>1
      <4> QED BY <1>2, <2>3, <3>2, <4>1 DEF Writing
    <3> QED BY <1>1, <1>2, <3>3 DEF Writing
  <2> QED BY <1>3, <2>1, <2>2, <2>3
<1> HIDE DEF top
<1>7. b \in H!Archives /\ b.files = work.files /\ b.cursor = top
  BY <1>3, <1>5 DEF H!Archives
<1>8. H!Archived(b) = held
  BY <1>7 DEF H!Archived
<1>9. Exact(work', sent')
  <2>1. /\ \A mo \in H!Months : b.files[mo] = H!InOrder(OfMonth(held, mo))
        /\ \A m \in held, j \in H!Messages : j < m /\ MonthOf[j] = MonthOf[m] => j \in held
        /\ \A m \in held : m <= sent
    BY <1>3, <1>7 DEF Exact
  <2> HIDE DEF b, held
  <2>2. Exact(b, sent)
    BY <1>5, <1>6, <1>7, <1>8, <2>1 DEF Exact
  <2> QED BY <1>1, <2>2
<1>10. export' \in ExportSet /\ export'.pc \in {"idle", "commit"}
  BY <1>1, RunTypes DEF ExportPcs
<1> QED BY <1>1, <1>9, <1>10, Unmoved DEF ExportInv

LEMMA NextExport == ASSUME ExportInv, H!Next PROVE ExportInv'
<1>1. CASE H!Post
  BY <1>1, MessagePosted
<1>2. CASE H!ForeignPush
  BY <1>2, OthersPushed
<1>3. CASE H!Sync \/ H!Die
  <2>1. CASE \E mo \in H!Months : H!WriteMonth(mo)
    BY <2>1, MonthWritten
  <2> QED BY <1>3, <2>1, GitExport, MessagesCollected, StateWritten, Committed DEF H!Sync
<1> QED BY <1>1, <1>2, <1>3 DEF H!Next

LEMMA ExportStutters ==
  ASSUME ExportInv, UNCHANGED <<private, sent, remote, local, work, marker, export, foreign, faults>>
  PROVE  ExportInv'
<1>1. (export.pc = "write" => Writing)'
  BY DEF ExportInv, Writing, H!Archived
<1> QED BY <1>1, Unmoved DEF ExportInv

LEMMA ExportIsTrue == ASSUME ExportInv PROVE H!TypeOK /\ H!ArchiveExact
<1>1. H!TypeOK
  <2>1. H!Cardinality(marker) = Cardinality(marker)
    BY DEF H!Cardinality, Cardinality
  <2>2. remote \in Seq(H!Archives) /\ local \in Seq(H!Archives) /\ work \in H!Archives
    BY DEF ExportInv, AllExact, Exact
  <2>3. export.pc \in ExportPcs /\ export.records \subseteq H!Messages /\ export.todo \subseteq H!Months
    BY DEF ExportInv, ExportSet
  <2>4. private \in BOOLEAN
    BY Zenon DEF ExportInv
  <2>5. sent \in 0..Len(MonthOf) /\ Cardinality(marker) <= 1 /\ foreign \in 0..MaxForeign
        /\ faults \in 0..MaxExportFaults
    BY DEF ExportInv
  <2> QED BY <2>1, <2>2, <2>3, <2>4, <2>5 DEF H!TypeOK, ExportPcs
<1>2. H!ArchiveExact
  <2> SUFFICES ASSUME NEW a \in H!Published
               PROVE  /\ 1..a.cursor \subseteq H!Archived(a)
                      /\ \A mo \in H!Months :
                           a.files[mo] = H!InOrder({m \in H!Archived(a) : MonthOf[m] = mo})
    BY DEF H!ArchiveExact
  <2>1. Exact(a, sent)
    BY DEF H!Published, H!Range, ExportInv, AllExact
  <2>2. \A mo \in H!Months : a.files[mo] = H!InOrder({m \in H!Archived(a) : MonthOf[m] = mo})
    BY <2>1 DEF Exact, OfMonth
  <2>3. \A j \in 1..a.cursor : j \in H!Archived(a)
    <3>1. a.cursor \in Nat /\ a.cursor <= sent /\ sent \in 0..Len(MonthOf)
      BY <2>1 DEF Exact, H!Archives, ExportInv
    <3>2. \A j \in 1..a.cursor : j \in 1..Len(MonthOf) /\ j <= a.cursor
      BY <3>1, ExportFacts
    <3> QED BY <2>1, <3>2, ExportFacts DEF Exact
  <2> QED BY <2>2, <2>3
<1> QED BY <1>1, <1>2

(* The export (sync, sync_private): a published archive holds each message  *)
(* up to its cursor once, in order and in the file of its month, whatever   *)
(* run was cut off between two files, before its cursor or after a push     *)
(* whose reply was lost.                                                   *)
THEOREM ExportStaysExact == H!Spec => [](H!TypeOK /\ H!ArchiveExact)
<1>1. H!Init => ExportInv
  BY InitExport
<1>2. ExportInv /\ [H!Next]_(H!vars) => ExportInv'
  BY NextExport, ExportStutters DEF H!vars
<1>3. ExportInv => H!TypeOK /\ H!ArchiveExact
  BY ExportIsTrue
<1> QED BY <1>1, <1>2, <1>3, PTL DEF H!Spec

-----------------------------------------------------------------------------
(* The timeline.  An old row is one that no insertion can still bring.      *)
RowIds   == 1..Cardinality(rows)
SyncPcs  == {"idle", "recover", "fetch", "push", "window", "load", "loaded", "commit",
             "refetch", "repush", "retry", "lastpush"}
SyncSet  == [pc : SyncPcs, start : Int, end : Int, read : SUBSET RowIds,
             kept : SUBSET RowIds, days : SUBSET Int]

TimelineTypes ==
  /\ IsFiniteSet(rows) /\ rows \subseteq [id : Nat, at : Nat]
  /\ \A r \in rows : r.id \in RowIds /\ r.at <= now
  /\ \A r, x \in rows : r.id = x.id => r = x
  /\ now \in 0..MaxIndexTime /\ last \in {T!Never} \cup 0..now
  /\ timeline \subseteq RowIds /\ commits \subseteq RowIds /\ published \subseteq RowIds
  /\ excused \subseteq RowIds
  /\ sync \in [Syncs -> SyncSet]
  /\ unpushed \in BOOLEAN
  /\ tip \in Nat /\ base \in Nat /\ base <= tip
  /\ faults \in 0..MaxFaults

Reading(s) == sync[s].pc \in {"load", "loaded"}
Old(r)     == r.at < now - Overlap
There(r)   == r.id \in timeline \cup excused

(* A run that has read its window: what is old is there before the window;  *)
(* in it, it was read or is excused, and is there once its day is done.    *)
ReadsOld(s) ==
  /\ sync[s].end = now
  /\ \A r \in rows : Old(r) =>
       /\ r.at < sync[s].start => There(r)
       /\ r.at >= sync[s].start => r.id \in sync[s].read \cup excused
       /\ r.at >= sync[s].start /\ T!DayOf(r.at) \notin sync[s].days => There(r)

(* Of the day it replaces it keeps what is before its window.               *)
KeepsOld(s) ==
  \A r \in rows : Old(r) /\ T!DayOf(r.at) = T!Min(sync[s].days) /\ r.at < sync[s].start =>
    r.id \in sync[s].kept \cup excused

TimelineInv ==
  /\ TimelineTypes
  /\ T!TimelineComplete
  /\ \A s \in Syncs : Reading(s) => ReadsOld(s)
  /\ \A s \in Syncs : sync[s].pc = "loaded" => KeepsOld(s)

(* The greater of two bounds.                                              *)
LEMMA StartFacts ==
  ASSUME TimelineTypes
  PROVE  T!Start \in Int
<1>1. last \in Int /\ now \in Int /\ Overlap \in Int /\ Backfill \in Int /\ FirstWindow \in Int
  BY TimelineAssumption DEF TimelineTypes, T!Never
<1>2. ASSUME NEW a \in Int, NEW b \in Int
      PROVE  T!Max({a, b}) \in {a, b} /\ T!Max({a, b}) >= a /\ T!Max({a, b}) >= b
  <2>1. \E x \in {a, b} : \A y \in {a, b} : x >= y
    <3>1. CASE a >= b
      BY <3>1
    <3>2. CASE b >= a
      BY <3>2
    <3> QED BY <3>1, <3>2
  <2> QED BY <2>1 DEF T!Max
<1>3. last - Overlap \in Int /\ now - Backfill \in Int /\ now - FirstWindow \in Int
  BY <1>1
<1>4. CASE last = T!Never
  BY <1>3, <1>4 DEF T!Start
<1>5. CASE last # T!Never
  <2> DEFINE a == last - Overlap
             b == now - Backfill
  <2>1. T!Start = T!Max({a, b})
    BY <1>5 DEF T!Start
  <2>3. a \in Int /\ b \in Int
    BY <1>3
  <2> HIDE DEF a, b
  <2>4. T!Start \in {a, b} /\ T!Start >= a /\ T!Start >= b
    BY <1>2, <2>1, <2>3
  <2> QED BY <2>3, <2>4
<1> QED BY <1>4, <1>5

(* The steps that move one run on, outside its window.                     *)
LEMMA RunMoves ==
  ASSUME TimelineInv, NEW s \in Syncs, NEW v \in SyncSet, v.pc \notin {"load", "loaded"},
         sync' = [sync EXCEPT ![s] = v], UNCHANGED <<now, rows, timeline, last, excused, tip>>,
         commits' \subseteq RowIds, published' \subseteq RowIds, unpushed' \in BOOLEAN,
         base' \in Nat, base' <= tip, faults' \in 0..MaxFaults
  PROVE  TimelineInv'
<1>1. sync \in [Syncs -> SyncSet] /\ SyncSet' = SyncSet /\ RowIds' = RowIds
  BY DEF TimelineInv, TimelineTypes, SyncSet, RowIds
<1>2. sync' \in [Syncs -> SyncSet]
  BY <1>1
<1>3. TimelineTypes'
  BY <1>1, <1>2 DEF TimelineInv, TimelineTypes
<1>4. T!TimelineComplete'
  BY DEF TimelineInv, T!TimelineComplete
<1>5. ASSUME NEW u \in Syncs, sync'[u].pc \in {"load", "loaded"}
      PROVE  u # s /\ sync'[u] = sync[u]
  BY <1>1, <1>5
<1>7. ASSUME NEW u \in Syncs, Reading(u)' PROVE ReadsOld(u)'
  <2>1. sync'[u] = sync[u] /\ Reading(u)
    BY <1>5, <1>7 DEF Reading
  <2>2. ReadsOld(u)
    BY <2>1 DEF TimelineInv
  <2> QED BY <2>1, <2>2 DEF ReadsOld, Old, There
<1>8. ASSUME NEW u \in Syncs, sync'[u].pc = "loaded" PROVE KeepsOld(u)'
  <2>1. sync'[u] = sync[u] /\ sync[u].pc = "loaded"
    BY <1>5, <1>8
  <2>2. KeepsOld(u)
    BY <2>1 DEF TimelineInv
  <2> QED BY <2>1, <2>2 DEF KeepsOld, Old
<1> QED BY <1>3, <1>4, <1>7, <1>8 DEF TimelineInv

LEMMA RunGoes ==
  ASSUME TimelineInv, NEW s \in Syncs, NEW pc \in SyncPcs \ {"load", "loaded"}, T!Goto(s, pc),
         UNCHANGED <<now, rows, timeline, last, excused, tip, faults>>,
         commits' \subseteq RowIds, published' \subseteq RowIds, unpushed' \in BOOLEAN,
         base' \in Nat, base' <= tip
  PROVE  TimelineInv'
<1> DEFINE v == [sync[s] EXCEPT !.pc = pc]
<1>1. sync \in [Syncs -> SyncSet] /\ sync[s] \in SyncSet /\ faults' \in 0..MaxFaults
  BY DEF TimelineInv, TimelineTypes
<1>2. v \in SyncSet /\ v.pc = pc
  BY <1>1 DEF SyncSet
<1>3. sync' = [sync EXCEPT ![s] = v]
  BY <1>1 DEF T!Goto
<1> HIDE DEF v
<1> QED BY <1>1, <1>2, <1>3, RunMoves

(* What a run does with git.                                               *)
LEMMA GitSteps ==
  ASSUME TimelineInv, NEW s \in Syncs,
         \/ T!Begin(s) \/ T!Recover(s) \/ T!Fetch(s) \/ T!Push(s) \/ T!PushFails(s)
         \/ T!CommitAll(s) \/ T!Die(s)
  PROVE  TimelineInv'
<1>1. /\ sync \in [Syncs -> SyncSet] /\ sync[s] \in SyncSet /\ faults \in 0..MaxFaults
      /\ timeline \subseteq RowIds /\ commits \subseteq RowIds /\ published \subseteq RowIds
      /\ unpushed \in BOOLEAN /\ tip \in Nat /\ base \in Nat /\ base <= tip
  BY DEF TimelineInv, TimelineTypes
<1>2. T!Idle \in SyncSet /\ T!Idle.pc = "idle"
  BY DEF SyncSet, SyncPcs, T!Idle
<1>3. ASSUME NEW pc \in SyncPcs
      PROVE  [sync[s] EXCEPT !.pc = pc] \in SyncSet /\ [sync[s] EXCEPT !.pc = pc].pc = pc
  BY <1>1 DEF SyncSet
<1>5. T!Fault => faults' \in 0..MaxFaults
  BY <1>1, BoundAssumption DEF T!Fault
<1>6. CASE T!Begin(s)
  <2>1. PICK pc \in {"recover", "window"} : T!Goto(s, pc)
    BY <1>6 DEF T!Begin
  <2> QED BY <1>1, <1>6, <2>1, RunGoes DEF T!Begin, T!git, SyncPcs
<1>7. CASE T!Recover(s)
  <2>1. T!Goto(s, "fetch") /\ commits' = timeline /\ unpushed' \in BOOLEAN
    BY <1>1, <1>7 DEF T!Recover, T!Commit
  <2> QED BY <1>1, <1>7, <2>1, RunGoes DEF T!Recover, SyncPcs
<1>8. CASE T!CommitAll(s)
  <2>1. T!Goto(s, "refetch") /\ commits' = timeline /\ unpushed' \in BOOLEAN
    BY <1>1, <1>8 DEF T!CommitAll, T!Commit
  <2> QED BY <1>1, <1>8, <2>1, RunGoes DEF T!CommitAll, SyncPcs
<1>9. CASE T!Fetch(s)
  <2>1. PICK pc \in {"push", "repush", "lastpush"} : T!Goto(s, pc)
    BY <1>9 DEF T!Fetch
  <2>2. base' = tip /\ base' <= tip
    BY <1>1, <1>9 DEF T!Fetch
  <2> QED BY <1>1, <1>9, <2>1, <2>2, RunGoes DEF T!Fetch, SyncPcs
<1>10. CASE T!Push(s)
  <2>1. PICK pc \in {"window", "idle"} : T!Goto(s, pc)
    BY <1>10 DEF T!Push
  <2>2. published' \subseteq RowIds /\ unpushed' \in BOOLEAN
    BY <1>1, <1>10 DEF T!Push
  <2> QED BY <1>1, <1>10, <2>1, <2>2, RunGoes DEF T!Push, SyncPcs
<1>11. CASE T!PushFails(s)
  <2>1. faults' \in 0..MaxFaults
    BY <1>1, <1>5, <1>11 DEF T!PushFails
  <2>2. PICK v \in {T!Idle, [sync[s] EXCEPT !.pc = "retry"]} : sync' = [sync EXCEPT ![s] = v]
    BY <1>1, <1>11 DEF T!PushFails
  <2>3. v \in SyncSet /\ v.pc \notin {"load", "loaded"}
    BY <1>2, <1>3, <2>2 DEF SyncPcs
  <2> QED BY <1>1, <1>11, <2>1, <2>2, <2>3, RunMoves DEF T!PushFails, T!git
<1>12. CASE T!Die(s)
  <2>1. faults' \in 0..MaxFaults
    BY <1>5, <1>12 DEF T!Die
  <2> QED BY <1>1, <1>2, <1>12, <2>1, RunMoves DEF T!Die, T!git
<1> QED BY <1>6, <1>7, <1>8, <1>9, <1>10, <1>11, <1>12

(* The clock stands still while days are replaced.                         *)
LEMMA TimeGoesOn == ASSUME TimelineInv, T!Tick PROVE TimelineInv'
<1>1. now' = now + 1 /\ now' \in 0..MaxIndexTime
  BY TimelineAssumption DEF T!Tick, TimelineInv, TimelineTypes
<1>2. UNCHANGED <<rows, timeline, last, sync, commits, unpushed, published, tip, base, excused, faults>>
  BY DEF T!Tick, T!git
<1>3. SyncSet' = SyncSet /\ RowIds' = RowIds
  BY <1>2 DEF SyncSet, RowIds
<1>4. last' \in {T!Never} \cup 0..now'
  BY <1>1, <1>2 DEF TimelineInv, TimelineTypes
<1>5. \A r \in rows' : r.id \in RowIds' /\ r.at <= now'
  <2>1. \A r \in rows : r.id \in RowIds /\ r.at <= now /\ r.at \in Nat
    BY DEF TimelineInv, TimelineTypes
  <2>2. now \in Nat
    BY DEF TimelineInv, TimelineTypes
  <2> QED BY <1>1, <1>2, <1>3, <2>1, <2>2
<1>6. TimelineTypes'
  BY <1>1, <1>2, <1>3, <1>4, <1>5 DEF TimelineInv, TimelineTypes
<1>7. T!TimelineComplete'
  BY <1>2 DEF TimelineInv, T!TimelineComplete
<1>8. \A s \in Syncs : sync'[s].pc \notin {"load", "loaded"}
  BY <1>2 DEF T!Tick
<1> QED BY <1>6, <1>7, <1>8 DEF TimelineInv, Reading

(* A row comes with a timestamp that is not old.                           *)
LEMMA RowComes == ASSUME TimelineInv, T!Insert PROVE TimelineInv'
<1> DEFINE n == Cardinality(rows)
<1>1. /\ IsFiniteSet(rows) /\ rows \subseteq [id : Nat, at : Nat] /\ n \in Nat /\ now \in 0..MaxIndexTime
      /\ \A r \in rows : r.id \in RowIds /\ r.at <= now
      /\ \A r, x \in rows : r.id = x.id => r = x
      /\ last \in {T!Never} \cup 0..now
  BY FS_CardinalityType DEF TimelineInv, TimelineTypes
<1>2. PICK lag \in 0..MaxLag :
        lag <= now /\ rows' = rows \cup {[id |-> n + 1, at |-> now - lag]}
  <2>1. \E lag \in 0..MaxLag :
          lag <= now /\ rows' = rows \cup {[id |-> Cardinality(rows) + 1, at |-> now - lag]}
    BY Zenon DEF T!Insert, T!Cardinality, Cardinality, T!IsFiniteSet, IsFiniteSet
  <2> QED BY <2>1
<1> DEFINE new == [id |-> n + 1, at |-> now - lag]
<1>3. UNCHANGED <<now, timeline, last, sync, commits, unpushed, published, tip, base, excused, faults>>
  BY DEF T!Insert, T!git
<1>4. new \in [id : Nat, at : Nat] /\ new.at <= now /\ new.at >= now - Overlap /\ new.id = n + 1
  <2>1. n + 1 \in Nat /\ now - lag \in Nat /\ now - lag <= now /\ now - lag >= now - Overlap
    <3> HIDE DEF n
    <3> QED BY <1>1, <1>2, TimelineAssumption
  <2> QED BY <2>1
<1>5. \A r \in rows : r.id <= n /\ r.id \in Nat
  BY <1>1 DEF RowIds
<1>6. new \notin rows
  BY <1>1, <1>4, <1>5
<1> HIDE DEF new
<1>7. IsFiniteSet(rows') /\ Cardinality(rows') = n + 1
  BY <1>1, <1>2, <1>6, FS_AddElement DEF new
<1>8. RowIds \subseteq RowIds' /\ new.id \in RowIds'
  BY <1>1, <1>4, <1>7 DEF RowIds
<1>9. SyncSet \subseteq SyncSet'
  BY <1>8 DEF SyncSet
<1>10. sync' \in [Syncs -> SyncSet']
  BY <1>3, <1>9 DEF TimelineInv, TimelineTypes
<1>11. \A r \in rows' : r \in rows \/ r = new
  BY <1>2 DEF new
<1>12. /\ rows' \subseteq [id : Nat, at : Nat]
       /\ \A r \in rows' : r.id \in RowIds' /\ r.at <= now'
  BY <1>1, <1>3, <1>4, <1>8, <1>11
<1>13. \A r, x \in rows' : r.id = x.id => r = x
  <2> SUFFICES ASSUME NEW r \in rows', NEW x \in rows', r.id = x.id PROVE r = x
    OBVIOUS
  <2>1. \A y \in rows : y.id # new.id
    BY <1>1, <1>4, <1>5
  <2> QED BY <1>1, <1>11, <2>1
<1>14. TimelineTypes'
  <2>1. UNCHANGED <<now, last, tip, base, faults, unpushed>>
    BY <1>3
  <2>2. /\ timeline' \subseteq RowIds' /\ commits' \subseteq RowIds' /\ published' \subseteq RowIds'
        /\ excused' \subseteq RowIds'
    BY <1>3, <1>8 DEF TimelineInv, TimelineTypes
  <2> QED BY <1>7, <1>10, <1>12, <1>13, <2>1, <2>2 DEF TimelineInv, TimelineTypes
<1>15. /\ ~(new.at < last - Overlap) /\ ~Old(new)
  <2>1. last <= now /\ last \in Int /\ now \in Int /\ Overlap \in Int /\ new.at \in Int
    BY <1>1, <1>4, TimelineAssumption DEF T!Never
  <2> QED BY <1>4, <2>1 DEF Old
<1>16. T!TimelineComplete'
  BY <1>3, <1>11, <1>15 DEF TimelineInv, T!TimelineComplete
<1>18. ASSUME NEW s \in Syncs, Reading(s)' PROVE ReadsOld(s)'
  <2>1. ReadsOld(s)
    BY <1>3, <1>18 DEF TimelineInv, Reading
  <2> QED BY <1>3, <1>11, <1>15, <2>1 DEF ReadsOld, Old, There
<1>19. ASSUME NEW s \in Syncs, sync'[s].pc = "loaded" PROVE KeepsOld(s)'
  <2>1. KeepsOld(s)
    BY <1>3, <1>19 DEF TimelineInv
  <2> QED BY <1>3, <1>11, <1>15, <2>1 DEF KeepsOld, Old
<1> QED BY <1>14, <1>16, <1>18, <1>19 DEF TimelineInv

(* A window is read.                                                       *)
LEMMA WindowReads == ASSUME TimelineInv, NEW s \in Syncs, T!Window(s) PROVE TimelineInv'
<1>1. /\ sync \in [Syncs -> SyncSet] /\ sync[s] \in SyncSet
      /\ rows \subseteq [id : Nat, at : Nat] /\ now \in 0..MaxIndexTime
      /\ \A r \in rows : r.id \in RowIds /\ r.at <= now
      /\ excused \subseteq RowIds
  BY DEF TimelineInv, TimelineTypes
<1>2. PICK from \in {T!Start} \cup {now - k : k \in Asked} :
        \E top \in T!Cut(T!Between(from, now)) :
          /\ sync' = [sync EXCEPT ![s] =
               [@ EXCEPT !.pc = "load", !.start = from, !.end = now, !.read = T!IdsOf(top),
                         !.days = {d \in 0..T!DayOf(MaxIndexTime) :
                                     T!DayOf(from) <= d /\ d <= T!DayOf(now)}]]
          /\ excused' = excused \cup T!IdsOf(T!PassedOver(from) \cup (T!Between(from, now) \ top))
  BY ZenonT(60) DEF T!Window
<1>3. PICK top \in T!Cut(T!Between(from, now)) :
        /\ sync' = [sync EXCEPT ![s] =
             [@ EXCEPT !.pc = "load", !.start = from, !.end = now, !.read = T!IdsOf(top),
                       !.days = {d \in 0..T!DayOf(MaxIndexTime) :
                                   T!DayOf(from) <= d /\ d <= T!DayOf(now)}]]
        /\ excused' = excused \cup T!IdsOf(T!PassedOver(from) \cup (T!Between(from, now) \ top))
  BY <1>2, ZenonT(60)
<1>4. from \in Int
  <2>1. T!Start \in Int
    BY StartFacts DEF TimelineInv
  <2> QED BY <1>1, <2>1, TimelineAssumption
<1>5. UNCHANGED <<now, rows, timeline, last, commits, unpushed, published, tip, base, faults>>
  BY DEF T!Window, T!git
<1> DEFINE seen == T!IdsOf(top)
           left == T!IdsOf(T!PassedOver(from) \cup (T!Between(from, now) \ top))
           span == {d \in 0..T!DayOf(MaxIndexTime) : T!DayOf(from) <= d /\ d <= T!DayOf(now)}
           v == [sync[s] EXCEPT !.pc = "load", !.start = from, !.end = now,
                                !.read = seen, !.days = span]
<1>6. sync' = [sync EXCEPT ![s] = v] /\ excused' = excused \cup left
  BY <1>1, <1>3
<1>7. top \subseteq T!Between(from, now) /\ top \subseteq rows
  BY DEF T!Cut, T!Between
<1>8. seen \subseteq RowIds /\ left \subseteq RowIds
  BY <1>1, <1>7 DEF T!IdsOf, T!PassedOver, T!Between
<1>9. span \subseteq Int
  OBVIOUS
<1>10. /\ v.pc = "load" /\ v.start = from /\ v.end = now /\ v.read = seen /\ v.days = span
  BY <1>1 DEF SyncSet
<1>11. v \in SyncSet
  <2> DEFINE a == [sync[s] EXCEPT !.pc = "load"]
             b == [a EXCEPT !.start = from]
             c == [b EXCEPT !.end = now]
             e == [c EXCEPT !.read = seen]
  <2>1. now \in Int /\ a \in SyncSet
    BY <1>1 DEF SyncSet, SyncPcs
  <2>2. v = [e EXCEPT !.days = span]
    OBVIOUS
  <2> HIDE DEF a, b, c, e, seen, span, v
  <2>3. b \in SyncSet
    BY <1>4, <2>1 DEF SyncSet, b
  <2>4. c \in SyncSet
    BY <2>1, <2>3 DEF SyncSet, c
  <2>5. e \in SyncSet
    BY <1>8, <2>4 DEF SyncSet, e
  <2> QED BY <1>9, <2>2, <2>5 DEF SyncSet
<1> HIDE DEF v, seen, left, span
<1>12. SyncSet' = SyncSet /\ RowIds' = RowIds
  BY <1>5 DEF SyncSet, RowIds
<1>13. sync' \in [Syncs -> SyncSet] /\ sync'[s] = v /\ \A u \in Syncs \ {s} : sync'[u] = sync[u]
  BY <1>1, <1>6, <1>11
<1>14. TimelineTypes'
  BY <1>1, <1>5, <1>6, <1>8, <1>12, <1>13 DEF TimelineInv, TimelineTypes
<1>15. \A r \in rows : There(r) => There(r)'
  BY <1>5, <1>6 DEF There
<1>16. T!TimelineComplete'
  BY <1>5, <1>15 DEF TimelineInv, T!TimelineComplete, There
<1>17. ASSUME NEW r \in rows, r.at < from PROVE There(r)'
  <2>1. r.at \in Int /\ last \in Int /\ Overlap \in Int
    BY <1>1, TimelineAssumption DEF TimelineInv, TimelineTypes, T!Never
  <2>2. CASE last # T!Never /\ r.at < last - Overlap
    <3>1. There(r)
      BY <2>2 DEF TimelineInv, T!TimelineComplete, There
    <3> QED BY <1>15, <3>1
  <2>3. CASE last = T!Never \/ r.at >= last - Overlap
    <3>1. r \in T!PassedOver(from)
      BY <1>17, <2>3 DEF T!PassedOver
    <3>2. r.id \in left
      BY <3>1 DEF left, T!IdsOf
    <3> QED BY <1>6, <3>2 DEF There
  <2> QED BY <2>1, <2>2, <2>3
<1>18. ASSUME NEW r \in rows, r.at >= from
       PROVE  r.id \in seen \cup excused' /\ T!DayOf(r.at) \in span
  <2>1. r.at \in from..now
    BY <1>1, <1>4, <1>18
  <2>2. r.id \in seen \cup excused'
    <3>1. r \in top \/ r \in T!Between(from, now) \ top
      BY <2>1 DEF T!Between
    <3>2. r.id \in seen \cup left
      BY <3>1 DEF seen, left, T!IdsOf
    <3> QED BY <1>6, <3>2
  <2>3. ASSUME NEW a \in Int, NEW b \in Int, a <= b PROVE T!DayOf(a) \in Int /\ T!DayOf(a) <= T!DayOf(b)
    BY <2>3, TimelineAssumption DEF T!DayOf
  <2>4. T!DayOf(0) = 0
    BY TimelineAssumption DEF T!DayOf
  <2>5. r.at \in Int /\ 0 <= r.at /\ r.at <= now /\ now \in Int /\ now <= MaxIndexTime /\ MaxIndexTime \in Int
    BY <1>1, <2>1, TimelineAssumption
  <2>6. /\ T!DayOf(r.at) \in Int /\ T!DayOf(0) <= T!DayOf(r.at) /\ T!DayOf(r.at) <= T!DayOf(now)
        /\ T!DayOf(now) <= T!DayOf(MaxIndexTime) /\ T!DayOf(from) <= T!DayOf(r.at)
        /\ T!DayOf(now) \in Int /\ T!DayOf(MaxIndexTime) \in Int
    BY <1>4, <1>18, <2>3, <2>5
  <2>7. T!DayOf(r.at) \in 0..T!DayOf(MaxIndexTime)
    BY <2>4, <2>6
  <2> QED BY <2>2, <2>6, <2>7 DEF span
<1>19. ReadsOld(s)'
  BY <1>5, <1>10, <1>13, <1>17, <1>18 DEF ReadsOld
<1>20. ASSUME NEW u \in Syncs, u # s, Reading(u)' PROVE ReadsOld(u)'
  <2>1. ReadsOld(u) /\ sync'[u] = sync[u]
    BY <1>13, <1>20 DEF TimelineInv, Reading
  <2> QED BY <1>5, <1>6, <1>15, <2>1 DEF ReadsOld, Old
<1>21. ASSUME NEW u \in Syncs, sync'[u].pc = "loaded" PROVE KeepsOld(u)'
  <2>1. KeepsOld(u) /\ sync'[u] = sync[u]
    BY <1>10, <1>13, <1>21 DEF TimelineInv
  <2> QED BY <1>5, <1>6, <2>1 DEF KeepsOld, Old
<1> QED BY <1>14, <1>16, <1>19, <1>20, <1>21 DEF TimelineInv

(* The rows of a day, and those of a window.                               *)
LEMMA DayAndWindow ==
  ASSUME TimelineTypes, NEW r \in rows
  PROVE  /\ \A d : r.id \in T!OfDay(d) <=> T!DayOf(r.at) = d
         /\ \A a, b \in Int : r.id \in T!IdsOf(T!Between(a, b)) <=> a <= r.at /\ r.at <= b
<1>1. \A x \in rows : x.id = r.id => x = r
  BY DEF TimelineTypes
<1>2. r.at \in Int
  BY DEF TimelineTypes
<1> QED BY <1>1, <1>2 DEF T!OfDay, T!IdsOf, T!Between

(* A day is loaded.                                                        *)
LEMMA DayLoaded == ASSUME TimelineInv, NEW s \in Syncs, T!LoadDay(s) PROVE TimelineInv'
<1> DEFINE d == T!Min(sync[s].days)
           k == (timeline \cap T!OfDay(d)) \ T!IdsOf(T!Between(sync[s].start, sync[s].end))
           v == [sync[s] EXCEPT !.pc = "loaded", !.kept = k]
<1>1. /\ sync \in [Syncs -> SyncSet] /\ sync[s] \in SyncSet /\ TimelineTypes
      /\ timeline \subseteq RowIds /\ Reading(s)
  BY DEF TimelineInv, TimelineTypes, T!LoadDay, Reading
<1>2. sync' = [sync EXCEPT ![s] = v]
  BY <1>1 DEF T!LoadDay
<1>3. UNCHANGED <<now, rows, timeline, last, commits, unpushed, published, tip, base, excused, faults>>
  BY DEF T!LoadDay, T!git
<1>4. k \subseteq RowIds
  BY <1>1
<1>5. v \in SyncSet
  <2>1. [sync[s] EXCEPT !.pc = "loaded"] \in SyncSet
    BY <1>1 DEF SyncSet, SyncPcs
  <2> HIDE DEF k
  <2> QED BY <1>4, <2>1 DEF SyncSet
<1>6. /\ v.pc = "loaded" /\ v.kept = k /\ v.start = sync[s].start /\ v.end = sync[s].end
      /\ v.read = sync[s].read /\ v.days = sync[s].days
  BY <1>1 DEF SyncSet
<1> HIDE DEF v, k, d
<1>7. SyncSet' = SyncSet /\ RowIds' = RowIds 
  BY <1>3 DEF SyncSet, RowIds
<1>8. sync' \in [Syncs -> SyncSet] /\ sync'[s] = v /\ \A u \in Syncs \ {s} : sync'[u] = sync[u]
  BY <1>1, <1>2, <1>5
<1>9. TimelineTypes'
  BY <1>3, <1>7, <1>8 DEF TimelineInv, TimelineTypes
<1>10. T!TimelineComplete'
  BY <1>3 DEF TimelineInv, T!TimelineComplete
<1>11. ASSUME NEW u \in Syncs, Reading(u)' PROVE ReadsOld(u)'
  <2>1. Reading(u)
    BY <1>1, <1>8, <1>11 DEF Reading
  <2>2. ReadsOld(u)
    BY <2>1 DEF TimelineInv
  <2>3. /\ sync'[u].start = sync[u].start /\ sync'[u].end = sync[u].end
        /\ sync'[u].read = sync[u].read /\ sync'[u].days = sync[u].days
    BY <1>6, <1>8
  <2> QED BY <1>3, <2>2, <2>3 DEF ReadsOld, Old, There
<1>12. ASSUME NEW r \in rows, Old(r), T!DayOf(r.at) = d, r.at < sync[s].start
       PROVE  r.id \in k \cup excused
  <2>1. r.at \in Int /\ sync[s].start \in Int /\ sync[s].end \in Int
    BY <1>1 DEF TimelineTypes, SyncSet
  <2>2. There(r)
    BY <1>1, <1>12 DEF TimelineInv, ReadsOld
  <2>3. r.id \in T!OfDay(d)
    BY <1>1, <1>12, DayAndWindow
  <2>4. r.id \notin T!IdsOf(T!Between(sync[s].start, sync[s].end))
    <3>1. ~(sync[s].start <= r.at)
      BY <1>12, <2>1
    <3> QED BY <1>1, <2>1, <3>1, DayAndWindow
  <2> QED BY <2>2, <2>3, <2>4 DEF k, There
<1>13. KeepsOld(s)'
  BY <1>3, <1>6, <1>8, <1>12 DEF KeepsOld, Old, d
<1>14. ASSUME NEW u \in Syncs, u # s, sync'[u].pc = "loaded" PROVE KeepsOld(u)'
  <2>1. KeepsOld(u) /\ sync'[u] = sync[u]
    BY <1>8, <1>14 DEF TimelineInv
  <2> QED BY <1>3, <2>1 DEF KeepsOld, Old
<1> QED BY <1>9, <1>10, <1>11, <1>13, <1>14 DEF TimelineInv

(* A day is replaced.                                                      *)
LEMMA DayReplaced == ASSUME TimelineInv, NEW s \in Syncs, T!ReplaceDay(s) PROVE TimelineInv'
<1> DEFINE d == T!Min(sync[s].days)
           v == [sync[s] EXCEPT !.pc = "load", !.kept = {}, !.days = sync[s].days \ {d}]
<1>1. /\ sync \in [Syncs -> SyncSet] /\ sync[s] \in SyncSet /\ TimelineTypes
      /\ timeline \subseteq RowIds /\ Reading(s) /\ sync[s].pc = "loaded"
  BY DEF TimelineInv, TimelineTypes, T!ReplaceDay, Reading
<1>2. /\ sync' = [sync EXCEPT ![s] = v]
      /\ timeline' = (timeline \ T!OfDay(d)) \cup sync[s].kept \cup (sync[s].read \cap T!OfDay(d))
  BY <1>1 DEF T!ReplaceDay
<1>3. UNCHANGED <<now, rows, last, commits, unpushed, published, tip, base, excused, faults>>
  BY DEF T!ReplaceDay, T!git
<1>4. v \in SyncSet
  <2> HIDE DEF d
  <2>1. [sync[s] EXCEPT !.pc = "load"] \in SyncSet
    BY <1>1 DEF SyncSet, SyncPcs
  <2> DEFINE a == [sync[s] EXCEPT !.pc = "load"]
             b == [a EXCEPT !.kept = {}]
  <2>2. b \in SyncSet
    <3> HIDE DEF a
    <3> QED BY <2>1 DEF SyncSet, a
  <2>3. v = [b EXCEPT !.days = sync[s].days \ {d}]
    OBVIOUS
  <2>4. sync[s].days \ {d} \subseteq Int
    BY <1>1 DEF SyncSet
  <2> HIDE DEF a, b, v
  <2> QED BY <2>2, <2>3, <2>4 DEF SyncSet
<1>5. /\ v.pc = "load" /\ v.start = sync[s].start /\ v.end = sync[s].end
      /\ v.read = sync[s].read /\ v.days = sync[s].days \ {d}
  BY <1>1 DEF SyncSet
<1> HIDE DEF v, d
<1>6. SyncSet' = SyncSet /\ RowIds' = RowIds 
  BY <1>3 DEF SyncSet, RowIds
<1>7. sync' \in [Syncs -> SyncSet] /\ sync'[s] = v /\ \A u \in Syncs \ {s} : sync'[u] = sync[u]
  BY <1>1, <1>2, <1>4
<1>8. timeline' \subseteq RowIds
  BY <1>1, <1>2 DEF SyncSet
<1>9. TimelineTypes'
  BY <1>3, <1>6, <1>7, <1>8 DEF TimelineInv, TimelineTypes
<1>10. ReadsOld(s) /\ KeepsOld(s)
  BY <1>1 DEF TimelineInv
<1>11. ASSUME NEW r \in rows PROVE T!DayOf(r.at) # d /\ There(r) => There(r)'
  BY <1>1, <1>2, <1>3, DayAndWindow DEF There
<1>12. ASSUME NEW r \in rows, Old(r), T!DayOf(r.at) = d PROVE There(r)'
  <2>1. CASE r.at >= sync[s].start
    BY <1>1, <1>2, <1>3, <1>10, <1>12, <2>1, DayAndWindow DEF There, ReadsOld
  <2>2. CASE r.at < sync[s].start
    BY <1>2, <1>3, <1>10, <1>12, <2>2 DEF There, KeepsOld, d
  <2>3. r.at >= sync[s].start \/ r.at < sync[s].start
    BY <1>1 DEF TimelineTypes, SyncSet
  <2> QED BY <2>1, <2>2, <2>3
<1>13. ASSUME NEW r \in rows, Old(r), There(r) PROVE There(r)'
  BY <1>11, <1>12, <1>13
<1>14. T!TimelineComplete'
  <2> SUFFICES ASSUME NEW r \in rows, r.at < last - Overlap PROVE There(r)'
    BY <1>3 DEF T!TimelineComplete, There
  <2>1. There(r)
    BY DEF TimelineInv, T!TimelineComplete, There
  <2>2. r.at \in Int /\ last \in Int /\ now \in Int /\ Overlap \in Int /\ last <= now
    BY <1>1, TimelineAssumption DEF TimelineTypes, T!Never
  <2>3. Old(r)
    BY <2>2 DEF Old
  <2> QED BY <1>13, <2>1, <2>3
<1>15. ASSUME NEW u \in Syncs, Reading(u)' PROVE ReadsOld(u)'
  <2>1. Reading(u)
    BY <1>1, <1>7, <1>15 DEF Reading
  <2>2. ReadsOld(u)
    BY <2>1 DEF TimelineInv
  <2>3. /\ sync'[u].start = sync[u].start /\ sync'[u].end = sync[u].end
        /\ sync'[u].read = sync[u].read
        /\ sync'[u].days = IF u = s THEN sync[u].days \ {d} ELSE sync[u].days
    BY <1>5, <1>7
  <2>4. ASSUME NEW r \in rows, Old(r), r.at >= sync[u].start, T!DayOf(r.at) \notin sync'[u].days
        PROVE  There(r)'
    <3>1. CASE T!DayOf(r.at) # d
      <4>1. There(r)
        BY <2>2, <2>3, <2>4, <3>1 DEF ReadsOld
      <4> QED BY <1>11, <3>1, <4>1
    <3> QED BY <1>12, <2>4, <3>1
  <2> QED BY <1>3, <1>13, <2>2, <2>3, <2>4 DEF ReadsOld, Old
<1>16. ASSUME NEW u \in Syncs, sync'[u].pc = "loaded" PROVE KeepsOld(u)'
  <2>1. KeepsOld(u) /\ sync'[u] = sync[u]
    BY <1>5, <1>7, <1>16 DEF TimelineInv
  <2> QED BY <1>3, <2>1 DEF KeepsOld, Old
<1> QED BY <1>9, <1>14, <1>15, <1>16 DEF TimelineInv

(* A window ends.                                                          *)
LEMMA WindowEnds == ASSUME TimelineInv, NEW s \in Syncs, T!Conclude(s) PROVE TimelineInv'
<1>1. /\ sync \in [Syncs -> SyncSet] /\ sync[s] \in SyncSet /\ TimelineTypes
      /\ Reading(s) /\ sync[s].days = {} /\ ReadsOld(s)
  BY DEF TimelineInv, TimelineTypes, T!Conclude, T!Written, Reading
<1>2. PICK v \in {T!Idle, [T!Idle EXCEPT !.pc = "commit"]} : sync' = [sync EXCEPT ![s] = v]
  BY DEF T!Conclude
<1>3. UNCHANGED <<now, rows, timeline, commits, unpushed, published, tip, base, excused, faults>>
  BY DEF T!Conclude, T!git
<1>4. last' = now
  BY <1>1 DEF T!Conclude, ReadsOld
<1>5. v \in SyncSet /\ v.pc \in {"idle", "commit"}
  <2>1. T!Idle \in SyncSet /\ T!Idle.pc = "idle"
    BY DEF T!Idle, SyncSet, SyncPcs
  <2>2. [T!Idle EXCEPT !.pc = "commit"] \in SyncSet /\ [T!Idle EXCEPT !.pc = "commit"].pc = "commit"
    BY <2>1 DEF SyncSet, SyncPcs
  <2> QED BY <1>2, <2>1, <2>2
<1>6. SyncSet' = SyncSet /\ RowIds' = RowIds
  BY <1>3 DEF SyncSet, RowIds
<1>7. sync' \in [Syncs -> SyncSet] /\ sync'[s] = v /\ \A u \in Syncs \ {s} : sync'[u] = sync[u]
  BY <1>1, <1>2, <1>5
<1>9. now \in 0..now
  BY <1>1 DEF TimelineTypes
<1>10. TimelineTypes'
  BY <1>1, <1>3, <1>4, <1>6, <1>7, <1>9 DEF TimelineTypes
<1>12. ASSUME NEW r \in rows, Old(r) PROVE There(r)
  <2>1. r.at >= sync[s].start \/ r.at < sync[s].start
    BY <1>1 DEF TimelineTypes, SyncSet
  <2> QED BY <1>1, <1>12, <2>1 DEF ReadsOld
<1>13. T!TimelineComplete'
  BY <1>3, <1>4, <1>12 DEF T!TimelineComplete, There, Old
<1>14. ASSUME NEW u \in Syncs, sync'[u].pc \in {"load", "loaded"}
       PROVE  u # s /\ sync'[u] = sync[u] /\ Reading(u) /\ ReadsOld(u)
  BY <1>5, <1>7, <1>14 DEF TimelineInv, Reading
<1>15. ASSUME NEW u \in Syncs, Reading(u)' PROVE ReadsOld(u)'
  <2>1. sync'[u] = sync[u] /\ ReadsOld(u)
    BY <1>14, <1>15 DEF Reading
  <2> QED BY <1>3, <2>1 DEF ReadsOld, Old, There
<1>16. ASSUME NEW u \in Syncs, sync'[u].pc = "loaded" PROVE KeepsOld(u)'
  <2>1. sync'[u] = sync[u] /\ KeepsOld(u)
    BY <1>14, <1>16 DEF TimelineInv
  <2> QED BY <1>3, <2>1 DEF KeepsOld, Old
<1> QED BY <1>10, <1>13, <1>15, <1>16 DEF TimelineInv

(* The other user of the repository.                                       *)
LEMMA OthersPush == ASSUME TimelineInv, T!Foreign PROVE TimelineInv'
<1>1. tip' = tip + 1
  BY DEF T!Foreign
<1>2. UNCHANGED <<now, rows, timeline, last, sync, commits, unpushed, published, base, excused, faults>>
  BY DEF T!Foreign
<1>3. tip' \in Nat /\ base <= tip'
  BY <1>1 DEF TimelineInv, TimelineTypes
<1>4. SyncSet' = SyncSet /\ RowIds' = RowIds 
  BY <1>2 DEF SyncSet, RowIds
<1>5. TimelineTypes'
  BY <1>2, <1>3, <1>4 DEF TimelineInv, TimelineTypes
<1>6. T!TimelineComplete'
  BY <1>2 DEF TimelineInv, T!TimelineComplete
<1>7. \A s \in Syncs : Reading(s)' => ReadsOld(s)'
  BY <1>2, <1>4 DEF TimelineInv, Reading, ReadsOld, Old, There
<1>8. \A s \in Syncs : sync'[s].pc = "loaded" => KeepsOld(s)'
  BY <1>2 DEF TimelineInv, KeepsOld, Old
<1> QED BY <1>5, <1>6, <1>7, <1>8 DEF TimelineInv

LEMMA InitTimeline == ASSUME T!Init PROVE TimelineInv
<1>1. /\ now = 0 /\ rows = {} /\ timeline = {} /\ last = T!Never
      /\ sync = [s \in Syncs |-> T!Idle] /\ commits = {} /\ unpushed = FALSE /\ published = {}
      /\ tip = 0 /\ base = 0 /\ excused = {} /\ faults = 0
  BY DEF T!Init
<1>2. T!Idle \in SyncSet /\ T!Idle.pc = "idle"
  BY DEF T!Idle, SyncSet, SyncPcs
<1>3. IsFiniteSet(rows)
  BY <1>1, FS_EmptySet
<1>4. 0 \in 0..MaxFaults /\ 0 \in 0..MaxIndexTime
  BY BoundAssumption, TimelineAssumption
<1>5. TimelineTypes
  <2>1. sync \in [Syncs -> SyncSet]
    BY <1>1, <1>2
  <2> HIDE DEF SyncSet
  <2>2. now \in 0..MaxIndexTime /\ last \in {T!Never} \cup 0..now /\ faults \in 0..MaxFaults
    BY <1>1, <1>4
  <2>3. tip \in Nat /\ base \in Nat /\ base <= tip
    BY <1>1
  <2>5. unpushed \in BOOLEAN
    BY Zenon DEF T!Init
  <2>4. rows = {} /\ timeline = {} /\ commits = {} /\ published = {} /\ excused = {}
    BY <1>1
  <2> QED BY <1>3, <2>1, <2>2, <2>3, <2>4, <2>5 DEF TimelineTypes
<1>6. T!TimelineComplete
  BY <1>1 DEF T!TimelineComplete
<1>7. \A s \in Syncs : sync[s].pc = "idle"
  BY <1>1, <1>2
<1> QED BY <1>5, <1>6, <1>7 DEF TimelineInv, Reading

LEMMA NextTimeline == ASSUME TimelineInv, T!Next PROVE TimelineInv'
<1>1. CASE T!Tick
  BY <1>1, TimeGoesOn
<1>2. CASE T!Insert
  BY <1>2, RowComes
<1>3. CASE T!Foreign
  BY <1>3, OthersPush
<1>4. ASSUME NEW s \in Syncs, T!Sync(s) \/ T!Die(s) PROVE TimelineInv'
  <2>1. CASE \/ T!Begin(s) \/ T!Recover(s) \/ T!Fetch(s) \/ T!Push(s) \/ T!PushFails(s)
             \/ T!CommitAll(s) \/ T!Die(s)
    BY <2>1, GitSteps
  <2>2. CASE T!Window(s)
    BY <2>2, WindowReads
  <2>3. CASE T!LoadDay(s)
    BY <2>3, DayLoaded
  <2>4. CASE T!ReplaceDay(s)
    BY <2>4, DayReplaced
  <2>5. CASE T!Conclude(s)
    BY <2>5, WindowEnds
  <2> QED BY <1>4, <2>1, <2>2, <2>3, <2>4, <2>5 DEF T!Sync
<1> QED BY <1>1, <1>2, <1>3, <1>4 DEF T!Next

LEMMA TimelineStutters == ASSUME TimelineInv, UNCHANGED T!vars PROVE TimelineInv'
<1>1. UNCHANGED <<now, rows, timeline, last, sync, commits, unpushed, published, tip, base, excused, faults>>
  BY DEF T!vars, T!git
<1>2. SyncSet' = SyncSet /\ RowIds' = RowIds 
  BY <1>1 DEF SyncSet, RowIds
<1>3. TimelineTypes'
  BY <1>1, <1>2 DEF TimelineInv, TimelineTypes
<1>4. T!TimelineComplete'
  BY <1>1 DEF TimelineInv, T!TimelineComplete
<1>5. \A s \in Syncs : Reading(s)' => ReadsOld(s)'
  BY <1>1, <1>2 DEF TimelineInv, Reading, ReadsOld, Old, There
<1>6. \A s \in Syncs : sync'[s].pc = "loaded" => KeepsOld(s)'
  BY <1>1 DEF TimelineInv, KeepsOld, Old
<1> QED BY <1>3, <1>4, <1>5, <1>6 DEF TimelineInv

LEMMA TimelineIsTrue == ASSUME TimelineInv PROVE T!TypeOK /\ T!TimelineComplete
<1>1. RowIds = 1..T!Cardinality(rows)
  BY DEF RowIds, T!Cardinality, Cardinality
<1> QED BY <1>1 DEF TimelineInv, TimelineTypes, T!TypeOK

(* The derived timeline (sync_context_index): whatever runs overlap, are    *)
(* killed between two day files or find rows that came late, a row whose    *)
(* time the last window has passed is in the timeline or will be in the     *)
(* next window, unless a window left it out for its length or for its cut.  *)
THEOREM TimelineStaysTrue == T!Spec => [](T!TypeOK /\ T!TimelineComplete)
<1>1. T!Init => TimelineInv
  BY InitTimeline
<1>2. TimelineInv /\ [T!Next]_(T!vars) => TimelineInv'
  BY NextTimeline, TimelineStutters
<1>3. TimelineInv => T!TypeOK /\ T!TimelineComplete
  BY TimelineIsTrue
<1> QED BY <1>1, <1>2, <1>3, PTL DEF T!Spec

-----------------------------------------------------------------------------
(* All archives: the one that moves keeps its invariant, the others stay    *)
(* where they began.                                                       *)
Recording == {"executions", "collectors"}
Indexing  == {"timeline", "windows"}
AllInv ==
  /\ part \in {"chat", "export"} \cup Indexing \cup Recording
  /\ IF part = "chat" THEN ChatInv ELSE DOMAIN disk = {}
  /\ IF part = "export" THEN ExportInv ELSE ~private /\ remote = <<H!Empty>>
  /\ IF part \in Indexing THEN TimelineInv ELSE rows = {}
  /\ IF part \in Recording THEN ArchiveInv ELSE ExecutionArchiveIsTrue

LEMMA InitAll == ASSUME AllInit PROVE AllInv
<1>1. /\ part \in {"chat", "export"} \cup Indexing \cup Recording
      /\ Init /\ A!Init /\ H!Init /\ T!Init /\ (part # "export" => ~private)
  BY DEF AllInit, Recording, Indexing
<1>2. ChatInv /\ ExportInv /\ TimelineInv /\ ArchiveInv /\ ExecutionArchiveIsTrue
  BY <1>1, InitChat, InitExport, InitTimeline, InitInv, ArchiveTold
<1>3. DOMAIN disk = {} /\ remote = <<H!Empty>> /\ rows = {}
  BY <1>1 DEF A!Init, H!Init, T!Init
<1> QED BY <1>1, <1>2, <1>3 DEF AllInv

LEMMA ArchiveRests ==
  ASSUME ExecutionArchiveIsTrue, UNCHANGED archiveVars
  PROVE  ExecutionArchiveIsTrue'
<1>1. UNCHANGED <<dir, index, order, lock, cmd, col, rec, cursor, written, ever>>
  BY DEF archiveVars
<1> QED BY <1>1 DEF ExecutionArchiveIsTrue, RowsHaveOriginals, SealedIsFaithful, NothingPassed,
                    RecoveryIndexesAll, Sealed

LEMMA AllStep == ASSUME AllInv, [AllNext]_allVars PROVE AllInv'
<1>1. CASE InChat(A!Next)
  <2>1. part = "chat" /\ A!Next /\ UNCHANGED <<part, private, remote, rows>> /\ UNCHANGED archiveVars
    BY <1>1 DEF InChat, exportVars, indexVars
  <2>2. ChatInv' /\ ExecutionArchiveIsTrue'
    BY <2>1, NextChat, ArchiveRests DEF AllInv, Recording, Indexing
  <2> QED BY <2>1, <2>2 DEF AllInv, Recording, Indexing
<1>2. CASE InExport(H!Next)
  <2>1. part = "export" /\ H!Next /\ UNCHANGED <<part, disk, rows>> /\ UNCHANGED archiveVars
    BY <1>2 DEF InExport, chatVars, indexVars
  <2>2. ExportInv' /\ ExecutionArchiveIsTrue'
    BY <2>1, NextExport, ArchiveRests DEF AllInv, Recording, Indexing
  <2> QED BY <2>1, <2>2 DEF AllInv, Recording, Indexing
<1>3. CASE InTimeline(T!Next /\ (OneRow \/ NoPublish))
  <2>1. part \in Indexing /\ T!Next /\ UNCHANGED <<part, disk, private, remote>> /\ UNCHANGED archiveVars
    BY <1>3 DEF InTimeline, Indexing, chatVars, exportVars
  <2>2. TimelineInv' /\ ExecutionArchiveIsTrue'
    BY <2>1, NextTimeline, ArchiveRests DEF AllInv, Recording, Indexing
  <2> QED BY <2>1, <2>2 DEF AllInv, Recording, Indexing
<1>4. CASE Next /\ (OneCollector \/ NoOutput) /\ UNCHANGED <<part, now, chatVars, exportVars, indexVars>>
  <2>1. Next /\ part \in Recording /\ UNCHANGED <<part, disk, private, remote, rows>>
    BY <1>4 DEF OneCollector, NoOutput, Recording, chatVars, exportVars, indexVars
  <2>2. ArchiveInv'
    BY <2>1, ArchiveStep DEF AllInv
  <2> QED BY <2>1, <2>2 DEF AllInv, Recording, Indexing
<1>5. CASE UNCHANGED allVars
  <2>1. /\ UNCHANGED <<part, disk, private, remote, rows, now, faults>>
        /\ UNCHANGED chatVars /\ UNCHANGED exportVars /\ UNCHANGED archiveVars /\ UNCHANGED indexVars
    BY <1>5 DEF allVars, chatVars, exportVars, indexVars
  <2>2. ChatInv => ChatInv'
    <3>1. UNCHANGED A!vars
      BY <2>1 DEF A!vars, chatVars
    <3> QED BY <3>1, ChatStutters
  <2>3. ExportInv => ExportInv'
    <3>1. UNCHANGED <<private, sent, remote, local, work, marker, export, foreign, faults>>
      BY <2>1 DEF exportVars
    <3> QED BY <3>1, ExportStutters
  <2>4. TimelineInv => TimelineInv'
    <3>1. UNCHANGED T!vars
      BY <2>1 DEF T!vars, T!git, indexVars
    <3> QED BY <3>1, TimelineStutters
  <2>5. ArchiveInv => ArchiveInv'
    <3>1. UNCHANGED vars
      BY <2>1 DEF vars, archiveVars
    <3> QED BY <3>1, ArchiveStep
  <2>6. ExecutionArchiveIsTrue => ExecutionArchiveIsTrue'
    BY <2>1, ArchiveRests
  <2> QED BY <2>1, <2>2, <2>3, <2>4, <2>5, <2>6 DEF AllInv, Recording, Indexing
<1> QED BY <1>1, <1>2, <1>3, <1>4, <1>5 DEF AllNext

LEMMA AllTold ==
  ASSUME AllInv
  PROVE  ArchivesTypeOK /\ ArchivesAreTrue /\ ExecutionArchiveIsTrue
<1>1. A!NoFalseTombstone /\ A!MediaOutlivesMessage /\ (part = "chat" => A!TypeOK)
  BY ChatIsTrue DEF AllInv, A!NoFalseTombstone, A!MediaOutlivesMessage
<1>2. H!ArchiveExact /\ (part = "export" => H!TypeOK)
  <2>1. CASE part = "export"
    BY <2>1, ExportIsTrue DEF AllInv
  <2>2. CASE part # "export"
    <3>1. H!Published = {H!Empty}
      BY <2>2 DEF AllInv, H!Published, H!Range
    <3>2. Exact(H!Empty, 0) /\ 1..(H!Empty).cursor = {}
      BY EmptyExact DEF H!Empty
    <3>3. \A mo \in H!Months :
            (H!Empty).files[mo] = H!InOrder({m \in H!Archived(H!Empty) : MonthOf[m] = mo})
      BY <3>2 DEF Exact, OfMonth
    <3> QED BY <2>2, <3>1, <3>2, <3>3 DEF H!ArchiveExact
  <2> QED BY <2>1, <2>2
<1>3. T!TimelineComplete /\ (part \in Indexing => T!TypeOK)
  BY TimelineIsTrue DEF AllInv, T!TimelineComplete
<1>4. ExecutionArchiveIsTrue /\ (part \in Recording => TypeOK)
  BY ArchiveTold DEF AllInv
<1> QED BY <1>1, <1>2, <1>3, <1>4 DEF ArchivesTypeOK, ArchivesAreTrue, Recording, Indexing

(* All archives of the run, with what it checks of each: no message that is *)
(* there is told deleted, but at the edge of a window, and no file is lost; *)
(* an export holds each message once; the timeline has what its windows     *)
(* passed and did not cut; no row of the archive of executions is without   *)
(* its original.                                                           *)
THEOREM ArchivesStayTrue == AllSpec => [](ArchivesTypeOK /\ ArchivesAreTrue /\ ExecutionArchiveIsTrue)
<1>1. AllInit => AllInv
  BY InitAll
<1>2. AllInv /\ [AllNext]_allVars => AllInv'
  BY AllStep
<1>3. AllInv => ArchivesTypeOK /\ ArchivesAreTrue /\ ExecutionArchiveIsTrue
  BY AllTold
<1> QED BY <1>1, <1>2, <1>3, PTL DEF AllSpec

(* Every variable of the archives stays in its type, in the part at work.   *)
THEOREM ArchivesTypes == AllSpec => []ArchivesTypeOK
<1>1. ArchivesTypeOK /\ ArchivesAreTrue /\ ExecutionArchiveIsTrue => ArchivesTypeOK
  OBVIOUS
<1> QED BY <1>1, ArchivesStayTrue, PTL

=============================================================================
