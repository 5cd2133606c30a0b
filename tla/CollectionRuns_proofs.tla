------------------------ MODULE CollectionRuns_proofs ------------------------
(***************************************************************************)
(* What a command reports of a collection is its own worker's, for every   *)
(* set of commands, every plan and any number of turns, rows and faults.   *)
(***************************************************************************)
EXTENDS CollectionRuns, SequenceTheorems, TLAPS

Outcomes == Good \cup {"running", "error"}

CmdState ==
  [pc : Pcs, due : SUBSET Nat, at : Nat, turn : 0..MaxTurns, boundary : Nat, reply : Nat,
   report : [outcome : Outcomes \cup {None}, row : Nat]]

WorkerState == [pc : {"none", "new", "collecting", "print", "failed"}, row : Nat]

(* The types in full, and the row ids within the table.                    *)
Shape ==
  /\ runs \in Seq(Row) /\ Len(runs) <= MaxRuns
  /\ locks \in [Groups -> Commands \cup {None}]
  /\ cmd \in [Commands -> CmdState]
  /\ worker \in [Commands -> WorkerState]
  /\ \A c \in Commands :
       /\ cmd[c].due \subseteq 1..Len(Plan[c]) /\ cmd[c].at \in 1..Len(Plan[c])
       /\ cmd[c].boundary <= Len(runs) /\ cmd[c].reply <= Len(runs)
       /\ worker[c].row <= Len(runs)
       /\ cmd[c].pc # "idle" => cmd[c].turn # 0
  /\ last \in [Scopes -> 0..MaxTime] /\ now \in 0..MaxTime

(* Turns only go up, a recorded failure is no success, and every scope that *)
(* has rows has a last one.                                                *)
RowsInv ==
  /\ \A i \in DOMAIN runs : runs[i].kind = "record" => runs[i].outcome \notin Good
  /\ \A i \in DOMAIN runs, c \in Commands, t \in 1..MaxTurns :
       runs[i].by = <<c, t>> => t <= cmd[c].turn
  /\ \A s \in Scopes : IdsOf(s) # {} => \E i \in IdsOf(s) : \A j \in IdsOf(s) : j <= i

Busy == {"wait", "judge", "record", "recorded", "note"}

(* From the lock to the note a command holds the lock of its scope.        *)
Holds(c) ==
  /\ cmd[c].pc \in Busy \cup {"locked"} => locks[Group(Scope(c))] = c
  /\ cmd[c].pc = "wait" <=> worker[c].pc # "none"

(* A turn has no rows yet for what is left of its plan.                    *)
Fresh(c) ==
  cmd[c].pc # "idle" =>
    \A i \in DOMAIN runs : runs[i].by = Turn(c) =>
      \E j \in 1..cmd[c].at :
        /\ runs[i].scope = Plan[c][j]
        /\ j = cmd[c].at => cmd[c].pc \in Busy /\ worker[c].pc # "new"

(* The rows of the scope above the boundary are the turn's own.            *)
Divides(c) ==
  cmd[c].pc \in Busy =>
    \A i \in IdsOf(Scope(c)) : i > cmd[c].boundary <=> runs[i].by = Turn(c)

Own(c) == {i \in IdsOf(Scope(c)) : runs[i].by = Turn(c) /\ runs[i].kind = "worker"}

(* The worker has at most one row, and its place tells the row's outcome.  *)
Persisted(c) ==
  /\ cmd[c].pc \in Busy => \A i, j \in Own(c) : i = j
  /\ worker[c].pc \in {"collecting", "print", "failed"} => worker[c].row \in Own(c)
  /\ worker[c].pc = "print" => runs[worker[c].row].outcome \in Good
  /\ worker[c].pc = "collecting" => runs[worker[c].row].outcome \notin Good
  /\ worker[c].pc = "failed" => runs[worker[c].row].outcome \notin Good

NoOwnSuccess(c) == \A i \in Own(c) : runs[i].outcome \notin Good

OwnReport(c) ==
  IF cmd[c].report.outcome \in Good
  THEN cmd[c].report.row \in Own(c) /\ runs[cmd[c].report.row].outcome = cmd[c].report.outcome
  ELSE NoOwnSuccess(c)

(* What is known once the worker has ended.                                *)
Told(c) ==
  /\ cmd[c].pc = "judge" /\ cmd[c].reply # 0 =>
       cmd[c].reply \in Own(c) /\ runs[cmd[c].reply].outcome \in Good
  /\ cmd[c].pc \in {"record", "recorded"} => NoOwnSuccess(c)
  /\ cmd[c].pc = "recorded" =>
       /\ cmd[c].reply \in DOMAIN runs
       /\ runs[cmd[c].reply].by = Turn(c) /\ runs[cmd[c].reply].kind = "record"
  /\ cmd[c].pc = "note" => OwnReport(c)

CInv(c) == Holds(c) /\ Fresh(c) /\ Divides(c) /\ Persisted(c) /\ Told(c)

IInv == Shape /\ RowsInv /\ \A c \in Commands : CInv(c)

-----------------------------------------------------------------------------
(* The rows after an append and after a change of one outcome.             *)
LEMMA AppendRow ==
  ASSUME NEW q \in Seq(Row), NEW r \in Row
  PROVE  /\ Append(q, r) \in Seq(Row)
         /\ Len(Append(q, r)) = Len(q) + 1
         /\ DOMAIN Append(q, r) = 1..(Len(q) + 1)
         /\ \A i \in 1..Len(q) : Append(q, r)[i] = q[i]
         /\ Append(q, r)[Len(q) + 1] = r
  OBVIOUS

(* A row that changes its outcome stays where it is, with its owner.        *)
LEMMA ChangeRow ==
  ASSUME NEW q \in Seq(Row), NEW n \in 1..Len(q), NEW o \in Outcomes
  PROVE  LET q2 == [q EXCEPT ![n].outcome = o]
         IN  /\ q2 \in Seq(Row) /\ Len(q2) = Len(q) /\ DOMAIN q2 = 1..Len(q)
             /\ \A i \in 1..Len(q) :
                  /\ q2[i].scope = q[i].scope /\ q2[i].by = q[i].by /\ q2[i].kind = q[i].kind
                  /\ q2[i].outcome = IF i = n THEN o ELSE q[i].outcome
<1> DEFINE e  == [q[n] EXCEPT !.outcome = o]
           q2 == [q EXCEPT ![n].outcome = o]
<1>1. q[n] \in Row
  BY ElementOfSeq
<1>2. /\ e \in Row /\ e.outcome = o
      /\ e.scope = q[n].scope /\ e.by = q[n].by /\ e.kind = q[n].kind
  BY <1>1 DEF Row, Outcomes
<1>3. q2 = [q EXCEPT ![n] = e]
  OBVIOUS
<1>4. /\ q2 \in Seq(Row) /\ Len(q2) = Len(q)
      /\ \A j \in 1..Len(q) : q2[j] = IF j = n THEN e ELSE q[j]
  <2> HIDE DEF e, q2
  <2> QED BY <1>2, <1>3, ExceptSeq
<1>5. DOMAIN q2 = 1..Len(q)
  <2> HIDE DEF e, q2
  <2> QED BY <1>4, LenProperties
<1> HIDE DEF e, q2
<1>6. \A i \in 1..Len(q) :
        /\ q2[i].scope = q[i].scope /\ q2[i].by = q[i].by /\ q2[i].kind = q[i].kind
        /\ q2[i].outcome = IF i = n THEN o ELSE q[i].outcome
  BY <1>2, <1>4
<1> QED BY <1>4, <1>5, <1>6 DEF q2

(* A command is always at a scope of its plan.                             *)
LEMMA AtScope ==
  ASSUME Shape, NEW c \in Commands
  PROVE  Scope(c) \in Scopes /\ Group(Scope(c)) \in Groups
<1>1. cmd[c].at \in 1..Len(Plan[c])
  BY DEF Shape
<1>2. Scope(c) \in Scopes
  BY <1>1 DEF Scope, Scopes
<1> QED BY <1>2 DEF Groups

(* The rows are numbered from 1.                                            *)
LEMMA RowsDomain == ASSUME Shape PROVE DOMAIN runs = 1..Len(runs) /\ Len(runs) \in Nat
BY LenProperties DEF Shape

(* The first states satisfy the invariant.                                  *)
LEMMA InitIInv == Init => IInv
<1> SUFFICES ASSUME Init PROVE IInv
  OBVIOUS
<1>1. \A c \in Commands : cmd[c] = Idle(0) /\ worker[c] = NoWorker
  BY DEF Init
<1>2. Idle(0) \in CmdState /\ NoWorker \in WorkerState
  BY BoundAssumption DEF Idle, Place, CmdState, Pcs, Unreported, NoWorker, WorkerState, Outcomes
<1>3. \A c \in Commands : Len(Plan[c]) \in Nat \ {0}
  BY PlanAssumption, EmptySeq
<1>4. runs \in Seq(Row) /\ Len(runs) = 0 /\ DOMAIN runs = {}
  BY EmptySeq DEF Init
<1>5. Shape
  <2>1. cmd \in [Commands -> CmdState] /\ worker \in [Commands -> WorkerState]
    BY <1>2 DEF Init
  <2>2. /\ locks \in [Groups -> Commands \cup {None}]
        /\ last \in [Scopes -> 0..MaxTime] /\ now \in 0..MaxTime
    BY BoundAssumption DEF Init
  <2>3. ASSUME NEW c \in Commands
        PROVE  /\ cmd[c].due \subseteq 1..Len(Plan[c]) /\ cmd[c].at \in 1..Len(Plan[c])
               /\ cmd[c].boundary <= Len(runs) /\ cmd[c].reply <= Len(runs)
               /\ worker[c].row <= Len(runs)
               /\ cmd[c].pc # "idle" => cmd[c].turn # 0
    BY <1>1, <1>3, <1>4 DEF Idle, Place, NoWorker
  <2> QED BY <1>4, <2>1, <2>2, <2>3, BoundAssumption DEF Shape
<1>6. RowsInv
  BY <1>4 DEF RowsInv, IdsOf
<1>7. ASSUME NEW c \in Commands PROVE CInv(c)
  BY <1>1 DEF CInv, Holds, Fresh, Divides, Persisted, Told, Idle, Place, NoWorker, Busy
<1> QED BY <1>5, <1>6, <1>7 DEF IInv

(* A row that starts is added at the end.                                   *)
LEMMA StartedRow ==
  ASSUME Shape, NEW c \in Commands, NEW kind \in {"worker", "record"},
         cmd[c].pc # "idle", runs' = Started(c, kind)
  PROVE  /\ runs' \in Seq(Row) /\ Len(runs') = Len(runs) + 1
         /\ DOMAIN runs' = DOMAIN runs \cup {Len(runs) + 1}
         /\ Len(runs) + 1 \notin DOMAIN runs
         /\ \A i \in DOMAIN runs : runs'[i] = runs[i] /\ i < Len(runs) + 1
         /\ runs'[Len(runs) + 1] = [scope |-> Scope(c), outcome |-> "running",
                                    by |-> Turn(c), kind |-> kind]
<1> DEFINE r == [scope |-> Scope(c), outcome |-> "running", by |-> Turn(c), kind |-> kind]
<1>1. cmd[c].turn \in 1..MaxTurns
  BY BoundAssumption DEF Shape, CmdState
<1>2. r \in Row
  BY <1>1, AtScope DEF Row, Turn
<1>3. DOMAIN runs = 1..Len(runs) /\ Len(runs) \in Nat /\ runs \in Seq(Row)
  BY RowsDomain DEF Shape
<1>4. runs' = Append(runs, r)
  BY DEF Started
<1> HIDE DEF r
<1>5. /\ runs' \in Seq(Row) /\ Len(runs') = Len(runs) + 1
      /\ DOMAIN runs' = 1..(Len(runs) + 1)
      /\ \A i \in 1..Len(runs) : runs'[i] = runs[i]
      /\ runs'[Len(runs) + 1] = r
  BY <1>2, <1>3, <1>4, AppendRow
<1> QED BY <1>3, <1>5 DEF r

(* What a step of c does not touch: the rows of other turns, the places of  *)
(* the other commands and the locks they hold; new rows are its own turn's, *)
(* written under the lock of its scope.                                    *)
Grows(c) ==
  /\ DOMAIN runs \subseteq DOMAIN runs'
  /\ \A i \in DOMAIN runs :
       /\ runs'[i].scope = runs[i].scope /\ runs'[i].by = runs[i].by
       /\ runs'[i].kind = runs[i].kind
       /\ runs[i].by # Turn(c) => runs'[i].outcome = runs[i].outcome
  /\ \A i \in DOMAIN runs' \ DOMAIN runs :
       /\ runs'[i].by = Turn(c) /\ runs'[i].scope = Scope(c)
       /\ cmd[c].pc \in Busy

Apart(c) ==
  /\ Grows(c)
  /\ \A d \in Commands \ {c} : cmd'[d] = cmd[d] /\ worker'[d] = worker[d]
  /\ \A g \in Groups : locks[g] \notin {None, c} => locks'[g] = locks[g]

(* The invariant of a command outlives the steps of the others.            *)
LEMMA OthersKeep ==
  ASSUME Shape, NEW c \in Commands, NEW d \in Commands \ {c}, CInv(c), CInv(d), Apart(c)
  PROVE  CInv(d)'
<1>1. /\ cmd'[d] = cmd[d] /\ worker'[d] = worker[d]
      /\ Scope(d)' = Scope(d) /\ Turn(d)' = Turn(d) /\ Turn(d) # Turn(c)
  BY DEF Apart, Grows, Scope, Turn
<1>2. Group(Scope(d)) \in Groups /\ d # None
  BY AtScope, CommandAssumption DEF None
<1>3. cmd[d].pc \in Busy => \A i \in DOMAIN runs' \ DOMAIN runs : runs'[i].scope # Scope(d)
  BY <1>2 DEF Apart, Grows, CInv, Holds
<1>4. Own(d)' = Own(d)
  <2>1. ASSUME NEW i \in DOMAIN runs' PROVE i \in Own(d)' <=> i \in Own(d)
    BY <1>1 DEF Apart, Grows, Own, IdsOf
  <2> QED BY <2>1 DEF Apart, Grows, Own, IdsOf
<1>5. \A i \in DOMAIN runs : runs[i].by = Turn(d) => runs'[i].outcome = runs[i].outcome
  BY <1>1 DEF Apart, Grows
<1>6. \A i \in Own(d) : i \in DOMAIN runs /\ runs'[i].outcome = runs[i].outcome
  BY <1>5 DEF Own, IdsOf
<1>7. Holds(d)'
  <2>1. (locks[Group(Scope(d))] = d) => (locks'[Group(Scope(d))] = d)
    BY <1>2 DEF Apart, Grows
  <2>2. Group(Scope(d))' = Group(Scope(d))
    BY <1>1 DEF Group
  <2> QED BY <1>1, <2>1, <2>2 DEF CInv, Holds
<1>8. Fresh(d)'
  BY <1>1 DEF CInv, Fresh, Apart, Grows
<1>9. Divides(d)'
  <2>1. cmd[d].pc \in Busy => IdsOf(Scope(d))' = IdsOf(Scope(d))
    BY <1>1, <1>3 DEF Apart, Grows, IdsOf
  <2> QED BY <1>1, <2>1 DEF CInv, Divides, Apart, Grows, IdsOf
<1>10. Persisted(d)'
  BY <1>1, <1>4, <1>6 DEF CInv, Persisted
<1>11. NoOwnSuccess(d)' <=> NoOwnSuccess(d)
  BY <1>4, <1>6 DEF NoOwnSuccess
<1>12. OwnReport(d) => OwnReport(d)'
  BY <1>1, <1>4, <1>6, <1>11 DEF OwnReport
<1>13. Told(d)'
  BY <1>1, <1>4, <1>6, <1>11, <1>12 DEF CInv, Told, Apart, Grows
<1> QED BY <1>7, <1>8, <1>9, <1>10, <1>13 DEF CInv

-----------------------------------------------------------------------------
(* Where a step of c may leave it and its worker, in a table of n rows.    *)
Fits(c, q, w, n) ==
  /\ q \in CmdState /\ w \in WorkerState
  /\ q.due \subseteq 1..Len(Plan[c]) /\ q.at \in 1..Len(Plan[c])
  /\ q.boundary <= n /\ q.reply <= n /\ w.row <= n
  /\ q.pc # "idle" => q.turn # 0

Moves(c, q, w) ==
  /\ cmd' = [cmd EXCEPT ![c] = q] /\ worker' = [worker EXCEPT ![c] = w]
  /\ q.turn >= cmd[c].turn
  /\ last' \in [Scopes -> 0..MaxTime] /\ now' \in 0..MaxTime

(* Only the lock of its scope changes, when it is free or c's own.         *)
Locks(c) ==
  \/ locks' = locks
  \/ /\ locks[Group(Scope(c))] \in {None, c}
     /\ \E h \in {None, c} : locks' = [locks EXCEPT ![Group(Scope(c))] = h]

TurnsGrow ==
  \A d \in Commands :
    cmd[d].turn \in Nat /\ cmd'[d].turn \in Nat /\ cmd[d].turn <= cmd'[d].turn

(* The turns of a command only grow.                                        *)
LEMMA TurnsStep ==
  ASSUME Shape, NEW c \in Commands, NEW q, NEW w, NEW n, Fits(c, q, w, n), Moves(c, q, w)
  PROVE  TurnsGrow
<1> SUFFICES ASSUME NEW d \in Commands
             PROVE  cmd[d].turn \in Nat /\ cmd'[d].turn \in Nat /\ cmd[d].turn <= cmd'[d].turn
  BY DEF TurnsGrow
<1>1. cmd[d].turn \in Nat /\ q.turn \in Nat
  BY BoundAssumption DEF Shape, CmdState, Fits
<1>2. cmd'[d] = IF d = c THEN q ELSE cmd[d]
  BY DEF Moves, Shape
<1> QED BY <1>1, <1>2 DEF Moves

(* What a step of one command keeps of the shape and of the others.         *)
LEMMA StepFrame ==
  ASSUME Shape, NEW c \in Commands, NEW q, NEW w, Fits(c, q, w, Len(runs')),
         Moves(c, q, w), Locks(c), Grows(c),
         runs' \in Seq(Row), Len(runs) <= Len(runs'), Len(runs') <= MaxRuns
  PROVE  /\ Shape' /\ Apart(c)
         /\ cmd'[c] = q /\ worker'[c] = w
<1>1. /\ cmd'[c] = q /\ worker'[c] = w
      /\ \A d \in Commands \ {c} : cmd'[d] = cmd[d] /\ worker'[d] = worker[d]
      /\ cmd' \in [Commands -> CmdState] /\ worker' \in [Commands -> WorkerState]
  BY DEF Shape, Moves, Fits
<1>2. locks' \in [Groups -> Commands \cup {None}]
  BY AtScope DEF Locks, Shape
<1>3. \A g \in Groups : locks[g] \notin {None, c} => locks'[g] = locks[g]
  BY AtScope DEF Locks, Shape
<1>4. Len(runs) \in Nat /\ Len(runs') \in Nat
  BY LenProperties DEF Shape
<1>5. ASSUME NEW d \in Commands
      PROVE  /\ cmd'[d].due \subseteq 1..Len(Plan[d]) /\ cmd'[d].at \in 1..Len(Plan[d])
             /\ cmd'[d].boundary <= Len(runs') /\ cmd'[d].reply <= Len(runs')
             /\ worker'[d].row <= Len(runs')
             /\ cmd'[d].pc # "idle" => cmd'[d].turn # 0
  <2>1. CASE d = c
    BY <2>1, <1>1 DEF Fits, Moves
  <2>2. CASE d # c
    <3>1. cmd'[d] = cmd[d] /\ worker'[d] = worker[d]
      BY <2>2, <1>1
    <3>2. /\ cmd[d].boundary \in Nat /\ cmd[d].reply \in Nat /\ worker[d].row \in Nat
      BY DEF Shape, CmdState, WorkerState
    <3> QED BY <3>1, <3>2, <1>4 DEF Shape
  <2> QED BY <2>1, <2>2
<1>6. Shape'
  BY <1>1, <1>2, <1>5 DEF Shape, Moves
<1> QED BY <1>1, <1>3, <1>5, <1>6 DEF Apart

(* The three things a step does to the rows, and that RowsInv outlives them.*)
LEMMA RowsSame ==
  ASSUME Shape, RowsInv, NEW c \in Commands, runs' = runs,
         TurnsGrow
  PROVE  RowsInv'
<1>1. \A d \in Commands : cmd[d].turn \in Nat /\ cmd'[d].turn \in Nat
  BY DEF TurnsGrow
<1>2. \A i \in DOMAIN runs, d \in Commands, t \in 1..MaxTurns :
        runs[i].by = <<d, t>> => t <= cmd'[d].turn
  BY <1>1, BoundAssumption DEF RowsInv, TurnsGrow
<1> QED BY <1>2 DEF RowsInv, IdsOf

(* A row that starts belongs to the turn under way.                         *)
LEMMA RowsStarted ==
  ASSUME Shape, RowsInv, NEW c \in Commands, NEW kind \in {"worker", "record"},
         cmd[c].pc # "idle", runs' = Started(c, kind), cmd[c].pc \in Busy,
         TurnsGrow
  PROVE  RowsInv' /\ Grows(c)
<1> DEFINE n == Len(runs) + 1
<1>1. /\ DOMAIN runs' = DOMAIN runs \cup {n} /\ n \notin DOMAIN runs
      /\ \A i \in DOMAIN runs : runs'[i] = runs[i] /\ i < n
      /\ runs'[n] = [scope |-> Scope(c), outcome |-> "running", by |-> Turn(c), kind |-> kind]
      /\ DOMAIN runs = 1..Len(runs) /\ Len(runs) \in Nat
  BY StartedRow, RowsDomain
<1>2. \A d \in Commands : cmd[d].turn \in Nat /\ cmd'[d].turn \in Nat
  BY DEF TurnsGrow
<1> HIDE DEF n
<1>3. Grows(c)
  BY <1>1 DEF Grows
<1>4. \A i \in DOMAIN runs' : runs'[i].kind = "record" => runs'[i].outcome \notin Good
  BY <1>1 DEF RowsInv, Good
<1>5. ASSUME NEW i \in DOMAIN runs', NEW d \in Commands, NEW t \in 1..MaxTurns,
             runs'[i].by = <<d, t>>
      PROVE  t <= cmd'[d].turn
  <2>1. CASE i \in DOMAIN runs
    <3>1. t <= cmd[d].turn
      BY <2>1, <1>1, <1>5 DEF RowsInv
    <3> QED BY <3>1, <1>2, BoundAssumption DEF TurnsGrow
  <2>2. CASE i = n
    <3>1. d = c /\ t = cmd[c].turn
      BY <2>2, <1>1, <1>5 DEF Turn
    <3> QED BY <3>1, <1>2 DEF TurnsGrow
  <2> QED BY <2>1, <2>2, <1>1
<1>6. ASSUME NEW s \in Scopes, IdsOf(s)' # {}
      PROVE  \E i \in IdsOf(s)' : \A j \in IdsOf(s)' : j <= i
  <2>1. CASE s = Scope(c)
    <3>1. n \in IdsOf(s)'
      BY <2>1, <1>1 DEF IdsOf
    <3>2. \A j \in IdsOf(s)' : j <= n
      BY <1>1 DEF IdsOf, n
    <3> QED BY <3>1, <3>2
  <2>2. CASE s # Scope(c)
    <3>1. IdsOf(s)' = IdsOf(s)
      BY <2>2, <1>1 DEF IdsOf
    <3> QED BY <3>1, <1>6 DEF RowsInv
  <2> QED BY <2>1, <2>2
<1> QED BY <1>3, <1>4, <1>5, <1>6 DEF RowsInv

Changes(n, o) == runs' = [runs EXCEPT ![n].outcome = o]

(* A row that changes does so in the hands of its own turn.                 *)
LEMMA RowsChanged ==
  ASSUME Shape, RowsInv, NEW c \in Commands, NEW n \in DOMAIN runs, NEW o \in Outcomes,
         Changes(n, o), runs[n].by = Turn(c),
         runs[n].kind = "record" => o \notin Good,
         TurnsGrow
  PROVE  /\ RowsInv' /\ Grows(c)
         /\ Len(runs') = Len(runs) /\ DOMAIN runs' = DOMAIN runs
         /\ \A i \in DOMAIN runs : runs'[i].outcome = IF i = n THEN o ELSE runs[i].outcome
<1>1. runs \in Seq(Row) /\ DOMAIN runs = 1..Len(runs)
  BY RowsDomain DEF Shape
<1>2. /\ Len(runs') = Len(runs) /\ DOMAIN runs' = DOMAIN runs
      /\ \A i \in DOMAIN runs :
           /\ runs'[i].scope = runs[i].scope /\ runs'[i].by = runs[i].by
           /\ runs'[i].kind = runs[i].kind
           /\ runs'[i].outcome = IF i = n THEN o ELSE runs[i].outcome
  BY <1>1, ChangeRow DEF Changes
<1>3. Grows(c)
  BY <1>2 DEF Grows
<1>4. \A d \in Commands : cmd[d].turn \in Nat /\ cmd'[d].turn \in Nat
  BY DEF TurnsGrow
<1>5. \A i \in DOMAIN runs' : runs'[i].kind = "record" => runs'[i].outcome \notin Good
  BY <1>2 DEF RowsInv
<1>6. \A i \in DOMAIN runs', d \in Commands, t \in 1..MaxTurns :
        runs'[i].by = <<d, t>> => t <= cmd'[d].turn
  BY <1>2, <1>4, BoundAssumption DEF RowsInv, TurnsGrow
<1>7. \A s \in Scopes : IdsOf(s)' = IdsOf(s)
  BY <1>2 DEF IdsOf
<1> QED BY <1>2, <1>3, <1>5, <1>6, <1>7 DEF RowsInv

(* One step of c, by what it does to the rows.                             *)
LEMMA QuietStep ==
  ASSUME Shape, RowsInv, NEW c \in Commands, NEW q, NEW w, Fits(c, q, w, Len(runs)),
         Moves(c, q, w), Locks(c), runs' = runs
  PROVE  Shape' /\ RowsInv' /\ Apart(c) /\ cmd'[c] = q /\ worker'[c] = w
<1>1. TurnsGrow
  BY TurnsStep
<1>2. /\ Fits(c, q, w, Len(runs')) /\ Grows(c) /\ runs' \in Seq(Row)
      /\ Len(runs) <= Len(runs') /\ Len(runs') <= MaxRuns
  BY LenProperties DEF Grows, Shape
<1>3. Shape' /\ Apart(c) /\ cmd'[c] = q /\ worker'[c] = w
  BY <1>2, StepFrame
<1> QED BY <1>1, <1>3, RowsSame

(* A step that starts a row.                                                *)
LEMMA StartStep ==
  ASSUME Shape, RowsInv, NEW c \in Commands, NEW q, NEW w, Fits(c, q, w, Len(runs')),
         Moves(c, q, w), Locks(c), NEW kind \in {"worker", "record"},
         runs' = Started(c, kind), Len(runs) < MaxRuns,
         cmd[c].pc \in Busy
  PROVE  Shape' /\ RowsInv' /\ Apart(c) /\ cmd'[c] = q /\ worker'[c] = w
<1>0. cmd[c].pc # "idle"
  BY DEF Busy
<1>1. TurnsGrow
  BY TurnsStep
<1>2. RowsInv' /\ Grows(c)
  BY <1>0, <1>1, RowsStarted
<1>3. runs' \in Seq(Row) /\ Len(runs') = Len(runs) + 1
  BY <1>0, StartedRow
<1>4. Len(runs) <= Len(runs') /\ Len(runs') <= MaxRuns
  BY <1>3, RowsDomain, BoundAssumption
<1> QED BY <1>2, <1>3, <1>4, StepFrame

(* A step that changes a row.                                               *)
LEMMA ChangeStep ==
  ASSUME Shape, RowsInv, NEW c \in Commands, NEW q, NEW w, Fits(c, q, w, Len(runs)),
         Moves(c, q, w), Locks(c), NEW n \in DOMAIN runs, NEW o \in Outcomes,
         Changes(n, o), runs[n].by = Turn(c),
         runs[n].kind = "record" => o \notin Good
  PROVE  /\ Shape' /\ RowsInv' /\ Apart(c) /\ cmd'[c] = q /\ worker'[c] = w
         /\ Len(runs') = Len(runs) /\ DOMAIN runs' = DOMAIN runs
         /\ \A i \in DOMAIN runs : runs'[i].outcome = IF i = n THEN o ELSE runs[i].outcome
<1>1. TurnsGrow
  BY TurnsStep
<1>2. /\ RowsInv' /\ Grows(c)
      /\ Len(runs') = Len(runs) /\ DOMAIN runs' = DOMAIN runs
      /\ \A i \in DOMAIN runs : runs'[i].outcome = IF i = n THEN o ELSE runs[i].outcome
  BY <1>1, RowsChanged
<1>3. runs' \in Seq(Row) /\ Len(runs) <= Len(runs') /\ Len(runs') <= MaxRuns
  BY <1>2, ChangeRow, RowsDomain DEF Shape, Changes
<1>4. Fits(c, q, w, Len(runs'))
  BY <1>2
<1> QED BY <1>2, <1>3, <1>4, StepFrame

-----------------------------------------------------------------------------
(* Each action of c, and what it owes the invariant.                       *)
Keeps(c) == Shape' /\ RowsInv' /\ Apart(c) /\ CInv(c)'

(* Little is asked of a command that has no lock.                          *)
LEMMA Resting ==
  ASSUME NEW c \in Commands, cmd'[c].pc \in {"idle", "lock"}, worker'[c].pc = "none", Fresh(c)'
  PROVE  CInv(c)'
BY DEF CInv, Holds, Divides, Persisted, Told, Busy

(* The places of a command and of its worker.                               *)
LEMMA Places ==
  ASSUME Shape, NEW c \in Commands
  PROVE  /\ cmd[c] \in CmdState /\ worker[c] \in WorkerState
         /\ Len(Plan[c]) \in Nat \ {0} /\ cmd[c].at \in 1..Len(Plan[c])
         /\ cmd[c].due \subseteq 1..Len(Plan[c])
         /\ cmd[c].boundary <= Len(runs) /\ cmd[c].reply <= Len(runs)
         /\ worker[c].row <= Len(runs) /\ Len(runs) \in Nat
         /\ DOMAIN runs = 1..Len(runs)
         /\ cmd[c].turn \in 0..MaxTurns /\ (cmd[c].pc # "idle" => cmd[c].turn # 0)
         /\ cmd[c].pc \in Pcs /\ cmd[c].report \in [outcome : Outcomes \cup {None}, row : Nat]
         /\ cmd[c].boundary \in Nat /\ cmd[c].reply \in Nat
         /\ worker[c].pc \in {"none", "new", "collecting", "print", "failed"}
         /\ worker[c].row \in Nat
<1>1. Len(Plan[c]) \in Nat \ {0}
  BY PlanAssumption, EmptySeq
<1>2. cmd[c] \in CmdState /\ worker[c] \in WorkerState
  BY DEF Shape
<1> QED BY <1>1, <1>2, RowsDomain DEF Shape, CmdState, WorkerState

(* A step that stays in its turn.                                           *)
LEMMA MovesInTurn ==
  ASSUME Shape, NEW c \in Commands, NEW q, NEW w, q.turn = cmd[c].turn,
         cmd' = [cmd EXCEPT ![c] = q], worker' = [worker EXCEPT ![c] = w],
         UNCHANGED <<last, now>>
  PROVE  Moves(c, q, w)
<1>1. cmd[c].turn \in Nat
  BY Places, BoundAssumption
<1> QED BY <1>1 DEF Moves, Shape

(* A command that is done fits wherever it stands.                          *)
LEMMA IdleFits ==
  ASSUME Shape, NEW c \in Commands, NEW t \in 0..MaxTurns
  PROVE  /\ Idle(t) \in CmdState /\ Fits(c, Idle(t), worker[c], Len(runs))
         /\ Fits(c, Idle(t), NoWorker, Len(runs))
<1>1. Idle(t) \in CmdState /\ NoWorker \in WorkerState
  BY DEF Idle, Place, CmdState, Pcs, Unreported, Outcomes, NoWorker, WorkerState
<1> QED BY <1>1, Places DEF Fits, Idle, Place, NoWorker

(* There is a worker only while its command waits for it.                   *)
LEMMA NoWorkerWhile ==
  ASSUME NEW c \in Commands, CInv(c), cmd[c].pc # "wait"
  PROVE  worker[c].pc = "none"
BY DEF CInv, Holds

(* A command begins.                                                        *)
LEMMA BeginKeeps ==
  ASSUME Shape, RowsInv, NEW c \in Commands, CInv(c), Begin(c) PROVE Keeps(c)
<1> DEFINE due == {i \in 1..Len(Plan[c]) : LET s == Plan[c][i] IN
                     i = 1 \/ last[s] = 0 \/ now - last[s] >= MinAge}
           t   == cmd[c].turn + 1
           q   == Place("lock", due, 1, t)
<1>1. /\ cmd[c].pc = "idle" /\ t \in 1..MaxTurns /\ due \subseteq 1..Len(Plan[c])
      /\ worker[c].pc = "none" /\ due \subseteq Nat
  BY Places, BoundAssumption, NoWorkerWhile DEF Begin
<1>2. cmd' = [cmd EXCEPT ![c] = q] /\ UNCHANGED <<runs, locks, worker, last, now>>
  BY DEF Begin
<1> HIDE DEF due, t
<1>3. /\ q \in CmdState /\ q.pc = "lock" /\ q.due = due /\ q.at = 1 /\ q.turn = t
      /\ q.boundary = 0 /\ q.reply = 0
  <2>1. q = [pc |-> "lock", due |-> due, at |-> 1, turn |-> t, boundary |-> 0,
             reply |-> 0, report |-> Unreported]
    BY DEF Place
  <2>2. t \in 0..MaxTurns /\ Unreported \in [outcome : Outcomes \cup {None}, row : Nat]
    BY <1>1, BoundAssumption DEF Unreported
  <2> HIDE DEF q
  <2> QED BY <1>1, <2>1, <2>2 DEF CmdState, Pcs
<1> HIDE DEF q
<1>4. Fits(c, q, worker[c], Len(runs))
  BY <1>1, <1>3, Places DEF Fits
<1>5. Moves(c, q, worker[c]) /\ Locks(c)
  BY <1>2, <1>3, Places DEF Moves, Locks, Shape, t
<1>6. Shape' /\ RowsInv' /\ Apart(c) /\ cmd'[c] = q /\ worker'[c] = worker[c]
  BY <1>2, <1>4, <1>5, QuietStep
<1>7. \A i \in DOMAIN runs' : runs'[i].by # Turn(c)'
  <2>1. Turn(c)' = <<c, t>>
    BY <1>3, <1>6 DEF Turn
  <2>2. \A i \in DOMAIN runs : runs[i].by # <<c, t>>
    BY <1>1, Places DEF RowsInv, t
  <2> QED BY <1>2, <2>1, <2>2
<1>8. Fresh(c)'
  BY <1>7 DEF Fresh
<1> QED BY <1>1, <1>3, <1>6, <1>8, Resting DEF Keeps

(* The next place of the plan is as fresh as the present one was used.     *)
LEMMA OnwardKeeps ==
  ASSUME Shape, RowsInv, NEW c \in Commands, CInv(c), cmd[c].pc # "idle",
         worker[c].pc = "none", Locks(c), runs' = runs, worker' = worker,
         cmd' = [cmd EXCEPT ![c] = Onward(c)],
         last' \in [Scopes -> 0..MaxTime], now' = now
  PROVE  Keeps(c)
<1> DEFINE q == Onward(c)
           i == Idle(cmd[c].turn)
<1>1. cmd[c].turn \in Nat /\ Fits(c, i, worker[c], Len(runs))
  BY Places, IdleFits, BoundAssumption
<1>2. CASE cmd[c].at = Len(Plan[c])
  <2>1. q = i /\ q.pc = "idle" /\ q.turn = cmd[c].turn
    BY <1>2 DEF Onward, Idle, Place
  <2>2. Moves(c, q, worker[c])
    BY <2>1, <1>1 DEF Moves, Shape
  <2>3. Shape' /\ RowsInv' /\ Apart(c) /\ cmd'[c] = q /\ worker'[c] = worker[c]
    BY <1>1, <2>1, <2>2, QuietStep
  <2> QED BY <2>1, <2>3, Resting DEF Keeps, Fresh
<1>3. CASE cmd[c].at # Len(Plan[c])
  <2>1. /\ q \in CmdState /\ q.pc = "lock" /\ q.turn = cmd[c].turn
        /\ q.due = cmd[c].due /\ q.at = cmd[c].at + 1 /\ q.boundary = 0 /\ q.reply = 0
    <3>1. q = [pc |-> "lock", due |-> cmd[c].due, at |-> cmd[c].at + 1,
               turn |-> cmd[c].turn, boundary |-> 0, reply |-> 0, report |-> Unreported]
      BY <1>3 DEF Onward, Place
    <3>2. /\ cmd[c].due \in SUBSET Nat /\ cmd[c].at + 1 \in Nat
          /\ cmd[c].turn \in 0..MaxTurns
          /\ Unreported \in [outcome : Outcomes \cup {None}, row : Nat]
      BY Places DEF Unreported
    <3> HIDE DEF q
    <3> QED BY <3>1, <3>2 DEF CmdState, Pcs
  <2> HIDE DEF q
  <2>2. Moves(c, q, worker[c])
    BY <2>1, <1>1 DEF Moves, Shape, q
  <2>3. Fits(c, q, worker[c], Len(runs))
    BY <2>1, <1>3, Places DEF Fits
  <2>4. Shape' /\ RowsInv' /\ Apart(c) /\ cmd'[c] = q /\ worker'[c] = worker[c]
    BY <2>2, <2>3, QuietStep
  <2>5. Fresh(c)'
    <3>1. Turn(c)' = Turn(c)
      BY <2>1, <2>4 DEF Turn
    <3> SUFFICES ASSUME NEW n \in DOMAIN runs, runs[n].by = Turn(c)
                 PROVE  \E j \in 1..q.at : runs[n].scope = Plan[c][j] /\ j # q.at
      BY <2>4, <3>1 DEF Fresh
    <3>2. PICK j \in 1..cmd[c].at : runs[n].scope = Plan[c][j]
      BY DEF CInv, Fresh
    <3>3. j \in 1..q.at /\ j # q.at
      BY <2>1, <3>2, Places
    <3> QED BY <3>2, <3>3
  <2> QED BY <2>1, <2>4, <2>5, Resting DEF Keeps
<1> QED BY <1>2, <1>3

(* A scope that is not due is skipped.                                      *)
LEMMA SkipKeeps ==
  ASSUME Shape, RowsInv, NEW c \in Commands, CInv(c), Skip(c) PROVE Keeps(c)
<1>1. worker[c].pc = "none" /\ cmd[c].pc = "lock"
  BY NoWorkerWhile DEF Skip
<1> QED BY <1>1, OnwardKeeps DEF Skip, Locks, Shape

(* A report is noted.                                                       *)
LEMMA NoteKeeps ==
  ASSUME Shape, RowsInv, NEW c \in Commands, CInv(c), Note(c) PROVE Keeps(c)
<1>1. worker[c].pc = "none" /\ cmd[c].pc = "note"
  BY NoWorkerWhile DEF Note
<1>2. locks[Group(Scope(c))] = c
  BY <1>1 DEF CInv, Holds, Busy
<1>3. Locks(c)
  BY <1>2 DEF Note, Locks
<1>4. last' \in [Scopes -> 0..MaxTime] /\ now' = now
  BY AtScope DEF Note, Shape
<1> QED BY <1>1, <1>3, <1>4, OnwardKeeps DEF Note

(* The lock of a scope is taken.                                            *)
LEMMA TakeKeeps ==
  ASSUME Shape, RowsInv, NEW c \in Commands, CInv(c), Take(c) PROVE Keeps(c)
<1> DEFINE q == [cmd[c] EXCEPT !.pc = "locked"]
<1>1. /\ cmd[c].pc = "lock" /\ worker[c].pc = "none" /\ locks[Group(Scope(c))] = None
      /\ locks' = [locks EXCEPT ![Group(Scope(c))] = c]
      /\ cmd' = [cmd EXCEPT ![c] = q] /\ UNCHANGED <<runs, worker, last, now>>
  BY NoWorkerWhile DEF Take, AtLock
<1>2. /\ q \in CmdState /\ q.pc = "locked" /\ q.turn = cmd[c].turn /\ q.due = cmd[c].due
      /\ q.at = cmd[c].at /\ q.boundary = cmd[c].boundary /\ q.reply = cmd[c].reply
  BY Places DEF CmdState, Pcs
<1> HIDE DEF q
<1>3. Fits(c, q, worker[c], Len(runs))
  BY <1>1, <1>2, Places DEF Fits
<1>4. Moves(c, q, worker[c]) /\ Locks(c)
  BY <1>1, <1>2, Places, BoundAssumption DEF Moves, Locks, Shape
<1>5. Shape' /\ RowsInv' /\ Apart(c) /\ cmd'[c] = q /\ worker'[c] = worker[c]
  BY <1>1, <1>3, <1>4, QuietStep
<1>6. Scope(c)' = Scope(c) /\ Turn(c)' = Turn(c)
  BY <1>2, <1>5 DEF Scope, Turn
<1>7. locks'[Group(Scope(c))] = c
  BY <1>1, AtScope DEF Shape
<1>8. Holds(c)'
  BY <1>1, <1>2, <1>5, <1>6, <1>7 DEF Holds, Group
<1>9. Fresh(c)'
  BY <1>1, <1>2, <1>5, <1>6 DEF CInv, Fresh, Busy
<1> QED BY <1>1, <1>2, <1>5, <1>8, <1>9 DEF Keeps, CInv, Divides, Persisted, Told, Busy

(* A command that gives up or is stopped is idle again, without a worker.  *)
LEMMA EndKeeps ==
  ASSUME Shape, RowsInv, NEW c \in Commands, NEW w \in {worker[c], NoWorker}, w.pc = "none",
         cmd' = [cmd EXCEPT ![c] = Idle(cmd[c].turn)], worker' = [worker EXCEPT ![c] = w],
         Locks(c), UNCHANGED <<runs, last, now>>
  PROVE  Keeps(c)
<1> DEFINE q == Idle(cmd[c].turn)
<1>1. Fits(c, q, w, Len(runs)) /\ q.pc = "idle" /\ q.turn = cmd[c].turn
  BY Places, IdleFits DEF Idle, Place
<1> HIDE DEF q
<1>2. Moves(c, q, w)
  BY <1>1, Places, BoundAssumption DEF Moves, Shape, q
<1>3. Shape' /\ RowsInv' /\ Apart(c) /\ cmd'[c] = q /\ worker'[c] = w
  BY <1>1, <1>2, QuietStep
<1> QED BY <1>1, <1>3, Resting DEF Keeps, Fresh

(* The lock is not free in time.                                            *)
LEMMA GiveUpKeeps ==
  ASSUME Shape, RowsInv, NEW c \in Commands, CInv(c), GiveUp(c) PROVE Keeps(c)
<1>1. worker[c].pc = "none"
  BY NoWorkerWhile DEF GiveUp, AtLock
<1>2. worker' = [worker EXCEPT ![c] = worker[c]] /\ Locks(c)
  BY DEF GiveUp, Shape, Locks
<1> QED BY <1>1, <1>2, EndKeeps DEF GiveUp

(* A command stops.                                                         *)
LEMMA StopKeeps ==
  ASSUME Shape, RowsInv, NEW c \in Commands, CInv(c), Stop(c) PROVE Keeps(c)
<1>1. cmd[c].pc \in Busy \cup {"locked"}
  BY Places DEF Stop, Pcs, Busy
<1>2. Locks(c)
  BY <1>1 DEF CInv, Holds, Stop, Locks
<1>3. NoWorker.pc = "none"
  BY DEF NoWorker
<1> QED BY <1>2, <1>3, EndKeeps DEF Stop

(* The boundary is below every row the turn will write.                    *)
LEMMA SpawnKeeps ==
  ASSUME Shape, RowsInv, NEW c \in Commands, CInv(c), Spawn(c) PROVE Keeps(c)
<1> DEFINE ids == IdsOf(Scope(c))
           b   == Highest(ids)
           q1  == [cmd[c] EXCEPT !.pc = "wait"]
           q   == [q1 EXCEPT !.boundary = b]
           w   == [worker[c] EXCEPT !.pc = "new"]
<1>1. /\ cmd[c].pc = "locked" /\ worker[c].pc = "none"
      /\ cmd' = [cmd EXCEPT ![c] = q] /\ worker' = [worker EXCEPT ![c] = w]
      /\ UNCHANGED <<runs, locks, last, now>>
  BY NoWorkerWhile DEF Spawn
<1>2. b \in 0..Len(runs) /\ \A i \in ids : i <= b
  <2>1. Scope(c) \in Scopes /\ ids \subseteq 1..Len(runs) /\ Len(runs) \in Nat
    BY AtScope, RowsDomain DEF IdsOf
  <2>2. CASE ids = {}
    BY <2>1, <2>2 DEF Highest
  <2>3. CASE ids # {}
    <3>1. \E i \in ids : \A j \in ids : j <= i
      BY <2>1, <2>3 DEF RowsInv
    <3>2. b \in ids /\ \A j \in ids : j <= b
      <4> HIDE DEF ids
      <4> QED BY <2>3, <3>1 DEF Highest
    <3> HIDE DEF ids, b
    <3> QED BY <2>1, <3>2
  <2> QED BY <2>2, <2>3
<1> HIDE DEF b
<1>3. /\ q \in CmdState /\ q.pc = "wait" /\ q.turn = cmd[c].turn /\ q.due = cmd[c].due
      /\ q.at = cmd[c].at /\ q.boundary = b /\ q.reply = cmd[c].reply
  <2>1. /\ q1 \in CmdState /\ q1.pc = "wait" /\ q1.turn = cmd[c].turn /\ q1.due = cmd[c].due
        /\ q1.at = cmd[c].at /\ q1.reply = cmd[c].reply
    BY Places DEF CmdState, Pcs
  <2>2. b \in Nat
    BY <1>2
  <2> HIDE DEF q1
  <2> QED BY <2>1, <2>2 DEF CmdState
<1>4. w \in WorkerState /\ w.pc = "new" /\ w.row = worker[c].row
  BY Places DEF WorkerState
<1> HIDE DEF q, q1, w
<1>5. Fits(c, q, w, Len(runs))
  BY <1>1, <1>2, <1>3, <1>4, Places DEF Fits
<1>6. Moves(c, q, w) /\ Locks(c)
  BY <1>1, <1>3, MovesInTurn DEF Locks
<1>7. Shape' /\ RowsInv' /\ Apart(c) /\ cmd'[c] = q /\ worker'[c] = w
  BY <1>1, <1>5, <1>6, QuietStep
<1>8. Scope(c)' = Scope(c) /\ Turn(c)' = Turn(c)
  BY <1>3, <1>7 DEF Scope, Turn
<1>9. IdsOf(Scope(c))' = ids
  BY <1>1, <1>8 DEF IdsOf
<1>10. Holds(c)'
  BY <1>1, <1>3, <1>4, <1>7, <1>8 DEF CInv, Holds, Busy, Group
<1>11. Fresh(c)'
  BY <1>1, <1>3, <1>4, <1>7, <1>8 DEF CInv, Fresh, Busy
<1>12. \A i \in ids : runs[i].by # Turn(c)
  BY <1>1, Places, PlanAssumption DEF CInv, Fresh, IdsOf, Scope, Busy
<1>13. Divides(c)'
  BY <1>1, <1>2, <1>3, <1>7, <1>8, <1>9, <1>12, Places DEF Divides, IdsOf
<1>14. Own(c)' = {}
  BY <1>1, <1>8, <1>9, <1>12 DEF Own
<1> QED BY <1>3, <1>4, <1>7, <1>10, <1>11, <1>13, <1>14 DEF Keeps, CInv, Persisted, Told, Busy

(* A row c adds for the scope it holds lies above its boundary.            *)
LEMMA AddedRow ==
  ASSUME Shape, NEW c \in Commands, CInv(c), cmd[c].pc \in Busy,
         NEW kind \in {"worker", "record"}, runs' = Started(c, kind),
         Scope(c)' = Scope(c), Turn(c)' = Turn(c), cmd'[c].pc \in Busy,
         cmd'[c].at = cmd[c].at, cmd'[c].boundary = cmd[c].boundary, worker'[c].pc # "new"
  PROVE  /\ Fresh(c)' /\ Divides(c)'
         /\ IdsOf(Scope(c))' = IdsOf(Scope(c)) \cup {Len(runs) + 1}
         /\ Own(c)' = IF kind = "worker" THEN Own(c) \cup {Len(runs) + 1} ELSE Own(c)
         /\ \A i \in DOMAIN runs : runs'[i] = runs[i]
         /\ runs'[Len(runs) + 1].outcome = "running"
<1> DEFINE n == Len(runs) + 1
<1>1. /\ DOMAIN runs' = DOMAIN runs \cup {n} /\ n \notin DOMAIN runs
      /\ \A i \in DOMAIN runs : runs'[i] = runs[i] /\ i < n
      /\ runs'[n].scope = Scope(c) /\ runs'[n].outcome = "running"
      /\ runs'[n].by = Turn(c) /\ runs'[n].kind = kind
  <2>1. cmd[c].pc # "idle"
    BY DEF Busy
  <2>2. /\ DOMAIN runs' = DOMAIN runs \cup {n} /\ n \notin DOMAIN runs
        /\ \A i \in DOMAIN runs : runs'[i] = runs[i] /\ i < n
        /\ runs'[n] = [scope |-> Scope(c), outcome |-> "running", by |-> Turn(c), kind |-> kind]
    BY <2>1, StartedRow
  <2> QED BY <2>2
<1>2. n > cmd[c].boundary
  BY Places
<1> HIDE DEF n
<1>3. IdsOf(Scope(c))' = IdsOf(Scope(c)) \cup {n}
  BY <1>1 DEF IdsOf
<1>4. Own(c)' = IF kind = "worker" THEN Own(c) \cup {n} ELSE Own(c)
  BY <1>1, <1>3 DEF Own, IdsOf
<1>5. Divides(c)'
  BY <1>1, <1>2, <1>3 DEF CInv, Divides, IdsOf
<1>6. Fresh(c)'
  <2> SUFFICES ASSUME NEW i \in DOMAIN runs', runs'[i].by = Turn(c)
               PROVE  \E j \in 1..cmd[c].at : runs'[i].scope = Plan[c][j]
    BY DEF Fresh
  <2>1. CASE i = n
    <3>1. cmd[c].at \in 1..cmd[c].at
      BY Places
    <3> QED BY <2>1, <3>1, <1>1 DEF Scope
  <2>2. CASE i \in DOMAIN runs
    BY <2>2, <1>1 DEF CInv, Fresh, Busy
  <2> QED BY <2>1, <2>2, <1>1
<1> QED BY <1>1, <1>3, <1>4, <1>5, <1>6 DEF n

(* The worker stores its running row.                                       *)
LEMMA WorkerStartKeeps ==
  ASSUME Shape, RowsInv, NEW c \in Commands, CInv(c), WorkerStart(c) PROVE Keeps(c)
<1> DEFINE n == Len(runs) + 1
           w == [pc |-> "collecting", row |-> n]
<1>1. /\ worker[c].pc = "new" /\ cmd[c].pc = "wait" /\ Len(runs) < MaxRuns
      /\ runs' = Started(c, "worker") /\ UNCHANGED <<locks, cmd, last, now>>
  BY DEF WorkerStart, CInv, Holds
<1>2. Len(runs') = n /\ cmd[c].pc \in Busy /\ n \in Nat
  <2>1. cmd[c].pc \in Busy /\ cmd[c].pc # "idle"
    BY <1>1 DEF Busy
  <2>2. Len(runs') = n
    BY <1>1, <2>1, StartedRow
  <2> QED BY <2>1, <2>2, RowsDomain
<1>3. cmd' = [cmd EXCEPT ![c] = cmd[c]] /\ worker' = [worker EXCEPT ![c] = w]
  BY <1>1, <1>2 DEF WorkerStart, Shape
<1>4. w \in WorkerState /\ w.pc = "collecting" /\ w.row = n
  BY <1>2 DEF WorkerState
<1> HIDE DEF w
<1>5. Fits(c, cmd[c], w, Len(runs'))
  BY <1>1, <1>2, <1>4, Places DEF Fits
<1>6. Moves(c, cmd[c], w) /\ Locks(c)
  BY <1>1, <1>3, MovesInTurn DEF Locks
<1>7. Shape' /\ RowsInv' /\ Apart(c) /\ cmd'[c] = cmd[c] /\ worker'[c] = w
  BY <1>1, <1>2, <1>5, <1>6, StartStep
<1>8. Scope(c)' = Scope(c) /\ Turn(c)' = Turn(c)
  BY <1>7 DEF Scope, Turn
<1>9. /\ Fresh(c)' /\ Divides(c)' /\ Own(c)' = Own(c) \cup {n}
      /\ runs'[n].outcome = "running"
  BY <1>1, <1>2, <1>4, <1>7, <1>8, AddedRow
<1>10. Own(c) = {}
  BY <1>1, Places, PlanAssumption DEF CInv, Fresh, Own, IdsOf, Scope, Busy
<1>11. Holds(c)'
  BY <1>1, <1>4, <1>7, <1>8 DEF CInv, Holds, Group
<1>12. Persisted(c)'
  BY <1>4, <1>7, <1>9, <1>10 DEF Persisted, Good
<1>13. Told(c)'
  BY <1>1, <1>7 DEF Told
<1> QED BY <1>7, <1>9, <1>11, <1>12, <1>13 DEF Keeps, CInv

(* Where outcomes change, the rows themselves stay.                        *)
LEMMA SameRows ==
  ASSUME NEW c \in Commands, CInv(c), cmd[c].pc \in Busy, Grows(c),
         DOMAIN runs' = DOMAIN runs,
         Scope(c)' = Scope(c), Turn(c)' = Turn(c), cmd'[c].pc \in Busy,
         cmd'[c].at = cmd[c].at, cmd'[c].boundary = cmd[c].boundary,
         worker[c].pc = "new" \/ worker'[c].pc # "new"
  PROVE  Fresh(c)' /\ Divides(c)' /\ Own(c)' = Own(c)
<1>1. IdsOf(Scope(c))' = IdsOf(Scope(c))
  BY DEF Grows, IdsOf
<1>2. Own(c)' = Own(c)
  BY <1>1 DEF Own, Grows, IdsOf
<1>3. Divides(c)'
  BY <1>1 DEF CInv, Divides, Grows, IdsOf
<1>4. Fresh(c)'
  BY DEF CInv, Fresh, Grows, Busy
<1> QED BY <1>2, <1>3, <1>4

(* The worker stores its final row.                                         *)
LEMMA WorkerFinishKeeps ==
  ASSUME Shape, RowsInv, NEW c \in Commands, CInv(c),
         NEW o \in Good \cup {"error"}, WorkerFinish(c, o)
  PROVE  Keeps(c)
<1> DEFINE n == worker[c].row
           p == IF o \in Good THEN "print" ELSE "failed"
           w == [worker[c] EXCEPT !.pc = p]
<1>1. /\ worker[c].pc = "collecting" /\ cmd[c].pc = "wait" /\ cmd[c].pc \in Busy
      /\ runs' = [runs EXCEPT ![n].outcome = o]
      /\ worker' = [worker EXCEPT ![c] = w] /\ UNCHANGED <<locks, cmd, last, now>>
  BY DEF WorkerFinish, CInv, Holds, Busy
<1>2. n \in Own(c) /\ n \in DOMAIN runs /\ runs[n].by = Turn(c) /\ runs[n].kind = "worker"
  BY <1>1 DEF CInv, Persisted, Own, IdsOf
<1>3. p \in {"print", "failed"}
  OBVIOUS
<1>4. w \in WorkerState /\ w.pc = p /\ w.row = n
  <2> HIDE DEF p
  <2> QED BY <1>3, Places DEF WorkerState
<1>5. cmd' = [cmd EXCEPT ![c] = cmd[c]]
  BY <1>1 DEF Shape
<1> HIDE DEF w, n
<1>6. Fits(c, cmd[c], w, Len(runs))
  BY <1>1, <1>4, Places DEF Fits, n
<1>7. Moves(c, cmd[c], w) /\ Locks(c)
  BY <1>1, <1>5, MovesInTurn DEF Locks
<1>8. o \in Outcomes
  BY DEF Outcomes
<1>9. /\ Shape' /\ RowsInv' /\ Apart(c) /\ cmd'[c] = cmd[c] /\ worker'[c] = w
      /\ DOMAIN runs' = DOMAIN runs
      /\ \A i \in DOMAIN runs : runs'[i].outcome = IF i = n THEN o ELSE runs[i].outcome
  <2>1. runs[n].kind = "record" => o \notin Good
    BY <1>2
  <2>2. Changes(n, o)
    BY <1>1 DEF Changes
  <2> QED BY <1>2, <1>6, <1>7, <1>8, <2>1, <2>2, ChangeStep
<1>10. Scope(c)' = Scope(c) /\ Turn(c)' = Turn(c)
  BY <1>9 DEF Scope, Turn
<1>11. Fresh(c)' /\ Divides(c)' /\ Own(c)' = Own(c)
  BY <1>1, <1>3, <1>4, <1>9, <1>10, SameRows DEF Apart
<1>12. Holds(c)'
  BY <1>1, <1>3, <1>4, <1>9, <1>10 DEF CInv, Holds, Group
<1>13. Persisted(c)'
  BY <1>1, <1>2, <1>4, <1>9, <1>11 DEF CInv, Persisted
<1>14. Told(c)'
  BY <1>1, <1>9 DEF Told
<1> QED BY <1>9, <1>11, <1>12, <1>13, <1>14 DEF Keeps, CInv

(* A worker ends, with or without a reply.                                  *)
LEMMA EndsKeeps ==
  ASSUME Shape, RowsInv, NEW c \in Commands, CInv(c), worker[c].pc # "none",
         NEW r \in 0..Len(runs), Ends(c, r), UNCHANGED <<runs, locks, last, now>>,
         r # 0 => r \in Own(c) /\ runs[r].outcome \in Good
  PROVE  Keeps(c)
<1> DEFINE q1 == [cmd[c] EXCEPT !.pc = "judge"]
           q  == [q1 EXCEPT !.reply = r]
<1>1. /\ cmd[c].pc = "wait" /\ cmd[c].pc \in Busy
      /\ cmd' = [cmd EXCEPT ![c] = q] /\ worker' = [worker EXCEPT ![c] = NoWorker]
  BY DEF Ends, CInv, Holds, Busy
<1>2. r \in Nat /\ r <= Len(runs)
  BY Places
<1>3. /\ q \in CmdState /\ q.pc = "judge" /\ q.turn = cmd[c].turn /\ q.due = cmd[c].due
      /\ q.at = cmd[c].at /\ q.boundary = cmd[c].boundary /\ q.reply = r
  <2>1. /\ q1 \in CmdState /\ q1.pc = "judge" /\ q1.turn = cmd[c].turn /\ q1.due = cmd[c].due
        /\ q1.at = cmd[c].at /\ q1.boundary = cmd[c].boundary
    BY Places DEF CmdState, Pcs
  <2> HIDE DEF q1
  <2> QED BY <1>2, <2>1 DEF CmdState
<1> HIDE DEF q, q1
<1>4. NoWorker \in WorkerState /\ NoWorker.pc = "none" /\ NoWorker.row = 0
  BY DEF NoWorker, WorkerState
<1>5. Fits(c, q, NoWorker, Len(runs))
  BY <1>1, <1>2, <1>3, <1>4, Places DEF Fits
<1>6. Moves(c, q, NoWorker) /\ Locks(c)
  BY <1>1, <1>3, MovesInTurn DEF Locks
<1>7. /\ Shape' /\ RowsInv' /\ Apart(c) /\ cmd'[c] = q /\ worker'[c] = NoWorker
  BY <1>5, <1>6, QuietStep
<1>8. Scope(c)' = Scope(c) /\ Turn(c)' = Turn(c)
  BY <1>3, <1>7 DEF Scope, Turn
<1>9. Fresh(c)' /\ Divides(c)' /\ Own(c)' = Own(c)
  BY <1>1, <1>3, <1>4, <1>7, <1>8, SameRows DEF Apart, Busy
<1>10. Holds(c)'
  BY <1>1, <1>3, <1>4, <1>7, <1>8 DEF CInv, Holds, Group, Busy
<1>11. Persisted(c)'
  BY <1>1, <1>4, <1>7, <1>9 DEF CInv, Persisted
<1>12. Told(c)'
  BY <1>3, <1>7, <1>9 DEF Told
<1> QED BY <1>7, <1>9, <1>10, <1>11, <1>12 DEF Keeps, CInv

(* The worker prints its reply and exits.                                   *)
LEMMA WorkerExitKeeps ==
  ASSUME Shape, RowsInv, NEW c \in Commands, CInv(c), WorkerExit(c) PROVE Keeps(c)
<1> DEFINE r == IF worker[c].pc = "print" THEN worker[c].row ELSE 0
<1>1. /\ worker[c].pc \in {"print", "failed"} /\ Ends(c, r)
      /\ UNCHANGED <<runs, locks, last, now>>
  BY DEF WorkerExit
<1>2. r \in 0..Len(runs)
  BY Places
<1>3. r # 0 => r \in Own(c) /\ runs[r].outcome \in Good
  BY <1>1 DEF CInv, Persisted
<1>4. worker[c].pc # "none"
  BY <1>1
<1> HIDE DEF r
<1> QED BY <1>1, <1>2, <1>3, <1>4, EndsKeeps

(* The worker is killed.                                                    *)
LEMMA WorkerKilledKeeps ==
  ASSUME Shape, RowsInv, NEW c \in Commands, CInv(c), WorkerKilled(c) PROVE Keeps(c)
<1>1. 0 \in 0..Len(runs)
  BY Places
<1>2. worker[c].pc # "none" /\ Ends(c, 0) /\ UNCHANGED <<runs, locks, last, now>>
  BY DEF WorkerKilled
<1> QED BY <1>1, <1>2, EndsKeeps

(* What lies above the boundary and is a success is the worker's row.      *)
LEMMA LeftBehindIsOwn ==
  ASSUME Shape, RowsInv, NEW c \in Commands, CInv(c), cmd[c].pc \in Busy
  PROVE  LeftBehind(c) = {i \in Own(c) : runs[i].outcome \in Good}
<1>1. \A i \in DOMAIN runs : runs[i].kind \in {"worker", "record"}
  <2>1. ASSUME NEW i \in DOMAIN runs PROVE runs[i] \in Row
    BY RowsDomain, ElementOfSeq DEF Shape
  <2> QED BY <2>1 DEF Row
<1>2. \A i \in IdsOf(Scope(c)) : i > cmd[c].boundary <=> runs[i].by = Turn(c)
  BY DEF CInv, Divides
<1>3. \A i \in DOMAIN runs : runs[i].outcome \in Good => runs[i].kind = "worker"
  BY <1>1 DEF RowsInv
<1> QED BY <1>2, <1>3 DEF LeftBehind, Own, IdsOf

(* The command judges what its worker left.                                 *)
LEMMA JudgeKeeps ==
  ASSUME Shape, RowsInv, NEW c \in Commands, CInv(c), Judge(c) PROVE Keeps(c)
<1> DEFINE row == IF cmd[c].reply # 0 THEN cmd[c].reply ELSE Highest(LeftBehind(c))
           q1  == [cmd[c] EXCEPT !.pc = "note"]
           q   == IF row = 0 THEN [cmd[c] EXCEPT !.pc = "record"]
                  ELSE [q1 EXCEPT !.report = Reported(row)]
           w   == worker[c]
<1>1. /\ cmd[c].pc = "judge" /\ cmd[c].pc \in Busy /\ w.pc = "none"
      /\ UNCHANGED <<runs, locks, worker, last, now>>
  BY NoWorkerWhile DEF Judge, Busy
<1>2. cmd' = [cmd EXCEPT ![c] = q]
  BY DEF Judge
<1>3. IF row = 0 THEN NoOwnSuccess(c)
      ELSE row \in Own(c) /\ runs[row].outcome \in Good
  <2>1. CASE cmd[c].reply # 0
    BY <2>1, <1>1 DEF CInv, Told
  <2>2. CASE cmd[c].reply = 0
    <3> DEFINE left == LeftBehind(c)
    <3>1. left = {i \in Own(c) : runs[i].outcome \in Good} /\ left \subseteq Nat \ {0}
      BY <1>1, LeftBehindIsOwn, RowsDomain DEF Own, IdsOf
    <3>2. \A i, j \in left : i = j
      BY <1>1, <3>1 DEF CInv, Persisted
    <3> HIDE DEF left
    <3>3. CASE left = {}
      <4>1. Highest(left) = 0
        BY <3>3 DEF Highest
      <4>2. row = 0
        BY <2>2, <4>1 DEF left
      <4> QED BY <4>2, <3>1, <3>3 DEF NoOwnSuccess
    <3>4. CASE left # {}
      <4>1. \E i \in left : \A j \in left : j <= i
        BY <3>1, <3>2, <3>4
      <4>2. Highest(left) \in left
        BY <3>4, <4>1 DEF Highest
      <4>3. row \in left
        BY <2>2, <4>2 DEF left
      <4> QED BY <3>1, <4>3
    <3> QED BY <3>3, <3>4
  <2> QED BY <2>1, <2>2
<1> HIDE DEF row
<1>4. /\ q \in CmdState /\ q.pc = (IF row = 0 THEN "record" ELSE "note")
      /\ q.turn = cmd[c].turn /\ q.due = cmd[c].due /\ q.at = cmd[c].at
      /\ q.boundary = cmd[c].boundary /\ q.reply = cmd[c].reply
      /\ row # 0 => q.report.row = row /\ q.report.outcome = runs[row].outcome
  <2>1. CASE row = 0
    BY <2>1, Places DEF CmdState, Pcs
  <2>2. CASE row # 0
    <3>1. row \in DOMAIN runs /\ runs[row].outcome \in Good /\ row \in Nat
      BY <1>3, <2>2, Places DEF Own, IdsOf
    <3>2. /\ Reported(row) \in [outcome : Outcomes \cup {None}, row : Nat]
          /\ Reported(row).row = row /\ Reported(row).outcome = runs[row].outcome
      BY <3>1 DEF Reported, Outcomes
    <3>3. /\ q1 \in CmdState /\ q1.pc = "note" /\ q1.turn = cmd[c].turn /\ q1.due = cmd[c].due
          /\ q1.at = cmd[c].at /\ q1.boundary = cmd[c].boundary /\ q1.reply = cmd[c].reply
      BY Places DEF CmdState, Pcs
    <3>4. q = [q1 EXCEPT !.report = Reported(row)]
      BY <2>2
    <3> HIDE DEF q1, q
    <3> QED BY <2>2, <3>2, <3>3, <3>4 DEF CmdState
  <2> QED BY <2>1, <2>2
<1> HIDE DEF q, q1, w
<1>5. Fits(c, q, w, Len(runs))
  BY <1>1, <1>4, Places DEF Fits, w
<1>6. Moves(c, q, w) /\ Locks(c)
  <2>1. worker' = [worker EXCEPT ![c] = w]
    BY <1>1 DEF w, Shape
  <2> QED BY <1>1, <1>2, <1>4, <2>1, MovesInTurn DEF Locks
<1>7. Shape' /\ RowsInv' /\ Apart(c) /\ cmd'[c] = q /\ worker'[c] = w
  BY <1>1, <1>5, <1>6, QuietStep
<1>8. Scope(c)' = Scope(c) /\ Turn(c)' = Turn(c) /\ q.pc \in Busy
  BY <1>4, <1>7 DEF Scope, Turn, Busy
<1>9. Fresh(c)' /\ Divides(c)' /\ Own(c)' = Own(c)
  BY <1>1, <1>4, <1>7, <1>8, SameRows DEF Apart
<1>10. Holds(c)'
  BY <1>1, <1>4, <1>7, <1>8 DEF CInv, Holds, Group
<1>11. Persisted(c)'
  BY <1>1, <1>7, <1>9 DEF CInv, Persisted
<1>12. Told(c)'
  BY <1>1, <1>3, <1>4, <1>7, <1>9 DEF Told, OwnReport, NoOwnSuccess
<1> QED BY <1>7, <1>9, <1>10, <1>11, <1>12 DEF Keeps, CInv

(* The command starts a record of its own.                                  *)
LEMMA RecordStartKeeps ==
  ASSUME Shape, RowsInv, NEW c \in Commands, CInv(c), RecordStart(c) PROVE Keeps(c)
<1> DEFINE n  == Len(runs) + 1
           q1 == [cmd[c] EXCEPT !.pc = "recorded"]
           q  == [q1 EXCEPT !.reply = n]
           w  == worker[c]
<1>1. /\ cmd[c].pc = "record" /\ cmd[c].pc \in Busy /\ cmd[c].pc # "idle" /\ w.pc = "none"
      /\ Len(runs) < MaxRuns /\ runs' = Started(c, "record")
      /\ UNCHANGED <<locks, worker, last, now>>
  BY NoWorkerWhile DEF RecordStart, Busy
<1>2. Len(runs') = n /\ n \in Nat
  <2>1. Len(runs') = n
    BY <1>1, StartedRow
  <2> QED BY <2>1, RowsDomain
<1>3. cmd' = [cmd EXCEPT ![c] = q]
  BY <1>2 DEF RecordStart
<1>4. /\ q \in CmdState /\ q.pc = "recorded" /\ q.turn = cmd[c].turn /\ q.due = cmd[c].due
      /\ q.at = cmd[c].at /\ q.boundary = cmd[c].boundary /\ q.reply = n
  <2>1. /\ q1 \in CmdState /\ q1.pc = "recorded" /\ q1.turn = cmd[c].turn
        /\ q1.due = cmd[c].due /\ q1.at = cmd[c].at /\ q1.boundary = cmd[c].boundary
    BY Places DEF CmdState, Pcs
  <2> HIDE DEF q1, n
  <2> QED BY <1>2, <2>1 DEF CmdState
<1>5. worker' = [worker EXCEPT ![c] = w]
  BY <1>1 DEF Shape
<1> HIDE DEF q, q1
<1>6. Fits(c, q, w, Len(runs'))
  BY <1>1, <1>2, <1>4, Places DEF Fits
<1>7. Moves(c, q, w) /\ Locks(c)
  BY <1>1, <1>3, <1>4, <1>5, MovesInTurn DEF Locks
<1>8. Shape' /\ RowsInv' /\ Apart(c) /\ cmd'[c] = q /\ worker'[c] = w
  BY <1>1, <1>6, <1>7, StartStep
<1>9. Scope(c)' = Scope(c) /\ Turn(c)' = Turn(c) /\ q.pc \in Busy
  BY <1>4, <1>8 DEF Scope, Turn, Busy
<1>10. /\ Fresh(c)' /\ Divides(c)' /\ Own(c)' = Own(c)
       /\ \A i \in DOMAIN runs : runs'[i] = runs[i]
  <2>1. worker'[c].pc # "new" /\ cmd'[c].pc \in Busy
    BY <1>1, <1>8, <1>9
  <2> QED BY <1>1, <1>4, <1>8, <1>9, <2>1, AddedRow
<1>11. Holds(c)'
  BY <1>1, <1>4, <1>8, <1>9 DEF CInv, Holds, Group
<1>12. Persisted(c)'
  BY <1>1, <1>8, <1>10 DEF CInv, Persisted
<1>13. NoOwnSuccess(c)'
  BY <1>1, <1>10 DEF CInv, Told, NoOwnSuccess, Own, IdsOf
<1>14. n \in DOMAIN runs' /\ runs'[n].by = Turn(c) /\ runs'[n].kind = "record"
  <2>1. /\ DOMAIN runs' = DOMAIN runs \cup {n}
        /\ runs'[n] = [scope |-> Scope(c), outcome |-> "running",
                       by |-> Turn(c), kind |-> "record"]
    BY <1>1, StartedRow
  <2> QED BY <2>1
<1>15. Told(c)'
  BY <1>4, <1>8, <1>9, <1>13, <1>14 DEF Told
<1> QED BY <1>8, <1>10, <1>11, <1>12, <1>15 DEF Keeps, CInv

(* The command ends that record.                                            *)
LEMMA RecordFinishKeeps ==
  ASSUME Shape, RowsInv, NEW c \in Commands, CInv(c), RecordFinish(c) PROVE Keeps(c)
<1> DEFINE n  == cmd[c].reply
           e  == [outcome |-> "error", row |-> 0]
           q1 == [cmd[c] EXCEPT !.pc = "note"]
           q  == [q1 EXCEPT !.report = e]
           w  == worker[c]
<1>1. /\ cmd[c].pc = "recorded" /\ cmd[c].pc \in Busy /\ w.pc = "none"
      /\ UNCHANGED <<locks, worker, last, now>>
  BY NoWorkerWhile DEF RecordFinish, Busy
<1>2. Changes(n, "error") /\ cmd' = [cmd EXCEPT ![c] = q]
  BY DEF RecordFinish, Changes
<1>3. n \in DOMAIN runs /\ runs[n].by = Turn(c) /\ runs[n].kind = "record"
  BY <1>1 DEF CInv, Told
<1>4. "error" \in Outcomes /\ "error" \notin Good
  BY DEF Outcomes, Good
<1>5. /\ q \in CmdState /\ q.pc = "note" /\ q.turn = cmd[c].turn /\ q.due = cmd[c].due
      /\ q.at = cmd[c].at /\ q.boundary = cmd[c].boundary /\ q.reply = cmd[c].reply
      /\ q.report.outcome = "error"
  <2>1. e \in [outcome : Outcomes \cup {None}, row : Nat] /\ e.outcome = "error"
    BY <1>4
  <2>2. /\ q1 \in CmdState /\ q1.pc = "note" /\ q1.turn = cmd[c].turn /\ q1.due = cmd[c].due
        /\ q1.at = cmd[c].at /\ q1.boundary = cmd[c].boundary /\ q1.reply = cmd[c].reply
    BY Places DEF CmdState, Pcs
  <2> HIDE DEF q1, e
  <2> QED BY <2>1, <2>2 DEF CmdState
<1>6. worker' = [worker EXCEPT ![c] = w]
  BY <1>1 DEF Shape
<1> HIDE DEF q, q1, n
<1>7. Fits(c, q, w, Len(runs))
  BY <1>1, <1>5, Places DEF Fits
<1>8. Moves(c, q, w) /\ Locks(c)
  BY <1>1, <1>2, <1>5, <1>6, MovesInTurn DEF Locks
<1>9. /\ Shape' /\ RowsInv' /\ Apart(c) /\ cmd'[c] = q /\ worker'[c] = w
      /\ DOMAIN runs' = DOMAIN runs
      /\ \A i \in DOMAIN runs : runs'[i].outcome = IF i = n THEN "error" ELSE runs[i].outcome
  BY <1>2, <1>3, <1>4, <1>7, <1>8, ChangeStep
<1>10. Scope(c)' = Scope(c) /\ Turn(c)' = Turn(c) /\ q.pc \in Busy
  BY <1>5, <1>9 DEF Scope, Turn, Busy
<1>11. Fresh(c)' /\ Divides(c)' /\ Own(c)' = Own(c)
  BY <1>1, <1>5, <1>9, <1>10, SameRows DEF Apart
<1>12. Holds(c)'
  BY <1>1, <1>5, <1>9, <1>10 DEF CInv, Holds, Group
<1>13. Persisted(c)'
  BY <1>1, <1>9, <1>11 DEF CInv, Persisted
<1>14. NoOwnSuccess(c)'
  BY <1>1, <1>4, <1>9, <1>11 DEF CInv, Told, NoOwnSuccess, Own, IdsOf
<1>15. Told(c)'
  BY <1>4, <1>5, <1>9, <1>14 DEF Told, OwnReport
<1> QED BY <1>9, <1>11, <1>12, <1>13, <1>15 DEF Keeps, CInv

-----------------------------------------------------------------------------
(* Every step of a command keeps its invariant.                             *)
LEMMA StepKeeps ==
  ASSUME Shape, RowsInv, NEW c \in Commands, CInv(c), Step(c) PROVE Keeps(c)
BY BeginKeeps, SkipKeeps, TakeKeeps, GiveUpKeeps, SpawnKeeps, WorkerStartKeeps,
   WorkerExitKeeps, WorkerKilledKeeps, WorkerFinishKeeps, JudgeKeeps, RecordStartKeeps,
   RecordFinishKeeps, NoteKeeps, StopKeeps DEF Step

(* So does time.                                                            *)
LEMMA TickKeeps ==
  ASSUME IInv, UNCHANGED <<runs, locks, cmd, worker, last>>, now' \in 0..MaxTime
  PROVE  IInv'
<1>1. Shape'
  BY DEF IInv, Shape
<1>2. RowsInv'
  BY DEF IInv, RowsInv, IdsOf
<1>3. \A c \in Commands : CInv(c)'
  BY DEF IInv, CInv, Holds, Fresh, Divides, Persisted, Told, NoOwnSuccess, OwnReport, Own,
         IdsOf, Scope, Turn
<1> QED BY <1>1, <1>2, <1>3 DEF IInv

(* Every step keeps the invariant.                                          *)
LEMMA NextIInv == IInv /\ [Next]_vars => IInv'
<1> SUFFICES ASSUME IInv, [Next]_vars PROVE IInv'
  OBVIOUS
<1>1. CASE Tick
  <2>1. now' \in 0..MaxTime
    BY <1>1, BoundAssumption DEF Tick, IInv, Shape
  <2> QED BY <1>1, <2>1, TickKeeps DEF Tick
<1>2. ASSUME NEW c \in Commands, Step(c) PROVE IInv'
  <2>1. Keeps(c)
    BY <1>2, StepKeeps DEF IInv
  <2>2. ASSUME NEW d \in Commands \ {c} PROVE CInv(d)'
    BY <2>1, OthersKeep DEF IInv, Keeps
  <2> QED BY <2>1, <2>2 DEF IInv, Keeps
<1>3. CASE UNCHANGED vars
  <2>1. now' \in 0..MaxTime
    BY <1>3 DEF vars, IInv, Shape
  <2> QED BY <1>3, <2>1, TickKeeps DEF vars
<1> QED BY <1>1, <1>2, <1>3 DEF Next

(* The strengthening of what follows holds in every reachable state: the    *)
(* lock of a scope divides its rows at the boundary into those of others   *)
(* and the turn's own.                                                     *)
THEOREM Inductive == Spec => []IInv
<1> QED BY InitIInv, NextIInv, PTL DEF Spec

(* Rows, locks, places and workers stay well typed.                        *)
THEOREM TypeCorrect == Spec => []TypeOK
<1>1. IInv => TypeOK
  <2> SUFFICES ASSUME IInv, NEW c \in Commands
               PROVE  /\ cmd[c].pc \in Pcs /\ cmd[c].due \subseteq 1..Len(Plan[c])
                      /\ cmd[c].at \in 1..Len(Plan[c]) /\ cmd[c].turn \in 0..MaxTurns
                      /\ cmd[c].boundary \in 0..MaxRuns /\ cmd[c].reply \in 0..Len(runs)
                      /\ worker[c].pc \in {"none", "new", "collecting", "print", "failed"}
                      /\ worker[c].row \in 0..Len(runs)
    BY DEF TypeOK, IInv, Shape
  <2>1. Shape /\ Len(runs) <= MaxRuns
    BY DEF IInv, Shape
  <2> QED BY <2>1, Places, BoundAssumption
<1> QED BY <1>1, Inductive, PTL

(* A success that a command reports was persisted by its own worker, and a *)
(* failure is reported only when its worker persisted no success, however  *)
(* many commands share a scope and wherever workers are killed             *)
(* (_run_isolated_scope, _latest_persisted_scope_result).                  *)
THEOREM ReportsOwn == Spec => []ReportIsOwn
<1>1. IInv => ReportIsOwn
  BY DEF IInv, CInv, Told, OwnReport, NoOwnSuccess, Own, ReportIsOwn
<1> QED BY <1>1, Inductive, PTL

=============================================================================
