--------------------------- MODULE CollectionRuns ---------------------------
(***************************************************************************)
(* How one collection is run and accounted for: the collect command takes  *)
(* the lock of the scope's group, notes the highest run id of the scope,   *)
(* starts an isolated worker with a deadline, and reports what the worker  *)
(* printed - or, when the worker was killed or its output was lost, what   *)
(* it left in collector_runs above that id, or else a failure of its own   *)
(* making.  Workers belong to the control group of their command: systemd  *)
(* stops both together.                                                    *)
(***************************************************************************)
EXTENDS Naturals, Sequences, FiniteSets

CONSTANTS
  Commands,   \* the collect commands that may run beside each other
  Plan,       \* [Commands -> Seq(STRING)]: their scopes, in order
  MinAge,     \* a scope of a plan is skipped while its last success is younger
  MaxTurns, MaxTime, MaxRuns, MaxFaults   \* bounds

\* A command collects no scope twice.
ASSUME PlanAssumption ==
  \A c \in Commands :
    /\ Plan[c] \in Seq(STRING) /\ Plan[c] # <<>>
    /\ \A i, j \in 1..Len(Plan[c]) : Plan[c][i] = Plan[c][j] => i = j

ASSUME BoundAssumption ==
  MaxTurns \in Nat /\ MaxTime \in Nat /\ MaxRuns \in Nat /\ MaxFaults \in Nat

ASSUME CommandAssumption == "none" \notin Commands

VARIABLES
  runs,     \* collector_runs, indexed by row id; "by" names the turn that wrote it
  locks,    \* lock group -> the command that holds it
  cmd,      \* command -> where it stands
  worker,   \* command -> its worker process
  last,     \* scope -> the stored time of its last success
  now, faults

vars == <<runs, locks, cmd, worker, last, now, faults>>

None == "none"

Scopes == UNION {{Plan[c][i] : i \in 1..Len(Plan[c])} : c \in Commands}

\* Minute collections are serialised apart from all the others.
Group(s) == IF s = "minute" THEN "minute" ELSE "slow"

Groups == {Group(s) : s \in Scopes}

Good == {"ok", "partial"}

Unreported == [outcome |-> None, row |-> 0]

\* "at" is the place in the plan, "due" the places that were due at its begin.
Place(pc, due, at, turn) == [pc |-> pc, due |-> due, at |-> at, turn |-> turn,
                             boundary |-> 0, reply |-> 0, report |-> Unreported]
Idle(turn) == Place("idle", {}, 1, turn)

NoWorker == [pc |-> "none", row |-> 0]

-----------------------------------------------------------------------------
Init ==
  /\ runs = <<>>
  /\ locks = [g \in Groups |-> None]
  /\ cmd = [c \in Commands |-> Idle(0)]
  /\ worker = [c \in Commands |-> NoWorker]
  /\ last = [s \in Scopes |-> 0]
  /\ now = 0
  /\ faults = 0

Scope(c) == Plan[c][cmd[c].at]

Turn(c) == <<c, cmd[c].turn>>

IdsOf(s) == {i \in DOMAIN runs : runs[i].scope = s}

Highest(ids) == IF ids = {} THEN 0 ELSE CHOOSE i \in ids : \A j \in ids : j <= i

\* The first scope always, the others when their last success is old enough.
Begin(c) ==
  /\ cmd[c].pc = "idle" /\ cmd[c].turn < MaxTurns
  /\ LET due == {i \in 1..Len(Plan[c]) : LET s == Plan[c][i] IN
                    i = 1 \/ last[s] = 0 \/ now - last[s] >= MinAge}
     IN cmd' = [cmd EXCEPT ![c] = Place("lock", due, 1, @.turn + 1)]
  /\ UNCHANGED <<runs, locks, worker, last, now, faults>>

\* On to the next scope of the plan.
Onward(c) == IF cmd[c].at = Len(Plan[c]) THEN Idle(cmd[c].turn)
             ELSE Place("lock", cmd[c].due, cmd[c].at + 1, cmd[c].turn)

Skip(c) ==
  /\ cmd[c].pc = "lock" /\ cmd[c].at \notin cmd[c].due
  /\ cmd' = [cmd EXCEPT ![c] = Onward(c)]
  /\ UNCHANGED <<runs, locks, worker, last, now, faults>>

AtLock(c) == cmd[c].pc = "lock" /\ cmd[c].at \in cmd[c].due

Take(c) ==
  /\ AtLock(c) /\ locks[Group(Scope(c))] = None
  /\ locks' = [locks EXCEPT ![Group(Scope(c))] = c]
  /\ cmd' = [cmd EXCEPT ![c].pc = "locked"]
  /\ UNCHANGED <<runs, worker, last, now, faults>>

\* The wait for the lock runs out: the command fails with what is left to do.
GiveUp(c) ==
  /\ AtLock(c) /\ locks[Group(Scope(c))] # None
  /\ cmd' = [cmd EXCEPT ![c] = Idle(@.turn)]
  /\ UNCHANGED <<runs, locks, worker, last, now, faults>>

Spawn(c) ==
  /\ cmd[c].pc = "locked"
  /\ cmd' = [cmd EXCEPT ![c].pc = "wait", ![c].boundary = Highest(IdsOf(Scope(c)))]
  /\ worker' = [worker EXCEPT ![c].pc = "new"]
  /\ UNCHANGED <<runs, locks, last, now, faults>>

\* A run row as start_collector_run writes it.
Started(c, kind) ==
  Append(runs, [scope |-> Scope(c), outcome |-> "running", by |-> Turn(c), kind |-> kind])

WorkerStart(c) ==
  /\ worker[c].pc = "new" /\ Len(runs) < MaxRuns
  /\ runs' = Started(c, "worker")
  /\ worker' = [worker EXCEPT ![c] = [pc |-> "collecting", row |-> Len(runs')]]
  /\ UNCHANGED <<locks, cmd, last, now, faults>>

\* The collection is persisted with its outcome before anything is printed.
WorkerFinish(c, outcome) ==
  /\ worker[c].pc = "collecting"
  /\ runs' = [runs EXCEPT ![worker[c].row].outcome = outcome]
  /\ worker' = [worker EXCEPT ![c].pc = IF outcome \in Good THEN "print" ELSE "failed"]
  /\ UNCHANGED <<locks, cmd, last, now, faults>>

Ends(c, reply) ==
  /\ cmd' = [cmd EXCEPT ![c].pc = "judge", ![c].reply = reply]
  /\ worker' = [worker EXCEPT ![c] = NoWorker]

WorkerExit(c) ==
  /\ worker[c].pc \in {"print", "failed"}
  /\ Ends(c, IF worker[c].pc = "print" THEN worker[c].row ELSE 0)
  /\ UNCHANGED <<runs, locks, last, now, faults>>

\* The deadline or a signal ends the worker wherever it is.
WorkerKilled(c) ==
  /\ worker[c].pc # "none" /\ faults < MaxFaults
  /\ Ends(c, 0)
  /\ faults' = faults + 1
  /\ UNCHANGED <<runs, locks, last, now>>

\* Defect: any success of the scope is taken for the own worker's.
LeftBehind_Anything(c) == {i \in IdsOf(Scope(c)) : runs[i].outcome \in Good}

\* What the worker left behind, judged by the row ids alone.
LeftBehind(c) == {i \in IdsOf(Scope(c)) : i > cmd[c].boundary /\ runs[i].outcome \in Good}

Reported(row) == [outcome |-> runs[row].outcome, row |-> row]

Judge(c) ==
  /\ cmd[c].pc = "judge"
  /\ LET row == IF cmd[c].reply # 0 THEN cmd[c].reply ELSE Highest(LeftBehind(c))
     IN cmd' = IF row = 0 THEN [cmd EXCEPT ![c].pc = "record"]
               ELSE [cmd EXCEPT ![c].pc = "note", ![c].report = Reported(row)]
  /\ UNCHANGED <<runs, locks, worker, last, now, faults>>

\* record_collector_run is two transactions: a running row, then its outcome.
RecordStart(c) ==
  /\ cmd[c].pc = "record" /\ Len(runs) < MaxRuns
  /\ runs' = Started(c, "record")
  /\ cmd' = [cmd EXCEPT ![c].pc = "recorded", ![c].reply = Len(runs')]
  /\ UNCHANGED <<locks, worker, last, now, faults>>

RecordFinish(c) ==
  /\ cmd[c].pc = "recorded"
  /\ runs' = [runs EXCEPT ![cmd[c].reply].outcome = "error"]
  /\ cmd' = [cmd EXCEPT ![c].pc = "note",
             ![c].report = [outcome |-> "error", row |-> 0]]
  /\ UNCHANGED <<locks, worker, last, now, faults>>

\* A success is stored, the lock released, and the next scope begun.
Note(c) ==
  /\ cmd[c].pc = "note"
  /\ last' = IF cmd[c].report.outcome \in Good THEN [last EXCEPT ![Scope(c)] = now] ELSE last
  /\ locks' = [locks EXCEPT ![Group(Scope(c))] = None]
  /\ cmd' = [cmd EXCEPT ![c] = Onward(c)]
  /\ UNCHANGED <<runs, worker, now, faults>>

\* The unit is stopped or fails: command and worker end, the lock with them.
Stop(c) ==
  /\ cmd[c].pc \notin {"idle", "lock"} /\ faults < MaxFaults
  /\ cmd' = [cmd EXCEPT ![c] = Idle(@.turn)]
  /\ worker' = [worker EXCEPT ![c] = NoWorker]
  /\ locks' = [locks EXCEPT ![Group(Scope(c))] = None]
  /\ faults' = faults + 1
  /\ UNCHANGED <<runs, last, now>>

Tick ==
  /\ now < MaxTime
  /\ now' = now + 1
  /\ UNCHANGED <<runs, locks, cmd, worker, last, faults>>

Step(c) ==
  \/ Begin(c) \/ Skip(c) \/ Take(c) \/ GiveUp(c) \/ Spawn(c)
  \/ WorkerStart(c) \/ WorkerExit(c) \/ WorkerKilled(c)
  \/ \E outcome \in Good \cup {"error"} : WorkerFinish(c, outcome)
  \/ Judge(c) \/ RecordStart(c) \/ RecordFinish(c) \/ Note(c) \/ Stop(c)

Next == Tick \/ \E c \in Commands : Step(c)

Spec == Init /\ [][Next]_vars

-----------------------------------------------------------------------------
Pcs == {"idle", "lock", "locked", "wait", "judge", "record", "recorded", "note"}

Row == [scope : Scopes, outcome : Good \cup {"running", "error"},
        by : Commands \X (1..MaxTurns), kind : {"worker", "record"}]

TypeOK ==
  /\ runs \in Seq(Row)
  /\ locks \in [Groups -> Commands \cup {None}]
  /\ \A c \in Commands : /\ cmd[c].pc \in Pcs
                         /\ cmd[c].due \subseteq 1..Len(Plan[c])
                         /\ cmd[c].at \in 1..Len(Plan[c])
                         /\ cmd[c].turn \in 0..MaxTurns
                         /\ cmd[c].boundary \in 0..MaxRuns
                         /\ cmd[c].reply \in 0..Len(runs)
                         /\ worker[c].pc \in {"none", "new", "collecting", "print", "failed"}
                         /\ worker[c].row \in 0..Len(runs)
  /\ last \in [Scopes -> 0..MaxTime]

\* What a command reports is its own worker's collection, also when the worker
\* was killed after persisting it and other commands collected the same scope:
\* a success is one its worker persisted with that outcome, and a failure is
\* reported only when its worker persisted no success (_run_isolated_scope).
ReportIsOwn ==
  \A c \in Commands : cmd[c].pc = "note" =>
    LET own == {i \in IdsOf(Scope(c)) : runs[i].by = Turn(c) /\ runs[i].kind = "worker"}
        report == cmd[c].report
    IN IF report.outcome \in Good
       THEN report.row \in own /\ runs[report.row].outcome = report.outcome
       ELSE \A i \in own : runs[i].outcome \notin Good
=============================================================================
