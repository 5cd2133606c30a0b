--------------------------- MODULE PackageHistory ---------------------------
(***************************************************************************)
(* The DNF history collector.  It remembers the transactions it has seen,  *)
(* reads the details of the others - and again of those whose failure is   *)
(* still an active alert - and returns events.  Its memory is stored when  *)
(* the collector returns; the events are inserted by the caller, and the   *)
(* alerts after them, so a worker that dies in between has remembered what *)
(* it never reported.  A memory that cannot be read is taken for none.     *)
(***************************************************************************)
EXTENDS Naturals, FiniteSets

CONSTANTS
  Transactions,   \* 1..n, in the order DNF numbers them
  Baseline,       \* how many of the newest a first collection reports
  PerPass,        \* how many a later one reads
  Keep,           \* how many the memory holds
  MaxFaults, MaxPasses   \* bounds

VARIABLES
  status,    \* what dnf history says of each transaction
  seen,      \* software.dnf_seen_ids: a set, or Unknown before the first time
  active,    \* transactions with an active dnf_transaction_failed alert
  pc,        \* of the worker: idle, collected, inserted
  events,    \* what the collection returned: transaction -> kind
  reported,  \* <<transaction, kind>> -> how often it was inserted
  excused,   \* ghost: the baseline, and what went with a death or a lost read
  faults, passes

vars == <<status, seen, active, pc, events, reported, excused, faults, passes>>

Unknown == {0}     \* no id is 0

Kinds == {"packages", "failed", "recovered"}

NoEvents == [t \in {} |-> "packages"]

Newest(ids, n) == {t \in ids : Cardinality({u \in ids : u > t}) < n}

-----------------------------------------------------------------------------
Init ==
  /\ status \in [Transactions -> {"none", "ok"}]
  /\ \A t, u \in Transactions : t < u /\ status[t] = "none" => status[u] = "none"
  /\ seen = Unknown
  /\ active = {}
  /\ pc = "idle"
  /\ events = NoEvents
  /\ reported = [x \in Transactions \X Kinds |-> 0]
  /\ excused = {}
  /\ faults = 0
  /\ passes = 0

Issued == {t \in Transactions : status[t] # "none"}

\* Transactions start in order, end well or badly, and one that failed may be
\* completed later.
Transact(t, to) ==
  /\ \/ to = "running" /\ status[t] = "none" /\ \A u \in Transactions : u < t => u \in Issued
     \/ to \in {"ok", "failed"} /\ status[t] = "running"
     \/ to = "ok" /\ status[t] = "failed"
  /\ status' = [status EXCEPT ![t] = to]
  /\ UNCHANGED <<seen, active, pc, events, reported, excused, faults, passes>>

\* Defect: a transaction that still runs counts as final.
Final_Any(t) == t \in Issued

\* A transaction counts as seen once its details name a final status.
Final(t) == status[t] \in {"ok", "failed"}

Kind(t) == IF status[t] = "failed" THEN "failed"
           ELSE IF t \in active THEN "recovered" ELSE "packages"

\* One call of collect_history.  "unread" are the transactions whose details
\* could not be read, "blind" says that reading the memory failed.
Collect(unread, blind) ==
  /\ pc = "idle" /\ passes < MaxPasses
  /\ blind => faults < MaxFaults
  /\ LET first == blind \/ seen = Unknown
         known == IF first THEN {} ELSE seen
         waiting == {t \in Issued : t \notin known \/ t \in active}
         chosen == Newest(waiting, IF first THEN Baseline ELSE PerPass)
         skipped == IF first THEN Issued \ chosen ELSE {}
         final == {t \in chosen \ unread : Final(t)}
     IN /\ unread \subseteq chosen
        /\ seen' = Newest(known \cup skipped \cup final, Keep)
        /\ events' = [t \in final |-> Kind(t)]
        /\ excused' = excused \cup (IF blind THEN Issued ELSE skipped)
  /\ pc' = "collected"
  /\ faults' = IF blind THEN faults + 1 ELSE faults
  /\ passes' = passes + 1
  /\ UNCHANGED <<status, active, reported>>

Insert ==
  /\ pc = "collected"
  /\ reported' = [x \in DOMAIN reported |->
       reported[x] + (IF x[1] \in DOMAIN events /\ events[x[1]] = x[2] THEN 1 ELSE 0)]
  /\ pc' = "inserted"
  /\ UNCHANGED <<status, seen, active, events, excused, faults, passes>>

\* The failed ones raise an alert, the recovered ones close theirs.
Alert ==
  /\ pc = "inserted"
  /\ active' = {t \in active \cup DOMAIN events :
                  IF t \in DOMAIN events THEN events[t] = "failed" ELSE TRUE}
  /\ pc' = "idle"
  /\ events' = NoEvents
  /\ UNCHANGED <<status, seen, reported, excused, faults, passes>>

Die ==
  /\ pc # "idle" /\ faults < MaxFaults
  /\ pc' = "idle"
  /\ events' = NoEvents
  /\ excused' = excused \cup DOMAIN events
  /\ faults' = faults + 1
  /\ UNCHANGED <<status, seen, active, reported, passes>>

Next ==
  \/ \E t \in Transactions, to \in {"running", "ok", "failed"} : Transact(t, to)
  \/ \E unread \in SUBSET Transactions, blind \in BOOLEAN : Collect(unread, blind)
  \/ Insert \/ Alert \/ Die

Spec == Init /\ [][Next]_vars

-----------------------------------------------------------------------------
TypeOK ==
  /\ status \in [Transactions -> {"none", "running", "ok", "failed"}]
  /\ seen = Unknown \/ seen \subseteq Transactions
  /\ active \subseteq Transactions
  /\ pc \in {"idle", "collected", "inserted"}
  /\ DOMAIN events \subseteq Transactions
  /\ excused \subseteq Transactions
  /\ reported \in [Transactions \X Kinds -> 0..MaxPasses]

\* Every transaction that the collector will not read again was reported with
\* its outcome, and its failure is an alert until it is completed - unless it
\* belongs to the first baseline or went with a death or an unreadable memory;
\* and none is reported as installed before it ended well, nor twice as long as
\* the memory has room for all of them (collect_history: "an individual package
\* event for every terminal DNF transaction item").
EveryTransactionReported ==
  /\ pc = "idle" /\ seen # Unknown => \A t \in seen \ excused :
       /\ \E k \in Kinds : reported[<<t, k>>] > 0
       /\ reported[<<t, "failed">>] > 0 => (t \in active) = (reported[<<t, "recovered">>] = 0)
  /\ \A t \in Transactions : reported[<<t, "packages">>] > 0 =>
       /\ status[t] = "ok"
       /\ Cardinality(Issued) <= Keep => reported[<<t, "packages">>] <= 1 + faults
=============================================================================
