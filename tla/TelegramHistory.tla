--------------------------- MODULE TelegramHistory ---------------------------
(* The export of the notification chat (scripts/telegram_history_collector). *)
(* sync keeps the archive in a Git repository: it notes its base commit in   *)
(* a marker, writes the files of the archive one by one, commits, pushes,    *)
(* and drops the marker; whatever cut it off is undone from the marker.      *)
(* sync_private writes the same files outside Git.                           *)
EXTENDS Integers, Sequences, SequencesExt, FiniteSets

CONSTANTS
  MonthOf,      \* the month of each message: one file each
  MaxForeign,   \* bound on commits others push to the same repository
  MaxFaults     \* bound on failed requests, lost replies and deaths


VARIABLES
  private,    \* which of the two commands is configured
  sent,       \* messages of the chat so far
  remote,     \* commits of origin: the archive each of them holds
  local,      \* commits of the clone
  work,       \* the files in the working tree
  marker,     \* telegram-history-transaction.json: {} or {base}
  run,        \* the sync in progress
  foreign, faults

vars == <<private, sent, remote, local, work, marker, run, foreign, faults>>

Messages == DOMAIN MonthOf
Months   == {MonthOf[m] : m \in Messages}
Empty    == [cursor |-> 0, files |-> [mo \in Months |-> <<>>], other |-> 0]
Idle     == [pc |-> "idle", base |-> <<>>, todo |-> {}, records |-> {}]
HeadOf(commits) == commits[Len(commits)]

Init ==
  /\ private \in BOOLEAN
  /\ sent = 0
  /\ remote = <<Empty>> /\ local = <<Empty>> /\ work = Empty
  /\ marker = {}
  /\ run = Idle
  /\ foreign = 0 /\ faults = 0

------------------------------------------------------------------------------
(* Telegram and the other clones.                                           *)

Post ==
  /\ sent < Len(MonthOf)
  /\ sent' = sent + 1
  /\ UNCHANGED <<private, remote, local, work, marker, run, foreign, faults>>

ForeignPush ==
  /\ ~private /\ foreign < MaxForeign
  /\ foreign' = foreign + 1
  /\ remote' = Append(remote, [HeadOf(remote) EXCEPT !.other = @ + 1])
  /\ UNCHANGED <<private, sent, local, work, marker, run, faults>>

------------------------------------------------------------------------------
(* sync, until the marker is written.                                       *)

(* recover_transaction: back to what origin has, provided it still has the  *)
(* base.  A run begins with it and a failing one ends with it.              *)
Recover ==
  /\ run.pc \in {"idle", "rescue"} /\ ~private
  /\ \A base \in marker : IsPrefix(base, remote)
  /\ IF marker = {} THEN UNCHANGED <<local, work>>
     ELSE local' = remote /\ work' = HeadOf(remote)
  /\ marker' = {}
  /\ run' = [Idle EXCEPT !.pc = IF run.pc = "idle" THEN "prepare" ELSE "idle"]
  /\ UNCHANGED <<private, sent, remote, foreign, faults>>

(* A clean tree, fetch and a fast forward; a commit that was not pushed is. *)
Prepare ==
  /\ run.pc = "prepare"
  /\ work = HeadOf(local)
  /\ \/ IsPrefix(local, remote) /\ local' = remote /\ UNCHANGED remote
     \/ IsStrictPrefix(remote, local) /\ remote' = local /\ UNCHANGED local
  /\ work' = HeadOf(local')
  /\ run' = [run EXCEPT !.pc = "collect"]
  /\ UNCHANGED <<private, sent, marker, foreign, faults>>

(* "data repository has local changes", or the two have diverged.           *)
Refuse ==
  /\ run.pc = "prepare"
  /\ \/ work # HeadOf(local)
     \/ ~IsPrefix(local, remote) /\ ~IsPrefix(remote, local)
  /\ run' = Idle
  /\ UNCHANGED <<private, sent, remote, local, work, marker, foreign, faults>>

StartPrivate ==
  /\ run.pc = "idle" /\ private
  /\ run' = [run EXCEPT !.pc = "collect"]
  /\ UNCHANGED <<private, sent, remote, local, work, marker, foreign, faults>>

(* collect, then write_transaction.                                         *)
Collect ==
  /\ run.pc = "collect"
  /\ LET fresh == {m \in Messages : work.cursor < m /\ m <= sent}
     IN  /\ run' = IF fresh = {} THEN Idle
                   ELSE [pc |-> "write", base |-> local, records |-> fresh,
                         todo |-> {MonthOf[m] : m \in fresh}]
         /\ marker' = IF private \/ fresh = {} THEN marker ELSE {local}
  /\ UNCHANGED <<private, sent, remote, local, work, foreign, faults>>

------------------------------------------------------------------------------
(* serialize_changes: a file per month, then state.json.                    *)

Archived(a) == UNION {Range(a.files[mo]) : mo \in Months}
InOrder(S)  == CHOOSE f \in [1..Cardinality(S) -> S] :
                 \A i, j \in DOMAIN f : i < j => f[i] < f[j]

Additions(mo)     == {m \in run.records \ Archived(work) : MonthOf[m] = mo}

WriteMonth(mo) ==
  /\ run.pc = "write" /\ mo \in run.todo /\ \A other \in run.todo : mo <= other
  /\ work' = [work EXCEPT !.files[mo] = @ \o InOrder(Additions(mo))]
  /\ run' = [run EXCEPT !.todo = @ \ {mo}]
  /\ UNCHANGED <<private, sent, remote, local, marker, foreign, faults>>

WriteState ==
  /\ run.pc = "write" /\ run.todo = {}
  /\ work' = [work EXCEPT !.cursor = CHOOSE top \in Archived(work) \cup {@} :
                                       \A m \in Archived(work) \cup {@} : m <= top]
  /\ run' = IF private THEN Idle ELSE [run EXCEPT !.pc = "commit"]
  /\ UNCHANGED <<private, sent, remote, local, marker, foreign, faults>>

------------------------------------------------------------------------------
(* The end of sync.                                                         *)

Commit ==
  /\ run.pc = "commit"
  /\ local' = Append(local, work)
  /\ run' = [run EXCEPT !.pc = "push"]
  /\ UNCHANGED <<private, sent, remote, work, marker, foreign, faults>>

(* The push arrives; its reply may be lost.  It is rejected when others     *)
(* pushed first.                                                            *)
Push(replied) ==
  /\ run.pc = "push"
  /\ IF IsPrefix(remote, local)
     THEN /\ remote' = local
          /\ replied \/ faults < MaxFaults
          /\ faults' = IF replied THEN faults ELSE faults + 1
          /\ run' = [run EXCEPT !.pc = IF replied THEN "unmark" ELSE "rescue"]
     ELSE /\ replied
          /\ run' = [run EXCEPT !.pc = "rescue"]
          /\ UNCHANGED <<remote, faults>>
  /\ UNCHANGED <<private, sent, local, work, marker, foreign>>

Unmark ==
  /\ run.pc = "unmark"
  /\ marker' = {}
  /\ run' = Idle
  /\ UNCHANGED <<private, sent, remote, local, work, foreign, faults>>

(* Killed, powered off, or out of reach of Telegram or origin.              *)
Die ==
  /\ run.pc # "idle" /\ faults < MaxFaults
  /\ faults' = faults + 1
  /\ run' = Idle
  /\ UNCHANGED <<private, sent, remote, local, work, marker, foreign>>

Sync == \/ Recover \/ Prepare \/ Refuse \/ StartPrivate \/ Collect
        \/ (\E mo \in Months : WriteMonth(mo)) \/ WriteState
        \/ Commit \/ (\E replied \in BOOLEAN : Push(replied)) \/ Unmark
Next == Post \/ ForeignPush \/ Sync \/ Die

(* The timer of the service starts sync again and again.                    *)
Fairness == WF_vars(Sync)
Spec     == Init /\ [][Next]_vars
FairSpec == Spec /\ Fairness

------------------------------------------------------------------------------
(* Properties.                                                              *)

Archives == [cursor : Nat, files : [Months -> Seq(Messages)], other : Nat]
TypeOK ==
  /\ private \in BOOLEAN /\ sent \in 0..Len(MonthOf)
  /\ remote \in Seq(Archives) /\ local \in Seq(Archives) /\ work \in Archives
  /\ Cardinality(marker) <= 1
  /\ run.pc \in {"idle", "rescue", "prepare", "collect", "write", "commit", "push", "unmark"}
  /\ run.records \subseteq Messages /\ run.todo \subseteq Months
  /\ foreign \in 0..MaxForeign /\ faults \in 0..MaxFaults

(* The archive that counts: every commit of origin, or the private files.   *)
Published == IF private THEN {work} ELSE Range(remote)

(* A published archive holds each message up to its cursor, once, in the    *)
(* file of its month and in order, whatever run was cut off between two     *)
(* files, before its cursor, or after a push whose reply was lost.          *)
ArchiveExact ==
  \A a \in Published :
    /\ 1..a.cursor \subseteq Archived(a)
    /\ \A mo \in Months : a.files[mo] = InOrder({m \in Archived(a) : MonthOf[m] = mo})

(* No run wedges the repository: every message is published in the end,     *)
(* also after others pushed first.                                          *)
EverythingPublished ==
  <>[](\E a \in Published : a.cursor = sent)

==============================================================================
