---------------------------- MODULE SpaceNotice ----------------------------
(* Messages about free space (notifications/__init__.py): each five-minute   *)
(* run compares what is free on a filesystem with the baseline, the value    *)
(* last told, and moves the baseline only when Telegram answers that it took *)
(* the message or put it away by its own policy.  Runs exclude each other by *)
(* the collection lock; a run can die between its steps.                     *)
EXTENDS Integers

CONSTANTS Threshold,   \* filesystem_free_change_gib
          MaxFree,     \* what can be free
          Mounts       \* mount points of the filesystem by preference, the root first

NoValue == -1
Free == 0..MaxFree

VARIABLES base,      \* notified_free_bytes, NoValue before the first run
          last,      \* last_observed_free_bytes
          visit,     \* the running evaluation
          settled,   \* history: the value last told or put away
          due,       \* history: the last evaluation ended without an answer
          doubt      \* history: something was told that the baseline does not show

vars == <<base, last, visit, settled, due, doubt>>

Idle == [at |-> "idle", free |-> NoValue, taken |-> FALSE, accepted |-> FALSE]

TypeOK ==
  /\ {base, last, settled} \subseteq Free \cup {NoValue}
  /\ visit \in [at : {"idle", "send", "store"}, free : Free \cup {NoValue},
                taken : BOOLEAN, accepted : BOOLEAN]
  /\ visit.at = "idle" <=> visit = Idle
  /\ due \in BOOLEAN /\ doubt \in BOOLEAN
  /\ base = NoValue <=> last = NoValue

Init == /\ base = NoValue /\ last = NoValue /\ settled = NoValue
        /\ visit = Idle /\ due = FALSE /\ doubt = FALSE

Gap(a, b) == IF a < b THEN b - a ELSE a - b

(* One metric stands for the filesystem: that of the preferred mount point.  *)
Observations == UNION {[M -> Free] : M \in (SUBSET Mounts) \ {{}}}
Selected(o) == o[CHOOSE m \in DOMAIN o : \A n \in DOMAIN o : m <= n]

(* The first observation is the baseline, without a message.                 *)
FirstSeen(f) == /\ base = NoValue
                /\ base' = f /\ last' = f /\ settled' = f
                /\ UNCHANGED <<visit, due, doubt>>

SmallChange(f) == /\ base # NoValue /\ Gap(f, base) < Threshold
                  /\ last' = f /\ due' = FALSE
                  /\ UNCHANGED <<base, visit, settled, doubt>>

LargeChange(f) == /\ base # NoValue /\ Gap(f, base) >= Threshold
                  /\ visit' = [Idle EXCEPT !.at = "send", !.free = f]
                  /\ UNCHANGED <<base, last, settled, due, doubt>>

Evaluate ==
  /\ visit.at = "idle"
  /\ \E o \in Observations : LET f == Selected(o) IN
       FirstSeen(f) \/ SmallChange(f) \/ LargeChange(f)

(* The message is sent, grouped or suppressed; or it is taken and the answer *)
(* is lost; or it is refused, or there are no credentials.                   *)
Send ==
  /\ visit.at = "send"
  /\ \E taken \in BOOLEAN, accepted \in BOOLEAN :
       /\ accepted => taken
       /\ visit' = [visit EXCEPT !.at = "store", !.taken = taken, !.accepted = accepted]
       /\ settled' = IF taken THEN visit.free ELSE settled
  /\ UNCHANGED <<base, last, due, doubt>>

(* Defect: the baseline follows every observation.                           *)
Baseline_Follows(v) == v.free

Baseline(v) == IF v.accepted THEN v.free ELSE base

Store ==
  /\ visit.at = "store"
  /\ base' = Baseline(visit) /\ last' = visit.free /\ visit' = Idle
  /\ due' = ~visit.accepted
  /\ doubt' = (~visit.accepted /\ (doubt \/ visit.taken))
  /\ UNCHANGED settled

(* The worker is killed: nothing of the evaluation is stored.                *)
Dies ==
  /\ visit.at # "idle" /\ visit' = Idle
  /\ due' = TRUE /\ doubt' = (doubt \/ visit.taken)
  /\ UNCHANGED <<base, last, settled>>

Next == Evaluate \/ Send \/ Store \/ Dies
Spec == Init /\ [][Next]_vars

----------------------------------------------------------------------------
(* The user is never left more than the threshold away from what is free,    *)
(* however slowly it drifts: between runs what was last told is within it,   *)
(* unless the message itself is still owed, and the baseline is what was     *)
(* last told unless a taken message lost its answer or its run.              *)
DriftIsTold ==
  visit.at = "idle" /\ ~doubt =>
    /\ base = settled
    /\ ~due => Gap(last, settled) < Threshold \/ base = NoValue

=============================================================================
