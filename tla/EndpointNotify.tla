--------------------------- MODULE EndpointNotify ---------------------------
(***************************************************************************)
(* Telling Uptime Kuma about alerts.                                       *)
(*                                                                         *)
(* A worker or the event daemon (a flusher) persists alert signals and     *)
(* then, under notifications.lock, pushes the health of every endpoint its *)
(* transitions touched (_flush_transition_notifications).  Independently   *)
(* every collection command (a beater) reads the active alerts once and    *)
(* pushes a heartbeat per category without that lock                       *)
(* (_collect_command_with_kuma_snapshot).  Both remember the alerts they   *)
(* believe Kuma was told in dedup_state "endpoint:<category>".             *)
(*                                                                         *)
(* kuma[e] is what the last push that arrived said of the health of e; the *)
(* inversion of configured categories is an encoding of the same fact.     *)
(* The loops visit endpoints in name order, the model in any order.  The   *)
(* alert_opened events a flusher inserts before it flushes are history     *)
(* that nothing here reads.                                                *)
(***************************************************************************)
EXTENDS AlertLevels, FiniteSets

CONSTANTS
  Flushers,    \* processes that persist signals
  Beaters,     \* processes that send heartbeats
  Keys,        \* alert keys
  Endpoints,   \* Kuma categories
  EndpointOf,  \* [Keys -> Endpoints], endpoint_key of the alert's category
  BeatsOf,     \* [Beaters -> SUBSET Endpoints], heartbeat_categories
  AlwaysUp,    \* endpoints whose heartbeat ignores alerts ("system")
  Raised,      \* severities alerts are raised at
  MaxFaults    \* bound on failed pushes, failed collections and kills

ASSUME EndpointAssumption == EndpointOf \in [Keys -> Endpoints]
ASSUME BeatsAssumption == BeatsOf \in [Beaters -> SUBSET Endpoints]
ASSUME ScopeAssumption == AlwaysUp \subseteq Endpoints /\ Raised \subseteq Severities
ASSUME FaultAssumption == MaxFaults \in Nat

VARIABLES
  alerts,   \* severity of the active row of a key, "none" without one
  marked,   \* last_notification_status = "delivered" on the latest row
  trans,    \* trans[p]: keys of p's transitions not yet flushed
  lock,     \* holders of notifications.lock, at most one
  flush,    \* flush[p]: where p's flush is
  beat,     \* beat[b]: where b's heartbeats are
  stored,   \* stored[e]: {} or {the signature recorded as told}
  kuma,     \* kuma[e]: "none", "up" or "down"
  faults,   \* failures so far
  fresh,    \* history: no alert of e changed since a lock holder read it
  owed      \* history: endpoints a flusher gave up on that its holder had left

ledger  == <<alerts, marked, trans>>
view    == <<stored, kuma>>
history == <<fresh, owed>>
vars    == <<ledger, lock, flush, beat, view, faults, history>>

Attempts == 3        \* sends per endpoint and flush

Idle == [pc |-> "idle", left |-> {}, at |-> {}, sig |-> {}, tries |-> 0]
Looking(left) == [pc |-> "next", left |-> left, at |-> {}, sig |-> {}, tries |-> 0]

Rest == [pc |-> "idle", left |-> {}, at |-> {}, sig |-> {}, seen |-> {}, bad |-> FALSE]
Beating(left, seen, bad) ==
  [pc |-> "send", left |-> left, at |-> {}, sig |-> {}, seen |-> seen, bad |-> bad]

KeysOf(e)  == {k \in Keys : EndpointOf[k] = e}

(* _endpoint_alert_snapshot: the (key, severity) pairs of the active rows. *)
Snapshot(e) == {<<k, alerts[k]>> : k \in {j \in KeysOf(e) : alerts[j] # "none"}}

(* Defect: the signature without alerts is never recognised.               *)
AlreadyTold_NotEmpty(e, sig) == stored[e] = {sig} /\ sig # {}

(* The stored signature went through JSON: its pairs come back as lists    *)
(* and never equal the tuples of a new one, so only the signature without  *)
(* pairs is recognised as already told.                                    *)
AlreadyTold(e, sig) == stored[e] = {sig} /\ sig = {}

Touched(p) == {EndpointOf[k] : k \in trans[p]}

Init ==
  /\ alerts = [k \in Keys |-> "none"]
  /\ marked = [k \in Keys |-> FALSE]
  /\ trans = [p \in Flushers |-> {}]
  /\ lock = {}
  /\ flush = [p \in Flushers |-> Idle]
  /\ beat = [b \in Beaters |-> Rest]
  /\ stored = [e \in Endpoints |-> {}]
  /\ kuma = [e \in Endpoints |-> "none"]
  /\ faults = 0
  /\ fresh = [e \in Endpoints |-> TRUE]
  /\ owed = {}

------------------------------------------------------------------------------
(* _persist_signals: one transaction per signal.                           *)

(* open_alert_transition: a new row or another severity is a transition.   *)
Raise(p, k, severity) ==
  /\ flush[p].pc = "idle" /\ alerts[k] # severity
  /\ alerts' = [alerts EXCEPT ![k] = severity]
  /\ marked' = [marked EXCEPT ![k] = @ /\ alerts[k] # "none"]
  /\ trans' = [trans EXCEPT ![p] = @ \cup {k}]
  /\ fresh' = [fresh EXCEPT ![EndpointOf[k]] = FALSE]
  /\ UNCHANGED <<lock, flush, beat, view, faults, owed>>

Recover(p, k) ==
  /\ flush[p].pc = "idle" /\ alerts[k] # "none"
  /\ alerts' = [alerts EXCEPT ![k] = "none"]
  /\ trans' = [trans EXCEPT ![p] = @ \cup {k}]
  /\ fresh' = [fresh EXCEPT ![EndpointOf[k]] = FALSE]
  /\ UNCHANGED <<marked, lock, flush, beat, view, faults, owed>>

------------------------------------------------------------------------------
(* _flush_transition_notifications.                                        *)

Acquire(p) ==
  /\ flush[p].pc = "idle" /\ trans[p] # {} /\ lock = {}
  /\ lock' = {p}
  /\ flush' = [flush EXCEPT ![p] = Looking(Touched(p))]
  /\ UNCHANGED <<ledger, beat, view, faults, history>>

(* The holder is certain to read e again before it lets go.                *)
Reconciles(h, e) ==
  /\ e \in flush[h].left
  /\ flush[h].pc = "decide" /\ e \in flush[h].at => ~AlreadyTold(e, flush[h].sig)

(* LockUnavailable: the wait for the lock ran out.                         *)
GiveUp(p) ==
  /\ flush[p].pc = "idle" /\ trans[p] # {} /\ lock # {}
  /\ trans' = [trans EXCEPT ![p] = {}]
  /\ owed' = owed \cup {e \in Touched(p) : ~fresh[e] /\ \A h \in lock : ~Reconciles(h, e)}
  /\ UNCHANGED <<alerts, marked, lock, flush, beat, view, faults, fresh>>

(* The first statement of an attempt reads the active rows.                *)
Look(p, e) ==
  /\ flush[p].pc = "next" /\ e \in flush[p].left
  /\ flush[p].at \in {{}, {e}}
  /\ flush' = [flush EXCEPT ![p].pc = "decide", ![p].at = {e},
                            ![p].sig = Snapshot(e), ![p].tries = @ + 1]
  /\ fresh' = [fresh EXCEPT ![e] = TRUE]
  /\ owed' = owed \ {e}
  /\ UNCHANGED <<ledger, lock, beat, view, faults>>

(* Leaving the attempts of one endpoint.                                   *)
Leave(p, e) == [flush EXCEPT ![p] = Looking(flush[p].left \ {e})]

Decide(p, e) ==
  /\ flush[p].pc = "decide" /\ e \in flush[p].at
  /\ flush' = IF AlreadyTold(e, flush[p].sig) THEN Leave(p, e)
              ELSE [flush EXCEPT ![p].pc = "send"]
  /\ UNCHANGED <<ledger, lock, beat, view, faults, history>>

Health(sig) == IF sig = {} THEN "up" ELSE "down"

SendDelivered(p, e) ==
  /\ flush[p].pc = "send" /\ e \in flush[p].at
  /\ kuma' = [kuma EXCEPT ![e] = Health(flush[p].sig)]
  /\ flush' = [flush EXCEPT ![p].pc = "store"]
  /\ UNCHANGED <<ledger, lock, beat, stored, faults, history>>

(* The push is lost, or it arrives and its reply is lost.                  *)
SendFails(p, e) ==
  /\ flush[p].pc = "send" /\ e \in flush[p].at /\ faults < MaxFaults
  /\ faults' = faults + 1
  /\ kuma' \in {kuma, [kuma EXCEPT ![e] = Health(flush[p].sig)]}
  /\ flush' = Leave(p, e)
  /\ UNCHANGED <<ledger, lock, beat, stored, history>>

Store(p, e) ==
  /\ flush[p].pc = "store" /\ e \in flush[p].at
  /\ stored' = [stored EXCEPT ![e] = {flush[p].sig}]
  /\ flush' = [flush EXCEPT ![p].pc = "mark"]
  /\ UNCHANGED <<ledger, lock, beat, kuma, faults, history>>

(* mark_alert_notification for p's own transitions on the endpoint.        *)
Mark(p, e) ==
  /\ flush[p].pc = "mark" /\ e \in flush[p].at
  /\ marked' = [k \in Keys |-> marked[k] \/ (k \in trans[p] /\ EndpointOf[k] = e)]
  /\ flush' = [flush EXCEPT ![p].pc = "recheck"]
  /\ UNCHANGED <<alerts, trans, lock, beat, view, faults, history>>

(* Defect: the alerts are not read again after a send.                     *)
Recheck_Never(p, e) ==
  /\ flush[p].pc = "recheck" /\ e \in flush[p].at
  /\ flush' = Leave(p, e)
  /\ UNCHANGED <<ledger, lock, beat, view, faults, history>>

(* Defect: one attempt too many.                                           *)
Recheck_OnceMore(p, e) ==
  /\ flush[p].pc = "recheck" /\ e \in flush[p].at
  /\ flush' = IF Snapshot(e) = flush[p].sig \/ flush[p].tries > Attempts THEN Leave(p, e)
              ELSE [flush EXCEPT ![p].pc = "next", ![p].sig = {}]
  /\ UNCHANGED <<ledger, lock, beat, view, faults, history>>

(* The holder reconciles state after each send, three times at most.       *)
Recheck(p, e) ==
  /\ flush[p].pc = "recheck" /\ e \in flush[p].at
  /\ LET same == Snapshot(e) = flush[p].sig
         last == flush[p].tries = Attempts
     IN  /\ flush' = IF same \/ last THEN Leave(p, e)
                     ELSE [flush EXCEPT ![p].pc = "next", ![p].sig = {}]
         /\ owed' = IF ~same /\ last THEN owed \cup {e} ELSE owed
  /\ fresh' = [fresh EXCEPT ![e] = TRUE]
  /\ UNCHANGED <<ledger, lock, beat, view, faults>>

Release(p) ==
  /\ flush[p].pc = "next" /\ flush[p].left = {}
  /\ flush' = [flush EXCEPT ![p] = Idle]
  /\ trans' = [trans EXCEPT ![p] = {}]
  /\ lock' = {}
  /\ UNCHANGED <<alerts, marked, beat, view, faults, history>>

(* A worker past its deadline is killed; the kernel frees its lock.        *)
Kill(p) ==
  /\ flush[p].pc # "idle" \/ trans[p] # {}
  /\ faults < MaxFaults /\ faults' = faults + 1
  /\ flush' = [flush EXCEPT ![p] = Idle]
  /\ trans' = [trans EXCEPT ![p] = {}]
  /\ lock' = lock \ {p}
  /\ UNCHANGED <<alerts, marked, beat, view, history>>

------------------------------------------------------------------------------
(* The heartbeats of one collection command.                               *)

(* One read of the active alerts serves every category; a failed collector *)
(* makes all of them unhealthy.                                            *)
BeatRead(b, bad) ==
  /\ beat[b].pc = "idle"
  /\ bad => faults < MaxFaults
  /\ faults' = IF bad THEN faults + 1 ELSE faults
  /\ beat' = [beat EXCEPT ![b] =
       Beating(BeatsOf[b], {e \in Endpoints : Snapshot(e) # {}}, bad)]
  /\ UNCHANGED <<ledger, lock, flush, view, history>>

(* Defect: the heartbeat forgets the alerts.                               *)
BeatHealth_CollectorOnly(b, e) == IF beat[b].bad THEN "down" ELSE "up"

BeatHealth(b, e) ==
  IF ~beat[b].bad /\ (e \notin beat[b].seen \/ e \in AlwaysUp) THEN "up" ELSE "down"

BeatSend(b, e) ==
  /\ beat[b].pc = "send" /\ e \in beat[b].left
  /\ kuma' = [kuma EXCEPT ![e] = BeatHealth(b, e)]
  /\ beat' = [beat EXCEPT ![b].pc = "snapshot", ![b].at = {e}]
  /\ UNCHANGED <<ledger, lock, flush, stored, faults, history>>

BeatFails(b, e) ==
  /\ beat[b].pc = "send" /\ e \in beat[b].left /\ faults < MaxFaults
  /\ faults' = faults + 1
  /\ kuma' \in {kuma, [kuma EXCEPT ![e] = BeatHealth(b, e)]}
  /\ beat' = [beat EXCEPT ![b].left = @ \ {e}]
  /\ UNCHANGED <<ledger, lock, flush, stored, history>>

(* After a delivered push the rows are read again, and then stored.        *)
BeatSnapshot(b, e) ==
  /\ beat[b].pc = "snapshot" /\ e \in beat[b].at
  /\ beat' = [beat EXCEPT ![b].pc = "store", ![b].sig = Snapshot(e)]
  /\ UNCHANGED <<ledger, lock, flush, view, faults, history>>

BeatStore(b, e) ==
  /\ beat[b].pc = "store" /\ e \in beat[b].at
  /\ stored' = [stored EXCEPT ![e] = {beat[b].sig}]
  /\ beat' = [beat EXCEPT ![b].pc = "send", ![b].at = {}, ![b].sig = {},
                          ![b].left = @ \ {e}]
  /\ UNCHANGED <<ledger, lock, flush, kuma, faults, history>>

BeatEnd(b) ==
  /\ beat[b].pc = "send" /\ beat[b].left = {}
  /\ beat' = [beat EXCEPT ![b] = Rest]
  /\ UNCHANGED <<ledger, lock, flush, view, faults, history>>

Flush(p) ==
  \/ Acquire(p) \/ GiveUp(p) \/ Release(p)
  \/ \E e \in Endpoints : \/ Look(p, e) \/ Decide(p, e)
                          \/ SendDelivered(p, e) \/ SendFails(p, e)
                          \/ Store(p, e) \/ Mark(p, e) \/ Recheck(p, e)

Beat(b) ==
  \/ \E bad \in BOOLEAN : BeatRead(b, bad)
  \/ \E e \in Endpoints : \/ BeatSend(b, e) \/ BeatFails(b, e)
                          \/ BeatSnapshot(b, e) \/ BeatStore(b, e)
  \/ BeatEnd(b)

Next ==
  \/ \E p \in Flushers : \/ \E k \in Keys : \/ Recover(p, k)
                                            \/ \E s \in Raised : Raise(p, k, s)
                         \/ Flush(p) \/ Kill(p)
  \/ \E b \in Beaters : Beat(b)

(* A flush in progress and the timers of the collections go on.            *)
Fairness ==
  /\ \A p \in Flushers : WF_vars(Flush(p))
  /\ \A b \in Beaters : WF_vars(Beat(b))

Spec     == Init /\ [][Next]_vars
FairSpec == Spec /\ Fairness

------------------------------------------------------------------------------
(* Properties.                                                             *)

Signatures == SUBSET (Keys \X Severities)

FlushRecords == [pc : {"idle", "next", "decide", "send", "store", "mark", "recheck"},
                 left : SUBSET Endpoints, at : SUBSET Endpoints,
                 sig : Signatures, tries : 0..Attempts]
BeatRecords  == [pc : {"idle", "send", "snapshot", "store"},
                 left : SUBSET Endpoints, at : SUBSET Endpoints,
                 sig : Signatures, seen : SUBSET Endpoints, bad : BOOLEAN]

TypeOK ==
  /\ alerts \in [Keys -> Levels]
  /\ marked \in [Keys -> BOOLEAN]
  /\ trans \in [Flushers -> SUBSET Keys]
  /\ lock \subseteq Flushers
  /\ flush \in [Flushers -> FlushRecords]
  /\ beat \in [Beaters -> BeatRecords]
  /\ stored \in [Endpoints -> {{}} \cup {{sig} : sig \in Signatures}]
  /\ kuma \in [Endpoints -> {"none", "up", "down"}]
  /\ faults \in 0..MaxFaults
  /\ fresh \in [Endpoints -> BOOLEAN]
  /\ owed \subseteq Endpoints

(* Nobody is persisting, flushing or sending heartbeats.                   *)
Quiet == /\ \A p \in Flushers : flush[p] = Idle /\ trans[p] = {}
         /\ \A b \in Beaters : beat[b] = Rest

Misled(e) == (kuma[e] = "down") # (Snapshot(e) # {})

(* "The holder reconciles state after each send": once every flush is over *)
(* Kuma says of every endpoint what the alerts table says, although        *)
(* flushers that found the lock busy never sent anything, unless the       *)
(* holder had already read that endpoint for the last time.                *)
HolderReconciles == Quiet /\ faults = 0 => \A e \in Endpoints \ owed : ~Misled(e)

(* A flush reports a recovery once: it pushes UP only to a Kuma that was   *)
(* told DOWN or nothing, however many flushers saw the recovery.           *)
RecoveryToldOnce ==
  [][\A p \in Flushers, e \in Endpoints :
       faults = 0 /\ SendDelivered(p, e) /\ flush[p].sig = {} => kuma[e] # "up"]_vars

(* The documented outcome of reconciliation: no DOWN outlasts a recovery   *)
(* once every process has finished.                                        *)
NoDownAfterRecovery ==
  Quiet /\ faults = 0 => \A e \in Endpoints \ owed : kuma[e] = "down" => Snapshot(e) # {}

(* Heartbeats repair whatever flushes lost: an endpoint that has a         *)
(* heartbeat and whose alerts stay raised is eventually DOWN for good, and *)
(* one whose alerts stay closed eventually is not.                         *)
Beaten == UNION {BeatsOf[b] : b \in Beaters} \ AlwaysUp
HeartbeatRepairs ==
  \A e \in Beaten :
    /\ <>[](Snapshot(e) # {}) => <>[](kuma[e] = "down")
    /\ <>[](Snapshot(e) = {}) => <>[](kuma[e] # "down")

==============================================================================
