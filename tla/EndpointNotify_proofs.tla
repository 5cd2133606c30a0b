------------------------ MODULE EndpointNotify_proofs ------------------------
(***************************************************************************)
(* Theorems about EndpointNotify for every set of flushers, keys and       *)
(* endpoints: its types, and, where no heartbeat interferes, what the lock *)
(* and the reading after each push achieve.                                *)
(***************************************************************************)
EXTENDS EndpointNotify, TLAPS

(* Where a flush is: the one that runs holds the lock, works on one        *)
(* endpoint at a time, and has an attempt left when it looks again.        *)
LockInv ==
  /\ \A p \in Flushers : flush[p].pc # "idle" <=> p \in lock
  /\ \A p \in Flushers : flush[p].pc = "idle" => flush[p] = Idle
  /\ \A p, q \in lock : p = q

AtInv ==
  \A p \in Flushers :
    /\ flush[p].at \subseteq flush[p].left
    /\ \A e, f \in flush[p].at : e = f
    /\ flush[p].pc = "next" => flush[p].tries < Attempts

(* A flusher that was not yet at the lock will take e up, or give up on it. *)
Pending(e) == \E p \in Flushers : flush[p].pc = "idle" /\ e \in Touched(p)

Reconciled(e) == \E h \in lock : Reconciles(h, e)

(* What was pushed last, and what is stored of it, except in between.      *)
PushInv ==
  \A p \in Flushers : \A e \in flush[p].at :
    /\ flush[p].pc \in {"store", "mark", "recheck"} => kuma[e] = Health(flush[p].sig)
    /\ flush[p].pc = "send" /\ flush[p].sig = {} => stored[e] # {{}}

Between(e) == \E p \in Flushers : flush[p].pc = "store" /\ e \in flush[p].at

ToldInv ==
  \A e \in Endpoints : ~Between(e) => (stored[e] = {{}} <=> kuma[e] = "up")

(* A change nobody has read is still owed to somebody's push; where nothing *)
(* is unread, Kuma is right or will be put right by the holder.            *)
ReadInv ==
  \A e \in Endpoints \ owed :
    /\ ~fresh[e] => Pending(e) \/ Reconciled(e)
    /\ fresh[e] /\ ~Reconciled(e) => ~Misled(e)

PlaceInv == TypeOK /\ LockInv /\ AtInv
FlushInv == faults = 0 => PushInv /\ ToldInv /\ ReadInv

------------------------------------------------------------------------------
(* Helpers.                                                                *)

(* A snapshot is a signature.                                              *)
LEMMA SnapshotType ==
  ASSUME TypeOK, NEW e \in Endpoints
  PROVE  Snapshot(e) \in Signatures
BY DEF TypeOK, Snapshot, Signatures, KeysOf, Levels, Severities

(* The endpoints of a flusher's transitions are endpoints.                 *)
LEMMA TouchedType ==
  ASSUME TypeOK, NEW p \in Flushers
  PROVE  Touched(p) \subseteq Endpoints
BY EndpointAssumption DEF TypeOK, Touched

(* Looking for the next endpoint is a legal place of a flush.              *)
LEMMA LookingType ==
  ASSUME NEW left \in SUBSET Endpoints
  PROVE  Looking(left) \in FlushRecords
<1>1. {} \in Signatures
  BY DEF Signatures
<1>2. QED
  BY <1>1 DEF Looking, FlushRecords, Attempts

(* Leaving an endpoint is a legal place of a flush.                        *)
LEMMA LeaveType ==
  ASSUME TypeOK, NEW p \in Flushers, NEW e \in Endpoints
  PROVE  /\ Leave(p, e) \in [Flushers -> FlushRecords]
         /\ Leave(p, e) = [flush EXCEPT ![p] = Looking(flush[p].left \ {e})]
<1>1. flush[p] \in FlushRecords
  BY DEF TypeOK
<1>2. flush[p].left \ {e} \in SUBSET Endpoints
  BY <1>1 DEF FlushRecords
<1>3. Looking(flush[p].left \ {e}) \in FlushRecords
  BY <1>2, LookingType
<1>4. QED
  BY <1>3 DEF TypeOK, Leave

------------------------------------------------------------------------------
(* Types and places.                                                       *)

(* At first every process is at rest.                                      *)
LEMMA PlaceInit == Init => PlaceInv
<1>1. ASSUME Init
      PROVE  TypeOK
  <2>1. Idle \in FlushRecords /\ Rest \in BeatRecords
    BY DEF Idle, Rest, FlushRecords, BeatRecords, Signatures, Attempts
  <2>2. QED
    BY <1>1, <2>1, FaultAssumption DEF Init, TypeOK, Levels
<1>2. ASSUME Init
      PROVE  LockInv /\ AtInv
  BY <1>2 DEF Init, LockInv, AtInv, Idle, Attempts
<1>3. QED
  BY <1>1, <1>2 DEF PlaceInv

(* What raising or recovering an alert leaves behind.                      *)
LEMMA PersistPlace ==
  ASSUME PlaceInv, NEW p \in Flushers, NEW k \in Keys,
         Recover(p, k) \/ \E s \in Raised : Raise(p, k, s)
  PROVE  PlaceInv'
<1>1. UNCHANGED <<lock, flush, beat, view, faults, owed>>
  BY DEF Recover, Raise
<1>2. TypeOK'
  <2> USE DEF PlaceInv
  <2>1. alerts' \in [Keys -> Levels]
    BY ScopeAssumption DEF TypeOK, Recover, Raise, Levels
  <2>2. marked' \in [Keys -> BOOLEAN]
    <3>1. (marked[k] /\ alerts[k] # "none") \in BOOLEAN
      OBVIOUS
    <3>2. QED
      BY <3>1 DEF TypeOK, Recover, Raise
  <2>3. trans' \in [Flushers -> SUBSET Keys] /\ fresh' \in [Endpoints -> BOOLEAN]
    <3>1. trans' = [trans EXCEPT ![p] = @ \cup {k}]
      BY DEF Recover, Raise
    <3>2. fresh' = [fresh EXCEPT ![EndpointOf[k]] = FALSE]
      BY DEF Recover, Raise
    <3>3. QED
      BY <3>1, <3>2 DEF TypeOK
  <2>4. QED
    BY <1>1, <2>1, <2>2, <2>3 DEF TypeOK, view
<1>3. LockInv' /\ AtInv'
  BY <1>1 DEF PlaceInv, LockInv, AtInv
<1>4. QED
  BY <1>2, <1>3 DEF PlaceInv

(* A flush that goes on keeps the lock and its place.                      *)
LEMMA MovePlace ==
  ASSUME LockInv, AtInv, NEW p \in Flushers, NEW q \in FlushRecords,
         flush \in [Flushers -> FlushRecords],
         flush' = [flush EXCEPT ![p] = q], lock' = lock,
         flush[p].pc # "idle", q.pc # "idle",
         q.at \subseteq q.left, \A e, f \in q.at : e = f,
         q.pc = "next" => q.tries < Attempts
  PROVE  LockInv' /\ AtInv' /\ flush' \in [Flushers -> FlushRecords]
<1>1. \A r \in Flushers : flush'[r] = IF r = p THEN q ELSE flush[r]
  OBVIOUS
<1>2. LockInv'
  BY <1>1 DEF LockInv
<1>3. AtInv'
  BY <1>1 DEF AtInv
<1>4. QED
  BY <1>2, <1>3

(* Who is past the lock is alone there.                                    *)
LEMMA Sole ==
  ASSUME PlaceInv, NEW p \in Flushers, flush[p].pc # "idle"
  PROVE  lock = {p} /\ \A r \in Flushers : r # p => flush[r] = Idle
<1>1. p \in lock /\ lock \subseteq Flushers
  BY DEF PlaceInv, LockInv, TypeOK
<1>2. lock = {p}
  BY <1>1 DEF PlaceInv, LockInv
<1>3. QED
  BY <1>2 DEF PlaceInv, LockInv

(* What a step of the holder leaves as it was.                             *)
LEMMA Holding ==
  ASSUME PlaceInv, NEW p \in Flushers, NEW q \in FlushRecords,
         flush[p].pc # "idle", q.pc # "idle",
         flush' = [flush EXCEPT ![p] = q], UNCHANGED <<alerts, trans, lock>>
  PROVE  /\ flush'[p] = q /\ lock = {p} /\ lock' = {p}
         /\ \A r \in Flushers : r # p => flush[r] = Idle /\ flush'[r] = Idle
         /\ \A e \in Endpoints :
              /\ Reconciled(e) <=> Reconciles(p, e)
              /\ Reconciled(e)' <=> Reconciles(p, e)'
              /\ Pending(e)' <=> Pending(e)
              /\ Between(e) <=> flush[p].pc = "store" /\ e \in flush[p].at
              /\ Between(e)' <=> q.pc = "store" /\ e \in q.at
              /\ Snapshot(e)' = Snapshot(e)
<1>1. lock = {p} /\ \A r \in Flushers : r # p => flush[r] = Idle
  BY Sole
<1>2. \A r \in Flushers : flush'[r] = IF r = p THEN q ELSE flush[r]
  BY DEF PlaceInv, TypeOK
<1>3. \A r \in Flushers : r # p => flush'[r] = Idle
  BY <1>1, <1>2
<1>4. ASSUME NEW e \in Endpoints
      PROVE  /\ Reconciled(e) <=> Reconciles(p, e)
             /\ Reconciled(e)' <=> Reconciles(p, e)'
  BY <1>1 DEF Reconciled
<1>5. ASSUME NEW e \in Endpoints
      PROVE  Pending(e)' <=> Pending(e)
  <2>1. Touched(p)' = Touched(p) /\ \A r \in Flushers : Touched(r)' = Touched(r)
    BY DEF Touched
  <2>2. QED
    BY <1>1, <1>2, <2>1 DEF Pending
<1>6. ASSUME NEW e \in Endpoints
      PROVE  /\ Between(e) <=> flush[p].pc = "store" /\ e \in flush[p].at
             /\ Between(e)' <=> q.pc = "store" /\ e \in q.at
  BY <1>1, <1>2, <1>3 DEF Between, Idle
<1>7. ASSUME NEW e \in Endpoints
      PROVE  Snapshot(e)' = Snapshot(e)
  BY DEF Snapshot, KeysOf
<1>8. QED
  BY <1>1, <1>2, <1>3, <1>4, <1>5, <1>6, <1>7

(* A step that changes the place only.                                     *)
LEMMA PcStep ==
  ASSUME PlaceInv, NEW p \in Flushers,
         NEW x \in {"send", "store", "mark", "recheck"},
         flush' = [flush EXCEPT ![p].pc = x]
  PROVE  \E q \in FlushRecords :
           /\ flush' = [flush EXCEPT ![p] = q]
           /\ q.pc = x /\ q.left = flush[p].left /\ q.at = flush[p].at
           /\ q.sig = flush[p].sig
<1> DEFINE q == [flush[p] EXCEPT !.pc = x]
<1>1. flush[p] \in FlushRecords
  BY DEF PlaceInv, TypeOK
<1>2. q \in FlushRecords
  BY <1>1 DEF FlushRecords
<1>3. QED
  BY <1>1, <1>2 DEF FlushRecords

(* Looking at an endpoint takes one of the attempts.                       *)
LEMMA LookStep ==
  ASSUME PlaceInv, NEW p \in Flushers, NEW e \in Endpoints, Look(p, e)
  PROVE  \E q \in FlushRecords :
           /\ flush' = [flush EXCEPT ![p] = q]
           /\ q.pc = "decide" /\ q.left = flush[p].left /\ q.at = {e}
           /\ q.sig = Snapshot(e)
<1> DEFINE q == [flush[p] EXCEPT !.pc = "decide", !.at = {e}, !.sig = Snapshot(e), !.tries = @ + 1]
<1>1. flush[p] \in FlushRecords /\ flush[p].pc = "next" /\ flush[p].tries < Attempts
  BY DEF PlaceInv, TypeOK, AtInv, Look
<1>2. flush' = [flush EXCEPT ![p] = q]
  BY DEF Look
<1>3. Snapshot(e) \in Signatures /\ flush[p].tries + 1 \in 0..Attempts
  BY <1>1, SnapshotType DEF FlushRecords, Attempts, PlaceInv
<1>4. q \in FlushRecords
  BY <1>1, <1>3 DEF FlushRecords
<1>5. QED
  BY <1>1, <1>2, <1>4 DEF FlushRecords

------------------------------------------------------------------------------
(* The steps of the holder, one by one.                                    *)

(* Looking makes the endpoint read; it is put right next, or it is right.  *)
LEMMA LookKeeps ==
  ASSUME PlaceInv, NEW p \in Flushers, NEW e \in Endpoints, Look(p, e)
  PROVE  PlaceInv' /\ (FlushInv => FlushInv')
<1>1. PICK q \in FlushRecords :
        /\ flush' = [flush EXCEPT ![p] = q]
        /\ q.pc = "decide" /\ q.left = flush[p].left /\ q.at = {e}
        /\ q.sig = Snapshot(e)
  BY LookStep
<1>2. /\ flush[p].pc = "next" /\ e \in flush[p].left
      /\ fresh' = [fresh EXCEPT ![e] = TRUE] /\ owed' = owed \ {e}
      /\ UNCHANGED <<alerts, marked, trans, lock, beat, stored, kuma, faults>>
  BY DEF Look, ledger, view
<1>3. PlaceInv'
  <2>1. LockInv' /\ AtInv' /\ flush' \in [Flushers -> FlushRecords]
    BY <1>1, <1>2, MovePlace DEF PlaceInv, TypeOK
  <2>2. TypeOK'
    BY <1>2, <2>1 DEF PlaceInv, TypeOK
  <2>3. QED
    BY <2>1, <2>2 DEF PlaceInv
<1>4. ASSUME faults = 0, PushInv, ToldInv, ReadInv
      PROVE  PushInv' /\ ToldInv' /\ ReadInv'
  <2>1. /\ flush'[p] = q
        /\ \A r \in Flushers : r # p => flush'[r] = Idle
        /\ \A f \in Endpoints :
             /\ Reconciled(f) <=> Reconciles(p, f)
             /\ Reconciled(f)' <=> Reconciles(p, f)'
             /\ Pending(f)' <=> Pending(f)
             /\ ~Between(f) /\ ~Between(f)'
             /\ Snapshot(f)' = Snapshot(f)
    BY <1>1, <1>2, Holding
  <2>2. PushInv'
    BY <1>1, <2>1 DEF PushInv, Idle
  <2>3. ToldInv'
    BY <1>2, <1>4, <2>1 DEF ToldInv
  <2>4. ReadInv'
    <3> SUFFICES ASSUME NEW f \in Endpoints, f \notin owed'
                 PROVE  /\ ~fresh'[f] => Pending(f)' \/ Reconciled(f)'
                        /\ fresh'[f] /\ ~Reconciled(f)' => ~Misled(f)'
      BY DEF ReadInv
    <3>1. CASE f = e
      <4>1. fresh'[f]
        BY <1>2, <3>1 DEF PlaceInv, TypeOK
      <4>2. Reconciles(p, f)' <=> ~(stored[f] = {Snapshot(f)} /\ Snapshot(f) = {})
        BY <1>1, <1>2, <2>1, <3>1 DEF Reconciles, AlreadyTold
      <4>3. stored[f] = {{}} => kuma[f] = "up"
        BY <1>4, <2>1 DEF ToldInv
      <4>4. ~Reconciled(f)' => ~Misled(f)'
        BY <1>2, <2>1, <4>2, <4>3 DEF Misled
      <4>5. QED
        BY <4>1, <4>4
    <3>2. CASE f # e
      <4>1. fresh'[f] = fresh[f] /\ f \notin owed
        BY <1>2, <3>2 DEF PlaceInv, TypeOK
      <4>2. Reconciled(f)' <=> Reconciled(f)
        BY <1>1, <1>2, <2>1, <3>2 DEF Reconciles
      <4>3. Misled(f)' <=> Misled(f)
        BY <1>2, <2>1 DEF Misled
      <4>4. QED
        BY <1>4, <2>1, <4>1, <4>2, <4>3 DEF ReadInv
    <3>3. QED
      BY <3>1, <3>2
  <2>5. QED
    BY <2>2, <2>3, <2>4
<1>5. QED
  BY <1>2, <1>3, <1>4 DEF FlushInv

(* Deciding that Kuma was told leaves only an endpoint that is right.       *)
LEMMA DecideKeeps ==
  ASSUME PlaceInv, NEW p \in Flushers, NEW e \in Endpoints, Decide(p, e)
  PROVE  PlaceInv' /\ (FlushInv => FlushInv')
<1>1. /\ flush[p].pc = "decide" /\ e \in flush[p].at
      /\ UNCHANGED <<alerts, marked, trans, lock, beat, stored, kuma, faults, fresh, owed>>
  BY DEF Decide, ledger, view, history
<1>2. /\ flush[p].at \subseteq flush[p].left /\ \A f, g \in flush[p].at : f = g
      /\ flush[p] \in FlushRecords
  BY DEF PlaceInv, AtInv, TypeOK
<1>3. PICK q \in FlushRecords :
        /\ flush' = [flush EXCEPT ![p] = q]
        /\ \/ /\ AlreadyTold(e, flush[p].sig)
              /\ q = Looking(flush[p].left \ {e})
           \/ /\ ~AlreadyTold(e, flush[p].sig)
              /\ q.pc = "send" /\ q.left = flush[p].left /\ q.at = flush[p].at
              /\ q.sig = flush[p].sig
  <2>1. CASE AlreadyTold(e, flush[p].sig)
    <3>1. flush' = [flush EXCEPT ![p] = Looking(flush[p].left \ {e})]
      BY <2>1, LeaveType DEF Decide, PlaceInv
    <3>2. flush[p].left \ {e} \in SUBSET Endpoints
      BY <1>2 DEF FlushRecords
    <3>3. QED
      BY <2>1, <3>1, <3>2, LookingType
  <2>2. CASE ~AlreadyTold(e, flush[p].sig)
    <3>1. flush' = [flush EXCEPT ![p].pc = "send"]
      BY <2>2 DEF Decide
    <3>2. QED
      BY <2>2, <3>1, PcStep
  <2>3. QED
    BY <2>1, <2>2
<1>4. q.pc # "idle" /\ q.pc # "store" /\ q.at \subseteq q.left
      /\ (\A f, g \in q.at : f = g) /\ (q.pc = "next" => q.tries < Attempts)
  BY <1>2, <1>3 DEF Looking, Attempts
<1>5. PlaceInv'
  <2>1. LockInv' /\ AtInv' /\ flush' \in [Flushers -> FlushRecords]
    BY <1>1, <1>3, <1>4, MovePlace DEF PlaceInv, TypeOK
  <2>2. TypeOK'
    BY <1>1, <2>1 DEF PlaceInv, TypeOK
  <2>3. QED
    BY <2>1, <2>2 DEF PlaceInv
<1>6. ASSUME faults = 0, PushInv, ToldInv, ReadInv
      PROVE  PushInv' /\ ToldInv' /\ ReadInv'
  <2>1. /\ flush'[p] = q
        /\ \A r \in Flushers : r # p => flush'[r] = Idle
        /\ \A f \in Endpoints :
             /\ Reconciled(f) <=> Reconciles(p, f)
             /\ Reconciled(f)' <=> Reconciles(p, f)'
             /\ Pending(f)' <=> Pending(f)
             /\ ~Between(f) /\ ~Between(f)'
             /\ Snapshot(f)' = Snapshot(f)
    BY <1>1, <1>3, <1>4, Holding
  <2>2. PushInv'
    <3>1. ASSUME NEW f \in q.at, q.sig = {}
          PROVE  stored[f] # {{}}
      <4>1. /\ f = e /\ flush[p].sig = {}
            /\ ~AlreadyTold(e, flush[p].sig)
        BY <1>1, <1>2, <1>3, <3>1 DEF Looking
      <4>2. QED
        BY <4>1 DEF AlreadyTold
    <3>2. \A f \in q.at : q.pc = "send"
      BY <1>3 DEF Looking
    <3>3. QED
      BY <1>1, <2>1, <3>1, <3>2 DEF PushInv, Idle
  <2>3. ToldInv'
    BY <1>1, <1>6, <2>1 DEF ToldInv
  <2>4. ReadInv'
    <3>1. ASSUME NEW f \in Endpoints
          PROVE  /\ Reconciled(f)' <=> Reconciled(f)
                 /\ Misled(f)' <=> Misled(f)
      <4>1. Reconciles(p, f) <=> f \in flush[p].left /\ (f = e => ~AlreadyTold(e, flush[p].sig))
        BY <1>1, <1>2 DEF Reconciles
      <4>2. Reconciles(p, f)' <=> f \in q.left
        BY <1>3, <2>1 DEF Reconciles, Looking
      <4>3. f \in q.left <=> f \in flush[p].left /\ (f = e => ~AlreadyTold(e, flush[p].sig))
        BY <1>1, <1>2, <1>3 DEF Looking
      <4>4. QED
        BY <1>1, <2>1, <4>1, <4>2, <4>3 DEF Misled
    <3>2. QED
      BY <1>1, <1>6, <2>1, <3>1 DEF ReadInv
  <2>5. QED
    BY <2>2, <2>3, <2>4
<1>7. QED
  BY <1>1, <1>5, <1>6 DEF FlushInv

(* A push that arrives tells Kuma what was read.                           *)
LEMMA SendDeliveredKeeps ==
  ASSUME PlaceInv, NEW p \in Flushers, NEW e \in Endpoints, SendDelivered(p, e)
  PROVE  PlaceInv' /\ (FlushInv => FlushInv')
<1>1. /\ flush[p].pc = "send" /\ e \in flush[p].at
      /\ kuma' = [kuma EXCEPT ![e] = Health(flush[p].sig)]
      /\ UNCHANGED <<alerts, marked, trans, lock, beat, stored, faults, fresh, owed>>
  BY DEF SendDelivered, ledger, history
<1>2. /\ flush[p].at \subseteq flush[p].left /\ \A f, g \in flush[p].at : f = g
      /\ flush[p] \in FlushRecords
  BY DEF PlaceInv, AtInv, TypeOK
<1>3. PICK q \in FlushRecords :
        /\ flush' = [flush EXCEPT ![p] = q]
        /\ q.pc = "store" /\ q.left = flush[p].left /\ q.at = flush[p].at
        /\ q.sig = flush[p].sig
  BY PcStep DEF SendDelivered
<1>4. PlaceInv'
  <2>1. LockInv' /\ AtInv' /\ flush' \in [Flushers -> FlushRecords]
    BY <1>1, <1>2, <1>3, MovePlace DEF PlaceInv, TypeOK
  <2>2. Health(flush[p].sig) \in {"none", "up", "down"}
    BY DEF Health
  <2>3. kuma' \in [Endpoints -> {"none", "up", "down"}]
    BY <1>1, <2>2 DEF PlaceInv, TypeOK
  <2>4. TypeOK'
    BY <1>1, <2>1, <2>3 DEF PlaceInv, TypeOK
  <2>5. QED
    BY <2>1, <2>4 DEF PlaceInv
<1>5. ASSUME faults = 0, PushInv, ToldInv, ReadInv
      PROVE  PushInv' /\ ToldInv' /\ ReadInv'
  <2>1. /\ flush'[p] = q
        /\ \A r \in Flushers : r # p => flush'[r] = Idle
        /\ \A f \in Endpoints :
             /\ Reconciled(f) <=> Reconciles(p, f)
             /\ Reconciled(f)' <=> Reconciles(p, f)'
             /\ Pending(f)' <=> Pending(f)
             /\ ~Between(f) /\ (Between(f)' <=> f \in q.at)
             /\ Snapshot(f)' = Snapshot(f)
    BY <1>1, <1>3, Holding
  <2>2. /\ kuma'[e] = Health(q.sig)
        /\ \A f \in Endpoints : f # e => kuma'[f] = kuma[f]
    BY <1>1, <1>3 DEF PlaceInv, TypeOK
  <2>3. PushInv'
    <3>1. \A f \in q.at : kuma'[f] = Health(q.sig)
      BY <1>1, <1>2, <1>3, <2>2
    <3>2. QED
      BY <1>3, <2>1, <3>1 DEF PushInv, Idle
  <2>4. ToldInv'
    BY <1>1, <1>3, <1>5, <2>1, <2>2 DEF ToldInv
  <2>5. ReadInv'
    <3>1. ASSUME NEW f \in Endpoints
          PROVE  /\ Reconciled(f)' <=> Reconciled(f)
                 /\ ~Reconciled(f) => (Misled(f)' <=> Misled(f))
      <4>1. Reconciles(p, f) <=> f \in flush[p].left
        BY <1>1 DEF Reconciles
      <4>2. Reconciles(p, f)' <=> f \in flush[p].left
        BY <1>3, <2>1 DEF Reconciles
      <4>3. f # e => (Misled(f)' <=> Misled(f))
        BY <2>1, <2>2 DEF Misled
      <4>4. QED
        BY <1>1, <1>2, <2>1, <4>1, <4>2, <4>3
    <3>2. QED
      BY <1>1, <1>5, <2>1, <3>1 DEF ReadInv
  <2>6. QED
    BY <2>3, <2>4, <2>5
<1>6. QED
  BY <1>1, <1>4, <1>5 DEF FlushInv

(* Storing the signature catches up with the push.                         *)
LEMMA StoreKeeps ==
  ASSUME PlaceInv, NEW p \in Flushers, NEW e \in Endpoints, Store(p, e)
  PROVE  PlaceInv' /\ (FlushInv => FlushInv')
<1>1. /\ flush[p].pc = "store" /\ e \in flush[p].at
      /\ stored' = [stored EXCEPT ![e] = {flush[p].sig}]
      /\ UNCHANGED <<alerts, marked, trans, lock, beat, kuma, faults, fresh, owed>>
  BY DEF Store, ledger, history
<1>2. /\ flush[p].at \subseteq flush[p].left /\ \A f, g \in flush[p].at : f = g
      /\ flush[p] \in FlushRecords
  BY DEF PlaceInv, AtInv, TypeOK
<1>3. PICK q \in FlushRecords :
        /\ flush' = [flush EXCEPT ![p] = q]
        /\ q.pc = "mark" /\ q.left = flush[p].left /\ q.at = flush[p].at
        /\ q.sig = flush[p].sig
  BY PcStep DEF Store
<1>4. PlaceInv'
  <2>1. LockInv' /\ AtInv' /\ flush' \in [Flushers -> FlushRecords]
    BY <1>1, <1>2, <1>3, MovePlace DEF PlaceInv, TypeOK
  <2>2. flush[p].sig \in Signatures
    BY <1>2 DEF FlushRecords
  <2>3. {flush[p].sig} \in {{}} \cup {{sig} : sig \in Signatures}
    BY <2>2
  <2>4. stored' \in [Endpoints -> {{}} \cup {{sig} : sig \in Signatures}]
    BY <1>1, <2>3 DEF PlaceInv, TypeOK
  <2>5. TypeOK'
    BY <1>1, <2>1, <2>4 DEF PlaceInv, TypeOK
  <2>6. QED
    BY <2>1, <2>5 DEF PlaceInv
<1>5. ASSUME faults = 0, PushInv, ToldInv, ReadInv
      PROVE  PushInv' /\ ToldInv' /\ ReadInv'
  <2>1. /\ flush'[p] = q
        /\ \A r \in Flushers : r # p => flush'[r] = Idle
        /\ \A f \in Endpoints :
             /\ Reconciled(f) <=> Reconciles(p, f)
             /\ Reconciled(f)' <=> Reconciles(p, f)'
             /\ Pending(f)' <=> Pending(f)
             /\ (Between(f) <=> f \in flush[p].at) /\ ~Between(f)'
             /\ Snapshot(f)' = Snapshot(f)
    BY <1>1, <1>3, Holding
  <2>2. /\ stored'[e] = {flush[p].sig}
        /\ \A f \in Endpoints : f # e => stored'[f] = stored[f]
    BY <1>1 DEF PlaceInv, TypeOK
  <2>3. kuma[e] = Health(flush[p].sig)
    BY <1>1, <1>5 DEF PushInv
  <2>4. PushInv'
    <3>1. \A f \in q.at : kuma'[f] = Health(q.sig)
      BY <1>1, <1>2, <1>3, <2>3
    <3>2. QED
      BY <1>3, <2>1, <3>1 DEF PushInv, Idle
  <2>5. ToldInv'
    <3>1. stored'[e] = {{}} <=> kuma'[e] = "up"
      <4>1. flush[p].sig = {} <=> Health(flush[p].sig) = "up"
        BY DEF Health
      <4>2. {flush[p].sig} = {{}} <=> flush[p].sig = {}
        OBVIOUS
      <4>3. QED
        BY <1>1, <2>2, <2>3, <4>1, <4>2
    <3>2. ASSUME NEW f \in Endpoints, f # e
          PROVE  stored'[f] = {{}} <=> kuma'[f] = "up"
      <4>1. ~Between(f)
        BY <1>1, <1>2, <2>1, <3>2
      <4>2. QED
        BY <1>1, <1>5, <2>2, <3>2, <4>1 DEF ToldInv
    <3>3. QED
      BY <3>1, <3>2 DEF ToldInv
  <2>6. ReadInv'
    <3>1. ASSUME NEW f \in Endpoints
          PROVE  /\ Reconciled(f)' <=> Reconciled(f)
                 /\ Misled(f)' <=> Misled(f)
      <4>1. Reconciles(p, f) <=> f \in flush[p].left
        BY <1>1 DEF Reconciles
      <4>2. Reconciles(p, f)' <=> f \in flush[p].left
        BY <1>3, <2>1 DEF Reconciles
      <4>3. Misled(f)' <=> Misled(f)
        BY <1>1, <2>1 DEF Misled
      <4>4. QED
        BY <2>1, <4>1, <4>2, <4>3
    <3>2. QED
      BY <1>1, <1>5, <2>1, <3>1 DEF ReadInv
  <2>7. QED
    BY <2>4, <2>5, <2>6
<1>6. QED
  BY <1>1, <1>4, <1>5 DEF FlushInv

(* Marking the rows tells nobody anything.                                 *)
LEMMA MarkKeeps ==
  ASSUME PlaceInv, NEW p \in Flushers, NEW e \in Endpoints, Mark(p, e)
  PROVE  PlaceInv' /\ (FlushInv => FlushInv')
<1>1. /\ flush[p].pc = "mark" /\ e \in flush[p].at
      /\ marked' = [k \in Keys |-> marked[k] \/ (k \in trans[p] /\ EndpointOf[k] = e)]
      /\ UNCHANGED <<alerts, trans, lock, beat, stored, kuma, faults, fresh, owed>>
  BY DEF Mark, view, history
<1>2. /\ flush[p].at \subseteq flush[p].left /\ \A f, g \in flush[p].at : f = g
      /\ flush[p] \in FlushRecords
  BY DEF PlaceInv, AtInv, TypeOK
<1>3. PICK q \in FlushRecords :
        /\ flush' = [flush EXCEPT ![p] = q]
        /\ q.pc = "recheck" /\ q.left = flush[p].left /\ q.at = flush[p].at
        /\ q.sig = flush[p].sig
  BY PcStep DEF Mark
<1>4. PlaceInv'
  <2>1. LockInv' /\ AtInv' /\ flush' \in [Flushers -> FlushRecords]
    BY <1>1, <1>2, <1>3, MovePlace DEF PlaceInv, TypeOK
  <2>2. marked' \in [Keys -> BOOLEAN]
    BY <1>1
  <2>3. TypeOK'
    BY <1>1, <2>1, <2>2 DEF PlaceInv, TypeOK
  <2>4. QED
    BY <2>1, <2>3 DEF PlaceInv
<1>5. ASSUME faults = 0, PushInv, ToldInv, ReadInv
      PROVE  PushInv' /\ ToldInv' /\ ReadInv'
  <2>1. /\ flush'[p] = q
        /\ \A r \in Flushers : r # p => flush'[r] = Idle
        /\ \A f \in Endpoints :
             /\ Reconciled(f) <=> Reconciles(p, f)
             /\ Reconciled(f)' <=> Reconciles(p, f)'
             /\ Pending(f)' <=> Pending(f)
             /\ ~Between(f) /\ ~Between(f)'
             /\ Snapshot(f)' = Snapshot(f)
    BY <1>1, <1>3, Holding
  <2>2. PushInv'
    <3>1. \A f \in q.at : kuma'[f] = Health(q.sig)
      BY <1>1, <1>3, <1>5 DEF PushInv
    <3>2. QED
      BY <1>3, <2>1, <3>1 DEF PushInv, Idle
  <2>3. ToldInv'
    BY <1>1, <1>5, <2>1 DEF ToldInv
  <2>4. ReadInv'
    <3>1. ASSUME NEW f \in Endpoints
          PROVE  /\ Reconciled(f)' <=> Reconciled(f)
                 /\ Misled(f)' <=> Misled(f)
      <4>1. Reconciles(p, f) <=> f \in flush[p].left
        BY <1>1 DEF Reconciles
      <4>2. Reconciles(p, f)' <=> f \in flush[p].left
        BY <1>3, <2>1 DEF Reconciles
      <4>3. Misled(f)' <=> Misled(f)
        BY <1>1, <2>1 DEF Misled
      <4>4. QED
        BY <2>1, <4>1, <4>2, <4>3
    <3>2. QED
      BY <1>1, <1>5, <2>1, <3>1 DEF ReadInv
  <2>5. QED
    BY <2>2, <2>3, <2>4
<1>6. QED
  BY <1>1, <1>4, <1>5 DEF FlushInv

(* Reading again after the push finds Kuma right, tries again or owes it.  *)
LEMMA RecheckKeeps ==
  ASSUME PlaceInv, NEW p \in Flushers, NEW e \in Endpoints, Recheck(p, e)
  PROVE  PlaceInv' /\ (FlushInv => FlushInv')
<1> DEFINE same == Snapshot(e) = flush[p].sig
           last == flush[p].tries = Attempts
<1>1. /\ flush[p].pc = "recheck" /\ e \in flush[p].at
      /\ owed' = IF ~same /\ last THEN owed \cup {e} ELSE owed
      /\ fresh' = [fresh EXCEPT ![e] = TRUE]
      /\ UNCHANGED <<alerts, marked, trans, lock, beat, stored, kuma, faults>>
  BY DEF Recheck, ledger, view
<1>2. /\ flush[p].at \subseteq flush[p].left /\ \A f, g \in flush[p].at : f = g
      /\ flush[p] \in FlushRecords
  BY DEF PlaceInv, AtInv, TypeOK
<1>3. PICK q \in FlushRecords :
        /\ flush' = [flush EXCEPT ![p] = q]
        /\ q.pc = "next"
        /\ \/ /\ same \/ last
              /\ q = Looking(flush[p].left \ {e})
           \/ /\ ~same /\ ~last
              /\ q.left = flush[p].left /\ q.at = flush[p].at
              /\ q.tries = flush[p].tries
  <2>1. CASE same \/ last
    <3>1. flush' = [flush EXCEPT ![p] = Looking(flush[p].left \ {e})]
      BY <2>1, LeaveType DEF Recheck, PlaceInv
    <3>2. flush[p].left \ {e} \in SUBSET Endpoints
      BY <1>2 DEF FlushRecords
    <3>3. Looking(flush[p].left \ {e}) \in FlushRecords
          /\ Looking(flush[p].left \ {e}).pc = "next"
      BY <3>2, LookingType DEF Looking
    <3>4. QED
      BY <2>1, <3>1, <3>3
  <2>2. CASE ~same /\ ~last
    <3> DEFINE r == [flush[p] EXCEPT !.pc = "next", !.sig = {}]
    <3>1. flush' = [flush EXCEPT ![p] = r]
      BY <2>2 DEF Recheck
    <3>2. {} \in Signatures
      BY DEF Signatures
    <3>3. r \in FlushRecords
      BY <1>2, <3>2 DEF FlushRecords
    <3>4. r.pc = "next" /\ r.left = flush[p].left /\ r.at = flush[p].at
          /\ r.tries = flush[p].tries
      BY <1>2 DEF FlushRecords
    <3> HIDE DEF r
    <3>5. QED
      BY <2>2, <3>1, <3>3, <3>4
  <2>3. QED
    BY <2>1, <2>2
<1>4. /\ q.at \subseteq q.left /\ (\A f, g \in q.at : f = g)
      /\ q.tries < Attempts
  BY <1>2, <1>3 DEF Looking, Attempts, FlushRecords
<1>5. PlaceInv'
  <2>1. LockInv' /\ AtInv' /\ flush' \in [Flushers -> FlushRecords]
    BY <1>1, <1>3, <1>4, MovePlace DEF PlaceInv, TypeOK
  <2>2. TypeOK'
    BY <1>1, <2>1 DEF PlaceInv, TypeOK
  <2>3. QED
    BY <2>1, <2>2 DEF PlaceInv
<1>6. ASSUME faults = 0, PushInv, ToldInv, ReadInv
      PROVE  PushInv' /\ ToldInv' /\ ReadInv'
  <2>1. /\ flush'[p] = q
        /\ \A r \in Flushers : r # p => flush'[r] = Idle
        /\ \A f \in Endpoints :
             /\ Reconciled(f) <=> Reconciles(p, f)
             /\ Reconciled(f)' <=> Reconciles(p, f)'
             /\ Pending(f)' <=> Pending(f)
             /\ ~Between(f) /\ ~Between(f)'
             /\ Snapshot(f)' = Snapshot(f)
    BY <1>1, <1>3, Holding
  <2>2. PushInv'
    BY <1>3, <2>1 DEF PushInv, Idle
  <2>3. ToldInv'
    BY <1>1, <1>6, <2>1 DEF ToldInv
  <2>4. \A f \in Endpoints :
          /\ Reconciled(f) <=> f \in flush[p].left
          /\ Reconciled(f)' <=> f \in q.left
          /\ Misled(f)' <=> Misled(f)
    <3>1. ASSUME NEW f \in Endpoints
          PROVE  Reconciles(p, f) <=> f \in flush[p].left
      BY <1>1 DEF Reconciles
    <3>2. ASSUME NEW f \in Endpoints
          PROVE  Reconciles(p, f)' <=> f \in q.left
      BY <1>3, <2>1 DEF Reconciles
    <3>3. ASSUME NEW f \in Endpoints
          PROVE  Misled(f)' <=> Misled(f)
      BY <1>1, <2>1 DEF Misled
    <3>4. QED
      BY <2>1, <3>1, <3>2, <3>3
  <2>5. ReadInv'
    <3> SUFFICES ASSUME NEW f \in Endpoints, f \notin owed'
                 PROVE  /\ ~fresh'[f] => Pending(f)' \/ Reconciled(f)'
                        /\ fresh'[f] /\ ~Reconciled(f)' => ~Misled(f)'
      BY DEF ReadInv
    <3>1. CASE f = e /\ same
      <4>1. fresh'[f]
        BY <1>1, <3>1 DEF PlaceInv, TypeOK
      <4>2. kuma[e] = Health(Snapshot(e))
        BY <1>1, <1>6, <3>1 DEF PushInv
      <4>3. ~Misled(f)
        BY <3>1, <4>2 DEF Misled, Health
      <4>4. QED
        BY <2>4, <4>1, <4>3
    <3>2. CASE f = e /\ ~same
      <4>1. ~last
        BY <1>1, <3>2
      <4>2. f \in q.left /\ fresh'[f]
        BY <1>1, <1>2, <1>3, <3>2, <4>1 DEF PlaceInv, TypeOK
      <4>3. QED
        BY <2>4, <4>2
    <3>3. CASE f # e
      <4>1. fresh'[f] = fresh[f] /\ f \notin owed
        BY <1>1, <3>3 DEF PlaceInv, TypeOK
      <4>2. f \in q.left <=> f \in flush[p].left
        BY <1>3, <3>3 DEF Looking
      <4>3. QED
        BY <1>6, <2>1, <2>4, <4>1, <4>2 DEF ReadInv
    <3>4. QED
      BY <3>1, <3>2, <3>3
  <2>6. QED
    BY <2>2, <2>3, <2>5
<1>7. QED
  BY <1>1, <1>5, <1>6 DEF FlushInv

------------------------------------------------------------------------------
(* The steps that come to the lock, leave it or fail.                      *)

(* A place outside the lock.                                               *)
LEMMA IdleType == Idle \in FlushRecords
BY DEF Idle, FlushRecords, Signatures, Attempts

(* The holder starts on every endpoint its transitions touched.            *)
LEMMA AcquireKeeps ==
  ASSUME PlaceInv, NEW p \in Flushers, Acquire(p)
  PROVE  PlaceInv' /\ (FlushInv => FlushInv')
<1>1. /\ flush[p].pc = "idle" /\ lock = {} /\ lock' = {p}
      /\ flush' = [flush EXCEPT ![p] = Looking(Touched(p))]
      /\ UNCHANGED <<alerts, marked, trans, beat, stored, kuma, faults, fresh, owed>>
  BY DEF Acquire, ledger, view, history
<1>2. \A r \in Flushers : flush[r] = Idle /\ flush[r].pc = "idle"
  BY <1>1 DEF PlaceInv, LockInv
<1>3. PICK q \in FlushRecords :
        /\ flush' = [flush EXCEPT ![p] = q]
        /\ q.pc = "next" /\ q.left = Touched(p) /\ q.at = {} /\ q.tries = 0
  <2>1. Looking(Touched(p)) \in FlushRecords
    BY TouchedType, LookingType DEF PlaceInv
  <2>2. QED
    BY <1>1, <2>1 DEF Looking
<1>4. \A r \in Flushers : flush'[r] = IF r = p THEN q ELSE Idle
  BY <1>2, <1>3 DEF PlaceInv, TypeOK
<1>5. PlaceInv'
  <2>1. LockInv' /\ AtInv'
    BY <1>1, <1>3, <1>4 DEF LockInv, AtInv, Idle, Attempts
  <2>2. flush' \in [Flushers -> FlushRecords]
    BY <1>3 DEF PlaceInv, TypeOK
  <2>3. TypeOK'
    BY <1>1, <2>2 DEF PlaceInv, TypeOK
  <2>4. QED
    BY <2>1, <2>3 DEF PlaceInv
<1>6. ASSUME faults = 0, PushInv, ToldInv, ReadInv
      PROVE  PushInv' /\ ToldInv' /\ ReadInv'
  <2>1. PushInv'
    BY <1>3, <1>4 DEF PushInv, Idle
  <2>2. ASSUME NEW f \in Endpoints
        PROVE  ~Between(f) /\ ~Between(f)'
    BY <1>2, <1>3, <1>4 DEF Between, Idle
  <2>3. ToldInv'
    BY <1>1, <1>6, <2>2 DEF ToldInv
  <2>4. ASSUME NEW f \in Endpoints
        PROVE  /\ ~Reconciled(f)
               /\ Reconciled(f)' <=> f \in Touched(p)
               /\ Pending(f) => Pending(f)' \/ f \in Touched(p)
               /\ Misled(f)' <=> Misled(f)
    <3>1. ~Reconciled(f)
      BY <1>1 DEF Reconciled
    <3>2. Reconciled(f)' <=> f \in Touched(p)
      <4>1. Reconciled(f)' <=> Reconciles(p, f)'
        BY <1>1 DEF Reconciled
      <4>2. QED
        BY <1>3, <1>4, <4>1 DEF Reconciles
    <3>3. Pending(f) => Pending(f)' \/ f \in Touched(p)
      <4>1. \A r \in Flushers : Touched(r)' = Touched(r)
        BY <1>1 DEF Touched
      <4>2. QED
        BY <1>4, <4>1 DEF Pending, Idle
    <3>4. Misled(f)' <=> Misled(f)
      BY <1>1 DEF Misled, Snapshot, KeysOf
    <3>5. QED
      BY <3>1, <3>2, <3>3, <3>4
  <2>5. ReadInv'
    BY <1>1, <1>6, <2>4 DEF ReadInv
  <2>6. QED
    BY <2>1, <2>3, <2>5
<1>7. QED
  BY <1>1, <1>5, <1>6 DEF FlushInv

(* What a flusher leaves to the holder is read by the holder, or owed.     *)
LEMMA GiveUpKeeps ==
  ASSUME PlaceInv, NEW p \in Flushers, GiveUp(p)
  PROVE  PlaceInv' /\ (FlushInv => FlushInv')
<1>1. /\ trans' = [trans EXCEPT ![p] = {}]
      /\ owed' = owed \cup {e \in Touched(p) : ~fresh[e] /\ \A h \in lock : ~Reconciles(h, e)}
      /\ UNCHANGED <<alerts, marked, lock, flush, beat, stored, kuma, faults, fresh>>
  BY DEF GiveUp, view
<1>2. PlaceInv'
  <2>1. LockInv' /\ AtInv'
    BY <1>1 DEF PlaceInv, LockInv, AtInv
  <2>2. trans' \in [Flushers -> SUBSET Keys]
    BY <1>1 DEF PlaceInv, TypeOK
  <2>3. owed' \subseteq Endpoints
    BY <1>1, TouchedType DEF PlaceInv, TypeOK
  <2>4. TypeOK'
    BY <1>1, <2>2, <2>3 DEF PlaceInv, TypeOK
  <2>5. QED
    BY <2>1, <2>4 DEF PlaceInv
<1>3. ASSUME faults = 0, PushInv, ToldInv, ReadInv
      PROVE  PushInv' /\ ToldInv' /\ ReadInv'
  <2>1. PushInv'
    BY <1>1, <1>3 DEF PushInv
  <2>2. ToldInv'
    BY <1>1, <1>3 DEF ToldInv, Between
  <2>3. ASSUME NEW f \in Endpoints
        PROVE  /\ Reconciled(f)' <=> Reconciled(f)
               /\ Pending(f) => Pending(f)' \/ f \in Touched(p)
               /\ Misled(f)' <=> Misled(f)
    <3>1. Reconciled(f)' <=> Reconciled(f)
      BY <1>1 DEF Reconciled, Reconciles, AlreadyTold
    <3>2. Pending(f) => Pending(f)' \/ f \in Touched(p)
      <4>1. \A r \in Flushers : r # p => Touched(r)' = Touched(r)
        BY <1>1 DEF Touched, PlaceInv, TypeOK
      <4>2. QED
        BY <1>1, <4>1 DEF Pending
    <3>3. Misled(f)' <=> Misled(f)
      BY <1>1 DEF Misled, Snapshot, KeysOf
    <3>4. QED
      BY <3>1, <3>2, <3>3
  <2>4. ReadInv'
    <3> SUFFICES ASSUME NEW f \in Endpoints, f \notin owed'
                 PROVE  /\ ~fresh'[f] => Pending(f)' \/ Reconciled(f)'
                        /\ fresh'[f] /\ ~Reconciled(f)' => ~Misled(f)'
      BY DEF ReadInv
    <3>1. f \notin owed /\ (f \in Touched(p) /\ ~fresh[f] => Reconciled(f))
      BY <1>1 DEF Reconciled
    <3>2. QED
      BY <1>1, <1>3, <2>3, <3>1 DEF ReadInv
  <2>5. QED
    BY <2>1, <2>2, <2>4
<1>4. QED
  BY <1>1, <1>2, <1>3 DEF FlushInv

(* The holder lets go when no endpoint is left.                            *)
LEMMA ReleaseKeeps ==
  ASSUME PlaceInv, NEW p \in Flushers, Release(p)
  PROVE  PlaceInv' /\ (FlushInv => FlushInv')
<1>1. /\ flush[p].pc = "next" /\ flush[p].left = {} /\ lock' = {}
      /\ flush' = [flush EXCEPT ![p] = Idle]
      /\ trans' = [trans EXCEPT ![p] = {}]
      /\ UNCHANGED <<alerts, marked, beat, stored, kuma, faults, fresh, owed>>
  BY DEF Release, view, history
<1>2. lock = {p} /\ \A r \in Flushers : r # p => flush[r] = Idle
  BY <1>1, Sole
<1>3. \A r \in Flushers : flush'[r] = Idle
  BY <1>1, <1>2 DEF PlaceInv, TypeOK
<1>4. PlaceInv'
  <2>1. LockInv' /\ AtInv'
    BY <1>1, <1>3 DEF LockInv, AtInv, Idle
  <2>2. flush' \in [Flushers -> FlushRecords]
    BY <1>1, IdleType DEF PlaceInv, TypeOK
  <2>3. trans' \in [Flushers -> SUBSET Keys]
    BY <1>1 DEF PlaceInv, TypeOK
  <2>4. TypeOK'
    BY <1>1, <2>2, <2>3 DEF PlaceInv, TypeOK
  <2>5. QED
    BY <2>1, <2>4 DEF PlaceInv
<1>5. ASSUME faults = 0, PushInv, ToldInv, ReadInv
      PROVE  PushInv' /\ ToldInv' /\ ReadInv'
  <2>1. PushInv'
    BY <1>3 DEF PushInv, Idle
  <2>2. ASSUME NEW f \in Endpoints
        PROVE  ~Between(f) /\ ~Between(f)'
    BY <1>1, <1>2, <1>3 DEF Between, Idle
  <2>3. ToldInv'
    BY <1>1, <1>5, <2>2 DEF ToldInv
  <2>4. ASSUME NEW f \in Endpoints
        PROVE  /\ ~Reconciled(f) /\ ~Reconciled(f)'
               /\ Pending(f) => Pending(f)'
               /\ Misled(f)' <=> Misled(f)
    <3>1. ~Reconciled(f) /\ ~Reconciled(f)'
      BY <1>1, <1>2 DEF Reconciled, Reconciles
    <3>2. Pending(f) => Pending(f)'
      <4>1. \A r \in Flushers : r # p => Touched(r)' = Touched(r)
        BY <1>1 DEF Touched, PlaceInv, TypeOK
      <4>2. QED
        BY <1>1, <1>3, <4>1 DEF Pending, Idle
    <3>3. Misled(f)' <=> Misled(f)
      BY <1>1 DEF Misled, Snapshot, KeysOf
    <3>4. QED
      BY <3>1, <3>2, <3>3
  <2>5. ReadInv'
    BY <1>1, <1>5, <2>4 DEF ReadInv
  <2>6. QED
    BY <2>1, <2>3, <2>5
<1>6. QED
  BY <1>1, <1>4, <1>5 DEF FlushInv

(* A push that fails leaves the endpoint and counts as a fault.            *)
LEMMA SendFailsKeeps ==
  ASSUME PlaceInv, NEW p \in Flushers, NEW e \in Endpoints, SendFails(p, e)
  PROVE  PlaceInv' /\ (FlushInv => FlushInv')
<1>1. /\ flush[p].pc = "send" /\ faults < MaxFaults /\ faults' = faults + 1
      /\ kuma' \in {kuma, [kuma EXCEPT ![e] = Health(flush[p].sig)]}
      /\ flush' = [flush EXCEPT ![p] = Looking(flush[p].left \ {e})]
      /\ UNCHANGED <<alerts, marked, trans, lock, beat, stored, fresh, owed>>
  BY LeaveType DEF SendFails, ledger, history, PlaceInv
<1>2. PICK q \in FlushRecords :
        /\ flush' = [flush EXCEPT ![p] = q]
        /\ q.pc = "next" /\ q.at = {} /\ q.tries = 0
  <2>1. flush[p].left \ {e} \in SUBSET Endpoints
    BY DEF PlaceInv, TypeOK, FlushRecords
  <2>2. Looking(flush[p].left \ {e}) \in FlushRecords
    BY <2>1, LookingType
  <2>3. QED
    BY <1>1, <2>2 DEF Looking
<1>3. LockInv' /\ AtInv' /\ flush' \in [Flushers -> FlushRecords]
  <2>1. LockInv /\ AtInv /\ flush \in [Flushers -> FlushRecords]
    BY DEF PlaceInv, TypeOK
  <2>2. /\ flush[p].pc # "idle" /\ q.pc # "idle" /\ lock' = lock
        /\ q.at \subseteq q.left /\ (\A f, g \in q.at : f = g)
        /\ q.tries < Attempts
    BY <1>1, <1>2 DEF Attempts
  <2>3. QED
    BY <1>2, <2>1, <2>2, MovePlace
<1>4. kuma' \in [Endpoints -> {"none", "up", "down"}]
  <2>1. Health(flush[p].sig) \in {"none", "up", "down"}
    BY DEF Health
  <2>2. QED
    BY <1>1, <2>1 DEF PlaceInv, TypeOK
<1>5. faults' \in 0..MaxFaults /\ faults' # 0
  BY <1>1, FaultAssumption DEF PlaceInv, TypeOK
<1>6. TypeOK'
  BY <1>1, <1>3, <1>4, <1>5 DEF PlaceInv, TypeOK
<1>7. QED
  BY <1>3, <1>5, <1>6 DEF PlaceInv, FlushInv

(* A killed worker loses its lock and counts as a fault.                   *)
LEMMA KillKeeps ==
  ASSUME PlaceInv, NEW p \in Flushers, Kill(p)
  PROVE  PlaceInv' /\ (FlushInv => FlushInv')
<1>1. /\ faults < MaxFaults /\ faults' = faults + 1
      /\ flush' = [flush EXCEPT ![p] = Idle]
      /\ trans' = [trans EXCEPT ![p] = {}]
      /\ lock' = lock \ {p}
      /\ UNCHANGED <<alerts, marked, beat, stored, kuma, fresh, owed>>
  BY DEF Kill, view, history
<1>2. \A r \in Flushers : flush'[r] = IF r = p THEN Idle ELSE flush[r]
  BY <1>1 DEF PlaceInv, TypeOK
<1>3. LockInv' /\ AtInv'
  <2>1. LockInv'
    BY <1>1, <1>2 DEF PlaceInv, LockInv, Idle
  <2>2. AtInv'
    BY <1>2 DEF PlaceInv, AtInv, Idle
  <2>3. QED
    BY <2>1, <2>2
<1>4. flush' \in [Flushers -> FlushRecords] /\ trans' \in [Flushers -> SUBSET Keys]
  BY <1>1, IdleType DEF PlaceInv, TypeOK
<1>5. faults' \in 0..MaxFaults /\ faults' # 0
  BY <1>1, FaultAssumption DEF PlaceInv, TypeOK
<1>6. TypeOK'
  BY <1>1, <1>4, <1>5 DEF PlaceInv, TypeOK
<1>7. QED
  BY <1>3, <1>5, <1>6 DEF PlaceInv, FlushInv

(* A change is unread, and its flusher has yet to come to the lock.        *)
LEMMA PersistKeeps ==
  ASSUME PlaceInv, NEW p \in Flushers, NEW k \in Keys,
         Recover(p, k) \/ \E s \in Raised : Raise(p, k, s)
  PROVE  PlaceInv' /\ (FlushInv => FlushInv')
<1>1. /\ flush[p].pc = "idle"
      /\ trans' = [trans EXCEPT ![p] = @ \cup {k}]
      /\ fresh' = [fresh EXCEPT ![EndpointOf[k]] = FALSE]
      /\ UNCHANGED <<lock, flush, stored, kuma, faults, owed>>
  BY DEF Recover, Raise, view
<1>2. \A j \in Keys : j # k => alerts'[j] = alerts[j]
  BY DEF PlaceInv, TypeOK, Recover, Raise
<1>3. ASSUME faults = 0, PushInv, ToldInv, ReadInv
      PROVE  PushInv' /\ ToldInv' /\ ReadInv'
  <2>1. PushInv'
    BY <1>1, <1>3 DEF PushInv
  <2>2. ToldInv'
    BY <1>1, <1>3 DEF ToldInv, Between
  <2>3. \A r \in Flushers : Touched(r) \subseteq Touched(r)'
    BY <1>1 DEF Touched, PlaceInv, TypeOK
  <2>4. ASSUME NEW f \in Endpoints
        PROVE  /\ Reconciled(f)' <=> Reconciled(f)
               /\ Pending(f) => Pending(f)'
    BY <1>1, <2>3 DEF Reconciled, Reconciles, AlreadyTold, Pending
  <2>5. ReadInv'
    <3> SUFFICES ASSUME NEW f \in Endpoints, f \notin owed'
                 PROVE  /\ ~fresh'[f] => Pending(f)' \/ Reconciled(f)'
                        /\ fresh'[f] /\ ~Reconciled(f)' => ~Misled(f)'
      BY DEF ReadInv
    <3>1. CASE f = EndpointOf[k]
      <4>1. ~fresh'[f]
        BY <1>1, <3>1 DEF PlaceInv, TypeOK
      <4>2. k \in trans'[p]
        BY <1>1 DEF PlaceInv, TypeOK
      <4>3. f \in Touched(p)'
        BY <3>1, <4>2 DEF Touched
      <4>4. QED
        BY <1>1, <4>1, <4>3 DEF Pending
    <3>2. CASE f # EndpointOf[k]
      <4>1. fresh'[f] = fresh[f]
        BY <1>1, <3>2, EndpointAssumption DEF PlaceInv, TypeOK
      <4>2. Snapshot(f)' = Snapshot(f)
        <5>1. \A j \in KeysOf(f) : alerts'[j] = alerts[j]
          BY <1>2, <3>2 DEF KeysOf
        <5>2. QED
          BY <5>1 DEF Snapshot, KeysOf
      <4>3. QED
        BY <1>1, <1>3, <2>4, <4>1, <4>2 DEF ReadInv, Misled
    <3>3. QED
      BY <3>1, <3>2
  <2>6. QED
    BY <2>1, <2>2, <2>5
<1>4. PlaceInv'
  BY ONLY PersistPlace, PlaceInv, p \in Flushers, k \in Keys,
          Recover(p, k) \/ \E s \in Raised : Raise(p, k, s)
<1>5. QED
  BY <1>1, <1>3, <1>4 DEF FlushInv

------------------------------------------------------------------------------
(* The heartbeats, which keep the types only: they tell Kuma and store     *)
(* what they read without the lock.                                        *)

(* A step of a heartbeat leaves every flush where it is.                   *)
LEMMA BeatPlace ==
  ASSUME PlaceInv, NEW b \in Beaters, NEW r \in BeatRecords,
         beat' = [beat EXCEPT ![b] = r],
         stored' \in [Endpoints -> {{}} \cup {{sig} : sig \in Signatures}],
         kuma' \in [Endpoints -> {"none", "up", "down"}],
         faults' \in 0..MaxFaults,
         UNCHANGED <<ledger, lock, flush, history>>
  PROVE  PlaceInv'
<1>1. LockInv' /\ AtInv'
  BY DEF PlaceInv, LockInv, AtInv
<1>2. beat' \in [Beaters -> BeatRecords]
  BY DEF PlaceInv, TypeOK
<1>3. TypeOK'
  BY <1>2 DEF PlaceInv, TypeOK, ledger, history
<1>4. QED
  BY <1>1, <1>3 DEF PlaceInv

(* The record a heartbeat changes is one.                                  *)
LEMMA BeatType ==
  ASSUME PlaceInv, NEW b \in Beaters
  PROVE  /\ beat[b] \in BeatRecords
         /\ stored \in [Endpoints -> {{}} \cup {{sig} : sig \in Signatures}]
         /\ kuma \in [Endpoints -> {"none", "up", "down"}]
         /\ faults \in 0..MaxFaults
BY DEF PlaceInv, TypeOK

(* Every step of a heartbeat keeps the types and the places.               *)
LEMMA BeatKeeps ==
  ASSUME PlaceInv, NEW b \in Beaters, Beat(b)
  PROVE  PlaceInv'
<1> USE BeatType
<1>1. ASSUME NEW bad \in BOOLEAN, BeatRead(b, bad)
      PROVE  PlaceInv'
  <2> DEFINE seen == {e \in Endpoints : Snapshot(e) # {}}
             r == Beating(BeatsOf[b], seen, bad)
  <2>1. BeatsOf[b] \in SUBSET Endpoints /\ {} \in Signatures /\ seen \in SUBSET Endpoints
    BY BeatsAssumption DEF Signatures
  <2> HIDE DEF seen
  <2>2. r \in BeatRecords
    BY <2>1 DEF Beating, BeatRecords
  <2>3. beat' = [beat EXCEPT ![b] = r]
    BY <1>1 DEF BeatRead, seen
  <2>4. faults' \in 0..MaxFaults
    BY <1>1, FaultAssumption DEF BeatRead
  <2>5. UNCHANGED <<ledger, lock, flush, stored, kuma, history>>
    BY <1>1 DEF BeatRead, view
  <2> HIDE DEF r
  <2>6. QED
    BY <2>2, <2>3, <2>4, <2>5, BeatPlace
<1>2. ASSUME NEW e \in Endpoints, BeatSend(b, e)
      PROVE  PlaceInv'
  <2> DEFINE r == [beat[b] EXCEPT !.pc = "snapshot", !.at = {e}]
  <2>1. r \in BeatRecords
    BY DEF BeatRecords
  <2>2. beat' = [beat EXCEPT ![b] = r]
    BY <1>2 DEF BeatSend
  <2>3. BeatHealth(b, e) \in {"none", "up", "down"}
    BY DEF BeatHealth
  <2>4. kuma' \in [Endpoints -> {"none", "up", "down"}]
    BY <1>2, <2>3 DEF BeatSend
  <2>5. UNCHANGED <<ledger, lock, flush, stored, faults, history>>
    BY <1>2 DEF BeatSend
  <2> HIDE DEF r
  <2>6. QED
    BY <2>1, <2>2, <2>4, <2>5, BeatPlace
<1>3. ASSUME NEW e \in Endpoints, BeatFails(b, e)
      PROVE  PlaceInv'
  <2> DEFINE r == [beat[b] EXCEPT !.left = @ \ {e}]
  <2>1. r \in BeatRecords
    BY DEF BeatRecords
  <2>2. beat' = [beat EXCEPT ![b] = r]
    BY <1>3 DEF BeatFails
  <2>3. BeatHealth(b, e) \in {"none", "up", "down"}
    BY DEF BeatHealth
  <2>4. kuma' \in [Endpoints -> {"none", "up", "down"}]
    BY <1>3, <2>3 DEF BeatFails
  <2>5. faults' \in 0..MaxFaults
    BY <1>3, FaultAssumption DEF BeatFails
  <2>6. UNCHANGED <<ledger, lock, flush, stored, history>>
    BY <1>3 DEF BeatFails
  <2> HIDE DEF r
  <2>7. QED
    BY <2>1, <2>2, <2>4, <2>5, <2>6, BeatPlace
<1>4. ASSUME NEW e \in Endpoints, BeatSnapshot(b, e)
      PROVE  PlaceInv'
  <2> DEFINE r == [beat[b] EXCEPT !.pc = "store", !.sig = Snapshot(e)]
  <2>1. Snapshot(e) \in Signatures
    BY SnapshotType DEF PlaceInv
  <2>2. r \in BeatRecords
    BY <2>1 DEF BeatRecords
  <2>3. beat' = [beat EXCEPT ![b] = r]
    BY <1>4 DEF BeatSnapshot
  <2>4. UNCHANGED <<ledger, lock, flush, stored, kuma, faults, history>>
    BY <1>4 DEF BeatSnapshot, view
  <2> HIDE DEF r
  <2>5. QED
    BY <2>2, <2>3, <2>4, BeatPlace
<1>5. ASSUME NEW e \in Endpoints, BeatStore(b, e)
      PROVE  PlaceInv'
  <2> DEFINE r == [beat[b] EXCEPT !.pc = "send", !.at = {}, !.sig = {}, !.left = @ \ {e}]
  <2>1. {} \in Signatures
    BY DEF Signatures
  <2>2. r \in BeatRecords
    BY <2>1 DEF BeatRecords
  <2>3. beat' = [beat EXCEPT ![b] = r]
    BY <1>5 DEF BeatStore
  <2>4. {beat[b].sig} \in {{}} \cup {{sig} : sig \in Signatures}
    BY DEF BeatRecords
  <2>5. stored' \in [Endpoints -> {{}} \cup {{sig} : sig \in Signatures}]
    BY <1>5, <2>4 DEF BeatStore
  <2>6. UNCHANGED <<ledger, lock, flush, kuma, faults, history>>
    BY <1>5 DEF BeatStore
  <2> HIDE DEF r
  <2>7. QED
    BY <2>2, <2>3, <2>5, <2>6, BeatPlace
<1>6. ASSUME BeatEnd(b)
      PROVE  PlaceInv'
  <2>1. Rest \in BeatRecords
    BY DEF Rest, BeatRecords, Signatures
  <2>2. beat' = [beat EXCEPT ![b] = Rest]
    BY <1>6 DEF BeatEnd
  <2>3. UNCHANGED <<ledger, lock, flush, stored, kuma, faults, history>>
    BY <1>6 DEF BeatEnd, view
  <2>4. QED
    BY <2>1, <2>2, <2>3, BeatPlace
<1>7. QED
  BY <1>1, <1>2, <1>3, <1>4, <1>5, <1>6 DEF Beat

------------------------------------------------------------------------------
(* The theorems.                                                           *)

(* Every step of a flusher keeps all of it.                                *)
LEMMA FlusherKeeps ==
  ASSUME PlaceInv, NEW p \in Flushers,
         \/ \E k \in Keys : Recover(p, k) \/ \E s \in Raised : Raise(p, k, s)
         \/ Flush(p)
         \/ Kill(p)
  PROVE  PlaceInv' /\ (FlushInv => FlushInv')
<1>1. ASSUME NEW k \in Keys, Recover(p, k) \/ \E s \in Raised : Raise(p, k, s)
      PROVE  PlaceInv' /\ (FlushInv => FlushInv')
  BY ONLY PersistKeeps, PlaceInv, p \in Flushers, k \in Keys, <1>1
<1>2. ASSUME Flush(p)
      PROVE  PlaceInv' /\ (FlushInv => FlushInv')
  <2>1. CASE Acquire(p)
    BY <2>1, AcquireKeeps
  <2>2. CASE GiveUp(p)
    BY <2>2, GiveUpKeeps
  <2>3. CASE Release(p)
    BY <2>3, ReleaseKeeps
  <2>4. ASSUME NEW e \in Endpoints, Look(p, e)
        PROVE  PlaceInv' /\ (FlushInv => FlushInv')
    BY <2>4, LookKeeps
  <2>5. ASSUME NEW e \in Endpoints, Decide(p, e)
        PROVE  PlaceInv' /\ (FlushInv => FlushInv')
    BY <2>5, DecideKeeps
  <2>6. ASSUME NEW e \in Endpoints, SendDelivered(p, e)
        PROVE  PlaceInv' /\ (FlushInv => FlushInv')
    BY <2>6, SendDeliveredKeeps
  <2>7. ASSUME NEW e \in Endpoints, SendFails(p, e)
        PROVE  PlaceInv' /\ (FlushInv => FlushInv')
    BY <2>7, SendFailsKeeps
  <2>8. ASSUME NEW e \in Endpoints, Store(p, e)
        PROVE  PlaceInv' /\ (FlushInv => FlushInv')
    BY <2>8, StoreKeeps
  <2>9. ASSUME NEW e \in Endpoints, Mark(p, e)
        PROVE  PlaceInv' /\ (FlushInv => FlushInv')
    BY <2>9, MarkKeeps
  <2>10. ASSUME NEW e \in Endpoints, Recheck(p, e)
         PROVE  PlaceInv' /\ (FlushInv => FlushInv')
    BY <2>10, RecheckKeeps
  <2>11. QED
    BY <1>2, <2>1, <2>2, <2>3, <2>4, <2>5, <2>6, <2>7, <2>8, <2>9, <2>10 DEF Flush
<1>3. CASE Kill(p)
  BY <1>3, KillKeeps
<1>4. QED
  BY <1>1, <1>2, <1>3

(* A step that changes nothing keeps everything.                           *)
LEMMA StutterKeeps ==
  ASSUME PlaceInv, UNCHANGED vars
  PROVE  PlaceInv' /\ (FlushInv => FlushInv')
<1>1. UNCHANGED <<alerts, marked, trans, lock, flush, beat, stored, kuma, faults, fresh, owed>>
  BY DEF vars, ledger, view, history
<1>2. PlaceInv'
  BY <1>1 DEF PlaceInv, TypeOK, LockInv, AtInv
<1>3. ASSUME NEW e \in Endpoints
      PROVE  /\ Snapshot(e)' = Snapshot(e)
             /\ Reconciled(e)' <=> Reconciled(e)
             /\ Pending(e)' <=> Pending(e)
             /\ Between(e)' <=> Between(e)
  BY <1>1 DEF Snapshot, KeysOf, Reconciled, Reconciles, AlreadyTold, Pending, Touched, Between
<1>4. PushInv => PushInv'
  BY <1>1 DEF PushInv
<1>5. ToldInv => ToldInv'
  BY <1>1, <1>3 DEF ToldInv
<1>6. ReadInv => ReadInv'
  BY <1>1, <1>3 DEF ReadInv, Misled
<1>7. QED
  BY <1>1, <1>2, <1>4, <1>5, <1>6 DEF FlushInv

(* Nothing was pushed yet, and nobody was told anything.                   *)
LEMMA FlushInit == Init => FlushInv
<1>1. ASSUME Init
      PROVE  PushInv /\ ToldInv /\ ReadInv
  <2>1. PushInv
    BY <1>1 DEF Init, PushInv, Idle
  <2>2. ToldInv
    BY <1>1 DEF Init, ToldInv
  <2>3. ASSUME NEW e \in Endpoints
        PROVE  fresh[e] /\ ~Misled(e)
    BY <1>1 DEF Init, Misled, Snapshot, KeysOf
  <2>4. ReadInv
    BY <2>3 DEF ReadInv
  <2>5. QED
    BY <2>1, <2>2, <2>4
<1>2. QED
  BY <1>1 DEF FlushInv

(* At every step the lock has at most one holder, whoever is past the lock *)
(* holds it and works on one endpoint with at most three attempts, whatever *)
(* the flushers, the heartbeats, the failures and the kills.               *)
THEOREM PlaceCorrect == Spec => []PlaceInv
<1>1. Init => PlaceInv
  BY PlaceInit
<1>2. PlaceInv /\ [Next]_vars => PlaceInv'
  <2> SUFFICES ASSUME PlaceInv, [Next]_vars
               PROVE  PlaceInv'
    OBVIOUS
  <2>1. ASSUME NEW p \in Flushers,
               \/ \E k \in Keys : Recover(p, k) \/ \E s \in Raised : Raise(p, k, s)
               \/ Flush(p)
               \/ Kill(p)
        PROVE  PlaceInv'
    BY ONLY FlusherKeeps, PlaceInv, <2>1
  <2>2. ASSUME NEW b \in Beaters, Beat(b)
        PROVE  PlaceInv'
    BY <2>2, BeatKeeps
  <2>3. CASE UNCHANGED vars
    BY <2>3, StutterKeeps
  <2>4. QED
    BY <2>1, <2>2, <2>3 DEF Next
<1>3. QED
  BY <1>1, <1>2, PTL DEF Spec

(* Type correctness.                                                       *)
THEOREM TypeCorrect == Spec => []TypeOK
<1>1. PlaceInv => TypeOK
  BY DEF PlaceInv
<1>2. QED
  BY <1>1, PlaceCorrect, PTL

(* Where no heartbeat interferes and nothing fails, whatever the alerts do *)
(* meanwhile: every change is owed to somebody, stored signatures and Kuma *)
(* agree between pushes, and Kuma is right about what nobody has to read.  *)
THEOREM FlushCorrect ==
  ASSUME Beaters = {}
  PROVE  Spec => [](PlaceInv /\ FlushInv)
<1>1. Init => PlaceInv /\ FlushInv
  BY PlaceInit, FlushInit
<1>2. PlaceInv /\ FlushInv /\ [Next]_vars => PlaceInv' /\ FlushInv'
  <2> SUFFICES ASSUME PlaceInv, FlushInv, [Next]_vars
               PROVE  PlaceInv' /\ FlushInv'
    OBVIOUS
  <2>1. ASSUME NEW p \in Flushers,
               \/ \E k \in Keys : Recover(p, k) \/ \E s \in Raised : Raise(p, k, s)
               \/ Flush(p)
               \/ Kill(p)
        PROVE  PlaceInv' /\ FlushInv'
    BY ONLY FlusherKeeps, PlaceInv, FlushInv, <2>1
  <2>2. CASE UNCHANGED vars
    BY <2>2, StutterKeeps
  <2>3. QED
    BY <2>1, <2>2 DEF Next
<1>3. QED
  BY <1>1, <1>2, PTL DEF Spec

(* "The holder reconciles state after each send": without heartbeats and   *)
(* failures Kuma is right about every endpoint once every flush is over,   *)
(* but for what a flusher left to a holder that had read it already.       *)
THEOREM Reconciliation ==
  ASSUME Beaters = {}
  PROVE  Spec => []HolderReconciles
<1>1. PlaceInv /\ FlushInv => HolderReconciles
  <2> SUFFICES ASSUME PlaceInv, FlushInv, Quiet, faults = 0, NEW e \in Endpoints \ owed
               PROVE  ~Misled(e)
    BY DEF HolderReconciles
  <2>1. ReadInv
    BY DEF FlushInv
  <2>2. lock = {} /\ \A p \in Flushers : trans[p] = {}
    BY DEF Quiet, PlaceInv, LockInv, TypeOK, Idle
  <2>3. ~Pending(e) /\ ~Reconciled(e)
    BY <2>2 DEF Pending, Touched, Reconciled
  <2>4. fresh[e]
    BY <2>1, <2>3 DEF ReadInv
  <2>5. QED
    BY <2>1, <2>3, <2>4 DEF ReadInv
<1>2. QED
  BY <1>1, FlushCorrect, PTL

(* A flush that goes to send a recovery sends it to a Kuma that was not    *)
(* told yet: its check of the stored signature is as good as one of Kuma.  *)
LEMMA SendsOnce ==
  ASSUME PlaceInv, FlushInv, NEW p \in Flushers, NEW e \in Endpoints, faults = 0,
         SendDelivered(p, e), flush[p].sig = {}
  PROVE  kuma[e] # "up"
<1>1. flush[p].pc = "send" /\ e \in flush[p].at
  BY DEF SendDelivered
<1>2. stored[e] # {{}}
  BY <1>1 DEF FlushInv, PushInv
<1>3. ~Between(e)
  <2>1. \A r \in Flushers : r # p => flush[r] = Idle
    BY <1>1, Sole
  <2>2. QED
    BY <1>1, <2>1 DEF Between, Idle
<1>4. QED
  BY <1>2, <1>3 DEF FlushInv, ToldInv

(* A recovery is told once: without heartbeats and failures no flush pushes *)
(* UP to a Kuma that was told UP last, however many flushers saw it.       *)
THEOREM ToldOnce ==
  ASSUME Beaters = {}
  PROVE  Spec => RecoveryToldOnce
<1>1. PlaceInv /\ FlushInv =>
        \A p \in Flushers, e \in Endpoints :
          faults = 0 /\ SendDelivered(p, e) /\ flush[p].sig = {} => kuma[e] # "up"
  BY SendsOnce
<1>2. QED
  BY <1>1, FlushCorrect, PTL DEF RecoveryToldOnce

=============================================================================
