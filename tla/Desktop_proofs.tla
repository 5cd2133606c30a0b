---------------------------- MODULE Desktop_proofs ----------------------------
(***************************************************************************)
(* The promises of the desktop, for any number of processes, applications, *)
(* starts, crashes, restarts, names, records and repeated runs: that the   *)
(* rescue dialog closes only what its user saw and chose (RescueTarget)    *)
(* and stays away while it is put off (ResourceRescue), that one graphics  *)
(* incident takes in the reports of one window only (GraphicsIncident),    *)
(* and that provisioning Kuma never makes a second monitor of a name nor   *)
(* stores a token that is not its own (KumaAdmin), with the newest token   *)
(* of the browser (ChromeSession).                                         *)
(***************************************************************************)
EXTENDS MCDesktop, FiniteSetTheorems, SequenceTheorems, WellFoundedInduction, TLAPS

(* What the proofs about RescueTarget take of its constants.               *)
Sizes == MaxStart \in Nat /\ MaxAge \in Nat /\ IsFiniteSet(Apps) /\ Guarded \subseteq Apps

(* A candidate that the dialog may offer: members with their identities,   *)
(* none of them of a guarded application.                                  *)
Offered == {c \in Candidate : \A p \in DOMAIN c : c[p].app \notin Guarded}

(* What a candidate is made of.                                             *)
LEMMA CandidateFacts ==
  ASSUME NEW c \in Candidate
  PROVE  /\ DOMAIN c \in SUBSET Pids /\ DOMAIN c # {}
         /\ \A p \in DOMAIN c : c[p] \in Identity
<1>1. PICK S \in (SUBSET Pids) \ {{}} : c \in [S -> Identity]
  BY DEF Candidate
<1> QED BY <1>1

(* Any group of processes with their identities is a candidate.             *)
LEMMA IsCandidate ==
  ASSUME NEW S \in SUBSET Pids, S # {}, NEW c \in [S -> Identity]
  PROVE  c \in Candidate
<1>1. S \in (SUBSET Pids) \ {{}}
  OBVIOUS
<1>2. [S -> Identity] \in {[T -> Identity] : T \in (SUBSET Pids) \ {{}}}
  BY <1>1
<1> QED BY <1>2 DEF Candidate

(* A set of numbers that is not empty has a least one.                     *)
LEMMA LeastNumber ==
  ASSUME NEW B \in SUBSET Nat, B # {}
  PROVE  \E n \in B : \A m \in B : n <= m
<1>1. PICK n \in B : \A m \in B : ~(<<m, n>> \in OpToRel(<, Nat))
  BY NatLessThanWellFounded, WFMin
<1>2. \A m \in B : ~(m < n)
  BY <1>1 DEF OpToRel
<1> QED BY <1>2

(* The leader of a candidate is one of its members.                        *)
LEMMA LeaderIsMember ==
  ASSUME Sizes, NEW c \in Candidate
  PROVE  Leader(c) \in DOMAIN c
<1> DEFINE S == {c[p].start : p \in DOMAIN c}
<1>1. \A p \in DOMAIN c : c[p].start \in 1..MaxStart
  BY CandidateFacts DEF Identity
<1>2. S \in SUBSET Nat /\ S # {}
  BY <1>1, CandidateFacts DEF Sizes
<1>3. PICK m \in S : \A n \in S : m <= n
  <2> HIDE DEF S
  <2> QED BY <1>2, LeastNumber
<1>5. \E p \in DOMAIN c : \A q \in DOMAIN c : c[p].start <= c[q].start
  BY <1>3
<1> QED BY <1>5 DEF Leader

(* What the dialog took of the processes when it listed a scope.           *)
LEMMA ObservedIsOffered ==
  ASSUME procs \in [Pids -> Identity \cup {None}], NEW a \in Scopes
  PROVE  Observed(a) \in Offered
<1> DEFINE c == Observed(a)
<1>1. \A p \in Members(a) : p \in Pids /\ procs[p] \in Identity /\ procs[p].app = a
  BY DEF Members, Alive
<1>2. Members(a) \in SUBSET Pids /\ Members(a) # {} /\ a \notin Guarded
  BY <1>1 DEF Scopes
<1>3. DOMAIN c = Members(a) /\ \A p \in Members(a) : c[p] = procs[p]
  BY DEF Observed
<1>4. c \in [Members(a) -> Identity]
  BY <1>1 DEF Observed
<1>5. c \in Candidate
  BY <1>2, <1>4, IsCandidate
<1> QED BY <1>1, <1>2, <1>3, <1>5 DEF Offered

(* The target of a choice does not change from the number typed to the     *)
(* request: the list is frozen while a number stands in the entry, the     *)
(* choice takes the candidate of that number, and a verified handle is one *)
(* of a member that is still what the user saw.                            *)
Held == [stage : {"handle", "verified"}, of : Candidate, pid : Pids, fd : Identity]

Kinds ==
  /\ procs \in [Pids -> Identity \cup {None}] /\ started \in 0..MaxStart
  /\ list.age \in 0..(MaxAge + 1) /\ list = [age |-> list.age, of |-> list.of]
  /\ \A n \in DOMAIN list.of : n \in 1..Cardinality(Apps) /\ list.of[n] \in Offered
  /\ entry \in 0..Cardinality(Apps) /\ busy \in BOOLEAN
  /\ worker = Idle \/ worker \in [stage : {"confirm", "accepted"}, of : Candidate] \/ worker \in Held
  /\ (worker.stage # "idle") = busy

ChosenInv ==
  /\ ~busy /\ entry # 0 /\ entry \in DOMAIN list.of => meant = list.of[entry]
  /\ worker.stage # "idle" => worker.of = meant /\ meant \in Offered
  /\ worker.stage \in {"handle", "verified"} => worker.pid \in DOMAIN meant
  /\ worker.stage = "verified" => worker.fd = meant[worker.pid]

TargetInv == Kinds /\ ChosenInv /\ OnlyChosenIsClosed

(* The dialog starts with nothing listed and nothing chosen.                *)
LEMMA InitTarget == ASSUME Sizes PROVE Init => TargetInv
<1> SUFFICES ASSUME Init PROVE TargetInv
  OBVIOUS
<1> USE DEF Init
<1>1. Cardinality(Apps) \in Nat
  BY FS_CardinalityType DEF Sizes
<1>2. Kinds
  <2>1. procs \in [Pids -> Identity \cup {None}] /\ started \in 0..MaxStart
    BY DEF Sizes
  <2>2. list.age \in 0..(MaxAge + 1) /\ list = [age |-> list.age, of |-> list.of]
    BY DEF NoList, Sizes
  <2>3. \A n \in DOMAIN list.of : n \in 1..Cardinality(Apps) /\ list.of[n] \in Offered
    BY DEF NoList
  <2>4. entry \in 0..Cardinality(Apps) /\ busy \in BOOLEAN
    <3>1. entry \in 0..Cardinality(Apps)
      BY <1>1
    <3>2. busy \in BOOLEAN
      OBVIOUS
    <3> QED BY <3>1, <3>2
  <2>5. worker = Idle /\ (worker.stage # "idle") = busy
    BY DEF Idle
  <2> QED BY <2>1, <2>2, <2>3, <2>4, <2>5 DEF Kinds
<1>3. ChosenInv
  BY DEF ChosenInv, NoList, Idle
<1>4. OnlyChosenIsClosed
  BY DEF OnlyChosenIsClosed
<1> QED BY <1>2, <1>3, <1>4 DEF TargetInv

(* The end of a choice leaves nothing of it behind.                        *)
LEMMA DoneKeeps ==
  ASSUME Sizes, TargetInv, Done
  PROVE  Kinds' /\ ChosenInv'
<1>1. Cardinality(Apps) \in Nat
  BY FS_CardinalityType DEF Sizes
<1>2. UNCHANGED <<procs, started, list>> /\ worker' = Idle /\ busy' = FALSE /\ entry' = 0
  BY DEF Done
<1>3. (worker.stage # "idle")' = busy'
  BY <1>2 DEF Idle
<1>4. entry' \in 0..Cardinality(Apps) /\ busy' \in BOOLEAN
  <2>1. entry' \in 0..Cardinality(Apps)
    BY <1>1, <1>2
  <2>2. busy' \in BOOLEAN
    BY <1>2
  <2> QED BY <2>1, <2>2
<1>5. Kinds'
  BY <1>2, <1>3, <1>4 DEF TargetInv, Kinds
<1>6. ChosenInv'
  BY <1>2 DEF ChosenInv, Idle
<1> QED BY <1>5, <1>6
(* There are no more scopes to list than applications.                     *)
LEMMA FewScopes ==
  ASSUME Sizes
  PROVE  /\ Cardinality(Apps) \in Nat /\ Cardinality(Scopes) \in Nat
         /\ Cardinality(Scopes) <= Cardinality(Apps)
<1>1. \A a \in Scopes : a \in Apps
  BY DEF Scopes
<1>2. Scopes \in SUBSET Apps /\ IsFiniteSet(Apps)
  BY <1>1 DEF Sizes
<1>3. IsFiniteSet(Scopes) /\ Cardinality(Scopes) <= Cardinality(Apps)
  BY <1>2, FS_Subset
<1> QED BY <1>2, <1>3, FS_CardinalityType

(* The processes change by themselves; the dialog and its worker only read  *)
(* them.                                                                   *)
LEMMA ProcessesKeep ==
  ASSUME Sizes, TargetInv, Starts \/ Exits
  PROVE  TargetInv'
<1>1. UNCHANGED <<list, entry, busy, worker, meant, closed>>
  BY DEF Starts, Exits
<1>2. procs \in [Pids -> Identity \cup {None}] /\ started \in 0..MaxStart /\ MaxStart \in Nat
  BY DEF TargetInv, Kinds, Sizes
<1>3. procs' \in [Pids -> Identity \cup {None}] /\ started' \in 0..MaxStart
  <2>1. CASE Starts
    <3>1. started' \in 1..MaxStart /\ started' \in 0..MaxStart
      BY <1>2, <2>1 DEF Starts
    <3>2. PICK p \in Pids, a \in Apps :
            procs' = [procs EXCEPT ![p] = [start |-> started', app |-> a]]
      BY <2>1 DEF Starts
    <3>3. [start |-> started', app |-> a] \in Identity
      BY <3>1 DEF Identity
    <3> QED BY <1>2, <3>1, <3>2, <3>3
  <2>2. CASE Exits
    BY <1>2, <2>2 DEF Exits
  <2> QED BY <2>1, <2>2
<1>4. Kinds'
  BY <1>1, <1>3 DEF TargetInv, Kinds
<1>5. ChosenInv'
  BY <1>1 DEF TargetInv, ChosenInv
<1>6. OnlyChosenIsClosed'
  BY <1>1 DEF TargetInv, OnlyChosenIsClosed
<1> QED BY <1>4, <1>5, <1>6 DEF TargetInv

(* The list ages, is taken anew or is dropped: not under a number that      *)
(* stands in the entry, except to be dropped.                              *)
LEMMA ListKeeps ==
  ASSUME Sizes, TargetInv, Ages \/ Refresh \/ DiskPressure
  PROVE  TargetInv'
<1>1. UNCHANGED <<procs, started, entry, busy, worker, meant, closed>>
  BY DEF Ages, Refresh, DiskPressure
<1>2. /\ MaxAge \in Nat /\ list.age \in 0..(MaxAge + 1)
      /\ list = [age |-> list.age, of |-> list.of]
      /\ \A n \in DOMAIN list.of : n \in 1..Cardinality(Apps) /\ list.of[n] \in Offered
  BY DEF TargetInv, Kinds, Sizes
<1> DEFINE Listed(l) == /\ l.age \in 0..(MaxAge + 1) /\ l = [age |-> l.age, of |-> l.of]
                        /\ \A n \in DOMAIN l.of : n \in 1..Cardinality(Apps) /\ l.of[n] \in Offered
<1>3. Listed(NoList) /\ DOMAIN NoList.of = {}
  BY <1>2 DEF NoList
<1>4. Listed(list') /\ (list'.of = list.of \/ list' = NoList \/ MayRefresh)
  <2>1. CASE Ages
    <3>1. list' = [age |-> list.age + 1, of |-> list.of] /\ list.age <= MaxAge
      BY <1>2, <2>1 DEF Ages
    <3> QED BY <1>2, <3>1
  <2>2. CASE DiskPressure \/ list' = NoList
    BY <1>3, <2>2 DEF DiskPressure
  <2>3. ASSUME MayRefresh, NEW f \in Rankings,
               list' = [age |-> 0, of |-> [n \in DOMAIN f |-> Observed(f[n])]]
        PROVE  Listed(list')
    <3>1. DOMAIN f = 1..Cardinality(Scopes) /\ \A n \in DOMAIN f : f[n] \in Scopes
      BY DEF Rankings
    <3>2. \A n \in DOMAIN f : n \in 1..Cardinality(Apps)
      BY <3>1, FewScopes
    <3>3. \A n \in DOMAIN f : Observed(f[n]) \in Offered
      BY <3>1, ObservedIsOffered DEF TargetInv, Kinds
    <3>4. list'.age = 0 /\ list'.of = [n \in DOMAIN f |-> Observed(f[n])]
      BY <2>3
    <3> QED BY <1>2, <2>3, <3>2, <3>3, <3>4
  <2> QED BY <2>1, <2>2, <2>3 DEF Refresh
<1>5. Kinds'
  BY <1>1, <1>4 DEF TargetInv, Kinds
<1>6. ChosenInv'
  BY <1>1, <1>3, <1>4 DEF TargetInv, ChosenInv, MayRefresh
<1>7. OnlyChosenIsClosed'
  BY <1>1 DEF TargetInv, OnlyChosenIsClosed
<1> QED BY <1>5, <1>6, <1>7 DEF TargetInv

(* The user types a number, chooses, confirms, or is turned away.           *)
LEMMA DialogKeeps ==
  ASSUME Sizes, TargetInv, Type \/ Choose \/ Reject \/ Accept
  PROVE  TargetInv'
<1>1. UNCHANGED <<procs, started, list, closed>>
  BY DEF Type, Choose, Reject, Accept
<1>2. OnlyChosenIsClosed'
  BY <1>1 DEF TargetInv, OnlyChosenIsClosed
<1>3. Cardinality(Apps) \in Nat
  BY FewScopes
<1>4. \A n \in DOMAIN list.of : n \in 1..Cardinality(Apps) /\ list.of[n] \in Offered
  BY DEF TargetInv, Kinds
<1>5. CASE Type
  <2>1. PICK n \in DOMAIN list.of : entry' = n /\ meant' = list.of[n]
    BY <1>5 DEF Type
  <2>2. UNCHANGED <<busy, worker>> /\ ~busy
    BY <1>5 DEF Type
  <2>3. entry' \in 0..Cardinality(Apps)
    BY <1>3, <1>4, <2>1
  <2>4. Kinds'
    BY <1>1, <2>2, <2>3 DEF TargetInv, Kinds
  <2>5. ChosenInv'
    BY <1>1, <2>1, <2>2 DEF TargetInv, Kinds, ChosenInv
  <2> QED BY <1>2, <2>4, <2>5 DEF TargetInv
<1>6. CASE Choose
  <2>1. /\ ~busy /\ entry \in DOMAIN list.of /\ entry # 0 /\ busy' = TRUE
        /\ worker' = [stage |-> "confirm", of |-> list.of[entry]] /\ UNCHANGED <<entry, meant>>
    BY <1>3, <1>4, <1>6 DEF Choose
  <2>2. meant = list.of[entry] /\ meant \in Offered
    BY <1>4, <2>1 DEF TargetInv, ChosenInv
  <2>3. worker' \in [stage : {"confirm", "accepted"}, of : Candidate]
    BY <2>1, <2>2 DEF Offered
  <2>4. (worker'.stage # "idle") = busy' /\ busy' \in BOOLEAN
    BY <2>1
  <2>5. Kinds'
    BY <1>1, <2>1, <2>3, <2>4 DEF TargetInv, Kinds
  <2>6. ChosenInv'
    BY <1>1, <2>1, <2>2 DEF ChosenInv
  <2> QED BY <1>2, <2>5, <2>6 DEF TargetInv
<1>7. CASE Reject
  <2>1. entry' = 0 /\ UNCHANGED <<busy, worker>> /\ ~busy
    BY <1>7 DEF Reject
  <2>2. Kinds'
    BY <1>1, <1>3, <2>1 DEF TargetInv, Kinds
  <2>3. ChosenInv'
    BY <1>1, <2>1 DEF TargetInv, Kinds, ChosenInv
  <2> QED BY <1>2, <2>2, <2>3 DEF TargetInv
<1>8. CASE Accept
  <2>1. worker.stage = "confirm" /\ UNCHANGED <<entry, busy, meant>>
    BY <1>8 DEF Accept
  <2>2. worker \in [stage : {"confirm", "accepted"}, of : Candidate]
    BY <2>1 DEF TargetInv, Kinds, Held, Idle
  <2>3. worker' = [stage |-> "accepted", of |-> worker.of]
    BY <1>8, <2>2 DEF Accept
  <2>4. worker' \in [stage : {"confirm", "accepted"}, of : Candidate]
    BY <2>2, <2>3
  <2>5. (worker'.stage # "idle") = busy'
    BY <2>1, <2>3 DEF TargetInv, Kinds
  <2>6. Kinds'
    BY <1>1, <2>1, <2>4, <2>5 DEF TargetInv, Kinds
  <2>7. ChosenInv'
    BY <1>1, <2>1, <2>3 DEF TargetInv, ChosenInv
  <2> QED BY <1>2, <2>6, <2>7 DEF TargetInv
<1> QED BY <1>5, <1>6, <1>7, <1>8
(* The worker opens its handle and verifies it: a verified handle is one of *)
(* the member that the user saw, since Verify compares both with the        *)
(* process that has the pid now.                                            *)
LEMMA WorkerKeeps ==
  ASSUME Sizes, TargetInv, OpenHandle \/ Verify
  PROVE  TargetInv'
<1>1. UNCHANGED <<procs, started, list, entry, busy, meant, closed>>
  BY DEF OpenHandle, Verify
<1>2. OnlyChosenIsClosed'
  BY <1>1 DEF TargetInv, OnlyChosenIsClosed
<1>3. worker.stage # "idle" /\ worker.of = meant /\ meant \in Offered /\ meant \in Candidate
  BY DEF OpenHandle, Verify, TargetInv, ChosenInv, Offered
<1>4. ASSUME worker' \in Held, worker'.of = worker.of, worker'.pid \in DOMAIN meant,
             worker'.stage = "verified" => worker'.fd = meant[worker'.pid]
      PROVE  TargetInv'
  <2>1. worker'.stage # "idle" /\ worker'.stage \in {"handle", "verified"}
    BY <1>4 DEF Held
  <2>2. (worker'.stage # "idle") = busy'
    BY <1>1, <1>3, <2>1 DEF TargetInv, Kinds
  <2>3. Kinds'
    BY <1>1, <1>4, <2>2 DEF TargetInv, Kinds
  <2>4. ChosenInv'
    BY <1>1, <1>3, <1>4, <2>1 DEF TargetInv, ChosenInv
  <2> QED BY <1>2, <2>3, <2>4 DEF TargetInv
<1>5. CASE OpenHandle
  <2> DEFINE p == Leader(worker.of)
  <2>1. p \in Alive /\ worker' = [stage |-> "handle", of |-> worker.of, pid |-> p, fd |-> procs[p]]
    BY <1>5 DEF OpenHandle
  <2>2. p \in DOMAIN meant
    BY <1>3, LeaderIsMember
  <2>3. p \in Pids /\ procs[p] \in Identity
    BY <2>1 DEF Alive, TargetInv, Kinds
  <2> HIDE DEF p
  <2>4. worker' \in Held
    BY <1>3, <2>1, <2>3 DEF Held
  <2> QED BY <1>4, <2>1, <2>2, <2>4
<1>6. CASE Verify
  <2>1. worker.stage = "handle" /\ procs[worker.pid] = worker.fd /\ Same(worker.of)
    BY <1>6 DEF Verify, Verified
  <2>2. worker \in Held
    BY <2>1 DEF TargetInv, Kinds, Idle
  <2>3. worker' = [stage |-> "verified", of |-> worker.of, pid |-> worker.pid, fd |-> worker.fd]
    BY <1>6, <2>2 DEF Verify, Held
  <2>4. worker.pid \in DOMAIN meant
    BY <2>1 DEF TargetInv, ChosenInv
  <2>5. worker.fd = meant[worker.pid]
    BY <1>3, <2>1, <2>4 DEF Same
  <2>6. worker' \in Held
    BY <2>2, <2>3 DEF Held
  <2> QED BY <1>4, <2>3, <2>4, <2>5, <2>6
<1> QED BY <1>5, <1>6

(* The choice ends: the request, when one is made, reaches a member of what *)
(* the user saw.                                                            *)
LEMMA EndKeeps ==
  ASSUME Sizes, TargetInv, Cancel \/ Signal \/ NormalClose \/ Refuse
  PROVE  TargetInv'
<1>1. Done
  BY DEF Cancel, Signal, NormalClose, Refuse
<1>2. Kinds' /\ ChosenInv'
  BY <1>1, DoneKeeps
<1>3. ASSUME meant \in Offered, NEW m \in DOMAIN meant,
             \A c \in closed' : c \in closed \/ c = [meant |-> meant, hit |-> meant[m]]
      PROVE  OnlyChosenIsClosed'
  <2>1. SUFFICES ASSUME NEW c \in closed'
                 PROVE  /\ \E p \in DOMAIN c.meant : c.hit = c.meant[p]
                        /\ c.hit.app \notin Guarded
    BY DEF OnlyChosenIsClosed
  <2>2. CASE c \in closed
    BY <2>2 DEF TargetInv, OnlyChosenIsClosed
  <2>3. CASE c \notin closed
    <3>1. c.meant = meant /\ c.hit = meant[m]
      BY <1>3, <2>3
    <3>2. meant[m].app \notin Guarded
      BY <1>3 DEF Offered
    <3> QED BY <3>1, <3>2
  <2> QED BY <2>2, <2>3
<1>4. OnlyChosenIsClosed'
  <2>1. CASE Cancel \/ Refuse
    BY <2>1 DEF Cancel, Refuse, TargetInv, OnlyChosenIsClosed
  <2>2. CASE Signal
    <3>1. /\ worker.stage = "verified" /\ meant \in Offered
          /\ worker.fd = meant[worker.pid] /\ worker.pid \in DOMAIN meant
      BY <2>2 DEF Signal, TargetInv, ChosenInv
    <3>2. \A i \in Reaches(worker) : i = meant[worker.pid]
      BY <3>1 DEF Reaches
    <3>3. closed' = closed \cup {[meant |-> meant, hit |-> i] : i \in Reaches(worker)}
      BY <2>2 DEF Signal
    <3>4. \A c \in closed' : c \in closed \/ c = [meant |-> meant, hit |-> meant[worker.pid]]
      BY <3>2, <3>3
    <3> QED BY <1>3, <3>1, <3>4
  <2>3. CASE NormalClose
    <3>1. worker.of = meant /\ meant \in Offered
      BY <2>3 DEF NormalClose, TargetInv, ChosenInv
    <3>2. PICK p \in DOMAIN worker.of : /\ procs[p] = worker.of[p]
                                        /\ closed' = closed \cup {[meant |-> meant, hit |-> procs[p]]}
      BY <2>3 DEF NormalClose
    <3>3. \A c \in closed' : c \in closed \/ c = [meant |-> meant, hit |-> meant[p]]
      BY <3>1, <3>2
    <3> QED BY <1>3, <3>1, <3>2, <3>3
  <2> QED BY <2>1, <2>2, <2>3
<1> QED BY <1>2, <1>4 DEF TargetInv

(* Every step of the processes, the dialog and its worker keeps the target. *)
LEMMA NextTarget == ASSUME Sizes PROVE TargetInv /\ [Next]_vars => TargetInv'
<1> SUFFICES ASSUME TargetInv, [Next]_vars PROVE TargetInv'
  OBVIOUS
<1>1. CASE Starts \/ Exits
  BY <1>1, ProcessesKeep
<1>2. CASE Ages \/ Refresh \/ DiskPressure
  BY <1>2, ListKeeps
<1>3. CASE Type \/ Choose \/ Reject \/ Accept
  BY <1>3, DialogKeeps
<1>4. CASE OpenHandle \/ Verify
  BY <1>4, WorkerKeeps
<1>5. CASE Cancel \/ Signal \/ NormalClose \/ Refuse
  BY <1>5, EndKeeps
<1>6. CASE UNCHANGED vars
  BY <1>6 DEF vars, TargetInv, Kinds, ChosenInv, OnlyChosenIsClosed
<1> QED BY <1>1, <1>2, <1>3, <1>4, <1>5, <1>6 DEF Next

(* A request to close reaches only a process that the user saw under the    *)
(* number he typed, and never one of a protected application, however many  *)
(* processes start, end and take the pids of others meanwhile.              *)
THEOREM ClosesOnlyTheChosen == ASSUME Sizes PROVE Spec => []OnlyChosenIsClosed
<1>1. Init => TargetInv
  BY InitTarget
<1>2. TargetInv /\ [Next]_vars => TargetInv'
  BY NextTarget
<1>3. TargetInv => OnlyChosenIsClosed
  BY DEF TargetInv
<1> QED BY <1>1, <1>2, <1>3, PTL DEF Spec

(* What the target is made of are its types.                                *)
LEMMA TypedTarget == ASSUME TargetInv PROVE TypeOK
<1>1. worker.stage \in {"idle", "confirm", "accepted", "handle", "verified"}
  BY DEF TargetInv, Kinds, Held, Idle
<1> QED BY <1>1 DEF TargetInv, Kinds, TypeOK, Offered

(* The dialog stays in its types: what it lists are candidates, and a       *)
(* choice is under way exactly when the dialog is busy.                     *)
THEOREM TargetTypes == ASSUME Sizes PROVE Spec => []TypeOK
<1>1. Init => TargetInv
  BY InitTarget
<1>2. TargetInv /\ [Next]_vars => TargetInv'
  BY NextTarget
<1>3. TargetInv => TypeOK
  BY TypedTarget
<1> QED BY <1>1, <1>2, <1>3, PTL DEF Spec
-----------------------------------------------------------------------------
(* The incidents of the compositor.                                         *)

Bounds == Window \in Nat /\ MaxCrashes \in Nat /\ MaxTime \in Nat

(* What crashed is still to be dumped, still to be read, or was read; an    *)
(* entry is being worked on only while it is unread.                        *)
Desk ==
  /\ now \in 0..MaxTime /\ crashes \in 0..MaxCrashes
  /\ shell \in 0..(crashes + 1) /\ previous \in 0..(MaxCrashes + 1)
  /\ dumps \in Nat /\ unread \in Nat /\ ids \in Nat
  /\ dumps <= crashes /\ dumps + unread <= 2 * crashes
Jobs ==
  /\ job \in [G!Threads -> [at : G!Stages, id : 0..ids]]
  /\ job["journal"].at # "idle" => unread >= 1

(* The age of the id that is held is the time since its first report, which *)
(* is why an id that is young enough to be used again has not yet reached   *)
(* the end of its window.                                                   *)
Incidents ==
  /\ recent \in [age : Nat, id : 0..ids] /\ recent.age <= now
  /\ seen \in [1..ids -> [first : Nat, last : Nat]]
  /\ recent.id # 0 => seen[recent.id].first + recent.age = now

IncidentInv == Desk /\ Jobs /\ Incidents /\ G!IncidentIsBounded

(* At the start there is no incident.                                       *)
LEMMA InitIncidents == ASSUME Bounds PROVE G!Init => IncidentInv
<1> SUFFICES ASSUME G!Init PROVE IncidentInv
  OBVIOUS
<1> USE DEF G!Init, Bounds
<1>1. Desk
  BY DEF Desk
<1>2. Jobs
  BY DEF Jobs, G!Threads, G!Stages, G!Idle, G!NoId
<1>3. seen \in [1..ids -> [first : Nat, last : Nat]]
  OBVIOUS
<1>4. Incidents
  BY <1>3 DEF Incidents, Desk, G!None, G!NoId
<1>5. G!IncidentIsBounded
  BY DEF G!IncidentIsBounded
<1> QED BY <1>1, <1>2, <1>4, <1>5 DEF IncidentInv

(* Crashes and restarts of the shell, and the watch's poll of it.           *)
LEMMA DeskKeeps ==
  ASSUME Bounds, IncidentInv,
         G!ShellCrashes \/ G!ShellStarts \/ G!CoreDumped \/ G!Poll \/ G!Read \/ G!Store
  PROVE  IncidentInv'
<1>1. UNCHANGED <<now, recent, ids, seen>>
  BY DEF G!ShellCrashes, G!ShellStarts, G!CoreDumped, G!Poll, G!Read, G!Store, G!world
<1>2. Incidents' /\ G!IncidentIsBounded'
  BY <1>1 DEF IncidentInv, Incidents, G!IncidentIsBounded
<1>3. /\ now \in 0..MaxTime /\ crashes \in 0..MaxCrashes /\ MaxCrashes \in Nat
      /\ shell \in 0..(crashes + 1) /\ previous \in 0..(MaxCrashes + 1)
      /\ dumps \in Nat /\ unread \in Nat /\ ids \in Nat
      /\ dumps <= crashes /\ dumps + unread <= 2 * crashes
  BY DEF IncidentInv, Desk, Bounds
<1>4. /\ job \in [G!Threads -> [at : G!Stages, id : 0..ids]]
      /\ job["journal"].at # "idle" => unread >= 1
  BY DEF IncidentInv, Jobs
<1>5. "watch" \in G!Threads /\ "journal" \in G!Threads /\ 0 \in 0..ids
  BY <1>3 DEF G!Threads
<1>6. CASE G!ShellCrashes
  <2>1. /\ crashes' = crashes + 1 /\ shell' = 0 /\ dumps' = dumps + 1 /\ crashes < MaxCrashes
        /\ unread' = unread \/ unread' = unread + 1
        /\ UNCHANGED <<previous, job>>
    BY <1>6 DEF G!ShellCrashes
  <2>2. Desk'
    BY <1>1, <1>3, <2>1 DEF Desk
  <2>3. Jobs'
    BY <1>1, <1>3, <1>4, <2>1 DEF Jobs
  <2> QED BY <1>2, <2>2, <2>3 DEF IncidentInv
<1>7. CASE G!ShellStarts
  <2>1. shell' = crashes + 1 /\ UNCHANGED <<crashes, dumps, unread, previous, job>>
    BY <1>7 DEF G!ShellStarts
  <2>2. Desk'
    BY <1>1, <1>3, <2>1 DEF Desk
  <2>3. Jobs'
    BY <1>1, <1>4, <2>1 DEF Jobs
  <2> QED BY <1>2, <2>2, <2>3 DEF IncidentInv
<1>8. CASE G!CoreDumped
  <2>1. /\ dumps > 0 /\ dumps' = dumps - 1 /\ unread' = unread + 1
        /\ UNCHANGED <<shell, crashes, previous, job>>
    BY <1>8 DEF G!CoreDumped
  <2>2. Desk'
    BY <1>1, <1>3, <2>1 DEF Desk
  <2>3. Jobs'
    BY <1>1, <1>3, <1>4, <2>1 DEF Jobs
  <2> QED BY <1>2, <2>2, <2>3 DEF IncidentInv
<1>9. CASE G!Poll
  <2>1. previous' = shell /\ UNCHANGED <<shell, crashes, dumps, unread>>
    BY <1>9 DEF G!Poll, G!world
  <2>2. Desk'
    BY <1>1, <1>3, <2>1 DEF Desk
  <2>3. \/ job' = [job EXCEPT !["watch"] = [at |-> "look", id |-> 0]]
        \/ job' = job
    BY <1>9 DEF G!Poll, G!Idle, G!NoId
  <2>4. [at |-> "look", id |-> 0] \in [at : G!Stages, id : 0..ids]
    BY <1>5 DEF G!Stages
  <2>5. job' \in [G!Threads -> [at : G!Stages, id : 0..ids]] /\ job'["journal"] = job["journal"]
    BY <1>4, <1>5, <2>3, <2>4
  <2>6. Jobs'
    BY <1>1, <1>4, <2>1, <2>5 DEF Jobs
  <2> QED BY <1>2, <2>2, <2>6 DEF IncidentInv
<1>10. CASE G!Read
  <2>1. unread > 0 /\ UNCHANGED <<shell, crashes, dumps, unread, previous>>
    BY <1>10 DEF G!Read, G!world
  <2>2. Desk'
    BY <1>1, <1>3, <2>1 DEF Desk
  <2>3. job' = [job EXCEPT !["journal"] = [at |-> "look", id |-> 0]]
    <3>1. [G!Idle EXCEPT !.at = "look"] = [at |-> "look", id |-> 0]
      BY DEF G!Idle, G!NoId
    <3> QED BY <1>10, <3>1 DEF G!Read
  <2>4. [at |-> "look", id |-> 0] \in [at : G!Stages, id : 0..ids]
    BY <1>5 DEF G!Stages
  <2>5. job' \in [G!Threads -> [at : G!Stages, id : 0..ids]]
    BY <1>4, <2>3, <2>4
  <2>6. Jobs'
    <3>1. unread' >= 1
      BY <1>3, <2>1
    <3> QED BY <1>1, <2>5, <3>1 DEF Jobs
  <2> QED BY <1>2, <2>2, <2>6 DEF IncidentInv
<1>11. CASE G!Store
  <2>1. /\ job["journal"].at = "store" /\ unread' = unread - 1
        /\ UNCHANGED <<shell, crashes, dumps, previous>>
    BY <1>11 DEF G!Store, G!world
  <2>2. unread >= 1
    BY <1>4, <2>1
  <2>3. Desk'
    BY <1>1, <1>3, <2>1, <2>2 DEF Desk
  <2>4. job' = [job EXCEPT !["journal"] = [at |-> "idle", id |-> 0]]
    BY <1>11 DEF G!Store, G!Idle, G!NoId
  <2>5. [at |-> "idle", id |-> 0] \in [at : G!Stages, id : 0..ids]
    BY <1>5 DEF G!Stages
  <2>6. /\ job' \in [G!Threads -> [at : G!Stages, id : 0..ids]]
        /\ job'["journal"].at = "idle"
    BY <1>4, <1>5, <2>4, <2>5
  <2>7. Jobs'
    BY <1>1, <2>6 DEF Jobs
  <2> QED BY <1>2, <2>3, <2>7 DEF IncidentInv
<1> QED BY <1>6, <1>7, <1>8, <1>9, <1>10, <1>11
(* A report under an id that is still recent comes within its window; a new *)
(* id opens a window of its own.                                            *)
LEMMA ReportKeeps ==
  ASSUME Bounds, IncidentInv, NEW t \in G!Threads, G!Look(t) \/ G!Register(t)
  PROVE  IncidentInv'
<1>1. UNCHANGED <<now, shell, crashes, dumps, unread, previous>>
  BY DEF G!Look, G!Register, G!world
<1>2. now \in Nat /\ ids \in Nat /\ Window \in Nat
  BY DEF IncidentInv, Desk, Bounds
<1>3. /\ job \in [G!Threads -> [at : G!Stages, id : 0..ids]]
      /\ job["journal"].at # "idle" => unread >= 1
  BY DEF IncidentInv, Jobs
<1>4. /\ recent \in [age : Nat, id : 0..ids] /\ recent.age <= now
      /\ seen \in [1..ids -> [first : Nat, last : Nat]]
      /\ recent.id # 0 => seen[recent.id].first + recent.age = now
  BY DEF IncidentInv, Incidents
<1>5. \A i \in 1..ids : seen[i].last - seen[i].first <= Window
  BY DEF IncidentInv, G!IncidentIsBounded
<1>6. ASSUME NEW s \in G!Stages, NEW i \in 0..ids', job[t].at # "idle",
             ids' \in Nat, ids <= ids', job' = [job EXCEPT ![t] = [at |-> s, id |-> i]]
      PROVE  Jobs'
  <2> DEFINE r == [at |-> s, id |-> i]
  <2>0. r \in [at : G!Stages, id : 0..ids'] /\ job' = [job EXCEPT ![t] = r]
    BY <1>6
  <2> HIDE DEF r
  <2>1. \A u \in G!Threads : job[u] \in [at : G!Stages, id : 0..ids']
    BY <1>2, <1>3, <1>6
  <2>2. job' \in [G!Threads -> [at : G!Stages, id : 0..ids']]
    BY <1>3, <2>0, <2>1
  <2>3. job'["journal"].at # "idle" => unread' >= 1
    BY <1>1, <1>3, <1>6, <2>0 DEF G!Threads
  <2> QED BY <2>2, <2>3 DEF Jobs
<1>7. CASE G!Look(t)
  <2>1. UNCHANGED ids /\ job[t].at = "look"
    BY <1>7 DEF G!Look
  <2>2. Desk'
    BY <1>1, <2>1 DEF IncidentInv, Desk
  <2>3. CASE G!IsRecent
    <3>1. recent.id \in 1..ids /\ recent.age <= Window
      BY <1>2, <1>4, <2>3 DEF G!IsRecent, G!NoId
    <3>2. /\ recent' = recent /\ seen' = [seen EXCEPT ![recent.id].last = now]
          /\ job' = [job EXCEPT ![t] = [at |-> "capture", id |-> recent.id]]
      BY <1>7, <2>3 DEF G!Look, G!Kept
    <3>3. recent.id \in 0..ids' /\ ids' \in Nat /\ ids <= ids' /\ job[t].at # "idle"
      BY <1>2, <1>4, <2>1
    <3>4. Jobs'
      <4>1. "capture" \in G!Stages
        BY DEF G!Stages
      <4> QED BY <1>6, <3>2, <3>3, <4>1
    <3>5. /\ seen' \in [1..ids -> [first : Nat, last : Nat]]
          /\ seen'[recent.id].first = seen[recent.id].first /\ seen'[recent.id].last = now
          /\ \A i \in 1..ids : i # recent.id => seen'[i] = seen[i]
      BY <1>2, <1>4, <3>1, <3>2
    <3>6. Incidents'
      BY <1>1, <1>4, <2>1, <3>2, <3>5 DEF Incidents
    <3>7. now - seen[recent.id].first <= Window
      <4>1. recent.id # 0 /\ recent.age \in Nat /\ seen[recent.id].first \in Nat
        BY <1>2, <1>4, <3>1
      <4> QED BY <1>2, <1>4, <3>1, <4>1
    <3>8. G!IncidentIsBounded'
      BY <1>5, <2>1, <3>5, <3>7 DEF G!IncidentIsBounded
    <3> QED BY <2>2, <3>4, <3>6, <3>8 DEF IncidentInv
  <2>4. CASE ~G!IsRecent
    <3>1. /\ recent' = [age |-> 0, id |-> 0] /\ seen' = seen
          /\ job' = [job EXCEPT ![t] = [at |-> "register", id |-> 0]]
      BY <1>7, <2>4 DEF G!Look, G!Kept, G!None, G!NoId
    <3>2. 0 \in 0..ids' /\ ids' \in Nat /\ ids <= ids' /\ job[t].at # "idle"
      BY <1>2, <2>1
    <3>3. Jobs'
      <4>1. "register" \in G!Stages
        BY DEF G!Stages
      <4> QED BY <1>6, <3>1, <3>2, <4>1
    <3>4. Incidents'
      BY <1>1, <1>2, <1>4, <2>1, <3>1 DEF Incidents
    <3>5. G!IncidentIsBounded'
      BY <1>5, <2>1, <3>1 DEF G!IncidentIsBounded
    <3> QED BY <2>2, <3>3, <3>4, <3>5 DEF IncidentInv
  <2> QED BY <2>3, <2>4
<1>8. CASE G!Register(t)
  <2>1. /\ job[t].at = "register" /\ ids' = ids + 1 /\ recent' = [age |-> 0, id |-> ids']
        /\ job' = [job EXCEPT ![t] = [at |-> "capture", id |-> ids']]
        /\ seen' = [i \in 1..ids' |-> IF i = ids' THEN [first |-> now, last |-> now] ELSE seen[i]]
    BY <1>8 DEF G!Register
  <2>2. ids' \in Nat /\ ids <= ids' /\ ids' \in 1..ids'
    BY <1>2, <2>1
  <2>3. Desk'
    BY <1>1, <2>2 DEF IncidentInv, Desk
  <2>4. "capture" \in G!Stages /\ ids' \in 0..ids' /\ job[t].at # "idle"
    BY <2>1, <2>2 DEF G!Stages
  <2>5. Jobs'
    BY <1>6, <2>1, <2>2, <2>4
  <2>6. \A i \in 1..ids' : \/ i = ids' /\ seen'[i] = [first |-> now, last |-> now]
                           \/ i \in 1..ids /\ seen'[i] = seen[i]
    BY <1>2, <2>1
  <2>7. seen' \in [1..ids' -> [first : Nat, last : Nat]]
    BY <1>2, <1>4, <2>1, <2>6
  <2>8. seen'[ids'].first = now
    BY <2>1, <2>2
  <2>9. Incidents'
    BY <1>1, <1>2, <2>1, <2>2, <2>7, <2>8 DEF Incidents
  <2>10. G!IncidentIsBounded'
    BY <1>2, <1>5, <2>6 DEF G!IncidentIsBounded
  <2> QED BY <2>3, <2>5, <2>9, <2>10 DEF IncidentInv
<1> QED BY <1>7, <1>8

(* The bundle is written and the row inserted.                              *)
LEMMA WriteKeeps ==
  ASSUME Bounds, IncidentInv, NEW t \in G!Threads, G!Capture(t) \/ G!Insert(t)
  PROVE  IncidentInv'
<1>1. UNCHANGED <<now, shell, crashes, dumps, unread, previous, recent, ids, seen>>
  BY DEF G!Capture, G!Insert, G!world
<1>2. Desk' /\ Incidents' /\ G!IncidentIsBounded'
  BY <1>1 DEF IncidentInv, Desk, Incidents, G!IncidentIsBounded
<1>3. /\ job \in [G!Threads -> [at : G!Stages, id : 0..ids]]
      /\ job["journal"].at # "idle" => unread >= 1
      /\ ids \in Nat
  BY DEF IncidentInv, Jobs, Desk
<1>4. PICK s \in {"insert", "store", "idle"}, i \in 0..ids :
        job' = [job EXCEPT ![t] = [at |-> s, id |-> i]]
  <2>1. job[t] = [at |-> job[t].at, id |-> job[t].id] /\ job[t].id \in 0..ids /\ 0 \in 0..ids
    BY <1>3
  <2>2. CASE G!Capture(t)
    <3>1. job' = [job EXCEPT ![t] = [job[t] EXCEPT !.at = "insert"]]
      BY <2>2 DEF G!Capture
    <3>2. [job[t] EXCEPT !.at = "insert"] = [at |-> "insert", id |-> job[t].id]
      BY <2>1
    <3>3. job' = [job EXCEPT ![t] = [at |-> "insert", id |-> job[t].id]]
      BY <3>1, <3>2
    <3> QED BY <2>1, <3>3
  <2>3. CASE G!Insert(t) /\ t = "watch"
    <3>1. job' = [job EXCEPT ![t] = [at |-> "idle", id |-> 0]]
      BY <2>3 DEF G!Insert, G!Idle, G!NoId
    <3> QED BY <2>1, <3>1
  <2>4. CASE G!Insert(t) /\ t # "watch"
    <3>1. job' = [job EXCEPT ![t] = [job[t] EXCEPT !.at = "store"]]
      BY <2>4 DEF G!Insert
    <3>2. [job[t] EXCEPT !.at = "store"] = [at |-> "store", id |-> job[t].id]
      BY <2>1
    <3>3. job' = [job EXCEPT ![t] = [at |-> "store", id |-> job[t].id]]
      BY <3>1, <3>2
    <3> QED BY <2>1, <3>3
  <2> QED BY <2>2, <2>3, <2>4
<1>5. job[t].at # "idle"
  BY DEF G!Capture, G!Insert
<1>6. [at |-> s, id |-> i] \in [at : G!Stages, id : 0..ids]
  BY DEF G!Stages
<1>7. job' \in [G!Threads -> [at : G!Stages, id : 0..ids]]
  BY <1>3, <1>4, <1>6
<1>8. job'["journal"].at # "idle" => unread' >= 1
  BY <1>1, <1>3, <1>4, <1>5 DEF G!Threads
<1>9. Jobs'
  BY <1>1, <1>7, <1>8 DEF Jobs
<1> QED BY <1>2, <1>9 DEF IncidentInv

(* Time passes, and with it the id that is held; a restart forgets it.       *)
LEMMA TimeKeeps ==
  ASSUME Bounds, IncidentInv, G!Tick \/ G!Restart
  PROVE  IncidentInv'
<1>1. UNCHANGED <<shell, crashes, dumps, unread, ids, seen>>
  BY DEF G!Tick, G!Restart, G!world
<1>2. G!IncidentIsBounded'
  BY <1>1 DEF IncidentInv, G!IncidentIsBounded
<1>3. now \in 0..MaxTime /\ MaxTime \in Nat /\ ids \in Nat /\ now \in Nat
  BY DEF IncidentInv, Desk, Bounds
<1>4. /\ recent \in [age : Nat, id : 0..ids] /\ recent.age <= now
      /\ seen \in [1..ids -> [first : Nat, last : Nat]]
      /\ recent.id # 0 => seen[recent.id].first + recent.age = now
  BY DEF IncidentInv, Incidents
<1>5. CASE G!Tick
  <2>1. now < MaxTime /\ now' = now + 1 /\ UNCHANGED <<previous, job>>
    BY <1>5 DEF G!Tick
  <2>2. Desk'
    BY <1>1, <1>3, <2>1 DEF IncidentInv, Desk
  <2>3. Jobs'
    BY <1>1, <2>1 DEF IncidentInv, Jobs
  <2>4. \/ recent' = [age |-> 0, id |-> 0]
        \/ recent' = [age |-> recent.age + 1, id |-> recent.id]
    BY <1>4, <1>5 DEF G!Tick, G!None, G!NoId
  <2>5. recent.id # 0 => seen[recent.id].first \in Nat
    BY <1>3, <1>4
  <2>6. /\ recent' \in [age : Nat, id : 0..ids] /\ recent'.age <= now'
        /\ recent'.id # 0 => recent'.id = recent.id /\ recent'.age = recent.age + 1
    BY <1>3, <1>4, <2>1, <2>4
  <2>7. recent'.id # 0 => seen[recent'.id].first + recent'.age = now'
    <3> SUFFICES ASSUME recent'.id # 0 PROVE seen[recent.id].first + (recent.age + 1) = now + 1
      BY <2>1, <2>6
    <3> DEFINE f == seen[recent.id].first
               a == recent.age
    <3>1. recent.id # 0 /\ a \in Nat
      BY <1>4, <2>6
    <3>2. f \in Nat /\ f + a = now
      BY <1>4, <2>5, <3>1
    <3> HIDE DEF f, a
    <3>3. f + (a + 1) = now + 1
      BY <1>3, <3>1, <3>2
    <3> QED BY <3>3 DEF f, a
  <2>8. Incidents'
    BY <1>1, <1>4, <2>6, <2>7 DEF Incidents
  <2> QED BY <1>2, <2>2, <2>3, <2>8 DEF IncidentInv
<1>6. CASE G!Restart
  <2>1. /\ job' = [t \in G!Threads |-> [at |-> "idle", id |-> 0]]
        /\ recent' = [age |-> 0, id |-> 0] /\ previous' = shell /\ UNCHANGED now
    BY <1>6 DEF G!Restart, G!world, G!None, G!Idle, G!NoId
  <2>2. Desk'
    BY <1>1, <2>1 DEF IncidentInv, Desk, Bounds
  <2>3. [at |-> "idle", id |-> 0] \in [at : G!Stages, id : 0..ids]
    BY <1>3 DEF G!Stages
  <2>4. Jobs'
    BY <1>1, <2>1, <2>3 DEF Jobs, G!Threads
  <2>5. Incidents'
    BY <1>1, <1>3, <1>4, <2>1 DEF Incidents
  <2> QED BY <1>2, <2>2, <2>4, <2>5 DEF IncidentInv
<1> QED BY <1>5, <1>6

(* Every step keeps the incidents within their windows.                     *)
LEMMA NextIncidents ==
  ASSUME Bounds PROVE IncidentInv /\ [G!Next]_(G!vars) => IncidentInv'
<1> SUFFICES ASSUME IncidentInv, [G!Next]_(G!vars) PROVE IncidentInv'
  OBVIOUS
<1>1. CASE G!ShellCrashes \/ G!ShellStarts \/ G!CoreDumped \/ G!Poll \/ G!Read \/ G!Store
  BY <1>1, DeskKeeps
<1>2. CASE \E t \in G!Threads : G!Look(t) \/ G!Register(t)
  BY <1>2, ReportKeeps
<1>3. CASE \E t \in G!Threads : G!Capture(t) \/ G!Insert(t)
  BY <1>3, WriteKeeps
<1>4. CASE G!Tick \/ G!Restart
  BY <1>4, TimeKeeps
<1>5. CASE UNCHANGED G!vars
  BY <1>5 DEF G!vars, IncidentInv, Desk, Jobs, Incidents, G!IncidentIsBounded
<1> QED BY <1>1, <1>2, <1>3, <1>4, <1>5 DEF G!Next

(* However often the shell crashes, whenever its dumps arrive and whichever *)
(* thread reports them, the reports of one id lie within one window.        *)
THEOREM IncidentsAreBounded == ASSUME Bounds PROVE G!Spec => []G!IncidentIsBounded
<1>1. G!Init => IncidentInv
  BY InitIncidents
<1>2. IncidentInv /\ [G!Next]_(G!vars) => IncidentInv'
  BY NextIncidents
<1>3. IncidentInv => G!IncidentIsBounded
  BY DEF IncidentInv
<1> QED BY <1>1, <1>2, <1>3, PTL DEF G!Spec

(* The same of the composition that is checked: the other parts of the       *)
(* desktop leave what the incidents are made of alone.                       *)
THEOREM DesktopIncidents == ASSUME Bounds PROVE AllSpec => []IncidentIsBounded
<1>1. AllInit => IncidentInv
  BY InitIncidents DEF AllInit
<1>2. IncidentInv /\ [AllNext]_allVars => IncidentInv'
  <2>1. [AllNext]_allVars => [G!Next]_(G!vars)
    BY DEF AllNext, Rescue, allVars, incidentVars, G!vars
  <2> QED BY <2>1, NextIncidents
<1>3. IncidentInv => IncidentIsBounded
  BY DEF IncidentInv, IncidentIsBounded
<1> QED BY <1>1, <1>2, <1>3, PTL DEF AllSpec

(* What the incidents are made of are their types.                          *)
LEMMA TypedIncidents == ASSUME Bounds, IncidentInv PROVE G!TypeOK
<1>1. now \in 0..MaxTime /\ crashes \in 0..MaxCrashes /\ previous \in 0..(MaxCrashes + 1)
  BY DEF IncidentInv, Desk
<1>2. shell \in 0..(MaxCrashes + 1) /\ dumps \in 0..MaxCrashes /\ unread \in 0..(2 * MaxCrashes)
  BY DEF IncidentInv, Desk, Bounds
<1>3. recent \in [age : 0..MaxTime, id : 0..ids]
  BY <1>1 DEF IncidentInv, Incidents, Bounds
<1>4. job \in [G!Threads -> [at : G!Stages, id : 0..ids]] /\ DOMAIN seen = 1..ids
  BY DEF IncidentInv, Jobs, Incidents
<1> QED BY <1>1, <1>2, <1>3, <1>4 DEF G!TypeOK

(* The counters of a crash stay within what crashed: the follower has an    *)
(* entry in hand only while one is unread, and both threads hold only ids   *)
(* that were made.                                                          *)
THEOREM IncidentTypes == ASSUME Bounds PROVE G!Spec => []G!TypeOK
<1>1. G!Init => IncidentInv
  BY InitIncidents
<1>2. IncidentInv /\ [G!Next]_(G!vars) => IncidentInv'
  BY NextIncidents
<1>3. IncidentInv => G!TypeOK
  BY TypedIncidents
<1> QED BY <1>1, <1>2, <1>3, PTL DEF G!Spec

-----------------------------------------------------------------------------
(* The provisioning of Kuma.                                                 *)

(* What the proofs about KumaAdmin take of its constants: names are numbered *)
(* in their order, the list comes in time, and the file has other keys too.  *)
Provision ==
  /\ IsFiniteSet(Asked) /\ Asked = 1..Cardinality(Asked)
  /\ Prompt = TRUE /\ MaxMonitors \in Nat \ {0} /\ OtherKeys \cap Asked = {}

(* Where a run can be.                                                       *)
Runs == {"idle", "login", "list", "spec", "write", "verify", "verified"}

(* A run has the tokens of the names it went through.                        *)
KumaTypes ==
  /\ used \in Nat /\ DOMAIN kuma \subseteq 1..used /\ DOMAIN known \subseteq 1..used
  /\ \A i \in DOMAIN kuma : kuma[i] \in Asked
  /\ DOMAIN file = Asked \cup OtherKeys
  /\ command = [at |-> command.at, next |-> command.next, tokens |-> command.tokens]
  /\ command.at \in Runs /\ command.next \in Nat /\ command.next >= 1
  /\ DOMAIN command.tokens = 1..(command.next - 1)
  /\ command.at \in {"write", "verify", "verified"} => command.next = Cardinality(Asked) + 1
  /\ command.at \in {"login", "list"} => command.next = 1

(* Token t of name s is that of its monitor, unless that was deleted.        *)
Serves(s, t) == s \in removed \/ (t \in DOMAIN kuma /\ kuma[t] = s)

(* The same after a step.                                                    *)
ServesNext(s, t) == s \in removed' \/ (t \in DOMAIN kuma' /\ kuma'[t] = s)

(* The client's copy is of some time before; while a run goes through the    *)
(* names, it shows every monitor of a name that is still to come.            *)
CopyInv ==
  /\ \A i \in DOMAIN kuma \cap DOMAIN known : kuma[i] = known[i]
  /\ command.at = "spec" => \A i \in DOMAIN kuma : kuma[i] >= command.next => i \in DOMAIN known

(* What the run has taken, and what the file says, are tokens of monitors.   *)
TokenInv ==
  /\ \A i, j \in DOMAIN kuma : kuma[i] = kuma[j] => i = j
  /\ \A s \in DOMAIN command.tokens : command.tokens[s] # K!NoToken /\ Serves(s, command.tokens[s])
  /\ \A s \in Asked : file[s] # K!NoToken => Serves(s, file[s])
  /\ command.at \in {"verify", "verified"} => \A s \in Asked : file[s] # K!NoToken
  /\ \A k \in OtherKeys : file[k] = first[k]

(* Why no name has two monitors, however a run ends.                         *)
KumaInv == KumaTypes /\ CopyInv /\ TokenInv

(* The run that stands before the first name, and the one that is none.      *)
LEMMA FreshRun ==
  ASSUME NEW at \in Runs
  PROVE  /\ [K!NoRun EXCEPT !.at = at] = [at |-> at, next |-> 1, tokens |-> K!NoRun.tokens]
         /\ [K!NoRun EXCEPT !.at = at].at = at /\ [K!NoRun EXCEPT !.at = at].next = 1
         /\ [K!NoRun EXCEPT !.at = at].tokens = K!NoRun.tokens
         /\ K!NoRun = [at |-> "idle", next |-> 1, tokens |-> K!NoRun.tokens]
         /\ K!NoRun.at = "idle" /\ K!NoRun.next = 1 /\ DOMAIN K!NoRun.tokens = {}
  BY DEF K!NoRun

(* Names are numbers.                                                        *)
LEMMA AskedNumbers ==
  ASSUME Provision PROVE Cardinality(Asked) \in Nat /\ \A s \in Asked : s \in Nat /\ s >= 1
<1>1. Cardinality(Asked) \in Nat
  BY FS_CardinalityType DEF Provision
<1>2. \A s \in 1..Cardinality(Asked) : s \in Nat /\ s >= 1
  BY <1>1
<1> QED BY <1>1, <1>2 DEF Provision

(* Nothing is provisioned at first.                                          *)
LEMMA InitKuma == ASSUME Provision, K!Init PROVE KumaInv
<1>1. kuma = K!NoMonitors /\ used = 0 /\ known = K!NoMonitors /\ command = K!NoRun /\ first = file
      /\ DOMAIN kuma = {} /\ DOMAIN known = {}
  BY DEF K!Init, K!NoMonitors
<1>2. DOMAIN file = Asked \cup OtherKeys /\ \A s \in Asked : file[s] = K!NoToken
  BY DEF K!Init, Provision
<1>3. command.at = "idle" /\ command.next = 1 /\ DOMAIN command.tokens = {}
      /\ command = [at |-> command.at, next |-> command.next, tokens |-> command.tokens]
  BY <1>1, FreshRun DEF Runs
<1>4. KumaTypes
  BY <1>1, <1>2, <1>3 DEF KumaTypes, Runs
<1>5. CopyInv /\ TokenInv
  BY <1>1, <1>2, <1>3 DEF CopyInv, TokenInv
<1> QED BY <1>4, <1>5 DEF KumaInv

(* A run ends, or begins anew: what it had taken is gone.                    *)
LEMMA FreshKeeps ==
  ASSUME KumaInv, UNCHANGED <<kuma, used, file, removed, first>>,
         known' = known \/ known' = kuma \/ known' = K!NoMonitors,
         command' = [at |-> command'.at, next |-> command'.next, tokens |-> command'.tokens],
         command'.at \in {"idle", "login"}, command'.next = 1, DOMAIN command'.tokens = {}
  PROVE  KumaInv'
<1>1. DOMAIN K!NoMonitors = {}
  BY DEF K!NoMonitors
<1>2. KumaTypes'
  BY <1>1 DEF KumaInv, KumaTypes, Runs
<1>3. CopyInv'
  BY <1>1 DEF KumaInv, CopyInv
<1>4. TokenInv'
  BY DEF KumaInv, TokenInv, Serves
<1> QED BY <1>2, <1>3, <1>4 DEF KumaInv

(* A run begins or ends.                                                     *)
LEMMA BeginKeeps == ASSUME KumaInv, K!Connect \/ K!Ends PROVE KumaInv'
<1>1. UNCHANGED <<kuma, used, file, removed, first>> /\ (known' = known \/ known' = K!NoMonitors)
  BY DEF K!Connect, K!Ends
<1>2. command' = [K!NoRun EXCEPT !.at = "login"] \/ command' = K!NoRun
  BY DEF K!Connect, K!Ends
<1>3. command'.at \in {"idle", "login"} /\ command'.next = 1 /\ DOMAIN command'.tokens = {}
      /\ command' = [at |-> command'.at, next |-> command'.next, tokens |-> command'.tokens]
  BY <1>2, FreshRun DEF Runs
<1> QED BY <1>1, <1>3, FreshKeeps

(* The session is accepted, the list is read, or read again and found right. *)
LEMMA RequestKeeps ==
  ASSUME Provision, KumaInv, K!Login \/ K!GetList \/ K!Verify
  PROVE  KumaInv'
<1>1. UNCHANGED <<kuma, used, file, removed, first>>
  BY DEF K!Login, K!GetList, K!Verify
<1>2. known' = known \/ known' = kuma
  BY DEF K!Login, K!GetList, K!Verify, K!Listed, Provision
<1>3. CASE command' = K!NoRun
  BY <1>1, <1>2, <1>3, FreshRun, FreshKeeps DEF Runs
<1>4. CASE command' # K!NoRun
  <2>1. PICK at \in {"list", "spec", "verified"} :
          /\ command' = [command EXCEPT !.at = at]
          /\ at = "list" => command.at = "login"
          /\ at = "spec" => command.at = "list" /\ known' = kuma
          /\ at = "verified" => command.at = "verify"
    BY <1>4 DEF K!Login, K!GetList, K!Verify, K!Listed, Provision
  <2>2. command'.at = at /\ command'.next = command.next /\ command'.tokens = command.tokens
        /\ command' = [at |-> at, next |-> command.next, tokens |-> command.tokens]
    <3>1. command = [at |-> command.at, next |-> command.next, tokens |-> command.tokens]
      BY DEF KumaInv, KumaTypes
    <3> QED BY <2>1, <3>1
  <2>3. KumaTypes'
    BY <1>1, <1>2, <2>1, <2>2 DEF KumaInv, KumaTypes, Runs
  <2>4. CopyInv'
    BY <1>1, <1>2, <2>1, <2>2 DEF KumaInv, CopyInv
  <2>5. TokenInv'
    BY <1>1, <2>1, <2>2 DEF KumaInv, TokenInv, Serves
  <2> QED BY <2>3, <2>4, <2>5 DEF KumaInv
<1> QED BY <1>3, <1>4

(* What serves a name serves it while no monitor goes.                       *)
LEMMA ServesOn ==
  ASSUME UNCHANGED removed, \A i \in DOMAIN kuma : i \in DOMAIN kuma' /\ kuma'[i] = kuma[i],
         NEW s, NEW t, Serves(s, t)
  PROVE  ServesNext(s, t)
  BY DEF Serves, ServesNext

(* A name has its token: that of the monitor it had, or of the new one.      *)
LEMMA TookKeeps ==
  ASSUME Provision, KumaInv, UNCHANGED <<known, file, removed, first>>, NEW s \in Asked,
         command.at = "spec", command.next = s, NEW token, token # K!NoToken, K!Took(s, token),
         used' \in Nat, used' >= used, DOMAIN kuma' \subseteq 1..used',
         \A i \in DOMAIN kuma : i \in DOMAIN kuma' /\ kuma'[i] = kuma[i],
         \A i \in DOMAIN kuma' \ DOMAIN kuma : kuma'[i] = s /\ i > used,
         \A i, j \in DOMAIN kuma' : kuma'[i] = kuma'[j] => i = j,
         token \in DOMAIN kuma' /\ kuma'[token] = s
  PROVE  KumaInv'
<1>1. KumaTypes /\ CopyInv /\ TokenInv /\ s \in Nat /\ s >= 1
  BY AskedNumbers DEF KumaInv
<1> DEFINE at == IF s = Cardinality(Asked) THEN "write" ELSE "spec"
           tokens == [n \in 1..s |-> IF n = s THEN token ELSE command.tokens[n]]
<1>2. command' = [command EXCEPT !.next = s + 1, !.at = at, !.tokens = tokens]
  <2>1. \A X : K!Cardinality(X) = Cardinality(X)
    BY DEF K!Cardinality, Cardinality
  <2> QED BY <2>1 DEF K!Took
<1>3. DOMAIN tokens = 1..s /\ \A n \in 1..s : tokens[n] = IF n = s THEN token ELSE command.tokens[n]
  OBVIOUS
<1>4. at \in {"write", "spec"} /\ (at = "write" => s = Cardinality(Asked))
  OBVIOUS
<1> HIDE DEF at, tokens
<1>5. command' = [at |-> at, next |-> s + 1, tokens |-> tokens]
      /\ command'.at = at /\ command'.next = s + 1 /\ command'.tokens = tokens
  <2>1. command = [at |-> command.at, next |-> command.next, tokens |-> command.tokens]
    BY <1>1 DEF KumaTypes
  <2> QED BY <1>2, <2>1
<1>6. KumaTypes'
  <2>1. \A i \in DOMAIN kuma' : kuma'[i] \in Asked
    BY <1>1 DEF KumaTypes
  <2>2. DOMAIN known \subseteq 1..used'
    BY <1>1 DEF KumaTypes
  <2>3. DOMAIN tokens = 1..((s + 1) - 1)
    BY <1>1, <1>3
  <2>4. command'.at \in {"write", "spec"} /\ command'.at \in Runs
    BY <1>4, <1>5 DEF Runs
  <2> QED BY <1>1, <1>4, <1>5, <2>1, <2>2, <2>3, <2>4 DEF KumaTypes
<1>7. CopyInv'
  <2>1. ASSUME NEW i \in DOMAIN kuma' \cap DOMAIN known PROVE kuma'[i] = known[i]
    <3>1. i \in 1..used
      BY <1>1, <2>1 DEF KumaTypes
    <3>2. i \in DOMAIN kuma
      BY <1>1, <2>1, <3>1 DEF KumaTypes
    <3> QED BY <1>1, <2>1, <3>2 DEF CopyInv
  <2>2. ASSUME NEW i \in DOMAIN kuma', kuma'[i] >= s + 1 PROVE i \in DOMAIN known
    <3>1. i \in DOMAIN kuma /\ kuma[i] >= s + 1
      BY <1>1, <2>2
    <3>2. kuma[i] \in Nat
      BY <1>1, <3>1, AskedNumbers DEF KumaTypes
    <3> QED BY <1>1, <3>1, <3>2 DEF CopyInv
  <2> QED BY <1>5, <2>1, <2>2 DEF CopyInv
<1>8. TokenInv'
  <2>1. ASSUME NEW n \in 1..s PROVE tokens[n] # K!NoToken /\ ServesNext(n, tokens[n])
    <3>1. CASE n = s
      BY <1>3, <3>1 DEF Serves, ServesNext
    <3>2. CASE n # s
      <4>1. n \in DOMAIN command.tokens
        BY <1>1, <2>1, <3>2 DEF KumaTypes
      <4>2. command.tokens[n] # K!NoToken /\ Serves(n, command.tokens[n])
        BY <1>1, <4>1 DEF TokenInv
      <4> QED BY <1>3, <2>1, <3>2, <4>2, ServesOn
    <3> QED BY <3>1, <3>2
  <2>2. \A n \in Asked : file[n] # K!NoToken => ServesNext(n, file[n])
    BY <1>1, ServesOn DEF TokenInv
  <2>3. command'.at \notin {"verify", "verified"}
    BY <1>4, <1>5
  <2>4. \A n \in DOMAIN command'.tokens : command'.tokens[n] # K!NoToken /\ ServesNext(n, command'.tokens[n])
    BY <1>3, <1>5, <2>1
  <2>5. \A n \in Asked : file'[n] # K!NoToken => ServesNext(n, file[n])
    BY <2>2
  <2> QED BY <1>1, <2>3, <2>4, <2>5 DEF TokenInv, Serves, ServesNext
<1> QED BY <1>6, <1>7, <1>8 DEF KumaInv

(* A monitor of the name is there: the list shows it, and it still serves.   *)
LEMMA ReuseKeeps == ASSUME Provision, KumaInv, NEW s \in Asked, K!Reuse(s) PROVE KumaInv'
<1>1. UNCHANGED <<kuma, used, known, file, removed, first>>
      /\ command.at = "spec" /\ command.next = s
  BY DEF K!Reuse
<1>2. PICK i \in K!Matches(s) : i \in DOMAIN kuma /\ K!Took(s, i)
  BY DEF K!Reuse, K!ReusedToken
<1>3. i \in DOMAIN known /\ known[i] = s
  BY <1>2 DEF K!Matches
<1>4. kuma[i] = s /\ i # K!NoToken
  BY <1>2, <1>3 DEF KumaInv, KumaTypes, CopyInv, K!NoToken
<1>5. used \in Nat /\ DOMAIN kuma \subseteq 1..used /\ \A a, b \in DOMAIN kuma : kuma[a] = kuma[b] => a = b
  BY DEF KumaInv, KumaTypes, TokenInv
<1> QED BY <1>1, <1>2, <1>4, <1>5, TookKeeps

(* None is: whatever Kuma made before for the name, the list would show.     *)
LEMMA CreateKeeps == ASSUME Provision, KumaInv, NEW s \in Asked, K!Create(s) PROVE KumaInv'
<1>1. /\ UNCHANGED <<known, file, removed, first>> /\ command.at = "spec" /\ command.next = s
      /\ K!Matches(s) = {} /\ used' = used + 1
      /\ kuma' = [i \in DOMAIN kuma \cup {used'} |-> IF i = used' THEN s ELSE kuma[i]]
      /\ K!Took(s, used') \/ command' = K!NoRun
  BY DEF K!Create
<1>2. KumaTypes /\ CopyInv /\ TokenInv /\ used \in Nat /\ DOMAIN kuma \subseteq 1..used
      /\ \A n \in Asked : n \in Nat
  BY AskedNumbers DEF KumaInv, KumaTypes
<1>3. used' \in Nat /\ used' > used /\ used' \notin DOMAIN kuma /\ used' # K!NoToken
  BY <1>1, <1>2 DEF K!NoToken
<1>4. /\ DOMAIN kuma' = DOMAIN kuma \cup {used'} /\ kuma'[used'] = s
      /\ \A i \in DOMAIN kuma : i \in DOMAIN kuma' /\ kuma'[i] = kuma[i]
  BY <1>1, <1>3
<1>5. \A i \in DOMAIN kuma : kuma[i] # s
  <2> SUFFICES ASSUME NEW i \in DOMAIN kuma, kuma[i] = s PROVE FALSE
    OBVIOUS
  <2>1. i \in DOMAIN known /\ known[i] = s
    BY <1>1, <1>2 DEF CopyInv
  <2> QED BY <1>1, <2>1 DEF K!Matches
<1>6. \A i, j \in DOMAIN kuma' : kuma'[i] = kuma'[j] => i = j
  BY <1>2, <1>4, <1>5 DEF TokenInv
<1>7. DOMAIN kuma' \subseteq 1..used'
  BY <1>1, <1>2, <1>4
<1>8. CASE K!Took(s, used')
  <2>1. used' >= used
    BY <1>2, <1>3
  <2>2. \A i \in DOMAIN kuma' \ DOMAIN kuma : kuma'[i] = s /\ i > used
    BY <1>3, <1>4
  <2>3. used' \in DOMAIN kuma' /\ kuma'[used'] = s
    BY <1>4
  <2>4. UNCHANGED <<known, file, removed, first>> /\ command.at = "spec" /\ command.next = s
    BY <1>1
  <2>5. used' \in Nat /\ used' # K!NoToken
    BY <1>3
  <2>6. \A i \in DOMAIN kuma : i \in DOMAIN kuma' /\ kuma'[i] = kuma[i]
    BY <1>4
  <2> QED BY <1>6, <1>7, <1>8, <2>1, <2>2, <2>3, <2>4, <2>5, <2>6, TookKeeps
<1>9. CASE command' = K!NoRun
  <2>1. /\ command' = [at |-> "idle", next |-> 1, tokens |-> command'.tokens]
        /\ command'.at = "idle" /\ command'.next = 1 /\ DOMAIN command'.tokens = {}
    BY <1>9, FreshRun DEF Runs
  <2>2. KumaTypes'
    <3>1. \A i \in DOMAIN kuma' : kuma'[i] \in Asked
      BY <1>2, <1>4 DEF KumaTypes
    <3>2. DOMAIN known \subseteq 1..used'
      BY <1>1, <1>2 DEF KumaTypes
    <3>3. 1..(1 - 1) = {} /\ "idle" \in Runs
      BY DEF Runs
    <3> QED BY <1>1, <1>2, <1>3, <1>7, <2>1, <3>1, <3>2, <3>3 DEF KumaTypes
  <2>3. CopyInv'
    BY <1>1, <1>2, <1>3, <1>4, <2>1 DEF CopyInv, KumaTypes
  <2>4. TokenInv'
    <3>1. \A n \in Asked : file'[n] # K!NoToken => ServesNext(n, file[n])
      BY <1>1, <1>2, <1>4, ServesOn DEF TokenInv
    <3> QED BY <1>1, <1>2, <1>6, <2>1, <3>1 DEF TokenInv, Serves, ServesNext
  <2> QED BY <2>2, <2>3, <2>4 DEF KumaInv
<1> QED BY <1>1, <1>8, <1>9

(* The file takes the tokens of the names, and keeps those of other keys.    *)
LEMMA WriteFileKeeps == ASSUME Provision, KumaInv, K!Write PROVE KumaInv'
<1>1. /\ UNCHANGED <<kuma, used, known, removed, first>> /\ command.at = "write"
      /\ file' = [k \in DOMAIN file |-> IF k \in Asked THEN command.tokens[k] ELSE file[k]]
      /\ command' = [command EXCEPT !.at = "verify"]
  BY DEF K!Write
<1>2. KumaTypes /\ CopyInv /\ TokenInv
  BY DEF KumaInv
<1>3. command' = [at |-> "verify", next |-> command.next, tokens |-> command.tokens]
      /\ command'.at = "verify" /\ command'.next = command.next /\ command'.tokens = command.tokens
  <2>1. command = [at |-> command.at, next |-> command.next, tokens |-> command.tokens]
    BY <1>2 DEF KumaTypes
  <2> QED BY <1>1, <2>1
<1>4. DOMAIN file' = DOMAIN file /\ Asked \subseteq DOMAIN file /\ OtherKeys \subseteq DOMAIN file
  BY <1>1, <1>2 DEF KumaTypes
<1>5. \A s \in Asked : file'[s] = command.tokens[s]
  BY <1>1, <1>4
<1>6. \A k \in OtherKeys : file'[k] = file[k]
  BY <1>1, <1>4 DEF Provision
<1>7. Asked = DOMAIN command.tokens
  <2>1. command.next = Cardinality(Asked) + 1 /\ DOMAIN command.tokens = 1..(command.next - 1)
    BY <1>1, <1>2 DEF KumaTypes
  <2>2. (Cardinality(Asked) + 1) - 1 = Cardinality(Asked)
    BY AskedNumbers
  <2> QED BY <2>1, <2>2 DEF Provision
<1>8. KumaTypes'
  BY <1>1, <1>2, <1>3, <1>4 DEF KumaTypes, Runs
<1>9. CopyInv'
  BY <1>1, <1>2, <1>3 DEF CopyInv
<1>10. TokenInv'
  BY <1>1, <1>2, <1>3, <1>5, <1>6, <1>7 DEF TokenInv, Serves, ServesNext
<1> QED BY <1>8, <1>9, <1>10 DEF KumaInv

(* An administrator deletes a monitor, whose name nothing is promised of.    *)
LEMMA DeleteKeeps == ASSUME KumaInv, K!Delete PROVE KumaInv'
<1>1. UNCHANGED <<used, known, file, command, first>>
  BY DEF K!Delete
<1>2. PICK i \in DOMAIN kuma : /\ kuma' = [j \in DOMAIN kuma \ {i} |-> kuma[j]]
                             /\ removed' = removed \cup {kuma[i]}
  BY DEF K!Delete
<1>3. DOMAIN kuma' = DOMAIN kuma \ {i} /\ \A j \in DOMAIN kuma \ {i} : kuma'[j] = kuma[j]
  BY <1>2
<1>4. \A s, t : Serves(s, t) => ServesNext(s, t)
  BY <1>2, <1>3 DEF Serves, ServesNext
<1>5. KumaTypes'
  BY <1>1, <1>3 DEF KumaInv, KumaTypes
<1>6. CopyInv'
  BY <1>1, <1>3 DEF KumaInv, CopyInv
<1>7. TokenInv'
  <2>1. \A s \in Asked : file'[s] # K!NoToken => ServesNext(s, file[s])
    BY <1>1, <1>4 DEF KumaInv, TokenInv
  <2>2. \A s \in DOMAIN command.tokens :
          command'.tokens[s] # K!NoToken /\ ServesNext(s, command.tokens[s])
    BY <1>1, <1>4 DEF KumaInv, TokenInv
  <2>3. \A a, b \in DOMAIN kuma' : kuma'[a] = kuma'[b] => a = b
    BY <1>3 DEF KumaInv, TokenInv
  <2> QED BY <1>1, <2>1, <2>2, <2>3 DEF KumaInv, TokenInv, Serves, ServesNext
<1> QED BY <1>5, <1>6, <1>7 DEF KumaInv

(* Every step keeps names, list and file together.                           *)
LEMMA NextKuma == ASSUME Provision, KumaInv, [K!Next]_(K!vars) PROVE KumaInv'
<1>1. CASE K!Next
  BY <1>1, BeginKeeps, RequestKeeps, ReuseKeeps, CreateKeeps, WriteFileKeeps, DeleteKeeps
  DEF K!Next, K!Configure
<1>2. CASE UNCHANGED K!vars
  <2>1. UNCHANGED <<kuma, used, known, file, command, removed, first>>
    BY <1>2 DEF K!vars
  <2> QED BY <2>1 DEF KumaInv, KumaTypes, CopyInv, TokenInv, Serves, ServesNext
<1> QED BY <1>1, <1>2

(* However often the command is cut short and run again, whatever an         *)
(* administrator deletes meanwhile: no name has two monitors, and what the   *)
(* file says of a name serves it (EndpointsAreLive), also of the composition *)
(* that is checked.                                                          *)
THEOREM EndpointsStayLive == ASSUME Provision PROVE AllSpec => []K!EndpointsAreLive
<1>1. AllInit => KumaInv
  BY InitKuma DEF AllInit
<1>2. KumaInv /\ [AllNext]_allVars => KumaInv'
  <2>1. [AllNext]_allVars => [K!Next]_(K!vars)
    BY DEF AllNext, Rescue, allVars, kumaVars, adminVars, K!vars
  <2> QED BY <2>1, NextKuma
<1>3. KumaInv => K!EndpointsAreLive
  BY DEF KumaInv, TokenInv, Serves, ServesNext, K!EndpointsAreLive
<1> QED BY <1>1, <1>2, <1>3, PTL DEF AllSpec

-----------------------------------------------------------------------------
(* The rescue dialog and its gate.                                           *)

(* What the proofs about ResourceRescue take of its constants.              *)
Pressing ==
  /\ Debounce \in Nat /\ MinPopup \in Nat /\ Snooze \in Nat
  /\ RecoverySamples \in Nat /\ MaxRescueFaults \in Nat

(* What a dismissal leaves behind for as long as it holds: no dialog, a gate *)
(* that stands at the kind and no lower than the level it stands for, and a  *)
(* snooze that lasts as long, or a watcher that has yet to notice and will   *)
(* then set one.                                                             *)
QuietInv ==
  quiet.left > 0 =>
    /\ unit.run = W!None /\ ~unit.locked
    /\ quiet.sig \in W!Pressures
    /\ gate.kind = quiet.sig.kind /\ gate.level >= quiet.sig.level
    /\ active \/ gate.snooze >= quiet.left

RescueInv == W!TypeOK /\ QuietInv

Events == {W!None, "quiet", "unknown", "pending", "told"}

(* At first nothing is held, snoozed or dismissed.                           *)
LEMMA InitRescue == ASSUME Pressing, W!Init PROVE RescueInv
<1> USE DEF W!Init, Pressing
<1>1. host \in W!Samples /\ held \in [sig : W!Pressures \cup {W!NoSig}, age : 0..Debounce]
  BY DEF W!Samples, W!NoHold
<1>2. gate \in W!Gates /\ saved \in W!Gates
  BY DEF W!Gates, W!None
<1>3. quiet \in [left : 0..Snooze, sig : W!Pressures \cup {W!NoSig}] /\ quiet.left = 0
  BY DEF W!NoQuiet
<1>4. unlocked \in BOOLEAN
  BY Zenon
<1>5. unit \in [run : {W!None, "loading", "shown"}, locked : BOOLEAN]
  OBVIOUS
<1>6. healthy \in 0..RecoverySamples /\ faults \in 0..MaxRescueFaults
  OBVIOUS
<1>7. active \in BOOLEAN /\ owed \in BOOLEAN
  BY Zenon
<1>9. event \in Events
  BY DEF Events
<1>8. W!TypeOK
  BY <1>1, <1>2, <1>3, <1>4, <1>5, <1>6, <1>7, <1>9 DEF W!TypeOK, Events
<1> QED BY <1>3, <1>8 DEF RescueInv, QuietInv

(* The clock of a gate runs within the gate's type.                         *)
LEMMA AgedGate ==
  ASSUME Pressing, NEW g \in W!Gates
  PROVE  /\ W!Aged(g) \in W!Gates
         /\ W!Aged(g).kind = g.kind /\ W!Aged(g).level = g.level
         /\ W!Aged(g).snooze = W!Less(g.snooze)
<1>1. W!Older(g.opened, MinPopup) \in 0..MinPopup /\ W!Less(g.snooze) \in 0..Snooze
  BY DEF W!Gates, W!Older, W!Less, Pressing
<1> HIDE DEF Pressing
<1>2. W!Aged(g) = [g EXCEPT !.opened = W!Older(g.opened, MinPopup), !.snooze = W!Less(g.snooze)]
  BY DEF W!Aged
<1> QED BY <1>1, <1>2 DEF W!Gates

(* A gate that has learnt how its dialog ended.                              *)
LEMMA NoticedGate ==
  ASSUME Pressing, RescueInv
  PROVE  /\ W!Noticed(gate) \in W!Gates
         /\ W!Noticed(gate).kind = gate.kind /\ W!Noticed(gate).level = gate.level
         /\ quiet.left > 0 => W!Noticed(gate).snooze >= quiet.left
<1> DEFINE g == W!Noticed(gate)
<1>0. gate \in W!Gates /\ quiet.left \in 0..Snooze /\ active \in BOOLEAN /\ unit.locked \in BOOLEAN
  BY DEF RescueInv, W!TypeOK
<1>1. CASE ~active \/ unit.run # W!None
  BY <1>0, <1>1 DEF W!Noticed, RescueInv, QuietInv
<1>2. CASE ~(~active \/ unit.run # W!None) /\ unit.locked
  <2>1. g = [gate EXCEPT !.pending = TRUE, !.opened = MinPopup, !.snooze = 0]
    BY <1>2 DEF W!Noticed
  <2>2. ~(quiet.left > 0)
    BY <1>2 DEF RescueInv, QuietInv
  <2>3. g \in W!Gates /\ g.kind = gate.kind /\ g.level = gate.level
    <3> HIDE DEF g
    <3> DEFINE a == [gate EXCEPT !.opened = MinPopup]
               b == [a EXCEPT !.snooze = 0]
    <3>1. a \in W!Gates /\ a.kind = gate.kind /\ a.level = gate.level
      BY <1>0 DEF W!Gates, Pressing
    <3>2. g = [b EXCEPT !.pending = TRUE]
      BY <2>1
    <3> HIDE DEF a
    <3>3. b \in W!Gates /\ b.kind = a.kind /\ b.level = a.level
      BY <3>1 DEF W!Gates, Pressing
    <3> HIDE DEF b
    <3> QED BY <3>1, <3>2, <3>3 DEF W!Gates
  <2> QED BY <2>2, <2>3
<1>3. CASE ~(~active \/ unit.run # W!None) /\ ~unit.locked
  <2>1. g = [gate EXCEPT !.snooze = Snooze]
    BY <1>3 DEF W!Noticed
  <2>2. /\ g \in W!Gates /\ g.kind = gate.kind /\ g.level = gate.level
        /\ g.snooze = Snooze
    <3> HIDE DEF g
    <3> QED BY <1>0, <2>1 DEF W!Gates, Pressing
  <2> QED BY <1>0, <2>2 DEF Pressing
<1> QED BY <1>1, <1>2, <1>3

(* The three ways a sample can move a gate.                                  *)
LEMMA MarkedGate ==
  ASSUME Pressing, NEW g \in W!Gates, host \in W!Pressures
  PROVE  /\ W!Marked(g) \in W!Gates /\ W!Marked(g).snooze = g.snooze
         /\ W!Marked(g).kind = host.kind /\ W!Marked(g).level = host.level
<1>1. W!Marked(g) = [g EXCEPT !.incident = TRUE, !.kind = host.kind, !.level = host.level]
  BY DEF W!Marked
<1>2. host.kind \in PressureKinds /\ host.level \in {1, 2}
  BY DEF W!Pressures
<1> DEFINE x == [g EXCEPT !.incident = TRUE]
           y == [x EXCEPT !.kind = host.kind]
<1>3. W!Marked(g) = [y EXCEPT !.level = host.level]
  BY <1>1
<1>4. x \in W!Gates /\ x.snooze = g.snooze
  BY DEF W!Gates
<1> HIDE DEF x
<1>5. y \in W!Gates /\ y.snooze = x.snooze /\ y.kind = host.kind
  BY <1>2, <1>4 DEF W!Gates
<1> HIDE DEF y
<1>6. host.level \in 0..2
  BY <1>2
<1> QED BY <1>3, <1>4, <1>5, <1>6 DEF W!Gates

(* Under pressure the gate waits, is marked, or opens the dialog.            *)
LEMMA PressedGate ==
  ASSUME Pressing, RescueInv, NEW g \in W!Gates, NEW h, host \in W!Pressures
  PROVE  LET r == W!UnderPressure(g, h) IN
         /\ r.state \in W!Gates /\ r.state.snooze = g.snooze
         /\ r.event \in {"debounce", "pending", "held", "open"}
         /\ r.event # "debounce" => r.state.kind = host.kind /\ r.state.level = host.level
         /\ r.event = "debounce" => r.state = g
         /\ r.event = "open" => ~(~W!Worsened(g) /\ g.snooze > 0)
<1> DEFINE m == W!Marked(g)
<1>0. /\ m \in W!Gates /\ m.snooze = g.snooze
      /\ m.kind = host.kind /\ m.level = host.level
  BY MarkedGate
<1> HIDE DEF m
<1>1. CASE ~W!Confirmed(h)
  <2>1. W!UnderPressure(g, h) = [state |-> g, event |-> "debounce"]
    BY <1>1 DEF W!UnderPressure
  <2> QED BY <2>1
<1>2. CASE W!Confirmed(h) /\ ~unlocked
  <2>1. W!UnderPressure(g, h) = [state |-> [m EXCEPT !.pending = TRUE], event |-> "pending"]
    BY <1>2 DEF W!UnderPressure, m
  <2> DEFINE q == [m EXCEPT !.pending = TRUE]
  <2>2. q \in W!Gates /\ q.snooze = m.snooze /\ q.kind = m.kind /\ q.level = m.level
    BY <1>0 DEF W!Gates
  <2> HIDE DEF q
  <2>3. W!UnderPressure(g, h) = [state |-> q, event |-> "pending"]
    BY <2>1 DEF q
  <2> QED BY <1>0, <2>2, <2>3
<1>3. CASE /\ W!Confirmed(h) /\ unlocked
           /\ W!StillActive \/ (~W!Worsened(g) /\ g.snooze > 0) \/ W!Waits(g)
  <2>1. W!UnderPressure(g, h) = [state |-> m, event |-> "held"]
    BY <1>3 DEF W!UnderPressure, m
  <2> HIDE DEF Pressing
  <2>2. m \in W!Gates /\ m.snooze = g.snooze /\ m.kind = host.kind /\ m.level = host.level
    BY <1>0
  <2>3. W!UnderPressure(g, h).state = m /\ W!UnderPressure(g, h).event = "held"
    BY ONLY <2>1
  <2>4. W!UnderPressure(g, h).event \in {"debounce", "pending", "held", "open"}
    BY ONLY <2>3
  <2> QED BY ONLY <2>2, <2>3, <2>4
<1>4. CASE /\ W!Confirmed(h) /\ unlocked
           /\ ~(W!StillActive \/ (~W!Worsened(g) /\ g.snooze > 0) \/ W!Waits(g))
  <2>1. W!UnderPressure(g, h) = [state |-> [m EXCEPT !.opened = 0, !.pending = FALSE], event |-> "open"]
    BY <1>4 DEF W!UnderPressure, m
  <2> DEFINE q == [m EXCEPT !.opened = 0, !.pending = FALSE]
  <2>2. q \in W!Gates /\ q.snooze = m.snooze /\ q.kind = m.kind /\ q.level = m.level
    <3>1. q = [[m EXCEPT !.opened = 0] EXCEPT !.pending = FALSE]
      OBVIOUS
    <3>2. [m EXCEPT !.opened = 0] \in W!Gates
      BY <1>0 DEF W!Gates, Pressing
    <3> QED BY <1>0, <3>2 DEF W!Gates
  <2> HIDE DEF q
  <2>3. W!UnderPressure(g, h) = [state |-> q, event |-> "open"]
    BY <2>1 DEF q
  <2> QED BY <1>0, <1>4, <2>2, <2>3
<1> QED BY <1>1, <1>2, <1>3, <1>4

(* Below the thresholds the gate ends an incident or offers its recap.       *)
LEMMA RelievedGate ==
  ASSUME Pressing, RescueInv, NEW g \in W!Gates, NEW n
  PROVE  LET r == W!Relieved(g, n) IN
         /\ r.state \in W!Gates /\ r.state.snooze = g.snooze
         /\ r.event \in {"recap", "recovered", "healthy"}
         /\ r.event = "healthy" => r.state = g
         /\ r.event = "recap" => g.snooze = 0
<1> DEFINE ends == n >= RecoverySamples /\ g.incident
           s == IF ends THEN W!Recovered(g) ELSE g
<1>1. s \in W!Gates /\ s.snooze = g.snooze /\ (~ends => s = g)
  <2> DEFINE b == g.recap \/ g.pending
  <2>1. W!Recovered(g) = [g EXCEPT !.incident = FALSE, !.pending = FALSE, !.level = 0, !.recap = b]
    BY DEF W!Recovered
  <2>2. b \in BOOLEAN
    BY Zenon
  <2> HIDE DEF b
  <2>3. W!Recovered(g) \in W!Gates /\ W!Recovered(g).snooze = g.snooze
    <3> DEFINE x == [g EXCEPT !.incident = FALSE]
               y == [x EXCEPT !.pending = FALSE]
               z == [y EXCEPT !.level = 0]
    <3>1. x \in W!Gates /\ x.snooze = g.snooze
      BY DEF W!Gates
    <3>2. W!Recovered(g) = [z EXCEPT !.recap = b]
      BY <2>1
    <3> HIDE DEF x
    <3>3. y \in W!Gates /\ y.snooze = x.snooze
      BY <3>1 DEF W!Gates
    <3> HIDE DEF y
    <3>4. z \in W!Gates /\ z.snooze = y.snooze
      BY <3>3 DEF W!Gates
    <3> HIDE DEF z
    <3> QED BY <2>2, <3>1, <3>2, <3>3, <3>4 DEF W!Gates
  <2> QED BY <2>3
<1>2. W!Relieved(g, n) = IF s.recap /\ unlocked /\ ~W!StillActive /\ s.snooze = 0 /\ ~W!Waits(s)
                         THEN [state |-> [s EXCEPT !.recap = FALSE, !.opened = 0], event |-> "recap"]
                         ELSE [state |-> s, event |-> IF ends THEN "recovered" ELSE "healthy"]
  BY DEF W!Relieved
<1> HIDE DEF s, ends
<1> DEFINE q == [s EXCEPT !.recap = FALSE, !.opened = 0]
<1>3. q \in W!Gates /\ q.snooze = s.snooze
  <2>1. [s EXCEPT !.opened = 0] \in W!Gates
    BY <1>1 DEF W!Gates, Pressing
  <2>2. q = [[s EXCEPT !.opened = 0] EXCEPT !.recap = FALSE]
    OBVIOUS
  <2> QED BY <1>1, <2>1, <2>2 DEF W!Gates
<1>4. CASE s.recap /\ unlocked /\ ~W!StillActive /\ s.snooze = 0 /\ ~W!Waits(s)
  <2>1. W!Relieved(g, n) = [state |-> q, event |-> "recap"]
    BY <1>2, <1>4
  <2> HIDE DEF q
  <2> QED BY <1>1, <1>3, <1>4, <2>1
<1>5. CASE ~(s.recap /\ unlocked /\ ~W!StillActive /\ s.snooze = 0 /\ ~W!Waits(s))
  <2>1. W!Relieved(g, n) = [state |-> s, event |-> IF ends THEN "recovered" ELSE "healthy"]
    BY <1>2, <1>5
  <2> HIDE DEF q
  <2> QED BY <1>1, <2>1
<1> QED BY <1>4, <1>5

(* One sample, whatever it shows: while a dismissal holds, the gate stays    *)
(* where it is or the dismissal ends with this sample, and nothing opens.    *)
LEMMA SteppedGate ==
  ASSUME Pressing, RescueInv
  PROVE  LET g == W!Stepped(W!Noticed(gate)) IN
         /\ g.state \in W!Gates
         /\ g.state.snooze = W!Noticed(gate).snooze
         /\ W!SampleStep(g) /\ quiet'.left > 0 =>
              /\ g.event \notin {"open", "recap"} /\ quiet'.left = quiet.left
              /\ quiet'.sig \in W!Pressures
              /\ g.state.kind = quiet'.sig.kind /\ g.state.level >= quiet'.sig.level
<1> DEFINE n == W!Noticed(gate)
           g == W!Stepped(n)
<1>0. /\ n \in W!Gates /\ n.kind = gate.kind /\ n.level = gate.level
      /\ quiet.left > 0 => n.snooze >= quiet.left
  BY NoticedGate
<1> HIDE DEF n
<1>3. quiet.left \in Nat /\ quiet \in [left : 0..Snooze, sig : W!Pressures \cup {W!NoSig}]
  BY DEF RescueInv, W!TypeOK, Pressing
<1>1. ASSUME W!SampleStep(g), quiet'.left > 0
      PROVE  /\ quiet'.left = quiet.left /\ quiet.left > 0 /\ g.event # "recovered"
             /\ host \in W!Pressures =>
                  /\ host.kind = quiet.sig.kind /\ host.level <= quiet.sig.level
                  /\ quiet'.sig = host
             /\ host \notin W!Pressures => quiet'.sig = quiet.sig
  <2>1. quiet' = W!Quieted(g.event)
    BY <1>1 DEF W!SampleStep
  <2> HIDE DEF g
  <2>2. g.event # "recovered" /\ quiet' # W!NoQuiet
    BY <1>1, <2>1 DEF W!Quieted, W!NoQuiet
  <2>3. CASE host \in W!Pressures
    <3>1. /\ host.kind = quiet.sig.kind /\ host.level <= quiet.sig.level
          /\ quiet' = [quiet EXCEPT !.sig = host]
      BY <2>1, <2>2, <2>3 DEF W!Quieted
    <3> QED BY <1>1, <1>3, <2>2, <2>3, <3>1
  <2>4. CASE host \notin W!Pressures
    BY <1>1, <2>1, <2>2, <2>4 DEF W!Quieted
  <2> QED BY <2>2, <2>3, <2>4
<1>2. quiet.left > 0 =>
           /\ quiet.sig \in W!Pressures
           /\ gate.kind = quiet.sig.kind /\ gate.level >= quiet.sig.level
           /\ n.snooze > 0
  <2>1. n.snooze \in Nat
    BY <1>0 DEF W!Gates, Pressing
  <2> QED BY <1>0, <1>3, <2>1 DEF RescueInv, QuietInv
<1>4. CASE host = W!Unknown
  <2>1. g = [state |-> n, event |-> "unknown"]
    BY <1>4 DEF W!Stepped
  <2>2. host \notin W!Pressures
    BY <1>4 DEF W!Unknown, W!Pressures
  <2>3. g.state = n /\ g.event = "unknown"
    BY <2>1
  <2>4. ASSUME W!SampleStep(g), quiet'.left > 0
        PROVE  /\ quiet'.left = quiet.left /\ quiet'.sig \in W!Pressures
               /\ n.kind = quiet'.sig.kind /\ n.level >= quiet'.sig.level
    BY <1>0, <1>1, <1>2, <2>2, <2>4
  <2> QED BY <1>0, <2>3, <2>4 DEF n
<1>5. CASE host # W!Unknown /\ host \in W!Pressures
  <2>1. g = W!UnderPressure(n, W!Held)
    BY <1>5 DEF W!Stepped
  <2> HIDE DEF g
  <2>2. /\ g.state \in W!Gates /\ g.state.snooze = n.snooze
        /\ g.event \in {"debounce", "pending", "held", "open"}
        /\ g.event # "debounce" => g.state.kind = host.kind /\ g.state.level = host.level
        /\ g.event = "debounce" => g.state = n
        /\ g.event = "open" => ~(~W!Worsened(n) /\ n.snooze > 0)
    BY <1>0, <1>5, <2>1, PressedGate
  <2> HIDE DEF g
  <2>3. ASSUME W!SampleStep(g), quiet'.left > 0
        PROVE  /\ g.event \notin {"open", "recap"} /\ quiet'.left = quiet.left
               /\ quiet'.sig \in W!Pressures
               /\ g.state.kind = quiet'.sig.kind /\ g.state.level >= quiet'.sig.level
    <3>1. /\ quiet.left > 0 /\ quiet'.left = quiet.left /\ quiet'.sig = host
          /\ host.kind = quiet.sig.kind /\ host.level <= quiet.sig.level
      BY <1>1, <1>5, <2>3 DEF g
    <3>2. host.level \in {1, 2} /\ gate.level \in 0..2 /\ quiet.sig.level \in {1, 2}
      BY <1>2, <1>5, <3>1 DEF W!Pressures, RescueInv, W!TypeOK, W!Gates
    <3>3. n.kind = host.kind /\ n.level >= host.level /\ n.snooze > 0
      BY <1>0, <1>2, <3>1, <3>2
    <3>4. ~W!Worsened(n)
      BY <1>0, <3>2, <3>3 DEF W!Worsened
    <3>5. g.state.kind = host.kind /\ g.state.level >= host.level
      BY <2>2, <3>2, <3>3
    <3> QED BY <1>5, <2>2, <3>1, <3>3, <3>4, <3>5
  <2> QED BY <2>2, <2>3 DEF n, g
<1>6. CASE host # W!Unknown /\ host \notin W!Pressures
  <2>1. g = W!Relieved(n, W!Counted)
    BY <1>6 DEF W!Stepped
  <2> HIDE DEF g
  <2>2. /\ g.state \in W!Gates /\ g.state.snooze = n.snooze
        /\ g.event \in {"recap", "recovered", "healthy"}
        /\ g.event = "healthy" => g.state = n
        /\ g.event = "recap" => n.snooze = 0
    BY <1>0, <2>1, RelievedGate
  <2> HIDE DEF g
  <2>3. ASSUME W!SampleStep(g), quiet'.left > 0
        PROVE  /\ g.event \notin {"open", "recap"} /\ quiet'.left = quiet.left
               /\ quiet'.sig \in W!Pressures
               /\ g.state.kind = quiet'.sig.kind /\ g.state.level >= quiet'.sig.level
    <3>1. /\ quiet.left > 0 /\ quiet'.left = quiet.left /\ quiet'.sig = quiet.sig
          /\ g.event # "recovered"
      BY <1>1, <1>6, <2>3 DEF g
    <3>2. /\ n.snooze > 0 /\ quiet.sig \in W!Pressures
          /\ n.kind = quiet.sig.kind /\ n.level >= quiet.sig.level
      BY <1>0, <1>2, <3>1
    <3> QED BY <1>0, <2>2, <3>1, <3>2
  <2> QED BY <2>2, <2>3 DEF n, g
<1> QED BY <1>4, <1>5, <1>6

(* The host, the session and the clock.                                      *)
LEMMA OutsideKeeps ==
  ASSUME Pressing, RescueInv, W!Weather \/ W!Session \/ W!Tick
  PROVE  RescueInv'
<1> USE DEF RescueInv
<1>1. CASE W!Weather
  BY <1>1 DEF W!Weather, W!daemon, W!TypeOK, QuietInv
<1>2. CASE W!Session
  <2>1. unlocked' \in BOOLEAN
    BY <1>2, Zenon DEF W!Session, W!TypeOK
  <2>2. UNCHANGED <<host, unit, gate, saved, held, healthy, active, event, owed, quiet, faults>>
    BY <1>2 DEF W!Session, W!daemon
  <2> QED BY <2>1, <2>2 DEF W!TypeOK, QuietInv
<1>3. CASE W!Tick
  <2>1. /\ gate' = W!Aged(gate) /\ saved' = W!Aged(saved)
        /\ held' = [held EXCEPT !.age = IF held.sig = W!NoSig THEN 0 ELSE W!Older(@, Debounce)]
        /\ quiet' = IF quiet.left > 1 THEN [quiet EXCEPT !.left = @ - 1] ELSE W!NoQuiet
        /\ UNCHANGED <<host, unlocked, unit, healthy, active, event, owed, faults>>
    BY <1>3 DEF W!Tick
  <2>2. /\ gate' \in W!Gates /\ saved' \in W!Gates
        /\ gate'.kind = gate.kind /\ gate'.level = gate.level
        /\ gate'.snooze = W!Less(gate.snooze)
    BY <2>1, AgedGate DEF W!TypeOK
  <2>3. held' \in [sig : W!Pressures \cup {W!NoSig}, age : 0..Debounce]
    BY <2>1 DEF W!TypeOK, W!Older, Pressing
  <2>4. quiet' \in [left : 0..Snooze, sig : W!Pressures \cup {W!NoSig}]
    BY <2>1 DEF W!TypeOK, W!NoQuiet, Pressing
  <2>5. W!TypeOK'
    BY <2>1, <2>2, <2>3, <2>4 DEF W!TypeOK
  <2>6. QuietInv'
    <3>1. quiet.left \in Nat /\ gate.snooze \in Nat
      BY DEF W!TypeOK, W!Gates, Pressing
    <3>2. CASE quiet.left > 1
      <4>1. quiet'.left = quiet.left - 1 /\ quiet'.sig = quiet.sig
        BY <2>1, <3>2 DEF W!TypeOK
      <4>2. gate.snooze >= quiet.left => gate'.snooze >= quiet'.left
        BY <2>2, <3>1, <3>2, <4>1 DEF W!Less
      <4> QED BY <2>1, <2>2, <3>1, <3>2, <4>1, <4>2 DEF QuietInv
    <3>3. CASE ~(quiet.left > 1)
      BY <2>1, <3>3 DEF QuietInv, W!NoQuiet
    <3> QED BY <3>2, <3>3
  <2> QED BY <2>5, <2>6
<1> QED BY <1>1, <1>2, <1>3

(* A dialog that ends dismissed leaves a gate that stands where it stood.     *)
LEMMA WindowKeeps ==
  ASSUME Pressing, RescueInv, W!DialogLoads \/ W!DialogEnds \/ W!DialogFails
  PROVE  RescueInv'
<1> USE DEF RescueInv
<1>1. CASE W!DialogLoads
  <2>1. /\ unit.run = "loading"
        /\ unit' \in [run : {W!None, "loading", "shown"}, locked : BOOLEAN]
        /\ UNCHANGED <<host, unlocked, gate, saved, held, healthy, active, event, owed, quiet, faults>>
    BY <1>1 DEF W!DialogLoads, W!TypeOK, W!daemon
  <2>2. ~(quiet.left > 0)
    BY <2>1 DEF QuietInv, W!None
  <2> QED BY <2>1, <2>2 DEF W!TypeOK, QuietInv
<1>2. CASE W!DialogEnds
  <2> DEFINE sig == [kind |-> gate.kind, level |-> gate.level]
  <2>1. PICK code \in {"0", "2", "3"} :
           /\ unit' = [run |-> W!None, locked |-> code = "3"]
           /\ quiet' = IF code = "2" /\ active /\ sig \in W!Pressures
                       THEN [left |-> Snooze, sig |-> sig] ELSE W!NoQuiet
    BY <1>2 DEF W!DialogEnds
  <2>2. UNCHANGED <<host, unlocked, gate, saved, held, healthy, active, event, owed, faults>>
    BY <1>2 DEF W!DialogEnds, W!daemon
  <2>3. unit' \in [run : {W!None, "loading", "shown"}, locked : BOOLEAN]
    BY <2>1
  <2>4. CASE code = "2" /\ active /\ sig \in W!Pressures
    <3>1. sig \in W!Pressures
      BY <2>4
    <3>2. quiet' = [left |-> Snooze, sig |-> sig]
      BY <2>1, <2>4
    <3>3. unit'.run = W!None /\ ~unit'.locked
      BY <2>1, <2>4
    <3>4. /\ sig.kind = gate.kind /\ sig.level = gate.level
          /\ sig.level <= gate.level
      <4>1. gate.level \in Int
        BY DEF W!TypeOK, W!Gates
      <4> QED BY <4>1
    <3> HIDE DEF sig
    <3>5. quiet' \in [left : 0..Snooze, sig : W!Pressures \cup {W!NoSig}]
      BY <3>1, <3>2 DEF Pressing
    <3> QED BY <2>2, <2>3, <2>4, <3>1, <3>2, <3>3, <3>4, <3>5 DEF W!TypeOK, QuietInv
  <2>5. CASE ~(code = "2" /\ active /\ sig \in W!Pressures)
    <3>1. quiet' = W!NoQuiet
      BY <2>1, <2>5
    <3> QED BY <2>2, <2>3, <3>1 DEF W!TypeOK, QuietInv, W!NoQuiet, Pressing
  <2> QED BY <2>4, <2>5
<1>3. CASE W!DialogFails
  <2>1. ~(quiet.left > 0)
    BY <1>3 DEF QuietInv, W!None, W!DialogFails
  <2> QED BY <1>3, <2>1 DEF W!DialogFails, W!TypeOK, QuietInv, W!daemon, Pressing
<1> QED BY <1>1, <1>2, <1>3

(* What a sample leaves of the variables that every sample sets.              *)
LEMMA SampleFacts ==
  ASSUME Pressing, RescueInv, NEW g, W!SampleStep(g)
  PROVE  /\ UNCHANGED <<host, unlocked, saved>>
         /\ held' \in [sig : W!Pressures \cup {W!NoSig}, age : 0..Debounce]
         /\ healthy' \in 0..RecoverySamples
         /\ quiet' \in [left : 0..Snooze, sig : W!Pressures \cup {W!NoSig}]
         /\ quiet'.left \in Nat
<1> USE DEF RescueInv, W!TypeOK
<1>1. W!Held \in [sig : W!Pressures \cup {W!NoSig}, age : 0..Debounce]
  BY DEF W!Held, W!NoHold, Pressing
<1>2. W!Counted \in 0..RecoverySamples
  BY DEF W!Counted, W!Older, Pressing
<1>3. W!NoQuiet \in [left : 0..Snooze, sig : W!Pressures \cup {W!NoSig}]
  BY DEF W!NoQuiet, Pressing
<1>4. quiet' \in [left : 0..Snooze, sig : W!Pressures \cup {W!NoSig}]
  <2>1. quiet' = W!Quieted(g.event)
    BY DEF W!SampleStep
  <2>2. quiet \in [left : 0..Snooze, sig : W!Pressures \cup {W!NoSig}]
    OBVIOUS
  <2>3. host \in W!Pressures => [quiet EXCEPT !.sig = host] \in [left : 0..Snooze, sig : W!Pressures \cup {W!NoSig}]
    BY <2>2
  <2> QED BY ONLY <1>3, <2>1, <2>2, <2>3 DEF W!Quieted
<1>5. quiet'.left \in Nat
  BY <1>4 DEF Pressing
<1> QED BY <1>1, <1>2, <1>4, <1>5 DEF W!SampleStep

(* No sample opens a dialog while a dismissal holds.                          *)
LEMMA SampleKeeps ==
  ASSUME Pressing, RescueInv, W!Check \/ W!Open \/ W!OpenFails \/ W!OpenTimesOut
  PROVE  RescueInv' /\ (W!Open => quiet'.left = 0)
<1> DEFINE g == W!Stepped(W!Noticed(gate))
<1>1. W!SampleStep(g)
  BY DEF W!Check, W!Open, W!OpenFails, W!OpenTimesOut
<1>2. /\ g.state \in W!Gates /\ g.state.snooze = W!Noticed(gate).snooze
      /\ quiet'.left > 0 => /\ g.event \notin {"open", "recap"} /\ quiet'.left = quiet.left
                            /\ quiet'.sig \in W!Pressures
                            /\ g.state.kind = quiet'.sig.kind
                            /\ g.state.level >= quiet'.sig.level
  BY <1>1, SteppedGate
<1>3. /\ UNCHANGED <<host, unlocked, saved>>
      /\ held' \in [sig : W!Pressures \cup {W!NoSig}, age : 0..Debounce]
      /\ healthy' \in 0..RecoverySamples
      /\ quiet' \in [left : 0..Snooze, sig : W!Pressures \cup {W!NoSig}]
      /\ quiet'.left \in Nat
  BY <1>1, SampleFacts
<1>4. /\ event' \in Events
      /\ faults' \in 0..MaxRescueFaults
      /\ unit' \in [run : {W!None, "loading", "shown"}, locked : BOOLEAN]
  <2>1. event' \in Events
    <3>1. W!Recorded(g.event) \in Events
      <4> HIDE DEF g
      <4> QED BY DEF W!Recorded, Events
    <3>2. W!None \in Events
      BY DEF Events
    <3>3. event' = W!Recorded(g.event) \/ event' = W!None
      BY DEF W!Check, W!Open, W!OpenFails, W!OpenTimesOut
    <3> QED BY <3>1, <3>2, <3>3
  <2>2. faults' \in 0..MaxRescueFaults
    BY DEF W!Check, W!Open, W!OpenFails, W!OpenTimesOut, RescueInv, W!TypeOK, Pressing
  <2>3. unit' \in [run : {W!None, "loading", "shown"}, locked : BOOLEAN]
    <3>1. unit \in [run : {W!None, "loading", "shown"}, locked : BOOLEAN]
      BY DEF RescueInv, W!TypeOK
    <3>2. [run |-> "loading", locked |-> FALSE] \in [run : {W!None, "loading", "shown"}, locked : BOOLEAN]
      OBVIOUS
    <3>3. unit' = unit \/ unit' = [run |-> "loading", locked |-> FALSE]
      BY DEF W!Check, W!Open, W!OpenFails, W!OpenTimesOut
    <3> QED BY <3>1, <3>2, <3>3
  <2> QED BY <2>1, <2>2, <2>3
<1>5. active' \in BOOLEAN
  <2>1. W!StillActive \in BOOLEAN
    BY Zenon DEF W!StillActive
  <2> QED BY <2>1 DEF W!Check, W!Open, W!OpenFails, W!OpenTimesOut
<1>6. owed' \in BOOLEAN
  <2>1. (owed /\ g.event = "recap") \in BOOLEAN
    BY Zenon
  <2>2. owed \in BOOLEAN
    BY DEF RescueInv, W!TypeOK
  <2> QED BY <2>1, <2>2 DEF W!Check, W!Open, W!OpenFails, W!OpenTimesOut
<1>7. gate' \in W!Gates
  <2>1. CASE W!OpenFails
    <3> DEFINE b == g.state.recap \/ g.event = "recap"
    <3>1. gate' = [g.state EXCEPT !.snooze = Snooze, !.recap = b]
      BY <2>1 DEF W!OpenFails
    <3>2. b \in BOOLEAN
      BY Zenon
    <3> HIDE DEF b, g
    <3> DEFINE x == [g.state EXCEPT !.snooze = Snooze]
    <3>3. gate' = [x EXCEPT !.recap = b]
      BY <3>1
    <3>4. x \in W!Gates
      BY <1>2 DEF W!Gates, Pressing
    <3> HIDE DEF x
    <3> QED BY <3>2, <3>3, <3>4 DEF W!Gates
  <2>2. CASE W!Check \/ W!Open \/ W!OpenTimesOut
    BY <1>2, <2>2 DEF W!Check, W!Open, W!OpenTimesOut
  <2> QED BY <2>1, <2>2
<1>8. W!TypeOK'
  BY <1>3, <1>4, <1>5, <1>6, <1>7 DEF W!TypeOK, RescueInv, Events
<1>9. ~W!Check => ~(quiet'.left > 0)
  <2>1. ~W!Check => g.event \in {"open", "recap"}
    BY DEF W!Open, W!OpenFails, W!OpenTimesOut
  <2> QED BY <1>2, <2>1
<1>10. ASSUME W!Check, quiet'.left > 0
       PROVE  /\ unit'.run = W!None /\ ~unit'.locked
              /\ quiet'.sig \in W!Pressures
              /\ gate'.kind = quiet'.sig.kind /\ gate'.level >= quiet'.sig.level
              /\ gate'.snooze >= quiet'.left
  <2>1. gate' = g.state /\ UNCHANGED unit
    BY <1>10 DEF W!Check
  <2>2. /\ quiet'.left = quiet.left /\ quiet'.sig \in W!Pressures
        /\ gate'.kind = quiet'.sig.kind /\ gate'.level >= quiet'.sig.level
    BY <1>2, <1>10, <2>1
  <2>3. gate'.snooze >= quiet.left
    BY <1>2, <1>10, <2>1, <2>2, NoticedGate
  <2> QED BY <1>10, <2>1, <2>2, <2>3 DEF RescueInv, QuietInv
<1>11. QuietInv'
  BY <1>9, <1>10 DEF QuietInv
<1>12. W!Open => quiet'.left = 0
  <2>1. W!Open /\ W!Check => FALSE
    BY DEF W!Open, W!Check
  <2> QED BY <1>3, <1>9, <2>1
<1> QED BY <1>8, <1>11, <1>12 DEF RescueInv

(* The record, and a restart on it.                                           *)
LEMMA RecordKeeps ==
  ASSUME Pressing, RescueInv, W!Save \/ W!SaveFails \/ W!Restart
  PROVE  RescueInv'
<1> USE DEF RescueInv
<1>1. CASE W!Save
  <2>1. owed' \in BOOLEAN
    BY <1>1, Zenon DEF W!Save
  <2>2. W!Record \in W!Gates
    <3> DEFINE risk == IF event = "unknown" \/ held.sig = W!NoSig THEN W!Clear ELSE held.sig
               x == [gate EXCEPT !.kind = risk.kind]
    <3>1. gate \in W!Gates /\ held.sig \in W!Pressures \cup {W!NoSig}
      BY DEF W!TypeOK
    <3>2. risk.kind \in PressureKinds \cup {W!None, "healthy"} /\ risk.level \in 0..2
      BY <3>1 DEF W!Pressures, W!NoSig, W!Clear, W!Unknown
    <3>3. W!Record = [x EXCEPT !.level = risk.level]
      BY DEF W!Record
    <3> HIDE DEF risk
    <3>4. x \in W!Gates
      BY <3>1, <3>2 DEF W!Gates
    <3> HIDE DEF x
    <3> QED BY <3>2, <3>3, <3>4 DEF W!Gates
  <2>3. /\ saved' \in W!Gates /\ event' = W!None
        /\ UNCHANGED <<host, unlocked, unit, gate, held, healthy, active, quiet, faults>>
    BY <1>1, <2>2 DEF W!Save, W!TypeOK
  <2>4. event' \in Events
    BY <2>3 DEF Events
  <2> QED BY <2>1, <2>3, <2>4 DEF W!TypeOK, QuietInv, Events
<1>2. CASE W!SaveFails
  <2>1. event' \in Events /\ faults' \in 0..MaxRescueFaults
    BY <1>2 DEF W!SaveFails, Events, W!TypeOK, Pressing
  <2> QED BY <1>2, <2>1 DEF W!SaveFails, W!TypeOK, QuietInv, Events
<1>3. CASE W!Restart
  <2>1. /\ gate' = saved /\ saved \in W!Gates /\ held' = W!NoHold /\ healthy' = 0 /\ active' = FALSE
        /\ event' = W!None /\ quiet' = (IF W!Remembered THEN quiet ELSE W!NoQuiet)
        /\ faults' \in 0..MaxRescueFaults
        /\ UNCHANGED <<host, unlocked, unit, saved, owed>>
    BY <1>3 DEF W!Restart, W!TypeOK, Pressing
  <2>2. /\ held' \in [sig : W!Pressures \cup {W!NoSig}, age : 0..Debounce]
        /\ quiet' \in [left : 0..Snooze, sig : W!Pressures \cup {W!NoSig}]
        /\ healthy' \in 0..RecoverySamples /\ event' \in Events
    BY <2>1 DEF W!NoHold, W!NoQuiet, Pressing, Events, W!TypeOK
  <2>3. active' \in BOOLEAN
    BY <2>1, Zenon
  <2>4. W!TypeOK'
    BY <2>1, <2>2, <2>3 DEF W!TypeOK, Events
  <2>5. QuietInv'
    <3>1. CASE W!Remembered
      BY <2>1, <3>1 DEF QuietInv, W!Remembered
    <3>2. CASE ~W!Remembered
      BY <2>1, <3>2 DEF QuietInv, W!NoQuiet
    <3> QED BY <3>1, <3>2
  <2> QED BY <2>4, <2>5
<1> QED BY <1>1, <1>2, <1>3

(* Every step of the watcher, the dialog and the host.                       *)
LEMMA RescueStep ==
  ASSUME Pressing, RescueInv, [W!Next]_(W!vars)
  PROVE  RescueInv'
<1>1. CASE W!Weather \/ W!Session \/ W!Tick
  BY <1>1, OutsideKeeps
<1>2. CASE W!DialogLoads \/ W!DialogEnds \/ W!DialogFails
  BY <1>2, WindowKeeps
<1>3. CASE W!Check \/ W!Open \/ W!OpenFails \/ W!OpenTimesOut
  BY <1>3, SampleKeeps
<1>4. CASE W!Save \/ W!SaveFails \/ W!Restart
  BY <1>4, RecordKeeps
<1>5. CASE UNCHANGED W!vars
  BY <1>5 DEF W!vars, RescueInv, W!TypeOK, QuietInv
<1> QED BY <1>1, <1>2, <1>3, <1>4, <1>5 DEF W!Next

(* The other parts of the desktop leave the dialog alone.                    *)
LEMMA RescueAll ==
  ASSUME Pressing
  PROVE  AllSpec => []RescueInv
<1>1. AllInit => RescueInv
  BY InitRescue DEF AllInit
<1>2. [AllNext]_allVars => [W!Next]_(W!vars)
  BY DEF AllNext, allVars, rescueVars, Rescue, W!vars
<1>3. RescueInv /\ [AllNext]_allVars => RescueInv'
  BY <1>2, RescueStep
<1> QED BY <1>1, <1>3, PTL DEF AllSpec

(* What the user put off stays away for the snooze while the pressure lasts    *)
(* and no sample shows another kind or a higher level than the one before:     *)
(* whatever the clock, the lock screen, failed starts and failed writes do, no *)
(* sample and no recap opens the dialog, nor does a restart of the daemon on a *)
(* record that holds the dismissal.  A restart on a record that does not, and  *)
(* a pressure that rises, ends or changes kind, are left to the code.          *)
THEOREM DismissedDialogStaysAway == ASSUME Pressing PROVE AllSpec => DialogStaysAway
<1>1. AllSpec => []RescueInv
  BY RescueAll
<1>2. RescueInv /\ [AllNext]_allVars => [W!Open => quiet'.left = 0]_(W!vars)
  <2>1. RescueInv /\ W!Open => quiet'.left = 0
    BY SampleKeeps
  <2> QED BY <2>1
<1>3. [][W!Open => quiet'.left = 0]_(W!vars) => DialogStaysAway
  BY DEF DialogStaysAway, W!DismissedStaysAway
<1> QED BY <1>1, <1>2, <1>3, PTL DEF AllSpec

-----------------------------------------------------------------------------
(* The token of the browser.                                                 *)

(* The function that the reader follows exists: the readings of the first n  *)
(* fragments, for every n.                                                   *)
LEMMA ReadingExists ==
  ASSUME NEW n \in Nat
  PROVE  \E f : f = [i \in 0..n |-> IF i = 0 THEN C!Unread ELSE C!Follow(f[i - 1], i)]
<1> DEFINE P(m) == \E f : f = [i \in 0..m |-> IF i = 0 THEN C!Unread ELSE C!Follow(f[i - 1], i)]
           B == {m \in Nat : ~P(m)}
<1>1. SUFFICES ASSUME B # {} PROVE FALSE
  OBVIOUS
<1>2. PICK m \in B : \A k \in B : m <= k
  <2> HIDE DEF P
  <2> B \in SUBSET Nat
    OBVIOUS
  <2> HIDE DEF B
  <2> QED BY <1>1, LeastNumber
<1>3. CASE m = 0
  <2> DEFINE f == [i \in 0..0 |-> C!Unread]
  <2>1. f = [i \in 0..0 |-> IF i = 0 THEN C!Unread ELSE C!Follow(f[i - 1], i)]
    OBVIOUS
  <2> QED BY <1>2, <1>3, <2>1
<1>4. CASE m # 0
  <2>1. m \in Nat /\ m - 1 \in Nat /\ P(m - 1)
    <3> HIDE DEF P
    <3> QED BY <1>2, <1>4
  <2>2. PICK f : f = [i \in 0..(m - 1) |-> IF i = 0 THEN C!Unread ELSE C!Follow(f[i - 1], i)]
    BY <2>1
  <2> DEFINE g == [i \in 0..m |-> IF i = m THEN C!Follow(f[m - 1], m) ELSE f[i]]
  <2>3. \A i \in 0..(m - 1) : g[i] = f[i]
    BY <2>1
  <2>4. \A i \in 0..m : g[i] = IF i = 0 THEN C!Unread ELSE C!Follow(g[i - 1], i)
    <3>1. g[m] = C!Follow(g[m - 1], m)
      BY <2>1, <2>3
    <3>2. ASSUME NEW i \in 0..(m - 1)
          PROVE  g[i] = IF i = 0 THEN C!Unread ELSE C!Follow(g[i - 1], i)
      <4>1. f[i] = IF i = 0 THEN C!Unread ELSE C!Follow(f[i - 1], i)
        BY <2>2
      <4>2. i # 0 => g[i - 1] = f[i - 1]
        BY <2>1, <2>3
      <4> HIDE DEF g
      <4> QED BY <2>3, <4>1, <4>2
    <3> HIDE DEF g
    <3> QED BY <1>4, <2>1, <3>1, <3>2
  <2>5. g = [i \in 0..m |-> g[i]]
    OBVIOUS
  <2>6. g = [i \in 0..m |-> IF i = 0 THEN C!Unread ELSE C!Follow(g[i - 1], i)]
    <3> HIDE DEF g
    <3> QED BY <2>4, <2>5
  <2>7. P(m)
    <3> HIDE DEF g
    <3> QED BY <2>6
  <2> QED BY <1>2, <2>7
<1> QED BY <1>3, <1>4

(* What the reader holds, fragment by fragment.                              *)
LEMMA Reading ==
  ASSUME Len(log) \in Nat
  PROVE  /\ C!ReadTo[0] = C!Unread
         /\ \A i \in 1..Len(log) : C!ReadTo[i] = C!Follow(C!ReadTo[i - 1], i)
<1>1. C!ReadTo = [i \in 0..Len(log) |-> IF i = 0 THEN C!Unread ELSE C!Follow(C!ReadTo[i - 1], i)]
  BY ReadingExists DEF C!ReadTo
<1> HIDE DEF C!ReadTo
<1>2. \A i \in 0..Len(log) : C!ReadTo[i] = IF i = 0 THEN C!Unread ELSE C!Follow(C!ReadTo[i - 1], i)
  BY <1>1
<1> QED BY <1>2

(* What the proofs about ChromeSession take of its constants: a block has   *)
(* room for a header and more, and no record is empty.                      *)
Cutting ==
  /\ Block \in Nat /\ Header \in Nat /\ Header < Block
  /\ Lengths \in SUBSET (Nat \ {0}) /\ MaxRecords \in Nat

(* A fragment with which a record is complete; one that begins a record.     *)
Final(f) == f.kind \in {"full", "last"}
Opens(f) == f.kind \in {"full", "first"}
Cut == [kind : {"full", "first", "middle", "last"}, block : Nat, rec : Nat, from : Nat, len : Nat]

(* The log: the fragments of one record follow each other without a gap, the *)
(* next record begins where one is complete, and no fragment stands in an    *)
(* earlier block than the one before it.                                     *)
LogTypes ==
  /\ records \in Seq([len : Lengths, set : BOOLEAN]) /\ Len(records) <= MaxRecords
  /\ flushed \in 0..C!Written /\ lost \cup torn \in SUBSET (1..Len(log))
  /\ tables \in SUBSET (1..flushed)
  /\ rest = 0 \/ (Len(records) > 0 /\ rest \in 1..records[Len(records)].len)
  /\ end \in [block : Nat, used : 0..Block]
  /\ log \in Seq(Cut)

(* Each fragment of itself, with the record that it is of.                   *)
FragmentInv ==
  \A i \in 1..Len(log) :
    /\ log[i].rec \in (flushed + 1)..Len(records) /\ log[i].block <= end.block
    /\ Final(log[i]) => /\ log[i].rec <= C!Written
                        /\ log[i].from + log[i].len = records[log[i].rec].len
    /\ Opens(log[i]) => log[i].from = 0
    /\ i = 1 => Opens(log[i])

(* Each fragment and the one before it.                                      *)
ChainInv ==
  \A i \in 2..Len(log) :
    /\ log[i - 1].block <= log[i].block
    /\ Final(log[i - 1]) => Opens(log[i]) /\ log[i - 1].rec < log[i].rec
    /\ ~Final(log[i - 1]) => /\ ~Opens(log[i]) /\ log[i].rec = log[i - 1].rec
                             /\ log[i].from = log[i - 1].from + log[i - 1].len

(* The last fragment, the rest of its record, and all complete records.      *)
Last == log[Len(log)]

EndInv ==
  /\ log # <<>> /\ ~Final(Last) =>
       /\ rest > 0 /\ Last.rec = Len(records)
       /\ Last.from + Last.len = records[Len(records)].len - rest
  /\ rest > 0 /\ (log = <<>> \/ Final(Last)) =>
       /\ rest = records[Len(records)].len
       /\ log # <<>> => Last.rec < Len(records)
  /\ \A r \in (flushed + 1)..C!Written :
       \E i \in 1..Len(log) : log[i].rec = r /\ Final(log[i])

LogInv == LogTypes /\ FragmentInv /\ ChainInv /\ EndInv

-----------------------------------------------------------------------------
(* Bytes of a record in a row.                                               *)
Run(r, from, n) == [i \in 1..n |-> <<r, from + i>>]

(* A run of bytes is a sequence, empty only if it has none.                  *)
LEMMA RunFacts ==
  ASSUME NEW r \in Nat, NEW from \in Nat, NEW n \in Nat
  PROVE  /\ Run(r, from, n) \in Seq(Nat \X Nat) /\ Len(Run(r, from, n)) = n
         /\ \A i \in 1..n : Run(r, from, n)[i] = <<r, from + i>>
         /\ Run(r, from, n) = <<>> <=> n = 0
<1>1. \A i \in 1..n : <<r, from + i>> \in Nat \X Nat
  OBVIOUS
<1>2. Run(r, from, n) \in Seq(Nat \X Nat) /\ Len(Run(r, from, n)) = n
  BY <1>1 DEF Run
<1>3. n = 0 => Run(r, from, n) = <<>>
  BY <1>2
<1>4. n # 0 => Run(r, from, n) # <<>>
  BY <1>2
<1> QED BY <1>2, <1>3, <1>4 DEF Run

(* Two runs of a record that meet are one.                                   *)
LEMMA RunsJoin ==
  ASSUME NEW r \in Nat, NEW a \in Nat, NEW n \in Nat
  PROVE  Run(r, 0, a) \o Run(r, a, n) = Run(r, 0, a + n)
<1> DEFINE x == Run(r, 0, a)
           y == Run(r, a, n)
           z == Run(r, 0, a + n)
<1>1. x \in Seq(Nat \X Nat) /\ Len(x) = a /\ \A i \in 1..a : x[i] = <<r, 0 + i>>
  BY RunFacts
<1>2. y \in Seq(Nat \X Nat) /\ Len(y) = n /\ \A i \in 1..n : y[i] = <<r, a + i>>
  BY RunFacts
<1>3. z \in Seq(Nat \X Nat) /\ Len(z) = a + n /\ \A i \in 1..(a + n) : z[i] = <<r, 0 + i>>
  <2>1. a + n \in Nat
    OBVIOUS
  <2> QED BY <2>1, RunFacts
<1> HIDE DEF x, y, z
<1>4. x \o y \in Seq(Nat \X Nat) /\ Len(x \o y) = a + n
  BY <1>1, <1>2
<1>5. ASSUME NEW i \in 1..(a + n)
      PROVE  (x \o y)[i] = <<r, i>>
  <2>0. i \in Nat
    OBVIOUS
  <2>1. CASE i <= a
    <3>1. (x \o y)[i] = x[i] /\ i \in 1..a
      BY <1>1, <1>2, <2>1
    <3> QED BY <1>1, <3>1
  <2>2. CASE ~(i <= a)
    <3>0. i - a \in 1..n
      BY <2>0, <2>2
    <3>1. (x \o y)[i] = y[i - a]
      BY <1>1, <1>2, <2>2, ConcatProperties
    <3>2. y[i - a] = <<r, a + (i - a)>> /\ a + (i - a) = i
      BY <1>2, <3>0
    <3> QED BY <3>1, <3>2
  <2> QED BY <2>1, <2>2
<1>6. \A i \in 1..(a + n) : z[i] = <<r, i>>
  BY <1>3
<1>7. x \o y = z
  <2>1. Len(z) = Len(x \o y) /\ \A i \in 1..Len(z) : z[i] = (x \o y)[i]
    BY <1>3, <1>4, <1>5, <1>6
  <2>2. \A u, v \in Seq(Nat \X Nat) :
          Len(u) = Len(v) /\ (\A i \in 1..Len(u) : u[i] = v[i]) => u = v
    BY SeqEqual
  <2> QED BY <1>3, <1>4, <2>1, <2>2
<1> QED BY <1>7 DEF x, y, z

(* Records and fragments are runs of their bytes.                            *)
LEMMA RecordRuns ==
  ASSUME Cutting, LogTypes
  PROVE  /\ \A r \in 1..Len(records) :
              /\ records[r].len \in Nat /\ records[r].len > 0
              /\ C!Whole(r) = Run(r, 0, records[r].len)
         /\ \A i \in 1..Len(log) : C!Bytes(log[i]) = Run(log[i].rec, log[i].from, log[i].len)
<1>1. \A r \in 1..Len(records) : records[r].len \in Lengths
  <2> DEFINE Rec == [len : Lengths, set : BOOLEAN]
  <2>1. records \in Seq(Rec)
    BY DEF LogTypes
  <2>2. \A w \in Rec : w.len \in Lengths
    OBVIOUS
  <2> HIDE DEF Rec
  <2>3. \A r \in 1..Len(records) : records[r] \in Rec
    BY <2>1
  <2> QED BY <2>2, <2>3
<1>2. ASSUME NEW r \in 1..Len(records)
      PROVE  C!Whole(r) = Run(r, 0, records[r].len)
  <2>1. \A i \in 1..records[r].len : 0 + i = i
    OBVIOUS
  <2> QED BY <2>1 DEF C!Whole, Run
<1>3. \A i \in 1..Len(log) : C!Bytes(log[i]) = Run(log[i].rec, log[i].from, log[i].len)
  BY DEF C!Bytes, Run
<1>4. \A r \in 1..Len(records) : records[r].len \in Nat /\ records[r].len > 0
  <2> TAKE r \in 1..Len(records)
  <2>1. records[r].len \in Nat \ {0}
    BY <1>1 DEF Cutting
  <2> QED BY <2>1
<1> QED BY <1>2, <1>3, <1>4

-----------------------------------------------------------------------------
(* The reader.                                                                *)
Upto(f) == Run(f.rec, 0, f.from + f.len)
Wholes == {C!Whole(r) : r \in 1..Len(records)}

(* What the reader holds after i fragments: whole records of the log, in      *)
(* order, and of an open one all that there is so far, in blocks that were    *)
(* not given up.                                                              *)
Holds(s, i) ==
  /\ s = [pending |-> s.pending, out |-> s.out, skip |-> s.skip]
  /\ s.out \in Seq(Wholes)
  /\ s.skip = C!NoBlock \/ (s.skip \in Nat /\ i > 0 /\ s.skip <= log[i].block)
  /\ s.pending # <<>> =>
       i > 0 /\ ~Final(log[i]) /\ s.skip < log[i].block /\ s.pending = Upto(log[i])
  /\ \A k \in 1..Len(s.out) :
       \E r \in 1..Len(records) :
         /\ s.out[k] = C!Whole(r)
         /\ i > 0 /\ (r < log[i].rec \/ (r = log[i].rec /\ Final(log[i])))
  /\ \A k \in 1..Len(s.out) : \A j \in 1..(k - 1) : s.out[j][1][1] < s.out[k][1][1]

(* What it holds besides if nothing is lost: all that is complete.            *)
Follows(s, i) ==
  /\ s.skip = C!NoBlock
  /\ i > 0 /\ ~Final(log[i]) => s.pending = Upto(log[i]) /\ log[i].from + log[i].len > 0
  /\ \A j \in 1..i : Final(log[j]) => \E k \in 1..Len(s.out) : s.out[k] = C!Whole(log[j].rec)

(* Of one fragment and the one before it.                                     *)
LEMMA FragmentFacts ==
  ASSUME Cutting, LogInv, NEW i \in 1..Len(log)
  PROVE  /\ log[i] \in Cut /\ log[i].rec \in 1..Len(records)
         /\ Final(log[i]) /\ Opens(log[i]) <=> log[i].kind = "full"
         /\ ~Final(log[i]) /\ Opens(log[i]) <=> log[i].kind = "first"
         /\ Final(log[i]) /\ ~Opens(log[i]) <=> log[i].kind = "last"
         /\ ~Final(log[i]) /\ ~Opens(log[i]) <=> log[i].kind = "middle"
         /\ C!Bytes(log[i]) = Run(log[i].rec, log[i].from, log[i].len)
         /\ Final(log[i]) => C!Whole(log[i].rec) = Upto(log[i])
<1>1. log[i] \in Cut
  <2>1. log \in Seq(Cut)
    BY DEF LogInv, LogTypes
  <2> QED BY <2>1
<1>2. log[i].rec \in 1..Len(records)
  <2>1. log[i].rec \in (flushed + 1)..Len(records) /\ flushed \in Nat /\ Len(records) \in Nat
    <3>1. Len(records) \in Nat
      BY DEF LogInv, LogTypes
    <3>2. flushed \in Nat
      BY <3>1 DEF LogInv, LogTypes, C!Written
    <3> QED BY <3>1, <3>2 DEF LogInv, FragmentInv
  <2> QED BY <2>1
<1>3. log[i].kind \in {"full", "first", "middle", "last"}
  BY <1>1 DEF Cut
<1>4. C!Bytes(log[i]) = Run(log[i].rec, log[i].from, log[i].len)
  BY RecordRuns DEF LogInv
<1>5. Final(log[i]) => C!Whole(log[i].rec) = Upto(log[i])
  <2>1. Final(log[i]) => log[i].from + log[i].len = records[log[i].rec].len
    BY DEF LogInv, FragmentInv
  <2>2. C!Whole(log[i].rec) = Run(log[i].rec, 0, records[log[i].rec].len)
    BY <1>2, RecordRuns DEF LogInv
  <2> QED BY <2>1, <2>2 DEF Upto
<1> QED BY <1>1, <1>2, <1>3, <1>4, <1>5 DEF Final, Opens

(* A fragment that does not open a record goes on where the last one ended.  *)
LEMMA JoinFacts ==
  ASSUME Cutting, LogInv, NEW i \in 2..Len(log), ~Opens(log[i])
  PROVE  /\ ~Final(log[i - 1]) /\ log[i - 1].rec = log[i].rec
         /\ log[i].from = log[i - 1].from + log[i - 1].len
         /\ Upto(log[i - 1]) \o C!Bytes(log[i]) = Upto(log[i])
<1>1. /\ ~Final(log[i - 1]) /\ log[i - 1].rec = log[i].rec
      /\ log[i].from = log[i - 1].from + log[i - 1].len
  BY DEF LogInv, ChainInv
<1>2. i - 1 \in 1..Len(log) /\ i \in 1..Len(log)
  OBVIOUS
<1>3. log[i - 1] \in Cut /\ log[i] \in Cut
  BY <1>2, FragmentFacts
<1>4. C!Bytes(log[i]) = Run(log[i].rec, log[i].from, log[i].len)
  BY <1>2, FragmentFacts
<1>5. log[i].rec \in Nat /\ log[i].from \in Nat /\ log[i].len \in Nat
  BY <1>3 DEF Cut
<1>6. Upto(log[i - 1]) = Run(log[i].rec, 0, log[i].from)
  BY <1>1 DEF Upto
<1>7. Run(log[i].rec, 0, log[i].from) \o Run(log[i].rec, log[i].from, log[i].len)
        = Run(log[i].rec, 0, log[i].from + log[i].len)
  BY <1>5, RunsJoin
<1> QED BY <1>1, <1>4, <1>6, <1>7 DEF Upto

(* A record appended to what was read keeps it in order.                      *)
LEMMA OutGrows ==
  ASSUME Cutting, LogInv, NEW i \in 1..Len(log), Final(log[i]),
         NEW out \in Seq(Wholes),
         \A k \in 1..Len(out) :
           \E r \in 1..Len(records) : out[k] = C!Whole(r) /\ r < log[i].rec,
         \A k \in 1..Len(out) : \A j \in 1..(k - 1) : out[j][1][1] < out[k][1][1]
  PROVE  LET new == Append(out, C!Whole(log[i].rec)) IN
         /\ new \in Seq(Wholes) /\ Len(new) = Len(out) + 1
         /\ new[Len(new)] = C!Whole(log[i].rec)
         /\ \A k \in 1..Len(out) : new[k] = out[k]
         /\ \A k \in 1..Len(new) :
              \E r \in 1..Len(records) :
                new[k] = C!Whole(r) /\ (r < log[i].rec \/ r = log[i].rec)
         /\ \A k \in 1..Len(new) : \A j \in 1..(k - 1) : new[j][1][1] < new[k][1][1]
<1> DEFINE w == C!Whole(log[i].rec)
           new == Append(out, w)
<1>1. log[i].rec \in 1..Len(records)
  BY FragmentFacts
<1>2. w \in Wholes
  BY <1>1 DEF Wholes
<1>3. \A r \in 1..Len(records) : C!Whole(r)[1][1] = r
  <2> TAKE r \in 1..Len(records)
  <2>1. records[r].len \in Nat /\ records[r].len > 0
    BY RecordRuns DEF LogInv
  <2>2. 1 \in 1..records[r].len
    BY <2>1
  <2> QED BY <2>2 DEF C!Whole
<1>4. w[1][1] = log[i].rec
  BY <1>1, <1>3
<1> HIDE DEF w
<1>5. /\ new \in Seq(Wholes) /\ Len(new) = Len(out) + 1
      /\ new[Len(new)] = w
      /\ \A k \in 1..Len(out) : new[k] = out[k]
  BY <1>2
<1> HIDE DEF new
<1>6. \A k \in 1..Len(new) : k \in 1..Len(out) \/ k = Len(new)
  BY <1>5
<1>7. \A k \in 1..Len(new) :
        \E r \in 1..Len(records) : new[k] = C!Whole(r) /\ (r < log[i].rec \/ r = log[i].rec)
  <2> TAKE k \in 1..Len(new)
  <2>1. CASE k \in 1..Len(out)
    BY <1>5, <2>1
  <2>2. CASE k = Len(new)
    BY <1>1, <1>5, <2>2 DEF w
  <2> QED BY <1>6, <2>1, <2>2
<1>8. ASSUME NEW k \in 1..Len(new), NEW j \in 1..(k - 1)
      PROVE  new[j][1][1] < new[k][1][1]
  <2>1. j \in 1..Len(out) /\ new[j] = out[j]
    BY <1>5
  <2>2. CASE k \in 1..Len(out)
    BY <1>5, <2>1, <2>2
  <2>3. CASE k = Len(new)
    <3>1. PICK r \in 1..Len(records) : out[j] = C!Whole(r) /\ r < log[i].rec
      BY <2>1
    <3>2. out[j][1][1] = r
      BY <1>3, <3>1
    <3> QED BY <1>4, <1>5, <2>1, <2>3, <3>1, <3>2
  <2> QED BY <1>6, <2>2, <2>3
<1> QED BY <1>5, <1>7, <1>8 DEF new, w

(* What one fragment does to what the reader holds.                           *)
LEMMA TakeCases ==
  ASSUME NEW s, s = [pending |-> s.pending, out |-> s.out, skip |-> s.skip], NEW f
  PROVE  /\ f.kind = "full" => C!Take(s, f) =
              [pending |-> <<>>, out |-> Append(s.out, C!Bytes(f)), skip |-> s.skip]
         /\ f.kind = "first" => C!Take(s, f) =
              [pending |-> C!Bytes(f), out |-> s.out, skip |-> s.skip]
         /\ f.kind = "middle" /\ s.pending # <<>> => C!Take(s, f) =
              [pending |-> s.pending \o C!Bytes(f), out |-> s.out, skip |-> s.skip]
         /\ f.kind = "last" /\ s.pending # <<>> => C!Take(s, f) =
              [pending |-> <<>>, out |-> Append(s.out, s.pending \o C!Bytes(f)), skip |-> s.skip]
         /\ f.kind \in {"middle", "last"} /\ s.pending = <<>> => C!Take(s, f) =
              [pending |-> <<>>, out |-> s.out, skip |-> s.skip]
<1> DEFINE b == C!Bytes(f)
<1>1. CASE f.kind = "full"
  <2>1. C!Take(s, f) = [s EXCEPT !.pending = <<>>, !.out = Append(s.out, b)]
    BY <1>1 DEF C!Take
  <2> HIDE DEF b
  <2> QED BY <1>1, <2>1 DEF b
<1>2. CASE f.kind = "first"
  <2>1. C!Take(s, f) = [s EXCEPT !.pending = b]
    BY <1>2 DEF C!Take
  <2> HIDE DEF b
  <2> QED BY <1>2, <2>1 DEF b
<1>3. CASE f.kind = "middle" /\ s.pending # <<>>
  <2>1. C!Take(s, f) = [s EXCEPT !.pending = s.pending \o b]
    BY <1>3 DEF C!Take
  <2> HIDE DEF b
  <2> QED BY <1>3, <2>1 DEF b
<1>4. CASE f.kind = "last" /\ s.pending # <<>>
  <2>1. C!Take(s, f) = [s EXCEPT !.pending = <<>>, !.out = Append(s.out, s.pending \o b)]
    BY <1>4 DEF C!Take
  <2> HIDE DEF b
  <2> QED BY <1>4, <2>1 DEF b
<1>5. CASE f.kind \in {"middle", "last"} /\ s.pending = <<>>
  <2>1. C!Take(s, f) = [s EXCEPT !.pending = <<>>]
    BY <1>5 DEF C!Take
  <2> QED BY <1>5, <2>1
<1> QED BY <1>1, <1>2, <1>3, <1>4, <1>5

(* The records read so far come before the one of the next fragment.          *)
LEMMA BeforeNext ==
  ASSUME Cutting, LogInv, NEW i \in 1..Len(log), NEW s, Holds(s, i - 1)
  PROVE  /\ \A k \in 1..Len(s.out) :
              \E r \in 1..Len(records) : s.out[k] = C!Whole(r) /\ r < log[i].rec
         /\ s.skip = C!NoBlock \/ (s.skip \in Nat /\ s.skip <= log[i].block)
         /\ s.pending # <<>> => i \in 2..Len(log) /\ ~Opens(log[i]) /\ s.skip < log[i].block
                                /\ s.pending = Upto(log[i - 1])
<1>0. log[i] \in Cut /\ log[i].rec \in Nat /\ log[i].block \in Nat
  BY FragmentFacts DEF Cut
<1>1. CASE i = 1
  BY <1>1 DEF Holds
<1>2. CASE i # 1
  <2>1. i \in 2..Len(log) /\ i - 1 \in 1..Len(log) /\ i - 1 > 0
    BY <1>2
  <2>2. log[i - 1].rec \in Nat /\ log[i - 1].block \in Nat
    BY <2>1, FragmentFacts DEF Cut
  <2>3. /\ log[i - 1].block <= log[i].block
        /\ Final(log[i - 1]) => log[i - 1].rec < log[i].rec
        /\ ~Final(log[i - 1]) => ~Opens(log[i]) /\ log[i].rec = log[i - 1].rec
    BY <2>1 DEF LogInv, ChainInv
  <2>4. ASSUME NEW k \in 1..Len(s.out)
        PROVE  \E r \in 1..Len(records) : s.out[k] = C!Whole(r) /\ r < log[i].rec
    <3>1. PICK r \in 1..Len(records) :
             /\ s.out[k] = C!Whole(r)
             /\ r < log[i - 1].rec \/ (r = log[i - 1].rec /\ Final(log[i - 1]))
      BY DEF Holds
    <3> QED BY <1>0, <2>2, <2>3, <3>1
  <2>5. s.skip = C!NoBlock \/ (s.skip \in Nat /\ s.skip <= log[i].block)
    BY <1>0, <2>2, <2>3 DEF Holds
  <2>6. s.pending # <<>> => ~Opens(log[i]) /\ s.skip < log[i].block /\ s.pending = Upto(log[i - 1])
    BY <1>0, <2>1, <2>2, <2>3 DEF Holds, C!NoBlock
  <2> QED BY <2>1, <2>4, <2>5, <2>6
<1> QED BY <1>1, <1>2

(* A record that is complete with this fragment is read whole.                *)
LEMMA ReadsWhole ==
  ASSUME Cutting, LogInv, NEW i \in 1..Len(log), NEW s, Holds(s, i - 1), Final(log[i]),
         NEW t, t = [pending |-> <<>>, out |-> Append(s.out, C!Whole(log[i].rec)), skip |-> s.skip]
  PROVE  /\ Holds(t, i)
         /\ Len(t.out) = Len(s.out) + 1 /\ t.out[Len(t.out)] = C!Whole(log[i].rec)
         /\ \A k \in 1..Len(s.out) : t.out[k] = s.out[k]
<1> DEFINE new == Append(s.out, C!Whole(log[i].rec))
<1>1. s.out \in Seq(Wholes)
  BY DEF Holds
<1>2. /\ \A k \in 1..Len(s.out) :
           \E r \in 1..Len(records) : s.out[k] = C!Whole(r) /\ r < log[i].rec
      /\ s.skip = C!NoBlock \/ (s.skip \in Nat /\ s.skip <= log[i].block)
  BY BeforeNext
<1>3. /\ new \in Seq(Wholes) /\ Len(new) = Len(s.out) + 1
      /\ new[Len(new)] = C!Whole(log[i].rec)
      /\ \A k \in 1..Len(s.out) : new[k] = s.out[k]
      /\ \A k \in 1..Len(new) :
           \E r \in 1..Len(records) :
             new[k] = C!Whole(r) /\ (r < log[i].rec \/ r = log[i].rec)
      /\ \A k \in 1..Len(new) : \A j \in 1..(k - 1) : new[j][1][1] < new[k][1][1]
  <2>1. \A k \in 1..Len(s.out) : \A j \in 1..(k - 1) : s.out[j][1][1] < s.out[k][1][1]
    BY DEF Holds
  <2> QED BY <1>1, <1>2, <2>1, OutGrows
<1> HIDE DEF new
<1>4. t = [pending |-> <<>>, out |-> new, skip |-> s.skip]
  BY DEF new
<1>5. t.out = new /\ t.pending = <<>> /\ t.skip = s.skip /\ i > 0
  BY <1>4
<1>6. t = [pending |-> t.pending, out |-> t.out, skip |-> t.skip]
  BY <1>4, <1>5
<1>7. Holds(t, i)
  BY <1>2, <1>3, <1>5, <1>6 DEF Holds
<1> QED BY <1>3, <1>5, <1>7

(* Any other fragment leaves the records as they are.                         *)
LEMMA ReadsOn ==
  ASSUME Cutting, LogInv, NEW i \in 1..Len(log), NEW s, Holds(s, i - 1),
         NEW t, t = [pending |-> t.pending, out |-> s.out, skip |-> t.skip],
         t.skip = s.skip \/ t.skip = log[i].block,
         t.pending # <<>> => ~Final(log[i]) /\ t.skip < log[i].block /\ t.pending = Upto(log[i])
  PROVE  Holds(t, i)
<1>1. /\ \A k \in 1..Len(s.out) :
           \E r \in 1..Len(records) : s.out[k] = C!Whole(r) /\ r < log[i].rec
      /\ s.skip = C!NoBlock \/ (s.skip \in Nat /\ s.skip <= log[i].block)
  BY BeforeNext
<1>2. log[i].block \in Nat /\ i > 0
  BY FragmentFacts DEF Cut
<1>3. t.skip = C!NoBlock \/ (t.skip \in Nat /\ t.skip <= log[i].block)
  BY <1>1, <1>2
<1>4. t.out = s.out
  OBVIOUS
<1>5. /\ s.out \in Seq(Wholes)
      /\ \A k \in 1..Len(s.out) : \A j \in 1..(k - 1) : s.out[j][1][1] < s.out[k][1][1]
  BY DEF Holds
<1> QED BY <1>1, <1>2, <1>3, <1>4, <1>5 DEF Holds

(* Whatever the next fragment is, lost or not, the reader still holds this.  *)
LEMMA FollowHolds ==
  ASSUME Cutting, LogInv, NEW i \in 1..Len(log), NEW s, Holds(s, i - 1)
  PROVE  Holds(C!Follow(s, i), i)
<1> DEFINE t == C!Follow(s, i)
<1>0. s = [pending |-> s.pending, out |-> s.out, skip |-> s.skip]
  BY DEF Holds
<1>1. log[i].block \in Nat
  BY FragmentFacts DEF Cut
<1>2. /\ s.skip = C!NoBlock \/ (s.skip \in Nat /\ s.skip <= log[i].block)
      /\ s.pending # <<>> => i \in 2..Len(log) /\ ~Opens(log[i]) /\ s.skip < log[i].block
                             /\ s.pending = Upto(log[i - 1])
  BY BeforeNext
<1>3. CASE log[i].block = s.skip
  <2>1. t = s /\ s.pending = <<>>
    BY <1>1, <1>2, <1>3 DEF C!Follow
  <2> HIDE DEF t
  <2> QED BY <1>0, <2>1, ReadsOn DEF t
<1>4. CASE log[i].block # s.skip /\ i \in lost
  <2>1. t = [s EXCEPT !.pending = <<>>, !.skip = log[i].block]
    BY <1>4 DEF C!Follow
  <2>2. t = [pending |-> <<>>, out |-> s.out, skip |-> log[i].block]
    <3> HIDE DEF t
    <3> QED BY <1>0, <2>1
  <2> HIDE DEF t
  <2>3. t = [pending |-> t.pending, out |-> s.out, skip |-> t.skip]
        /\ t.pending = <<>> /\ t.skip = log[i].block
    BY <2>2
  <2> QED BY <2>3, ReadsOn DEF t
<1>5. CASE log[i].block # s.skip /\ i \notin lost
  <2>0. t = C!Take(s, log[i])
    BY <1>5 DEF C!Follow
  <2>1. s.skip < log[i].block
    BY <1>1, <1>2, <1>5 DEF C!NoBlock
  <2>2. log[i].kind \in {"full", "first", "middle", "last"}
    BY FragmentFacts DEF Cut
  <2> HIDE DEF t
  <2>3. CASE log[i].kind = "full"
    <3>1. C!Bytes(log[i]) = C!Whole(log[i].rec) /\ Final(log[i])
      <4>1. log[i].from = 0 /\ Final(log[i]) /\ C!Whole(log[i].rec) = Upto(log[i])
        BY <2>3, FragmentFacts DEF LogInv, FragmentInv
      <4>2. log[i].len \in Nat /\ 0 + log[i].len = log[i].len
        BY FragmentFacts DEF Cut
      <4>3. C!Bytes(log[i]) = Run(log[i].rec, log[i].from, log[i].len)
        BY FragmentFacts
      <4> QED BY <4>1, <4>2, <4>3 DEF Upto
    <3>2. t = [pending |-> <<>>, out |-> Append(s.out, C!Whole(log[i].rec)), skip |-> s.skip]
      BY <1>0, <2>0, <2>3, <3>1, TakeCases
    <3> QED BY <3>1, <3>2, ReadsWhole DEF t
  <2>4. CASE log[i].kind = "first"
    <3>1. C!Bytes(log[i]) = Upto(log[i]) /\ ~Final(log[i])
      <4>1. log[i].from = 0 /\ ~Final(log[i])
        BY <2>4, FragmentFacts DEF LogInv, FragmentInv
      <4>2. log[i].len \in Nat /\ 0 + log[i].len = log[i].len
        BY FragmentFacts DEF Cut
      <4>3. C!Bytes(log[i]) = Run(log[i].rec, log[i].from, log[i].len)
        BY FragmentFacts
      <4> QED BY <4>1, <4>2, <4>3 DEF Upto
    <3>2. t = [pending |-> Upto(log[i]), out |-> s.out, skip |-> s.skip]
      BY <1>0, <2>0, <2>4, <3>1, TakeCases
    <3>3. t = [pending |-> t.pending, out |-> s.out, skip |-> t.skip]
          /\ t.pending = Upto(log[i]) /\ t.skip = s.skip
      BY <3>2
    <3> QED BY <2>1, <3>1, <3>3, ReadsOn DEF t
  <2>5. CASE log[i].kind = "middle" /\ s.pending # <<>>
    <3>1. t = [pending |-> s.pending \o C!Bytes(log[i]), out |-> s.out, skip |-> s.skip]
      BY <1>0, <2>0, <2>5, TakeCases
    <3>2. s.pending \o C!Bytes(log[i]) = Upto(log[i]) /\ ~Final(log[i])
      BY <1>2, <2>5, JoinFacts, FragmentFacts
    <3>3. t = [pending |-> t.pending, out |-> s.out, skip |-> t.skip]
          /\ t.pending = Upto(log[i]) /\ t.skip = s.skip
      BY <3>1, <3>2
    <3> QED BY <2>1, <3>2, <3>3, ReadsOn DEF t
  <2>6. CASE log[i].kind = "last" /\ s.pending # <<>>
    <3>1. t = [pending |-> <<>>, out |-> Append(s.out, s.pending \o C!Bytes(log[i])), skip |-> s.skip]
      BY <1>0, <2>0, <2>6, TakeCases
    <3>2. s.pending \o C!Bytes(log[i]) = C!Whole(log[i].rec) /\ Final(log[i])
      BY <1>2, <2>6, JoinFacts, FragmentFacts
    <3>3. t = [pending |-> <<>>, out |-> Append(s.out, C!Whole(log[i].rec)), skip |-> s.skip]
      BY <3>1, <3>2
    <3> QED BY <3>2, <3>3, ReadsWhole DEF t
  <2>7. CASE log[i].kind \in {"middle", "last"} /\ s.pending = <<>>
    <3>1. t = [pending |-> <<>>, out |-> s.out, skip |-> s.skip]
      BY <1>0, <2>0, <2>7, TakeCases
    <3>2. t = [pending |-> t.pending, out |-> s.out, skip |-> t.skip]
          /\ t.pending = <<>> /\ t.skip = s.skip
      BY <3>1
    <3> QED BY <3>2, ReadsOn DEF t
  <2> QED BY <2>2, <2>3, <2>4, <2>5, <2>6, <2>7 DEF t
<1> QED BY <1>3, <1>4, <1>5

(* Without a loss, and without an empty start, nothing complete is missed.    *)
LEMMA FollowFollows ==
  ASSUME Cutting, LogInv, NEW i \in 1..Len(log), NEW s, Holds(s, i - 1), Follows(s, i - 1),
         lost = {}, ~C!EmptyStart
  PROVE  Follows(C!Follow(s, i), i)
<1> DEFINE t == C!Follow(s, i)
<1>0. s = [pending |-> s.pending, out |-> s.out, skip |-> s.skip] /\ s.out \in Seq(Wholes)
  BY DEF Holds
<1>1. /\ log[i].block \in Nat /\ log[i].rec \in Nat /\ log[i].from \in Nat /\ log[i].len \in Nat
      /\ log[i].kind \in {"full", "first", "middle", "last"}
  BY FragmentFacts DEF Cut
<1>2. s.skip = C!NoBlock /\ t = C!Take(s, log[i])
  BY <1>1 DEF Follows, C!Follow, C!NoBlock
<1>3. ASSUME ~Opens(log[i])
      PROVE  /\ s.pending # <<>> /\ s.pending \o C!Bytes(log[i]) = Upto(log[i])
             /\ log[i].from > 0
  <2>1. i \in 2..Len(log) /\ i - 1 > 0 /\ i - 1 \in 1..Len(log)
    BY <1>3 DEF LogInv, FragmentInv
  <2>2. /\ ~Final(log[i - 1]) /\ log[i - 1].rec = log[i].rec
        /\ log[i].from = log[i - 1].from + log[i - 1].len
        /\ Upto(log[i - 1]) \o C!Bytes(log[i]) = Upto(log[i])
    BY <1>3, <2>1, JoinFacts
  <2>3. s.pending = Upto(log[i - 1]) /\ log[i - 1].from + log[i - 1].len > 0
    BY <2>1, <2>2 DEF Follows
  <2>4. Upto(log[i - 1]) = Run(log[i].rec, 0, log[i].from)
    BY <2>2 DEF Upto
  <2>5. Run(log[i].rec, 0, log[i].from) # <<>>
    <3>1. log[i].from # 0 /\ 0 \in Nat
      BY <2>2, <2>3
    <3>2. Run(log[i].rec, 0, log[i].from) = <<>> <=> log[i].from = 0
      BY <1>1, <3>1, RunFacts
    <3> QED BY <3>1, <3>2
  <2> QED BY <2>2, <2>3, <2>4, <2>5
<1>4. \A j \in 1..i : j \in 1..(i - 1) \/ j = i
  OBVIOUS
<1>5. \A j \in 1..(i - 1) : Final(log[j]) =>
        \E k \in 1..Len(s.out) : s.out[k] = C!Whole(log[j].rec)
  BY DEF Follows
<1>6. ASSUME Final(log[i]),
             t = [pending |-> <<>>, out |-> Append(s.out, C!Whole(log[i].rec)), skip |-> s.skip]
      PROVE  Follows(t, i)
  <2> HIDE DEF t
  <2>1. /\ Len(t.out) = Len(s.out) + 1 /\ t.out[Len(t.out)] = C!Whole(log[i].rec)
        /\ \A k \in 1..Len(s.out) : t.out[k] = s.out[k]
    BY <1>6, ReadsWhole
  <2>2. Len(s.out) \in Nat /\ t.skip = C!NoBlock
    BY <1>0, <1>2, <1>6
  <2>3. ASSUME NEW j \in 1..i, Final(log[j])
        PROVE  \E k \in 1..Len(t.out) : t.out[k] = C!Whole(log[j].rec)
    <3>1. CASE j \in 1..(i - 1)
      <4>1. PICK k \in 1..Len(s.out) : s.out[k] = C!Whole(log[j].rec)
        BY <1>5, <2>3, <3>1
      <4>2. k \in 1..Len(t.out) /\ t.out[k] = C!Whole(log[j].rec)
        BY <2>1, <2>2, <4>1
      <4> QED BY <4>2
    <3>2. CASE j = i
      <4>1. Len(t.out) \in 1..Len(t.out)
        BY <2>1, <2>2
      <4> QED BY <2>1, <3>2, <4>1
    <3> QED BY <1>4, <3>1, <3>2
  <2> QED BY <1>6, <2>2, <2>3 DEF Follows
<1>7. ASSUME ~Final(log[i]), log[i].from + log[i].len > 0,
             t = [pending |-> Upto(log[i]), out |-> s.out, skip |-> s.skip]
      PROVE  Follows(t, i)
  <2> HIDE DEF t
  <2>1. t.pending = Upto(log[i]) /\ t.out = s.out /\ t.skip = C!NoBlock
    BY <1>2, <1>7
  <2> QED BY <1>4, <1>5, <1>7, <2>1 DEF Follows
<1> HIDE DEF t
<1>8. Opens(log[i]) => C!Bytes(log[i]) = Upto(log[i]) /\ log[i].from = 0
  <2>1. Opens(log[i]) => log[i].from = 0
    BY DEF LogInv, FragmentInv
  <2>2. 0 + log[i].len = log[i].len
    BY <1>1
  <2>3. C!Bytes(log[i]) = Run(log[i].rec, log[i].from, log[i].len)
    BY FragmentFacts
  <2> QED BY <2>1, <2>2, <2>3 DEF Upto
<1>9. CASE log[i].kind = "full"
  <2>1. Final(log[i]) /\ C!Bytes(log[i]) = C!Whole(log[i].rec)
    BY <1>8, <1>9, FragmentFacts
  <2> QED BY <1>0, <1>2, <1>6, <1>9, <2>1, TakeCases DEF t
<1>10. CASE log[i].kind = "first"
  <2>1. ~Final(log[i]) /\ C!Bytes(log[i]) = Upto(log[i]) /\ log[i].from = 0
    BY <1>8, <1>10, FragmentFacts
  <2>2. log[i].len # 0
    <3>1. i \in DOMAIN log
      BY DEF LogInv, LogTypes
    <3> QED BY <1>10, <3>1 DEF C!EmptyStart
  <2>3. log[i].from + log[i].len > 0
    BY <1>1, <2>1, <2>2
  <2> QED BY <1>0, <1>2, <1>7, <1>10, <2>1, <2>3, TakeCases DEF t
<1>11. CASE log[i].kind = "middle"
  <2>1. ~Final(log[i]) /\ ~Opens(log[i])
    BY <1>11, FragmentFacts
  <2>2. log[i].from + log[i].len > 0
    BY <1>1, <1>3, <2>1
  <2>3. C!Take(s, log[i]) = [pending |-> s.pending \o C!Bytes(log[i]), out |-> s.out, skip |-> s.skip]
    BY <1>0, <1>3, <1>11, <2>1, TakeCases
  <2> QED BY <1>2, <1>3, <1>7, <2>1, <2>2, <2>3 DEF t
<1>12. CASE log[i].kind = "last"
  <2>1. Final(log[i]) /\ ~Opens(log[i]) /\ C!Whole(log[i].rec) = Upto(log[i])
    BY <1>12, FragmentFacts
  <2>2. C!Take(s, log[i]) =
          [pending |-> <<>>, out |-> Append(s.out, s.pending \o C!Bytes(log[i])), skip |-> s.skip]
    BY <1>0, <1>3, <1>12, <2>1, TakeCases
  <2> QED BY <1>2, <1>3, <1>6, <2>1, <2>2 DEF t
<1> QED BY <1>1, <1>9, <1>10, <1>11, <1>12 DEF t

(* After every fragment, by the first fragment after which it would fail.     *)
LEMMA ReadingHolds ==
  ASSUME Cutting, LogInv
  PROVE  /\ \A i \in 0..Len(log) : Holds(C!ReadTo[i], i)
         /\ lost = {} /\ ~C!EmptyStart => \A i \in 0..Len(log) : Follows(C!ReadTo[i], i)
<1> DEFINE Good(i) == /\ Holds(C!ReadTo[i], i)
                      /\ lost = {} /\ ~C!EmptyStart => Follows(C!ReadTo[i], i)
           B == {i \in 0..Len(log) : ~Good(i)}
<1>0. Len(log) \in Nat
  BY DEF LogInv, LogTypes
<1>1. C!ReadTo[0] = C!Unread /\ \A i \in 1..Len(log) : C!ReadTo[i] = C!Follow(C!ReadTo[i - 1], i)
  BY <1>0, Reading
<1>2. Good(0)
  <2>1. Holds(C!Unread, 0)
    BY DEF Holds, C!Unread
  <2>2. Follows(C!Unread, 0)
    BY DEF Follows, C!Unread
  <2> QED BY <1>1, <2>1, <2>2
<1>3. ASSUME NEW i \in 1..Len(log), Good(i - 1)
      PROVE  Good(i)
  <2>1. C!ReadTo[i] = C!Follow(C!ReadTo[i - 1], i)
    BY <1>1
  <2>2. Holds(C!ReadTo[i - 1], i - 1)
    BY <1>3
  <2>3. Holds(C!ReadTo[i], i)
    BY <2>1, <2>2, FollowHolds
  <2>4. lost = {} /\ ~C!EmptyStart => Follows(C!ReadTo[i], i)
    BY <1>3, <2>1, <2>2, FollowFollows
  <2> QED BY <2>3, <2>4
<1>4. B = {}
  <2>1. SUFFICES ASSUME B # {} PROVE FALSE
    OBVIOUS
  <2>2. PICK m \in B : \A k \in B : m <= k
    <3> HIDE DEF Good
    <3>1. B \in SUBSET Nat
      BY <1>0
    <3> HIDE DEF B
    <3> QED BY <2>1, <3>1, LeastNumber
  <2> HIDE DEF Good
  <2>3. m \in 1..Len(log) /\ ~Good(m)
    BY <1>0, <1>2, <2>2
  <2>4. m - 1 \in 0..Len(log) /\ m - 1 \notin B
    BY <1>0, <2>2, <2>3
  <2> QED BY <1>3, <2>3, <2>4
<1>5. \A i \in 0..Len(log) : Good(i)
  <2> HIDE DEF Good
  <2> QED BY <1>4
<1> QED BY <1>5

(* What is found in the end.                                                  *)
LEMMA TokenFacts ==
  ASSUME Cutting, LogInv
  PROVE  C!TokenIsNewest
<1> DEFINE out == C!LogRecords
<1>0. Len(log) \in Nat /\ Len(records) \in Nat /\ flushed \in 0..C!Written /\ C!Written \in Nat
  <2>1. Len(log) \in Nat /\ Len(records) \in Nat
    BY DEF LogInv, LogTypes
  <2>2. rest = 0 \/ Len(records) > 0
    BY DEF LogInv, LogTypes
  <2> QED BY <2>1, <2>2 DEF LogInv, LogTypes, C!Written
<1>1. Holds(C!ReadTo[Len(log)], Len(log))
  BY <1>0, ReadingHolds
<1>2. out \in Seq(Wholes) /\ DOMAIN out = 1..Len(out)
  BY <1>1 DEF Holds, C!LogRecords
<1>3. \A r \in 1..Len(records) : C!Whole(r)[1][1] = r
  <2> TAKE r \in 1..Len(records)
  <2>1. records[r].len \in Nat /\ records[r].len > 0
    BY RecordRuns DEF LogInv
  <2>2. 1 \in 1..records[r].len
    BY <2>1
  <2> QED BY <2>2 DEF C!Whole
<1>4. ASSUME NEW k \in 1..Len(out)
      PROVE  \E r \in 1..C!Written : out[k] = C!Whole(r) /\ out[k][1][1] = r
  <2>1. PICK r \in 1..Len(records) :
           /\ out[k] = C!Whole(r) /\ Len(log) > 0
           /\ r < Last.rec \/ (r = Last.rec /\ Final(Last))
    BY <1>1 DEF Holds, C!LogRecords, Last
  <2>2. Last.rec \in 1..Len(records) /\ (Final(Last) => Last.rec <= C!Written)
    BY <1>0, <2>1, FragmentFacts DEF LogInv, FragmentInv, Last
  <2>3. r \in 1..C!Written
    BY <1>0, <2>1, <2>2 DEF C!Written
  <2> QED BY <1>3, <2>1, <2>3
<1>5. \A k \in 1..Len(out) : \A j \in 1..(k - 1) : out[j][1][1] < out[k][1][1]
  BY <1>1 DEF Holds, C!LogRecords
<1>6. \A x \in C!InLog : x \in 1..C!Written
  BY <1>2, <1>4 DEF C!InLog
<1>a. ASSUME C!Written > flushed, lost = {}, ~C!EmptyStart
      PROVE  C!Written \in C!InLog
  <2>1. PICK i \in 1..Len(log) : log[i].rec = C!Written /\ Final(log[i])
    BY <1>0, <1>a DEF LogInv, EndInv
  <2>2. Follows(C!ReadTo[Len(log)], Len(log))
    BY <1>0, <1>a, ReadingHolds
  <2>3. PICK k \in 1..Len(out) : out[k] = C!Whole(C!Written)
    BY <2>1, <2>2 DEF Follows, C!LogRecords
  <2>4. C!Written \in 1..Len(records)
    <3>1. C!Written = Len(records) \/ C!Written = Len(records) - 1
      BY DEF C!Written
    <3> HIDE DEF C!Written
    <3> QED BY <1>0, <1>a, <3>1
  <2>5. out[k][1][1] = C!Written
    BY <1>3, <2>3, <2>4
  <2> QED BY <1>2, <2>3, <2>5 DEF C!InLog
<1>b. ASSUME NEW T \in SUBSET C!InLog, C!Written \in tables \cup T
      PROVE  C!Newest(tables \cup T) = C!Value(C!Written)
  <2> DEFINE S == (tables \cup T) \cup {0}
             top == C!Max(S)
  <2>1. \A x \in S : x \in 0..C!Written
    <3>1. \A x \in tables : x \in 0..C!Written
      BY <1>0 DEF LogInv, LogTypes
    <3> QED BY <1>0, <1>6, <3>1
  <2>2. C!Written \in S
    BY <1>b
  <2>3. top = C!Written
    <3>1. \A x \in S : C!Written >= x
      BY <1>0, <2>1
    <3> HIDE DEF S
    <3>2. top \in S /\ \A y \in S : top >= y
      BY <2>2, <3>1 DEF C!Max
    <3> HIDE DEF top
    <3> QED BY <1>0, <2>1, <2>2, <3>1, <3>2
  <2>4. C!Newest(tables \cup T) = C!Value(top)
    BY DEF C!Newest
  <2> HIDE DEF top
  <2> QED BY <2>3, <2>4
<1>c. ASSUME \/ C!Written \in tables
             \/ C!Written > flushed /\ lost = {} /\ ~C!EmptyStart /\ C!Written \notin C!Damaged,
             NEW token \in C!Tokens
      PROVE  token = C!Value(C!Written)
  <2>1. PICK T \in SUBSET C!InLog :
          C!InLog \ C!Damaged \subseteq T /\ token = C!Newest(tables \cup T)
    BY <1>c DEF C!Tokens
  <2>2. C!Written \in tables \cup T
    BY <1>a, <1>c, <2>1
  <2> QED BY <1>b, <2>1, <2>2
<1> HIDE DEF out
<1>7. \A k \in DOMAIN out :
        /\ \E r \in 1..C!Written : out[k] = C!Whole(r)
        /\ \A j \in 1..(k - 1) : out[j][1][1] < out[k][1][1]
  BY <1>2, <1>4, <1>5
<1> QED BY <1>7, <1>c DEF C!TokenIsNewest, out

-----------------------------------------------------------------------------
(* The browser keeps the log in that form.                                    *)
LEMMA InitLog == ASSUME Cutting, C!Init PROVE LogInv
<1> USE DEF C!Init
<1>1. LogTypes
  <2>1. C!Written = 0
    BY DEF C!Written
  <2>2. end \in [block : Nat, used : 0..Block]
    BY DEF C!Start, Cutting
  <2> QED BY <2>1, <2>2 DEF LogTypes, Cutting
<1>2. FragmentInv /\ ChainInv
  BY DEF FragmentInv, ChainInv
<1>3. EndInv
  BY DEF EndInv, C!Written
<1> QED BY <1>1, <1>2, <1>3 DEF LogInv

(* The records that are complete are all but the last at most.               *)
LEMMA WrittenBounds ==
  ASSUME LogTypes
  PROVE  /\ Len(records) \in Nat /\ Len(log) \in Nat /\ C!Written \in 0..Len(records)
         /\ flushed \in Nat
<1>1. Len(records) \in Nat /\ Len(log) \in Nat /\ (rest = 0 \/ Len(records) > 0)
  BY DEF LogTypes
<1>2. C!Written \in 0..Len(records)
  BY <1>1 DEF C!Written
<1> QED BY <1>1, <1>2 DEF LogTypes

(* A record is begun after the last one is complete.                         *)
LEMMA TokenKeeps == ASSUME Cutting, LogInv, C!WriteToken PROVE LogInv'
<1>0. /\ Len(records) \in Nat /\ Len(log) \in Nat /\ C!Written \in 0..Len(records)
      /\ flushed \in Nat
  BY WrittenBounds DEF LogInv
<1>1. rest = 0 /\ Len(records) < MaxRecords /\ UNCHANGED <<flushed, log, end, lost, torn, tables>>
  BY DEF C!WriteToken
<1>2. PICK w \in [len : Lengths, set : BOOLEAN] : records' = Append(records, w) /\ rest' = w.len
  BY DEF C!WriteToken
<1> DEFINE Rec == [len : Lengths, set : BOOLEAN]
<1>3. records \in Seq(Rec) /\ w \in Rec
  BY DEF LogInv, LogTypes
<1>4. w.len \in Nat /\ w.len > 0
  <2>1. w.len \in Lengths
    OBVIOUS
  <2>2. w.len \in Nat \ {0}
    BY <2>1 DEF Cutting
  <2> QED BY <2>2
<1> HIDE DEF Rec
<1>5. /\ records' \in Seq(Rec) /\ Len(records') = Len(records) + 1
      /\ \A r \in 1..Len(records) : records'[r] = records[r]
      /\ records'[Len(records')] = w
  BY <1>2, <1>3
<1>6. C!Written' = C!Written /\ C!Written = Len(records)
  BY <1>0, <1>1, <1>2, <1>4, <1>5 DEF C!Written
<1>7. LogTypes'
  <2>1. Len(records') <= MaxRecords /\ Len(records') > 0
    BY <1>0, <1>1, <1>5 DEF Cutting
  <2>2. rest' \in 1..records'[Len(records')].len
    BY <1>2, <1>4, <1>5
  <2>3. /\ flushed \in 0..C!Written /\ lost \cup torn \in SUBSET (1..Len(log))
        /\ tables \in SUBSET (1..flushed)
        /\ end \in [block : Nat, used : 0..Block] /\ log \in Seq(Cut)
    BY DEF LogInv, LogTypes
  <2>4. records' \in Seq([len : Lengths, set : BOOLEAN])
    BY <1>5 DEF Rec
  <2>5. /\ flushed' \in 0..C!Written' /\ (lost \cup torn)' \in SUBSET (1..Len(log'))
        /\ tables' \in SUBSET (1..flushed')
        /\ end' \in [block : Nat, used : 0..Block] /\ log' \in Seq(Cut)
    BY <1>1, <1>6, <2>3
  <2> QED BY <2>1, <2>2, <2>4, <2>5 DEF LogTypes
<1>8. FragmentInv'
  <2> SUFFICES ASSUME NEW i \in 1..Len(log)
               PROVE  /\ log[i].rec \in (flushed + 1)..Len(records') /\ log[i].block <= end.block
                      /\ Final(log[i]) => /\ log[i].rec <= C!Written'
                                          /\ log[i].from + log[i].len = records'[log[i].rec].len
                      /\ Opens(log[i]) => log[i].from = 0
                      /\ i = 1 => Opens(log[i])
    BY <1>1 DEF FragmentInv, Final, Opens
  <2>1. /\ log[i].rec \in (flushed + 1)..Len(records) /\ log[i].block <= end.block
        /\ Final(log[i]) => /\ log[i].rec <= C!Written
                            /\ log[i].from + log[i].len = records[log[i].rec].len
        /\ Opens(log[i]) => log[i].from = 0
        /\ i = 1 => Opens(log[i])
    BY DEF LogInv, FragmentInv
  <2>2. log[i].rec \in 1..Len(records)
    BY <1>0, <2>1
  <2>3. log[i].rec \in (flushed + 1)..Len(records')
    BY <1>0, <1>5, <2>1
  <2> QED BY <1>5, <1>6, <2>1, <2>2, <2>3
<1>9. ChainInv'
  BY <1>1 DEF LogInv, ChainInv, Final, Opens
<1>10. EndInv'
  <2>1. log # <<>> => Final(Last)
    BY <1>1 DEF LogInv, EndInv
  <2>2. log # <<>> => Last.rec < Len(records')
    <3>1. log # <<>> => Len(log) \in 1..Len(log)
      BY <1>0 DEF LogInv, LogTypes
    <3>2. log # <<>> => Last.rec \in 1..Len(records)
      BY <3>1, FragmentFacts DEF Last
    <3> QED BY <1>0, <1>5, <3>2
  <2>3. \A r \in (flushed + 1)..C!Written : \E i \in 1..Len(log) : log[i].rec = r /\ Final(log[i])
    BY DEF LogInv, EndInv
  <2>4. rest' = records'[Len(records')].len
    BY <1>2, <1>5
  <2>5. Last' = Last
    BY <1>1 DEF Last
  <2> QED BY <1>1, <1>6, <2>1, <2>2, <2>3, <2>4, <2>5 DEF EndInv, Final
<1> QED BY <1>7, <1>8, <1>9, <1>10 DEF LogInv

(* The next fragment: its kind, and where it stands.                          *)
LEMMA FragmentFits ==
  ASSUME Cutting, LogInv, C!WriteFragment
  PROVE  \E f \in Cut :
           /\ log' = Append(log, f) /\ UNCHANGED <<records, flushed, lost, torn, tables>>
           /\ f.rec = Len(records) /\ f.from = records[Len(records)].len - rest
           /\ rest > 0 /\ rest' = rest - f.len /\ f.len <= rest
           /\ Final(f) <=> f.len = rest
           /\ Opens(f) <=> ~C!Begun
           /\ end' \in [block : Nat, used : 0..Block]
           /\ f.block = end'.block /\ end.block <= f.block
<1> DEFINE room == Block - C!Place.used - Header
           k == IF rest <= room THEN rest ELSE room
           size == records[Len(records)].len
           kind == C!Kind(~C!Begun, k = rest)
           f == [kind |-> kind, block |-> C!Place.block, rec |-> Len(records),
                 from |-> size - rest, len |-> k]
<1>1. /\ log' = Append(log, f) /\ UNCHANGED <<records, flushed, lost, torn, tables>>
      /\ rest > 0 /\ rest' = rest - k
      /\ end' = [C!Place EXCEPT !.used = C!Place.used + Header + k]
  BY DEF C!WriteFragment
<1>2. /\ C!Place \in [block : Nat, used : 0..Block] /\ room \in Nat
      /\ end.block <= C!Place.block
  <2>1. end \in [block : Nat, used : 0..Block]
    BY DEF LogInv, LogTypes
  <2>2. CASE Block - end.used < Header
    <3>1. C!Place = [block |-> end.block + 1, used |-> 0]
      BY <2>2 DEF C!Place
    <3> QED BY <2>1, <3>1 DEF Cutting
  <2>3. CASE ~(Block - end.used < Header)
    <3>1. C!Place = end
      BY <2>3 DEF C!Place
    <3> QED BY <2>1, <2>3, <3>1 DEF Cutting
  <2> QED BY <2>2, <2>3
<1>3. size \in Nat /\ rest \in 1..size /\ Len(records) \in Nat
  <2>1. rest \in 1..size /\ Len(records) > 0 /\ Len(records) \in Nat
    BY <1>1 DEF LogInv, LogTypes
  <2>2. size \in Nat
    <3>1. Len(records) \in 1..Len(records)
      BY <2>1
    <3> QED BY <3>1, RecordRuns DEF LogInv
  <2> QED BY <2>1, <2>2
<1>4. k \in Nat /\ k <= rest /\ k <= room
  BY <1>2, <1>3
<1>5. size - rest \in Nat
  BY <1>3
<1>6. kind \in {"full", "first", "middle", "last"}
  BY DEF C!Kind
<1>7. kind \in {"full", "last"} <=> k = rest
  BY DEF C!Kind
<1>8. kind \in {"full", "first"} <=> ~C!Begun
  BY DEF C!Kind
<1>9. end' \in [block : Nat, used : 0..Block] /\ end'.block = C!Place.block
  <2> DEFINE u == C!Place.used + Header + k
  <2>1. u \in 0..Block
    BY <1>2, <1>4 DEF Cutting
  <2>2. end' = [C!Place EXCEPT !.used = u]
    BY <1>1
  <2> HIDE DEF u
  <2> QED BY <1>2, <2>1, <2>2
<1> HIDE DEF kind, k, size, room
<1>10. f \in Cut
  BY <1>2, <1>3, <1>4, <1>5, <1>6 DEF Cut
<1>11. /\ f.kind = kind /\ f.block = C!Place.block /\ f.rec = Len(records)
       /\ f.from = size - rest /\ f.len = k
  OBVIOUS
<1>12. (Final(f) <=> k = rest) /\ (Opens(f) <=> ~C!Begun)
  BY <1>7, <1>8, <1>11 DEF Final, Opens
<1> HIDE DEF f
<1> QED BY <1>1, <1>2, <1>4, <1>9, <1>10, <1>11, <1>12 DEF size

(* A fragment goes on with the record, or opens the one that was begun.      *)
LEMMA FragmentKeeps == ASSUME Cutting, LogInv, C!WriteFragment PROVE LogInv'
<1>0. /\ Len(records) \in Nat /\ Len(log) \in Nat /\ C!Written \in 0..Len(records)
      /\ flushed \in 0..C!Written
  BY WrittenBounds DEF LogInv, LogTypes
<1>1. PICK f \in Cut :
           /\ log' = Append(log, f) /\ UNCHANGED <<records, flushed, lost, torn, tables>>
           /\ f.rec = Len(records) /\ f.from = records[Len(records)].len - rest
           /\ rest > 0 /\ rest' = rest - f.len /\ f.len <= rest
           /\ Final(f) <=> f.len = rest
           /\ Opens(f) <=> ~C!Begun
           /\ end' \in [block : Nat, used : 0..Block]
           /\ f.block = end'.block /\ end.block <= f.block
  BY FragmentFits
<1> DEFINE size == records[Len(records)].len
<1>2. rest \in 1..size /\ size \in Nat /\ Len(records) > 0
  <2>1. rest \in 1..size /\ Len(records) > 0
    BY <1>1 DEF LogInv, LogTypes
  <2>2. Len(records) \in 1..Len(records)
    BY <1>0, <2>1
  <2> QED BY <2>1, <2>2, RecordRuns DEF LogInv
<1>3. log \in Seq(Cut)
  BY DEF LogInv, LogTypes
<1>4. /\ log' \in Seq(Cut) /\ Len(log') = Len(log) + 1
      /\ \A i \in 1..Len(log) : log'[i] = log[i]
      /\ log'[Len(log')] = f /\ log' # <<>>
  BY <1>1, <1>3
<1>5. \A i \in 1..Len(log') : i \in 1..Len(log) \/ i = Len(log')
  BY <1>0, <1>4
<1>6. f.len \in Nat /\ f.block \in Nat /\ f.from \in Nat
  BY DEF Cut
<1>7. log = <<>> <=> Len(log) = 0
  BY <1>3
<1>8. log # <<>> => Len(log) \in 1..Len(log) /\ Last \in Cut /\ Last.rec \in 1..Len(records)
                   /\ Last.block <= end.block
  <2>1. log # <<>> => Len(log) \in 1..Len(log)
    BY <1>0, <1>7
  <2> QED BY <2>1, FragmentFacts DEF Last, LogInv, FragmentInv
<1>9. C!Begun <=> log # <<>> /\ ~Final(Last)
  <2>1. CASE log # <<>> /\ ~Final(Last)
    BY <2>1 DEF LogInv, EndInv, C!Begun, Last
  <2>2. CASE log = <<>>
    BY <2>2 DEF C!Begun
  <2>3. CASE log # <<>> /\ Final(Last)
    <3>1. Last.rec < Len(records)
      BY <1>1, <2>3 DEF LogInv, EndInv
    <3> QED BY <1>0, <1>8, <2>3, <3>1 DEF C!Begun, Last
  <2> QED BY <2>1, <2>2, <2>3
<1>10. C!Written' \in C!Written..Len(records) /\ (Final(f) => C!Written' = Len(records))
       /\ (~Final(f) => C!Written' = C!Written)
  BY <1>0, <1>1, <1>2, <1>6 DEF C!Written
<1>11. LogTypes'
  <2>1. (lost \cup torn)' \in SUBSET (1..Len(log'))
    <3>1. lost \cup torn \in SUBSET (1..Len(log)) /\ lost' = lost /\ torn' = torn
      BY <1>1 DEF LogInv, LogTypes
    <3>2. 1..Len(log) \subseteq 1..Len(log')
      BY <1>0, <1>4
    <3> QED BY <3>1, <3>2
  <2>2. rest' = 0 \/ (Len(records') > 0 /\ rest' \in 1..records'[Len(records')].len)
    BY <1>1, <1>2, <1>6
  <2>3. flushed' \in 0..C!Written'
    BY <1>0, <1>1, <1>10
  <2>4. records' \in Seq([len : Lengths, set : BOOLEAN]) /\ Len(records') <= MaxRecords
    BY <1>1 DEF LogInv, LogTypes
  <2>5. tables' \in SUBSET (1..flushed')
    BY <1>1 DEF LogInv, LogTypes
  <2> QED BY <1>1, <1>4, <2>1, <2>2, <2>3, <2>4, <2>5 DEF LogTypes
<1>12. FragmentInv'
  <2> SUFFICES ASSUME NEW i \in 1..Len(log')
               PROVE  /\ log'[i].rec \in (flushed + 1)..Len(records) /\ log'[i].block <= end'.block
                      /\ Final(log'[i]) => /\ log'[i].rec <= C!Written'
                                          /\ log'[i].from + log'[i].len = records[log'[i].rec].len
                      /\ Opens(log'[i]) => log'[i].from = 0
                      /\ i = 1 => Opens(log'[i])
    BY <1>1 DEF FragmentInv, Final, Opens
  <2>1. CASE i \in 1..Len(log)
    <3>1. /\ log[i].rec \in (flushed + 1)..Len(records) /\ log[i].block <= end.block
          /\ Final(log[i]) => /\ log[i].rec <= C!Written
                              /\ log[i].from + log[i].len = records[log[i].rec].len
          /\ Opens(log[i]) => log[i].from = 0
          /\ i = 1 => Opens(log[i])
      BY <2>1 DEF LogInv, FragmentInv
    <3>2. log[i].block \in Nat /\ log[i].rec \in Nat /\ end.block \in Nat /\ end'.block \in Nat
      <4>1. log[i].block \in Nat /\ log[i].rec \in Nat
        BY <2>1, FragmentFacts DEF Cut
      <4> QED BY <1>1, <4>1 DEF LogInv, LogTypes
    <3>3. log[i].block <= end'.block
      BY <1>1, <3>1, <3>2
    <3>4. Final(log[i]) => log[i].rec <= C!Written'
      BY <1>0, <1>10, <3>1, <3>2
    <3> QED BY <1>4, <2>1, <3>1, <3>3, <3>4
  <2>2. CASE i = Len(log')
    <3>1. f.rec \in (flushed + 1)..Len(records)
      <4>1. C!Written = Len(records) - 1
        BY <1>1, <1>2 DEF C!Written
      <4> QED BY <1>0, <1>1, <4>1
    <3>2. Final(f) => f.rec <= C!Written' /\ f.from + f.len = size
      BY <1>0, <1>1, <1>2, <1>6, <1>10
    <3>3. Opens(f) => f.from = 0
      <4>1. Opens(f) => rest = size
        BY <1>1, <1>9 DEF LogInv, EndInv
      <4> QED BY <1>1, <1>2, <4>1
    <3>4. i = 1 => Opens(f)
      BY <1>0, <1>1, <1>4, <1>7, <1>9, <2>2
    <3>5. f.block <= end'.block
      BY <1>1, <1>6
    <3> QED BY <1>1, <1>4, <2>2, <3>1, <3>2, <3>3, <3>4, <3>5
  <2> QED BY <1>5, <2>1, <2>2
<1>13. ChainInv'
  <2> SUFFICES ASSUME NEW i \in 2..Len(log')
               PROVE  /\ log'[i - 1].block <= log'[i].block
                      /\ Final(log'[i - 1]) => Opens(log'[i]) /\ log'[i - 1].rec < log'[i].rec
                      /\ ~Final(log'[i - 1]) =>
                           /\ ~Opens(log'[i]) /\ log'[i].rec = log'[i - 1].rec
                           /\ log'[i].from = log'[i - 1].from + log'[i - 1].len
    BY DEF ChainInv, Final, Opens
  <2>1. CASE i \in 1..Len(log)
    <3>1. i \in 2..Len(log) /\ i - 1 \in 1..Len(log)
      BY <1>0, <2>1
    <3>2. /\ log[i - 1].block <= log[i].block
          /\ Final(log[i - 1]) => Opens(log[i]) /\ log[i - 1].rec < log[i].rec
          /\ ~Final(log[i - 1]) => /\ ~Opens(log[i]) /\ log[i].rec = log[i - 1].rec
                                   /\ log[i].from = log[i - 1].from + log[i - 1].len
      BY <3>1 DEF LogInv, ChainInv
    <3>3. log'[i] = log[i] /\ log'[i - 1] = log[i - 1]
      BY <1>4, <2>1, <3>1
    <3> QED BY <3>2, <3>3
  <2>2. CASE i = Len(log')
    <3>1. log # <<>> /\ i - 1 = Len(log) /\ log'[i - 1] = Last /\ log'[i] = f
      <4>1. i - 1 = Len(log) /\ Len(log) \in 1..Len(log)
        BY <1>0, <1>4, <2>2
      <4> QED BY <1>4, <1>7, <2>2, <4>1 DEF Last
    <3>2. Last.block <= f.block
      <4>1. Last.block \in Nat /\ end.block \in Nat
        BY <1>8, <3>1 DEF Cut, LogInv, LogTypes
      <4> QED BY <1>1, <1>6, <1>8, <3>1, <4>1
    <3>3. Final(Last) => Opens(f) /\ Last.rec < f.rec
      BY <1>1, <1>9, <3>1 DEF LogInv, EndInv
    <3>4. ~Final(Last) => ~Opens(f) /\ f.rec = Last.rec /\ f.from = Last.from + Last.len
      BY <1>1, <1>9, <3>1 DEF LogInv, EndInv
    <3> QED BY <3>1, <3>2, <3>3, <3>4
  <2>3. i \in 1..Len(log')
    BY <1>0, <1>4
  <2> QED BY <1>5, <2>1, <2>2, <2>3
<1>14. EndInv'
  <2>1. Last' = f
    BY <1>4 DEF Last
  <2>2. ~Final(f) => rest' > 0 /\ f.rec = Len(records) /\ f.from + f.len = size - rest'
    BY <1>1, <1>2, <1>6
  <2>3. Final(f) => rest' = 0
    BY <1>1, <1>2, <1>6
  <2>4. ASSUME NEW r \in (flushed + 1)..C!Written'
        PROVE  \E i \in 1..Len(log') : log'[i].rec = r /\ Final(log'[i])
    <3>1. CASE r \in (flushed + 1)..C!Written
      <4>1. PICK i \in 1..Len(log) : log[i].rec = r /\ Final(log[i])
        BY <3>1 DEF LogInv, EndInv
      <4>2. i \in 1..Len(log') /\ log'[i] = log[i]
        BY <1>0, <1>4, <4>1
      <4> QED BY <4>1, <4>2
    <3>2. CASE r \notin (flushed + 1)..C!Written
      <4>1. Final(f) /\ r = Len(records)
        <5>1. C!Written = Len(records) - 1
          BY <1>1, <1>2 DEF C!Written
        <5> QED BY <1>0, <1>10, <3>2, <5>1
      <4>2. Len(log') \in 1..Len(log')
        BY <1>0, <1>4
      <4> QED BY <1>1, <1>4, <4>1, <4>2
    <3> QED BY <3>1, <3>2
  <2>5. \A r \in (flushed' + 1)..C!Written' :
          \E i \in 1..Len(log') : log'[i].rec = r /\ Final(log'[i])
    BY <1>1, <2>4
  <2> QED BY <1>1, <1>4, <2>1, <2>2, <2>3, <2>5 DEF EndInv, Final
<1> QED BY <1>11, <1>12, <1>13, <1>14 DEF LogInv

(* A new log is empty.                                                       *)
LEMMA FlushKeeps == ASSUME Cutting, LogInv, C!Flush PROVE LogInv'
<1>1. /\ rest = 0 /\ lost \cup torn = {} /\ flushed' = Len(records) /\ log' = <<>> /\ end' = C!Start
      /\ UNCHANGED <<records, rest, lost, torn, tables>>
  BY DEF C!Flush
<1>2. C!Written' = Len(records) /\ Len(records) \in Nat /\ Len(records) <= MaxRecords
  BY <1>1 DEF C!Written, LogInv, LogTypes
<1>3. LogTypes'
  <2>1. end' \in [block : Nat, used : 0..Block]
    BY <1>1 DEF C!Start, Cutting
  <2>2. records' \in Seq([len : Lengths, set : BOOLEAN])
    BY <1>1 DEF LogInv, LogTypes
  <2>3. tables' \in SUBSET (1..flushed')
    <3>1. tables \in SUBSET (1..flushed) /\ flushed \in 0..C!Written
      BY DEF LogInv, LogTypes
    <3>2. C!Written = Len(records)
      BY <1>1, <1>2 DEF C!Written
    <3> QED BY <1>1, <1>2, <3>1, <3>2
  <2>4. (lost \cup torn)' = {} /\ tables' = tables
    BY <1>1
  <2> QED BY <1>1, <1>2, <2>1, <2>2, <2>3, <2>4 DEF LogTypes
<1>4. FragmentInv' /\ ChainInv'
  BY <1>1 DEF FragmentInv, ChainInv
<1>5. EndInv'
  BY <1>1, <1>2 DEF EndInv
<1> QED BY <1>3, <1>4, <1>5 DEF LogInv

(* A page that is lost changes nothing of what was written, and a reader     *)
(* finds what is in the tables.                                              *)
LEMMA RestKeeps ==
  ASSUME Cutting, LogInv, C!Zero \/ C!ReadTables \/ UNCHANGED C!vars
  PROVE  LogInv'
<1>1. UNCHANGED <<records, rest, flushed, log, end>>
  BY DEF C!Zero, C!ReadTables, C!vars
<1>2. (lost \cup torn)' \in SUBSET (1..Len(log)) /\ tables' \in SUBSET (1..flushed)
  <2>1. /\ lost \cup torn \in SUBSET (1..Len(log)) /\ DOMAIN log = 1..Len(log)
        /\ tables \in SUBSET (1..flushed)
    BY DEF LogInv, LogTypes
  <2>2. CASE C!Zero
    BY <2>1, <2>2 DEF C!Zero
  <2>3. CASE C!ReadTables \/ UNCHANGED C!vars
    BY <2>1, <2>3 DEF C!ReadTables, C!vars
  <2> QED BY <2>2, <2>3
<1>3. C!Written' = C!Written
  BY <1>1 DEF C!Written
<1>4. LogTypes'
  BY <1>1, <1>2, <1>3 DEF LogInv, LogTypes
<1>5. FragmentInv' /\ ChainInv'
  BY <1>1, <1>3 DEF LogInv, FragmentInv, ChainInv, Final, Opens
<1>6. EndInv'
  BY <1>1, <1>3 DEF LogInv, EndInv, Last, Final
<1> QED BY <1>4, <1>5, <1>6 DEF LogInv

(* Every step of the browser.                                                *)
LEMMA LogStep == ASSUME Cutting, LogInv, [C!Next]_(C!vars) PROVE LogInv'
  BY TokenKeeps, FragmentKeeps, FlushKeeps, RestKeeps DEF C!Next

(* The other parts of the desktop leave the log alone.                       *)
LEMMA LogAll == ASSUME Cutting PROVE AllSpec => []LogInv
<1>1. AllInit => LogInv
  BY InitLog DEF AllInit
<1>2. [AllNext]_allVars => [C!Next]_(C!vars)
  BY DEF AllNext, allVars, kumaVars, sessionVars, Rescue, C!vars
<1>3. LogInv /\ [AllNext]_allVars => LogInv'
  BY <1>2, LogStep
<1> QED BY <1>1, <1>3, PTL DEF AllSpec

(* What the log is made of are its types.                                    *)
LEMMA LogIsTyped == ASSUME Cutting, LogInv PROVE C!TypeOK
<1>1. C!Written \in 0..Len(records) /\ flushed \in 0..C!Written /\ Len(records) \in Nat
  BY WrittenBounds DEF LogInv, LogTypes
<1>2. flushed \in 0..Len(records)
  BY <1>1
<1>3. DOMAIN log = 1..Len(log)
  BY DEF LogInv, LogTypes
<1> QED BY <1>2, <1>3 DEF LogInv, LogTypes, FragmentInv, C!TypeOK

(* The reader finds only records that were written, in their length and      *)
(* order, wherever blocks end, whatever was lost and however much of the last *)
(* record is there; and the token is the newest one where the newest write is *)
(* undamaged in the log and nothing was lost, or in a table that was read.    *)
THEOREM NewestTokenFound == ASSUME Cutting PROVE AllSpec => []C!TokenIsNewest
<1>1. LogInv => C!TokenIsNewest
  BY TokenFacts
<1> QED BY <1>1, LogAll, PTL

(* Both: provisioning may be repeated, and logs in with the newest token.    *)
THEOREM ProvisioningRepeats ==
  ASSUME Provision, Cutting PROVE AllSpec => []ProvisioningIsRepeatable
<1>1. K!EndpointsAreLive /\ C!TokenIsNewest => ProvisioningIsRepeatable
  BY DEF ProvisioningIsRepeatable
<1> QED BY <1>1, EndpointsStayLive, NewestTokenFound, PTL

-----------------------------------------------------------------------------
(* The types of the desktop.                                                 *)

(* What provisioning counts stays within what it was asked for.              *)
KumaBounds ==
  /\ used \in 0..MaxMonitors /\ removed \subseteq Asked
  /\ command.next \in 1..(Cardinality(Asked) + 1)
  /\ \A n \in DOMAIN command.tokens : command.tokens[n] \in 1..MaxMonitors
  /\ file \in [Asked \cup OtherKeys -> 0..MaxMonitors]

(* Provisioning starts with no name asked for yet.                           *)
LEMMA InitBounds == ASSUME Provision, K!Init PROVE KumaBounds
<1>1. used = 0 /\ removed = {} /\ command.next = 1 /\ DOMAIN command.tokens = {}
  BY FreshRun DEF K!Init, Runs
<1>2. file \in [Asked \cup OtherKeys -> 0..MaxMonitors]
  <2>1. PICK O \in SUBSET OtherKeys :
           file = [k \in Asked \cup OtherKeys |-> IF k \in O THEN MaxMonitors ELSE K!NoToken]
    BY DEF K!Init
  <2>2. MaxMonitors \in 0..MaxMonitors /\ K!NoToken \in 0..MaxMonitors
    BY DEF K!NoToken, Provision
  <2> QED BY <2>1, <2>2
<1>3. 0 \in 0..MaxMonitors /\ 1 \in 1..(Cardinality(Asked) + 1)
  BY AskedNumbers DEF Provision
<1> QED BY <1>1, <1>2, <1>3 DEF KumaBounds

(* A name takes its token, and the next name is at most one past the last.   *)
LEMMA TookBounds ==
  ASSUME Provision, KumaInv, KumaBounds, NEW s \in Asked, command.next = s,
         NEW token \in 1..MaxMonitors, K!Took(s, token)
  PROVE  /\ command'.next \in 1..(Cardinality(Asked) + 1)
         /\ \A n \in DOMAIN command'.tokens : command'.tokens[n] \in 1..MaxMonitors
<1>1. Cardinality(Asked) \in Nat /\ s \in 1..Cardinality(Asked) /\ s \in Nat
  BY AskedNumbers DEF Provision
<1>2. DOMAIN command.tokens = 1..(s - 1)
      /\ command = [at |-> command.at, next |-> command.next, tokens |-> command.tokens]
  BY DEF KumaInv, KumaTypes
<1> DEFINE tokens == [n \in 1..s |-> IF n = s THEN token ELSE command.tokens[n]]
<1>3. \A n \in 1..s : tokens[n] \in 1..MaxMonitors
  <2> TAKE n \in 1..s
  <2>1. n # s => n \in DOMAIN command.tokens
    BY <1>1, <1>2
  <2> QED BY <2>1 DEF KumaBounds
<1> DEFINE at == IF s = K!Cardinality(Asked) THEN "write" ELSE "spec"
<1>4. command' = [command EXCEPT !.next = s + 1, !.at = at, !.tokens = tokens]
  BY DEF K!Took
<1>5. DOMAIN tokens = 1..s
  OBVIOUS
<1> HIDE DEF tokens, at
<1>6. command'.next = s + 1 /\ command'.tokens = tokens
  BY <1>2, <1>4
<1> QED BY <1>1, <1>3, <1>5, <1>6

(* Every step of provisioning stays within those bounds.                     *)
LEMMA NextBounds ==
  ASSUME Provision, KumaInv, KumaBounds, [K!Next]_(K!vars)
  PROVE  KumaBounds'
<1> USE DEF KumaBounds
<1>0. DOMAIN kuma \subseteq 1..used /\ used \in 0..MaxMonitors /\ MaxMonitors \in Nat
      /\ Cardinality(Asked) \in Nat
  BY AskedNumbers DEF KumaInv, KumaTypes, Provision
<1>1. command = [at |-> command.at, next |-> command.next, tokens |-> command.tokens]
  BY DEF KumaInv, KumaTypes
<1>2. ASSUME command' = K!NoRun \/ command' = [K!NoRun EXCEPT !.at = "login"]
      PROVE  /\ command'.next \in 1..(Cardinality(Asked) + 1)
             /\ \A n \in DOMAIN command'.tokens : command'.tokens[n] \in 1..MaxMonitors
  <2>1. command'.next = 1 /\ DOMAIN command'.tokens = {}
    BY <1>2, FreshRun DEF Runs
  <2> QED BY <1>0, <2>1
<1>3. ASSUME NEW at, command' = [command EXCEPT !.at = at]
      PROVE  /\ command'.next \in 1..(Cardinality(Asked) + 1)
             /\ \A n \in DOMAIN command'.tokens : command'.tokens[n] \in 1..MaxMonitors
  <2>1. command'.next = command.next /\ command'.tokens = command.tokens
    BY <1>1, <1>3
  <2> QED BY <2>1
<1>4. CASE K!Connect \/ K!Login \/ K!GetList \/ K!Verify \/ K!Ends
  <2>1. UNCHANGED <<used, removed, file>>
    BY <1>4 DEF K!Connect, K!Login, K!GetList, K!Verify, K!Ends
  <2>2. \/ command' = K!NoRun \/ command' = [K!NoRun EXCEPT !.at = "login"]
        \/ \E at \in Runs : command' = [command EXCEPT !.at = at]
    BY <1>4 DEF K!Connect, K!Login, K!GetList, K!Verify, K!Ends, Runs
  <2>3. /\ command'.next \in 1..(Cardinality(Asked) + 1)
        /\ \A n \in DOMAIN command'.tokens : command'.tokens[n] \in 1..MaxMonitors
    BY <1>2, <1>3, <2>2
  <2> QED BY <2>1, <2>3
<1>5. ASSUME NEW s \in Asked, K!Reuse(s)
      PROVE  KumaBounds'
  <2>1. UNCHANGED <<used, removed, file>> /\ command.next = s
    BY <1>5 DEF K!Reuse
  <2>2. PICK i \in DOMAIN kuma : K!Took(s, i)
    BY <1>5 DEF K!Reuse, K!ReusedToken
  <2>3. i \in 1..MaxMonitors
    BY <1>0
  <2> QED BY <2>1, <2>2, <2>3, TookBounds
<1>6. ASSUME NEW s \in Asked, K!Create(s)
      PROVE  KumaBounds'
  <2>1. UNCHANGED <<removed, file>> /\ command.next = s /\ used' = used + 1 /\ used < MaxMonitors
    BY <1>6 DEF K!Create
  <2>2. used' \in 1..MaxMonitors /\ used' \in 0..MaxMonitors
    BY <1>0, <2>1
  <2>3. CASE command' = K!NoRun
    BY <1>2, <2>1, <2>2, <2>3
  <2>4. CASE K!Took(s, used')
    BY <2>1, <2>2, <2>4, TookBounds
  <2> QED BY <1>6, <2>3, <2>4 DEF K!Create
<1>7. CASE K!Write
  <2>1. UNCHANGED <<used, removed>> /\ command.at = "write" /\ command' = [command EXCEPT !.at = "verify"]
        /\ file' = [k \in DOMAIN file |-> IF k \in Asked THEN command.tokens[k] ELSE file[k]]
    BY <1>7 DEF K!Write
  <2>2. DOMAIN command.tokens = Asked
    <3>1. command.next = Cardinality(Asked) + 1 /\ DOMAIN command.tokens = 1..(command.next - 1)
      BY <2>1 DEF KumaInv, KumaTypes
    <3>2. DOMAIN command.tokens = 1..Cardinality(Asked)
      BY <1>0, <3>1
    <3> QED BY <3>2 DEF Provision
  <2>3. \A n \in Asked : command.tokens[n] \in 0..MaxMonitors
    BY <1>0, <2>2
  <2>4. file' \in [Asked \cup OtherKeys -> 0..MaxMonitors]
    BY <2>1, <2>3
  <2> QED BY <1>3, <2>1, <2>4
<1>8. CASE K!Delete
  <2>1. UNCHANGED <<used, file, command>>
    BY <1>8 DEF K!Delete
  <2>2. removed' \subseteq Asked
    BY <1>8 DEF K!Delete, KumaInv, KumaTypes
  <2> QED BY <2>1, <2>2
<1>9. CASE UNCHANGED K!vars
  BY <1>9 DEF K!vars
<1> QED BY <1>4, <1>5, <1>6, <1>7, <1>8, <1>9 DEF K!Next, K!Configure

(* What provisioning is made of are its types.                               *)
LEMMA TypedKuma == ASSUME Provision, KumaInv, KumaBounds PROVE K!TypeOK
<1>1. K!Cardinality(Asked) = Cardinality(Asked)
  BY DEF K!Cardinality, Cardinality
<1>2. file \in [Asked \cup OtherKeys -> {K!NoToken} \cup K!Tokens]
  <2>1. 0..MaxMonitors = {K!NoToken} \cup K!Tokens
    BY DEF K!NoToken, K!Tokens, Provision
  <2> QED BY <2>1 DEF KumaBounds
<1> QED BY <1>1, <1>2 DEF K!TypeOK, KumaInv, KumaTypes, KumaBounds, Runs

(* The desktop stays in its types, all five parts of it together.            *)
THEOREM DesktopTypes ==
  ASSUME Sizes, Pressing, Bounds, Provision, Cutting
  PROVE  AllSpec => []DesktopTypeOK
<1> DEFINE Inv == TargetInv /\ RescueInv /\ IncidentInv /\ KumaInv /\ KumaBounds /\ LogInv
<1>1. AllInit => Inv
  BY InitTarget, InitRescue, InitIncidents, InitKuma, InitBounds, InitLog DEF AllInit
<1>2. Inv /\ [AllNext]_allVars => Inv'
  <2> SUFFICES ASSUME Inv, [AllNext]_allVars PROVE Inv'
    OBVIOUS
  <2>1. /\ [Next]_vars /\ [W!Next]_(W!vars) /\ [G!Next]_(G!vars)
        /\ [K!Next]_(K!vars) /\ [C!Next]_(C!vars)
    BY DEF AllNext, Rescue, allVars, rescueVars, targetVars, incidentVars, kumaVars, adminVars,
           sessionVars, vars, W!vars, G!vars, K!vars, C!vars
  <2>2. TargetInv' /\ RescueInv'
    BY <2>1, NextTarget, RescueStep
  <2>3. IncidentInv' /\ KumaInv'
    BY <2>1, NextIncidents, NextKuma
  <2>4. KumaBounds' /\ LogInv'
    BY <2>1, NextBounds, LogStep
  <2> QED BY <2>2, <2>3, <2>4
<1>3. Inv => DesktopTypeOK
  BY TypedTarget, TypedIncidents, TypedKuma, LogIsTyped DEF DesktopTypeOK, RescueInv
<1> QED BY <1>1, <1>2, <1>3, PTL DEF AllSpec

=============================================================================
