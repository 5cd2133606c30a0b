---------------------------- MODULE RescueTarget ----------------------------
(* Closing an application from the rescue dialog: the list of candidates, the
   number the user types, the confirmation, and the request that a worker
   thread makes (resource_rescue/dialog.py, targets.py, app_close.py).

   Between any two of these steps processes end and their pids are given to
   others, and a process can join or leave the group of an application. *)
EXTENDS Naturals, FiniteSets

CONSTANTS Pids,      \* process ids, which are reused
          Apps,      \* application scopes (cgroups) that hold processes
          Guarded,   \* the Apps that hold a protected process
          MaxStart,  \* processes started in one behaviour
          MaxAge     \* ticks after which a list is too old (20 s)

VARIABLES procs,     \* the process of each pid: its start time and its scope
          started,   \* processes started so far
          list,      \* Snapshot: the candidates by number, and their age
          entry,     \* the number in the entry, 0 when it is empty
          busy,      \* whether a choice is being confirmed or carried out
          worker,    \* the choice under way: stage, target, handle, verified
          meant,     \* history: what the user saw under the typed number
          closed     \* history: the requests made, [meant, hit]

vars == <<procs, started, list, entry, busy, worker, meant, closed>>

None == [start |-> 0, app |-> "none"]
Identity == [start : 1..MaxStart, app : Apps]
Alive == {p \in Pids : procs[p] # None}
Members(a) == {p \in Alive : procs[p].app = a}

(* A candidate: the members of a scope with the identity each had. *)
Candidate == UNION {[S -> Identity] : S \in (SUBSET Pids) \ {{}}}
Leader(c) == CHOOSE p \in DOMAIN c : \A q \in DOMAIN c : c[p].start <= c[q].start
NoList == [age |-> 0, of |-> <<>>]
Idle == [stage |-> "idle"]

TypeOK ==
  /\ procs \in [Pids -> Identity \cup {None}] /\ started \in 0..MaxStart
  /\ list.age \in 0..(MaxAge + 1)
  /\ \A n \in DOMAIN list.of : list.of[n] \in Candidate
  /\ entry \in 0..Cardinality(Apps) /\ busy \in BOOLEAN
  /\ worker.stage \in {"idle", "confirm", "accepted", "handle", "verified"}
  /\ (worker.stage # "idle") = busy

Init ==
  /\ procs = [p \in Pids |-> None] /\ started = 0
  /\ list = NoList /\ entry = 0 /\ busy = FALSE /\ worker = Idle
  /\ meant = <<>> /\ closed = {}

-----------------------------------------------------------------------------
(* Processes come and go, and time passes. *)

Starts ==
  /\ started < MaxStart /\ started' = started + 1
  /\ \E p \in Pids \ Alive, a \in Apps :
       procs' = [procs EXCEPT ![p] = [start |-> started', app |-> a]]
  /\ UNCHANGED <<list, entry, busy, worker, meant, closed>>

Exits ==
  /\ \E p \in Alive : procs' = [procs EXCEPT ![p] = None]
  /\ UNCHANGED <<started, list, entry, busy, worker, meant, closed>>

Ages ==
  /\ list.of # <<>> /\ list.age <= MaxAge
  /\ list' = [list EXCEPT !.age = @ + 1]
  /\ UNCHANGED <<procs, started, entry, busy, worker, meant, closed>>

-----------------------------------------------------------------------------
(* The dialog. *)

(* candidates(): the scopes without a protected process, in the order of what
   they hold, which is any order. *)
Scopes == {a \in Apps \ Guarded : Members(a) # {}}
Observed(a) == [p \in Members(a) |-> procs[p]]
Rankings == {f \in [1..Cardinality(Scopes) -> Scopes] :
               \A i, j \in DOMAIN f : f[i] = f[j] => i = j}

(* refresh: the list is taken anew unless a number is being typed; it is
   dropped when the pressure is the disk's or the processes cannot be read. *)
MayRefresh == ~busy /\ entry = 0
Refresh ==
  /\ MayRefresh
  /\ \/ \E f \in Rankings :
          list' = [age |-> 0, of |-> [n \in DOMAIN f |-> Observed(f[n])]]
     \/ list' = NoList
  /\ UNCHANGED <<procs, started, entry, busy, worker, meant, closed>>

DiskPressure ==
  /\ ~busy /\ list' = NoList
  /\ UNCHANGED <<procs, started, entry, busy, worker, meant, closed>>

Type ==
  /\ ~busy /\ entry = 0
  /\ \E n \in DOMAIN list.of : entry' = n /\ meant' = list.of[n]
  /\ UNCHANGED <<procs, started, list, busy, worker, closed>>

Fresh == list.age <= MaxAge
(* choose: the confirmation is asked for the candidate of the frozen list. *)
Choose ==
  /\ ~busy /\ entry \in DOMAIN list.of /\ Fresh
  /\ busy' = TRUE
  /\ worker' = [stage |-> "confirm", of |-> list.of[entry]]
  /\ UNCHANGED <<procs, started, list, entry, meant, closed>>

(* A wrong number or an old list: the entry is cleared. *)
Reject ==
  /\ ~busy /\ entry # 0 /\ list.of # <<>> /\ ~(entry \in DOMAIN list.of /\ Fresh)
  /\ entry' = 0 /\ meant' = <<>>
  /\ UNCHANGED <<procs, started, list, busy, worker, closed>>

Accept ==
  /\ worker.stage = "confirm"
  /\ worker' = [worker EXCEPT !.stage = "accepted"]
  /\ UNCHANGED <<procs, started, list, entry, busy, meant, closed>>

(* The choice ends: cancelled, carried out, refused or failed. *)
Done == /\ worker' = Idle /\ busy' = FALSE /\ entry' = 0 /\ meant' = <<>>
        /\ UNCHANGED <<procs, started, list>>
Cancel == worker.stage = "confirm" /\ Done /\ UNCHANGED closed

-----------------------------------------------------------------------------
(* The worker: terminate(). *)

(* pidfd_open on the leader's pid: the handle keeps the process that has the
   pid now. *)
OpenHandle ==
  /\ worker.stage = "accepted" /\ Fresh
  /\ LET p == Leader(worker.of)
     IN /\ p \in Alive
        /\ worker' = [stage |-> "handle", of |-> worker.of, pid |-> p,
                      fd |-> procs[p]]
  /\ UNCHANGED <<procs, started, list, entry, busy, meant, closed>>

Same(c) == \A p \in DOMAIN c : procs[p] = c[p]
(* Every observed member must still be what it was. *)
Verified(c) == Same(c) /\ \A p \in DOMAIN c : c[p].app \notin Guarded
Verify ==
  /\ worker.stage = "handle" /\ procs[worker.pid] = worker.fd
  /\ Verified(worker.of)
  /\ worker' = [worker EXCEPT !.stage = "verified"]
  /\ UNCHANGED <<procs, started, list, entry, busy, meant, closed>>

(* Defect: the signal goes to whoever has the pid. *)
Reaches_ByPid(w) == {procs[w.pid]} \ {None}
(* pidfd_send_signal reaches the process of the handle or nobody. *)
Reaches(w) == {w.fd} \cap {procs[p] : p \in Alive}
Signal ==
  /\ worker.stage = "verified"
  /\ closed' = closed \cup {[meant |-> meant, hit |-> i] : i \in Reaches(worker)}
  /\ Done

(* request_quit: the D-Bus owner of the application, a member verified again. *)
NormalClose ==
  /\ worker.stage = "verified"
  /\ \E p \in DOMAIN worker.of \cap Alive :
       /\ procs[p] = worker.of[p]
       /\ closed' = closed \cup {[meant |-> meant, hit |-> procs[p]]}
  /\ Done

(* Any check fails: nothing is sent. *)
Refuse ==
  /\ \/ worker.stage = "accepted" /\ (~Fresh \/ Leader(worker.of) \notin Alive)
     \/ /\ worker.stage = "handle"
        /\ ~(procs[worker.pid] = worker.fd /\ Verified(worker.of))
  /\ Done /\ UNCHANGED closed

Next == Starts \/ Exits \/ Ages \/ Refresh \/ DiskPressure \/ Type \/ Choose
        \/ Reject \/ Accept \/ Cancel \/ OpenHandle \/ Verify \/ Signal
        \/ NormalClose \/ Refuse
Spec == Init /\ [][Next]_vars

-----------------------------------------------------------------------------
(* A request to close reaches only a process the user saw under the number he
   typed: neither a new list, nor an application that restarted meanwhile, nor
   a pid given to another process redirects it, and no protected one is hit. *)
OnlyChosenIsClosed ==
  \A c \in closed :
    /\ \E p \in DOMAIN c.meant : c.hit = c.meant[p]
    /\ c.hit.app \notin Guarded
=============================================================================
