-------------------------- MODULE GraphicsIncident --------------------------
(* Compositor failures (graphics_incident.py): the watch thread of the event
   daemon, which polls the gnome-shell processes, and the journal follower,
   which meets the fatal log line and the core dump of a crash, give what they
   find an incident id, held in the daemon's memory for a while.  Every report
   captures a forensic bundle, one file per id, before its row is inserted. *)
EXTENDS Integers

CONSTANTS Window,      \* _RECENT_SECONDS, in ticks
          MaxCrashes,  \* crashes of the shell
          MaxTime,     \* ticks
          MaxIds       \* ids made before the last restart

Threads == {"watch", "journal"}
NoId == 0

VARIABLES now,
          shell,     \* the running gnome-shell, 0 when there is none
          crashes,   \* crashes so far
          dumps,     \* core dumps that are not yet in the journal
          unread,    \* entries of the journal after the stored cursor
          previous,  \* the pids the watch saw last
          recent,    \* _RECENT_INCIDENT: the id and its age
          ids,       \* ids made so far
          job,       \* what each thread is doing, with which id
          seen       \* history: when the reports of an id were made, first and last

vars == <<now, shell, crashes, dumps, unread, previous, recent, ids, job, seen>>
world == <<now, shell, crashes, dumps>>

None == [age |-> 0, id |-> NoId]
Idle == [at |-> "idle", id |-> NoId]
Stages == {"idle", "look", "register", "capture", "insert", "store"}

TypeOK ==
  /\ now \in 0..MaxTime /\ shell \in 0..(MaxCrashes + 1)
  /\ crashes \in 0..MaxCrashes /\ dumps \in 0..MaxCrashes
  /\ unread \in 0..(2 * MaxCrashes) /\ previous \in 0..(MaxCrashes + 1)
  /\ recent \in [age : 0..MaxTime, id : 0..ids]
  /\ job \in [Threads -> [at : Stages, id : 0..ids]]
  /\ DOMAIN seen = 1..ids

Init ==
  /\ now = 0 /\ shell = 1 /\ crashes = 0 /\ dumps = 0 /\ unread = 0
  /\ previous = 1 /\ recent = None /\ ids = 0
  /\ job = [t \in Threads |-> Idle] /\ seen = <<>>

-----------------------------------------------------------------------------
(* The desktop. *)

Tick == /\ now < MaxTime /\ now' = now + 1
        /\ recent' = IF recent = None THEN None ELSE [recent EXCEPT !.age = @ + 1]
        /\ UNCHANGED <<shell, crashes, dumps, unread, previous, ids, job, seen>>

(* The shell dies: it may leave a log line at once, and a core dump later. *)
ShellCrashes ==
  /\ crashes < MaxCrashes /\ crashes' = crashes + 1
  /\ shell # 0 /\ shell' = 0
  /\ dumps' = dumps + 1
  /\ unread' \in {unread, unread + 1}
  /\ UNCHANGED <<now, previous, recent, ids, job, seen>>

ShellStarts ==
  /\ shell = 0 /\ shell' = crashes + 1
  /\ UNCHANGED <<now, crashes, dumps, unread, previous, recent, ids, job, seen>>

CoreDumped ==
  /\ dumps > 0 /\ dumps' = dumps - 1 /\ unread' = unread + 1
  /\ UNCHANGED <<now, shell, crashes, previous, recent, ids, job, seen>>

-----------------------------------------------------------------------------
(* One poll of stream_compositor_watch: a shell that was there has gone or has
   been replaced.  Without an active Wayland session on a running system it is
   no incident. *)
Poll ==
  /\ job["watch"].at = "idle" /\ previous # shell
  /\ previous' = shell
  /\ \/ previous # 0 /\ job' = [job EXCEPT !["watch"] = [Idle EXCEPT !.at = "look"]]
     \/ UNCHANGED job
  /\ UNCHANGED <<world, unread, recent, ids, seen>>

(* The journal follower takes the next entry. *)
Read ==
  /\ job["journal"].at = "idle" /\ unread > 0
  /\ job' = [job EXCEPT !["journal"] = [Idle EXCEPT !.at = "look"]]
  /\ UNCHANGED <<world, unread, previous, recent, ids, seen>>

IsRecent == recent.id # NoId /\ recent.age <= Window
(* Defect: an id that is used again is recent again. *)
Kept_Renewed == IF IsRecent THEN [recent EXCEPT !.age = 0] ELSE None
(* _recent_incident_id: an id is reused as long as it is recent; the reuse does
   not make it recent again. *)
Kept == IF IsRecent THEN recent ELSE None
Look(t) ==
  /\ job[t].at = "look"
  /\ recent' = Kept
  /\ job' = [job EXCEPT ![t] = IF IsRecent THEN [at |-> "capture", id |-> recent.id]
                                           ELSE [at |-> "register", id |-> NoId]]
  /\ seen' = IF IsRecent THEN [seen EXCEPT ![recent.id].last = now] ELSE seen
  /\ UNCHANGED <<world, unread, previous, ids>>

(* _register_incident, under the lock taken a second time. *)
Register(t) ==
  /\ job[t].at = "register"
  /\ ids' = ids + 1 /\ recent' = [age |-> 0, id |-> ids']
  /\ seen' = [i \in 1..ids' |-> IF i = ids' THEN [first |-> now, last |-> now]
                                            ELSE seen[i]]
  /\ job' = [job EXCEPT ![t] = [at |-> "capture", id |-> ids']]
  /\ UNCHANGED <<world, unread, previous>>

(* enrich_graphics_incident: the bundle of the id is written, over a former one;
   a failure to write is noted in the event. *)
Capture(t) ==
  /\ job[t].at = "capture"
  /\ job' = [job EXCEPT ![t].at = "insert"]
  /\ UNCHANGED <<world, unread, previous, recent, ids, seen>>

(* insert_events without a window, then on_event. *)
Insert(t) ==
  /\ job[t].at = "insert"
  /\ job' = [job EXCEPT ![t] = IF t = "watch" THEN Idle ELSE [@ EXCEPT !.at = "store"]]
  /\ UNCHANGED <<world, unread, previous, recent, ids, seen>>

(* The journal follower stores its cursor last. *)
Store ==
  /\ job["journal"].at = "store" /\ unread' = unread - 1
  /\ job' = [job EXCEPT !["journal"] = Idle]
  /\ UNCHANGED <<world, previous, recent, ids, seen>>

(* The daemon restarts: the id is forgotten, the watch starts from what it
   sees, an entry whose cursor was not stored is read again. *)
Restart ==
  /\ ids < MaxIds
  /\ job' = [t \in Threads |-> Idle] /\ recent' = None /\ previous' = shell
  /\ UNCHANGED <<world, unread, ids, seen>>

Next == Tick \/ ShellCrashes \/ ShellStarts \/ CoreDumped \/ Poll \/ Read \/ Store
        \/ (\E t \in Threads : Look(t) \/ Register(t) \/ Capture(t) \/ Insert(t))
        \/ Restart
Spec == Init /\ [][Next]_vars

-----------------------------------------------------------------------------
(* The reports under one incident id come within one window of the first,
   whichever thread makes them and whatever came in between: a shell that keeps
   crashing, or a core dump that arrives late, does not stretch one incident
   without end, its bundle written over each time. *)
IncidentIsBounded == \A i \in 1..ids : seen[i].last - seen[i].first <= Window
=============================================================================
