--------------------------- MODULE TelegramArchive ---------------------------
(* The archive of one Telegram chat whose messages delete themselves        *)
(* (scripts/telegram_autodelete_archiver.py).  A process, the oneshot       *)
(* "sync" of a timer or the resident "watch", lists the chat from its       *)
(* newest message back and stores what it sees; the watch also stores what  *)
(* updates report.  asyncio.Lock admits one handler or one reconciliation   *)
(* at a time, in the order they asked.  All of them write through one       *)
(* connection, and a reconciliation commits only at its end: "db" is what   *)
(* that connection sees, "disk" what is committed.  The clock counts the    *)
(* seconds that dates are stored in.                                        *)
EXTENDS Integers, Sequences, SequencesExt, FiniteSets

CONSTANTS
  Ids,          \* message ids, in the order the messages are sent
  Kept,         \* messages sent before the timer was set, which it spares
  Touched,      \* messages that somebody edits or deletes by hand
  TTL,          \* AUTO_DELETE_TTL_SECONDS
  Horizon,      \* RECONCILE_HORIZON_SECONDS
  Page,         \* messages per request of iter_messages
  Modes,        \* the commands that are run: "sync", "watch"
  MaxTime,      \* bound on the clock
  MaxEdits,     \* bound on what is edited or deleted by hand
  MaxFaults     \* bound on failed requests, empty downloads and deaths

(* What is assumed of the constants, by MCArchives too.                     *)
Settings ==
  /\ Ids # {} /\ IsFiniteSet(Ids) /\ Ids \subseteq Nat /\ Kept \subseteq Ids /\ Touched \subseteq Ids
  /\ \A k \in Kept, m \in Ids \ Kept : k < m
  /\ TTL \in Nat \ {0} /\ Horizon \in Nat /\ Horizon >= TTL
  /\ Page \in Nat \ {0}
  /\ Modes \subseteq {"sync", "watch"}
  /\ MaxTime \in Nat /\ MaxEdits \in Nat /\ MaxFaults \in Nat

VARIABLES
  chat,     \* the server's messages: there, sent when, which version and media
  now,
  wire,     \* updates on their way to the watch
  queue,    \* who waits for the lock, in order
  db,       \* message rows and their revisions as the connection sees them
  disk,     \* the committed ones
  run,      \* the process and its reconciliation
  edits, faults

vars == <<chat, now, wire, queue, db, disk, run, edits, faults>>

Off == [mode |-> "none", pc |-> "off", seen |-> {}, page |-> <<>>, below |-> 0,
        all |-> FALSE, at |-> 0, loop |-> FALSE]

(* The messages that the timer spares lie in the first window, or where it  *)
(* begins.                                                                  *)
Unsent == [there |-> FALSE, at |-> 0, ver |-> 0, media |-> 0]
Dates  == {d \in [Kept -> -Horizon..0] : \A j, k \in Kept : j < k => d[j] <= d[k]}

Init ==
  /\ \E date \in Dates :
       chat = [m \in Ids |-> IF m \in Kept
                             THEN [there |-> TRUE, at |-> date[m], ver |-> 1, media |-> 1]
                             ELSE Unsent]
  /\ now = 0
  /\ wire = <<>> /\ queue = <<>>
  /\ db = <<>> /\ disk = <<>>
  /\ run = Off
  /\ edits = 0 /\ faults = 0

Sent(m)    == chat[m].ver > 0
Present    == {m \in Ids : chat[m].there}
Lost(m)    == Sent(m) /\ ~chat[m].there
Reasons    == {"no", "timer", "manual"}
Rows       == DOMAIN db

------------------------------------------------------------------------------
(* The chat, and the updates a connected watch is sent.                     *)

(* A message as an update or a page of the listing has it.                  *)
Known(kind, m) == [kind |-> kind, id |-> m, ver |-> chat[m].ver, media |-> chat[m].media]

Listening == run.mode = "watch" /\ run.pc # "off"
Update(kind, m) ==
  wire' = IF Listening THEN Append(wire, Known(kind, m)')
          ELSE wire

Send(m) ==
  /\ ~Sent(m) /\ \A j \in Ids : j < m => Sent(j)
  /\ chat' = [chat EXCEPT ![m] = [there |-> TRUE, at |-> now, ver |-> 1, media |-> 1]]
  /\ Update("new", m)
  /\ UNCHANGED <<now, queue, db, disk, run, edits, faults>>

(* An edit may replace the media.                                           *)
Edit(m) ==
  /\ m \in Present \cap Touched /\ edits < MaxEdits
  /\ \E other \in {0, 1} :
       chat' = [chat EXCEPT ![m].ver = @ + 1, ![m].media = @ + other]
  /\ edits' = edits + 1
  /\ Update("edit", m)
  /\ UNCHANGED <<now, queue, db, disk, run, faults>>

Due(m) == m \notin Kept /\ now - chat[m].at >= TTL
Delete(m) ==
  /\ m \in Present
  /\ \/ Due(m) /\ edits' = edits
     \/ ~Due(m) /\ m \in Touched /\ edits < MaxEdits /\ edits' = edits + 1
  /\ chat' = [chat EXCEPT ![m].there = FALSE]
  /\ Update("deleted", m)
  /\ UNCHANGED <<now, queue, db, disk, run, faults>>

(* The timer of the chat has removed what is due before time goes on.       *)
Tick ==
  /\ now < MaxTime
  /\ \A m \in Present : ~Due(m)
  /\ now' = now + 1
  /\ UNCHANGED <<chat, wire, queue, db, disk, run, edits, faults>>

------------------------------------------------------------------------------
(* What is stored.                                                          *)

(* preserve_media: the file of the row is used again for the same media;    *)
(* else it is downloaded, which may yield nothing.                          *)
Reused(u) == u.id \in Rows /\ Last(db[u.id].revs).media = u.media /\ Last(db[u.id].revs).file

(* store_snapshot: a first or a changed version is a revision; whatever is  *)
(* stored is not deleted.                                                   *)
Stored(u, file) ==
  LET m    == u.id
      new  == [ver |-> u.ver, media |-> u.media, file |-> file]
      revs == IF m \notin Rows THEN <<new>>
              ELSE IF Last(db[m].revs) = new THEN db[m].revs
              ELSE Append(db[m].revs, new)
  IN  [j \in Rows \cup {m} |->
         IF j = m THEN [revs |-> revs, gone |-> "no", when |-> 0] ELSE db[j]]

Keep(u) ==
  \/ db' = Stored(u, TRUE) /\ faults' = faults
  \/ /\ ~Reused(u) /\ faults < MaxFaults
     /\ faults' = faults + 1
     /\ db' = Stored(u, FALSE)

(* classify_deletion goes by the age at which the deletion is noticed.      *)
Why(m, at) == IF at - chat[m].at >= TTL THEN "timer" ELSE "manual"
Tombstones(S, at) ==
  [m \in Rows |-> IF m \in S /\ db[m].gone = "no"
                  THEN [revs |-> db[m].revs, gone |-> Why(m, at), when |-> at] ELSE db[m]]

------------------------------------------------------------------------------
(* The updates of the watch.                                                *)

(* on_message_deleted looks the message up before it waits for the lock.    *)
Arrive ==
  /\ wire # <<>> /\ Listening
  /\ LET u == Head(wire)
         heeded == u.kind = "deleted" => u.id \in Rows /\ db[u.id].gone = "no"
     IN  queue' = IF heeded THEN Append(queue, u) ELSE queue
  /\ wire' = Tail(wire)
  /\ UNCHANGED <<chat, now, db, disk, run, edits, faults>>

Turn(kinds) == run.pc = "free" /\ queue # <<>> /\ Head(queue).kind \in kinds

(* ingest_message with what the update said.                                *)
Ingest ==
  /\ Turn({"new", "edit"})
  /\ Keep(Head(queue))
  /\ disk' = db'
  /\ queue' = Tail(queue)
  /\ UNCHANGED <<chat, now, wire, run, edits>>

(* A handler whose request fails leaves its update unhandled.               *)
HandlerFails ==
  /\ Turn({"new", "edit", "deleted"}) /\ faults < MaxFaults
  /\ faults' = faults + 1
  /\ queue' = Tail(queue)
  /\ UNCHANGED <<chat, now, wire, db, disk, run, edits>>

(* Under the lock the chat is asked again.                                  *)
Bury ==
  /\ Turn({"deleted"})
  /\ db' = Tombstones({Head(queue).id} \ Present, now)
  /\ disk' = db'
  /\ queue' = Tail(queue)
  /\ UNCHANGED <<chat, now, wire, run, edits, faults>>

------------------------------------------------------------------------------
(* reconcile.                                                               *)

Above == 1 + CHOOSE m \in Ids : \A j \in Ids : j <= m

Listing(mode, loop) ==
  [mode |-> mode, pc |-> "list", seen |-> {}, page |-> <<>>, below |-> Above,
   all |-> db = <<>>, at |-> now, loop |-> loop]

(* run_sync and run_watch begin with a reconciliation.                      *)
Start(mode) ==
  /\ run.pc = "off"
  /\ run' = Listing(mode, FALSE)
  /\ UNCHANGED <<chat, now, wire, queue, db, disk, edits, faults>>

(* periodic_reconcile asks for the lock.                                    *)
Awake ==
  /\ run.pc # "off" /\ run.loop
  /\ \A i \in DOMAIN queue : queue[i].kind # "reconcile"
  /\ queue' = Append(queue, [kind |-> "reconcile", id |-> 0, ver |-> 0, media |-> 0])
  /\ UNCHANGED <<chat, now, wire, db, disk, run, edits, faults>>

Again ==
  /\ Turn({"reconcile"})
  /\ run' = Listing("watch", TRUE)
  /\ queue' = Tail(queue)
  /\ UNCHANGED <<chat, now, wire, db, disk, edits, faults>>

Older == {m \in Present : m < run.below}
Newest(S) == {m \in S : Cardinality({j \in S : j > m}) < Page}
PageOf(S) == CHOOSE p \in [1..Cardinality(Newest(S)) -> Newest(S)] :
               \A i, j \in DOMAIN p : i < j => p[i] > p[j]

(* iter_messages asks for the next page, as the chat is now.                *)
FetchPage ==
  /\ run.pc = "list" /\ run.page = <<>> /\ Older # {}
  /\ run' = [run EXCEPT !.page =
               [i \in DOMAIN PageOf(Older) |-> Known("listed", PageOf(Older)[i])]]
  /\ UNCHANGED <<chat, now, wire, queue, db, disk, edits, faults>>

(* The listing stops at what was sent before its beginning less the horizon. *)
(* That has a fraction of a second, unless the listing began on the second,  *)
(* where dates are whole seconds: what was sent in the second of the cutoff  *)
(* lies beyond it, or may.                                                   *)
Cutoff      == run.at - Horizon
Beyond(m)   == ~run.all /\ chat[m].at < Cutoff
AtBeyond(m) == ~run.all /\ chat[m].at <= Cutoff

Visit ==
  /\ run.pc = "list" /\ run.page # <<>> /\ ~Beyond(Head(run.page).id)
  /\ LET h == Head(run.page)
     IN  /\ Keep(h)
         /\ run' = [run EXCEPT !.page = Tail(@), !.below = h.id, !.seen = @ \cup {h.id}]
  /\ UNCHANGED <<chat, now, wire, queue, disk, edits>>

Listed == run.pc = "list" /\ IF run.page = <<>> THEN Older = {} ELSE AtBeyond(Head(run.page).id)

(* Defect: rows outside the window are expected in the listing too.         *)
Missing_Anywhere == Rows \ run.seen

(* Defect: what was sent at the edge of the window is not looked for.       *)
Missing_Inside == {m \in Rows \ run.seen : chat[m].at > Cutoff}

(* mark_missing_deleted compares whole seconds: of the second in which the  *)
(* window begins it expects messages that the listing did not get to.       *)
Missing == {m \in Rows \ run.seen : chat[m].at >= Cutoff}

(* The end of a reconciliation; sync ends with it, watch serves and loops.  *)
Finish ==
  /\ Listed
  /\ db' = Tombstones(Missing, run.at)
  /\ disk' = db'
  /\ run' = IF run.mode = "sync" THEN Off
            ELSE [Off EXCEPT !.mode = "watch", !.pc = "free", !.loop = TRUE]
  /\ UNCHANGED <<chat, now, wire, queue, edits, faults>>

(* A request of the periodic reconciliation fails: its task ends, and the   *)
(* rows it wrote stay uncommitted on the connection.                        *)
LoopDies ==
  /\ run.pc = "list" /\ run.loop /\ faults < MaxFaults
  /\ faults' = faults + 1
  /\ run' = [Off EXCEPT !.mode = "watch", !.pc = "free"]
  /\ UNCHANGED <<chat, now, wire, queue, db, disk, edits>>

(* Defect: a process that starts again forgets what was stored.             *)
Down_Empty == /\ run' = Off /\ db' = <<>>
              /\ wire' = <<>> /\ queue' = <<>>

Down == /\ run' = Off /\ db' = disk
        /\ wire' = <<>> /\ queue' = <<>>

(* A failed sync or first reconciliation, a kill, a lost connection.        *)
Die ==
  /\ run.pc # "off" /\ faults < MaxFaults
  /\ faults' = faults + 1
  /\ Down
  /\ UNCHANGED <<chat, now, disk, edits>>

World   == Tick \/ \E m \in Ids : Send(m) \/ Edit(m) \/ Delete(m)
Handle  == Arrive \/ Ingest \/ Bury \/ Again
List    == FetchPage \/ Visit \/ Finish
Launch  == \E mode \in Modes : Start(mode)
Process == Launch \/ Awake \/ Handle \/ List
Next    == World \/ Process \/ HandlerFails \/ LoopDies \/ Die

(* The timer or the service manager starts the process, whose loop goes on. *)
Fairness == /\ WF_vars(Launch) /\ WF_vars(Handle) /\ WF_vars(List) /\ WF_vars(Awake)
Spec     == Init /\ [][Next]_vars
FairSpec == Spec /\ Fairness

------------------------------------------------------------------------------
(* Properties.                                                              *)

TypeOK ==
  /\ DOMAIN db \subseteq Ids /\ DOMAIN disk \subseteq DOMAIN db
  /\ \A m \in Rows : db[m].revs # <<>> /\ db[m].gone \in Reasons
  /\ run.pc \in {"off", "list", "free"} /\ run.seen \subseteq Ids
  /\ faults \in 0..MaxFaults /\ edits \in 0..MaxEdits

(* A message that the archive says was deleted was, unless the listing that *)
(* missed it had its window begin in the very second it was sent: neither a *)
(* listing taken while messages come and go, nor a late update, nor a       *)
(* reconciliation cut short buries a message that is there.                 *)
AtTheEdge(m) == disk[m].when = chat[m].at + Horizon
NoFalseTombstone ==
  \A m \in DOMAIN disk : disk[m].gone # "no" => Lost(m) \/ AtTheEdge(m)

(* A file that the archive has stays with the message until its media is    *)
(* replaced: the next revision has it too, also one that a late update adds *)
(* after the message was deleted or a reconciliation cut short left behind. *)
MediaOutlivesMessage ==
  \A m \in DOMAIN disk : \A i \in 1..Len(disk[m].revs) - 1 :
    LET old == disk[m].revs[i]
        new == disk[m].revs[i + 1]
    IN  old.file /\ new.media = old.media => new.file

(* As long as the periodic reconciliation goes on, the archive comes to     *)
(* hold every message that was sent before it began or within the horizon   *)
(* and stays; of those within the horizon the last version, unburied, and a *)
(* tombstone of each one it holds that was deleted.                         *)
Recent(m) == chat[m].at > now - Horizon
Faithful(m) ==
  /\ chat[m].there /\ (m \in Kept \/ Recent(m)) => m \in DOMAIN disk
  /\ chat[m].there /\ Recent(m) =>
       Last(disk[m].revs).ver = chat[m].ver /\ disk[m].gone = "no"
  /\ m \in DOMAIN disk /\ Lost(m) /\ chat[m].at >= now - Horizon => disk[m].gone # "no"
LoopGoesOn == run.mode = "watch" /\ run.pc = "free" => run.loop
ArchiveSettles == []<>LoopGoesOn => <>[](\A m \in Ids : Faithful(m))

==============================================================================
