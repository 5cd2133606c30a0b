------------------------------ MODULE MCArchives ------------------------------
(* The archives for TLC: the archive of a chat, the export of a chat, the    *)
(* archive of executions and the timeline.  They share no state and no       *)
(* process, so each behaviour exercises one of them, "part", in full while   *)
(* the others stay where they began; the archive of executions does so with  *)
(* one collector beside a command, and with two that cross, the timeline     *)
(* with a run that publishes, and with the windows of two that do not.       *)
EXTENDS ExecutionArchive

CONSTANTS
  First,                                      \* the collector that is alone
  Ids, Kept, Touched, TTL, Horizon, Page, Modes, MaxTime, MaxEdits,  \* TelegramArchive
  MonthOf, MaxForeign, MaxExportFaults,                     \* TelegramHistory
  Syncs, Publishers, Other, Day, FirstWindow, Overlap, Backfill,   \* ContextIndex
  Asked, Cap, MaxLag, MaxIndexTime, MaxRows

VARIABLES
  part,
  chat, now, wire, queue, db, disk, run, edits,
  private, sent, remote, local, work, marker, export, foreign,
  rows, timeline, last, sync, commits, unpushed, published, tip, base, excused

chatVars    == <<chat, wire, queue, db, disk, run, edits>>
exportVars  == <<private, sent, remote, local, work, marker, export, foreign>>
archiveVars == <<dir, index, order, lock, cmd, col, rec, cursor, written, ever>>
indexVars   == <<rows, timeline, last, sync, commits, unpushed, published, tip, base, excused>>
allVars == <<part, now, faults, chatVars, exportVars, archiveVars, indexVars>>

MCStreams    == {"output", "stdout"}
MCCollectors == {"collect", "other"}
MCIds        == 1..2
MCKept       == {1}
MCTouched    == {2}
MCModes      == {"sync", "watch"}
MCMonthOf    == <<1, 1, 2>>

A == INSTANCE TelegramArchive
H == INSTANCE TelegramHistory WITH run <- export, MaxFaults <- MaxExportFaults
T == INSTANCE ContextIndex WITH First <- FirstWindow, MaxTime <- MaxIndexTime

ASSUME ChatAssumption == A!Settings

\* The messages of a chat are numbered as they are sent, each in its month.
ASSUME ExportAssumption ==
  MonthOf \in Seq(Nat) /\ MaxForeign \in Nat /\ MaxExportFaults \in Nat

\* A row appears before the next window has passed its timestamp.
ASSUME TimelineAssumption ==
  /\ Day \in Nat \ {0} /\ FirstWindow \in Nat /\ Overlap \in Nat /\ Backfill \in Nat
  /\ Asked \subseteq Nat /\ Cap \in Nat \ {0}
  /\ MaxLag \in Nat /\ MaxLag <= Overlap /\ MaxIndexTime \in Nat /\ MaxRows \in Nat

AllInit ==
  /\ part \in {"chat", "export", "executions", "collectors", "timeline", "windows"}
  /\ Init /\ A!Init /\ H!Init /\ T!Init
  /\ part # "export" => ~private
  /\ part # "chat" => \A k \in Kept : chat[k].at = 0

InChat(step) == /\ part = "chat" /\ step
              /\ UNCHANGED <<part, exportVars, archiveVars, indexVars>>
InExport(step) == /\ part = "export" /\ step
               /\ UNCHANGED <<part, now, chatVars, archiveVars, indexVars>>
InTimeline(step) == /\ part \in {"timeline", "windows"} /\ step
                 /\ UNCHANGED <<part, chatVars, exportVars, archiveVars>>

(* The archive of executions by halves: one collector beside a command with *)
(* output, and all collectors beside a command without.                     *)
OneCollector == part = "executions" /\ \A c \in Collectors \ {First} : col'[c] = col[c]
NoOutput     == part = "collectors" /\ cmd'.read = cmd.read

(* The timeline by halves: one row that is published while another run is    *)
(* about, and the rows that two runs read which do not publish.              *)
OneRow    == /\ part = "timeline" /\ sync'[Other] = sync[Other]
             /\ \A r \in rows' : r.id = 1
NoPublish == /\ part = "windows" /\ UNCHANGED <<commits, unpushed, published, tip, base>>
             /\ \A s \in Publishers : sync'[s] = sync[s]

AllNext ==
  \/ InChat(A!Next)
  \/ InExport(H!Next)
  \/ Next /\ (OneCollector \/ NoOutput) /\ UNCHANGED <<part, now, chatVars, exportVars, indexVars>>
  \/ InTimeline(T!Next /\ (OneRow \/ NoPublish))

(* The fairness of each part's own specification.                            *)
AllFair ==
  /\ WF_chatVars(part = "chat" /\ A!Launch) /\ WF_chatVars(part = "chat" /\ A!Handle)
  /\ WF_chatVars(part = "chat" /\ A!List) /\ WF_chatVars(part = "chat" /\ A!Awake)
  /\ WF_exportVars(part = "export" /\ H!Sync)
  /\ WF_indexVars(part = "timeline" /\ T!Sync("timer"))
  /\ WF_indexVars(part = "timeline" /\ T!Sync("hand"))

AllSpec == AllInit /\ [][AllNext]_allVars /\ AllFair

------------------------------------------------------------------------------
(* Properties; ExecutionArchiveIsTrue is the extended module's own.        *)

(* Every variable of the archives stays in its type.                        *)
ArchivesTypeOK ==
  /\ part = "chat" => A!TypeOK
  /\ part = "export" => H!TypeOK
  /\ part \in {"executions", "collectors"} => TypeOK
  /\ part \in {"timeline", "windows"} => T!TypeOK

(* The archive of a chat never buries a message that is there and keeps the *)
(* media it has; the export holds each message once and in order; the       *)
(* timeline has every row its windows have passed.                          *)
ArchivesAreTrue ==
  A!NoFalseTombstone /\ A!MediaOutlivesMessage /\ H!ArchiveExact /\ T!TimelineComplete

(* The archives catch up: the archive of a chat with every message and every *)
(* deletion within its horizon, the export with every message published, the *)
(* timeline with every row it holds.                                         *)
ArchivesCatchUp ==
  /\ part = "chat" => A!ArchiveSettles
  /\ part = "export" => H!EverythingPublished
  /\ part = "timeline" => T!TimelinePublished

==============================================================================
