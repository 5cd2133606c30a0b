------------------------------ MODULE MCDesktop ------------------------------
(* The desktop for TLC: the watcher of pressure with its dialog, the closing *)
(* of an application from that dialog, the incidents of the compositor, and  *)
(* the command that provisions Kuma with the session of the user's browser.  *)
(* They share no state that is modelled, so each behaviour exercises one of  *)
(* them, "part", in full while the others stay where they began.             *)
EXTENDS RescueTarget

CONSTANTS
  PressureKinds, Debounce, MinPopup, Snooze, RecoverySamples, MaxRescueFaults, \* ResourceRescue
  Window, MaxCrashes, MaxTime, MaxIds,    \* GraphicsIncident
  Asked, OtherKeys, Prompt, MaxMonitors,  \* KumaAdmin
  Block, Header, Lengths, MaxRecords, MaxLost   \* ChromeSession

VARIABLES
  part,
  host, unlocked, unit, gate, saved, held, healthy, active, event, owed, quiet, faults,
  now, shell, crashes, dumps, unread, previous, recent, ids, job, seen,
  kuma, used, known, file, command, removed, first,
  records, rest, flushed, log, end, lost, torn, tables

rescueVars   == <<host, unlocked, unit, gate, saved, held, healthy, active, event,
                  owed, quiet, faults>>
targetVars   == <<procs, started, list, entry, busy, worker, meant, closed>>
incidentVars == <<now, shell, crashes, dumps, unread, previous, recent, ids, job, seen>>
adminVars    == <<kuma, used, known, file, command, removed, first>>
sessionVars  == <<records, rest, flushed, log, end, lost, torn, tables>>
kumaVars     == <<adminVars, sessionVars>>
allVars == <<part, rescueVars, targetVars, incidentVars, kumaVars>>

W == INSTANCE ResourceRescue WITH Kinds <- PressureKinds, MaxFaults <- MaxRescueFaults
G == INSTANCE GraphicsIncident
K == INSTANCE KumaAdmin WITH list <- known, run <- command, Specs <- Asked,
       Others <- OtherKeys, MaxIds <- MaxMonitors
C == INSTANCE ChromeSession

AllInit ==
  /\ part \in {"rescue", "target", "incident", "admin", "session"}
  /\ Init /\ W!Init /\ G!Init /\ K!Init /\ C!Init
  /\ part # "rescue" => unlocked
  /\ part # "admin" => \A k \in OtherKeys : file[k] = K!NoToken

Rescue(A) == part = "rescue" /\ A /\ UNCHANGED <<part, targetVars, incidentVars, kumaVars>>

AllNext ==
  \/ Rescue(W!Next)
  \/ part = "target" /\ Next /\ UNCHANGED <<part, rescueVars, incidentVars, kumaVars>>
  \/ part = "incident" /\ G!Next /\ UNCHANGED <<part, rescueVars, targetVars, kumaVars>>
  \/ /\ \/ part = "admin" /\ K!Next /\ UNCHANGED sessionVars
        \/ part = "session" /\ C!Next /\ UNCHANGED adminVars
     /\ UNCHANGED <<part, rescueVars, targetVars, incidentVars>>

(* The fairness of ResourceRescue.                                           *)
AllFair ==
  /\ WF_rescueVars(part = "rescue" /\ W!Tick) /\ WF_rescueVars(part = "rescue" /\ (W!Check \/ W!Open))
  /\ WF_rescueVars(part = "rescue" /\ W!Save) /\ WF_rescueVars(part = "rescue" /\ W!DialogLoads)
  /\ WF_rescueVars(part = "rescue" /\ W!DialogEnds)

AllSpec == AllInit /\ [][AllNext]_allVars /\ AllFair

------------------------------------------------------------------------------
(* Properties; OnlyChosenIsClosed is RescueTarget's own.                    *)

(* Every variable of the desktop stays in its type.                         *)
DesktopTypeOK == TypeOK /\ W!TypeOK /\ G!TypeOK /\ K!TypeOK /\ C!TypeOK

(* The dialog comes whenever it is owed.                                    *)
DialogIsOffered == W!PendingIsOffered

(* The dialog stays away while the user put it off.                         *)
DialogStaysAway == W!DismissedStaysAway

(* The reports of one incident lie within one window.                       *)
IncidentIsBounded == G!IncidentIsBounded

(* Provisioning, however often it is cut short and repeated, leaves every    *)
(* name one monitor and its endpoint; and it logs in with the newest token   *)
(* of the browser.                                                           *)
ProvisioningIsRepeatable == K!EndpointsAreLive /\ C!TokenIsNewest

==============================================================================
