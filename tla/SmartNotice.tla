---------------------------- MODULE SmartNotice ----------------------------
(* Clickable SMART notices (smart_action.py): the event daemon, and a command *)
(* line run beside it, enrich smartd's message from what the system answers,  *)
(* compare its signature with the one stored for its key, store the new one   *)
(* and only then start a thread that shows the notice and waits for a click.  *)
(* The thread dies with its process.                                          *)
EXTENDS FiniteSets

Callers == {"daemon", "cli"}

(* One problem of one disk.  The key changes with the serial, which the       *)
(* enrichment may not find; without it the present device is not found.       *)
Signatures == {s \in [known : BOOLEAN, present : BOOLEAN] : s.present => s.known}
None == [known |-> FALSE, present |-> TRUE]
Key(s) == s.known

VARIABLES plugged,   \* the disk is there
          stored,    \* state namespace "notification"
          caller,    \* what each process is doing
          waiting,   \* the notices that threads of each process are to show
          open,      \* the notices shown by the daemon and not yet answered
          told,      \* history: the signature last told of each key, None when
                     \* two processes overlapped or one was cut off
          begun,     \* history: signatures whose notice was begun, or cut off
          again      \* history: a notice repeated the one before it

vars == <<plugged, stored, caller, waiting, open, told, begun, again>>

Idle == [at |-> "idle", alert |-> None, force |-> FALSE, overlap |-> FALSE]

TypeOK ==
  /\ plugged \in BOOLEAN /\ again \in BOOLEAN
  /\ stored \in [BOOLEAN -> Signatures \cup {None}]
  /\ told \in [BOOLEAN -> Signatures \cup {None}]
  /\ \A k \in BOOLEAN : stored[k] # None => Key(stored[k]) = k
  /\ caller \in [Callers -> [at : {"idle", "compare", "store", "start", "exit"},
                             alert : Signatures \cup {None}, force : BOOLEAN, overlap : BOOLEAN]]
  /\ waiting \in [Callers -> SUBSET Signatures]
  /\ open \subseteq Signatures /\ begun \subseteq Signatures
  /\ caller["daemon"].at # "exit" /\ ~caller["daemon"].force

Init == /\ plugged \in BOOLEAN
        /\ stored = [k \in BOOLEAN |-> None] /\ told = [k \in BOOLEAN |-> None]
        /\ caller = [c \in Callers |-> Idle] /\ waiting = [c \in Callers |-> {}]
        /\ open = {} /\ begun = {} /\ again = FALSE

PlugOrUnplug == /\ plugged' = ~plugged
                /\ UNCHANGED <<stored, caller, waiting, open, told, begun, again>>

(* smartd speaks: journalctl may not give the serial, lsblk not the device.   *)
Enriched == {s \in Signatures : s.present => plugged}

Enrich(c) ==
  /\ caller[c].at = "idle"
  /\ \E s \in Enriched, f \in BOOLEAN :
       /\ f => c = "cli"
       /\ caller' = [caller EXCEPT ![c] = [Idle EXCEPT !.at = "compare", !.alert = s, !.force = f]]
  /\ UNCHANGED <<plugged, stored, waiting, open, told, begun, again>>

Between(c) == caller[c].at \in {"store", "start"}

(* The stored signature is read before it is replaced, under no lock.         *)
Repeats(c) == ~caller[c].force /\ stored[Key(caller[c].alert)] = caller[c].alert

Compare(c) ==
  /\ caller[c].at = "compare"
  /\ LET others == {d \in Callers \ {c} : Between(d)} IN
     caller' = IF Repeats(c) THEN [caller EXCEPT ![c] = Idle]
               ELSE [d \in Callers |->
                       IF d = c THEN [caller[c] EXCEPT !.at = "store", !.overlap = others # {}]
                       ELSE IF d \in others THEN [caller[d] EXCEPT !.overlap = TRUE]
                       ELSE caller[d]]
  /\ UNCHANGED <<plugged, stored, waiting, open, told, begun, again>>

Store(c) ==
  /\ caller[c].at = "store"
  /\ stored' = [stored EXCEPT ![Key(caller[c].alert)] = caller[c].alert]
  /\ caller' = [caller EXCEPT ![c].at = "start"]
  /\ UNCHANGED <<plugged, waiting, open, told, begun, again>>

Start(c) ==
  LET s == caller[c].alert IN
  /\ caller[c].at = "start"
  /\ waiting' = [waiting EXCEPT ![c] = @ \cup {s}]
  /\ told' = [told EXCEPT ![Key(s)] = IF caller[c].overlap THEN None ELSE s]
  /\ begun' = begun \cup {s}
  /\ again' = (again \/ (told[Key(s)] = s /\ ~caller[c].force /\ ~caller[c].overlap))
  /\ caller' = [caller EXCEPT ![c] = IF c = "cli" THEN [Idle EXCEPT !.at = "exit"] ELSE Idle]
  /\ UNCHANGED <<plugged, stored, open>>

(* notify-send shows the notice, or fails.                                    *)
Show(c) ==
  /\ \E s \in waiting[c] :
       /\ waiting' = [waiting EXCEPT ![c] = @ \ {s}]
       /\ open' \in {open, IF c = "daemon" THEN open \cup {s} ELSE open}
  /\ UNCHANGED <<plugged, stored, caller, told, begun, again>>

(* A click and the dialog it opens, a dismissal, or the end of the day.       *)
Answer == /\ \E s \in open : open' = open \ {s}
          /\ UNCHANGED <<plugged, stored, caller, waiting, told, begun, again>>

(* Cut off after the store, a notice is lost and stays silenced.              *)
Cut(c) == IF caller[c].at = "start" THEN {caller[c].alert} ELSE {}

(* The process ends, the command at once after its thread began.              *)
Ends(c) ==
  /\ c = "cli" => caller[c].at # "idle"
  /\ caller' = [caller EXCEPT ![c] = Idle] /\ waiting' = [waiting EXCEPT ![c] = {}]
  /\ open' = IF c = "daemon" THEN {} ELSE open
  /\ begun' = begun \cup Cut(c)
  /\ told' = [k \in BOOLEAN |-> IF \E s \in Cut(c) : Key(s) = k THEN None ELSE told[k]]
  /\ UNCHANGED <<plugged, stored, again>>

Next == PlugOrUnplug \/ Answer
        \/ \E c \in Callers : Enrich(c) \/ Compare(c) \/ Store(c) \/ Start(c) \/ Show(c) \/ Ends(c)
Spec == Init /\ [][Next]_vars

----------------------------------------------------------------------------
(* A signature silences only notices like one that was begun, or that its     *)
(* process was ended in the act of beginning; and the same notice is begun    *)
(* twice in a row only by force or by two processes that overlap.             *)
SilenceIsEarned ==
  /\ ~again
  /\ \A k \in BOOLEAN : stored[k] # None /\ stored[k] \notin begun =>
       \E c \in Callers : caller[c].at = "start" /\ caller[c].alert = stored[k]

=============================================================================
