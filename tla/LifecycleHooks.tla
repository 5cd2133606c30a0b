--------------------------- MODULE LifecycleHooks ---------------------------
(***************************************************************************)
(* The boot, shutdown, suspend and resume hooks.  Each is a process of its *)
(* own that reads the "lifecycle" state and writes it back changed; the    *)
(* boot hook concludes from it whether the boot before ended cleanly.  The *)
(* power may fail, and a hook may be killed, between any two steps.        *)
(***************************************************************************)
EXTENDS Naturals, FiniteSets

CONSTANTS
  MaxBoots, MaxSleeps, MaxFaults,   \* bounds
  Overlap   \* whether a sleep hook may still run when the shutdown hook starts

Actions == {"boot", "shutdown", "suspend", "resume"}

VARIABLES
  boot,      \* the number of this boot: its boot_id
  power,     \* off, up, asleep, stopping
  hook,      \* action -> [pc, read]: the hook processes
  state,     \* dedup_state "lifecycle": whether there is one, the boot it is of, 0
             \* if it names none, and the clean flag
  unclean,   \* boots whose hook inserted an unclean_boot event
  clean,     \* ghost: boots whose shutdown hook wrote its state
  slept,     \* ghost: boots of which a sleep hook wrote its state
  judged,    \* ghost: boot whose hook wrote its state -> the boot recorded before
  sleeps, faults

vars == <<boot, power, hook, state, unclean, clean, slept, judged, sleeps, faults>>

NoState == [set |-> FALSE, boot |-> 0, clean |-> FALSE]

NoHook == [pc |-> "none", read |-> NoState]

-----------------------------------------------------------------------------
Init ==
  /\ boot = 0 /\ power = "off"
  /\ hook = [a \in Actions |-> NoHook]
  /\ state = NoState
  /\ unclean = {} /\ clean = {} /\ slept = {}
  /\ judged = [b \in {} |-> 0]
  /\ sleeps = 0 /\ faults = 0

Quiet == \A a \in Actions : hook[a].pc = "none"

\* systemd starts a hook at each transition and waits for it, except that a
\* shutdown may be ordered while a sleep hook is still at work.
Start(a) == hook' = [hook EXCEPT ![a] = [pc |-> "started", read |-> NoState]]

Boot ==
  /\ power = "off" /\ boot < MaxBoots
  /\ boot' = boot + 1 /\ power' = "up"
  /\ Start("boot")
  /\ UNCHANGED <<state, unclean, clean, slept, judged, sleeps, faults>>

Sleep ==
  /\ power = "up" /\ Quiet /\ sleeps < MaxSleeps
  /\ power' = "asleep" /\ sleeps' = sleeps + 1
  /\ Start("suspend")
  /\ UNCHANGED <<boot, state, unclean, clean, slept, judged, faults>>

Wake ==
  /\ power = "asleep" /\ Quiet
  /\ power' = "up"
  /\ Start("resume")
  /\ UNCHANGED <<boot, state, unclean, clean, slept, judged, sleeps, faults>>

Stop ==
  /\ power = "up" /\ hook["boot"].pc = "none" /\ (Overlap \/ Quiet)
  /\ power' = "stopping"
  /\ Start("shutdown")
  /\ UNCHANGED <<boot, state, unclean, clean, slept, judged, sleeps, faults>>

Off ==
  /\ power = "stopping" /\ Quiet
  /\ power' = "off"
  /\ UNCHANGED <<boot, hook, state, unclean, clean, slept, judged, sleeps, faults>>

\* The hooks: read the state, then write what it becomes.
Read(a) ==
  /\ hook[a].pc = "started"
  /\ hook' = [hook EXCEPT ![a] = [pc |-> "read", read |-> state]]
  /\ UNCHANGED <<boot, power, state, unclean, clean, slept, judged, sleeps, faults>>

Suspicious(read) == read.set /\ ~read.clean /\ read.boot # boot

\* The event is inserted before the state is overwritten.
Conclude ==
  /\ hook["boot"].pc = "read"
  /\ unclean' = IF Suspicious(hook["boot"].read) THEN unclean \cup {boot} ELSE unclean
  /\ hook' = [hook EXCEPT !["boot"].pc = "concluded"]
  /\ UNCHANGED <<boot, power, state, clean, slept, judged, sleeps, faults>>

WriteBoot ==
  /\ hook["boot"].pc = "concluded"
  /\ state' = [set |-> TRUE, boot |-> boot, clean |-> FALSE]
  /\ judged' = [b \in DOMAIN judged \cup {boot} |->
                  IF b = boot THEN hook["boot"].read.boot ELSE judged[b]]
  /\ hook' = [hook EXCEPT !["boot"] = NoHook]
  /\ UNCHANGED <<boot, power, unclean, clean, slept, sleeps, faults>>

Flagged(read) == [set |-> TRUE, boot |-> boot, clean |-> TRUE]

WriteShutdown ==
  /\ hook["shutdown"].pc = "read"
  /\ state' = Flagged(hook["shutdown"].read)
  /\ clean' = clean \cup {boot}
  /\ hook' = [hook EXCEPT !["shutdown"] = NoHook]
  /\ UNCHANGED <<boot, power, unclean, slept, judged, sleeps, faults>>

\* The sleep hooks change a flag nobody reads, and put back the rest; where
\* nothing was stored, the flag alone is a state from then on.
WriteSleep(a) ==
  /\ a \in {"suspend", "resume"} /\ hook[a].pc = "read"
  /\ state' = [hook[a].read EXCEPT !.set = TRUE]
  /\ slept' = slept \cup {boot}
  /\ hook' = [hook EXCEPT ![a] = NoHook]
  /\ UNCHANGED <<boot, power, unclean, clean, judged, sleeps, faults>>

Killed(a) ==
  /\ hook[a].pc # "none" /\ faults < MaxFaults
  /\ hook' = [hook EXCEPT ![a] = NoHook]
  /\ faults' = faults + 1
  /\ UNCHANGED <<boot, power, state, unclean, clean, slept, judged, sleeps>>

PowerLoss ==
  /\ power # "off" /\ faults < MaxFaults
  /\ power' = "off"
  /\ hook' = [a \in Actions |-> NoHook]
  /\ faults' = faults + 1
  /\ UNCHANGED <<boot, state, unclean, clean, slept, judged, sleeps>>

Next ==
  \/ Boot \/ Sleep \/ Wake \/ Stop \/ Off \/ Conclude \/ WriteBoot \/ WriteShutdown \/ PowerLoss
  \/ \E a \in Actions : Read(a) \/ WriteSleep(a) \/ Killed(a)

Spec == Init /\ [][Next]_vars

-----------------------------------------------------------------------------
States == [set : BOOLEAN, boot : 0..MaxBoots, clean : BOOLEAN]

TypeOK ==
  /\ boot \in 0..MaxBoots /\ power \in {"off", "up", "asleep", "stopping"}
  /\ hook \in [Actions -> [pc : {"none", "started", "read", "concluded"}, read : States]]
  /\ state \in States
  /\ unclean \subseteq 1..boot /\ clean \subseteq 1..boot /\ slept \subseteq 1..boot
  /\ DOMAIN judged \subseteq 1..boot

\* A boot is reported as following an unclean end exactly if the boot that was
\* recorded before it had no shutdown hook that wrote its state, or none was
\* recorded and yet a sleep hook of an earlier boot wrote: a power loss is never
\* missed, and an orderly end is never taken for one, also across suspends,
\* killed hooks and a power loss in the middle of a hook.
UncleanEndsAreReported ==
  \A b \in DOMAIN judged :
    b \in unclean <=> judged[b] \notin clean /\ (judged[b] # 0 \/ \E c \in slept : c < b)
=============================================================================
