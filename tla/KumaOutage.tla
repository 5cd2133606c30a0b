----------------------------- MODULE KumaOutage -----------------------------
(***************************************************************************)
(* What the incident follower promises: the heartbeats of a monitor are    *)
(* taken in one by one, in order and exactly once, and taking one in       *)
(* updates the incident ledger and the knowledge about the monitor as one  *)
(* step.  No cursor, no batches, no transactions, no crashes.              *)
(***************************************************************************)
EXTENDS Integers, Sequences

CONSTANTS Monitors, Grace, MaxGap

VARIABLES log, ledger, opened, state
vars == <<log, ledger, opened, state>>

Statuses == {"down", "up", "pending"}
Mon(h) == log[h].mon

Init ==
  /\ log = <<>> /\ ledger = <<>> /\ opened = <<>>
  /\ state \in [Monitors -> [last : {0}, down : BOOLEAN, inc : {0}, rec : {-1}]]

Beat ==
  /\ \E m \in Monitors, s \in Statuses, gap \in 0..MaxGap :
       log' = Append(log, [mon |-> m, status |-> s, time |->
                (IF log = <<>> THEN 0 ELSE log[Len(log)].time) + gap])
  /\ UNCHANGED <<ledger, opened, state>>

(* h is the first heartbeat of its monitor that was not taken in.          *)
NextOf(h) == /\ state[Mon(h)].last < h
             /\ \A j \in 1..Len(log) : Mon(j) = Mon(h) /\ state[Mon(h)].last < j => h <= j

Record(h, incident) ==
  ledger' = [j \in DOMAIN ledger \cup {h} |-> IF j = h THEN incident ELSE ledger[j]]

Know(h, new) == state' = [state EXCEPT ![Mon(h)] = new]

(* A first outage, or one after a recovery that lasted, is a new incident. *)
NewEpisode(h) ==
  LET s == state[Mon(h)]
  IN  /\ log[h].status = "down"
      /\ s.inc = 0 \/ (~s.down /\ s.rec # -1 /\ log[h].time - s.rec >= Grace)
      /\ opened' = Append(opened, h)
      /\ Record(h, Len(opened) + 1)
      /\ Know(h, [last |-> h, down |-> TRUE, inc |-> Len(opened) + 1, rec |-> -1])

(* A short flap continues the incident.                                    *)
Flap(h) ==
  LET s == state[Mon(h)]
  IN  /\ log[h].status = "down" /\ ~s.down /\ s.inc # 0
      /\ s.rec # -1 => log[h].time - s.rec < Grace
      /\ Record(h, s.inc)
      /\ Know(h, [s EXCEPT !.last = h, !.down = TRUE, !.rec = -1])
      /\ UNCHANGED opened

Recovery(h) ==
  LET s == state[Mon(h)]
  IN  /\ log[h].status = "up" /\ s.down /\ s.inc # 0
      /\ Record(h, s.inc)
      /\ Know(h, [s EXCEPT !.last = h, !.down = FALSE, !.rec = log[h].time])
      /\ UNCHANGED opened

(* A heartbeat that says nothing new, or nothing at all, leaves no record. *)
Nothing(h) ==
  LET s == state[Mon(h)]
  IN  /\ \/ log[h].status = "pending"
         \/ log[h].status = "down" /\ s.down /\ s.inc # 0
         \/ log[h].status = "up" /\ ~(s.down /\ s.inc # 0)
      /\ Know(h, [s EXCEPT !.last = h,
                           !.down = (IF log[h].status = "pending" THEN @
                                     ELSE log[h].status = "down")])
      /\ UNCHANGED <<ledger, opened>>

TakeIn(h) == /\ NextOf(h)
             /\ NewEpisode(h) \/ Flap(h) \/ Recovery(h) \/ Nothing(h)
             /\ UNCHANGED log

Next == Beat \/ \E h \in 1..Len(log) : TakeIn(h)

Spec == Init /\ [][Next]_vars

==============================================================================
