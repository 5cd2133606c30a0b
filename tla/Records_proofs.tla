---------------------------- MODULE Records_proofs ----------------------------
(***************************************************************************)
(* What the records of the monitor promise, for every value of their       *)
(* constants.  The parts meet in AllSpec, of which a step moves one part   *)
(* and leaves the variables of the others alone; each has an inductive     *)
(* invariant of its own, over its own variables.                           *)
(***************************************************************************)
EXTENDS MCRecords, FiniteSetTheorems, SequenceTheorems, WellFoundedInduction, TLAPS

(* A set of numbers that is not empty has a least one.                     *)
LEMMA LeastNumber ==
  ASSUME NEW B \in SUBSET Nat, B # {}
  PROVE  \E n \in B : \A m \in B : n <= m
<1>1. PICK n \in B : \A m \in B : ~(<<m, n>> \in OpToRel(<, Nat))
  BY NatLessThanWellFounded, WFMin
<1>2. \A m \in B : ~(m < n)
  BY <1>1 DEF OpToRel
<1> QED BY <1>2

-----------------------------------------------------------------------------
(* Free space.                                                             *)

Visits == [at : {"idle", "send", "store"}, free : F!Free \cup {F!NoValue},
           taken : BOOLEAN, accepted : BOOLEAN]

(* Between its steps an evaluation holds what it observed; what was told   *)
(* or put away is what the baseline says, or the value of the message      *)
(* under way, unless an answer was lost.                                   *)
SpaceInv ==
  /\ base \in F!Free \cup {F!NoValue} /\ observed \in F!Free \cup {F!NoValue}
  /\ settled \in F!Free \cup {F!NoValue} /\ due \in BOOLEAN /\ doubt \in BOOLEAN
  /\ base = F!NoValue <=> observed = F!NoValue
  /\ visit \in Visits
  /\ visit.at = "idle" => visit = F!Idle
  /\ visit.at = "send" => ~visit.taken /\ ~visit.accepted
  /\ visit.accepted => visit.taken
  /\ visit.at # "idle" => visit.free # F!NoValue
  /\ visit.at # "idle" => base # F!NoValue
  /\ visit.at = "store" /\ visit.taken => settled = visit.free
  /\ ~doubt => settled = base \/ (visit.at = "store" /\ visit.taken)
  /\ visit.at = "idle" /\ ~due /\ ~doubt /\ base # F!NoValue => F!Gap(observed, settled) < Threshold

(* One of the mount points that a filesystem shows is preferred.           *)
LEMMA SelectedIsFree ==
  ASSUME NEW o \in F!Observations
  PROVE  F!Selected(o) \in F!Free
<1>1. PICK M \in (SUBSET Mounts) \ {{}} : o \in [M -> F!Free]
  BY DEF F!Observations
<1>2. M \in SUBSET Nat /\ M # {} /\ DOMAIN o = M
  BY <1>1, SpaceAssumption
<1>3. \E m \in M : \A n \in M : m <= n
  BY <1>2, LeastNumber
<1> QED BY <1>1, <1>2, <1>3 DEF F!Selected

(* Nothing is under way at first, and then a message with a value.          *)
LEMMA IdleVisit ==
  /\ F!Idle \in Visits /\ F!Idle.at = "idle" /\ F!Idle.accepted = FALSE
  /\ \A f \in F!Free : [F!Idle EXCEPT !.at = "send", !.free = f] \in Visits
  BY DEF F!Idle, Visits

(* Nothing was observed yet.                                                *)
LEMMA InitSpace == F!Init => SpaceInv
<1> SUFFICES ASSUME F!Init PROVE SpaceInv
  OBVIOUS
<1>1. visit = F!Idle /\ base = F!NoValue /\ observed = F!NoValue /\ settled = F!NoValue
      /\ due = FALSE /\ doubt = FALSE
  BY DEF F!Init
<1> QED BY <1>1, IdleVisit DEF SpaceInv

(* What is free is compared with what was told.                             *)
LEMMA EvaluateKeeps == ASSUME SpaceInv, F!Evaluate PROVE SpaceInv'
<1>1. PICK f \in F!Free : F!FirstSeen(f) \/ F!SmallChange(f) \/ F!LargeChange(f)
  BY SelectedIsFree DEF F!Evaluate
<1>2. visit = F!Idle /\ visit.at = "idle" /\ F!Idle.at = "idle"
  BY DEF F!Evaluate, SpaceInv, F!Idle
<1>3. f \in Nat /\ f # F!NoValue /\ Threshold \in Nat /\ Threshold > 0
  BY SpaceAssumption DEF F!Free, F!NoValue
<1>4. CASE F!FirstSeen(f)
  <2>1. F!Gap(f, f) < Threshold
    BY <1>3 DEF F!Gap
  <2> QED BY <1>2, <1>3, <1>4, <2>1 DEF F!FirstSeen, SpaceInv
<1>5. CASE F!SmallChange(f)
  BY <1>2, <1>3, <1>5 DEF F!SmallChange, SpaceInv
<1>6. CASE F!LargeChange(f)
  <2>1. visit' = [F!Idle EXCEPT !.at = "send", !.free = f] /\ base # F!NoValue
        /\ UNCHANGED <<base, observed, settled, due, doubt>>
    BY <1>6 DEF F!LargeChange
  <2>2. /\ visit'.at = "send" /\ visit'.free = f /\ ~visit'.taken /\ ~visit'.accepted
        /\ visit' \in Visits
    BY <2>1, IdleVisit DEF F!Idle
  <2>3. ~doubt => settled' = base'
    BY <1>2, <2>1 DEF SpaceInv
  <2> QED BY <1>3, <2>1, <2>2, <2>3 DEF SpaceInv
<1> QED BY <1>1, <1>4, <1>5, <1>6

(* The message is sent, and what became of it is stored or lost.            *)
LEMMA SpaceKeeps == ASSUME SpaceInv, F!Send \/ F!Store \/ F!Dies PROVE SpaceInv'
<1>1. CASE F!Send
  <2>1. PICK taken1 \in BOOLEAN, accepted \in BOOLEAN :
          /\ accepted => taken1
          /\ visit' = [visit EXCEPT !.at = "store", !.taken = taken1, !.accepted = accepted]
          /\ settled' = IF taken1 THEN visit.free ELSE settled
    BY <1>1 DEF F!Send
  <2>2. /\ visit.at = "send" /\ visit.free \in F!Free /\ base # F!NoValue
        /\ ~visit.taken /\ ~visit.accepted
    BY <1>1 DEF F!Send, SpaceInv, Visits
  <2>3. visit' = [at |-> "store", free |-> visit.free, taken |-> taken1, accepted |-> accepted]
    BY <2>1 DEF SpaceInv, Visits
  <2>4. visit' \in Visits
    BY <2>2, <2>3 DEF Visits
  <2>5. UNCHANGED <<base, observed, due, doubt>>
    BY <1>1 DEF F!Send
  <2>6. visit'.at = "store" /\ visit'.free = visit.free /\ visit'.taken = taken1
        /\ visit'.accepted = accepted
    BY <2>3
  <2>7. /\ visit'.taken => settled' = visit'.free
        /\ ~doubt' => settled' = base' \/ visit'.taken
    BY <2>1, <2>2, <2>5, <2>6 DEF SpaceInv
  <2>8. settled' \in F!Free \cup {F!NoValue}
    BY <2>1, <2>2 DEF SpaceInv
  <2> QED BY <2>1, <2>2, <2>4, <2>5, <2>6, <2>7, <2>8 DEF SpaceInv
<1>2. CASE F!Store
  <2>1. /\ visit.at = "store" /\ visit.free \in F!Free /\ visit.free # F!NoValue
        /\ visit.accepted \in BOOLEAN /\ visit.taken \in BOOLEAN /\ visit.accepted => visit.taken
        /\ base # F!NoValue
    BY <1>2 DEF F!Store, SpaceInv, Visits
  <2>2. F!Gap(visit.free, visit.free) < Threshold
    BY <2>1, SpaceAssumption DEF F!Gap, F!Free
  <2>3. /\ base' = IF visit.accepted THEN visit.free ELSE base
        /\ observed' = visit.free /\ visit' = F!Idle /\ due' = ~visit.accepted
        /\ doubt' = (~visit.accepted /\ (doubt \/ visit.taken)) /\ settled' = settled
    BY <1>2 DEF F!Store, F!Baseline
  <2>4. visit' \in Visits /\ visit'.at = "idle" /\ ~visit'.accepted /\ visit' = F!Idle
    BY <2>3, IdleVisit
  <2>5. CASE visit.accepted
    <3>1. base' = visit.free /\ ~doubt' /\ ~due' /\ settled' = settled /\ observed' = visit.free
      BY <2>3, <2>5
    <3>2. settled = visit.free
      BY <2>1, <2>5 DEF SpaceInv
    <3>3. settled' = visit.free
      BY <3>1, <3>2
    <3>4. F!Gap(observed', settled') < Threshold
      BY <2>2, <3>1, <3>3
    <3>5. visit'.at # "store" /\ base' # F!NoValue /\ observed' # F!NoValue /\ settled' = base'
      BY <2>1, <2>4, <3>1, <3>3
    <3>6. base' \in F!Free /\ observed' \in F!Free /\ settled' \in F!Free
      BY <2>1, <3>1, <3>3
    <3>7. due' \in BOOLEAN /\ doubt' \in BOOLEAN
      BY <2>3, <3>1
    <3> QED BY <2>4, <3>4, <3>5, <3>6, <3>7 DEF SpaceInv
  <2>6. CASE ~visit.accepted
    <3>1. base' = base /\ due' /\ due' \in BOOLEAN /\ doubt' = (doubt \/ visit.taken)
          /\ observed' = visit.free
      BY <2>3, <2>6
    <3>2. doubt' \in BOOLEAN
      BY <2>1, <3>1 DEF SpaceInv
    <3>3. ~doubt' => settled' = base'
      BY <2>1, <2>3, <3>1 DEF SpaceInv
    <3> QED BY <2>1, <2>3, <2>4, <3>1, <3>2, <3>3 DEF SpaceInv
  <2> QED BY <2>1, <2>5, <2>6
<1>3. CASE F!Dies
  <2>1. /\ visit' \in Visits /\ visit'.at = "idle" /\ ~visit'.accepted /\ visit' = F!Idle
        /\ visit.at # "idle" /\ visit.taken \in BOOLEAN
    BY <1>3, IdleVisit DEF F!Dies, SpaceInv, Visits
  <2>2. due' = TRUE /\ doubt' = (doubt \/ visit.taken) /\ UNCHANGED <<base, observed, settled>>
    BY <1>3 DEF F!Dies
  <2>3. doubt' \in BOOLEAN
    BY <2>1, <2>2 DEF SpaceInv
  <2>4. ~doubt' => settled' = base'
    BY <2>1, <2>2 DEF SpaceInv
  <2> QED BY <2>1, <2>2, <2>3, <2>4 DEF SpaceInv
<1> QED BY <1>1, <1>2, <1>3

(* Every step keeps the account of free space.                              *)
LEMMA NextSpace == ASSUME SpaceInv, [F!Next]_(F!vars) PROVE SpaceInv'
<1>1. CASE UNCHANGED F!vars
  BY <1>1 DEF F!vars, SpaceInv
<1> QED BY <1>1, EvaluateKeeps, SpaceKeeps DEF F!Next

-----------------------------------------------------------------------------
(* SMART notices.                                                          *)

CallerSet == [at : {"idle", "compare", "store", "start", "exit"},
              alert : N!Signatures \cup {N!None}, force : BOOLEAN, overlap : BOOLEAN]

SmartTypes ==
  /\ plugged \in BOOLEAN /\ again \in BOOLEAN
  /\ stored \in [BOOLEAN -> N!Signatures \cup {N!None}]
  /\ told \in [BOOLEAN -> N!Signatures \cup {N!None}]
  /\ \A k \in BOOLEAN : stored[k] # N!None => N!Key(stored[k]) = k
  /\ caller \in [N!Callers -> CallerSet]
  /\ \A c \in N!Callers : caller[c].at \in {"compare", "store", "start"} => caller[c].alert \in N!Signatures
  /\ waiting \in [N!Callers -> SUBSET N!Signatures]
  /\ open \subseteq N!Signatures /\ begun \subseteq N!Signatures
  /\ caller["daemon"].at # "exit" /\ ~caller["daemon"].force

(* A process that knows of no overlap is alone between the comparison and  *)
(* the notice, so what it stored is still there and what was told of its   *)
(* key is not what it will tell.                                           *)
AloneInv ==
  \A c \in N!Callers : N!Between(c) /\ ~caller[c].overlap =>
    /\ \A d \in N!Callers : N!Between(d) => d = c
    /\ caller[c].at = "start" => stored[N!Key(caller[c].alert)] = caller[c].alert
    /\ ~caller[c].force => told[N!Key(caller[c].alert)] # caller[c].alert

(* What was told of a key is what is stored for it, or a process is about   *)
(* to tell what it stored over it.                                          *)
ToldInv ==
  \A k \in BOOLEAN : \/ told[k] = N!None \/ told[k] = stored[k]
                     \/ \E c \in N!Callers : caller[c].at = "start" /\ N!Key(caller[c].alert) = k

SmartInv == SmartTypes /\ AloneInv /\ ToldInv /\ N!SilenceIsEarned

(* A signature has a key, and none is the mark for nothing told.            *)
LEMMA SignatureFacts ==
  ASSUME NEW s \in N!Signatures
  PROVE  N!Key(s) \in BOOLEAN /\ s # N!None /\ s \in [known : BOOLEAN, present : BOOLEAN]
  BY DEF N!Signatures, N!Key, N!None

(* Nothing was told yet.                                                    *)
LEMMA InitSmart == ASSUME N!Init PROVE SmartInv
<1> USE DEF N!Init
<1>1. N!Idle \in CallerSet /\ N!Idle.at = "idle" /\ N!Idle.force = FALSE
  BY DEF N!Idle, CallerSet
<1>2. \A c \in N!Callers : caller[c] = N!Idle
  OBVIOUS
<1>3. "daemon" \in N!Callers
  BY DEF N!Callers
<1>4. SmartTypes
  BY <1>1, <1>2, <1>3 DEF SmartTypes
<1>5. AloneInv
  BY <1>1, <1>2 DEF AloneInv, N!Between
<1>6. ToldInv
  BY DEF ToldInv
<1>7. N!SilenceIsEarned
  BY DEF N!SilenceIsEarned
<1> QED BY <1>4, <1>5, <1>6, <1>7 DEF SmartInv

(* A disk comes and goes, notices are shown and answered: of the processes  *)
(* and of what they remember nothing changes.                               *)
LEMMA OutsideKeeps ==
  ASSUME SmartInv, N!PlugOrUnplug \/ N!Answer \/ \E c \in N!Callers : N!Show(c)
  PROVE  SmartInv'
<1>1. UNCHANGED <<stored, caller, told, begun, again>>
  BY DEF N!PlugOrUnplug, N!Answer, N!Show
<1>2. SmartTypes'
  <2>1. CASE N!PlugOrUnplug
    BY <1>1, <2>1 DEF SmartInv, SmartTypes, N!PlugOrUnplug
  <2>2. CASE N!Answer
    BY <1>1, <2>2 DEF SmartInv, SmartTypes, N!Answer
  <2>3. ASSUME NEW c \in N!Callers, N!Show(c) PROVE SmartTypes'
    <3>1. PICK s \in waiting[c] :
            /\ waiting' = [waiting EXCEPT ![c] = @ \ {s}]
            /\ open' \in {open, IF c = "daemon" THEN open \cup {s} ELSE open}
      BY <2>3 DEF N!Show
    <3>2. s \in N!Signatures /\ waiting[c] \in SUBSET N!Signatures
      BY DEF SmartInv, SmartTypes
    <3>3. waiting' \in [N!Callers -> SUBSET N!Signatures] /\ open' \subseteq N!Signatures
      BY <3>1, <3>2 DEF SmartInv, SmartTypes
    <3>4. plugged' = plugged
      BY <2>3 DEF N!Show
    <3> QED BY <1>1, <3>3, <3>4 DEF SmartInv, SmartTypes
  <2> QED BY <2>1, <2>2, <2>3
<1>3. AloneInv' /\ ToldInv' /\ N!SilenceIsEarned'
  BY <1>1 DEF SmartInv, AloneInv, ToldInv, N!SilenceIsEarned, N!Between
<1> QED BY <1>2, <1>3 DEF SmartInv

(* A process learns of a problem.                                           *)
LEMMA EnrichKeeps == ASSUME SmartInv, NEW c \in N!Callers, N!Enrich(c) PROVE SmartInv'
<1>1. PICK s \in N!Signatures, f \in BOOLEAN :
        /\ f => c = "cli"
        /\ caller' = [caller EXCEPT ![c] = [N!Idle EXCEPT !.at = "compare", !.alert = s, !.force = f]]
  BY DEF N!Enrich, N!Enriched
<1>2. UNCHANGED <<plugged, stored, waiting, open, told, begun, again>> /\ caller[c].at = "idle"
  BY DEF N!Enrich
<1>3. /\ caller'[c] = [at |-> "compare", alert |-> s, force |-> f, overlap |-> FALSE]
      /\ \A d \in N!Callers : d # c => caller'[d] = caller[d]
      /\ caller' \in [N!Callers -> CallerSet]
  BY <1>1 DEF N!Idle, CallerSet, SmartInv, SmartTypes
<1>4. SmartTypes'
  BY <1>1, <1>2, <1>3 DEF SmartInv, SmartTypes
<1>5. \A d \in N!Callers : (N!Between(d)' <=> N!Between(d)) /\ (caller'[d].at = "start" <=> caller[d].at = "start")
                           /\ (d # c => caller'[d] = caller[d])
  BY <1>2, <1>3 DEF N!Between
<1>6. ~N!Between(c) /\ caller[c].at # "start"
  BY <1>2 DEF N!Between
<1>7. AloneInv'
  BY <1>2, <1>5, <1>6 DEF SmartInv, AloneInv
<1>8. ToldInv' /\ N!SilenceIsEarned'
  BY <1>2, <1>5, <1>6 DEF SmartInv, ToldInv, N!SilenceIsEarned
<1> QED BY <1>4, <1>7, <1>8 DEF SmartInv

(* It compares the signature with the stored one, and whoever is between    *)
(* comparison and notice now knows of the other.                            *)
LEMMA CompareKeeps == ASSUME SmartInv, NEW c \in N!Callers, N!Compare(c) PROVE SmartInv'
<1> DEFINE others == {d \in N!Callers \ {c} : N!Between(d)}
<1>1. UNCHANGED <<plugged, stored, waiting, open, told, begun, again>> /\ caller[c].at = "compare"
  BY DEF N!Compare
<1>2. /\ caller \in [N!Callers -> CallerSet] /\ caller[c] \in CallerSet
      /\ caller[c].alert \in N!Signatures
  BY <1>1 DEF SmartInv, SmartTypes
<1>3. CASE N!Repeats(c)
  <2>1. caller' = [caller EXCEPT ![c] = N!Idle]
    BY <1>3 DEF N!Compare
  <2>2. /\ caller'[c] = N!Idle /\ \A d \in N!Callers : d # c => caller'[d] = caller[d]
        /\ caller' \in [N!Callers -> CallerSet] /\ N!Idle.at = "idle" /\ ~N!Idle.force
    BY <1>2, <2>1 DEF N!Idle, CallerSet
  <2>3. SmartTypes'
    <3>1. \A d \in N!Callers : caller'[d].at \in {"compare", "store", "start"} =>
            caller'[d].alert \in N!Signatures
      BY <2>2 DEF SmartInv, SmartTypes
    <3>2. caller'["daemon"].at # "exit" /\ ~caller'["daemon"].force
      BY <2>2 DEF SmartInv, SmartTypes, N!Callers
    <3> QED BY <1>1, <2>2, <3>1, <3>2 DEF SmartInv, SmartTypes
  <2>4. \A d \in N!Callers : (N!Between(d)' <=> N!Between(d)) /\ (caller'[d].at = "start" <=> caller[d].at = "start")
                             /\ (d # c => caller'[d] = caller[d])
    BY <1>1, <2>2 DEF N!Between
  <2>5. ~N!Between(c) /\ caller[c].at # "start"
    BY <1>1 DEF N!Between
  <2> QED BY <1>1, <2>3, <2>4, <2>5 DEF SmartInv, AloneInv, ToldInv, N!SilenceIsEarned
<1>4. CASE ~N!Repeats(c)
  <2>1. caller' = [d \in N!Callers |->
                     IF d = c THEN [caller[c] EXCEPT !.at = "store", !.overlap = others # {}]
                     ELSE IF d \in others THEN [caller[d] EXCEPT !.overlap = TRUE]
                     ELSE caller[d]]
    BY <1>4 DEF N!Compare
  <2>2. caller'[c] = [at |-> "store", alert |-> caller[c].alert, force |-> caller[c].force,
                      overlap |-> others # {}]
    BY <1>2, <2>1 DEF CallerSet
  <2>3. ASSUME NEW d \in N!Callers, d # c
        PROVE  /\ caller'[d].at = caller[d].at /\ caller'[d].alert = caller[d].alert
               /\ caller'[d].force = caller[d].force /\ caller'[d] \in CallerSet
               /\ N!Between(d) => caller'[d].overlap
    BY <1>2, <2>1, <2>3 DEF CallerSet
  <2>4. (others # {}) \in BOOLEAN /\ caller'[c] \in CallerSet
    BY <1>2, <2>2 DEF CallerSet
  <2>5. caller' \in [N!Callers -> CallerSet]
    BY <2>1, <2>3, <2>4
  <2>6. SmartTypes'
    BY <1>1, <1>2, <2>2, <2>3, <2>5 DEF SmartInv, SmartTypes, N!Callers
  <2>7. \A d \in N!Callers : caller'[d].at = "start" <=> caller[d].at = "start"
    BY <1>1, <2>2, <2>3
  <2>8. \A d \in N!Callers : caller'[d].alert = caller[d].alert
    BY <2>2, <2>3
  <2>9. ToldInv' /\ N!SilenceIsEarned'
    BY <1>1, <2>7, <2>8 DEF SmartInv, ToldInv, N!SilenceIsEarned
  <2>10. ASSUME NEW d \in N!Callers, N!Between(d)', ~caller'[d].overlap
         PROVE  d = c /\ others = {} /\ \A e \in N!Callers : N!Between(e)' => e = c
    <3>1. d = c
      BY <2>3, <2>10 DEF N!Between
    <3>2. others = {}
      <4>1. caller'[c].overlap = (others # {})
        BY <2>2
      <4>2. ~caller'[c].overlap
        BY <2>10, <3>1
      <4> HIDE DEF others
      <4> QED BY <4>1, <4>2
    <3>3. \A e \in N!Callers : e # c => ~N!Between(e)
      BY <3>2
    <3> QED BY <2>3, <3>1, <3>2, <3>3 DEF N!Between
  <2>11. ASSUME others = {}, ~caller[c].force
         PROVE  told[N!Key(caller[c].alert)] # caller[c].alert
    <3> DEFINE k == N!Key(caller[c].alert)
    <3>1. k \in BOOLEAN /\ caller[c].alert # N!None
      BY <1>2, SignatureFacts
    <3>2. \A e \in N!Callers : caller[e].at # "start"
      BY <1>1, <2>11 DEF N!Between
    <3>3. told[k] = N!None \/ told[k] = stored[k]
      BY <3>1, <3>2 DEF SmartInv, ToldInv
    <3> QED BY <1>4, <2>11, <3>1, <3>3 DEF N!Repeats
  <2>12. AloneInv'
    BY <1>1, <2>2, <2>10, <2>11 DEF AloneInv
  <2> QED BY <2>6, <2>9, <2>12 DEF SmartInv
<1> QED BY <1>3, <1>4

(* It stores the new signature.                                             *)
LEMMA StoreKeeps == ASSUME SmartInv, NEW c \in N!Callers, N!Store(c) PROVE SmartInv'
<1> DEFINE s == caller[c].alert
           k == N!Key(s)
<1>1. /\ caller[c].at = "store" /\ stored' = [stored EXCEPT ![k] = s]
      /\ caller' = [caller EXCEPT ![c].at = "start"]
      /\ UNCHANGED <<plugged, waiting, open, told, begun, again>>
  BY DEF N!Store
<1>2. /\ caller \in [N!Callers -> CallerSet] /\ caller[c] \in CallerSet /\ s \in N!Signatures
      /\ stored \in [BOOLEAN -> N!Signatures \cup {N!None}]
  BY <1>1 DEF SmartInv, SmartTypes
<1>3. k \in BOOLEAN /\ s # N!None
  BY <1>2, SignatureFacts
<1>4. /\ caller'[c] = [at |-> "start", alert |-> s, force |-> caller[c].force, overlap |-> caller[c].overlap]
      /\ \A d \in N!Callers : d # c => caller'[d] = caller[d]
      /\ caller' \in [N!Callers -> CallerSet]
  <2>1. caller' = [caller EXCEPT ![c] = [caller[c] EXCEPT !.at = "start"]]
    BY <1>1
  <2>2. [caller[c] EXCEPT !.at = "start"] =
          [at |-> "start", alert |-> s, force |-> caller[c].force, overlap |-> caller[c].overlap]
    BY <1>2 DEF CallerSet
  <2>3. [at |-> "start", alert |-> s, force |-> caller[c].force, overlap |-> caller[c].overlap] \in CallerSet
    BY <1>2 DEF CallerSet
  <2> QED BY <1>2, <2>1, <2>2, <2>3
<1>5. stored'[k] = s /\ \A j \in BOOLEAN : j # k => stored'[j] = stored[j]
  BY <1>1, <1>2, <1>3
<1>6. SmartTypes'
  <2>1. stored' \in [BOOLEAN -> N!Signatures \cup {N!None}]
    BY <1>1, <1>2, <1>3
  <2>2. \A j \in BOOLEAN : stored'[j] # N!None => N!Key(stored'[j]) = j
    BY <1>5 DEF SmartInv, SmartTypes
  <2>3. \A d \in N!Callers : caller'[d].at \in {"compare", "store", "start"} =>
          caller'[d].alert \in N!Signatures
    BY <1>2, <1>4 DEF SmartInv, SmartTypes
  <2>4. caller'["daemon"].at # "exit" /\ ~caller'["daemon"].force
    BY <1>4 DEF SmartInv, SmartTypes, N!Callers
  <2> QED BY <1>1, <1>4, <2>1, <2>2, <2>3, <2>4 DEF SmartInv, SmartTypes
<1>7. \A d \in N!Callers : /\ N!Between(d)' <=> N!Between(d)
                           /\ caller'[d].alert = caller[d].alert /\ caller'[d].overlap = caller[d].overlap
                           /\ caller'[d].force = caller[d].force
                           /\ caller[d].at = "start" => caller'[d].at = "start"
  BY <1>1, <1>4 DEF N!Between
<1>8. ASSUME NEW d \in N!Callers, N!Between(d), ~caller[d].overlap PROVE d = c
  BY <1>1, <1>8 DEF SmartInv, AloneInv, N!Between
<1>9. AloneInv'
  <2>1. caller'[c].at = "start" => stored'[N!Key(caller'[c].alert)] = caller'[c].alert
    BY <1>4, <1>5
  <2>2. N!Between(c)
    BY <1>1 DEF N!Between
  <2>3. ~caller[c].overlap /\ ~caller[c].force => told[k] # s
    BY <2>2 DEF SmartInv, AloneInv
  <2> SUFFICES ASSUME NEW d \in N!Callers, N!Between(d)', ~caller'[d].overlap
               PROVE  /\ \A e \in N!Callers : N!Between(e)' => e = d
                      /\ caller'[d].at = "start" => stored'[N!Key(caller'[d].alert)] = caller'[d].alert
                      /\ ~caller'[d].force => told'[N!Key(caller'[d].alert)] # caller'[d].alert
    BY DEF AloneInv
  <2>4. N!Between(d) /\ ~caller[d].overlap /\ d = c
    BY <1>7, <1>8
  <2>5. \A e \in N!Callers : N!Between(e) => e = c
    BY <2>4 DEF SmartInv, AloneInv
  <2> QED BY <1>1, <1>4, <1>7, <2>1, <2>3, <2>4, <2>5
<1>10. ToldInv'
  <2> SUFFICES ASSUME NEW j \in BOOLEAN
               PROVE  \/ told'[j] = N!None \/ told'[j] = stored'[j]
                      \/ \E d \in N!Callers : caller'[d].at = "start" /\ N!Key(caller'[d].alert) = j
    BY DEF ToldInv
  <2>1. CASE j = k
    BY <1>4, <2>1
  <2>2. CASE j # k
    BY <1>1, <1>5, <1>7, <2>2 DEF SmartInv, ToldInv
  <2> QED BY <2>1, <2>2
<1>11. N!SilenceIsEarned'
  <2>1. ~again'
    BY <1>1 DEF SmartInv, N!SilenceIsEarned
  <2>2. ASSUME NEW j \in BOOLEAN, stored'[j] # N!None, stored'[j] \notin begun'
        PROVE  \E d \in N!Callers : caller'[d].at = "start" /\ caller'[d].alert = stored'[j]
    <3>1. CASE j = k
      BY <1>4, <1>5, <3>1
    <3>2. CASE j # k
      BY <1>1, <1>5, <1>7, <2>2, <3>2 DEF SmartInv, N!SilenceIsEarned
    <3> QED BY <3>1, <3>2
  <2> QED BY <2>1, <2>2 DEF N!SilenceIsEarned
<1> QED BY <1>6, <1>9, <1>10, <1>11 DEF SmartInv

(* It starts the thread of the notice.                                      *)
LEMMA StartKeeps == ASSUME SmartInv, NEW c \in N!Callers, N!Start(c) PROVE SmartInv'
<1> DEFINE s == caller[c].alert
           k == N!Key(s)
           gone == IF c = "cli" THEN [N!Idle EXCEPT !.at = "exit"] ELSE N!Idle
<1>1. /\ caller[c].at = "start"
      /\ waiting' = [waiting EXCEPT ![c] = @ \cup {s}]
      /\ told' = [told EXCEPT ![k] = IF caller[c].overlap THEN N!None ELSE s]
      /\ begun' = begun \cup {s}
      /\ again' = (again \/ (told[k] = s /\ ~caller[c].force /\ ~caller[c].overlap))
      /\ caller' = [caller EXCEPT ![c] = gone]
      /\ UNCHANGED <<plugged, stored, open>>
  BY DEF N!Start
<1>2. /\ caller \in [N!Callers -> CallerSet] /\ s \in N!Signatures /\ N!Between(c)
      /\ told \in [BOOLEAN -> N!Signatures \cup {N!None}]
      /\ waiting \in [N!Callers -> SUBSET N!Signatures]
  BY <1>1 DEF SmartInv, SmartTypes, N!Between
<1>3. k \in BOOLEAN /\ s # N!None
  BY <1>2, SignatureFacts
<1>4. /\ gone \in CallerSet /\ gone.at \in {"idle", "exit"} /\ (c # "cli" => gone.at = "idle") /\ ~gone.force
  BY DEF CallerSet, N!Idle
<1>5. /\ caller'[c] = gone /\ \A d \in N!Callers : d # c => caller'[d] = caller[d]
      /\ caller' \in [N!Callers -> CallerSet]
  <2> HIDE DEF gone
  <2> QED BY <1>1, <1>2, <1>4
<1> HIDE DEF gone
<1>6. told'[k] = (IF caller[c].overlap THEN N!None ELSE s) /\ \A j \in BOOLEAN : j # k => told'[j] = told[j]
  BY <1>1, <1>2, <1>3
<1>7. SmartTypes'
  <2>1. told' \in [BOOLEAN -> N!Signatures \cup {N!None}]
    BY <1>1, <1>2, <1>3
  <2>2. waiting' \in [N!Callers -> SUBSET N!Signatures] /\ begun' \subseteq N!Signatures
    BY <1>1, <1>2 DEF SmartInv, SmartTypes
  <2>3. \A d \in N!Callers : caller'[d].at \in {"compare", "store", "start"} =>
          caller'[d].alert \in N!Signatures
    BY <1>4, <1>5 DEF SmartInv, SmartTypes
  <2>4. caller'["daemon"].at # "exit" /\ ~caller'["daemon"].force
    BY <1>4, <1>5 DEF SmartInv, SmartTypes, N!Callers
  <2>5. again' \in BOOLEAN
    BY <1>1
  <2> QED BY <1>1, <1>5, <2>1, <2>2, <2>3, <2>4, <2>5 DEF SmartInv, SmartTypes
<1>8. ASSUME NEW d \in N!Callers, N!Between(d)' PROVE d # c /\ N!Between(d) /\ caller'[d] = caller[d]
  BY <1>4, <1>5, <1>8 DEF N!Between
<1>9. \A d \in N!Callers : N!Between(d) /\ d # c => caller[d].overlap
  BY <1>2 DEF SmartInv, AloneInv
<1>10. AloneInv'
  BY <1>8, <1>9 DEF AloneInv
<1>11. ToldInv'
  <2> SUFFICES ASSUME NEW j \in BOOLEAN
               PROVE  \/ told'[j] = N!None \/ told'[j] = stored'[j]
                      \/ \E d \in N!Callers : caller'[d].at = "start" /\ N!Key(caller'[d].alert) = j
    BY DEF ToldInv
  <2>1. CASE j = k
    <3>1. ~caller[c].overlap => stored[k] = s
      BY <1>1, <1>2 DEF SmartInv, AloneInv
    <3> QED BY <1>1, <1>6, <2>1, <3>1
  <2>2. CASE j # k
    BY <1>1, <1>5, <1>6, <2>2 DEF SmartInv, ToldInv
  <2> QED BY <2>1, <2>2
<1>12. N!SilenceIsEarned'
  <2>1. ~again'
    <3>1. ~(told[k] = s /\ ~caller[c].force /\ ~caller[c].overlap)
      BY <1>2 DEF SmartInv, AloneInv
    <3>2. ~again
      BY DEF SmartInv, N!SilenceIsEarned
    <3> QED BY <1>1, <3>1, <3>2
  <2>2. ASSUME NEW j \in BOOLEAN, stored'[j] # N!None, stored'[j] \notin begun'
        PROVE  \E d \in N!Callers : caller'[d].at = "start" /\ caller'[d].alert = stored'[j]
    <3>1. stored[j] # N!None /\ stored[j] \notin begun /\ stored[j] # s /\ stored' = stored
      BY <1>1, <2>2
    <3>2. PICK d \in N!Callers : caller[d].at = "start" /\ caller[d].alert = stored[j]
      BY <3>1 DEF SmartInv, N!SilenceIsEarned
    <3>3. d # c
      BY <3>1, <3>2
    <3> QED BY <1>5, <3>1, <3>2, <3>3
  <2> QED BY <2>1, <2>2 DEF N!SilenceIsEarned
<1> QED BY <1>7, <1>10, <1>11, <1>12 DEF SmartInv

(* A process ends; cut off after the store, its notice counts as begun.     *)
LEMMA EndKeeps == ASSUME SmartInv, NEW c \in N!Callers, N!Ends(c) PROVE SmartInv'
<1>1. /\ caller' = [caller EXCEPT ![c] = N!Idle] /\ waiting' = [waiting EXCEPT ![c] = {}]
      /\ open' = IF c = "daemon" THEN {} ELSE open
      /\ begun' = begun \cup N!Cut(c)
      /\ told' = [k \in BOOLEAN |-> IF \E s \in N!Cut(c) : N!Key(s) = k THEN N!None ELSE told[k]]
      /\ UNCHANGED <<plugged, stored, again>>
  BY DEF N!Ends
<1>2. N!Idle \in CallerSet /\ N!Idle.at = "idle" /\ ~N!Idle.force
  BY DEF CallerSet, N!Idle
<1>3. /\ caller'[c] = N!Idle /\ \A d \in N!Callers : d # c => caller'[d] = caller[d]
      /\ caller' \in [N!Callers -> CallerSet]
  BY <1>1, <1>2 DEF SmartInv, SmartTypes
<1>4. N!Cut(c) \subseteq N!Signatures
  BY DEF N!Cut, SmartInv, SmartTypes
<1>5. \A j \in BOOLEAN : told'[j] = told[j] \/ told'[j] = N!None
  BY <1>1
<1>6. SmartTypes'
  <2>1. told' \in [BOOLEAN -> N!Signatures \cup {N!None}]
    BY <1>1 DEF SmartInv, SmartTypes
  <2>2. /\ waiting' \in [N!Callers -> SUBSET N!Signatures] /\ begun' \subseteq N!Signatures
        /\ open' \subseteq N!Signatures
    BY <1>1, <1>4 DEF SmartInv, SmartTypes
  <2>3. \A d \in N!Callers : caller'[d].at \in {"compare", "store", "start"} =>
          caller'[d].alert \in N!Signatures
    BY <1>2, <1>3 DEF SmartInv, SmartTypes
  <2>4. caller'["daemon"].at # "exit" /\ ~caller'["daemon"].force
    BY <1>2, <1>3 DEF SmartInv, SmartTypes, N!Callers
  <2> QED BY <1>1, <1>3, <2>1, <2>2, <2>3, <2>4 DEF SmartInv, SmartTypes
<1>7. ASSUME NEW d \in N!Callers, N!Between(d)' PROVE d # c /\ N!Between(d) /\ caller'[d] = caller[d]
  BY <1>2, <1>3, <1>7 DEF N!Between
<1>8. AloneInv'
  <2> SUFFICES ASSUME NEW d \in N!Callers, N!Between(d)', ~caller'[d].overlap
               PROVE  /\ \A e \in N!Callers : N!Between(e)' => e = d
                      /\ caller'[d].at = "start" => stored'[N!Key(caller'[d].alert)] = caller'[d].alert
                      /\ ~caller'[d].force => told'[N!Key(caller'[d].alert)] # caller'[d].alert
    BY DEF AloneInv
  <2>1. /\ d # c /\ N!Between(d) /\ caller'[d] = caller[d] /\ ~caller[d].overlap
    BY <1>7
  <2>2. /\ \A e \in N!Callers : N!Between(e) => e = d
        /\ caller[d].at = "start" => stored[N!Key(caller[d].alert)] = caller[d].alert
        /\ ~caller[d].force => told[N!Key(caller[d].alert)] # caller[d].alert
    BY <2>1 DEF SmartInv, AloneInv
  <2>3. caller[d].alert \in N!Signatures
    BY <2>1 DEF SmartInv, SmartTypes, N!Between
  <2>4. N!Key(caller[d].alert) \in BOOLEAN /\ caller[d].alert # N!None
    BY <2>3, SignatureFacts
  <2> QED BY <1>1, <1>5, <1>7, <2>1, <2>2, <2>4
<1>9. ToldInv'
  <2> SUFFICES ASSUME NEW j \in BOOLEAN, told'[j] # N!None, told'[j] # stored'[j]
               PROVE  \E d \in N!Callers : caller'[d].at = "start" /\ N!Key(caller'[d].alert) = j
    BY DEF ToldInv
  <2>1. told'[j] = told[j] /\ stored' = stored /\ ~\E s \in N!Cut(c) : N!Key(s) = j
    BY <1>1
  <2>2. PICK d \in N!Callers : caller[d].at = "start" /\ N!Key(caller[d].alert) = j
    BY <2>1 DEF SmartInv, ToldInv
  <2>3. d # c
    BY <2>1, <2>2 DEF N!Cut
  <2> QED BY <1>3, <2>2, <2>3
<1>10. N!SilenceIsEarned'
  <2>1. ~again'
    BY <1>1 DEF SmartInv, N!SilenceIsEarned
  <2>2. ASSUME NEW j \in BOOLEAN, stored'[j] # N!None, stored'[j] \notin begun'
        PROVE  \E d \in N!Callers : caller'[d].at = "start" /\ caller'[d].alert = stored'[j]
    <3>1. stored[j] # N!None /\ stored[j] \notin begun /\ stored[j] \notin N!Cut(c) /\ stored' = stored
      BY <1>1, <2>2
    <3>2. PICK d \in N!Callers : caller[d].at = "start" /\ caller[d].alert = stored[j]
      BY <3>1 DEF SmartInv, N!SilenceIsEarned
    <3>3. d # c
      BY <3>1, <3>2 DEF N!Cut
    <3> QED BY <1>3, <3>1, <3>2, <3>3
  <2> QED BY <2>1, <2>2 DEF N!SilenceIsEarned
<1> QED BY <1>6, <1>8, <1>9, <1>10 DEF SmartInv

(* Every step keeps the account of SMART notices.                           *)
LEMMA NextSmart == ASSUME SmartInv, [N!Next]_(N!vars) PROVE SmartInv'
<1>1. CASE UNCHANGED N!vars
  BY <1>1 DEF N!vars, SmartInv, SmartTypes, AloneInv, ToldInv, N!SilenceIsEarned, N!Between
<1>2. CASE N!PlugOrUnplug \/ N!Answer
  BY <1>2, OutsideKeeps
<1>3. ASSUME NEW c \in N!Callers,
             N!Enrich(c) \/ N!Compare(c) \/ N!Store(c) \/ N!Start(c) \/ N!Show(c) \/ N!Ends(c)
      PROVE  SmartInv'
  BY <1>3, EnrichKeeps, CompareKeeps, StoreKeeps, StartKeeps, OutsideKeeps, EndKeeps
<1> QED BY <1>1, <1>2, <1>3 DEF N!Next

-----------------------------------------------------------------------------
(* Free space that drifts, however slowly and whatever answers are lost, is *)
(* told past the threshold or still owed, and a SMART notice is withheld    *)
(* only for one like it that was begun: for any threshold, any mount points *)
(* of a filesystem and any number of repetitions.                           *)
THEOREM NoticesTold == AllSpec => []NoticesAreTold
<1>1. AllInit => SpaceInv /\ SmartInv
  BY InitSpace, InitSmart DEF AllInit
<1>2. (SpaceInv /\ SmartInv) /\ [AllNext]_allVars => (SpaceInv /\ SmartInv)'
  <2> SUFFICES ASSUME SpaceInv, SmartInv, [AllNext]_allVars PROVE SpaceInv' /\ SmartInv'
    OBVIOUS
  <2>1. [F!Next]_(F!vars) /\ [N!Next]_(N!vars)
    BY DEF AllNext, allVars, noticeVars, spaceVars, smartVars, F!vars, N!vars
  <2> QED BY <2>1, NextSpace, NextSmart
<1>3. SpaceInv /\ SmartInv => NoticesAreTold
  <2> SUFFICES ASSUME SpaceInv, SmartInv PROVE F!DriftIsTold /\ N!SilenceIsEarned
    BY DEF NoticesAreTold
  <2>1. F!DriftIsTold
    BY DEF SpaceInv, F!DriftIsTold
  <2> QED BY <2>1 DEF SmartInv
<1> QED BY <1>1, <1>2, <1>3, PTL DEF AllSpec

-----------------------------------------------------------------------------
(* The capture of a session.                                               *)

HeldSet == [cmd : Lines \cup {0}, plain : BOOLEAN, late : BOOLEAN, shown : Nat]
CapSet  == [consent : BOOLEAN, paused : BOOLEAN, guard : BOOLEAN,
            phase : {"startup", "prompt", "pending", "command"}, allowed : BOOLEAN, waits : BOOLEAN,
            pending : Seq(HeldSet), full : BOOLEAN, recorded : SUBSET S!Kept]

SessionTypes ==
  /\ excluded \subseteq Lines /\ unasked \subseteq Lines \cup {0} /\ epoch \in Nat /\ failed \in BOOLEAN
  /\ shell \in [at : {"hello", "prompt", "before", "run", "after"}, cmd : Lines \cup {0},
                alone : BOOLEAN, out : Nat]
  /\ tty \in Seq(S!Chunk) /\ meta \in Seq(S!Events) /\ ack \in Seq({"R", "F"})
  /\ cap \in CapSet /\ Len(cap.pending) <= MaxPending

(* The events that the relay has not read, up to the one with which the     *)
(* hook gave up, if it did: none, one, or one and another.                  *)
Stops(s, alone)       == IF alone THEN s # <<>> /\ s[1].name = "F" ELSE s = <<>>
Ahead(s, alone, e)    == s # <<>> /\ s[1] = e /\ Stops(Tail(s), alone)
Both(s, alone, e, f)  == s # <<>> /\ s[1] = e /\ Ahead(Tail(s), alone, f)
Event(name, m)        == [name |-> name, cmd |-> m]

(* The relay is in command m, or at the prompt after it, and so are the     *)
(* events it has not read.                                                  *)
Follows(m) ==
  \/ /\ cap.phase = "prompt"
     /\ Stops(meta, shell.alone) \/ Ahead(meta, shell.alone, Event("B", m + 1))
  \/ /\ cap.phase = "pending"
     /\ \/ Stops(meta, shell.alone) \/ Ahead(meta, shell.alone, Event("A", m))
        \/ Both(meta, shell.alone, Event("A", m), Event("E", m))
        \/ Both(meta, shell.alone, Event("A", m), Event("B", m + 1))
     /\ cap.waits => m \notin excluded
  \/ /\ cap.phase = "command"
     /\ \/ Stops(meta, shell.alone) \/ Ahead(meta, shell.alone, Event("E", m))
        \/ Ahead(meta, shell.alone, Event("B", m + 1))
     /\ cap.allowed => m \notin excluded
     /\ cap.pending = <<>>

(* As long as the hook has not given up, shell and relay are in step.       *)
InStep(m) ==
  \/ shell.at = "hello" /\ m = 0 /\ shell.cmd = 0 /\ cap.phase = "prompt" /\ meta = <<>> /\ ack = <<"R">>
  \/ shell.at = "prompt" /\ shell.cmd = m /\ cap.phase = "prompt" /\ meta = <<>> /\ ack = <<>>
  \/ /\ shell.at = "before" /\ shell.cmd = m + 1 /\ ack = <<>>
     /\ \/ cap.phase \in {"prompt", "command"} /\ Ahead(meta, FALSE, Event("B", m + 1))
        \/ cap.phase = "pending" /\ Both(meta, FALSE, Event("A", m), Event("B", m + 1))
  \/ shell.at = "before" /\ shell.cmd = m /\ cap.phase = "pending" /\ meta = <<>> /\ ack = <<"R">>
  \/ /\ shell.at = "run" /\ shell.cmd = m /\ ack = <<>>
     /\ \/ cap.phase = "pending" /\ Ahead(meta, FALSE, Event("A", m))
        \/ cap.phase = "command" /\ meta = <<>>
  \/ /\ shell.at = "after" /\ shell.cmd = m /\ ack = <<>>
     /\ \/ cap.phase = "pending" /\ Both(meta, FALSE, Event("A", m), Event("E", m))
        \/ cap.phase = "command" /\ Ahead(meta, FALSE, Event("E", m))
  \/ shell.at = "after" /\ shell.cmd = m /\ cap.phase = "prompt" /\ meta = <<>> /\ ack = <<"R">>

(* What the relay has not read, or holds back, is of the command it is in   *)
(* or comes to, unless it was shown beside none, or left behind at a        *)
(* boundary, or the hook had given up.                                      *)
Other(p) == p.cmd = 0 \/ p.late \/ p.cmd \in unasked
Owner(m) == IF cap.phase = "prompt" THEN m + 1 ELSE m
Known(m) ==
  /\ \A i \in DOMAIN tty : tty[i].cmd = Owner(m) \/ Other(tty[i])
  /\ \A i \in DOMAIN cap.pending : cap.pending[i].cmd = Owner(m) \/ Other(cap.pending[i])

(* The relay waits for the hook, follows it, or has let it go.              *)
Greeting ==
  /\ cap.phase = "startup" /\ ~cap.guard /\ Ahead(meta, shell.alone, Event("H", 0))
  /\ \A i \in DOMAIN Tail(meta) : Tail(meta)[i].name # "H"
  /\ cap.pending = <<>> /\ \A i \in DOMAIN tty : Other(tty[i])
  /\ ~shell.alone => shell.at = "hello" /\ shell.cmd = 0 /\ ack = <<>>
  /\ shell.alone => \A c \in Lines : c > 0 => c \in unasked
Following ==
  /\ cap.guard /\ \A i \in DOMAIN meta : meta[i].name # "H"
  /\ \E m \in Lines \cup {0} : Follows(m) /\ Known(m) /\ (~shell.alone => InStep(m))
Released == ~cap.guard /\ shell.alone /\ \A i \in DOMAIN meta : meta[i].name # "H"

RelayInv ==
  /\ ~failed => (Greeting \/ Following \/ Released) /\ \A i \in DOMAIN ack : ack[i] = "R"
  /\ shell.alone => /\ shell.at \in {"prompt", "run", "after"}
                    /\ \A c \in Lines : c > shell.cmd => c \in unasked
                    /\ shell.at = "run" => shell.cmd \in unasked
  /\ \A i \in DOMAIN cap.pending : cap.pending[i].shown = epoch

SessionInv == SessionTypes /\ RelayInv /\ S!OnlyApprovedIsRecorded /\ S!WithdrawalForgets

-----------------------------------------------------------------------------
(* What is drained, piece by piece.                                          *)

(* A family of subsets of a finite set has a member without a smaller one: *)
(* the form of induction over finite sets used below.                      *)
LEMMA SmallestSubset ==
  ASSUME NEW X, IsFiniteSet(X), NEW B \in SUBSET (SUBSET X), B # {}
  PROVE  \E T \in B : \A V \in B : V \subseteq T => V = T
<1>1. IsWellFoundedOn(StrictSubsetOrdering(X), SUBSET X)
  BY FS_StrictSubsetOrderingWellFounded, FS_FiniteSubsetsOfFinite
<1>2. PICK T \in B : \A V \in B : ~(<<V, T>> \in StrictSubsetOrdering(X))
  BY <1>1, WFMin
<1>3. ASSUME NEW V \in B, V \subseteq T, V # T PROVE FALSE
  <2>1. <<V, T>> \in (SUBSET X) \X (SUBSET X)
    OBVIOUS
  <2> QED BY <1>2, <1>3, <2>1 DEF StrictSubsetOrdering
<1> QED BY <1>3

(* A set of positions that is not empty has a last one.                     *)
LEMMA LastPosition ==
  ASSUME NEW n \in Nat, NEW T \in SUBSET (1..n), T # {}
  PROVE  S!Max(T) \in T /\ T \ {S!Max(T)} # T
<1> DEFINE B == {n - x : x \in T}
<1>1. B \in SUBSET Nat /\ B # {}
  <2>1. \A x \in T : x \in 1..n
    OBVIOUS
  <2>2. \A x \in 1..n : n - x \in Nat
    OBVIOUS
  <2> QED BY <2>1, <2>2
<1>2. PICK b \in B : \A c \in B : b <= c
  <2> HIDE DEF B
  <2> QED BY <1>1, LeastNumber
<1>3. PICK x \in T : b = n - x
  OBVIOUS
<1>4. ASSUME NEW y \in T PROVE x >= y
  <2>1. n - x <= n - y
    BY <1>2, <1>3
  <2>2. x \in Nat /\ y \in Nat
    OBVIOUS
  <2> QED BY <2>1, <2>2
<1>5. S!Max(T) \in T
  BY <1>4 DEF S!Max
<1> QED BY <1>5

(* What is read at a boundary is what comes first, and the rest is late.      *)
LEMMA BatchFacts ==
  ASSUME tty \in Seq(S!Chunk)
  PROVE  /\ S!Batch \in Seq(S!Chunk)
         /\ \A i \in DOMAIN S!Batch : i \in DOMAIN tty /\ S!Batch[i] = tty[i]
         /\ S!Unread \in Seq(S!Chunk)
         /\ \A i \in DOMAIN S!Unread : S!Unread[i].late
<1>0. DrainReads \in Nat \ {0} /\ Len(tty) \in Nat /\ DOMAIN tty = 1..Len(tty)
  BY SessionAssumption
<1>1. CASE S!Overflow
  <2>1. DrainReads <= Len(tty)
    BY <1>0, <1>1 DEF S!Overflow
  <2>2. S!Batch = SubSeq(tty, 1, DrainReads)
    BY <1>1 DEF S!Batch
  <2>3. /\ S!Batch \in Seq(S!Chunk) /\ Len(S!Batch) = DrainReads
        /\ \A i \in 1..DrainReads : S!Batch[i] = tty[i]
    BY <1>0, <2>1, <2>2
  <2>4. DOMAIN S!Batch = 1..DrainReads /\ 1..DrainReads \subseteq 1..Len(tty)
    BY <1>0, <2>1, <2>3
  <2>5. /\ S!Batch \in Seq(S!Chunk)
        /\ \A i \in DOMAIN S!Batch : i \in DOMAIN tty /\ S!Batch[i] = tty[i]
    BY <1>0, <2>3, <2>4
  <2> DEFINE n == Len(tty) - DrainReads
  <2>6. n \in Nat /\ \A i \in 1..n : i + DrainReads \in 1..Len(tty)
    BY <1>0, <2>1
  <2>7. \A i \in 1..n : [tty[i + DrainReads] EXCEPT !.late = TRUE] \in S!Chunk
                         /\ [tty[i + DrainReads] EXCEPT !.late = TRUE].late
    <3>1. \A i \in 1..n : tty[i + DrainReads] \in S!Chunk
      BY <1>0, <2>6
    <3>2. \A c \in S!Chunk : [c EXCEPT !.late = TRUE] \in S!Chunk /\ [c EXCEPT !.late = TRUE].late
      BY DEF S!Chunk
    <3> QED BY <3>1, <3>2
  <2>8. S!Unread = [i \in 1..n |-> [tty[i + DrainReads] EXCEPT !.late = TRUE]]
    BY DEF S!Unread
  <2>9. S!Unread \in Seq(S!Chunk) /\ \A i \in DOMAIN S!Unread : S!Unread[i].late
    <3> DEFINE LateOf(i) == [tty[i + DrainReads] EXCEPT !.late = TRUE]
    <3>1. S!Unread = [i \in 1..n |-> LateOf(i)] /\ \A i \in 1..n : LateOf(i) \in S!Chunk /\ LateOf(i).late
      BY <2>7, <2>8
    <3> HIDE DEF LateOf, n
    <3>2. S!Unread \in [1..n -> S!Chunk] /\ \A i \in 1..n : S!Unread[i].late
      BY <3>1
    <3>3. S!Unread \in Seq(S!Chunk) /\ DOMAIN S!Unread = 1..n
      BY <2>6, <3>2
    <3> QED BY <3>2, <3>3
  <2> QED BY <2>5, <2>9
<1>2. CASE ~S!Overflow
  <2>1. S!Batch = tty
    BY <1>2 DEF S!Batch
  <2>2. 1..(Len(tty) - DrainReads) = {}
    BY <1>0, <1>2 DEF S!Overflow
  <2>3. DOMAIN S!Unread = {} /\ S!Unread = <<>>
    BY <2>2 DEF S!Unread
  <2> QED BY <2>1, <2>3
<1> QED BY <1>1, <1>2

(* What the capture is after the pieces at the positions T.                 *)
DrainOf(T) == S!MapThenFoldSet(LAMBDA x, y : S!Output(y, S!Shown(x)), cap,
                               LAMBDA i : S!Batch[i], LAMBDA s : S!Max(s), T)
Next1(f, s) == S!Output(f[s \ {S!Max(s)}], S!Shown(S!Batch[S!Max(s)]))

(* The fold's own definition.                                               *)
LEMMA DrainUnfolds ==
  ASSUME NEW T
  PROVE  DrainOf(T) = (CHOOSE it : it = [s \in SUBSET T |->
                          IF s = {} THEN cap ELSE Next1(it, s)])[T]
BY DEF DrainOf, S!MapThenFoldSet, Next1

(* What is recorded or held after a piece: that of the piece at the last     *)
(* position comes last.                                                      *)
LEMMA DrainStep ==
  ASSUME S!Batch \in Seq(S!Chunk), NEW Z \in SUBSET (DOMAIN S!Batch)
  PROVE  DrainOf(Z) = IF Z = {} THEN cap
                      ELSE S!Output(DrainOf(Z \ {S!Max(Z)}), S!Shown(S!Batch[S!Max(Z)]))
<1> DEFINE Rec(s) == IF s = {} THEN cap
                     ELSE S!Output(DrainOf(s \ {S!Max(s)}), S!Shown(S!Batch[S!Max(s)]))
           B == {T \in SUBSET (DOMAIN S!Batch) : DrainOf(T) # Rec(T)}
<1> SUFFICES ASSUME DrainOf(Z) # Rec(Z) PROVE FALSE
  OBVIOUS
<1>0. /\ IsFiniteSet(DOMAIN S!Batch)
      /\ \A s \in SUBSET (DOMAIN S!Batch) : s # {} => S!Max(s) \in s /\ s \ {S!Max(s)} # s
  <2>1. DOMAIN S!Batch = 1..Len(S!Batch) /\ Len(S!Batch) \in Nat
    OBVIOUS
  <2>2. IsFiniteSet(1..Len(S!Batch))
    BY <2>1, FS_Interval
  <2> QED BY <2>1, <2>2, LastPosition
<1>1. B \in SUBSET (SUBSET (DOMAIN S!Batch)) /\ Z \in B
  OBVIOUS
<1>2. PICK T \in B : \A V \in B : V \subseteq T => V = T
  <2> HIDE DEF B
  <2> QED BY <1>0, <1>1, SmallestSubset
<1> DEFINE G == [s \in SUBSET T |-> Rec(s)]
           Is(it) == it = [s \in SUBSET T |-> IF s = {} THEN cap ELSE Next1(it, s)]
<1>3. ASSUME NEW V \in SUBSET T, V # T PROVE DrainOf(V) = Rec(V)
  BY <1>2, <1>3
<1>4. ASSUME NEW s \in SUBSET T, s # {} PROVE G[s \ {S!Max(s)}] = DrainOf(s \ {S!Max(s)})
  <2>1. s \ {S!Max(s)} \in SUBSET T /\ s \ {S!Max(s)} # T
    BY <1>0, <1>4
  <2>2. DrainOf(s \ {S!Max(s)}) = Rec(s \ {S!Max(s)})
    BY <1>3, <2>1
  <2> HIDE DEF Rec
  <2> QED BY <2>1, <2>2
<1>5. Is(G)
  <2>1. \A s \in SUBSET T : G[s] = IF s = {} THEN cap ELSE Next1(G, s)
    BY <1>4 DEF Next1
  <2>2. G = [s \in SUBSET T |-> G[s]]
    OBVIOUS
  <2> HIDE DEF G
  <2> QED BY <2>1, <2>2
<1> DEFINE it == CHOOSE f : Is(f)
<1>6. Is(it) /\ DrainOf(T) = it[T]
  <2>1. DrainOf(T) = it[T]
    BY DrainUnfolds
  <2>2. Is(it)
    <3> HIDE DEF G, Is
    <3> QED BY <1>5
  <2> QED BY <2>1, <2>2
<1> HIDE DEF it, G
<1>7. \A s \in SUBSET T : it[s] = G[s]
  <2> DEFINE E == {s \in SUBSET T : it[s] # G[s]}
  <2> SUFFICES ASSUME E # {} PROVE FALSE
    OBVIOUS
  <2>1. E \in SUBSET (SUBSET T) /\ IsFiniteSet(T)
    <3>1. T \in SUBSET (DOMAIN S!Batch)
      OBVIOUS
    <3> QED BY <1>0, <3>1, FS_Subset
  <2>2. PICK s \in E : \A u \in E : u \subseteq s => u = s
    <3> HIDE DEF E
    <3> QED BY <2>1, SmallestSubset
  <2>3. s # {} => Next1(it, s) = Next1(G, s)
    <3>1. s # {} => s \ {S!Max(s)} \notin E
      BY <1>0, <2>2
    <3>2. s \ {S!Max(s)} \in SUBSET T
      OBVIOUS
    <3> QED BY <3>1, <3>2 DEF Next1
  <2>4. /\ it[s] = IF s = {} THEN cap ELSE Next1(it, s)
        /\ G[s] = IF s = {} THEN cap ELSE Next1(G, s)
    BY <1>5, <1>6
  <2> QED BY <2>3, <2>4
<1>8. G[T] = Rec(T)
  BY DEF G
<1> QED BY <1>6, <1>7, <1>8

(* What every piece keeps, the drain keeps.                                  *)
LEMMA DrainKeeps ==
  ASSUME S!Batch \in Seq(S!Chunk), NEW C, cap \in C,
         \A d \in C : \A i \in DOMAIN S!Batch : S!Output(d, S!Shown(S!Batch[i])) \in C
  PROVE  S!Taken(cap) \in C
<1>1. S!Taken(cap) = DrainOf(DOMAIN S!Batch)
  BY DEF S!Taken, S!FoldLeft, DrainOf
<1> DEFINE B == {T \in SUBSET (DOMAIN S!Batch) : DrainOf(T) \notin C}
<1> SUFFICES ASSUME DrainOf(DOMAIN S!Batch) \notin C PROVE FALSE
  BY <1>1
<1>2. DOMAIN S!Batch = 1..Len(S!Batch) /\ Len(S!Batch) \in Nat
  OBVIOUS
<1>3. B \in SUBSET (SUBSET (DOMAIN S!Batch)) /\ DOMAIN S!Batch \in B /\ IsFiniteSet(DOMAIN S!Batch)
  BY <1>2, FS_Interval
<1>4. PICK T \in B : \A V \in B : V \subseteq T => V = T
  <2> HIDE DEF B
  <2> QED BY <1>3, SmallestSubset
<1>5. T \in SUBSET (DOMAIN S!Batch) /\ DrainOf(T) \notin C
  OBVIOUS
<1>6. T # {}
  BY <1>5, DrainStep
<1>7. S!Max(T) \in T /\ T \ {S!Max(T)} # T
  BY <1>2, <1>5, <1>6, LastPosition
<1>8. DrainOf(T \ {S!Max(T)}) \in C
  BY <1>4, <1>5, <1>7
<1> HIDE DEF B
<1> QED BY <1>5, <1>6, <1>7, <1>8, DrainStep

-----------------------------------------------------------------------------
(* Events are appended at the end and read from the front.                   *)

(* What is appended comes last, and is first only where nothing was.         *)
LEMMA AppendedLast ==
  ASSUME NEW s \in Seq(S!Events), NEW e \in S!Events
  PROVE  /\ Append(s, e) \in Seq(S!Events) /\ Append(s, e) # <<>>
         /\ s = <<>> => Append(s, e)[1] = e /\ Tail(Append(s, e)) = <<>>
         /\ s # <<>> => Append(s, e)[1] = s[1] /\ Tail(Append(s, e)) = Append(Tail(s), e)
         /\ s # <<>> => Tail(s) \in Seq(S!Events) /\ s[1] \in S!Events /\ Head(s) = s[1]
<1>1. Append(s, e) \in Seq(S!Events) /\ Append(s, e) # <<>> /\ Len(Append(s, e)) = Len(s) + 1
  <2>1. Append(s, e) \in Seq(S!Events) /\ Len(Append(s, e)) = Len(s) + 1 /\ Len(s) \in Nat
    OBVIOUS
  <2>2. Len(<<>>) = 0
    OBVIOUS
  <2> QED BY <2>1, <2>2
<1>2. ASSUME s = <<>> PROVE Append(s, e)[1] = e /\ Tail(Append(s, e)) = <<>>
  <2>1. Append(<<>>, e) = <<e>>
    OBVIOUS
  <2> QED BY <1>2, <2>1
<1>3. ASSUME s # <<>>
      PROVE  Append(s, e)[1] = s[1] /\ Tail(Append(s, e)) = Append(Tail(s), e)
  <2>1. Len(s) \in Nat /\ Len(s) # 0
    BY <1>3, EmptySeq
  <2>2. Append(s, e)[1] = s[1]
    BY <2>1
  <2>3. Tail(s) \in Seq(S!Events) /\ Len(Tail(s)) = Len(s) - 1
    BY <1>3
  <2>4. Tail(Append(s, e)) = Append(Tail(s), e)
    <3>1. /\ Tail(Append(s, e)) \in Seq(S!Events) /\ Append(Tail(s), e) \in Seq(S!Events)
          /\ Len(Tail(Append(s, e))) = Len(s) /\ Len(Append(Tail(s), e)) = Len(s)
      BY <1>1, <2>1, <2>3
    <3>2. ASSUME NEW i \in 1..Len(s) PROVE Tail(Append(s, e))[i] = Append(Tail(s), e)[i]
      <4>1. Tail(Append(s, e))[i] = Append(s, e)[i + 1]
        BY <1>1
      <4>2. CASE i = Len(s)
        BY <2>1, <2>3, <4>1, <4>2
      <4>3. CASE i # Len(s)
        <5>1. i \in 1..(Len(s) - 1) /\ i + 1 \in 1..Len(s)
          BY <2>1, <4>3
        <5>2. Append(s, e)[i + 1] = s[i + 1]
          BY <5>1
        <5>3. Tail(s)[i] = s[i + 1] /\ Append(Tail(s), e)[i] = Tail(s)[i]
          BY <1>3, <2>3, <5>1
        <5> QED BY <4>1, <5>2, <5>3
      <4> QED BY <4>2, <4>3
    <3> QED BY <2>1, <3>1, <3>2, SeqEqual
  <2> QED BY <2>2, <2>4
<1>4. s # <<>> => Tail(s) \in Seq(S!Events) /\ s[1] \in S!Events /\ Head(s) = s[1]
  OBVIOUS
<1> QED BY <1>1, <1>2, <1>3, <1>4

(* An event of a shell that is alone changes nothing up to where it stopped. *)
LEMMA AloneAppends ==
  ASSUME NEW s \in Seq(S!Events), NEW x \in S!Events, NEW e, NEW f
  PROVE  /\ Stops(s, TRUE) => Stops(Append(s, x), TRUE)
         /\ Ahead(s, TRUE, e) => Ahead(Append(s, x), TRUE, e)
         /\ Both(s, TRUE, e, f) => Both(Append(s, x), TRUE, e, f)
<1>1. \A q \in Seq(S!Events) : Stops(q, TRUE) => Stops(Append(q, x), TRUE)
  BY AppendedLast DEF Stops
<1>2. \A q \in Seq(S!Events) : \A g : Ahead(q, TRUE, g) => Ahead(Append(q, x), TRUE, g)
  BY <1>1, AppendedLast DEF Ahead
<1>3. ASSUME Both(s, TRUE, e, f) PROVE Both(Append(s, x), TRUE, e, f)
  <2>1. s # <<>> /\ s[1] = e /\ Ahead(Tail(s), TRUE, f)
    BY <1>3 DEF Both
  <2>2. /\ Tail(s) \in Seq(S!Events) /\ Append(s, x) # <<>> /\ Append(s, x)[1] = s[1]
        /\ Tail(Append(s, x)) = Append(Tail(s), x)
    BY <2>1, AppendedLast
  <2>3. Ahead(Append(Tail(s), x), TRUE, f)
    BY <1>2, <2>1, <2>2
  <2> QED BY <2>1, <2>2, <2>3 DEF Both
<1> QED BY <1>1, <1>2, <1>3

(* An event of a shell that is not alone is the last to be read.             *)
LEMMA NextAppends ==
  ASSUME NEW s \in Seq(S!Events), NEW x \in S!Events, NEW e
  PROVE  /\ Stops(s, FALSE) => Ahead(Append(s, x), FALSE, x)
         /\ Ahead(s, FALSE, e) => Both(Append(s, x), FALSE, e, x)
<1>1. \A q \in Seq(S!Events) : Stops(q, FALSE) => Ahead(Append(q, x), FALSE, x)
  BY AppendedLast DEF Stops, Ahead
<1>2. ASSUME Ahead(s, FALSE, e) PROVE Both(Append(s, x), FALSE, e, x)
  <2>1. s # <<>> /\ s[1] = e /\ Stops(Tail(s), FALSE)
    BY <1>2 DEF Ahead
  <2>2. /\ Tail(s) \in Seq(S!Events) /\ Append(s, x) # <<>> /\ Append(s, x)[1] = s[1]
        /\ Tail(Append(s, x)) = Append(Tail(s), x)
    BY <2>1, AppendedLast
  <2>3. Ahead(Append(Tail(s), x), FALSE, x)
    BY <1>1, <2>1, <2>2
  <2> QED BY <2>1, <2>2, <2>3 DEF Both
<1> QED BY <1>1, <1>2

(* The hook gives up, for the first time or again.                           *)
LEMMA LastAppends ==
  ASSUME NEW s \in Seq(S!Events), NEW x \in S!Events, x.name = "F", NEW e, NEW f,
         NEW alone \in BOOLEAN
  PROVE  /\ Stops(s, alone) => Stops(Append(s, x), TRUE)
         /\ Ahead(s, alone, e) => Ahead(Append(s, x), TRUE, e)
         /\ Both(s, alone, e, f) => Both(Append(s, x), TRUE, e, f)
<1>1. \A q \in Seq(S!Events) : Stops(q, alone) => Stops(Append(q, x), TRUE)
  BY AppendedLast DEF Stops
<1>2. \A q \in Seq(S!Events) : \A g : Ahead(q, alone, g) => Ahead(Append(q, x), TRUE, g)
  BY <1>1, AppendedLast DEF Ahead
<1>3. ASSUME Both(s, alone, e, f) PROVE Both(Append(s, x), TRUE, e, f)
  <2>1. s # <<>> /\ s[1] = e /\ Ahead(Tail(s), alone, f)
    BY <1>3 DEF Both
  <2>2. /\ Tail(s) \in Seq(S!Events) /\ Append(s, x) # <<>> /\ Append(s, x)[1] = s[1]
        /\ Tail(Append(s, x)) = Append(Tail(s), x)
    BY <2>1, AppendedLast
  <2>3. Ahead(Append(Tail(s), x), TRUE, f)
    BY <1>2, <2>1, <2>2
  <2> QED BY <2>1, <2>2, <2>3 DEF Both
<1> QED BY <1>1, <1>2, <1>3

(* No second greeting comes.                                                 *)
NoHello(s) == \A i \in DOMAIN s : s[i].name # "H"

(* One that is appended is none.                                             *)
LEMMA HelloIsFirst ==
  ASSUME NEW s \in Seq(S!Events), NEW x \in S!Events, x.name # "H"
  PROVE  /\ NoHello(s) => NoHello(Append(s, x))
         /\ s # <<>> /\ NoHello(Tail(s)) => NoHello(Tail(Append(s, x)))
<1>1. \A q \in Seq(S!Events) : NoHello(q) => NoHello(Append(q, x))
  <2> SUFFICES ASSUME NEW q \in Seq(S!Events), NoHello(q), NEW i \in DOMAIN Append(q, x)
               PROVE  Append(q, x)[i].name # "H"
    BY DEF NoHello
  <2>1. i \in 1..(Len(q) + 1) /\ Len(q) \in Nat
    OBVIOUS
  <2>2. CASE i = Len(q) + 1
    BY <2>1, <2>2
  <2>3. CASE i \in 1..Len(q)
    BY <2>1, <2>3 DEF NoHello
  <2> QED BY <2>1, <2>2, <2>3
<1>2. s # <<>> /\ NoHello(Tail(s)) => NoHello(Tail(Append(s, x)))
  BY <1>1, AppendedLast
<1> QED BY <1>1, <1>2

(* Reading on brings none.                                                   *)
LEMMA TailNoHello ==
  ASSUME NEW s \in Seq(S!Events), s # <<>>, NoHello(s)
  PROVE  NoHello(Tail(s))
<1> SUFFICES ASSUME NEW i \in DOMAIN Tail(s) PROVE Tail(s)[i].name # "H"
  BY DEF NoHello
<1>1. Tail(s) \in Seq(S!Events) /\ Len(Tail(s)) = Len(s) - 1 /\ Len(s) \in Nat
  OBVIOUS
<1>2. i \in 1..(Len(s) - 1) /\ Tail(s)[i] = s[i + 1]
  BY <1>1
<1>3. i + 1 \in DOMAIN s
  BY <1>1, <1>2
<1> QED BY <1>2, <1>3 DEF NoHello

(* What is read is the event that was ahead.                                 *)
LEMMA ReadsAhead ==
  ASSUME NEW s \in Seq(S!Events), s # <<>>, NEW alone \in BOOLEAN, NEW e, NEW f
  PROVE  /\ Head(s) \in S!Events /\ Tail(s) \in Seq(S!Events)
         /\ Stops(s, alone) => alone /\ Head(s).name = "F"
         /\ Ahead(s, alone, e) => Head(s) = e /\ Stops(Tail(s), alone)
         /\ Both(s, alone, e, f) => Head(s) = e /\ Ahead(Tail(s), alone, f)
<1>1. Head(s) = s[1] /\ Head(s) \in S!Events /\ Tail(s) \in Seq(S!Events)
  OBVIOUS
<1> QED BY <1>1 DEF Stops, Ahead, Both

-----------------------------------------------------------------------------
(* What is shown, held and recorded.                                         *)

(* The end of the handling of an event: what is held is dropped.             *)
LEMMA EmptiedFacts ==
  ASSUME NEW c \in CapSet
  PROVE  LET d == S!Emptied(c)
         IN /\ d \in CapSet /\ d.pending = <<>> /\ Len(d.pending) <= MaxPending
            /\ d.consent = c.consent /\ d.paused = c.paused /\ d.guard = c.guard
            /\ d.phase = c.phase /\ d.allowed = c.allowed /\ d.waits = c.waits
            /\ d.recorded = c.recorded
<1> DEFINE d == [c EXCEPT !.pending = <<>>, !.full = FALSE]
<1>1. <<>> \in Seq(HeldSet) /\ Len(<<>>) = 0 /\ MaxPending \in Nat
  BY SessionAssumption
<1>2. d \in CapSet /\ d.pending = <<>>
  BY <1>1 DEF CapSet
<1>3. /\ d.consent = c.consent /\ d.paused = c.paused /\ d.guard = c.guard
      /\ d.phase = c.phase /\ d.allowed = c.allowed /\ d.waits = c.waits
      /\ d.recorded = c.recorded
  BY DEF CapSet
<1>4. S!Emptied(c) = d
  BY DEF S!Emptied
<1> HIDE DEF d
<1> QED BY <1>1, <1>2, <1>3, <1>4

(* Nothing more of this command is taken in.                                 *)
LEMMA BlockedFacts ==
  ASSUME NEW c \in CapSet
  PROVE  LET d == S!Blocked(c)
         IN /\ d \in CapSet /\ d.guard = c.guard /\ d.phase = c.phase /\ d.pending = <<>>
            /\ ~d.allowed /\ ~d.waits /\ Len(d.pending) <= MaxPending /\ d.recorded = c.recorded
<1> DEFINE e == [c EXCEPT !.allowed = FALSE, !.waits = FALSE]
<1>1. /\ e \in CapSet /\ e.guard = c.guard /\ e.phase = c.phase /\ e.recorded = c.recorded
      /\ ~e.allowed /\ ~e.waits
  BY DEF CapSet
<1>2. S!Blocked(c) = S!Emptied(e)
  BY DEF S!Blocked
<1> HIDE DEF e
<1> QED BY <1>1, <1>2, EmptiedFacts

(* A piece of what the terminal shows.                                       *)
LEMMA OutputFacts ==
  ASSUME NEW c \in CapSet, NEW p \in HeldSet, epoch \in Nat, failed \in BOOLEAN,
         Len(c.pending) <= MaxPending
  PROVE  LET d == S!Output(c, p)
         IN /\ d \in CapSet /\ Len(d.pending) <= MaxPending
            /\ failed \/ ~c.guard => d = c
            /\ d.guard = c.guard /\ d.phase = c.phase /\ (d.waits => c.waits)
            /\ d.allowed => c.allowed
            /\ \/ d.pending \in {c.pending, <<>>}
               \/ c.phase = "prompt" /\ d.pending = Append(c.pending, p)
            /\ \/ d.recorded = c.recorded
               \/ /\ c.phase = "command" /\ c.allowed
                  /\ d.recorded = c.recorded \cup
                       {[cmd |-> p.cmd, late |-> p.late, shown |-> p.shown, kept |-> epoch]}
<1> DEFINE d == S!Output(c, p)
<1> DEFINE Sound(e) ==
        /\ e \in CapSet /\ Len(e.pending) <= MaxPending
        /\ failed \/ ~c.guard => e = c
        /\ e.guard = c.guard /\ e.phase = c.phase /\ (e.waits => c.waits)
        /\ e.allowed => c.allowed
        /\ \/ e.pending \in {c.pending, <<>>}
           \/ c.phase = "prompt" /\ e.pending = Append(c.pending, p)
        /\ \/ e.recorded = c.recorded
           \/ /\ c.phase = "command" /\ c.allowed
              /\ e.recorded = c.recorded \cup
                   {[cmd |-> p.cmd, late |-> p.late, shown |-> p.shown, kept |-> epoch]}
<1> SUFFICES Sound(d)
  OBVIOUS
<1>0. MaxPending \in Nat /\ c.pending \in Seq(HeldSet) /\ Len(<<>>) = 0
  BY SessionAssumption DEF CapSet
<1>1. CASE d = c
  BY <1>1
<1>2. CASE /\ ~failed /\ c.guard /\ c.phase = "prompt" /\ Len(c.pending) < MaxPending
           /\ d = [c EXCEPT !.pending = Append(@, p)]
  <2>1. Append(c.pending, p) \in Seq(HeldSet) /\ Len(Append(c.pending, p)) <= MaxPending
    BY <1>0, <1>2
  <2>2. Sound([c EXCEPT !.pending = Append(@, p)])
    BY <1>2, <2>1 DEF CapSet
  <2> HIDE DEF d
  <2> QED BY <1>2, <2>2
<1>3. CASE /\ ~failed /\ c.guard /\ c.phase = "prompt"
           /\ d = [c EXCEPT !.pending = <<>>, !.full = TRUE]
  <2>1. <<>> \in Seq(HeldSet)
    OBVIOUS
  <2>2. Sound([c EXCEPT !.pending = <<>>, !.full = TRUE])
    <3> DEFINE e == [c EXCEPT !.pending = <<>>, !.full = TRUE]
    <3>1. e \in CapSet
      BY <2>1 DEF CapSet
    <3>2. /\ e.pending = <<>> /\ e.guard = c.guard /\ e.phase = c.phase /\ (e.waits => c.waits)
          /\ e.recorded = c.recorded /\ (e.allowed => c.allowed)
      BY DEF CapSet
    <3>3. Len(e.pending) <= MaxPending
      BY <1>0, <3>2
    <3>4. Sound(e)
      <4> HIDE DEF e
      <4> QED BY <1>3, <3>1, <3>2, <3>3
    <3> HIDE DEF Sound
    <3> QED BY <3>4
  <2> HIDE DEF d
  <2> QED BY <1>3, <2>2
<1>4. CASE /\ ~failed /\ c.guard /\ c.phase = "command" /\ c.allowed /\ d = S!Blocked(c)
  <2>1. <<>> \in Seq(HeldSet)
    OBVIOUS
  <2>2. S!Blocked(c) = [c EXCEPT !.allowed = FALSE, !.waits = FALSE, !.pending = <<>>, !.full = FALSE]
    BY DEF S!Blocked, S!Emptied, CapSet
  <2>3. Sound([c EXCEPT !.allowed = FALSE, !.waits = FALSE, !.pending = <<>>, !.full = FALSE])
    <3> DEFINE e == [c EXCEPT !.allowed = FALSE, !.waits = FALSE, !.pending = <<>>, !.full = FALSE]
    <3>1. e \in CapSet
      BY <2>1 DEF CapSet
    <3>2. /\ e.pending = <<>> /\ e.guard = c.guard /\ e.phase = c.phase /\ (e.waits => c.waits)
          /\ e.recorded = c.recorded /\ (e.allowed => c.allowed)
      BY DEF CapSet
    <3>3. Len(e.pending) <= MaxPending
      BY <1>0, <3>2
    <3>4. Sound(e)
      <4> HIDE DEF e
      <4> QED BY <1>4, <3>1, <3>2, <3>3
    <3> HIDE DEF Sound
    <3> QED BY <3>4
  <2> HIDE DEF d, Sound
  <2> QED BY <1>4, <2>2, <2>3
<1>5. CASE /\ ~failed /\ c.guard /\ c.phase = "command" /\ c.allowed /\ d = S!Record(c, <<p>>)
  <2>1. d = c \/ d = [c EXCEPT !.recorded = @ \cup
                        {[cmd |-> p.cmd, late |-> p.late, shown |-> p.shown, kept |-> epoch]}]
    <3>1. {[cmd |-> <<p>>[i].cmd, late |-> <<p>>[i].late, shown |-> <<p>>[i].shown, kept |-> epoch] : i \in DOMAIN <<p>>}
            = {[cmd |-> p.cmd, late |-> p.late, shown |-> p.shown, kept |-> epoch]}
      OBVIOUS
    <3> QED BY <1>5, <3>1 DEF S!Record
  <2>2. [cmd |-> p.cmd, late |-> p.late, shown |-> p.shown, kept |-> epoch] \in S!Kept
    BY DEF HeldSet, S!Kept
  <2>3. Sound([c EXCEPT !.recorded = @ \cup
                        {[cmd |-> p.cmd, late |-> p.late, shown |-> p.shown, kept |-> epoch]}])
    BY <1>5, <2>2 DEF CapSet
  <2> HIDE DEF d, Sound
  <2> QED BY <1>1, <2>1, <2>3
<1>6. \/ d = c
      \/ /\ ~failed /\ c.guard /\ c.phase = "prompt" /\ Len(c.pending) < MaxPending
         /\ d = [c EXCEPT !.pending = Append(@, p)]
      \/ /\ ~failed /\ c.guard /\ c.phase = "prompt"
         /\ d = [c EXCEPT !.pending = <<>>, !.full = TRUE]
      \/ /\ ~failed /\ c.guard /\ c.phase = "command" /\ c.allowed /\ d = S!Blocked(c)
      \/ /\ ~failed /\ c.guard /\ c.phase = "command" /\ c.allowed /\ d = S!Record(c, <<p>>)
  BY DEF S!Output, S!Hold
<1> HIDE DEF d, Sound
<1>7. QED BY <1>1, <1>2, <1>3, <1>4, <1>5, <1>6

(* What is held and recorded while what the terminal showed is read: of the  *)
(* command the relay is in or comes to, or of one that was never asked for.  *)
Fine(d, m) ==
  /\ d \in CapSet /\ Len(d.pending) <= MaxPending
  /\ d.guard = cap.guard /\ d.phase = cap.phase /\ (d.waits => cap.waits)
  /\ d.allowed => cap.allowed
  /\ cap.phase # "prompt" /\ cap.pending = <<>> => d.pending = <<>>
  /\ \A i \in DOMAIN d.pending :
       /\ d.pending[i].shown = epoch
       /\ d.pending[i].cmd = Owner(m) \/ Other(d.pending[i])
  /\ \A r \in d.recorded : r.shown = r.kept /\ (r.cmd \in excluded => r.late \/ r.cmd \in unasked)
Approves(m) == cap.phase = "command" /\ cap.allowed => m \notin excluded

(* A piece of the terminal is a piece that may be held.                      *)
LEMMA ShownFacts ==
  ASSUME SessionTypes, NEW i \in DOMAIN tty
  PROVE  LET p == S!Shown(tty[i])
         IN p \in HeldSet /\ p.shown = epoch /\ p.cmd = tty[i].cmd /\ p.late = tty[i].late
<1>1. tty[i] \in S!Chunk /\ epoch \in Nat
  BY DEF SessionTypes
<1> QED BY <1>1 DEF S!Chunk, S!Shown, HeldSet

(* A piece that is read keeps it so.                                         *)
LEMMA PieceKeeps ==
  ASSUME SessionTypes, NEW m, Known(m), Approves(m), NEW d, Fine(d, m), NEW i \in DOMAIN tty
  PROVE  Fine(S!Output(d, S!Shown(tty[i])), m)
<1> DEFINE p == S!Shown(tty[i])
           e == S!Output(d, p)
<1>0. p \in HeldSet /\ p.shown = epoch /\ (p.cmd = Owner(m) \/ Other(p))
  BY ShownFacts DEF Known, Other
<1>1. /\ epoch \in Nat /\ failed \in BOOLEAN
      /\ d \in CapSet /\ Len(d.pending) <= MaxPending /\ d.pending \in Seq(HeldSet)
  BY DEF SessionTypes, Fine, CapSet
<1> HIDE DEF p
<1>2. /\ e \in CapSet /\ Len(e.pending) <= MaxPending
      /\ e.guard = d.guard /\ e.phase = d.phase /\ (e.waits => d.waits)
      /\ e.allowed => d.allowed
      /\ \/ e.pending \in {d.pending, <<>>}
         \/ d.phase = "prompt" /\ e.pending = Append(d.pending, p)
      /\ \/ e.recorded = d.recorded
         \/ /\ d.phase = "command" /\ d.allowed
            /\ e.recorded = d.recorded \cup
                 {[cmd |-> p.cmd, late |-> p.late, shown |-> p.shown, kept |-> epoch]}
  BY <1>0, <1>1, OutputFacts
<1> HIDE DEF e
<1>3. ASSUME NEW j \in DOMAIN e.pending
      PROVE  /\ e.pending[j].shown = epoch
             /\ e.pending[j].cmd = Owner(m) \/ Other(e.pending[j])
  <2>1. CASE e.pending = d.pending
    BY <1>3, <2>1 DEF Fine
  <2>2. CASE e.pending = <<>>
    BY <1>3, <2>2
  <2>3. CASE e.pending = Append(d.pending, p)
    <3>1. j \in 1..(Len(d.pending) + 1) /\ Len(d.pending) \in Nat
      BY <1>1, <1>3, <2>3
    <3>2. CASE j = Len(d.pending) + 1
      <4>1. e.pending[j] = p
        BY <1>1, <2>3, <3>2
      <4> QED BY <1>0, <4>1
    <3>3. CASE j \in 1..Len(d.pending)
      <4>1. e.pending[j] = d.pending[j] /\ j \in DOMAIN d.pending
        BY <1>1, <2>3, <3>3
      <4> QED BY <4>1 DEF Fine
    <3> QED BY <3>1, <3>2, <3>3
  <2> QED BY <1>2, <2>1, <2>2, <2>3
<1>4. ASSUME NEW r \in e.recorded
      PROVE  r.shown = r.kept /\ (r.cmd \in excluded => r.late \/ r.cmd \in unasked)
  <2>1. CASE r \in d.recorded
    BY <2>1 DEF Fine
  <2>2. CASE r \notin d.recorded
    <3>1. /\ d.phase = "command" /\ d.allowed
          /\ r = [cmd |-> p.cmd, late |-> p.late, shown |-> p.shown, kept |-> epoch]
      BY <1>2, <1>4, <2>2
    <3>2. m \notin excluded /\ Owner(m) = m
      BY <3>1 DEF Fine, Approves, Owner
    <3>3. 0 \notin excluded
      BY SessionAssumption DEF SessionTypes
    <3> QED BY <1>0, <3>1, <3>2, <3>3 DEF Other
  <2> QED BY <2>1, <2>2
<1>5. cap.phase # "prompt" /\ cap.pending = <<>> => e.pending = <<>>
  BY <1>2 DEF Fine
<1>6. Fine(e, m)
  BY <1>2, <1>3, <1>4, <1>5 DEF Fine
<1> QED BY <1>6 DEF e, p

(* What is held and recorded now is so.                                      *)
LEMMA NowFine ==
  ASSUME SessionInv, NEW m, Known(m)
  PROVE  Fine(cap, m)
BY DEF SessionInv, SessionTypes, RelayInv, Known, Fine, S!OnlyApprovedIsRecorded, S!WithdrawalForgets

(* Draining keeps it so.                                                     *)
LEMMA DrainFine ==
  ASSUME SessionInv, NEW m, Known(m), Approves(m)
  PROVE  Fine(S!Drained(cap), m)
<1> DEFINE C == {d \in CapSet : Fine(d, m)}
<1>1. cap \in C /\ tty \in Seq(S!Chunk) /\ SessionTypes
  BY NowFine DEF SessionInv, SessionTypes
<1>2. \A d \in C : \A i \in DOMAIN S!Batch : S!Output(d, S!Shown(S!Batch[i])) \in C
  <2> SUFFICES ASSUME NEW d \in C, NEW i \in DOMAIN S!Batch
               PROVE  S!Output(d, S!Shown(S!Batch[i])) \in C
    OBVIOUS
  <2>1. i \in DOMAIN tty /\ S!Batch[i] = tty[i]
    BY <1>1, BatchFacts
  <2>2. Fine(S!Output(d, S!Shown(tty[i])), m)
    BY <1>1, <2>1, PieceKeeps
  <2> QED BY <2>1, <2>2 DEF Fine
<1>3. S!Taken(cap) \in C
  <2> HIDE DEF C
  <2> QED BY <1>1, <1>2, BatchFacts, DrainKeeps
<1> DEFINE d == S!Taken(cap)
           e == S!Drained(cap)
<1>4. Fine(d, m) /\ d \in CapSet
  BY <1>3
<1>5. e = d \/ e = S!Blocked(d)
  BY DEF S!Drained
<1> HIDE DEF d, e
<1>6. ASSUME e = S!Blocked(d) PROVE Fine(e, m)
  <2>1. /\ e \in CapSet /\ e.guard = d.guard /\ e.phase = d.phase /\ e.pending = <<>>
        /\ ~e.allowed /\ ~e.waits /\ Len(e.pending) <= MaxPending /\ e.recorded = d.recorded
    BY <1>4, <1>6, BlockedFacts
  <2>2. \A i \in DOMAIN e.pending : FALSE
    BY <2>1
  <2>3. /\ d.guard = cap.guard /\ d.phase = cap.phase
        /\ \A r \in d.recorded :
             r.shown = r.kept /\ (r.cmd \in excluded => r.late \/ r.cmd \in unasked)
    BY <1>4 DEF Fine
  <2> QED BY <2>1, <2>2, <2>3 DEF Fine
<1>7. Fine(e, m)
  BY <1>4, <1>5, <1>6
<1> QED BY <1>7 DEF e

(* A relay that failed or let the hook go records nothing that it reads.     *)
LEMMA DrainIdle ==
  ASSUME SessionTypes, failed \/ ~cap.guard
  PROVE  LET d == S!Drained(cap)
         IN /\ d \in CapSet /\ d.guard = cap.guard /\ d.pending \in {cap.pending, <<>>}
            /\ Len(d.pending) <= MaxPending /\ d.recorded = cap.recorded
<1> DEFINE C == {cap}
<1>1. /\ cap \in CapSet /\ epoch \in Nat /\ failed \in BOOLEAN /\ Len(cap.pending) <= MaxPending
      /\ tty \in Seq(S!Chunk)
  BY DEF SessionTypes
<1>2. \A d \in C : \A i \in DOMAIN S!Batch : S!Output(d, S!Shown(S!Batch[i])) \in C
  <2> SUFFICES ASSUME NEW i \in DOMAIN S!Batch
               PROVE  S!Output(cap, S!Shown(S!Batch[i])) = cap
    OBVIOUS
  <2>1. i \in DOMAIN tty /\ S!Batch[i] = tty[i]
    BY <1>1, BatchFacts
  <2>2. S!Shown(S!Batch[i]) \in HeldSet
    BY <2>1, ShownFacts
  <2> QED BY <1>1, <2>2, OutputFacts
<1>3. cap \in C
  OBVIOUS
<1>4. S!Taken(cap) \in C
  <2> HIDE DEF C
  <2> QED BY <1>1, <1>2, <1>3, BatchFacts, DrainKeeps
<1>5. S!Drained(cap) = cap \/ S!Drained(cap) = S!Blocked(cap)
  BY <1>4 DEF S!Drained
<1> QED BY <1>1, <1>5, BlockedFacts

-----------------------------------------------------------------------------
(* The shell.                                                                *)

(* What the shell does adds nothing to what is held and recorded.            *)
ShellOnly == UNCHANGED <<excluded, cap, epoch, failed>> /\ unasked \subseteq unasked'

(* So what was recorded still is as it should be.                            *)
LEMMA ShellKeeps ==
  ASSUME SessionInv, ShellOnly
  PROVE  /\ S!OnlyApprovedIsRecorded' /\ S!WithdrawalForgets'
         /\ \A i \in DOMAIN cap'.pending : cap'.pending[i].shown = epoch'
BY DEF SessionInv, ShellOnly, RelayInv, S!OnlyApprovedIsRecorded, S!WithdrawalForgets

(* The terminal shows something.                                             *)
LEMMA ShowsKeeps == ASSUME SessionInv, S!Shows PROVE SessionInv'
<1> DEFINE of == S!Window
<1>1. PICK plain \in BOOLEAN : tty' = Append(tty, [cmd |-> of, plain |-> plain, late |-> FALSE])
  BY DEF S!Shows
<1>2. /\ shell' = [shell EXCEPT !.out = @ + 1]
      /\ UNCHANGED <<excluded, meta, ack, cap, failed, epoch, unasked>>
  BY DEF S!Shows
<1>a. /\ shell.at = "run" => of = shell.cmd
      /\ shell.at = "prompt" => of = shell.cmd + 1 \/ of = 0
      /\ shell.at \notin {"run", "prompt"} => of = 0
      /\ of \in Lines \cup {0}
  BY DEF S!Window, S!Next1, SessionInv, SessionTypes
<1> HIDE DEF of
<1> DEFINE c == [cmd |-> of, plain |-> plain, late |-> FALSE]
<1>3. SessionTypes /\ RelayInv /\ tty \in Seq(S!Chunk) /\ c \in S!Chunk /\ c.cmd = of
  BY <1>2, <1>a DEF SessionInv, SessionTypes, S!Chunk
<1>4. /\ shell'.at = shell.at /\ shell'.cmd = shell.cmd /\ shell'.alone = shell.alone
      /\ shell.cmd \in Nat /\ shell.alone \in BOOLEAN
  BY <1>2, <1>3, SessionAssumption DEF SessionTypes
<1>5. SessionTypes'
  <2>1. tty' \in Seq(S!Chunk)
    BY <1>1, <1>3
  <2>2. shell' \in [at : {"hello", "prompt", "before", "run", "after"}, cmd : Lines \cup {0},
                    alone : BOOLEAN, out : Nat]
    <3> DEFINE Shell == [at : {"hello", "prompt", "before", "run", "after"},
                         cmd : Lines \cup {0}, alone : BOOLEAN, out : Nat]
    <3>1. shell \in Shell
      BY <1>3 DEF SessionTypes
    <3>2. shell.out + 1 \in Nat
      BY <3>1
    <3> QED BY <1>2, <3>1, <3>2
  <2> QED BY <1>2, <1>3, <2>1, <2>2 DEF SessionTypes, S!Chunk, S!Events
<1>6. \A i \in DOMAIN tty' : tty'[i] = c \/ \E j \in DOMAIN tty : tty'[i] = tty[j]
  <2> SUFFICES ASSUME NEW i \in DOMAIN tty'
               PROVE  tty'[i] = c \/ \E j \in DOMAIN tty : tty'[i] = tty[j]
    OBVIOUS
  <2>1. i \in 1..(Len(tty) + 1) /\ Len(tty) \in Nat
    BY <1>1, <1>3
  <2>2. CASE i = Len(tty) + 1
    BY <1>1, <1>3, <2>2
  <2>3. CASE i \in 1..Len(tty)
    BY <1>1, <1>3, <2>3
  <2> QED BY <2>1, <2>2, <2>3
<1>7. shell.alone => Other(c)
  <2>1. shell.alone => /\ \A n \in Lines : n > shell.cmd => n \in unasked
                       /\ shell.at = "run" => shell.cmd \in unasked
    BY <1>3 DEF RelayInv
  <2>2. shell.cmd + 1 > shell.cmd
    BY <1>4
  <2>3. shell.alone => of = 0 \/ of \in unasked
    BY <1>a, <2>1, <2>2
  <2> QED BY <1>3, <2>3 DEF Other
<1> HIDE DEF c
<1>8. ~failed' => (Greeting \/ Following \/ Released)' /\ \A i \in DOMAIN ack' : ack'[i] = "R"
  <2> SUFFICES ASSUME ~failed PROVE (Greeting \/ Following \/ Released)'
    BY <1>2, <1>3 DEF RelayInv
  <2>1. CASE Greeting
    <3>1. Other(c)
      BY <1>3, <1>7, <1>a, <2>1 DEF Greeting, Other
    <3>2. \A i \in DOMAIN tty' : Other(tty'[i])
      BY <1>6, <2>1, <3>1 DEF Greeting, Other
    <3> QED BY <1>2, <1>4, <2>1, <3>2 DEF Greeting, Other
  <2>2. CASE Following
    <3>1. PICK m \in Lines \cup {0} : Follows(m) /\ Known(m) /\ (~shell.alone => InStep(m))
      BY <2>2 DEF Following
    <3>2. ~shell.alone => of = Owner(m) \/ of = 0
      BY <1>a, <3>1 DEF InStep, Owner
    <3>a. c.cmd = Owner(m) \/ Other(c)
      BY <1>3, <1>4, <1>7, <3>2 DEF Other
    <3>3. \A i \in DOMAIN tty' : tty'[i].cmd = Owner(m) \/ Other(tty'[i])
      BY <1>6, <3>1, <3>a DEF Known
    <3>4. Known(m)'
      BY <1>2, <3>1, <3>3 DEF Known, Owner, Other
    <3>5. Follows(m)'
      BY <1>2, <1>4, <3>1 DEF Follows
    <3>6. ~shell'.alone => InStep(m)'
      BY <1>2, <1>4, <3>1 DEF InStep
    <3> QED BY <1>2, <2>2, <3>4, <3>5, <3>6 DEF Following
  <2>3. CASE Released
    BY <1>2, <1>4, <2>3 DEF Released
  <2> QED BY <1>3, <2>1, <2>2, <2>3 DEF RelayInv
<1>9. ShellOnly
  BY <1>2 DEF ShellOnly
<1>10. RelayInv'
  BY <1>2, <1>3, <1>4, <1>8, <1>9, ShellKeeps DEF RelayInv
<1> QED BY <1>5, <1>9, <1>10, ShellKeeps DEF SessionInv

(* A command starts.                                                         *)
LEMMA StartsKeeps == ASSUME SessionInv, S!Starts PROVE SessionInv'
<1>0. /\ SessionTypes /\ RelayInv /\ meta \in Seq(S!Events)
      /\ shell.cmd \in Nat /\ shell.cmd + 1 \in Lines /\ shell.alone \in BOOLEAN
      /\ shell.at \in {"prompt", "run"}
      /\ UNCHANGED <<excluded, tty, ack, cap, failed, epoch, unasked>>
  BY SessionAssumption DEF SessionInv, SessionTypes, S!Starts, S!Next1
<1>1. ShellOnly
  BY <1>0 DEF ShellOnly
<1>2. CASE shell.alone
  <2>1. /\ shell' = [shell EXCEPT !.at = "run", !.cmd = shell.cmd + 1]
        /\ meta' = meta
    BY <1>2 DEF S!Starts
  <2>2. /\ shell' \in [at : {"hello", "prompt", "before", "run", "after"}, cmd : Lines \cup {0},
                       alone : BOOLEAN, out : Nat]
        /\ shell'.at = "run" /\ shell'.cmd = shell.cmd + 1 /\ shell'.alone
    BY <1>0, <1>2, <2>1 DEF SessionTypes
  <2>3. SessionTypes'
    BY <1>0, <2>1, <2>2 DEF SessionTypes, S!Chunk, S!Events
  <2>4. \A c \in Lines : c > shell.cmd => c \in unasked
    BY <1>0, <1>2 DEF RelayInv
  <2>5. /\ \A c \in Lines : c > shell'.cmd => c \in unasked'
        /\ shell'.cmd \in unasked'
    <3>1. \A c \in Lines : c \in Nat
      BY SessionAssumption
    <3> QED BY <1>0, <2>2, <2>4, <3>1
  <2>6. ~failed' => (Greeting \/ Following \/ Released)' /\ \A i \in DOMAIN ack' : ack'[i] = "R"
    <3> SUFFICES ASSUME ~failed PROVE (Greeting \/ Following \/ Released)'
      BY <1>0 DEF RelayInv
    <3>1. CASE Greeting
      BY <1>0, <1>2, <2>1, <2>2, <3>1 DEF Greeting, Other
    <3>2. CASE Following
      <4>1. PICK m \in Lines \cup {0} : Follows(m) /\ Known(m)
        BY <3>2 DEF Following
      <4>2. Follows(m)' /\ Known(m)'
        BY <1>0, <1>2, <2>1, <2>2, <4>1 DEF Follows, Known, Owner, Other
      <4> QED BY <1>0, <2>1, <2>2, <3>2, <4>2 DEF Following
    <3>3. CASE Released
      BY <1>0, <2>1, <2>2, <3>3 DEF Released
    <3> QED BY <1>0, <3>1, <3>2, <3>3 DEF RelayInv
  <2>7. RelayInv'
    BY <1>1, <2>2, <2>5, <2>6, ShellKeeps DEF RelayInv
  <2> QED BY <1>1, <2>3, <2>7, ShellKeeps DEF SessionInv
<1>3. CASE ~shell.alone
  <2> DEFINE e == Event("B", shell.cmd + 1)
  <2>1. /\ shell' = [shell EXCEPT !.at = "before", !.cmd = shell.cmd + 1]
        /\ meta' = Append(meta, e) /\ e \in S!Events /\ e.name # "H"
    BY <1>0, <1>3 DEF S!Starts, Event, S!Events
  <2> HIDE DEF e
  <2>2. /\ shell' \in [at : {"hello", "prompt", "before", "run", "after"}, cmd : Lines \cup {0},
                       alone : BOOLEAN, out : Nat]
        /\ shell'.at = "before" /\ shell'.cmd = shell.cmd + 1 /\ ~shell'.alone
    BY <1>0, <1>3, <2>1 DEF SessionTypes
  <2>3. SessionTypes'
    <3>1. meta' \in Seq(S!Events)
      BY <1>0, <2>1
    <3> QED BY <1>0, <2>2, <3>1 DEF SessionTypes, S!Chunk, S!Events
  <2>4. ~failed' => (Greeting \/ Following \/ Released)' /\ \A i \in DOMAIN ack' : ack'[i] = "R"
    <3> SUFFICES ASSUME ~failed PROVE (Greeting \/ Following \/ Released)'
      BY <1>0 DEF RelayInv
    <3>1. Following
      BY <1>0, <1>3 DEF RelayInv, Greeting, Released
    <3>2. PICK m \in Lines \cup {0} : Follows(m) /\ Known(m) /\ InStep(m)
      BY <1>3, <3>1 DEF Following
    <3>3. m = shell.cmd /\ ack = <<>>
      BY <1>0, <3>2 DEF InStep
    <3>4. Known(m)'
      BY <1>0, <3>2 DEF Known, Owner, Other
    <3>5. NoHello(meta')
      BY <1>0, <2>1, <3>1, HelloIsFirst DEF Following, NoHello
    <3>6. Follows(m)' /\ InStep(m)'
      <4>1. CASE cap.phase = "prompt" /\ meta = <<>>
        <5>1. Stops(meta, FALSE)
          BY <4>1 DEF Stops
        <5>2. Ahead(meta', FALSE, Event("B", m + 1))
          BY <1>0, <2>1, <3>3, <5>1, NextAppends DEF e
        <5> QED BY <1>0, <2>2, <3>3, <4>1, <5>2 DEF Follows, InStep
      <4>2. CASE cap.phase = "command" /\ meta = <<>>
        <5>1. Stops(meta, FALSE)
          BY <4>2 DEF Stops
        <5>2. Ahead(meta', FALSE, Event("B", m + 1))
          BY <1>0, <2>1, <3>3, <5>1, NextAppends DEF e
        <5> QED BY <1>0, <2>2, <3>2, <3>3, <4>2, <5>2 DEF Follows, InStep
      <4>3. CASE cap.phase = "pending" /\ Ahead(meta, FALSE, Event("A", m))
        <5>1. Both(meta', FALSE, Event("A", m), Event("B", m + 1))
          BY <1>0, <2>1, <3>3, <4>3, NextAppends DEF e
        <5> QED BY <1>0, <2>2, <3>2, <3>3, <4>3, <5>1 DEF Follows, InStep
      <4> QED BY <1>0, <3>2, <4>1, <4>2, <4>3 DEF InStep
    <3> QED BY <1>0, <2>2, <3>1, <3>4, <3>5, <3>6 DEF Following, NoHello
  <2>5. RelayInv'
    BY <1>1, <2>2, <2>4, ShellKeeps DEF RelayInv
  <2> QED BY <1>1, <2>3, <2>5, ShellKeeps DEF SessionInv
<1> QED BY <1>2, <1>3

(* A command ends.                                                           *)
LEMMA EndsKeeps == ASSUME SessionInv, S!Ends PROVE SessionInv'
<1> DEFINE e == Event("E", shell.cmd)
<1>0. /\ SessionTypes /\ RelayInv /\ meta \in Seq(S!Events)
      /\ shell.alone \in BOOLEAN /\ shell.at = "run"
      /\ shell' = [shell EXCEPT !.at = "after"]
      /\ meta' = Append(meta, e) /\ e \in S!Events /\ e.name # "H"
      /\ UNCHANGED <<excluded, tty, ack, cap, failed, epoch, unasked>>
  BY DEF SessionInv, SessionTypes, S!Ends, S!Emit, Event, S!Events
<1> HIDE DEF e
<1>1. ShellOnly
  BY <1>0 DEF ShellOnly
<1>2. /\ shell' \in [at : {"hello", "prompt", "before", "run", "after"}, cmd : Lines \cup {0},
                     alone : BOOLEAN, out : Nat]
      /\ shell'.at = "after" /\ shell'.cmd = shell.cmd /\ shell'.alone = shell.alone
  BY <1>0 DEF SessionTypes
<1>3. SessionTypes'
  <2>1. meta' \in Seq(S!Events)
    BY <1>0
  <2> QED BY <1>0, <1>2, <2>1 DEF SessionTypes, S!Chunk, S!Events
<1>4. ~failed' => (Greeting \/ Following \/ Released)' /\ \A i \in DOMAIN ack' : ack'[i] = "R"
  <2> SUFFICES ASSUME ~failed PROVE (Greeting \/ Following \/ Released)'
    BY <1>0 DEF RelayInv
  <2>1. CASE Greeting
    <3>1. shell.alone = TRUE /\ Ahead(meta, TRUE, Event("H", 0)) /\ NoHello(Tail(meta))
      BY <1>0, <2>1 DEF Greeting, Other, NoHello
    <3>2. Ahead(meta', TRUE, Event("H", 0)) /\ NoHello(Tail(meta'))
      BY <1>0, <3>1, AloneAppends, HelloIsFirst DEF Ahead
    <3> QED BY <1>0, <1>2, <2>1, <3>1, <3>2 DEF Greeting, Other, NoHello
  <2>2. CASE Following
    <3>1. PICK m \in Lines \cup {0} : Follows(m) /\ Known(m) /\ (~shell.alone => InStep(m))
      BY <2>2 DEF Following
    <3>2. Known(m)'
      BY <1>0, <3>1 DEF Known, Owner, Other
    <3>3. NoHello(meta')
      BY <1>0, <2>2, HelloIsFirst DEF Following, NoHello
    <3>4. CASE shell.alone
      <4>1. shell.alone = TRUE
        BY <1>0, <3>4
      <4>2. Follows(m)'
        BY <1>0, <1>2, <3>1, <4>1, AloneAppends DEF Follows
      <4> QED BY <1>0, <1>2, <2>2, <3>2, <3>3, <3>4, <4>2 DEF Following, NoHello
    <3>5. CASE ~shell.alone
      <4>0. shell.alone = FALSE /\ shell.cmd = m /\ ack = <<>> /\ InStep(m)
        BY <1>0, <3>1, <3>5 DEF InStep
      <4>1. CASE cap.phase = "command" /\ meta = <<>>
        <5>1. Stops(meta, FALSE)
          BY <4>1 DEF Stops
        <5>2. Ahead(meta', FALSE, Event("E", m))
          BY <1>0, <4>0, <5>1, NextAppends DEF e
        <5>3. Follows(m)' /\ InStep(m)'
          BY <1>0, <1>2, <3>1, <4>0, <4>1, <5>2 DEF Follows, InStep
        <5> QED BY <1>0, <1>2, <2>2, <3>2, <3>3, <5>3 DEF Following, NoHello
      <4>2. CASE cap.phase = "pending" /\ Ahead(meta, FALSE, Event("A", m))
        <5>1. Both(meta', FALSE, Event("A", m), Event("E", m))
          BY <1>0, <4>0, <4>2, NextAppends DEF e
        <5>2. Follows(m)' /\ InStep(m)'
          BY <1>0, <1>2, <3>1, <4>0, <4>2, <5>1 DEF Follows, InStep
        <5> QED BY <1>0, <1>2, <2>2, <3>2, <3>3, <5>2 DEF Following, NoHello
      <4> QED BY <1>0, <4>0, <4>1, <4>2 DEF InStep
    <3> QED BY <1>0, <3>4, <3>5
  <2>3. CASE Released
    <3>1. NoHello(meta')
      BY <1>0, <2>3, HelloIsFirst DEF Released, NoHello
    <3> QED BY <1>0, <1>2, <2>3, <3>1 DEF Released, NoHello
  <2> QED BY <1>0, <2>1, <2>2, <2>3 DEF RelayInv
<1>5. RelayInv'
  <2>1. shell'.alone => /\ \A c \in Lines : c > shell'.cmd => c \in unasked'
    BY <1>0, <1>2 DEF RelayInv
  <2> QED BY <1>1, <1>2, <1>4, <2>1, ShellKeeps DEF RelayInv
<1> QED BY <1>1, <1>3, <1>5, ShellKeeps DEF SessionInv

(* The hook gives up; from here on nothing is asked for.                     *)
LEMMA GivesUpKeeps ==
  ASSUME SessionInv, S!Asking, S!GivesUp, failed \/ ack = <<>>,
         UNCHANGED <<excluded, tty, cap, failed, epoch>>, ack' \in Seq({"R", "F"}),
         ~failed => ack' = ack
  PROVE  SessionInv'
<1> DEFINE e == Event("F", shell.cmd)
<1>0. /\ SessionTypes /\ RelayInv /\ meta \in Seq(S!Events)
      /\ shell.alone \in BOOLEAN /\ shell.at \in {"hello", "before", "after"}
      /\ shell' = [shell EXCEPT !.at = IF @ = "before" THEN "run" ELSE "prompt", !.alone = @ \/ TRUE]
      /\ unasked' = unasked \cup {c \in Lines : c > shell.cmd}
                    \cup (IF shell.at = "before" THEN {shell.cmd} ELSE {})
      /\ meta' = Append(meta, e) /\ e \in S!Events /\ e.name = "F"
  BY DEF SessionInv, SessionTypes, S!GivesUp, S!Goes, S!Asking, S!Emit, Event, S!Events
<1> HIDE DEF e
<1>1. ShellOnly
  BY <1>0 DEF ShellOnly
<1>2. /\ shell' \in [at : {"hello", "prompt", "before", "run", "after"}, cmd : Lines \cup {0},
                     alone : BOOLEAN, out : Nat]
      /\ shell'.at = (IF shell.at = "before" THEN "run" ELSE "prompt")
      /\ shell'.cmd = shell.cmd /\ shell'.alone = TRUE
  BY <1>0 DEF SessionTypes
<1>3. SessionTypes'
  <2>1. meta' \in Seq(S!Events) /\ unasked' \subseteq Lines \cup {0}
    BY <1>0 DEF SessionTypes
  <2> QED BY <1>0, <1>2, <2>1 DEF SessionTypes, S!Chunk, S!Events
<1>4. /\ \A c \in Lines : c > shell'.cmd => c \in unasked'
      /\ shell'.at = "run" => shell'.cmd \in unasked'
  BY <1>0, <1>2
<1>5. ASSUME ~failed PROVE (Greeting \/ Following \/ Released)'
  <2>0. ack = <<>> /\ ack' = ack
    BY <1>5
  <2>1. CASE Greeting
    <3>1. Ahead(meta, shell.alone, Event("H", 0)) /\ NoHello(Tail(meta)) /\ meta # <<>>
      BY <2>1 DEF Greeting, NoHello, Ahead
    <3>2. Ahead(meta', TRUE, Event("H", 0))
      BY <1>0, <3>1, LastAppends
    <3>3. NoHello(Tail(meta'))
      BY <1>0, <3>1, HelloIsFirst
    <3>4. \A c \in Lines : c > 0 => c \in unasked'
      <4>1. CASE shell.alone
        BY <1>0, <2>1, <4>1 DEF Greeting, Other
      <4>2. CASE ~shell.alone
        BY <1>2, <1>4, <2>1, <4>2 DEF Greeting, Other
      <4> QED BY <4>1, <4>2
    <3>5. ~cap'.guard /\ cap'.phase = "startup" /\ cap'.pending = <<>>
          /\ (\A i \in DOMAIN tty : Other(tty[i]))'
      BY <1>0, <2>1 DEF Greeting, Other
    <3> QED BY <1>2, <3>2, <3>3, <3>4, <3>5 DEF Greeting, Other, NoHello
  <2>2. CASE Following
    <3>1. PICK m \in Lines \cup {0} : Follows(m) /\ Known(m)
      BY <2>2 DEF Following
    <3>2. Known(m)'
      BY <1>0, <3>1 DEF Known, Owner, Other
    <3>3. NoHello(meta')
      BY <1>0, <2>2, HelloIsFirst DEF Following, NoHello
    <3>4. Follows(m)'
      BY <1>0, <1>2, <3>1, LastAppends DEF Follows
    <3> QED BY <1>2, <2>2, <3>2, <3>3, <3>4 DEF Following, NoHello
  <2>3. CASE Released
    <3>1. NoHello(meta')
      BY <1>0, <2>3, HelloIsFirst DEF Released, NoHello
    <3> QED BY <1>2, <2>3, <3>1 DEF Released, NoHello
  <2> QED BY <1>0, <1>5, <2>1, <2>2, <2>3 DEF RelayInv
<1>6. RelayInv'
  <2>1. ~failed' => \A i \in DOMAIN ack' : ack'[i] = "R"
    BY <1>0 DEF RelayInv
  <2> QED BY <1>1, <1>2, <1>4, <1>5, <2>1, ShellKeeps DEF RelayInv
<1> QED BY <1>1, <1>3, <1>6, ShellKeeps DEF SessionInv

(* The answer comes, or is late.                                             *)
LEMMA AnswerKeeps == ASSUME SessionInv, S!Answered \/ S!AnswerLate PROVE SessionInv'
<1>0. /\ SessionTypes /\ RelayInv /\ meta \in Seq(S!Events) /\ ack \in Seq({"R", "F"})
      /\ shell.alone \in BOOLEAN /\ shell.at \in {"hello", "before", "after"} /\ S!Asking
      /\ UNCHANGED <<excluded, tty, cap, failed, epoch>>
  BY DEF SessionInv, SessionTypes, S!Answered, S!AnswerLate, S!Asking
<1>1. CASE S!AnswerLate
  BY <1>0, <1>1, GivesUpKeeps DEF S!AnswerLate
<1>2. ASSUME S!Answered PROVE ack # <<>> /\ ack' = Tail(ack) /\ ack' \in Seq({"R", "F"})
  BY <1>0, <1>2 DEF S!Answered
<1>3. CASE S!Answered /\ Head(ack) = "F"
  <2>1. failed
    BY <1>0, <1>2, <1>3 DEF RelayInv
  <2> QED BY <1>0, <1>2, <1>3, <2>1, GivesUpKeeps DEF S!Answered
<1>4. CASE S!Answered /\ Head(ack) # "F"
  <2>1. /\ ack # <<>> /\ ack' = Tail(ack) /\ ack' \in Seq({"R", "F"}) /\ unasked' = unasked
        /\ shell' = [shell EXCEPT !.at = IF @ = "before" THEN "run" ELSE "prompt",
                                  !.alone = @ \/ FALSE]
        /\ shell.at = "before" => meta' = Append(meta, Event("A", shell.cmd))
        /\ shell.at # "before" => meta' = meta
    BY <1>2, <1>4 DEF S!Answered, S!Goes, S!Emit, Event
  <2>2. /\ shell' \in [at : {"hello", "prompt", "before", "run", "after"}, cmd : Lines \cup {0},
                       alone : BOOLEAN, out : Nat]
        /\ shell'.at = (IF shell.at = "before" THEN "run" ELSE "prompt")
        /\ shell'.cmd = shell.cmd /\ shell'.alone = shell.alone
    BY <1>0, <2>1 DEF SessionTypes
  <2>3. Event("A", shell.cmd) \in S!Events
    BY <1>0 DEF Event, S!Events, SessionTypes
  <2>4. SessionTypes'
    <3>1. meta' \in Seq(S!Events)
      <4>1. CASE shell.at = "before"
        <5>1. meta' = Append(meta, Event("A", shell.cmd))
          BY <2>1, <4>1
        <5> QED BY <1>0, <2>3, <5>1, AppendedLast
      <4>2. CASE shell.at # "before"
        BY <1>0, <2>1, <4>2
      <4> QED BY <4>1, <4>2
    <3> QED BY <1>0, <2>1, <2>2, <3>1 DEF SessionTypes, S!Chunk, S!Events
  <2>5. ShellOnly
    BY <1>0, <2>1 DEF ShellOnly
  <2>6. ASSUME ~failed PROVE (Greeting \/ Following \/ Released)'
    <3>1. CASE shell.alone
      <4>1. meta' = meta
        BY <1>0, <2>1, <3>1 DEF RelayInv
      <4>2. CASE Greeting
        BY <1>0, <2>1, <2>2, <3>1, <4>1, <4>2 DEF Greeting, Other
      <4>3. CASE Following
        <5>1. PICK m \in Lines \cup {0} : Follows(m) /\ Known(m)
          BY <4>3 DEF Following
        <5>2. Follows(m)' /\ Known(m)'
          BY <1>0, <2>1, <2>2, <4>1, <5>1 DEF Follows, Known, Owner, Other
        <5> QED BY <1>0, <2>2, <3>1, <4>1, <4>3, <5>2 DEF Following
      <4>4. CASE Released
        BY <1>0, <2>2, <4>1, <4>4 DEF Released
      <4> QED BY <1>0, <2>6, <4>2, <4>3, <4>4 DEF RelayInv
    <3>2. CASE ~shell.alone
      <4>1. Following
        BY <1>0, <2>1, <2>6, <3>2 DEF RelayInv, Greeting, Released
      <4>2. PICK m \in Lines \cup {0} : Follows(m) /\ Known(m) /\ InStep(m)
        BY <3>2, <4>1 DEF Following
      <4>3. meta = <<>> /\ ack = <<"R">> /\ ack' = <<>> /\ shell.cmd = m
        <5>1. meta = <<>> /\ ack = <<"R">> /\ shell.cmd = m
          BY <1>0, <2>1, <4>2 DEF InStep
        <5>2. Tail(<<"R">>) = <<>>
          OBVIOUS
        <5> QED BY <2>1, <5>1, <5>2
      <4>4. Known(m)'
        BY <1>0, <2>1, <4>2 DEF Known, Owner, Other
      <4>5. CASE shell.at = "before"
        <5>1. cap.phase = "pending" /\ Stops(meta, FALSE)
          BY <4>2, <4>3, <4>5 DEF InStep, Stops, Ahead, Both
        <5>2. Ahead(meta', FALSE, Event("A", m))
          BY <1>0, <2>1, <2>3, <4>3, <4>5, <5>1, NextAppends
        <5>3. NoHello(meta')
          BY <1>0, <2>1, <2>3, <4>1, <4>5, HelloIsFirst DEF Following, NoHello, Event
        <5>4. Follows(m)' /\ InStep(m)'
          BY <1>0, <2>2, <3>2, <4>2, <4>3, <4>5, <5>1, <5>2 DEF Follows, InStep
        <5> QED BY <1>0, <4>1, <4>4, <5>3, <5>4 DEF Following, NoHello
      <4>6. CASE shell.at # "before"
        <5>1. cap.phase = "prompt"
          BY <1>0, <4>2, <4>3, <4>6 DEF InStep, Ahead, Both
        <5>2. Follows(m)' /\ InStep(m)'
          BY <1>0, <2>1, <2>2, <3>2, <4>2, <4>3, <4>6, <5>1 DEF Follows, InStep
        <5> QED BY <1>0, <2>1, <4>1, <4>4, <4>6, <5>2 DEF Following
      <4> QED BY <4>5, <4>6
    <3> QED BY <3>1, <3>2
  <2>7. ~failed => \A i \in DOMAIN ack' : ack'[i] = "R"
    <3> SUFFICES ASSUME ~failed, NEW i \in DOMAIN ack' PROVE ack'[i] = "R"
      OBVIOUS
    <3>1. ack'[i] = ack[i + 1] /\ i + 1 \in DOMAIN ack
      BY <1>0, <2>1
    <3> QED BY <1>0, <3>1 DEF RelayInv
  <2>8. RelayInv'
    <3>1. shell'.alone => /\ shell'.at = "prompt"
                          /\ \A c \in Lines : c > shell'.cmd => c \in unasked'
      BY <1>0, <2>1, <2>2 DEF RelayInv
    <3> QED BY <1>0, <2>5, <2>6, <2>7, <3>1, ShellKeeps DEF RelayInv
  <2> QED BY <2>4, <2>5, <2>8, ShellKeeps DEF SessionInv
<1> QED BY <1>1, <1>3, <1>4

-----------------------------------------------------------------------------
(* The relay.                                                                *)

(* What is left to read stays of the command it was of.                      *)
LEMMA TailFacts ==
  ASSUME NEW X, NEW s \in Seq(X), s # <<>>
  PROVE  /\ Tail(s) \in Seq(X) /\ Head(s) = s[1] /\ 1 \in DOMAIN s
         /\ \A i \in DOMAIN Tail(s) : Tail(s)[i] = s[i + 1] /\ i + 1 \in DOMAIN s
OBVIOUS

(* A piece of the terminal is read.                                          *)
LEMMA ReadTtyKeeps == ASSUME SessionInv, S!ReadTty PROVE SessionInv'
<1>0. /\ SessionTypes /\ RelayInv /\ tty \in Seq(S!Chunk) /\ tty # <<>> /\ tty' = Tail(tty)
      /\ cap' = S!Output(cap, S!Shown(tty[1])) /\ 1 \in DOMAIN tty
      /\ UNCHANGED <<excluded, shell, meta, ack, failed, epoch, unasked>>
  BY TailFacts DEF SessionInv, SessionTypes, S!ReadTty
<1>1. /\ tty' \in Seq(S!Chunk)
      /\ \A i \in DOMAIN tty' : \E j \in DOMAIN tty : tty'[i] = tty[j]
  BY <1>0, TailFacts
<1>2. CASE failed \/ ~cap.guard
  <2>1. cap' = cap
    <3>1. S!Shown(tty[1]) \in HeldSet
      BY <1>0, ShownFacts
    <3> QED BY <1>0, <1>2, <3>1, OutputFacts DEF SessionTypes
  <2>2. SessionTypes'
    BY <1>0, <1>1, <2>1 DEF SessionTypes, S!Chunk, S!Events
  <2>3. ASSUME ~failed PROVE (Greeting \/ Released)'
    <3>1. CASE Greeting
      BY <1>0, <1>1, <2>1, <3>1 DEF Greeting, Other
    <3>2. CASE Released
      BY <1>0, <2>1, <3>2 DEF Released
    <3> QED BY <1>0, <1>2, <2>3, <3>1, <3>2 DEF RelayInv, Following
  <2>4. RelayInv'
    BY <1>0, <2>1, <2>3 DEF RelayInv
  <2> QED BY <1>0, <2>1, <2>2, <2>4 DEF SessionInv, S!OnlyApprovedIsRecorded, S!WithdrawalForgets
<1>3. CASE ~failed /\ cap.guard
  <2>1. Following
    BY <1>0, <1>3 DEF RelayInv, Greeting, Released
  <2>2. PICK m \in Lines \cup {0} : Follows(m) /\ Known(m) /\ (~shell.alone => InStep(m))
    BY <2>1 DEF Following
  <2>3. Approves(m)
    BY <2>2 DEF Follows, Approves
  <2>4. Fine(cap', m)
    BY <1>0, <2>2, <2>3, NowFine, PieceKeeps
  <2>5. SessionTypes'
    BY <1>0, <1>1, <2>4 DEF SessionTypes, Fine, CapSet, HeldSet, S!Chunk, S!Events, S!Kept
  <2>6. Known(m)'
    BY <1>0, <1>1, <2>2, <2>4 DEF Known, Owner, Other, Fine
  <2>7. Follows(m)' /\ (~shell.alone => InStep(m)')
    <3>1. /\ cap'.phase = cap.phase /\ (cap'.waits => cap.waits) /\ (cap'.allowed => cap.allowed)
          /\ cap.phase = "command" /\ cap.pending = <<>> => cap'.pending = <<>>
      BY <2>4 DEF Fine
    <3> QED BY <1>0, <2>2, <3>1 DEF Follows, InStep
  <2>8. Following'
    BY <1>0, <2>1, <2>4, <2>6, <2>7 DEF Following, Fine
  <2>9. RelayInv'
    BY <1>0, <2>4, <2>8 DEF RelayInv, Fine
  <2> QED BY <1>0, <2>4, <2>5, <2>9 DEF SessionInv, Fine, S!OnlyApprovedIsRecorded, S!WithdrawalForgets
<1> QED BY <1>0, <1>2, <1>3 DEF SessionTypes

(* The relay fails to store.                                                 *)
LEMMA FailsKeeps == ASSUME SessionInv, S!StorageFails PROVE SessionInv'
<1> DEFINE c == [cap EXCEPT !.allowed = FALSE, !.guard = FALSE]
<1>0. /\ SessionTypes /\ RelayInv /\ meta # <<>> /\ meta \in Seq(S!Events) /\ meta' = Tail(meta)
      /\ failed' = TRUE /\ cap' = S!Emptied(c) /\ S!Replies(Head(meta), TRUE)
      /\ UNCHANGED <<excluded, shell, tty, epoch, unasked>>
  BY DEF SessionInv, SessionTypes, S!StorageFails
<1>1. c \in CapSet /\ c.recorded = cap.recorded
  BY <1>0 DEF SessionTypes, CapSet
<1> HIDE DEF c
<1>2. cap' \in CapSet /\ cap'.pending = <<>> /\ Len(cap'.pending) <= MaxPending
      /\ cap'.recorded = cap.recorded
  BY <1>0, <1>1, EmptiedFacts
<1>3. ack' \in Seq({"R", "F"}) /\ meta' \in Seq(S!Events)
  <2>1. ack \in Seq({"R", "F"})
    BY <1>0 DEF SessionTypes
  <2>2. ack' = ack \/ ack' = Append(ack, "F")
    BY <1>0 DEF S!Replies
  <2>3. Append(ack, "F") \in Seq({"R", "F"})
    BY <2>1
  <2>4. ack' \in Seq({"R", "F"})
    BY <2>1, <2>2, <2>3
  <2>5. Tail(meta) \in Seq(S!Events)
    BY <1>0, TailFacts
  <2> QED BY <1>0, <2>4, <2>5
<1>4. SessionTypes'
  BY <1>0, <1>2, <1>3 DEF SessionTypes, CapSet, HeldSet, S!Chunk, S!Events, S!Kept
<1>5. RelayInv'
  BY <1>0, <1>2 DEF RelayInv
<1> QED BY <1>0, <1>2, <1>4, <1>5 DEF SessionInv, S!OnlyApprovedIsRecorded, S!WithdrawalForgets

(* The user gives, withdraws or suspends his consent.                        *)
LEMMA ControlKeeps == ASSUME SessionInv, S!Control PROVE SessionInv'
<1>0. /\ SessionTypes /\ RelayInv /\ cap \in CapSet /\ epoch \in Nat
      /\ UNCHANGED <<excluded, shell, tty, meta, ack, failed, unasked>>
  BY DEF SessionInv, SessionTypes, S!Control
<1>1. PICK on \in BOOLEAN, paused \in BOOLEAN :
        cap' = S!Emptied([cap EXCEPT !.consent = on, !.paused = paused])
  <2>1. /\ cap = [cap EXCEPT !.consent = cap.consent] /\ cap.consent \in BOOLEAN
        /\ [cap EXCEPT !.paused = TRUE] = [cap EXCEPT !.consent = cap.consent, !.paused = TRUE]
        /\ [cap EXCEPT !.paused = FALSE] = [cap EXCEPT !.consent = cap.consent, !.paused = FALSE]
    BY <1>0 DEF CapSet
  <2> QED BY <2>1 DEF S!Control, S!Cleared
<1> DEFINE c == [cap EXCEPT !.consent = on, !.paused = paused]
<1>2. /\ c \in CapSet /\ c.recorded = cap.recorded /\ c.guard = cap.guard /\ c.phase = cap.phase
      /\ c.waits = cap.waits /\ c.allowed = cap.allowed
  BY <1>0 DEF CapSet
<1>3. cap' = S!Emptied(c)
  BY <1>1
<1> HIDE DEF c
<1>4. /\ cap' \in CapSet /\ cap'.pending = <<>> /\ Len(cap'.pending) <= MaxPending
      /\ cap'.recorded = cap.recorded /\ cap'.guard = cap.guard /\ cap'.phase = cap.phase
      /\ cap'.waits = cap.waits /\ cap'.allowed = cap.allowed
  BY <1>2, <1>3, EmptiedFacts
<1>5. epoch' \in Nat
  BY <1>0 DEF S!Control
<1>6. SessionTypes'
  BY <1>0, <1>4, <1>5 DEF SessionTypes, CapSet, HeldSet, S!Chunk, S!Events, S!Kept
<1>7. ASSUME ~failed PROVE (Greeting \/ Following \/ Released)'
  <2>1. CASE Greeting
    BY <1>0, <1>4, <2>1 DEF Greeting, Other
  <2>2. CASE Following
    <3>1. PICK m \in Lines \cup {0} : Follows(m) /\ Known(m) /\ (~shell.alone => InStep(m))
      BY <2>2 DEF Following
    <3>2. Follows(m)'
      BY <1>0, <1>4, <3>1 DEF Follows
    <3>3. Known(m)'
      BY <1>0, <1>4, <3>1 DEF Known, Owner, Other
    <3>4. ~shell'.alone => InStep(m)'
      BY <1>0, <1>4, <3>1 DEF InStep
    <3> QED BY <1>0, <1>4, <2>2, <3>2, <3>3, <3>4 DEF Following
  <2>3. CASE Released
    BY <1>0, <1>4, <2>3 DEF Released
  <2> QED BY <1>0, <1>7, <2>1, <2>2, <2>3 DEF RelayInv
<1>8. RelayInv'
  BY <1>0, <1>4, <1>7 DEF RelayInv
<1> QED BY <1>0, <1>4, <1>6, <1>8 DEF SessionInv, S!OnlyApprovedIsRecorded, S!WithdrawalForgets

(* H: the relay lets the hook in.                                            *)
LEMMA HelloFacts ==
  ASSUME NEW c \in CapSet
  PROVE  LET d == [c EXCEPT !.guard = TRUE, !.phase = "prompt", !.waits = FALSE]
         IN /\ d \in CapSet /\ d.guard /\ d.phase = "prompt" /\ d.pending = c.pending
            /\ d.recorded = c.recorded
BY DEF CapSet

(* B: the command is classified, and what is held stays if it may be.        *)
LEMMA BeforeFacts ==
  ASSUME NEW c \in CapSet, NEW n, Len(c.pending) <= MaxPending
  PROVE  LET d == S!Before(c, n)
         IN /\ d \in CapSet /\ d.guard = c.guard /\ d.phase = "pending"
            /\ d.waits => n \notin excluded
            /\ d.pending \in {c.pending, <<>>} /\ Len(d.pending) <= MaxPending
            /\ d.recorded = c.recorded
<1> DEFINE ok == n \notin excluded
           e == [c EXCEPT !.allowed = FALSE, !.phase = "pending", !.waits = ok]
<1>1. ok \in BOOLEAN
  OBVIOUS
<1> HIDE DEF ok
<1>2. /\ e \in CapSet /\ e.guard = c.guard /\ e.phase = "pending" /\ e.waits = ok
      /\ e.pending = c.pending /\ e.recorded = c.recorded
  BY <1>1 DEF CapSet
<1>3. S!Before(c, n) = IF ok THEN e ELSE S!Emptied(e)
  BY DEF S!Before, ok
<1> HIDE DEF e
<1>4. CASE ok
  BY <1>2, <1>3, <1>4 DEF ok
<1>5. CASE ~ok
  <2>1. LET d == S!Emptied(e)
        IN /\ d \in CapSet /\ d.pending = <<>> /\ Len(d.pending) <= MaxPending
           /\ d.guard = e.guard /\ d.phase = e.phase /\ d.waits = e.waits
           /\ d.recorded = e.recorded
    BY <1>2, EmptiedFacts
  <2> QED BY <1>2, <1>3, <1>5, <2>1
<1> QED BY <1>4, <1>5

(* E: back at the prompt, with nothing held.                                 *)
LEMMA AfterFacts ==
  ASSUME NEW c \in CapSet
  PROVE  LET d == S!After(c)
         IN /\ d \in CapSet /\ d.guard = c.guard /\ d.phase = "prompt" /\ d.pending = <<>>
            /\ Len(d.pending) <= MaxPending /\ d.recorded = c.recorded
<1> DEFINE e == [c EXCEPT !.allowed = FALSE, !.phase = "prompt", !.waits = FALSE]
<1>1. /\ e \in CapSet /\ e.guard = c.guard /\ e.phase = "prompt" /\ e.recorded = c.recorded
  BY DEF CapSet
<1>2. S!After(c) = S!Emptied(e)
  BY DEF S!After
<1> HIDE DEF e
<1> QED BY <1>1, <1>2, EmptiedFacts

(* What is held when a command is approved, as it is recorded.               *)
Kept(c) == {[cmd |-> c.pending[i].cmd, late |-> c.pending[i].late,
             shown |-> c.pending[i].shown, kept |-> epoch] : i \in DOMAIN c.pending}

(* A: what is held is recorded, if the command waits for it, or dropped.     *)
LEMMA ApprovedFacts ==
  ASSUME NEW c \in CapSet, epoch \in Nat
  PROVE  LET d == S!Approved(c)
         IN /\ d \in CapSet /\ d.guard = c.guard /\ d.phase = "command" /\ d.pending = <<>>
            /\ Len(d.pending) <= MaxPending /\ (d.allowed => c.waits)
            /\ \/ d.recorded = c.recorded
               \/ c.guard /\ c.waits /\ d.recorded = c.recorded \cup Kept(c)
<1> DEFINE e == [c EXCEPT !.phase = "command", !.allowed = c.waits, !.waits = FALSE]
           f == [e EXCEPT !.recorded = @ \cup Kept(c)]
<1>1. /\ e \in CapSet /\ e.guard = c.guard /\ e.phase = "command" /\ e.recorded = c.recorded
      /\ e.allowed = c.waits /\ e.pending = c.pending
  BY DEF CapSet
<1>2. Kept(c) \subseteq S!Kept
  <2>1. \A i \in DOMAIN c.pending : c.pending[i] \in HeldSet
    BY DEF CapSet
  <2> QED BY <2>1 DEF Kept, S!Kept, HeldSet
<1>3. S!Approved(c) \in {S!Blocked(e), S!Emptied(S!Record(e, e.pending))}
  BY DEF S!Approved
<1> HIDE DEF e
<1>4. S!Record(e, e.pending) \in {e, f} /\ (S!Record(e, e.pending) # e => c.guard /\ c.waits)
  BY <1>1 DEF S!Record, S!Active, Kept
<1>5. /\ f \in CapSet /\ f.guard = e.guard /\ f.phase = e.phase /\ f.allowed = e.allowed
      /\ f.recorded = e.recorded \cup Kept(c)
  BY <1>1, <1>2 DEF CapSet
<1> HIDE DEF f
<1>6. CASE S!Approved(c) = S!Blocked(e)
  BY <1>1, <1>6, BlockedFacts
<1>7. CASE S!Approved(c) = S!Emptied(e)
  BY <1>1, <1>7, EmptiedFacts
<1>8. CASE S!Approved(c) = S!Emptied(f) /\ c.guard /\ c.waits
  BY <1>1, <1>5, <1>8, EmptiedFacts
<1> QED BY <1>3, <1>4, <1>6, <1>7, <1>8

(* An event is read: the parts that do not depend on which.                  *)
ReadsOn(e) ==
  /\ meta # <<>> /\ meta \in Seq(S!Events) /\ meta' = Tail(meta) /\ e = Head(meta)
  /\ e \in S!Events /\ meta' \in Seq(S!Events)
  /\ cap' \in CapSet /\ Len(cap'.pending) <= MaxPending
  /\ tty' \in {tty, S!Unread} /\ S!Replies(e, failed)
  /\ UNCHANGED <<excluded, shell, failed, epoch, unasked>>

(* The relay answers.                                                        *)
LEMMA RepliesFacts ==
  ASSUME SessionTypes, NEW e, ReadsOn(e)
  PROVE  /\ SessionTypes'
         /\ ~failed /\ e.name \in {"H", "B", "E"} => ack' = Append(ack, "R")
         /\ e.name \notin {"H", "B", "E"} => ack' = ack
<1>1. ack \in Seq({"R", "F"}) /\ tty \in Seq(S!Chunk)
  BY DEF SessionTypes
<1>2. \/ ack' = ack /\ e.name \notin {"H", "B", "E"}
      \/ ack' = Append(ack, "R") /\ ~failed /\ e.name \in {"H", "B", "E"}
      \/ ack' = Append(ack, "F") /\ failed /\ e.name \in {"H", "B", "E"}
  BY DEF ReadsOn, S!Replies
<1>3. ack' \in Seq({"R", "F"})
  <2>1. Append(ack, "R") \in Seq({"R", "F"}) /\ Append(ack, "F") \in Seq({"R", "F"})
    BY <1>1
  <2> QED BY <1>1, <1>2, <2>1
<1>4. tty' \in Seq(S!Chunk)
  <2>1. S!Unread \in Seq(S!Chunk)
    BY <1>1, BatchFacts
  <2> QED BY <1>1, <2>1 DEF ReadsOn
<1>5. SessionTypes'
  BY <1>3, <1>4 DEF SessionTypes, ReadsOn, CapSet, HeldSet, S!Chunk, S!Events, S!Kept
<1> QED BY <1>2, <1>5

(* What is left to show after an event: that relay and shell are in step.    *)
LEMMA ReadsKeep ==
  ASSUME SessionInv, NEW e, ReadsOn(e),
         ~failed => (Greeting \/ Following \/ Released)',
         \A i \in DOMAIN cap'.pending : cap'.pending[i].shown = epoch,
         \A r \in cap'.recorded : r.shown = r.kept /\ (r.cmd \in excluded => r.late \/ r.cmd \in unasked)
  PROVE  SessionInv'
<1>1. SessionTypes /\ RelayInv /\ ack \in Seq({"R", "F"})
  BY DEF SessionInv, SessionTypes
<1>2. ~failed => \A i \in DOMAIN ack' : ack'[i] = "R"
  <2> SUFFICES ASSUME ~failed, NEW i \in DOMAIN ack' PROVE ack'[i] = "R"
    OBVIOUS
  <2>1. ack' = ack \/ ack' = Append(ack, "R")
    BY <1>1, RepliesFacts
  <2>2. \A j \in DOMAIN ack : ack[j] = "R"
    BY <1>1 DEF RelayInv
  <2>3. CASE ack' = Append(ack, "R")
    <3>1. i \in 1..(Len(ack) + 1) /\ Len(ack) \in Nat
      BY <1>1, <2>3
    <3>2. CASE i = Len(ack) + 1
      BY <1>1, <2>3, <3>2
    <3>3. CASE i \in 1..Len(ack)
      BY <1>1, <2>2, <2>3, <3>3
    <3> QED BY <3>1, <3>2, <3>3
  <2> QED BY <2>1, <2>2, <2>3
<1>3. RelayInv'
  BY <1>1, <1>2 DEF RelayInv, ReadsOn
<1> QED BY <1>1, <1>3, RepliesFacts DEF SessionInv, ReadsOn, S!OnlyApprovedIsRecorded, S!WithdrawalForgets

(* The greeting is read.                                                     *)
LEMMA HelloKeeps ==
  ASSUME SessionInv, S!ReadMeta, ~failed, Greeting
  PROVE  SessionInv'
<1> DEFINE d == [cap EXCEPT !.guard = TRUE, !.phase = "prompt", !.waits = FALSE]
<1>0. /\ SessionTypes /\ RelayInv /\ meta \in Seq(S!Events) /\ meta # <<>> /\ cap \in CapSet
      /\ Len(cap.pending) <= MaxPending /\ shell.alone \in BOOLEAN
  BY DEF SessionInv, SessionTypes, S!ReadMeta
<1>1. Head(meta) = Event("H", 0) /\ Stops(Tail(meta), shell.alone) /\ NoHello(Tail(meta))
  BY <1>0, ReadsAhead DEF Greeting, Other, NoHello
<1>2. /\ cap' = d /\ tty' = tty /\ meta' = Tail(meta) /\ S!Replies(Event("H", 0), failed)
      /\ UNCHANGED <<excluded, shell, failed, epoch, unasked>>
  <2>1. Head(meta).name = "H"
    BY <1>1 DEF Event
  <2>2. S!Handled(cap, Head(meta)) = d
    BY <2>1 DEF S!Handled
  <2>3. ~S!Boundary(Head(meta))
    BY <2>1 DEF S!Boundary
  <2> HIDE DEF d
  <2> QED BY <1>1, <2>2, <2>3 DEF S!ReadMeta
<1>3. /\ d \in CapSet /\ d.guard /\ d.phase = "prompt" /\ d.pending = cap.pending
      /\ d.recorded = cap.recorded
  BY <1>0, HelloFacts
<1> HIDE DEF d
<1>4. ReadsOn(Event("H", 0))
  BY <1>0, <1>1, <1>2, <1>3, ReadsAhead DEF ReadsOn
<1>5. ack' = Append(ack, "R")
  BY <1>0, <1>4, RepliesFacts DEF Event
<1>6. Follows(0)' /\ Known(0)'
  BY <1>1, <1>2, <1>3 DEF Greeting, Follows, Known, Other
<1>7. ~shell'.alone => InStep(0)'
  <2> SUFFICES ASSUME ~shell.alone PROVE InStep(0)'
    BY <1>2
  <2>1. shell.at = "hello" /\ shell.cmd = 0 /\ ack = <<>> /\ Tail(meta) = <<>>
    BY <1>1 DEF Greeting, Stops
  <2>2. Append(<<>>, "R") = <<"R">>
    OBVIOUS
  <2> QED BY <1>2, <1>3, <1>5, <2>1, <2>2 DEF InStep
<1>8. Following'
  BY <1>1, <1>2, <1>3, <1>6, <1>7 DEF Following, NoHello
<1> QED BY <1>0, <1>2, <1>3, <1>4, <1>8, ReadsKeep DEF SessionInv, Greeting,
           S!OnlyApprovedIsRecorded, S!WithdrawalForgets

(* A relay that failed, or that let the hook go, only loses what it held.    *)
LEMMA IdleKeeps ==
  ASSUME SessionInv, S!ReadMeta, failed \/ Released
  PROVE  SessionInv'
<1> DEFINE e == Head(meta)
<1>0. /\ SessionTypes /\ RelayInv /\ meta \in Seq(S!Events) /\ meta # <<>> /\ cap \in CapSet
      /\ Len(cap.pending) <= MaxPending /\ epoch \in Nat /\ failed \in BOOLEAN
      /\ meta' = Tail(meta) /\ e \in S!Events /\ Tail(meta) \in Seq(S!Events)
      /\ \A i \in DOMAIN cap.pending : cap.pending[i].shown = epoch
      /\ UNCHANGED <<excluded, shell, failed, epoch, unasked>>
  BY TailFacts DEF SessionInv, SessionTypes, RelayInv, S!ReadMeta
<1> DEFINE d == IF S!Boundary(e) THEN S!Drained(cap) ELSE cap
<1>1. /\ d \in CapSet /\ d.guard = cap.guard /\ d.pending \in {cap.pending, <<>>}
      /\ Len(d.pending) <= MaxPending /\ d.recorded = cap.recorded
  BY <1>0, DrainIdle DEF Released
<1>2. /\ tty' \in {tty, S!Unread} /\ S!Replies(e, failed)
      /\ cap' = IF failed THEN d ELSE S!Handled(d, e)
  BY DEF S!ReadMeta
<1> HIDE DEF d
<1>3. /\ cap' \in CapSet /\ cap'.pending \in {cap.pending, <<>>} /\ Len(cap'.pending) <= MaxPending
      /\ cap'.recorded = cap.recorded /\ (~failed => ~cap'.guard)
  <2>1. CASE failed
    BY <1>1, <1>2, <2>1
  <2>2. CASE ~failed
    <3>0. ~d.guard /\ e.name # "H" /\ cap' = S!Handled(d, e)
      <4>1. 1 \in DOMAIN meta /\ e = meta[1]
        BY <1>0
      <4> QED BY <1>1, <1>2, <2>2, <4>1 DEF Released
    <3>1. CASE e.name = "B"
      BY <1>0, <1>1, <3>0, <3>1, BeforeFacts DEF S!Handled
    <3>2. CASE e.name = "E"
      BY <1>0, <1>1, <3>0, <3>2, AfterFacts DEF S!Handled
    <3>3. CASE e.name = "A"
      BY <1>0, <1>1, <3>0, <3>3, ApprovedFacts DEF S!Handled
    <3>4. CASE e.name = "F"
      <4> DEFINE c == [d EXCEPT !.guard = FALSE]
      <4>1. c \in CapSet /\ ~c.guard /\ c.recorded = cap.recorded
        BY <1>1 DEF CapSet
      <4>2. cap' = S!Blocked(c)
        BY <3>0, <3>4 DEF S!Handled
      <4> HIDE DEF c
      <4> QED BY <4>1, <4>2, BlockedFacts
    <3> QED BY <1>0, <1>1, <3>0, <3>1, <3>2, <3>3, <3>4 DEF S!Events
  <2> QED BY <2>1, <2>2
<1>4. ReadsOn(e)
  BY <1>0, <1>2, <1>3 DEF ReadsOn
<1>5. ~failed => Released'
  <2>1. ~failed => NoHello(meta) /\ shell.alone
    BY DEF Released, NoHello
  <2>2. ~failed => NoHello(Tail(meta))
    BY <1>0, <2>1, TailNoHello
  <2> QED BY <1>0, <1>3, <2>1, <2>2 DEF Released, NoHello
<1>6. \A i \in DOMAIN cap'.pending : cap'.pending[i].shown = epoch
  <2>1. cap'.pending = <<>> => DOMAIN cap'.pending = {}
    OBVIOUS
  <2> QED BY <1>0, <1>3, <2>1
<1> HIDE DEF e
<1> QED BY <1>3, <1>4, <1>5, <1>6, ReadsKeep DEF SessionInv,
           S!OnlyApprovedIsRecorded, S!WithdrawalForgets

(* The relay reads the event that the hook sent in its step.                 *)
LEMMA FollowingReads ==
  ASSUME SessionInv, S!ReadMeta, ~failed, NEW m \in Lines \cup {0},
         Following, Follows(m), Known(m), ~shell.alone => InStep(m)
  PROVE  /\ SessionTypes /\ RelayInv /\ cap \in CapSet /\ epoch \in Nat /\ cap.guard
         /\ Len(cap.pending) <= MaxPending
         /\ meta \in Seq(S!Events) /\ meta # <<>> /\ meta' = Tail(meta)
         /\ Tail(meta) \in Seq(S!Events) /\ Head(meta) \in S!Events
         /\ shell.alone \in BOOLEAN /\ m \in Nat
         /\ NoHello(Tail(meta)) /\ S!Replies(Head(meta), FALSE)
         /\ UNCHANGED <<excluded, shell, failed, epoch, unasked>>
         /\ Fine(S!Drained(cap), m) /\ Fine(cap, m)
<1>1. SessionTypes /\ RelayInv /\ meta \in Seq(S!Events) /\ meta # <<>> /\ NoHello(meta)
  BY DEF SessionInv, SessionTypes, S!ReadMeta, Following, NoHello
<1>2. Approves(m)
  BY DEF Follows, Approves
<1>3. S!Replies(Head(meta), FALSE)
  <2>1. failed = FALSE
    BY <1>1 DEF SessionTypes
  <2>2. S!Replies(Head(meta), failed)
    BY DEF S!ReadMeta
  <2> QED BY <2>1, <2>2
<1>4. Fine(S!Drained(cap), m) /\ Fine(cap, m)
  BY <1>2, DrainFine, NowFine
<1>5. NoHello(Tail(meta))
  BY <1>1, TailNoHello
<1>6. m \in Nat
  BY SessionAssumption
<1>7. /\ meta' = Tail(meta) /\ cap.guard
      /\ UNCHANGED <<excluded, shell, failed, epoch, unasked>>
  BY DEF S!ReadMeta, Following
<1>8. /\ cap \in CapSet /\ epoch \in Nat /\ shell.alone \in BOOLEAN
      /\ Len(cap.pending) <= MaxPending
  BY <1>1 DEF SessionTypes
<1>9. Tail(meta) \in Seq(S!Events) /\ Head(meta) \in S!Events
  BY <1>1
<1> QED BY <1>1, <1>3, <1>4, <1>5, <1>6, <1>7, <1>8, <1>9

(* The hook gave up: the relay lets it go.                                   *)
LEMMA ReadsF ==
  ASSUME SessionInv, S!ReadMeta, ~failed, NEW m \in Lines \cup {0},
         Following, Follows(m), Known(m), ~shell.alone => InStep(m),
         Head(meta).name = "F", shell.alone
  PROVE  SessionInv'
<1> DEFINE c == [cap EXCEPT !.guard = FALSE]
           e == Head(meta)
<1>0. /\ SessionTypes /\ RelayInv /\ cap \in CapSet /\ epoch \in Nat
      /\ meta \in Seq(S!Events) /\ meta # <<>> /\ meta' = Tail(meta)
      /\ Tail(meta) \in Seq(S!Events) /\ e \in S!Events
      /\ NoHello(Tail(meta)) /\ S!Replies(e, FALSE)
      /\ UNCHANGED <<excluded, shell, failed, epoch, unasked>>
  BY FollowingReads
<1>1. S!Handled(cap, e) = S!Blocked(c)
  BY DEF S!Handled
<1>2. c \in CapSet /\ ~c.guard /\ c.recorded = cap.recorded
  BY <1>0 DEF CapSet
<1>3. ~S!Boundary(e)
  BY DEF S!Boundary
<1> HIDE DEF c
<1>4. cap' = S!Blocked(c) /\ tty' = tty
  BY <1>1, <1>3 DEF S!ReadMeta
<1>5. /\ cap' \in CapSet /\ ~cap'.guard /\ cap'.pending = <<>> /\ Len(cap'.pending) <= MaxPending
      /\ cap'.recorded = cap.recorded
  BY <1>2, <1>4, BlockedFacts
<1> HIDE DEF e
<1>6. failed = FALSE
  BY <1>0 DEF SessionTypes
<1>7. ReadsOn(e)
  BY <1>0, <1>4, <1>5, <1>6 DEF ReadsOn, e
<1>8. Released'
  BY <1>0, <1>5 DEF Released, NoHello
<1>9. \A i \in DOMAIN cap'.pending : cap'.pending[i].shown = epoch
  BY <1>5
<1> QED BY <1>5, <1>7, <1>8, <1>9, ReadsKeep DEF SessionInv,
           S!OnlyApprovedIsRecorded, S!WithdrawalForgets

(* A command begins: what was shown before is of it, and is held on.         *)
LEMMA ReadsB ==
  ASSUME SessionInv, S!ReadMeta, ~failed, NEW m \in Lines \cup {0},
         Following, Follows(m), Known(m), ~shell.alone => InStep(m),
         cap.phase \in {"prompt", "command"}, Ahead(meta, shell.alone, Event("B", m + 1))
  PROVE  SessionInv'
<1> DEFINE c == S!Drained(cap)
           e == Head(meta)
<1>0. /\ SessionTypes /\ RelayInv /\ cap \in CapSet /\ epoch \in Nat /\ cap.guard
      /\ meta \in Seq(S!Events) /\ meta # <<>> /\ meta' = Tail(meta)
      /\ Tail(meta) \in Seq(S!Events) /\ e \in S!Events /\ shell.alone \in BOOLEAN /\ m \in Nat
      /\ NoHello(Tail(meta)) /\ S!Replies(e, FALSE)
      /\ UNCHANGED <<excluded, shell, failed, epoch, unasked>>
      /\ Fine(c, m)
  BY FollowingReads
<1>1. e = Event("B", m + 1) /\ Stops(Tail(meta), shell.alone)
  BY <1>0, ReadsAhead
<1> HIDE DEF c, e
<1>2. e.name = "B" /\ e.cmd = m + 1 /\ m + 1 \in Lines \cup {0}
  BY <1>0, <1>1 DEF Event, S!Events
<1>3. cap' = S!Before(c, m + 1) /\ tty' = S!Unread
  <2>1. S!Boundary(e)
    BY <1>2 DEF S!Boundary
  <2>2. S!Handled(c, e) = S!Before(c, m + 1)
    BY <1>2 DEF S!Handled
  <2>3. cap' = S!Handled(c, e) /\ tty' = S!Unread
    BY <2>1 DEF S!ReadMeta, c, e
  <2> QED BY <2>2, <2>3
<1>4. /\ cap' \in CapSet /\ cap'.guard = c.guard /\ cap'.phase = "pending"
      /\ cap'.waits => m + 1 \notin excluded
      /\ cap'.pending \in {c.pending, <<>>} /\ Len(cap'.pending) <= MaxPending
      /\ cap'.recorded = c.recorded
  <2>1. c \in CapSet /\ Len(c.pending) <= MaxPending
    BY <1>0 DEF Fine
  <2> QED BY <1>3, <2>1, BeforeFacts
<1>5. failed = FALSE
  BY <1>0 DEF SessionTypes
<1>6. ReadsOn(e)
  BY <1>0, <1>3, <1>4, <1>5 DEF ReadsOn, e
<1>7. ack' = Append(ack, "R")
  BY <1>0, <1>2, <1>6, RepliesFacts
<1>8. \A i \in DOMAIN cap'.pending :
        /\ cap'.pending[i].shown = epoch
        /\ cap'.pending[i].cmd = m + 1 \/ Other(cap'.pending[i])
  <2>1. CASE cap'.pending = <<>>
    BY <2>1
  <2>2. CASE cap'.pending = c.pending /\ cap.phase = "prompt"
    BY <1>0, <2>2 DEF Fine, Owner
  <2>3. CASE cap.phase = "command"
    <3>1. cap.pending = <<>>
      BY <2>3 DEF Follows
    <3>2. c.pending = <<>>
      BY <1>0, <2>3, <3>1 DEF Fine
    <3> QED BY <1>4, <2>1, <3>2
  <2> QED BY <1>4, <2>1, <2>2, <2>3
<1>9. Known(m + 1)' /\ Follows(m + 1)'
  <2>1. \A i \in DOMAIN tty' : tty'[i].late
    BY <1>0, <1>3, BatchFacts DEF SessionTypes
  <2> QED BY <1>0, <1>1, <1>4, <1>8, <2>1 DEF Known, Follows, Owner, Other
<1>10. ~shell'.alone => InStep(m + 1)'
  <2> SUFFICES ASSUME ~shell.alone PROVE InStep(m + 1)'
    BY <1>0
  <2>1. Tail(meta) = <<>>
    BY <1>1 DEF Stops
  <2>2. shell.at = "before" /\ shell.cmd = m + 1 /\ ack = <<>>
    <3>1. meta[1] = Event("B", m + 1) /\ meta # <<>>
      BY DEF Ahead
    <3>2. Event("B", m + 1) # Event("E", m)
      BY DEF Event
    <3> QED BY <3>1, <3>2 DEF InStep, Ahead
  <2>3. Append(<<>>, "R") = <<"R">>
    OBVIOUS
  <2> QED BY <1>0, <1>4, <1>7, <2>1, <2>2, <2>3 DEF InStep
<1>11. Following'
  <2>1. cap'.guard
    BY <1>0, <1>4 DEF Fine
  <2> QED BY <1>0, <1>2, <1>9, <1>10, <2>1 DEF Following, NoHello
<1>12. \A r \in cap'.recorded : r.shown = r.kept /\ (r.cmd \in excluded => r.late \/ r.cmd \in unasked)
  BY <1>0, <1>4 DEF Fine
<1> QED BY <1>6, <1>8, <1>11, <1>12, ReadsKeep

(* A command is over: what was shown before is of it, and nothing is held.   *)
LEMMA ReadsE ==
  ASSUME SessionInv, S!ReadMeta, ~failed, NEW m \in Lines \cup {0},
         Following, Follows(m), Known(m), ~shell.alone => InStep(m),
         cap.phase = "command", Ahead(meta, shell.alone, Event("E", m))
  PROVE  SessionInv'
<1> DEFINE c == S!Drained(cap)
           e == Head(meta)
<1>0. /\ SessionTypes /\ RelayInv /\ cap \in CapSet /\ epoch \in Nat /\ cap.guard
      /\ meta \in Seq(S!Events) /\ meta # <<>> /\ meta' = Tail(meta)
      /\ Tail(meta) \in Seq(S!Events) /\ e \in S!Events /\ shell.alone \in BOOLEAN
      /\ NoHello(Tail(meta)) /\ S!Replies(e, FALSE)
      /\ UNCHANGED <<excluded, shell, failed, epoch, unasked>>
      /\ Fine(c, m)
  BY FollowingReads
<1>1. e = Event("E", m) /\ Stops(Tail(meta), shell.alone)
  BY <1>0, ReadsAhead
<1> HIDE DEF c, e
<1>2. e.name = "E"
  BY <1>1 DEF Event
<1>3. cap' = S!After(c) /\ tty' = S!Unread
  <2>1. S!Boundary(e)
    BY <1>2 DEF S!Boundary
  <2>2. S!Handled(c, e) = S!After(c)
    BY <1>2 DEF S!Handled
  <2>3. cap' = S!Handled(c, e) /\ tty' = S!Unread
    BY <2>1 DEF S!ReadMeta, c, e
  <2> QED BY <2>2, <2>3
<1>4. /\ cap' \in CapSet /\ cap'.guard = c.guard /\ cap'.phase = "prompt" /\ cap'.pending = <<>>
      /\ Len(cap'.pending) <= MaxPending /\ cap'.recorded = c.recorded
  <2>1. c \in CapSet
    BY <1>0 DEF Fine
  <2> QED BY <1>3, <2>1, AfterFacts
<1>5. failed = FALSE
  BY <1>0 DEF SessionTypes
<1>6. ReadsOn(e)
  BY <1>0, <1>3, <1>4, <1>5 DEF ReadsOn, e
<1>7. ack' = Append(ack, "R")
  BY <1>0, <1>2, <1>6, RepliesFacts
<1>8. DOMAIN cap'.pending = {} /\ \A i \in DOMAIN tty' : tty'[i].late
  BY <1>0, <1>3, <1>4, BatchFacts DEF SessionTypes
<1>9. Known(m)' /\ Follows(m)'
  BY <1>0, <1>1, <1>4, <1>8 DEF Known, Follows, Other
<1>10. ~shell'.alone => InStep(m)'
  <2> SUFFICES ASSUME ~shell.alone PROVE InStep(m)'
    BY <1>0
  <2>1. Tail(meta) = <<>>
    BY <1>1 DEF Stops
  <2>2. shell.at = "after" /\ shell.cmd = m /\ ack = <<>>
    <3>1. meta[1] = Event("E", m) /\ meta # <<>>
      BY DEF Ahead
    <3>2. Event("B", m + 1) # Event("E", m)
      BY DEF Event
    <3> QED BY <3>1, <3>2 DEF InStep, Ahead
  <2>3. Append(<<>>, "R") = <<"R">>
    OBVIOUS
  <2> QED BY <1>0, <1>4, <1>7, <2>1, <2>2, <2>3 DEF InStep
<1>11. Following'
  <2>1. cap'.guard
    BY <1>0, <1>4 DEF Fine
  <2> QED BY <1>0, <1>9, <1>10, <2>1 DEF Following, NoHello
<1>12. \A r \in cap'.recorded : r.shown = r.kept /\ (r.cmd \in excluded => r.late \/ r.cmd \in unasked)
  BY <1>0, <1>4 DEF Fine
<1> QED BY <1>6, <1>8, <1>11, <1>12, ReadsKeep

(* A command is acknowledged: what is held is of it, and recorded if it may  *)
(* be.                                                                       *)
LEMMA ReadsA ==
  ASSUME SessionInv, S!ReadMeta, ~failed, NEW m \in Lines \cup {0},
         Following, Follows(m), Known(m), ~shell.alone => InStep(m),
         cap.phase = "pending",
         \/ Ahead(meta, shell.alone, Event("A", m))
         \/ Both(meta, shell.alone, Event("A", m), Event("E", m))
         \/ Both(meta, shell.alone, Event("A", m), Event("B", m + 1))
  PROVE  SessionInv'
<1> DEFINE e == Head(meta)
<1>0. /\ SessionTypes /\ RelayInv /\ cap \in CapSet /\ epoch \in Nat /\ cap.guard
      /\ meta \in Seq(S!Events) /\ meta # <<>> /\ meta' = Tail(meta)
      /\ Tail(meta) \in Seq(S!Events) /\ e \in S!Events /\ shell.alone \in BOOLEAN
      /\ NoHello(Tail(meta)) /\ S!Replies(e, FALSE)
      /\ UNCHANGED <<excluded, shell, failed, epoch, unasked>>
      /\ Fine(cap, m)
  BY FollowingReads
<1>1. /\ e = Event("A", m)
      /\ \/ Stops(Tail(meta), shell.alone)
         \/ Ahead(Tail(meta), shell.alone, Event("E", m))
         \/ Ahead(Tail(meta), shell.alone, Event("B", m + 1))
  BY <1>0, ReadsAhead
<1> HIDE DEF e
<1>2. e.name = "A"
  BY <1>1 DEF Event
<1>3. cap' = S!Approved(cap) /\ tty' = tty
  <2>1. ~S!Boundary(e)
    BY <1>2 DEF S!Boundary
  <2>2. S!Handled(cap, e) = S!Approved(cap)
    BY <1>2 DEF S!Handled
  <2>3. cap' = S!Handled(cap, e) /\ tty' = tty
    BY <2>1 DEF S!ReadMeta, e
  <2> QED BY <2>2, <2>3
<1>4. /\ cap' \in CapSet /\ cap'.guard = cap.guard /\ cap'.phase = "command"
      /\ cap'.pending = <<>> /\ Len(cap'.pending) <= MaxPending /\ (cap'.allowed => cap.waits)
      /\ \/ cap'.recorded = cap.recorded
         \/ cap.waits /\ cap'.recorded = cap.recorded \cup Kept(cap)
  BY <1>0, <1>3, ApprovedFacts
<1>5. failed = FALSE
  BY <1>0 DEF SessionTypes
<1>6. ReadsOn(e)
  BY <1>0, <1>3, <1>4, <1>5 DEF ReadsOn, e
<1>7. ack' = ack
  BY <1>0, <1>2, <1>6, RepliesFacts
<1>8. DOMAIN cap'.pending = {}
  BY <1>4
<1>9. Known(m)' /\ Follows(m)'
  <2>1. cap.waits => m \notin excluded
    BY DEF Follows
  <2>2. Known(m)'
    BY <1>0, <1>3, <1>4, <1>8 DEF Known, Owner, Other
  <2> QED BY <1>0, <1>1, <1>4, <2>1, <2>2 DEF Follows
<1>10. ~shell'.alone => InStep(m)'
  <2> SUFFICES ASSUME ~shell.alone PROVE InStep(m)'
    BY <1>0
  <2>1. /\ shell.alone = FALSE /\ ack = <<>>
        /\ \/ shell.at = "before" /\ shell.cmd = m + 1 /\ Ahead(Tail(meta), FALSE, Event("B", m + 1))
           \/ shell.at = "run" /\ shell.cmd = m /\ Tail(meta) = <<>>
           \/ shell.at = "after" /\ shell.cmd = m /\ Ahead(Tail(meta), FALSE, Event("E", m))
    BY <1>0 DEF InStep, Ahead, Both, Stops
  <2> QED BY <1>0, <1>4, <1>7, <2>1 DEF InStep
<1>11. Following'
  BY <1>0, <1>4, <1>9, <1>10 DEF Following, NoHello
<1>12. \A r \in cap'.recorded : r.shown = r.kept /\ (r.cmd \in excluded => r.late \/ r.cmd \in unasked)
  <2> SUFFICES ASSUME NEW r \in cap'.recorded
               PROVE  r.shown = r.kept /\ (r.cmd \in excluded => r.late \/ r.cmd \in unasked)
    OBVIOUS
  <2>1. CASE r \in cap.recorded
    BY <1>0, <2>1 DEF Fine
  <2>2. CASE r \in Kept(cap) /\ cap.waits
    <3>1. PICK i \in DOMAIN cap.pending :
            r = [cmd |-> cap.pending[i].cmd, late |-> cap.pending[i].late,
                 shown |-> cap.pending[i].shown, kept |-> epoch]
      BY <2>2 DEF Kept
    <3>2. m \notin excluded /\ Owner(m) = m
      BY <2>2 DEF Follows, Owner
    <3>3. 0 \notin excluded
      BY <1>0, SessionAssumption DEF SessionTypes
    <3> QED BY <1>0, <3>1, <3>2, <3>3 DEF Fine, Other
  <2> QED BY <1>4, <2>1, <2>2
<1> QED BY <1>6, <1>8, <1>11, <1>12, ReadsKeep

(* An event is read.                                                         *)
LEMMA ReadMetaKeeps == ASSUME SessionInv, S!ReadMeta PROVE SessionInv'
<1>0. /\ RelayInv /\ meta \in Seq(S!Events) /\ meta # <<>> /\ shell.alone \in BOOLEAN
  BY DEF SessionInv, SessionTypes, S!ReadMeta
<1>1. CASE failed \/ Released
  BY <1>1, IdleKeeps
<1>2. CASE ~failed /\ Greeting
  BY <1>2, HelloKeeps
<1>3. CASE ~failed /\ Following
  <2>1. PICK m \in Lines \cup {0} : Follows(m) /\ Known(m) /\ (~shell.alone => InStep(m))
    BY <1>3 DEF Following
  <2>2. CASE Stops(meta, shell.alone)
    <3>1. shell.alone /\ Head(meta).name = "F"
      BY <1>0, <2>2, ReadsAhead
    <3> QED BY <1>3, <2>1, <3>1, ReadsF
  <2>3. CASE cap.phase \in {"prompt", "command"} /\ Ahead(meta, shell.alone, Event("B", m + 1))
    BY <1>3, <2>1, <2>3, ReadsB
  <2>4. CASE cap.phase = "command" /\ Ahead(meta, shell.alone, Event("E", m))
    BY <1>3, <2>1, <2>4, ReadsE
  <2>5. CASE /\ cap.phase = "pending"
             /\ \/ Ahead(meta, shell.alone, Event("A", m))
                \/ Both(meta, shell.alone, Event("A", m), Event("E", m))
                \/ Both(meta, shell.alone, Event("A", m), Event("B", m + 1))
    BY <1>3, <2>1, <2>5, ReadsA
  <2> QED BY <2>1, <2>2, <2>3, <2>4, <2>5 DEF Follows
<1> QED BY <1>0, <1>1, <1>2, <1>3 DEF RelayInv

(* Nothing is shown, announced or recorded yet.                              *)
LEMMA InitSession == ASSUME S!Init PROVE SessionInv
<1> USE DEF S!Init
<1>1. Event("H", 0) \in S!Events /\ Event("H", 0) = [name |-> "H", cmd |-> 0]
  BY DEF S!Events, Event
<1>2. /\ meta = <<Event("H", 0)>> /\ meta \in Seq(S!Events) /\ meta # <<>> /\ meta[1] = Event("H", 0)
      /\ Tail(meta) = <<>>
  BY <1>1
<1>3. <<>> \in Seq(HeldSet) /\ Len(<<>>) = 0 /\ <<>> \in Seq(S!Chunk) /\ <<>> \in Seq({"R", "F"})
  OBVIOUS
<1>4. /\ cap \in CapSet /\ cap.pending = <<>> /\ cap.recorded = {} /\ cap.phase = "startup"
      /\ cap.guard = FALSE
  BY <1>3 DEF CapSet
<1>5. /\ shell \in [at : {"hello", "prompt", "before", "run", "after"}, cmd : Lines \cup {0},
                    alone : BOOLEAN, out : Nat]
      /\ shell.at = "hello" /\ shell.cmd = 0 /\ shell.alone = FALSE
  OBVIOUS
<1>6. SessionTypes
  <2>1. Len(cap.pending) <= MaxPending
    BY <1>3, <1>4, SessionAssumption
  <2>2. excluded \subseteq Lines /\ unasked = {} /\ epoch = 0 /\ failed = FALSE
        /\ tty = <<>> /\ ack = <<>>
    OBVIOUS
  <2> QED BY ONLY <1>2, <1>3, <1>4, <1>5, <2>1, <2>2 DEF SessionTypes
<1>7. Greeting
  <2>1. Ahead(meta, shell.alone, Event("H", 0))
    BY <1>2, <1>5 DEF Ahead, Stops
  <2>2. tty = <<>> /\ ack = <<>> /\ DOMAIN tty = {} /\ DOMAIN Tail(meta) = {}
    BY <1>2
  <2> QED BY ONLY <1>4, <1>5, <2>1, <2>2 DEF Greeting, Other
<1>8. RelayInv
  <2>1. ack = <<>> /\ DOMAIN ack = {} /\ DOMAIN cap.pending = {}
    BY <1>4
  <2> QED BY ONLY <1>5, <1>7, <2>1 DEF RelayInv
<1> QED BY <1>4, <1>6, <1>8 DEF SessionInv, S!OnlyApprovedIsRecorded, S!WithdrawalForgets

(* Another part of the records moves.                                        *)
LEMMA OthersKeepSession == ASSUME SessionInv, UNCHANGED sessionVars PROVE SessionInv'
<1>1. UNCHANGED <<excluded, shell, tty, meta, ack, cap, failed, epoch, unasked>>
  BY DEF sessionVars
<1>2. SessionTypes'
  BY <1>1 DEF SessionInv, SessionTypes, S!Chunk, S!Events, CapSet, HeldSet, S!Kept
<1>3. ASSUME Following PROVE Following'
  <2>1. PICK m \in Lines \cup {0} : Follows(m) /\ Known(m) /\ (~shell.alone => InStep(m))
    BY <1>3 DEF Following
  <2>2. Follows(m)' /\ Known(m)' /\ (~shell'.alone => InStep(m)')
    BY <1>1, <2>1 DEF Follows, Known, Owner, Other, InStep
  <2> QED BY <1>1, <1>3, <2>2 DEF Following
<1>4. (Greeting => Greeting') /\ (Released => Released')
  BY <1>1 DEF Greeting, Other, Released
<1>5. RelayInv'
  BY <1>1, <1>3, <1>4 DEF SessionInv, RelayInv
<1> QED BY <1>1, <1>2, <1>5 DEF SessionInv, S!OnlyApprovedIsRecorded, S!WithdrawalForgets

(* For any commands, any of them excluded, any output at any time, any limit *)
(* of the drain, late answers, storage errors and controls: what is recorded *)
(* was shown beside a command that was approved, beside none, or after the   *)
(* hook gave up or a drain left it unread; and nothing is recorded from      *)
(* before the consent was withdrawn.                                         *)
THEOREM CaptureConsented == AllSpec => []CaptureIsConsented
<1>1. AllInit => SessionInv
  BY InitSession DEF AllInit
<1>2. SessionInv /\ [AllNext]_allVars => SessionInv'
  <2> SUFFICES ASSUME SessionInv, [AllNext]_allVars PROVE SessionInv'
    OBVIOUS
  <2>1. S!Next \/ UNCHANGED sessionVars
    BY DEF AllNext, allVars, sessionVars
  <2>2. CASE S!Next
    BY <2>2, ShowsKeeps, StartsKeeps, EndsKeeps, AnswerKeeps, ReadTtyKeeps, ReadMetaKeeps,
       FailsKeeps, ControlKeeps DEF S!Next
  <2> QED BY <2>1, <2>2, OthersKeepSession
<1>3. SessionInv => CaptureIsConsented
  BY DEF SessionInv, CaptureIsConsented
<1> QED BY <1>1, <1>2, <1>3, PTL DEF AllSpec

-----------------------------------------------------------------------------
(* The history of packages.                                                  *)

(* How often t was reported as k; whether an event of it waits.              *)
Reports(t, k) == reported[<<t, k>>]
InHand(t)     == t \in DOMAIN events

(* The memory has room for all that there is so far.                        *)
Room == Cardinality(D!Issued) <= Keep

(* Of the transactions only issued ones are remembered, or in hand.          *)
PackageTypes ==
  /\ status \in [Transactions -> {"none", "running", "ok", "failed"}]
  /\ seen = D!Unknown \/ seen \subseteq D!Issued
  /\ active \subseteq D!Issued /\ excused \subseteq Transactions
  /\ pc \in {"idle", "collected", "inserted"}
  /\ DOMAIN events \subseteq D!Issued /\ \A t \in DOMAIN events : events[t] \in D!Kinds
  /\ pc = "idle" => DOMAIN events = {}
  /\ reported \in [Transactions \X D!Kinds -> Nat] /\ faults \in Nat

(* A transaction that is not excused was reported if it is remembered, or    *)
(* its event is in hand; its failure is an alert until it is recovered, or   *)
(* until the alert of the event in hand is written.                          *)
RememberedInv ==
  \A t \in Transactions \ excused :
    /\ t \in seen => (\E k \in D!Kinds : Reports(t, k) > 0) \/ (pc = "collected" /\ InHand(t))
    /\ InHand(t) =>
         /\ pc = "inserted" => Reports(t, events[t]) > 0
         /\ events[t] = "failed" => Reports(t, "recovered") = 0
         /\ events[t] = "packages" /\ Reports(t, "failed") > 0 => Reports(t, "recovered") > 0
    /\ ~(pc = "inserted" /\ InHand(t)) =>
         /\ t \in active => Reports(t, "recovered") = 0
         /\ Reports(t, "failed") > 0 => (t \in active) = (Reports(t, "recovered") = 0)

(* What is reported as installed or recovered ended well.                    *)
EndedInv ==
  \A t \in Transactions, k \in {"packages", "recovered"} :
    Reports(t, k) > 0 \/ (InHand(t) /\ events[t] = k) => status[t] = "ok"

(* While all have room, packages are reported once, and once more for each   *)
(* time the memory was lost.                                                 *)
OnceInv ==
  Room => \A t \in Transactions :
    /\ InHand(t) => t \in seen
    /\ t \notin seen => Reports(t, "packages") <= faults
    /\ pc = "collected" /\ InHand(t) /\ events[t] = "packages" => Reports(t, "packages") <= faults
    /\ Reports(t, "packages") <= 1 + faults

(* All of it.                                                                *)
PackageInv == PackageTypes /\ RememberedInv /\ EndedInv /\ OnceInv

(* What is remembered is cut to the newest, which are all if they have room. *)
LEMMA NothingForgotten ==
  ASSUME Room, NEW X \in SUBSET D!Issued
  PROVE  D!Newest(X, Keep) = X
<1>0. D!Newest(X, Keep) = {t \in X : Cardinality({u \in X : u > t}) < Keep}
  <2>1. \A T : D!Cardinality(T) = Cardinality(T)
    BY DEF D!Cardinality, Cardinality
  <2> QED BY <2>1 DEF D!Newest
<1> SUFFICES ASSUME NEW t \in X PROVE Cardinality({u \in X : u > t}) < Keep
  BY <1>0
<1> DEFINE Y == {u \in X : u > t}
<1>1. IsFiniteSet(D!Issued) /\ D!Issued \subseteq Nat
  BY PackageAssumption, FS_Subset DEF D!Issued
<1>2. Y \subseteq D!Issued /\ t \in D!Issued /\ t \notin Y
  <2>1. t \in Nat /\ ~(t > t)
    BY <1>1
  <2> QED BY <2>1
<1>3. IsFiniteSet(Y) /\ IsFiniteSet(D!Issued \ {t})
  BY <1>1, <1>2, FS_Subset, FS_RemoveElement
<1>4. Cardinality(D!Issued \ {t}) = Cardinality(D!Issued) - 1
  BY <1>1, <1>2, FS_RemoveElement
<1>5. Cardinality(Y) <= Cardinality(D!Issued \ {t})
  BY <1>2, <1>3, FS_Subset
<1>6. Cardinality(Y) \in Nat /\ Cardinality(D!Issued) \in Nat
  BY <1>1, <1>3, FS_CardinalityType
<1>7. Keep \in Nat
  BY PackageAssumption
<1> HIDE DEF Y
<1>8. Cardinality(Y) < Keep
  BY <1>4, <1>5, <1>6, <1>7 DEF Room
<1> QED BY <1>8 DEF Y

(* Nothing that was issued before is withdrawn: room for all is room for     *)
(* those of before.                                                          *)
LEMMA RoomBefore ==
  ASSUME D!Issued \subseteq D!Issued', Room'
  PROVE  Room
<1>1. IsFiniteSet(D!Issued') /\ D!Issued' \subseteq Transactions
  BY PackageAssumption, FS_Subset DEF D!Issued
<1>2. IsFiniteSet(D!Issued) /\ Cardinality(D!Issued) <= Cardinality(D!Issued')
  BY <1>1, FS_Subset
<1>3. Cardinality(D!Issued) \in Nat /\ Cardinality(D!Issued') \in Nat /\ Keep \in Nat
  BY <1>1, <1>2, FS_CardinalityType, PackageAssumption
<1>4. Cardinality(D!Issued') <= Keep
  BY DEF Room
<1> QED BY <1>2, <1>3, <1>4 DEF Room

(* No transaction is the mark of a memory that was never written.            *)
LEMMA UnknownIsNone == D!Unknown = {0} /\ 0 \notin Transactions /\ D!Issued \subseteq Transactions
  BY PackageAssumption DEF D!Unknown, D!Issued

(* At first nothing was seen, and nothing reported.                          *)
LEMMA InitPackages == ASSUME D!Init PROVE PackageInv
<1>1. PackageTypes
  <2>1. status \in [Transactions -> {"none", "running", "ok", "failed"}]
    BY DEF D!Init
  <2>2. DOMAIN events = {} /\ reported \in [Transactions \X D!Kinds -> Nat]
    BY DEF D!Init, D!NoEvents
  <2> QED BY <2>1, <2>2 DEF D!Init, PackageTypes
<1>2. \A t \in Transactions, k \in D!Kinds : Reports(t, k) = 0
  BY DEF D!Init, Reports
<1>3. \A t \in Transactions : t \notin seen /\ t \notin active /\ ~InHand(t)
  BY UnknownIsNone DEF D!Init, InHand, D!NoEvents
<1>4. {"packages", "failed", "recovered"} = D!Kinds
  BY DEF D!Kinds
<1>5. RememberedInv
  BY <1>2, <1>3, <1>4 DEF RememberedInv
<1>6. faults = 0 /\ pc = "idle"
  BY DEF D!Init
<1>7. EndedInv /\ OnceInv
  BY <1>2, <1>3, <1>4, <1>6 DEF EndedInv, OnceInv
<1> QED BY <1>1, <1>5, <1>7 DEF PackageInv

(* DNF starts, ends or completes a transaction.                              *)
LEMMA TransactKeeps ==
  ASSUME PackageInv, NEW t \in Transactions, NEW to \in {"running", "ok", "failed"},
         D!Transact(t, to)
  PROVE  PackageInv'
<1>1. UNCHANGED <<seen, active, pc, events, reported, excused, faults>>
  BY DEF D!Transact
<1>2. status \in [Transactions -> {"none", "running", "ok", "failed"}]
  BY DEF PackageInv, PackageTypes
<1>3. status' \in [Transactions -> {"none", "running", "ok", "failed"}]
      /\ \A u \in Transactions : (status[u] # "none" => status'[u] # "none")
                                /\ (status[u] = "ok" => status'[u] = "ok")
  BY <1>2 DEF D!Transact
<1>4. D!Issued \subseteq D!Issued'
  BY <1>3 DEF D!Issued
<1>5. PackageTypes'
  BY <1>1, <1>3, <1>4 DEF PackageInv, PackageTypes
<1>6. RememberedInv'
  BY <1>1 DEF PackageInv, RememberedInv, Reports, InHand
<1>7. OnceInv'
  BY <1>1, <1>4, RoomBefore DEF PackageInv, OnceInv, Reports, InHand
<1>8. EndedInv'
  BY <1>1, <1>3 DEF PackageInv, EndedInv, Reports, InHand
<1> QED BY <1>5, <1>6, <1>7, <1>8 DEF PackageInv

(* The events of a collection are inserted.                                  *)
LEMMA InsertKeeps == ASSUME PackageInv, D!Insert PROVE PackageInv'
<1>1. UNCHANGED <<status, seen, active, events, excused, faults>> /\ pc = "collected" /\ pc' = "inserted"
  BY DEF D!Insert
<1>2. reported \in [Transactions \X D!Kinds -> Nat] /\ faults \in Nat
  BY DEF PackageInv, PackageTypes
<1>3. /\ reported' \in [Transactions \X D!Kinds -> Nat]
      /\ \A t \in Transactions, k \in D!Kinds :
           Reports(t, k)' = IF InHand(t) /\ events[t] = k THEN Reports(t, k) + 1 ELSE Reports(t, k)
  BY <1>2 DEF D!Insert, Reports, InHand
<1>4. \A t \in Transactions, k \in D!Kinds : Reports(t, k) \in Nat /\ Reports(t, k)' \in Nat
  BY <1>2, <1>3 DEF Reports
<1>5. {"packages", "failed", "recovered"} = D!Kinds /\ \A t : InHand(t)' = InHand(t)
  BY <1>1 DEF D!Kinds, InHand
<1>6. PackageTypes'
  BY <1>1, <1>3 DEF PackageInv, PackageTypes, D!Issued
<1>7. \A t \in Transactions : InHand(t) => events[t] \in D!Kinds
  BY DEF PackageInv, PackageTypes, InHand
<1>8. RememberedInv'
  <2> SUFFICES ASSUME NEW t \in Transactions \ excused
      PROVE /\ t \in seen => (\E k \in D!Kinds : Reports(t, k)' > 0)
            /\ InHand(t) => /\ Reports(t, events[t])' > 0
                            /\ events[t] = "failed" => Reports(t, "recovered")' = 0
                            /\ events[t] = "packages" /\ Reports(t, "failed")' > 0 =>
                                 Reports(t, "recovered")' > 0
            /\ ~InHand(t) =>
                 /\ t \in active => Reports(t, "recovered")' = 0
                 /\ Reports(t, "failed")' > 0 => (t \in active) = (Reports(t, "recovered")' = 0)
    BY <1>1, <1>5 DEF RememberedInv, Reports
  <2> QED BY <1>1, <1>3, <1>4, <1>5, <1>7 DEF PackageInv, RememberedInv
<1>9. \A t \in Transactions, k \in D!Kinds :
        Reports(t, k)' > 0 => Reports(t, k) > 0 \/ (InHand(t) /\ events[t] = k)
  BY <1>3, <1>4
<1>10. EndedInv'
  BY <1>1, <1>5, <1>9 DEF PackageInv, EndedInv
<1>11. OnceInv'
  <2>1. Room' = Room
    BY <1>1 DEF Room, D!Issued
  <2> SUFFICES ASSUME Room, NEW t \in Transactions
      PROVE /\ InHand(t) => t \in seen
            /\ t \notin seen => Reports(t, "packages")' <= faults
            /\ Reports(t, "packages")' <= 1 + faults
    BY <1>1, <1>5, <2>1 DEF OnceInv, Reports
  <2>2. Reports(t, "packages")' = IF InHand(t) /\ events[t] = "packages"
                                  THEN Reports(t, "packages") + 1 ELSE Reports(t, "packages")
    BY <1>3, <1>5
  <2> QED BY <1>1, <1>2, <1>4, <1>5, <1>7, <2>2 DEF PackageInv, OnceInv
<1> QED BY <1>6, <1>8, <1>10, <1>11 DEF PackageInv

(* The alerts are written, or the worker dies before.                        *)
LEMMA AlertKeeps == ASSUME PackageInv, D!Alert PROVE PackageInv'
<1>1. UNCHANGED <<status, seen, reported, excused, faults>> /\ pc = "inserted" /\ pc' = "idle"
  BY DEF D!Alert
<1>2. DOMAIN events' = {} /\ \A t : ~InHand(t)'
  BY DEF D!Alert, D!NoEvents, InHand
<1>3. \A t : t \in active' <=> IF InHand(t) THEN events[t] = "failed" ELSE t \in active
  BY DEF D!Alert, InHand
<1>4. {"packages", "failed", "recovered"} = D!Kinds /\ \A t, k : Reports(t, k)' = Reports(t, k)
  BY <1>1 DEF D!Kinds, Reports
<1>5. \A t \in Transactions, k \in D!Kinds : Reports(t, k) \in Nat
  BY DEF PackageInv, PackageTypes, Reports
<1>6. active' \subseteq D!Issued'
  BY <1>1, <1>3 DEF PackageInv, PackageTypes, D!Issued, InHand
<1>7. PackageTypes'
  BY <1>1, <1>2, <1>6 DEF PackageInv, PackageTypes, D!Issued
<1>8. \A t \in Transactions : InHand(t) => events[t] \in D!Kinds
  BY DEF PackageInv, PackageTypes, InHand
<1>9. RememberedInv'
  <2> SUFFICES ASSUME NEW t \in Transactions \ excused
      PROVE /\ t \in seen => (\E k \in D!Kinds : Reports(t, k) > 0)
            /\ t \in active' => Reports(t, "recovered") = 0
            /\ Reports(t, "failed") > 0 => (t \in active') = (Reports(t, "recovered") = 0)
    BY <1>1, <1>2, <1>4 DEF RememberedInv
  <2> QED BY <1>1, <1>3, <1>4, <1>5, <1>8 DEF PackageInv, RememberedInv
<1>10. Room' = Room
  BY <1>1 DEF Room, D!Issued
<1>11. EndedInv' /\ OnceInv'
  BY <1>1, <1>2, <1>4, <1>10 DEF PackageInv, EndedInv, OnceInv
<1> QED BY <1>7, <1>9, <1>11 DEF PackageInv

(* A worker that dies excuses the events it has in hand.                     *)
LEMMA DieKeeps == ASSUME PackageInv, D!Die PROVE PackageInv'
<1>1. UNCHANGED <<status, seen, active, reported>> /\ pc' = "idle" /\ faults' = faults + 1
  BY DEF D!Die
<1>2. DOMAIN events' = {} /\ \A t : ~InHand(t)'
  BY DEF D!Die, D!NoEvents, InHand
<1>3. \A t : t \in excused' <=> t \in excused \/ InHand(t)
  BY DEF D!Die, InHand
<1>4. {"packages", "failed", "recovered"} = D!Kinds /\ \A t, k : Reports(t, k)' = Reports(t, k)
  BY <1>1 DEF D!Kinds, Reports
<1>5. \A t \in Transactions, k \in D!Kinds : Reports(t, k) \in Nat
  BY DEF PackageInv, PackageTypes, Reports
<1>6. excused' \subseteq Transactions /\ faults \in Nat
  BY <1>3 DEF PackageInv, PackageTypes, D!Issued, InHand
<1>7. PackageTypes'
  BY <1>1, <1>2, <1>6 DEF PackageInv, PackageTypes, D!Issued
<1>8. RememberedInv'
  BY <1>1, <1>2, <1>3, <1>4, <1>5 DEF PackageInv, RememberedInv
<1>9. Room' = Room
  BY <1>1 DEF Room, D!Issued
<1>10. EndedInv' /\ OnceInv'
  BY <1>1, <1>2, <1>4, <1>5, <1>6, <1>9 DEF PackageInv, EndedInv, OnceInv
<1> QED BY <1>7, <1>8, <1>10 DEF PackageInv

(* A collection knew, skipped, chose and found final these transactions.    *)
Collected(known, skipped, final, chosen, blind) ==
  /\ seen' \subseteq known \cup skipped \cup final
  /\ Room => seen' = known \cup skipped \cup final
  /\ DOMAIN events' = final /\ \A t \in final : events'[t] = D!Kind(t)
  /\ excused' = excused \cup (IF blind THEN D!Issued ELSE skipped)
  /\ blind \/ seen = D!Unknown => known = {} /\ skipped = D!Issued \ chosen
  /\ ~(blind \/ seen = D!Unknown) => known = seen /\ skipped = {}
  /\ final \subseteq chosen /\ \A t \in final : D!Final(t)
  /\ \A t \in chosen : t \notin known \/ t \in active

(* What a collection that does not die before it returns leaves behind.      *)
LEMMA CollectFacts ==
  ASSUME PackageInv, NEW unreadable \in SUBSET Transactions, NEW blind \in BOOLEAN,
         D!Collect(unreadable, blind)
  PROVE  \E known, skipped, final, chosen \in SUBSET D!Issued :
           Collected(known, skipped, final, chosen, blind)
<1> DEFINE first    == blind \/ seen = D!Unknown
           known    == IF first THEN {} ELSE seen
           awaits   == {t \in D!Issued : t \notin known \/ t \in active}
           chosen   == D!Newest(awaits, IF first THEN Newcomers ELSE PerPass)
           skipped  == IF first THEN D!Issued \ chosen ELSE {}
           final    == {t \in chosen \ unreadable : D!Final(t)}
<1>1. /\ seen' = D!Newest(known \cup skipped \cup final, Keep)
      /\ events' = [t \in final |-> D!Kind(t)]
      /\ excused' = excused \cup (IF blind THEN D!Issued ELSE skipped)
  BY DEF D!Collect
<1>2. chosen \subseteq awaits
  BY DEF D!Newest
<1>3. known \subseteq D!Issued
  BY DEF PackageInv, PackageTypes
<1>4. D!Issued \subseteq Transactions
  BY UnknownIsNone
<1>5. known \cup skipped \cup final \in SUBSET D!Issued
  BY <1>2, <1>3
<1>6. /\ seen' \subseteq known \cup skipped \cup final
      /\ Room => seen' = known \cup skipped \cup final
  BY <1>1, <1>5, NothingForgotten DEF D!Newest
<1>7. DOMAIN events' = final /\ \A t \in final : events'[t] = D!Kind(t)
  BY <1>1
<1>8. /\ first => known = {} /\ skipped = D!Issued \ chosen
      /\ ~first => known = seen /\ skipped = {}
  OBVIOUS
<1>9. final \subseteq chosen /\ \A t \in final : D!Final(t)
  OBVIOUS
<1>10. \A t \in chosen : t \in D!Issued /\ (t \notin known \/ t \in active)
  BY <1>2
<1>11. skipped \subseteq D!Issued /\ excused' = excused \cup (IF blind THEN D!Issued ELSE skipped)
  BY <1>1
<1> HIDE DEF known, awaits, chosen, skipped, final
<1>12. final \in SUBSET D!Issued /\ chosen \in SUBSET D!Issued /\ known \in SUBSET D!Issued
       /\ skipped \in SUBSET D!Issued
  BY <1>3, <1>9, <1>10, <1>11
<1>13. \A t \in chosen : t \notin known \/ t \in active
  BY <1>10
<1>14. Collected(known, skipped, final, chosen, blind)
  BY <1>6, <1>7, <1>8, <1>9, <1>11, <1>13 DEF Collected
<1> QED BY <1>12, <1>14

(* The kind of an event says what its transaction came to.                   *)
LEMMA KindFacts ==
  ASSUME NEW t, D!Final(t)
  PROVE  /\ D!Kind(t) \in D!Kinds
         /\ D!Kind(t) = "failed" => status[t] = "failed"
         /\ D!Kind(t) = "packages" => t \notin active
         /\ D!Kind(t) \in {"packages", "recovered"} => status[t] = "ok"
  BY DEF D!Final, D!Kind, D!Kinds

(* A collection returns what its memory has not, or what is an open failure. *)
LEMMA CollectsKeep ==
  ASSUME PackageInv, NEW unreadable \in SUBSET Transactions, NEW blind \in BOOLEAN,
         D!Collect(unreadable, blind)
  PROVE  PackageInv'
<1>0. PICK known, skipped, final, chosen \in SUBSET D!Issued :
        Collected(known, skipped, final, chosen, blind)
  BY CollectFacts
<1>1. /\ seen' \subseteq known \cup skipped \cup final
      /\ Room => seen' = known \cup skipped \cup final
      /\ DOMAIN events' = final /\ \A t \in final : events'[t] = D!Kind(t)
      /\ excused' = excused \cup (IF blind THEN D!Issued ELSE skipped)
      /\ blind \/ seen = D!Unknown => known = {} /\ skipped = D!Issued \ chosen
      /\ ~(blind \/ seen = D!Unknown) => known = seen /\ skipped = {}
      /\ final \subseteq chosen /\ \A t \in final : D!Final(t)
      /\ \A t \in chosen : t \notin known \/ t \in active
  BY <1>0 DEF Collected
<1>2. UNCHANGED <<status, active, reported>> /\ pc = "idle" /\ pc' = "collected"
      /\ faults' = IF blind THEN faults + 1 ELSE faults
  BY DEF D!Collect
<1>3. PackageTypes /\ RememberedInv /\ EndedInv /\ OnceInv /\ faults \in Nat /\ \A t : ~InHand(t)
  BY <1>2 DEF PackageInv, PackageTypes, InHand
<1>4. \A t \in Transactions : t \in seen => t \in D!Issued
  BY <1>3, UnknownIsNone DEF PackageTypes
<1>5. \A t : InHand(t)' <=> t \in final
  BY <1>1 DEF InHand
<1>6. \A t \in final : events'[t] \in D!Kinds
  BY <1>1, KindFacts
<1>7. D!Issued' = D!Issued /\ D!Issued \subseteq Transactions
  BY <1>2, UnknownIsNone DEF D!Issued
<1>8. PackageTypes'
  BY <1>1, <1>2, <1>3, <1>6, <1>7 DEF PackageTypes
<1>9. {"packages", "failed", "recovered"} = D!Kinds /\ \A t, k : Reports(t, k)' = Reports(t, k)
  BY <1>2 DEF D!Kinds, Reports
<1>10. \A t \in Transactions, k \in D!Kinds : Reports(t, k) \in Nat
  BY <1>3 DEF PackageTypes, Reports
<1>11. RememberedInv'
  <2> SUFFICES ASSUME NEW t \in Transactions, t \notin excused'
      PROVE /\ t \in seen' => (\E k \in D!Kinds : Reports(t, k) > 0) \/ t \in final
            /\ t \in final =>
                 /\ events'[t] = "failed" => Reports(t, "recovered") = 0
                 /\ events'[t] = "packages" /\ Reports(t, "failed") > 0 => Reports(t, "recovered") > 0
            /\ t \in active => Reports(t, "recovered") = 0
            /\ Reports(t, "failed") > 0 => (t \in active) = (Reports(t, "recovered") = 0)
    BY <1>2, <1>5, <1>9 DEF RememberedInv
  <2>1. t \notin excused /\ t \notin skipped
    BY <1>1
  <2>2. /\ t \in seen => \E k \in D!Kinds : Reports(t, k) > 0
        /\ t \in active => Reports(t, "recovered") = 0
        /\ Reports(t, "failed") > 0 => (t \in active) = (Reports(t, "recovered") = 0)
    BY <1>2, <1>3, <2>1 DEF RememberedInv
  <2>3. t \in seen' => t \in seen \/ t \in final
    BY <1>1, <2>1
  <2>4. t \in final => /\ events'[t] = "packages" => t \notin active
                       /\ events'[t] = "failed" => status[t] = "failed"
    BY <1>1, KindFacts
  <2>5. Reports(t, "recovered") \in Nat /\ (Reports(t, "recovered") > 0 => status[t] = "ok")
    BY <1>3, <1>9, <1>10 DEF EndedInv
  <2> QED BY <2>2, <2>3, <2>4, <2>5
<1>12. EndedInv'
  <2>1. \A t \in final : events'[t] \in {"packages", "recovered"} => status[t] = "ok"
    BY <1>1, KindFacts
  <2> QED BY <1>2, <1>3, <1>5, <1>9, <2>1 DEF EndedInv
<1>13. OnceInv'
  <2>1. Room' = Room
    BY <1>7 DEF Room
  <2> SUFFICES ASSUME Room, NEW t \in Transactions
      PROVE /\ t \in final => t \in seen'
            /\ t \notin seen' => Reports(t, "packages") <= faults'
            /\ t \in final /\ events'[t] = "packages" => Reports(t, "packages") <= faults'
            /\ Reports(t, "packages") <= 1 + faults'
    BY <1>2, <1>5, <1>9, <2>1 DEF OnceInv
  <2>2. /\ t \notin seen => Reports(t, "packages") <= faults
        /\ Reports(t, "packages") <= 1 + faults
    BY <1>3 DEF OnceInv
  <2>3. ~blind /\ t \notin seen' => t \notin seen
    BY <1>1, <1>4, UnknownIsNone
  <2>4. t \in final => t \in seen' /\ (events'[t] = "packages" => t \notin active)
    BY <1>1, KindFacts
  <2>5. ~blind /\ t \in final /\ t \notin active => t \notin seen
    BY <1>1, <1>4, UnknownIsNone
  <2>6. Reports(t, "packages") \in Nat
    BY <1>9, <1>10
  <2> QED BY <1>2, <1>3, <2>2, <2>3, <2>4, <2>5, <2>6
<1> QED BY <1>8, <1>11, <1>12, <1>13 DEF PackageInv

(* The steps of DNF and of the worker together.                              *)
LEMMA NextPackages == ASSUME PackageInv, D!Next PROVE PackageInv'
  BY TransactKeeps, CollectsKeep, InsertKeeps, AlertKeeps, DieKeeps DEF D!Next

(* Another part of the records moves: at most the count of the faults grows.  *)
LEMMA OthersKeepPackages ==
  ASSUME PackageInv, UNCHANGED packageVars, faults' \in Nat, faults' >= faults
  PROVE  PackageInv'
<1>1. UNCHANGED <<status, seen, active, pc, events, reported, excused>>
  BY DEF packageVars
<1>2. PackageTypes'
  BY <1>1 DEF PackageInv, PackageTypes, D!Issued
<1>3. RememberedInv'
  BY <1>1 DEF PackageInv, RememberedInv, Reports, InHand
<1>4. faults \in Nat /\ {"packages", "failed", "recovered"} = D!Kinds
      /\ \A t \in Transactions, k \in D!Kinds : Reports(t, k) \in Nat
  BY DEF PackageInv, PackageTypes, Reports, D!Kinds
<1>5. EndedInv'
  BY <1>1 DEF PackageInv, EndedInv, Reports, InHand
<1>6. OnceInv'
  <2>1. Room' = Room
    BY <1>1 DEF Room, D!Issued
  <2> SUFFICES ASSUME Room, NEW t \in Transactions
      PROVE /\ InHand(t) => t \in seen
            /\ t \notin seen => Reports(t, "packages") <= faults'
            /\ pc = "collected" /\ InHand(t) /\ events[t] = "packages" =>
                 Reports(t, "packages") <= faults'
            /\ Reports(t, "packages") <= 1 + faults'
    BY <1>1, <2>1 DEF OnceInv, Reports, InHand
  <2> QED BY <1>4 DEF PackageInv, OnceInv
<1> QED BY <1>2, <1>3, <1>5, <1>6 DEF PackageInv

(* The invariant says what is promised of the transactions.                  *)
LEMMA ReportedAll == PackageInv => D!EveryTransactionReported
<1> SUFFICES ASSUME PackageInv PROVE D!EveryTransactionReported
  OBVIOUS
<1>1. {"packages", "failed", "recovered"} = D!Kinds
  BY DEF D!Kinds
<1>2. \A t \in Transactions : Reports(t, "packages") > 0 =>
        /\ status[t] = "ok"
        /\ D!Cardinality(D!Issued) <= Keep => Reports(t, "packages") <= 1 + faults
  BY DEF PackageInv, EndedInv, OnceInv, Room, D!Cardinality, Cardinality
<1>3. ASSUME pc = "idle", seen # D!Unknown, NEW t \in seen \ excused
      PROVE  /\ \E k \in D!Kinds : Reports(t, k) > 0
             /\ Reports(t, "failed") > 0 => (t \in active) = (Reports(t, "recovered") = 0)
  <2>1. t \in Transactions \ excused
    BY <1>3, UnknownIsNone DEF PackageInv, PackageTypes
  <2> QED BY <1>3, <2>1 DEF PackageInv, RememberedInv
<1> QED BY <1>2, <1>3 DEF D!EveryTransactionReported, Reports

-----------------------------------------------------------------------------
(* What the host watch remembers.                                            *)

(* Nothing lies in the future, and the monotonic clock is not ahead.         *)
HostTypes ==
  /\ time \in 1..MaxWatch /\ ran \in Nat /\ ran <= time
  /\ up \in Nat /\ up > 0 /\ up <= time
  /\ errors \subseteq 1..MaxWatch /\ (\A t \in errors : t <= time)
  /\ listed \subseteq errors /\ older \subseteq errors
  /\ found \in [1..MaxWatch -> Nat]
  /\ unit \in [state : H!UnitStates, exit : Nat, at : Nat] /\ unit.exit <= up /\ unit.at <= time
  /\ wall \in Nat /\ wall <= time /\ stood \subseteq [at : Nat, up : Nat]

(* A search has had its chance at an error: a collection succeeded since, or *)
(* none returns it any more.                                                 *)
Passed(t) == t < ran \/ t \in older \/ t \in listed \/ t + Lookback < time

(* Such an error was returned, or went with a death, a failed search, a      *)
(* reboot or a sleep; and while the memory has room it was returned once.    *)
SearchInv ==
  /\ \A t \in errors \ missed : Passed(t) => found[t] >= 1
  /\ Cardinality(errors) <= Memory =>
       \A t \in 1..MaxWatch : found[t] <= 1 /\ (found[t] = 1 => t \in listed)

(* The samples under the plain name are those of the sensor that owns it.    *)
SeriesInv ==
  /\ pin = H!Unpinned => samples = {}
  /\ \A x \in samples : x[1] = H!Series(pin, x[2])

(* What is remembered of the oneshot is not before the latest success that   *)
(* stood at a collection, and not so late that the host was awake for longer *)
(* since then than it was since one of these; and the verdict was given on   *)
(* it.                                                                       *)
ServiceInv ==
  /\ stood = {} => wall = 0
  /\ stood # {} => /\ wall > 0 /\ \A t \in stood : t.at <= wall
                   /\ \E t \in stood : time + t.up >= up + wall
  /\ unit.exit > 0 => /\ \A t \in stood : t.at <= unit.at
                      /\ time + unit.exit >= up + unit.at
  /\ H!FreshnessIsRemembered

(* All of it.                                                                *)
HostInv == HostTypes /\ SearchInv /\ SeriesInv /\ ServiceInv

(* At first nothing was logged, sensed or judged.                            *)
LEMMA InitHost == ASSUME H!Init PROVE HostInv
<1>1. HostTypes
  <2>1. /\ time = 1 /\ ran = 1 /\ up = 1 /\ unit = [state |-> "success", exit |-> 0, at |-> 0]
        /\ found = [t \in 1..MaxWatch |-> 0]
    BY DEF H!Init
  <2>2. unit \in [state : H!UnitStates, exit : Nat, at : Nat] /\ unit.exit = 0 /\ unit.at = 0
    BY <2>1 DEF H!UnitStates
  <2>3. found \in [1..MaxWatch -> Nat]
    BY <2>1
  <2> QED BY <2>1, <2>2, <2>3, HostAssumption DEF H!Init, HostTypes
<1>2. SearchInv /\ SeriesInv
  BY DEF H!Init, SearchInv, SeriesInv
<1>3. ServiceInv
  BY DEF H!Init, ServiceInv, H!FreshnessIsRemembered
<1> QED BY <1>1, <1>2, <1>3 DEF HostInv

(* Time passes, but not beyond the slack of the timer; or the host sleeps    *)
(* for longer, and errors leave the stretch that is searched.                *)
LEMMA TickKeeps == ASSUME HostInv, H!Tick \/ H!Sleep PROVE HostInv'
<1>1. /\ UNCHANGED <<ran, errors, older, listed, found, pin, samples, unit, wall, stood, verdict>>
      /\ time' = time + 1 /\ time < MaxWatch /\ (up' = up \/ up' = up + 1)
  BY DEF H!Tick, H!Sleep, H!journal, H!sensing, H!service
<1>2. HostTypes'
  <2>1. time \in Nat /\ up \in Nat /\ up <= time /\ up > 0 /\ ran \in Nat /\ ran <= time /\ wall \in Nat
        /\ wall <= time /\ unit.exit \in Nat /\ unit.exit <= up /\ unit.at \in Nat /\ unit.at <= time
        /\ time \in 1..MaxWatch
    BY DEF HostInv, HostTypes
  <2>2. time' \in 1..MaxWatch /\ ran <= time' /\ up' \in Nat /\ up' > 0 /\ up' <= time' /\ wall <= time'
        /\ unit.exit <= up' /\ unit.at <= time'
    BY <1>1, <2>1, HostAssumption
  <2>3. \A t \in errors : t <= time'
    BY <1>1, <2>1 DEF HostInv, HostTypes
  <2> QED BY <1>1, <2>2, <2>3 DEF HostInv, HostTypes
<1>3. SeriesInv'
  BY <1>1 DEF HostInv, SeriesInv
<1>4. SearchInv'
  <2>1. ASSUME NEW t \in errors, t \notin missed', Passed(t)' PROVE t \notin missed /\ Passed(t)
    <3>1. t \in Nat /\ ran \in Nat /\ time \in Nat
      BY DEF HostInv, HostTypes
    <3>2. CASE H!Tick
      <4>1. missed' = missed /\ time - ran < Period + Slack
        BY <3>2 DEF H!Tick, H!journal
      <4> QED BY <1>1, <2>1, <3>1, <4>1, HostAssumption DEF Passed
    <3>3. CASE H!Sleep
      <4>1. missed' = missed \cup {e \in errors \ listed : e + Lookback < time'}
        BY <3>3 DEF H!Sleep
      <4> QED BY <1>1, <2>1, <4>1 DEF Passed
    <3> QED BY <3>2, <3>3
  <2> QED BY <1>1, <2>1 DEF HostInv, SearchInv
<1>5. ServiceInv'
  <2>0. time \in Nat /\ up \in Nat
    BY DEF HostInv, HostTypes
  <2>1. \A a, b \in Nat : time + a >= up + b => time' + a >= up' + b
    BY <1>1, <2>0
  <2>2. wall \in Nat /\ unit.exit \in Nat /\ unit.at \in Nat /\ \A t \in stood : t.up \in Nat
    BY DEF HostInv, HostTypes
  <2> QED BY <1>1, <2>1, <2>2 DEF HostInv, ServiceInv, H!FreshnessIsRemembered
<1> QED BY <1>2, <1>3, <1>4, <1>5 DEF HostInv

(* An error that the kernel logs now, no search has had its chance at.       *)
LEMMA LogErrorKeeps == ASSUME HostInv, H!LogError PROVE HostInv'
<1>1. UNCHANGED <<time, ran, up, older, listed, found, missed, pin, samples, unit, wall, stood, verdict>>
      /\ errors' = errors \cup {time} /\ time \notin errors
  BY DEF H!LogError, H!sensing, H!service
<1>2. HostTypes'
  BY <1>1, HostAssumption DEF HostInv, HostTypes
<1>3. SeriesInv'
  BY <1>1 DEF HostInv, SeriesInv
<1>4. SearchInv'
  <2>1. ~Passed(time)
    BY <1>1, HostAssumption DEF HostInv, HostTypes, Passed
  <2>2. Cardinality(errors') <= Memory => Cardinality(errors) <= Memory
    <3>1. errors' \subseteq 1..MaxWatch /\ IsFiniteSet(1..MaxWatch)
      BY <1>2, FS_Interval, HostAssumption DEF HostTypes
    <3>2. IsFiniteSet(errors')
      BY <3>1, FS_Subset
    <3>3. IsFiniteSet(errors) /\ Cardinality(errors) <= Cardinality(errors')
      BY <1>1, <3>2, FS_Subset
    <3>4. Cardinality(errors) \in Nat /\ Cardinality(errors') \in Nat /\ Memory \in Nat
      BY <3>2, <3>3, FS_CardinalityType, HostAssumption
    <3> QED BY <3>3, <3>4
  <2>3. \A t : Passed(t)' <=> Passed(t)
    BY <1>1 DEF Passed
  <2>4. \A t \in errors' \ missed' : Passed(t)' => found'[t] >= 1
    BY <1>1, <2>1, <2>3 DEF HostInv, SearchInv
  <2> QED BY <1>1, <2>2, <2>4 DEF HostInv, SearchInv
<1>5. ServiceInv'
  BY <1>1 DEF HostInv, ServiceInv, H!FreshnessIsRemembered
<1> QED BY <1>2, <1>3, <1>4, <1>5 DEF HostInv

(* The service runs.                                                         *)
LEMMA RunKeeps == ASSUME HostInv, NEW to \in H!UnitStates, H!Run(to) PROVE HostInv'
<1>1. UNCHANGED <<time, ran, up, errors, older, listed, found, missed, pin, samples, wall, stood, verdict>>
  BY DEF H!Run, H!journal, H!sensing
<1>2. \E e \in {0, up}, a \in {0, time} :
        unit' = [state |-> to, exit |-> e, at |-> a] /\ (e > 0 => e = up /\ a = time)
  BY DEF H!Run
<1>3. up \in Nat /\ time \in Nat /\ wall \in Nat /\ wall <= time /\ \A t \in stood : t.at \in Nat
  BY DEF HostInv, HostTypes
<1>4. /\ unit' \in [state : H!UnitStates, exit : Nat, at : Nat] /\ unit'.exit <= up /\ unit'.at <= time
      /\ unit'.exit > 0 => unit'.exit = up /\ unit'.at = time
  BY <1>2, <1>3
<1>5. HostTypes'
  BY <1>1, <1>4 DEF HostInv, HostTypes
<1>6. SearchInv' /\ SeriesInv'
  BY <1>1 DEF HostInv, SearchInv, SeriesInv, Passed
<1>7. ServiceInv'
  <2>1. \A t \in stood : t.at <= time
    BY <1>3 DEF HostInv, ServiceInv
  <2>2. unit'.exit > 0 => /\ \A t \in stood : t.at <= unit'.at
                          /\ time + unit'.exit >= up + unit'.at
    BY <1>3, <1>4, <2>1
  <2> QED BY <1>1, <2>2 DEF HostInv, ServiceInv, H!FreshnessIsRemembered
<1> QED BY <1>5, <1>6, <1>7 DEF HostInv

(* The host boots: what it logged before is out of reach, and systemd has    *)
(* forgotten that the service ran.                                           *)
LEMMA RebootKeeps == ASSUME HostInv, H!Reboot PROVE HostInv'
<1>1. /\ UNCHANGED <<time, ran, up, errors, listed, found, pin, samples, wall, stood, verdict>>
      /\ unit' = [state |-> "success", exit |-> 0, at |-> 0]
      /\ older' = errors /\ missed' = missed \cup (errors \ listed)
  BY DEF H!Reboot, H!sensing
<1>2. unit' \in [state : H!UnitStates, exit : Nat, at : Nat] /\ unit'.exit = 0 /\ unit'.at = 0
  BY <1>1 DEF H!UnitStates
<1>3. HostTypes'
  BY <1>1, <1>2 DEF HostInv, HostTypes
<1>4. SearchInv' /\ SeriesInv'
  BY <1>1 DEF HostInv, SearchInv, SeriesInv, Passed
<1>5. ServiceInv'
  BY <1>1, <1>2 DEF HostInv, ServiceInv, H!FreshnessIsRemembered
<1> QED BY <1>3, <1>4, <1>5 DEF HostInv

(* What is remembered of the old and the new is some of it, and all of it    *)
(* while there is room.                                                      *)
LEMMA RememberedFacts ==
  ASSUME IsFiniteSet(errors), listed \subseteq errors,
         NEW new \in SUBSET errors, NEW kept \in H!Remembered(new)
  PROVE  /\ kept \subseteq listed \cup new
         /\ Cardinality(errors) <= Memory => kept = listed \cup new
<1> DEFINE both == listed \cup new
<1>1. kept \subseteq both /\ H!Cardinality(kept) = H!Min({Memory, H!Cardinality(both)})
  BY DEF H!Remembered
<1>2. \A T : H!Cardinality(T) = Cardinality(T)
  BY DEF H!Cardinality, Cardinality
<1>3. both \subseteq errors
  OBVIOUS
<1> HIDE DEF both
<1>4. IsFiniteSet(both) /\ Cardinality(both) <= Cardinality(errors)
  BY <1>3, FS_Subset
<1>5. Cardinality(both) \in Nat /\ Cardinality(errors) \in Nat /\ Memory \in Nat
  BY <1>4, FS_CardinalityType, HostAssumption
<1>6. ASSUME Cardinality(errors) <= Memory PROVE kept = both
  <2>1. Cardinality(both) <= Memory
    BY <1>4, <1>5, <1>6
  <2>2. H!Min({Memory, Cardinality(both)}) = Cardinality(both)
    <3> DEFINE two == {Memory, Cardinality(both)}
               least == CHOOSE x \in two : \A y \in two : x <= y
    <3>1. \E x \in two : \A y \in two : x <= y
      BY <1>5, <2>1
    <3>2. least \in two /\ \A y \in two : least <= y
      BY <3>1
    <3>3. H!Min(two) = least
      BY DEF H!Min
    <3>4. least = Cardinality(both)
      <4> HIDE DEF least
      <4> QED BY <1>5, <2>1, <3>2
    <3> QED BY <3>3, <3>4
  <2>3. Cardinality(kept) = Cardinality(both)
    BY <1>1, <1>2, <2>2
  <2> QED BY <1>1, <1>4, <2>3, FS_Subset
<1> QED BY <1>1, <1>6 DEF both

(* A search covers all that was logged in this boot since the collection     *)
(* before, and returns what it does not remember.                            *)
LEMMA SearchKeeps ==
  ASSUME HostInv, NEW answers \in BOOLEAN, NEW dies \in BOOLEAN, H!Search(answers, dies),
         UNCHANGED <<time, errors, older>>, ran' = IF dies THEN ran ELSE time
  PROVE  /\ SearchInv' /\ listed' \subseteq errors' /\ found' \in [1..MaxWatch -> Nat]
<1> DEFINE new == {t \in errors : H!Within(t)} \ listed
<1>1. /\ answers => /\ listed' \in H!Remembered(new)
                    /\ found' = [t \in DOMAIN found |->
                                   IF t \in new /\ ~dies THEN found[t] + 1 ELSE found[t]]
                    /\ missed' = IF dies THEN missed \cup new ELSE missed
      /\ ~answers => missed' = missed \cup new /\ listed' = listed /\ found' = found
  BY DEF H!Search
<1>2. HostTypes /\ SearchInv
  BY DEF HostInv
<1>3. found \in [1..MaxWatch -> Nat] /\ errors \subseteq 1..MaxWatch /\ listed \subseteq errors
      /\ ran \in Nat /\ time \in Nat /\ \A t \in errors : t \in Nat /\ found[t] \in Nat
  BY <1>2 DEF HostTypes
<1>4. \A t \in errors \ new : t \in listed \/ t \in older \/ t + Lookback < time
  BY <1>3, HostAssumption DEF H!Within
<1>5. new \subseteq errors \ listed
  OBVIOUS
<1> HIDE DEF new
<1>6. IsFiniteSet(errors)
  <2>1. IsFiniteSet(1..MaxWatch)
    BY FS_Interval, HostAssumption
  <2> QED BY <1>3, <2>1, FS_Subset
<1>7. /\ listed' \subseteq listed \cup new
      /\ answers /\ Cardinality(errors) <= Memory => listed' = listed \cup new
  BY <1>1, <1>3, <1>5, <1>6, RememberedFacts
<1>8. /\ found' \in [1..MaxWatch -> Nat]
      /\ \A t \in 1..MaxWatch : found'[t] = IF t \in new /\ answers /\ ~dies THEN found[t] + 1
                                            ELSE found[t]
  <2>1. CASE ~answers
    BY <1>1, <1>3, <2>1
  <2>2. CASE answers
    <3>1. DOMAIN found = 1..MaxWatch /\ \A t \in 1..MaxWatch : found[t] \in Nat
      BY <1>3
    <3>2. found' = [t \in 1..MaxWatch |-> IF t \in new /\ ~dies THEN found[t] + 1 ELSE found[t]]
      BY <1>1, <2>2, <3>1
    <3> QED BY <2>2, <3>1, <3>2
  <2> QED BY <2>1, <2>2
<1>9. ASSUME NEW t \in errors, t \notin missed', Passed(t)' PROVE found'[t] >= 1
  <2>1. t \in 1..MaxWatch /\ found[t] \in Nat /\ t \notin missed
    BY <1>1, <1>3, <1>9
  <2>2. CASE t \in new
    BY <1>1, <1>8, <1>9, <2>1, <2>2
  <2>3. CASE t \notin new
    <3>1. Passed(t)
      BY <1>4, <2>3 DEF Passed
    <3> QED BY <1>2, <1>8, <2>1, <2>3, <3>1 DEF SearchInv
  <2> QED BY <2>2, <2>3
<1>10. ASSUME Cardinality(errors) <= Memory, NEW t \in 1..MaxWatch
       PROVE  found'[t] <= 1 /\ (found'[t] = 1 => t \in listed')
  <2>1. found[t] \in Nat /\ found[t] <= 1 /\ (found[t] = 1 => t \in listed)
    BY <1>2, <1>3, <1>10 DEF SearchInv
  <2>2. t \in new => t \notin listed /\ found[t] = 0
    BY <1>5, <2>1
  <2>3. answers => listed' = listed \cup new
    BY <1>7, <1>10
  <2> QED BY <1>1, <1>8, <2>1, <2>2, <2>3
<1>11. listed' \subseteq errors'
  BY <1>3, <1>5, <1>7
<1>12. SearchInv'
  BY <1>9, <1>10 DEF SearchInv
<1> QED BY <1>8, <1>11, <1>12

(* A series belongs to the sensor that had it first, also while it is absent. *)
LEMMA SenseKeeps ==
  ASSUME SeriesInv, NEW present \in SUBSET Sensors, NEW first \in Sensors, H!Sense(present, first)
  PROVE  SeriesInv'
<1>1. CASE present = {}
  BY <1>1 DEF H!Sense, H!sensing, SeriesInv
<1>2. CASE present # {}
  <2>1. pin' = H!Owner(first)
        /\ samples' = samples \cup {<<H!Series(H!Owner(first), s), s>> : s \in present}
    BY <1>2 DEF H!Sense
  <2>2. pin' # H!Unpinned \/ pin = H!Unpinned
    BY <2>1 DEF H!Owner
  <2>3. pin' # H!Unpinned
    BY <2>1, HostAssumption DEF H!Owner, H!Unpinned
  <2>4. \A x \in samples : x[1] = H!Series(pin', x[2])
    BY <2>1 DEF H!Owner, SeriesInv
  <2>5. \A x \in {<<H!Series(H!Owner(first), s), s>> : s \in present} : x[1] = H!Series(pin', x[2])
    BY <2>1
  <2> QED BY <2>1, <2>3, <2>4, <2>5 DEF SeriesInv
<1> QED BY <1>1, <1>2

(* The latest success is remembered across the reboots, and judged.          *)
LEMMA ServeKeeps ==
  ASSUME HostInv, NEW served \in BOOLEAN, H!Serve(served), UNCHANGED <<time, up>>
  PROVE  /\ ServiceInv' /\ wall' \in Nat /\ wall' <= time' /\ stood' \subseteq [at : Nat, up : Nat]
         /\ unit' = unit
<1>1. HostTypes /\ ServiceInv /\ unit' = unit
  BY DEF HostInv, H!Serve
<1>2. /\ unit.exit \in Nat /\ unit.at \in Nat /\ wall \in Nat /\ time \in Nat /\ up \in Nat
      /\ up > 0 /\ up <= time /\ unit.exit <= up /\ unit.at <= time /\ wall <= time
      /\ unit.state \in {"success", "failed", "running"}
      /\ stood \subseteq [at : Nat, up : Nat]
  BY <1>1 DEF HostTypes, H!UnitStates
<1>3. CASE ~served
  <2>1. wall' = 0 /\ stood' = {}
    BY <1>3 DEF H!Serve
  <2> QED BY <1>1, <1>2, <2>1 DEF ServiceInv, H!FreshnessIsRemembered
<1>4. CASE served
  <2> DEFINE it == [at |-> unit.at, up |-> unit.exit]
  <2>1. /\ wall' = H!LastSuccess
        /\ stood' = stood \cup (IF H!Succeeded THEN {it} ELSE {})
        /\ verdict' = [at |-> time, up |-> up, state |-> unit.state,
                       fresh |-> /\ unit.state \in {"success", "running"}
                                 /\ H!LastSuccess > 0 /\ H!LastSuccess + Fresh >= time]
    BY <1>4 DEF H!Serve
  <2>2. it \in [at : Nat, up : Nat] /\ it.at = unit.at /\ it.up = unit.exit
    BY <1>2
  <2> HIDE DEF it
  <2>3. /\ wall' \in Nat /\ wall' <= time /\ stood' \subseteq [at : Nat, up : Nat]
        /\ stood' = {} => wall' = 0
        /\ stood' # {} => /\ wall' > 0 /\ \A t \in stood' : t.at <= wall'
                          /\ \E t \in stood' : time + t.up >= up + wall'
        /\ unit.exit > 0 => \A t \in stood' : t.at <= unit.at
    <3>1. CASE H!Succeeded
      <4>1. unit.exit > 0 /\ wall' = time - (up - unit.exit) /\ stood' = stood \cup {it}
        BY <2>1, <3>1 DEF H!LastSuccess, H!Succeeded
      <4>2. (\A t \in stood : t.at <= unit.at) /\ time + unit.exit >= up + unit.at
        BY <1>1, <4>1 DEF ServiceInv
      <4>3. wall' \in Nat /\ wall' <= time /\ wall' > 0 /\ unit.at <= wall'
            /\ time + unit.exit >= up + wall'
        BY <1>2, <4>1, <4>2
      <4>4. \A t \in stood' : t.at \in Nat /\ t.at <= unit.at
        BY <1>2, <2>2, <4>1, <4>2
      <4>5. stood' # {} /\ it \in stood' /\ stood' \subseteq [at : Nat, up : Nat]
        BY <1>2, <2>2, <4>1
      <4> QED BY <1>2, <2>2, <4>3, <4>4, <4>5
    <3>2. CASE ~H!Succeeded
      <4>1. wall' = wall /\ stood' = stood
        BY <2>1, <3>2 DEF H!LastSuccess
      <4> QED BY <1>1, <1>2, <4>1 DEF ServiceInv
    <3> QED BY <3>1, <3>2
  <2>4. /\ verdict'.at = time /\ verdict'.up = up /\ verdict'.state = unit.state
        /\ verdict'.fresh <=> unit.state # "failed" /\ wall' > 0 /\ wall' + Fresh >= time
    BY <1>2, <2>1
  <2>5. ASSUME NEW t \in stood', t.at + Fresh >= time PROVE wall' > 0 /\ wall' + Fresh >= time
    <3>1. t.at \in Nat /\ wall' \in Nat /\ Fresh \in Nat /\ t.at <= wall' /\ wall' > 0
      BY <2>3, HostAssumption
    <3>2. \A a, w, l, n \in Nat : a <= w /\ a + l >= n => w + l >= n
      OBVIOUS
    <3> QED BY <1>2, <2>5, <3>1, <3>2
  <2>6. ASSUME stood' # {}, wall' + Fresh >= time PROVE \E t \in stood' : t.up + Fresh >= up
    <3>1. PICK t \in stood' : time + t.up >= up + wall'
      BY <2>3, <2>6
    <3>2. t.up \in Nat /\ wall' \in Nat /\ Fresh \in Nat
      BY <2>3, HostAssumption
    <3>3. \A a, w, l, n, u \in Nat : n + a >= u + w /\ w + l >= n => a + l >= u
      OBVIOUS
    <3>4. t.up + Fresh >= up
      BY <1>2, <2>6, <3>1, <3>2, <3>3
    <3> QED BY <3>4
  <2>7. H!FreshnessIsRemembered'
    <3> SUFFICES ASSUME stood' # {}
        PROVE /\ unit.state # "failed" /\ (\E t \in stood' : t.at + Fresh >= time) => verdict'.fresh
              /\ verdict'.fresh => /\ unit.state # "failed"
                                   /\ \E t \in stood' : t.up + Fresh >= up
      BY <2>4 DEF H!FreshnessIsRemembered
    <3> QED BY <2>4, <2>5, <2>6
  <2>8. unit'.exit > 0 => /\ \A t \in stood' : t.at <= unit'.at
                          /\ time' + unit'.exit >= up' + unit'.at
    BY <1>1, <2>3 DEF ServiceInv
  <2> QED BY <1>1, <2>3, <2>7, <2>8 DEF ServiceInv
<1> QED BY <1>3, <1>4

(* One collection searches, senses and asks for the service.                 *)
LEMMA WatchKeeps ==
  ASSUME HostInv, NEW answers \in BOOLEAN, NEW served \in BOOLEAN, NEW dies \in BOOLEAN,
         NEW present \in SUBSET Sensors, NEW first \in Sensors,
         H!Collect(answers, served, dies, present, first)
  PROVE  HostInv'
<1>1. /\ H!Search(answers, dies) /\ H!Sense(present, first) /\ H!Serve(served)
      /\ UNCHANGED <<time, up, errors, older>> /\ ran' = IF dies THEN ran ELSE time
  BY DEF H!Collect
<1>2. SearchInv' /\ listed' \subseteq errors' /\ found' \in [1..MaxWatch -> Nat]
  BY <1>1, SearchKeeps
<1>3. SeriesInv'
  BY <1>1, SenseKeeps DEF HostInv
<1>4. /\ ServiceInv' /\ wall' \in Nat /\ wall' <= time' /\ stood' \subseteq [at : Nat, up : Nat]
      /\ unit' = unit
  BY <1>1, ServeKeeps
<1>5. HostTypes'
  <2>1. HostTypes /\ UNCHANGED <<time, up, errors, older, unit>>
    BY <1>1, <1>4 DEF HostInv
  <2>2. ran' \in Nat /\ ran' <= time'
    BY <1>1, <2>1 DEF HostTypes
  <2> QED BY <1>2, <1>4, <2>1, <2>2 DEF HostTypes
<1> QED BY <1>2, <1>3, <1>4, <1>5 DEF HostInv

(* The steps of the host and of the collections together.                    *)
LEMMA NextHost == ASSUME HostInv, H!Next PROVE HostInv'
  BY TickKeeps, LogErrorKeeps, RunKeeps, RebootKeeps, WatchKeeps DEF H!Next

(* Another part of the records moves.                                        *)
LEMMA OthersKeepHost == ASSUME HostInv, UNCHANGED hostVars PROVE HostInv'
<1>1. UNCHANGED <<time, ran, up, errors, older, listed, found, missed, pin, samples, unit, wall,
                  stood, verdict>>
  BY DEF hostVars
<1>2. HostTypes'
  BY <1>1 DEF HostInv, HostTypes
<1>3. SearchInv' /\ SeriesInv'
  BY <1>1 DEF HostInv, SearchInv, SeriesInv, Passed
<1>4. ServiceInv'
  BY <1>1 DEF HostInv, ServiceInv, H!FreshnessIsRemembered
<1> QED BY <1>2, <1>3, <1>4 DEF HostInv

(* The series of a sensor keeps its name, and no other sensor gets it.       *)
LEMMA SeriesAreKept == SeriesInv => H!SeriesKeepTheirSensor
<1>1. \A s, u : H!Series(pin, s) = H!Series(pin, u) <=> s = u
  BY DEF H!Series
<1> QED BY <1>1 DEF SeriesInv, H!SeriesKeepTheirSensor

(* What a search had its chance at was returned, and once while there was    *)
(* room.                                                                     *)
LEMMA FoundOnce == HostTypes /\ SearchInv => H!ErrorsFoundOnce
<1>1. H!Cardinality(errors) = Cardinality(errors)
  BY DEF H!Cardinality, Cardinality
<1> QED BY <1>1 DEF HostTypes, SearchInv, Passed, H!ErrorsFoundOnce

-----------------------------------------------------------------------------
(* The hooks of a boot, one at a time.                                       *)

(* What the hooks keep, and the hooks.                                       *)
StateSet == [set : BOOLEAN, boot : Nat, clean : BOOLEAN]
HookSet  == [pc : {"none", "started", "read", "concluded"}, read : StateSet]

(* The hook of action a runs.                                                *)
AtWork(a) == hook[a].pc # "none"

(* At most one hook is at work, and it read what is still stored.            *)
HookInv ==
  /\ thisBoot \in Nat /\ state \in StateSet /\ state.boot <= thisBoot
  /\ power \in {"off", "up", "asleep", "stopping"} /\ (power # "off" => thisBoot > 0)
  /\ hook \in [L!Actions -> HookSet]
  /\ \A a, b \in L!Actions : AtWork(a) /\ AtWork(b) => a = b
  /\ \A a \in L!Actions :
       /\ hook[a].pc \in {"read", "concluded"} => hook[a].read = state
       /\ AtWork(a) => power # "off" /\ (power = "stopping" <=> a = "shutdown")

(* A boot with r recorded before it is one after an unclean end: r has no     *)
(* clean one, or none is recorded and a sleep hook of an earlier boot wrote. *)
Unclean(r, b) == r \notin clean /\ (r # 0 \/ \E c \in slept : c < b)

(* The flag says of the recorded boot whether its shutdown wrote it, there   *)
(* is a state once some hook wrote, and a boot is judged once, by the one    *)
(* recorded before.                                                          *)
EndsInv ==
  /\ clean \subseteq 1..thisBoot /\ unclean \subseteq 1..thisBoot /\ DOMAIN judged \subseteq 1..thisBoot
  /\ slept \subseteq 1..thisBoot
  /\ state.clean <=> state.boot \in clean
  /\ state.set <=> state.boot # 0 \/ slept # {}
  /\ power \in {"up", "asleep"} => thisBoot \notin clean
  /\ \A b \in DOMAIN judged : judged[b] \in Nat /\ judged[b] < b
  /\ \A b \in DOMAIN judged : b \in unclean <=> Unclean(judged[b], b)

(* The boot hook has not written yet, and concludes from the state it read.  *)
JudgeInv ==
  AtWork("boot") =>
    /\ power = "up" /\ state.boot < thisBoot /\ thisBoot \notin DOMAIN judged /\ thisBoot \notin slept
    /\ hook["boot"].pc # "concluded" => thisBoot \notin unclean
    /\ hook["boot"].pc = "concluded" => (thisBoot \in unclean <=> Unclean(state.boot, thisBoot))

(* All of it.                                                                *)
BootInv == HookInv /\ EndsInv /\ JudgeInv

(* The records of the hooks have their fields.                               *)
LEMMA HookFacts ==
  /\ L!NoHook \in HookSet /\ L!NoHook.pc = "none" /\ L!NoState \in StateSet
  /\ \A s \in StateSet, c \in {"started", "read"} :
       [pc |-> c, read |-> s] \in HookSet /\ [pc |-> c, read |-> s].pc = c
       /\ [pc |-> c, read |-> s].read = s
  /\ \A h \in HookSet : h.read \in StateSet
  BY DEF L!NoHook, L!NoState, HookSet, StateSet

(* Before the first boot nothing is recorded.                                *)
LEMMA InitBoots == ASSUME L!Init PROVE BootInv
<1>1. thisBoot = 0 /\ power = "off" /\ state = L!NoState /\ unclean = {} /\ clean = {} /\ slept = {}
      /\ DOMAIN judged = {} /\ hook = [a \in L!Actions |-> L!NoHook]
  BY DEF L!Init
<1>2. state.boot = 0 /\ ~state.set /\ ~state.clean /\ state \in StateSet
  BY <1>1, HookFacts DEF L!NoState
<1>3. hook \in [L!Actions -> HookSet] /\ \A a \in L!Actions : ~AtWork(a) /\ hook[a].pc = "none"
  BY <1>1, HookFacts DEF AtWork
<1>4. HookInv
  BY <1>1, <1>2, <1>3 DEF HookInv
<1>5. EndsInv
  BY <1>1, <1>2 DEF EndsInv
<1>6. JudgeInv
  BY <1>3 DEF JudgeInv, L!Actions
<1> QED BY <1>4, <1>5, <1>6 DEF BootInv

(* What was recorded and judged stays true while nobody writes.              *)
LEMMA EndsStay ==
  ASSUME EndsInv, UNCHANGED <<thisBoot, state, unclean, clean, slept, judged>>,
         power' \in {"up", "asleep"} => power \in {"up", "asleep"}
  PROVE  EndsInv'
  BY DEF EndsInv, Unclean

(* systemd starts the hook of a transition while none is at work.            *)
LEMMA StartHook ==
  ASSUME BootInv, NEW a \in L!Actions, L!Start(a), \A b \in L!Actions : ~AtWork(b)
  PROVE  /\ hook' \in [L!Actions -> HookSet] /\ hook'[a].pc = "started"
         /\ \A b \in L!Actions : AtWork(b)' <=> b = a
         /\ \A b \in L!Actions : hook'[b].pc \notin {"read", "concluded"}
<1>1. hook \in [L!Actions -> HookSet] /\ \A b \in L!Actions : hook[b].pc = "none"
  BY DEF BootInv, HookInv, AtWork
<1> DEFINE h == [pc |-> "started", read |-> L!NoState]
<1>2. h \in HookSet /\ h.pc = "started"
  BY HookFacts
<1>3. hook' = [hook EXCEPT ![a] = h]
  BY DEF L!Start
<1> HIDE DEF h
<1>4. hook' \in [L!Actions -> HookSet] /\ hook'[a] = h /\ \A b \in L!Actions \ {a} : hook'[b] = hook[b]
  BY <1>1, <1>2, <1>3
<1> QED BY <1>1, <1>2, <1>4 DEF AtWork

(* No hook is at work while the host is off.                                 *)
LEMMA QuietWhen ==
  ASSUME BootInv, power = "off" \/ L!Quiet PROVE \A b \in L!Actions : ~AtWork(b)
  BY DEF BootInv, HookInv, AtWork, L!Quiet

(* The host boots, and its hook has not concluded.                           *)
LEMMA BootKeeps == ASSUME BootInv, L!Boot PROVE BootInv'
<1>1. UNCHANGED <<state, unclean, clean, slept, judged>> /\ thisBoot' = thisBoot + 1 /\ power = "off"
      /\ power' = "up" /\ L!Start("boot") /\ "boot" \in L!Actions
  BY DEF L!Boot, L!Actions
<1>2. /\ hook' \in [L!Actions -> HookSet] /\ hook'["boot"].pc = "started"
      /\ \A b \in L!Actions : AtWork(b)' <=> b = "boot"
      /\ \A b \in L!Actions : hook'[b].pc \notin {"read", "concluded"}
  BY <1>1, QuietWhen, StartHook
<1>3. thisBoot \in Nat /\ state \in StateSet /\ state.boot <= thisBoot /\ state.boot \in Nat
  BY DEF BootInv, HookInv, StateSet
<1>4. HookInv'
  BY <1>1, <1>2, <1>3 DEF HookInv
<1>5. EndsInv'
  BY <1>1, <1>3 DEF BootInv, EndsInv, Unclean
<1>6. JudgeInv'
  BY <1>1, <1>2, <1>3 DEF BootInv, EndsInv, JudgeInv
<1> QED BY <1>4, <1>5, <1>6 DEF BootInv

(* The host sleeps, wakes or stops, each once no hook is at work.            *)
LEMMA TransitionKeeps ==
  ASSUME BootInv, ~Overlap, L!Sleep \/ L!Wake \/ L!Stop
  PROVE  BootInv'
<1>1. UNCHANGED <<thisBoot, state, unclean, clean, slept, judged>> /\ L!Quiet
      /\ power \in {"up", "asleep"}
  BY DEF L!Sleep, L!Wake, L!Stop
<1>2. PICK a \in L!Actions : /\ L!Start(a) /\ a # "boot" /\ power' \in {"up", "asleep", "stopping"}
                             /\ power' = "stopping" <=> a = "shutdown"
  BY DEF L!Sleep, L!Wake, L!Stop, L!Actions
<1>3. /\ hook' \in [L!Actions -> HookSet]
      /\ \A b \in L!Actions : AtWork(b)' <=> b = a
      /\ \A b \in L!Actions : hook'[b].pc \notin {"read", "concluded"}
  BY <1>1, <1>2, QuietWhen, StartHook
<1>4. HookInv'
  BY <1>1, <1>2, <1>3 DEF BootInv, HookInv
<1>5. EndsInv'
  BY <1>1, <1>2, EndsStay DEF BootInv
<1>6. JudgeInv'
  BY <1>2, <1>3 DEF JudgeInv, L!Actions
<1> QED BY <1>4, <1>5, <1>6 DEF BootInv

(* The host is off, or a hook ends without a write.                          *)
LEMMA EndKeepsBoot ==
  ASSUME BootInv, UNCHANGED <<thisBoot, state, unclean, clean, slept, judged>>,
         hook' \in [L!Actions -> HookSet],
         \A a \in L!Actions : hook'[a] = hook[a] \/ hook'[a] = L!NoHook,
         power' = power \/ (power' = "off" /\ \A a \in L!Actions : hook'[a].pc = "none")
  PROVE  BootInv'
<1>1. \A a \in L!Actions : AtWork(a)' => hook'[a] = hook[a] /\ AtWork(a) /\ power' = power
  BY HookFacts DEF AtWork
<1>2. HookInv'
  BY <1>1, HookFacts DEF BootInv, HookInv
<1>3. EndsInv'
  BY EndsStay DEF BootInv
<1>4. JudgeInv'
  BY <1>1 DEF BootInv, JudgeInv, L!Actions, Unclean
<1> QED BY <1>2, <1>3, <1>4 DEF BootInv

(* The host goes off, the power fails, or a hook is killed.                  *)
LEMMA OffKeeps ==
  ASSUME BootInv, L!Off \/ L!PowerLoss \/ \E a \in L!Actions : L!Killed(a)
  PROVE  BootInv'
<1>1. UNCHANGED <<thisBoot, state, unclean, clean, slept, judged>> /\ hook \in [L!Actions -> HookSet]
  BY DEF L!Off, L!PowerLoss, L!Killed, BootInv, HookInv
<1>2. CASE L!Off
  BY <1>1, <1>2, EndKeepsBoot DEF L!Off, L!Quiet
<1>3. CASE L!PowerLoss
  <2>1. hook' = [a \in L!Actions |-> L!NoHook] /\ power' = "off"
    BY <1>3 DEF L!PowerLoss
  <2>2. hook' \in [L!Actions -> HookSet]
        /\ \A a \in L!Actions : hook'[a] = L!NoHook /\ hook'[a].pc = "none"
    BY <2>1, HookFacts
  <2> QED BY <1>1, <2>1, <2>2, EndKeepsBoot
<1>4. ASSUME NEW a \in L!Actions, L!Killed(a) PROVE BootInv'
  <2>1. hook' = [hook EXCEPT ![a] = L!NoHook] /\ power' = power
    BY <1>4 DEF L!Killed
  <2>2. hook' \in [L!Actions -> HookSet]
        /\ \A b \in L!Actions : hook'[b] = hook[b] \/ hook'[b] = L!NoHook
    BY <1>1, <2>1, HookFacts
  <2> QED BY <1>1, <2>1, <2>2, EndKeepsBoot
<1> QED BY <1>2, <1>3, <1>4

(* A hook reads the state.                                                   *)
LEMMA ReadKeeps == ASSUME BootInv, NEW a \in L!Actions, L!Read(a) PROVE BootInv'
<1>1. UNCHANGED <<thisBoot, power, state, unclean, clean, slept, judged>> /\ hook[a].pc = "started"
      /\ hook' = [hook EXCEPT ![a] = [pc |-> "read", read |-> state]]
  BY DEF L!Read
<1>2. hook \in [L!Actions -> HookSet] /\ state \in StateSet
  BY DEF BootInv, HookInv
<1> DEFINE h == [pc |-> "read", read |-> state]
<1>3. h \in HookSet /\ h.pc = "read" /\ h.read = state
  BY <1>2, HookFacts
<1> HIDE DEF h
<1>4. hook' \in [L!Actions -> HookSet] /\ hook'[a] = h /\ \A b \in L!Actions \ {a} : hook'[b] = hook[b]
  BY <1>1, <1>2, <1>3 DEF h
<1>5. \A b \in L!Actions : AtWork(b)' <=> AtWork(b)
  BY <1>1, <1>3, <1>4 DEF AtWork
<1>6. HookInv'
  BY <1>1, <1>3, <1>4, <1>5 DEF BootInv, HookInv
<1>7. EndsInv'
  BY <1>1, EndsStay DEF BootInv
<1>8. hook'["boot"].pc = "concluded" <=> hook["boot"].pc = "concluded"
  BY <1>1, <1>3, <1>4 DEF L!Actions
<1>9. JudgeInv'
  BY <1>1, <1>5, <1>8 DEF BootInv, JudgeInv, L!Actions, Unclean
<1> QED BY <1>6, <1>7, <1>9 DEF BootInv

(* The boot hook inserts the event exactly if the recorded end was unclean.  *)
LEMMA ConcludeKeeps == ASSUME BootInv, L!Conclude PROVE BootInv'
<1>1. /\ UNCHANGED <<thisBoot, power, state, clean, slept, judged>> /\ hook["boot"].pc = "read"
      /\ hook' = [hook EXCEPT !["boot"].pc = "concluded"]
      /\ unclean' = IF L!Suspicious(hook["boot"].read) THEN unclean \cup {thisBoot} ELSE unclean
      /\ "boot" \in L!Actions
  BY DEF L!Conclude, L!Actions
<1>2. hook \in [L!Actions -> HookSet] /\ state \in StateSet /\ thisBoot \in Nat
      /\ hook["boot"].read = state /\ state.boot \in Nat /\ state.boot < thisBoot
      /\ thisBoot \notin DOMAIN judged /\ thisBoot \notin unclean
  BY <1>1 DEF BootInv, HookInv, JudgeInv, AtWork, StateSet
<1>3. /\ hook'["boot"].pc = "concluded" /\ hook'["boot"].read = state
      /\ hook'["boot"] \in HookSet
  BY <1>1, <1>2 DEF HookSet
<1>4. hook' \in [L!Actions -> HookSet] /\ \A b \in L!Actions \ {"boot"} : hook'[b] = hook[b]
  BY <1>1, <1>2, <1>3
<1>5. \A b \in L!Actions : AtWork(b)' <=> AtWork(b)
  BY <1>1, <1>3, <1>4 DEF AtWork
<1>6. HookInv'
  BY <1>1, <1>3, <1>4, <1>5 DEF BootInv, HookInv
<1>7. thisBoot \in unclean' <=> Unclean(state.boot, thisBoot)
  <2>1. \A c \in slept : c < thisBoot
    BY <1>1, <1>2 DEF BootInv, EndsInv, JudgeInv, AtWork
  <2>2. L!Suspicious(state) <=> state.boot \notin clean /\ (state.boot # 0 \/ slept # {})
    BY <1>2 DEF L!Suspicious, BootInv, EndsInv
  <2> QED BY <1>1, <1>2, <2>1, <2>2 DEF Unclean
<1>8. EndsInv'
  <2>1. unclean' \subseteq 1..thisBoot
    BY <1>1, <1>2 DEF BootInv, EndsInv
  <2>2. \A b \in DOMAIN judged : b \in unclean' <=> b \in unclean
    BY <1>1, <1>2
  <2> QED BY <1>1, <2>1, <2>2 DEF BootInv, EndsInv, Unclean
<1>9. JudgeInv'
  BY <1>1, <1>3, <1>5, <1>7 DEF BootInv, JudgeInv, Unclean
<1> QED BY <1>6, <1>8, <1>9 DEF BootInv

(* A hook that was alone writes and is gone.                                 *)
LEMMA WriterEnds ==
  ASSUME BootInv, NEW a \in L!Actions, AtWork(a), hook' = [hook EXCEPT ![a] = L!NoHook]
  PROVE  hook' \in [L!Actions -> HookSet]
         /\ \A b \in L!Actions : hook'[b].pc = "none" /\ ~AtWork(b)'
<1>1. hook \in [L!Actions -> HookSet] /\ \A b \in L!Actions : b # a => hook[b].pc = "none"
  BY DEF BootInv, HookInv, AtWork
<1>2. hook' \in [L!Actions -> HookSet] /\ hook'[a] = L!NoHook
      /\ \A b \in L!Actions \ {a} : hook'[b] = hook[b]
  BY <1>1, HookFacts
<1> QED BY <1>1, <1>2, HookFacts DEF AtWork

(* The boot hook records its boot, judged by the one recorded before.        *)
LEMMA WriteBootKeeps == ASSUME BootInv, L!WriteBoot PROVE BootInv'
<1>1. /\ UNCHANGED <<thisBoot, power, unclean, clean, slept>> /\ hook["boot"].pc = "concluded"
      /\ state' = [set |-> TRUE, boot |-> thisBoot, clean |-> FALSE]
      /\ hook' = [hook EXCEPT !["boot"] = L!NoHook] /\ "boot" \in L!Actions
      /\ DOMAIN judged' = DOMAIN judged \cup {thisBoot}
      /\ judged'[thisBoot] = hook["boot"].read.boot
      /\ \A b \in DOMAIN judged : b # thisBoot => judged'[b] = judged[b]
  BY DEF L!WriteBoot, L!Actions
<1>2. /\ hook["boot"].read = state /\ state.boot \in Nat /\ state.boot < thisBoot /\ power = "up"
      /\ thisBoot \in Nat /\ thisBoot \notin DOMAIN judged
      /\ thisBoot \in unclean <=> Unclean(state.boot, thisBoot)
  BY <1>1 DEF BootInv, HookInv, JudgeInv, AtWork, StateSet
<1>3. hook' \in [L!Actions -> HookSet] /\ \A b \in L!Actions : hook'[b].pc = "none" /\ ~AtWork(b)'
  BY <1>1, WriterEnds DEF AtWork
<1>4. state' \in StateSet /\ state'.boot = thisBoot /\ state'.clean = FALSE /\ state'.set = TRUE
  BY <1>1, <1>2 DEF StateSet
<1>5. HookInv'
  BY <1>1, <1>2, <1>3, <1>4 DEF BootInv, HookInv
<1>6. EndsInv'
  <2>1. thisBoot \notin clean /\ thisBoot > 0
    BY <1>2 DEF BootInv, EndsInv, HookInv
  <2>2. DOMAIN judged' \subseteq 1..thisBoot
    BY <1>1, <1>2, <2>1 DEF BootInv, EndsInv
  <2>3. \A b \in DOMAIN judged' : judged'[b] \in Nat /\ judged'[b] < b
    BY <1>1, <1>2 DEF BootInv, EndsInv
  <2>4. \A b \in DOMAIN judged' : b \in unclean <=> Unclean(judged'[b], b)
    BY <1>1, <1>2 DEF BootInv, EndsInv
  <2> QED BY <1>1, <1>4, <2>1, <2>2, <2>3, <2>4 DEF BootInv, EndsInv, Unclean
<1>7. JudgeInv'
  BY <1>1, <1>3 DEF JudgeInv
<1> QED BY <1>5, <1>6, <1>7 DEF BootInv

(* The shutdown hook makes the end of this boot a clean one.                 *)
LEMMA WriteShutdownKeeps == ASSUME BootInv, L!WriteShutdown PROVE BootInv'
<1>1. /\ UNCHANGED <<thisBoot, power, unclean, slept, judged>> /\ hook["shutdown"].pc = "read"
      /\ state' = [set |-> TRUE, boot |-> thisBoot, clean |-> TRUE] /\ clean' = clean \cup {thisBoot}
      /\ hook' = [hook EXCEPT !["shutdown"] = L!NoHook]
      /\ "shutdown" \in L!Actions /\ "boot" \in L!Actions
  BY DEF L!WriteShutdown, L!Flagged, L!Actions
<1>2. power = "stopping" /\ thisBoot \in Nat /\ thisBoot > 0
  BY <1>1 DEF BootInv, HookInv, AtWork
<1>3. hook' \in [L!Actions -> HookSet] /\ \A b \in L!Actions : hook'[b].pc = "none" /\ ~AtWork(b)'
  BY <1>1, WriterEnds DEF AtWork
<1>4. state' \in StateSet /\ state'.boot = thisBoot /\ state'.clean = TRUE /\ state'.set = TRUE
  BY <1>1, <1>2 DEF StateSet
<1>5. HookInv'
  BY <1>1, <1>2, <1>3, <1>4 DEF BootInv, HookInv
<1>6. EndsInv'
  <2>1. \A b \in DOMAIN judged : judged[b] # thisBoot
    BY <1>2 DEF BootInv, EndsInv
  <2>2. clean' \subseteq 1..thisBoot /\ thisBoot \in clean'
    BY <1>1, <1>2 DEF BootInv, EndsInv
  <2> QED BY <1>1, <1>2, <1>4, <2>1, <2>2 DEF BootInv, EndsInv, Unclean
<1>7. JudgeInv'
  BY <1>1, <1>3 DEF JudgeInv
<1> QED BY <1>5, <1>6, <1>7 DEF BootInv

(* What a sleep hook puts back is what is stored, and now there is a state.  *)
LEMMA WriteSleepKeeps == ASSUME BootInv, NEW a \in L!Actions, L!WriteSleep(a) PROVE BootInv'
<1>1. /\ UNCHANGED <<thisBoot, power, unclean, clean, judged>> /\ hook[a].pc = "read"
      /\ state' = [hook[a].read EXCEPT !.set = TRUE] /\ slept' = slept \cup {thisBoot}
      /\ hook' = [hook EXCEPT ![a] = L!NoHook] /\ a \in {"suspend", "resume"}
  BY DEF L!WriteSleep
<1>2. hook[a].read = state /\ state \in StateSet /\ thisBoot \in Nat /\ thisBoot > 0
  BY <1>1 DEF BootInv, HookInv, AtWork
<1>3. /\ state' \in StateSet /\ state'.boot = state.boot /\ state'.clean = state.clean
      /\ state'.set = TRUE
  BY <1>1, <1>2 DEF StateSet
<1>4. hook' \in [L!Actions -> HookSet] /\ \A b \in L!Actions : hook'[b].pc = "none" /\ ~AtWork(b)'
  BY <1>1, WriterEnds DEF AtWork
<1>5. HookInv'
  BY <1>1, <1>3, <1>4 DEF BootInv, HookInv
<1>6. EndsInv'
  <2>1. slept' \subseteq 1..thisBoot /\ slept' # {}
    BY <1>1, <1>2 DEF BootInv, EndsInv
  <2>2. \A b \in DOMAIN judged : Unclean(judged[b], b)' <=> Unclean(judged[b], b)
    <3> SUFFICES ASSUME NEW b \in DOMAIN judged
                 PROVE  (\E c \in slept' : c < b) <=> \E c \in slept : c < b
      BY <1>1 DEF Unclean
    <3>1. b \in 1..thisBoot /\ ~(thisBoot < b)
      BY <1>2 DEF BootInv, EndsInv
    <3> QED BY <1>1, <3>1
  <2> QED BY <1>1, <1>3, <2>1, <2>2 DEF BootInv, EndsInv
<1>7. JudgeInv'
  BY <1>4 DEF JudgeInv, L!Actions
<1> QED BY <1>5, <1>6, <1>7 DEF BootInv

(* The steps of the host and its hooks together.                             *)
LEMMA NextBoots == ASSUME BootInv, ~Overlap, L!Next PROVE BootInv'
  BY BootKeeps, TransitionKeeps, OffKeeps, ReadKeeps, ConcludeKeeps, WriteBootKeeps,
     WriteShutdownKeeps, WriteSleepKeeps DEF L!Next

(* Another part of the records moves.                                        *)
LEMMA OthersKeepBoots == ASSUME BootInv, UNCHANGED bootVars PROVE BootInv'
<1>1. UNCHANGED <<thisBoot, power, hook, state, unclean, clean, slept, judged>>
  BY DEF bootVars
<1> QED BY <1>1 DEF BootInv, HookInv, EndsInv, JudgeInv, AtWork, Unclean

(* The invariant says what is promised of the ends of boots.                 *)
LEMMA EndsAreReported == EndsInv => L!UncleanEndsAreReported
  BY DEF EndsInv, Unclean, L!UncleanEndsAreReported

-----------------------------------------------------------------------------
(* The history of units.                                                     *)

(* The last of some entries of a log j, by time and then by place.          *)
LaterIn(j, p, q) == j[p].at > j[q].at \/ (j[p].at = j[q].at /\ p >= q)
LatestIn(j, X) == CHOOSE p \in X : \A q \in X : LaterIn(j, p, q)

(* What the entries X of a log j say of an execution.                        *)
ExecutionIn(j, X) ==
  LET telling == {p \in X : j[p].says # "none"}
  IN  IF X = {} THEN U!NotRun
      ELSE [count |-> U!Cardinality(X),
            status |-> IF telling = {} THEN "running" ELSE j[LatestIn(j, telling)].says]

Timed(j, X) == \A p \in X : p \in Int /\ j[p].at \in Int

(* There is a last entry, ...                                                *)
LEMMA HasLatest ==
  ASSUME NEW j, NEW X, IsFiniteSet(X), X # {}, Timed(j, X)
  PROVE  LatestIn(j, X) \in X /\ \A q \in X : LaterIn(j, LatestIn(j, X), q)
<1> DEFINE Has(T) == \E p \in T : \A q \in T : LaterIn(j, p, q)
           B == {T \in SUBSET X : T # {} /\ ~Has(T)}
<1>1. Has(X)
  <2> SUFFICES ASSUME ~Has(X) PROVE FALSE
    OBVIOUS
  <2>1. B \in SUBSET (SUBSET X) /\ B # {} /\ IsFiniteSet(X)
    OBVIOUS
  <2>2. PICK T \in B : \A V \in B : V \subseteq T => V = T
    <3> HIDE DEF B
    <3> QED BY ONLY <2>1, SmallestSubset
  <2>3. PICK x \in T : TRUE
    OBVIOUS
  <2>4. T \ {x} # T /\ T \ {x} \subseteq T /\ T \subseteq X
    BY <2>3
  <2>5. T \ {x} \notin B
    BY <2>2, <2>4
  <2>6. x \in Int /\ j[x].at \in Int /\ LaterIn(j, x, x)
    BY <2>3, <2>4 DEF Timed, LaterIn
  <2>7. CASE T \ {x} = {}
    <3>1. \A q \in T : q = x
      BY <2>7
    <3>2. Has(T)
      BY <2>3, <2>6, <3>1
    <3> QED BY <3>2
  <2>8. CASE T \ {x} # {}
    <3>1. Has(T \ {x})
      BY <2>4, <2>5, <2>8
    <3>2. PICK z \in T \ {x} : \A q \in T \ {x} : LaterIn(j, z, q)
      BY <3>1
    <3>3. z \in Int /\ j[z].at \in Int /\ \A q \in T : q \in Int /\ j[q].at \in Int
      BY <2>4 DEF Timed
    <3>4. CASE LaterIn(j, z, x)
      <4>1. \A q \in T : LaterIn(j, z, q)
        BY <3>2, <3>4
      <4> QED BY <4>1
    <3>5. CASE ~LaterIn(j, z, x)
      <4>1. ASSUME NEW q \in T PROVE LaterIn(j, x, q)
        <5>1. CASE q = x
          BY <2>6, <5>1
        <5>2. CASE q # x
          <6>1. LaterIn(j, z, q) /\ q \in Int /\ j[q].at \in Int
            BY <3>2, <3>3, <5>2
          <6>2. \A a, b, c, d, e, f \in Int :
                  /\ a > b \/ (a = b /\ d >= e)
                  /\ ~(a > c \/ (a = c /\ d >= f))
                  => c > b \/ (c = b /\ f >= e)
            OBVIOUS
          <6>3. j[z].at > j[q].at \/ (j[z].at = j[q].at /\ z >= q)
            BY <6>1 DEF LaterIn
          <6>4. ~(j[z].at > j[x].at \/ (j[z].at = j[x].at /\ z >= x))
            BY <3>5 DEF LaterIn
          <6>5. j[x].at > j[q].at \/ (j[x].at = j[q].at /\ x >= q)
            BY <2>6, <3>3, <6>1, <6>2, <6>3, <6>4
          <6> QED BY <6>5 DEF LaterIn
        <5> QED BY <5>1, <5>2
      <4> QED BY <2>3, <4>1
    <3> QED BY <3>4, <3>5
  <2> QED BY <2>7, <2>8
<1> QED BY <1>1 DEF LatestIn

(* ... and only one, which logs that agree on the entries have in common.   *)
LEMMA LatestAgrees ==
  ASSUME NEW j, NEW k, NEW X, IsFiniteSet(X), X # {}, Timed(j, X), \A p \in X : k[p] = j[p]
  PROVE  LatestIn(k, X) = LatestIn(j, X)
<1>1. Timed(k, X)
  BY DEF Timed
<1> DEFINE a == LatestIn(j, X)
           b == LatestIn(k, X)
<1>2. a \in X /\ \A q \in X : LaterIn(j, a, q)
  BY HasLatest
<1>3. b \in X /\ \A q \in X : LaterIn(k, b, q)
  BY <1>1, HasLatest
<1> HIDE DEF a, b
<1>4. LaterIn(j, a, b) /\ LaterIn(j, b, a)
  BY <1>2, <1>3 DEF LaterIn
<1>5. a = b
  BY <1>2, <1>3, <1>4 DEF LaterIn, Timed
<1> QED BY <1>5 DEF a, b

(* So do they on what the entries say.                                       *)
LEMMA ExecutionAgrees ==
  ASSUME NEW j, NEW k, NEW X, IsFiniteSet(X), Timed(j, X), \A p \in X : k[p] = j[p]
  PROVE  ExecutionIn(k, X) = ExecutionIn(j, X)
<1> DEFINE telling(l) == {p \in X : l[p].says # "none"}
<1>1. telling(k) = telling(j) /\ telling(j) \subseteq X
  OBVIOUS
<1>2. CASE telling(j) # {}
  <2>1. IsFiniteSet(telling(j)) /\ Timed(j, telling(j))
    BY <1>1, FS_Subset DEF Timed
  <2>2. LatestIn(k, telling(j)) = LatestIn(j, telling(j)) /\ LatestIn(j, telling(j)) \in telling(j)
    <3> HIDE DEF telling
    <3>1. \A p \in telling(j) : k[p] = j[p]
      BY <1>1
    <3> QED BY <1>2, <2>1, <3>1, LatestAgrees, HasLatest
  <2>3. k[LatestIn(k, telling(k))].says = j[LatestIn(j, telling(j))].says
    <3> HIDE DEF telling
    <3> QED BY <1>1, <2>2
  <2> QED BY <1>1, <1>2, <2>3 DEF ExecutionIn
<1>3. CASE telling(j) = {}
  BY <1>1, <1>3 DEF ExecutionIn
<1> QED BY <1>2, <1>3

(* What the module says of the log it has.                                   *)
LEMMA ExecutionIsIn ==
  /\ \A X : U!Execution(X) = ExecutionIn(journal, X)
  /\ \A X : U!Latest(X) = LatestIn(journal, X)
  BY DEF U!Execution, U!Latest, U!Later, ExecutionIn, LatestIn, LaterIn

(* The greatest of some places of the log, or of zero.                       *)
LEMMA MaxPlace ==
  ASSUME NEW n \in Nat, NEW X \in SUBSET (0..n), X # {}
  PROVE  U!Max(X) \in X /\ \A q \in X : q <= U!Max(X)
<1> DEFINE B == {n - x : x \in X}
<1>1. B \in SUBSET Nat /\ B # {}
  <2>1. \A x \in X : x \in 0..n
    OBVIOUS
  <2>2. \A x \in 0..n : n - x \in Nat
    OBVIOUS
  <2> QED BY <2>1, <2>2
<1>2. PICK b \in B : \A c \in B : b <= c
  <2> HIDE DEF B
  <2> QED BY <1>1, LeastNumber
<1>3. PICK x \in X : b = n - x
  OBVIOUS
<1>4. ASSUME NEW y \in X PROVE x >= y
  <2>1. n - x <= n - y
    BY <1>2, <1>3
  <2>2. x \in Nat /\ y \in Nat
    OBVIOUS
  <2> QED BY <2>1, <2>2
<1>5. U!Max(X) \in X /\ \A y \in X : U!Max(X) >= y
  BY <1>4 DEF U!Max
<1>6. \A y \in X : y \in Int
  OBVIOUS
<1> QED BY <1>5, <1>6

-----------------------------------------------------------------------------
(* What an import knows of the log, and how far it is covered.               *)

Entry == [unit : Units, own : BOOLEAN, at : Int, says : Outcomes \cup {"manager"}]
Places == 0..Len(journal)

HistoryTypes ==
  /\ journal \in Seq(Entry) /\ vacuumed \in Nat /\ checkpoint \in Places
  /\ entries \subseteq 1..Len(journal)
  /\ executions = [u \in Units |-> executions[u]]
  /\ DOMAIN import = Importers
  /\ \A i \in Importers :
       /\ import[i].cursor \in Places /\ import[i].shown \in Places
       /\ import[i].read \subseteq 1..Len(journal)

(* Every entry of a unit up to a place is among some.                        *)
Covered(r, T) == \A p \in 1..r : journal[p].own => p \in T

(* What an import has read reaches as far as it says, with what was stored   *)
(* before it and what it could not see.                                      *)
ReadCovers(m) ==
  m.pc = "persist" => \A r \in m.read \cup {m.shown} : Covered(r, m.read \cup m.unread \cup entries \cup unread)

CoverInvs ==
  /\ Covered(checkpoint, entries \cup unread)
  /\ \A i \in Importers : Covered(import[i].cursor, entries \cup unread) /\ ReadCovers(import[i])

(* What is told of the executions is what the entries say.                   *)
ToldOfUnits == \A u \in Units : executions[u] = ExecutionIn(journal, U!EntriesOf(u, entries))

HistoryInv == HistoryTypes /\ CoverInvs /\ ToldOfUnits

(* An import that does nothing.                                              *)
LEMMA IdleImport ==
  /\ U!Idle.pc = "idle" /\ U!Idle.cursor = 0 /\ U!Idle.shown = 0 /\ U!Idle.read = {}
  BY DEF U!Idle, U!NoCursor

(* Nothing is logged at first.                                               *)
LEMMA InitHistory == ASSUME U!Init PROVE HistoryInv
<1>1. /\ now = 0 /\ journal = <<>> /\ vacuumed = 0 /\ checkpoint = 0 /\ entries = {}
      /\ executions = [u \in Units |-> U!NotRun] /\ import = [i \in Importers |-> U!Idle]
  BY DEF U!Init, U!NoCursor
<1>2. journal \in Seq(Entry) /\ Len(journal) = 0
  BY <1>1
<1>3. HistoryTypes
  BY <1>1, <1>2, IdleImport DEF HistoryTypes, Places
<1>4. CoverInvs
  BY <1>1, IdleImport DEF CoverInvs, Covered, ReadCovers
<1>5. ASSUME NEW u \in Units PROVE executions[u] = ExecutionIn(journal, U!EntriesOf(u, entries))
  <2>1. U!EntriesOf(u, entries) = {}
    BY <1>1 DEF U!EntriesOf
  <2> QED BY <1>1, <2>1 DEF ExecutionIn
<1> QED BY <1>3, <1>4, <1>5 DEF HistoryInv, ToldOfUnits

(* Nothing is stored, and whoever imports has read nothing new.              *)
LEMMA HistoryRests ==
  ASSUME HistoryInv, UNCHANGED <<journal, checkpoint, entries, executions, unread>>,
         vacuumed' \in Nat, DOMAIN import' = Importers,
         \A i \in Importers :
           \/ import'[i] = import[i]
           \/ /\ import'[i].pc # "persist" /\ import'[i].cursor \in {import[i].cursor, checkpoint, 0}
              /\ import'[i].shown \in {import[i].shown, 0} /\ import'[i].read \in {import[i].read, {}}
  PROVE  HistoryInv'
<1>1. HistoryTypes'
  <2>1. 0 \in Places /\ {} \subseteq 1..Len(journal)
    BY LenProperties DEF HistoryInv, HistoryTypes, Places
  <2>2. ASSUME NEW i \in Importers
        PROVE  /\ import'[i].cursor \in Places /\ import'[i].shown \in Places
               /\ import'[i].read \subseteq 1..Len(journal)
    BY <2>1 DEF HistoryInv, HistoryTypes
  <2> QED BY <2>2 DEF HistoryInv, HistoryTypes, Places
<1>2. CoverInvs'
  <2>1. ASSUME NEW i \in Importers
        PROVE  (Covered(import[i].cursor, entries \cup unread) /\ ReadCovers(import[i]))'
    <3>1. CASE import'[i] = import[i]
      BY <3>1 DEF HistoryInv, CoverInvs, Covered, ReadCovers
    <3>2. CASE import'[i] # import[i]
      BY <3>2 DEF HistoryInv, CoverInvs, Covered, ReadCovers
    <3> QED BY <3>1, <3>2
  <2>2. Covered(checkpoint, entries \cup unread)'
    BY DEF HistoryInv, CoverInvs, Covered
  <2> QED BY <2>1, <2>2 DEF CoverInvs
<1>3. ToldOfUnits'
  <2>1. \A u \in Units : U!EntriesOf(u, entries)' = U!EntriesOf(u, entries)
    BY DEF U!EntriesOf
  <2> QED BY <2>1 DEF HistoryInv, ToldOfUnits
<1> QED BY <1>1, <1>2, <1>3 DEF HistoryInv

(* Time, the vacuum, the catalog and the imports that begin, fail or die.    *)
LEMMA HistoryWaits ==
  ASSUME HistoryInv,
         U!Tick \/ U!SetBack \/ U!Vacuum \/ U!Define
           \/ \E i \in Importers : U!Begin(i) \/ U!ReadFails(i) \/ U!RecordError(i) \/ U!Die(i)
  PROVE  HistoryInv'
<1>1. vacuumed \in Nat /\ DOMAIN import = Importers
  BY DEF HistoryInv, HistoryTypes
<1>2. CASE U!Tick \/ U!SetBack \/ U!Vacuum \/ U!Define
  <2>1. /\ UNCHANGED <<journal, checkpoint, entries, executions, unread, import>>
        /\ vacuumed' \in {vacuumed, vacuumed + 1}
    BY <1>2 DEF U!Tick, U!SetBack, U!Vacuum, U!Define, U!stored
  <2>2. vacuumed' \in Nat
    BY <1>1, <2>1
  <2> QED BY <1>1, <2>1, <2>2, HistoryRests
<1>3. ASSUME NEW i \in Importers, U!Begin(i) \/ U!ReadFails(i) \/ U!RecordError(i) \/ U!Die(i)
      PROVE  HistoryInv'
  <2>1. UNCHANGED <<now, journal, vacuumed, checkpoint, entries, executions, unread>>
    BY <1>3 DEF U!Begin, U!ReadFails, U!RecordError, U!Die, U!stored
  <2>2. PICK m : /\ import' = [import EXCEPT ![i] = m]
                 /\ m.pc # "persist" /\ m.cursor \in {import[i].cursor, checkpoint, 0}
                 /\ m.shown \in {import[i].shown, 0} /\ m.read \in {import[i].read, {}}
    <3>1. CASE U!Begin(i)
      <4> DEFINE m == [U!Idle EXCEPT !.pc = "read", !.cursor = checkpoint, !.units = catalog,
                         !.mode = IF checkpoint = U!NoCursor THEN "fallback" ELSE "cursor"]
      <4>1. import' = [import EXCEPT ![i] = m]
        BY <3>1 DEF U!Begin
      <4>2. m.pc = "read" /\ m.cursor = checkpoint /\ m.shown = 0 /\ m.read = {}
        BY DEF U!Idle, U!NoCursor
      <4> HIDE DEF m
      <4> QED BY <4>1, <4>2
    <3>2. CASE U!ReadFails(i)
      <4>1. import[i].pc = "read"
        BY <3>2 DEF U!ReadFails
      <4>2. CASE import[i].mode = "cursor"
        <5> DEFINE m == [import[i] EXCEPT !.mode = "fallback"]
        <5>1. import' = [import EXCEPT ![i] = m]
          BY <1>1, <3>2, <4>2 DEF U!ReadFails
        <5>2. m.pc = "read" /\ m.cursor = import[i].cursor /\ m.shown = import[i].shown /\ m.read = import[i].read
          BY <4>1
        <5> QED BY <5>1, <5>2
      <4>3. CASE import[i].mode # "cursor"
        <5> DEFINE m == [import[i] EXCEPT !.pc = "error"]
        <5>1. import' = [import EXCEPT ![i] = m]
          BY <1>1, <3>2, <4>3 DEF U!ReadFails
        <5>2. m.pc # "persist" /\ m.cursor = import[i].cursor /\ m.shown = import[i].shown /\ m.read = import[i].read
          BY <4>1
        <5> QED BY <5>1, <5>2
      <4> QED BY <4>2, <4>3
    <3>3. CASE U!RecordError(i) \/ U!Die(i)
      BY <3>3, IdleImport DEF U!RecordError, U!Die
    <3> QED BY <1>3, <3>1, <3>2, <3>3
  <2>3. DOMAIN import' = Importers /\ \A k \in Importers : import'[k] = IF k = i THEN m ELSE import[k]
    BY <1>1, <2>2
  <2> QED BY <1>1, <2>1, <2>2, <2>3, HistoryRests
<1> QED BY <1>2, <1>3

(* The log grows: what was read of it before stands.                         *)
LEMMA JournalGrows ==
  ASSUME HistoryInv, now \in Int, U!Log PROVE HistoryInv'
<1>1. UNCHANGED <<now, vacuumed, checkpoint, entries, executions, unread, import>>
  BY DEF U!Log, U!stored
<1>2. PICK u \in Units, says \in Outcomes \cup {"manager"} :
        journal' = Append(journal, [unit |-> u, own |-> says # "manager", at |-> now, says |-> says])
  BY DEF U!Log
<1> DEFINE e == [unit |-> u, own |-> says # "manager", at |-> now, says |-> says]
<1>3. e \in Entry
  <2>1. (says # "manager") \in BOOLEAN
    OBVIOUS
  <2> QED BY <2>1 DEF Entry
<1>4. /\ journal \in Seq(Entry) /\ journal' \in Seq(Entry) /\ Len(journal) \in Nat
      /\ Len(journal') = Len(journal) + 1
      /\ \A p \in 1..Len(journal) : journal'[p] = journal[p] /\ journal[p] \in Entry
  <2>1. journal \in Seq(Entry)
    BY DEF HistoryInv, HistoryTypes
  <2> HIDE DEF e
  <2>2. journal' = Append(journal, e)
    BY <1>2 DEF e
  <2> QED BY <1>3, <2>1, <2>2, AppendProperties, LenProperties, ElementOfSeq
<1>5. HistoryTypes'
  <2>1. Places \subseteq Places' /\ 1..Len(journal) \subseteq 1..Len(journal')
    BY <1>4 DEF Places
  <2> QED BY <1>1, <1>4, <2>1 DEF HistoryInv, HistoryTypes
<1>6. \A r \in Places : \A T : Covered(r, T) => \A p \in 1..r : journal'[p].own => p \in T
  BY <1>4 DEF Covered, Places
<1>7. CoverInvs'
  <2>1. /\ checkpoint \in Places
        /\ \A i \in Importers : /\ import[i].cursor \in Places /\ import[i].shown \in Places
                                /\ import[i].read \subseteq Places
    BY <1>4 DEF HistoryInv, HistoryTypes, Places
  <2>2. (Covered(checkpoint, entries \cup unread))'
    BY <1>1, <1>6, <2>1 DEF HistoryInv, CoverInvs, Covered
  <2>3. ASSUME NEW i \in Importers
        PROVE  (Covered(import[i].cursor, entries \cup unread) /\ ReadCovers(import[i]))'
    <3>1. (Covered(import[i].cursor, entries \cup unread))'
      BY <1>1, <1>6, <2>1 DEF HistoryInv, CoverInvs, Covered
    <3>2. ASSUME import[i].pc = "persist", NEW r \in import[i].read \cup {import[i].shown}
          PROVE  (Covered(r, import[i].read \cup import[i].unread \cup entries \cup unread))'
      <4>1. Covered(r, import[i].read \cup import[i].unread \cup entries \cup unread)
        BY <3>2 DEF HistoryInv, CoverInvs, ReadCovers
      <4>2. r \in Places
        BY <2>1
      <4> QED BY <1>1, <1>6, <4>1, <4>2 DEF Covered
    <3> QED BY <1>1, <3>1, <3>2 DEF ReadCovers
  <2> QED BY <2>2, <2>3 DEF CoverInvs
<1>8. ASSUME NEW v \in Units
      PROVE  executions'[v] = ExecutionIn(journal', U!EntriesOf(v, entries)')
  <2> DEFINE X == U!EntriesOf(v, entries)
  <2>1. entries \subseteq 1..Len(journal)
    BY DEF HistoryInv, HistoryTypes
  <2>2. X \subseteq 1..Len(journal) /\ U!EntriesOf(v, entries)' = X
    BY <1>1, <1>4, <2>1 DEF U!EntriesOf
  <2>3. IsFiniteSet(X)
    <3>1. IsFiniteSet(1..Len(journal))
      BY <1>4, FS_Interval
    <3> QED BY <2>2, <3>1, FS_Subset
  <2>4. Timed(journal, X) /\ \A p \in X : journal'[p] = journal[p]
    BY <1>4, <2>2 DEF Timed, Entry
  <2>5. ExecutionIn(journal', X) = ExecutionIn(journal, X)
    <3> HIDE DEF X
    <3> QED BY <2>3, <2>4, ExecutionAgrees
  <2> QED BY <1>1, <2>2, <2>5 DEF HistoryInv, ToldOfUnits
<1> QED BY <1>5, <1>7, <1>8 DEF HistoryInv, ToldOfUnits

(* Positions that can be read.                                               *)
LEMMA ReadPlaces ==
  ASSUME HistoryTypes, NEW units, NEW c
  PROVE  /\ U!After(c, units) \subseteq 1..Len(journal)
         /\ U!Since(c, units) \subseteq 1..Len(journal)
<1>1. vacuumed \in Nat /\ Len(journal) \in Nat
  BY LenProperties DEF HistoryTypes
<1>2. U!Of(units) \subseteq 1..Len(journal)
  BY <1>1 DEF U!Of
<1> QED BY <1>2 DEF U!After, U!Since, U!UpToNow

(* A read covers what it says, for what it does not hand over it excuses or   *)
(* was stored before its cursor.                                             *)
LEMMA JournalReadKeeps ==
  ASSUME HistoryInv, NEW i \in Importers, U!Read(i) PROVE HistoryInv'
<1>1. /\ UNCHANGED <<now, journal, vacuumed, checkpoint, entries, executions, unread>>
      /\ HistoryTypes /\ CoverInvs
  BY DEF U!Read, U!stored, HistoryInv
<1>2. PICK X \in SUBSET (1..Len(journal)), c \in {0, import[i].cursor} :
        import' = [import EXCEPT ![i] = U!Result(i, X, c)]
  <2>1. CASE import[i].mode = "cursor"
    <3>1. import' = [import EXCEPT ![i] = U!Result(i, U!After(import[i].cursor, import[i].units), import[i].cursor)]
      BY <2>1 DEF U!Read
    <3> QED BY <1>1, <3>1, ReadPlaces
  <2>2. CASE import[i].mode # "cursor"
    <3>1. PICK b : import' = [import EXCEPT ![i] = U!Result(i, U!Since(b, import[i].units), 0)]
      BY <2>2 DEF U!Read, U!NoCursor
    <3> QED BY <1>1, <3>1, ReadPlaces
  <2> QED BY <2>1, <2>2
<1> DEFINE m == U!Result(i, X, c)
           top == U!Max(X \cup {0})
<1>3. /\ Len(journal) \in Nat /\ X \in SUBSET (0..Len(journal)) /\ DOMAIN import = Importers
      /\ DOMAIN journal = 1..Len(journal)
  BY <1>1, LenProperties DEF HistoryTypes
<1>4. top \in 0..Len(journal) /\ \A q \in X \cup {0} : q <= top
  <2>1. X \cup {0} \in SUBSET (0..Len(journal)) /\ X \cup {0} # {}
    BY <1>3
  <2> QED BY <1>3, <2>1, MaxPlace
<1>5. /\ m.pc = "persist" /\ m.read = {p \in X : journal[p].own}
      /\ m.shown = IF X = {} THEN 0 ELSE U!Max(X)
      /\ m.unread = {p \in DOMAIN journal : p > c /\ p <= top /\ p \notin X}
      /\ m.cursor = import[i].cursor
  BY DEF U!Result, U!NoCursor
<1> HIDE DEF m, top
<1>6. m.shown \in X \cup {0}
  BY <1>3, <1>5, MaxPlace
<1>7. import'[i] = m /\ DOMAIN import' = Importers
      /\ \A k \in Importers : k # i => import'[k] = import[k]
  BY <1>2, <1>3 DEF m
<1>8. HistoryTypes'
  <2>1. m.shown \in Places /\ m.cursor \in Places /\ m.read \subseteq 1..Len(journal)
    BY <1>1, <1>3, <1>5, <1>6 DEF HistoryTypes, Places
  <2>2. ASSUME NEW k \in Importers
        PROVE  /\ import'[k].cursor \in Places /\ import'[k].shown \in Places
               /\ import'[k].read \subseteq 1..Len(journal)
    BY <1>1, <1>7, <2>1 DEF HistoryTypes
  <2> QED BY <1>1, <1>7, <2>2 DEF HistoryTypes, Places
<1>9. \A r \in m.read \cup {m.shown} : Covered(r, m.read \cup m.unread \cup entries \cup unread)
  <2> SUFFICES ASSUME NEW r \in m.read \cup {m.shown}, NEW p \in 1..r, journal[p].own
               PROVE  p \in m.read \cup m.unread \cup entries \cup unread
    BY DEF Covered
  <2>1. r \in X \cup {0} /\ r <= top /\ r \in 0..Len(journal)
    <3>1. r \in X \cup {0}
      BY <1>5, <1>6
    <3>2. 0 \in 0..Len(journal)
      BY <1>3
    <3>3. X \cup {0} \subseteq 0..Len(journal)
      BY <1>3, <3>2
    <3> QED BY <1>4, <3>1, <3>3
  <2>2. p \in 1..Len(journal) /\ p <= top
    BY <1>3, <1>4, <2>1
  <2>3. c \in Nat
    BY <1>1, <1>3 DEF HistoryTypes, Places
  <2>4. CASE p \in X
    BY <1>5, <2>4
  <2>5. CASE p \notin X /\ p > c
    BY <1>3, <1>5, <2>2, <2>5
  <2>6. CASE ~(p > c)
    <3>1. c = import[i].cursor
      BY <1>2, <2>2, <2>6
    <3>2. p \in 1..import[i].cursor
      BY <2>2, <2>3, <2>6, <3>1
    <3> QED BY <1>1, <3>2 DEF CoverInvs, Covered
  <2> QED BY <2>4, <2>5, <2>6
<1>10. CoverInvs'
  <2>1. ASSUME NEW k \in Importers
        PROVE  (Covered(import[k].cursor, entries \cup unread) /\ ReadCovers(import[k]))'
    <3>1. CASE k = i
      <4>1. Covered(import[i].cursor, entries \cup unread)
        BY <1>1 DEF CoverInvs
      <4> QED BY <1>1, <1>5, <1>7, <1>9, <3>1, <4>1 DEF ReadCovers, Covered
    <3>2. CASE k # i
      BY <1>1, <1>7, <3>2 DEF CoverInvs, ReadCovers, Covered
    <3> QED BY <3>1, <3>2
  <2> QED BY <1>1, <2>1 DEF CoverInvs, Covered
<1>11. ToldOfUnits'
  <2>1. \A u \in Units : U!EntriesOf(u, entries)' = U!EntriesOf(u, entries)
    BY <1>1 DEF U!EntriesOf
  <2> QED BY <1>1, <2>1 DEF HistoryInv, ToldOfUnits
<1> QED BY <1>8, <1>10, <1>11 DEF HistoryInv

(* What was read is stored with the executions it tells of, and the cursor   *)
(* does not pass it.                                                         *)
LEMMA JournalPersistKeeps ==
  ASSUME HistoryInv, NEW i \in Importers, U!Persist(i) PROVE HistoryInv'
<1> DEFINE m == import[i]
           new == m.read \ entries
           all == entries \cup new
<1>1. /\ HistoryTypes /\ CoverInvs /\ ToldOfUnits
      /\ UNCHANGED <<now, journal, vacuumed>> /\ m.pc = "persist"
      /\ entries' = all /\ checkpoint' = U!Cursor(i) /\ unread' = unread \cup m.unread
      /\ import' = [import EXCEPT ![i] = U!Idle]
      /\ executions' = [u \in Units |-> IF u \in U!Touched(new) THEN U!Execution(U!EntriesOf(u, all))
                                        ELSE executions[u]]
  BY DEF U!Persist, HistoryInv
<1>2. /\ Len(journal) \in Nat /\ m.read \subseteq 1..Len(journal) /\ m.shown \in Places /\ m.cursor \in Places
      /\ entries \subseteq 1..Len(journal) /\ DOMAIN import = Importers
      /\ \A p \in 1..Len(journal) : journal[p] \in Entry
  BY <1>1, LenProperties, ElementOfSeq DEF HistoryTypes
<1>3. all = entries \cup m.read /\ all \subseteq 1..Len(journal)
  BY <1>2
<1>4. /\ U!Cursor(i) \in m.read \cup {m.shown, m.cursor} /\ U!Cursor(i) \in Places
  <2>1. CASE m.read # {}
    <3>1. IsFiniteSet(m.read)
      <4>1. IsFiniteSet(1..Len(journal))
        BY <1>2, FS_Interval
      <4> QED BY <1>2, <4>1, FS_Subset
    <3>5. Timed(journal, m.read)
      BY <1>2 DEF Timed, Entry
    <3>2. U!Latest(m.read) \in m.read
      BY <2>1, <3>1, <3>5, HasLatest, ExecutionIsIn
    <3>3. U!Cursor(i) = U!Latest(m.read)
      BY <2>1 DEF U!Cursor
    <3>4. m.read \subseteq Places
      BY <1>2 DEF Places
    <3> QED BY <3>2, <3>3, <3>4
  <2>2. CASE m.read = {}
    BY <1>2, <2>2 DEF U!Cursor
  <2> QED BY <2>1, <2>2
<1>5. /\ import'[i] = U!Idle /\ DOMAIN import' = Importers
      /\ \A k \in Importers : k # i => import'[k] = import[k]
  BY <1>1, <1>2
<1>6. entries \cup unread \subseteq entries' \cup unread'
      /\ m.read \cup m.unread \cup entries \cup unread \subseteq entries' \cup unread'
  BY <1>1, <1>3
<1> HIDE DEF all
<1>7. HistoryTypes'
  <2>1. 0 \in Places
    BY <1>2 DEF Places
  <2>2. ASSUME NEW k \in Importers
        PROVE  /\ import'[k].cursor \in Places /\ import'[k].shown \in Places
               /\ import'[k].read \subseteq 1..Len(journal)
    BY <1>1, <1>5, <2>1, IdleImport DEF HistoryTypes
  <2>3. executions' = [u \in Units |-> executions'[u]]
    BY <1>1
  <2> QED BY <1>1, <1>3, <1>4, <1>5, <2>2, <2>3 DEF HistoryTypes, Places
<1>8. CoverInvs'
  <2>1. Covered(U!Cursor(i), entries' \cup unread')
    <3>1. CASE U!Cursor(i) = m.cursor
      BY <1>1, <1>6, <3>1 DEF CoverInvs, Covered
    <3>2. CASE U!Cursor(i) \in m.read \cup {m.shown}
      BY <1>1, <1>6, <3>2 DEF CoverInvs, ReadCovers, Covered
    <3> QED BY <1>4, <3>1, <3>2
  <2>2. ASSUME NEW k \in Importers
        PROVE  (Covered(import[k].cursor, entries \cup unread) /\ ReadCovers(import[k]))'
    <3>1. CASE k = i
      BY <1>5, <3>1, IdleImport DEF ReadCovers, Covered
    <3>2. CASE k # i
      <4>1. Covered(import[k].cursor, entries \cup unread) /\ ReadCovers(import[k])
        BY <1>1 DEF CoverInvs
      <4>2. (Covered(import[k].cursor, entries \cup unread))'
        BY <1>1, <1>5, <1>6, <3>2, <4>1 DEF Covered
      <4>3. ReadCovers(import[k])'
        BY <1>1, <1>5, <1>6, <3>2, <4>1 DEF ReadCovers, Covered
      <4> QED BY <4>2, <4>3
    <3> QED BY <3>1, <3>2
  <2> QED BY <1>1, <2>1, <2>2 DEF CoverInvs, Covered
<1>9. ASSUME NEW u \in Units
      PROVE  executions'[u] = ExecutionIn(journal', U!EntriesOf(u, entries)')
  <2>1. U!EntriesOf(u, entries)' = U!EntriesOf(u, all)
    BY <1>1 DEF U!EntriesOf
  <2>2. CASE u \in U!Touched(new)
    <3>1. executions'[u] = U!Execution(U!EntriesOf(u, all))
      BY <1>1, <2>2
    <3> QED BY <1>1, <2>1, <3>1, ExecutionIsIn
  <2>3. CASE u \notin U!Touched(new)
    <3>1. U!EntriesOf(u, new) = {}
      BY <2>3 DEF U!Touched
    <3>2. U!EntriesOf(u, all) = U!EntriesOf(u, entries)
      BY <3>1 DEF U!EntriesOf, all
    <3>3. executions'[u] = executions[u]
      BY <1>1, <2>3
    <3> QED BY <1>1, <2>1, <3>2, <3>3 DEF ToldOfUnits
  <2> QED BY <2>2, <2>3
<1> QED BY <1>7, <1>8, <1>9 DEF HistoryInv, ToldOfUnits

(* The steps of the journal and its imports together.                        *)
LEMMA NextHistory == ASSUME HistoryInv, now \in Int, U!Next PROVE HistoryInv' /\ now' \in Int
<1>1. HistoryInv'
  BY HistoryWaits, JournalGrows, JournalReadKeeps, JournalPersistKeeps DEF U!Next, U!Import
<1>2. now' \in {now, now + 1, now - 1}
  BY DEF U!Next, U!Tick, U!SetBack, U!Log, U!Vacuum, U!Define, U!Import, U!Begin, U!Read,
     U!ReadFails, U!RecordError, U!Persist, U!Die
<1> QED BY <1>1, <1>2

(* Another part of the records moves.                                        *)
LEMMA OthersKeepHistory == ASSUME HistoryInv, UNCHANGED unitVars PROVE HistoryInv'
<1>1. UNCHANGED <<journal, vacuumed, catalog, checkpoint, entries, executions, import, unread>>
  BY DEF unitVars
<1>2. vacuumed \in Nat /\ DOMAIN import = Importers
  BY DEF HistoryInv, HistoryTypes
<1> QED BY <1>1, <1>2, HistoryRests

(* The invariant says what is promised of the history.                       *)
LEMMA HistoryIsTrue == ASSUME HistoryInv PROVE UnitHistoryIsTrue
<1>1. U!NothingSkipped
  BY DEF HistoryInv, CoverInvs, Covered, U!NothingSkipped
<1>2. U!ExecutionsFollowEntries
  BY ExecutionIsIn DEF HistoryInv, ToldOfUnits, U!ExecutionsFollowEntries
<1> QED BY <1>1, <1>2 DEF UnitHistoryIsTrue

-----------------------------------------------------------------------------
(* Metrics, the inventory and the backups.                                   *)

(* The samples of a day that are no rows any more.                           *)
Gone(d) == {s \in taken : s.day = d} \ raw
Ids(X) == {s.id : s \in X}

SampleInv ==
  /\ raw \subseteq taken /\ IsFiniteSet(taken) /\ DOMAIN aggregate = R!Days
  /\ \A s \in taken : s.id \in 1..Cardinality(taken) /\ s.day \in R!Days
  /\ \A s, t \in taken : s.id = t.id => s = t

(* A day has an aggregate as soon as one of its samples is gone.             *)
FoldOf(d, a) ==
  /\ a.count \in Nat /\ a.dropped \in Int /\ a.count + a.dropped = Cardinality(Gone(d))
  /\ a.count = 0 <=> Gone(d) = {}
  /\ Gone(d) # {} => a.most = R!Max(Ids(Gone(d)))
FoldInv == \A d \in R!Days : FoldOf(d, aggregate[d])

PeriodInv ==
  /\ inventory \subseteq daily /\ backups \subseteq saved /\ daily \cup saved \subseteq R!Days
  /\ R!PeriodsKeepTheirLast /\ R!BackupsReachBack /\ pass.at \in Int

RetentionInv == SampleInv /\ FoldInv /\ PeriodInv

(* What bounds a set from within is its greatest element.                    *)
LEMMA GreatestIs ==
  ASSUME NEW X \in SUBSET Int, NEW g \in X, \A y \in X : y <= g
  PROVE  R!Max(X) = g
<1>1. R!Max(X) \in X /\ \A y \in X : R!Max(X) >= y
  <2>1. \A y \in X : g >= y
    OBVIOUS
  <2> QED BY <2>1 DEF R!Max
<1>2. R!Max(X) \in Int /\ g \in Int /\ R!Max(X) >= g /\ R!Max(X) <= g
  BY <1>1
<1> QED BY <1>2

(* The sample of some with the greatest id.                                  *)
LEMMA HasGreatest ==
  ASSUME NEW n \in Nat, NEW X, X # {}, \A s \in X : s.id \in 1..n
  PROVE  \E g \in X : R!Max(Ids(X)) = g.id /\ \A s \in X : s.id <= g.id
<1>1. Ids(X) \in SUBSET (0..n) /\ Ids(X) # {}
  BY DEF Ids
<1>2. U!Max(Ids(X)) \in Ids(X) /\ \A y \in Ids(X) : y <= U!Max(Ids(X))
  BY <1>1, MaxPlace
<1>3. PICK g \in X : U!Max(Ids(X)) = g.id
  BY <1>2 DEF Ids
<1>4. \A s \in X : s.id <= g.id
  BY <1>2, <1>3 DEF Ids
<1>5. Ids(X) \in SUBSET Int /\ g.id \in Ids(X) /\ \A y \in Ids(X) : y <= g.id
  BY <1>1, <1>2, <1>3
<1>6. R!Max(Ids(X)) = g.id
  BY <1>5, GreatestIs
<1> QED BY <1>4, <1>6

(* Both modules count in the same way.                                       *)
LEMMA RetentionCounts == \A X : R!Cardinality(X) = Cardinality(X)
  BY DEF R!Cardinality, Cardinality

(* Nothing is kept at first.                                                 *)
LEMMA InitRetention == ASSUME R!Init PROVE RetentionInv
<1>1. raw = {} /\ taken = {} /\ aggregate = [d \in R!Days |-> R!NoAggregate]
      /\ inventory = {} /\ backups = {} /\ daily = {} /\ saved = {}
  BY DEF R!Init
<1>2. SampleInv
  BY <1>1, FS_EmptySet DEF SampleInv
<1>3. \A d \in R!Days : Gone(d) = {}
  BY <1>1 DEF Gone
<1>4. FoldInv
  BY <1>1, <1>3, FS_EmptySet DEF FoldInv, FoldOf, R!NoAggregate
<1>5. PeriodInv
  <2>1. pass.at = 0
    BY DEF R!Init, R!Idle
  <2> QED BY <1>1, <2>1 DEF PeriodInv, R!PeriodsKeepTheirLast, R!BackupsReachBack, R!LastOf, R!NewestOf
<1> QED BY <1>2, <1>4, <1>5 DEF RetentionInv

(* A collector inserts a sample: a row more.                                 *)
LEMMA SampleKeeps ==
  ASSUME RetentionInv, now \in R!Days, R!Sample PROVE SampleInv' /\ FoldInv'
<1> DEFINE s == [id |-> Cardinality(taken) + 1, day |-> now, slot |-> slot]
<1>1. raw' = raw \cup {s} /\ taken' = taken \cup {s} /\ aggregate' = aggregate /\ SampleInv /\ FoldInv
  BY RetentionCounts DEF R!Sample, RetentionInv
<1>2. s.id = Cardinality(taken) + 1 /\ s.day = now /\ Cardinality(taken) \in Nat
  BY <1>1, FS_CardinalityType DEF SampleInv
<1> HIDE DEF s
<1>3. s \notin taken /\ s \notin raw /\ \A t \in taken : t.id # s.id
  BY <1>1, <1>2 DEF SampleInv
<1>4. IsFiniteSet(taken') /\ Cardinality(taken') = Cardinality(taken) + 1
  BY <1>1, <1>3, FS_AddElement DEF SampleInv
<1>5. SampleInv'
  <2>1. \A t \in taken' : t.id \in 1..Cardinality(taken') /\ t.day \in R!Days
    BY <1>1, <1>2, <1>4 DEF SampleInv
  <2>2. \A t, u \in taken' : t.id = u.id => t = u
    BY <1>1, <1>3 DEF SampleInv
  <2> QED BY <1>1, <1>4, <2>1, <2>2 DEF SampleInv
<1>6. \A d \in R!Days : Gone(d)' = Gone(d)
  BY <1>1, <1>3 DEF Gone
<1>7. FoldInv'
  BY <1>1, <1>6 DEF FoldInv, FoldOf
<1> QED BY <1>5, <1>7

(* The aggregate of some samples of a day.                                   *)
LEMMA NewFold ==
  ASSUME NEW n \in Nat, NEW X, IsFiniteSet(X), X # {}, \A s \in X : s.id \in 1..n
  PROVE  \E k \in Nat : /\ k # 0 /\ k = Cardinality(Ids(R!Counted(X))) /\ Cardinality(X) \in Nat
                        /\ R!Max(Ids(R!Counted(X))) = R!Max(Ids(X))
<1>1. PICK g \in X : R!Max(Ids(X)) = g.id /\ \A s \in X : s.id <= g.id
  BY HasGreatest
<1>2. g \in R!Counted(X) /\ R!Counted(X) \subseteq X
  BY <1>1 DEF R!Counted
<1>3. Ids(R!Counted(X)) \subseteq 1..n /\ g.id \in Ids(R!Counted(X))
      /\ \A y \in Ids(R!Counted(X)) : y <= g.id
  BY <1>1, <1>2 DEF Ids
<1>4. R!Max(Ids(R!Counted(X))) = g.id
  <2>1. Ids(R!Counted(X)) \in SUBSET Int
    BY <1>3
  <2> QED BY <1>3, <2>1, GreatestIs
<1>5. IsFiniteSet(Ids(R!Counted(X)))
  <2>1. IsFiniteSet(1..n)
    BY FS_Interval
  <2> QED BY <1>3, <2>1, FS_Subset
<1>6. Cardinality(Ids(R!Counted(X))) \in Nat /\ Cardinality(Ids(R!Counted(X))) # 0
  BY <1>3, <1>5, FS_CardinalityType, FS_EmptySet
<1> QED BY <1>1, <1>4, <1>6, FS_CardinalityType

(* What a day holds now is folded into its aggregate, once.                  *)
LEMMA MergeFolds ==
  ASSUME RetentionInv, NEW d \in R!Days, NEW X, X = R!OfDay(d), X # {}, raw' = raw \ X, taken' = taken,
         NEW a, a = R!Merge(aggregate[d], X)
  PROVE  FoldOf(d, a)'
<1> DEFINE old == aggregate[d]
           n == Cardinality(taken)
<1>1. SampleInv /\ FoldOf(d, old) /\ n \in Nat
  BY FS_CardinalityType DEF RetentionInv, FoldInv, SampleInv
<1>2. /\ X \subseteq taken /\ X \subseteq raw /\ Gone(d) \subseteq taken /\ Gone(d) \cap X = {}
      /\ Gone(d)' = Gone(d) \cup X
  BY <1>1 DEF SampleInv, Gone, R!OfDay
<1>3. /\ IsFiniteSet(X) /\ IsFiniteSet(Gone(d)) /\ Cardinality(X) \in Nat /\ Cardinality(Gone(d)) \in Nat
      /\ Cardinality(Gone(d) \cup X) = Cardinality(Gone(d)) + Cardinality(X)
  <2>1. IsFiniteSet(X) /\ IsFiniteSet(Gone(d))
    BY <1>1, <1>2, FS_Subset DEF SampleInv
  <2>2. Cardinality(X) \in Nat /\ Cardinality(Gone(d)) \in Nat /\ Cardinality({}) = 0
    BY <2>1, FS_CardinalityType, FS_EmptySet
  <2>3. Cardinality(Gone(d) \cup X) = Cardinality(Gone(d)) + Cardinality(X) - 0
    BY <1>2, <2>1, <2>2, FS_Union
  <2> QED BY <2>1, <2>2, <2>3
<1>4. \A s \in Gone(d) \cup X : s.id \in 1..n
  BY <1>1, <1>2 DEF SampleInv
<1>5. PICK k \in Nat : /\ k # 0 /\ k = Cardinality(Ids(R!Counted(X)))
                       /\ R!Max(Ids(R!Counted(X))) = R!Max(Ids(X))
  BY <1>1, <1>3, <1>4, NewFold
<1>6. PICK g \in Gone(d) \cup X : /\ R!Max(Ids(Gone(d) \cup X)) = g.id
                                  /\ \A s \in Gone(d) \cup X : s.id <= g.id
  <2>1. Gone(d) \cup X # {}
    OBVIOUS
  <2> QED BY <1>1, <1>4, <2>1, HasGreatest
<1>7. PICK x \in X : R!Max(Ids(X)) = x.id /\ \A s \in X : s.id <= x.id
  BY <1>1, <1>4, HasGreatest
<1> DEFINE fold == [count |-> k, dropped |-> Cardinality(X) - k,
                    least |-> R!Least(Ids(R!Counted(X))), most |-> R!Max(Ids(X))]
<1>8. a = IF old.count = 0 THEN fold
          ELSE [count   |-> old.count + fold.count, dropped |-> old.dropped + fold.dropped,
                least   |-> R!Least({old.least, fold.least}), most |-> R!Max({old.most, fold.most})]
  BY <1>5, RetentionCounts DEF R!Merge, R!Most, Ids
<1> HIDE DEF old, n
<1>9. CASE old.count = 0
  <2>1. Gone(d) = {} /\ Cardinality(Gone(d)) = 0
    BY <1>1, <1>9, FS_EmptySet DEF FoldOf
  <2>2. a.count = k /\ a.dropped = Cardinality(X) - k /\ a.most = x.id
    BY <1>7, <1>8, <1>9
  <2>3. Gone(d) \cup X = X
    BY <2>1
  <2>4. a.dropped \in Int /\ a.count + a.dropped = Cardinality(X)
    BY <1>3, <2>2
  <2> QED BY <1>2, <1>5, <1>7, <2>2, <2>3, <2>4 DEF FoldOf
<1>10. CASE old.count # 0
  <2>1. /\ a.count = old.count + k /\ a.dropped = old.dropped + (Cardinality(X) - k)
        /\ a.most = R!Max({old.most, x.id})
    BY <1>7, <1>8, <1>10
  <2>2. /\ old.count \in Nat /\ old.dropped \in Int /\ old.count + old.dropped = Cardinality(Gone(d))
        /\ Gone(d) # {} /\ old.most = R!Max(Ids(Gone(d)))
    BY <1>1, <1>10 DEF FoldOf
  <2>3. a.count \in Nat /\ a.count # 0 /\ a.dropped \in Int
        /\ a.count + a.dropped = Cardinality(Gone(d)) + Cardinality(X)
    BY <1>3, <1>5, <2>1, <2>2
  <2>4. PICK o \in Gone(d) : old.most = o.id /\ \A s \in Gone(d) : s.id <= o.id
    BY <1>1, <1>4, <2>2, HasGreatest
  <2>5. o.id \in 1..n /\ x.id \in 1..n /\ g.id \in 1..n /\ o.id <= g.id /\ x.id <= g.id
    BY <1>4, <1>6
  <2>6. g.id <= o.id \/ g.id <= x.id
    BY <1>6, <1>7, <2>4
  <2>7. g.id \in {o.id, x.id}
    BY <1>1, <2>5, <2>6
  <2>8. {o.id, x.id} \in SUBSET Int /\ \A y \in {o.id, x.id} : y <= g.id
    BY <1>1, <2>5
  <2>9. R!Max({o.id, x.id}) = g.id
    BY <2>7, <2>8, GreatestIs
  <2>10. a.most = R!Max(Ids(Gone(d) \cup X))
    BY <1>6, <2>1, <2>4, <2>9
  <2> QED BY <1>2, <1>3, <2>3, <2>10 DEF FoldOf
<1> QED BY <1>9, <1>10

(* The turn of a day.                                                        *)
LEMMA AggregateKeeps == ASSUME RetentionInv, R!AggregateDay PROVE SampleInv' /\ FoldInv'
<1>1. PICK d, X :
        /\ X = R!OfDay(d) /\ raw' = raw \ X /\ taken' = taken
        /\ aggregate' = IF X = {} THEN aggregate
                        ELSE [aggregate EXCEPT ![d] = R!Merge(aggregate[d], X)]
  BY DEF R!AggregateDay, R!history
<1>0. SampleInv /\ FoldInv
  BY DEF RetentionInv
<1>2. X \subseteq raw /\ \A s \in X : s \in taken /\ s.day = d
  BY <1>0, <1>1 DEF R!OfDay, SampleInv
<1>3. CASE X = {}
  <2>1. raw' = raw /\ aggregate' = aggregate
    BY <1>1, <1>3
  <2> QED BY <1>0, <2>1, <1>1 DEF SampleInv, FoldInv, FoldOf, Gone
<1>4. CASE X # {}
  <2>1. d \in R!Days
    BY <1>0, <1>2, <1>4 DEF SampleInv
  <2>2. aggregate' = [aggregate EXCEPT ![d] = R!Merge(aggregate[d], X)] /\ DOMAIN aggregate = R!Days
    BY <1>0, <1>1, <1>4 DEF SampleInv
  <2>3. SampleInv'
    BY <1>0, <1>1, <1>2, <2>2 DEF SampleInv
  <2>4. FoldOf(d, aggregate[d])'
    <3>1. aggregate'[d] = R!Merge(aggregate[d], X)
      BY <2>1, <2>2
    <3>2. \A a : a = R!Merge(aggregate[d], X) => FoldOf(d, a)'
      BY <1>1, <1>4, <2>1, MergeFolds
    <3> QED BY <3>1, <3>2 DEF FoldOf
  <2>5. ASSUME NEW e \in R!Days, e # d PROVE FoldOf(e, aggregate[e])'
    <3>1. aggregate'[e] = aggregate[e]
      BY <2>1, <2>2, <2>5
    <3>2. Gone(e)' = Gone(e)
      BY <1>1, <1>2, <2>5 DEF Gone
    <3> QED BY <1>0, <3>1, <3>2 DEF FoldInv, FoldOf
  <2> QED BY <2>3, <2>4, <2>5 DEF FoldInv
<1> QED BY <1>3, <1>4

(* The last of a period stays when others leave.                             *)
LEMMA LastStays ==
  ASSUME NEW X, NEW Y, Y \subseteq X, NEW f
  PROVE  \A d \in R!LastOf(X, f) : d \in Y => d \in R!LastOf(Y, f)
  BY DEF R!LastOf

(* The thinning takes no last snapshot of a period.                          *)
LEMMA CleanKeeps == ASSUME RetentionInv, R!Clean PROVE PeriodInv'
<1>1. PeriodInv /\ UNCHANGED <<backups, daily, saved>>
      /\ inventory' = IF inventory = {} THEN {} ELSE R!Thinned(inventory, pass.at - DailyDays)
  BY DEF R!Clean, R!history, RetentionInv
<1>2. R!PeriodsKeepTheirLast'
  <2>1. CASE inventory = {}
    BY <1>1, <2>1 DEF PeriodInv, R!PeriodsKeepTheirLast
  <2>2. CASE inventory # {}
    <3> DEFINE cutoff == pass.at - DailyDays
               aged == {d \in inventory : d < cutoff}
    <3>1. /\ {d \in inventory : d >= cutoff} \subseteq inventory'
          /\ R!LastOf(aged, R!Week) \subseteq inventory' /\ R!LastOf(aged, R!Month) \subseteq inventory'
      BY <1>1, <2>2 DEF R!Thinned
    <3> SUFFICES ASSUME NEW f \in {R!Week, R!Month}, NEW d \in R!LastOf(daily, f) PROVE d \in inventory'
      BY <1>1 DEF R!PeriodsKeepTheirLast
    <3>2. d \in inventory /\ aged \subseteq daily
      BY <1>1 DEF PeriodInv, R!PeriodsKeepTheirLast
    <3>3. CASE d \in aged
      BY <3>1, <3>2, <3>3, LastStays
    <3>4. CASE d \notin aged
      <4>1. ~(d < cutoff) /\ d \in Int /\ cutoff \in Int
        BY <1>1, <3>2, <3>4, RetentionAssumption DEF PeriodInv, R!Days
      <4>2. d >= cutoff
        <5> HIDE DEF cutoff
        <5> QED BY <4>1
      <4> QED BY <3>1, <3>2, <4>2
    <3> QED BY <3>3, <3>4
  <2> QED BY <2>1, <2>2
<1>3. inventory' \subseteq inventory
  <2>1. CASE inventory = {}
    BY <1>1, <2>1
  <2>2. CASE inventory # {}
    <3>1. inventory \in SUBSET (0..MaxDay)
      BY <1>1 DEF PeriodInv, R!PeriodsKeepTheirLast, R!Days
    <3>2. U!Max(inventory) \in inventory /\ R!Max(inventory) = U!Max(inventory)
      BY <2>2, <3>1, MaxPlace, RetentionAssumption DEF R!Max, U!Max
    <3> QED BY <1>1, <2>2, <3>2 DEF R!Thinned, R!LastOf, R!Most
  <2> QED BY <2>1, <2>2
<1>4. R!BackupsReachBack' /\ pass'.at \in Int
  <2>1. pass'.at \in {0, pass.at}
    BY DEF R!Clean, R!Idle
  <2> QED BY <1>1, <2>1 DEF PeriodInv, R!BackupsReachBack
<1> QED BY <1>1, <1>2, <1>3, <1>4 DEF PeriodInv

(* A snapshot of today is the last of its periods or leaves the last as it   *)
(* is.                                                                       *)
LEMMA BeginsKeep ==
  ASSUME RetentionInv, now \in R!Days, NEW weekly \in BOOLEAN, R!Begin(weekly) PROVE PeriodInv'
<1>1. PeriodInv /\ UNCHANGED <<backups, saved>> /\ pass'.at = 0
      /\ \/ UNCHANGED <<inventory, daily>>
         \/ inventory' = inventory \cup {now} /\ daily' = daily \cup {now}
  BY DEF R!Begin, R!Idle, RetentionInv
<1>2. R!BackupsReachBack'
  BY <1>1 DEF PeriodInv, R!BackupsReachBack
<1>3. R!PeriodsKeepTheirLast'
  <2>1. CASE UNCHANGED <<inventory, daily>>
    BY <1>1, <2>1 DEF PeriodInv, R!PeriodsKeepTheirLast
  <2>2. CASE inventory' = inventory \cup {now} /\ daily' = daily \cup {now}
    <3>1. \A f : \A d \in R!LastOf(daily \cup {now}, f) : d # now => d \in R!LastOf(daily, f)
      BY DEF R!LastOf
    <3>2. \A f : R!LastOf(daily \cup {now}, f) \subseteq daily \cup {now}
      BY DEF R!LastOf
    <3> QED BY <1>1, <2>2, <3>1, <3>2 DEF PeriodInv, R!PeriodsKeepTheirLast
  <2> QED BY <1>1, <2>1, <2>2
<1> QED BY <1>1, <1>2, <1>3 DEF PeriodInv

(* How many newer periods there are is counted in a finite set, the smaller  *)
(* the fewer days there are.                                                 *)
LEMMA FewerNewer ==
  ASSUME NEW X \in SUBSET R!Days, NEW Y \in SUBSET X, NEW f, NEW d \in Y, NEW k \in Nat,
         d \in R!NewestOf(X, f, k)
  PROVE  d \in R!NewestOf(Y, f, k)
<1> DEFINE Newer(Z) == {f[e] : e \in {x \in Z : f[x] > f[d]}}
<1>1. d \in R!LastOf(X, f) /\ Cardinality(Newer(X)) < k
  BY RetentionCounts DEF R!NewestOf
<1>2. IsFiniteSet(Newer(X))
  <2>1. IsFiniteSet({x \in X : f[x] > f[d]})
    <3>1. IsFiniteSet(0..MaxDay)
      BY FS_Interval, RetentionAssumption
    <3>2. {x \in X : f[x] > f[d]} \subseteq 0..MaxDay
      BY DEF R!Days
    <3> QED BY <3>1, <3>2, FS_Subset
  <2> DEFINE Z == {x \in X : f[x] > f[d]}
             g == [e \in Z |-> f[e]]
  <2>2. g \in Surjection(Z, Newer(X))
    BY DEF Surjection
  <2> QED BY <2>1, <2>2, FS_Surjection
<1>3. Newer(Y) \subseteq Newer(X)
  OBVIOUS
<1>4. Cardinality(Newer(Y)) <= Cardinality(Newer(X)) /\ Cardinality(Newer(Y)) \in Nat
      /\ Cardinality(Newer(X)) \in Nat
  <2> HIDE DEF Newer
  <2>1. IsFiniteSet(Newer(Y))
    BY <1>2, <1>3, FS_Subset
  <2> QED BY <1>2, <1>3, <2>1, FS_Subset, FS_CardinalityType
<1>5. Cardinality(Newer(Y)) < k
  <2> HIDE DEF Newer
  <2> QED BY <1>1, <1>4
<1>6. d \in R!LastOf(Y, f)
  BY <1>1, LastStays
<1> QED BY <1>5, <1>6, RetentionCounts DEF R!NewestOf

(* A backup of today does not push out one that is counted on.               *)
LEMMA BackupKeeps == ASSUME RetentionInv, now \in R!Days, R!Backup PROVE PeriodInv'
<1>1. /\ PeriodInv /\ UNCHANGED <<inventory, daily>> /\ pass'.at = pass.at
      /\ backups' = backups \cup {now} /\ saved' = saved \cup {now}
  BY DEF R!Backup, RetentionInv
<1>2. R!PeriodsKeepTheirLast'
  BY <1>1 DEF PeriodInv, R!PeriodsKeepTheirLast
<1>3. ASSUME NEW f, NEW k \in Nat, NEW d \in R!NewestOf(saved', f, k), R!NewestOf(saved, f, k) \subseteq backups
      PROVE  d \in backups'
  <2>1. d \in saved'
    BY DEF R!NewestOf, R!LastOf
  <2>2. CASE d = now
    BY <1>1, <2>2
  <2>3. CASE d # now
    <3>1. d \in saved /\ saved \in SUBSET saved' /\ saved' \in SUBSET R!Days
      BY <1>1, <2>1, <2>3 DEF PeriodInv
    <3>2. d \in R!NewestOf(saved, f, k)
      BY <3>1, FewerNewer
    <3> QED BY <1>1, <1>3, <3>2
  <2> QED BY <2>2, <2>3
<1>4. R!BackupsReachBack'
  BY <1>1, <1>3, RetentionAssumption DEF PeriodInv, R!BackupsReachBack
<1> QED BY <1>1, <1>2, <1>4 DEF PeriodInv

(* What the pruning counts is less than what was ever saved.                 *)
LEMMA PruneKeeps == ASSUME RetentionInv, R!PruneBackups PROVE PeriodInv'
<1>1. /\ PeriodInv /\ UNCHANGED <<inventory, daily, saved>> /\ pass'.at = 0
      /\ backups' = R!KeptBackups(backups)
  BY DEF R!PruneBackups, R!Idle, R!history, RetentionInv
<1>2. R!PeriodsKeepTheirLast'
  BY <1>1 DEF PeriodInv, R!PeriodsKeepTheirLast
<1>3. ASSUME NEW f, NEW k \in Nat, R!NewestOf(saved, f, k) \subseteq backups
      PROVE  R!NewestOf(saved, f, k) \subseteq R!NewestOf(backups, f, k)
  BY <1>1, <1>3, FewerNewer DEF PeriodInv
<1>4. R!BackupsReachBack'
  BY <1>1, <1>3, RetentionAssumption DEF PeriodInv, R!BackupsReachBack, R!KeptBackups
<1>5. backups' \subseteq backups
  BY <1>1 DEF R!KeptBackups, R!NewestOf, R!LastOf
<1> QED BY <1>1, <1>2, <1>4, <1>5 DEF PeriodInv

(* Whatever leaves the rows and days alone.                                  *)
LEMMA RowsRest ==
  ASSUME RetentionInv, UNCHANGED <<raw, aggregate, taken>> PROVE SampleInv' /\ FoldInv'
  BY DEF RetentionInv, SampleInv, FoldInv, FoldOf, Gone

(* Whatever leaves the inventory and the backups alone.                      *)
LEMMA DaysRest ==
  ASSUME RetentionInv, UNCHANGED <<inventory, backups, daily, saved>>, pass'.at \in Int PROVE PeriodInv'
  BY DEF RetentionInv, PeriodInv, R!PeriodsKeepTheirLast, R!BackupsReachBack

(* The steps of collectors and maintenance together.                         *)
LEMMA NextRetention ==
  ASSUME RetentionInv, now \in R!Days, R!Next PROVE RetentionInv' /\ now' \in R!Days
<1>1. now' \in R!Days
  <2>1. now \in Nat /\ now \in 0..MaxDay
    BY RetentionAssumption DEF R!Days
  <2>2. now' = now \/ (now' = now + 1 /\ now < MaxDay) \/ (now' = now - 1 /\ now > 0)
    BY DEF R!Next, R!Tick, R!SetBack, R!Sample, R!Maintain, R!Begin, R!Backup, R!FindDays,
       R!AggregateDay, R!Clean, R!PruneBackups, R!Die
  <2> QED BY <2>1, <2>2, RetentionAssumption DEF R!Days
<1>2. CASE R!Tick \/ R!SetBack \/ R!FindDays \/ R!Die
  <2>1. UNCHANGED <<raw, aggregate, taken, inventory, backups, daily, saved>>
        /\ (pass' = pass \/ pass' = R!Idle \/ pass'.at = now)
    <3>1. R!FindDays => pass'.at = now
      BY DEF R!FindDays
    <3> QED BY <1>2, <3>1 DEF R!Tick, R!SetBack, R!FindDays, R!Die, R!data, R!history
  <2>2. pass'.at \in Int
    BY <2>1 DEF RetentionInv, PeriodInv, R!Idle, R!Days
  <2> QED BY <1>1, <2>1, <2>2, RowsRest, DaysRest DEF RetentionInv
<1>3. CASE R!Sample \/ R!AggregateDay
  <2>1. UNCHANGED <<inventory, backups, daily, saved>> /\ pass'.at = pass.at
    <3>1. R!AggregateDay => UNCHANGED <<inventory, backups, daily, saved>> /\ pass'.at = pass.at
      BY DEF R!AggregateDay, R!history
    <3> QED BY <1>3, <3>1 DEF R!Sample
  <2>2. pass'.at \in Int
    BY <2>1 DEF RetentionInv, PeriodInv
  <2> QED BY <1>1, <1>3, <2>1, <2>2, DaysRest, SampleKeeps, AggregateKeeps DEF RetentionInv
<1>4. CASE R!Clean \/ R!Backup \/ R!PruneBackups \/ \E weekly \in BOOLEAN : R!Begin(weekly)
  <2>1. UNCHANGED <<raw, aggregate, taken>>
    BY <1>4 DEF R!Clean, R!Backup, R!PruneBackups, R!Begin, R!history
  <2> QED BY <1>1, <1>4, <2>1, RowsRest, CleanKeeps, BackupKeeps, PruneKeeps, BeginsKeep DEF RetentionInv
<1> QED BY <1>2, <1>3, <1>4 DEF R!Next, R!Maintain

(* Another part of the records moves.                                        *)
LEMMA OthersKeepRetention == ASSUME RetentionInv, UNCHANGED keptVars PROVE RetentionInv'
<1>1. UNCHANGED <<raw, aggregate, taken, inventory, backups, daily, saved, pass>>
  BY DEF keptVars
<1>2. pass'.at \in Int
  BY <1>1 DEF RetentionInv, PeriodInv
<1> QED BY <1>1, <1>2, RowsRest, DaysRest DEF RetentionInv

(* The invariant says what is promised of what is kept.                      *)
LEMMA RetentionIsTrue ==
  ASSUME RetentionInv PROVE R!EverySampleOnce /\ R!PeriodsKeepTheirLast /\ R!BackupsReachBack
<1>1. ASSUME NEW d \in R!Days
      PROVE  LET gone == {s \in taken : s.day = d} \ raw  a == aggregate[d]
             IN  /\ a.count + a.dropped = R!Cardinality(gone)
                 /\ gone # {} => a.most = R!Most({s.id : s \in gone})
  BY RetentionCounts DEF RetentionInv, FoldInv, FoldOf, Gone, Ids, R!Most
<1> QED BY <1>1 DEF RetentionInv, PeriodInv, R!EverySampleOnce

-----------------------------------------------------------------------------
(* The history of processes: its hours.                                      *)

(* An hour has its ticks.                                                    *)
LEMMA HourHolds ==
  ASSUME NEW t \in Nat
  PROVE  P!Hour(t) \in Nat /\ P!Hour(t) * HourTicks <= t /\ t < (P!Hour(t) + 1) * HourTicks
<1>1. HourTicks \in Nat /\ HourTicks > 0
  BY RetentionAssumption
<1> QED BY <1>1 DEF P!Hour

(* A clock that is some hours behind shows an hour that many behind at most.  *)
LEMMA HoursBehind ==
  ASSUME NEW s \in Nat, NEW t \in Nat, NEW k \in Nat, t <= s + k * HourTicks
  PROVE  P!Hour(t) <= P!Hour(s) + k
<1> DEFINE a == P!Hour(s)  b == P!Hour(t)
<1>1. /\ a \in Nat /\ b \in Nat /\ HourTicks \in Nat /\ HourTicks > 0
      /\ b * HourTicks <= t /\ s < (a + 1) * HourTicks
  BY HourHolds, RetentionAssumption
<1> SUFFICES ASSUME b >= a + k + 1 PROVE FALSE
  <2>1. a \in Int /\ b \in Int /\ a + k \in Int
    BY <1>1
  <2> QED BY <2>1
<1> HIDE DEF a, b
<1>2. b * HourTicks >= (a + k + 1) * HourTicks
  BY <1>1
<1>3. (a + k + 1) * HourTicks = (a + 1) * HourTicks + k * HourTicks
  BY <1>1
<1>4. /\ b * HourTicks \in Int /\ (a + k + 1) * HourTicks \in Int
      /\ (a + 1) * HourTicks \in Int /\ k * HourTicks \in Int
  BY <1>1
<1> QED BY ONLY <1>1, <1>2, <1>3, <1>4, t <= s + k * HourTicks, s \in Nat, t \in Nat

-----------------------------------------------------------------------------
(* Sums of deltas, which do not depend on the order they are taken in.       *)
Summed(X) == P!MapThenSumSet(LAMBDA s : s.delta, X)
Differenced(X) == {s \in X : s.delta # P!NoDelta}

(* One scan of some, as the fold picks it.                                   *)
One(X) == CHOOSE s \in X : TRUE

(* The fold's own definition of the sum.                                     *)
LEMMA SumUnfolds ==
  ASSUME NEW X
  PROVE  Summed(X) = (CHOOSE it : it = [Y \in SUBSET X |->
                        IF Y = {} THEN 0 ELSE One(Y).delta + it[Y \ {One(Y)}]])[X]
  BY DEF Summed, P!MapThenSumSet, P!MapThenFoldSet, One

(* The scan that a sum takes first.                                          *)
LEMMA OneIsTaken == ASSUME NEW X, X # {} PROVE One(X) \in X /\ X \ {One(X)} # X
  BY DEF One

(* A sum is the delta of one scan and the sum of the rest.                   *)
LEMMA SumStep ==
  ASSUME NEW X, IsFiniteSet(X)
  PROVE  Summed(X) = IF X = {} THEN 0 ELSE One(X).delta + Summed(X \ {One(X)})
<1> DEFINE Rec(Y) == IF Y = {} THEN 0 ELSE One(Y).delta + Summed(Y \ {One(Y)})
           B == {T \in SUBSET X : Summed(T) # Rec(T)}
<1> SUFFICES ASSUME Summed(X) # Rec(X) PROVE FALSE
  OBVIOUS
<1>1. B \in SUBSET (SUBSET X) /\ X \in B
  OBVIOUS
<1>2. PICK T \in B : \A V \in B : V \subseteq T => V = T
  <2> HIDE DEF B
  <2> QED BY <1>1, SmallestSubset
<1> DEFINE G == [Y \in SUBSET T |-> Rec(Y)]
           Is(it) == it = [Y \in SUBSET T |->
                            IF Y = {} THEN 0 ELSE One(Y).delta + it[Y \ {One(Y)}]]
<1>3. ASSUME NEW V \in SUBSET T, V # T PROVE Summed(V) = Rec(V)
  BY <1>2, <1>3
<1>4. ASSUME NEW Y \in SUBSET T, Y # {} PROVE G[Y \ {One(Y)}] = Summed(Y \ {One(Y)})
  <2>1. Y \ {One(Y)} \in SUBSET T /\ Y \ {One(Y)} # T
    BY <1>4, OneIsTaken
  <2>2. Summed(Y \ {One(Y)}) = Rec(Y \ {One(Y)})
    BY <1>3, <2>1
  <2> HIDE DEF Rec
  <2> QED BY <2>1, <2>2
<1>5. Is(G)
  <2>1. \A Y \in SUBSET T :
          G[Y] = IF Y = {} THEN 0 ELSE One(Y).delta + G[Y \ {One(Y)}]
    BY <1>4
  <2>2. G = [Y \in SUBSET T |-> G[Y]]
    OBVIOUS
  <2> HIDE DEF G
  <2> QED BY <2>1, <2>2
<1> DEFINE it == CHOOSE g : Is(g)
<1>6. Is(it) /\ Summed(T) = it[T]
  <2>1. Summed(T) = it[T]
    BY SumUnfolds
  <2>2. Is(it)
    <3> HIDE DEF G, Is
    <3> QED BY <1>5
  <2> QED BY <2>1, <2>2
<1> HIDE DEF it, G
<1>7. \A Y \in SUBSET T : it[Y] = G[Y]
  <2> DEFINE W == {Y \in SUBSET T : it[Y] # G[Y]}
  <2> SUFFICES ASSUME W # {} PROVE FALSE
    OBVIOUS
  <2>1. W \in SUBSET (SUBSET T) /\ IsFiniteSet(T)
    <3>1. T \in SUBSET X
      OBVIOUS
    <3> QED BY <3>1, FS_Subset
  <2>2. PICK Y \in W : \A V \in W : V \subseteq Y => V = Y
    <3> HIDE DEF W
    <3> QED BY <2>1, SmallestSubset
  <2>3. Y # {} => it[Y \ {One(Y)}] = G[Y \ {One(Y)}]
    <3>1. Y # {} => Y \ {One(Y)} \notin W
      BY <2>2, OneIsTaken
    <3>2. Y \ {One(Y)} \in SUBSET T
      OBVIOUS
    <3> QED BY <3>1, <3>2
  <2>4. /\ it[Y] = IF Y = {} THEN 0 ELSE One(Y).delta + it[Y \ {One(Y)}]
        /\ G[Y] = IF Y = {} THEN 0 ELSE One(Y).delta + G[Y \ {One(Y)}]
    BY <1>5, <1>6
  <2> QED BY <2>3, <2>4
<1>8. G[T] = Rec(T)
  BY DEF G
<1> QED BY <1>6, <1>7, <1>8

(* The sum of natural numbers is one.                                        *)
LEMMA SumNat ==
  ASSUME NEW X, IsFiniteSet(X), \A s \in X : s.delta \in Nat PROVE Summed(X) \in Nat
<1> DEFINE B == {T \in SUBSET X : Summed(T) \notin Nat}
<1> SUFFICES ASSUME Summed(X) \notin Nat PROVE FALSE
  OBVIOUS
<1>1. B \in SUBSET (SUBSET X) /\ B # {} /\ IsFiniteSet(X)
  OBVIOUS
<1>2. PICK T \in B : \A V \in B : V \subseteq T => V = T
  <2> HIDE DEF B
  <2> QED BY ONLY <1>1, SmallestSubset
<1>3. T \in SUBSET X /\ IsFiniteSet(T)
  BY FS_Subset
<1>4. CASE T = {}
  BY <1>3, <1>4, SumStep
<1>5. CASE T # {}
  <2>1. One(T) \in T /\ T \ {One(T)} # T
    BY <1>5, OneIsTaken
  <2>2. Summed(T \ {One(T)}) \in Nat /\ One(T).delta \in Nat
    BY <1>2, <1>3, <2>1
  <2>3. Summed(T) = One(T).delta + Summed(T \ {One(T)})
    BY <1>3, <1>5, SumStep
  <2> QED BY <2>2, <2>3
<1> QED BY <1>4, <1>5

(* Any scan may be counted first.                                            *)
LEMMA SumRemove ==
  ASSUME NEW X, IsFiniteSet(X), \A s \in X : s.delta \in Nat, NEW x \in X
  PROVE  Summed(X) = x.delta + Summed(X \ {x})
<1> DEFINE Fits(T, y) == Summed(T) = y.delta + Summed(T \ {y})
           B == {T \in SUBSET X : \E y \in T : ~Fits(T, y)}
<1> SUFFICES ASSUME ~Fits(X, x) PROVE FALSE
  OBVIOUS
<1>1. B \in SUBSET (SUBSET X) /\ B # {} /\ IsFiniteSet(X)
  OBVIOUS
<1>2. PICK T \in B : \A V \in B : V \subseteq T => V = T
  <2> HIDE DEF B
  <2> QED BY ONLY <1>1, SmallestSubset
<1>3. T \in SUBSET X /\ IsFiniteSet(T)
  BY FS_Subset
<1>4. PICK y \in T : ~Fits(T, y)
  OBVIOUS
<1> DEFINE c == One(T)
<1>5. c \in T /\ Fits(T, c)
  BY <1>3, OneIsTaken, SumStep
<1>6. y # c
  BY <1>4, <1>5
<1>7. ASSUME NEW V \in SUBSET T, V # T, NEW z \in V PROVE Fits(V, z)
  BY <1>2, <1>3, <1>7
<1> HIDE DEF B, c
<1>8. Fits(T \ {c}, y) /\ Fits(T \ {y}, c)
  <2>1. /\ T \ {c} \in SUBSET T /\ T \ {c} # T /\ y \in T \ {c}
        /\ T \ {y} \in SUBSET T /\ T \ {y} # T /\ c \in T \ {y}
    BY <1>5, <1>6
  <2> HIDE DEF Fits
  <2> QED BY <1>7, <2>1
<1>9. (T \ {c}) \ {y} = (T \ {y}) \ {c}
  OBVIOUS
<1> DEFINE rest == Summed((T \ {y}) \ {c})
<1>10. rest \in Nat /\ y.delta \in Nat /\ c.delta \in Nat
  <2>1. (T \ {y}) \ {c} \in SUBSET X /\ y \in X /\ c \in X
    BY <1>3, <1>5
  <2>2. IsFiniteSet((T \ {y}) \ {c})
    BY <2>1, FS_Subset
  <2> QED BY <2>1, <2>2, SumNat
<1>11. /\ Summed(T) = c.delta + Summed(T \ {c}) /\ Summed(T \ {c}) = y.delta + rest
       /\ Summed(T \ {y}) = c.delta + rest
  BY <1>5, <1>8, <1>9
<1> HIDE DEF rest
<1>12. Summed(T) = y.delta + Summed(T \ {y})
  BY <1>10, <1>11
<1> QED BY <1>4, <1>12

(* A scan as it was made, before its hour was rolled up.                     *)
Plain(s) == [s EXCEPT !.rolled = FALSE]
ScanRows == [id : Nat, at : Nat, boot : Nat, life : Nat, work : Nat,
             delta : Nat \cup {P!NoDelta}, rolled : BOOLEAN]
SameScan(X) == \A s, t \in X : s.id = t.id => s = t

(* Another scan of an hour adds to its rollup what it saw and its delta.     *)
LEMMA RollupAdds ==
  ASSUME NEW X \in SUBSET ScanRows, IsFiniteSet(X), NEW x \in ScanRows, x \notin X
  PROVE  /\ P!Rollup(X).samples \in Nat /\ P!Rollup(X).delta \in Nat
         /\ P!Rollup(X \cup {x}) =
              [samples |-> P!Rollup(X).samples + (IF x.life = 0 THEN 0 ELSE 1),
               delta |-> P!Rollup(X).delta + (IF x.delta = P!NoDelta THEN 0 ELSE x.delta)]
<1> DEFINE Saw(Y) == {s \in Y : s.life # 0}
<1>1. \A Y : P!Rollup(Y) = [samples |-> Cardinality(Saw(Y)), delta |-> Summed(Differenced(Y))]
  BY DEF P!Rollup, P!Growth, Summed, Differenced, P!Cardinality, Cardinality
<1>2. /\ IsFiniteSet(Saw(X)) /\ IsFiniteSet(Differenced(X)) /\ x \notin Saw(X) /\ x \notin Differenced(X)
      /\ Saw(X) \in SUBSET X /\ Differenced(X) \in SUBSET X
  <2>1. Saw(X) \in SUBSET X /\ Differenced(X) \in SUBSET X
    BY DEF Differenced
  <2> HIDE DEF Saw
  <2> QED BY <2>1, FS_Subset
<1>3. /\ Cardinality(Saw(X)) \in Nat
      /\ Cardinality(Saw(X \cup {x})) = Cardinality(Saw(X)) + (IF x.life = 0 THEN 0 ELSE 1)
  <2>1. Saw(X \cup {x}) = IF x.life = 0 THEN Saw(X) ELSE Saw(X) \cup {x}
    OBVIOUS
  <2> HIDE DEF Saw
  <2>2. Cardinality(Saw(X)) \in Nat
        /\ Cardinality(Saw(X) \cup {x}) = Cardinality(Saw(X)) + 1
    BY <1>2, FS_CardinalityType, FS_AddElement
  <2> QED BY <2>1, <2>2
<1>4. \A s \in ScanRows : s.delta # P!NoDelta => s.delta \in Nat
  BY DEF ScanRows
<1>5. /\ Summed(Differenced(X)) \in Nat
      /\ Summed(Differenced(X \cup {x})) =
           Summed(Differenced(X)) + (IF x.delta = P!NoDelta THEN 0 ELSE x.delta)
  <2>1. \A s \in Differenced(X) : s.delta \in Nat
    BY <1>4 DEF Differenced
  <2>2. Summed(Differenced(X)) \in Nat
    BY <1>2, <2>1, SumNat
  <2>3. CASE x.delta = P!NoDelta
    <3>1. Differenced(X \cup {x}) = Differenced(X)
      BY <2>3 DEF Differenced
    <3> QED BY <2>2, <2>3, <3>1
  <2>4. CASE x.delta # P!NoDelta
    <3>1. Differenced(X \cup {x}) = Differenced(X) \cup {x}
      BY <2>4 DEF Differenced
    <3>2. IsFiniteSet(Differenced(X) \cup {x}) /\ (Differenced(X) \cup {x}) \ {x} = Differenced(X)
      BY <1>2, FS_AddElement
    <3>3. \A s \in Differenced(X) \cup {x} : s.delta \in Nat
      BY <1>4, <2>1, <2>4
    <3>4. Summed(Differenced(X) \cup {x}) = x.delta + Summed(Differenced(X))
      BY <3>2, <3>3, SumRemove
    <3>5. x.delta \in Nat
      BY <1>4, <2>4
    <3>6. Summed(Differenced(X)) + x.delta = x.delta + Summed(Differenced(X))
      BY <2>2, <3>5
    <3>7. Summed(Differenced(X \cup {x})) = Summed(Differenced(X)) + x.delta
      BY <3>1, <3>4, <3>6
    <3> QED BY <2>2, <2>4, <3>7
  <2> QED BY <2>2, <2>3, <2>4
<1> HIDE DEF Saw
<1> QED BY <1>1, <1>3, <1>5

(* Nothing was seen by no scans.                                             *)
LEMMA RollupEmpty == P!Rollup({}) = [samples |-> 0, delta |-> 0]
<1>1. Differenced({}) = {} /\ {s \in {} : s.life # 0} = {}
  BY DEF Differenced
<1>2. Summed({}) = 0 /\ Cardinality({}) = 0
  BY SumStep, FS_EmptySet
<1> QED BY <1>1, <1>2 DEF P!Rollup, P!Growth, Summed, Differenced, P!Cardinality, Cardinality

(* To have been rolled up changes nothing of what a scan adds.               *)
LEMMA RollupPlain ==
  ASSUME NEW X \in SUBSET ScanRows, IsFiniteSet(X), SameScan(X)
  PROVE  P!Rollup(X) = P!Rollup({Plain(s) : s \in X})
<1> DEFINE Same(T) == P!Rollup(T) = P!Rollup({Plain(s) : s \in T})
           B == {T \in SUBSET X : ~Same(T)}
<1> SUFFICES ASSUME ~Same(X) PROVE FALSE
  OBVIOUS
<1>1. B \in SUBSET (SUBSET X) /\ B # {}
  OBVIOUS
<1>2. PICK T \in B : \A V \in B : V \subseteq T => V = T
  <2> HIDE DEF B
  <2> QED BY <1>1, SmallestSubset
<1>3. T \in SUBSET X /\ IsFiniteSet(T) /\ ~Same(T)
  BY <1>2, FS_Subset
<1>4. T # {}
  <2>1. {Plain(s) : s \in {}} = {}
    OBVIOUS
  <2> QED BY <1>3, <2>1
<1> DEFINE x == One(T)  V == T \ {x}  W == {Plain(s) : s \in V}
<1>5. x \in T /\ V # T /\ V \in SUBSET X
  BY <1>3, <1>4, OneIsTaken
<1>6. Same(V)
  BY <1>2, <1>5
<1>7. \A s \in ScanRows : /\ Plain(s) \in ScanRows /\ Plain(s).id = s.id
                          /\ Plain(s).life = s.life /\ Plain(s).delta = s.delta
  BY DEF ScanRows, Plain
<1>8. /\ x \in ScanRows /\ x \notin V /\ V \in SUBSET ScanRows
      /\ Plain(x) \in ScanRows /\ W \in SUBSET ScanRows
  BY <1>3, <1>5, <1>7
<1>9. Plain(x) \notin W
  <2>1. \A s \in V : s.id # x.id
    BY <1>3, <1>5 DEF SameScan
  <2> QED BY <1>7, <1>8, <2>1
<1>10. IsFiniteSet(V) /\ IsFiniteSet(W)
  <2>1. IsFiniteSet(V)
    BY <1>5, FS_Subset
  <2> DEFINE g == [s \in V |-> Plain(s)]
  <2>2. g \in Surjection(V, W)
    BY DEF Surjection
  <2> HIDE DEF x, V, W, g
  <2> QED BY <2>1, <2>2, FS_Surjection
<1>11. T = V \cup {x} /\ {Plain(s) : s \in T} = W \cup {Plain(x)}
  <2>1. T = V \cup {x}
    BY <1>5
  <2> HIDE DEF x, V
  <2> QED BY <2>1
<1>12. P!Rollup(V) = P!Rollup(W) /\ Plain(x).life = x.life /\ Plain(x).delta = x.delta
  BY <1>6, <1>7, <1>8
<1> HIDE DEF x, V, W, B
<1>13. /\ P!Rollup(V \cup {x}) =
              [samples |-> P!Rollup(V).samples + (IF x.life = 0 THEN 0 ELSE 1),
               delta |-> P!Rollup(V).delta + (IF x.delta = P!NoDelta THEN 0 ELSE x.delta)]
       /\ P!Rollup(W \cup {Plain(x)}) =
              [samples |-> P!Rollup(W).samples + (IF Plain(x).life = 0 THEN 0 ELSE 1),
               delta |-> P!Rollup(W).delta
                           + (IF Plain(x).delta = P!NoDelta THEN 0 ELSE Plain(x).delta)]
  BY <1>8, <1>9, <1>10, RollupAdds
<1>14. P!Rollup(T) = P!Rollup({Plain(s) : s \in T})
  BY <1>11, <1>12, <1>13
<1> QED BY <1>3, <1>14

-----------------------------------------------------------------------------
(* The history of processes: its scans, and their hours rolled up and pruned. *)

(* The clock is never so far behind that an hour whose scans were pruned     *)
(* comes again, or more hours than one pass rolls up.                        *)
SetBackIsShort == MaxBack <= RawHours * HourTicks /\ MaxBack <= HoursPerPass * HourTicks

(* The hours with a scan to roll up, the hours before that of some scan, and *)
(* the scans that are pruned.                                                *)
Open == {P!Hour(t.at) : t \in {u \in scans : ~u.rolled}}
Below(h) == \E t \in made : P!Hour(t.at) > h
Lost(s) == \A t \in scans : Plain(t) # s
Seen(l) == {s \in made : s.life = l}

NowInv == now \in Nat /\ now <= latest /\ latest <= now + MaxBack

MadeInv ==
  /\ latest \in Nat /\ latest <= MaxScanTime /\ boot \in Nat /\ life \in Nat \ {0} /\ work \in Nat
  /\ made \subseteq ScanRows /\ IsFiniteSet(made) /\ SameScan(made)
  /\ \A s \in made : /\ s.id \in 1..Cardinality(made) /\ s.at <= latest /\ ~s.rolled
                     /\ s.life <= life /\ (s.life = life => s.work <= work)
  /\ scans \subseteq ScanRows /\ IsFiniteSet(scans) /\ SameScan(scans)
  /\ \A s \in scans : Plain(s) \in made

(* Of the hours with a scan to roll up, one pass can do all but the last.    *)
BacklogInv == Cardinality({h \in Open : Below(h)}) <= HoursPerPass

HourInv ==
  /\ BacklogInv
  /\ \A s \in scans : s.rolled => Below(P!Hour(s.at))
  /\ \A s \in made : Lost(s) => /\ P!Hour(s.at) \notin Open /\ Below(P!Hour(s.at))
                                /\ P!Hour(s.at) < P!Hour(latest) - RawHours
  /\ \A h \in P!Hours : h \notin Open => hourly[h] = P!Rollup(P!In(made, h))

GrowthInv ==
  /\ made # {} => \E t \in scans : t.id = Cardinality(made)
  /\ \A s, t \in made : s.life # 0 /\ s.life = t.life /\ s.id <= t.id => s.work <= t.work
  /\ \A l \in Nat \ {0} : Seen(l) # {} =>
       \E s, t \in Seen(l) : P!Growth(Seen(l)) <= t.work - s.work

ProcessInv == MadeInv /\ HourInv /\ GrowthInv

(* A scan whose hour is rolled up.                                           *)
Rolled(t, hours) == IF P!Hour(t.at) \in hours THEN [t EXCEPT !.rolled = TRUE] ELSE t

(* A scan s is stored and hours are rolled up.                               *)
Stores(s, hours) ==
  /\ s \in ScanRows /\ s.id = Cardinality(made) + 1 /\ s.at = now /\ ~s.rolled
  /\ s.life \in {0, life} /\ s.work = (IF s.life = 0 THEN 0 ELSE work) /\ s.delta = P!Delta(s)
  /\ hours = P!Earliest({h \in Open : h < P!Hour(now)}, HoursPerPass)
  /\ hourly' = P!Kept(scans \cup {s}, hours)
  /\ scans' = {t \in {Rolled(u, hours) : u \in scans \cup {s}} :
                 ~(t.rolled /\ P!Hour(t.at) < P!Hour(now) - RawHours)}
  /\ made' = made \cup {s}
  /\ UNCHANGED <<now, latest, boot, life, work>>

(* The hours of scans are hours.                                             *)
LEMMA HoursOf ==
  ASSUME MadeInv
  PROVE  /\ \A s \in made : P!Hour(s.at) \in 0..P!Hour(latest)
         /\ \A s \in scans : P!Hour(s.at) \in 0..P!Hour(latest) /\ Plain(s) \in made
                             /\ Plain(s).at = s.at /\ Plain(s).id = s.id
         /\ 0..P!Hour(latest) \subseteq P!Hours /\ P!Hour(latest) \in Nat
         /\ Open \subseteq 0..P!Hour(latest)
<1>1. \A s \in ScanRows : /\ Plain(s).at = s.at /\ s.at \in Nat /\ Plain(s).id = s.id
  BY DEF ScanRows, Plain
<1>2. ASSUME NEW s \in made PROVE P!Hour(s.at) \in 0..P!Hour(latest)
  <2>1. s.at \in Nat /\ latest \in Nat /\ s.at <= latest + 0 * HourTicks
    BY <1>1, RetentionAssumption DEF MadeInv
  <2>2. P!Hour(s.at) <= P!Hour(latest) + 0
    BY <2>1, HoursBehind
  <2> QED BY <2>1, <2>2, HourHolds
<1>3. 0..P!Hour(latest) \subseteq P!Hours /\ P!Hour(latest) \in Nat
  <2>1. latest \in Nat /\ MaxScanTime \in Nat /\ latest <= MaxScanTime + 0 * HourTicks
    BY RetentionAssumption DEF MadeInv
  <2>2. P!Hour(latest) <= P!Hour(MaxScanTime) + 0
    BY <2>1, HoursBehind
  <2> QED BY <2>1, <2>2, HourHolds DEF P!Hours
<1>4. \A s \in scans : /\ P!Hour(s.at) \in 0..P!Hour(latest) /\ Plain(s) \in made
                       /\ Plain(s).at = s.at /\ Plain(s).id = s.id
  BY <1>1, <1>2 DEF MadeInv
<1> QED BY <1>2, <1>3, <1>4 DEF Open

(* The clock is some hours behind at most.                                   *)
LEMMA NowBehind ==
  ASSUME MadeInv, NowInv, SetBackIsShort
  PROVE  /\ P!Hour(now) \in 0..P!Hour(latest)
         /\ P!Hour(latest) <= P!Hour(now) + RawHours
         /\ P!Hour(latest) <= P!Hour(now) + HoursPerPass
<1>1. now \in Nat /\ latest \in Nat /\ now <= latest + 0 * HourTicks
  BY RetentionAssumption DEF MadeInv, NowInv
<1>2. latest <= now + RawHours * HourTicks /\ RawHours \in Nat
  <2>1. RawHours * HourTicks \in Nat /\ MaxBack \in Nat /\ MaxBack <= RawHours * HourTicks
    BY RetentionAssumption DEF SetBackIsShort
  <2> QED BY <1>1, <2>1, RetentionAssumption DEF NowInv
<1>3. latest <= now + HoursPerPass * HourTicks /\ HoursPerPass \in Nat
  <2>1. HoursPerPass * HourTicks \in Nat /\ MaxBack \in Nat /\ MaxBack <= HoursPerPass * HourTicks
    BY RetentionAssumption DEF SetBackIsShort
  <2> QED BY <1>1, <2>1, RetentionAssumption DEF NowInv
<1>4. P!Hour(now) <= P!Hour(latest) + 0
  BY <1>1, HoursBehind
<1> QED BY <1>1, <1>2, <1>3, <1>4, HoursBehind, HourHolds

(* A pass that has room for all the hours takes them all, and what it leaves *)
(* has more hours at or before it than it has room for.                      *)
LEMMA EarliestFacts ==
  ASSUME NEW n \in Nat, NEW C \in SUBSET (0..n), NEW k \in Nat
  PROVE  /\ P!Earliest(C, k) \subseteq C
         /\ Cardinality(C) <= k => P!Earliest(C, k) = C
         /\ \A h \in C \ P!Earliest(C, k) : Cardinality({g \in C : g <= h}) > k
<1>1. IsFiniteSet(C)
  <2>1. IsFiniteSet(0..n)
    BY FS_Interval
  <2> QED BY <2>1, FS_Subset
<1>2. ASSUME NEW h \in C
      PROVE  /\ Cardinality({g \in C : g < h}) \in Nat
             /\ Cardinality({g \in C : g <= h}) = Cardinality({g \in C : g < h}) + 1
             /\ Cardinality({g \in C : g <= h}) <= Cardinality(C) /\ Cardinality(C) \in Nat
  <2> DEFINE E == {g \in C : g < h}  G == {g \in C : g <= h}
  <2>1. IsFiniteSet(E) /\ h \notin E
    <3>1. E \subseteq C /\ h \notin E
      OBVIOUS
    <3> HIDE DEF E
    <3> QED BY <1>1, <3>1, FS_Subset
  <2>2. G = E \cup {h} /\ G \subseteq C
    <3>1. \A g \in C : g \in Int
      OBVIOUS
    <3>2. \A g \in C : g <= h <=> (g < h \/ g = h)
      BY <3>1
    <3> QED BY <3>2
  <2> HIDE DEF E, G
  <2>3. Cardinality(E) \in Nat /\ Cardinality(G) = Cardinality(E) + 1
    BY <2>1, <2>2, FS_AddElement, FS_CardinalityType
  <2>4. Cardinality(G) <= Cardinality(C) /\ Cardinality(C) \in Nat
    BY <1>1, <2>2, FS_Subset, FS_CardinalityType
  <2> QED BY <2>3, <2>4 DEF E, G
<1>3. P!Earliest(C, k) = {h \in C : Cardinality({g \in C : g < h}) < k}
  BY DEF P!Earliest, P!Cardinality, Cardinality
<1>4. ASSUME Cardinality(C) <= k, NEW h \in C PROVE Cardinality({g \in C : g < h}) < k
  <2> DEFINE c == Cardinality({g \in C : g < h})  d == Cardinality({g \in C : g <= h})
  <2>1. c \in Nat /\ d = c + 1 /\ d <= Cardinality(C) /\ Cardinality(C) \in Nat
    BY <1>2
  <2> HIDE DEF c, d
  <2>2. c < k
    BY <1>4, <2>1
  <2> QED BY <2>2 DEF c
<1>5. ASSUME NEW h \in C, ~(Cardinality({g \in C : g < h}) < k)
      PROVE  Cardinality({g \in C : g <= h}) > k
  <2> DEFINE c == Cardinality({g \in C : g < h})  d == Cardinality({g \in C : g <= h})
  <2>1. c \in Nat /\ d = c + 1 /\ ~(c < k)
    BY <1>2, <1>5
  <2> HIDE DEF c, d
  <2>2. d > k
    BY <2>1
  <2> QED BY <2>2 DEF d
<1> QED BY <1>3, <1>4, <1>5

(* What a pass leaves to roll up is of the last hour scanned.                *)
LEMMA LeftIsLast ==
  ASSUME ProcessInv, NowInv, SetBackIsShort, NEW s, NEW hours, Stores(s, hours)
  PROVE  /\ hours \subseteq {h \in Open : h < P!Hour(now)}
         /\ \A h \in Open \ hours : h < P!Hour(now) => ~Below(h)
         /\ Below(P!Hour(now)) => hours = {h \in Open : h < P!Hour(now)}
<1> DEFINE C == {h \in Open : h < P!Hour(now)}  M == {h \in Open : Below(h)}
<1>1. /\ P!Hour(latest) \in Nat /\ Open \subseteq 0..P!Hour(latest)
      /\ P!Hour(now) \in Nat /\ HoursPerPass \in Nat
  BY HoursOf, NowBehind, RetentionAssumption DEF ProcessInv
<1>2. /\ C \in SUBSET (0..P!Hour(latest)) /\ M \in SUBSET (0..P!Hour(latest))
      /\ hours = P!Earliest(C, HoursPerPass) /\ Cardinality(M) <= HoursPerPass
  BY <1>1 DEF Stores, ProcessInv, HourInv, BacklogInv
<1>3. /\ hours \subseteq C
      /\ Cardinality(C) <= HoursPerPass => hours = C
      /\ \A h \in C \ hours : Cardinality({g \in C : g <= h}) > HoursPerPass
  <2> HIDE DEF C, M
  <2> QED BY <1>1, <1>2, EarliestFacts
<1>4. IsFiniteSet(M) /\ Cardinality(M) \in Nat
      /\ \A X \in SUBSET M : Cardinality(X) <= Cardinality(M) /\ Cardinality(X) \in Nat
  <2>1. IsFiniteSet(0..P!Hour(latest))
    BY <1>1, FS_Interval
  <2>2. IsFiniteSet(M)
    BY <1>2, <2>1, FS_Subset
  <2> HIDE DEF M
  <2> QED BY <2>2, FS_Subset, FS_CardinalityType
<1>5. \A g, h \in 0..P!Hour(latest) : g <= h /\ Below(h) => Below(g)
  <2>1. \A t \in made : P!Hour(t.at) \in Nat
    BY HoursOf DEF ProcessInv
  <2> QED BY <1>1, <2>1 DEF Below
<1>6. ASSUME NEW h \in C \ hours, Below(h) PROVE FALSE
  <2>1. {g \in C : g <= h} \subseteq M
    BY <1>2, <1>5, <1>6
  <2>2. Cardinality({g \in C : g <= h}) > HoursPerPass
    BY <1>3, <1>6
  <2> HIDE DEF C, M
  <2> QED BY <1>1, <1>2, <1>4, <2>1, <2>2
<1>7. ASSUME Below(P!Hour(now)) PROVE hours = C
  <2>1. C \subseteq M
    <3>1. \A h \in C : h <= P!Hour(now)
      BY <1>1
    <3> QED BY <1>2, <1>5, <1>7, <3>1, NowBehind DEF ProcessInv
  <2> HIDE DEF C, M
  <2> QED BY <1>1, <1>2, <1>3, <1>4, <2>1
<1> QED BY <1>3, <1>6, <1>7

(* Rolling up a scan changes nothing else of it.                             *)
LEMMA RolledFacts ==
  ASSUME NEW u \in ScanRows, NEW hours
  PROVE  /\ Rolled(u, hours) \in ScanRows /\ Rolled(u, hours).at = u.at
         /\ Rolled(u, hours).id = u.id /\ Plain(Rolled(u, hours)) = Plain(u)
         /\ Rolled(u, hours).rolled <=> (u.rolled \/ P!Hour(u.at) \in hours)
         /\ ~u.rolled => Plain(u) = u
BY DEF Rolled, ScanRows, Plain

(* What is open after a pass, and what is before an hour that was scanned.   *)
LEMMA OpenAfter ==
  ASSUME ProcessInv, NowInv, SetBackIsShort, NEW s, NEW hours, Stores(s, hours)
  PROVE  /\ Open' = (Open \cup {P!Hour(now)}) \ hours
         /\ P!Hour(now) \notin hours
         /\ \A h : Below(h)' <=> (Below(h) \/ P!Hour(now) > h)
<1>1. hours \subseteq {h \in Open : h < P!Hour(now)} /\ P!Hour(now) \in Nat
  BY LeftIsLast, NowBehind DEF ProcessInv
<1>2. P!Hour(now) \notin hours
  BY <1>1
<1>3. /\ scans \cup {s} \subseteq ScanRows /\ ~s.rolled /\ s.at = now
      /\ scans' = {t \in {Rolled(u, hours) : u \in scans \cup {s}} :
                     ~(t.rolled /\ P!Hour(t.at) < P!Hour(now) - RawHours)}
      /\ made' = made \cup {s}
  BY DEF Stores, ProcessInv, MadeInv
<1>4. ASSUME NEW h \in Open' PROVE h \in (Open \cup {P!Hour(now)}) \ hours
  <2>1. PICK t \in scans' : ~t.rolled /\ h = P!Hour(t.at)
    BY <1>4 DEF Open
  <2>2. PICK u \in scans \cup {s} : t = Rolled(u, hours)
    BY <1>3, <2>1
  <2>3. ~u.rolled /\ h = P!Hour(u.at) /\ h \notin hours
    BY <1>3, <2>1, <2>2, RolledFacts
  <2> QED BY <1>3, <2>3 DEF Open
<1>5. ASSUME NEW u \in scans \cup {s}, ~u.rolled, P!Hour(u.at) \notin hours
      PROVE  P!Hour(u.at) \in Open'
  <2>1. Rolled(u, hours) = u
    BY <1>5 DEF Rolled
  <2>2. u \in scans'
    BY <1>3, <1>5, <2>1
  <2> QED BY <1>5, <2>2 DEF Open
<1>6. (Open \cup {P!Hour(now)}) \ hours \subseteq Open'
  <2>1. ASSUME NEW h \in Open, h \notin hours PROVE h \in Open'
    <3>1. PICK u \in scans : ~u.rolled /\ h = P!Hour(u.at)
      BY DEF Open
    <3> QED BY <1>5, <2>1, <3>1
  <2>2. P!Hour(now) \in Open'
    BY <1>2, <1>3, <1>5
  <2> QED BY <2>1, <2>2
<1>7. \A h : Below(h)' <=> (Below(h) \/ P!Hour(now) > h)
  BY <1>3 DEF Below
<1> QED BY <1>2, <1>4, <1>6, <1>7

(* The backlog never outgrows a pass.                                        *)
LEMMA BacklogKeeps ==
  ASSUME ProcessInv, NowInv, SetBackIsShort, NEW s, NEW hours, Stores(s, hours)
  PROVE  BacklogInv'
<1>1. /\ P!Hour(latest) \in Nat /\ Open \subseteq 0..P!Hour(latest)
      /\ P!Hour(now) \in 0..P!Hour(latest) /\ P!Hour(latest) <= P!Hour(now) + HoursPerPass
      /\ HoursPerPass \in Nat \ {0}
      /\ \A t \in made : P!Hour(t.at) \in 0..P!Hour(latest)
  BY HoursOf, NowBehind, RetentionAssumption DEF ProcessInv
<1>2. PICK n \in 0..P!Hour(latest) : n = P!Hour(now)
  BY <1>1
<1>3. PICK l \in Nat : l = P!Hour(latest)
  BY <1>1
<1>4. PICK left : left = (Open \cup {n}) \ hours /\ Open' = left
  BY <1>2, OpenAfter
<1>5. PICK M : M = {h \in left : Below(h) \/ n > h}
      /\ (BacklogInv' <=> Cardinality(M) <= HoursPerPass)
  <2>1. {h \in left : Below(h) \/ n > h} = {h \in left : Below(h)'}
    BY <1>2, OpenAfter
  <2> QED BY <1>4, <2>1 DEF BacklogInv
<1>6. M \subseteq 0..l /\ IsFiniteSet(M)
  <2>1. M \subseteq 0..l
    BY <1>1, <1>2, <1>3, <1>4, <1>5
  <2>2. IsFiniteSet(0..l)
    BY <1>3, FS_Interval
  <2> QED BY <2>1, <2>2, FS_Subset
<1>7. CASE Below(n)
  <2>1. \A h \in M : n <= h /\ h < l
    <3>1. \A h \in left : h < n => FALSE
      BY <1>2, <1>4, <1>7, LeftIsLast
    <3>2. \A h : Below(h) => h < l \/ h \notin Nat
      BY <1>1, <1>3 DEF Below
    <3> QED BY <1>3, <1>5, <1>6, <3>1, <3>2
  <2>2. M \subseteq n..(l - 1) /\ n \in Nat /\ n <= l
    BY <1>1, <1>2, <1>3, <1>6, <2>1
  <2>3. IsFiniteSet(n..(l - 1)) /\ Cardinality(n..(l - 1)) <= l - n
    <3>1. n \in Int /\ l - 1 \in Int
      BY <2>2, <1>3
    <3>2. IsFiniteSet(n..(l - 1))
          /\ Cardinality(n..(l - 1)) = IF n > l - 1 THEN 0 ELSE (l - 1) - n + 1
      BY <3>1, FS_Interval
    <3> QED BY <1>3, <2>2, <3>2
  <2>4. Cardinality(M) <= Cardinality(n..(l - 1)) /\ Cardinality(M) \in Nat
        /\ Cardinality(n..(l - 1)) \in Nat
    BY <2>2, <2>3, <1>6, FS_Subset, FS_CardinalityType
  <2> QED BY <1>1, <1>2, <1>3, <1>5, <2>2, <2>3, <2>4
<1>8. CASE ~Below(n)
  <2>1. ASSUME NEW h \in M PROVE h \in Open /\ ~Below(h) /\ h < n
    <3>1. h \in Nat /\ n \in Nat
      BY <1>2, <1>3, <1>6
    <3>2. Below(h) => h < n
      <4>1. \A t \in made : P!Hour(t.at) \in Nat /\ P!Hour(t.at) <= n
        BY <1>1, <1>2, <1>8, <3>1 DEF Below
      <4> QED BY <3>1, <4>1 DEF Below
    <3>3. h < n /\ h \in Open /\ h \notin hours
      BY <1>4, <1>5, <3>1, <3>2
    <3> QED BY <1>2, <3>3, LeftIsLast
  <2>2. \A g, h \in M : ~(g < h)
    <3>1. ASSUME NEW g \in M, NEW h \in M, g < h PROVE FALSE
      <4>1. PICK t \in scans : P!Hour(t.at) = h
        BY <2>1 DEF Open
      <4>2. Plain(t) \in made /\ P!Hour(Plain(t).at) = h
        BY <4>1, HoursOf DEF ProcessInv
      <4>3. Below(g)
        BY <3>1, <4>2 DEF Below
      <4> QED BY <2>1, <4>3
    <3> QED BY <3>1
  <2>3. CASE M = {}
    BY <1>1, <1>5, <2>3, FS_EmptySet
  <2>4. CASE M # {}
    <3>1. PICK h \in M : TRUE
      BY <2>4
    <3>2. M = {h}
      <4>1. \A g \in M : g \in Int
        BY <1>6
      <4>2. \A g \in M : g = h
        BY <2>2, <4>1
      <4> QED BY <4>2
    <3>3. Cardinality(M) = 1
      BY <3>2, FS_Singleton
    <3> QED BY <1>1, <1>5, <3>3
  <2> QED BY <2>3, <2>4
<1> QED BY <1>7, <1>8

(* What is pruned is of an hour that is done, and does not come again.       *)
LEMMA LostAfter ==
  ASSUME ProcessInv, NowInv, SetBackIsShort, NEW s, NEW hours, Stores(s, hours),
         NEW m \in made', Lost(m)'
  PROVE  /\ P!Hour(m.at) \notin Open' /\ Below(P!Hour(m.at))'
         /\ P!Hour(m.at) < P!Hour(latest) - RawHours
<1>1. /\ P!Hour(now) \in Nat /\ P!Hour(latest) \in Nat /\ P!Hour(now) <= P!Hour(latest)
      /\ P!Hour(latest) <= P!Hour(now) + RawHours /\ RawHours \in Nat
  BY HoursOf, NowBehind, RetentionAssumption DEF ProcessInv
<1>2. /\ scans \cup {s} \subseteq ScanRows /\ ~s.rolled /\ s.at = now
      /\ scans' = {t \in {Rolled(u, hours) : u \in scans \cup {s}} :
                     ~(t.rolled /\ P!Hour(t.at) < P!Hour(now) - RawHours)}
      /\ made' = made \cup {s}
  BY DEF Stores, ProcessInv, MadeInv
<1>3. ASSUME NEW u \in scans \cup {s}, Plain(u) = m
      PROVE  /\ u.rolled \/ P!Hour(u.at) \in hours
             /\ P!Hour(u.at) < P!Hour(now) - RawHours
  <2>1. Plain(Rolled(u, hours)) = m
    BY <1>2, <1>3, RolledFacts
  <2>2. Rolled(u, hours) \notin scans'
    BY <2>1 DEF Lost
  <2>3. Rolled(u, hours).rolled /\ P!Hour(Rolled(u, hours).at) < P!Hour(now) - RawHours
    BY <1>2, <2>2
  <2> QED BY <1>2, <2>3, RolledFacts
<1>4. m \in made
  <2>1. CASE m = s
    <3>1. Plain(s) = s
      BY <1>2, RolledFacts
    <3>2. s.rolled \/ P!Hour(now) \in hours
      BY <1>2, <1>3, <2>1, <3>1
    <3> QED BY <1>2, <3>2, OpenAfter
  <2> QED BY <1>2, <2>1
<1>5. P!Hour(m.at) \in Nat
  BY <1>4, HoursOf DEF ProcessInv
<1>6. CASE Lost(m)
  <2>1. /\ P!Hour(m.at) \notin Open /\ Below(P!Hour(m.at))
        /\ P!Hour(m.at) < P!Hour(latest) - RawHours
    BY <1>4, <1>6 DEF ProcessInv, HourInv
  <2>2. P!Hour(m.at) # P!Hour(now)
    BY <1>1, <1>5, <2>1
  <2> QED BY <2>1, <2>2, OpenAfter
<1>7. CASE ~Lost(m)
  <2>1. PICK u \in scans : Plain(u) = m
    BY <1>7 DEF Lost
  <2>2. u.at = m.at
    BY <2>1, HoursOf DEF ProcessInv
  <2>3. /\ u.rolled \/ P!Hour(m.at) \in hours
        /\ P!Hour(m.at) < P!Hour(now) - RawHours
    BY <1>3, <2>1, <2>2
  <2>4. P!Hour(m.at) < P!Hour(now) /\ P!Hour(m.at) < P!Hour(latest) - RawHours
    BY <1>1, <1>5, <2>3
  <2>5. P!Hour(m.at) \notin Open'
    <3>1. CASE u.rolled /\ P!Hour(m.at) \notin hours
      <4>1. Below(P!Hour(m.at))
        BY <2>2, <3>1 DEF ProcessInv, HourInv
      <4>2. P!Hour(m.at) \notin Open
        BY <2>4, <3>1, <4>1, LeftIsLast
      <4>3. P!Hour(m.at) # P!Hour(now)
        BY <1>1, <1>5, <2>4
      <4> QED BY <4>2, <4>3, OpenAfter
    <3> QED BY <2>3, <3>1, OpenAfter
  <2>6. Below(P!Hour(m.at))'
    BY <2>4, OpenAfter
  <2> QED BY <2>4, <2>5, <2>6
<1> QED BY <1>6, <1>7

(* An hour that is rolled up is rolled up from all of its scans.             *)
LEMMA ExactAfter ==
  ASSUME ProcessInv, NowInv, SetBackIsShort, NEW s, NEW hours, Stores(s, hours),
         NEW h \in P!Hours, h \notin Open'
  PROVE  hourly'[h] = P!Rollup(P!In(made', h))
<1>1. /\ hours \subseteq {g \in Open : g < P!Hour(now)} /\ P!Hour(now) \in Nat
      /\ h \in hours \/ h \notin Open \cup {P!Hour(now)}
  BY LeftIsLast, NowBehind, OpenAfter DEF ProcessInv
<1>2. /\ scans \subseteq ScanRows /\ s.at = now /\ made' = made \cup {s}
      /\ hourly'[h] = IF h \in hours THEN P!Rollup(P!In(scans \cup {s}, h)) ELSE hourly[h]
  BY DEF Stores, ProcessInv, MadeInv, P!Kept
<1>3. h # P!Hour(now)
  BY <1>1
<1>4. P!In(made', h) = P!In(made, h) /\ P!In(scans \cup {s}, h) = P!In(scans, h)
  BY <1>2, <1>3 DEF P!In
<1>5. CASE h \in hours
  <2>1. h \in Open
    BY <1>1, <1>5
  <2>2. ASSUME NEW m \in P!In(made, h) PROVE m \in {Plain(t) : t \in P!In(scans, h)}
    <3>1. m \in made /\ P!Hour(m.at) = h
      BY <2>2 DEF P!In
    <3>2. ~Lost(m)
      BY <2>1, <3>1 DEF ProcessInv, HourInv
    <3>3. PICK t \in scans : Plain(t) = m
      BY <3>2 DEF Lost
    <3>4. t \in P!In(scans, h)
      BY <3>1, <3>3, HoursOf DEF ProcessInv, P!In
    <3> QED BY <3>3, <3>4
  <2>3. ASSUME NEW t \in P!In(scans, h) PROVE Plain(t) \in P!In(made, h)
    BY <2>3, HoursOf DEF ProcessInv, P!In
  <2>4. {Plain(t) : t \in P!In(scans, h)} = P!In(made, h)
    BY <2>2, <2>3
  <2>5. P!In(scans, h) \in SUBSET ScanRows /\ IsFiniteSet(P!In(scans, h)) /\ SameScan(P!In(scans, h))
    <3>1. P!In(scans, h) \subseteq scans /\ IsFiniteSet(scans) /\ SameScan(scans)
      BY DEF P!In, ProcessInv, MadeInv
    <3>2. SameScan(P!In(scans, h))
      BY <3>1 DEF SameScan
    <3> QED BY <1>2, <3>1, <3>2, FS_Subset
  <2>6. P!Rollup(P!In(scans, h)) = P!Rollup(P!In(made, h))
    BY <2>4, <2>5, RollupPlain
  <2> QED BY <1>2, <1>4, <1>5, <2>6
<1>6. CASE h \notin hours
  BY <1>1, <1>2, <1>4, <1>6 DEF ProcessInv, HourInv
<1> QED BY <1>5, <1>6

(* The hours stay true.                                                      *)
LEMMA HoursKeep ==
  ASSUME ProcessInv, NowInv, SetBackIsShort, NEW s, NEW hours, Stores(s, hours)
  PROVE  HourInv'
<1>1. latest' = latest
  BY DEF Stores
<1>2. ASSUME NEW t \in scans', t.rolled PROVE Below(P!Hour(t.at))'
  <2>1. /\ scans \cup {s} \subseteq ScanRows /\ ~s.rolled /\ s.at = now
        /\ t \in {Rolled(u, hours) : u \in scans \cup {s}}
    BY DEF Stores, ProcessInv, MadeInv
  <2>2. PICK u \in scans \cup {s} : t = Rolled(u, hours)
    BY <2>1
  <2>3. (u.rolled \/ P!Hour(t.at) \in hours) /\ t.at = u.at
    BY <1>2, <2>1, <2>2, RolledFacts
  <2>4. P!Hour(t.at) \in hours => P!Hour(t.at) < P!Hour(now)
    BY LeftIsLast
  <2>5. u.rolled => u \in scans /\ Below(P!Hour(t.at))
    BY <2>1, <2>3 DEF ProcessInv, HourInv
  <2> QED BY <2>3, <2>4, <2>5, OpenAfter
<1> QED BY <1>1, <1>2, BacklogKeeps, LostAfter, ExactAfter DEF HourInv

(* The latest scan is never pruned.                                          *)
LEMMA NewestFacts ==
  ASSUME ProcessInv, scans # {}
  PROVE  /\ P!Newest \in scans /\ P!Newest.id = Cardinality(made)
         /\ Plain(P!Newest) \in made /\ Plain(P!Newest).life = P!Newest.life
         /\ Plain(P!Newest).work = P!Newest.work /\ Plain(P!Newest).id = P!Newest.id
<1>1. \A t \in scans : Plain(t) \in made /\ Plain(t).id = t.id /\ t \in ScanRows
  BY HoursOf DEF ProcessInv, MadeInv
<1>2. Cardinality(made) \in Nat /\ \A t \in scans : t.id \in Nat /\ t.id <= Cardinality(made)
  <2>1. Cardinality(made) \in Nat
    BY FS_CardinalityType DEF ProcessInv, MadeInv
  <2> QED BY <1>1, <2>1 DEF ProcessInv, MadeInv
<1>3. PICK t \in scans : t.id = Cardinality(made)
  BY <1>1 DEF ProcessInv, GrowthInv
<1>4. \A u \in scans : u.id <= t.id
  BY <1>2, <1>3
<1>5. P!Newest \in scans /\ \A u \in scans : u.id <= P!Newest.id
  BY <1>4 DEF P!Newest
<1>6. P!Newest.id = Cardinality(made)
  BY <1>2, <1>3, <1>5
<1>7. \A u \in ScanRows : Plain(u).life = u.life /\ Plain(u).work = u.work
  BY DEF ScanRows, Plain
<1> QED BY <1>1, <1>5, <1>6, <1>7

(* A scan is made with the next number.                                      *)
LEMMA NextNumber ==
  ASSUME ProcessInv, NEW s, NEW hours, Stores(s, hours)
  PROVE  /\ s \notin made /\ IsFiniteSet(made') /\ Cardinality(made) \in Nat
         /\ Cardinality(made') = Cardinality(made) + 1 /\ made' = made \cup {s}
         /\ \A m \in made : m.id \in 1..Cardinality(made)
         /\ s.id = Cardinality(made')
<1>1. /\ IsFiniteSet(made) /\ Cardinality(made) \in Nat /\ made' = made \cup {s}
      /\ \A m \in made : m.id \in 1..Cardinality(made)
      /\ s.id = Cardinality(made) + 1
  BY FS_CardinalityType DEF ProcessInv, MadeInv, Stores
<1>2. s \notin made
  BY <1>1
<1>3. IsFiniteSet(made \cup {s}) /\ Cardinality(made \cup {s}) = Cardinality(made) + 1
  BY <1>1, <1>2, FS_AddElement
<1> QED BY <1>1, <1>2, <1>3

(* Scans stay told apart, and those kept stay scans that were made.          *)
LEMMA MadeKeeps ==
  ASSUME ProcessInv, NowInv, NEW s, NEW hours, Stores(s, hours)
  PROVE  MadeInv'
<1>1. /\ latest' = latest /\ boot' = boot /\ life' = life /\ work' = work /\ now <= latest
      /\ s \in ScanRows /\ ~s.rolled /\ s.at = now /\ s.life \in {0, life}
      /\ s.work = (IF s.life = 0 THEN 0 ELSE work)
      /\ life \in Nat \ {0} /\ work \in Nat /\ made \subseteq ScanRows
      /\ scans \subseteq ScanRows /\ IsFiniteSet(scans) /\ SameScan(scans)
  BY DEF Stores, NowInv, ProcessInv, MadeInv
<1>2. /\ made' = made \cup {s} /\ IsFiniteSet(made') /\ Cardinality(made) \in Nat
      /\ Cardinality(made') = Cardinality(made) + 1
      /\ s.id = Cardinality(made) + 1
      /\ \A m \in made : m.id \in 1..Cardinality(made)
  BY NextNumber DEF Stores
<1>3. SameScan(made')
  <2>1. SameScan(made) /\ \A m \in made : m.id # s.id
    BY <1>2 DEF ProcessInv, MadeInv
  <2> QED BY <1>2, <2>1 DEF SameScan
<1>4. \A m \in made' : m.id \in 1..Cardinality(made')
  BY <1>2
<1>5. \A m \in made' : /\ m.at <= latest /\ ~m.rolled
                       /\ m.life <= life /\ (m.life = life => m.work <= work)
  <2>1. s.life <= life /\ (s.life = life => s.work <= work)
    BY <1>1
  <2> QED BY <1>1, <1>2, <2>1 DEF ProcessInv, MadeInv
<1>6. PICK all : all = scans \cup {s}
  OBVIOUS
<1>7. /\ all \subseteq ScanRows /\ IsFiniteSet(all)
      /\ scans' = {t \in {Rolled(u, hours) : u \in all} :
                     ~(t.rolled /\ P!Hour(t.at) < P!Hour(now) - RawHours)}
  <2>1. IsFiniteSet(scans \cup {s})
    BY <1>1, FS_AddElement
  <2> QED BY <1>1, <1>6, <2>1 DEF Stores
<1>8. /\ SameScan(all) /\ \A u \in all : Plain(u) \in made'
  <2>1. \A u \in scans : Plain(u) \in made /\ u.id # s.id
    <3>1. \A u \in scans : Plain(u) \in made /\ Plain(u).id = u.id
      BY HoursOf DEF ProcessInv
    <3> QED BY <1>2, <3>1
  <2>2. Plain(s) = s
    BY <1>1, RolledFacts
  <2> QED BY <1>1, <1>2, <1>6, <2>1, <2>2 DEF SameScan
<1>9. IsFiniteSet(scans')
  <2> DEFINE g == [u \in all |-> Rolled(u, hours)]  T == {Rolled(u, hours) : u \in all}
  <2>1. g \in Surjection(all, T)
    BY DEF Surjection
  <2>2. IsFiniteSet(T)
    <3> HIDE DEF g, T
    <3> QED BY <1>7, <2>1, FS_Surjection
  <2>3. scans' \subseteq T
    BY <1>7
  <2> HIDE DEF T
  <2> QED BY <2>2, <2>3, FS_Subset
<1>10. /\ scans' \subseteq ScanRows /\ SameScan(scans') /\ \A t \in scans' : Plain(t) \in made'
  <2>1. ASSUME NEW t \in scans'
        PROVE  \E u \in all : t = Rolled(u, hours)
    BY <1>7
  <2>2. \A u \in all : /\ Rolled(u, hours) \in ScanRows /\ Rolled(u, hours).id = u.id
                       /\ Plain(Rolled(u, hours)) = Plain(u)
    BY <1>7, RolledFacts
  <2>3. SameScan(scans')
    BY <1>8, <2>1, <2>2 DEF SameScan
  <2> QED BY <1>8, <2>1, <2>2, <2>3
<1>11. latest \in Nat /\ latest <= MaxScanTime /\ boot \in Nat
  BY DEF ProcessInv, MadeInv
<1> QED BY <1>1, <1>2, <1>3, <1>4, <1>5, <1>9, <1>10, <1>11 DEF MadeInv

(* What a scan finds grown is work of the process it saw before.             *)
LEMMA DeltaFacts ==
  ASSUME ProcessInv, NEW s, NEW hours, Stores(s, hours)
  PROVE  \/ s.delta = P!NoDelta
         \/ /\ s.life = life
            /\ \E m \in Seen(life) : m.id = Cardinality(made) /\ s.delta = work - m.work
<1>1. s.delta = P!Delta(s) /\ s.life \in {0, life} /\ s.work = (IF s.life = 0 THEN 0 ELSE work)
  BY DEF Stores
<1>2. CASE scans = {}
  BY <1>1, <1>2 DEF P!Delta, ProcessInv, GrowthInv, Seen
<1>3. CASE scans # {}
  <2>1. PICK m \in made : /\ m.id = Cardinality(made) /\ m.life = P!Newest.life
                          /\ m.work = P!Newest.work
    BY <1>3, NewestFacts
  <2>2. CASE s.life = 0
    BY <1>1, <2>2 DEF P!Delta
  <2>3. CASE s.life # 0 /\ m.life # s.life
    BY <1>1, <2>1, <2>3 DEF P!Delta
  <2>4. CASE s.life # 0 /\ m.life = s.life
    BY <1>1, <1>3, <2>1, <2>4 DEF P!Delta, Seen
  <2> QED BY <2>2, <2>3, <2>4
<1> QED BY <1>2, <1>3

(* The growth recorded stays growth the process had.                         *)
LEMMA GrowthKeeps ==
  ASSUME ProcessInv, NowInv, SetBackIsShort, NEW s, NEW hours, Stores(s, hours)
  PROVE  GrowthInv'
<1>1. /\ made' = made \cup {s} /\ s \notin made /\ IsFiniteSet(made)
      /\ Cardinality(made) \in Nat /\ Cardinality(made') = Cardinality(made) + 1
      /\ s.id = Cardinality(made')
      /\ \A m \in made : m.id \in 1..Cardinality(made)
  BY NextNumber DEF ProcessInv, MadeInv
<1>2. /\ s \in ScanRows /\ s.life \in {0, life} /\ s.work = (IF s.life = 0 THEN 0 ELSE work)
      /\ life \in Nat \ {0} /\ work \in Nat /\ made \subseteq ScanRows
      /\ \A m \in made : m.life = life => m.work <= work
  BY DEF Stores, ProcessInv, MadeInv
<1>3. \E t \in scans' : t.id = Cardinality(made')
  <2>1. Rolled(s, hours) = s
    <3>1. P!Hour(now) \notin hours
      BY OpenAfter
    <3> QED BY <3>1 DEF Rolled, Stores
  <2>2. s \in scans'
    BY <2>1 DEF Stores
  <2> QED BY <1>1, <2>2
<1>4. ASSUME NEW m \in made', NEW t \in made', m.life # 0, m.life = t.life, m.id <= t.id
      PROVE  m.work <= t.work
  <2>1. CASE t \in made
    <3>1. m \in made
      BY <1>1, <1>4, <2>1
    <3> QED BY <1>4, <2>1, <3>1 DEF ProcessInv, GrowthInv
  <2>2. CASE t = s
    BY <1>1, <1>2, <1>4, <2>2
  <2> QED BY <1>1, <2>1, <2>2
<1>5. ASSUME NEW l \in Nat \ {0}, Seen(l)' # {}
      PROVE  \E m, t \in Seen(l)' : P!Growth(Seen(l)') <= t.work - m.work
  <2>1. Seen(l) \in SUBSET ScanRows /\ IsFiniteSet(Seen(l)) /\ s \notin Seen(l)
    <3>1. Seen(l) \subseteq made
      BY DEF Seen
    <3> QED BY <1>1, <1>2, <3>1, FS_Subset
  <2>2. Seen(l) # {} => \E m, t \in Seen(l) : P!Growth(Seen(l)) <= t.work - m.work
    BY DEF ProcessInv, GrowthInv
  <2>3. CASE s.life # l
    <3>1. Seen(l)' = Seen(l)
      BY <1>1, <2>3 DEF Seen
    <3> QED BY <1>5, <2>2, <3>1
  <2>4. CASE s.life = l
    <3>1. Seen(l)' = Seen(l) \cup {s} /\ l = life /\ s.work = work
      BY <1>1, <1>2, <2>4 DEF Seen
    <3>2. /\ P!Growth(Seen(l)) \in Nat
          /\ P!Growth(Seen(l)') = P!Growth(Seen(l)) + (IF s.delta = P!NoDelta THEN 0 ELSE s.delta)
      <4>1. \A X : P!Rollup(X).delta = P!Growth(X)
        BY DEF P!Rollup
      <4>2. /\ P!Rollup(Seen(l)).delta \in Nat
            /\ P!Rollup(Seen(l) \cup {s}).delta =
                 P!Rollup(Seen(l)).delta + (IF s.delta = P!NoDelta THEN 0 ELSE s.delta)
        <5>1. s \in ScanRows
          BY <1>2
        <5>2. /\ P!Rollup(Seen(l)).delta \in Nat
              /\ P!Rollup(Seen(l) \cup {s}) =
                   [samples |-> P!Rollup(Seen(l)).samples + (IF s.life = 0 THEN 0 ELSE 1),
                    delta |-> P!Rollup(Seen(l)).delta
                                + (IF s.delta = P!NoDelta THEN 0 ELSE s.delta)]
          BY ONLY <2>1, <5>1, RollupAdds
        <5> QED BY <5>2
      <4> QED BY <3>1, <4>1, <4>2
    <3>3. CASE s.delta = P!NoDelta
      <4>1. P!Growth(Seen(l)') = P!Growth(Seen(l))
        BY <3>2, <3>3
      <4>2. CASE Seen(l) = {}
        <5>1. P!Growth(Seen(l)') = 0
          BY <4>1, <4>2, RollupEmpty DEF P!Rollup
        <5>2. s \in Seen(l)' /\ 0 <= s.work - s.work
          BY <1>2, <3>1
        <5> QED BY <5>1, <5>2
      <4>3. CASE Seen(l) # {}
        BY <2>2, <3>1, <4>1, <4>3
      <4> QED BY <4>2, <4>3
    <3>4. CASE s.delta # P!NoDelta
      <4>1. PICK n \in Seen(l) : n.id = Cardinality(made) /\ s.delta = work - n.work
        BY <3>1, <3>4, DeltaFacts
      <4>2. PICK m, t \in Seen(l) : P!Growth(Seen(l)) <= t.work - m.work
        BY <2>2, <4>1
      <4>3. t.work <= n.work
        <5>1. /\ t \in made /\ n \in made /\ t.life = n.life /\ t.life # 0
              /\ t.id <= n.id
          BY <1>1, <4>1 DEF Seen
        <5> QED BY <5>1 DEF ProcessInv, GrowthInv
      <4>4. n.work \in Nat /\ t.work \in Nat /\ m.work \in Nat
        BY <2>1 DEF ScanRows
      <4>5. PICK grown \in Nat : grown = P!Growth(Seen(l))
        BY <3>2
      <4>6. P!Growth(Seen(l)') = grown + (work - n.work)
        BY <3>2, <3>4, <4>1, <4>5
      <4>7. grown + (work - n.work) <= work - m.work
        BY <1>2, <4>2, <4>3, <4>4, <4>5
      <4>8. P!Growth(Seen(l)') <= s.work - m.work
        BY <3>1, <4>6, <4>7
      <4> QED BY <3>1, <4>8
    <3> QED BY <3>3, <3>4
  <2> QED BY <2>3, <2>4
<1> QED BY <1>3, <1>4, <1>5 DEF GrowthInv

(* A scan of the code is such a scan.                                        *)
LEMMA SampledStores ==
  ASSUME ProcessInv, NowInv, SetBackIsShort, NEW who \in {0, life}, P!Store(P!Sampled(who)),
         UNCHANGED <<now, latest, boot, life, work>>
  PROVE  \E s, hours : Stores(s, hours)
<1>1. /\ now \in Nat /\ life \in Nat \ {0} /\ work \in Nat /\ boot \in Nat /\ who \in Nat
      /\ Cardinality(made) \in Nat /\ IsFiniteSet(made)
      /\ scans \subseteq ScanRows /\ P!NoDelta = -1
  BY FS_CardinalityType DEF NowInv, ProcessInv, MadeInv, P!NoDelta
<1> DEFINE r == [id |-> Cardinality(made) + 1, at |-> now, boot |-> boot, life |-> who,
                 work |-> IF who = 0 THEN 0 ELSE work, delta |-> P!NoDelta, rolled |-> FALSE]
<1>2. P!Sampled(who) = [r EXCEPT !.delta = P!Delta(r)]
  BY DEF P!Sampled, P!Cardinality, Cardinality
<1>3. P!Delta(r) \in Nat \cup {P!NoDelta}
  <2>1. CASE scans = {} \/ who = 0 \/ P!Newest.life # who
    BY <2>1 DEF P!Delta
  <2>2. CASE scans # {} /\ who # 0 /\ P!Newest.life = who
    <3>1. P!Delta(r) = work - P!Newest.work /\ P!Newest.life = life
      BY <2>2 DEF P!Delta
    <3>2. P!Newest.work \in Nat /\ P!Newest.work <= work
      <4>1. P!Newest \in ScanRows /\ Plain(P!Newest) \in made
            /\ Plain(P!Newest).life = life /\ Plain(P!Newest).work = P!Newest.work
        BY <1>1, <2>2, <3>1, NewestFacts
      <4>2. P!Newest.work \in Nat
        BY <4>1 DEF ScanRows
      <4> QED BY <4>1, <4>2 DEF ProcessInv, MadeInv
    <3> QED BY <1>1, <3>1, <3>2
  <2> QED BY <2>1, <2>2
<1>4. PICK d \in Nat \cup {P!NoDelta} : d = P!Delta(r)
  BY <1>3
<1>5. PICK s : s = [id |-> Cardinality(made) + 1, at |-> now, boot |-> boot, life |-> who,
                    work |-> IF who = 0 THEN 0 ELSE work, delta |-> d, rolled |-> FALSE]
  OBVIOUS
<1>6. s = P!Sampled(who) /\ P!Delta(s) = P!Delta(r)
  BY <1>2, <1>4, <1>5 DEF P!Delta
<1>7. /\ s \in ScanRows /\ s.id = Cardinality(made) + 1 /\ s.at = now /\ ~s.rolled
      /\ s.life \in {0, life} /\ s.work = (IF s.life = 0 THEN 0 ELSE work) /\ s.delta = P!Delta(s)
  <2>1. s \in ScanRows
    BY <1>1, <1>4, <1>5 DEF ScanRows
  <2> QED BY <2>1, <1>4, <1>5, <1>6
<1> DEFINE all == scans \cup {s}
           closed == {h \in P!Hours : h < P!Hour(now) /\ \E t \in P!In(all, h) : ~t.rolled}
           hours == P!Earliest(closed, HoursPerPass)
<1>8. closed = {h \in Open : h < P!Hour(now)}
  <2>1. Open \subseteq P!Hours /\ P!Hour(now) \in Nat
    BY HoursOf, NowBehind DEF ProcessInv
  <2>2. \A h \in Nat : h < P!Hour(now) => (h \in Open <=> \E t \in P!In(all, h) : ~t.rolled)
    BY <1>7, <2>1 DEF Open, P!In
  <2>3. P!Hours \subseteq Nat
    BY DEF P!Hours
  <2> QED BY <2>1, <2>2, <2>3
<1>9. /\ hourly' = P!Kept(all, hours) /\ made' = made \cup {s}
      /\ scans' = {t \in {IF P!Hour(u.at) \in hours THEN [u EXCEPT !.rolled = TRUE] ELSE u : u \in all} :
                     ~(t.rolled /\ P!Hour(t.at) < P!Hour(now) - RawHours)}
  <2>1. P!Store(s)
    BY <1>6
  <2> QED BY <2>1 DEF P!Store
<1>10. {IF P!Hour(u.at) \in hours THEN [u EXCEPT !.rolled = TRUE] ELSE u : u \in all}
         = {Rolled(u, hours) : u \in all}
  BY DEF Rolled
<1>11. Stores(s, hours)
  <2>1. hours = P!Earliest({h \in Open : h < P!Hour(now)}, HoursPerPass)
    BY <1>8
  <2> HIDE DEF hours
  <2> QED BY <1>7, <1>9, <1>10, <2>1 DEF Stores
<1> QED BY <1>11

(* Only the clock and the process move.                                      *)
LEMMA HoldersMove ==
  ASSUME ProcessInv, UNCHANGED <<scans, hourly, made>>,
         latest' \in Nat, latest' >= latest, latest' <= MaxScanTime,
         boot' \in Nat, life' \in Nat \ {0}, work' \in Nat, life' >= life,
         life' # life => life' > life,
         life' = life => work' >= work
  PROVE  ProcessInv'
<1>1. made \subseteq ScanRows /\ latest \in Nat /\ life \in Nat /\ work \in Nat
      /\ \A m \in made : m.at \in Nat /\ m.life \in Nat /\ m.work \in Nat
  BY DEF ProcessInv, MadeInv, ScanRows
<1>2. ASSUME NEW m \in made
      PROVE  m.at <= latest' /\ m.life <= life' /\ (m.life = life' => m.work <= work')
  BY <1>1 DEF ProcessInv, MadeInv
<1>3. MadeInv'
  BY <1>2 DEF ProcessInv, MadeInv
<1>4. P!Hour(latest) <= P!Hour(latest') /\ P!Hour(latest) \in Nat /\ P!Hour(latest') \in Nat
  <2>1. latest <= latest' + 0 * HourTicks
    <3>1. 0 * HourTicks = 0
      BY RetentionAssumption
    <3> QED BY <1>1, <3>1
  <2>2. P!Hour(latest) <= P!Hour(latest') + 0
    BY <1>1, <2>1, HoursBehind
  <2> QED BY <1>1, <2>2, HourHolds
<1>5. Open' = Open /\ \A h : Below(h)' <=> Below(h)
  BY DEF Open, Below
<1>6. ASSUME NEW m \in made, Lost(m)
      PROVE  P!Hour(m.at) < P!Hour(latest') - RawHours
  <2>1. P!Hour(m.at) < P!Hour(latest) - RawHours
    BY <1>6 DEF ProcessInv, HourInv
  <2>2. P!Hour(m.at) \in Nat /\ RawHours \in Nat
    BY HoursOf, RetentionAssumption DEF ProcessInv
  <2> QED BY <1>4, <2>1, <2>2
<1>7. BacklogInv'
  <2>1. {h \in Open : Below(h)}' = {h \in Open : Below(h)}
    BY <1>5
  <2> QED BY <2>1 DEF ProcessInv, HourInv, BacklogInv
<1>8. HourInv'
  <2>1. \A m : Lost(m)' <=> Lost(m)
    BY DEF Lost
  <2> QED BY <1>5, <1>6, <1>7, <2>1 DEF ProcessInv, HourInv
<1>9. GrowthInv'
  BY DEF ProcessInv, GrowthInv, Seen
<1> QED BY <1>3, <1>8, <1>9 DEF ProcessInv

(* Nothing has been scanned at first.                                        *)
LEMMA InitProcess == ASSUME P!Init PROVE ProcessInv /\ NowInv
<1>1. /\ now = 0 /\ latest = 0 /\ boot = 1 /\ life = 1 /\ work = 0 /\ scans = {} /\ made = {}
      /\ hourly = [h \in P!Hours |-> [samples |-> 0, delta |-> 0]]
  BY DEF P!Init
<1>2. MadeInv /\ NowInv
  BY <1>1, FS_EmptySet, RetentionAssumption DEF MadeInv, NowInv, SameScan
<1>3. GrowthInv
  BY <1>1 DEF GrowthInv, Seen
<1>4. HourInv
  <2>1. P!In({}, 0) = {} /\ \A h : P!In({}, h) = {}
    BY DEF P!In
  <2>2. BacklogInv
    <3>1. {h \in Open : Below(h)} = {}
      BY <1>1 DEF Open
    <3> QED BY <3>1, FS_EmptySet, RetentionAssumption DEF BacklogInv
  <2> QED BY <1>1, <2>1, <2>2, RollupEmpty DEF HourInv
<1> QED BY <1>2, <1>3, <1>4 DEF ProcessInv

(* The steps of the host and of the scans together.                          *)
LEMMA NextProcess ==
  ASSUME SetBackIsShort, ProcessInv, NowInv, P!Next PROVE ProcessInv' /\ NowInv'
<1>1. /\ now \in Nat /\ now <= latest /\ latest <= now + MaxBack /\ latest \in Nat
      /\ latest <= MaxScanTime /\ MaxScanTime \in Nat /\ MaxBack \in Nat
      /\ boot \in Nat /\ life \in Nat \ {0} /\ work \in Nat
  BY RetentionAssumption DEF NowInv, ProcessInv, MadeInv
<1>2. CASE P!Tick
  <2>1. P!Max({latest, now + 1}) = IF latest >= now + 1 THEN latest ELSE now + 1
    <3> DEFINE g == P!Max({latest, now + 1})
    <3>1. g \in {latest, now + 1} /\ \A y \in {latest, now + 1} : g >= y
      <4>1. \E x \in {latest, now + 1} : \A y \in {latest, now + 1} : x >= y
        BY <1>1
      <4> QED BY <4>1 DEF P!Max
    <3> HIDE DEF g
    <3>2. g = IF latest >= now + 1 THEN latest ELSE now + 1
      BY <1>1, <3>1
    <3> QED BY <3>2 DEF g
  <2>2. now' = now + 1 /\ now < MaxScanTime /\ work' = work + 1 /\ boot' = boot /\ life' = life
        /\ UNCHANGED <<scans, hourly, made>> /\ latest' = P!Max({latest, now'})
    BY <1>2 DEF P!Tick
  <2>3. latest' = IF latest >= now + 1 THEN latest ELSE now + 1
    BY <2>1, <2>2
  <2>4. latest' \in Nat /\ latest' >= latest /\ latest' <= MaxScanTime /\ NowInv'
    BY <1>1, <2>2, <2>3 DEF NowInv
  <2> QED BY <1>1, <2>2, <2>4, HoldersMove
<1>3. CASE P!SetBack
  <2>1. UNCHANGED <<latest, boot, life, work, scans, hourly, made>>
    BY <1>3 DEF P!SetBack
  <2>2. now' \in P!Max({0, latest - MaxBack})..(now - 1)
    BY <1>3 DEF P!SetBack
  <2>3. P!Max({0, latest - MaxBack}) \in Int
        /\ P!Max({0, latest - MaxBack}) >= 0 /\ P!Max({0, latest - MaxBack}) >= latest - MaxBack
    <3>1. \E x \in {0, latest - MaxBack} : \A y \in {0, latest - MaxBack} : x >= y
      BY <1>1
    <3>2. /\ P!Max({0, latest - MaxBack}) \in {0, latest - MaxBack}
          /\ \A y \in {0, latest - MaxBack} : P!Max({0, latest - MaxBack}) >= y
      BY <3>1 DEF P!Max
    <3> QED BY <1>1, <3>2
  <2>4. NowInv'
    <3>1. PICK least \in Int : least = P!Max({0, latest - MaxBack})
      BY <2>3
    <3>2. now' \in least..(now - 1) /\ least >= 0 /\ least >= latest - MaxBack
      BY <2>2, <2>3, <3>1
    <3>3. now' \in Int /\ now' >= least /\ now' <= now - 1
      BY <1>1, <3>1, <3>2
    <3>4. PICK next \in Int : next = now' /\ next >= least /\ next <= now - 1
      BY <3>3
    <3>5. next \in Nat /\ next <= latest
      BY <1>1, <3>2, <3>4
    <3>6. least >= latest - MaxBack
      BY <3>2
    <3>7. latest <= next + MaxBack
      <4>1. \A a, b, c, d \in Int : a >= b /\ b >= c - d => c <= a + d
        OBVIOUS
      <4>2. latest \in Int /\ MaxBack \in Int
        BY <1>1
      <4> QED BY ONLY <3>4, <3>6, <4>1, <4>2, least \in Int
    <3> QED BY <2>1, <3>4, <3>5, <3>7 DEF NowInv
  <2>5. latest' >= latest /\ work' >= work /\ life' >= life
    BY <1>1, <2>1
  <2> QED BY <1>1, <2>1, <2>4, <2>5, HoldersMove
<1>4. CASE P!Restart
  <2>1. /\ life' = life + 1 /\ work' = 0 /\ boot' \in {boot, life'}
        /\ UNCHANGED <<now, latest, scans, hourly, made>>
    BY <1>4 DEF P!Restart
  <2>2. latest' >= latest /\ life' > life /\ life' \in Nat \ {0} /\ boot' \in Nat
    BY <1>1, <2>1
  <2>3. NowInv'
    BY <1>1, <2>1 DEF NowInv
  <2>4. life' >= life /\ life' # life /\ work' \in Nat /\ latest' \in Nat /\ latest' <= MaxScanTime
    BY <1>1, <2>1
  <2> QED BY <2>1, <2>2, <2>3, <2>4, HoldersMove
<1>5. CASE P!Scan \/ P!ScanBlind
  <2>1. PICK who \in {0, life} : P!Store(P!Sampled(who))
    BY <1>5 DEF P!Scan, P!ScanBlind
  <2>2. UNCHANGED <<now, latest, boot, life, work>>
    BY <1>5 DEF P!Scan, P!ScanBlind
  <2>3. PICK s, hours : Stores(s, hours)
    BY <2>1, <2>2, SampledStores
  <2>4. MadeInv' /\ HourInv' /\ GrowthInv'
    BY <2>3, MadeKeeps, HoursKeep, GrowthKeeps
  <2> QED BY <2>2, <2>4 DEF ProcessInv, NowInv
<1> QED BY <1>2, <1>3, <1>4, <1>5 DEF P!Next

(* Another part of the records moves.                                        *)
LEMMA OthersKeepProcess == ASSUME ProcessInv, UNCHANGED scanVars PROVE ProcessInv'
<1>1. UNCHANGED <<latest, boot, life, work, scans, hourly, made>>
  BY DEF scanVars
<1>2. latest \in Nat /\ latest <= MaxScanTime /\ boot \in Nat /\ life \in Nat \ {0} /\ work \in Nat
  BY DEF ProcessInv, MadeInv
<1>3. latest' >= latest /\ life' >= life /\ work' >= work
  BY <1>1, <1>2
<1> QED BY <1>1, <1>2, <1>3, HoldersMove

(* The invariant says that rollups are exact and that growth is real.        *)
LEMMA ProcessIsTrue == ASSUME ProcessInv PROVE P!RollupExact /\ P!GrowthIsReal
<1>1. P!RollupExact
  <2>1. ASSUME NEW h \in P!Hours, \A s \in P!In(scans, h) : s.rolled
        PROVE  h \notin Open
    BY <2>1 DEF Open, P!In
  <2> QED BY <2>1 DEF P!RollupExact, ProcessInv, HourInv
<1>2. ASSUME NEW l \in 1..life, Seen(l) # {}
      PROVE  P!Growth(Seen(l)) <= P!Max({s.work : s \in Seen(l)}) - P!Min({s.work : s \in Seen(l)})
  <2>1. l \in Nat \ {0} /\ life \in Nat
    BY DEF ProcessInv, MadeInv
  <2>2. PICK m, t \in Seen(l) : P!Growth(Seen(l)) <= t.work - m.work
    BY <1>2, <2>1 DEF ProcessInv, GrowthInv
  <2> DEFINE W == {s.work : s \in Seen(l)}
  <2>3. Seen(l) \subseteq ScanRows /\ IsFiniteSet(Seen(l))
    <3>1. Seen(l) \subseteq made /\ made \subseteq ScanRows /\ IsFiniteSet(made)
      BY DEF Seen, ProcessInv, MadeInv
    <3> QED BY <3>1, FS_Subset
  <2>4. PICK a, b \in Seen(l) : \A s \in Seen(l) : a.work <= s.work /\ s.work <= b.work
    <3>1. ASSUME NEW s \in Seen(l), NEW u \in Seen(l), s.id <= u.id PROVE s.work <= u.work
      BY <2>1, <3>1 DEF Seen, ProcessInv, GrowthInv
    <3>2. \A s \in Seen(l) : s.id \in Nat /\ s.id <= Cardinality(made)
          /\ Cardinality(made) \in Nat
      BY FS_CardinalityType DEF Seen, ProcessInv, MadeInv
    <3>3. {s.id : s \in Seen(l)} \in SUBSET Nat /\ {s.id : s \in Seen(l)} # {}
          /\ {Cardinality(made) - s.id : s \in Seen(l)} \in SUBSET Nat
          /\ {Cardinality(made) - s.id : s \in Seen(l)} # {}
      BY <1>2, <3>2
    <3>4. PICK a \in Seen(l) : \A s \in Seen(l) : a.id <= s.id
      <4> DEFINE I == {s.id : s \in Seen(l)}
      <4>1. PICK i \in I : \A j \in I : i <= j
        <5> HIDE DEF I
        <5> QED BY <3>3, LeastNumber DEF I
      <4> QED BY <4>1
    <3>5. PICK b \in Seen(l) : \A s \in Seen(l) : Cardinality(made) - b.id <= Cardinality(made) - s.id
      <4> DEFINE I == {Cardinality(made) - s.id : s \in Seen(l)}
      <4>1. PICK i \in I : \A j \in I : i <= j
        <5> HIDE DEF I
        <5> QED BY <3>3, LeastNumber DEF I
      <4> QED BY <4>1
    <3>6. \A s \in Seen(l) : s.id <= b.id
      BY <3>2, <3>5
    <3> QED BY <3>1, <3>4, <3>6
  <2>5. \A s \in Seen(l) : s.work \in Nat
    BY <2>3 DEF ScanRows
  <2>6. /\ P!Max(W) \in W /\ \A w \in W : P!Max(W) >= w
        /\ P!Min(W) \in W /\ \A w \in W : P!Min(W) <= w
    <3>1. \E w \in W : \A v \in W : w >= v
      BY <2>4, <2>5
    <3>2. \E w \in W : \A v \in W : w <= v
      BY <2>4, <2>5
    <3> HIDE DEF W
    <3> QED BY <3>1, <3>2 DEF P!Max, P!Min
  <2>7. /\ P!Max(W) \in Nat /\ P!Min(W) \in Nat /\ P!Max(W) >= t.work /\ P!Min(W) <= m.work
        /\ t.work \in Nat /\ m.work \in Nat
    BY <2>5, <2>6
  <2>8. P!Growth(Seen(l)) \in Int
    <3>1. Differenced(Seen(l)) \subseteq Seen(l) /\ \A s \in Differenced(Seen(l)) : s.delta \in Nat
      BY <2>3 DEF Differenced, ScanRows
    <3>2. Summed(Differenced(Seen(l))) \in Nat
      BY <2>3, <3>1, SumNat, FS_Subset
    <3> QED BY <3>2 DEF P!Growth, Summed, Differenced
  <2> HIDE DEF W
  <2>9. P!Growth(Seen(l)) <= P!Max(W) - P!Min(W)
    BY <2>2, <2>7, <2>8
  <2> QED BY <2>9 DEF W
<1>3. P!GrowthIsReal
  BY <1>2 DEF P!GrowthIsReal, Seen
<1> QED BY <1>1, <1>3

-----------------------------------------------------------------------------
(* The parts together.                                                       *)

(* Every part counts its faults in one number.                               *)
LEMMA FaultsGrow ==
  ASSUME AllNext, faults \in Nat
  PROVE  faults' \in Nat /\ faults' >= faults
<1>1. Next => faults' \in {faults, faults + 1}
  BY DEF Next, Tick, Step, Begin, Skip, Take, GiveUp, Spawn, WorkerStart, WorkerExit,
     WorkerKilled, WorkerFinish, Judge, RecordStart, RecordFinish, Note, Stop
<1>2. R!Next => faults' \in {faults, faults + 1}
  BY DEF R!Next, R!Tick, R!SetBack, R!Sample, R!Maintain, R!Begin, R!Backup, R!FindDays,
     R!AggregateDay, R!Clean, R!PruneBackups, R!Die
<1>3. P!Next => faults' \in {faults, faults + 1}
  BY DEF P!Next, P!Tick, P!SetBack, P!Restart, P!Scan, P!ScanBlind, P!Fault
<1>4. U!Next => faults' \in {faults, faults + 1}
  BY DEF U!Next, U!Tick, U!SetBack, U!Log, U!Vacuum, U!Define, U!Import, U!Begin, U!Read,
     U!ReadFails, U!RecordError, U!Persist, U!Die, U!Fault
<1>5. D!Next => faults' \in {faults, faults + 1}
  BY DEF D!Next, D!Transact, D!Collect, D!Insert, D!Alert, D!Die
<1>6. H!Next => faults' \in {faults, faults + 1}
  BY DEF H!Next, H!Collect, H!Tick, H!Sleep, H!LogError, H!Run, H!Reboot
<1>7. L!Next => faults' \in {faults, faults + 1}
  BY DEF L!Next, L!Boot, L!Sleep, L!Wake, L!Stop, L!Off, L!Conclude, L!WriteBoot,
     L!WriteShutdown, L!PowerLoss, L!Read, L!WriteSleep, L!Killed
<1>8. S!Next => faults' \in {faults, faults + 1}
  BY DEF S!Next, S!Shows, S!Starts, S!Ends, S!Answered, S!AnswerLate, S!ReadTty, S!ReadMeta,
     S!StorageFails, S!Control
<1>9. faults' \in {faults, faults + 1}
  BY <1>1, <1>2, <1>3, <1>4, <1>5, <1>6, <1>7, <1>8 DEF AllNext
<1> QED BY <1>9

(* For any transactions, errors, sensors and suspends, periods that the       *)
(* search of the journal covers, and boots whose shutdown waits for the hook  *)
(* at work: what the collectors remember makes everything reported, and once  *)
(* as long as the memories have room; a success of a oneshot counts for as    *)
(* long as it should; and every unclean end is told, and nothing else.        *)
THEOREM CollectorsRemembered ==
  ASSUME ~Overlap
  PROVE  AllSpec => []CollectorsRemember
<1> DEFINE CollectorInv == PackageInv /\ HostInv /\ BootInv
<1>1. AllInit => CollectorInv
  BY InitPackages, InitHost, InitBoots DEF AllInit
<1>2. CollectorInv /\ [AllNext]_allVars => CollectorInv'
  <2> SUFFICES ASSUME PackageInv, HostInv, BootInv, [AllNext]_allVars
               PROVE  PackageInv' /\ HostInv' /\ BootInv'
    OBVIOUS
  <2>1. faults' \in Nat /\ faults' >= faults
    <3>1. faults \in Nat
      BY DEF PackageInv, PackageTypes
    <3>2. CASE AllNext
      BY <3>1, <3>2, FaultsGrow
    <3>3. CASE UNCHANGED allVars
      BY <3>1, <3>3 DEF allVars
    <3> QED BY <3>2, <3>3
  <2>2. PackageInv'
    <3>1. D!Next \/ UNCHANGED packageVars
      BY DEF AllNext, allVars, packageVars
    <3> QED BY <2>1, <3>1, NextPackages, OthersKeepPackages
  <2>3. HostInv'
    <3>1. H!Next \/ UNCHANGED hostVars
      BY DEF AllNext, allVars, hostVars
    <3> QED BY <3>1, NextHost, OthersKeepHost
  <2>4. BootInv'
    <3>1. L!Next \/ UNCHANGED bootVars
      BY DEF AllNext, allVars, bootVars
    <3> QED BY <3>1, NextBoots, OthersKeepBoots
  <2> QED BY <2>2, <2>3, <2>4
<1>3. CollectorInv => CollectorsRemember
  BY ReportedAll, FoundOnce, SeriesAreKept, EndsAreReported
  DEF HostInv, ServiceInv, BootInv, CollectorsRemember
<1> QED
  <2> HIDE DEF CollectorInv
  <2> QED BY <1>1, <1>2, <1>3, PTL DEF AllSpec

(* Whatever the journal holds, in any order of time stamps, through a vacuum, *)
(* failed reads, deaths and any overlapping imports: what the cursor has     *)
(* passed is stored or was not to be seen, and every execution says what its *)
(* stored entries say.                                                       *)
THEOREM HistoryStaysTrue == U!Spec => []UnitHistoryIsTrue
<1> DEFINE Inv == HistoryInv /\ now \in Int
<1>1. U!Init => Inv
  BY InitHistory DEF U!Init
<1>2. Inv /\ [U!Next]_(U!vars) => Inv'
  <2> SUFFICES ASSUME Inv, [U!Next]_(U!vars) PROVE Inv'
    OBVIOUS
  <2>1. CASE U!Next
    BY <2>1, NextHistory
  <2>2. CASE UNCHANGED U!vars
    <3>1. UNCHANGED unitVars /\ now' = now
      BY <2>2 DEF U!vars, unitVars
    <3> QED BY <3>1, OthersKeepHistory
  <2> QED BY <2>1, <2>2
<1>3. Inv => UnitHistoryIsTrue
  BY HistoryIsTrue
<1> QED
  <2> HIDE DEF Inv
  <2> QED BY <1>1, <1>2, <1>3, PTL DEF U!Spec

(* The same of the composition that is checked, whose other parts have a     *)
(* clock in common with the journal.                                         *)
THEOREM UnitHistoryTrue == AllSpec => []UnitHistoryIsTrue
<1> DEFINE Inv == HistoryInv /\ (part \in {"units", "overlap"} => now \in Int)
<1>1. AllInit => Inv
  BY InitHistory DEF AllInit, U!Init
<1>2. Inv /\ [AllNext]_allVars => Inv'
  <2> SUFFICES ASSUME Inv, [AllNext]_allVars PROVE Inv'
    OBVIOUS
  <2>1. part' = part
    BY DEF AllNext, allVars
  <2>2. \/ part \in {"units", "overlap"} /\ U!Next
        \/ UNCHANGED unitVars /\ (part \notin {"units", "overlap"} \/ now' = now)
    BY DEF AllNext, allVars, unitVars
  <2> QED BY <2>1, <2>2, NextHistory, OthersKeepHistory
<1>3. Inv => UnitHistoryIsTrue
  BY HistoryIsTrue
<1> QED
  <2> HIDE DEF Inv
  <2> QED BY <1>1, <1>2, <1>3, PTL DEF AllSpec

(* For any numbers of days and copies to keep: no aggregate counts a sample  *)
(* twice or forgets one that is gone, and the last inventory and backup of   *)
(* each period are there.                                                    *)
THEOREM RetentionStaysTrue ==
  R!Spec => [](R!EverySampleOnce /\ R!PeriodsKeepTheirLast /\ R!BackupsReachBack)
<1> DEFINE Inv == RetentionInv /\ now \in R!Days
<1>1. R!Init => Inv
  BY InitRetention, RetentionAssumption DEF R!Init, R!Days
<1>2. Inv /\ [R!Next]_(R!vars) => Inv'
  <2> SUFFICES ASSUME Inv, [R!Next]_(R!vars) PROVE Inv'
    OBVIOUS
  <2>1. CASE R!Next
    BY <2>1, NextRetention
  <2>2. CASE UNCHANGED R!vars
    <3>1. UNCHANGED keptVars /\ now' = now
      BY <2>2 DEF R!vars, R!data, R!history, keptVars
    <3> QED BY <3>1, OthersKeepRetention
  <2> QED BY <2>1, <2>2
<1>3. Inv => R!EverySampleOnce /\ R!PeriodsKeepTheirLast /\ R!BackupsReachBack
  BY RetentionIsTrue
<1> QED
  <2> HIDE DEF Inv
  <2> QED BY <1>1, <1>2, <1>3, PTL DEF R!Spec

(* For any length of hour, hours kept and hours rolled up in a pass, while   *)
(* the clock is set back by no more of them: a rolled-up hour says what all  *)
(* of its scans measured, and no growth is counted that a process had not.   *)
THEOREM ScansStayTrue ==
  ASSUME SetBackIsShort
  PROVE  P!Spec => [](P!RollupExact /\ P!GrowthIsReal)
<1> DEFINE Inv == ProcessInv /\ NowInv
<1>1. P!Init => Inv
  BY InitProcess
<1>2. Inv /\ [P!Next]_(P!vars) => Inv'
  <2> SUFFICES ASSUME Inv, [P!Next]_(P!vars) PROVE Inv'
    OBVIOUS
  <2>1. CASE P!Next
    BY <2>1, NextProcess
  <2>2. CASE UNCHANGED P!vars
    <3>1. UNCHANGED scanVars /\ now' = now /\ latest' = latest
      BY <2>2 DEF P!vars, scanVars
    <3> QED BY <3>1, OthersKeepProcess DEF NowInv
  <2> QED BY <2>1, <2>2
<1>3. Inv => P!RollupExact /\ P!GrowthIsReal
  BY ProcessIsTrue
<1> QED
  <2> HIDE DEF Inv
  <2> QED BY <1>1, <1>2, <1>3, PTL DEF P!Spec

(* Both, of the composition that is checked: what is aggregated, thinned,    *)
(* pruned or rolled up still says what was measured.                         *)
THEOREM RetentionKept ==
  ASSUME SetBackIsShort
  PROVE  AllSpec => []RetentionKeepsWhatCounts
<1> DEFINE Inv == /\ RetentionInv /\ (part \in {"metrics", "files"} => now \in R!Days)
                  /\ ProcessInv /\ (part = "processes" => NowInv)
<1>1. AllInit => Inv
  BY InitRetention, InitProcess, RetentionAssumption DEF AllInit, R!Init, R!Days
<1>2. Inv /\ [AllNext]_allVars => Inv'
  <2> SUFFICES ASSUME Inv, [AllNext]_allVars PROVE Inv'
    OBVIOUS
  <2>1. part' = part
    BY DEF AllNext, allVars
  <2>2. \/ part \in {"metrics", "files"} /\ R!Next
        \/ UNCHANGED keptVars /\ (part \notin {"metrics", "files"} \/ now' = now)
    BY DEF AllNext, allVars, keptVars
  <2>3. \/ part = "processes" /\ P!Next
        \/ UNCHANGED scanVars /\ (part # "processes" \/ now' = now)
    BY DEF AllNext, allVars, scanVars
  <2>4. RetentionInv' /\ (part \in {"metrics", "files"} => (now \in R!Days)')
    BY <2>2, NextRetention, OthersKeepRetention
  <2>5. ProcessInv' /\ (part = "processes" => NowInv')
    <3>1. CASE part = "processes" /\ P!Next
      BY <3>1, NextProcess
    <3>2. CASE UNCHANGED scanVars /\ (part # "processes" \/ now' = now)
      <4>1. latest' = latest
        BY <3>2 DEF scanVars
      <4> QED BY <3>2, <4>1, OthersKeepProcess DEF NowInv
    <3> QED BY <2>3, <3>1, <3>2
  <2> QED BY <2>1, <2>4, <2>5
<1>3. Inv => RetentionKeepsWhatCounts
  BY RetentionIsTrue, ProcessIsTrue DEF RetentionKeepsWhatCounts
<1> QED
  <2> HIDE DEF Inv
  <2> QED BY <1>1, <1>2, <1>3, PTL DEF AllSpec

=============================================================================
