------------------------ MODULE AlertLifecycle_proofs ------------------------
(***************************************************************************)
(* Theorems about AlertLifecycle for every set of keys, every threshold,   *)
(* hold and number of crashes.                                             *)
(***************************************************************************)
EXTENDS AlertLifecycle, TLAPS

(* What _derived_recoveries closes an alert for.                           *)
Evidence(k) ==
  \/ (k \in ServiceKeys /\ sampled[k] = 1)
  \/ k \in ignored
  \/ (k \in StorageKeys /\ sampled[k] = Absent)

(* The two records an evaluation leaves behind: where the worker is decides *)
(* what may be outstanding.                                                *)
WorkInv ==
  /\ pc = "idle" => todo = {} /\ pending = Quiet /\ derived = {}
  /\ pc = "evaluate" => derived = {}
  /\ pc = "persist" => todo = {}
  /\ \A k \in todo : pending[k] = "nothing" /\ sampled[k] # Absent
  /\ \A k \in derived : Evidence(k)
  /\ \A k \in Keys : sampled[k] = Absent => k \in StorageKeys /\ pending[k] = "nothing"

(* The persisted condition times the unbroken run of samples.              *)
HeldInv ==
  \A k \in Keys :
    /\ cond[k].breach = held[k].level
    /\ held[k].level # "none" => cond[k].age = held[k].age

(* Before any crash, what separates the table from the condition of a key  *)
(* is the signal that is still pending.                                    *)
SignalInv(k) ==
  /\ pending[k] \in Severities => cond[k].active = pending[k]
  /\ pending[k] = "recover" => cond[k].active = "none"
  /\ pending[k] # "recover" /\ cond[k].active = "none" => alerts[k] = "none"
  /\ k \notin StorageKeys /\ pending[k] = "nothing" => alerts[k] = cond[k].active
  /\ /\ k \in StorageKeys \ ignored /\ pc # "idle" /\ k \notin todo
     /\ sampled[k] # Absent /\ pending[k] = "nothing"
     => alerts[k] = cond[k].active

TrackInv == crashes = 0 => \A k \in Keys \ ServiceKeys : SignalInv(k)

(* Every condition asks for a level, and only high and link warnings wait. *)
LEMMA ConditionType ==
  ASSUME NEW k \in Keys, NEW v \in Int, NEW a \in Levels
  PROVE  /\ Condition(k, v, a).level \in Levels
         /\ Condition(k, v, a).hold \in {0, Hold}
         /\ Kind[k] = "low" => Condition(k, v, a).hold = 0
         /\ Condition(k, v, a).level = "warning" /\ Kind[k] \in {"high", "link"}
            => Condition(k, v, a).hold = Hold
<1>1. Kind[k] \in {"high", "low", "link", "service"}
  BY KindAssumption
<1>2. CASE Kind[k] = "high"
  BY <1>2 DEF Condition, HighLevel, Asks, Levels, Severities
<1>3. CASE Kind[k] = "low"
  BY <1>3 DEF Condition, LowLevel, Asks, Levels, Severities
<1>4. CASE Kind[k] = "link"
  BY <1>4 DEF Condition, LinkLevel, Asks, Levels, Severities
<1>5. CASE Kind[k] = "service"
  BY <1>5 DEF Condition, ServiceLevel, Asks, Levels, Severities
<1> QED BY <1>1, <1>2, <1>3, <1>4, <1>5

(* Expanding a step of Next into its actions.                              *)
LEMMA Steps ==
  ASSUME [Next]_vars
  PROVE  \/ Collection
         \/ \E k \in Keys : Evaluate(k) \/ Persist(k) \/ PersistDerived(k)
         \/ Derive \/ Finish \/ Crash \/ Tick
         \/ \E k \in Keys, s \in Severities : EventOpens(k, s)
         \/ \E k \in Keys : Configure(k)
         \/ UNCHANGED vars
BY DEF Next

(* An age stays within the hold.                                            *)
LEMMA OlderType == \A n \in 0..Hold : Older(n) \in 0..Hold
BY HoldAssumption DEF Older

(* Evaluating a sampled value always leaves a well-formed condition and a  *)
(* well-formed signal.                                                     *)
LEMMA EvaluateType ==
  ASSUME TypeOK, NEW k \in Keys, Evaluate(k)
  PROVE  cond' \in [Keys -> CondStates] /\ pending' \in [Keys -> Signals]
<1> DEFINE asked == Condition(k, sampled[k], cond[k].active)
<1>1. /\ asked.level \in Levels /\ asked.hold \in {0, Hold}
      /\ cond[k] \in CondStates /\ Hold \in Nat
  BY ConditionType, HoldAssumption DEF TypeOK, CondStates
<1> HIDE DEF asked
<1>2. CASE asked.level # "none"
  <2>1. Breach(k, asked) BY <1>2 DEF Evaluate, asked
  <2> DEFINE age   == IF cond[k].breach = asked.level THEN cond[k].age ELSE 0
             fires == age >= asked.hold
             new   == [active  |-> IF fires THEN asked.level ELSE cond[k].active,
                       breach  |-> asked.level, age |-> age, samples |-> 0]
  <2>2. cond' = [cond EXCEPT ![k] = new]
        /\ pending' = [pending EXCEPT ![k] = IF fires THEN asked.level ELSE "nothing"]
    BY <2>1 DEF Breach
  <2>3. new \in CondStates
    BY <1>1 DEF CondStates
  <2> HIDE DEF new, fires
  <2>4. (IF fires THEN asked.level ELSE "nothing") \in Signals
    <3>1. CASE fires BY <3>1, <1>1, <1>2 DEF Signals, Levels
    <3>2. CASE ~fires BY <3>2 DEF Signals
    <3> QED BY <3>1, <3>2
  <2> QED BY <2>2, <2>3, <2>4 DEF TypeOK
<1>3. CASE asked.level = "none"
  <2>1. Healthy(k) BY <1>3 DEF Evaluate, asked
  <2>2. cond[k].samples \in 0..1 \/ cond[k].samples = 2
    BY <1>1 DEF CondStates
  <2>3. RequiredSamples(k) \in {1, 2} BY DEF RequiredSamples
  <2> DEFINE c     == cond[k]
             n     == c.samples + 1
             fires == c.active # "none" /\ n >= RequiredSamples(k)
             new   == [active  |-> IF fires THEN "none" ELSE c.active,
                       breach  |-> "none", age |-> 0,
                       samples |-> IF fires THEN 0
                                   ELSE IF c.active # "none" THEN n ELSE c.samples]
  <2>4. cond' = [cond EXCEPT ![k] = new]
        /\ pending' = [pending EXCEPT ![k] = IF fires THEN "recover" ELSE "nothing"]
    BY <2>1 DEF Healthy
  <2>5. new \in CondStates
    BY <1>1, <2>2, <2>3 DEF CondStates, Levels
  <2>6. (IF fires THEN "recover" ELSE "nothing") \in Signals
    BY DEF Signals
  <2> HIDE DEF new, fires
  <2> QED BY <2>4, <2>5, <2>6 DEF TypeOK
<1> QED BY <1>2, <1>3

(* What one evaluation does to its own key: the condition after it and the *)
(* signal it leaves, and nothing to the other keys.                        *)
LEMMA EvaluateEffect ==
  ASSUME TypeOK, NEW k \in Keys, Evaluate(k),
         NEW asked, asked = Condition(k, sampled[k], cond[k].active)
  PROVE  /\ pending'[k] \in Severities =>
              /\ pending'[k] = asked.level
              /\ cond'[k].active = asked.level
              /\ cond'[k].age >= asked.hold
         /\ pending'[k] = "recover" => cond'[k].active = "none"
         /\ pending'[k] = "nothing" => cond'[k].active = cond[k].active
         /\ pending'[k] = "nothing" /\ Kind[k] = "low" => cond'[k].active = "none"
         /\ cond'[k].breach = asked.level
         /\ asked.level # "none" =>
              cond'[k].age = IF cond[k].breach = asked.level THEN cond[k].age ELSE 0
         /\ \A j \in Keys \ {k} : cond'[j] = cond[j] /\ pending'[j] = pending[j]
<1>1. /\ asked.level \in Levels /\ asked.hold \in {0, Hold} /\ Hold \in Nat
      /\ Kind[k] = "low" => asked.hold = 0
      /\ cond[k] \in CondStates
  BY ConditionType, HoldAssumption DEF TypeOK, CondStates
<1>2. CASE asked.level # "none"
  <2> DEFINE age   == IF cond[k].breach = asked.level THEN cond[k].age ELSE 0
             fires == age >= asked.hold
             new   == [active  |-> IF fires THEN asked.level ELSE cond[k].active,
                       breach  |-> asked.level, age |-> age, samples |-> 0]
             sig   == IF fires THEN asked.level ELSE "nothing"
  <2>1. cond' = [cond EXCEPT ![k] = new] /\ pending' = [pending EXCEPT ![k] = sig]
    BY <1>2 DEF Evaluate, Breach
  <2>2. /\ cond'[k] = new /\ pending'[k] = sig
        /\ \A j \in Keys \ {k} : cond'[j] = cond[j] /\ pending'[j] = pending[j]
    BY <2>1 DEF TypeOK
  <2>3. asked.level \in Severities BY <1>1, <1>2 DEF Levels
  <2>4. Kind[k] = "low" => fires BY <1>1 DEF CondStates
  <2>5. CASE fires
    <3>1. /\ cond'[k].active = asked.level /\ cond'[k].age = age
          /\ cond'[k].breach = asked.level /\ pending'[k] = asked.level
      BY <2>2, <2>5
    <3>2. pending'[k] # "recover" /\ pending'[k] # "nothing"
      BY <3>1, <2>3 DEF Severities
    <3> QED BY <3>1, <3>2, <2>2, <2>5
  <2>6. CASE ~fires
    <3>1. /\ cond'[k].active = cond[k].active /\ cond'[k].age = age
          /\ cond'[k].breach = asked.level /\ pending'[k] = "nothing"
      BY <2>2, <2>6
    <3>2. pending'[k] \notin Severities BY <3>1 DEF Severities
    <3> QED BY <3>1, <3>2, <2>2, <2>4, <2>6
  <2> QED BY <2>5, <2>6
<1>3. CASE asked.level = "none"
  <2> DEFINE c     == cond[k]
             n     == c.samples + 1
             fires == c.active # "none" /\ n >= RequiredSamples(k)
             new   == [active  |-> IF fires THEN "none" ELSE c.active,
                       breach  |-> "none", age |-> 0,
                       samples |-> IF fires THEN 0
                                   ELSE IF c.active # "none" THEN n ELSE c.samples]
             sig   == IF fires THEN "recover" ELSE "nothing"
  <2>1. cond' = [cond EXCEPT ![k] = new] /\ pending' = [pending EXCEPT ![k] = sig]
    BY <1>3 DEF Evaluate, Healthy
  <2>2. /\ cond'[k] = new /\ pending'[k] = sig
        /\ \A j \in Keys \ {k} : cond'[j] = cond[j] /\ pending'[j] = pending[j]
    BY <2>1 DEF TypeOK
  <2>3. Kind[k] = "low" => (fires \/ c.active = "none")
    BY <1>1 DEF RequiredSamples, CondStates
  <2>4. CASE fires
    <3>1. cond'[k].active = "none" /\ cond'[k].breach = "none" /\ pending'[k] = "recover"
      BY <2>2, <2>4
    <3> QED BY <3>1, <2>2, <1>3 DEF Severities
  <2>5. CASE ~fires
    <3>1. /\ cond'[k].active = cond[k].active
          /\ cond'[k].breach = "none" /\ pending'[k] = "nothing"
      BY <2>2, <2>5
    <3> QED BY <3>1, <2>2, <2>3, <2>5, <1>3 DEF Severities
  <2> QED BY <2>4, <2>5
<1> QED BY <1>2, <1>3

(* The inductive invariant behind the two safety theorems.                 *)
IInv == TypeOK /\ WorkInv /\ HeldInv /\ NoPrematureAlert /\ TrackInv

(* The first states satisfy the invariant.                                  *)
LEMMA InitIInv == Init => IInv
<1> SUFFICES ASSUME Init PROVE IInv
  OBVIOUS
<1>1. TypeOK
  BY HoldAssumption DEF Init, TypeOK, CondStates, NoCondition, Levels, Severities,
     Signals, Quiet, Absent
<1>2. WorkInv
  BY KindAssumption DEF Init, WorkInv, Quiet, Absent, StorageKeys
<1>3. HeldInv BY DEF Init, HeldInv, NoCondition
<1>4. NoPrematureAlert BY DEF Init, NoPrematureAlert, Quiet, Severities
<1>5. TrackInv
  BY DEF Init, TrackInv, SignalInv, Quiet, NoCondition, Severities
<1> QED BY <1>1, <1>2, <1>3, <1>4, <1>5 DEF IInv

(* Every step keeps the types.                                              *)
LEMMA TypeStep == ASSUME TypeOK, [Next]_vars PROVE TypeOK'
<1>0. Hold \in Nat /\ MaxValue \in Nat BY HoldAssumption, BoundAssumption
<1>1. CASE Collection
  BY <1>1, <1>0 DEF TypeOK, Collection, Collect, Quiet, Signals, history, Absent
<1>2. ASSUME NEW k \in Keys, Evaluate(k) PROVE TypeOK'
  <2>1. cond' \in [Keys -> CondStates] /\ pending' \in [Keys -> Signals]
    BY <1>2, EvaluateType
  <2>2. Condition(k, sampled[k], cond[k].active).level \in Levels
    BY ConditionType DEF TypeOK, CondStates
  <2>3. held' \in [Keys -> [level : Levels, age : 0..Hold]]
    BY <1>2, <1>0, <2>2 DEF TypeOK, Evaluate
  <2>4. good' \in [Keys -> 0..2]
    BY <1>2 DEF TypeOK, Evaluate
  <2> QED BY <1>2, <2>1, <2>3, <2>4 DEF TypeOK, Evaluate
<1>3. ASSUME NEW k \in Keys, Persist(k) PROVE TypeOK'
  BY <1>3 DEF TypeOK, Persist, Signals, Levels, Severities, history
<1>4. ASSUME NEW k \in Keys, PersistDerived(k) PROVE TypeOK'
  BY <1>4 DEF TypeOK, PersistDerived, Levels, history
<1>5. CASE Derive BY <1>5 DEF TypeOK, Derive, history
<1>6. CASE Finish BY <1>6 DEF TypeOK, Finish, history
<1>7. CASE Crash BY <1>7 DEF TypeOK, Crash, Quiet, Signals, history
<1>8. CASE Tick
  <2>1. cond' \in [Keys -> CondStates]
    BY <1>8, OlderType DEF TypeOK, Tick, CondStates
  <2>2. held' \in [Keys -> [level : Levels, age : 0..Hold]]
    BY <1>8, OlderType DEF TypeOK, Tick
  <2> QED BY <1>8, <2>1, <2>2 DEF TypeOK, Tick, work
<1>9. ASSUME NEW k \in Keys, NEW s \in Severities, EventOpens(k, s) PROVE TypeOK'
  BY <1>9 DEF TypeOK, EventOpens, Levels, history, work
<1>10. ASSUME NEW k \in Keys, Configure(k) PROVE TypeOK'
  BY <1>10 DEF TypeOK, Configure, history, work
<1>11. CASE UNCHANGED vars
  BY <1>11 DEF TypeOK, vars, work, history
<1> QED BY Steps, <1>1, <1>2, <1>3, <1>4, <1>5, <1>6, <1>7, <1>8, <1>9, <1>10, <1>11

(* The type invariant of the alert pipeline.                               *)
THEOREM TypeCorrect == Spec => []TypeOK
<1>1. Init => TypeOK BY InitIInv DEF IInv
<1>2. TypeOK /\ [Next]_vars => TypeOK' BY TypeStep
<1> QED BY <1>1, <1>2, PTL DEF Spec

(* Every step keeps signals away from what is still to be evaluated.        *)
LEMMA WorkStep == ASSUME TypeOK, WorkInv, [Next]_vars PROVE WorkInv'
<1>1. CASE Collection
  BY <1>1, KindAssumption, BoundAssumption
     DEF WorkInv, Collection, Collect, Quiet, ValuesOf, StorageKeys, Absent, history
<1>2. ASSUME NEW k \in Keys, Evaluate(k) PROVE WorkInv'
  <2>1. \A j \in Keys \ {k} : pending'[j] = pending[j]
    BY <1>2, EvaluateEffect
  <2> QED BY <1>2, <2>1 DEF WorkInv, Evaluate, TypeOK
<1>3. ASSUME NEW k \in Keys, Persist(k) PROVE WorkInv'
  BY <1>3 DEF Evidence, WorkInv, Persist, TypeOK, history
<1>4. ASSUME NEW k \in Keys, PersistDerived(k) PROVE WorkInv'
  BY <1>4 DEF Evidence, WorkInv, PersistDerived, TypeOK, history
<1>5. CASE Derive
  <2>1. /\ pc' = "persist" /\ todo = {}
        /\ UNCHANGED <<ignored, todo, pending, sampled>>
        /\ \A k \in derived' : Evidence(k)
    BY <1>5 DEF Derive, Evidence
  <2>2. \A j \in Keys : sampled[j] = Absent => j \in StorageKeys /\ pending[j] = "nothing"
    BY DEF WorkInv
  <2>3. \A k \in derived' : Evidence(k)'
    BY <2>1 DEF Evidence
  <2>4. \A j \in Keys : sampled'[j] = Absent => j \in StorageKeys /\ pending'[j] = "nothing"
    BY <2>1, <2>2
  <2> QED BY <2>1, <2>3, <2>4 DEF WorkInv
<1>6. CASE Finish
  <2>1. /\ pc' = "idle" /\ todo = {} /\ derived = {} /\ pending = Quiet
        /\ UNCHANGED <<todo, derived, pending, sampled>>
    BY <1>6 DEF WorkInv, Finish, Done
  <2>2. \A j \in Keys : sampled[j] = Absent => j \in StorageKeys /\ pending[j] = "nothing"
    BY DEF WorkInv
  <2> QED BY <2>1, <2>2 DEF WorkInv, Quiet
<1>7. CASE Crash BY <1>7 DEF WorkInv, Crash, Quiet, history
<1>8. CASE Tick BY <1>8 DEF WorkInv, Tick, work
<1>9. ASSUME NEW k \in Keys, NEW s \in Severities, EventOpens(k, s) PROVE WorkInv'
  BY <1>9 DEF Evidence, WorkInv, EventOpens, work
<1>10. ASSUME NEW k \in Keys, Configure(k) PROVE WorkInv'
  <2>1. /\ pc = "idle" /\ todo = {} /\ derived = {} /\ pending = Quiet
        /\ UNCHANGED <<pc, todo, derived, pending, sampled>>
    BY <1>10 DEF WorkInv, Configure, work
  <2>2. \A j \in Keys : sampled[j] = Absent => j \in StorageKeys /\ pending[j] = "nothing"
    BY DEF WorkInv
  <2> QED BY <2>1, <2>2 DEF WorkInv, Quiet
<1>11. CASE UNCHANGED vars BY <1>11 DEF Evidence, WorkInv, vars, work
<1> QED BY Steps, <1>1, <1>2, <1>3, <1>4, <1>5, <1>6, <1>7, <1>8, <1>9, <1>10, <1>11

(* Every step keeps the conditions equal to the history of samples.         *)
LEMMA HeldStep == ASSUME TypeOK, HeldInv, [Next]_vars PROVE HeldInv'
<1>1. CASE UNCHANGED <<cond, held>> BY <1>1 DEF HeldInv
<1>2. ASSUME NEW k \in Keys, Evaluate(k) PROVE HeldInv'
  <2> DEFINE asked == Condition(k, sampled[k], cond[k].active)
  <2>1. /\ cond'[k].breach = asked.level
        /\ asked.level # "none" =>
             cond'[k].age = IF cond[k].breach = asked.level THEN cond[k].age ELSE 0
        /\ \A j \in Keys \ {k} : cond'[j] = cond[j]
    BY <1>2, EvaluateEffect
  <2>2. /\ held'[k] = IF held[k].level = asked.level THEN held[k]
                      ELSE [level |-> asked.level, age |-> 0]
        /\ \A j \in Keys \ {k} : held'[j] = held[j]
    BY <1>2 DEF Evaluate, TypeOK
  <2> HIDE DEF asked
  <2> QED BY <2>1, <2>2 DEF HeldInv
<1>3. CASE Tick
  <2> SUFFICES ASSUME NEW k \in Keys
               PROVE  /\ cond'[k].breach = held'[k].level
                      /\ held'[k].level # "none" => cond'[k].age = held'[k].age
    BY DEF HeldInv
  <2>1. held'[k] = [held[k] EXCEPT !.age = Older(@)] BY <1>3 DEF Tick
  <2>2. cond'[k] = IF cond[k].breach = "none" THEN cond[k]
                   ELSE [cond[k] EXCEPT !.age = Older(@)] BY <1>3 DEF Tick
  <2>3. cond[k] \in CondStates /\ held[k] \in [level : Levels, age : 0..Hold]
    BY DEF TypeOK
  <2>4. held'[k].level = held[k].level /\ held'[k].age = Older(held[k].age)
    BY <2>1, <2>3
  <2>5. cond'[k].breach = cond[k].breach BY <2>2, <2>3 DEF CondStates
  <2>6. cond[k].breach # "none" => cond'[k].age = Older(cond[k].age)
    BY <2>2, <2>3 DEF CondStates
  <2> QED BY <2>4, <2>5, <2>6 DEF HeldInv
<1>4. ASSUME NEW k \in Keys, Persist(k) PROVE UNCHANGED <<cond, held>>
  BY <1>4 DEF Persist, history
<1>5. ASSUME NEW k \in Keys, PersistDerived(k) PROVE UNCHANGED <<cond, held>>
  BY <1>5 DEF PersistDerived, history
<1>6. ASSUME NEW k \in Keys, NEW s \in Severities, EventOpens(k, s)
      PROVE UNCHANGED <<cond, held>>
  BY <1>6 DEF EventOpens, history
<1>7. ASSUME NEW k \in Keys, Configure(k) PROVE UNCHANGED <<cond, held>>
  BY <1>7 DEF Configure, history
<1>8. Collection \/ Derive \/ Finish \/ Crash \/ UNCHANGED vars
      => UNCHANGED <<cond, held>>
  BY DEF Collection, Collect, Derive, Finish, Crash, vars, history
<1> QED BY Steps, <1>1, <1>2, <1>3, <1>4, <1>5, <1>6, <1>7, <1>8

(* No step raises a signal before its time.                                 *)
LEMMA PrematureStep ==
  ASSUME TypeOK, WorkInv, HeldInv, NoPrematureAlert, [Next]_vars
  PROVE  NoPrematureAlert'
<1>1. ASSUME NEW k \in Keys, Evaluate(k) PROVE NoPrematureAlert'
  <2> DEFINE asked == Condition(k, sampled[k], cond[k].active)
  <2>1. /\ pending'[k] \in Severities => /\ pending'[k] = asked.level
                                        /\ cond'[k].age >= asked.hold
        /\ cond'[k].breach = asked.level
        /\ \A j \in Keys \ {k} : pending'[j] = pending[j]
    BY <1>1, EvaluateEffect
  <2>2. held'[k].level = asked.level
    BY <1>1 DEF Evaluate, TypeOK
  <2>3. \A j \in Keys \ {k} : held'[j] = held[j]
    BY <1>1 DEF Evaluate, TypeOK
  <2>4. held'[k].level # "none" => held'[k].age = cond'[k].age
    BY HeldStep DEF HeldInv
  <2>5. asked.level = "warning" /\ Kind[k] \in {"high", "link"} => asked.hold = Hold
    BY ConditionType DEF TypeOK, CondStates
  <2> HIDE DEF asked
  <2>6. pending'[k] \in Severities =>
          /\ held'[k].level = pending'[k]
          /\ pending'[k] = "warning" /\ Kind[k] \in {"high", "link"}
             => held'[k].age >= Hold
    BY <2>1, <2>2, <2>4, <2>5 DEF Severities
  <2> QED BY <2>1, <2>3, <2>6 DEF NoPrematureAlert
<1>2. CASE pending' = Quiet
  BY <1>2 DEF NoPrematureAlert, Quiet, Severities
<1>3. Collection \/ Crash => pending' = Quiet
  BY DEF Collection, Collect, Crash
<1>4. Tick => pending' = Quiet
  BY DEF Tick, work, WorkInv
<1>5. ASSUME NEW k \in Keys, Persist(k) PROVE NoPrematureAlert'
  BY <1>5 DEF Persist, NoPrematureAlert, Severities, TypeOK, history
<1>6. CASE UNCHANGED <<pending, held>>
  BY <1>6 DEF NoPrematureAlert
<1>7. ASSUME NEW k \in Keys, PersistDerived(k) PROVE UNCHANGED <<pending, held>>
  BY <1>7 DEF PersistDerived, history
<1>8. ASSUME NEW k \in Keys, NEW s \in Severities, EventOpens(k, s)
      PROVE UNCHANGED <<pending, held>>
  BY <1>8 DEF EventOpens, history, work
<1>9. ASSUME NEW k \in Keys, Configure(k) PROVE UNCHANGED <<pending, held>>
  BY <1>9 DEF Configure, history, work
<1>10. Derive \/ Finish \/ UNCHANGED vars => UNCHANGED <<pending, held>>
  BY DEF Derive, Finish, vars, history, work
<1> QED BY Steps, <1>1, <1>2, <1>3, <1>4, <1>5, <1>6, <1>7, <1>8, <1>9, <1>10

(* Every step keeps alerts on the track of their conditions.                *)
LEMMA TrackStep ==
  ASSUME TypeOK, WorkInv, TrackInv, [Next]_vars
  PROVE  TrackInv'
<1> SUFFICES ASSUME crashes' = 0, NEW j \in Keys \ ServiceKeys
             PROVE  SignalInv(j)'
  BY DEF TrackInv
<1>0. crashes = 0 /\ ~Crash
  <2>1. crashes' = crashes \/ Crash
    BY Steps DEF Collection, Collect, Evaluate, Persist, PersistDerived, Derive,
       Finish, Tick, EventOpens, Configure, vars
  <2> QED BY <2>1 DEF Crash, TypeOK
<1>1. SignalInv(j) BY <1>0 DEF TrackInv
<1>2. CASE Collection
  <2>1. pending = Quiet /\ pending' = Quiet /\ UNCHANGED <<cond, alerts, ignored>>
    BY <1>2 DEF Collection, Collect, WorkInv
  <2>2. sampled'[j] # Absent => j \in todo'
    BY <1>2 DEF Collection, Collect
  <2> QED BY <1>1, <2>1, <2>2 DEF SignalInv, Quiet, Severities
<1>3. ASSUME NEW k \in Keys, Evaluate(k) PROVE SignalInv(j)'
  <2> DEFINE asked == Condition(k, sampled[k], cond[k].active)
  <2>1. /\ pending'[k] \in Severities => cond'[k].active = pending'[k]
        /\ pending'[k] = "recover" => cond'[k].active = "none"
        /\ pending'[k] = "nothing" => cond'[k].active = cond[k].active
        /\ pending'[k] = "nothing" /\ Kind[k] = "low" => cond'[k].active = "none"
        /\ \A i \in Keys \ {k} : cond'[i] = cond[i] /\ pending'[i] = pending[i]
    BY <1>3, EvaluateEffect
  <2>2. UNCHANGED <<alerts, ignored, pc, sampled>> /\ todo' = todo \ {k} /\ pc # "idle"
    BY <1>3 DEF Evaluate
  <2>3. CASE j = k
    <3>1. pending[k] = "nothing" BY <1>3 DEF WorkInv, Evaluate
    <3>2. k \in StorageKeys => Kind[k] = "low" BY DEF StorageKeys
    <3>3. pending'[k] \in Signals BY <1>3, EvaluateType
    <3> QED BY <1>1, <2>1, <2>2, <2>3, <3>1, <3>2, <3>3
            DEF SignalInv, Signals, Severities
  <2>4. CASE j # k
    BY <1>1, <2>1, <2>2, <2>4 DEF SignalInv
  <2> QED BY <2>3, <2>4
<1>4. ASSUME NEW k \in Keys, Persist(k) PROVE SignalInv(j)'
  <2>1. /\ UNCHANGED <<cond, ignored, pc, sampled, todo>>
        /\ pending'[k] = "nothing"
        /\ alerts'[k] = IF pending[k] = "recover" THEN "none"
                        ELSE IF k \in ignored THEN alerts[k] ELSE pending[k]
        /\ \A i \in Keys \ {k} : alerts'[i] = alerts[i] /\ pending'[i] = pending[i]
    BY <1>4 DEF Persist, TypeOK, history
  <2>2. pending[k] \in Severities \/ pending[k] = "recover"
    BY <1>4 DEF Persist, TypeOK, Signals
  <2>3. ignored \subseteq StorageKeys BY DEF TypeOK
  <2>4. CASE j = k
    <3>1. cond[k].active = "none" => pending[k] = "recover"
      BY <1>1, <2>2, <2>4 DEF SignalInv, Severities
    <3>2. k \notin ignored => alerts'[k] = cond[k].active
      BY <1>1, <2>1, <2>2, <2>4 DEF SignalInv
    <3>3. pending[k] = "recover" => alerts'[k] = "none" BY <2>1
    <3> QED BY <2>1, <2>3, <2>4, <3>1, <3>2, <3>3 DEF SignalInv, Severities
  <2>5. CASE j # k BY <1>1, <2>1, <2>5 DEF SignalInv
  <2> QED BY <2>4, <2>5
<1>5. ASSUME NEW k \in Keys, PersistDerived(k) PROVE SignalInv(j)'
  <2>1. /\ UNCHANGED <<cond, ignored, pc, sampled, todo, pending>>
        /\ alerts'[k] = "none" /\ pending = Quiet
        /\ \A i \in Keys \ {k} : alerts'[i] = alerts[i]
    BY <1>5 DEF PersistDerived, TypeOK, history
  <2>2. k \in ServiceKeys \/ k \in ignored
        \/ (k \in StorageKeys /\ sampled[k] = Absent)
    BY <1>5 DEF Evidence, PersistDerived, WorkInv
  <2>3. ignored \subseteq StorageKeys BY DEF TypeOK
  <2>4. CASE j = k BY <1>1, <2>1, <2>2, <2>3, <2>4 DEF SignalInv, Quiet, Severities
  <2>5. CASE j # k BY <1>1, <2>1, <2>5 DEF SignalInv
  <2> QED BY <2>4, <2>5
<1>6. CASE Derive
  BY <1>1, <1>6 DEF SignalInv, Derive
<1>7. CASE Finish
  BY <1>1, <1>7 DEF SignalInv, Finish
<1>8. CASE Tick
  <2>1. cond'[j].active = cond[j].active
    BY <1>8 DEF Tick, TypeOK, CondStates
  <2> QED BY <1>1, <1>8, <2>1 DEF SignalInv, Tick, work
<1>9. ASSUME NEW k \in Keys, NEW s \in Severities, EventOpens(k, s) PROVE SignalInv(j)'
  <2>1. alerts'[j] = alerts[j] BY <1>9 DEF EventOpens, TypeOK
  <2> QED BY <1>1, <1>9, <2>1 DEF SignalInv, EventOpens, work
<1>10. ASSUME NEW k \in Keys, Configure(k) PROVE SignalInv(j)'
  BY <1>1, <1>10 DEF SignalInv, Configure, work
<1>11. CASE UNCHANGED vars
  BY <1>1, <1>11 DEF SignalInv, vars, work
<1> QED BY Steps, <1>0, <1>2, <1>3, <1>4, <1>5, <1>6, <1>7, <1>8, <1>9, <1>10, <1>11

(* Every step keeps the invariant.                                          *)
LEMMA IInvStep == IInv /\ [Next]_vars => IInv'
BY TypeStep, WorkStep, HeldStep, PrematureStep, TrackStep DEF IInv

(* evaluate_metric_alerts never reports a breach shorter than its hold.    *)
THEOREM PrematureSafe == Spec => []NoPrematureAlert
<1>1. IInv => NoPrematureAlert BY DEF IInv
<1> QED BY <1>1, InitIInv, IInvStep, PTL DEF Spec

(* Without crashes the table and the conditions agree when a collection    *)
(* ends, for every key it sampled.                                         *)
THEOREM AgreementSafe == Spec => []AlertTracksCondition
<1>1. IInv => AlertTracksCondition
  <2> SUFFICES ASSUME IInv, Done, crashes = 0,
                      NEW k \in Keys \ (ignored \cup ServiceKeys), sampled[k] # Absent
               PROVE  alerts[k] = cond[k].active
    BY DEF AlertTracksCondition
  <2>1. SignalInv(k) BY DEF IInv, TrackInv
  <2>2. pending[k] = "nothing" /\ pc # "idle" /\ k \notin todo
    BY DEF Done, Quiet, IInv, WorkInv
  <2> QED BY <2>1, <2>2 DEF SignalInv
<1> QED BY <1>1, InitIInv, IInvStep, PTL DEF Spec

(* Hysteresis is stable: making the level a value asks for the active one, *)
(* or clearing it when the value asks for none, does not change what the   *)
(* value asks for.                                                         *)
LEMMA ConditionStable ==
  ASSUME NEW k \in Keys, NEW v \in Int, NEW a \in Levels, NEW l,
         l = Condition(k, v, a).level
  PROVE  Condition(k, v, l).level = l
<1>1. /\ Kind[k] \in {"high", "low", "link", "service"}
      /\ WarningAt[k] \in Int /\ CriticalAt[k] \in Int /\ Hysteresis[k] \in Nat
  BY KindAssumption, ThresholdAssumption
<1>2. CASE Kind[k] = "high"
  BY <1>1, <1>2 DEF Condition, HighLevel, Asks, Levels, Severities
<1>3. CASE Kind[k] = "low"
  BY <1>1, <1>3 DEF Condition, LowLevel, Asks, Levels, Severities
<1>4. CASE Kind[k] = "link"
  BY <1>4 DEF Condition, LinkLevel, Asks
<1>5. CASE Kind[k] = "service"
  BY <1>5 DEF Condition, ServiceLevel, Asks
<1> QED BY <1>1, <1>2, <1>3, <1>4, <1>5

(* Between an evaluation and the end of its collection a confirmed breach  *)
(* is either still a pending signal or already an active row.              *)
VisibleInv(k) ==
  LET level == Condition(k, sampled[k], cond[k].active).level
  IN  pc # "idle" /\ k \notin todo \cup ignored /\ sampled[k] # Absent /\ Confirmed(k)
      => /\ held[k].level = level
         /\ \/ pending[k] = level
            \/ /\ pending[k] = "nothing" /\ alerts[k] # "none"
               /\ k \notin ServiceKeys => alerts[k] = level

(* The evaluation of a key makes its breach visible.                        *)
LEMMA VisibleEvaluate ==
  ASSUME TypeOK, WorkInv, HeldInv, HeldInv', NEW k \in Keys, Evaluate(k)
  PROVE  VisibleInv(k)'
<1> DEFINE asked == Condition(k, sampled[k], cond[k].active)
<1>1. /\ pending'[k] \in Severities => cond'[k].active = asked.level
                                     /\ pending'[k] = asked.level
      /\ pending'[k] = "recover" => cond'[k].active = "none"
      /\ pending'[k] = "nothing" => cond'[k].active = cond[k].active
      /\ pending'[k] \in Signals
      /\ cond'[k].breach = asked.level
  BY EvaluateEffect, EvaluateType DEF TypeOK
<1>2. sampled' = sampled /\ held'[k].level = asked.level
  BY DEF Evaluate, TypeOK
<1>3. /\ asked.level \in Levels /\ asked.hold \in {0, Hold}
      /\ Condition(k, sampled[k], asked.level).level = asked.level
  BY ConditionType, ConditionStable DEF TypeOK, CondStates
<1>4. CASE pending'[k] \in Severities
  BY <1>1, <1>2, <1>3, <1>4 DEF VisibleInv
<1>5. CASE pending'[k] = "recover"
  <2>1. asked.level = "none"
    <3>1. asked.level = "none" \/ Breach(k, asked) BY DEF Evaluate
    <3>2. Breach(k, asked) => pending'[k] \in {asked.level, "nothing"}
      BY DEF Breach, TypeOK
    <3> HIDE DEF asked
    <3> QED BY <3>1, <3>2, <1>3, <1>5 DEF Levels, Severities
  <2> QED BY <1>1, <1>2, <1>3, <1>5, <2>1 DEF VisibleInv, Confirmed
<1>6. CASE pending'[k] = "nothing"
  <2>1. asked.level = "none" \/ ~(cond'[k].age >= asked.hold)
    <3>1. asked.level = "none" \/ Breach(k, asked) BY DEF Evaluate
    <3>2. CASE asked.level # "none"
      <4> DEFINE age == IF cond[k].breach = asked.level THEN cond[k].age ELSE 0
      <4>1. pending'[k] = IF age >= asked.hold THEN asked.level ELSE "nothing"
        BY <3>1, <3>2 DEF Breach, TypeOK
      <4>2. cond'[k].age = age
        BY <3>2, EvaluateEffect
      <4>3. asked.level # "nothing" BY <1>3 DEF Levels, Severities
      <4> HIDE DEF asked, age
      <4> QED BY <4>1, <4>2, <4>3, <1>6
    <3> QED BY <3>2
  <2>2. held'[k].level # "none" => cond'[k].age = held'[k].age
    BY DEF HeldInv
  <2> QED BY <1>1, <1>2, <1>6, <2>1, <2>2 DEF VisibleInv, Confirmed
<1> QED BY <1>1, <1>4, <1>5, <1>6 DEF Signals

(* Every step keeps a confirmed breach visible.                             *)
LEMMA VisibleStep ==
  ASSUME IInv, \A k \in Keys : VisibleInv(k), [Next]_vars, NEW j \in Keys
  PROVE  VisibleInv(j)'
<1>0. VisibleInv(j) /\ TypeOK /\ WorkInv /\ HeldInv /\ HeldInv'
  BY IInvStep DEF IInv
<1>1. CASE Collection
  <2>1. sampled'[j] # Absent => j \in todo' BY <1>1 DEF Collection, Collect
  <2> QED BY <2>1 DEF VisibleInv
<1>2. ASSUME NEW k \in Keys, Evaluate(k) PROVE VisibleInv(j)'
  <2>1. CASE j = k BY <1>0, <1>2, <2>1, VisibleEvaluate
  <2>2. CASE j # k
    <3>1. /\ cond'[j] = cond[j] /\ pending'[j] = pending[j] /\ held'[j] = held[j]
          /\ UNCHANGED <<alerts, ignored, pc, sampled>> /\ todo' = todo \ {k}
      BY <1>0, <1>2, <2>2, EvaluateEffect DEF Evaluate, TypeOK
    <3> QED BY <1>0, <2>2, <3>1 DEF VisibleInv, Confirmed
  <2> QED BY <2>1, <2>2
<1>3. ASSUME NEW k \in Keys, Persist(k) PROVE VisibleInv(j)'
  <2>1. /\ UNCHANGED <<cond, ignored, pc, sampled, todo, held>>
        /\ pending'[k] = "nothing"
        /\ alerts'[k] = IF pending[k] = "recover" THEN "none"
                        ELSE IF k \in ignored THEN alerts[k] ELSE pending[k]
        /\ \A i \in Keys \ {k} : alerts'[i] = alerts[i] /\ pending'[i] = pending[i]
    BY <1>0, <1>3 DEF Persist, TypeOK, history
  <2>2. pending[k] # "nothing" BY <1>3 DEF Persist
  <2>3. Condition(k, sampled[k], cond[k].active).level \in Levels
    BY <1>0, ConditionType DEF TypeOK, CondStates
  <2>4. CASE j = k
    BY <1>0, <2>1, <2>2, <2>3, <2>4 DEF VisibleInv, Confirmed, Levels, Severities
  <2>5. CASE j # k BY <1>0, <2>1, <2>5 DEF VisibleInv, Confirmed
  <2> QED BY <2>4, <2>5
<1>4. ASSUME NEW k \in Keys, PersistDerived(k) PROVE VisibleInv(j)'
  <2>1. /\ UNCHANGED <<cond, ignored, pc, sampled, todo, pending, held>>
        /\ \A i \in Keys \ {k} : alerts'[i] = alerts[i]
        /\ k \in derived
    BY <1>0, <1>4 DEF PersistDerived, TypeOK, history
  <2>2. CASE j = k
    <3>1. k \in ServiceKeys \/ k \in ignored \/ sampled[k] = Absent
      BY <1>0, <2>1 DEF Evidence, WorkInv
    <3>2. k \in ServiceKeys => sampled[k] = 1
      BY <1>0, <2>1 DEF Evidence, WorkInv, ServiceKeys, StorageKeys, TypeOK, Absent
    <3>3. k \in ServiceKeys => ~Confirmed(k)
      BY <3>2 DEF Confirmed, Condition, ServiceKeys, ServiceLevel, Asks
    <3> QED BY <2>1, <2>2, <3>1, <3>3 DEF VisibleInv, Confirmed
  <2>3. CASE j # k BY <1>0, <2>1, <2>3 DEF VisibleInv, Confirmed
  <2> QED BY <2>2, <2>3
<1>5. CASE Derive \/ Finish \/ UNCHANGED vars
  BY <1>0, <1>5 DEF VisibleInv, Confirmed, Derive, Finish, vars, work, history
<1>6. CASE Crash \/ Tick \/ (\E k \in Keys : Configure(k))
  <2>1. pc' = "idle" BY <1>6 DEF Crash, Tick, Configure, work
  <2> QED BY <2>1 DEF VisibleInv
<1>7. ASSUME NEW k \in Keys, NEW s \in Severities, EventOpens(k, s) PROVE VisibleInv(j)'
  <2>1. /\ UNCHANGED <<cond, ignored, work, history>>
        /\ \/ alerts'[j] = alerts[j]
           \/ j \in ServiceKeys /\ alerts'[j] \in Severities
    BY <1>0, <1>7 DEF EventOpens, TypeOK
  <2> QED BY <1>0, <2>1 DEF VisibleInv, Confirmed, work, history, Severities
<1> QED BY Steps, <1>1, <1>2, <1>3, <1>4, <1>5, <1>6, <1>7

(* A collection that runs to its end leaves every confirmed breach it saw  *)
(* as an active row, whatever crashes lost before it.                      *)
THEOREM BreachVisible == Spec => []BreachIsVisible
<1> DEFINE Inv == IInv /\ \A k \in Keys : VisibleInv(k)
<1>1. Init => Inv
  BY InitIInv DEF Init, VisibleInv
<1>2. Inv /\ [Next]_vars => Inv'
  BY IInvStep, VisibleStep
<1>3. Inv => BreachIsVisible
  <2> SUFFICES ASSUME Inv, Done, NEW k \in Keys \ ignored,
                      sampled[k] # Absent, Confirmed(k)
               PROVE  alerts[k] # "none" /\ (k \notin ServiceKeys => alerts[k] = held[k].level)
    BY DEF BreachIsVisible
  <2>1. pending[k] = "nothing" /\ pc # "idle" /\ k \notin todo
    BY DEF Done, Quiet, IInv, WorkInv
  <2>2. Condition(k, sampled[k], cond[k].active).level \in Levels
    BY ConditionType DEF IInv, TypeOK, CondStates
  <2>3. VisibleInv(k) OBVIOUS
  <2> QED BY <2>1, <2>2, <2>3 DEF VisibleInv, Levels, Severities
<1> HIDE DEF Inv
<1> QED BY <1>1, <1>2, <1>3, PTL DEF Spec

(* A clean scan's evidence against an alert is derived before any signal   *)
(* is persisted, and no signal that is persisted since opens that alert:   *)
(* an absent filesystem has none, an excluded mount point's is dropped.    *)
ClosingInv ==
  pc = "persist" /\ clean => \A k \in StorageKeys :
    sampled[k] = Absent \/ k \in ignored => alerts[k] = "none" \/ k \in derived

(* Every step keeps what closes an alert tied to its evidence.              *)
LEMMA ClosingStep == ASSUME TypeOK, WorkInv, ClosingInv, [Next]_vars PROVE ClosingInv'
<1> SUFFICES ASSUME pc' = "persist", clean', NEW j \in StorageKeys,
                    sampled'[j] = Absent \/ j \in ignored'
             PROVE  alerts'[j] = "none" \/ j \in derived'
  BY DEF ClosingInv
<1>0. j \in Keys /\ j \notin ServiceKeys
  BY DEF StorageKeys, ServiceKeys
<1>a. ASSUME pc = "persist", clean, sampled[j] = Absent \/ j \in ignored
      PROVE  alerts[j] = "none" \/ j \in derived
  BY <1>a DEF ClosingInv
<1>1. CASE Collection \/ Finish \/ Crash \/ Tick \/ (\E k \in Keys : Evaluate(k) \/ Configure(k))
  BY <1>1 DEF Collection, Collect, Finish, Crash, Tick, Evaluate, Configure, work
<1>2. CASE Derive
  BY <1>0, <1>2 DEF Derive
<1>3. ASSUME NEW k \in Keys, Persist(k) PROVE alerts'[j] = "none" \/ j \in derived'
  <2>1. /\ pc = "persist" /\ clean /\ derived' = derived
        /\ sampled' = sampled /\ ignored' = ignored
    BY <1>3 DEF Persist
  <2>2. alerts[j] = "none" \/ j \in derived
    BY <1>a, <2>1
  <2>3. CASE j # k
    <3>1. alerts'[j] = alerts[j]
      BY <1>0, <1>3, <2>3 DEF Persist, TypeOK
    <3> QED BY <2>1, <2>2, <3>1
  <2>4. CASE j = k
    <3>1. sampled[j] # Absent
      BY <1>0, <1>3, <2>4 DEF Persist, WorkInv
    <3>2. j \in ignored
      BY <2>1, <3>1
    <3>3. alerts'[j] = "none" \/ alerts'[j] = alerts[j]
      BY <1>0, <1>3, <2>4, <3>2 DEF Persist, TypeOK
    <3> QED BY <2>1, <2>2, <3>3
  <2> QED BY <2>3, <2>4
<1>4. ASSUME NEW k \in Keys, PersistDerived(k) PROVE alerts'[j] = "none" \/ j \in derived'
  <2>1. /\ pc = "persist" /\ clean /\ derived' = derived \ {k}
        /\ sampled' = sampled /\ ignored' = ignored /\ alerts' = [alerts EXCEPT ![k] = "none"]
    BY <1>4 DEF PersistDerived
  <2>2. alerts[j] = "none" \/ j \in derived
    BY <1>a, <2>1
  <2> QED BY <1>0, <2>1, <2>2 DEF TypeOK
<1>5. ASSUME NEW k \in Keys, NEW s \in Severities, EventOpens(k, s)
      PROVE  alerts'[j] = "none" \/ j \in derived'
  <2>1. alerts'[j] = alerts[j] /\ UNCHANGED <<ignored, work>>
    BY <1>0, <1>5 DEF EventOpens, TypeOK
  <2> QED BY <1>a, <2>1 DEF work
<1>6. CASE UNCHANGED vars
  BY <1>a, <1>6 DEF vars, work
<1> QED BY Steps, <1>1, <1>2, <1>3, <1>4, <1>5, <1>6

(* A clean collection leaves no alert open of a filesystem that is gone or *)
(* of an excluded mount point, whatever it persisted before the derived    *)
(* recoveries (_derived_recoveries, _persist_signals).                     *)
THEOREM EvidenceCloses == Spec => []OtherEvidenceCloses
<1>1. Init => ClosingInv
  BY DEF Init, ClosingInv
<1>2. IInv /\ ClosingInv /\ [Next]_vars => ClosingInv'
  BY ClosingStep DEF IInv
<1>3. ClosingInv => OtherEvidenceCloses
  BY DEF ClosingInv, OtherEvidenceCloses, Done
<1> QED BY <1>1, <1>2, <1>3, InitIInv, IInvStep, PTL DEF Spec

(* The samples a condition has counted are healthy ones in a row, and a    *)
(* link or a service is either up or down.                                 *)
SampleInv ==
  \A k \in Keys : /\ Kind[k] \in {"link", "service"} => sampled[k] \in {0, 1}
                  /\ cond[k].samples <= good[k]

(* What a healthy evaluation does: it counts in step with the samples, and *)
(* recovers only an active level.                                          *)
LEMMA EvaluateSamples ==
  ASSUME TypeOK, SampleInv, NEW k \in Keys, Evaluate(k)
  PROVE  /\ cond'[k].samples <= good'[k]
         /\ pending'[k] = "recover" =>
              /\ cond[k].active # "none"
              /\ Condition(k, sampled[k], cond[k].active).level = "none"
              /\ good'[k] >= RequiredSamples(k)
<1> DEFINE asked == Condition(k, sampled[k], cond[k].active)
           c     == cond[k]
<1>0. /\ asked.level \in Levels /\ c \in CondStates /\ good[k] \in 0..2
      /\ c.samples \in 0..2 /\ c.samples <= good[k] /\ RequiredSamples(k) \in {1, 2}
  BY ConditionType DEF TypeOK, CondStates, SampleInv, RequiredSamples
<1>1. CASE asked.level # "none"
  <2> DEFINE age   == IF c.breach = asked.level THEN c.age ELSE 0
             fires == age >= asked.hold
             new   == [active  |-> IF fires THEN asked.level ELSE c.active,
                       breach  |-> asked.level, age |-> age, samples |-> 0]
             sig   == IF fires THEN asked.level ELSE "nothing"
  <2>1. cond' = [cond EXCEPT ![k] = new] /\ pending' = [pending EXCEPT ![k] = sig]
    BY <1>1 DEF Evaluate, Breach
  <2>2. cond'[k] = new /\ pending'[k] = sig
    BY <2>1 DEF TypeOK
  <2>3. cond'[k].samples = 0
    BY <2>2
  <2>4. good'[k] = 0
    BY <1>1 DEF Evaluate, TypeOK
  <2>5. sig # "recover"
    <3> HIDE DEF fires, asked
    <3> QED BY <1>0 DEF Levels, Severities
  <2> QED BY <2>2, <2>3, <2>4, <2>5
<1>2. CASE asked.level = "none"
  <2> DEFINE n     == c.samples + 1
             fires == c.active # "none" /\ n >= RequiredSamples(k)
             left  == IF fires THEN 0 ELSE IF c.active # "none" THEN n ELSE c.samples
             new   == [active  |-> IF fires THEN "none" ELSE c.active,
                       breach  |-> "none", age |-> 0, samples |-> left]
             sig   == IF fires THEN "recover" ELSE "nothing"
  <2>1. cond' = [cond EXCEPT ![k] = new] /\ pending' = [pending EXCEPT ![k] = sig]
    BY <1>2 DEF Evaluate, Healthy
  <2>2. cond'[k] = new /\ pending'[k] = sig
    BY <2>1 DEF TypeOK
  <2>3. cond'[k].samples = left
    BY <2>2
  <2>4. good'[k] = IF good[k] < 2 THEN good[k] + 1 ELSE 2
    BY <1>2 DEF Evaluate, TypeOK
  <2>5. left <= good'[k]
    BY <1>0, <2>4
  <2>6. fires => good'[k] >= RequiredSamples(k)
    BY <1>0, <2>4
  <2>7. pending'[k] = "recover" => fires
    BY <2>2
  <2> QED BY <1>2, <2>3, <2>5, <2>6, <2>7
<1> QED BY <1>1, <1>2

(* At the start nothing was sampled.                                        *)
LEMMA InitSamples == Init => SampleInv
<1> SUFFICES ASSUME Init, NEW k \in Keys
             PROVE  /\ Kind[k] \in {"link", "service"} => sampled[k] \in {0, 1}
                    /\ cond[k].samples <= good[k]
  BY DEF SampleInv
<1>1. sampled[k] = (IF Kind[k] = "low" THEN Absent ELSE 1) /\ cond[k].samples = 0 /\ good[k] = 0
  BY DEF Init, NoCondition
<1> QED BY <1>1

(* Every step keeps the conditions on what was sampled.                     *)
LEMMA SampleStep == ASSUME TypeOK, SampleInv, [Next]_vars PROVE SampleInv'
<1>1. CASE Collection
  <2>1. PICK values \in [Keys -> 0..MaxValue \cup {Absent}] :
          (\A k \in Keys : values[k] \in ValuesOf(k)) /\ sampled' = values
    BY <1>1 DEF Collection, Collect
  <2>2. UNCHANGED <<cond, good>>
    BY <1>1 DEF Collection, Collect, history
  <2>3. \A k \in Keys : Kind[k] \in {"link", "service"} => sampled'[k] \in {0, 1}
    BY <2>1 DEF ValuesOf
  <2> QED BY <2>2, <2>3 DEF SampleInv
<1>2. ASSUME NEW k \in Keys, Evaluate(k) PROVE SampleInv'
  <2>1. cond'[k].samples <= good'[k]
    BY <1>2, EvaluateSamples
  <2>2. sampled' = sampled /\ \A j \in Keys \ {k} : cond'[j] = cond[j] /\ good'[j] = good[j]
    BY <1>2, EvaluateEffect DEF Evaluate, TypeOK
  <2> QED BY <2>1, <2>2 DEF SampleInv
<1>3. CASE Tick
  <2>1. \A k \in Keys : cond'[k].samples = cond[k].samples
    BY <1>3 DEF Tick, TypeOK, CondStates
  <2> QED BY <1>3, <2>1 DEF SampleInv, Tick, work
<1>4. CASE UNCHANGED <<cond, good, sampled>>
  BY <1>4 DEF SampleInv
<1>5. [Next]_vars => \/ Collection \/ (\E k \in Keys : Evaluate(k)) \/ Tick
                     \/ UNCHANGED <<cond, good, sampled>>
  BY DEF Next, Persist, PersistDerived, Derive, Finish, Crash, EventOpens, Configure, vars, work,
    history
<1> QED BY <1>1, <1>2, <1>3, <1>4, <1>5

(* A value that asks for no level has crossed the hysteresis of the level  *)
(* that was active.                                                        *)
LEMMA HealthyHasCrossed ==
  ASSUME NEW k \in Keys, NEW v \in Int, NEW a \in Severities, Condition(k, v, a).level = "none",
         Kind[k] \in {"link", "service"} => v \in {0, 1}
  PROVE  Crossed(k, v, a)
<1>1. /\ Kind[k] \in {"high", "low", "link", "service"}
      /\ WarningAt[k] \in Int /\ CriticalAt[k] \in Int /\ Hysteresis[k] \in Nat
  BY KindAssumption, ThresholdAssumption
<1>2. CASE Kind[k] = "high"
  BY <1>1, <1>2 DEF Condition, HighLevel, Asks, Severities, Crossed
<1>3. CASE Kind[k] = "low"
  BY <1>1, <1>3 DEF Condition, LowLevel, Asks, Severities, Crossed
<1>4. CASE Kind[k] \in {"link", "service"}
  <2>1. v = 1
    BY <1>4 DEF Condition, LinkLevel, ServiceLevel, Asks
  <2> QED BY <1>4, <2>1 DEF Crossed
<1> QED BY <1>1, <1>2, <1>3, <1>4

(* A metric never signals a recovery before its value has crossed the      *)
(* hysteresis of the active level, nor before the required number of       *)
(* healthy samples in a row (evaluate_metric_alerts).                      *)
THEOREM RecoverySafe == Spec => RecoveryIsEarned
<1>1. ASSUME TypeOK, SampleInv, [Next]_vars, NEW k \in Keys,
             pending[k] # "recover", pending'[k] = "recover"
      PROVE  /\ Crossed(k, sampled[k], cond[k].active)
             /\ good'[k] >= RequiredSamples(k)
  <2>1. Evaluate(k)
    <3>1. ASSUME NEW j \in Keys, Evaluate(j) PROVE j = k
      BY <1>1, <3>1, EvaluateEffect
    <3>2. (\E j \in Keys : Evaluate(j)) \/ pending' = Quiet \/ pending' = pending
          \/ \E j \in Keys : pending' = [pending EXCEPT ![j] = "nothing"]
      BY <1>1 DEF Next, Collection, Collect, Persist, PersistDerived, Derive, Finish, Crash, Tick,
        EventOpens, Configure, vars, work, history
    <3>3. pending' # Quiet /\ pending' # pending
          /\ \A j \in Keys : pending' # [pending EXCEPT ![j] = "nothing"]
      BY <1>1 DEF Quiet, TypeOK
    <3> QED BY <3>1, <3>2, <3>3
  <2>2. /\ cond[k].active # "none" /\ Condition(k, sampled[k], cond[k].active).level = "none"
        /\ good'[k] >= RequiredSamples(k)
    BY <1>1, <2>1, EvaluateSamples
  <2>3. sampled[k] \in Int /\ cond[k].active \in Severities
        /\ (Kind[k] \in {"link", "service"} => sampled[k] \in {0, 1})
    BY <1>1, <2>2 DEF TypeOK, CondStates, Levels, SampleInv
  <2> QED BY <2>2, <2>3, HealthyHasCrossed
<1>2. TypeOK /\ SampleInv /\ [Next]_vars =>
        [\A k \in Keys : pending[k] # "recover" /\ pending'[k] = "recover" =>
           /\ Crossed(k, sampled[k], cond[k].active)
           /\ good'[k] >= RequiredSamples(k)]_vars
  BY <1>1
<1>3. TypeOK /\ SampleInv /\ [Next]_vars => SampleInv'
  BY SampleStep
<1> QED BY <1>2, <1>3, InitSamples, TypeCorrect, PTL DEF Spec, RecoveryIsEarned
=============================================================================
