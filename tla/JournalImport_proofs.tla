------------------------- MODULE JournalImport_proofs -------------------------
(***************************************************************************)
(* What JournalImport.tla guarantees for every set of keys, every window   *)
(* and lookback, every clock (the gaps between stamps may be negative) and *)
(* every bound: that the daemon loses no entry and no alert whenever it    *)
(* dies, that a backfill only skips what is in the table, and that a first *)
(* installation, however often its backfill dies and is run again, counts  *)
(* every entry once, coalesces what it should and reopens no alert.        *)
(***************************************************************************)
EXTENDS JournalImport, FiniteSetTheorems, SequenceTheorems, WellFoundedInduction, TLAPS

-----------------------------------------------------------------------------
(* Finite sets of rows: the newest and the oldest of a set of numbers, and   *)
(* the total of a count over a set of rows, which does not depend on the     *)
(* order it is taken in.                                                     *)

(* The sum of the counts of the rows S of a table t.                       *)
Total(t, S) == MapThenSumSet(LAMBDA r : t[r].count, S)

(* A family of subsets of a finite set has a member without a smaller one: *)
(* the form of induction over finite sets used below.                      *)
LEMMA SmallestSubset ==
  ASSUME NEW S, IsFiniteSet(S), NEW B \in SUBSET (SUBSET S), B # {}
  PROVE  \E T \in B : \A U \in B : U \subseteq T => U = T
<1>1. IsWellFoundedOn(StrictSubsetOrdering(S), SUBSET S)
  BY FS_StrictSubsetOrderingWellFounded, FS_FiniteSubsetsOfFinite
<1>2. PICK T \in B : \A U \in B : ~(<<U, T>> \in StrictSubsetOrdering(S))
  BY <1>1, WFMin
<1>3. ASSUME NEW U \in B, U \subseteq T, U # T PROVE FALSE
  <2>1. <<U, T>> \in (SUBSET S) \X (SUBSET S)
    OBVIOUS
  <2> QED BY <1>2, <1>3, <2>1 DEF StrictSubsetOrdering
<1> QED BY <1>3

(* A finite set of integers that is not empty has a greatest element.      *)
LEMMA GreatestExists ==
  ASSUME NEW S, IsFiniteSet(S), S # {}, S \subseteq Int
  PROVE  \E x \in S : \A y \in S : x >= y
<1> DEFINE Has(T) == \E x \in T : \A y \in T : x >= y
           B == {T \in SUBSET S : T # {} /\ ~Has(T)}
<1> SUFFICES ASSUME ~Has(S) PROVE FALSE
  OBVIOUS
<1>1. B \in SUBSET (SUBSET S) /\ B # {} /\ IsFiniteSet(S)
  OBVIOUS
<1>2. PICK T \in B : \A U \in B : U \subseteq T => U = T
  <2> HIDE DEF B
  <2> QED BY ONLY <1>1, SmallestSubset
<1>3. PICK x \in T : TRUE
  OBVIOUS
<1>4. T \ {x} # T /\ T \ {x} \subseteq T
  BY <1>3
<1>5. T \ {x} \notin B
  BY <1>2, <1>4
<1>6. CASE T \ {x} = {}
  BY <1>3, <1>6
<1>7. CASE T \ {x} # {}
  <2>1. T \ {x} \in SUBSET S
    OBVIOUS
  <2>2. PICK z \in T \ {x} : \A y \in T \ {x} : z >= y
    BY <1>5, <1>7, <2>1
  <2>3. z \in T /\ x \in Int /\ z \in Int /\ \A y \in T : y \in Int
    OBVIOUS
  <2>4. CASE z >= x
    <3>1. \A y \in T : z >= y
      BY <2>2, <2>4
    <3> QED BY <2>3, <3>1
  <2>5. CASE ~(z >= x)
    <3>1. \A y \in T : x >= y
      BY <2>2, <2>3, <2>5
    <3> QED BY <1>3, <3>1
  <2> QED BY <2>4, <2>5
<1> QED BY <1>6, <1>7

(* Max and Min of a finite set of integers are elements of it that bound it. *)
LEMMA MaxFacts ==
  ASSUME NEW S, IsFiniteSet(S), S # {}, S \subseteq Int
  PROVE  Max(S) \in S /\ \A y \in S : y <= Max(S)
<1>1. \E x \in S : \A y \in S : x >= y
  BY GreatestExists
<1>2. Max(S) \in S /\ \A y \in S : Max(S) >= y
  BY <1>1 DEF Max
<1>3. \A y \in S : y \in Int
  OBVIOUS
<1> QED BY <1>2, <1>3

(* The least element of a finite set of integers.                           *)
LEMMA MinFacts ==
  ASSUME NEW S, IsFiniteSet(S), S # {}, S \subseteq Int
  PROVE  Min(S) \in S /\ \A y \in S : Min(S) <= y
<1> DEFINE N == {-x : x \in S}
<1>1. IsFiniteSet(N)
  <2> DEFINE f == [x \in S |-> -x]
  <2>1. f \in Surjection(S, N)
    BY DEF Surjection
  <2> QED BY <2>1, FS_Surjection
<1>2. N # {} /\ N \subseteq Int
  <2>1. \A x \in S : x \in Int
    OBVIOUS
  <2>2. \A y \in N : y \in Int
    BY <2>1
  <2> QED BY <2>2
<1>3. PICK m \in N : \A y \in N : m >= y
  <2> HIDE DEF N
  <2> QED BY <1>1, <1>2, GreatestExists
<1>4. PICK x \in S : m = -x
  OBVIOUS
<1>5. ASSUME NEW y \in S PROVE x <= y
  <2>1. -x >= -y
    BY <1>3, <1>4
  <2> QED BY <2>1
<1>6. Min(S) \in S /\ \A y \in S : Min(S) <= y
  BY <1>5 DEF Min
<1> QED BY <1>6

-----------------------------------------------------------------------------
(* One row of a set, as the fold picks it.                                 *)
One(s) == CHOOSE x \in s : TRUE

(* The fold's own definition of the total.                                 *)
LEMMA TotalUnfolds ==
  ASSUME NEW t, NEW S
  PROVE  Total(t, S) = (CHOOSE it : it = [s \in SUBSET S |->
                          IF s = {} THEN 0 ELSE t[One(s)].count + it[s \ {One(s)}]])[S]
BY DEF Total, MapThenSumSet, MapThenFoldSet, One

(* The element that a total takes first.                                    *)
LEMMA OneFacts == ASSUME NEW s, s # {} PROVE One(s) \in s /\ s \ {One(s)} # s
BY DEF One

(* The recursion of the fold is well-founded on a finite set: the total is *)
(* that of one row and of the rest.                                        *)
LEMMA TotalStep ==
  ASSUME NEW t, NEW S, IsFiniteSet(S)
  PROVE  Total(t, S) = IF S = {} THEN 0 ELSE t[One(S)].count + Total(t, S \ {One(S)})
<1> DEFINE Rec(s) == IF s = {} THEN 0 ELSE t[One(s)].count + Total(t, s \ {One(s)})
           B == {T \in SUBSET S : Total(t, T) # Rec(T)}
<1> SUFFICES ASSUME Total(t, S) # Rec(S) PROVE FALSE
  OBVIOUS
<1>1. B \in SUBSET (SUBSET S) /\ S \in B
  OBVIOUS
<1>2. PICK T \in B : \A U \in B : U \subseteq T => U = T
  <2> HIDE DEF B
  <2> QED BY <1>1, SmallestSubset
<1> DEFINE G == [s \in SUBSET T |-> Rec(s)]
           Is(it) == it = [s \in SUBSET T |->
                            IF s = {} THEN 0 ELSE t[One(s)].count + it[s \ {One(s)}]]
<1>3. ASSUME NEW U \in SUBSET T, U # T PROVE Total(t, U) = Rec(U)
  BY <1>2, <1>3
<1>4. ASSUME NEW s \in SUBSET T, s # {} PROVE G[s \ {One(s)}] = Total(t, s \ {One(s)})
  <2>1. s \ {One(s)} \in SUBSET T /\ s \ {One(s)} # T
    BY <1>4, OneFacts
  <2>2. Total(t, s \ {One(s)}) = Rec(s \ {One(s)})
    BY <1>3, <2>1
  <2> HIDE DEF Rec
  <2> QED BY <2>1, <2>2
<1>5. Is(G)
  <2>1. \A s \in SUBSET T :
          G[s] = IF s = {} THEN 0 ELSE t[One(s)].count + G[s \ {One(s)}]
    BY <1>4
  <2>2. G = [s \in SUBSET T |-> G[s]]
    OBVIOUS
  <2> HIDE DEF G
  <2> QED BY <2>1, <2>2
<1> DEFINE it == CHOOSE f : Is(f)
<1>6. Is(it) /\ Total(t, T) = it[T]
  <2>1. Total(t, T) = it[T]
    BY TotalUnfolds
  <2>2. Is(it)
    <3> HIDE DEF G, Is
    <3> QED BY <1>5
  <2> QED BY <2>1, <2>2
<1> HIDE DEF it, G
<1>7. \A s \in SUBSET T : it[s] = G[s]
  <2> DEFINE D == {s \in SUBSET T : it[s] # G[s]}
  <2> SUFFICES ASSUME D # {} PROVE FALSE
    OBVIOUS
  <2>1. D \in SUBSET (SUBSET T) /\ IsFiniteSet(T)
    <3>1. T \in SUBSET S
      OBVIOUS
    <3> QED BY <3>1, FS_Subset
  <2>2. PICK s \in D : \A u \in D : u \subseteq s => u = s
    <3> HIDE DEF D
    <3> QED BY <2>1, SmallestSubset
  <2>3. s # {} => it[s \ {One(s)}] = G[s \ {One(s)}]
    <3>1. s # {} => s \ {One(s)} \notin D
      BY <2>2, OneFacts
    <3>2. s \ {One(s)} \in SUBSET T
      OBVIOUS
    <3> QED BY <3>1, <3>2
  <2>4. /\ it[s] = IF s = {} THEN 0 ELSE t[One(s)].count + it[s \ {One(s)}]
        /\ G[s] = IF s = {} THEN 0 ELSE t[One(s)].count + G[s \ {One(s)}]
    BY <1>5, <1>6
  <2> QED BY <2>3, <2>4
<1>8. G[T] = Rec(T)
  BY DEF G
<1> QED BY <1>6, <1>7, <1>8

(* The total over no rows is 0.                                             *)
LEMMA TotalEmpty == ASSUME NEW t PROVE Total(t, {}) = 0
BY TotalStep, FS_EmptySet

(* The total of counts that are natural numbers is one.                    *)
LEMMA TotalNat ==
  ASSUME NEW t, NEW S, IsFiniteSet(S), \A r \in S : t[r].count \in Nat
  PROVE  Total(t, S) \in Nat
<1> DEFINE B == {T \in SUBSET S : Total(t, T) \notin Nat}
<1> SUFFICES ASSUME Total(t, S) \notin Nat PROVE FALSE
  OBVIOUS
<1>1. B \in SUBSET (SUBSET S) /\ B # {} /\ IsFiniteSet(S)
  OBVIOUS
<1>2. PICK T \in B : \A U \in B : U \subseteq T => U = T
  <2> HIDE DEF B
  <2> QED BY ONLY <1>1, SmallestSubset
<1>3. T \in SUBSET S /\ IsFiniteSet(T)
  BY FS_Subset
<1>4. CASE T = {}
  BY <1>4, TotalEmpty
<1>5. CASE T # {}
  <2>1. One(T) \in T /\ T \ {One(T)} # T
    BY <1>5, OneFacts
  <2>2. Total(t, T \ {One(T)}) \in Nat
    BY <1>2, <1>3, <2>1
  <2>3. t[One(T)].count \in Nat
    BY <1>3, <2>1
  <2>4. Total(t, T) = t[One(T)].count + Total(t, T \ {One(T)})
    BY <1>3, <1>5, TotalStep
  <2> QED BY <2>2, <2>3, <2>4
<1> QED BY <1>4, <1>5

(* Two tables that count the same for every row of a set have one total.   *)
LEMMA TotalSame ==
  ASSUME NEW t, NEW u, NEW S, IsFiniteSet(S), \A r \in S : t[r].count = u[r].count
  PROVE  Total(t, S) = Total(u, S)
<1> DEFINE B == {T \in SUBSET S : Total(t, T) # Total(u, T)}
<1> SUFFICES ASSUME Total(t, S) # Total(u, S) PROVE FALSE
  OBVIOUS
<1>1. B \in SUBSET (SUBSET S) /\ B # {} /\ IsFiniteSet(S)
  OBVIOUS
<1>2. PICK T \in B : \A U \in B : U \subseteq T => U = T
  <2> HIDE DEF B
  <2> QED BY ONLY <1>1, SmallestSubset
<1>3. T \in SUBSET S /\ IsFiniteSet(T)
  BY FS_Subset
<1>4. CASE T = {}
  BY <1>4, TotalEmpty
<1>5. CASE T # {}
  <2>1. One(T) \in T /\ T \ {One(T)} # T
    BY <1>5, OneFacts
  <2>2. Total(t, T \ {One(T)}) = Total(u, T \ {One(T)})
    BY <1>2, <1>3, <2>1
  <2>3. t[One(T)].count = u[One(T)].count
    BY <1>3, <2>1
  <2>4. /\ Total(t, T) = t[One(T)].count + Total(t, T \ {One(T)})
        /\ Total(u, T) = u[One(T)].count + Total(u, T \ {One(T)})
    BY <1>3, <1>5, TotalStep
  <2> QED BY <2>2, <2>3, <2>4
<1> QED BY <1>4, <1>5

(* Any row may be counted first.                                           *)
LEMMA TotalRemove ==
  ASSUME NEW t, NEW S, IsFiniteSet(S), \A r \in S : t[r].count \in Nat, NEW x \in S
  PROVE  Total(t, S) = t[x].count + Total(t, S \ {x})
<1> DEFINE First(T, y) == Total(t, T) = t[y].count + Total(t, T \ {y})
           B == {T \in SUBSET S : \E y \in T : ~First(T, y)}
<1> SUFFICES ASSUME ~First(S, x) PROVE FALSE
  OBVIOUS
<1>1. B \in SUBSET (SUBSET S) /\ B # {} /\ IsFiniteSet(S)
  OBVIOUS
<1>2. PICK T \in B : \A U \in B : U \subseteq T => U = T
  <2> HIDE DEF B
  <2> QED BY ONLY <1>1, SmallestSubset
<1>3. T \in SUBSET S /\ IsFiniteSet(T)
  BY FS_Subset
<1>4. PICK y \in T : ~First(T, y)
  OBVIOUS
<1> DEFINE c == One(T)
<1>5. c \in T /\ First(T, c)
  BY <1>3, OneFacts, TotalStep
<1>6. y # c
  BY <1>4, <1>5
<1>7. ASSUME NEW U \in SUBSET T, U # T, NEW z \in U PROVE First(U, z)
  BY <1>2, <1>3, <1>7
<1> HIDE DEF B, c
<1>8. First(T \ {c}, y) /\ First(T \ {y}, c)
  <2>1. /\ T \ {c} \in SUBSET T /\ T \ {c} # T /\ y \in T \ {c}
        /\ T \ {y} \in SUBSET T /\ T \ {y} # T /\ c \in T \ {y}
    BY <1>5, <1>6
  <2> HIDE DEF First
  <2> QED BY <1>7, <2>1
<1>9. (T \ {c}) \ {y} = (T \ {y}) \ {c}
  OBVIOUS
<1> DEFINE rest == Total(t, (T \ {y}) \ {c})
<1>10. /\ t[c].count \in Nat /\ t[y].count \in Nat /\ rest \in Nat
  <2>1. (T \ {y}) \ {c} \in SUBSET S /\ c \in S /\ y \in S
    BY <1>3, <1>5
  <2>2. IsFiniteSet((T \ {y}) \ {c})
    BY <2>1, FS_Subset
  <2>3. \A r \in (T \ {y}) \ {c} : t[r].count \in Nat
    BY <2>1
  <2> QED BY <2>1, <2>2, <2>3, TotalNat
<1>11. /\ Total(t, T \ {c}) = t[y].count + rest
       /\ Total(t, T \ {y}) = t[c].count + rest
       /\ Total(t, T) = t[c].count + Total(t, T \ {c})
  BY <1>5, <1>8, <1>9
<1> HIDE DEF rest
<1>12. Total(t, T) = t[y].count + Total(t, T \ {y})
  BY <1>10, <1>11
<1> QED BY <1>4, <1>12

(* A row that joins a set adds its count, and one that counts one more     *)
(* adds one.                                                               *)
LEMMA TotalAdd ==
  ASSUME NEW t, NEW S, IsFiniteSet(S), NEW x, x \notin S, \A r \in S \cup {x} : t[r].count \in Nat
  PROVE  Total(t, S \cup {x}) = t[x].count + Total(t, S)
<1>1. IsFiniteSet(S \cup {x}) /\ x \in S \cup {x} /\ (S \cup {x}) \ {x} = S
  BY FS_AddElement
<1> DEFINE U == S \cup {x}
<1>2. IsFiniteSet(U) /\ x \in U /\ U \ {x} = S /\ \A r \in U : t[r].count \in Nat
  BY <1>1
<1> HIDE DEF U
<1>3. Total(t, U) = t[x].count + Total(t, U \ {x})
  BY <1>2, TotalRemove
<1> QED BY <1>2, <1>3 DEF U

(* One more occurrence in one row is one more in the total.                 *)
LEMMA TotalOneMore ==
  ASSUME NEW t, NEW u, NEW S, IsFiniteSet(S), NEW x \in S,
         \A r \in S : t[r].count \in Nat,
         \A r \in S : u[r].count = IF r = x THEN t[r].count + 1 ELSE t[r].count
  PROVE  Total(u, S) = Total(t, S) + 1
<1>1. IsFiniteSet(S \ {x}) /\ \A r \in S \ {x} : u[r].count = t[r].count
  BY FS_Subset
<1>2. Total(u, S \ {x}) = Total(t, S \ {x})
  BY <1>1, TotalSame
<1>3. \A r \in S : u[r].count \in Nat
  OBVIOUS
<1>4. Total(t, S) = t[x].count + Total(t, S \ {x}) /\ Total(u, S) = u[x].count + Total(u, S \ {x})
  BY <1>3, TotalRemove
<1>5. Total(t, S \ {x}) \in Nat /\ t[x].count \in Nat /\ u[x].count = t[x].count + 1
  BY <1>1, TotalNat
<1> QED BY <1>2, <1>4, <1>5

(* The total over one row is its count.                                     *)
LEMMA TotalOfOne ==
  ASSUME NEW t, NEW x, t[x].count \in Nat
  PROVE  Total(t, {x}) = t[x].count
<1>1. IsFiniteSet({}) /\ {} \cup {x} = {x} /\ \A r \in {} \cup {x} : t[r].count \in Nat
  BY FS_EmptySet
<1>2. Total(t, {} \cup {x}) = t[x].count + Total(t, {})
  BY <1>1, TotalAdd
<1> QED BY <1>1, <1>2, TotalEmpty

-----------------------------------------------------------------------------
(* The shape of the variables, part by part.  Besides the type invariant   *)
(* it says that the table is a finite function, which the row number of    *)
(* a new row and the totals of counts depend on, and that a daemon or a    *)
(* backfill with an entry in hand has one.                                 *)
Entry  == [key : Keys, time : Int]
RowRec == [key : Keys, count : Nat, first : Int, last : Int, entry : Nat]
Stages == {"over", "query", "check", "insert", "mark"}

JournalShape == journal \in Seq(Entry)

TableShape ==
  /\ rows = [r \in DOMAIN rows |-> rows[r]]
  /\ IsFiniteSet(DOMAIN rows)
  /\ \A r \in DOMAIN rows : r \in Nat /\ r # 0 /\ rows[r] \in RowRec /\ rows[r].entry \in Entries
  /\ dedup \in [Keys -> [row : Nat, last : Int]]

DaemonShape ==
  /\ live \in [pc : {"down", "read", "alert", "mark"}, at : Nat]
  /\ live.at <= Len(journal)
  /\ live.pc \in {"alert", "mark"} => live.at >= 1
  /\ cursor \in Nat /\ cursor <= Len(journal)

FillShape ==
  /\ fill \in [pc : Stages, at : Nat, upto : Nat, signals : Seq(Nat)]
  /\ fill.at <= fill.upto /\ fill.upto <= Len(journal)
  /\ fill.pc \in {"insert", "mark"} => fill.at >= 1
  /\ \A m \in 1..Len(fill.signals) : fill.signals[m] \in Entries

SetShape ==
  /\ \A i \in seen : i \in Entries
  /\ \A i \in imported : i \in Entries
  /\ \A i \in signalled : i \in Entries
  /\ \A i \in passed : i \in Entries
  /\ \A k \in alerts : k \in AlertKeys

Shape == JournalShape /\ TableShape /\ DaemonShape /\ FillShape /\ SetShape

(* Initially nothing is stored and nothing runs.                           *)
LEMMA InitShape == Init => Shape
<1> SUFFICES ASSUME Init PROVE Shape
  OBVIOUS
<1> USE DEF Init
<1>1. JournalShape
  BY DEF JournalShape
<1>2. TableShape
  <2>1. DOMAIN rows = {}
    OBVIOUS
  <2>2. rows = [r \in DOMAIN rows |-> rows[r]]
    OBVIOUS
  <2>3. dedup \in [Keys -> [row : Nat, last : Int]]
    OBVIOUS
  <2> QED BY <2>1, <2>2, <2>3, FS_EmptySet DEF TableShape
<1>3. DaemonShape
  BY DEF DaemonShape, Down
<1>4. FillShape
  BY DEF FillShape, Over, Stages
<1>5. SetShape
  BY DEF SetShape
<1> QED BY <1>1, <1>2, <1>3, <1>4, <1>5 DEF Shape

(* The journal only grows.                                                 *)
Grows == /\ JournalShape'
         /\ Len(journal') \in Nat /\ Len(journal) \in Nat /\ Len(journal') >= Len(journal)
         /\ \A i \in Entries : i \in Entries' /\ journal'[i] = journal[i]

(* Entries are appended to the journal and never change.                    *)
LEMMA JournalGrows == ASSUME JournalShape, [Next]_vars PROVE Grows
<1> USE DEF JournalShape
<1>1. CASE \E k \in Keys, gap \in Gaps : Log(k, gap)
  <2>1. PICK k \in Keys, gap \in Gaps : Log(k, gap)
    BY <1>1
  <2>2. gap \in Int
    BY WindowAssumption
  <2>3. Latest \in Int
    <3>1. CASE journal = <<>>
      BY <3>1 DEF Latest
    <3>2. CASE journal # <<>>
      <4>1. journal[Len(journal)] \in Entry
        BY <3>2
      <4> QED BY <3>2, <4>1 DEF Latest, Entry
    <3> QED BY <3>1, <3>2
  <2> DEFINE e == [key |-> k, time |-> Latest + gap]
  <2>4. e \in Entry
    BY <2>2, <2>3 DEF Entry
  <2>5. journal' = Append(journal, e)
    BY <2>1 DEF Log
  <2> HIDE DEF e
  <2>6. Len(journal') = Len(journal) + 1 /\ \A i \in 1..Len(journal) : journal'[i] = journal[i]
    BY <2>4, <2>5
  <2>7. journal' \in Seq(Entry)
    BY <2>4, <2>5
  <2> QED BY <2>6, <2>7 DEF Grows, Entries
<1>2. CASE UNCHANGED journal
  BY <1>2 DEF Grows, Entries
<1>3. [Next]_vars => UNCHANGED journal \/ \E k \in Keys, gap \in Gaps : Log(k, gap)
  BY DEF Next, Daemon, Backfill, vars, Start, StartOver, LiveInsert, LiveAlert, LiveMark,
    LiveCrash, Consolidate, Query, FillCheck, FillInsert, FillMark, FillSignal, FillEnd,
    FillCrash, Enable, Recover
<1> QED BY <1>1, <1>2, <1>3

(* The number of a new row is higher than those of all rows.               *)
LEMMA NewRowFacts ==
  ASSUME TableShape
  PROVE  NewRow \in Nat /\ NewRow # 0 /\ \A r \in DOMAIN rows : r < NewRow
<1> DEFINE S == DOMAIN rows \cup {0}
<1>1. IsFiniteSet(S) /\ S # {}
  BY FS_AddElement DEF TableShape
<1>2. \A r \in S : r \in Nat
  BY DEF TableShape
<1>3. S \subseteq Int
  BY <1>2
<1>4. Max(S) \in S /\ \A r \in S : r <= Max(S)
  <2> HIDE DEF S
  <2> QED BY <1>1, <1>3, MaxFacts
<1>5. NewRow = Max(S) + 1
  BY DEF NewRow
<1> HIDE DEF S
<1>6. Max(S) \in Nat
  BY <1>2, <1>4
<1>7. \A r \in S : r < NewRow
  BY <1>2, <1>4, <1>5, <1>6
<1>8. NewRow \in Nat /\ NewRow # 0
  BY <1>5, <1>6
<1> QED BY <1>7, <1>8 DEF S

(* The parts of insert_events: whether an entry repeats the row last seen  *)
(* of its key, and the row it goes to.                                     *)
Gap(i)      == journal[i].time - dedup[journal[i].key].last
Repeated(i) == dedup[journal[i].key].row \in DOMAIN rows /\ 0 <= Gap(i) /\ Gap(i) <= Window
RowOf(i)    == IF Repeated(i) THEN dedup[journal[i].key].row ELSE NewRow

(* What one insert does: it writes one row and the state of one key, and   *)
(* a new row is numbered above all others.                                 *)
Inserted(i) ==
  /\ RowOf(i) \in Nat /\ RowOf(i) # 0
  /\ Repeated(i) => RowOf(i) \in DOMAIN rows /\ RowOf(i) = dedup[journal[i].key].row
  /\ ~Repeated(i) => \A r \in DOMAIN rows : r < RowOf(i)
  /\ DOMAIN rows' = DOMAIN rows \cup {RowOf(i)}
  /\ rows' = [r \in DOMAIN rows' |-> rows'[r]]
  /\ \A r \in DOMAIN rows : r # RowOf(i) => rows'[r] = rows[r]
  /\ rows'[RowOf(i)] \in RowRec
  /\ rows'[RowOf(i)].entry = i
  /\ rows'[RowOf(i)].last = journal[i].time
  /\ rows'[RowOf(i)].key = IF Repeated(i) THEN rows[RowOf(i)].key ELSE journal[i].key
  /\ rows'[RowOf(i)].first = IF Repeated(i) THEN rows[RowOf(i)].first ELSE journal[i].time
  /\ rows'[RowOf(i)].count = IF Repeated(i) THEN rows[RowOf(i)].count + 1 ELSE 1
  /\ dedup' \in [Keys -> [row : Nat, last : Int]]
  /\ dedup'[journal[i].key] = [row |-> RowOf(i), last |-> journal[i].time]
  /\ \A k \in Keys : k # journal[i].key => dedup'[k] = dedup[k]
  /\ imported' = imported \cup {i}

(* What an entry of the journal is made of.                                 *)
LEMMA EntryFacts ==
  ASSUME JournalShape, NEW i \in Entries
  PROVE  i \in Nat /\ journal[i] \in Entry /\ journal[i].key \in Keys /\ journal[i].time \in Int
<1>1. i \in 1..Len(journal) /\ Len(journal) \in Nat
  BY DEF Entries, JournalShape
<1>2. journal[i] \in Entry
  BY <1>1 DEF JournalShape
<1> QED BY <1>1, <1>2 DEF Entry

(* A row that counts one occurrence more.                                  *)
LEMMA OneMore ==
  ASSUME NEW c \in RowRec, NEW t \in Int, NEW i \in Nat
  PROVE  LET m == [c EXCEPT !.count = @ + 1, !.last = t, !.entry = i]
         IN  /\ m \in RowRec /\ m.entry = i /\ m.last = t
             /\ m.key = c.key /\ m.first = c.first /\ m.count = c.count + 1
<1> DEFINE m == [c EXCEPT !.count = @ + 1, !.last = t, !.entry = i]
<1>1. c.count \in Nat /\ c.count + 1 \in Nat
  BY DEF RowRec
<1>2. m = [key |-> c.key, count |-> c.count + 1, first |-> c.first, last |-> t, entry |-> i]
  <2> DEFINE n == c.count + 1
  <2>1. m = [c EXCEPT !.count = n, !.last = t, !.entry = i]
    OBVIOUS
  <2> HIDE DEF n, m
  <2>2. m = [key |-> c.key, count |-> n, first |-> c.first, last |-> t, entry |-> i]
    BY <2>1 DEF RowRec
  <2> QED BY <2>2 DEF n
<1>3. c.key \in Keys /\ c.first \in Int
  BY DEF RowRec
<1> HIDE DEF m
<1>4. m \in RowRec
  BY <1>1, <1>2, <1>3 DEF RowRec
<1>5. m.entry = i /\ m.last = t /\ m.key = c.key /\ m.first = c.first /\ m.count = c.count + 1
  BY <1>2
<1> QED BY <1>4, <1>5 DEF m

(* An insertion makes a row, or adds one to the count of the last one.      *)
LEMMA InsertFacts ==
  ASSUME JournalShape, TableShape, NEW i \in Entries, Insert(i)
  PROVE  Inserted(i)
<1> DEFINE e == journal[i]
           d == dedup[e.key]
           id == RowOf(i)
           new == [key |-> e.key, count |-> 1, first |-> e.time, last |-> e.time, entry |-> i]
           more == [rows[id] EXCEPT !.count = @ + 1, !.last = e.time, !.entry = i]
<1>1. e.key \in Keys /\ e.time \in Int /\ i \in Nat
  BY EntryFacts
<1>2. d \in [row : Nat, last : Int] /\ d.row \in Nat /\ d.last \in Int
  BY <1>1 DEF TableShape
<1>3. /\ rows' = [r \in DOMAIN rows \cup {id} |->
                    IF r # id THEN rows[r] ELSE IF Repeated(i) THEN more ELSE new]
      /\ dedup' = [dedup EXCEPT ![e.key] = [row |-> id, last |-> e.time]]
      /\ imported' = imported \cup {i}
  BY DEF Insert, Repeated, RowOf, Gap
<1>4. NewRow \in Nat /\ NewRow # 0 /\ \A r \in DOMAIN rows : r < NewRow
  BY NewRowFacts
<1>5. /\ Repeated(i) => id \in DOMAIN rows /\ id = d.row /\ id \in Nat /\ id # 0
      /\ ~Repeated(i) => id = NewRow
  BY DEF RowOf, Repeated, TableShape
<1>6. id \in Nat /\ id # 0
  BY <1>4, <1>5
<1>7. new \in RowRec
  BY <1>1 DEF RowRec
<1>8. Repeated(i) =>
        /\ more \in RowRec /\ more.entry = i /\ more.last = e.time
        /\ more.key = rows[id].key /\ more.first = rows[id].first /\ more.count = rows[id].count + 1
  <2> SUFFICES ASSUME Repeated(i)
               PROVE  /\ more \in RowRec /\ more.entry = i /\ more.last = e.time
                      /\ more.key = rows[id].key /\ more.first = rows[id].first
                      /\ more.count = rows[id].count + 1
    OBVIOUS
  <2> DEFINE c == rows[id]
             t == e.time
             m == [c EXCEPT !.count = @ + 1, !.last = t, !.entry = i]
  <2>1. c \in RowRec /\ t \in Int /\ i \in Nat
    BY <1>1, <1>5 DEF TableShape
  <2>2. more = m
    OBVIOUS
  <2> HIDE DEF id, e, c, t
  <2>3. /\ m \in RowRec /\ m.entry = i /\ m.last = t
        /\ m.key = c.key /\ m.first = c.first /\ m.count = c.count + 1
    BY <2>1, OneMore
  <2> HIDE DEF m, more
  <2> QED BY <2>2, <2>3 DEF c, t
<1> HIDE DEF more, id, d
<1>9. dedup' \in [Keys -> [row : Nat, last : Int]] /\ dedup'[e.key] = [row |-> id, last |-> e.time]
      /\ \A k \in Keys : k # e.key => dedup'[k] = dedup[k]
  <2>1. [row |-> id, last |-> e.time] \in [row : Nat, last : Int]
    BY <1>1, <1>6
  <2> HIDE DEF e
  <2> QED BY <1>1, <1>3, <2>1 DEF TableShape
<1>10. /\ DOMAIN rows' = DOMAIN rows \cup {id}
       /\ rows' = [r \in DOMAIN rows' |-> rows'[r]]
       /\ \A r \in DOMAIN rows : r # id => rows'[r] = rows[r]
       /\ rows'[id] = IF Repeated(i) THEN more ELSE new
  <2> HIDE DEF new
  <2> QED BY <1>3
<1>11. /\ rows'[id] \in RowRec /\ rows'[id].entry = i /\ rows'[id].last = e.time
       /\ rows'[id].key = IF Repeated(i) THEN rows[id].key ELSE e.key
       /\ rows'[id].first = IF Repeated(i) THEN rows[id].first ELSE e.time
       /\ rows'[id].count = IF Repeated(i) THEN rows[id].count + 1 ELSE 1
  BY <1>7, <1>8, <1>10
<1> HIDE DEF e
<1>12. ~Repeated(i) => \A r \in DOMAIN rows : r < id
  BY <1>4, <1>5
<1> QED BY <1>3, <1>5, <1>6, <1>9, <1>10, <1>11, <1>12 DEF Inserted, id, e, d

(* What the consolidation makes of a row is a row of the same entry, and   *)
(* a row that carries its entry alone stays as it is.                      *)
LEMMA MergedFacts ==
  ASSUME TableShape, NEW r \in DOMAIN rows
  PROVE  /\ Merged(r) \in RowRec /\ Merged(r).entry = rows[r].entry
         /\ Twins(r) = {r} => Merged(r) = rows[r] /\ Min(Twins(r)) = r
<1> DEFINE T == Twins(r)
           F == {rows[j].first : j \in T}
           L == {rows[j].last : j \in T}
<1>1. T \in SUBSET DOMAIN rows /\ r \in T /\ IsFiniteSet(T)
  <2>1. T \in SUBSET DOMAIN rows /\ r \in T
    BY DEF Twins
  <2> QED BY <2>1, FS_Subset DEF TableShape
<1>2. \A j \in T : j \in Nat /\ rows[j] \in RowRec
  BY <1>1 DEF TableShape
<1>3. \A j \in T : rows[j].count \in Nat /\ rows[j].first \in Int /\ rows[j].last \in Int
  BY <1>2 DEF RowRec
<1> HIDE DEF T
<1>4. Total(rows, T) \in Nat
  BY <1>1, <1>3, TotalNat
<1>5. IsFiniteSet(F) /\ F # {} /\ F \subseteq Int
  <2> DEFINE f == [j \in T |-> rows[j].first]
  <2>1. f \in Surjection(T, F)
    BY DEF Surjection
  <2>2. IsFiniteSet(F)
    BY <1>1, <2>1, FS_Surjection
  <2>3. \A x \in F : x \in Int
    BY <1>3
  <2> QED BY <1>1, <2>2, <2>3
<1>6. IsFiniteSet(L) /\ L # {} /\ L \subseteq Int
  <2> DEFINE f == [j \in T |-> rows[j].last]
  <2>1. f \in Surjection(T, L)
    BY DEF Surjection
  <2>2. IsFiniteSet(L)
    BY <1>1, <2>1, FS_Surjection
  <2>3. \A x \in L : x \in Int
    BY <1>3
  <2> QED BY <1>1, <2>2, <2>3
<1>7. Min(F) \in F /\ Max(L) \in L
  <2> HIDE DEF F, L
  <2> QED BY <1>5, <1>6, MinFacts, MaxFacts
<1>8. Min(F) \in Int /\ Max(L) \in Int
  <2>1. (\A x \in F : x \in Int) /\ \A x \in L : x \in Int
    BY <1>5, <1>6
  <2> HIDE DEF F, L
  <2> QED BY <1>7, <2>1
<1>9. Merged(r) = [rows[r] EXCEPT !.count = Total(rows, T), !.first = Min(F), !.last = Max(L)]
  BY DEF Merged, Total, T
<1> DEFINE n == Total(rows, T)
           a == Min(F)
           z == Max(L)
           c == rows[r]
<1>10. c \in RowRec
  BY <1>1, <1>2
<1>11. n \in Nat /\ a \in Int /\ z \in Int
  BY <1>4, <1>8
<1>12. ASSUME T = {r} PROVE n = c.count /\ a = c.first /\ z = c.last /\ Min(T) = r
  <2>1. F = {c.first} /\ L = {c.last}
    BY <1>12
  <2>2. a = c.first /\ z = c.last
    <3> HIDE DEF F, L, c
    <3> QED BY <1>7, <2>1
  <2>3. n = c.count
    BY <1>3, <1>12, TotalOfOne
  <2>4. IsFiniteSet(T) /\ T # {} /\ T \subseteq Int
    BY <1>1, <1>2
  <2>5. Min(T) \in T
    BY ONLY <2>4, MinFacts
  <2> QED BY <1>12, <2>2, <2>3, <2>5
<1>13. Merged(r) = [c EXCEPT !.count = n, !.first = a, !.last = z]
  BY <1>9
<1> HIDE DEF n, a, z, c, F, L
<1>14. Merged(r) = [key |-> c.key, count |-> n, first |-> a, last |-> z, entry |-> c.entry]
  BY <1>10, <1>13 DEF RowRec
<1>15. c.key \in Keys /\ c.entry \in Nat
  BY <1>10 DEF RowRec
<1>16. Merged(r) \in RowRec /\ Merged(r).entry = c.entry
  BY <1>11, <1>14, <1>15 DEF RowRec
<1>17. c = [key |-> c.key, count |-> c.count, first |-> c.first, last |-> c.last, entry |-> c.entry]
  BY <1>10 DEF RowRec
<1>18. T = {r} => Merged(r) = c /\ Min(T) = r
  BY <1>12, <1>14, <1>17
<1> QED BY <1>16, <1>18 DEF c, T

-----------------------------------------------------------------------------
(* Only an insert and the consolidation write the table.                   *)
LEMMA TableMoves ==
  ASSUME [Next]_vars
  PROVE  UNCHANGED <<rows, dedup, imported>> \/ LiveInsert \/ FillInsert \/ Consolidate
BY DEF Next, Daemon, Backfill, vars, table, history, Log, Start, StartOver, LiveAlert, LiveMark,
    LiveCrash, Query, FillCheck, FillMark, FillSignal, FillEnd, FillCrash, Enable, Recover, Signal

(* The daemon and the backfill insert an entry of the journal.             *)
LEMMA LiveInsertFacts ==
  ASSUME Shape, LiveInsert
  PROVE  live.at + 1 \in Entries /\ Inserted(live.at + 1)
<1>1. live.at \in Nat /\ live.at + 1 \in 1..Len(journal)
  BY DEF LiveInsert, Shape, DaemonShape, JournalShape
<1>2. live.at + 1 \in Entries
  BY <1>1 DEF Entries
<1> QED BY <1>2, InsertFacts DEF LiveInsert, Shape

(* An insertion of the backfill is one of the entry it is at.               *)
LEMMA FillInsertFacts ==
  ASSUME Shape, FillInsert
  PROVE  fill.at \in Entries /\ Inserted(fill.at)
<1>1. fill.at \in Nat /\ fill.upto \in Nat /\ Len(journal) \in Nat
  BY DEF Shape, FillShape, JournalShape
<1>2. fill.at \in 1..Len(journal)
  BY <1>1 DEF FillInsert, Shape, FillShape
<1>3. fill.at \in Entries
  BY <1>2 DEF Entries
<1> QED BY <1>3, InsertFacts DEF FillInsert, Shape

(* An insertion leaves the table well shaped.                               *)
LEMMA InsertedTable ==
  ASSUME TableShape, Grows, NEW i \in Entries, Inserted(i)
  PROVE  TableShape'
<1>1. IsFiniteSet(DOMAIN rows')
  BY FS_AddElement DEF TableShape, Inserted
<1>2. ASSUME NEW r \in DOMAIN rows'
      PROVE  r \in Nat /\ r # 0 /\ rows'[r] \in RowRec /\ rows'[r].entry \in Entries'
  <2>1. CASE r = RowOf(i)
    BY <2>1 DEF Inserted, Grows
  <2>2. CASE r # RowOf(i)
    BY <2>2 DEF Inserted, Grows, TableShape
  <2> QED BY <2>1, <2>2
<1> QED BY <1>1, <1>2 DEF TableShape, Inserted

(* Every step keeps the shape of the table.                                 *)
LEMMA NextTable == ASSUME Shape, [Next]_vars PROVE TableShape'
<1>0. Grows /\ TableShape
  BY JournalGrows DEF Shape
<1>1. CASE UNCHANGED <<rows, dedup, imported>>
  BY <1>0, <1>1 DEF TableShape, Grows
<1>2. CASE LiveInsert
  BY <1>0, <1>2, LiveInsertFacts, InsertedTable
<1>3. CASE FillInsert
  BY <1>0, <1>3, FillInsertFacts, InsertedTable
<1>4. CASE Consolidate
  <2> DEFINE D == {j \in DOMAIN rows : j = Min(Twins(j))}
  <2>1. D \in SUBSET DOMAIN rows /\ IsFiniteSet(D)
    BY <1>0, FS_Subset DEF TableShape
  <2>2. rows' = [r \in D |-> Merged(r)] /\ dedup' = dedup
    BY <1>4 DEF Consolidate
  <2> HIDE DEF D
  <2>3. DOMAIN rows' = D /\ rows' = [r \in DOMAIN rows' |-> rows'[r]]
    BY <2>2
  <2>4. ASSUME NEW r \in D
        PROVE  r \in Nat /\ r # 0 /\ rows'[r] \in RowRec /\ rows'[r].entry \in Entries'
    <3>1. r \in DOMAIN rows /\ rows'[r] = Merged(r)
      BY <2>1, <2>2
    <3>2. r \in Nat /\ r # 0 /\ rows[r].entry \in Entries'
      BY <1>0, <3>1 DEF TableShape, Grows
    <3>3. Merged(r) \in RowRec /\ Merged(r).entry = rows[r].entry
      BY <1>0, <3>1, MergedFacts
    <3> QED BY <3>1, <3>2, <3>3
  <2>5. IsFiniteSet(DOMAIN rows') /\ dedup' \in [Keys -> [row : Nat, last : Int]]
    BY <1>0, <2>1, <2>2, <2>3 DEF TableShape
  <2> QED BY <2>3, <2>4, <2>5 DEF TableShape
<1> QED BY <1>1, <1>2, <1>3, <1>4, TableMoves

(* A lookback passes over entries of the journal only.                     *)
LEMMA OlderFacts ==
  ASSUME JournalShape, NEW now
  PROVE  Older(now) \in Nat /\ Older(now) <= Len(journal)
<1> DEFINE T == {i \in Entries : \A j \in 1..i : journal[j].time < now - Lookback}
<1>1. Len(journal) \in Nat
  BY DEF JournalShape
<1>2. IsFiniteSet(Entries) /\ Cardinality(Entries) = Len(journal)
  <2>1. IsFiniteSet(1..Len(journal)) /\ Cardinality(1..Len(journal)) = Len(journal)
    <3> HIDE DEF T
    <3> DEFINE m == Len(journal)
    <3>1. m \in Int /\ m >= 0 /\ m - 1 + 1 = m
      BY <1>1
    <3> HIDE DEF m
    <3>2. /\ IsFiniteSet(1..m)
          /\ Cardinality(1..m) = IF 1 > m THEN 0 ELSE m - 1 + 1
      BY <3>1, FS_Interval
    <3>3. Cardinality(1..m) = m
      BY <3>1, <3>2
    <3> QED BY <3>2, <3>3 DEF m
  <2> QED BY <2>1 DEF Entries
<1>3. T \in SUBSET Entries
  OBVIOUS
<1>4. Older(now) = Cardinality(T)
  BY DEF Older
<1> HIDE DEF T
<1>5. IsFiniteSet(T) /\ Cardinality(T) <= Cardinality(Entries)
  BY <1>2, <1>3, FS_Subset
<1>6. Cardinality(T) \in Nat
  BY <1>5, FS_CardinalityType
<1> QED BY <1>2, <1>4, <1>5, <1>6

(* Every step keeps the shape of the daemon.                                *)
LEMMA NextDaemon == ASSUME Shape, [Next]_vars PROVE DaemonShape'
<1>0. Grows /\ DaemonShape
  BY JournalGrows DEF Shape
<1>1. CASE UNCHANGED <<live, cursor>>
  BY <1>0, <1>1 DEF DaemonShape, Grows
<1>2. CASE Start
  BY <1>0, <1>2 DEF Start, DaemonShape, Grows
<1>3. CASE \E now \in Latest..Latest + Lookback + 1 : StartOver(now)
  <2>1. PICK now \in Latest..Latest + Lookback + 1 : StartOver(now)
    BY <1>3
  <2>2. Older(now) \in Nat /\ Older(now) <= Len(journal)
    BY OlderFacts DEF Shape
  <2>3. live' = [pc |-> "read", at |-> Older(now)] /\ cursor' = cursor
    BY <2>1 DEF StartOver
  <2> QED BY <1>0, <2>2, <2>3 DEF DaemonShape, Grows
<1>4. CASE LiveInsert
  <2>1. live.at + 1 \in Nat /\ live.at + 1 <= Len(journal) /\ live.at + 1 >= 1
    BY <1>0, <1>4 DEF LiveInsert, DaemonShape, Grows
  <2>2. live' = [pc |-> "alert", at |-> live.at + 1] /\ cursor' = cursor
    BY <1>4 DEF LiveInsert
  <2> QED BY <1>0, <2>1, <2>2 DEF DaemonShape, Grows
<1>5. CASE LiveAlert
  <2>1. live' = [pc |-> "mark", at |-> live.at] /\ cursor' = cursor /\ live.at >= 1
    BY <1>0, <1>5 DEF LiveAlert, DaemonShape
  <2> QED BY <1>0, <2>1 DEF DaemonShape, Grows
<1>6. CASE LiveMark
  <2>1. live' = [pc |-> "read", at |-> live.at] /\ cursor' = live.at
    BY <1>0, <1>6 DEF LiveMark, DaemonShape
  <2> QED BY <1>0, <2>1 DEF DaemonShape, Grows
<1>7. CASE LiveCrash
  BY <1>0, <1>7 DEF LiveCrash, Down, DaemonShape, Grows
<1>8. [Next]_vars => \/ UNCHANGED <<live, cursor>> \/ Start
                     \/ \E now \in Latest..Latest + Lookback + 1 : StartOver(now)
                     \/ LiveInsert \/ LiveAlert \/ LiveMark \/ LiveCrash
  BY DEF Next, Daemon, Backfill, vars, Log, Consolidate, Query, FillCheck, FillInsert, FillMark,
    FillSignal, FillEnd, FillCrash, Enable, Recover
<1> QED BY <1>1, <1>2, <1>3, <1>4, <1>5, <1>6, <1>7, <1>8

(* The steps of the backfill, one after the other.                         *)
LEMMA FillMoves ==
  ASSUME [Next]_vars
  PROVE  \/ UNCHANGED fill
         \/ Consolidate \/ Query \/ FillCheck \/ FillInsert \/ FillMark \/ FillSignal
         \/ FillEnd \/ FillCrash
BY DEF Next, Daemon, Backfill, vars, Log, Start, StartOver, LiveInsert, LiveAlert, LiveMark,
    LiveCrash, Enable, Recover

(* Every step keeps the shape of the backfill.                              *)
LEMMA NextFill == ASSUME Shape, [Next]_vars PROVE FillShape'
<1>0. Grows /\ FillShape
  BY JournalGrows DEF Shape
<1> DEFINE s == fill.signals
<1>a. s \in Seq(Nat) /\ fill.at \in Nat /\ fill.upto \in Nat /\ fill.pc \in Stages
      /\ (\A m \in 1..Len(s) : s[m] \in Entries)
      /\ fill = [pc |-> fill.pc, at |-> fill.at, upto |-> fill.upto, signals |-> s]
  BY <1>0 DEF FillShape
<1>1. CASE UNCHANGED fill
  BY <1>0, <1>1 DEF FillShape, Grows
<1>2. CASE fill' = Over
  BY <1>0, <1>2 DEF FillShape, Grows, Over, Stages
<1>3. CASE Consolidate
  <2>1. fill' = [pc |-> "query", at |-> 0, upto |-> 0, signals |-> <<>>]
    BY <1>3 DEF Consolidate, Over
  <2> QED BY <1>0, <2>1 DEF FillShape, Grows, Stages
<1>4. CASE Query
  <2>1. fill' = [pc |-> "check", at |-> fill.at, upto |-> Len(journal), signals |-> s]
    BY <1>a, <1>4 DEF Query
  <2>2. fill.at <= Len(journal)
    BY <1>0, <1>a DEF FillShape, Grows
  <2> HIDE DEF s
  <2> QED BY <1>0, <1>a, <2>1, <2>2 DEF FillShape, Grows, Stages
<1>5. CASE FillCheck
  <2>1. fill' = [pc |-> IF fill.at + 1 \in seen THEN "check" ELSE "insert",
                 at |-> fill.at + 1, upto |-> fill.upto, signals |-> s]
    BY <1>a, <1>5 DEF FillCheck
  <2>2. fill.at + 1 \in Nat /\ fill.at + 1 >= 1 /\ fill.at + 1 <= fill.upto
    BY <1>a, <1>5 DEF FillCheck
  <2> HIDE DEF s
  <2> QED BY <1>0, <1>a, <2>1, <2>2 DEF FillShape, Grows, Stages
<1>6. CASE FillInsert
  <2>1. fill' = [pc |-> "mark", at |-> fill.at, upto |-> fill.upto, signals |-> s]
    BY <1>a, <1>6 DEF FillInsert
  <2>2. fill.at >= 1
    BY <1>0, <1>6 DEF FillInsert, FillShape
  <2> HIDE DEF s
  <2> QED BY <1>0, <1>a, <2>1, <2>2 DEF FillShape, Grows, Stages
<1>7. CASE FillMark
  <2>1. fill' = [pc |-> "check", at |-> fill.at, upto |-> fill.upto, signals |-> Append(s, fill.at)]
    BY <1>a, <1>7 DEF FillMark
  <2>2. fill.at \in Entries
    BY <1>0, <1>a, <1>7 DEF FillMark, FillShape, Grows, Entries
  <2> HIDE DEF s
  <2>3. Append(s, fill.at) \in Seq(Nat) /\ Len(Append(s, fill.at)) = Len(s) + 1
        /\ \A m \in 1..Len(s) + 1 : Append(s, fill.at)[m] \in Entries
    BY <1>a, <2>2
  <2> DEFINE t == Append(s, fill.at)
  <2>4. t \in Seq(Nat) /\ \A m \in 1..Len(t) : t[m] \in Entries'
    BY <1>0, <2>3 DEF Grows
  <2>5. fill' = [pc |-> "check", at |-> fill.at, upto |-> fill.upto, signals |-> t]
    BY <2>1
  <2> HIDE DEF t
  <2> QED BY <1>0, <1>a, <2>4, <2>5 DEF FillShape, Grows, Stages
<1>8. CASE FillSignal
  <2>1. fill' = [pc |-> fill.pc, at |-> fill.at, upto |-> fill.upto, signals |-> Tail(s)]
    BY <1>a, <1>8 DEF FillSignal
  <2>2. s # <<>>
    BY <1>8 DEF FillSignal
  <2> HIDE DEF s
  <2>3. Tail(s) \in Seq(Nat) /\ \A m \in 1..Len(Tail(s)) : Tail(s)[m] = s[m + 1] /\ m + 1 \in 1..Len(s)
    BY <1>a, <2>2
  <2> DEFINE t == Tail(s)
  <2>4. t \in Seq(Nat) /\ \A m \in 1..Len(t) : t[m] \in Entries'
    BY <1>0, <1>a, <2>3 DEF Grows
  <2>5. fill' = [pc |-> fill.pc, at |-> fill.at, upto |-> fill.upto, signals |-> t]
    BY <2>1
  <2>6. fill.pc = "check"
    BY <1>8 DEF FillSignal
  <2> HIDE DEF t
  <2> QED BY <1>0, <1>a, <2>4, <2>5, <2>6 DEF FillShape, Grows, Stages
<1>9. CASE FillEnd
  BY <1>2, <1>9 DEF FillEnd
<1>10. CASE FillCrash
  BY <1>2, <1>10 DEF FillCrash
<1> QED BY <1>1, <1>3, <1>4, <1>5, <1>6, <1>7, <1>8, <1>9, <1>10, FillMoves

(* The alerts and the sets of entries, step by step.                       *)
LEMMA NextSets == ASSUME Shape, [Next]_vars PROVE SetShape'
<1>0. Grows /\ SetShape
  BY JournalGrows DEF Shape
<1>1. ASSUME NEW i \in seen' PROVE i \in Entries'
  <2>1. CASE i \in seen
    BY <1>0, <2>1 DEF SetShape, Grows
  <2>2. CASE Consolidate
    <3>1. i \in seen \/ \E r \in DOMAIN rows : i = rows[r].entry
      BY <1>1, <2>2 DEF Consolidate
    <3> QED BY <1>0, <2>1, <3>1 DEF Shape, TableShape, Grows
  <2>3. CASE FillMark
    <3>1. i \in seen \/ i = fill.at
      BY <1>1, <2>3 DEF FillMark
    <3>2. fill.at \in Entries
      BY <1>0, <2>3 DEF FillMark, Shape, FillShape, Grows, Entries
    <3> QED BY <1>0, <2>1, <3>1, <3>2 DEF Grows
  <2>4. [Next]_vars => UNCHANGED seen \/ Consolidate \/ FillMark
    BY DEF Next, Daemon, Backfill, vars, Log, Start, StartOver, LiveInsert, LiveAlert, LiveMark,
      LiveCrash, Query, FillCheck, FillInsert, FillSignal, FillEnd, FillCrash, Enable, Recover
  <2> QED BY <1>1, <2>1, <2>2, <2>3, <2>4
<1>2. ASSUME NEW i \in imported' PROVE i \in Entries'
  <2>1. CASE i \in imported
    BY <1>0, <2>1 DEF SetShape, Grows
  <2>2. CASE LiveInsert
    BY <1>0, <1>2, <2>1, <2>2, LiveInsertFacts DEF Inserted, Grows
  <2>3. CASE FillInsert
    BY <1>0, <1>2, <2>1, <2>3, FillInsertFacts DEF Inserted, Grows
  <2>4. Consolidate => imported' = imported
    BY DEF Consolidate, history
  <2> QED BY <1>2, <2>1, <2>2, <2>3, <2>4, TableMoves
<1>3. UNCHANGED <<alerts, signalled>> \/ (\E i \in Entries : Signal(i))
      \/ (UNCHANGED signalled /\ \E k \in Keys : alerts' = alerts \ {k})
  <2>1. CASE LiveAlert
    <3>1. live.at \in Entries
      BY <1>0, <2>1 DEF LiveAlert, Shape, DaemonShape, Grows, Entries
    <3> QED BY <2>1, <3>1 DEF LiveAlert
  <2>2. CASE FillSignal
    <3>1. Head(fill.signals) \in Entries
      BY <2>2 DEF FillSignal, Shape, FillShape
    <3> QED BY <2>2, <3>1 DEF FillSignal
  <2>3. CASE \E k \in Keys : Recover(k)
    BY <2>3 DEF Recover, history
  <2>4. [Next]_vars => UNCHANGED <<alerts, signalled>> \/ LiveAlert \/ FillSignal
                       \/ \E k \in Keys : Recover(k)
    BY DEF Next, Daemon, Backfill, vars, history, Log, Start, StartOver, LiveInsert, LiveMark,
      LiveCrash, Consolidate, Query, FillCheck, FillInsert, FillMark, FillEnd, FillCrash, Enable
  <2> QED BY <2>1, <2>2, <2>3, <2>4
<1>4. ASSUME NEW i \in signalled' PROVE i \in Entries'
  <2>1. i \in signalled \/ i \in Entries
    BY <1>3, <1>4 DEF Signal
  <2> QED BY <1>0, <2>1 DEF SetShape, Grows
<1>5. ASSUME NEW k \in alerts' PROVE k \in AlertKeys
  <2>1. k \in alerts \/ k \in AlertKeys
    BY <1>3, <1>5 DEF Signal
  <2> QED BY <1>0, <2>1 DEF SetShape
<1>6. ASSUME NEW i \in passed' PROVE i \in Entries'
  <2>1. CASE i \in passed
    BY <1>0, <2>1 DEF SetShape, Grows
  <2>2. CASE \E now \in Latest..Latest + Lookback + 1 : StartOver(now)
    <3>1. PICK now \in Latest..Latest + Lookback + 1 : StartOver(now)
      BY <2>2
    <3>2. Older(now) \in Nat /\ Older(now) <= Len(journal) /\ cursor \in Nat /\ Len(journal) \in Nat
      BY <1>0, OlderFacts DEF Shape, DaemonShape, Grows
    <3>3. i \in passed \/ i \in (cursor + 1)..Older(now)
      BY <1>6, <3>1 DEF StartOver
    <3>4. i \in (cursor + 1)..Older(now) => i \in Entries
      BY <3>2 DEF Entries
    <3> QED BY <1>0, <2>1, <3>3, <3>4 DEF Grows
  <2>3. [Next]_vars => UNCHANGED passed
                       \/ \E now \in Latest..Latest + Lookback + 1 : StartOver(now)
    BY DEF Next, Daemon, Backfill, vars, history, Log, Start, LiveInsert, LiveAlert, LiveMark,
      LiveCrash, Consolidate, Query, FillCheck, FillInsert, FillMark, FillSignal, FillEnd,
      FillCrash, Enable, Recover
  <2> QED BY <1>6, <2>1, <2>2, <2>3
<1> QED BY <1>1, <1>2, <1>4, <1>5, <1>6 DEF SetShape

(* Every step keeps the shape.                                              *)
LEMMA NextShape == ASSUME Shape, [Next]_vars PROVE Shape'
<1>1. JournalShape'
  BY JournalGrows DEF Shape, Grows
<1> QED BY <1>1, NextTable, NextDaemon, NextFill, NextSets DEF Shape

(* The import is always well shaped.                                        *)
LEMMA ShapeAlways == Spec => []Shape
BY InitShape, NextShape, PTL DEF Spec

(* The shape says all that the type invariant says.                        *)
LEMMA ShapeIsTypeOK == Shape => TypeOK
<1> SUFFICES ASSUME Shape PROVE TypeOK
  OBVIOUS
<1> USE DEF Shape
<1>0. Len(journal) \in Nat
  BY DEF JournalShape
<1>1. journal \in Seq([key : Keys, time : Int])
  BY DEF JournalShape, Entry
<1>2. DOMAIN rows \subseteq Nat \ {0}
  <2>1. \A r \in DOMAIN rows : r \in Nat \ {0}
    BY DEF TableShape
  <2> QED BY <2>1
<1>3. ASSUME NEW r \in DOMAIN rows PROVE rows[r] \in RowType
  BY DEF TableShape, RowRec, RowType
<1>4. dedup \in [Keys -> [row : Nat, last : Int]]
  BY DEF TableShape
<1>5. seen \subseteq Entries /\ imported \cup signalled \cup passed \subseteq Entries
      /\ alerts \subseteq AlertKeys
  BY DEF SetShape
<1>6. cursor \in Entries \cup {0}
  BY <1>0 DEF DaemonShape, Entries
<1>7. live \in [pc : {"down", "read", "alert", "mark"}, at : 0..Len(journal)]
  BY <1>0 DEF DaemonShape
<1>8. fill.pc \in {"over", "query", "check", "insert", "mark"} /\ fill.at \in 0..fill.upto
      /\ fill.upto \in 0..Len(journal)
  BY <1>0 DEF FillShape, Stages
<1>9. fill.signals \in Seq(Entries)
  <2> DEFINE s == fill.signals
  <2>1. s \in Seq(Nat) /\ \A m \in 1..Len(s) : s[m] \in Entries
    BY DEF FillShape
  <2> HIDE DEF s
  <2>2. Len(s) \in Nat /\ s = [m \in 1..Len(s) |-> s[m]]
    BY <2>1
  <2>3. s \in Seq(Entries)
    BY <2>1, <2>2
  <2> QED BY <2>3 DEF s
<1> QED BY <1>1, <1>2, <1>3, <1>4, <1>5, <1>6, <1>7, <1>8, <1>9 DEF TypeOK

(* The variables keep their types: cursors, positions and entries lie in   *)
(* the journal, and every row has a number of its own.                     *)
THEOREM TypeCorrect == Spec => []TypeOK
BY ShapeAlways, ShapeIsTypeOK, PTL

-----------------------------------------------------------------------------
(* What the daemon has behind it: up to n, every entry is in the table or  *)
(* was passed over, and every alert was opened or passed over.             *)
Reached(n) == \A i \in 1..n : i \in imported \cup passed
Opened(n)  == \A i \in 1..n : journal[i].key \in AlertKeys => i \in signalled \cup passed

(* NothingLost speaks of the cursor alone.  It is kept because the daemon  *)
(* carries the same promise from the entry it read to the cursor it        *)
(* stores, the alert of an entry following its insert.                     *)
OpenedTo   == IF live.pc = "alert" THEN live.at - 1 ELSE live.at
DaemonInv  == Reached(cursor) /\ Opened(cursor) /\ Reached(live.at) /\ Opened(OpenedTo)

(* The history of entries only grows, and so what is behind stays behind.  *)
Kept == /\ \A i \in imported \cup passed : i \in imported' \cup passed'
        /\ \A i \in signalled \cup passed : i \in signalled' \cup passed'

(* What was imported, signalled or passed over stays so.                    *)
LEMMA HistoryGrows == ASSUME Shape, [Next]_vars PROVE Kept
<1>1. \A i \in imported : i \in imported'
  <2>1. LiveInsert => \A i \in imported : i \in imported'
    BY LiveInsertFacts DEF Inserted
  <2>2. FillInsert => \A i \in imported : i \in imported'
    BY FillInsertFacts DEF Inserted
  <2>3. Consolidate => imported' = imported
    BY DEF Consolidate, history
  <2> QED BY <2>1, <2>2, <2>3, TableMoves
<1>2. \A i \in signalled : i \in signalled'
  BY DEF Next, Daemon, Backfill, vars, history, Signal, Log, Start, StartOver, LiveInsert,
    LiveAlert, LiveMark, LiveCrash, Consolidate, Query, FillCheck, FillInsert, FillMark,
    FillSignal, FillEnd, FillCrash, Enable, Recover
<1>3. \A i \in passed : i \in passed'
  BY DEF Next, Daemon, Backfill, vars, history, Log, Start, StartOver, LiveInsert,
    LiveAlert, LiveMark, LiveCrash, Consolidate, Query, FillCheck, FillInsert, FillMark,
    FillSignal, FillEnd, FillCrash, Enable, Recover
<1> QED BY <1>1, <1>2, <1>3 DEF Kept

(* What is behind a cursor stays behind it.                                 *)
LEMMA StaysBehind ==
  ASSUME Shape, Kept, Grows, NEW n \in Nat, n <= Len(journal)
  PROVE  /\ Reached(n) => \A i \in 1..n : i \in imported' \cup passed'
         /\ Opened(n) => \A i \in 1..n : journal'[i].key \in AlertKeys => i \in signalled' \cup passed'
<1>1. \A i \in 1..n : i \in Entries
  BY DEF Entries, Grows
<1> QED BY <1>1 DEF Reached, Opened, Kept, Grows

(* Initially there is no cursor.                                           *)
LEMMA InitDaemon == Init => DaemonInv
BY DEF Init, Down, DaemonInv, OpenedTo, Reached, Opened

(* Every step keeps what the cursor of the daemon promises.                 *)
LEMMA NextDaemonInv == ASSUME Shape, DaemonInv, [Next]_vars PROVE DaemonInv'
<1> DEFINE R(n) == \A i \in 1..n : i \in imported' \cup passed'
           O(n) == \A i \in 1..n : journal'[i].key \in AlertKeys => i \in signalled' \cup passed'
<1>0. Grows /\ Kept /\ DaemonShape
  BY JournalGrows, HistoryGrows DEF Shape
<1>a. \A n \in Nat : n <= Len(journal) => (Reached(n) => R(n)) /\ (Opened(n) => O(n))
  BY <1>0, StaysBehind
<1>b. /\ live.at \in Nat /\ live.at <= Len(journal) /\ cursor \in Nat /\ cursor <= Len(journal)
      /\ OpenedTo \in Nat /\ OpenedTo <= Len(journal)
      /\ live.pc = "alert" => OpenedTo = live.at - 1
      /\ live.pc # "alert" => OpenedTo = live.at
  BY <1>0 DEF DaemonShape, Grows, OpenedTo
<1>c. R(cursor) /\ O(cursor) /\ R(live.at) /\ O(OpenedTo)
  BY <1>a, <1>b DEF DaemonInv
<1>d. ASSUME R(cursor'), O(cursor'), R(live'.at), O(OpenedTo') PROVE DaemonInv'
  BY <1>d DEF DaemonInv, Reached, Opened
<1>1. CASE UNCHANGED <<live, cursor>>
  <2>1. OpenedTo' = OpenedTo
    BY <1>1 DEF OpenedTo
  <2> QED BY <1>1, <1>c, <1>d, <2>1
<1>2. CASE Start
  <2>1. live'.at = cursor /\ OpenedTo' = cursor /\ cursor' = cursor
    BY <1>2 DEF Start, OpenedTo
  <2> QED BY <1>c, <1>d, <2>1
<1>3. CASE \E now \in Latest..Latest + Lookback + 1 : StartOver(now)
  <2>1. PICK now \in Latest..Latest + Lookback + 1 : StartOver(now)
    BY <1>3
  <2> DEFINE n == Older(now)
  <2>2. n \in Nat
    BY OlderFacts DEF Shape
  <2>3. live'.at = n /\ OpenedTo' = n /\ cursor' = cursor /\ passed' = passed \cup (cursor + 1)..n
    BY <2>1 DEF StartOver, OpenedTo
  <2> HIDE DEF n
  <2>4. \A i \in 1..n : i \in 1..cursor \/ i \in (cursor + 1)..n
    BY <1>b, <2>2
  <2>5. R(n) /\ O(n)
    BY <1>c, <2>3, <2>4
  <2> QED BY <1>c, <1>d, <2>3, <2>5
<1>4. CASE LiveInsert
  <2>1. live' = [pc |-> "alert", at |-> live.at + 1] /\ cursor' = cursor /\ live.pc = "read"
    BY <1>4 DEF LiveInsert
  <2>2. imported' = imported \cup {live.at + 1}
    BY <1>4, LiveInsertFacts DEF Inserted
  <2>3. live'.at = live.at + 1 /\ OpenedTo' = live.at /\ OpenedTo = live.at
    BY <1>b, <2>1 DEF OpenedTo
  <2>4. \A i \in 1..live.at + 1 : i \in 1..live.at \/ i = live.at + 1
    BY <1>b
  <2>5. R(live.at + 1)
    BY <1>c, <2>2, <2>4
  <2> QED BY <1>c, <1>d, <2>1, <2>3, <2>5
<1>5. CASE LiveAlert
  <2>1. live'.pc = "mark" /\ live'.at = live.at /\ cursor' = cursor /\ live.at >= 1
        /\ live.pc = "alert"
    BY <1>0, <1>5 DEF LiveAlert, DaemonShape
  <2>2. OpenedTo' = live.at /\ OpenedTo = live.at - 1
    BY <1>b, <2>1 DEF OpenedTo
  <2>3. \A i \in 1..live.at : i \in 1..live.at - 1 \/ i = live.at
    BY <1>b
  <2>4. live.at \in Entries
    BY <1>b, <2>1, <1>0 DEF Entries, Grows
  <2>5. journal'[live.at].key \in AlertKeys => live.at \in signalled'
    BY <1>5, <2>4, <1>0 DEF LiveAlert, Signal, Grows
  <2>6. O(live.at)
    BY <1>c, <2>2, <2>3, <2>5
  <2> QED BY <1>c, <1>d, <2>1, <2>2, <2>6
<1>6. CASE LiveMark
  <2>1. live'.pc = "read" /\ live'.at = live.at /\ cursor' = live.at /\ live.pc = "mark"
    BY <1>0, <1>6 DEF LiveMark, DaemonShape
  <2>2. OpenedTo' = live.at /\ OpenedTo = live.at
    BY <1>b, <2>1 DEF OpenedTo
  <2> QED BY <1>c, <1>d, <2>1, <2>2
<1>7. CASE LiveCrash
  <2>1. live'.at = 0 /\ OpenedTo' = 0 /\ cursor' = cursor
    BY <1>7 DEF LiveCrash, Down, OpenedTo
  <2>2. R(0) /\ O(0)
    OBVIOUS
  <2> QED BY <1>c, <1>d, <2>1, <2>2
<1>8. [Next]_vars => \/ UNCHANGED <<live, cursor>> \/ Start
                     \/ \E now \in Latest..Latest + Lookback + 1 : StartOver(now)
                     \/ LiveInsert \/ LiveAlert \/ LiveMark \/ LiveCrash
  BY DEF Next, Daemon, Backfill, vars, Log, Consolidate, Query, FillCheck, FillInsert, FillMark,
    FillSignal, FillEnd, FillCrash, Enable, Recover
<1> QED BY <1>1, <1>2, <1>3, <1>4, <1>5, <1>6, <1>7, <1>8

(* The daemon may die before or after any of its three transactions, and   *)
(* an entry up to its cursor is in the table and had its alert opened,     *)
(* unless a start without a valid cursor passed over it.                   *)
THEOREM DaemonLosesNothing == Spec => []NothingLost
<1>1. DaemonInv => NothingLost
  BY DEF DaemonInv, Reached, Opened, NothingLost
<1>2. Shape /\ DaemonInv /\ [Next]_vars => DaemonInv'
  BY NextDaemonInv
<1> QED BY InitDaemon, ShapeAlways, <1>1, <1>2, PTL DEF Spec

-----------------------------------------------------------------------------
(* A mark follows its insert, and the table only names entries that were   *)
(* inserted: also the ones that a consolidation seeds.                     *)
SkipInv ==
  /\ \A i \in seen : i \in imported
  /\ \A r \in DOMAIN rows : rows[r].entry \in imported
  /\ fill.pc = "mark" => fill.at \in imported

(* At the start nothing was skipped.                                        *)
LEMMA InitSkip == Init => SkipInv
<1> SUFFICES ASSUME Init PROVE SkipInv
  OBVIOUS
<1>1. DOMAIN rows = {}
  BY DEF Init
<1> QED BY <1>1 DEF Init, SkipInv, Over

(* Every step keeps what is known of skipped entries.                       *)
LEMMA NextSkip == ASSUME Shape, SkipInv, [Next]_vars PROVE SkipInv'
<1>0. \A i \in imported : i \in imported'
  <2>1. LiveInsert => \A i \in imported : i \in imported'
    BY LiveInsertFacts DEF Inserted
  <2>2. FillInsert => \A i \in imported : i \in imported'
    BY FillInsertFacts DEF Inserted
  <2>3. Consolidate => imported' = imported
    BY DEF Consolidate, history
  <2> QED BY <2>1, <2>2, <2>3, TableMoves
<1>1. ASSUME NEW i \in seen' PROVE i \in imported'
  <2>1. CASE Consolidate
    <3>1. i \in seen \/ \E r \in DOMAIN rows : i = rows[r].entry
      BY <1>1, <2>1 DEF Consolidate
    <3> QED BY <1>0, <3>1 DEF SkipInv
  <2>2. CASE FillMark
    <3>1. i \in seen \/ i = fill.at
      BY <1>1, <2>2 DEF FillMark
    <3> QED BY <1>0, <2>2, <3>1 DEF SkipInv, FillMark
  <2>3. [Next]_vars => UNCHANGED seen \/ Consolidate \/ FillMark
    BY DEF Next, Daemon, Backfill, vars, Log, Start, StartOver, LiveInsert, LiveAlert, LiveMark,
      LiveCrash, Query, FillCheck, FillInsert, FillSignal, FillEnd, FillCrash, Enable, Recover
  <2> QED BY <1>0, <1>1, <2>1, <2>2, <2>3 DEF SkipInv
<1>2. ASSUME NEW r \in DOMAIN rows' PROVE rows'[r].entry \in imported'
  <2>1. ASSUME NEW i \in Entries, Inserted(i) PROVE rows'[r].entry \in imported'
    <3>1. CASE r = RowOf(i)
      BY <2>1, <3>1 DEF Inserted
    <3>2. CASE r # RowOf(i)
      BY <1>0, <2>1, <3>2, <1>2 DEF Inserted, SkipInv
    <3> QED BY <3>1, <3>2
  <2>2. CASE Consolidate
    <3>1. r \in DOMAIN rows /\ rows'[r] = Merged(r)
      BY <1>2, <2>2 DEF Consolidate
    <3>2. Merged(r).entry = rows[r].entry
      BY <3>1, MergedFacts DEF Shape
    <3> QED BY <1>0, <3>1, <3>2 DEF SkipInv
  <2>3. CASE UNCHANGED <<rows, dedup, imported>>
    BY <1>2, <2>3 DEF SkipInv
  <2> QED BY <2>1, <2>2, <2>3, TableMoves, LiveInsertFacts, FillInsertFacts
<1>3. ASSUME fill'.pc = "mark" PROVE fill'.at \in imported'
  <2>1. CASE UNCHANGED fill
    BY <1>0, <1>3, <2>1 DEF SkipInv
  <2>2. CASE FillInsert
    <3>1. fill'.at = fill.at
      BY <2>2 DEF FillInsert, Shape, FillShape
    <3> QED BY <2>2, <3>1, FillInsertFacts DEF Inserted
  <2>3. ASSUME Consolidate \/ Query \/ FillCheck \/ FillMark \/ FillSignal \/ FillEnd \/ FillCrash
        PROVE  fill'.pc # "mark"
    <3>0. fill \in [pc : Stages, at : Nat, upto : Nat, signals : Seq(Nat)]
      BY DEF Shape, FillShape
    <3>1. Consolidate \/ FillEnd \/ FillCrash => fill'.pc # "mark"
      BY DEF Consolidate, FillEnd, FillCrash, Over
    <3>2. Query \/ FillMark => fill'.pc = "check"
      BY <3>0 DEF Query, FillMark
    <3>3. FillCheck => fill'.pc # "mark"
      BY <3>0 DEF FillCheck
    <3>4. FillSignal => fill'.pc = "check"
      BY <3>0 DEF FillSignal
    <3> QED BY <2>3, <3>1, <3>2, <3>3, <3>4
  <2> QED BY <1>3, <2>1, <2>2, <2>3, FillMoves
<1> QED BY <1>1, <1>2, <1>3 DEF SkipInv

(* An entry that a backfill will not replay again is in the table,         *)
(* whichever backfill marked it and wherever that one died.                *)
THEOREM SkippedEntriesAreImported == Spec => []SkippedIsImported
<1>1. SkipInv => SkippedIsImported
  BY DEF SkipInv, SkippedIsImported
<1>2. Shape /\ SkipInv /\ [Next]_vars => SkipInv'
  BY NextSkip
<1> QED BY InitSkip, ShapeAlways, <1>1, <1>2, PTL DEF Spec

-----------------------------------------------------------------------------
(* A first installation: until the daemon is enabled only backfills run.   *)
LEMMA FirstSteps ==
  ASSUME [Next]_vars, ~enabled', live = Down
  PROVE  /\ ~enabled /\ live' = Down
         /\ \/ UNCHANGED <<table, seen, fill, imported, signalled>>
            \/ Consolidate \/ Query \/ FillCheck \/ FillInsert \/ FillMark \/ FillSignal
            \/ FillEnd \/ FillCrash
<1>1. ~enabled
  BY DEF Next, Daemon, Backfill, vars, Log, Start, StartOver, LiveInsert, LiveAlert, LiveMark,
    LiveCrash, Consolidate, Query, FillCheck, FillInsert, FillMark, FillSignal, FillEnd,
    FillCrash, Enable, Recover
<1>2. ~Daemon /\ ~LiveCrash /\ ~Enable
  BY <1>1 DEF Daemon, Start, StartOver, LiveInsert, LiveAlert, LiveMark, LiveCrash, Enable, Down
<1>3. live' = Down
  BY <1>2 DEF Next, Backfill, vars, Log, Consolidate, Query, FillCheck, FillInsert, FillMark,
    FillSignal, FillEnd, FillCrash, Recover
<1>4. \/ UNCHANGED <<table, seen, fill, imported, signalled>>
      \/ Consolidate \/ Query \/ FillCheck \/ FillInsert \/ FillMark \/ FillSignal
      \/ FillEnd \/ FillCrash
  BY <1>2 DEF Next, Backfill, vars, table, history, Log, Recover
<1> QED BY <1>1, <1>3, <1>4

(* A backfill resumes where any earlier one died.  An entry that was       *)
(* inserted and not marked is still named by its row, because the death    *)
(* came right behind the insert; the next consolidation seeds it.  So each *)
(* replay works through a journal of which exactly a prefix is imported,   *)
(* and it never inserts an entry twice.                                    *)
Named(i)  == \E r \in DOMAIN rows : rows[r].entry = i
ReplayInv ==
  ~enabled =>
    /\ live = Down
    /\ \A i \in imported : \A j \in 1..i : j \in imported
    /\ \A i \in imported : i \in seen \/ Named(i)
    /\ fill.pc = "query" => fill.at = 0
    /\ fill.pc \in {"query", "check", "insert"} => imported = seen
    /\ fill.pc = "mark" => imported = seen \cup {fill.at} /\ fill.at \notin seen
    /\ fill.pc = "check" => \A i \in 1..fill.at : i \in imported
    /\ fill.pc = "insert" => fill.at \notin imported /\ \A i \in 1..fill.at - 1 : i \in imported

(* At the start nothing is replayed.                                        *)
LEMMA InitReplay == Init => ReplayInv
BY DEF Init, ReplayInv, Over

(* The record of the backfill after each of its steps.                     *)
LEMMA FillAfter ==
  ASSUME FillShape
  PROVE  /\ Consolidate => fill' = [pc |-> "query", at |-> 0, upto |-> 0, signals |-> <<>>]
         /\ Query => fill'.pc = "check" /\ fill'.at = fill.at /\ fill'.signals = fill.signals
         /\ FillCheck => /\ fill'.pc = (IF fill.at + 1 \in seen THEN "check" ELSE "insert")
                         /\ fill'.at = fill.at + 1 /\ fill'.signals = fill.signals
         /\ FillInsert => fill'.pc = "mark" /\ fill'.at = fill.at /\ fill'.signals = fill.signals
         /\ FillMark => /\ fill'.pc = "check" /\ fill'.at = fill.at
                        /\ fill'.signals = Append(fill.signals, fill.at)
         /\ FillSignal => /\ fill'.pc = "check" /\ fill'.at = fill.at
                          /\ fill'.signals = Tail(fill.signals)
         /\ FillEnd \/ FillCrash => fill' = [pc |-> "over", at |-> 0, upto |-> 0, signals |-> <<>>]
<1>0. fill \in [pc : Stages, at : Nat, upto : Nat, signals : Seq(Nat)]
  BY DEF FillShape
<1>1. Consolidate => fill' = [pc |-> "query", at |-> 0, upto |-> 0, signals |-> <<>>]
  BY DEF Consolidate, Over
<1>2. Query => fill'.pc = "check" /\ fill'.at = fill.at /\ fill'.signals = fill.signals
  BY <1>0 DEF Query
<1>3. FillCheck => /\ fill'.pc = (IF fill.at + 1 \in seen THEN "check" ELSE "insert")
                   /\ fill'.at = fill.at + 1 /\ fill'.signals = fill.signals
  BY <1>0 DEF FillCheck
<1>4. FillInsert => fill'.pc = "mark" /\ fill'.at = fill.at /\ fill'.signals = fill.signals
  BY <1>0 DEF FillInsert
<1>5. FillMark => /\ fill'.pc = "check" /\ fill'.at = fill.at
                  /\ fill'.signals = Append(fill.signals, fill.at)
  BY <1>0 DEF FillMark
<1>6. FillSignal => /\ fill'.pc = "check" /\ fill'.at = fill.at
                    /\ fill'.signals = Tail(fill.signals)
  BY <1>0 DEF FillSignal
<1>7. FillEnd \/ FillCrash => fill' = [pc |-> "over", at |-> 0, upto |-> 0, signals |-> <<>>]
  BY DEF FillEnd, FillCrash, Over
<1> QED BY <1>1, <1>2, <1>3, <1>4, <1>5, <1>6, <1>7

(* Every step keeps what is known of a replay.                              *)
LEMMA NextReplay == ASSUME Shape, SkipInv, ReplayInv, [Next]_vars PROVE ReplayInv'
<1> SUFFICES ASSUME ~enabled' PROVE ReplayInv'
  BY DEF ReplayInv
<1>0. ~enabled /\ live' = Down
  <2>1. ~enabled
    BY DEF Next, Daemon, Backfill, vars, Log, Start, StartOver, LiveInsert, LiveAlert, LiveMark,
      LiveCrash, Consolidate, Query, FillCheck, FillInsert, FillMark, FillSignal, FillEnd,
      FillCrash, Enable, Recover
  <2> QED BY <2>1, FirstSteps DEF ReplayInv
<1>a. /\ live = Down
      /\ \A i \in imported : \A j \in 1..i : j \in imported
      /\ \A i \in imported : i \in seen \/ Named(i)
      /\ fill.pc = "query" => fill.at = 0
      /\ fill.pc \in {"query", "check", "insert"} => imported = seen
      /\ fill.pc = "mark" => imported = seen \cup {fill.at} /\ fill.at \notin seen
      /\ fill.pc = "check" => \A i \in 1..fill.at : i \in imported
      /\ fill.pc = "insert" => fill.at \notin imported /\ \A i \in 1..fill.at - 1 : i \in imported
  BY <1>0 DEF ReplayInv
<1>b. fill.at \in Nat /\ FillShape
  BY DEF Shape, FillShape
<1>1. CASE UNCHANGED <<table, seen, fill, imported, signalled>>
  BY <1>0, <1>1, <1>a DEF ReplayInv, Named, table
<1>2. CASE Consolidate
  <2>1. fill'.pc = "query" /\ fill'.at = 0 /\ imported' = imported
    BY <1>b, <1>2, FillAfter DEF Consolidate, history
  <2>2. seen' = seen \cup {rows[r].entry : r \in DOMAIN rows}
    BY <1>2 DEF Consolidate
  <2>3. \A i \in imported : i \in seen'
    BY <1>a, <2>2 DEF Named
  <2>4. \A i \in seen' : i \in imported
    BY <2>2 DEF SkipInv
  <2>5. imported' = seen'
    BY <2>1, <2>3, <2>4
  <2> QED BY <1>0, <1>a, <2>1, <2>5 DEF ReplayInv
<1>3. CASE Query
  <2>1. /\ fill'.pc = "check" /\ fill'.at = fill.at /\ imported' = imported /\ seen' = seen
        /\ rows' = rows /\ fill.pc = "query"
    BY <1>b, <1>3, FillAfter DEF Query, history, table
  <2> QED BY <1>0, <1>a, <1>b, <2>1 DEF ReplayInv, Named
<1>4. CASE FillCheck
  <2>1. /\ fill'.pc = (IF fill.at + 1 \in seen THEN "check" ELSE "insert")
        /\ fill'.at = fill.at + 1 /\ imported' = imported /\ seen' = seen
        /\ rows' = rows /\ fill.pc = "check"
    BY <1>b, <1>4, FillAfter DEF FillCheck, history, table
  <2>2. \A i \in 1..fill.at + 1 : i \in 1..fill.at \/ i = fill.at + 1
    BY <1>b
  <2>3. fill'.at - 1 = fill.at
    BY <1>b, <2>1
  <2>4. CASE fill.at + 1 \in seen
    BY <1>0, <1>a, <2>1, <2>2, <2>4 DEF ReplayInv, Named
  <2>5. CASE fill.at + 1 \notin seen
    <3>1. fill'.pc = "insert" /\ fill'.at \notin imported'
      BY <1>a, <2>1, <2>5
    <3>2. \A i \in 1..fill'.at - 1 : i \in imported'
      BY <1>a, <2>1, <2>3
    <3>3. imported' = seen' /\ \A i \in imported' : \A j \in 1..i : j \in imported'
      BY <1>a, <2>1
    <3> QED BY <1>0, <3>1, <3>2, <3>3 DEF ReplayInv
  <2> QED BY <2>4, <2>5
<1>5. CASE FillInsert
  <2>1. /\ fill'.pc = "mark" /\ fill'.at = fill.at /\ seen' = seen
        /\ fill.pc = "insert"
    BY <1>b, <1>5, FillAfter DEF FillInsert, history, table
  <2>2. fill.at \in Entries /\ Inserted(fill.at)
    BY <1>5, FillInsertFacts
  <2>3. imported' = imported \cup {fill.at}
    BY <2>2 DEF Inserted
  <2>4. \A i \in 1..fill.at : i \in 1..fill.at - 1 \/ i = fill.at
    BY <1>b
  <2>5. \A i \in imported' : \A j \in 1..i : j \in imported'
    BY <1>a, <2>1, <2>3, <2>4
  <2>6. \A i \in imported' : i \in seen' \/ \E r \in DOMAIN rows' : rows'[r].entry = i
    BY <1>a, <2>1, <2>2, <2>3 DEF Inserted
  <2> QED BY <1>0, <1>a, <2>1, <2>3, <2>5, <2>6 DEF ReplayInv, Named
<1>6. CASE FillMark
  <2>1. /\ fill'.pc = "check" /\ fill'.at = fill.at /\ imported' = imported
        /\ seen' = seen \cup {fill.at} /\ fill.pc = "mark" /\ rows' = rows
    BY <1>b, <1>6, FillAfter DEF FillMark, history, table
  <2>2. imported' = seen' /\ fill.at \in imported
    BY <1>a, <2>1
  <2>3. \A i \in 1..fill.at : i \in imported
    BY <1>a, <2>2
  <2> QED BY <1>0, <1>a, <2>1, <2>2, <2>3 DEF ReplayInv, Named
<1>7. CASE FillSignal
  <2>1. /\ fill'.pc = "check" /\ fill'.at = fill.at /\ imported' = imported /\ seen' = seen
        /\ rows' = rows /\ fill.pc = "check"
    BY <1>b, <1>7, FillAfter DEF FillSignal, table
  <2> QED BY <1>0, <1>a, <2>1 DEF ReplayInv, Named
<1>8. CASE FillEnd \/ FillCrash
  <2>1. /\ fill'.pc = "over" /\ imported' = imported /\ seen' = seen /\ rows' = rows
    BY <1>b, <1>8, FillAfter DEF FillEnd, FillCrash, history, table
  <2> QED BY <1>0, <1>a, <2>1 DEF ReplayInv, Named
<1> QED BY <1>0, <1>a, <1>1, <1>2, <1>3, <1>4, <1>5, <1>6, <1>7, <1>8, FirstSteps

-----------------------------------------------------------------------------
(* The signals of a backfill are those of entries that it marked itself,   *)
(* each once, and none of them was applied before: an entry whose signal   *)
(* was applied is marked, and a replay does not insert it again.           *)
SignalInv ==
  ~enabled =>
    /\ \A i \in signalled : i \in seen
    /\ \A m \in 1..Len(fill.signals) :
         fill.signals[m] \in seen /\ fill.signals[m] \notin signalled
    /\ \A m, n \in 1..Len(fill.signals) : fill.signals[m] = fill.signals[n] => m = n

(* The same for a queue s of signals, the marks S and the applied ones A.  *)
Queue(s, S, A) ==
  /\ \A i \in A : i \in S
  /\ \A m \in 1..Len(s) : s[m] \in S /\ s[m] \notin A
  /\ \A m, n \in 1..Len(s) : s[m] = s[n] => m = n

(* An entry that is new joins the end of the queue.                         *)
LEMMA QueueGrows ==
  ASSUME NEW s \in Seq(Nat), NEW S, NEW A, Queue(s, S, A), NEW i \in Nat, i \notin S
  PROVE  Queue(Append(s, i), S \cup {i}, A)
<1> DEFINE t == Append(s, i)
<1>1. t \in Seq(Nat) /\ Len(t) = Len(s) + 1 /\ t[Len(s) + 1] = i /\ Len(s) \in Nat
      /\ \A m \in 1..Len(s) : t[m] = s[m]
  OBVIOUS
<1>2. \A m \in 1..Len(t) : m \in 1..Len(s) \/ m = Len(s) + 1
  BY <1>1
<1> HIDE DEF t
<1> QED BY <1>1, <1>2 DEF Queue, t

(* The entry at the head leaves the queue.                                  *)
LEMMA QueueShrinks ==
  ASSUME NEW s \in Seq(Nat), NEW S, NEW A, NEW B, Queue(s, S, A), s # <<>>,
         \A i \in B : i \in A \/ i = Head(s)
  PROVE  Queue(Tail(s), S, B) /\ Head(s) \notin A
<1> DEFINE t == Tail(s)
<1>1. Head(s) = s[1] /\ 1 \in 1..Len(s) /\ Len(s) \in Nat
  OBVIOUS
<1>2. t \in Seq(Nat) /\ Len(t) \in Nat
      /\ \A m \in 1..Len(t) : t[m] = s[m + 1] /\ m + 1 \in 1..Len(s) /\ m + 1 # 1
  OBVIOUS
<1> HIDE DEF t
<1>3. \A i \in B : i \in S
  BY <1>1 DEF Queue
<1>4. \A m \in 1..Len(t) : t[m] \in S /\ t[m] \notin B
  BY <1>1, <1>2 DEF Queue
<1>5. ASSUME NEW m \in 1..Len(t), NEW n \in 1..Len(t), t[m] = t[n] PROVE m = n
  <2>1. m + 1 = n + 1
    BY <1>2, <1>5 DEF Queue
  <2> QED BY <1>2, <2>1
<1> QED BY <1>1, <1>3, <1>4, <1>5 DEF Queue, t

(* At the start no alert is signalled.                                      *)
LEMMA InitSignal == Init => SignalInv
BY DEF Init, SignalInv, Over

(* Every step keeps what is known of the signals.                           *)
LEMMA NextSignal == ASSUME Shape, ReplayInv, SignalInv, [Next]_vars PROVE SignalInv'
<1> DEFINE s == fill.signals
           Q == Queue(s, seen, signalled)
<1>0. ASSUME ~enabled' PROVE ~enabled /\ live = Down
  <2>1. ~enabled
    BY <1>0 DEF Next, Daemon, Backfill, vars, Log, Start, StartOver, LiveInsert, LiveAlert,
      LiveMark, LiveCrash, Consolidate, Query, FillCheck, FillInsert, FillMark, FillSignal,
      FillEnd, FillCrash, Enable, Recover
  <2> QED BY <2>1 DEF ReplayInv
<1> SUFFICES ASSUME ~enabled' PROVE Queue(fill'.signals, seen', signalled')
  BY DEF SignalInv, Queue
<1>a. Q /\ s \in Seq(Nat) /\ FillShape /\ fill.at \in Nat
  BY <1>0 DEF SignalInv, Queue, Shape, FillShape
<1>b. ASSUME fill'.signals = s, seen' = seen, signalled' = signalled
      PROVE  Queue(fill'.signals, seen', signalled')
  BY <1>a, <1>b
<1>c. ASSUME fill'.signals = <<>>, \A i \in seen : i \in seen', signalled' = signalled
      PROVE  Queue(fill'.signals, seen', signalled')
  BY <1>a, <1>c DEF Queue
<1>1. CASE UNCHANGED <<table, seen, fill, imported, signalled>>
  BY <1>1, <1>b
<1>2. CASE Consolidate
  <2>1. fill'.signals = <<>> /\ signalled' = signalled
    BY <1>a, <1>2, FillAfter DEF Consolidate, history
  <2>2. \A i \in seen : i \in seen'
    BY <1>2 DEF Consolidate
  <2> QED BY <1>c, <2>1, <2>2
<1>3. CASE Query
  BY <1>a, <1>b, <1>3, FillAfter DEF Query, history
<1>4. CASE FillCheck
  <2>1. fill'.signals = s
    BY <1>a, <1>4, FillAfter
  <2> QED BY <1>b, <1>4, <2>1 DEF FillCheck, history
<1>5. CASE FillInsert
  BY <1>a, <1>b, <1>5, FillAfter DEF FillInsert
<1>6. CASE FillMark
  <2>1. fill'.signals = Append(s, fill.at) /\ seen' = seen \cup {fill.at}
        /\ signalled' = signalled
    BY <1>a, <1>6, FillAfter DEF FillMark, history
  <2>2. fill.at \notin seen
    BY <1>0, <1>6 DEF ReplayInv, FillMark
  <2> HIDE DEF s
  <2> QED BY <1>a, <2>1, <2>2, QueueGrows
<1>7. CASE FillSignal
  <2>1. fill'.signals = Tail(s) /\ seen' = seen /\ s # <<>>
    BY <1>a, <1>7, FillAfter DEF FillSignal
  <2>2. \A i \in signalled' : i \in signalled \/ i = Head(s)
    BY <1>7 DEF FillSignal, Signal
  <2> HIDE DEF s
  <2> QED BY <1>a, <2>1, <2>2, QueueShrinks
<1>8. CASE FillEnd \/ FillCrash
  <2>1. fill'.signals = <<>>
    BY <1>a, <1>8, FillAfter
  <2> QED BY <1>c, <1>8, <2>1 DEF FillEnd, FillCrash, history
<1> QED BY <1>0, <1>1, <1>2, <1>3, <1>4, <1>5, <1>6, <1>7, <1>8, FirstSteps

(* The invariants of the import hold together.                              *)
LEMMA FirstInstall == Spec => [](Shape /\ SkipInv /\ ReplayInv /\ SignalInv)
<1>1. Init => SkipInv /\ ReplayInv /\ SignalInv
  BY InitSkip, InitReplay, InitSignal
<1>2. Shape /\ SkipInv /\ ReplayInv /\ SignalInv /\ [Next]_vars
        => SkipInv' /\ ReplayInv' /\ SignalInv'
  BY NextSkip, NextReplay, NextSignal
<1> QED BY ShapeAlways, <1>1, <1>2, PTL DEF Spec

(* Until the daemon is enabled a replay opens no alert for an entry that   *)
(* had opened one before, however many backfills died and were repeated:   *)
(* an alert that was recovered in between stays recovered.                 *)
THEOREM ReplaysOpenNoStaleAlert == Spec => NoStaleAlert
<1>1. ASSUME Shape, SignalInv, ~enabled, FillSignal PROVE Head(fill.signals) \notin signalled
  <2> DEFINE s == fill.signals
  <2>1. s \in Seq(Nat) /\ s # <<>> /\ Queue(s, seen, signalled)
    BY <1>1 DEF SignalInv, Queue, Shape, FillShape, FillSignal
  <2> HIDE DEF s
  <2>2. Head(s) \notin signalled
    BY <2>1, QueueShrinks
  <2> QED BY <2>2 DEF s
<1>2. Shape /\ SignalInv /\ [Next]_vars
        => [~enabled /\ FillSignal /\ alerts' # alerts => Head(fill.signals) \notin signalled]_vars
  BY <1>1
<1> QED BY FirstInstall, <1>2, PTL DEF Spec, NoStaleAlert

-----------------------------------------------------------------------------
(* The table of a first installation.  Every entry has at most one row, a  *)
(* row ends at the stamp of the entry it carries, and the state of a key   *)
(* names the newest row of that key: so an entry that repeats a row adds   *)
(* to a row of its own key, and consolidating changes nothing.             *)
OwnRow(k) == /\ dedup[k].row \in DOMAIN rows
             /\ rows[dedup[k].row].key = k
             /\ rows[dedup[k].row].last = dedup[k].last
Sound ==
  /\ \A r, s \in DOMAIN rows : rows[r].entry = rows[s].entry => r = s
  /\ \A r \in DOMAIN rows : /\ rows[r].key = journal[rows[r].entry].key
                            /\ rows[r].last = journal[rows[r].entry].time
                            /\ rows[r].first <= rows[r].last
  /\ \A r \in DOMAIN rows : r <= dedup[rows[r].key].row
  /\ \A k \in Keys : dedup[k].row # 0 => OwnRow(k)
RowInv == ~enabled => Sound

(* What a row and the deduplication of its key are made of.                 *)
LEMMA RowTypes ==
  ASSUME TableShape, NEW r \in DOMAIN rows
  PROVE  /\ r \in Nat /\ r # 0 /\ rows[r].key \in Keys /\ rows[r].count \in Nat
         /\ rows[r].first \in Int /\ rows[r].last \in Int /\ rows[r].entry \in Entries
         /\ dedup[rows[r].key].row \in Nat /\ dedup[rows[r].key].last \in Int
<1>1. r \in Nat /\ r # 0 /\ rows[r] \in RowRec /\ rows[r].entry \in Entries
  BY DEF TableShape
<1>2. /\ rows[r].key \in Keys /\ rows[r].count \in Nat /\ rows[r].first \in Int
      /\ rows[r].last \in Int
  BY <1>1 DEF RowRec
<1> QED BY <1>1, <1>2 DEF TableShape

(* An entry that is inserted goes to a row of its key.                     *)
LEMMA OwnKey ==
  ASSUME Shape, Sound, NEW i \in Entries, Inserted(i)
  PROVE  /\ rows'[RowOf(i)].key = journal[i].key
         /\ Repeated(i) => /\ RowOf(i) \in DOMAIN rows /\ rows[RowOf(i)].key = journal[i].key
                           /\ rows[RowOf(i)].last = dedup[journal[i].key].last
<1>1. journal[i].key \in Keys
  BY EntryFacts DEF Shape
<1>2. Repeated(i) => /\ RowOf(i) \in DOMAIN rows /\ RowOf(i) = dedup[journal[i].key].row
                     /\ RowOf(i) # 0
  BY DEF Inserted
<1>3. Repeated(i) => OwnRow(journal[i].key)
  BY <1>1, <1>2 DEF Sound
<1> QED BY <1>2, <1>3 DEF OwnRow, Inserted

(* One insert of an entry that no row carries.                             *)
LEMMA InsertSound ==
  ASSUME Shape, Sound, NEW i \in Entries, Inserted(i), journal' = journal,
         \A r \in DOMAIN rows : rows[r].entry # i
  PROVE  Sound'
<1> DEFINE id == RowOf(i)
           k == journal[i].key
           t == journal[i].time
<1>0. /\ k \in Keys /\ t \in Int /\ TableShape
      /\ dedup[k].row \in Nat /\ dedup[k].last \in Int /\ id \in Nat
  BY EntryFacts DEF Shape, TableShape, Inserted
<1>1. /\ DOMAIN rows' = DOMAIN rows \cup {id}
      /\ \A r \in DOMAIN rows : r # id => rows'[r] = rows[r]
      /\ rows'[id].entry = i /\ rows'[id].last = t /\ rows'[id].key = k
      /\ rows'[id].first = (IF Repeated(i) THEN rows[id].first ELSE t)
      /\ dedup'[k].row = id /\ dedup'[k].last = t
      /\ \A j \in Keys : j # k => dedup'[j] = dedup[j]
      /\ ~Repeated(i) => \A r \in DOMAIN rows : r < id
      /\ Repeated(i) => id \in DOMAIN rows /\ id = dedup[k].row /\ rows[id].key = k
                        /\ rows[id].last = dedup[k].last
  BY OwnKey DEF Inserted
<1>1a. \A r \in DOMAIN rows' : r \in DOMAIN rows \/ r = id
  BY <1>1
<1>1b. Repeated(i) => rows[id].first \in Int /\ t >= dedup[k].last
  <2>1. Repeated(i) => t - dedup[k].last >= 0
    BY <1>0 DEF Repeated, Gap
  <2>2. Repeated(i) => rows[id].first \in Int
    BY <1>0, <1>1, RowTypes
  <2> QED BY <1>0, <2>1, <2>2
<1> HIDE DEF id, k, t
<1>2. ASSUME NEW r \in DOMAIN rows', NEW s \in DOMAIN rows', rows'[r].entry = rows'[s].entry
      PROVE  r = s
  BY <1>1, <1>1a, <1>2 DEF Sound
<1>3. ASSUME NEW r \in DOMAIN rows'
      PROVE  /\ rows'[r].key = journal'[rows'[r].entry].key
             /\ rows'[r].last = journal'[rows'[r].entry].time
             /\ rows'[r].first <= rows'[r].last
  <2>1. CASE r # id
    BY <1>1, <1>1a, <1>3, <2>1 DEF Sound
  <2>2. CASE r = id
    <3>1. rows'[r].key = journal'[rows'[r].entry].key /\ rows'[r].last = journal'[rows'[r].entry].time
      BY <1>1, <2>2 DEF k, t
    <3>2. CASE Repeated(i)
      <4>1. rows[id].first <= dedup[k].last
        BY <1>1, <3>2 DEF Sound
      <4> QED BY <1>0, <1>1, <1>1b, <2>2, <3>1, <3>2, <4>1
    <3>3. CASE ~Repeated(i)
      BY <1>0, <1>1, <2>2, <3>1, <3>3
    <3> QED BY <3>2, <3>3
  <2> QED BY <2>1, <2>2
<1>4. ASSUME NEW r \in DOMAIN rows' PROVE r <= dedup'[rows'[r].key].row
  <2>1. CASE r = id
    BY <1>0, <1>1, <2>1
  <2>2. CASE r # id
    <3>1. r \in DOMAIN rows /\ rows'[r] = rows[r] /\ r <= dedup[rows[r].key].row
      BY <1>1, <1>1a, <1>4, <2>2 DEF Sound
    <3>2. rows[r].key \in Keys /\ r \in Nat
      BY <1>0, <3>1, RowTypes
    <3>3. CASE rows[r].key # k
      BY <1>1, <3>1, <3>2, <3>3
    <3>4. CASE rows[r].key = k
      <4>1. r <= id
        BY <1>0, <1>1, <3>1, <3>2, <3>4
      <4> QED BY <1>1, <3>1, <3>4, <4>1
    <3> QED BY <3>3, <3>4
  <2> QED BY <2>1, <2>2
<1>5. ASSUME NEW j \in Keys, dedup'[j].row # 0
      PROVE  /\ dedup'[j].row \in DOMAIN rows' /\ rows'[dedup'[j].row].key = j
             /\ rows'[dedup'[j].row].last = dedup'[j].last
  <2>1. CASE j = k
    BY <1>1, <2>1
  <2>2. CASE j # k
    <3>1. dedup'[j] = dedup[j] /\ OwnRow(j)
      BY <1>1, <1>5, <2>2 DEF Sound
    <3>2. dedup[j].row # id
      <4>1. CASE Repeated(i)
        BY <1>1, <2>2, <3>1, <4>1 DEF OwnRow
      <4>2. CASE ~Repeated(i)
        BY <1>0, <1>1, <3>1, <4>2 DEF OwnRow
      <4> QED BY <4>1, <4>2
    <3> QED BY <1>1, <3>1, <3>2 DEF OwnRow
  <2> QED BY <2>1, <2>2
<1> QED BY <1>2, <1>3, <1>4, <1>5 DEF Sound, OwnRow

(* Consolidating a sound table changes nothing.                            *)
LEMMA ConsolidateKeeps ==
  ASSUME Shape, Sound, Consolidate
  PROVE  rows' = rows /\ dedup' = dedup /\ imported' = imported /\ journal' = journal
<1>0. TableShape /\ dedup' = dedup /\ imported' = imported /\ journal' = journal
  BY DEF Shape, Consolidate, history
<1>1. ASSUME NEW r \in DOMAIN rows PROVE Merged(r) = rows[r] /\ Min(Twins(r)) = r
  <2>1. Twins(r) = {r}
    BY DEF Twins, Sound
  <2> QED BY <1>0, <2>1, MergedFacts
<1> DEFINE D == {j \in DOMAIN rows : j = Min(Twins(j))}
<1>2. D = DOMAIN rows
  BY <1>1
<1>3. rows' = [r \in D |-> Merged(r)]
  BY DEF Consolidate
<1> HIDE DEF D
<1>4. rows' = [r \in DOMAIN rows |-> rows[r]]
  BY <1>1, <1>2, <1>3
<1> QED BY <1>0, <1>4 DEF TableShape

(* What can happen to the table of a first installation.                   *)
LEMMA FirstTable ==
  ASSUME Shape, SkipInv, ReplayInv, RowInv, [Next]_vars, ~enabled'
  PROVE  /\ Sound /\ Grows
         /\ \/ rows' = rows /\ dedup' = dedup /\ imported' = imported
            \/ /\ journal' = journal /\ fill.at \in Entries /\ Inserted(fill.at)
               /\ fill.at \notin imported
               /\ \A r \in DOMAIN rows : rows[r].entry # fill.at
<1>1. ~enabled
  BY DEF Next, Daemon, Backfill, vars, Log, Start, StartOver, LiveInsert, LiveAlert, LiveMark,
    LiveCrash, Consolidate, Query, FillCheck, FillInsert, FillMark, FillSignal, FillEnd,
    FillCrash, Enable, Recover
<1>2. Sound /\ live = Down /\ Grows
  BY <1>1, JournalGrows DEF RowInv, ReplayInv, Shape
<1>3. CASE FillInsert
  <2>1. fill.at \in Entries /\ Inserted(fill.at) /\ journal' = journal
    BY <1>3, FillInsertFacts DEF FillInsert
  <2>2. fill.at \notin imported
    BY <1>1, <1>3 DEF ReplayInv, FillInsert
  <2> QED BY <1>2, <2>1, <2>2 DEF SkipInv
<1>4. CASE Consolidate
  BY <1>2, <1>4, ConsolidateKeeps
<1>5. CASE UNCHANGED <<rows, dedup, imported>>
  BY <1>2, <1>5
<1>6. ~LiveInsert
  BY <1>2 DEF LiveInsert, Down
<1> QED BY <1>3, <1>4, <1>5, <1>6, TableMoves

(* At the start the table is empty.                                         *)
LEMMA InitRows == Init => RowInv
<1> SUFFICES ASSUME Init PROVE RowInv
  OBVIOUS
<1>1. DOMAIN rows = {} /\ \A k \in Keys : dedup[k].row = 0
  BY DEF Init
<1> QED BY <1>1 DEF RowInv, Sound

(* Every step keeps the rows sound.                                         *)
LEMMA NextRows == ASSUME Shape, SkipInv, ReplayInv, RowInv, [Next]_vars PROVE RowInv'
<1> SUFFICES ASSUME ~enabled' PROVE Sound'
  BY DEF RowInv
<1>1. Sound /\ Grows
  BY FirstTable
<1>2. CASE rows' = rows /\ dedup' = dedup /\ imported' = imported
  <2>1. ASSUME NEW r \in DOMAIN rows PROVE journal'[rows[r].entry] = journal[rows[r].entry]
    BY <1>1, RowTypes DEF Grows, Shape
  <2> QED BY <1>1, <1>2, <2>1 DEF Sound, OwnRow
<1>3. CASE /\ journal' = journal /\ fill.at \in Entries /\ Inserted(fill.at)
           /\ \A r \in DOMAIN rows : rows[r].entry # fill.at
  BY <1>1, <1>3, InsertSound
<1> QED BY <1>2, <1>3, FirstTable

-----------------------------------------------------------------------------
(* Counting.  Each insert of a first installation adds one to the rows of  *)
(* its key and one entry to those imported.                                *)
KeyRows(k) == {j \in DOMAIN rows : rows[j].key = k}
CountInv   == ~enabled => CountsAreExact

(* The count of a key is the total over its rows.                           *)
LEMMA CountIsTotal == \A k : Count(k) = Total(rows, KeyRows(k))
BY DEF Count, Total, KeyRows

(* The same of the next state.                                              *)
LEMMA CountIsTotalNext == (\A k : Count(k) = Total(rows, KeyRows(k)))'
BY CountIsTotal, PTL

(* The rows of a key are finitely many and counted.                         *)
LEMMA KeyRowsFacts ==
  ASSUME TableShape, NEW k
  PROVE  /\ IsFiniteSet(KeyRows(k)) /\ Total(rows, KeyRows(k)) \in Nat
         /\ \A r \in KeyRows(k) : r \in DOMAIN rows /\ rows[r].count \in Nat
<1>1. KeyRows(k) \in SUBSET DOMAIN rows
  BY DEF KeyRows
<1>2. IsFiniteSet(KeyRows(k))
  BY <1>1, FS_Subset DEF TableShape
<1>3. \A r \in KeyRows(k) : r \in DOMAIN rows /\ rows[r].count \in Nat
  BY <1>1, RowTypes
<1> QED BY <1>2, <1>3, TotalNat

(* So are the entries of a key that were imported.                          *)
LEMMA ImportedFacts ==
  ASSUME Shape, NEW k
  PROVE  IsFiniteSet(Imported(k)) /\ Cardinality(Imported(k)) \in Nat
<1>1. Len(journal) \in Nat
  BY DEF Shape, JournalShape
<1>2. IsFiniteSet(Entries)
  BY <1>1, FS_Interval DEF Entries
<1>3. Imported(k) \in SUBSET Entries
  BY DEF Imported, Shape, SetShape
<1>4. IsFiniteSet(Imported(k))
  BY <1>2, <1>3, FS_Subset
<1> QED BY <1>4, FS_CardinalityType

(* The total of a key after an insert, whichever row it went to.           *)
LEMMA InsertCounts ==
  ASSUME Shape, Sound, NEW i \in Entries, Inserted(i), NEW k \in Keys
  PROVE  Total(rows', {j \in DOMAIN rows' : rows'[j].key = k})
           = Total(rows, KeyRows(k)) + IF k = journal[i].key THEN 1 ELSE 0
<1> DEFINE id == RowOf(i)
           S == KeyRows(k)
           N == {j \in DOMAIN rows' : rows'[j].key = k}
<1>0. /\ IsFiniteSet(S) /\ Total(rows, S) \in Nat
      /\ \A r \in S : r \in DOMAIN rows /\ rows[r].count \in Nat
  BY KeyRowsFacts DEF Shape
<1>1. /\ DOMAIN rows' = DOMAIN rows \cup {id}
      /\ \A r \in DOMAIN rows : r # id => rows'[r] = rows[r]
      /\ rows'[id].key = journal[i].key
      /\ rows'[id].count = (IF Repeated(i) THEN rows[id].count + 1 ELSE 1)
      /\ Repeated(i) => id \in DOMAIN rows /\ rows[id].key = journal[i].key
      /\ ~Repeated(i) => id \notin DOMAIN rows
  <2>1. ~Repeated(i) => id \notin DOMAIN rows
    BY DEF Inserted
  <2> QED BY <2>1, OwnKey DEF Inserted
<1> HIDE DEF id
<1>2. CASE k # journal[i].key
  <2>1. N = S /\ id \notin S
    BY <1>1, <1>2 DEF KeyRows
  <2>2. \A r \in S : rows'[r].count = rows[r].count
    BY <1>0, <1>1, <2>1
  <2> HIDE DEF S, N
  <2>3. Total(rows', S) = Total(rows, S)
    BY <1>0, <2>2, TotalSame
  <2>4. Total(rows', N) = Total(rows, S) + 0
    BY <1>0, <2>1, <2>3
  <2> QED BY <1>2, <2>4 DEF N, S
<1>3. CASE k = journal[i].key /\ Repeated(i)
  <2>1. N = S /\ id \in S
    BY <1>1, <1>3 DEF KeyRows
  <2>2. \A r \in S : rows'[r].count = IF r = id THEN rows[r].count + 1 ELSE rows[r].count
    BY <1>0, <1>1, <1>3
  <2>3. IsFiniteSet(S) /\ id \in S /\ (\A r \in S : rows[r].count \in Nat)
    BY <1>0, <2>1
  <2> HIDE DEF S, N
  <2>4. Total(rows', S) = Total(rows, S) + 1
    BY ONLY <2>2, <2>3, TotalOneMore
  <2> QED BY <1>0, <1>3, <2>1, <2>4 DEF N, S
<1>4. CASE k = journal[i].key /\ ~Repeated(i)
  <2>1. N = S \cup {id} /\ id \notin S
    BY <1>1, <1>4 DEF KeyRows
  <2>2. \A r \in S : rows'[r].count = rows[r].count
    BY <1>0, <1>1, <2>1
  <2>3. rows'[id].count = 1
    BY <1>1, <1>4
  <2> HIDE DEF S, N
  <2>4. Total(rows', S) = Total(rows, S)
    BY <1>0, <2>2, TotalSame
  <2>5. \A r \in S \cup {id} : rows'[r].count \in Nat
    BY <1>0, <2>2, <2>3
  <2>6. Total(rows', S \cup {id}) = rows'[id].count + Total(rows', S)
    BY <1>0, <2>1, <2>5, TotalAdd
  <2>7. Total(rows', N) = Total(rows, S) + 1
    BY <1>0, <2>1, <2>3, <2>4, <2>6
  <2> QED BY <1>4, <2>7 DEF N, S
<1> QED BY <1>2, <1>3, <1>4

(* At the start no row counts anything.                                     *)
LEMMA InitCount == Init => CountInv
<1> SUFFICES ASSUME Init, NEW k \in Keys PROVE Count(k) = Cardinality(Imported(k))
  BY DEF CountInv, CountsAreExact
<1>1. KeyRows(k) = {} /\ Imported(k) = {}
  <2>1. DOMAIN rows = {} /\ imported = {}
    BY DEF Init
  <2> QED BY <2>1 DEF KeyRows, Imported
<1> QED BY <1>1, CountIsTotal, TotalEmpty, FS_EmptySet

(* Every step keeps the counts equal to what was imported.                  *)
LEMMA NextCount ==
  ASSUME Shape, SkipInv, ReplayInv, RowInv, CountInv, [Next]_vars
  PROVE  CountInv'
<1> SUFFICES ASSUME ~enabled', NEW k \in Keys PROVE (Count(k) = Cardinality(Imported(k)))'
  BY DEF CountInv, CountsAreExact
<1> DEFINE M == {i \in imported' : journal'[i].key = k}
           N == {j \in DOMAIN rows' : rows'[j].key = k}
<1>0. Sound /\ Grows
  BY FirstTable
<1>1. Total(rows, KeyRows(k)) = Cardinality(Imported(k))
  <2>1. ~enabled
    BY DEF Next, Daemon, Backfill, vars, Log, Start, StartOver, LiveInsert, LiveAlert, LiveMark,
      LiveCrash, Consolidate, Query, FillCheck, FillInsert, FillMark, FillSignal, FillEnd,
      FillCrash, Enable, Recover
  <2> QED BY <2>1, CountIsTotal DEF CountInv, CountsAreExact
<1>2. ASSUME Total(rows', N) = Cardinality(M) PROVE (Count(k) = Cardinality(Imported(k)))'
  <2>1. Count(k)' = Total(rows', N)
    BY CountIsTotalNext DEF KeyRows
  <2>2. Imported(k)' = M
    BY DEF Imported
  <2> HIDE DEF M, N
  <2> QED BY <1>2, <2>1, <2>2
<1>3. CASE rows' = rows /\ dedup' = dedup /\ imported' = imported
  <2>1. N = KeyRows(k)
    BY <1>3 DEF KeyRows
  <2>2. \A i \in imported : journal'[i] = journal[i]
    BY <1>0 DEF Grows, Shape, SetShape
  <2>3. M = Imported(k)
    BY <1>3, <2>2 DEF Imported
  <2> HIDE DEF M, N
  <2> QED BY <1>1, <1>2, <1>3, <2>1, <2>3
<1>4. CASE /\ journal' = journal /\ fill.at \in Entries /\ Inserted(fill.at)
           /\ fill.at \notin imported
  <2>1. Total(rows', N) = Total(rows, KeyRows(k)) + IF k = journal[fill.at].key THEN 1 ELSE 0
    BY <1>0, <1>4, InsertCounts
  <2>2. IsFiniteSet(Imported(k)) /\ Cardinality(Imported(k)) \in Nat
    BY ImportedFacts
  <2>3. imported' = imported \cup {fill.at} /\ fill.at \notin Imported(k)
    BY <1>4 DEF Inserted, Imported
  <2>4. M = IF k = journal[fill.at].key THEN Imported(k) \cup {fill.at} ELSE Imported(k)
    BY <1>4, <2>3 DEF Imported
  <2>5. Cardinality(Imported(k) \cup {fill.at}) = Cardinality(Imported(k)) + 1
    BY <2>2, <2>3, FS_AddElement
  <2> HIDE DEF M, N
  <2> QED BY <1>1, <1>2, <2>1, <2>2, <2>4, <2>5
<1> QED BY <1>3, <1>4, FirstTable

-----------------------------------------------------------------------------
(* Coalescing, while the journal's stamps do not go back.                  *)
LEMMA InitApart == Init => RowsLieApart
<1> SUFFICES ASSUME Init PROVE RowsLieApart
  OBVIOUS
<1>1. DOMAIN rows = {}
  BY DEF Init
<1> QED BY <1>1 DEF RowsLieApart

(* A new row of a key starts beyond the window of the newest one, because  *)
(* its entry is later than that of every row.                              *)
LEMMA NewRowLiesApart ==
  ASSUME Shape, Sound, NEW i \in Entries, ~Repeated(i),
         \A r, s \in DOMAIN rows :
           r < s /\ rows[r].key = rows[s].key => rows[s].first - rows[r].last > Window,
         \A r \in DOMAIN rows : rows[r].last <= journal[i].time,
         NEW r \in DOMAIN rows, rows[r].key = journal[i].key
  PROVE  journal[i].time - rows[r].last > Window
<1> DEFINE k == journal[i].key
           t == journal[i].time
           d == dedup[k].row
<1>0. TableShape /\ k \in Keys /\ t \in Int /\ Window \in Nat
  BY EntryFacts, WindowAssumption DEF Shape
<1>1. r \in Nat /\ r # 0 /\ d \in Nat /\ rows[r].last \in Int /\ r <= d
  BY <1>0, RowTypes DEF Sound
<1>2. d # 0
  BY <1>1
<1>3. d \in DOMAIN rows /\ rows[d].key = k /\ rows[d].last = dedup[k].last
  BY <1>0, <1>2 DEF Sound, OwnRow
<1>4. /\ rows[d].first \in Int /\ rows[d].last \in Int /\ rows[d].first <= rows[d].last
      /\ rows[d].last <= t
  BY <1>0, <1>3, RowTypes DEF Sound
<1>5. ~(0 <= t - rows[d].last /\ t - rows[d].last <= Window)
  BY <1>3 DEF Repeated, Gap
<1> HIDE DEF k, t
<1>6. t - rows[d].last > Window
  BY <1>0, <1>4, <1>5
<1>7. CASE r = d
  BY <1>6, <1>7 DEF t
<1>8. CASE r # d
  <2>1. r < d
    BY <1>1, <1>8
  <2>2. rows[d].first - rows[r].last > Window
    BY <1>3, <2>1 DEF k
  <2>3. t - rows[r].last > Window
    BY <1>0, <1>1, <1>4, <1>6, <2>2
  <2> QED BY <2>3 DEF t
<1> QED BY <1>7, <1>8

(* Every step keeps the rows of a key a window apart.                       *)
LEMMA NextApart ==
  ASSUME Shape, SkipInv, ReplayInv, RowInv, RowsLieApart, [Next]_vars
  PROVE  RowsLieApart'
<1> DEFINE Apart == \A r, s \in DOMAIN rows :
             r < s /\ rows[r].key = rows[s].key => rows[s].first - rows[r].last > Window
<1> SUFFICES ASSUME ~enabled', Monotone' PROVE Apart'
  BY DEF RowsLieApart
<1>0. Sound /\ Grows /\ TableShape
  BY FirstTable DEF Shape
<1>1. Monotone
  <2> SUFFICES ASSUME NEW a \in Entries, NEW b \in Entries, a < b
               PROVE  journal[a].time <= journal[b].time
    BY DEF Monotone
  <2>1. /\ a \in Entries' /\ b \in Entries'
        /\ journal'[a] = journal[a] /\ journal'[b] = journal[b]
    BY <1>0 DEF Grows
  <2>2. \A x, y \in Entries' : x < y => journal'[x].time <= journal'[y].time
    BY DEF Monotone
  <2> QED BY <2>1, <2>2
<1>2. ~enabled
  BY DEF Next, Daemon, Backfill, vars, Log, Start, StartOver, LiveInsert, LiveAlert, LiveMark,
    LiveCrash, Consolidate, Query, FillCheck, FillInsert, FillMark, FillSignal, FillEnd,
    FillCrash, Enable, Recover
<1>3. Apart
  BY <1>1, <1>2 DEF RowsLieApart
<1>4. CASE rows' = rows /\ dedup' = dedup /\ imported' = imported
  BY <1>3, <1>4
<1>5. CASE /\ journal' = journal /\ fill.at \in Entries /\ Inserted(fill.at)
           /\ fill.at \notin imported
  <2> DEFINE i == fill.at
             id == RowOf(i)
             t == journal[i].time
  <2>0. i \in Nat /\ i \in Entries /\ Inserted(i) /\ i \notin imported
    BY <1>5, EntryFacts DEF Shape
  <2>1. ASSUME NEW r \in DOMAIN rows PROVE rows[r].last <= t
    <3>1. rows[r].entry \in imported /\ rows[r].entry \in Entries
      BY <1>0, RowTypes DEF SkipInv
    <3>2. rows[r].entry \in Nat /\ rows[r].entry >= 1
      BY <1>0, <3>1 DEF Grows, Entries
    <3>3. \A j \in 1..rows[r].entry : j \in imported
      BY <1>2, <3>1 DEF ReplayInv
    <3>4. i >= 1
      BY <2>0, <1>0 DEF Entries, Grows
    <3> HIDE DEF i
    <3>5. rows[r].entry < i
      BY <2>0, <3>2, <3>3, <3>4
    <3>6. journal[rows[r].entry].time <= journal[i].time
      BY <1>1, <2>0, <3>1, <3>5 DEF Monotone
    <3> QED BY <1>0, <3>6 DEF Sound
  <2>2. /\ DOMAIN rows' = DOMAIN rows \cup {id}
        /\ \A r \in DOMAIN rows : r # id => rows'[r] = rows[r]
        /\ rows'[id].key = journal[i].key
        /\ rows'[id].first = (IF Repeated(i) THEN rows[id].first ELSE t)
        /\ Repeated(i) => id \in DOMAIN rows /\ rows[id].key = journal[i].key
                          /\ id = dedup[journal[i].key].row
        /\ ~Repeated(i) => \A r \in DOMAIN rows : r < id
        /\ id \in Nat
    BY <1>0, <2>0, OwnKey DEF Inserted
  <2> HIDE DEF i, id
  <2>3. ASSUME NEW r \in DOMAIN rows', NEW s \in DOMAIN rows', r < s, rows'[r].key = rows'[s].key
        PROVE  rows'[s].first - rows'[r].last > Window
    <3>1. (r \in DOMAIN rows \/ r = id) /\ (s \in DOMAIN rows \/ s = id)
      BY <2>2, <2>3
    <3>2. \A x \in DOMAIN rows : x \in Nat /\ x <= dedup[rows[x].key].row
      BY <1>0, RowTypes DEF Sound
    <3>3. r # id
      <4>1. ASSUME r = id PROVE FALSE
        <5>1. s # id /\ s \in DOMAIN rows /\ rows'[s] = rows[s] /\ s \in Nat
          BY <2>2, <2>3, <3>1, <3>2, <4>1
        <5>2. Repeated(i)
          BY <2>2, <2>3, <4>1, <5>1
        <5>3. s <= id
          BY <2>2, <2>3, <3>2, <4>1, <5>1, <5>2
        <5> QED BY <2>2, <2>3, <4>1, <5>1, <5>3
      <4> QED BY <4>1
    <3>4. r \in DOMAIN rows /\ rows'[r] = rows[r]
      BY <2>2, <3>1, <3>3
    <3>5. CASE s # id
      <4>1. s \in DOMAIN rows /\ rows'[s] = rows[s]
        BY <2>2, <3>1, <3>5
      <4> QED BY <1>3, <2>3, <3>4, <4>1
    <3>6. CASE s = id /\ Repeated(i)
      <4>1. s \in DOMAIN rows /\ rows'[s].first = rows[s].first /\ rows'[s].key = rows[s].key
        BY <2>2, <3>6
      <4> QED BY <1>3, <2>3, <3>4, <4>1
    <3>7. CASE s = id /\ ~Repeated(i)
      <4>1. rows[r].key = journal[i].key /\ rows'[s].first = t
        BY <2>2, <2>3, <3>4, <3>7
      <4>2. t - rows[r].last > Window
        BY <1>0, <1>3, <2>0, <2>1, <3>4, <3>7, <4>1, NewRowLiesApart
      <4> QED BY <3>4, <4>1, <4>2
    <3> QED BY <3>5, <3>6, <3>7
  <2> QED BY <2>3
<1> QED BY <1>4, <1>5, FirstTable

(* The invariants of the table hold together.                               *)
LEMMA FirstTableAlways == Spec => [](RowInv /\ CountInv /\ RowsLieApart)
<1>1. Init => RowInv /\ CountInv /\ RowsLieApart
  BY InitRows, InitCount, InitApart
<1>2. Shape /\ SkipInv /\ ReplayInv /\ RowInv /\ CountInv /\ RowsLieApart /\ [Next]_vars
        => RowInv' /\ CountInv' /\ RowsLieApart'
  BY NextRows, NextCount, NextApart
<1> QED BY FirstInstall, <1>1, <1>2, PTL DEF Spec

(* Until the daemon is enabled the occurrences counted for a key are the   *)
(* journal entries of that key that were imported, wherever backfills died *)
(* and however often they were run again: insert, mark and consolidation   *)
(* together count each entry once.                                         *)
THEOREM FirstImportCountsOnce == Spec => []FirstImportIsExact
<1>1. CountInv => FirstImportIsExact
  BY DEF CountInv, FirstImportIsExact
<1> QED BY FirstTableAlways, <1>1, PTL

(* On a first installation, and while the clock is not set back, two rows  *)
(* of a key lie farther apart than the dedup window.                       *)
THEOREM CoalescedRowsLieApart == Spec => []RowsLieApart
BY FirstTableAlways, PTL
=============================================================================
