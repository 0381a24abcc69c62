-------------------------- MODULE WorkspaceProofs ---------------------------
(***************************************************************************)
(* A workspace, whatever its rows, its foreign keys between them and their *)
(* number, the groups in which they are inserted, the runs that are        *)
(* removed together and the sizes of the pages.                            *)
(*                                                                         *)
(* The removal of runs is followed with one set: Reach(due), the rows that *)
(* refer to what is due and the artifacts they name.  It is closed under   *)
(* the foreign keys, since an artifact belongs to one event, so no cascade *)
(* leaves it (Within).  Conversely what is deleted at Commit is closed too *)
(* (Integrity) and has all that was queued and doomed, so that it has all  *)
(* that is due (AllCovered).  Neither depends on what others insert.       *)
(***************************************************************************)
EXTENDS Workspace, FiniteSetTheorems, WellFoundedInduction, TLAPS

(* Induction over numbers, and what the foreign keys take along.           *)

\* A set of numbers that is not empty has a least one.
LEMMA LeastOf ==
  ASSUME NEW T \in SUBSET Nat, T # {}
  PROVE  \E n \in T : \A m \in T : n <= m
<1>1. IsWellFoundedOn(OpToRel(<, Nat), Nat)
  BY NatLessThanWellFounded
<1>2. PICK n \in T : \A m \in T : <<m, n>> \notin OpToRel(<, Nat)
  BY <1>1, WFMin
<1>3. \A m \in T : ~(m < n)
  BY <1>2 DEF OpToRel
<1>4. QED
  BY <1>3

\* Induction over a set of numbers.
LEMMA EveryNumber ==
  ASSUME NEW T, 0 \in T, \A n \in Nat : n \in T => n + 1 \in T
  PROVE  Nat \subseteq T
<1>1. SUFFICES ASSUME Nat \ T # {} PROVE FALSE
  OBVIOUS
<1>2. PICK n \in Nat \ T : \A m \in Nat \ T : n <= m
  BY <1>1, LeastOf
<1>3. n # 0 /\ n - 1 \in Nat
  BY <1>2
<1>4. n - 1 \in T
  BY <1>2, <1>3
<1>5. (n - 1) + 1 \in T
  BY <1>3, <1>4
<1>6. QED
  BY <1>2, <1>5

Chain(D, S, X, N) == D = [n \in 0..N |-> IF n = 0 THEN S ELSE Further(D[n - 1], X)]

\* What refers to S within X in at most n steps: the levels exist for every n.
LEMMA ChainExists ==
  ASSUME NEW S, NEW X, NEW N \in Nat
  PROVE  \E D : Chain(D, S, X, N)
<1> DEFINE T == {n \in Nat : \E D : Chain(D, S, X, n)}
<1>1. 0 \in T
  <2>1. Chain([n \in 0..0 |-> S], S, X, 0)
    BY DEF Chain
  <2>2. QED
    BY <2>1
<1>2. ASSUME NEW n \in Nat, n \in T PROVE n + 1 \in T
  <2>1. PICK D : Chain(D, S, X, n)
    BY <1>2
  <2> DEFINE E == [m \in 0..n + 1 |-> IF m = n + 1 THEN Further(D[n], X) ELSE D[m]]
  <2>2. \A m \in 0..n : D[m] = IF m = 0 THEN S ELSE Further(D[m - 1], X)
    BY <2>1 DEF Chain
  <2>3. \A m \in 0..n + 1 : E[m] = IF m = 0 THEN S ELSE Further(E[m - 1], X)
    <3> TAKE m \in 0..n + 1
    <3>1. CASE m = n + 1
      BY <3>1
    <3>2. CASE m \in 0..n /\ m # 0
      <4>1. E[m] = D[m] /\ E[m - 1] = D[m - 1]
        BY <3>2
      <4>2. QED
        BY <2>2, <3>2, <4>1
    <3>3. CASE m = 0
      BY <2>2, <3>3
    <3>4. QED
      BY <3>1, <3>2, <3>3
  <2>4. Chain(E, S, X, n + 1)
    <3>1. E = [m \in 0..n + 1 |-> E[m]]
      OBVIOUS
    <3>2. [m \in 0..n + 1 |-> E[m]] = [m \in 0..n + 1 |-> IF m = 0 THEN S ELSE Further(E[m - 1], X)]
      BY <2>3
    <3>3. QED
      BY <3>1, <3>2 DEF Chain
  <2>5. QED
    BY <2>4
<1>3. Nat \subseteq T
  BY <1>1, <1>2, EveryNumber
<1>4. QED
  BY <1>3

\* Dependents is the last level of such a chain.
LEMMA DependentsChain ==
  ASSUME NEW S, NEW X
  PROVE  \E D : Chain(D, S, X, Cardinality(Rows)) /\ Dependents(S, X) = D[Cardinality(Rows)]
<1>1. Cardinality(Rows) \in Nat
  BY WorkspaceAssumption, FS_CardinalityType
<1>2. PICK D : Chain(D, S, X, Cardinality(Rows))
  BY <1>1, ChainExists
<1>3. Chain(CHOOSE E : Chain(E, S, X, Cardinality(Rows)), S, X, Cardinality(Rows))
  BY <1>2
<1>4. QED
  BY <1>3 DEF Dependents, Chain

ClosedUnder(C, X) == Further(C, X) \subseteq C

\* The rows of S stay, and all others are rows of X.
LEMMA DependentsBounds ==
  ASSUME NEW S, NEW X
  PROVE  S \subseteq Dependents(S, X) /\ Dependents(S, X) \subseteq S \cup X
<1> DEFINE N == Cardinality(Rows)
<1>1. PICK D : Chain(D, S, X, N) /\ Dependents(S, X) = D[N]
  BY DependentsChain
<1>2. N \in Nat
  BY WorkspaceAssumption, FS_CardinalityType
<1> HIDE DEF N
<1> DEFINE T == {n \in Nat : n <= N => S \subseteq D[n] /\ D[n] \subseteq S \cup X}
<1>3. 0 \in T
  BY <1>1, <1>2 DEF Chain
<1>4. ASSUME NEW n \in Nat, n \in T PROVE n + 1 \in T
  <2>1. n + 1 <= N => D[n + 1] = Further(D[n], X)
    BY <1>1, <1>2 DEF Chain
  <2>2. QED
    BY <1>2, <1>4, <2>1 DEF Further
<1>5. Nat \subseteq T
  BY <1>3, <1>4, EveryNumber
<1>6. QED
  BY <1>1, <1>2, <1>5 DEF N

\* They are in every set that has S and is closed under the foreign keys in X.
LEMMA DependentsLeast ==
  ASSUME NEW S, NEW X, NEW C, S \subseteq C, ClosedUnder(C, X)
  PROVE  Dependents(S, X) \subseteq C
<1> DEFINE N == Cardinality(Rows)
<1>1. PICK D : Chain(D, S, X, N) /\ Dependents(S, X) = D[N]
  BY DependentsChain
<1>2. N \in Nat
  BY WorkspaceAssumption, FS_CardinalityType
<1> HIDE DEF N
<1> DEFINE T == {n \in Nat : n <= N => D[n] \subseteq C}
<1>3. 0 \in T
  BY <1>1, <1>2 DEF Chain
<1>4. ASSUME NEW n \in Nat, n \in T PROVE n + 1 \in T
  <2>1. n + 1 <= N => D[n + 1] = Further(D[n], X)
    BY <1>1, <1>2 DEF Chain
  <2>2. QED
    BY <1>2, <1>4, <2>1 DEF Further, ClosedUnder
<1>5. Nat \subseteq T
  BY <1>3, <1>4, EveryNumber
<1>6. QED
  BY <1>1, <1>2, <1>5 DEF N

\* As many steps as there are rows are enough.
LEMMA DependentsClosed ==
  ASSUME NEW S \in SUBSET Rows, NEW X \in SUBSET Rows
  PROVE  ClosedUnder(Dependents(S, X), X)
<1> DEFINE N == Cardinality(Rows)
<1>1. PICK D : Chain(D, S, X, N) /\ Dependents(S, X) = D[N]
  BY DependentsChain
<1>2. N \in Nat
  BY WorkspaceAssumption, FS_CardinalityType
<1>3. \A n \in 0..N : D[n] = IF n = 0 THEN S ELSE Further(D[n - 1], X)
  BY <1>1 DEF Chain
<1>4. \A E \in SUBSET Rows : IsFiniteSet(E) /\ Cardinality(E) \in Nat /\ Cardinality(E) <= N
  BY WorkspaceAssumption, FS_Subset, FS_CardinalityType
<1>5. \A E, F \in SUBSET Rows : E \subseteq F /\ E # F => Cardinality(E) < Cardinality(F)
  <2> SUFFICES ASSUME NEW E \in SUBSET Rows, NEW F \in SUBSET Rows, E \subseteq F, E # F
               PROVE  Cardinality(E) < Cardinality(F)
    OBVIOUS
  <2>1. Cardinality(E) <= Cardinality(F) /\ Cardinality(E) # Cardinality(F)
    BY <1>4, FS_Subset
  <2>2. QED
    BY <1>4, <2>1
<1>a. CASE S = {}
  <2>1. ClosedUnder({}, X)
    BY DEF ClosedUnder, Further
  <2>2. Dependents(S, X) \subseteq {}
    BY <1>a, <2>1, DependentsLeast
  <2>3. QED
    BY <2>1, <2>2
<1>b. CASE S # {}
  <2> HIDE DEF N
  <2> DEFINE T == {n \in Nat : n <= N =>
                     /\ D[n] \in SUBSET Rows
                     /\ ClosedUnder(D[n], X) \/ Cardinality(D[n]) > n}
  <2>1. 0 \in T
    <3>1. D[0] = S
      BY <1>2, <1>3
    <3>2. Cardinality(S) # 0
      BY <1>4, <1>b, FS_EmptySet
    <3>3. QED
      BY <1>4, <3>1, <3>2
  <2>2. ASSUME NEW n \in Nat, n \in T PROVE n + 1 \in T
    <3> SUFFICES ASSUME n + 1 <= N PROVE n + 1 \in T
      OBVIOUS
    <3>1. D[n + 1] = Further(D[n], X) /\ n <= N
      BY <1>1, <1>2 DEF Chain
    <3>2. D[n] \in SUBSET Rows /\ (ClosedUnder(D[n], X) \/ Cardinality(D[n]) > n)
      BY <2>2, <3>1
    <3>3. D[n + 1] \in SUBSET Rows /\ D[n] \subseteq D[n + 1]
      BY <3>1, <3>2 DEF Further
    <3>4. CASE ClosedUnder(D[n], X)
      <4>1. D[n + 1] = D[n]
        BY <3>1, <3>3, <3>4 DEF ClosedUnder
      <4>2. ClosedUnder(D[n + 1], X)
        BY <3>4, <4>1
      <4>3. QED
        BY <3>3, <4>2
    <3>5. CASE ~ClosedUnder(D[n], X)
      <4>1. D[n + 1] # D[n]
        BY <3>1, <3>5 DEF ClosedUnder
      <4>2. Cardinality(D[n + 1]) > Cardinality(D[n])
        BY <1>5, <3>2, <3>3, <4>1
      <4>3. Cardinality(D[n]) \in Nat /\ Cardinality(D[n + 1]) \in Nat
        BY <1>4, <3>2, <3>3
      <4>4. QED
        BY <3>2, <3>3, <3>5, <4>2, <4>3
    <3>6. QED
      BY <3>4, <3>5
  <2>3. Nat \subseteq T
    BY <2>1, <2>2, EveryNumber
  <2>4. D[N] \in SUBSET Rows /\ (ClosedUnder(D[N], X) \/ Cardinality(D[N]) > N)
    BY <1>2, <2>3
  <2>5. ~(Cardinality(D[N]) > N)
    BY <1>2, <1>4, <2>4
  <2>6. QED
    BY <1>1, <2>4, <2>5
<1>6. QED
  BY <1>a, <1>b

-----------------------------------------------------------------------------
(* The orders of the tables.                                               *)

\* The place of every table in the order of upgrade() and in that of downgrade().
UpgradePlace ==
  [users |-> 1, workspaces |-> 2, identities |-> 3, memberships |-> 4, projects |-> 5,
   datasets |-> 6, policies |-> 7, evaluator_definitions |-> 8, artifacts |-> 9,
   experiments |-> 10, dataset_versions |-> 11, runs |-> 12, conversations |-> 13,
   turns |-> 14, spans |-> 15, events |-> 16, evaluator_results |-> 17, reviews |-> 18,
   jobs |-> 19, audit_events |-> 20, retention_rules |-> 21, artifact_deletions |-> 22]
DowngradePlace ==
  [artifact_deletions |-> 1, retention_rules |-> 2, audit_events |-> 3, jobs |-> 4,
   reviews |-> 5, evaluator_results |-> 6, events |-> 7, spans |-> 8, turns |-> 9,
   conversations |-> 10, runs |-> 11, dataset_versions |-> 12, experiments |-> 13,
   artifacts |-> 14, evaluator_definitions |-> 15, policies |-> 16, datasets |-> 17,
   projects |-> 18, memberships |-> 19, identities |-> 20, workspaces |-> 21, users |-> 22]

Tables == Owned \cup {"users", "identities", "workspaces"}

\* The tables in the order of upgrade() are all the tables, each once.
LEMMA Places ==
  /\ Len(UpgradeOrder) = 22 /\ Len(DowngradeOrder) = 22
  /\ \A i \in 1..22 : UpgradeOrder[i] \in Tables /\ UpgradePlace[UpgradeOrder[i]] = i
  /\ \A i \in 1..22 : DowngradeOrder[i] \in Tables /\ DowngradePlace[DowngradeOrder[i]] = i
  /\ \A t \in Tables : UpgradePlace[t] \in 1..22 /\ UpgradeOrder[UpgradePlace[t]] = t
  /\ \A t \in Tables : DowngradePlace[t] \in 1..22 /\ DowngradeOrder[DowngradePlace[t]] = t
<1>1. Len(UpgradeOrder) = 22 /\ Len(DowngradeOrder) = 22
  BY DEF UpgradeOrder, DowngradeOrder
<1>2. \A i \in 1..22 : UpgradeOrder[i] \in Tables /\ UpgradePlace[UpgradeOrder[i]] = i
  BY DEF UpgradeOrder, UpgradePlace, Tables, Owned
<1>3. \A i \in 1..22 : DowngradeOrder[i] \in Tables /\ DowngradePlace[DowngradeOrder[i]] = i
  BY DEF DowngradeOrder, DowngradePlace, Tables, Owned
<1>4. \A t \in Tables : UpgradePlace[t] \in 1..22 /\ UpgradeOrder[UpgradePlace[t]] = t
  BY DEF UpgradeOrder, UpgradePlace, Tables, Owned
<1>5. \A t \in Tables : DowngradePlace[t] \in 1..22 /\ DowngradeOrder[DowngradePlace[t]] = t
  BY DEF DowngradeOrder, DowngradePlace, Tables, Owned
<1>6. QED
  BY <1>1, <1>2, <1>3, <1>4, <1>5

\* A foreign key names a table that is created no later and dropped no earlier.
LEMMA KeysInOrder ==
  \A k \in ForeignKeys :
    /\ k.from \in Tables /\ k.to \in Tables
    /\ UpgradePlace[k.to] <= UpgradePlace[k.from]
    /\ DowngradePlace[k.from] <= DowngradePlace[k.to]
<1>1. ASSUME NEW k \in OwnedKeys
      PROVE  /\ k.from \in Tables /\ k.to \in Tables
             /\ UpgradePlace[k.to] <= UpgradePlace[k.from]
             /\ DowngradePlace[k.from] <= DowngradePlace[k.to]
  BY <1>1 DEF OwnedKeys, Key, Owned, Tables, UpgradePlace, DowngradePlace
<1>2. ASSUME NEW k \in ResourceKeys \cup TraceKeys \cup ResultKeys
      PROVE  /\ k.from \in Tables /\ k.to \in Tables
             /\ UpgradePlace[k.to] <= UpgradePlace[k.from]
             /\ DowngradePlace[k.from] <= DowngradePlace[k.to]
  BY <1>2 DEF ResourceKeys, TraceKeys, ResultKeys, Key, Owned, Tables, UpgradePlace, DowngradePlace
<1>3. QED
  BY <1>1, <1>2 DEF ForeignKeys

\* The keys that restrict.
LEMMA RestrictingKeys ==
  ASSUME NEW x \in Rows, NEW y \in Refers[x],
         Key(Table[x], Table[y], "cascade") \notin ForeignKeys
  PROVE  \/ Table[x] = "experiments" /\ Table[y] = "projects"
         \/ Table[x] = "runs" /\ Table[y] = "experiments"
         \/ Table[x] = "events" /\ Table[y] = "artifacts"
         \/ Table[x] = "evaluator_results" /\ Table[y] = "evaluator_definitions"
<1>1. PICK k \in ForeignKeys : k.from = Table[x] /\ k.to = Table[y]
  BY ReferenceAssumption
<1>2. k # Key(Table[x], Table[y], "cascade")
  BY <1>1
<1>3. k \notin OwnedKeys
  BY <1>1, <1>2 DEF OwnedKeys, Key
<1>4. k \in ResourceKeys \cup TraceKeys \cup ResultKeys
  BY <1>1, <1>3 DEF ForeignKeys
<1>5. QED
  BY <1>1, <1>2, <1>4 DEF ResourceKeys, TraceKeys, ResultKeys, Key

\* What refers to an artifact is an event.
LEMMA ArtifactKeys ==
  ASSUME NEW x \in Rows, NEW y \in Refers[x], Table[y] = "artifacts"
  PROVE  Table[x] = "events"
<1>1. PICK k \in ForeignKeys : k.from = Table[x] /\ k.to = "artifacts"
  BY ReferenceAssumption
<1>2. QED
  BY <1>1 DEF ForeignKeys, OwnedKeys, ResourceKeys, TraceKeys, ResultKeys, Key

\* While tables are left there is one that no other one left refers to.
LEMMA FirstExists ==
  ASSUME NEW T, T \subseteq Emptied \cup {"jobs"}, T # {}
  PROVE  /\ FirstOf(T) \in T
         /\ \A u \in T \ {FirstOf(T)} : FirstOf(T) \notin ModelKeys(u)
<1>0. \A u : "jobs" \notin ModelKeys(u)
  BY DEF ModelKeys
<1>1. CASE T = {"jobs"}
  BY <1>1 DEF FirstOf
<1>2. CASE T # {"jobs"}
  <2>1. PICK s : s \in T \ {"jobs"}
    BY <1>2
  <2> DEFINE Inner == {"datasets", "projects", "experiments", "runs", "conversations", "evaluator_definitions"}
  <2>2. \A u : ModelKeys(u) \subseteq Inner \cup {"artifacts"}
    BY DEF ModelKeys
  <2>3. "artifacts" \notin T
    BY DEF Emptied
  <2>4. \E t \in T \ {"jobs"} : \A u \in T \ {t} : t \notin ModelKeys(u)
    <3>1. CASE s \notin Inner
      BY <2>1, <2>2, <2>3, <3>1
    <3>2. CASE \E t \in T \ {"jobs"} : t \notin Inner
      BY <2>2, <2>3, <3>2
    <3>3. CASE T \ {"jobs"} \subseteq Inner
      <4>1. \A u \in T : u \in Inner \cup {"jobs"}
        BY <3>3
      <4>2. CASE "conversations" \in T
        BY <4>1, <4>2 DEF ModelKeys
      <4>3. CASE "conversations" \notin T /\ "runs" \in T
        BY <4>1, <4>3 DEF ModelKeys
      <4>4. CASE "conversations" \notin T /\ "runs" \notin T /\ "experiments" \in T
        BY <4>1, <4>4 DEF ModelKeys
      <4>5. CASE T \cap {"conversations", "runs", "experiments"} = {}
        <5>1. \A u \in T : ModelKeys(u) = {}
          BY <4>1, <4>5 DEF ModelKeys
        <5>2. QED
          BY <2>1, <5>1
      <4>6. QED
        BY <4>2, <4>3, <4>4, <4>5
    <3>4. QED
      BY <3>2, <3>3
  <2>5. QED
    BY <1>2, <2>4 DEF FirstOf
<1>3. QED
  BY <1>1, <1>2

-----------------------------------------------------------------------------
(* Listings.                                                               *)

Sorted(s) == \A i, j \in DOMAIN s : i < j => Later(s[j], s[i])

\* The order of a listing (created_at, id) is total on the rows.
LEMMA LaterTotal ==
  /\ \A x \in Rows : ~Later(x, x)
  /\ \A x, y \in Rows : x # y => Later(x, y) \/ Later(y, x)
  /\ \A x, y, z \in Rows : Later(x, y) /\ Later(y, z) => Later(x, z)
  /\ \A x, y \in Rows : Beyond(x, y) <=> Later(x, y)
BY WorkspaceAssumption DEF Later, Beyond

\* Of some rows one comes first.
LEMMA Earliest ==
  ASSUME NEW S \in SUBSET Rows, S # {}
  PROVE  \E x \in S : \A y \in S \ {x} : Later(y, x)
<1> DEFINE Times == {Created[x] : x \in S}
<1>1. Times \in SUBSET Nat /\ Times # {}
  BY WorkspaceAssumption
<1>2. PICK c \in Times : \A m \in Times : c <= m
  BY <1>1, LeastOf
<1> DEFINE First == {x \in S : Created[x] = c}
<1> DEFINE Ranks == {Rank[x] : x \in First}
<1>3. Ranks \in SUBSET Nat /\ Ranks # {}
  BY <1>2, WorkspaceAssumption
<1>4. PICK n \in Ranks : \A m \in Ranks : n <= m
  BY <1>3, LeastOf
<1>5. PICK x \in First : Rank[x] = n
  BY <1>4
<1>6. ASSUME NEW y \in S \ {x} PROVE Later(y, x)
  <2>1. Created[y] \in Times /\ Created[x] = c
    BY <1>5
  <2>2. Created[y] >= Created[x] /\ Created[y] \in Nat /\ Created[x] \in Nat
    BY <1>1, <1>2, <2>1
  <2>3. CASE Created[y] = Created[x]
    <3>1. Rank[y] \in Ranks /\ Rank[y] # Rank[x]
      BY <1>5, <1>6, <2>3, WorkspaceAssumption
    <3>2. n <= Rank[y] /\ Rank[y] \in Nat /\ n \in Nat
      BY <1>3, <1>4, <3>1
    <3>3. Rank[y] > Rank[x]
      BY <1>5, <3>1, <3>2
    <3>4. QED
      BY <2>3, <3>3 DEF Later
  <2>4. QED
    BY <2>2, <2>3 DEF Later
<1>7. QED
  BY <1>5, <1>6

\* Every set of rows can be listed.
LEMMA ListingExists ==
  ASSUME NEW S \in SUBSET Rows
  PROVE  \E s \in [1..Cardinality(S) -> S] : Sorted(s)
<1> DEFINE T == {n \in Nat : \A E \in SUBSET Rows :
                    Cardinality(E) = n => \E s \in [1..n -> E] : Sorted(s)}
<1>1. \A E \in SUBSET Rows : IsFiniteSet(E) /\ Cardinality(E) \in Nat
  BY WorkspaceAssumption, FS_Subset, FS_CardinalityType
<1>2. 0 \in T
  <2> SUFFICES ASSUME NEW E \in SUBSET Rows PROVE \E s \in [1..0 -> E] : Sorted(s)
    OBVIOUS
  <2>1. [i \in 1..0 |-> CHOOSE x \in E : TRUE] \in [1..0 -> E]
    OBVIOUS
  <2>2. \A s \in [1..0 -> E] : Sorted(s)
    BY DEF Sorted
  <2>3. QED
    BY <2>1, <2>2
<1>3. ASSUME NEW n \in Nat, n \in T PROVE n + 1 \in T
  <2> SUFFICES ASSUME NEW E \in SUBSET Rows, Cardinality(E) = n + 1
               PROVE  \E s \in [1..n + 1 -> E] : Sorted(s)
    OBVIOUS
  <2>1. E # {}
    BY FS_EmptySet
  <2>2. PICK x \in E : \A y \in E \ {x} : Later(y, x)
    BY <2>1, Earliest
  <2>3. Cardinality(E \ {x}) = n
    <3>1. Cardinality(E \ {x}) = Cardinality(E) - 1
      BY <1>1, FS_RemoveElement
    <3>2. QED
      BY <3>1
  <2>4. PICK s \in [1..n -> E \ {x}] : Sorted(s)
    BY <1>3, <2>3
  <2> DEFINE u == [i \in 1..n + 1 |-> IF i = 1 THEN x ELSE s[i - 1]]
  <2>5. u \in [1..n + 1 -> E]
    <3> SUFFICES ASSUME NEW i \in 1..n + 1, i # 1 PROVE s[i - 1] \in E
      OBVIOUS
    <3>1. i - 1 \in 1..n
      OBVIOUS
    <3>2. QED
      BY <2>4, <3>1
  <2>6. ASSUME NEW i \in 1..n + 1, NEW j \in 1..n + 1, i < j PROVE Later(u[j], u[i])
    <3>1. j - 1 \in 1..n /\ u[j] = s[j - 1]
      BY <2>6
    <3>2. CASE i = 1
      BY <2>2, <2>4, <3>1, <3>2
    <3>3. CASE i # 1
      <4>1. i - 1 \in 1..n /\ u[i] = s[i - 1] /\ i - 1 < j - 1
        BY <2>6, <3>3
      <4>2. QED
        BY <2>4, <3>1, <4>1 DEF Sorted
    <3>4. QED
      BY <3>2, <3>3
  <2>7. Sorted(u)
    BY <2>6 DEF Sorted
  <2>8. QED
    BY <2>5, <2>7
<1>4. Nat \subseteq T
  BY <1>2, <1>3, EveryNumber
<1>5. QED
  BY <1>1, <1>4

\* A listing has every row once, in order.
LEMMA ListingExact ==
  ASSUME NEW S \in SUBSET Rows
  PROVE  /\ Listing(S) \in Seq(S) /\ DOMAIN Listing(S) = 1..Len(Listing(S))
         /\ Sorted(Listing(S))
         /\ \A x \in S : \E i \in DOMAIN Listing(S) : Listing(S)[i] = x
<1> DEFINE n == Cardinality(S)
           s == Listing(S)
<1>1. IsFiniteSet(S) /\ n \in Nat
  BY WorkspaceAssumption, FS_Subset, FS_CardinalityType
<1>2. s \in [1..n -> S] /\ Sorted(s)
  BY ListingExists DEF Listing, Sorted
<1> HIDE DEF n, s
<1>3. ASSUME NEW i \in 1..n, NEW j \in 1..n, i # j PROVE s[i] # s[j]
  <2>1. i < j \/ j < i
    BY <1>1, <1>3
  <2>2. Later(s[i], s[j]) \/ Later(s[j], s[i])
    BY <1>2, <2>1 DEF Sorted
  <2>3. QED
    BY <1>2, <2>2, LaterTotal
<1>4. s \in Injection(1..n, S)
  BY <1>2, <1>3 DEF Injection, IsInjective
<1>5. Cardinality(1..n) = n
  BY <1>1, FS_Interval
<1>6. s \in Surjection(1..n, S)
  BY <1>1, <1>4, <1>5, FS_Injection DEF n
<1>7. \A x \in S : \E i \in 1..n : s[i] = x
  BY <1>6 DEF Surjection
<1>8. s \in Seq(S) /\ Len(s) = n
  BY <1>1, <1>2
<1>9. QED
  BY <1>2, <1>7, <1>8 DEF s

-----------------------------------------------------------------------------
(* The inductive invariant.                                                *)

\* The tables that exist are the first that upgrade() creates, or the last that
\* downgrade() drops.
SchemaInv ==
  /\ IsFiniteSet(tables) /\ Cardinality(tables) \in 0..22
  /\ ~upgraded => /\ Cardinality(tables) < 22
                  /\ tables = {UpgradeOrder[i] : i \in 1..Cardinality(tables)}
  /\ upgraded => tables = {DowngradeOrder[i] : i \in 23 - Cardinality(tables)..22}

TxTyped ==
  /\ DOMAIN tx = {"kind", "queue", "run", "statement", "left", "gone", "doomed", "version",
                  "due", "late", "failed"}
  /\ tx.kind \in {"none", "runs", "workspace"}
  /\ tx.run \in Rows \cup {NoRow} /\ tx.statement \in 0..6
  /\ tx.queue \subseteq Rows /\ tx.gone \subseteq Rows /\ tx.doomed \subseteq Rows
  /\ tx.due \subseteq Rows /\ tx.left \subseteq Owned
  /\ tx.version \in Nat /\ tx.late \in BOOLEAN /\ tx.failed \in BOOLEAN

\* What a transaction may hold in its two kinds.
TxShape ==
  /\ TxTyped
  /\ tx.kind = "none" => tx = NoTx
  /\ tx.run = NoRow <=> tx.statement = 0
  /\ tx.kind # "runs" => tx.queue = {} /\ tx.run = NoRow
  /\ tx.kind # "workspace" => tx.left = {}
  /\ tx.left \subseteq Emptied \cup {"jobs"}
  /\ tx.gone \cup tx.due \cup tx.doomed \subseteq rows
  /\ \A x \in tx.doomed : Table[x] \in {"runs", "artifacts"}
  /\ \A x \in tx.queue \cup ({tx.run} \ {NoRow}) : Table[x] = "runs"

Unrefused == upgraded \in BOOLEAN /\ refused \in BOOLEAN /\ NeverRefused

\* delete_workspace works on a version that the row has or had.
VersionInv ==
  /\ workspace \in [hold : BOOLEAN, version : 1..MaxVersion + 1, deleted : BOOLEAN]
  /\ asked \in BOOLEAN
  /\ asked => workspace.version <= MaxVersion
  /\ tx.kind = "workspace" =>
       /\ asked /\ tx.version <= workspace.version
       /\ tx.version = workspace.version => ~workspace.hold

\* Referential integrity: for everybody, and for the transaction itself.
Integrity ==
  /\ rows \subseteq used /\ used \subseteq Rows
  /\ \A x \in rows : Refers[x] \subseteq rows
  /\ ~tx.failed => \A x \in rows \ tx.gone : Refers[x] \cap tx.gone = {}

\* What delete_workspace has emptied so far.
EmptiedSoFar ==
  tx.kind = "workspace" =>
    /\ \A x \in rows : Table[x] \in (Emptied \cup {"jobs"}) \ tx.left =>
         x \in tx.gone \/ (tx.late /\ x \notin tx.due)
    /\ \A x \in tx.due : \/ Table[x] \in Emptied \cup {"jobs"}
                         \/ Table[x] = "artifacts" /\ x \in tx.doomed

\* The events of a doomed artifact went before it, unless their turn has not come.
EventsFirst ==
  tx.kind = "runs" /\ ~tx.late =>
    \A v \in rows \ tx.gone : \A a \in Refers[v] \cap tx.doomed :
      Table[a] = "artifacts" => tx.run \in Refers[v] /\ tx.statement <= 5

\* What the removal of runs takes: what is due, and the artifacts that events that
\* are due name.
Reach(S, X) ==
  Dependents(S, X)
    \cup {a \in X : Table[a] = "artifacts" /\ \E v \in Dependents(S, X) : a \in Refers[v]}

Within ==
  tx.kind = "runs" =>
    /\ tx.queue \cup ({tx.run} \ {NoRow}) \subseteq tx.due
    /\ tx.gone \cup tx.doomed \subseteq Reach(tx.due, rows)

\* Whoever removes what is queued, doomed or in work, and with it all that refers to
\* it, removes all that is due.
Owes(C) ==
  /\ tx.queue \cup tx.doomed \cup ({tx.run} \ {NoRow}) \subseteq C
  /\ \A r \in tx.queue : Artifacts(r) \subseteq C
  /\ \A x \in rows : Refers[x] \cap C # {} => x \in C

AllCovered ==
  tx.kind = "runs" => \A C \in SUBSET Rows : Owes(C) => tx.due \subseteq C

\* A listing in progress.
ReaderInv ==
  /\ DOMAIN reader = {"limit", "after", "listed", "before", "done"}
  /\ reader.limit \in Nat /\ reader.after \in Rows \cup {NoRow}
  /\ reader.listed \in Seq(Rows) /\ reader.before \subseteq used /\ reader.done \in BOOLEAN
  /\ Sorted(reader.listed)
  /\ \A x \in reader.before : Table[x] = "runs"
  /\ reader.done => reader.before \cap rows \subseteq Range(reader.listed)
  /\ ~reader.done =>
       /\ reader.after = NoRow => reader.listed = <<>>
       /\ \A x \in Range(reader.listed) : x = reader.after \/ Later(reader.after, x)
       /\ \A x \in reader.before \cap rows :
            x \in Range(reader.listed) \/ reader.after = NoRow \/ Beyond(x, reader.after)

WInv ==
  /\ SchemaInv /\ Unrefused /\ TxShape /\ VersionInv /\ Integrity
  /\ EmptiedSoFar /\ EventsFirst /\ Within /\ AllCovered /\ ReaderInv

\* An empty database and no transaction.
LEMMA InitWInv == WorkspaceInit => WInv
<1> SUFFICES ASSUME WorkspaceInit PROVE WInv
  OBVIOUS
<1>0. /\ tables = {} /\ upgraded = FALSE /\ rows = {} /\ used = {}
      /\ workspace = [hold |-> FALSE, version |-> 1, deleted |-> FALSE]
      /\ asked = FALSE /\ refused = FALSE /\ tx = NoTx /\ reader = NoReader
  BY DEF WorkspaceInit
<1>1. SchemaInv
  <2>1. {UpgradeOrder[i] : i \in 1..0} = {}
    OBVIOUS
  <2>2. QED
    BY <1>0, <2>1, FS_EmptySet DEF SchemaInv
<1>2. TxShape
  BY <1>0 DEF TxShape, TxTyped, NoTx
<1>3. VersionInv
  <2>1. workspace \in [hold : BOOLEAN, version : 1..MaxVersion + 1, deleted : BOOLEAN]
    BY <1>0, WorkspaceAssumption
  <2>2. tx.kind = "none"
    BY <1>0 DEF NoTx
  <2>3. QED
    BY <1>0, <2>1, <2>2 DEF VersionInv
<1>4. Integrity /\ EmptiedSoFar /\ EventsFirst /\ Within /\ AllCovered
  BY <1>0 DEF Integrity, EmptiedSoFar, EventsFirst, Within, AllCovered, NoTx
<1>5. ReaderInv
  <2>1. DOMAIN reader = {"limit", "after", "listed", "before", "done"} /\ reader.limit \in Nat
    BY <1>0 DEF NoReader
  <2>2. ~reader.done /\ reader.done \in BOOLEAN
    BY <1>0 DEF NoReader
  <2>3. reader.listed = <<>> /\ reader.before = {} /\ reader.after = NoRow
    BY <1>0 DEF NoReader
  <2>4. Range(<<>>) = {} /\ Sorted(<<>>) /\ <<>> \in Seq(Rows)
    BY DEF Range, Sorted
  <2>5. QED
    BY <2>1, <2>2, <2>3, <2>4 DEF ReaderInv
<1>6. QED
  BY <1>0, <1>1, <1>2, <1>3, <1>4, <1>5 DEF WInv, Unrefused, NeverRefused

\* Both orders of the migration keep the tables closed under foreign keys.
LEMMA SchemaStep ==
  ASSUME SchemaInv, Unrefused, CreateTable \/ DropTable
  PROVE  SchemaInv' /\ Unrefused'
<1> DEFINE n == Cardinality(tables)
<1>1. IsFiniteSet(tables) /\ n \in 0..22
  BY DEF SchemaInv
<1> HIDE DEF n
<1>2. CASE CreateTable
  <2> DEFINE t == UpgradeOrder[n + 1]
  <2>1. /\ ~upgraded /\ tables' = tables \cup {t} /\ upgraded' = (Cardinality(tables') = 22)
        /\ refused' = (refused \/ \E k \in ForeignKeys : k.from = t /\ k.to \notin tables')
    BY <1>2, Places DEF CreateTable, n
  <2>2. n < 22 /\ tables = {UpgradeOrder[i] : i \in 1..n}
    BY <2>1 DEF SchemaInv, n
  <2>3. n + 1 \in 1..22 /\ t \in Tables /\ UpgradePlace[t] = n + 1
    BY <1>1, <2>2, Places
  <2>4. t \notin tables
    <3> SUFFICES ASSUME NEW i \in 1..n, UpgradeOrder[i] = t PROVE FALSE
      BY <2>2
    <3>1. i \in 1..22 /\ i # n + 1
      BY <1>1
    <3>2. QED
      BY <2>3, <3>1, Places
  <2>5. IsFiniteSet(tables') /\ Cardinality(tables') = n + 1
    BY <1>1, <2>1, <2>4, FS_AddElement DEF n
  <2>6. tables' = {UpgradeOrder[i] : i \in 1..n + 1}
    <3>1. 1..n + 1 = (1..n) \cup {n + 1}
      BY <1>1
    <3>2. QED
      BY <2>1, <2>2, <3>1
  <2>7. \A u \in Tables : UpgradePlace[u] <= n + 1 => u \in tables'
    <3> SUFFICES ASSUME NEW u \in Tables, UpgradePlace[u] <= n + 1 PROVE u \in tables'
      OBVIOUS
    <3>1. UpgradePlace[u] \in 1..n + 1 /\ UpgradeOrder[UpgradePlace[u]] = u
      BY <1>1, Places
    <3>2. QED
      BY <2>6, <3>1
  <2>8. Unrefused'
    <3>1. ~\E k \in ForeignKeys : k.from = t /\ k.to \notin tables'
      BY <2>3, <2>7, KeysInOrder
    <3>2. QED
      BY <2>1, <3>1 DEF Unrefused, NeverRefused
  <2>9. upgraded' => tables' = {DowngradeOrder[i] : i \in 1..22}
    <3> SUFFICES ASSUME upgraded' PROVE tables' = {DowngradeOrder[i] : i \in 1..22}
      OBVIOUS
    <3>1. n + 1 = 22
      BY <2>1, <2>5
    <3>2. tables' = Tables
      <4>1. Tables \subseteq tables'
        BY <2>7, <3>1, Places
      <4>2. tables' \subseteq Tables
        BY <2>6, <3>1, Places
      <4>3. QED
        BY <4>1, <4>2
    <3>3. QED
      BY <3>2, Places
  <2>10. CASE n + 1 = 22
    <3>1. upgraded'
      BY <2>1, <2>5, <2>10
    <3>2. n + 1 \in 0..22 /\ 23 - (n + 1) = 1
      BY <2>10
    <3>3. QED
      BY <2>5, <2>8, <2>9, <2>10, <3>1, <3>2 DEF SchemaInv
  <2>11. CASE n + 1 < 22
    <3>1. Cardinality(tables') # 22
      BY <1>1, <2>5, <2>11
    <3>2. ~upgraded'
      BY <2>1, <3>1
    <3>3. QED
      BY <1>1, <2>5, <2>6, <2>8, <2>11, <3>2 DEF SchemaInv, Unrefused
  <2>12. QED
    BY <1>1, <2>2, <2>8, <2>10, <2>11
<1>3. CASE DropTable
  <2> DEFINE t == DowngradeOrder[23 - n]
  <2>1. /\ upgraded /\ tables # {} /\ tables' = tables \ {t} /\ upgraded' = upgraded
        /\ refused' = (refused \/ \E k \in ForeignKeys : k.to = t /\ k.from \in tables')
    <3>1. 22 - n + 1 = 23 - n
      BY <1>1
    <3>2. QED
      BY <1>3, <3>1, Places DEF DropTable, n
  <2>2. n # 0 /\ tables = {DowngradeOrder[i] : i \in 23 - n..22}
    <3>1. n # 0
      BY <1>1, <2>1, FS_EmptySet DEF n
    <3>2. QED
      BY <2>1, <3>1 DEF SchemaInv, n
  <2>3. 23 - n \in 1..22 /\ t \in Tables /\ DowngradePlace[t] = 23 - n
    BY <1>1, <2>2, Places
  <2>4. t \in tables
    BY <1>1, <2>2
  <2>5. IsFiniteSet(tables') /\ Cardinality(tables') = n - 1
    BY <1>1, <2>1, <2>4, FS_RemoveElement DEF n
  <2>6. \A i \in 24 - n..22 : DowngradeOrder[i] # t
    <3> SUFFICES ASSUME NEW i \in 24 - n..22, DowngradeOrder[i] = t PROVE FALSE
      OBVIOUS
    <3>1. i \in 1..22 /\ i # 23 - n
      BY <1>1
    <3>2. QED
      BY <2>3, <3>1, Places
  <2>7. tables' = {DowngradeOrder[i] : i \in 24 - n..22}
    <3>1. 23 - n..22 = (24 - n..22) \cup {23 - n}
      BY <1>1, <2>2
    <3>2. QED
      BY <2>1, <2>2, <2>6, <3>1
  <2>8. \A u \in tables' : DowngradePlace[u] >= 24 - n
    <3> SUFFICES ASSUME NEW i \in 24 - n..22 PROVE DowngradePlace[DowngradeOrder[i]] >= 24 - n
      BY <2>7
    <3>1. i \in 1..22
      BY <1>1
    <3>2. QED
      BY <3>1, Places
  <2>9. Unrefused'
    <3> SUFFICES ASSUME NEW k \in ForeignKeys, k.to = t, k.from \in tables' PROVE FALSE
      BY <2>1 DEF Unrefused, NeverRefused
    <3>1. DowngradePlace[k.from] <= 23 - n /\ DowngradePlace[k.from] \in 1..22
      BY <2>3, KeysInOrder, Places
    <3>2. QED
      BY <1>1, <2>8, <3>1
  <2>10. 23 - (n - 1) = 24 - n /\ n - 1 \in 0..22
    BY <1>1, <2>2
  <2>11. QED
    BY <2>1, <2>5, <2>7, <2>9, <2>10 DEF SchemaInv
<1>4. QED
  BY <1>2, <1>3

-----------------------------------------------------------------------------
(* What the statements of a removal do.                                    *)

\* No foreign key leads out of Reach: an artifact belongs to one event.
LEMMA ReachClosed ==
  ASSUME NEW S \in SUBSET Rows, NEW X \in SUBSET Rows
  PROVE  /\ S \subseteq Reach(S, X)
         /\ \A x \in X : Refers[x] \cap Reach(S, X) # {} => x \in Dependents(S, X)
<1>1. S \subseteq Dependents(S, X) /\ Dependents(S, X) \subseteq S \cup X
  BY DependentsBounds
<1>2. ClosedUnder(Dependents(S, X), X)
  BY DependentsClosed
<1>3. ASSUME NEW x \in X, NEW y \in Refers[x], y \in Reach(S, X) PROVE x \in Dependents(S, X)
  <2>1. CASE y \in Dependents(S, X)
    BY <1>2, <2>1 DEF ClosedUnder, Further
  <2>2. CASE y \notin Dependents(S, X)
    <3>1. PICK v \in Dependents(S, X) : y \in Refers[v] /\ Table[y] = "artifacts"
      BY <1>3, <2>2 DEF Reach
    <3>2. v \in Rows /\ x \in Rows /\ y \in Refers[v] \cap Refers[x]
      BY <1>1, <3>1
    <3>3. v = x
      BY <3>1, <3>2, ReferenceAssumption
    <3>4. QED
      BY <3>1, <3>3
  <2>3. QED
    BY <2>1, <2>2
<1>4. QED
  BY <1>1, <1>3 DEF Reach

\* More rows, more that is reached.
LEMMA ReachGrows ==
  ASSUME NEW S \in SUBSET Rows, NEW X \in SUBSET Rows, NEW Y \in SUBSET Rows, X \subseteq Y
  PROVE  Dependents(S, X) \subseteq Dependents(S, Y) /\ Reach(S, X) \subseteq Reach(S, Y)
<1>1. S \subseteq Dependents(S, Y) /\ ClosedUnder(Dependents(S, Y), Y)
  BY DependentsBounds, DependentsClosed
<1>2. ClosedUnder(Dependents(S, Y), X)
  BY <1>1 DEF ClosedUnder, Further
<1>3. Dependents(S, X) \subseteq Dependents(S, Y)
  BY <1>1, <1>2, DependentsLeast
<1>4. QED
  BY <1>3 DEF Reach

\* What one DELETE statement takes along, and when it is refused.
LEMMA Deletion ==
  ASSUME Integrity, tx.gone \subseteq rows, NEW S \in SUBSET rows
  PROVE  LET D == Cascade(S \ tx.gone) IN
         /\ S \subseteq tx.gone \cup D
         /\ D \subseteq rows \ tx.gone
         /\ \A C : S \subseteq C /\ (\A x \in rows : Refers[x] \cap C # {} => x \in C)
                     => D \subseteq C
         /\ Dangling(D) => \E x \in rows \ (tx.gone \cup D) : \E y \in Refers[x] \cap S :
                             y \notin tx.gone /\ Key(Table[x], Table[y], "cascade") \notin ForeignKeys
         /\ ~tx.failed /\ ~Dangling(D) =>
              \A x \in rows \ (tx.gone \cup D) : Refers[x] \cap (tx.gone \cup D) = {}
<1> DEFINE E == S \ tx.gone
           X == {x \in rows \ tx.gone :
                   \A y \in Refers[x] : Key(Table[x], Table[y], "cascade") \in ForeignKeys \/ y \notin E}
           D == Cascade(E)
<1>1. E \in SUBSET Rows /\ X \in SUBSET Rows /\ rows \in SUBSET Rows
  BY DEF Integrity
<1>2. D = Dependents(E, X)
  BY DEF Cascade
<1>3. E \subseteq D /\ D \subseteq E \cup X
  <2>1. E \subseteq Dependents(E, X) /\ Dependents(E, X) \subseteq E \cup X
    BY DependentsBounds
  <2>2. QED
    BY <1>2, <2>1
<1>4. ClosedUnder(D, X)
  BY <1>1, <1>2, DependentsClosed
<1> HIDE DEF D
<1>5. S \subseteq tx.gone \cup D /\ D \subseteq rows \ tx.gone
  BY <1>3
<1>6. ASSUME NEW C, S \subseteq C, \A x \in rows : Refers[x] \cap C # {} => x \in C
      PROVE  D \subseteq C
  <2>1. E \subseteq C /\ ClosedUnder(C, X)
    BY <1>6 DEF ClosedUnder, Further
  <2>2. QED
    BY <1>2, <2>1, DependentsLeast
<1>7. ASSUME Dangling(D)
      PROVE  \E x \in rows \ (tx.gone \cup D) : \E y \in Refers[x] \cap S :
               y \notin tx.gone /\ Key(Table[x], Table[y], "cascade") \notin ForeignKeys
  <2>1. PICK x \in rows \ (tx.gone \cup D) : Refers[x] \cap D # {}
    BY <1>7 DEF Dangling
  <2>2. x \notin X
    BY <1>4, <2>1 DEF ClosedUnder, Further
  <2>3. QED
    BY <2>1, <2>2
<1>8. ASSUME ~tx.failed, ~Dangling(D)
      PROVE  \A x \in rows \ (tx.gone \cup D) : Refers[x] \cap (tx.gone \cup D) = {}
  BY <1>8 DEF Dangling, Integrity
<1>9. QED
  BY <1>5, <1>6, <1>7, <1>8 DEF D

(* What the three statements that delete do to the transaction.            *)

RunRows ==
  LET t == RunSteps[tx.statement] IN
  {x \in Of(t) : \/ tx.run \in Refers[x]
                 \/ t = "turns" /\ \E c \in Refers[x] : tx.run \in Refers[c]}

\* The six statements of delete_run, the events fifth.
LEMMA StatementOrder ==
  \A n \in 1..6 : /\ RunSteps[n] \in {"turns", "reviews", "evaluator_results", "spans", "events",
                                      "conversations"}
                  /\ RunSteps[n] = "events" <=> n = 5
                  /\ n = Len(RunSteps) <=> n = 6
BY DEF RunSteps

\* The rows D are deleted by the statement, and the statement is refused if it must be.
Deleted(D) ==
  /\ tx.kind # "none" /\ ~tx.failed /\ TxTyped'
  /\ tx'.gone = tx.gone \cup D /\ tx'.failed = Dangling(D)
  /\ tx'.kind = tx.kind /\ tx'.queue = tx.queue /\ tx'.version = tx.version
  /\ tx'.due = tx.due /\ tx'.late = tx.late
  /\ refused' = (refused \/ (Dangling(D) /\ ~tx.late))
  /\ UNCHANGED <<schema, rows, used, asked, reader, workspace>>

\* One DELETE of delete_run.
LEMMA RunStepEffect ==
  ASSUME TxShape, Integrity, RunStep
  PROVE  /\ tx.kind = "runs" /\ tx.statement \in 1..6 /\ tx.run \in Rows
         /\ Deleted(Cascade(RunRows \ tx.gone)) /\ tx'.left = tx.left
         /\ tx.statement = 6 => /\ tx'.statement = 0 /\ tx'.run = NoRow
                                /\ tx'.doomed = tx.doomed \cup {tx.run}
         /\ tx.statement # 6 => /\ tx'.statement = tx.statement + 1 /\ tx'.run = tx.run
                                /\ tx'.doomed = tx.doomed
<1> DEFINE D == Cascade(RunRows \ tx.gone)
<1>0. TxTyped
  BY DEF TxShape
<1>1. tx.kind = "runs" /\ ~tx.failed /\ tx.statement \in 1..6 /\ tx.run \in Rows
  BY DEF TxShape, TxTyped, RunStep, Moves
<1>2. D \subseteq Rows
  <2>1. RunRows \in SUBSET rows /\ tx.gone \subseteq rows
    BY DEF RunRows, Of, TxShape
  <2>2. QED
    BY <2>1, Deletion DEF Integrity
<1>3. UNCHANGED <<schema, rows, used, asked, reader, workspace>>
  BY DEF RunStep, Moves
<1>4. CASE tx.statement = 6
  <2> DEFINE T == [tx EXCEPT !.statement = 0, !.run = NoRow, !.doomed = @ \cup {tx.run}]
  <2>1. tx.statement = Len(RunSteps)
    BY <1>1, <1>4, StatementOrder
  <2>2. Delete(RunRows, T)
    BY <2>1 DEF RunStep, RunRows
  <2>3. tx' = [T EXCEPT !.gone = @ \cup D, !.failed = Dangling(D)]
        /\ refused' = (refused \/ (Dangling(D) /\ ~tx.late))
    BY <2>2 DEF Delete
  <2>4. Dangling(D) \in BOOLEAN
    BY DEF Dangling
  <2> HIDE DEF D
  <2>5. QED
    BY <1>0, <1>1, <1>2, <1>3, <1>4, <2>3, <2>4 DEF Deleted, TxTyped, D
<1>5. CASE tx.statement # 6
  <2> DEFINE T == [tx EXCEPT !.statement = @ + 1]
  <2>1. tx.statement # Len(RunSteps)
    BY <1>1, <1>5, StatementOrder
  <2>2. Delete(RunRows, T)
    BY <2>1 DEF RunStep, RunRows
  <2>3. tx' = [T EXCEPT !.gone = @ \cup D, !.failed = Dangling(D)]
        /\ refused' = (refused \/ (Dangling(D) /\ ~tx.late))
    BY <2>2 DEF Delete
  <2>4. Dangling(D) \in BOOLEAN
    BY DEF Dangling
  <2> HIDE DEF D
  <2>5. QED
    BY <1>0, <1>1, <1>2, <1>3, <1>5, <2>3, <2>4 DEF Deleted, TxTyped, D
<1>6. QED
  BY <1>4, <1>5

\* One DELETE of delete_workspace.
LEMMA EmptyTableEffect ==
  ASSUME TxShape, Integrity, EmptyTable
  PROVE  /\ tx.kind = "workspace" /\ tx.left # {}
         /\ Deleted(Cascade(Of(FirstOf(tx.left)) \ tx.gone))
         /\ tx'.left = tx.left \ {FirstOf(tx.left)}
         /\ tx'.statement = tx.statement /\ tx'.run = tx.run /\ tx'.doomed = tx.doomed
<1> DEFINE t == FirstOf(tx.left)
           D == Cascade(Of(t) \ tx.gone)
<1>0. TxTyped
  BY DEF TxShape
<1>1. /\ tx.kind = "workspace" /\ tx.left # {} /\ ~tx.failed
      /\ UNCHANGED <<schema, rows, used, asked, reader, workspace>>
      /\ Delete(Of(t), [tx EXCEPT !.left = @ \ {t}])
  BY DEF EmptyTable, Moves
<1>2. D \subseteq Rows
  <2>1. Of(t) \in SUBSET rows /\ tx.gone \subseteq rows
    BY DEF Of, TxShape
  <2>2. QED
    BY <2>1, Deletion DEF Integrity
<1>3. tx' = [[tx EXCEPT !.left = @ \ {t}] EXCEPT !.gone = @ \cup D, !.failed = Dangling(D)]
      /\ refused' = (refused \/ (Dangling(D) /\ ~tx.late))
  BY <1>1 DEF Delete
<1>4. Dangling(D) \in BOOLEAN
  BY DEF Dangling
<1> HIDE DEF D, t
<1>5. QED
  BY <1>0, <1>1, <1>2, <1>3, <1>4 DEF Deleted, TxTyped, D, t

\* The artifacts of the events that were deleted.
LEMMA FlushEffect ==
  ASSUME TxShape, Integrity, Flush
  PROVE  \E S \in SUBSET tx.doomed :
           /\ tx.left = {} /\ tx.run = NoRow
           /\ Deleted(Cascade(S \ tx.gone)) /\ tx'.left = tx.left
           /\ tx'.statement = tx.statement /\ tx'.run = tx.run /\ tx'.doomed = tx.doomed
<1>0. TxTyped
  BY DEF TxShape
<1>1. PICK S \in SUBSET (tx.doomed \ tx.gone) : Delete(S, tx)
  BY DEF Flush
<1> DEFINE D == Cascade(S \ tx.gone)
<1>2. /\ tx.kind # "none" /\ tx.left = {} /\ ~tx.failed /\ tx.run = NoRow
      /\ UNCHANGED <<schema, rows, used, asked, reader, workspace>>
  BY DEF Flush, Moves
<1>3. D \subseteq Rows
  <2>1. S \in SUBSET rows /\ tx.gone \subseteq rows
    BY DEF TxShape
  <2>2. QED
    BY <2>1, Deletion DEF Integrity
<1>4. tx' = [tx EXCEPT !.gone = @ \cup D, !.failed = Dangling(D)]
      /\ refused' = (refused \/ (Dangling(D) /\ ~tx.late))
  BY <1>1 DEF Delete
<1>5. Dangling(D) \in BOOLEAN
  BY DEF Dangling
<1> HIDE DEF D
<1>6. Deleted(D) /\ UNCHANGED <<tx.left, tx.statement, tx.run, tx.doomed>>
  BY <1>0, <1>2, <1>3, <1>4, <1>5 DEF Deleted, TxTyped
<1>7. QED
  BY <1>2, <1>6 DEF D

-----------------------------------------------------------------------------
(* The transaction: every step keeps its part of the invariant.            *)

TxInv == TxShape /\ Integrity /\ EmptiedSoFar /\ EventsFirst /\ Within /\ AllCovered

\* Without a transaction there is nothing to show of one.
LEMMA NoTxInv ==
  ASSUME tx' = NoTx, rows' \subseteq rows, UNCHANGED used, Integrity,
         \A x \in rows' : Refers[x] \subseteq rows'
  PROVE  TxInv'
<1>1. /\ tx'.kind = "none" /\ tx'.gone = {} /\ tx'.due = {} /\ tx'.failed = FALSE
  BY DEF NoTx
<1>2. TxShape'
  BY DEF TxShape, TxTyped, NoTx
<1>3. Integrity'
  BY <1>1 DEF Integrity
<1>4. (EmptiedSoFar /\ EventsFirst /\ Within /\ AllCovered)'
  BY <1>1 DEF EmptiedSoFar, EventsFirst, Within, AllCovered
<1>5. QED
  BY <1>2, <1>3, <1>4 DEF TxInv

\* A step that changes neither the rows nor the transaction keeps its invariant.
LEMMA QuietStep ==
  ASSUME TxInv, UNCHANGED <<rows, used, tx>>
  PROVE  TxInv'
BY DEF TxInv, TxShape, TxTyped, Integrity, EmptiedSoFar, EventsFirst, Within, Reach, AllCovered, Owes,
       Artifacts, Of

\* What others insert beside a removal takes nothing from what it owes.
LEMMA InsertStep ==
  ASSUME TxInv, NEW S \in SUBSET Rows, Insert(S)
  PROVE  TxInv'
<1>1. /\ S \cap used = {} /\ rows' = rows \cup S /\ used' = used \cup S
      /\ \A x \in S : Refers[x] \subseteq (rows \ tx.gone) \cup S
      /\ tx' = [tx EXCEPT !.late = tx.kind # "none"]
  BY DEF Insert
<1>2. /\ TxShape /\ Integrity /\ EmptiedSoFar /\ EventsFirst /\ Within /\ AllCovered
  BY DEF TxInv
<1>3. /\ tx'.kind = tx.kind /\ tx'.queue = tx.queue /\ tx'.run = tx.run /\ tx'.left = tx.left
      /\ tx'.gone = tx.gone /\ tx'.doomed = tx.doomed /\ tx'.due = tx.due
      /\ tx'.failed = tx.failed /\ tx'.statement = tx.statement /\ (tx.kind # "none" => tx'.late)
  BY <1>1, <1>2 DEF TxShape, TxTyped
<1>4. TxShape'
  <2>1. TxTyped'
    BY <1>1, <1>2 DEF TxShape, TxTyped
  <2>2. tx.kind = "none" => tx' = NoTx
    <3>1. tx.kind = "none" => tx = NoTx /\ tx' = [tx EXCEPT !.late = FALSE]
      BY <1>1, <1>2 DEF TxShape
    <3>2. QED
      BY <3>1 DEF NoTx
  <2>3. QED
    BY <1>1, <1>2, <1>3, <2>1, <2>2 DEF TxShape
<1>5. tx.gone \subseteq rows /\ tx.due \subseteq rows /\ rows \subseteq used /\ used \subseteq Rows
  BY <1>2 DEF TxShape, Integrity
<1>6. Integrity'
  BY <1>1, <1>2, <1>3, <1>5 DEF Integrity
<1>7. EmptiedSoFar' /\ EventsFirst'
  BY <1>1, <1>2, <1>3, <1>5 DEF EmptiedSoFar, EventsFirst
<1>8. Within'
  <2>1. Reach(tx.due, rows) \subseteq Reach(tx.due, rows')
    BY <1>1, <1>5, ReachGrows
  <2>2. QED
    BY <1>2, <1>3, <2>1 DEF Within
<1>9. AllCovered'
  <2> SUFFICES ASSUME tx.kind = "runs", NEW C \in SUBSET Rows, Owes(C)' PROVE tx.due \subseteq C
    BY <1>3 DEF AllCovered
  <2>1. \A r : Artifacts(r) \subseteq Artifacts(r)'
    BY <1>1 DEF Artifacts, Of
  <2>2. Owes(C)
    BY <1>1, <1>3, <2>1 DEF Owes
  <2>3. QED
    BY <1>2, <2>2 DEF AllCovered
<1>10. QED
  BY <1>4, <1>6, <1>7, <1>8, <1>9 DEF TxInv

\* The rows that a removal of runs owes are what depends on them when it begins.
LEMMA BeginRunsStep ==
  ASSUME TxInv, NEW R \in SUBSET Of("runs"), BeginRuns(R)
  PROVE  TxInv'
<1>1. /\ tx' = [NoTx EXCEPT !.kind = "runs", !.queue = R, !.due = DueRuns(R)]
      /\ UNCHANGED <<rows, used>>
  BY DEF BeginRuns
<1>2. /\ rows \subseteq Rows /\ R \subseteq rows /\ Integrity
      /\ \A r \in R : Table[r] = "runs"
  BY DEF TxInv, Integrity, Of
<1>3. R \subseteq Dependents(R, rows) /\ Dependents(R, rows) \subseteq rows
  BY <1>2, DependentsBounds
<1>4. R \subseteq DueRuns(R) /\ DueRuns(R) \subseteq rows
  BY <1>3 DEF DueRuns, Artifacts, Of
<1>5. /\ tx'.kind = "runs" /\ tx'.queue = R /\ tx'.due = DueRuns(R) /\ tx'.run = NoRow
      /\ tx'.gone = {} /\ tx'.doomed = {} /\ tx'.left = {} /\ tx'.failed = FALSE
  BY <1>1 DEF NoTx
<1>6. TxShape'
  <2>1. R \in SUBSET Rows /\ DueRuns(R) \in SUBSET Rows
    BY <1>2, <1>4
  <2>2. TxTyped'
    BY <1>1, <2>1 DEF TxTyped, NoTx
  <2>3. tx'.statement = 0
    BY <1>1 DEF NoTx
  <2>4. QED
    BY <1>1, <1>2, <1>4, <1>5, <2>2, <2>3 DEF TxShape
<1>7. (Integrity /\ EmptiedSoFar /\ EventsFirst /\ Within)'
  BY <1>1, <1>2, <1>4, <1>5 DEF Integrity, EmptiedSoFar, EventsFirst, Within
<1>8. AllCovered'
  <2> SUFFICES ASSUME NEW C \in SUBSET Rows, Owes(C)' PROVE DueRuns(R) \subseteq C
    BY <1>5 DEF AllCovered
  <2>1. R \subseteq C /\ \A x \in rows : Refers[x] \cap C # {} => x \in C
    BY <1>1, <1>5 DEF Owes
  <2>2. \A r \in R : Artifacts(r) \subseteq C
    BY <1>1, <1>5 DEF Owes, Artifacts, Of
  <2>3. ClosedUnder(C, rows)
    BY <2>1 DEF ClosedUnder, Further
  <2>4. Dependents(R, rows) \subseteq C
    BY <2>1, <2>3, DependentsLeast
  <2>5. QED
    BY <2>2, <2>4 DEF DueRuns
<1>9. QED
  BY <1>6, <1>7, <1>8 DEF TxInv

\* delete_run looks the artifacts of its events up before it deletes.
LEMMA SurveyStep ==
  ASSUME TxInv, NEW r \in Of("runs"), Survey(r)
  PROVE  TxInv'
<1>1. /\ tx.kind = "runs" /\ tx.run = NoRow /\ r \in tx.queue /\ UNCHANGED <<rows, used>>
      /\ tx' = [tx EXCEPT !.queue = @ \ {r}, !.run = r, !.statement = 1,
                          !.doomed = @ \cup Artifacts(r)]
  BY DEF Survey, Moves
<1>2. /\ TxShape /\ Integrity /\ EventsFirst /\ Within /\ AllCovered
  BY DEF TxInv
<1>3. /\ tx'.kind = "runs" /\ tx'.queue = tx.queue \ {r} /\ tx'.run = r /\ tx'.statement = 1
      /\ tx'.doomed = tx.doomed \cup Artifacts(r) /\ tx'.gone = tx.gone /\ tx'.due = tx.due
      /\ tx'.failed = tx.failed /\ tx'.late = tx.late /\ tx'.left = tx.left
  BY <1>1, <1>2 DEF TxShape, TxTyped
<1>4. /\ r \in Rows /\ r # NoRow /\ rows \subseteq Rows /\ tx.due \subseteq rows
      /\ Artifacts(r) \subseteq {a \in rows : Table[a] = "artifacts"}
  BY <1>2, WorkspaceAssumption DEF TxShape, Integrity, Artifacts, Of
<1>5. TxShape'
  <2>1. TxTyped
    BY <1>2 DEF TxShape
  <2>2. tx.queue \ {r} \in SUBSET Rows /\ tx.doomed \cup Artifacts(r) \in SUBSET Rows
    BY <1>4, <2>1 DEF TxTyped
  <2>3. TxTyped'
    BY <1>1, <1>4, <2>1, <2>2 DEF TxTyped
  <2>4. QED
    BY <1>1, <1>2, <1>3, <1>4, <2>3 DEF TxShape
<1>6. Integrity' /\ EmptiedSoFar'
  BY <1>1, <1>2, <1>3 DEF Integrity, EmptiedSoFar
<1>7. EventsFirst'
  <2> SUFFICES ASSUME ~tx.late, NEW v \in rows \ tx.gone,
                      NEW a \in Refers[v] \cap (tx.doomed \cup Artifacts(r)),
                      Table[a] = "artifacts"
               PROVE  r \in Refers[v]
    BY <1>1, <1>3 DEF EventsFirst
  <2>1. CASE a \in Artifacts(r)
    <3>1. PICK w \in rows : a \in Refers[w] /\ r \in Refers[w]
      BY <2>1 DEF Artifacts, Of
    <3>2. v = w
      BY <1>4, <3>1, ReferenceAssumption
    <3>3. QED
      BY <3>1, <3>2
  <2>2. CASE a \in tx.doomed
    <3>1. NoRow \in Refers[v]
      BY <1>1, <1>2, <2>2 DEF EventsFirst
    <3>2. QED
      BY <1>4, <3>1, WorkspaceAssumption
  <2>3. QED
    BY <2>1, <2>2
<1>8. Within'
  <2>1. r \in tx.due /\ tx.queue \subseteq tx.due
    BY <1>1, <1>2 DEF Within
  <2>2. r \in Reach(tx.due, rows)
    BY <1>4, <2>1, ReachClosed
  <2>3. Artifacts(r) \subseteq Reach(tx.due, rows)
    <3> SUFFICES ASSUME NEW a \in Artifacts(r) PROVE a \in Reach(tx.due, rows)
      OBVIOUS
    <3>1. PICK v \in rows : a \in Refers[v] /\ r \in Refers[v]
      BY DEF Artifacts, Of
    <3>2. v \in Dependents(tx.due, rows)
      BY <1>4, <2>2, <3>1, ReachClosed
    <3>3. QED
      BY <1>4, <3>1, <3>2 DEF Reach
  <2>4. QED
    BY <1>1, <1>2, <1>3, <2>1, <2>3 DEF Within
<1>9. AllCovered'
  <2> SUFFICES ASSUME NEW C \in SUBSET Rows, Owes(C)' PROVE tx.due \subseteq C
    BY <1>3 DEF AllCovered
  <2>1. \A q : Artifacts(q)' = Artifacts(q)
    BY <1>1 DEF Artifacts, Of
  <2>2. Owes(C)
    BY <1>1, <1>3, <1>4, <2>1 DEF Owes
  <2>3. QED
    BY <1>1, <1>2, <2>2 DEF AllCovered
<1>10. QED
  BY <1>5, <1>6, <1>7, <1>8, <1>9 DEF TxInv

\* A DELETE with its cascades takes what refers to the rows, and that only.
LEMMA DeletedFacts ==
  ASSUME TxInv, NEW S \in SUBSET rows, Deleted(Cascade(S \ tx.gone))
  PROVE  /\ Integrity' /\ rows' = rows /\ tx.gone \cup S \subseteq tx'.gone /\ tx'.gone \subseteq rows
         /\ tx'.kind = tx.kind /\ tx'.queue = tx.queue /\ tx'.due = tx.due /\ tx'.late = tx.late
         /\ tx.kind # "none"
         /\ \A C : S \cup tx.gone \subseteq C /\ (\A x \in rows : Refers[x] \cap C # {} => x \in C)
                     => tx'.gone \subseteq C
<1> DEFINE D == Cascade(S \ tx.gone)
<1>1. TxShape /\ Integrity /\ tx.gone \subseteq rows
  BY DEF TxInv, TxShape
<1>2. /\ S \subseteq tx.gone \cup D /\ D \subseteq rows \ tx.gone
      /\ \A C : S \subseteq C /\ (\A x \in rows : Refers[x] \cap C # {} => x \in C) => D \subseteq C
      /\ ~tx.failed /\ ~Dangling(D) =>
           \A x \in rows \ (tx.gone \cup D) : Refers[x] \cap (tx.gone \cup D) = {}
  BY <1>1, Deletion
<1>3. /\ tx.kind # "none" /\ ~tx.failed /\ tx'.gone = tx.gone \cup D /\ tx'.failed = Dangling(D)
      /\ UNCHANGED <<tx.kind, tx.queue, tx.due, tx.late, rows, used>>
  BY DEF Deleted
<1> HIDE DEF D
<1>4. Integrity'
  BY <1>1, <1>2, <1>3 DEF Integrity
<1>5. QED
  BY <1>1, <1>2, <1>3, <1>4

\* delete_workspace begins with every row of the owned tables due.
LEMMA BeginWorkspaceStep ==
  ASSUME TxInv, BeginWorkspace, workspace.version \in Nat
  PROVE  TxInv'
<1> DEFINE L == {"jobs"} \cup (Emptied \cap {Table[x] : x \in Rows})
           U == {x \in rows : Table[x] \in Emptied \cup {"artifacts", "jobs"}}
<1>1. /\ tx' = [NoTx EXCEPT !.kind = "workspace", !.left = L, !.doomed = Of("artifacts"),
                            !.version = workspace.version, !.due = U]
      /\ UNCHANGED <<rows, used>>
  BY DEF BeginWorkspace
<1>2. rows \subseteq Rows /\ Of("artifacts") \subseteq rows /\ U \subseteq rows
      /\ L \subseteq Emptied \cup {"jobs"} /\ L \subseteq Owned /\ Integrity
  BY DEF TxInv, Integrity, Of, Emptied, Owned
<1>3. \A x \in rows : /\ Table[x] \in Emptied \cup {"jobs"} => Table[x] \in L
                      /\ x \in U => Table[x] \in Emptied \cup {"jobs"}
                                    \/ (Table[x] = "artifacts" /\ x \in Of("artifacts"))
  <2> SUFFICES ASSUME NEW x \in rows
               PROVE  /\ Table[x] \in Emptied \cup {"jobs"} => Table[x] \in L
                      /\ x \in U => Table[x] \in Emptied \cup {"jobs"}
                                    \/ (Table[x] = "artifacts" /\ x \in Of("artifacts"))
    OBVIOUS
  <2>1. Table[x] \in {Table[y] : y \in Rows}
    BY <1>2
  <2>2. Table[x] \in Emptied \cup {"jobs"} => Table[x] \in L
    BY <2>1
  <2>3. x \in U => Table[x] \in Emptied \cup {"jobs"}
                  \/ (Table[x] = "artifacts" /\ x \in Of("artifacts"))
    <3>1. Table[x] = "artifacts" => x \in Of("artifacts")
      BY DEF Of
    <3>2. x \in U => Table[x] \in Emptied \cup {"artifacts", "jobs"}
      OBVIOUS
    <3>3. QED
      BY <3>1, <3>2
  <2>4. QED
    BY <2>2, <2>3
<1>4. \A x \in Of("artifacts") : Table[x] = "artifacts"
  BY DEF Of
<1> HIDE DEF L, U
<1>5. /\ tx'.kind = "workspace" /\ tx'.left = L /\ tx'.doomed = Of("artifacts") /\ tx'.due = U
      /\ tx'.queue = {} /\ tx'.run = NoRow /\ tx'.statement = 0 /\ tx'.gone = {}
      /\ tx'.late = FALSE /\ tx'.failed = FALSE
  BY <1>1 DEF NoTx
<1>6. TxTyped'
  BY <1>1, <1>2 DEF TxTyped, NoTx
<1>7. TxShape'
  BY <1>1, <1>2, <1>4, <1>5, <1>6 DEF TxShape
<1>8. Integrity'
  BY <1>1, <1>2, <1>5 DEF Integrity
<1>9. EmptiedSoFar'
  BY <1>1, <1>2, <1>3, <1>5 DEF EmptiedSoFar
<1>10. (EventsFirst /\ Within /\ AllCovered)'
  BY <1>5 DEF EventsFirst, Within, AllCovered
<1>11. QED
  BY <1>7, <1>8, <1>9, <1>10 DEF TxInv

\* A DELETE of delete_run keeps the invariant.
LEMMA RunStepStep ==
  ASSUME TxInv, RunStep
  PROVE  TxInv'
<1>1. TxShape /\ Integrity /\ EventsFirst /\ Within /\ AllCovered
  BY DEF TxInv
<1>2. /\ tx.kind = "runs" /\ tx.statement \in 1..6 /\ tx.run \in Rows
      /\ Deleted(Cascade(RunRows \ tx.gone)) /\ tx'.left = tx.left
      /\ tx.statement = 6 => /\ tx'.statement = 0 /\ tx'.run = NoRow
                             /\ tx'.doomed = tx.doomed \cup {tx.run}
      /\ tx.statement # 6 => /\ tx'.statement = tx.statement + 1 /\ tx'.run = tx.run
                             /\ tx'.doomed = tx.doomed
  BY <1>1, RunStepEffect
<1>3. RunRows \in SUBSET rows /\ rows \in SUBSET Rows /\ tx.due \in SUBSET Rows
      /\ tx.run # NoRow /\ Table[tx.run] = "runs"
  BY <1>1, <1>2, WorkspaceAssumption DEF RunRows, Of, Integrity, TxShape, TxTyped
<1>4. /\ Integrity' /\ rows' = rows /\ tx.gone \cup RunRows \subseteq tx'.gone /\ tx'.gone \subseteq rows
      /\ UNCHANGED <<tx.kind, tx.queue, tx.due, tx.late>>
      /\ \A C : RunRows \cup tx.gone \subseteq C
                  /\ (\A x \in rows : Refers[x] \cap C # {} => x \in C) => tx'.gone \subseteq C
  BY <1>2, <1>3, DeletedFacts
<1>5. tx.run \in tx.due /\ tx.due \subseteq rows /\ tx'.doomed \subseteq tx.doomed \cup {tx.run}
  BY <1>1, <1>2, <1>3 DEF Within, TxShape
<1>6. TxShape'
  <2>1. TxTyped'
    BY <1>2 DEF Deleted
  <2>2. tx'.run = NoRow <=> tx'.statement = 0
    BY <1>2, <1>3
  <2>3. \A x \in tx'.queue \cup ({tx'.run} \ {NoRow}) : Table[x] = "runs"
    BY <1>1, <1>2, <1>3, <1>4 DEF TxShape
  <2>4. \A x \in tx'.doomed : Table[x] \in {"runs", "artifacts"}
    BY <1>1, <1>3, <1>5 DEF TxShape
  <2>5. tx'.gone \cup tx'.due \cup tx'.doomed \subseteq rows'
    BY <1>1, <1>4, <1>5 DEF TxShape
  <2>6. tx'.kind = "runs" /\ tx'.left = {}
    BY <1>1, <1>2, <1>4 DEF TxShape
  <2>7. QED
    BY <2>1, <2>2, <2>3, <2>4, <2>5, <2>6 DEF TxShape
<1>7. EmptiedSoFar'
  BY <1>2, <1>4 DEF EmptiedSoFar
<1>8. EventsFirst'
  <2> SUFFICES ASSUME ~tx.late, NEW v \in rows \ tx'.gone, NEW a \in Refers[v] \cap tx'.doomed,
                      Table[a] = "artifacts"
               PROVE  tx'.run \in Refers[v] /\ tx'.statement <= 5
    BY <1>4 DEF EventsFirst
  <2>1. a \in tx.doomed
    BY <1>3, <1>5
  <2>2. v \in rows \ tx.gone
    BY <1>4
  <2>3. tx.run \in Refers[v] /\ tx.statement <= 5
    BY <1>1, <1>2, <2>1, <2>2 DEF EventsFirst
  <2>4. Table[v] = "events"
    BY <1>3, ArtifactKeys
  <2>5. tx.statement # 5
    <3> SUFFICES ASSUME tx.statement = 5 PROVE v \in RunRows
      BY <1>4
    <3>1. RunSteps[tx.statement] = "events"
      BY <1>2, StatementOrder
    <3>2. QED
      BY <2>3, <2>4, <3>1 DEF RunRows, Of
  <2>6. QED
    BY <1>2, <2>3, <2>5
<1>9. Within'
  <2> DEFINE C == Reach(tx.due, rows)
  <2>1. /\ tx.due \subseteq C /\ tx.gone \subseteq C /\ tx.doomed \subseteq C
        /\ \A x \in rows : Refers[x] \cap C # {} => x \in C
    <3>1. Dependents(tx.due, rows) \subseteq C
      BY DEF Reach
    <3>2. QED
      BY <1>1, <1>2, <1>3, <3>1, ReachClosed DEF Within
  <2> HIDE DEF C
  <2>2. RunRows \subseteq C
    <3> SUFFICES ASSUME NEW x \in RunRows PROVE x \in C
      OBVIOUS
    <3>1. CASE tx.run \in Refers[x]
      BY <1>3, <1>5, <2>1, <3>1
    <3>2. CASE tx.run \notin Refers[x]
      <4>1. PICK c \in Refers[x] : tx.run \in Refers[c]
        BY <3>2 DEF RunRows
      <4>2. c \in rows
        BY <1>1, <1>3, <4>1 DEF Integrity
      <4>3. c \in C
        BY <1>5, <2>1, <4>1, <4>2
      <4>4. QED
        BY <1>3, <2>1, <4>1, <4>3
    <3>3. QED
      BY <3>1, <3>2
  <2>3. tx'.gone \subseteq C /\ tx'.doomed \subseteq C
    BY <1>4, <1>5, <2>1, <2>2
  <2>4. tx'.queue \cup ({tx'.run} \ {NoRow}) \subseteq tx.due
    BY <1>1, <1>2, <1>4, <1>5 DEF Within
  <2>5. QED
    BY <1>4, <2>3, <2>4 DEF Within, C
<1>10. AllCovered'
  <2> SUFFICES ASSUME NEW C \in SUBSET Rows, Owes(C)' PROVE tx.due \subseteq C
    BY <1>4 DEF AllCovered
  <2>1. \A q : Artifacts(q)' = Artifacts(q)
    BY <1>4 DEF Artifacts, Of
  <2>2. tx.queue \cup tx.doomed \cup ({tx.run} \ {NoRow})
          \subseteq tx'.queue \cup tx'.doomed \cup ({tx'.run} \ {NoRow})
    BY <1>2, <1>4
  <2>3. Owes(C)
    BY <1>4, <2>1, <2>2 DEF Owes
  <2>4. QED
    BY <1>1, <1>2, <2>3 DEF AllCovered
<1>11. QED
  BY <1>4, <1>6, <1>7, <1>8, <1>9, <1>10 DEF TxInv

\* A DELETE of delete_workspace keeps the invariant.
LEMMA EmptyTableStep ==
  ASSUME TxInv, EmptyTable
  PROVE  TxInv'
<1> DEFINE t == FirstOf(tx.left)
<1>1. TxShape /\ Integrity /\ EmptiedSoFar
  BY DEF TxInv
<1>2. /\ tx.kind = "workspace" /\ Deleted(Cascade(Of(t) \ tx.gone)) /\ tx'.left = tx.left \ {t}
      /\ UNCHANGED <<tx.statement, tx.run, tx.doomed>>
  BY <1>1, EmptyTableEffect
<1>3. /\ Integrity' /\ rows' = rows /\ tx.gone \cup Of(t) \subseteq tx'.gone /\ tx'.gone \subseteq rows
      /\ UNCHANGED <<tx.kind, tx.queue, tx.due, tx.late>>
  <2>1. Of(t) \in SUBSET rows
    BY DEF Of
  <2>2. QED
    BY <1>2, <2>1, DeletedFacts
<1>4. TxTyped'
  BY <1>2 DEF Deleted
<1> HIDE DEF t
<1>5. TxShape'
  BY <1>1, <1>2, <1>3, <1>4 DEF TxShape
<1>6. EmptiedSoFar'
  <2>1. \A x \in rows : Table[x] = t => x \in tx'.gone
    BY <1>3 DEF Of
  <2>2. \A x \in rows : Table[x] \in (Emptied \cup {"jobs"}) \ tx'.left =>
          x \in tx'.gone \/ (tx'.late /\ x \notin tx'.due)
    BY <1>1, <1>2, <1>3, <2>1 DEF EmptiedSoFar
  <2>3. QED
    BY <1>1, <1>2, <1>3, <2>2 DEF EmptiedSoFar
<1>7. (EventsFirst /\ Within /\ AllCovered)'
  BY <1>2, <1>3 DEF EventsFirst, Within, AllCovered
<1>8. QED
  BY <1>3, <1>5, <1>6, <1>7 DEF TxInv

\* Deleting the artifacts keeps the invariant.
LEMMA FlushStep ==
  ASSUME TxInv, Flush
  PROVE  TxInv'
<1>1. TxShape /\ Integrity /\ EmptiedSoFar /\ EventsFirst /\ Within /\ AllCovered
  BY DEF TxInv
<1>2. PICK S \in SUBSET tx.doomed :
        /\ Deleted(Cascade(S \ tx.gone))
        /\ tx.run = NoRow /\ UNCHANGED <<tx.left, tx.statement, tx.run, tx.doomed>>
  BY <1>1, FlushEffect
<1>3. /\ Integrity' /\ rows' = rows /\ tx.gone \cup S \subseteq tx'.gone /\ tx'.gone \subseteq rows
      /\ UNCHANGED <<tx.kind, tx.queue, tx.due, tx.late>> /\ tx.kind # "none"
      /\ \A C : S \cup tx.gone \subseteq C
                  /\ (\A x \in rows : Refers[x] \cap C # {} => x \in C) => tx'.gone \subseteq C
  <2>1. S \in SUBSET rows
    BY <1>1 DEF TxShape
  <2>2. QED
    BY <1>2, <2>1, DeletedFacts
<1>4. TxTyped'
  BY <1>2 DEF Deleted
<1>5. TxShape'
  BY <1>1, <1>2, <1>3, <1>4 DEF TxShape
<1>6. EmptiedSoFar' /\ EventsFirst'
  BY <1>1, <1>2, <1>3 DEF EmptiedSoFar, EventsFirst
<1>7. Within'
  <2> SUFFICES ASSUME tx.kind = "runs" PROVE Within'
    BY <1>3 DEF Within
  <2> DEFINE C == Reach(tx.due, rows)
  <2>1. tx.gone \subseteq C /\ tx.doomed \subseteq C /\ \A x \in rows : Refers[x] \cap C # {} => x \in C
    <3>1. Dependents(tx.due, rows) \subseteq C
      BY DEF Reach
    <3>2. rows \in SUBSET Rows /\ tx.due \in SUBSET Rows
      BY <1>1 DEF Integrity, TxShape, TxTyped
    <3>3. QED
      BY <1>1, <3>1, <3>2, ReachClosed DEF Within
  <2> HIDE DEF C
  <2>2. tx'.gone \subseteq C
    BY <1>3, <2>1
  <2>3. QED
    BY <1>1, <1>2, <1>3, <2>1, <2>2 DEF Within, C
<1>8. AllCovered'
  <2>1. \A q : Artifacts(q)' = Artifacts(q)
    BY <1>3 DEF Artifacts, Of
  <2>2. \A C : Owes(C)' => Owes(C)
    BY <1>2, <1>3, <2>1 DEF Owes
  <2>3. QED
    BY <1>1, <1>3, <2>2 DEF AllCovered
<1>9. QED
  BY <1>3, <1>5, <1>6, <1>7, <1>8 DEF TxInv

\* Commit and rollback leave no transaction, and the keys hold.
LEMMA EndStep ==
  ASSUME TxInv, Commit \/ Abort
  PROVE  TxInv'
<1>1. TxShape /\ Integrity
  BY DEF TxInv
<1>2. CASE Commit
  <2>1. tx' = NoTx /\ rows' = rows \ tx.gone /\ UNCHANGED used /\ ~tx.failed
    BY <1>2 DEF Commit
  <2>2. \A x \in rows' : Refers[x] \subseteq rows'
    BY <1>1, <2>1 DEF Integrity
  <2>3. QED
    BY <1>1, <2>1, <2>2, NoTxInv
<1>3. CASE Abort
  <2>1. tx' = NoTx /\ rows' = rows /\ UNCHANGED used
    BY <1>3 DEF Abort
  <2>2. QED
    BY <1>1, <2>1, NoTxInv DEF Integrity
<1>4. QED
  BY <1>2, <1>3

-----------------------------------------------------------------------------
(* Versions, and refusals.                                                 *)

\* The version that delete_workspace has read was not held; setting the hold makes another.
LEMMA VersionStep ==
  ASSUME VersionInv, TxShape, Integrity, [WorkspaceNext]_workspaceVars
  PROVE  VersionInv'
<1> DEFINE Same == UNCHANGED <<workspace, asked>>
<1>0. /\ workspace.version \in 1..MaxVersion + 1 /\ workspace.hold \in BOOLEAN
      /\ workspace.deleted \in BOOLEAN /\ MaxVersion \in Nat \ {0} /\ tx.version \in Nat
  BY WorkspaceAssumption DEF VersionInv, TxShape, TxTyped
<1>1. CASE Same /\ tx'.kind = tx.kind /\ tx'.version = tx.version
  BY <1>1 DEF VersionInv
<1>2. CASE Same /\ tx'.kind # "workspace"
  BY <1>2 DEF VersionInv
<1>3. CASE CreateTable \/ DropTable \/ (\E limit \in Limits : Open(limit)) \/ Page
           \/ UNCHANGED workspaceVars
  <2>1. UNCHANGED <<workspace, asked, tx>>
    BY <1>3 DEF CreateTable, DropTable, data, Open, Page, workspaceVars
  <2>2. QED
    BY <1>1, <2>1
<1>4. CASE Hold
  <2>1. /\ workspace.version < MaxVersion /\ UNCHANGED <<asked, tx>>
        /\ workspace' = [workspace EXCEPT !.hold = ~@, !.version = @ + 1]
    BY <1>4 DEF Hold
  <2>2. workspace \in [hold : BOOLEAN, version : 1..MaxVersion + 1, deleted : BOOLEAN]
    BY DEF VersionInv
  <2>3. workspace.version + 1 \in 1..MaxVersion + 1 /\ (~workspace.hold) \in BOOLEAN
    BY <1>0, <2>1
  <2>4. workspace'.version = workspace.version + 1
        /\ workspace' \in [hold : BOOLEAN, version : 1..MaxVersion + 1, deleted : BOOLEAN]
    BY <2>1, <2>2, <2>3
  <2>5. QED
    BY <1>0, <2>1, <2>4 DEF VersionInv
<1>5. CASE Ask
  BY <1>0, <1>5 DEF Ask, VersionInv
<1>6. ASSUME NEW S \in Groups, Insert(S) PROVE VersionInv'
  BY <1>1, <1>6 DEF Insert, TxShape, TxTyped
<1>7. ASSUME NEW R, BeginRuns(R) PROVE VersionInv'
  BY <1>2, <1>7 DEF BeginRuns, NoTx
<1>8. ASSUME NEW r, Survey(r) PROVE VersionInv'
  BY <1>1, <1>8 DEF Survey, Moves, TxShape, TxTyped
<1>9. CASE BeginWorkspace
  BY <1>0, <1>9 DEF BeginWorkspace, VersionInv, NoTx
<1>10. CASE RunStep
  BY <1>1, <1>10, RunStepEffect DEF Deleted
<1>11. CASE EmptyTable
  BY <1>1, <1>11, EmptyTableEffect DEF Deleted
<1>12. CASE Flush
  BY <1>1, <1>12, FlushEffect DEF Deleted
<1>13. CASE Commit
  <2>1. tx'.kind = "none"
    BY <1>13 DEF Commit, NoTx
  <2>2. CASE tx.kind = "workspace"
    <3>1. /\ asked' = FALSE /\ workspace.version <= MaxVersion
          /\ workspace' = [workspace EXCEPT !.deleted = TRUE, !.version = @ + 1]
      BY <1>13, <2>2 DEF Commit, VersionInv
    <3>2. workspace \in [hold : BOOLEAN, version : 1..MaxVersion + 1, deleted : BOOLEAN]
      BY DEF VersionInv
    <3>3. workspace.version + 1 \in 1..MaxVersion + 1
      BY <1>0, <3>1
    <3>4. workspace' \in [hold : BOOLEAN, version : 1..MaxVersion + 1, deleted : BOOLEAN]
      BY <3>1, <3>2, <3>3
    <3>5. QED
      BY <2>1, <3>1, <3>4 DEF VersionInv
  <2>3. CASE tx.kind # "workspace"
    BY <1>2, <1>13, <2>1, <2>3 DEF Commit
  <2>4. QED
    BY <2>2, <2>3
<1>14. CASE Abort
  BY <1>2, <1>14 DEF Abort, NoTx
<1>15. QED
  BY <1>3, <1>4, <1>5, <1>6, <1>7, <1>8, <1>9, <1>10, <1>11, <1>12, <1>13, <1>14
     DEF WorkspaceNext

\* A statement that is refused was beside an insertion.
LEMMA RefusedLate ==
  ASSUME TxInv
  PROVE  /\ RunStep /\ ~tx.late => ~Dangling(Cascade(RunRows \ tx.gone))
         /\ EmptyTable /\ ~tx.late => ~Dangling(Cascade(Of(FirstOf(tx.left)) \ tx.gone))
         /\ \A S \in SUBSET tx.doomed :
              tx.kind # "none" /\ tx.left = {} /\ tx.run = NoRow /\ ~tx.late
                => ~Dangling(Cascade(S \ tx.gone))
<1>1. TxShape /\ Integrity /\ EmptiedSoFar /\ EventsFirst
  BY DEF TxInv
<1>2. tx.gone \subseteq rows /\ rows \subseteq Rows
  BY <1>1 DEF TxShape, Integrity
\* Who would be left without the row it refers to.
<1>3. ASSUME NEW S \in SUBSET rows, Dangling(Cascade(S \ tx.gone))
      PROVE  \E x \in rows : \E y \in Refers[x] \cap S :
               /\ x \notin tx.gone /\ x \notin S
               /\ \/ Table[x] = "experiments" /\ Table[y] = "projects"
                  \/ Table[x] = "runs" /\ Table[y] = "experiments"
                  \/ Table[x] = "events" /\ Table[y] = "artifacts"
                  \/ Table[x] = "evaluator_results" /\ Table[y] = "evaluator_definitions"
  <2> DEFINE D == Cascade(S \ tx.gone)
  <2>1. S \subseteq tx.gone \cup D
    BY <1>1, <1>2, Deletion
  <2>2. PICK x \in rows \ (tx.gone \cup D) : \E y \in Refers[x] \cap S :
          Key(Table[x], Table[y], "cascade") \notin ForeignKeys
    BY <1>1, <1>2, <1>3, Deletion
  <2> HIDE DEF D
  <2>3. PICK y \in Refers[x] \cap S : Key(Table[x], Table[y], "cascade") \notin ForeignKeys
    BY <2>2
  <2>4. x \in Rows /\ x \notin S
    BY <1>2, <2>1
  <2>5. \/ Table[x] = "experiments" /\ Table[y] = "projects"
        \/ Table[x] = "runs" /\ Table[y] = "experiments"
        \/ Table[x] = "events" /\ Table[y] = "artifacts"
        \/ Table[x] = "evaluator_results" /\ Table[y] = "evaluator_definitions"
    BY <2>3, <2>4, RestrictingKeys
  <2>6. QED
    BY <2>4, <2>5
<1>4. ASSUME RunStep, Dangling(Cascade(RunRows \ tx.gone)) PROVE FALSE
  <2>1. RunRows \in SUBSET rows /\ \A y \in RunRows : Table[y] = RunSteps[tx.statement]
    BY DEF RunRows, Of
  <2>2. PICK x \in rows, y \in RunRows :
          Table[y] \in {"projects", "experiments", "artifacts", "evaluator_definitions"}
    BY <1>3, <1>4, <2>1
  <2>3. tx.statement \in 1..6
    BY <1>1, <1>4, RunStepEffect
  <2>4. QED
    BY <2>1, <2>2, <2>3, StatementOrder
<1>5. ASSUME EmptyTable, ~tx.late, Dangling(Cascade(Of(FirstOf(tx.left)) \ tx.gone)) PROVE FALSE
  <2> DEFINE t == FirstOf(tx.left)
  <2>1. Of(t) \in SUBSET rows /\ \A y \in Of(t) : Table[y] = t
    BY DEF Of
  <2>2. PICK x \in rows, y \in Of(t) :
          /\ x \notin tx.gone /\ x \notin Of(t)
          /\ \/ Table[x] = "experiments" /\ Table[y] = "projects"
             \/ Table[x] = "runs" /\ Table[y] = "experiments"
             \/ Table[x] = "events" /\ Table[y] = "artifacts"
             \/ Table[x] = "evaluator_results" /\ Table[y] = "evaluator_definitions"
    BY <1>3, <1>5, <2>1
  <2>3. tx.kind = "workspace" /\ tx.left # {} /\ tx.left \subseteq Emptied \cup {"jobs"}
    BY <1>5, <1>1 DEF EmptyTable, TxShape
  <2>4. t \in tx.left /\ \A u \in tx.left \ {t} : t \notin ModelKeys(u)
    BY <2>3, FirstExists
  <2> HIDE DEF t
  <2>5. Table[x] \in Emptied
    BY <2>2 DEF Emptied, Owned
  <2>6. Table[x] \in tx.left
    BY <1>1, <1>5, <2>2, <2>3, <2>5 DEF EmptiedSoFar
  <2>7. t \in ModelKeys(Table[x])
    BY <2>1, <2>2 DEF ModelKeys
  <2>8. Table[x] # t
    BY <2>2 DEF Of
  <2>9. QED
    BY <2>4, <2>6, <2>7, <2>8
<1>6. ASSUME NEW S \in SUBSET tx.doomed, tx.kind # "none", tx.left = {}, tx.run = NoRow, ~tx.late,
             Dangling(Cascade(S \ tx.gone))
      PROVE  FALSE
  <2>1. S \in SUBSET rows /\ \A y \in S : Table[y] \in {"runs", "artifacts"}
    BY <1>1 DEF TxShape
  <2>2. PICK x \in rows : \E y \in Refers[x] \cap S :
          x \notin tx.gone /\ Table[x] = "events" /\ Table[y] = "artifacts"
    BY <1>3, <1>6, <2>1
  <2>3. CASE tx.kind = "runs"
    <3>1. NoRow \in Refers[x]
      BY <1>1, <1>6, <2>2, <2>3 DEF EventsFirst
    <3>2. QED
      BY <1>2, <3>1, WorkspaceAssumption
  <2>4. CASE tx.kind = "workspace"
    <3>1. "events" \in Emptied
      BY DEF Emptied, Owned
    <3>2. QED
      BY <1>1, <1>6, <2>2, <2>4, <3>1 DEF EmptiedSoFar
  <2>5. QED
    BY <1>1, <1>6, <2>3, <2>4 DEF TxShape, TxTyped
<1>7. QED
  BY <1>4, <1>5, <1>6

\* No step meets a foreign key that refuses it.
LEMMA UnrefusedStep ==
  ASSUME SchemaInv, Unrefused, TxInv, [WorkspaceNext]_workspaceVars
  PROVE  SchemaInv' /\ Unrefused'
<1>0. TxShape /\ Integrity
  BY DEF TxInv
<1>1. CASE CreateTable \/ DropTable
  BY <1>1, SchemaStep
<1>2. ASSUME UNCHANGED schema, NEW D, refused' = (refused \/ (Dangling(D) /\ ~tx.late)),
             ~tx.late => ~Dangling(D)
      PROVE  SchemaInv' /\ Unrefused'
  BY <1>2 DEF schema, SchemaInv, Unrefused, NeverRefused
<1>3. CASE UNCHANGED <<schema, refused>>
  BY <1>3 DEF schema, SchemaInv, Unrefused, NeverRefused
<1>4. CASE RunStep
  BY <1>0, <1>2, <1>4, RunStepEffect, RefusedLate DEF Deleted
<1>5. CASE EmptyTable
  BY <1>0, <1>2, <1>5, EmptyTableEffect, RefusedLate DEF Deleted
<1>6. CASE Flush
  <2>1. PICK S \in SUBSET tx.doomed :
          Deleted(Cascade(S \ tx.gone)) /\ tx.left = {} /\ tx.run = NoRow
    BY <1>0, <1>6, FlushEffect
  <2>2. QED
    BY <1>2, <2>1, RefusedLate DEF Deleted
<1>7. CASE Hold \/ Ask \/ (\E S \in Groups : Insert(S)) \/ BeginWorkspace \/ Commit \/ Abort
           \/ (\E limit \in Limits : Open(limit)) \/ Page \/ UNCHANGED workspaceVars
  BY <1>3, <1>7 DEF Hold, Ask, Insert, BeginWorkspace, Commit, Abort, Open, Page, workspaceVars,
                    schema
<1>8. ASSUME NEW r, NEW R, BeginRuns(R) \/ Survey(r) PROVE SchemaInv' /\ Unrefused'
  BY <1>3, <1>8 DEF BeginRuns, Survey, Moves
<1>9. QED
  BY <1>1, <1>4, <1>5, <1>6, <1>7, <1>8 DEF WorkspaceNext

-----------------------------------------------------------------------------
(* The pages.                                                              *)

\* A listing is not disturbed by rows that go, nor by rows that are new.
LEMMA IdleReader ==
  ASSUME ReaderInv, Integrity, UNCHANGED reader, used \subseteq used',
         rows' \cap used \subseteq rows
  PROVE  ReaderInv'
<1>1. reader.before \subseteq used
  BY DEF ReaderInv
<1>2. reader.before \cap rows' \subseteq reader.before \cap rows
  BY <1>1
<1>3. QED
  BY <1>1, <1>2 DEF ReaderInv, Sorted, Range

\* A listing that is opened has shown nothing.
LEMMA OpenStep ==
  ASSUME ReaderInv, Integrity, NEW limit \in Limits, Open(limit)
  PROVE  ReaderInv'
<1>1. /\ reader' = [NoReader EXCEPT !.limit = limit, !.before = Of("runs")]
      /\ UNCHANGED <<rows, used>>
  BY DEF Open
<1>2. limit \in Nat /\ Of("runs") \subseteq used /\ \A x \in Of("runs") : Table[x] = "runs"
  BY WorkspaceAssumption DEF Of, Integrity
<1>3. /\ DOMAIN reader' = {"limit", "after", "listed", "before", "done"}
      /\ reader'.limit = limit /\ reader'.after = NoRow /\ reader'.listed = <<>>
      /\ reader'.before = Of("runs") /\ reader'.done = FALSE
  BY <1>1 DEF NoReader
<1>4. Range(<<>>) = {} /\ Sorted(<<>>) /\ <<>> \in Seq(Rows)
  BY DEF Range, Sorted
<1>5. QED
  BY <1>1, <1>2, <1>3, <1>4 DEF ReaderInv

\* A page continues the listing in order, and leaves nothing out.
LEMMA PageStep ==
  ASSUME ReaderInv, Integrity, Page
  PROVE  ReaderInv'
<1> DEFINE F == {r \in Of("runs") : reader.after # NoRow => Beyond(r, reader.after)}
           found == Found(reader.after)
           rest == Len(found) > reader.limit
           shown == IF rest THEN SubSeq(found, 1, reader.limit) ELSE found
           L == reader.listed
           after == reader.after
<1>1. /\ reader.limit > 0 /\ ~reader.done /\ UNCHANGED <<rows, used>>
      /\ reader' = [reader EXCEPT !.listed = @ \o shown, !.done = ~rest,
                                  !.after = IF rest THEN Last(shown) ELSE @]
  BY DEF Page
<1>2. /\ reader.limit \in Nat /\ after \in Rows \cup {NoRow} /\ L \in Seq(Rows)
      /\ Sorted(L)
      /\ after = NoRow => L = <<>>
      /\ \A x \in Range(L) : x = after \/ Later(after, x)
  BY <1>1 DEF ReaderInv
<1>3. F \in SUBSET Rows
  BY DEF Of, Integrity
<1>4. /\ found \in Seq(F) /\ DOMAIN found = 1..Len(found) /\ Sorted(found)
      /\ \A x \in F : \E i \in DOMAIN found : found[i] = x
  BY <1>3, ListingExact DEF Found
<1> HIDE DEF found
<1>5. Len(found) \in Nat /\ \A i \in 1..Len(found) : found[i] \in F
  BY <1>4
<1>6. /\ shown \in Seq(Rows) /\ Len(shown) \in Nat /\ Len(shown) <= Len(found)
      /\ rest => Len(shown) = reader.limit
      /\ ~rest => Len(shown) = Len(found)
      /\ \A i \in 1..Len(shown) : shown[i] = found[i]
  BY <1>1, <1>2, <1>3, <1>4, <1>5, SMTT(30)
<1> HIDE DEF shown, rest, F
<1>7. rest \in BOOLEAN
  BY DEF rest
<1>8. rest => /\ Last(shown) = found[reader.limit] /\ Last(shown) \in F
              /\ reader.limit \in 1..Len(found)
  BY <1>1, <1>2, <1>5, <1>6 DEF Last, rest
<1>9. /\ DOMAIN reader' = {"limit", "after", "listed", "before", "done"}
      /\ reader'.limit = reader.limit /\ reader'.listed = L \o shown
      /\ reader'.before = reader.before /\ reader'.done = ~rest
      /\ reader'.after = IF rest THEN Last(shown) ELSE after
  BY <1>1 DEF ReaderInv
<1>10. /\ L \o shown \in Seq(Rows)
       /\ Len(L \o shown) = Len(L) + Len(shown) /\ DOMAIN (L \o shown) = 1..Len(L) + Len(shown)
       /\ \A i \in 1..Len(L) : (L \o shown)[i] = L[i]
       /\ \A i \in Len(L) + 1..Len(L) + Len(shown) : (L \o shown)[i] = shown[i - Len(L)]
  BY <1>2, <1>6
\* What is on this page comes after what was on the pages before.
<1>11. ASSUME NEW i \in 1..Len(L), NEW j \in 1..Len(found) PROVE Later(found[j], L[i])
  <2>0. L # <<>> /\ i \in DOMAIN L
    BY <1>2, <1>11
  <2>1. L[i] \in Range(L) /\ L[i] \in Rows
    BY <1>2, <2>0 DEF Range
  <2>2. after # NoRow /\ after \in Rows
    BY <1>2, <2>0
  <2>3. found[j] \in Rows /\ Beyond(found[j], after)
    BY <1>3, <1>5, <2>2 DEF F
  <2>4. Later(found[j], after) /\ (L[i] = after \/ Later(after, L[i]))
    BY <1>2, <2>1, <2>2, <2>3, LaterTotal
  <2>5. QED
    BY <2>1, <2>2, <2>3, <2>4, LaterTotal
<1>12. Sorted(L \o shown)
  <2> SUFFICES ASSUME NEW i \in 1..Len(L) + Len(shown), NEW j \in 1..Len(L) + Len(shown), i < j
               PROVE  Later((L \o shown)[j], (L \o shown)[i])
    BY <1>10 DEF Sorted
  <2>0. Len(L) \in Nat /\ DOMAIN L = 1..Len(L) /\ Len(shown) \in Nat
    BY <1>2, <1>6
  <2>1. CASE j <= Len(L)
    <3>1. i \in 1..Len(L) /\ j \in 1..Len(L)
      BY <2>0, <2>1
    <3>2. QED
      BY <1>2, <1>10, <2>0, <3>1 DEF Sorted
  <2>2. CASE i <= Len(L) /\ j > Len(L)
    <3>1. j - Len(L) \in 1..Len(shown) /\ i \in 1..Len(L) /\ j \in Len(L) + 1..Len(L) + Len(shown)
      BY <2>0, <2>2
    <3>2. j - Len(L) \in 1..Len(found)
      BY <1>5, <1>6, <2>0, <3>1
    <3>3. (L \o shown)[j] = shown[j - Len(L)] /\ (L \o shown)[i] = L[i]
      BY <1>10, <3>1
    <3>4. (L \o shown)[j] = found[j - Len(L)]
      BY <1>6, <3>1, <3>3
    <3>5. QED
      BY <1>11, <3>1, <3>2, <3>3, <3>4
  <2>3. CASE i > Len(L)
    <3>1. /\ i - Len(L) \in 1..Len(shown) /\ j - Len(L) \in 1..Len(shown)
          /\ i - Len(L) \in 1..Len(found) /\ j - Len(L) \in 1..Len(found)
          /\ i - Len(L) < j - Len(L)
      BY <1>5, <1>6, <2>0, <2>3
    <3>2. (L \o shown)[j] = found[j - Len(L)] /\ (L \o shown)[i] = found[i - Len(L)]
      <4>1. i \in Len(L) + 1..Len(L) + Len(shown) /\ j \in Len(L) + 1..Len(L) + Len(shown)
        BY <2>0, <2>3
      <4>2. (L \o shown)[j] = shown[j - Len(L)] /\ (L \o shown)[i] = shown[i - Len(L)]
        BY <1>10, <4>1
      <4>3. QED
        BY <1>6, <3>1, <4>2
    <3>3. QED
      BY <1>4, <3>1, <3>2 DEF Sorted
  <2>4. QED
    BY <2>0, <2>1, <2>2, <2>3
<1>13. Range(L \o shown) = Range(L) \cup {found[i] : i \in 1..Len(shown)}
  <2> DEFINE N == Len(L) + 1..Len(L) + Len(shown)
  <2>1. DOMAIN L = 1..Len(L) /\ Len(L) \in Nat
    BY <1>2
  <2>2. \A i \in 1..Len(shown) : Len(L) + i \in N /\ (L \o shown)[Len(L) + i] = found[i]
    <3> SUFFICES ASSUME NEW i \in 1..Len(shown)
                 PROVE  Len(L) + i \in N /\ (L \o shown)[Len(L) + i] = found[i]
      OBVIOUS
    <3>1. Len(L) + i \in N /\ (Len(L) + i) - Len(L) = i
      BY <1>6, <2>1
    <3>2. QED
      BY <1>6, <1>10, <3>1
  <2>3. \A i \in N : i - Len(L) \in 1..Len(shown) /\ (L \o shown)[i] = found[i - Len(L)]
    <3> SUFFICES ASSUME NEW i \in N
                 PROVE  i - Len(L) \in 1..Len(shown) /\ (L \o shown)[i] = found[i - Len(L)]
      OBVIOUS
    <3>1. i - Len(L) \in 1..Len(shown)
      BY <1>6, <2>1
    <3>2. QED
      BY <1>6, <1>10, <3>1
  <2>4. DOMAIN (L \o shown) = DOMAIN L \cup N
    BY <1>6, <1>10, <2>1
  <2>5. \A i \in DOMAIN L : (L \o shown)[i] = L[i]
    BY <1>10, <2>1
  <2> HIDE DEF N
  <2>6. Range(L \o shown) = {(L \o shown)[i] : i \in DOMAIN L \cup N}
    BY <2>4 DEF Range
  <2>7. Range(L) = {L[i] : i \in DOMAIN L}
    BY DEF Range
  <2>8. Range(L \o shown) \subseteq Range(L) \cup {found[i] : i \in 1..Len(shown)}
    BY <2>3, <2>5, <2>6, <2>7, ZenonT(40)
  <2>9. Range(L) \subseteq Range(L \o shown)
    BY <2>5, <2>6, <2>7
  <2>10. {found[i] : i \in 1..Len(shown)} \subseteq Range(L \o shown)
    BY <2>2, <2>6
  <2>11. QED
    BY <2>8, <2>9, <2>10
\* A run of the first page that is still there was on a page, is on this one or comes later.
<1>14. ASSUME NEW x \in reader.before \cap rows, x \notin Range(L)
       PROVE  \E i \in 1..Len(found) : found[i] = x
  <2>1. x \in F
    BY <1>1, <1>14 DEF ReaderInv, Of, F
  <2>2. QED
    BY <1>4, <2>1
<1>15. CASE ~rest
  <2>1. reader.before \cap rows \subseteq Range(L \o shown)
    BY <1>6, <1>13, <1>14, <1>15
  <2>2. QED
    BY <1>1, <1>2, <1>9, <1>10, <1>12, <1>15, <2>1 DEF ReaderInv
<1>16. CASE rest
  <2> DEFINE next == found[reader.limit]
  <2>1. next \in Rows /\ next # NoRow /\ reader'.after = next
    BY <1>3, <1>8, <1>9, <1>16, WorkspaceAssumption
  <2>2. \A x \in Range(L \o shown) : x = next \/ Later(next, x)
    <3>1. ASSUME NEW i \in DOMAIN L PROVE Later(next, L[i])
      <4>1. i \in 1..Len(L)
        BY <1>2
      <4>2. QED
        BY <1>8, <1>11, <1>16, <4>1
    <3>2. ASSUME NEW i \in 1..Len(shown) PROVE found[i] = next \/ Later(next, found[i])
      <4>1. i \in 1..Len(found) /\ (i = reader.limit \/ i < reader.limit)
        BY <1>2, <1>5, <1>6, <1>16
      <4>2. QED
        BY <1>4, <1>8, <1>16, <4>1 DEF Sorted
    <3>3. QED
      BY <1>13, <3>1, <3>2 DEF Range
  <2>3. \A x \in reader.before \cap rows : x \in Range(L \o shown) \/ Beyond(x, next)
    <3> SUFFICES ASSUME NEW x \in reader.before \cap rows, x \notin Range(L \o shown)
                 PROVE  Beyond(x, next)
      OBVIOUS
    <3>1. PICK i \in 1..Len(found) : found[i] = x
      BY <1>13, <1>14
    <3>2. i \notin 1..Len(shown)
      BY <1>13, <3>1
    <3>3. i > reader.limit /\ i \in DOMAIN found /\ reader.limit \in DOMAIN found
      BY <1>2, <1>4, <1>5, <1>6, <1>8, <1>16, <3>2
    <3>4. Later(x, next)
      BY <1>4, <3>1, <3>3 DEF Sorted
    <3>5. x \in Rows
      BY DEF Integrity
    <3>6. QED
      BY <2>1, <3>4, <3>5, LaterTotal
  <2> HIDE DEF next
  <2>4. QED
    BY <1>1, <1>2, <1>9, <1>10, <1>12, <1>16, <2>1, <2>2, <2>3 DEF ReaderInv
<1>17. QED
  BY <1>7, <1>15, <1>16

-----------------------------------------------------------------------------
(* The whole.                                                              *)

\* The invariant of the transaction is kept.
LEMMA TxStep ==
  ASSUME TxInv, VersionInv, [WorkspaceNext]_workspaceVars
  PROVE  TxInv'
<1>1. CASE CreateTable \/ DropTable \/ Hold \/ Ask \/ (\E limit \in Limits : Open(limit)) \/ Page
           \/ UNCHANGED workspaceVars
  <2>1. UNCHANGED <<rows, used, tx>>
    BY <1>1 DEF CreateTable, DropTable, Hold, Ask, Open, Page, data, workspaceVars
  <2>2. QED
    BY <2>1, QuietStep
<1>2. ASSUME NEW S \in Groups, Insert(S) PROVE TxInv'
  <2>1. S \in SUBSET Rows
    BY WorkspaceAssumption
  <2>2. QED
    BY <1>2, <2>1, InsertStep
<1>3. ASSUME NEW r \in Of("runs"), BeginRuns({r}) \/ BeginRuns(Expired(Created[r])) \/ Survey(r)
      PROVE  TxInv'
  <2>1. {r} \in SUBSET Of("runs") /\ Expired(Created[r]) \in SUBSET Of("runs")
    BY DEF Expired
  <2>2. QED
    BY <1>3, <2>1, BeginRunsStep, SurveyStep
<1>4. CASE BeginWorkspace
  <2>1. workspace.version \in Nat
    BY WorkspaceAssumption DEF VersionInv
  <2>2. QED
    BY <1>4, <2>1, BeginWorkspaceStep
<1>5. CASE RunStep \/ EmptyTable \/ Flush
  BY <1>5, RunStepStep, EmptyTableStep, FlushStep
<1>6. CASE Commit \/ Abort
  BY <1>6, EndStep
<1>7. QED
  BY <1>1, <1>2, <1>3, <1>4, <1>5, <1>6 DEF WorkspaceNext

\* The invariant of the listing is kept.
LEMMA ReaderStep ==
  ASSUME ReaderInv, TxInv, [WorkspaceNext]_workspaceVars
  PROVE  ReaderInv'
<1>0. Integrity /\ TxShape
  BY DEF TxInv
<1>1. CASE UNCHANGED <<reader, rows, used>>
  BY <1>0, <1>1, IdleReader
<1>2. CASE CreateTable \/ DropTable \/ Hold \/ Ask \/ BeginWorkspace \/ Abort
           \/ UNCHANGED workspaceVars
  <2>1. UNCHANGED <<reader, rows, used>>
    BY <1>2 DEF CreateTable, DropTable, Hold, Ask, BeginWorkspace, Abort, data, workspaceVars
  <2>2. QED
    BY <1>1, <2>1
<1>3. ASSUME NEW r, NEW R, BeginRuns(R) \/ Survey(r) PROVE ReaderInv'
  BY <1>1, <1>3 DEF BeginRuns, Survey, Moves
<1>4. CASE RunStep \/ EmptyTable \/ Flush
  BY <1>1, <1>4 DEF RunStep, EmptyTable, Flush, Moves
<1>5. ASSUME NEW S \in Groups, Insert(S) PROVE ReaderInv'
  <2>1. S \cap used = {} /\ rows' = rows \cup S /\ used' = used \cup S /\ UNCHANGED reader
    BY <1>5 DEF Insert
  <2>2. QED
    BY <1>0, <2>1, IdleReader
<1>6. CASE Commit
  <2>1. rows' = rows \ tx.gone /\ UNCHANGED <<used, reader>>
    BY <1>6 DEF Commit
  <2>2. QED
    BY <1>0, <2>1, IdleReader
<1>7. ASSUME NEW limit \in Limits, Open(limit) PROVE ReaderInv'
  BY <1>0, <1>7, OpenStep
<1>8. CASE Page
  BY <1>0, <1>8, PageStep
<1>9. QED
  BY <1>2, <1>3, <1>4, <1>5, <1>6, <1>7, <1>8 DEF WorkspaceNext

\* The invariant is inductive.
LEMMA WInvStep == WInv /\ [WorkspaceNext]_workspaceVars => WInv'
<1> SUFFICES ASSUME WInv, [WorkspaceNext]_workspaceVars PROVE WInv'
  OBVIOUS
<1>1. TxInv /\ TxShape /\ Integrity /\ SchemaInv /\ Unrefused /\ VersionInv /\ ReaderInv
  BY DEF WInv, TxInv
<1>2. TxInv' /\ ReaderInv' /\ VersionInv' /\ SchemaInv' /\ Unrefused'
  BY <1>1, TxStep, ReaderStep, VersionStep, UnrefusedStep
<1>3. QED
  BY <1>2 DEF WInv, TxInv

\* It implies the types,
LEMMA WInvTypes == WInv => WorkspaceTypeOK
<1> SUFFICES ASSUME WInv PROVE WorkspaceTypeOK
  OBVIOUS
<1>1. tables \subseteq Tables
  BY Places DEF WInv, SchemaInv
<1>2. Range(reader.listed) \subseteq Rows /\ reader.before \subseteq Rows
  BY DEF WInv, ReaderInv, Range, Integrity
<1>3. QED
  BY <1>1, <1>2 DEF WInv, Unrefused, VersionInv, Integrity, TxShape, TxTyped, WorkspaceTypeOK, Tables

\* and that pages are exact.
LEMMA WInvPages == WInv => PagesExact
BY DEF WInv, ReaderInv, Sorted, PagesExact

\* The inductive invariant: upgrade() and downgrade() keep the schema closed under
\* foreign keys, delete_run and delete_workspace never meet a key, no row is left without
\* a row it refers to, a removal holds what it still owes, and a listing is sorted.
THEOREM WorkspaceInvariant == WorkspaceSpec => []WInv
<1>1. QED
  BY InitWInv, WInvStep, PTL DEF WorkspaceSpec

\* Types of the tables, the rows, the transaction and the listing.
THEOREM WorkspaceTypes == WorkspaceSpec => []WorkspaceTypeOK
BY WorkspaceInvariant, WInvTypes, PTL

\* No order of upgrade(), downgrade(), delete_run and delete_workspace removes a row or a
\* table that another one still names by a foreign key.
THEOREM NoRemovalRefused == WorkspaceSpec => []NeverRefused
<1>1. WInv => NeverRefused
  BY DEF WInv, Unrefused
<1>2. QED
  BY <1>1, WorkspaceInvariant, PTL

\* The pages of one listing (the cursor of _page) follow one another without a repetition
\* and without leaving out a row that was there when the listing was opened and still is.
THEOREM ListingsExact == WorkspaceSpec => []PagesExact
BY WorkspaceInvariant, WInvPages, PTL

\* Whatever upgrade, insert, delete_run and delete_workspace do beside one another, every
\* row that is stored finds the rows its foreign keys name.
THEOREM ForeignKeysHold == WorkspaceSpec => [](\A x \in rows : Refers[x] \subseteq rows)
<1>1. WInv => \A x \in rows : Refers[x] \subseteq rows
  BY DEF WInv, Integrity
<1>2. QED
  BY <1>1, WorkspaceInvariant, PTL

\* Only Commit removes rows.
LEMMA CommittedCommits ==
  ASSUME WInv, [WorkspaceNext]_workspaceVars, Committed
  PROVE  Commit
<1>1. TxInv /\ tx.kind # "none" /\ tx' = NoTx /\ rows' # rows
  BY DEF WInv, TxInv, Committed
<1>2. tx'.kind = "none"
  BY <1>1 DEF NoTx
<1>3. ~UNCHANGED rows
  BY <1>1
<1>4. CASE CreateTable \/ DropTable \/ Hold \/ Ask \/ (\E limit \in Limits : Open(limit)) \/ Page
           \/ BeginWorkspace \/ Abort \/ RunStep \/ EmptyTable \/ Flush \/ UNCHANGED workspaceVars
  BY <1>3, <1>4 DEF CreateTable, DropTable, Hold, Ask, Open, Page, data, workspaceVars,
                    BeginWorkspace, Abort, RunStep, EmptyTable, Flush, Moves
<1>5. ASSUME NEW S \in Groups, Insert(S) PROVE FALSE
  <2>1. tx'.kind = tx.kind
    BY <1>1, <1>5 DEF Insert, TxInv, TxShape, TxTyped
  <2>2. QED
    BY <1>1, <1>2, <2>1
<1>6. ASSUME NEW r, NEW R, BeginRuns(R) \/ Survey(r) PROVE FALSE
  BY <1>3, <1>6 DEF BeginRuns, Survey, Moves
<1>7. QED
  BY <1>4, <1>5, <1>6 DEF WorkspaceNext

\* A removal that commits has removed all that was due, whatever was inserted beside it.
LEMMA CommitComplete ==
  ASSUME WInv, Commit
  PROVE  tx.due \cap rows' = {}
<1>1. TxShape /\ Integrity /\ EmptiedSoFar /\ AllCovered
  BY DEF WInv
<1>2. /\ tx.kind # "none" /\ ~tx.failed /\ tx.queue = {} /\ tx.run = NoRow /\ tx.left = {}
      /\ tx.doomed \subseteq tx.gone /\ rows' = rows \ tx.gone
  BY DEF Commit
<1>3. SUFFICES tx.due \subseteq tx.gone
  BY <1>2
<1>4. CASE tx.kind = "workspace"
  <2> SUFFICES ASSUME NEW x \in tx.due PROVE x \in tx.gone
    OBVIOUS
  <2>1. x \in rows
    BY <1>1 DEF TxShape
  <2>2. QED
    BY <1>1, <1>2, <1>4, <2>1 DEF EmptiedSoFar
<1>5. CASE tx.kind = "runs"
  <2>1. Owes(tx.gone)
    BY <1>1, <1>2 DEF Owes, Integrity
  <2>2. tx.gone \in SUBSET Rows
    BY <1>1 DEF TxShape, TxTyped
  <2>3. QED
    BY <1>1, <1>5, <2>1, <2>2 DEF AllCovered
<1>6. QED
  BY <1>1, <1>2, <1>4, <1>5 DEF TxShape, TxTyped

\* The removal of runs has removed nothing else.
LEMMA CommitContained ==
  ASSUME WInv, Commit, tx.kind = "runs"
  PROVE  LET D == Dependents(tx.due, rows) IN
         rows \ rows' \subseteq D \cup UNION {Refers[v] \cap Of("artifacts") : v \in D}
<1>1. rows \ rows' \subseteq tx.gone
  BY DEF Commit
<1>2. tx.gone \subseteq Reach(tx.due, rows)
  BY DEF WInv, Within
<1>3. QED
  BY <1>1, <1>2 DEF Reach, Of

\* A step marks the workspace as deleted only when it is not under a hold.
LEMMA HoldStops ==
  ASSUME WInv, [WorkspaceNext]_workspaceVars, ~workspace.deleted, workspace'.deleted
  PROVE  ~workspace.hold
<1>0. VersionInv /\ TxShape /\ Integrity
  BY DEF WInv
<1>1. CASE Commit
  <2>1. tx.kind = "workspace"
    BY <1>1 DEF Commit
  <2>2. tx.version = workspace.version
    BY <1>1, <2>1 DEF Commit, Unchanged
  <2>3. QED
    BY <1>0, <2>1, <2>2 DEF VersionInv
<1>2. CASE Hold
  BY <1>0, <1>2 DEF Hold, VersionInv
<1>3. CASE workspace' = workspace
  BY <1>3
<1>4. ASSUME ~Commit, ~Hold PROVE workspace' = workspace
  <2>1. CASE CreateTable \/ DropTable \/ Ask \/ (\E limit \in Limits : Open(limit)) \/ Page
             \/ BeginWorkspace \/ Abort \/ RunStep \/ EmptyTable \/ Flush \/ UNCHANGED workspaceVars
    BY <2>1 DEF CreateTable, DropTable, Ask, Open, Page, data, workspaceVars,
                BeginWorkspace, Abort, RunStep, EmptyTable, Flush
  <2>2. ASSUME NEW S, NEW r, NEW R, Insert(S) \/ BeginRuns(R) \/ Survey(r) PROVE workspace' = workspace
    BY <2>2 DEF Insert, BeginRuns, Survey
  <2>3. QED
    BY <1>4, <2>1, <2>2 DEF WorkspaceNext
<1>5. QED
  BY <1>1, <1>2, <1>3, <1>4

\* delete_run removes all that it was asked for, what depends on it and the artifacts of
\* that, and nothing else; delete_workspace leaves no row that it was to remove; and
\* neither marks a workspace as deleted that has been put under legal hold meanwhile.
THEOREM RemovalsExact == WorkspaceSpec => DeletesExactly
<1> DEFINE Exact ==
      /\ Committed =>
           /\ tx.due \cap rows' = {}
           /\ tx.kind = "runs" =>
                LET D == Dependents(tx.due, rows) IN
                rows \ rows' \subseteq D \cup UNION {Refers[v] \cap Of("artifacts") : v \in D}
      /\ ~workspace.deleted /\ workspace'.deleted => ~workspace.hold
<1>1. WInv /\ [WorkspaceNext]_workspaceVars => Exact
  <2> SUFFICES ASSUME WInv, [WorkspaceNext]_workspaceVars PROVE Exact
    OBVIOUS
  <2>1. Committed => Commit
    BY CommittedCommits
  <2>2. QED
    BY <2>1, CommitComplete, CommitContained, HoldStops
<1>2. QED
  BY <1>1, WorkspaceInvariant, PTL DEF WorkspaceSpec, DeletesExactly

=============================================================================
