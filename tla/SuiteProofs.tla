----------------------------- MODULE SuiteProofs ----------------------------
(***************************************************************************)
(* Verdicts, scores, comparisons and rescoring for any suites, any agents  *)
(* and any policies; and loading, sampling, splitting and filtering for    *)
(* any files that include each other and any ratios.                       *)
(*                                                                         *)
(* The invariant follows a run by its plan, the cases that were run and    *)
(* those that are to: recording moves a case from one to the other, so a   *)
(* plan without a repeated case gives a run without one.  What the code    *)
(* computes by a loop (comprehensions, the merging of intervals) is a      *)
(* recursive function over 0..n here, and induction over its steps is the  *)
(* argument that a set of numbers without a least one is empty.            *)
(*                                                                         *)
(* The invariant of a load (Calls) has, for every call under way, the set  *)
(* of the files that it has been through: reached from the root, closed    *)
(* under includes and without a circle.  A call returns when its own file  *)
(* can join that set.  The boundaries of a split are all the rounded value *)
(* of the same fraction, so they grow, and a chunk is off by one at most.  *)
(***************************************************************************)
EXTENDS Judgement, Datasets, FiniteSetTheorems, SequenceTheorems, WellFoundedInduction, TLAPS

-----------------------------------------------------------------------------
(* Numbers, sequences and comprehensions.                                  *)

\* A set of numbers that is not empty has a least one.
LEMMA LeastNumber ==
  ASSUME NEW T \in SUBSET Nat, T # {}
  PROVE  \E n \in T : \A m \in T : n <= m
<1>1. IsWellFoundedOn(OpToRel(<, Nat), Nat)
  BY NatLessThanWellFounded
<1>2. PICK n \in T : \A m \in T : <<m, n>> \notin OpToRel(<, Nat)
  BY <1>1, WFMin
<1>3. \A m \in T : ~(m < n)
  BY <1>2 DEF OpToRel
<1>4. QED
  BY <1>3

\* Induction over a set of numbers.
LEMMA Numbers ==
  ASSUME NEW T, 0 \in T, \A n \in Nat : n \in T => n + 1 \in T
  PROVE  Nat \subseteq T
<1>1. SUFFICES ASSUME Nat \ T # {} PROVE FALSE
  OBVIOUS
<1>2. PICK n \in Nat \ T : \A m \in Nat \ T : n <= m
  BY <1>1, LeastNumber
<1>3. n # 0 /\ n - 1 \in Nat
  BY <1>2
<1>4. n - 1 \in T
  BY <1>2, <1>3
<1>5. (n - 1) + 1 \in T
  BY <1>3, <1>4
<1>6. QED
  BY <1>2, <1>5

\* Induction up to a number.
LEMMA NumbersUpTo ==
  ASSUME NEW n \in Nat, NEW T, 0 \in T, \A i \in 1..n : i - 1 \in T => i \in T
  PROVE  0..n \subseteq T
<1> DEFINE U == {i \in Nat : i <= n => i \in T}
<1>1. 0 \in U
  OBVIOUS
<1>2. ASSUME NEW i \in Nat, i \in U PROVE i + 1 \in U
  <2> SUFFICES ASSUME i + 1 <= n PROVE i + 1 \in T
    OBVIOUS
  <2>1. i + 1 \in 1..n /\ i \in T /\ (i + 1) - 1 = i
    BY <1>2
  <2>2. QED
    BY <2>1
<1>3. Nat \subseteq U
  <2> HIDE DEF U
  <2>1. QED
    BY <1>1, <1>2, Numbers
<1>4. QED
  BY <1>3

\* A function over 0..n that is built step by step.
Stepwise(f, n, base, step) ==
  f = [i \in 0..n |-> IF i = 0 THEN base ELSE step[i][f[i - 1]]]

\* A recursive function over 0..n exists: step[i][v] is the value at i after v.
LEMMA RecursionExists ==
  ASSUME NEW n \in Nat, NEW V, NEW base \in V, NEW step, \A v \in V, i \in 1..n : step[i][v] \in V
  PROVE  \E f \in [0..n -> V] : Stepwise(f, n, base, step)
<1> DEFINE Is(f, m) == Stepwise(f, m, base, step)
           T == {m \in 0..n : \E f \in [0..m -> V] : Is(f, m)}
<1>1. 0 \in T
  <2>1. [i \in 0..0 |-> base] \in [0..0 -> V]
    OBVIOUS
  <2>2. Is([i \in 0..0 |-> base], 0)
    BY DEF Stepwise
  <2>3. QED
    BY <2>1, <2>2
<1>2. ASSUME NEW m \in 1..n, m - 1 \in T PROVE m \in T
  <2>1. PICK f \in [0..m - 1 -> V] : Is(f, m - 1)
    BY <1>2
  <2> DEFINE g == [i \in 0..m |-> IF i = m THEN step[m][f[m - 1]] ELSE f[i]]
  <2>2. m - 1 \in 0..m - 1 /\ f[m - 1] \in V
    BY <2>1
  <2>3. g \in [0..m -> V]
    <3> SUFFICES ASSUME NEW i \in 0..m PROVE g[i] \in V
      OBVIOUS
    <3>1. CASE i = m
      BY <2>2, <3>1
    <3>2. CASE i # m
      <4>1. i \in 0..m - 1
        BY <3>2
      <4>2. QED
        BY <2>1, <3>2, <4>1
    <3>3. QED
      BY <3>1, <3>2
  <2>4. ASSUME NEW i \in 0..m PROVE g[i] = IF i = 0 THEN base ELSE step[i][g[i - 1]]
    <3>1. CASE i = m
      <4>1. m # 0 /\ m - 1 \in 0..m /\ m - 1 # m
        OBVIOUS
      <4>2. g[m - 1] = f[m - 1]
        BY <4>1
      <4>3. QED
        BY <3>1, <4>1, <4>2
    <3>2. CASE i # m /\ i # 0
      <4>1. i \in 0..m - 1 /\ i - 1 \in 0..m /\ i - 1 # m /\ g[i] = f[i]
        BY <3>2
      <4>2. g[i - 1] = f[i - 1]
        BY <4>1
      <4>3. f[i] = step[i][f[i - 1]]
        BY <2>1, <3>2, <4>1 DEF Stepwise
      <4>4. QED
        BY <3>2, <4>1, <4>2, <4>3
    <3>3. CASE i = 0
      <4>1. 0 \in 0..m - 1 /\ g[0] = f[0]
        OBVIOUS
      <4>2. QED
        BY <2>1, <3>3, <4>1 DEF Stepwise
    <3>4. QED
      BY <3>1, <3>2, <3>3
  <2>5. Is(g, m)
    BY <2>4 DEF Stepwise
  <2>6. QED
    BY <2>3, <2>5
<1>3. 0..n \subseteq T
  <2> HIDE DEF T
  <2>1. QED
    BY <1>1, <1>2, NumbersUpTo
<1>4. n \in T
  BY <1>3
<1>5. QED
  BY <1>4

\* What Only computes, step by step.
OnlySteps(F, s, K) ==
  F = [i \in 0..Len(s) |->
        IF i = 0 THEN <<>> ELSE IF s[i] \in K THEN Append(F[i - 1], s[i]) ELSE F[i - 1]]

\* A comprehension starts with nothing and looks at one element after the other.
LEMMA OnlyStep ==
  ASSUME NEW F, NEW s, NEW K, NEW n \in Nat, n = Len(s), OnlySteps(F, s, K)
  PROVE  /\ DOMAIN F = 0..n /\ F = [i \in 0..n |-> F[i]] /\ F[0] = <<>>
         /\ \A i \in 1..n : F[i] = IF s[i] \in K THEN Append(F[i - 1], s[i]) ELSE F[i - 1]
<1>1. F = [i \in 0..n |->
            IF i = 0 THEN <<>> ELSE IF s[i] \in K THEN Append(F[i - 1], s[i]) ELSE F[i - 1]]
  BY DEF OnlySteps
<1>2. DOMAIN F = 0..n /\ 0 \in 0..n
  BY <1>1
<1>3. F[0] = <<>>
  BY <1>1, <1>2
<1>4. ASSUME NEW i \in 1..n
      PROVE F[i] = IF s[i] \in K THEN Append(F[i - 1], s[i]) ELSE F[i - 1]
  <2>1. i \in 0..n /\ i # 0
    OBVIOUS
  <2>2. QED
    BY <1>1, <2>1
<1>5. F = [i \in 0..n |-> F[i]]
  BY <1>1, <1>2
<1>6. QED
  BY <1>2, <1>3, <1>4, <1>5

\* The recursive function behind Only exists: its value at i is what the first i elements give.
LEMMA OnlyUnfolds ==
  ASSUME NEW D, NEW s \in Seq(D), NEW K
  PROVE  \E F \in [0..Len(s) -> Seq(D)] : OnlySteps(F, s, K) /\ Only(s, K) = F[Len(s)]
<1> DEFINE n == Len(s)
           V == Seq(D)
           step == [i \in 1..n |-> [v \in V |-> IF s[i] \in K THEN Append(v, s[i]) ELSE v]]
<1>1. n \in Nat /\ <<>> \in V
  OBVIOUS
<1>2. \A v \in V, i \in 1..n :
        step[i][v] = (IF s[i] \in K THEN Append(v, s[i]) ELSE v) /\ step[i][v] \in V
  <2> SUFFICES ASSUME NEW v \in V, NEW i \in 1..n
               PROVE  /\ step[i][v] = (IF s[i] \in K THEN Append(v, s[i]) ELSE v)
                      /\ step[i][v] \in V
    OBVIOUS
  <2>1. s[i] \in D
    OBVIOUS
  <2>2. step[i][v] = IF s[i] \in K THEN Append(v, s[i]) ELSE v
    BY <2>1
  <2>3. Append(v, s[i]) \in V
    BY <2>1
  <2>4. QED
    BY <2>2, <2>3
<1> HIDE DEF n, V, step
<1>3. PICK f \in [0..n -> V] : Stepwise(f, n, <<>>, step)
  BY <1>1, <1>2, RecursionExists
<1>4. OnlySteps(f, s, K)
  <2>1. ASSUME NEW i \in 0..n, i # 0
        PROVE  f[i] = IF s[i] \in K THEN Append(f[i - 1], s[i]) ELSE f[i - 1]
    <3>1. i \in 1..n /\ i - 1 \in 0..n
      BY <1>1, <2>1
    <3>2. f[i] = step[i][f[i - 1]] /\ f[i - 1] \in V
      BY <1>3, <2>1, <3>1 DEF Stepwise
    <3>3. QED
      BY <1>2, <3>1, <3>2
  <2>2. f[0] = <<>> /\ DOMAIN f = 0..n
    BY <1>1, <1>3 DEF Stepwise
  <2>3. f = [i \in 0..n |-> f[i]]
    BY <1>3
  <2>4. QED
    BY <2>1, <2>2, <2>3 DEF OnlySteps, n
<1>5. ASSUME NEW F, OnlySteps(F, s, K) PROVE F = f
  <2> DEFINE T == {i \in 0..n : F[i] = f[i]}
  <2>0. /\ DOMAIN F = 0..n /\ F[0] = <<>> /\ f[0] = <<>> /\ F = [i \in 0..n |-> F[i]]
        /\ \A i \in 1..n :
              /\ F[i] = IF s[i] \in K THEN Append(F[i - 1], s[i]) ELSE F[i - 1]
              /\ f[i] = IF s[i] \in K THEN Append(f[i - 1], s[i]) ELSE f[i - 1]
    <3>1. n = Len(s)
      BY DEF n
    <3>2. QED
      BY <1>1, <1>4, <1>5, <3>1, OnlyStep
  <2>1. 0 \in T
    BY <1>1, <2>0
  <2>2. ASSUME NEW i \in 1..n, i - 1 \in T PROVE i \in T
    <3>1. i \in 0..n /\ F[i - 1] = f[i - 1]
      BY <1>1, <2>2
    <3>2. QED
      BY <2>0, <3>1
  <2>3. 0..n \subseteq T
    <3> HIDE DEF T
    <3>1. QED
      BY <1>1, <2>1, <2>2, NumbersUpTo
  <2>4. f = [i \in 0..n |-> f[i]]
    BY <1>3
  <2>5. QED
    BY <2>0, <2>3, <2>4
<1>6. (CHOOSE F : OnlySteps(F, s, K)) = f
  BY <1>4, <1>5
<1>7. Only(s, K) = (CHOOSE F : OnlySteps(F, s, K))[n]
  BY DEF Only, OnlySteps, n
<1>8. QED
  BY <1>3, <1>4, <1>6, <1>7 DEF n, V

\* A comprehension keeps what is in K, in the order and as often as it was there: every
\* element has the index it came from, and these grow.
LEMMA OnlyExact ==
  ASSUME NEW D, NEW s \in Seq(D), NEW K
  PROVE  /\ Only(s, K) \in Seq(D)
         /\ \E at \in [1..Len(Only(s, K)) -> 1..Len(s)] :
              /\ \A j \in 1..Len(Only(s, K)) : Only(s, K)[j] = s[at[j]] /\ s[at[j]] \in K
              /\ \A j, k \in 1..Len(Only(s, K)) : j < k => at[j] < at[k]
              /\ \A i \in 1..Len(s) : s[i] \in K => \E j \in 1..Len(Only(s, K)) : at[j] = i
<1> DEFINE n == Len(s)
<1>1. PICK F \in [0..n -> Seq(D)] : OnlySteps(F, s, K) /\ Only(s, K) = F[n]
  BY OnlyUnfolds
<1>2. /\ n \in Nat /\ F[0] = <<>>
      /\ \A i \in 1..n : F[i] = IF s[i] \in K THEN Append(F[i - 1], s[i]) ELSE F[i - 1]
  <2>1. n \in Nat /\ n = Len(s)
    OBVIOUS
  <2> HIDE DEF n
  <2>2. QED
    BY <1>1, <2>1, OnlyStep
<1> HIDE DEF n
<1> DEFINE From(i, at) ==
             /\ \A j \in 1..Len(F[i]) : F[i][j] = s[at[j]] /\ s[at[j]] \in K
             /\ \A j, k \in 1..Len(F[i]) : j < k => at[j] < at[k]
             /\ \A m \in 1..i : s[m] \in K => \E j \in 1..Len(F[i]) : at[j] = m
           T == {i \in 0..n : \E at \in [1..Len(F[i]) -> 1..i] : From(i, at)}
<1>3. 0 \in T
  <2> DEFINE e == [j \in 1..0 |-> j]
  <2>1. Len(F[0]) = 0 /\ 1..0 = {} /\ 0 \in 0..n
    BY <1>2
  <2>2. e \in [1..Len(F[0]) -> 1..0]
    BY <2>1
  <2> HIDE DEF e
  <2>3. From(0, e)
    BY <2>1
  <2>4. QED
    BY <2>1, <2>2, <2>3
<1>4. ASSUME NEW i \in 1..n, i - 1 \in T PROVE i \in T
  <2>1. PICK at \in [1..Len(F[i - 1]) -> 1..i - 1] : From(i - 1, at)
    BY <1>4
  <2>2. i \in 0..n /\ i - 1 \in 0..n /\ F[i - 1] \in Seq(D) /\ i \in Nat /\ n \in Nat
    BY <1>1, <1>2
  <2> DEFINE l == Len(F[i - 1])
  <2>3. l \in Nat /\ DOMAIN F[i - 1] = 1..l
    BY <2>2
  <2> HIDE DEF l
  <2>4. CASE s[i] \notin K
    <3>1. F[i] = F[i - 1]
      BY <1>2, <2>4
    <3>2. at \in [1..Len(F[i]) -> 1..i]
      BY <2>1, <2>2, <3>1
    <3>3. \A m \in 1..i : s[m] \in K => m \in 1..i - 1
      BY <2>2, <2>4
    <3>4. From(i, at)
      BY <2>1, <3>1, <3>3
    <3>5. QED
      BY <2>2, <3>2, <3>4
  <2>5. CASE s[i] \in K
    <3> DEFINE up == [j \in 1..l + 1 |-> IF j = l + 1 THEN i ELSE at[j]]
    <3>1. F[i] = Append(F[i - 1], s[i])
      BY <1>2, <2>5
    <3>2. /\ Len(F[i]) = l + 1 /\ F[i][l + 1] = s[i]
          /\ \A j \in 1..l : F[i][j] = F[i - 1][j]
      <4>1. s[i] \in D
        BY <1>2 DEF n
      <4> DEFINE p == F[i - 1]
                 q == F[i]
                 e == s[i]
      <4>2. p \in Seq(D) /\ e \in D /\ q = Append(p, e) /\ Len(p) = l
        BY <2>2, <3>1, <4>1 DEF l
      <4> HIDE DEF p, q, e
      <4>3. Len(q) = l + 1 /\ q[l + 1] = e /\ \A j \in 1..l : q[j] = p[j]
        BY <2>3, <4>2, SMTT(30)
      <4>4. QED
        BY <4>3 DEF p, q, e
    <3>3. \A j \in 1..l : j \in 1..l + 1 /\ up[j] = at[j] /\ at[j] \in 1..i - 1
      <4>1. at \in [1..l -> 1..i - 1]
        BY <2>1 DEF l
      <4>2. \A j \in 1..l : j \in 1..l + 1 /\ j # l + 1
        BY <2>3
      <4>3. QED
        BY <4>1, <4>2
    <3>4. up[l + 1] = i /\ l + 1 \in 1..l + 1 /\ \A j \in 1..l + 1 : j # l + 1 => j \in 1..l
      BY <2>3
    <3>5. up \in [1..Len(F[i]) -> 1..i]
      <4>1. \A j \in 1..l + 1 : up[j] \in 1..i
        <5>1. i \in 1..i /\ 1..i - 1 \subseteq 1..i
          BY <2>2
        <5> HIDE DEF up
        <5>2. QED
          BY <3>3, <3>4, <5>1
      <4>2. DOMAIN up = 1..l + 1 /\ up = [j \in 1..l + 1 |-> up[j]]
        OBVIOUS
      <4> HIDE DEF up
      <4>3. up \in [1..l + 1 -> 1..i]
        BY <4>1, <4>2
      <4>4. QED
        BY <3>2, <4>3
    <3> HIDE DEF up
    <3>6. \A j \in 1..Len(F[i]) : F[i][j] = s[up[j]] /\ s[up[j]] \in K
      BY <2>1, <2>5, <3>2, <3>3, <3>4 DEF l
    <3>7. ASSUME NEW j \in 1..Len(F[i]), NEW k \in 1..Len(F[i]), j < k PROVE up[j] < up[k]
      <4>1. j \in 1..l
        BY <2>3, <3>2, <3>7
      <4>2. CASE k = l + 1
        <5>1. up[k] = i /\ up[j] \in 1..i - 1
          BY <3>3, <3>4, <4>1, <4>2
        <5>2. QED
          BY <2>2, <5>1
      <4>3. CASE k # l + 1
        <5>1. k \in 1..l
          BY <3>2, <3>4, <4>3
        <5>2. QED
          BY <2>1, <3>3, <3>7, <4>1, <5>1 DEF l
      <4>4. QED
        BY <4>2, <4>3
    <3>8. ASSUME NEW m \in 1..i, s[m] \in K PROVE \E j \in 1..Len(F[i]) : up[j] = m
      <4>1. CASE m = i
        BY <3>2, <3>4, <4>1
      <4>2. CASE m # i
        <5>1. m \in 1..i - 1
          BY <2>2, <4>2
        <5>2. PICK j \in 1..l : at[j] = m
          BY <2>1, <3>8, <5>1 DEF l
        <5>3. QED
          BY <3>2, <3>3, <5>2
      <4>3. QED
        BY <4>1, <4>2
    <3>9. From(i, up)
      BY <3>6, <3>7, <3>8
    <3>10. QED
      BY <2>2, <3>5, <3>9
  <2>6. QED
    BY <2>4, <2>5
<1>5. 0..n \subseteq T
  <2> HIDE DEF T
  <2>1. QED
    BY <1>2, <1>3, <1>4, NumbersUpTo
<1>6. n \in 0..n /\ F[n] \in Seq(D)
  BY <1>1, <1>2
<1>7. PICK at \in [1..Len(F[n]) -> 1..n] : From(n, at)
  BY <1>5, <1>6
<1>8. Only(s, K) = F[n] /\ n = Len(s)
  BY <1>1 DEF n
<1> DEFINE r == F[n]
<1>9. /\ r \in Seq(D) /\ at \in [1..Len(r) -> 1..n]
      /\ \A j \in 1..Len(r) : r[j] = s[at[j]] /\ s[at[j]] \in K
      /\ \A j, k \in 1..Len(r) : j < k => at[j] < at[k]
      /\ \A i \in 1..n : s[i] \in K => \E j \in 1..Len(r) : at[j] = i
  BY <1>6, <1>7
<1>10. Only(s, K) = r
  BY <1>8
<1> HIDE DEF r, From, T
<1>11. QED
  BY <1>8, <1>9, <1>10, ZenonT(40)

-----------------------------------------------------------------------------
(* The inductive invariant of the commands.                                *)

\* A trace that was run and checked: for some question, under some policies.
Recorded(t) ==
  \E u \in Traces, P \in PolicySets : t = Apply(Finished(u, [id |-> t.case]), P)

\* The ids of the cases of a run, and of cases that are to run.
CaseIds(run) == [i \in DOMAIN run |-> run[i].case]
Asked(s) == [i \in DOMAIN s |-> s[i].id]

\* The cases of a run in progress: those that were run, and those that are to.
Plan(run, rest) == CaseIds(run) \o Asked(rest)

\* Nothing is there twice.
Distinct(s) == \A i, j \in DOMAIN s : s[i] = s[j] => i = j

\* A recording has at most the cases of its suite, each once.
Recording ==
  stage = "record" => Len(before) + Len(todo) <= Len(suiteFile) /\ Distinct(Plan(before, todo))

\* A replay has the cases of the recorded run and no other.
Replaying ==
  /\ stage = "replay" => Range(Plan(after, todo)) = Range(CaseIds(before))
  /\ stage = "compared" => Range(CaseIds(after)) = Range(CaseIds(before))
  /\ stage \notin {"replay", "compared"} => after = <<>>

\* A rescored run is the recorded one, checked again.
Rescoring ==
  rescored = IF stage = "rescored" THEN [i \in DOMAIN before |-> Rescored(before[i], policies)]
             ELSE <<>>

\* What the variables hold.
JTyped ==
  /\ stage \in Stages
  /\ suiteFile \in SuiteFiles \cup {<<>>}
  /\ stage = "new" => before = <<>> /\ todo = <<>>
  /\ stage # "new" => policies \in PolicySets
  /\ before \in Seq(Range(before)) /\ \A i \in DOMAIN before : Recorded(before[i])
  /\ after \in Seq(Range(after)) /\ \A i \in DOMAIN after : Recorded(after[i])
  /\ todo \in Seq(Range(todo))

\* The inductive invariant of the commands record, replay, rescore and compare.
JInv == JTyped /\ Once(before) /\ Recording /\ Replaying /\ Rescoring

-----------------------------------------------------------------------------
(* Policies and assertions look at the evidence only.                      *)

\* Where citations are from.
Sources(C) == {c.source : c \in C}

\* Two traces of the same evidence, but for the support of the citations.
AlikeBut(t, u) ==
  /\ t.refused = u.refused /\ t.answer = u.answer /\ t.memo = u.memo
  /\ t.best = u.best /\ t.tools = u.tools /\ t.spans = u.spans /\ t.tokens = u.tokens
  /\ t.priced = u.priced /\ t.amount = u.amount /\ t.fixtures = u.fixtures
  /\ t.digests = u.digests /\ Sources(t.citations) = Sources(u.citations)

\* Two traces of the same evidence, as far as anything asks for it.
Alike(t, u) == AlikeBut(t, u) /\ Sources(Unsupported(t)) = Sources(Unsupported(u))

\* What a checked trace is.
LEMMA ApplyExact ==
  ASSUME NEW t, DOMAIN t = Evidence \cup Judged, t = [x \in DOMAIN t |-> t[x]], NEW P
  PROVE  /\ DOMAIN Apply(t, P) = DOMAIN t /\ Alike(Apply(t, P), t)
         /\ Apply(t, P) = [x \in DOMAIN t |-> Apply(t, P)[x]]
         /\ Apply(t, P).case = t.case /\ Apply(t, P).citations = t.citations
         /\ Apply(t, P).violations = Violations(t, P) /\ Apply(t, P).checks = t.checks + 1
         /\ Apply(t, P).checked_with = IF t.checked_with = {} THEN {P} ELSE t.checked_with
<1> DEFINE V == Violations(t, P)
           u == [t EXCEPT !.violations = V, !.checks = @ + 1,
                          !.checked_with = IF @ = {} THEN {P} ELSE @]
<1>1. Apply(t, P) = u
  BY DEF Apply
<1>2. DOMAIN u = DOMAIN t /\ u = [x \in DOMAIN t |-> u[x]]
  OBVIOUS
<1>3. /\ u.case = t.case /\ u.citations = t.citations /\ u.violations = V
      /\ u.checks = t.checks + 1
      /\ u.checked_with = IF t.checked_with = {} THEN {P} ELSE t.checked_with
  BY DEF Evidence, Judged
<1>4. /\ t.refused = u.refused /\ t.answer = u.answer /\ t.memo = u.memo
      /\ t.best = u.best /\ t.tools = u.tools /\ t.spans = u.spans /\ t.tokens = u.tokens
      /\ t.priced = u.priced /\ t.amount = u.amount /\ t.fixtures = u.fixtures
      /\ t.digests = u.digests
  BY DEF Evidence, Judged
<1> HIDE DEF u, V
<1>5. Alike(u, t)
  BY <1>3, <1>4 DEF Alike, AlikeBut, Unsupported
<1>6. QED
  BY <1>1, <1>2, <1>3, <1>5 DEF V

\* A trace that a recorder has finished: the agent's evidence, for a case, not checked yet.
LEMMA FinishedExact ==
  ASSUME NEW t \in Traces, NEW c
  PROVE  /\ DOMAIN Finished(t, c) = Evidence \cup Judged /\ Alike(Finished(t, c), t)
         /\ Finished(t, c) = [x \in DOMAIN Finished(t, c) |-> Finished(t, c)[x]]
         /\ Finished(t, c).case = c.id /\ Finished(t, c).violations = {}
         /\ Finished(t, c).checks = 0 /\ Finished(t, c).checked_with = {}
         /\ Finished(t, c).citations = t.citations
<1> DEFINE u == [t EXCEPT !.case = c.id, !.violations = {}, !.checks = 0, !.checked_with = {}]
<1>1. Finished(t, c) = u
  BY DEF Finished
<1>2. DOMAIN t = Evidence \cup Judged
  BY JudgementAssumption
<1>3. DOMAIN u = DOMAIN t /\ u = [x \in DOMAIN u |-> u[x]]
  OBVIOUS
<1>4. /\ u.case = c.id /\ u.citations = t.citations /\ u.violations = {}
      /\ u.checks = 0 /\ u.checked_with = {}
  BY <1>2 DEF Evidence, Judged
<1>5. /\ t.refused = u.refused /\ t.answer = u.answer /\ t.memo = u.memo
      /\ t.best = u.best /\ t.tools = u.tools /\ t.spans = u.spans /\ t.tokens = u.tokens
      /\ t.priced = u.priced /\ t.amount = u.amount /\ t.fixtures = u.fixtures
      /\ t.digests = u.digests
  BY <1>2 DEF Evidence, Judged
<1> HIDE DEF u
<1>6. Alike(u, t)
  BY <1>4, <1>5 DEF Alike, AlikeBut, Unsupported
<1>7. QED
  BY <1>1, <1>2, <1>3, <1>4, <1>6

\* Citations from the same places: there are some in both or in none.
LEMMA SameSources ==
  ASSUME NEW C, NEW D, Sources(C) = Sources(D)
  PROVE  C = {} <=> D = {}
BY DEF Sources

\* Which policies apply, and what all but one of them find, does not depend on the
\* support of citations.
LEMMA UnweighedRules ==
  ASSUME NEW t, NEW u, AlikeBut(t, u), NEW P
  PROVE  /\ Applicable(t, P) = Applicable(u, P)
         /\ \A p : p # "UNSUPPORTED_CITATION" => Rule(p, t, P) = Rule(p, u, P)
<1>1. t.citations = {} <=> u.citations = {}
  BY SameSources DEF AlikeBut
<1>2. Applicable(t, P) = Applicable(u, P)
  BY <1>1 DEF AlikeBut, Applicable
<1>3. ASSUME NEW p, p # "UNSUPPORTED_CITATION" PROVE Rule(p, t, P) = Rule(p, u, P)
  <2>1. UncitedAnswer(t, P) = UncitedAnswer(u, P)
    BY <1>1 DEF AlikeBut, UncitedAnswer
  <2>2. /\ AnsweredWithoutEvidence(t, P) = AnsweredWithoutEvidence(u, P)
        /\ ToolNotAllowed(t, P) = ToolNotAllowed(u, P) /\ PiiInOutput(t, P) = PiiInOutput(u, P)
        /\ TokenBudget(t, P) = TokenBudget(u, P)
    BY DEF AlikeBut, AnsweredWithoutEvidence, ToolNotAllowed, Tools, PiiInOutput, TokenBudget
  <2>3. QED
    BY <1>3, <2>1, <2>2 DEF Rule
<1>4. QED
  BY <1>2, <1>3

\* Policies look at the evidence only.
LEMMA ViolationsAlike ==
  ASSUME NEW t, NEW u, Alike(t, u), NEW P
  PROVE  Violations(t, P) = Violations(u, P)
<1>1. AlikeBut(t, u)
  BY DEF Alike
<1>2. Applicable(t, P) = Applicable(u, P)
  BY <1>1, UnweighedRules
<1>3. UnsupportedCitation(t) = UnsupportedCitation(u)
  BY <1>1 DEF Alike, AlikeBut, UnsupportedCitation, Sources
<1>4. ASSUME NEW p PROVE Rule(p, t, P) = Rule(p, u, P)
  <2>1. CASE p = "UNSUPPORTED_CITATION"
    BY <1>3, <2>1 DEF Rule
  <2>2. CASE p # "UNSUPPORTED_CITATION"
    BY <1>1, <2>2, UnweighedRules
  <2>3. QED
    BY <2>1, <2>2
<1>5. QED
  BY <1>2, <1>4 DEF Violations

\* A violation that is not about the support of a citation does not depend on it.
LEMMA UnweighedAlike ==
  ASSUME NEW t, NEW u, AlikeBut(t, u), NEW P
  PROVE  Unweighed(Violations(t, P)) = Unweighed(Violations(u, P))
<1>1. ASSUME NEW x
      PROVE  Unweighed(Violations(x, P))
               = UNION {{p} \X Rule(p, x, P) : p \in Applicable(x, P) \ {"UNSUPPORTED_CITATION"}}
  BY DEF Unweighed, Violations
<1>2. Applicable(t, P) = Applicable(u, P)
  BY UnweighedRules
<1>3. \A p \in Applicable(t, P) \ {"UNSUPPORTED_CITATION"} : Rule(p, t, P) = Rule(p, u, P)
  BY UnweighedRules
<1>4. QED
  BY <1>1, <1>2, <1>3

\* What is known of a recorded trace: it was checked once, under policies whose violations it has.
LEMMA RecordedExact ==
  ASSUME NEW t, Recorded(t)
  PROVE  /\ DOMAIN t = Evidence \cup Judged /\ t = [x \in DOMAIN t |-> t[x]]
         /\ t.checks = 1 /\ (\E P \in PolicySets : t.checked_with = {P})
         /\ \E P \in PolicySets : t.violations = Violations(t, P)
         /\ t.refused \in BOOLEAN /\ t.fixtures \in Seq(BOOLEAN)
         /\ \A c \in t.citations : c = [source |-> c.source, support |-> c.support] /\ c.support \in Nat
         /\ t.spans \in Seq(Range(t.spans))
         /\ \A s \in Range(t.spans) : s.start \in Nat /\ s.end \in Nat /\ s.duration \in Nat
<1>1. PICK u \in Traces, P \in PolicySets : t = Apply(Finished(u, [id |-> t.case]), P)
  BY DEF Recorded
<1> DEFINE f == Finished(u, [id |-> t.case])
<1>2. /\ DOMAIN f = Evidence \cup Judged /\ Alike(f, u) /\ f = [x \in DOMAIN f |-> f[x]]
      /\ f.violations = {} /\ f.checks = 0 /\ f.checked_with = {} /\ f.citations = u.citations
  BY FinishedExact
<1> HIDE DEF f
<1>3. t = Apply(f, P)
  BY <1>1 DEF f
<1>4. /\ DOMAIN t = DOMAIN f /\ Alike(t, f) /\ t = [x \in DOMAIN f |-> t[x]]
      /\ t.violations = Violations(f, P) /\ t.checks = 1 /\ t.checked_with = {P}
      /\ t.citations = f.citations
  <2>1. /\ DOMAIN Apply(f, P) = DOMAIN f /\ Alike(Apply(f, P), f)
        /\ Apply(f, P).citations = f.citations
        /\ Apply(f, P) = [x \in DOMAIN f |-> Apply(f, P)[x]]
        /\ Apply(f, P).violations = Violations(f, P) /\ Apply(f, P).checks = f.checks + 1
        /\ Apply(f, P).checked_with = IF f.checked_with = {} THEN {P} ELSE f.checked_with
    BY <1>2, ApplyExact
  <2>2. f.checks + 1 = 1
    BY <1>2
  <2>3. QED
    BY <1>2, <1>3, <2>1, <2>2
<1>5. Alike(t, u) /\ Alike(f, t)
  BY <1>2, <1>4 DEF Alike, AlikeBut
<1>6. Violations(f, P) = Violations(t, P)
  BY <1>5, ViolationsAlike
<1>7. /\ u.refused \in BOOLEAN /\ u.fixtures \in Seq(BOOLEAN)
      /\ \A c \in u.citations : c = [source |-> c.source, support |-> c.support] /\ c.support \in Nat
      /\ u.spans \in Seq(Range(u.spans))
      /\ \A s \in Range(u.spans) : s.start \in Nat /\ s.end \in Nat /\ s.duration \in Nat
  BY JudgementAssumption
<1>8. t.refused = u.refused /\ t.fixtures = u.fixtures /\ t.spans = u.spans
      /\ t.citations = u.citations
  BY <1>2, <1>4, <1>5 DEF Alike, AlikeBut
<1>9. t.violations = Violations(t, P)
  BY <1>4, <1>6
<1>10. DOMAIN t = Evidence \cup Judged /\ t = [x \in DOMAIN t |-> t[x]]
  BY <1>2, <1>4
<1>11. QED
  BY <1>4, <1>7, <1>8, <1>9, <1>10

\* The assertions look at the evidence only, unless they are about policies.
LEMMA EvaluateAlike ==
  ASSUME NEW t, NEW u, Alike(t, u), NEW a, a.type # "policy_violation"
  PROVE  Evaluate(a, t) = Evaluate(a, u)
<1> DEFINE kind == Alias(a.type)
<1>1. kind # "policy_violation"
  BY DEF Alias
<1>2. OfTrace(kind, a, t) = OfTrace(kind, a, u)
  <2> HIDE DEF kind
  <2>1. \A e : (\E c \in t.citations : c.source = e) <=> \E c \in u.citations : c.source = e
    <3>1. \A e, C : (\E c \in C : c.source = e) <=> e \in Sources(C)
      BY DEF Sources
    <3>2. QED
      BY <3>1 DEF Alike, AlikeBut
  <2>2. CallsOf(a, t) = CallsOf(a, u) /\ \A k : Measure(k, t) = Measure(k, u)
    BY DEF Alike, AlikeBut, CallsOf, Measure
  <2>3. QED
    BY <1>1, <2>1, <2>2 DEF Alike, AlikeBut, OfTrace
<1>3. Selected(a.selector, t) = Selected(a.selector, u) /\ t.answer = u.answer
  BY DEF Alike, AlikeBut, Selected
<1>4. QED
  BY <1>2, <1>3 DEF Evaluate

\* Nor does a verdict change with the policies, unless an assertion is about them.
LEMMA VerdictAlike ==
  ASSUME NEW t, NEW u, Alike(t, u), NEW c, ~AsksForPolicies(c), NEW P, NEW Q
  PROVE  Judge(t, c, P).verdict = Judge(u, c, Q).verdict
<1>1. Grounded(t) = Grounded(u)
  <2>1. t.citations = {} <=> u.citations = {}
    BY SameSources DEF Alike, AlikeBut
  <2>2. Unsupported(t) = {} <=> Unsupported(u) = {}
    BY SameSources DEF Alike
  <2>3. QED
    BY <2>1, <2>2 DEF Alike, AlikeBut, Grounded
<1>2. LegacyVerdict(t, c) = LegacyVerdict(u, c)
  BY <1>1 DEF Alike, AlikeBut, Sources, LegacyVerdict
<1>3. ASSUME NEW i \in DOMAIN c.assertions
      PROVE  Evaluate(c.assertions[i], t) = Evaluate(c.assertions[i], u)
  <2>1. c.assertions[i].type # "policy_violation"
    BY DEF AsksForPolicies, Range
  <2>2. QED
    BY <2>1, EvaluateAlike
<1>4. AssertionResults(c, t) = AssertionResults(c, u)
  BY <1>3 DEF Alike, AlikeBut, AssertionResults
<1>5. AllPassed(c, t) = AllPassed(c, u)
  BY <1>4 DEF AllPassed
<1>6. ASSUME NEW x, NEW R
      PROVE  Judge(x, c, R).verdict =
               IF ~AllPassed(c, x) /\ LegacyVerdict(x, c) \in Good THEN "wrong" ELSE LegacyVerdict(x, c)
  BY DEF Judge
<1>7. QED
  BY <1>2, <1>5, <1>6

-----------------------------------------------------------------------------
(* Plans of runs.                                                          *)

\* A sequence is one of its own elements.
LEMMA InOwnRange ==
  ASSUME NEW D, NEW s \in Seq(D)
  PROVE  s \in Seq(Range(s)) /\ Range(s) \subseteq D /\ DOMAIN s = 1..Len(s) /\ Len(s) \in Nat
BY DEF Range

\* The elements of a plan, in two parts.
PlanOf(b, q) ==
  /\ Plan(b, q) \in Seq(Range(CaseIds(b)) \cup Range(Asked(q)))
  /\ Len(Plan(b, q)) = Len(b) + Len(q) /\ DOMAIN Plan(b, q) = 1..(Len(b) + Len(q))
  /\ \A i \in 1..Len(b) : Plan(b, q)[i] = b[i].case
  /\ \A i \in 1..Len(q) : Plan(b, q)[Len(b) + i] = q[i].id

\* The elements of a plan.
LEMMA PlanExact ==
  ASSUME NEW D, NEW E, NEW b \in Seq(D), NEW q \in Seq(E)
  PROVE  PlanOf(b, q)
<1> DEFINE x == CaseIds(b)
           y == Asked(q)
           F == Range(x) \cup Range(y)
<1>1. Len(b) \in Nat /\ Len(q) \in Nat /\ DOMAIN b = 1..Len(b) /\ DOMAIN q = 1..Len(q)
  OBVIOUS
<1>2. x \in Seq(F) /\ Len(x) = Len(b) /\ \A i \in 1..Len(b) : x[i] = b[i].case
  <2>1. x = [i \in 1..Len(b) |-> b[i].case]
    BY <1>1 DEF CaseIds
  <2>2. \A i \in 1..Len(b) : x[i] \in F
    BY <2>1 DEF Range
  <2> HIDE DEF F, x
  <2>3. QED
    BY <1>1, <2>1, <2>2
<1>3. y \in Seq(F) /\ Len(y) = Len(q) /\ \A i \in 1..Len(q) : y[i] = q[i].id
  <2>1. y = [i \in 1..Len(q) |-> q[i].id]
    BY <1>1 DEF Asked
  <2>2. \A i \in 1..Len(q) : y[i] \in F
    BY <2>1 DEF Range
  <2> HIDE DEF F, y
  <2>3. QED
    BY <1>1, <2>1, <2>2
<1> HIDE DEF F, x, y
<1>4. Plan(b, q) = x \o y
  BY DEF Plan, x, y
<1>5. /\ x \o y \in Seq(F) /\ Len(x \o y) = Len(b) + Len(q)
      /\ \A i \in 1..(Len(b) + Len(q)) :
           (x \o y)[i] = IF i <= Len(b) THEN x[i] ELSE y[i - Len(b)]
  <2>1. x \in Seq(F) /\ y \in Seq(F)
    BY <1>2, <1>3
  <2>2. /\ x \o y \in Seq(F) /\ Len(x \o y) = Len(x) + Len(y)
        /\ \A i \in 1..(Len(x) + Len(y)) :
             (x \o y)[i] = IF i <= Len(x) THEN x[i] ELSE y[i - Len(x)]
    BY <2>1, ConcatProperties, Zenon
  <2>3. Len(x) = Len(b) /\ Len(y) = Len(q)
    BY <1>2, <1>3
  <2>4. QED
    BY <2>2, <2>3
<1>6. DOMAIN (x \o y) = 1..(Len(b) + Len(q))
  BY <1>5, LenProperties
<1>7. ASSUME NEW i \in 1..Len(b) PROVE (x \o y)[i] = x[i]
  BY <1>1, <1>5
<1>8. ASSUME NEW i \in 1..Len(q) PROVE (x \o y)[Len(b) + i] = y[i]
  <2>1. /\ Len(b) + i \in 1..(Len(b) + Len(q)) /\ ~(Len(b) + i <= Len(b))
        /\ (Len(b) + i) - Len(b) = i
    BY <1>1
  <2>2. QED
    BY <1>5, <2>1
<1>9. F = Range(CaseIds(b)) \cup Range(Asked(q))
  BY DEF F, x, y
<1>10. QED
  BY <1>2, <1>3, <1>4, <1>5, <1>6, <1>7, <1>8, <1>9 DEF PlanOf

\* A plan is as it was when the next of its cases has been run.
LEMMA PlanMoves ==
  ASSUME NEW D, NEW E, NEW b \in Seq(D), NEW q \in Seq(E), q # <<>>,
         NEW t \in D, t.case = Head(q).id
  PROVE  Plan(Append(b, t), Tail(q)) = Plan(b, q)
<1> DEFINE n == Len(b)
           m == Len(q)
           b2 == Append(b, t)
           q2 == Tail(q)
<1>1. n \in Nat /\ m \in Nat /\ m # 0
  OBVIOUS
<1>2. b2 \in Seq(D) /\ Len(b2) = n + 1 /\ b2[n + 1] = t /\ \A i \in 1..n : b2[i] = b[i]
  OBVIOUS
<1>3. q2 \in Seq(E) /\ Len(q2) = m - 1 /\ q[1] = Head(q) /\ \A i \in 1..(m - 1) : q2[i] = q[i + 1]
  OBVIOUS
<1> DEFINE p == Plan(b, q)
           r == Plan(b2, q2)
<1> DEFINE G == Range(CaseIds(b)) \cup Range(Asked(q))
           H == Range(CaseIds(b2)) \cup Range(Asked(q2))
<1>4. /\ p \in Seq(G) /\ Len(p) = n + m
      /\ (\A i \in 1..n : p[i] = b[i].case) /\ \A i \in 1..m : p[n + i] = q[i].id
  <2>1. PlanOf(b, q)
    BY PlanExact
  <2>2. QED
    BY <2>1 DEF PlanOf
<1>5. /\ r \in Seq(H) /\ Len(r) = (n + 1) + (m - 1) /\ (\A i \in 1..(n + 1) : r[i] = b2[i].case)
      /\ \A i \in 1..(m - 1) : r[(n + 1) + i] = q2[i].id
  <2> HIDE DEF b2, q2, n, m
  <2>1. PlanOf(b2, q2)
    BY <1>2, <1>3, PlanExact
  <2>2. QED
    BY <1>2, <1>3, <2>1 DEF PlanOf
<1> HIDE DEF n, m, b2, q2, p, r, G, H
<1>6. (n + 1) + (m - 1) = n + m
  BY <1>1
<1>7. ASSUME NEW i \in 1..(n + m) PROVE r[i] = p[i]
  <2>1. CASE i \in 1..n
    <3>1. i \in 1..(n + 1)
      BY <1>1, <2>1
    <3>2. QED
      BY <1>2, <1>4, <1>5, <2>1, <3>1
  <2>2. CASE i = n + 1
    <3>1. n + 1 \in 1..(n + 1) /\ 1 \in 1..m
      BY <1>1
    <3>2. r[n + 1] = t.case /\ p[n + 1] = q[1].id
      BY <1>2, <1>4, <1>5, <3>1
    <3>3. QED
      BY <1>3, <2>2, <3>2
  <2>3. CASE i > n + 1
    <3> DEFINE j == i - (n + 1)
    <3>1. j \in 1..(m - 1) /\ j + 1 \in 1..m /\ i = (n + 1) + j /\ i = n + (j + 1)
      BY <1>1, <2>3
    <3> HIDE DEF j
    <3>2. r[(n + 1) + j] = q2[j].id /\ p[n + (j + 1)] = q[j + 1].id /\ q2[j] = q[j + 1]
      BY <1>3, <1>4, <1>5, <3>1
    <3>3. QED
      BY <3>1, <3>2
  <2>4. QED
    BY <1>1, <2>1, <2>2, <2>3
<1>8. p \in Seq(G \cup H) /\ r \in Seq(G \cup H)
  BY <1>4, <1>5, SeqMonotonic
<1>9. Len(r) = Len(p) /\ \A i \in 1..Len(r) : r[i] = p[i]
  BY <1>4, <1>5, <1>6, <1>7
<1>10. r = p
  BY <1>8, <1>9, SeqEqual
<1>11. QED
  BY <1>10 DEF p, r, b2, q2

\* The cases in a plan.
LEMMA PlanRange ==
  ASSUME NEW D, NEW E, NEW b \in Seq(D), NEW q \in Seq(E)
  PROVE  Range(Plan(b, q)) = {t.case : t \in Range(b)} \cup {c.id : c \in Range(q)}
<1> DEFINE n == Len(b)
           m == Len(q)
           p == Plan(b, q)
<1>1. n \in Nat /\ m \in Nat /\ DOMAIN b = 1..n /\ DOMAIN q = 1..m
  OBVIOUS
<1>2. DOMAIN p = 1..(n + m) /\ (\A i \in 1..n : p[i] = b[i].case) /\ \A i \in 1..m : p[n + i] = q[i].id
  <2>1. PlanOf(b, q)
    BY PlanExact
  <2>2. QED
    BY <2>1 DEF PlanOf
<1> HIDE DEF n, m, p
<1>3. ASSUME NEW i \in 1..n PROVE i \in 1..(n + m)
  BY <1>1
<1>4. ASSUME NEW i \in 1..m PROVE n + i \in 1..(n + m)
  BY <1>1
<1>5. ASSUME NEW i \in 1..(n + m), i \notin 1..n PROVE \E j \in 1..m : i = n + j
  <2>1. i - n \in 1..m /\ i = n + (i - n)
    BY <1>1, <1>5
  <2>2. QED
    BY <2>1
<1>6. Range(p) \subseteq {t.case : t \in Range(b)} \cup {c.id : c \in Range(q)}
  <2> SUFFICES ASSUME NEW i \in 1..(n + m)
               PROVE  p[i] \in {t.case : t \in Range(b)} \cup {c.id : c \in Range(q)}
    BY <1>2 DEF Range
  <2>1. CASE i \in 1..n
    BY <1>1, <1>2, <2>1 DEF Range
  <2>2. CASE i \notin 1..n
    <3>1. PICK j \in 1..m : i = n + j
      BY <1>5, <2>2
    <3>2. p[i] = q[j].id /\ q[j] \in Range(q)
      BY <1>1, <1>2, <3>1 DEF Range
    <3>3. QED
      BY <3>2
  <2>3. QED
    BY <2>1, <2>2
<1>7. {t.case : t \in Range(b)} \subseteq Range(p)
  BY <1>1, <1>2, <1>3 DEF Range
<1>8. {c.id : c \in Range(q)} \subseteq Range(p)
  BY <1>1, <1>2, <1>4, ZenonT(40) DEF Range
<1>9. QED
  BY <1>6, <1>7, <1>8 DEF p

-----------------------------------------------------------------------------
(* One lemma for each command.                                             *)

\* The suite's file holds a sequence of cases, before and after it is edited.
LEMMA SuiteSeq ==
  ASSUME JInv
  PROVE  suiteFile \in Seq(Range(suiteFile))
<1>1. CASE suiteFile \in SuiteFiles
  BY <1>1, JudgementAssumption
<1>2. CASE suiteFile = <<>>
  BY <1>2
<1>3. QED
  BY <1>1, <1>2 DEF JInv, JTyped

\* A trace that the agent has produced and the recorder has checked.
LEMMA CheckedExact ==
  ASSUME NEW t \in Traces, NEW c, NEW P \in PolicySets
  PROVE  Recorded(Apply(Finished(t, c), P)) /\ Apply(Finished(t, c), P).case = c.id
<1> DEFINE f == Finished(t, c)
           x == Apply(f, P)
<1>1. /\ DOMAIN f = Evidence \cup Judged /\ f = [y \in DOMAIN f |-> f[y]] /\ f.case = c.id
  BY FinishedExact
<1>2. x.case = c.id
  <2> HIDE DEF f
  <2>1. QED
    BY <1>1, ApplyExact
<1>3. f = Finished(t, [id |-> x.case])
  <2>1. ASSUME NEW d, d.id = c.id PROVE Finished(t, d) = Finished(t, c)
    BY <2>1 DEF Finished
  <2>2. [id |-> x.case].id = c.id
    BY <1>2
  <2>3. QED
    BY <2>1, <2>2
<1>4. Recorded(x)
  BY <1>3 DEF Recorded
<1>5. QED
  BY <1>2, <1>4

\* What a plan without a repeated case says of the run.
LEMMA PlanOnce ==
  ASSUME NEW D, NEW E, NEW b \in Seq(D), NEW q \in Seq(E), Distinct(Plan(b, q))
  PROVE  Once(b)
<1>1. /\ DOMAIN Plan(b, q) = 1..(Len(b) + Len(q))
      /\ \A i \in 1..Len(b) : Plan(b, q)[i] = b[i].case
  <2>1. PlanOf(b, q)
    BY PlanExact
  <2>2. QED
    BY <2>1 DEF PlanOf
<1>2. Len(b) \in Nat /\ Len(q) \in Nat /\ DOMAIN b = 1..Len(b)
  OBVIOUS
<1>3. 1..Len(b) \subseteq 1..(Len(b) + Len(q))
  BY <1>2
<1>4. QED
  BY <1>1, <1>2, <1>3 DEF Once, Distinct

\* record starts with every case of an accepted suite to run, none of them twice.
LEMMA BeginStep ==
  ASSUME JInv, NEW S \in SuiteFiles, NEW P \in PolicySets, Begin(S, P)
  PROVE  JInv'
<1>1. /\ stage = "new" /\ stage' = "record" /\ suiteFile' = S /\ todo' = S /\ policies' = P
      /\ before' = <<>> /\ after' = <<>> /\ rescored' = <<>>
  BY DEF Begin, JInv, JTyped, Replaying, Rescoring
<1>2. S \in Seq(Range(S)) /\ \A i, j \in DOMAIN S : S[i].id = S[j].id => i = j
  BY JudgementAssumption DEF Begin, Accepted
<1>3. JTyped'
  <2>1. DOMAIN <<>> = {} /\ <<>> \in Seq(Range(<<>>))
    OBVIOUS
  <2>2. QED
    BY <1>1, <1>2, <2>1 DEF JTyped, Stages
<1>4. Once(before)' /\ Replaying' /\ Rescoring'
  BY <1>1 DEF Once, Replaying, Rescoring
<1>5. Recording'
  <2> DEFINE e == <<>>
  <2>1. e \in Seq({}) /\ Len(e) = 0
    OBVIOUS
  <2> HIDE DEF e
  <2>2. Len(S) \in Nat /\ DOMAIN S = 1..Len(S)
    BY <1>2
  <2>3. DOMAIN Plan(e, S) = 1..(0 + Len(S)) /\ \A i \in 1..Len(S) : Plan(e, S)[0 + i] = S[i].id
    <3>1. PlanOf(e, S)
      BY <1>2, <2>1, PlanExact
    <3>2. QED
      BY <2>1, <3>1 DEF PlanOf
  <2>4. Distinct(Plan(e, S))
    BY <1>2, <2>2, <2>3 DEF Distinct
  <2>5. before' = e
    BY <1>1 DEF e
  <2>6. Len(e) + Len(S) <= Len(S)
    BY <2>1, <2>2
  <2>7. QED
    BY <1>1, <2>4, <2>5, <2>6 DEF Recording
<1>6. QED
  BY <1>3, <1>4, <1>5 DEF JInv

\* A run that grows by a recorded trace.
LEMMA RunGrows ==
  ASSUME NEW D, NEW b \in Seq(D), \A i \in DOMAIN b : Recorded(b[i]), NEW t, Recorded(t)
  PROVE  /\ Append(b, t) \in Seq(Range(Append(b, t)))
         /\ \A i \in DOMAIN Append(b, t) : Recorded(Append(b, t)[i])
         /\ Len(Append(b, t)) = Len(b) + 1
<1> DEFINE r == Append(b, t)
           n == Len(b)
<1>1. b \in Seq(D \cup {t}) /\ t \in D \cup {t}
  BY SeqMonotonic
<1>2. /\ n \in Nat /\ r \in Seq(D \cup {t}) /\ Len(r) = n + 1 /\ DOMAIN r = 1..(n + 1)
      /\ r[n + 1] = t /\ DOMAIN b = 1..n /\ \A i \in 1..n : r[i] = b[i]
  BY <1>1
<1> HIDE DEF r, n
<1>3. r \in Seq(Range(r))
  BY <1>2, InOwnRange
<1>4. ASSUME NEW i \in 1..(n + 1) PROVE Recorded(r[i])
  <2>1. CASE i = n + 1
    BY <1>2, <2>1
  <2>2. CASE i # n + 1
    <3>1. i \in 1..n
      BY <1>2, <2>2
    <3>2. QED
      BY <1>2, <3>1
  <2>3. QED
    BY <2>1, <2>2
<1>5. QED
  BY <1>2, <1>3, <1>4 DEF r, n

\* A case that was run leaves the plan of the run as it was.
LEMMA RecordStep ==
  ASSUME JInv, NEW t \in Traces, Record(t)
  PROVE  JInv'
<1> DEFINE x == Apply(Finished(t, Head(todo)), policies)
<1>1. /\ stage \in {"record", "replay"} /\ todo # <<>> /\ todo' = Tail(todo) /\ stage' = stage
      /\ suiteFile' = suiteFile /\ policies' = policies /\ rescored' = rescored
      /\ stage = "record" => before' = Append(before, x) /\ after' = after
      /\ stage # "record" => after' = Append(after, x) /\ before' = before
  BY DEF Record
<1>2. /\ policies \in PolicySets /\ before \in Seq(Range(before)) /\ after \in Seq(Range(after))
      /\ \A i \in DOMAIN before : Recorded(before[i])
      /\ \A i \in DOMAIN after : Recorded(after[i])
      /\ todo \in Seq(Range(todo)) /\ suiteFile \in SuiteFiles \cup {<<>>}
  BY <1>1 DEF JInv, JTyped
<1>3. Recorded(x) /\ x.case = Head(todo).id
  BY <1>2, CheckedExact
<1> HIDE DEF x
<1>4. todo' \in Seq(Range(todo)) /\ todo' \in Seq(Range(todo')) /\ Len(todo') = Len(todo) - 1
  <2>1. todo' \in Seq(Range(todo)) /\ Len(todo') = Len(todo) - 1
    BY <1>1, <1>2, HeadTailProperties
  <2>2. todo' \in Seq(Range(todo'))
    BY <2>1, InOwnRange
  <2>3. QED
    BY <2>1, <2>2
<1>5. ASSUME NEW b, b \in Seq(Range(b)), NEW r, r = Append(b, x), \A i \in DOMAIN b : Recorded(b[i])
      PROVE  /\ Plan(r, todo') = Plan(b, todo)
             /\ r \in Seq(Range(r)) /\ Len(r) = Len(b) + 1
             /\ \A i \in DOMAIN r : Recorded(r[i])
  <2> DEFINE D == Range(b) \cup {x}
  <2>1. b \in Seq(D) /\ x \in D
    BY <1>5, SeqMonotonic
  <2> HIDE DEF D
  <2>2. Plan(Append(b, x), Tail(todo)) = Plan(b, todo)
    BY <1>1, <1>2, <1>3, <2>1, PlanMoves
  <2>3. /\ Append(b, x) \in Seq(Range(Append(b, x))) /\ Len(Append(b, x)) = Len(b) + 1
        /\ \A i \in DOMAIN Append(b, x) : Recorded(Append(b, x)[i])
    BY <1>3, <1>5, RunGrows
  <2>4. QED
    BY <1>1, <1>5, <2>2, <2>3
<1>6. CASE stage = "record"
  <2>1. before' = Append(before, x) /\ after' = after /\ stage' = "record" /\ after = <<>>
    BY <1>1, <1>6 DEF JInv, Replaying
  <2>2. /\ Plan(before', todo') = Plan(before, todo)
        /\ before' \in Seq(Range(before')) /\ Len(before') = Len(before) + 1
        /\ \A i \in DOMAIN before' : Recorded(before'[i])
    BY <1>2, <1>5, <2>1
  <2>3. JTyped'
    BY <1>1, <1>2, <1>4, <2>1, <2>2 DEF JTyped, JInv
  <2>4. Distinct(Plan(before', todo')) /\ Len(before') + Len(todo') <= Len(suiteFile')
    <3>1. Distinct(Plan(before, todo)) /\ Len(before) + Len(todo) <= Len(suiteFile)
      BY <1>6 DEF JInv, Recording
    <3>2. Len(before) \in Nat /\ Len(todo) \in Nat
      BY <1>2
    <3>3. (Len(before) + 1) + (Len(todo) - 1) = Len(before) + Len(todo)
      BY <3>2
    <3>4. QED
      BY <1>1, <1>4, <2>2, <3>1, <3>3
  <2>5. Once(before')
    BY <1>4, <2>2, <2>4, PlanOnce
  <2>6. Rescoring' /\ Replaying'
    BY <1>1, <1>6, <2>1 DEF JInv, Rescoring, Replaying
  <2>7. Recording' /\ Once(before)'
    BY <2>4, <2>5 DEF Recording
  <2>8. QED
    BY <2>3, <2>6, <2>7 DEF JInv
<1>7. CASE stage = "replay"
  <2>1. after' = Append(after, x) /\ before' = before /\ stage' = "replay"
    BY <1>1, <1>7
  <2>2. /\ Plan(after', todo') = Plan(after, todo)
        /\ after' \in Seq(Range(after')) /\ \A i \in DOMAIN after' : Recorded(after'[i])
    BY <1>2, <1>5, <2>1
  <2>3. JTyped'
    BY <1>1, <1>2, <1>4, <2>1, <2>2, <1>7 DEF JTyped, JInv, Stages
  <2>4. Recording' /\ Once(before)' /\ Rescoring'
    BY <1>1, <1>7, <2>1 DEF JInv, Recording, Rescoring, Once
  <2>5. Range(Plan(after', todo')) = Range(CaseIds(before'))
    BY <1>7, <2>1, <2>2 DEF JInv, Replaying
  <2>6. Replaying'
    BY <2>1, <2>5 DEF Replaying
  <2>7. QED
    BY <2>3, <2>4, <2>6 DEF JInv
<1>8. QED
  BY <1>1, <1>6, <1>7

\* The stored run does not change when the suite's file does.
LEMMA EditStep ==
  ASSUME JInv, NEW S \in SuiteFiles, Edit(S)
  PROVE  JInv'
<1>1. /\ stage = "record" /\ stage' = "edited" /\ suiteFile' = S /\ todo' = todo
      /\ policies' = policies /\ before' = before /\ after' = after /\ rescored' = rescored
  BY DEF Edit
<1>2. JTyped'
  BY <1>1 DEF JInv, JTyped, Stages
<1>3. Once(before)' /\ Recording' /\ Replaying' /\ Rescoring'
  BY <1>1 DEF JInv, Once, Recording, Replaying, Rescoring
<1>4. QED
  BY <1>2, <1>3 DEF JInv

\* compare finds a replay with the cases of the recorded run.
LEMMA ComparedStep ==
  ASSUME JInv, NEW S \in SuiteFiles, Compared(S)
  PROVE  JInv'
<1>1. /\ stage = "replay" /\ stage' = "compared" /\ suiteFile' = S /\ todo' = todo /\ todo = <<>>
      /\ policies' = policies /\ before' = before /\ after' = after /\ rescored' = rescored
  BY DEF Compared
<1>2. JTyped'
  BY <1>1 DEF JInv, JTyped, Stages
<1>3. Once(before)' /\ Recording' /\ Rescoring'
  BY <1>1 DEF JInv, Once, Recording, Rescoring
<1>4. Range(CaseIds(after)) = Range(CaseIds(before))
  <2> DEFINE e == todo
  <2>1. after \in Seq(Range(after)) /\ e \in Seq({})
    BY <1>1 DEF JInv, JTyped
  <2>2. Range(e) = {}
    BY <1>1 DEF Range
  <2>3. Range(Plan(after, e)) = Range(CaseIds(before))
    BY <1>1 DEF JInv, Replaying
  <2> HIDE DEF e
  <2>4. Range(Plan(after, e)) = {t.case : t \in Range(after)} \cup {c.id : c \in Range(e)}
    BY <2>1, PlanRange
  <2>5. Range(CaseIds(after)) = {t.case : t \in Range(after)}
    BY DEF CaseIds, Range
  <2>6. QED
    BY <2>2, <2>3, <2>4, <2>5
<1>5. Replaying'
  BY <1>1, <1>4 DEF Replaying
<1>6. QED
  BY <1>2, <1>3, <1>5 DEF JInv

\* rescore checks a copy of every stored trace, once.
LEMMA RescoreStep ==
  ASSUME JInv, NEW P \in PolicySets, Rescore(P)
  PROVE  JInv'
<1>1. /\ stage \in {"record", "edited"} /\ stage' = "rescored" /\ policies' = P
      /\ suiteFile' = suiteFile /\ before' = before /\ after' = after /\ todo' = todo
      /\ rescored' = [i \in DOMAIN before |-> Rescored(before[i], P)]
  BY DEF Rescore, Stored
<1>2. JTyped'
  BY <1>1 DEF JInv, JTyped, Stages
<1>3. Once(before)' /\ Recording' /\ Replaying'
  BY <1>1 DEF JInv, Once, Recording, Replaying
<1>4. Rescoring'
  BY <1>1 DEF Rescoring
<1>5. QED
  BY <1>2, <1>3, <1>4 DEF JInv

\* replay plans the cases of the recorded run, or refuses.
LEMMA ReplayStep ==
  ASSUME JInv, Replay
  PROVE  JInv'
<1> DEFINE covered == {t.case : t \in Range(before)}
           K == {c \in Range(suiteFile) : c.id \in covered}
           subset == Only(suiteFile, K)
<1>1. /\ stage \in {"record", "edited"} /\ suiteFile' = suiteFile /\ policies' = policies
      /\ before' = before /\ after' = after /\ rescored' = rescored
      /\ \/ /\ covered = {c.id : c \in Range(subset)} /\ stage' = "replay" /\ todo' = subset
         \/ stage' = "refused" /\ todo' = todo
  BY DEF Replay, Stored
<1>2. after = <<>> /\ rescored = <<>>
  BY <1>1 DEF JInv, Replaying, Rescoring
<1>3. subset \in Seq(Range(suiteFile)) /\ subset \in Seq(Range(subset))
  <2>1. suiteFile \in Seq(Range(suiteFile))
    BY SuiteSeq
  <2> HIDE DEF K
  <2>2. subset \in Seq(Range(suiteFile))
    BY <2>1, OnlyExact
  <2> HIDE DEF subset
  <2>3. subset \in Seq(Range(subset))
    BY <2>2, InOwnRange
  <2>4. QED
    BY <2>2, <2>3
<1> HIDE DEF subset
<1>4. JTyped'
  BY <1>1, <1>3 DEF JInv, JTyped, Stages
<1>5. Once(before)' /\ Recording' /\ Rescoring'
  BY <1>1, <1>2 DEF JInv, Once, Recording, Rescoring
<1>6. Replaying'
  <2>1. CASE stage' = "replay" /\ todo' = subset /\ covered = {c.id : c \in Range(subset)}
    <3> DEFINE e == <<>>
    <3>1. e \in Seq({}) /\ Range(e) = {} /\ after' = e
      BY <1>1, <1>2 DEF Range
    <3> HIDE DEF e
    <3>2. Range(Plan(e, subset)) = {t.case : t \in Range(e)} \cup {c.id : c \in Range(subset)}
      BY <1>3, <3>1, PlanRange
    <3>3. Range(CaseIds(before)) = covered
      BY DEF CaseIds, Range
    <3>4. Range(Plan(e, subset)) = Range(CaseIds(before))
      BY <2>1, <3>1, <3>2, <3>3
    <3>5. QED
      BY <1>1, <2>1, <3>1, <3>4 DEF Replaying
  <2>2. CASE stage' = "refused"
    BY <1>1, <1>2, <2>2 DEF Replaying
  <2>3. QED
    BY <1>1, <2>1, <2>2
<1>7. QED
  BY <1>4, <1>5, <1>6 DEF JInv

\* No run has a case twice, a replay has the cases of what it replays and no other, and
\* a rescored run is the recorded one under other policies.
THEOREM JudgementInvariant == JudgementSpec => []JInv
<1>1. JudgementInit => JInv
  <2> SUFFICES ASSUME JudgementInit PROVE JInv
    OBVIOUS
  <2>1. DOMAIN <<>> = {} /\ <<>> \in Seq(Range(<<>>))
    OBVIOUS
  <2>2. QED
    BY <2>1 DEF JudgementInit, JInv, JTyped, Stages, Once, Recording, Replaying, Rescoring
<1>2. JInv /\ [JudgementNext]_judgementVars => JInv'
  <2> SUFFICES ASSUME JInv, [JudgementNext]_judgementVars PROVE JInv'
    OBVIOUS
  <2>1. CASE UNCHANGED judgementVars
    BY <2>1 DEF judgementVars, JInv, JTyped, Once, Recording, Replaying, Rescoring
  <2>2. CASE JudgementNext
    BY <2>2, BeginStep, RecordStep, EditStep, ComparedStep, RescoreStep, ReplayStep DEF JudgementNext
  <2>3. QED
    BY <2>1, <2>2
<1>3. QED
  BY <1>1, <1>2, PTL DEF JudgementSpec

-----------------------------------------------------------------------------
(* Rescoring.                                                              *)

\* What rounding does to a support, and to whether it is enough.
LEMMA RoundingExact ==
  ASSUME NEW n \in Nat
  PROVE  /\ FourDigits(n) \in Nat /\ FourDigits(n) - n \in -5..5
         /\ n \notin 59995..59999 => (FourDigits(n) < 60000 <=> n < 60000)
<1> DEFINE q == (n + 5) \div 10
<1>1. q \in Nat /\ 10 * q <= n + 5 /\ n + 5 < 10 * q + 10
  OBVIOUS
<1>2. FourDigits(n) = 10 * q
  BY DEF FourDigits
<1> HIDE DEF q
<1>3. QED
  BY <1>1, <1>2

\* Citations as a document has them.
Written(C) == {[c EXCEPT !.support = FourDigits(@)] : c \in C}

\* The citations of a trace that went through its document.
LEMMA CitationsReloaded ==
  ASSUME NEW t, Recorded(t), NEW D, D = Written(t.citations)
  PROVE  /\ Near(t.citations, D) /\ Sources(D) = Sources(t.citations)
         /\ ~Borderline(t) =>
              Sources({d \in D : d.support < 60000}) = Sources(Unsupported(t))
<1> DEFINE R(c) == [c EXCEPT !.support = FourDigits(@)]
<1>1. ASSUME NEW c \in t.citations
      PROVE  /\ R(c).source = c.source /\ R(c).support = FourDigits(c.support) /\ c.support \in Nat
             /\ R(c).support - c.support \in -5..5
  <2>1. c = [source |-> c.source, support |-> c.support] /\ c.support \in Nat
    BY RecordedExact
  <2>2. R(c).source = c.source /\ R(c).support = FourDigits(c.support)
    BY <2>1
  <2>3. QED
    BY <2>1, <2>2, RoundingExact
<1>2. D = {R(c) : c \in t.citations}
  BY DEF Written
<1> HIDE DEF R
<1>3. Near(t.citations, D)
  BY <1>1, <1>2 DEF Near
<1>4. Sources(D) = Sources(t.citations)
  BY <1>1, <1>2 DEF Sources
<1>5. ASSUME ~Borderline(t)
      PROVE  Sources({d \in D : d.support < 60000}) = Sources(Unsupported(t))
  <2>1. \A c \in t.citations : R(c).support < 60000 <=> c.support < 60000
    BY <1>1, <1>5, RoundingExact DEF Borderline
  <2>2. QED
    BY <1>1, <1>2, <2>1 DEF Sources, Unsupported
<1>6. QED
  BY <1>3, <1>4, <1>5

\* A trace that is checked again: what it is beside its citations, and its citations.
LEMMA RescoredExact ==
  ASSUME NEW t, Recorded(t), NEW P
  PROVE  /\ DOMAIN Rescored(t, P) = DOMAIN t
         /\ Rescored(t, P) = [x \in DOMAIN t |-> Rescored(t, P)[x]]
         /\ AlikeBut(Rescored(t, P), t) /\ (~Borderline(t) => Alike(Rescored(t, P), t))
         /\ Near(t.citations, Rescored(t, P).citations)
         /\ Rescored(t, P).case = t.case /\ Rescored(t, P).refused = t.refused
         /\ Rescored(t, P).violations = Violations(Rescored(t, P), P)
         /\ Rescored(t, P).checks = 1 /\ Rescored(t, P).checked_with = t.checked_with
<1> DEFINE D == Written(t.citations)
           f == [Reloaded(t) EXCEPT !.violations = {}, !.checks = 0]
           u == Rescored(t, P)
<1>1. DOMAIN t = Evidence \cup Judged /\ t = [x \in DOMAIN t |-> t[x]] /\ t.checked_with # {}
  BY RecordedExact
<1>2. /\ Near(t.citations, D) /\ Sources(D) = Sources(t.citations)
      /\ ~Borderline(t) => Sources({d \in D : d.support < 60000}) = Sources(Unsupported(t))
  BY CitationsReloaded
<1>3. Reloaded(t) = [t EXCEPT !.citations = D]
  BY <1>1 DEF Reloaded, Written
<1> HIDE DEF D
<1>4. /\ DOMAIN f = DOMAIN t /\ f = [x \in DOMAIN f |-> f[x]] /\ f.case = t.case
      /\ f.checked_with = t.checked_with /\ f.citations = D /\ f.checks = 0
  <2>1. f = [[t EXCEPT !.citations = D] EXCEPT !.violations = {}, !.checks = 0]
    BY <1>3
  <2> HIDE DEF f
  <2>2. DOMAIN f = DOMAIN t /\ f = [x \in DOMAIN f |-> f[x]]
    BY <2>1
  <2>3. /\ f.case = t.case /\ f.checked_with = t.checked_with /\ f.citations = D
        /\ f.checks = 0
    BY <1>1, <2>1 DEF Evidence, Judged
  <2>4. QED
    BY <2>2, <2>3
<1>5. AlikeBut(f, t)
  <2>1. f = [[t EXCEPT !.citations = D] EXCEPT !.violations = {}, !.checks = 0]
    BY <1>3
  <2> HIDE DEF f
  <2>2. /\ f.refused = t.refused /\ f.answer = t.answer /\ f.memo = t.memo
        /\ f.best = t.best /\ f.tools = t.tools /\ f.spans = t.spans /\ f.tokens = t.tokens
        /\ f.priced = t.priced /\ f.amount = t.amount /\ f.fixtures = t.fixtures
        /\ f.digests = t.digests /\ f.citations = D
    BY <1>1, <2>1 DEF Evidence, Judged
  <2>3. QED
    BY <1>2, <2>2 DEF AlikeBut
<1>6. u = Apply(f, P)
  BY DEF Rescored
<1> HIDE DEF f, u
<1>7. /\ DOMAIN u = DOMAIN f /\ Alike(u, f) /\ u = [x \in DOMAIN f |-> u[x]] /\ u.case = f.case
      /\ u.citations = f.citations /\ u.violations = Violations(f, P) /\ u.checks = f.checks + 1
      /\ u.checked_with = IF f.checked_with = {} THEN {P} ELSE f.checked_with
  BY <1>1, <1>4, <1>6, ApplyExact
<1>8. f.checks + 1 = 1
  BY <1>4
<1>9. Violations(f, P) = Violations(u, P)
  BY <1>7, ViolationsAlike
<1>10. AlikeBut(u, t) /\ u.refused = t.refused
  BY <1>5, <1>7 DEF Alike, AlikeBut
<1>11. ASSUME ~Borderline(t) PROVE Alike(u, t)
  BY <1>2, <1>4, <1>7, <1>10, <1>11 DEF Alike, Unsupported
<1>12. QED
  BY <1>1, <1>2, <1>4, <1>7, <1>8, <1>9, <1>10, <1>11 DEF u

\* Types of the runs and of the stage that the commands record, replay and rescore are in.
LEMMA TypesHold ==
  ASSUME JInv
  PROVE  JudgementTypeOK
<1>1. ASSUME NEW t, Recorded(t)
      PROVE  t.refused \in BOOLEAN /\ t.checks = 1 /\ Cardinality(t.checked_with) = 1
  <2>1. t.refused \in BOOLEAN /\ t.checks = 1 /\ \E P \in PolicySets : t.checked_with = {P}
    BY <1>1, RecordedExact
  <2>2. QED
    BY <2>1, FS_Singleton
<1>2. ASSUME NEW t \in Range(before) \cup Range(after)
      PROVE  t.refused \in BOOLEAN /\ t.checks \in 0..2 /\ Cardinality(t.checked_with) <= 1
  <2>1. Recorded(t)
    BY DEF JInv, JTyped, Range
  <2>2. t.checks = 1 /\ Cardinality(t.checked_with) = 1 /\ t.refused \in BOOLEAN
    BY <1>1, <2>1
  <2>3. QED
    BY <2>2
<1>3. ASSUME NEW t \in Range(rescored)
      PROVE  t.refused \in BOOLEAN /\ t.checks \in 0..2 /\ Cardinality(t.checked_with) <= 1
  <2>1. stage = "rescored" /\ rescored = [i \in DOMAIN before |-> Rescored(before[i], policies)]
    BY DEF JInv, Rescoring, Range
  <2>2. PICK i \in DOMAIN before : t = Rescored(before[i], policies)
    BY <2>1 DEF Range
  <2> DEFINE u == before[i]
  <2>3. Recorded(u)
    BY DEF JInv, JTyped
  <2> HIDE DEF u
  <2>4. t = Rescored(u, policies)
    BY <2>2 DEF u
  <2>5. /\ t.refused = u.refused /\ t.checks = 1
        /\ t.checked_with = u.checked_with
    BY <2>3, <2>4, RescoredExact
  <2>6. QED
    BY <1>1, <2>3, <2>5
<1>4. stage \in Stages
  BY DEF JInv, JTyped
<1>5. Len(before) + Len(todo) <= Len(suiteFile) \/ stage # "record"
  BY DEF JInv, Recording
<1>6. QED
  BY <1>2, <1>3, <1>4, <1>5 DEF JudgementTypeOK

\* Two traces with the same evidence for the same case differ in their checks only, and
\* in the support of their citations.
LEMMA FactsAlike ==
  ASSUME NEW t, Recorded(t), NEW u, DOMAIN u = DOMAIN t, u = [x \in DOMAIN t |-> u[x]],
         AlikeBut(u, t), u.case = t.case
  PROVE  [Facts(u) EXCEPT !.citations = t.citations] = Facts(t)
<1>1. DOMAIN t = Evidence \cup Judged
  BY RecordedExact
<1> DEFINE f == Facts(t)
           g == Facts(u)
           h == [g EXCEPT !.citations = t.citations]
<1>2. DOMAIN f = DOMAIN t /\ f = [x \in DOMAIN t |-> f[x]]
  BY DEF Facts
<1>3. DOMAIN g = DOMAIN t /\ g = [x \in DOMAIN t |-> g[x]]
  BY DEF Facts
<1>4. ASSUME NEW x \in DOMAIN t, x \notin {"violations", "checks", "checked_with"}
      PROVE  f[x] = t[x] /\ g[x] = u[x]
  BY <1>4 DEF Facts
<1>5. f.violations = {} /\ g.violations = {}
  BY <1>1 DEF Facts, Judged
<1>6. f.checks = 0 /\ g.checks = 0
  BY <1>1 DEF Facts, Judged
<1>7. f.checked_with = {} /\ g.checked_with = {}
  BY <1>1 DEF Facts, Judged
<1> HIDE DEF f, g
<1>8. /\ DOMAIN h = DOMAIN t /\ h = [x \in DOMAIN t |-> h[x]]
      /\ \A x \in DOMAIN t : h[x] = IF x = "citations" THEN t.citations ELSE g[x]
  BY <1>3
<1> HIDE DEF h
<1>9. ASSUME NEW x \in DOMAIN t PROVE f[x] = h[x]
  <2>1. CASE x \in {"violations", "checks", "checked_with"}
    BY <1>5, <1>6, <1>7, <1>8, <2>1
  <2>2. CASE x = "citations"
    BY <1>4, <1>8, <2>2
  <2>3. CASE x \notin {"violations", "checks", "checked_with", "citations"}
    <3>1. u[x] = t[x]
      BY <1>1, <2>3 DEF AlikeBut, Evidence, Judged
    <3>2. QED
      BY <1>4, <1>8, <2>3, <3>1
  <2>4. QED
    BY <2>1, <2>2, <2>3
<1>10. f = h
  BY <1>2, <1>8, <1>9
<1>11. QED
  BY <1>10 DEF f, g, h

\* What is left of a trace without its checks is its evidence.
LEMMA FactsExact ==
  ASSUME NEW t, Recorded(t)
  PROVE  Alike(Facts(t), t)
<1>1. DOMAIN t = Evidence \cup Judged
  BY RecordedExact
<1>2. QED
  BY <1>1 DEF Facts, Alike, AlikeBut, Unsupported, Evidence, Judged

\* A stored run that is rescored is judged as if it had been recorded under the new policies.
LEMMA RescoringIsFaithful ==
  ASSUME JInv
  PROVE  RescoreFaithful
<1> SUFFICES ASSUME stage = "rescored", NEW i \in DOMAIN before
             PROVE  LET t == before[i]
                        u == rescored[i]
                    IN
                    /\ [Facts(u) EXCEPT !.citations = t.citations] = Facts(t)
                    /\ Near(t.citations, u.citations)
                    /\ Unweighed(u.violations) = Unweighed(Violations(Facts(t), policies))
                    /\ ~Borderline(t) => u.violations = Violations(Facts(t), policies)
                    /\ u.checks = 1
                    /\ \A c \in Range(suiteFile) : c.id = t.case =>
                         LET was == Judge(t, c, policies)
                             is  == Judge(u, c, policies)
                         IN
                         /\ ~AsksForPolicies(c) /\ ~Borderline(t) => is.verdict = was.verdict
                         /\ is.passed["policy_compliance"] = (u.violations = {})
                         /\ is.raises = was.raises
  BY DEF RescoreFaithful
<1> DEFINE t == before[i]
           u == rescored[i]
<1>1. u = Rescored(t, policies) /\ Recorded(t)
  BY DEF JInv, Rescoring, JTyped
<1> HIDE DEF t, u
<1>2. /\ DOMAIN u = DOMAIN t /\ u = [x \in DOMAIN t |-> u[x]]
      /\ AlikeBut(u, t) /\ (~Borderline(t) => Alike(u, t)) /\ Near(t.citations, u.citations)
      /\ u.case = t.case /\ u.violations = Violations(u, policies) /\ u.checks = 1
  BY <1>1, RescoredExact
<1>3. [Facts(u) EXCEPT !.citations = t.citations] = Facts(t)
  BY <1>1, <1>2, FactsAlike
<1>4. Violations(Facts(t), policies) = Violations(t, policies)
  BY <1>1, FactsExact, ViolationsAlike
<1>5. Unweighed(Violations(u, policies)) = Unweighed(Violations(t, policies))
  BY <1>2, UnweighedAlike
<1>6. ASSUME ~Borderline(t) PROVE Violations(u, policies) = Violations(t, policies)
  BY <1>2, <1>6, ViolationsAlike
<1>7. ASSUME NEW c, ~AsksForPolicies(c), ~Borderline(t)
      PROVE  Judge(u, c, policies).verdict = Judge(t, c, policies).verdict
  BY <1>2, <1>7, VerdictAlike
<1>8. ASSUME NEW c, NEW x
      PROVE  /\ Judge(x, c, policies).passed["policy_compliance"]
                  = Evaluator("policy_compliance", c, x, policies)
             /\ Judge(x, c, policies).raises = \E e \in c.evaluators : Raises(e, x)
  BY DEF Judge, Builtin
<1>9. ASSUME NEW c
      PROVE  Evaluator("policy_compliance", c, u, policies) = (Violations(u, policies) = {})
  BY DEF Evaluator
<1>10. \A e : Raises(e, u) = Raises(e, t)
  BY <1>2 DEF AlikeBut, Raises
<1>11. ASSUME NEW c PROVE Judge(u, c, policies).raises = Judge(t, c, policies).raises
  BY <1>8, <1>10
<1>12. ASSUME NEW c
      PROVE  Judge(u, c, policies).passed["policy_compliance"] = (u.violations = {})
  <2>1. Judge(u, c, policies).passed["policy_compliance"]
          = Evaluator("policy_compliance", c, u, policies)
    BY <1>8
  <2>2. Evaluator("policy_compliance", c, u, policies) = (u.violations = {})
    BY <1>2, <1>9
  <2>3. QED
    BY <2>1, <2>2, Zenon
<1>13. /\ Unweighed(u.violations) = Unweighed(Violations(Facts(t), policies))
       /\ ~Borderline(t) => u.violations = Violations(Facts(t), policies)
       /\ u.checks = 1
  BY <1>2, <1>4, <1>5, <1>6
<1>14. QED
  BY <1>2, <1>3, <1>7, <1>11, <1>12, <1>13, Zenon DEF t, u

\* Types of the runs and of the stage, for any suites, agents and policies.
THEOREM JudgementTypes == JudgementSpec => []JudgementTypeOK
<1>1. JInv => JudgementTypeOK
  BY TypesHold
<1>2. QED
  BY <1>1, JudgementInvariant, PTL

\* rescore judges a stored run as if it had been recorded under the new policies.
THEOREM RescoreIsFaithful == JudgementSpec => []RescoreFaithful
<1>1. JInv => RescoreFaithful
  BY RescoringIsFaithful
<1>2. QED
  BY <1>1, JudgementInvariant, PTL

-----------------------------------------------------------------------------
(* Comparisons.                                                            *)

\* A set of indices that is not empty has a last one.
LEMMA Greatest ==
  ASSUME NEW n \in Nat, NEW T \in SUBSET (1..n), T # {}
  PROVE  Max(T) \in T /\ \A i \in T : i <= Max(T)
<1> DEFINE U == {n - i : i \in T}
<1>1. U \subseteq Nat /\ U # {}
  <2>1. ASSUME NEW i \in T PROVE n - i \in Nat
    <3>1. i \in 1..n
      OBVIOUS
    <3>2. QED
      BY <3>1
  <2>2. QED
    BY <2>1
<1>2. PICK m \in U : \A j \in U : m <= j
  <2> HIDE DEF U
  <2>1. QED
    BY <1>1, LeastNumber
<1>3. PICK k \in T : m = n - k
  BY <1>2
<1>4. ASSUME NEW i \in T PROVE k >= i
  <2>1. n - k <= n - i
    BY <1>2, <1>3
  <2>2. QED
    BY <2>1
<1>5. Max(T) = CHOOSE x \in T : \A y \in T : x >= y
  BY DEF Max
<1>6. Max(T) \in T /\ \A y \in T : Max(T) >= y
  BY <1>4, <1>5
<1>7. QED
  BY <1>6

\* The case that counts for an id has that id.
LEMMA CaseExact ==
  ASSUME JInv, NEW id \in {c.id : c \in Range(suiteFile)}
  PROVE  Case(id) \in Range(suiteFile) /\ Case(id).id = id
<1> DEFINE n == Len(suiteFile)
           T == {i \in DOMAIN suiteFile : suiteFile[i].id = id}
<1>1. n \in Nat /\ DOMAIN suiteFile = 1..n
  BY SuiteSeq
<1>2. T # {} /\ T \subseteq 1..n
  BY <1>1 DEF Range
<1>3. Max(T) \in T
  <2> HIDE DEF n, T
  <2>1. QED
    BY <1>1, <1>2, Greatest
<1>4. Case(id) = suiteFile[Max(T)]
  BY DEF Case
<1> HIDE DEF n
<1>5. QED
  BY <1>3, <1>4 DEF Range

\* The ids that the suite has now.
SuiteIds == {c.id : c \in Range(suiteFile)}

\* The score of a run has one result for every trace whose case the suite has, in the
\* order of the run.
LEMMA ScoreExact ==
  ASSUME JInv, NEW D, NEW run \in Seq(D), NEW P
  PROVE  LET x == ScoreRun(run, P) IN
         /\ \E n \in Nat : DOMAIN x = 1..n
         /\ CasesOf(x) = {t.case : t \in Range(run)} \cap SuiteIds
         /\ Once(run) => \A i, j \in DOMAIN x : x[i].case = x[j].case => i = j
<1> DEFINE K == {t \in Range(run) : t.case \in SuiteIds}
           k == Known(run)
           x == ScoreRun(run, P)
           n == Len(k)
<1>1. k = Only(run, K)
  BY DEF Known, SuiteIds
<1> HIDE DEF K, k
<1>2. /\ k \in Seq(D)
      /\ \E at \in [1..n -> 1..Len(run)] :
              /\ \A j \in 1..n : k[j] = run[at[j]] /\ run[at[j]] \in K
              /\ \A i, j \in 1..n : i < j => at[i] < at[j]
              /\ \A i \in 1..Len(run) : run[i] \in K => \E j \in 1..n : at[j] = i
  BY <1>1, OnlyExact, SMTT(30)
<1>3. n \in Nat /\ DOMAIN k = 1..n
  BY <1>2
<1> HIDE DEF n
<1>4. PICK at \in [1..n -> 1..Len(run)] :
              /\ \A j \in 1..n : k[j] = run[at[j]] /\ run[at[j]] \in K
              /\ \A i, j \in 1..n : i < j => at[i] < at[j]
              /\ \A i \in 1..Len(run) : run[i] \in K => \E j \in 1..n : at[j] = i
  BY <1>2
<1>5. x = [i \in 1..n |-> Judge(k[i], Case(k[i].case), P)]
  BY <1>3 DEF ScoreRun, k
<1> HIDE DEF x
<1>6. ASSUME NEW i \in 1..n PROVE x[i].case = k[i].case /\ k[i] \in K
  <2>1. k[i] \in K
    BY <1>4
  <2>2. k[i].case \in {c.id : c \in Range(suiteFile)}
    BY <2>1 DEF K, SuiteIds
  <2>3. Case(k[i].case).id = k[i].case
    BY <2>2, CaseExact
  <2>4. \A t, c : Judge(t, c, P).case = c.id
    BY DEF Judge
  <2>5. QED
    BY <1>5, <2>1, <2>3, <2>4
<1>7. CasesOf(x) = {x[i].case : i \in 1..n}
  BY <1>5 DEF CasesOf, Range
<1>8. DOMAIN run = 1..Len(run)
  OBVIOUS
<1>9. CasesOf(x) = {t.case : t \in Range(run)} \cap SuiteIds
  <2>1. ASSUME NEW i \in 1..n PROVE x[i].case \in {t.case : t \in Range(run)} \cap SuiteIds
    BY <1>6 DEF K
  <2>2. ASSUME NEW t \in Range(run), t.case \in SuiteIds PROVE t.case \in CasesOf(x)
    <3>1. PICK i \in 1..Len(run) : t = run[i]
      BY <1>8 DEF Range
    <3>2. run[i] \in K
      BY <2>2, <3>1 DEF K
    <3>3. PICK j \in 1..n : at[j] = i
      BY <1>4, <3>2
    <3>4. k[j] = t
      BY <1>4, <3>1, <3>3
    <3>5. QED
      BY <1>6, <1>7, <3>4
  <2>3. QED
    BY <1>7, <2>1, <2>2
<1>10. ASSUME Once(run), NEW i \in 1..n, NEW j \in 1..n, x[i].case = x[j].case PROVE i = j
  <2>1. run[at[i]].case = run[at[j]].case /\ at[i] \in 1..Len(run) /\ at[j] \in 1..Len(run)
    BY <1>4, <1>6, <1>10
  <2>2. at[i] = at[j]
    BY <1>8, <1>10, <2>1 DEF Once
  <2>3. ~(i < j) /\ ~(j < i)
    <3>1. ASSUME i < j PROVE FALSE
      <4>1. at[i] < at[j]
        BY <1>4, <3>1
      <4>2. QED
        BY <2>1, <2>2, <4>1
    <3>2. ASSUME j < i PROVE FALSE
      <4>1. at[j] < at[i]
        BY <1>4, <3>2
      <4>2. QED
        BY <2>1, <2>2, <4>1
    <3>3. QED
      BY <3>1, <3>2
  <2>4. QED
    BY <1>3, <2>3
<1>11. DOMAIN x = 1..n
  BY <1>5
<1>12. QED
  BY <1>3, <1>9, <1>10, <1>11 DEF x

\* What is good in a score, by the ids of its cases.
GoodOf(x) == {id \in CasesOf(x) : VerdictOf(x, id) \in Good}

\* A score without a repeated case has as many good results as good cases.
LEMMA CountGoodExact ==
  ASSUME NEW n \in Nat, NEW x, DOMAIN x = 1..n,
         \A i, j \in DOMAIN x : x[i].case = x[j].case => i = j
  PROVE  IsFiniteSet(GoodOf(x)) /\ CountGood(x) = Cardinality(GoodOf(x))
<1> DEFINE I == {i \in DOMAIN x : x[i].verdict \in Good}
           G == GoodOf(x)
           f == [i \in I |-> x[i].case]
<1>1. IsFiniteSet(I)
  <2>1. IsFiniteSet(1..n)
    BY FS_Interval
  <2>2. I \subseteq 1..n
    OBVIOUS
  <2> HIDE DEF I
  <2>3. QED
    BY <2>1, <2>2, FS_Subset
<1>2. ASSUME NEW i \in DOMAIN x PROVE VerdictOf(x, x[i].case) = x[i].verdict /\ x[i].case \in CasesOf(x)
  <2> DEFINE T == {j \in DOMAIN x : x[j].case = x[i].case}
  <2>1. T = {i}
    OBVIOUS
  <2>2. Max(T) = i
    <3>1. T # {} /\ T \in SUBSET (1..n)
      BY <1>2, <2>1
    <3> HIDE DEF T
    <3>2. Max(T) \in T
      BY <3>1, Greatest
    <3>3. QED
      BY <2>1, <3>2
  <2>3. VerdictOf(x, x[i].case) = x[Max(T)].verdict
    BY DEF VerdictOf
  <2>4. QED
    BY <2>2, <2>3 DEF CasesOf, Range
<1>3. f \in Bijection(I, G)
  <2>1. ASSUME NEW i \in I PROVE f[i] \in G
    BY <1>2 DEF GoodOf
  <2>2. ASSUME NEW i \in I, NEW j \in I, f[i] = f[j] PROVE i = j
    BY <2>2
  <2>3. ASSUME NEW id \in G PROVE \E i \in I : f[i] = id
    <3>1. PICK i \in DOMAIN x : id = x[i].case
      BY DEF GoodOf, CasesOf, Range
    <3>2. x[i].verdict \in Good
      BY <1>2, <3>1 DEF GoodOf
    <3>3. QED
      BY <3>1, <3>2
  <2>4. f \in [I -> G]
    BY <2>1
  <2> HIDE DEF f, I, G
  <2>5. QED
    BY <2>2, <2>3, <2>4 DEF Bijection, Injection, Surjection, IsInjective
<1>4. IsFiniteSet(G) /\ Cardinality(G) = Cardinality(I)
  <2> HIDE DEF f, I, G
  <2>1. QED
    BY <1>1, <1>3, FS_Bijection DEF ExistsBijection
<1>5. CountGood(x) = Cardinality(I)
  BY DEF CountGood
<1>6. QED
  BY <1>4, <1>5

\* The cases of a replay that has run are those of the recorded run.
LEMMA ReplayedAll ==
  ASSUME JInv, stage \in {"replay", "compared"}, todo = <<>>
  PROVE  {t.case : t \in Range(after)} = {t.case : t \in Range(before)}
<1>1. ASSUME NEW run PROVE Range(CaseIds(run)) = {t.case : t \in Range(run)}
  BY DEF CaseIds, Range
<1>2. CASE stage = "compared"
  BY <1>1, <1>2 DEF JInv, Replaying
<1>3. CASE stage = "replay"
  <2> DEFINE e == todo
  <2>1. after \in Seq(Range(after)) /\ e \in Seq({})
    BY DEF JInv, JTyped
  <2>2. Range(e) = {}
    BY DEF Range
  <2>3. Range(Plan(after, e)) = Range(CaseIds(before))
    BY <1>3 DEF JInv, Replaying
  <2> HIDE DEF e
  <2>4. Range(Plan(after, e)) = {t.case : t \in Range(after)} \cup {c.id : c \in Range(e)}
    BY <2>1, PlanRange
  <2>5. QED
    BY <1>1, <2>2, <2>3, <2>4
<1>4. QED
  BY <1>2, <1>3

\* What was good and what is account for what a comparison calls fixed and regressed.
LEMMA NetExact ==
  ASSUME NEW x, NEW y, CasesOf(x) = CasesOf(y), IsFiniteSet(GoodOf(x)), IsFiniteSet(GoodOf(y))
  PROVE  Net(Compare(x, y)) = Cardinality(GoodOf(y)) - Cardinality(GoodOf(x))
<1> DEFINE X == GoodOf(x)
           Y == GoodOf(y)
           ch == Compare(x, y)
<1>1. /\ DOMAIN ch = CasesOf(x)
      /\ \A id \in CasesOf(x) : ch[id] = Kind(VerdictOf(x, id), VerdictOf(y, id))
  BY DEF Compare
<1>2. \A v, w : /\ Kind(v, w) = "fixed" <=> v \notin Good /\ w \in Good
                /\ Kind(v, w) = "regressed" <=> v \in Good /\ w \notin Good
  BY DEF Kind
<1> HIDE DEF ch
<1>3. OfKind(ch, "fixed") = Y \ X
  BY <1>1, <1>2 DEF OfKind, GoodOf
<1>4. OfKind(ch, "regressed") = X \ Y
  BY <1>1, <1>2 DEF OfKind, GoodOf
<1> HIDE DEF X, Y
<1>5. IsFiniteSet(X) /\ IsFiniteSet(Y)
  BY DEF X, Y
<1>6. /\ Cardinality(Y \ X) = Cardinality(Y) - Cardinality(Y \cap X)
      /\ Cardinality(X \ Y) = Cardinality(X) - Cardinality(X \cap Y)
  BY <1>5, FS_Difference
<1>7. X \cap Y = Y \cap X
  OBVIOUS
<1>8. /\ Cardinality(X) \in Nat /\ Cardinality(Y) \in Nat /\ Cardinality(Y \cap X) \in Nat
  <2>1. IsFiniteSet(Y \cap X)
    BY <1>5, FS_Subset
  <2>2. QED
    BY <1>5, <2>1, FS_CardinalityType
<1>9. Net(ch) = Cardinality(Y \ X) - Cardinality(X \ Y)
  BY <1>3, <1>4 DEF Net
<1>10. QED
  BY <1>6, <1>7, <1>8, <1>9 DEF X, Y, ch

\* A run that is loaded from where it was saved has the same cases.
LEMMA LoadedExact ==
  ASSUME NEW run, run \in Seq(Range(run)), \A i \in DOMAIN run : Recorded(run[i])
  PROVE  /\ Loaded(run) \in Seq(Range(Loaded(run)))
         /\ {t.case : t \in Range(Loaded(run))} = {t.case : t \in Range(run)}
         /\ Once(Loaded(run)) <=> Once(run)
<1> DEFINE n == Len(run)
           l == Loaded(run)
<1>1. n \in Nat /\ DOMAIN run = 1..n
  OBVIOUS
<1> HIDE DEF n
<1>2. l = [i \in 1..n |-> Reloaded(run[i])]
  BY <1>1 DEF Loaded
<1> HIDE DEF l
<1>3. DOMAIN l = 1..n /\ l \in [1..n -> Range(l)]
  BY <1>2 DEF Range
<1>4. l \in Seq(Range(l))
  BY <1>1, <1>3, IsASeq
<1>5. ASSUME NEW i \in 1..n PROVE l[i].case = run[i].case
  <2>1. Recorded(run[i])
    BY <1>1
  <2>2. DOMAIN run[i] = Evidence \cup Judged
    BY <2>1, RecordedExact
  <2>3. l[i] = Reloaded(run[i])
    BY <1>2
  <2>4. QED
    BY <2>2, <2>3 DEF Reloaded, Evidence, Judged
<1>6. {t.case : t \in Range(l)} = {t.case : t \in Range(run)}
  BY <1>1, <1>3, <1>5 DEF Range
<1>7. Once(l) <=> Once(run)
  BY <1>1, <1>3, <1>5 DEF Once
<1>8. QED
  BY <1>4, <1>6, <1>7 DEF l

\* What a comparison says follows from the plans of the two runs.
LEMMA ComparingIsExact ==
  ASSUME JInv
  PROVE  CompareExact
<1> DEFINE b == Loaded(before)
           a == IF stage = "compared" THEN Loaded(after) ELSE after
           x == ScoreRun(b, policies)
           y == ScoreRun(a, policies)
           ch == Compare(x, y)
<1> HIDE DEF x, y, a, b
<1> SUFFICES ASSUME stage \in {"replay", "compared"}, todo = <<>>
             PROVE  /\ {t.case : t \in Range(after)} = {t.case : t \in Range(before)}
                    /\ Once(before) /\ (Once(after) => Net(ch) = CountGood(y) - CountGood(x))
                    /\ OfKind(Compare(y, x), "regressed") = OfKind(ch, "fixed")
  BY DEF CompareExact, x, y, a, b
<1>1. {t.case : t \in Range(after)} = {t.case : t \in Range(before)}
  BY ReplayedAll
<1>2. /\ Once(before)
      /\ b \in Seq(Range(b)) /\ {t.case : t \in Range(b)} = {t.case : t \in Range(before)}
      /\ Once(b)
  <2>1. /\ Once(before) /\ before \in Seq(Range(before))
        /\ \A i \in DOMAIN before : Recorded(before[i])
    BY DEF JInv, JTyped
  <2>2. QED
    BY <2>1, LoadedExact DEF b
<1>3. /\ a \in Seq(Range(a)) /\ {t.case : t \in Range(a)} = {t.case : t \in Range(after)}
      /\ Once(a) <=> Once(after)
  <2>1. after \in Seq(Range(after)) /\ \A i \in DOMAIN after : Recorded(after[i])
    BY DEF JInv, JTyped
  <2>2. CASE stage = "compared"
    BY <2>1, <2>2, LoadedExact DEF a
  <2>3. CASE stage # "compared"
    BY <2>1, <2>3 DEF a
  <2>4. QED
    BY <2>2, <2>3
<1>4. /\ \E n \in Nat : DOMAIN x = 1..n
      /\ CasesOf(x) = {t.case : t \in Range(b)} \cap SuiteIds
      /\ \A i, j \in DOMAIN x : x[i].case = x[j].case => i = j
  BY <1>2, ScoreExact DEF x
<1>5. /\ \E n \in Nat : DOMAIN y = 1..n
      /\ CasesOf(y) = {t.case : t \in Range(a)} \cap SuiteIds
      /\ Once(a) => \A i, j \in DOMAIN y : y[i].case = y[j].case => i = j
  BY <1>3, ScoreExact DEF y
<1>6. CasesOf(x) = CasesOf(y)
  BY <1>1, <1>2, <1>3, <1>4, <1>5
<1>7. ASSUME Once(after) PROVE Net(ch) = CountGood(y) - CountGood(x)
  <2>1. IsFiniteSet(GoodOf(x)) /\ CountGood(x) = Cardinality(GoodOf(x))
    BY <1>4, CountGoodExact
  <2>2. IsFiniteSet(GoodOf(y)) /\ CountGood(y) = Cardinality(GoodOf(y))
    BY <1>3, <1>5, <1>7, CountGoodExact
  <2>3. QED
    BY <1>6, <2>1, <2>2, NetExact
<1>8. OfKind(Compare(y, x), "regressed") = OfKind(ch, "fixed")
  <2>1. \A v, w : Kind(w, v) = "regressed" <=> Kind(v, w) = "fixed"
    BY DEF Kind
  <2>2. QED
    BY <2>1 DEF OfKind, Compare
<1>9. QED
  BY <1>1, <1>2, <1>7, <1>8

\* A comparison accounts for the whole difference between a run and its replay, whatever
\* has become of the suite since.
THEOREM ComparisonsExact == JudgementSpec => []CompareExact
<1>1. JInv => CompareExact
  BY ComparingIsExact
<1>2. QED
  BY <1>1, JudgementInvariant, PTL

-----------------------------------------------------------------------------
(* The time that spans cover.                                              *)

\* A listing of a set of spans by their starts.
ByStart(s, E) == Range(s) = E /\ \A i, j \in DOMAIN s : i < j => s[i].start <= s[j].start

\* One of the spans starts first.
LEMMA FirstSpan ==
  ASSUME NEW E, E # {}, \A x \in E : x.start \in Nat
  PROVE  \E x \in E : \A y \in E : x.start <= y.start
<1> DEFINE T == {x.start : x \in E}
<1>1. T \in SUBSET Nat /\ T # {}
  OBVIOUS
<1>2. PICK n \in T : \A m \in T : n <= m
  <2> HIDE DEF T
  <2>1. QED
    BY <1>1, LeastNumber
<1>3. QED
  BY <1>2

\* Finitely many spans can be sorted.
LEMMA SortingExists ==
  ASSUME NEW S, IsFiniteSet(S), \A x \in S : x.start \in Nat
  PROVE  \E s \in [1..Cardinality(S) -> S] : ByStart(s, S)
<1> DEFINE T == {n \in Nat : \A E \in SUBSET S :
                    Cardinality(E) = n => \E s \in [1..n -> E] : ByStart(s, E)}
<1>1. \A E \in SUBSET S : IsFiniteSet(E) /\ Cardinality(E) \in Nat
  BY FS_Subset, FS_CardinalityType
<1>2. 0 \in T
  <2> SUFFICES ASSUME NEW E \in SUBSET S, Cardinality(E) = 0 PROVE \E s \in [1..0 -> E] : ByStart(s, E)
    OBVIOUS
  <2>1. [i \in 1..0 |-> CHOOSE x \in E : TRUE] \in [1..0 -> E]
    OBVIOUS
  <2>2. E = {}
    BY <1>1, FS_EmptySet
  <2>3. \A s \in [1..0 -> E] : ByStart(s, E)
    BY <2>2 DEF ByStart, Range
  <2>4. QED
    BY <2>1, <2>3
<1>3. ASSUME NEW n \in Nat, n \in T PROVE n + 1 \in T
  <2> SUFFICES ASSUME NEW E \in SUBSET S, Cardinality(E) = n + 1
               PROVE  \E s \in [1..n + 1 -> E] : ByStart(s, E)
    OBVIOUS
  <2>1. E # {}
    BY FS_EmptySet
  <2>2. PICK x \in E : \A y \in E : x.start <= y.start
    BY <2>1, FirstSpan
  <2>3. Cardinality(E \ {x}) = n
    <3>1. Cardinality(E \ {x}) = Cardinality(E) - 1
      BY <1>1, FS_RemoveElement
    <3>2. QED
      BY <3>1
  <2>4. PICK s \in [1..n -> E \ {x}] : ByStart(s, E \ {x})
    BY <1>3, <2>3
  <2> DEFINE u == [i \in 1..n + 1 |-> IF i = 1 THEN x ELSE s[i - 1]]
  <2>5. u \in [1..n + 1 -> E]
    <3> SUFFICES ASSUME NEW i \in 1..n + 1, i # 1 PROVE s[i - 1] \in E
      OBVIOUS
    <3>1. i - 1 \in 1..n
      OBVIOUS
    <3>2. QED
      BY <2>4, <3>1
  <2>6. ASSUME NEW i \in 1..n + 1, NEW j \in 1..n + 1, i < j PROVE u[i].start <= u[j].start
    <3>1. j - 1 \in 1..n /\ u[j] = s[j - 1] /\ s[j - 1] \in E
      <4>1. j - 1 \in 1..n /\ j # 1
        BY <2>6
      <4>2. QED
        BY <2>4, <4>1
    <3>2. CASE i = 1
      BY <2>2, <3>1, <3>2
    <3>3. CASE i # 1
      <4>1. i - 1 \in 1..n /\ u[i] = s[i - 1] /\ i - 1 < j - 1
        BY <2>6, <3>3
      <4>2. QED
        BY <2>4, <3>1, <4>1 DEF ByStart
    <3>4. QED
      BY <3>2, <3>3
  <2>7. Range(u) = E
    <3>1. ASSUME NEW y \in E PROVE \E i \in 1..n + 1 : u[i] = y
      <4>1. CASE y = x
        BY <4>1
      <4>2. CASE y # x
        <5>1. PICK i \in 1..n : s[i] = y
          BY <2>4, <4>2 DEF ByStart, Range
        <5>2. i + 1 \in 1..n + 1 /\ i + 1 # 1 /\ (i + 1) - 1 = i
          OBVIOUS
        <5>3. u[i + 1] = y
          BY <5>1, <5>2
        <5>4. QED
          BY <5>2, <5>3
      <4>3. QED
        BY <4>1, <4>2
    <3> HIDE DEF u
    <3>2. QED
      BY <2>5, <3>1 DEF Range
  <2>8. DOMAIN u = 1..n + 1
    OBVIOUS
  <2> HIDE DEF u
  <2>9. ByStart(u, E)
    BY <2>6, <2>7, <2>8 DEF ByStart
  <2>10. QED
    BY <2>5, <2>9
<1>4. Nat \subseteq T
  <2> HIDE DEF T
  <2>1. QED
    BY <1>2, <1>3, Numbers
<1>5. QED
  BY <1>1, <1>4

\* Spans that are sorted by their starts are all there, each once.
LEMMA InTimeExact ==
  ASSUME NEW S, IsFiniteSet(S), \A x \in S : x.start \in Nat
  PROVE  /\ InTime(S) \in [1..Cardinality(S) -> S] /\ Cardinality(S) \in Nat
         /\ ByStart(InTime(S), S)
<1>1. InTime(S) = CHOOSE s \in [1..Cardinality(S) -> S] : ByStart(s, S)
  BY DEF InTime, ByStart
<1>2. QED
  BY <1>1, SortingExists, FS_CardinalityType

\* The stretches that merging goes through.
Stretch == [sum : Nat, start : Nat, end : Nat]
NoStretch == [sum |-> 0, start |-> 0, end |-> 0]

\* The merged intervals, one after the other.
MergeSteps(F, s, n) == F = [i \in 0..n |-> IF i = 0 THEN NoStretch ELSE Merge(F[i - 1], s[i])]

\* What merging an interval does, in its three cases.
LEMMA MergeExact ==
  ASSUME NEW m \in Stretch, NEW s, s.start \in Nat, s.end \in Nat, m.end >= m.start
  PROVE  /\ Merge(m, s) \in Stretch
         /\ m.end = 0 => Merge(m, s) = [sum |-> 0, start |-> s.start, end |-> s.end]
         /\ m.end # 0 /\ s.start <= m.end =>
              /\ Merge(m, s).sum = m.sum /\ Merge(m, s).start = m.start
              /\ Merge(m, s).end = IF s.end > m.end THEN s.end ELSE m.end
         /\ m.end # 0 /\ s.start > m.end =>
              Merge(m, s) = [sum |-> m.sum + m.end - m.start, start |-> s.start, end |-> s.end]
<1>1. CASE m.end = 0
  <2>1. Merge(m, s) = [sum |-> 0, start |-> s.start, end |-> s.end]
    BY <1>1 DEF Merge
  <2>2. Merge(m, s) \in Stretch
    BY <2>1 DEF Stretch
  <2>3. QED
    BY <1>1, <2>1, <2>2
<1>2. CASE m.end # 0 /\ s.start <= m.end
  <2> DEFINE e == IF s.end > m.end THEN s.end ELSE m.end
  <2>1. Merge(m, s) = [m EXCEPT !.end = e]
    BY <1>2 DEF Merge
  <2>2. e \in Nat
    BY DEF Stretch
  <2> HIDE DEF e
  <2>3. Merge(m, s) \in Stretch
    BY <2>1, <2>2 DEF Stretch
  <2>4. Merge(m, s).sum = m.sum /\ Merge(m, s).start = m.start /\ Merge(m, s).end = e
    BY <2>1 DEF Stretch
  <2>5. ~(s.start > m.end)
    BY <1>2 DEF Stretch
  <2>6. QED
    BY <1>2, <2>3, <2>4, <2>5 DEF e
<1>3. CASE m.end # 0 /\ s.start > m.end
  <2>0. m.sum \in Nat /\ m.end \in Nat /\ m.start \in Nat
    BY DEF Stretch
  <2>1. ~(s.start <= m.end) /\ m.sum + m.end - m.start \in Nat
    BY <1>3, <2>0
  <2>2. Merge(m, s) = [sum |-> m.sum + m.end - m.start, start |-> s.start, end |-> s.end]
    BY <1>3, <2>1 DEF Merge
  <2>3. Merge(m, s) \in Stretch
    BY <2>1, <2>2 DEF Stretch
  <2>4. QED
    BY <1>3, <2>1, <2>2, <2>3
<1>4. QED
  <2>1. m.end \in Nat
    BY DEF Stretch
  <2>2. QED
    BY <1>1, <1>2, <1>3, <2>1

\* Two functions that are built by the same steps are one.
LEMMA StepwiseOnce ==
  ASSUME NEW n \in Nat, NEW f, NEW F, DOMAIN f = 0..n, DOMAIN F = 0..n,
         f = [i \in 0..n |-> f[i]], F = [i \in 0..n |-> F[i]], F[0] = f[0],
         \A i \in 1..n : F[i - 1] = f[i - 1] => F[i] = f[i]
  PROVE  F = f
<1> DEFINE T == {i \in 0..n : F[i] = f[i]}
<1>1. 0 \in T
  OBVIOUS
<1>2. ASSUME NEW i \in 1..n, i - 1 \in T PROVE i \in T
  <2>1. i \in 0..n /\ F[i - 1] = f[i - 1]
    BY <1>2
  <2>2. QED
    BY <2>1
<1>3. 0..n \subseteq T
  <2> HIDE DEF T
  <2>1. QED
    BY <1>1, <1>2, NumbersUpTo
<1>4. QED
  BY <1>3

\* A stretch that does not end before it starts.
Ahead == {m \in Stretch : m.end >= m.start}

\* Merging keeps the end of a stretch behind its start.
LEMMA MergeAhead ==
  ASSUME NEW m \in Ahead, NEW s, s.start \in Nat, s.end \in Nat, s.end >= s.start
  PROVE  Merge(m, s) \in Ahead
<1>1. m \in Stretch /\ m.end >= m.start /\ m.end \in Nat /\ m.start \in Nat
  BY DEF Ahead, Stretch
<1>2. Merge(m, s) \in Stretch
  BY <1>1, MergeExact
<1>3. CASE m.end = 0
  <2>1. Merge(m, s) = [sum |-> 0, start |-> s.start, end |-> s.end]
    BY <1>1, <1>3, MergeExact
  <2>2. QED
    BY <1>2, <2>1 DEF Ahead
<1>4. CASE m.end # 0 /\ s.start <= m.end
  <2>1. Merge(m, s).start = m.start /\ Merge(m, s).end = IF s.end > m.end THEN s.end ELSE m.end
    BY <1>1, <1>4, MergeExact
  <2>2. Merge(m, s).end >= Merge(m, s).start
    BY <1>1, <2>1
  <2>3. QED
    BY <1>2, <2>2 DEF Ahead
<1>5. CASE m.end # 0 /\ s.start > m.end
  <2>1. Merge(m, s) = [sum |-> m.sum + m.end - m.start, start |-> s.start, end |-> s.end]
    BY <1>1, <1>5, MergeExact
  <2>2. QED
    BY <1>2, <2>1 DEF Ahead
<1>6. QED
  BY <1>1, <1>3, <1>4, <1>5

\* What TimeCovered computes, step by step.
LEMMA CoveredUnfolds ==
  ASSUME NEW spans, NEW n \in Nat, NEW s \in [1..n -> Measured(spans)],
         s = InTime(Measured(spans)),
         \A x \in Measured(spans) : x.start \in Nat /\ x.end \in Nat /\ x.end >= x.start
  PROVE  \E F \in [0..n -> Ahead] :
           /\ F[0] = NoStretch /\ \A i \in 1..n : F[i] = Merge(F[i - 1], s[i])
           /\ TimeCovered(spans) = F[n].sum + F[n].end - F[n].start
<1> DEFINE step == [i \in 1..n |-> [m \in Ahead |-> Merge(m, s[i])]]
<1>1. NoStretch \in Ahead
  <2>1. NoStretch \in Stretch /\ NoStretch.end >= NoStretch.start
    BY DEF NoStretch, Stretch
  <2>2. QED
    BY <2>1 DEF Ahead
<1>2. \A m \in Ahead, i \in 1..n : step[i][m] = Merge(m, s[i]) /\ step[i][m] \in Ahead
  <2> SUFFICES ASSUME NEW m \in Ahead, NEW i \in 1..n
               PROVE  step[i][m] = Merge(m, s[i]) /\ step[i][m] \in Ahead
    OBVIOUS
  <2>1. step[i][m] = Merge(m, s[i])
    OBVIOUS
  <2> HIDE DEF step
  <2>2. Merge(m, s[i]) \in Ahead
    BY MergeAhead
  <2>3. QED
    BY <2>1, <2>2
<1> HIDE DEF step
<1>3. PICK f \in [0..n -> Ahead] : Stepwise(f, n, NoStretch, step)
  BY <1>1, <1>2, RecursionExists
<1>4. f[0] = NoStretch /\ \A i \in 1..n : f[i] = Merge(f[i - 1], s[i])
  <2>1. f[0] = NoStretch
    BY <1>3 DEF Stepwise
  <2>2. ASSUME NEW i \in 1..n PROVE f[i] = Merge(f[i - 1], s[i])
    <3>1. i \in 0..n /\ i # 0 /\ i - 1 \in 0..n
      OBVIOUS
    <3>2. f[i] = step[i][f[i - 1]] /\ f[i - 1] \in Ahead
      BY <1>3, <3>1 DEF Stepwise
    <3>3. QED
      BY <1>2, <3>2
  <2>3. QED
    BY <2>1, <2>2
<1>5. MergeSteps(f, s, n)
  <2>1. ASSUME NEW i \in 0..n
        PROVE  f[i] = IF i = 0 THEN NoStretch ELSE Merge(f[i - 1], s[i])
    <3>1. CASE i = 0
      BY <1>4, <3>1
    <3>2. CASE i # 0
      <4>1. i \in 1..n
        BY <3>2
      <4>2. QED
        BY <1>4, <3>2, <4>1
    <3>3. QED
      BY <3>1, <3>2
  <2>2. f = [i \in 0..n |-> f[i]]
    BY <1>3
  <2>3. QED
    BY <2>1, <2>2 DEF MergeSteps
<1>6. ASSUME NEW F, MergeSteps(F, s, n) PROVE F = f
  <2>1. F = [i \in 0..n |-> IF i = 0 THEN NoStretch ELSE Merge(F[i - 1], s[i])]
    BY <1>6 DEF MergeSteps
  <2>2. DOMAIN F = 0..n /\ 0 \in 0..n
    BY <2>1
  <2>3. F[0] = NoStretch
    BY <2>1, <2>2
  <2>4. ASSUME NEW i \in 1..n PROVE F[i] = Merge(F[i - 1], s[i])
    <3>1. i \in 0..n /\ i # 0
      OBVIOUS
    <3>2. QED
      BY <2>1, <3>1
  <2>5. F = [i \in 0..n |-> F[i]]
    BY <2>1, <2>2
  <2>6. f = [i \in 0..n |-> f[i]] /\ DOMAIN f = 0..n
    BY <1>3
  <2>7. \A i \in 1..n : F[i - 1] = f[i - 1] => F[i] = f[i]
    BY <1>4, <2>4
  <2>8. QED
    BY <1>4, <2>2, <2>3, <2>5, <2>6, <2>7, StepwiseOnce
<1>7. (CHOOSE F : MergeSteps(F, s, n)) = f
  BY <1>5, <1>6
<1>8. Len(s) = n
  OBVIOUS
<1>9. TimeCovered(spans) = f[n].sum + f[n].end - f[n].start
  <2>1. \A F : MergeSteps(F, s, n) <=>
             F = [i \in 0..n |-> IF i = 0 THEN [sum |-> 0, start |-> 0, end |-> 0]
                                 ELSE Merge(F[i - 1], s[i])]
    BY DEF MergeSteps, NoStretch
  <2> DEFINE last == (CHOOSE F : MergeSteps(F, s, n))[n]
  <2>2. TimeCovered(spans) = last.sum + last.end - last.start
    BY <1>8 DEF TimeCovered, MergeSteps, NoStretch
  <2>3. QED
    BY <1>7, <2>2
<1>10. QED
  BY <1>3, <1>4, <1>9

\* The instants of a span, and of the spans up to the i-th.
Instants(x) == x.start..(x.end - 1)
Until(s, i) == UNION {Instants(s[j]) : j \in 1..i}

\* What is known of the last stretch and of the instants covered so far.
Measures(m, C) ==
  /\ IsFiniteSet(C) /\ Cardinality(C) = m.sum + m.end - m.start
  /\ C \subseteq 1..(m.end - 1) /\ m.start..(m.end - 1) \subseteq C

\* A span that starts in the last stretch, or right after it.
LEMMA Joins ==
  ASSUME NEW m \in Ahead, NEW C, Measures(m, C), m.start > 0,
         NEW x, x.start \in Nat, x.end \in Nat, x.end >= x.start,
         m.start <= x.start, x.start <= m.end
  PROVE  Measures(Merge(m, x), C \cup Instants(x))
<1> DEFINE a == x.start
           b == x.end
           p == m.start
           q == m.end
           M == Merge(m, x)
<1>1. m \in Stretch /\ a \in Nat /\ b \in Nat /\ p \in Nat /\ q \in Nat /\ m.sum \in Nat /\ q >= p /\ q # 0
  BY DEF Ahead, Stretch
<1>2. M.sum = m.sum /\ M.start = p /\ M.end = IF b > q THEN b ELSE q
  BY <1>1, MergeExact
<1>3. Instants(x) = a..(b - 1)
  BY DEF Instants
<1>4. /\ IsFiniteSet(C) /\ Cardinality(C) = m.sum + q - p
      /\ C \subseteq 1..(q - 1) /\ p..(q - 1) \subseteq C
  BY DEF Measures
<1>5. p <= a /\ a <= q /\ p > 0 /\ b >= a
  OBVIOUS
<1> HIDE DEF a, b, p, q, M
<1>6. CASE b > q
  <2> DEFINE N == q..(b - 1)
  <2>1. C \cup Instants(x) = C \cup N
    <3>1. a..(b - 1) \subseteq C \cup N
      <4> SUFFICES ASSUME NEW y \in a..(b - 1) PROVE y \in C \cup N
        OBVIOUS
      <4>1. y < q => y \in p..(q - 1)
        BY <1>1, <1>5
      <4>2. ~(y < q) => y \in q..(b - 1)
        BY <1>1
      <4>3. QED
        BY <1>4, <4>1, <4>2
    <3>2. N \subseteq a..(b - 1)
      BY <1>1, <1>5
    <3>3. QED
      BY <1>3, <3>1, <3>2
  <2>2. C \cap N = {}
    BY <1>1, <1>4
  <2>3. IsFiniteSet(N) /\ Cardinality(N) = b - q
    <3>1. IsFiniteSet(q..(b - 1)) /\ Cardinality(q..(b - 1)) = IF q > b - 1 THEN 0 ELSE (b - 1) - q + 1
      <4>1. q \in Int /\ b - 1 \in Int
        BY <1>1
      <4>2. QED
        BY <4>1, FS_Interval
    <3>2. QED
      BY <1>1, <1>6, <3>1
  <2>4. 1..(q - 1) \subseteq 1..(b - 1) /\ N \subseteq 1..(b - 1) /\ p..(b - 1) \subseteq p..(q - 1) \cup N
    <3>1. 1 <= q
      BY <1>1
    <3>2. QED
      BY <1>1, <1>6, <3>1
  <2> HIDE DEF N
  <2>5. IsFiniteSet(C \cup N) /\ Cardinality(C \cup N) = Cardinality(C) + Cardinality(N) - Cardinality(C \cap N)
    BY <1>4, <2>3, FS_Union
  <2>6. Cardinality(C \cap N) = 0
    BY <2>2, FS_EmptySet
  <2>7. Cardinality(C \cup N) = m.sum + b - p
    BY <1>1, <1>4, <2>3, <2>5, <2>6
  <2>8. C \cup N \subseteq 1..(b - 1) /\ p..(b - 1) \subseteq C \cup N
    BY <1>4, <2>4
  <2>9. M.end = b
    BY <1>2, <1>6
  <2>10. QED
    BY <1>2, <2>1, <2>5, <2>7, <2>8, <2>9 DEF Measures, M
<1>7. CASE ~(b > q)
  <2>1. a..(b - 1) \subseteq p..(q - 1)
    BY <1>1, <1>5, <1>7
  <2>2. C \cup Instants(x) = C
    BY <1>3, <1>4, <2>1
  <2>3. M.end = q
    BY <1>2, <1>7
  <2>4. QED
    BY <1>2, <1>4, <2>2, <2>3 DEF Measures, M
<1>8. QED
  BY <1>6, <1>7

\* A span that opens a stretch of its own.
LEMMA Opens ==
  ASSUME NEW m \in Ahead, NEW C, Measures(m, C),
         NEW x, x.start \in Nat, x.end \in Nat, x.end >= x.start, x.start > 0,
         m.end = 0 => C = {} , m.end # 0 => x.start > m.end
  PROVE  Measures(Merge(m, x), C \cup Instants(x))
<1> DEFINE a == x.start
           b == x.end
           p == m.start
           q == m.end
           M == Merge(m, x)
           N == Instants(x)
<1>1. m \in Stretch /\ a \in Nat /\ b \in Nat /\ p \in Nat /\ q \in Nat /\ m.sum \in Nat /\ q >= p
  BY DEF Ahead, Stretch
<1>2. /\ IsFiniteSet(C) /\ Cardinality(C) = m.sum + q - p
      /\ C \subseteq 1..(q - 1) /\ p..(q - 1) \subseteq C
  BY DEF Measures
<1>3. b >= a /\ a > 0 /\ (q # 0 => a > q) /\ (q = 0 => C = {}) /\ N = a..(b - 1)
  BY DEF Instants
<1>4. M.sum = (IF q = 0 THEN 0 ELSE m.sum + q - p) /\ M.start = a /\ M.end = b
  <2>1. CASE q = 0
    <3>1. M = [sum |-> 0, start |-> a, end |-> b]
      BY <1>1, <2>1, MergeExact
    <3>2. QED
      BY <2>1, <3>1
  <2>2. CASE q # 0
    <3>1. M = [sum |-> m.sum + q - p, start |-> a, end |-> b]
      BY <1>1, <1>3, <2>2, MergeExact
    <3>2. QED
      BY <2>2, <3>1
  <2>3. QED
    BY <2>1, <2>2
<1> HIDE DEF a, b, p, q, M, N
<1>5. M.sum = Cardinality(C)
  <2>1. q = 0 => Cardinality(C) = 0
    BY <1>3, FS_EmptySet
  <2>2. QED
    BY <1>2, <1>4, <2>1
<1>6. IsFiniteSet(N) /\ Cardinality(N) = b - a
  <2>1. IsFiniteSet(a..(b - 1)) /\ Cardinality(a..(b - 1)) = IF a > b - 1 THEN 0 ELSE (b - 1) - a + 1
    <3>1. a \in Int /\ b - 1 \in Int
      BY <1>1
    <3>2. QED
      BY <3>1, FS_Interval
  <2>2. QED
    BY <1>1, <1>3, <2>1
<1>7. C \cap N = {}
  <2>1. CASE q = 0
    BY <1>3, <2>1
  <2>2. CASE q # 0
    BY <1>1, <1>2, <1>3, <2>2
  <2>3. QED
    BY <2>1, <2>2
<1>8. IsFiniteSet(C \cup N) /\ Cardinality(C \cup N) = Cardinality(C) + Cardinality(N) - Cardinality(C \cap N)
  BY <1>2, <1>6, FS_Union
<1>9. Cardinality(C \cap N) = 0 /\ Cardinality(C) \in Nat
  BY <1>2, <1>7, FS_EmptySet, FS_CardinalityType
<1>10. Cardinality(C \cup N) = M.sum + b - a
  BY <1>1, <1>5, <1>6, <1>8, <1>9
<1>11. C \cup N \subseteq 1..(b - 1) /\ a..(b - 1) \subseteq C \cup N
  <2>1. N \subseteq 1..(b - 1) /\ a..(b - 1) \subseteq N
    BY <1>1, <1>3
  <2>2. C \subseteq 1..(b - 1)
    <3>1. CASE q = 0
      BY <1>3, <3>1
    <3>2. CASE q # 0
      <4>1. q < b
        BY <1>1, <1>3, <3>2
      <4>2. 1..(q - 1) \subseteq 1..(b - 1)
        BY <1>1, <4>1
      <4>3. QED
        BY <1>2, <4>2
    <3>3. QED
      BY <3>1, <3>2
  <2>3. QED
    BY <2>1, <2>2
<1>12. QED
  BY <1>4, <1>8, <1>10, <1>11 DEF Measures, M, N

\* The merged intervals measure the instants that the spans cover.
LEMMA CoveredMeasures ==
  ASSUME NEW spans, IsFiniteSet(Measured(spans)),
         \A x \in Measured(spans) : x.start \in Nat /\ x.end \in Nat
  PROVE  TimeCovered(spans) = Cardinality(UNION {Instants(x) : x \in Measured(spans)})
<1> DEFINE S == Measured(spans)
           s == InTime(S)
           n == Cardinality(S)
<1>1. \A x \in S : x.start \in Nat /\ x.end \in Nat /\ x.start > 0 /\ x.end >= x.start
  BY DEF Measured
<1>2. s \in [1..n -> S] /\ n \in Nat /\ ByStart(s, S)
  <2> HIDE DEF S
  <2>1. QED
    BY <1>1, InTimeExact DEF S
<1>3. PICK F \in [0..n -> Ahead] :
        /\ F[0] = NoStretch /\ \A i \in 1..n : F[i] = Merge(F[i - 1], s[i])
        /\ TimeCovered(spans) = F[n].sum + F[n].end - F[n].start
  <2> HIDE DEF n, s
  <2>1. QED
    BY <1>1, <1>2, CoveredUnfolds DEF s
<1> HIDE DEF S, s, n
<1>4. \A i \in 1..n : s[i] \in S
  BY <1>2
<1>5. \A i, j \in 1..n : i < j => s[i].start <= s[j].start
  BY <1>2 DEF ByStart
<1> DEFINE T == {i \in 0..n :
                   /\ Measures(F[i], Until(s, i))
                   /\ F[i].end = 0 => Until(s, i) = {}
                   /\ F[i].end # 0 => F[i].start > 0 /\ \E j \in 1..i : F[i].start = s[j].start}
<1>6. 0 \in T
  <2>1. Until(s, 0) = {}
    BY DEF Until
  <2>2. NoStretch.end = 0 /\ NoStretch.sum = 0 /\ NoStretch.start = 0 /\ 0..(0 - 1) = {}
    BY DEF NoStretch
  <2>3. Measures(NoStretch, {})
    BY <2>2, FS_EmptySet DEF Measures
  <2>4. Measures(F[0], Until(s, 0)) /\ F[0].end = 0
    BY <1>3, <2>1, <2>2, <2>3
  <2>5. 0 \in 0..n
    BY <1>2
  <2>6. QED
    BY <2>1, <2>4, <2>5
<1>7. ASSUME NEW i \in 1..n, i - 1 \in T PROVE i \in T
  <2> DEFINE m == F[i - 1]
             x == s[i]
             C == Until(s, i - 1)
             M == F[i]
  <2>1. i \in 0..n /\ i - 1 \in 0..n /\ m \in Ahead /\ M \in Ahead /\ M = Merge(m, x)
    <3>1. i \in 0..n /\ i - 1 \in 0..n
      BY <1>2
    <3>2. QED
      BY <1>3, <3>1
  <2>2. x.start \in Nat /\ x.end \in Nat /\ x.start > 0 /\ x.end >= x.start
    BY <1>1, <1>4
  <2>3. Until(s, i) = C \cup Instants(x)
    <3>1. 1..i = 1..(i - 1) \cup {i}
      BY <1>2
    <3>2. QED
      BY <3>1 DEF Until
  <2>4. /\ Measures(m, C) /\ (m.end = 0 => C = {})
        /\ m.end # 0 => m.start > 0 /\ \E j \in 1..(i - 1) : m.start = s[j].start
    BY <1>7
  <2>5. m.end \in Nat /\ m.start \in Nat /\ m.end >= m.start /\ m \in Stretch
    BY <2>1 DEF Ahead, Stretch
  <2>6. ASSUME NEW j \in 1..(i - 1) PROVE j \in 1..n /\ j \in 1..i /\ s[j].start <= x.start
    <3>1. j \in 1..n /\ j \in 1..i /\ j < i
      BY <1>2
    <3>2. QED
      BY <1>5, <3>1
  <2> HIDE DEF m, x, C, M
  <2>7. CASE m.end # 0 /\ x.start <= m.end
    <3>1. PICK j \in 1..(i - 1) : m.start = s[j].start
      BY <2>4, <2>7
    <3>2. m.start <= x.start
      BY <2>6, <3>1
    <3>3. Measures(M, C \cup Instants(x))
      BY <2>1, <2>2, <2>4, <2>7, <3>2, Joins
    <3>4. M.start = m.start /\ M.end = IF x.end > m.end THEN x.end ELSE m.end
      BY <2>1, <2>2, <2>5, <2>7, MergeExact
    <3>5. M.end # 0
      BY <2>2, <2>5, <2>7, <3>4
    <3>6. M.start > 0 /\ j \in 1..i /\ M.start = s[j].start
      BY <2>4, <2>6, <2>7, <3>1, <3>4
    <3>7. QED
      BY <2>1, <2>3, <3>3, <3>5, <3>6 DEF M
  <2>8. CASE m.end = 0 \/ x.start > m.end
    <3>1. Measures(M, C \cup Instants(x))
      BY <2>1, <2>2, <2>4, <2>8, Opens
    <3>2. M.start = x.start /\ M.end = x.end
      <4>1. CASE m.end = 0
        <5>1. M = [sum |-> 0, start |-> x.start, end |-> x.end]
          BY <2>1, <2>2, <2>5, <4>1, MergeExact
        <5>2. QED
          BY <5>1
      <4>2. CASE m.end # 0
        <5>1. M = [sum |-> m.sum + m.end - m.start, start |-> x.start, end |-> x.end]
          BY <2>1, <2>2, <2>5, <2>8, <4>2, MergeExact
        <5>2. QED
          BY <5>1
      <4>3. QED
        BY <4>1, <4>2
    <3>3. M.end # 0 /\ M.start > 0 /\ i \in 1..i
      BY <1>2, <2>2, <3>2
    <3>4. M.start = s[i].start
      BY <3>2 DEF x
    <3>5. QED
      BY <2>1, <2>3, <3>1, <3>3, <3>4 DEF M
  <2>9. QED
    BY <2>2, <2>5, <2>7, <2>8
<1>8. 0..n \subseteq T
  <2> HIDE DEF T
  <2>1. QED
    BY <1>2, <1>6, <1>7, NumbersUpTo
<1>9. Cardinality(Until(s, n)) = F[n].sum + F[n].end - F[n].start
  <2>1. n \in 0..n
    BY <1>2
  <2>2. QED
    BY <1>8, <2>1 DEF Measures
<1>10. Until(s, n) = UNION {Instants(x) : x \in S}
  <2>1. S = {s[j] : j \in 1..n}
    BY <1>2 DEF ByStart, Range
  <2>2. QED
    BY <2>1 DEF Until
<1>11. QED
  BY <1>3, <1>9, <1>10 DEF S

\* The time that the spans of a recorded trace cover is the number of their instants.
LEMMA CoveredExact ==
  ASSUME NEW t, Recorded(t)
  PROVE  TimeCovered(t.spans) = Cardinality(Covered(t))
<1> DEFINE spans == t.spans
           S == Measured(spans)
<1>1. spans \in Seq(Range(spans)) /\ \A s \in Range(spans) : s.start \in Nat /\ s.end \in Nat
  BY RecordedExact
<1> HIDE DEF spans
<1>2. IsFiniteSet(S)
  <2>1. spans \in Surjection(1..Len(spans), Range(spans)) /\ Len(spans) \in Nat
    BY <1>1 DEF Surjection, Range
  <2>2. IsFiniteSet(1..Len(spans))
    BY <2>1, FS_Interval
  <2>3. IsFiniteSet(Range(spans))
    BY <2>1, <2>2, FS_Surjection
  <2>4. S \subseteq Range(spans)
    BY DEF Measured
  <2> HIDE DEF S
  <2>5. QED
    BY <2>3, <2>4, FS_Subset
<1>3. \A x \in S : x.start \in Nat /\ x.end \in Nat
  BY <1>1 DEF Measured
<1>4. TimeCovered(spans) = Cardinality(UNION {Instants(x) : x \in S})
  BY <1>2, <1>3, CoveredMeasures
<1>5. Covered(t) = UNION {Instants(x) : x \in S}
  <2>1. Covered(t) = UNION {Instants(x) : x \in {r \in Range(spans) : r.start > 0}}
    BY DEF Covered, Instants, spans
  <2>2. ASSUME NEW x \in Range(spans), x.start > 0, Instants(x) # {} PROVE x \in S
    <3>1. PICK y : y \in x.start..(x.end - 1)
      BY <2>2 DEF Instants
    <3>2. x.start \in Nat /\ x.end \in Nat
      BY <1>1
    <3>3. x.end >= x.start
      BY <3>1, <3>2
    <3>4. QED
      BY <2>2, <3>3 DEF Measured
  <2>3. \A x \in S : x \in Range(spans) /\ x.start > 0
    BY DEF Measured
  <2> HIDE DEF S
  <2>4. QED
    BY <2>1, <2>2, <2>3
<1>6. QED
  BY <1>4, <1>5 DEF spans

\* A longest span: E are the durations.
LEMMA LongestExists ==
  ASSUME NEW spans, spans \in Seq(Range(spans)), \A s \in Range(spans) : s.duration \in Nat,
         NEW E, E = {s.duration : s \in Range(spans)} \cup {0}
  PROVE  \E m \in E : \A s \in Range(spans) : s.duration <= m
<1> DEFINE n == Len(spans)
           T == {k \in 0..n : \E m \in E : \A i \in 1..k : spans[i].duration <= m}
<1>1. n \in Nat /\ DOMAIN spans = 1..n
  OBVIOUS
<1> HIDE DEF n
<1>2. \A i \in 1..n : spans[i].duration \in E /\ spans[i].duration \in Nat
  BY <1>1 DEF Range
<1>3. E \subseteq Nat /\ 0 \in E
  OBVIOUS
<1>4. 0 \in T
  BY <1>1, <1>3
<1>5. ASSUME NEW k \in 1..n, k - 1 \in T PROVE k \in T
  <2>1. PICK m \in E : \A i \in 1..(k - 1) : spans[i].duration <= m
    BY <1>5
  <2> DEFINE d == spans[k].duration
             l == IF d > m THEN d ELSE m
  <2>2. d \in E /\ d \in Nat /\ m \in Nat /\ k \in 0..n /\ k \in Nat
    BY <1>1, <1>2, <1>3
  <2> HIDE DEF d
  <2>3. l \in E /\ m <= l /\ d <= l /\ l \in Nat
    BY <2>2
  <2> HIDE DEF l
  <2>4. ASSUME NEW i \in 1..k PROVE spans[i].duration <= l
    <3>1. CASE i = k
      BY <2>3, <3>1 DEF d
    <3>2. CASE i # k
      <4>1. i \in 1..(k - 1) /\ i \in 1..n
        BY <1>1, <2>2, <3>2
      <4>2. spans[i].duration <= m /\ spans[i].duration \in Nat
        BY <1>2, <2>1, <4>1
      <4>3. QED
        BY <2>2, <2>3, <4>2
    <3>3. QED
      BY <3>1, <3>2
  <2>5. QED
    BY <2>2, <2>3, <2>4
<1>6. 0..n \subseteq T
  <2> HIDE DEF T
  <2>1. QED
    BY <1>1, <1>4, <1>5, NumbersUpTo
<1>7. PICK m \in E : \A i \in 1..n : spans[i].duration <= m
  <2>1. n \in 0..n
    BY <1>1
  <2>2. n \in T
    BY <1>6, <2>1
  <2>3. QED
    BY <2>2
<1>8. QED
  BY <1>1, <1>7 DEF Range

\* The latency of a recorded trace is the time that it took.
LEMMA LatencyExact ==
  ASSUME NEW t, Recorded(t)
  PROVE  Latency(t.spans) = TimeTaken(t)
<1> DEFINE spans == t.spans
           E == {s.duration : s \in Range(spans)} \cup {0}
           d == CHOOSE n \in E : \A s \in Range(spans) : s.duration <= n
<1>1. spans \in Seq(Range(spans)) /\ \A s \in Range(spans) : s.duration \in Nat
  BY RecordedExact
<1>2. TimeCovered(spans) = Cardinality(Covered(t))
  BY CoveredExact
<1>3. Measured(spans) # {} <=> \E s \in Range(spans) : s.start > 0 /\ s.end >= s.start
  BY DEF Measured
<1>4. TimeTaken(t) = IF Measured(spans) # {} THEN Cardinality(Covered(t)) ELSE d
  BY <1>3 DEF TimeTaken
<1> HIDE DEF spans
<1>5. Longest(spans) = d
  <2>1. PICK m \in E : \A s \in Range(spans) : s.duration <= m
    <3>1. E = {s.duration : s \in Range(spans)} \cup {0}
      OBVIOUS
    <3> HIDE DEF E
    <3>2. QED
      BY <1>1, <3>1, LongestExists
  <2>2. E \subseteq Nat
    BY <1>1
  <2>3. \A s \in Range(spans) : s.duration \in E
    OBVIOUS
  <2>4. Longest(spans) = Max(E)
    BY DEF Longest
  <2>5. \A y \in E : m >= y
    BY <2>1, <2>2
  <2> HIDE DEF E
  <2>6. \A x \in E : (\A y \in E : x >= y) => x = m
    BY <2>1, <2>2, <2>5
  <2>7. Max(E) = m
    BY <2>1, <2>5, <2>6 DEF Max
  <2>8. \A x \in E : (\A s \in Range(spans) : s.duration <= x) => \A y \in E : x >= y
    BY <2>2 DEF E
  <2>9. d = m
    BY <2>1, <2>6, <2>8
  <2>10. QED
    BY <2>4, <2>7, <2>9
<1>6. Latency(spans) = IF Measured(spans) # {} THEN TimeCovered(spans) ELSE Longest(spans)
  BY DEF Latency
<1>7. QED
  BY <1>2, <1>4, <1>5, <1>6 DEF spans

\* The elements of two sequences.
LEMMA ConcatRange ==
  ASSUME NEW D, NEW E, NEW x \in Seq(D), NEW y \in Seq(E)
  PROVE  Range(x \o y) = Range(x) \cup Range(y)
<1> DEFINE F == D \cup E
           n == Len(x)
           m == Len(y)
           z == x \o y
<1>1. x \in Seq(F) /\ y \in Seq(F)
  BY SeqMonotonic
<1>2. n \in Nat /\ m \in Nat /\ DOMAIN x = 1..n /\ DOMAIN y = 1..m
  OBVIOUS
<1> HIDE DEF F
<1>3. /\ x \o y \in Seq(F) /\ Len(x \o y) = Len(x) + Len(y)
      /\ \A i \in 1..(Len(x) + Len(y)) :
           (x \o y)[i] = IF i <= Len(x) THEN x[i] ELSE y[i - Len(x)]
  BY <1>1, ConcatProperties, Zenon
<1>4. DOMAIN z = 1..(n + m) /\ \A i \in 1..(n + m) : z[i] = IF i <= n THEN x[i] ELSE y[i - n]
  BY <1>3, LenProperties
<1> HIDE DEF n, m, z
<1>5. ASSUME NEW i \in 1..(n + m) PROVE z[i] \in Range(x) \cup Range(y)
  <2>1. CASE i <= n
    <3>1. i \in 1..n
      BY <1>2, <2>1
    <3>2. QED
      BY <1>2, <1>4, <2>1, <3>1 DEF Range
  <2>2. CASE ~(i <= n)
    <3>1. i - n \in 1..m
      BY <1>2, <2>2
    <3>2. QED
      BY <1>2, <1>4, <2>2, <3>1 DEF Range
  <2>3. QED
    BY <2>1, <2>2
<1>6. ASSUME NEW i \in 1..n PROVE x[i] \in Range(z)
  <2>1. i \in 1..(n + m) /\ i <= n
    BY <1>2
  <2>2. QED
    BY <1>4, <2>1 DEF Range
<1>7. ASSUME NEW i \in 1..m PROVE y[i] \in Range(z)
  <2>1. n + i \in 1..(n + m) /\ ~(n + i <= n) /\ (n + i) - n = i
    BY <1>2
  <2>2. z[n + i] = y[i]
    BY <1>4, <2>1
  <2>3. QED
    BY <1>4, <2>1, <2>2 DEF Range
<1>8. Range(z) = Range(x) \cup Range(y)
  BY <1>2, <1>4, <1>5, <1>6, <1>7 DEF Range
<1>9. QED
  BY <1>8 DEF z

\* What an assertion asks for, as Fulfilled says it.
Holds(a, t) ==
  IF Alias(a.type) = "latency" /\ a.selector = ""
  THEN a.operator \in Operators /\ Limit(TimeTaken(t), a.operator, a.expected)
  ELSE Evaluate(a, t) = "pass"

\* An assertion passes if and only if it holds; a latency is compared with the time taken.
LEMMA HoldsExact ==
  ASSUME NEW t, Recorded(t), NEW a
  PROVE  Holds(a, t) <=> Evaluate(a, t) = "pass"
<1>1. CASE Alias(a.type) = "latency" /\ a.selector = ""
  <2> DEFINE n == TimeTaken(t)
  <2>1. Latency(t.spans) = n
    BY LatencyExact
  <2> HIDE DEF n
  <2>2. Evaluate(a, t) = OfTrace("latency", a, t)
    BY <1>1 DEF Evaluate, TextKinds
  <2>3. OfTrace("latency", a, t) =
          IF a.operator \notin Operators THEN "error" ELSE Status(Limit(n, a.operator, a.expected))
    BY <2>1 DEF OfTrace, Measure
  <2>4. \A h : Status(h) = "pass" <=> h
    BY DEF Status
  <2>5. (OfTrace("latency", a, t) = "pass")
           <=> (a.operator \in Operators /\ Limit(n, a.operator, a.expected))
    BY <2>3, <2>4
  <2>6. QED
    BY <1>1, <2>2, <2>5 DEF Holds, n
<1>2. CASE ~(Alias(a.type) = "latency" /\ a.selector = "")
  BY <1>2 DEF Holds
<1>3. QED
  BY <1>1, <1>2

\* The results of the assertions and of the fixtures are sequences.
LEMMA ResultsTyped ==
  ASSUME NEW t, Recorded(t), NEW c, c.assertions \in Seq(Range(c.assertions))
  PROVE  LET x == [i \in DOMAIN c.assertions |-> Evaluate(c.assertions[i], t)]
             y == [i \in DOMAIN t.fixtures |-> Status(t.fixtures[i])]
         IN x \in Seq(Range(x)) /\ y \in Seq(Range(y))
<1> DEFINE x == [i \in DOMAIN c.assertions |-> Evaluate(c.assertions[i], t)]
           y == [i \in DOMAIN t.fixtures |-> Status(t.fixtures[i])]
<1>1. t.fixtures \in Seq(BOOLEAN)
  BY RecordedExact
<1>2. /\ DOMAIN c.assertions = 1..Len(c.assertions) /\ DOMAIN t.fixtures = 1..Len(t.fixtures)
      /\ Len(c.assertions) \in Nat /\ Len(t.fixtures) \in Nat
  BY <1>1
<1>3. x \in [1..Len(c.assertions) -> Range(x)] /\ y \in [1..Len(t.fixtures) -> Range(y)]
  BY <1>2 DEF Range
<1>4. \A n \in Nat : \A R : [1..n -> R] \subseteq Seq(R)
  BY SeqDef
<1>5. x \in Seq(Range(x)) /\ y \in Seq(Range(y))
  <2> HIDE DEF x, y
  <2>1. QED
    BY <1>2, <1>3, <1>4
<1>6. QED
  BY <1>5

\* A trace fulfils a case if it refuses when it should, is grounded and passes everything.
LEMMA FulfilledExact ==
  ASSUME NEW t, Recorded(t), NEW c, c.assertions \in Seq(Range(c.assertions))
  PROVE  Fulfilled(c, t) <=> /\ t.refused = (c.expect = "refuse") /\ Grounded(t) /\ AllPassed(c, t)
<1> DEFINE x == [i \in DOMAIN c.assertions |-> Evaluate(c.assertions[i], t)]
           y == [i \in DOMAIN t.fixtures |-> Status(t.fixtures[i])]
<1>1. t.fixtures \in Seq(BOOLEAN)
  BY RecordedExact
<1>2. AssertionResults(c, t) = x \o y
  BY DEF AssertionResults
<1>3. Range(x \o y) = Range(x) \cup Range(y)
  <2>1. x \in Seq(Range(x)) /\ y \in Seq(Range(y))
    BY ResultsTyped
  <2> HIDE DEF x, y
  <2>2. QED
    BY <2>1, ConcatRange
<1>4. (\A r \in Range(x) : r = "pass") <=> \A a \in Range(c.assertions) : Evaluate(a, t) = "pass"
  BY DEF Range
<1>5. (\A r \in Range(y) : r = "pass") <=> \A r \in Range(t.fixtures) : r
  <2> DEFINE f == t.fixtures
  <2>1. \A i \in DOMAIN f : y[i] = "pass" <=> f[i]
    BY DEF Status
  <2>2. DOMAIN y = DOMAIN f
    OBVIOUS
  <2> HIDE DEF y, f
  <2>3. (\A r \in Range(y) : r = "pass") <=> \A i \in DOMAIN f : y[i] = "pass"
    BY <2>2 DEF Range
  <2>4. (\A r \in Range(f) : r) <=> \A i \in DOMAIN f : f[i]
    <3>1. ASSUME \A r \in Range(f) : r, NEW i \in DOMAIN f PROVE f[i]
      <4>1. f[i] \in Range(f)
        BY DEF Range
      <4>2. QED
        BY <3>1, <4>1, Zenon
    <3>2. ASSUME \A i \in DOMAIN f : f[i], NEW r \in Range(f) PROVE r
      <4>1. PICK i \in DOMAIN f : r = f[i]
        BY DEF Range
      <4>2. f[i]
        BY <3>2, Zenon
      <4>3. QED
        BY <4>1, <4>2, Zenon
    <3>3. QED
      BY <3>1, <3>2, Zenon
  <2>5. QED
    BY <2>1, <2>3, <2>4, Zenon DEF f
<1> HIDE DEF x, y
<1>6. AllPassed(c, t) <=> /\ \A a \in Range(c.assertions) : Evaluate(a, t) = "pass"
                          /\ \A r \in Range(t.fixtures) : r
  BY <1>2, <1>3, <1>4, <1>5 DEF AllPassed
<1>7. \A a \in Range(c.assertions) : Holds(a, t) <=> Evaluate(a, t) = "pass"
  BY HoldsExact
<1>8. Fulfilled(c, t) <=> /\ t.refused = (c.expect = "refuse") /\ Grounded(t)
                          /\ \A r \in Range(t.fixtures) : r
                          /\ \A a \in Range(c.assertions) : Holds(a, t)
  BY DEF Fulfilled, Holds
<1>9. QED
  BY <1>6, <1>7, <1>8

-----------------------------------------------------------------------------
(* Verdicts.                                                               *)

\* What the verdict asks of an answer: a fee is a Fee.
TextsHold(c, t) ==
  /\ Folded(Expected(c, "text_contains")) \subseteq Folded(t.answer)
  /\ Folded(Expected(c, "text_not_contains")) \cap Folded(t.answer) = {}
  /\ Expected(c, "citation") \subseteq {x.source : x \in t.citations}

\* A good verdict of the texts, of the refusal and of the citations.
LEMMA LegacyExact ==
  ASSUME NEW t, t.refused \in BOOLEAN, NEW c
  PROVE  /\ LegacyVerdict(t, c) \in Good =>
              t.refused = (c.expect = "refuse") /\ Grounded(t)
         /\ LegacyVerdict(t, c) = "over_refused" <=> c.expect # "refuse" /\ t.refused
         /\ t.refused = (c.expect = "refuse") /\ Grounded(t) /\ TextsHold(c, t)
              => LegacyVerdict(t, c) \in Good
<1>1. CASE c.expect = "refuse" /\ t.refused
  <2>1. LegacyVerdict(t, c) = "correctly_refused"
    BY <1>1 DEF LegacyVerdict
  <2>2. Grounded(t)
    BY <1>1 DEF Grounded
  <2>3. QED
    BY <1>1, <2>1, <2>2 DEF Good
<1>2. CASE c.expect = "refuse" /\ ~t.refused
  <2>1. LegacyVerdict(t, c) = "hallucinated"
    BY <1>2 DEF LegacyVerdict
  <2>2. QED
    BY <1>2, <2>1 DEF Good
<1>3. CASE c.expect # "refuse" /\ t.refused
  <2>1. LegacyVerdict(t, c) = "over_refused"
    BY <1>3 DEF LegacyVerdict
  <2>2. QED
    BY <1>3, <2>1 DEF Good
<1>4. CASE c.expect # "refuse" /\ ~t.refused
  <2> DEFINE bad == ~TextsHold(c, t)
             v == LegacyVerdict(t, c)
  <2>1. v = IF bad THEN "wrong" ELSE IF Grounded(t) THEN "correct" ELSE "hallucinated"
    BY <1>4 DEF LegacyVerdict, TextsHold
  <2> HIDE DEF bad, v
  <2>2. v \in Good <=> ~bad /\ Grounded(t)
    BY <2>1 DEF Good
  <2>3. v # "over_refused" /\ t.refused = (c.expect = "refuse")
    BY <1>4, <2>1
  <2>4. QED
    BY <1>4, <2>2, <2>3 DEF v, bad
<1>5. QED
  BY <1>1, <1>2, <1>3, <1>4

\* A word that a text has, it has in lower case.
LEMMA FoldedExact ==
  ASSUME NEW x, NEW e
  PROVE  e \in x => LowerOf(e) \in Folded(x)
BY DEF Folded

\* What a case requires and forbids in the answer is there and is not, in any spelling, if
\* the assertions that say so pass and none of them forbids one spelling only.
LEMMA TextsExact ==
  ASSUME NEW t, NEW c, ~Selects(c), ~ForbidsSpelling(c),
         \A a \in Range(c.assertions) : Evaluate(a, t) = "pass"
  PROVE  TextsHold(c, t)
<1>1. \A h : Status(h) = "pass" <=> h
  BY DEF Status
<1>2. \A e : Folded({e}) = {LowerOf(e)}
  BY DEF Folded
<1>3. ASSUME NEW a \in Range(c.assertions), a.type = "text_contains"
      PROVE  LowerOf(a.expected) \in Folded(t.answer)
  <2> DEFINE found == AsCompared("text_contains", a, {a.expected})
                        \subseteq AsCompared("text_contains", a, t.answer)
  <2>1. a.selector = "" /\ Alias(a.type) = "text_contains"
    BY <1>3 DEF Selects, Alias
  <2>2. Evaluate(a, t) = Status(found)
    BY <2>1 DEF Evaluate, TextKinds, OfText
  <2>3. found
    BY <1>1, <2>2, Zenon
  <2>4. CASE CaseSensitive("text_contains", a)
    <3>1. a.expected \in t.answer
      BY <2>3, <2>4 DEF AsCompared
    <3>2. QED
      BY <3>1, FoldedExact
  <2>5. CASE ~CaseSensitive("text_contains", a)
    BY <1>2, <2>3, <2>5 DEF AsCompared
  <2>6. QED
    BY <2>4, <2>5
<1>4. ASSUME NEW a \in Range(c.assertions), a.type = "text_not_contains"
      PROVE  LowerOf(a.expected) \notin Folded(t.answer)
  <2> DEFINE found == AsCompared("text_not_contains", a, {a.expected})
                        \subseteq AsCompared("text_not_contains", a, t.answer)
  <2>1. a.selector = "" /\ Alias(a.type) = "text_not_contains"
    BY <1>4 DEF Selects, Alias
  <2>2. Evaluate(a, t) = Status(~found)
    BY <2>1 DEF Evaluate, TextKinds, OfText
  <2>3. ~found
    BY <1>1, <2>2, Zenon
  <2>4. ~CaseSensitive("text_not_contains", a)
    BY <1>4 DEF ForbidsSpelling, CaseSensitive
  <2>5. QED
    BY <1>2, <2>3, <2>4 DEF AsCompared
<1>5. ASSUME NEW a \in Range(c.assertions), a.type = "citation"
      PROVE  \E x \in t.citations : x.source = a.expected
  <2> DEFINE found == \E x \in t.citations : x.source = a.expected
  <2>1. a.selector = "" /\ Alias(a.type) = "citation"
    BY <1>5 DEF Selects, Alias
  <2>2. Evaluate(a, t) = Status(found)
    BY <2>1 DEF Evaluate, TextKinds, OfTrace
  <2>3. QED
    BY <1>1, <2>2, Zenon
<1>6. Folded(Expected(c, "text_contains")) \subseteq Folded(t.answer)
  <2> SUFFICES ASSUME NEW e \in Expected(c, "text_contains") PROVE LowerOf(e) \in Folded(t.answer)
    BY DEF Folded
  <2>1. QED
    BY <1>3 DEF Expected
<1>7. Folded(Expected(c, "text_not_contains")) \cap Folded(t.answer) = {}
  <2> SUFFICES ASSUME NEW e \in Expected(c, "text_not_contains")
               PROVE  LowerOf(e) \notin Folded(t.answer)
    BY DEF Folded
  <2>1. QED
    BY <1>4 DEF Expected
<1>8. Expected(c, "citation") \subseteq {x.source : x \in t.citations}
  BY <1>5 DEF Expected
<1>9. QED
  BY <1>6, <1>7, <1>8 DEF TextsHold

\* A refusal has no violation about evidence.
LEMMA RefusalsExact ==
  ASSUME NEW t, Recorded(t), t.refused
  PROVE  \A w \in t.violations : w[1] \notin EvidencePolicies
<1>1. PICK P \in PolicySets : t.violations = Violations(t, P)
  BY RecordedExact
<1>2. SUFFICES ASSUME NEW w \in Violations(t, P) PROVE w[1] \notin EvidencePolicies
  BY <1>1
<1>3. PICK p \in Applicable(t, P) : w \in {p} \X Rule(p, t, P)
  BY DEF Violations
<1>4. w[1] = p
  BY <1>3
<1>5. p \notin EvidencePolicies
  BY DEF Applicable, EvidencePolicies
<1>6. QED
  BY <1>4, <1>5

\* Verdict and assertions agree on every recorded trace.
LEMMA VerdictsAreExact ==
  ASSUME JInv
  PROVE  VerdictExact
<1> SUFFICES ASSUME NEW t \in Range(before), t.case \in {c.id : c \in Range(suiteFile)}
             PROVE  LET c == Case(t.case)
                        v == Judge(t, c, policies).verdict
                    IN
                    /\ v \in Good => Fulfilled(c, t)
                    /\ Fulfilled(c, t) /\ ~Selects(c) /\ ~ForbidsSpelling(c) => v \in Good
                    /\ (v = "over_refused") = (c.expect # "refuse" /\ t.refused)
                    /\ t.refused => \A w \in t.violations : w[1] \notin EvidencePolicies
  BY DEF VerdictExact
<1> DEFINE c == Case(t.case)
           v == Judge(t, c, policies).verdict
           l == LegacyVerdict(t, c)
<1>1. Recorded(t)
  BY DEF JInv, JTyped, Range
<1>2. t.refused \in BOOLEAN
  BY <1>1, RecordedExact
<1>3. c \in Range(suiteFile)
  BY CaseExact
<1>4. c.assertions \in Seq(Range(c.assertions))
  <2>1. suiteFile \in SuiteFiles
    <3>1. Range(<<>>) = {}
      BY DEF Range
    <3>2. QED
      BY <1>3, <3>1 DEF JInv, JTyped
  <2> HIDE DEF c
  <2>2. QED
    BY <1>3, <2>1, JudgementAssumption
<1>5. v = IF ~AllPassed(c, t) /\ l \in Good THEN "wrong" ELSE l
  BY DEF Judge
<1> HIDE DEF c, v, l
<1>6. /\ l \in Good => t.refused = (c.expect = "refuse") /\ Grounded(t)
      /\ l = "over_refused" <=> c.expect # "refuse" /\ t.refused
      /\ t.refused = (c.expect = "refuse") /\ Grounded(t) /\ TextsHold(c, t) => l \in Good
  BY <1>2, LegacyExact DEF l
<1>7. Fulfilled(c, t) <=> /\ t.refused = (c.expect = "refuse") /\ Grounded(t) /\ AllPassed(c, t)
  BY <1>1, <1>4, FulfilledExact
<1>8. v \in Good <=> AllPassed(c, t) /\ l \in Good
  BY <1>5 DEF Good
<1>9. ASSUME AllPassed(c, t), NEW a \in Range(c.assertions) PROVE Evaluate(a, t) = "pass"
  <2> DEFINE x == [i \in DOMAIN c.assertions |-> Evaluate(c.assertions[i], t)]
             y == [i \in DOMAIN t.fixtures |-> Status(t.fixtures[i])]
  <2>1. x \in Seq(Range(x)) /\ y \in Seq(Range(y))
    BY <1>1, <1>4, ResultsTyped
  <2>2. Evaluate(a, t) \in Range(x)
    BY DEF Range
  <2>3. AssertionResults(c, t) = x \o y
    BY DEF AssertionResults
  <2> HIDE DEF x, y
  <2>4. Evaluate(a, t) \in Range(x \o y)
    BY <2>1, <2>2, ConcatRange
  <2>5. QED
    BY <1>9, <2>3, <2>4 DEF AllPassed
<1>10. v \in Good => Fulfilled(c, t)
  BY <1>6, <1>7, <1>8
<1>11. ASSUME Fulfilled(c, t), ~Selects(c), ~ForbidsSpelling(c) PROVE v \in Good
  <2>1. AllPassed(c, t) /\ t.refused = (c.expect = "refuse") /\ Grounded(t)
    BY <1>7, <1>11
  <2>2. \A a \in Range(c.assertions) : Evaluate(a, t) = "pass"
    BY <1>9, <2>1
  <2>3. TextsHold(c, t)
    BY <1>11, <2>2, TextsExact
  <2>4. QED
    BY <1>6, <1>8, <2>1, <2>3
<1>12. v = "over_refused" <=> c.expect # "refuse" /\ t.refused
  BY <1>5, <1>6 DEF Good
<1>13. t.refused => \A w \in t.violations : w[1] \notin EvidencePolicies
  BY <1>1, RefusalsExact
<1>14. QED
  BY <1>2, <1>10, <1>11, <1>12, <1>13 DEF c, v

\* A verdict is good if and only if the trace fulfils its case, for any suites, agents and
\* policies.
THEOREM VerdictsExact == JudgementSpec => []VerdictExact
<1>1. JInv => VerdictExact
  BY VerdictsAreExact
<1>2. QED
  BY <1>1, JudgementInvariant, PTL

-----------------------------------------------------------------------------
(* What is computed step by step: joined lists, sums, references.         *)

\* A function over 0..n.
Over(f, n) == f = [i \in 0..n |-> f[i]]

\* Two functions over 0..n that begin and go on alike are the same.
LEMMA SameSteps ==
  ASSUME NEW n \in Nat, NEW f, NEW g, Over(f, n), Over(g, n),
         f[0] = g[0], \A i \in 1..n : f[i - 1] = g[i - 1] => f[i] = g[i]
  PROVE  f = g
<1> DEFINE T == {i \in 0..n : f[i] = g[i]}
<1>1. 0 \in T
  OBVIOUS
<1>2. ASSUME NEW i \in 1..n, i - 1 \in T PROVE i \in T
  BY <1>2
<1>3. 0..n \subseteq T
  <2> HIDE DEF T
  <2>1. QED
    BY <1>1, <1>2, NumbersUpTo
<1>4. QED
  BY <1>3 DEF Over

\* What Joined computes, step by step.
JoinedSteps(F, ss) ==
  F = [i \in 0..Len(ss) |-> IF i = 0 THEN <<>> ELSE F[i - 1] \o ss[i]]

\* A list that is extended starts empty and takes one list after the other.
LEMMA JoinedStep ==
  ASSUME NEW F, NEW ss, NEW n \in Nat, n = Len(ss), JoinedSteps(F, ss)
  PROVE  /\ F = [i \in 0..n |-> F[i]] /\ F[0] = <<>>
         /\ \A i \in 1..n : F[i] = F[i - 1] \o ss[i]
<1>1. F = [i \in 0..n |-> IF i = 0 THEN <<>> ELSE F[i - 1] \o ss[i]]
  BY DEF JoinedSteps
<1>2. DOMAIN F = 0..n /\ 0 \in 0..n
  BY <1>1
<1>3. F[0] = <<>>
  BY <1>1, <1>2
<1>4. ASSUME NEW i \in 1..n PROVE F[i] = F[i - 1] \o ss[i]
  <2>1. i \in 0..n /\ i # 0
    OBVIOUS
  <2>2. QED
    BY <1>1, <2>1
<1>5. F = [i \in 0..n |-> F[i]]
  BY <1>1, <1>2
<1>6. QED
  BY <1>3, <1>4, <1>5

\* The recursive function behind Joined exists: its value at i is what the first i lists give.
LEMMA JoinedUnfolds ==
  ASSUME NEW D, NEW n \in Nat, NEW ss \in Seq(Seq(D)), n = Len(ss)
  PROVE  \E F \in [0..n -> Seq(D)] :
           F[0] = <<>> /\ (\A i \in 1..n : F[i] = F[i - 1] \o ss[i]) /\ Joined(ss) = F[n]
<1> DEFINE V == Seq(D)
           step == [i \in 1..n |-> [v \in V |-> v \o ss[i]]]
<1>1. \A v \in V, i \in 1..n : step[i][v] = v \o ss[i] /\ step[i][v] \in V
  <2> SUFFICES ASSUME NEW v \in V, NEW i \in 1..n
               PROVE  step[i][v] = v \o ss[i] /\ step[i][v] \in V
    OBVIOUS
  <2>1. ss[i] \in Seq(D)
    BY ElementOfSeq, Z3
  <2>2. v \o ss[i] \in Seq(D)
    BY <2>1, ConcatProperties, Zenon
  <2>3. QED
    BY <2>2
<1>2. <<>> \in V
  OBVIOUS
<1> HIDE DEF V, step
<1>3. PICK f \in [0..n -> V] : Stepwise(f, n, <<>>, step)
  BY <1>1, <1>2, RecursionExists
<1>4. /\ f = [i \in 0..n |-> f[i]] /\ f[0] = <<>>
      /\ \A i \in 1..n : f[i] = f[i - 1] \o ss[i]
  <2>1. ASSUME NEW i \in 1..n PROVE f[i] = f[i - 1] \o ss[i]
    <3>1. i \in 0..n /\ i # 0 /\ i - 1 \in 0..n
      OBVIOUS
    <3>2. f[i] = step[i][f[i - 1]] /\ f[i - 1] \in V
      BY <1>3, <3>1 DEF Stepwise
    <3>3. QED
      BY <1>1, <3>2
  <2>2. f[0] = <<>>
    BY <1>3 DEF Stepwise
  <2>3. QED
    BY <1>3, <2>1, <2>2
<1>5. JoinedSteps(f, ss)
  <2>1. ASSUME NEW i \in 0..n PROVE f[i] = IF i = 0 THEN <<>> ELSE f[i - 1] \o ss[i]
    <3>1. i = 0 \/ i \in 1..n
      OBVIOUS
    <3>2. QED
      BY <1>4, <3>1
  <2>2. QED
    BY <1>4, <2>1 DEF JoinedSteps
<1>6. ASSUME NEW F, JoinedSteps(F, ss) PROVE F = f
  <2>1. /\ F = [i \in 0..n |-> F[i]] /\ F[0] = <<>>
        /\ \A i \in 1..n : F[i] = F[i - 1] \o ss[i]
    BY <1>6, JoinedStep
  <2>2. \A i \in 1..n : F[i - 1] = f[i - 1] => F[i] = f[i]
    BY <1>4, <2>1
  <2>3. F[0] = f[0] /\ Over(F, n) /\ Over(f, n)
    BY <1>4, <2>1 DEF Over
  <2>4. QED
    BY <2>2, <2>3, SameSteps, Zenon
<1>7. (CHOOSE F : JoinedSteps(F, ss)) = f
  BY <1>5, <1>6
<1>8. Joined(ss) = (CHOOSE F : JoinedSteps(F, ss))[n]
  BY DEF Joined, JoinedSteps
<1>9. QED
  BY <1>3, <1>4, <1>7, <1>8 DEF V

\* What Running computes, step by step.
SumSteps(F, ratios, n) == F = [j \in 0..n |-> IF j = 0 THEN 0 ELSE F[j - 1] + ratios[j]]

\* A sum starts with 0 and adds one number after the other.
LEMMA SumStep ==
  ASSUME NEW F, NEW ratios, NEW n \in Nat, SumSteps(F, ratios, n)
  PROVE  /\ F = [i \in 0..n |-> F[i]] /\ F[0] = 0
         /\ \A i \in 1..n : F[i] = F[i - 1] + ratios[i]
<1>1. F = [i \in 0..n |-> IF i = 0 THEN 0 ELSE F[i - 1] + ratios[i]]
  BY DEF SumSteps
<1>2. DOMAIN F = 0..n /\ 0 \in 0..n
  BY <1>1
<1>3. F[0] = 0
  BY <1>1, <1>2
<1>4. ASSUME NEW i \in 1..n PROVE F[i] = F[i - 1] + ratios[i]
  <2>1. i \in 0..n /\ i # 0
    OBVIOUS
  <2>2. QED
    BY <1>1, <2>1
<1>5. F = [i \in 0..n |-> F[i]]
  BY <1>1, <1>2
<1>6. QED
  BY <1>3, <1>4, <1>5

\* The recursive function behind Running exists.
LEMMA RunningUnfolds ==
  ASSUME NEW n \in Nat, NEW ratios, \A i \in 1..n : ratios[i] \in Nat
  PROVE  \E F \in [0..n -> Nat] :
           F[0] = 0 /\ (\A i \in 1..n : F[i] = F[i - 1] + ratios[i]) /\ Running(ratios, n) = F[n]
<1> DEFINE step == [i \in 1..n |-> [v \in Nat |-> v + ratios[i]]]
<1>1. \A v \in Nat, i \in 1..n : step[i][v] = v + ratios[i] /\ step[i][v] \in Nat
  OBVIOUS
<1> HIDE DEF step
<1>3. PICK f \in [0..n -> Nat] : Stepwise(f, n, 0, step)
  BY <1>1, RecursionExists
<1>4. /\ f = [i \in 0..n |-> f[i]] /\ f[0] = 0
      /\ \A i \in 1..n : f[i] = f[i - 1] + ratios[i]
  <2>1. ASSUME NEW i \in 1..n PROVE f[i] = f[i - 1] + ratios[i]
    <3>1. i \in 0..n /\ i # 0 /\ i - 1 \in 0..n
      OBVIOUS
    <3>2. f[i] = step[i][f[i - 1]] /\ f[i - 1] \in Nat
      BY <1>3, <3>1 DEF Stepwise
    <3>3. QED
      BY <1>1, <3>2
  <2>2. f[0] = 0
    BY <1>3 DEF Stepwise
  <2>3. QED
    BY <1>3, <2>1, <2>2
<1>5. SumSteps(f, ratios, n)
  <2>1. ASSUME NEW i \in 0..n PROVE f[i] = IF i = 0 THEN 0 ELSE f[i - 1] + ratios[i]
    <3>1. i = 0 \/ i \in 1..n
      OBVIOUS
    <3>2. QED
      BY <1>4, <3>1
  <2>2. QED
    BY <1>4, <2>1 DEF SumSteps
<1>6. ASSUME NEW F, SumSteps(F, ratios, n) PROVE F = f
  <2>1. /\ F = [i \in 0..n |-> F[i]] /\ F[0] = 0
        /\ \A i \in 1..n : F[i] = F[i - 1] + ratios[i]
    BY <1>6, SumStep
  <2>2. \A i \in 1..n : F[i - 1] = f[i - 1] => F[i] = f[i]
    BY <1>4, <2>1
  <2>3. F[0] = f[0] /\ Over(F, n) /\ Over(f, n)
    BY <1>4, <2>1 DEF Over
  <2>4. QED
    BY <2>2, <2>3, SameSteps, Zenon
<1>7. (CHOOSE F : SumSteps(F, ratios, n)) = f
  BY <1>5, <1>6
<1>8. Running(ratios, n) = (CHOOSE F : SumSteps(F, ratios, n))[n]
  BY DEF Running, SumSteps
<1>9. QED
  BY <1>3, <1>4, <1>7, <1>8

\* The sum of the first numbers grows by each of them.
LEMMA RunningSum ==
  ASSUME NEW ratios, NEW n \in Nat, \A i \in 1..n : ratios[i] \in Nat
  PROVE  /\ Running(ratios, 0) = 0
         /\ \A i \in 0..n : Running(ratios, i) \in Nat
         /\ \A i \in 1..n : Running(ratios, i) = Running(ratios, i - 1) + ratios[i]
<1>1. PICK F \in [0..n -> Nat] :
        F[0] = 0 /\ \A i \in 1..n : F[i] = F[i - 1] + ratios[i]
  BY RunningUnfolds, ZenonT(40)
<1>2. ASSUME NEW m \in 0..n PROVE Running(ratios, m) = F[m]
  <2>1. PICK G \in [0..m -> Nat] :
          G[0] = 0 /\ (\A i \in 1..m : G[i] = G[i - 1] + ratios[i]) /\ Running(ratios, m) = G[m]
    <3>1. m \in Nat /\ \A i \in 1..m : ratios[i] \in Nat
      OBVIOUS
    <3>2. QED
      BY <3>1, RunningUnfolds
  <2> DEFINE H == [i \in 0..m |-> F[i]]
  <2>2. Over(H, m) /\ Over(G, m) /\ H[0] = G[0] /\ m \in Nat
    BY <1>1, <2>1 DEF Over
  <2>3. \A i \in 1..m : i \in 0..m /\ i - 1 \in 0..m /\ i \in 1..n /\ H[i] = F[i] /\ H[i - 1] = F[i - 1]
    OBVIOUS
  <2>4. H[m] = F[m]
    OBVIOUS
  <2> HIDE DEF H
  <2>5. \A i \in 1..m : H[i - 1] = G[i - 1] => H[i] = G[i]
    BY <1>1, <2>1, <2>3
  <2>6. H = G
    BY <2>2, <2>5, SameSteps, Zenon
  <2>7. QED
    BY <2>1, <2>4, <2>6
<1>3. \A i \in 1..n : i \in 0..n /\ i - 1 \in 0..n
  OBVIOUS
<1>4. QED
  BY <1>1, <1>2, <1>3

-----------------------------------------------------------------------------
(* References between files.                                               *)

\* One include more.
WithIncluded(R) == R \cup UNION {Range(Content[f].includes) : f \in R \cap DOMAIN Content}

\* What Referred computes, step by step.
IncludeSteps(F, S, n) == F = [i \in 0..n |-> IF i = 0 THEN S ELSE WithIncluded(F[i - 1])]

\* The recursive function behind Referred exists.
LEMMA ReferredUnfolds ==
  ASSUME NEW n \in Nat, NEW S
  PROVE  \E F : /\ Over(F, n) /\ F[0] = S /\ \A i \in 1..n : F[i] = WithIncluded(F[i - 1])
                /\ Referred(S, n) = F[n]
<1> DEFINE All == S \cup UNION {Range(Content[f].includes) : f \in DOMAIN Content}
           V == SUBSET All
           step == [i \in 1..n |-> [v \in V |-> WithIncluded(v)]]
<1>1. \A v \in V, i \in 1..n : step[i][v] = WithIncluded(v) /\ step[i][v] \in V
  BY DEF WithIncluded
<1>2. S \in V
  OBVIOUS
<1> HIDE DEF step, V
<1>3. PICK f \in [0..n -> V] : Stepwise(f, n, S, step)
  BY <1>1, <1>2, RecursionExists
<1>4. Over(f, n) /\ f[0] = S /\ \A i \in 1..n : f[i] = WithIncluded(f[i - 1])
  <2>1. ASSUME NEW i \in 1..n PROVE f[i] = WithIncluded(f[i - 1])
    <3>1. i \in 0..n /\ i # 0 /\ i - 1 \in 0..n
      OBVIOUS
    <3>2. f[i] = step[i][f[i - 1]] /\ f[i - 1] \in V
      BY <1>3, <3>1 DEF Stepwise
    <3>3. QED
      BY <1>1, <3>2
  <2>2. f[0] = S
    BY <1>3 DEF Stepwise
  <2>3. QED
    BY <1>3, <2>1, <2>2 DEF Over
<1>5. IncludeSteps(f, S, n)
  <2>1. ASSUME NEW i \in 0..n PROVE f[i] = IF i = 0 THEN S ELSE WithIncluded(f[i - 1])
    <3>1. i = 0 \/ i \in 1..n
      OBVIOUS
    <3>2. QED
      BY <1>4, <3>1
  <2>2. QED
    BY <1>4, <2>1 DEF IncludeSteps, Over
<1>6. ASSUME NEW F, IncludeSteps(F, S, n) PROVE F = f
  <2>1. F = [i \in 0..n |-> IF i = 0 THEN S ELSE WithIncluded(F[i - 1])]
    BY <1>6 DEF IncludeSteps
  <2>2. DOMAIN F = 0..n /\ 0 \in 0..n /\ \A i \in 1..n : i \in 0..n /\ i # 0
    BY <2>1
  <2>3. F[0] = S /\ \A i \in 1..n : F[i] = WithIncluded(F[i - 1])
    BY <2>1, <2>2
  <2>4. Over(F, n) /\ F[0] = f[0] /\ \A i \in 1..n : F[i - 1] = f[i - 1] => F[i] = f[i]
    BY <1>4, <2>1, <2>2, <2>3 DEF Over
  <2>5. QED
    BY <1>4, <2>4, SameSteps, Zenon
<1>7. (CHOOSE F : IncludeSteps(F, S, n)) = f
  BY <1>5, <1>6
<1>8. Referred(S, n) = (CHOOSE F : IncludeSteps(F, S, n))[n]
  BY DEF Referred, IncludeSteps, WithIncluded
<1>9. QED
  BY <1>4, <1>7, <1>8

\* No include leads to S itself, and one include more to what is referred to by then.
LEMMA ReferredStep ==
  ASSUME NEW S
  PROVE  Referred(S, 0) = S /\ \A n \in Nat : Referred(S, n + 1) = WithIncluded(Referred(S, n))
<1>1. Referred(S, 0) = S
  <2>1. PICK F : F[0] = S /\ Referred(S, 0) = F[0]
    BY ReferredUnfolds
  <2>2. QED
    BY <2>1
<1>2. ASSUME NEW n \in Nat PROVE Referred(S, n + 1) = WithIncluded(Referred(S, n))
  <2>1. PICK F : /\ Over(F, n + 1) /\ F[0] = S /\ \A i \in 1..n + 1 : F[i] = WithIncluded(F[i - 1])
                 /\ Referred(S, n + 1) = F[n + 1]
    BY ReferredUnfolds
  <2>2. PICK G : /\ Over(G, n) /\ G[0] = S /\ \A i \in 1..n : G[i] = WithIncluded(G[i - 1])
                 /\ Referred(S, n) = G[n]
    BY ReferredUnfolds
  <2> DEFINE H == [i \in 0..n |-> F[i]]
  <2>3. Over(H, n) /\ H[0] = G[0] /\ H[n] = F[n]
    BY <2>1, <2>2 DEF Over
  <2>4. \A i \in 1..n : i \in 1..n + 1 /\ H[i] = F[i] /\ H[i - 1] = F[i - 1]
    OBVIOUS
  <2> HIDE DEF H
  <2>5. \A i \in 1..n : H[i - 1] = G[i - 1] => H[i] = G[i]
    BY <2>1, <2>2, <2>4
  <2>6. H = G
    BY <2>2, <2>3, <2>5, SameSteps, Zenon
  <2>7. n + 1 \in 1..n + 1 /\ (n + 1) - 1 = n
    OBVIOUS
  <2>8. QED
    BY <2>1, <2>2, <2>3, <2>6, <2>7
<1>3. QED
  BY <1>1, <1>2

\* More includes lead to no less.
LEMMA ReferredGrows ==
  ASSUME NEW S, NEW m \in Nat, NEW n \in Nat, m <= n
  PROVE  Referred(S, m) \subseteq Referred(S, n)
<1> DEFINE T == {k \in Nat : Referred(S, m) \subseteq Referred(S, m + k)}
<1>1. 0 \in T
  OBVIOUS
<1>2. ASSUME NEW k \in Nat, k \in T PROVE k + 1 \in T
  <2>1. m + k \in Nat /\ m + (k + 1) = (m + k) + 1
    OBVIOUS
  <2>2. Referred(S, m + (k + 1)) = WithIncluded(Referred(S, m + k))
    BY <2>1, ReferredStep
  <2>3. QED
    BY <1>2, <2>2 DEF WithIncluded
<1>3. Nat \subseteq T
  <2> HIDE DEF T
  <2>1. QED
    BY <1>1, <1>2, Numbers
<1>4. n - m \in Nat /\ m + (n - m) = n
  OBVIOUS
<1>5. QED
  BY <1>3, <1>4

\* A set that includes what its files include holds everything they refer to.
LEMMA ReferredClosed ==
  ASSUME NEW S, NEW L, S \subseteq L, WithIncluded(L) \subseteq L, NEW n \in Nat
  PROVE  Referred(S, n) \subseteq L
<1> DEFINE T == {k \in Nat : Referred(S, k) \subseteq L}
<1>1. 0 \in T
  BY ReferredStep
<1>2. ASSUME NEW k \in Nat, k \in T PROVE k + 1 \in T
  <2>1. Referred(S, k + 1) = WithIncluded(Referred(S, k))
    BY ReferredStep
  <2>2. WithIncluded(Referred(S, k)) \subseteq WithIncluded(L)
    BY <1>2 DEF WithIncluded
  <2>3. QED
    BY <2>1, <2>2
<1>3. Nat \subseteq T
  <2> HIDE DEF T
  <2>1. QED
    BY <1>1, <1>2, Numbers
<1>4. QED
  BY <1>3

\* The cases of a file are a sequence.
LEMMA OwnIsSeq ==
  ASSUME NEW f \in DOMAIN Content
  PROVE  Own(f) \in Seq(Range(Own(f)))
<1> DEFINE raws == Content[f].cases
           ss   == [i \in DOMAIN raws |-> Expand(raws[i], f)]
           D    == UNION {Range(Expand(raws[i], f)) : i \in DOMAIN raws}
           n    == Len(raws)
<1>1. /\ raws \in Seq(Range(raws)) /\ Content[f].parameters \in Seq(Range(Content[f].parameters))
      /\ \A c \in Range(raws) : c.parameters \in Seq(Range(c.parameters))
  BY DatasetsAssumption
<1>2. n \in Nat /\ DOMAIN raws = 1..n
  BY <1>1
<1>3. ASSUME NEW i \in DOMAIN raws PROVE Expand(raws[i], f) \in Seq(D)
  <2> DEFINE sets == IF raws[i].parameters = <<>> THEN Content[f].parameters ELSE raws[i].parameters
             e    == Expand(raws[i], f)
  <2>1. raws[i] \in Range(raws)
    BY DEF Range
  <2>2. sets \in Seq(Range(sets))
    BY <1>1, <2>1
  <2>3. Len(sets) \in Nat /\ DOMAIN sets = 1..Len(sets)
    BY <2>2
  <2>4. e = [j \in 1..Len(sets) |-> e[j]]
    BY <2>3 DEF Expand
  <2> HIDE DEF e, sets
  <2>5. \A j \in 1..Len(sets) : e[j] \in Range(e)
    BY <2>4 DEF Range
  <2>6. Range(e) \subseteq D
    BY DEF e
  <2>7. e \in [1..Len(sets) -> D]
    BY <2>4, <2>5, <2>6
  <2>8. e \in Seq(D)
    BY <2>3, <2>7
  <2>9. QED
    BY <2>8 DEF e
<1>4. ss \in Seq(Seq(D)) /\ Len(ss) = n
  <2>1. ss \in [1..n -> Seq(D)]
    BY <1>2, <1>3
  <2> HIDE DEF ss
  <2>2. QED
    BY <1>2, <2>1
<1>5. Own(f) = Joined(ss)
  BY DEF Own
<1> HIDE DEF ss, D, n, raws
<1>6. Joined(ss) \in Seq(D)
  <2>0. n \in Nat /\ ss \in Seq(Seq(D)) /\ n = Len(ss)
    BY <1>2, <1>4
  <2>1. PICK F \in [0..n -> Seq(D)] :
          F[0] = <<>> /\ (\A i \in 1..n : F[i] = F[i - 1] \o ss[i]) /\ Joined(ss) = F[n]
    BY <2>0, JoinedUnfolds, ZenonT(40)
  <2>2. QED
    BY <1>2, <2>1
<1>7. QED
  <2>1. Own(f) \in Seq(D)
    BY <1>5, <1>6
  <2>2. \A i \in DOMAIN Own(f) : Own(f)[i] \in Range(Own(f))
    BY DEF Range
  <2> DEFINE o == Own(f)
  <2>3. o \in Seq(D) /\ \A i \in DOMAIN o : o[i] \in Range(o)
    BY <2>1, <2>2
  <2> HIDE DEF o
  <2>4. Len(o) \in Nat /\ DOMAIN o = 1..Len(o) /\ o \in [1..Len(o) -> Range(o)]
    BY <2>3
  <2>5. o \in Seq(Range(o))
    BY <2>4
  <2>6. QED
    BY <2>5 DEF o

-----------------------------------------------------------------------------
(* Splits.                                                                 *)

\* Products keep the order, and grow by a whole factor at a time.
LEMMA Multiples ==
  ASSUME NEW b \in Nat, NEW x \in Int, NEW y \in Int
  PROVE  /\ b * x \in Int /\ b * (x + 1) = b * x + b
         /\ x <= y => b * x <= b * y
         /\ x < y => b * x + b <= b * y
<1>1. b * x \in Int /\ b * (x + 1) = b * x + b
  OBVIOUS
<1>2. ASSUME NEW k \in Nat, y = x + k PROVE b * y = b * x + b * k /\ b * k \in Nat
  BY <1>2
<1>3. ASSUME x <= y PROVE b * x <= b * y
  <2>1. y - x \in Nat /\ y = x + (y - x)
    BY <1>3
  <2>2. b * y = b * x + b * (y - x) /\ b * (y - x) \in Nat
    BY <1>2, <2>1
  <2>3. QED
    BY <1>1, <2>2
<1>4. ASSUME x < y PROVE b * x + b <= b * y
  <2>1. y - (x + 1) \in Nat /\ y = x + (y - (x + 1)) + 1 /\ y - x \in Nat /\ y = x + (y - x)
    BY <1>4
  <2>2. b * y = b * x + b * (y - x)
    BY <1>2, <2>1
  <2>3. b * (y - x) = b * (y - (x + 1)) + b /\ b * (y - (x + 1)) \in Nat
    BY <2>1
  <2>4. QED
    BY <1>1, <2>2, <2>3
<1>5. QED
  BY <1>1, <1>3, <1>4

\* What is rounded is half a unit away at most.
LEMMA RoundedNear ==
  ASSUME NEW a \in Nat, NEW b \in Nat \ {0}
  PROVE  /\ Rounded(a, b) \in Nat
         /\ 2 * (b * Rounded(a, b)) <= 2 * a + b /\ 2 * a <= 2 * (b * Rounded(a, b)) + b
<1> DEFINE q == a \div b
           r == a % b
<1>1. q \in Nat /\ r \in 0..b - 1 /\ a = b * q + r
  OBVIOUS
<1>2. b * (q + 1) = b * q + b /\ b * q \in Int
  BY <1>1, Multiples
<1>3. Rounded(a, b) = IF 2 * r > b \/ (2 * r = b /\ q % 2 = 1) THEN q + 1 ELSE q
  BY DEF Rounded
<1> HIDE DEF q, r
<1>4. CASE Rounded(a, b) = q + 1 /\ 2 * r >= b
  BY <1>1, <1>2, <1>4
<1>5. CASE Rounded(a, b) = q /\ 2 * r <= b
  BY <1>1, <1>2, <1>5
<1>6. QED
  BY <1>1, <1>3, <1>4, <1>5

\* Whole numbers are not rounded.
LEMMA RoundedExact ==
  ASSUME NEW n \in Nat, NEW b \in Nat \ {0}
  PROVE  Rounded(n * b, b) = n
<1> DEFINE R == Rounded(n * b, b)
<1>1. n * b \in Nat /\ n * b = b * n
  OBVIOUS
<1>2. R \in Nat /\ 2 * (b * R) <= 2 * (b * n) + b /\ 2 * (b * n) <= 2 * (b * R) + b
  BY <1>1, RoundedNear
<1> HIDE DEF R
<1>3. b * n \in Int /\ b * R \in Int /\ (R < n => b * R + b <= b * n) /\ (n < R => b * n + b <= b * R)
  BY <1>2, Multiples
<1>4. R = n
  BY <1>2, <1>3
<1>5. QED
  BY <1>4 DEF R

\* Rounding keeps the order.
LEMMA RoundedGrows ==
  ASSUME NEW a \in Nat, NEW c \in Nat, NEW b \in Nat \ {0}, a <= c
  PROVE  Rounded(a, b) <= Rounded(c, b)
<1> DEFINE q == a \div b
           r == a % b
           s == c \div b
           t == c % b
<1>1. q \in Nat /\ r \in 0..b - 1 /\ a = b * q + r /\ s \in Nat /\ t \in 0..b - 1 /\ c = b * s + t
  OBVIOUS
<1>2. /\ Rounded(a, b) = IF 2 * r > b \/ (2 * r = b /\ q % 2 = 1) THEN q + 1 ELSE q
      /\ Rounded(c, b) = IF 2 * t > b \/ (2 * t = b /\ s % 2 = 1) THEN s + 1 ELSE s
  BY DEF Rounded
<1> HIDE DEF q, r, s, t
<1>3. b * q \in Int /\ b * s \in Int /\ (s < q => b * s + b <= b * q)
  BY <1>1, Multiples
<1>4. q <= s
  BY <1>1, <1>3
<1>5. CASE q = s
  <2>1. r <= t
    BY <1>1, <1>3, <1>5
  <2>2. QED
    BY <1>1, <1>2, <1>5, <2>1
<1>6. CASE q # s
  BY <1>1, <1>2, <1>4, <1>6
<1>7. QED
  BY <1>5, <1>6

\* All boundaries are rounded, the first and the last one included.
LEMMA BoundaryRounded ==
  ASSUME NEW ratios \in Seq(Nat), Total(ratios) > 0, NEW n \in Nat, NEW i \in 0..Len(ratios)
  PROVE  /\ Total(ratios) \in Nat /\ Running(ratios, i) \in Nat /\ n * Running(ratios, i) \in Nat
         /\ Boundary(ratios, i, n) = Rounded(n * Running(ratios, i), Total(ratios))
<1> DEFINE m == Len(ratios)
<1>1. m \in Nat /\ \A j \in 1..m : ratios[j] \in Nat
  OBVIOUS
<1>2. Running(ratios, 0) = 0 /\ \A j \in 0..m : Running(ratios, j) \in Nat
  <2> HIDE DEF m
  <2>1. QED
    BY <1>1, RunningSum
<1>3. Total(ratios) = Running(ratios, m) /\ Total(ratios) \in Nat \ {0} /\ m \in 0..m
  BY <1>1, <1>2 DEF Total
<1>4. m # 0
  BY <1>2, <1>3
<1>5. CASE i = 0
  <2>1. n * Running(ratios, 0) = 0 * Total(ratios)
    BY <1>2, <1>3
  <2>2. Rounded(n * Running(ratios, 0), Total(ratios)) = 0
    BY <1>3, <2>1, RoundedExact
  <2>3. QED
    BY <1>2, <1>3, <1>5, <2>1, <2>2 DEF Boundary
<1>6. CASE i = m
  <2>1. Rounded(n * Running(ratios, m), Total(ratios)) = n
    BY <1>3, RoundedExact
  <2>2. n * Running(ratios, m) \in Nat
    BY <1>3
  <2>3. QED
    BY <1>2, <1>3, <1>4, <1>6, <2>1, <2>2 DEF Boundary
<1>7. CASE i # 0 /\ i # m
  <2>1. Running(ratios, i) \in Nat
    BY <1>2
  <2>2. n * Running(ratios, i) \in Nat
    BY <2>1
  <2>3. QED
    BY <1>3, <1>7, <2>1, <2>2 DEF Boundary
<1>8. QED
  BY <1>5, <1>6, <1>7

\* Two halves make a whole.
LEMMA HalfAndHalf ==
  ASSUME NEW T \in Nat, NEW a \in Int, NEW b \in Int, NEW x \in Int, NEW y \in Int, NEW z \in Int,
         2 * a <= 2 * x + T, 2 * x <= 2 * a + T, 2 * b <= 2 * y + T, 2 * y <= 2 * b + T, y = x + z
  PROVE  -T <= b - a - z /\ b - a - z <= T
OBVIOUS

\* The boundaries grow from 0 to n, and the chunk between two of them has its share
\* to within one.
LEMMA BoundariesExact ==
  ASSUME NEW ratios \in Seq(Nat), Total(ratios) > 0, NEW n \in Nat
  PROVE  /\ Boundary(ratios, 0, n) = 0 /\ Boundary(ratios, Len(ratios), n) = n
         /\ \A i \in 0..Len(ratios) : Boundary(ratios, i, n) \in Nat
         /\ \A i \in 1..Len(ratios) :
              LET s == Boundary(ratios, i, n) - Boundary(ratios, i - 1, n)
                  d == s * Total(ratios) - n * ratios[i]
              IN
              /\ Boundary(ratios, i - 1, n) <= Boundary(ratios, i, n)
              /\ -Total(ratios) <= d /\ d <= Total(ratios)
              /\ ratios[i] = 0 => s = 0
<1> DEFINE m == Len(ratios)
           T == Total(ratios)
           B(i) == Boundary(ratios, i, n)
           S(i) == Running(ratios, i)
<1>1. m \in Nat /\ \A j \in 1..m : ratios[j] \in Nat
  OBVIOUS
<1>2. \A i \in 0..m : /\ T \in Nat \ {0} /\ S(i) \in Nat /\ n * S(i) \in Nat
                      /\ B(i) = Rounded(n * S(i), T)
  <2> SUFFICES ASSUME NEW i \in 0..m
               PROVE  /\ T \in Nat \ {0} /\ S(i) \in Nat /\ n * S(i) \in Nat
                      /\ B(i) = Rounded(n * S(i), T)
    OBVIOUS
  <2>1. /\ Total(ratios) \in Nat /\ Running(ratios, i) \in Nat /\ n * Running(ratios, i) \in Nat
        /\ Boundary(ratios, i, n) = Rounded(n * Running(ratios, i), Total(ratios))
    BY BoundaryRounded
  <2>2. QED
    BY <2>1
<1>3. \A i \in 1..m : S(i) = S(i - 1) + ratios[i]
  <2> HIDE DEF m
  <2>1. QED
    BY <1>1, RunningSum
<1>4. T \in Nat \ {0} /\ m # 0
  <2>1. 0 \in 0..m
    BY <1>1
  <2>2. T \in Nat \ {0}
    BY <1>2, <2>1
  <2>3. S(0) = 0
    BY RunningSum
  <2>4. QED
    BY <2>2, <2>3 DEF Total
<1>5. B(0) = 0 /\ B(m) = n
  BY <1>4 DEF Boundary
<1>6. ASSUME NEW i \in 0..m PROVE B(i) \in Nat /\ 2 * (T * B(i)) <= 2 * (n * S(i)) + T
                                    /\ 2 * (n * S(i)) <= 2 * (T * B(i)) + T
  <2> HIDE DEF B, S, T
  <2>1. QED
    BY <1>2, <1>4, RoundedNear
<1>7. ASSUME NEW i \in 1..m
      PROVE  /\ B(i - 1) <= B(i)
             /\ -T <= (B(i) - B(i - 1)) * T - n * ratios[i]
             /\ (B(i) - B(i - 1)) * T - n * ratios[i] <= T
             /\ ratios[i] = 0 => B(i) - B(i - 1) = 0
  <2> DEFINE r == ratios[i]
             x == S(i - 1)
             y == S(i)
             u == B(i - 1)
             v == B(i)
  <2>1. i \in 0..m /\ i - 1 \in 0..m
    BY <1>1
  <2>2. /\ r \in Nat /\ x \in Nat /\ y = x + r /\ u \in Nat /\ v \in Nat
        /\ u = Rounded(n * x, T) /\ v = Rounded(n * y, T) /\ n * x \in Nat /\ n * y \in Nat
    BY <1>1, <1>2, <1>3, <1>6, <2>1
  <2>3. /\ 2 * (T * u) <= 2 * (n * x) + T /\ 2 * (n * x) <= 2 * (T * u) + T
        /\ 2 * (T * v) <= 2 * (n * y) + T /\ 2 * (n * y) <= 2 * (T * v) + T
    BY <1>6, <2>1
  <2> HIDE DEF r, x, y, u, v, T
  <2>4. n * y = n * x + n * r /\ n * r \in Nat
    BY <2>2
  <2>5. u <= v
    BY <1>4, <2>2, <2>4, RoundedGrows
  <2>6. (v - u) * T = T * v - T * u /\ T * v \in Int /\ T * u \in Int
    BY <1>4, <2>2
  <2>7. -T <= (v - u) * T - n * r /\ (v - u) * T - n * r <= T
    <3>1. -T <= T * v - T * u - n * r /\ T * v - T * u - n * r <= T
      <4>1. T \in Nat /\ n * x \in Int /\ n * y \in Int /\ n * r \in Int
        BY <1>4, <2>2, <2>4
      <4>2. QED
        BY <2>3, <2>4, <2>6, <4>1, HalfAndHalf
    <3>2. QED
      BY <2>6, <3>1
  <2>8. ASSUME r = 0 PROVE v - u = 0
    <3>1. y = x
      BY <2>2, <2>8
    <3>2. QED
      BY <2>2, <3>1
  <2>9. QED
    BY <2>5, <2>7, <2>8 DEF r, u, v
<1>8. QED
  BY <1>5, <1>6, <1>7

\* A function over 1..n is a sequence of n elements.
LEMMA FunctionIsSeq ==
  ASSUME NEW S, NEW n \in Nat, NEW f \in [1..n -> S]
  PROVE  f \in Seq(S) /\ Len(f) = n /\ DOMAIN f = 1..n
OBVIOUS

\* A sequence cut at the boundaries b[0] .. b[m].
Slices(s, b, m) == [i \in 1..m |-> SubSeq(s, b[i - 1] + 1, b[i])]

\* ss are the pieces of s between the boundaries b[0] .. b[m].
InPieces(D, s, b, m, ss) ==
  /\ b[0] = 0 /\ b[m] = Len(s) /\ \A i \in 1..m : b[i - 1] <= b[i]
  /\ m = Len(ss)
  /\ \A i \in 1..m : /\ ss[i] \in Seq(D) /\ Len(ss[i]) = b[i] - b[i - 1]
                     /\ \A j \in 1..Len(ss[i]) : ss[i][j] = s[b[i - 1] + j]

\* The pieces of a sequence between boundaries that grow.
LEMMA Pieces ==
  ASSUME NEW D, NEW s \in Seq(D), NEW m \in Nat, NEW b \in [0..m -> 0..Len(s)],
         b[0] = 0, b[m] = Len(s), \A i \in 1..m : b[i - 1] <= b[i],
         NEW ss, ss = Slices(s, b, m)
  PROVE  ss \in Seq(Seq(D)) /\ InPieces(D, s, b, m, ss)
<1>1. Len(s) \in Nat /\ s \in [1..Len(s) -> D] /\ \A i \in 1..m : i \in 0..m /\ i - 1 \in 0..m
  OBVIOUS
<1>2. ASSUME NEW i \in 1..m
      PROVE  /\ b[i] \in 0..Len(s) /\ b[i - 1] \in 0..Len(s) /\ b[i - 1] <= b[i]
             /\ ss[i] \in Seq(D) /\ Len(ss[i]) = b[i] - b[i - 1]
             /\ \A j \in 1..Len(ss[i]) : ss[i][j] = s[b[i - 1] + j]
  <2> DEFINE x == b[i - 1]
             y == b[i]
             t == ss[i]
  <2>1. x \in 0..Len(s) /\ y \in 0..Len(s) /\ x <= y
    BY <1>1
  <2>2. t = SubSeq(s, x + 1, y)
    BY DEF Slices
  <2> HIDE DEF x, y, t
  <2>3. t = [j \in 1..y - x |-> s[x + j]]
    <3>1. t = [j \in 1..y - (x + 1) + 1 |-> s[j + (x + 1) - 1]]
      BY <1>1, <2>1, <2>2
    <3>2. y - (x + 1) + 1 = y - x /\ \A j \in 1..y - x : j + (x + 1) - 1 = x + j
      BY <2>1
    <3>3. QED
      BY <3>1, <3>2
  <2>4. \A j \in 1..y - x : x + j \in 1..Len(s)
    BY <1>1, <2>1
  <2>5. y - x \in Nat /\ t \in [1..y - x -> D]
    BY <1>1, <2>1, <2>3, <2>4
  <2>6. t \in Seq(D) /\ Len(t) = y - x
    BY <2>5, FunctionIsSeq, Zenon
  <2>7. \A j \in 1..Len(t) : t[j] = s[x + j]
    BY <2>3, <2>6
  <2>8. QED
    BY <2>1, <2>6, <2>7 DEF x, y, t
<1>3. ss \in Seq(Seq(D)) /\ Len(ss) = m
  <2>1. DOMAIN ss = 1..m /\ ss = [i \in 1..m |-> ss[i]]
    BY DEF Slices
  <2>2. ss \in [1..m -> Seq(D)]
    BY <1>2, <2>1
  <2>3. QED
    BY <2>2, FunctionIsSeq, Zenon
<1>4. QED
  BY <1>2, <1>3 DEF InPieces

\* Elements of a concatenation.
LEMMA ConcatAt ==
  ASSUME NEW D, NEW p \in Seq(D), NEW q \in Seq(D), NEW j \in 1..Len(p) + Len(q)
  PROVE  (p \o q)[j] = IF j <= Len(p) THEN p[j] ELSE q[j - Len(p)]
BY ConcatProperties

\* What is cut at boundaries that grow, and joined again, is what it was.
LEMMA ChunksJoined ==
  ASSUME NEW D, NEW s \in Seq(D), NEW m \in Nat, NEW b \in [0..m -> 0..Len(s)],
         NEW ss \in Seq(Seq(D)), InPieces(D, s, b, m, ss)
  PROVE  Joined(ss) = s
<1>1. Len(s) \in Nat /\ s \in [1..Len(s) -> D] /\ \A i \in 1..m : i \in 0..m /\ i - 1 \in 0..m
  OBVIOUS
<1>2. ASSUME NEW i \in 1..m
      PROVE  /\ b[i] \in 0..Len(s) /\ b[i - 1] \in 0..Len(s) /\ b[i - 1] <= b[i]
             /\ ss[i] \in Seq(D) /\ Len(ss[i]) = b[i] - b[i - 1]
             /\ \A j \in 1..Len(ss[i]) : ss[i][j] = s[b[i - 1] + j]
  BY <1>1 DEF InPieces
<1>3. m = Len(ss) /\ b[0] = 0 /\ b[m] = Len(s)
  BY DEF InPieces
<1>4. PICK F \in [0..m -> Seq(D)] :
        F[0] = <<>> /\ (\A i \in 1..m : F[i] = F[i - 1] \o ss[i]) /\ Joined(ss) = F[m]
  BY <1>3, JoinedUnfolds, Zenon
<1> DEFINE T == {i \in 0..m : Len(F[i]) = b[i] /\ \A j \in 1..b[i] : F[i][j] = s[j]}
<1>5. 0 \in T
  BY <1>3, <1>4
<1>6. ASSUME NEW i \in 1..m, i - 1 \in T PROVE i \in T
  <2> DEFINE p == F[i - 1]
             q == ss[i]
             r == F[i]
             x == b[i - 1]
             y == b[i]
  <2>1. /\ x \in 0..Len(s) /\ y \in 0..Len(s) /\ x <= y
        /\ q \in Seq(D) /\ Len(q) = y - x /\ \A j \in 1..Len(q) : q[j] = s[x + j]
    BY <1>2
  <2>2. p \in Seq(D) /\ Len(p) = x /\ (\A j \in 1..x : p[j] = s[j]) /\ r = p \o q
    BY <1>1, <1>4, <1>6
  <2>3. i \in 0..m
    OBVIOUS
  <2> HIDE DEF p, q, r, x, y
  <2>4. Len(r) = y
    <3>1. Len(r) = Len(p) + Len(q)
      BY <2>1, <2>2, ConcatProperties, Zenon
    <3>2. QED
      BY <1>1, <2>1, <2>2, <3>1
  <2>5. ASSUME NEW j \in 1..y PROVE r[j] = s[j]
    <3>0. j \in 1..Len(p) + Len(q)
      BY <1>1, <2>1, <2>2
    <3>5. p \in Seq(D) /\ q \in Seq(D)
      BY <2>1, <2>2
    <3>1. (p \o q)[j] = IF j <= Len(p) THEN p[j] ELSE q[j - Len(p)]
      BY <3>0, <3>5, ConcatAt
    <3>2. CASE j <= x
      BY <1>1, <2>1, <2>2, <2>5, <3>1, <3>2
    <3>3. CASE ~(j <= x)
      <4>1. j - x \in 1..Len(q) /\ x + (j - x) = j
        BY <1>1, <2>1, <2>5, <3>3
      <4>2. QED
        BY <2>1, <2>2, <3>1, <3>3, <4>1
    <3>4. QED
      BY <3>2, <3>3
  <2>6. QED
    BY <2>3, <2>4, <2>5 DEF r, y
<1>7. 0..m \subseteq T
  <2> HIDE DEF T
  <2>1. QED
    BY <1>5, <1>6, NumbersUpTo
<1>8. m \in 0..m
  OBVIOUS
<1>9. Joined(ss) = s
  <2> DEFINE r == F[m]
  <2>1. r \in Seq(D) /\ Len(r) = Len(s) /\ \A j \in 1..Len(s) : r[j] = s[j]
    BY <1>3, <1>4, <1>7, <1>8
  <2> HIDE DEF r
  <2>2. r = s
    BY <2>1, SeqEqual
  <2>3. QED
    BY <1>4, <2>2 DEF r
<1>10. QED
  BY <1>9

-----------------------------------------------------------------------------
(* The inductive invariant of a dataset.                                   *)

\* All cases there are, and their ids.
AllCases == UNION {Range(Own(f)) : f \in DOMAIN Content}
AllIds == {c.id : c \in AllCases}

Frames == [file : DOMAIN Content, next : Nat \ {0}, cases : Seq(AllCases)]

DTyped ==
  /\ loading \in {"idle", "loading", "loaded", "cycle", "not_found", "invalid"}
  /\ validating \in BOOLEAN
  /\ stack \in Seq(Frames) /\ (stack # <<>>) = (loading = "loading")
  /\ cases \in Seq(AllCases)
  /\ sampling \in [operation : {"none", "sample", "split"}, selected : Seq(AllIds),
                   provenance : Seq(AllIds)]
  /\ drawn \in Seq(AllIds)

\* Nothing is in a dataset before it is loaded, and in no dataset an id twice if it
\* was validated.
Untouched ==
  /\ loading # "loaded" => cases = <<>> /\ chunks = <<>> /\ sampling = NoSampling
  /\ validating => IsInjective(Ids(cases))

\* L is all that its files include, reached from the root and without a circle, and
\* s has their cases.
Through(L, s) ==
  /\ L \subseteq DOMAIN Content \cap Reached /\ WithIncluded(L) \subseteq L
  /\ \A f \in L : ~Cyclic(f)
  /\ Range(s) = UNION {Range(Own(f)) : f \in L}

\* What a call of load_dataset has been through so far: its includes before the next.
Gathered(s) ==
  \E L \in SUBSET DOMAIN Content :
    /\ Through(L, s.cases)
    /\ \A j \in 1..s.next - 1 :
         j \in DOMAIN Content[s.file].includes /\ Content[s.file].includes[j] \in L

\* The calls under way: each was made for an include of the one before, none for a
\* file that is being loaded.
Calls ==
  /\ \A i \in 1..Len(stack) : /\ stack[i].file \in Referred({root}, i - 1)
                              /\ Gathered(stack[i])
  /\ \A i, j \in 1..Len(stack) : stack[i].file = stack[j].file => i = j
  /\ \A i \in 1..Len(stack) - 1 :
       /\ stack[i].next \in DOMAIN Content[stack[i].file].includes
       /\ Content[stack[i].file].includes[stack[i].next] = stack[i + 1].file

DInv == DTyped /\ Untouched /\ Calls /\ SplitExact

\* Cases of a file are cases.
LEMMA OwnAll ==
  ASSUME NEW f \in DOMAIN Content
  PROVE  Own(f) \in Seq(AllCases)
<1>1. Own(f) \in Seq(Range(Own(f)))
  BY OwnIsSeq
<1>2. Range(Own(f)) \subseteq AllCases
  BY DEF AllCases
<1>3. QED
  BY <1>1, <1>2, SeqMonotonic

\* The ids of a sequence of cases.
LEMMA IdsSeq ==
  ASSUME NEW s \in Seq(AllCases)
  PROVE  /\ Ids(s) \in Seq(AllIds) /\ Len(Ids(s)) = Len(s) /\ DOMAIN Ids(s) = 1..Len(s)
         /\ \A i \in 1..Len(s) : Ids(s)[i] = s[i].id
<1> DEFINE n == Len(s)
<1>1. n \in Nat /\ DOMAIN s = 1..n /\ \A i \in 1..n : s[i] \in AllCases
  OBVIOUS
<1>2. Ids(s) = [i \in 1..n |-> s[i].id]
  BY <1>1 DEF Ids
<1>3. \A i \in 1..n : s[i].id \in AllIds
  BY <1>1 DEF AllIds
<1>4. Ids(s) \in [1..n -> AllIds]
  BY <1>2, <1>3
<1>5. Ids(s) \in Seq(AllIds) /\ Len(Ids(s)) = n /\ DOMAIN Ids(s) = 1..n
  <2> HIDE DEF n
  <2>1. QED
    BY <1>1, <1>4, FunctionIsSeq, Zenon
<1>6. QED
  BY <1>2, <1>5

LEMMA IdsEmpty == Ids(<<>>) = <<>> /\ IsInjective(Ids(<<>>))
<1>1. <<>> \in Seq(AllCases) /\ Len(<<>>) = 0
  OBVIOUS
<1>2. Ids(<<>>) \in Seq(AllIds) /\ Len(Ids(<<>>)) = 0 /\ DOMAIN Ids(<<>>) = 1..0
  BY <1>1, IdsSeq
<1>3. QED
  BY <1>2 DEF IsInjective

\* A function over 1..n.
Listed(t, n) == t = [i \in 1..n |-> t[i]]

\* Some of the cases, each from a place of its own, have different ids if all have.
LEMMA SomeOfThem ==
  ASSUME NEW s \in Seq(AllCases), NEW n \in Nat, NEW at \in [1..n -> 1..Len(s)],
         \A i, j \in 1..n : at[i] = at[j] => i = j,
         NEW t, Listed(t, n), \A i \in 1..n : t[i] = s[at[i]]
  PROVE  t \in Seq(AllCases) /\ Len(t) = n /\ (IsInjective(Ids(s)) => IsInjective(Ids(t)))
<1>1. \A i \in 1..n : at[i] \in 1..Len(s) /\ t[i] \in AllCases
  BY ElementOfSeq
<1>2. t \in [1..n -> AllCases]
  BY <1>1 DEF Listed
<1>3. t \in Seq(AllCases) /\ Len(t) = n
  BY <1>2, FunctionIsSeq
<1>4. ASSUME IsInjective(Ids(s)) PROVE IsInjective(Ids(t))
  <2>1. DOMAIN Ids(t) = 1..n /\ \A i \in 1..n : Ids(t)[i] = t[i].id
    BY <1>3, IdsSeq
  <2>2. DOMAIN Ids(s) = 1..Len(s) /\ \A i \in 1..Len(s) : Ids(s)[i] = s[i].id
    BY IdsSeq
  <2>3. \A i \in 1..n : Ids(t)[i] = Ids(s)[at[i]] /\ at[i] \in DOMAIN Ids(s)
    BY <1>1, <2>1, <2>2
  <2>4. QED
    BY <1>4, <2>1, <2>3 DEF IsInjective
<1>5. QED
  BY <1>3, <1>4

\* The n elements of r come from the places at[1] .. at[n] of s, each from its own.
Taken(r, s, n, at) ==
  /\ Len(r) = n /\ \A j \in 1..n : r[j] = s[at[j]]
  /\ \A i, j \in 1..n : at[i] = at[j] => i = j

LEMMA OnlyPlaces ==
  ASSUME NEW D, NEW s \in Seq(D), NEW K, NEW r, r = Only(s, K)
  PROVE  /\ r \in Seq(D)
         /\ \E n \in Nat : \E at \in [1..n -> 1..Len(s)] : Taken(r, s, n, at)
<1> DEFINE n == Len(r)
<1>1. /\ r \in Seq(D)
      /\ \E at \in [1..n -> 1..Len(s)] :
           /\ \A j \in 1..n : r[j] = s[at[j]] /\ s[at[j]] \in K
           /\ \A j, k \in 1..n : j < k => at[j] < at[k]
           /\ \A i \in 1..Len(s) : s[i] \in K => \E j \in 1..n : at[j] = i
  BY OnlyExact
<1>2. n \in Nat
  BY <1>1
<1> HIDE DEF n
<1>3. PICK at \in [1..n -> 1..Len(s)] :
        /\ \A j \in 1..n : r[j] = s[at[j]]
        /\ \A j, k \in 1..n : j < k => at[j] < at[k]
  BY <1>1
<1>4. \A i, j \in 1..n : at[i] = at[j] => i = j
  <2> SUFFICES ASSUME NEW i \in 1..n, NEW j \in 1..n, i < j PROVE at[i] # at[j]
    BY <1>2
  <2>1. at[i] < at[j] /\ at[i] \in Int /\ at[j] \in Int
    BY <1>3
  <2>2. QED
    BY <2>1
<1>5. Taken(r, s, n, at)
  BY <1>3, <1>4 DEF Taken, n
<1>6. QED
  BY <1>1, <1>2, <1>5

\* A comprehension over the cases.
LEMMA OnlySome ==
  ASSUME NEW s \in Seq(AllCases), NEW K, NEW r, r = Only(s, K)
  PROVE  r \in Seq(AllCases) /\ (IsInjective(Ids(s)) => IsInjective(Ids(r)))
<1> DEFINE D == AllCases
<1>1. s \in Seq(D)
  OBVIOUS
<1> HIDE DEF D
<1>2. r \in Seq(D) /\ \E n \in Nat : \E at \in [1..n -> 1..Len(s)] : Taken(r, s, n, at)
  BY <1>1, OnlyPlaces
<1>3. PICK n \in Nat : \E at \in [1..n -> 1..Len(s)] : Taken(r, s, n, at)
  BY <1>2
<1>4. PICK at \in [1..n -> 1..Len(s)] : Taken(r, s, n, at)
  BY <1>3
<1>5. /\ Listed(r, n) /\ \A i \in 1..n : r[i] = s[at[i]]
      /\ \A i, j \in 1..n : at[i] = at[j] => i = j
  BY <1>2, <1>4 DEF Taken, Listed
<1>6. IsInjective(Ids(s)) => IsInjective(Ids(r))
  BY <1>3, <1>4, <1>5, SomeOfThem, Zenon
<1>7. QED
  BY <1>2, <1>6 DEF D

\* What a call of load_dataset has is at most what there is.
LEMMA Depth ==
  ASSUME DInv, stack # <<>>
  PROVE  /\ Len(stack) \in Nat \ {0} /\ Enough \in Nat /\ Len(stack) <= Enough
         /\ Top \in Frames /\ Top = stack[Len(stack)] /\ stack \in Seq(Frames)
         /\ Top.file \in DOMAIN Content /\ Top.file \in Referred({root}, Len(stack) - 1)
         /\ Gathered(Top)
<1> DEFINE n == Len(stack)
           f == [i \in 1..n |-> stack[i].file]
<1>1. stack \in Seq(Frames) /\ n \in Nat \ {0} /\ Top = stack[n]
  BY DEF DInv, DTyped, Top
<1>2. \A i \in 1..n : stack[i] \in Frames /\ stack[i].file \in DOMAIN Content
  <2> SUFFICES ASSUME NEW i \in 1..n PROVE stack[i] \in Frames /\ stack[i].file \in DOMAIN Content
    OBVIOUS
  <2>1. stack[i] \in Frames
    BY <1>1, ElementOfSeq
  <2>2. QED
    BY <2>1 DEF Frames
<1>3. f \in Injection(1..n, DOMAIN Content)
  <2>1. f \in [1..n -> DOMAIN Content]
    BY <1>2
  <2>2. \A i, j \in 1..n : f[i] = f[j] => i = j
    BY DEF DInv, Calls
  <2>3. QED
    BY <2>1, <2>2 DEF Injection, IsInjective
<1>4. IsFiniteSet(DOMAIN Content)
  BY DatasetsAssumption
<1>5. Cardinality(1..n) = n
  BY <1>1, FS_Interval
<1>6. Cardinality(1..n) <= Cardinality(DOMAIN Content)
  BY <1>3, <1>4, FS_Injection
<1>7. n \in 1..n
  BY <1>1
<1>8. Top.file \in Referred({root}, n - 1) /\ Gathered(Top)
  BY <1>1, <1>7 DEF DInv, Calls
<1>9. Enough \in Nat
  BY <1>4, FS_CardinalityType DEF Enough
<1>10. QED
  BY <1>1, <1>2, <1>5, <1>6, <1>7, <1>8, <1>9 DEF Enough

\* A dataset begins with nothing.
LEMMA InitDInv == DatasetsInit => DInv
<1> SUFFICES ASSUME DatasetsInit PROVE DInv
  OBVIOUS
<1>0. /\ stack = <<>> /\ loading = "idle" /\ validating = TRUE /\ cases = <<>>
      /\ sampling = NoSampling /\ chunks = <<>> /\ drawn = <<>>
  BY DEF DatasetsInit
<1>1. DTyped
  <2>1. /\ <<>> \in Seq(AllIds) /\ <<>> \in Seq(AllCases) /\ <<>> \in Seq(Frames)
    BY EmptySeq
  <2>2. NoSampling \in [operation : {"none", "sample", "split"}, selected : Seq(AllIds),
                        provenance : Seq(AllIds)]
    BY <2>1 DEF NoSampling
  <2>3. QED
    BY <1>0, <2>1, <2>2 DEF DTyped
<1>2. Untouched
  BY <1>0, IdsEmpty DEF Untouched
<1>3. Calls
  <2>1. stack = <<>> /\ 1..Len(stack) = {} /\ 1..Len(stack) - 1 = {}
    BY <1>0
  <2>2. QED
    BY <2>1 DEF Calls
<1>4. SplitExact
  BY <1>0 DEF SplitExact
<1>5. QED
  BY <1>1, <1>2, <1>3, <1>4 DEF DInv

\* A call that begins has been through no file.
LEMMA FrameGathered ==
  ASSUME NEW f \in DOMAIN Content
  PROVE  /\ Frame(f) \in Frames /\ Frame(f).file = f
         /\ Gathered(Frame(f)) /\ (Gathered(Frame(f)))'
<1>1. Frame(f) \in Frames /\ Frame(f).file = f /\ Frame(f).next = 1 /\ Frame(f).cases = <<>>
  BY DEF Frame, Frames
<1>2. WithIncluded({}) = {} /\ Range(<<>>) = {}
  BY DEF WithIncluded, Range
<1>3. UNION {Range(Own(g)) : g \in {}} = {}
  OBVIOUS
<1>4. 1..Frame(f).next - 1 = {}
  BY <1>1
<1>5. Gathered(Frame(f))
  BY <1>1, <1>2, <1>3, <1>4 DEF Gathered, Through
<1>6. (Gathered(Frame(f)))'
  BY <1>1, <1>2, <1>3, <1>4 DEF Gathered, Through
<1>7. QED
  BY <1>1, <1>5, <1>6

LEMMA LoadStep ==
  ASSUME DInv, NEW f \in DOMAIN Content, NEW v \in BOOLEAN, Load(f, v)
  PROVE  DInv'
<1>1. /\ loading = "idle" /\ root' = f /\ validating' = v /\ stack' = <<Frame(f)>>
      /\ loading' = "loading" /\ cases' = cases /\ sampling' = sampling /\ chunks' = chunks
      /\ drawn' = drawn
  BY DEF Load
<1>2. cases = <<>> /\ chunks = <<>> /\ sampling = NoSampling
  BY <1>1 DEF DInv, Untouched
<1>3. stack' \in Seq(Frames) /\ Len(stack') = 1 /\ stack'[1] = Frame(f) /\ stack' # <<>>
  BY <1>1, FrameGathered
<1>4. DTyped'
  BY <1>1, <1>3 DEF DInv, DTyped
<1>5. Untouched'
  BY <1>1, <1>2, IdsEmpty DEF Untouched
<1>6. Calls'
  <2>1. Referred({root'}, 0) = {f}
    BY <1>1, ReferredStep
  <2>2. (Gathered(Frame(f)))'
    BY FrameGathered
  <2>3. \A i \in 1..Len(stack') : i = 1
    BY <1>3
  <2>4. (Gathered(stack[1]))'
    BY <1>3, <2>2
  <2>5. stack'[1].file \in Referred({root'}, 1 - 1)
    BY <1>3, <2>1, FrameGathered
  <2>6. 1..Len(stack') - 1 = {}
    BY <1>3
  <2>7. QED
    BY <2>3, <2>4, <2>5, <2>6 DEF Calls
<1>7. SplitExact'
  BY <1>1, <1>2 DEF SplitExact
<1>8. QED
  BY <1>4, <1>5, <1>6, <1>7 DEF DInv

\* A load that ends leaves nothing under way.
LEMMA LoadEnds ==
  ASSUME DInv, loading = "loading", loading' \in {"cycle", "not_found", "invalid"}, stack' = <<>>,
         UNCHANGED <<request, cases, sampling, chunks, divided, drawn>>
  PROVE  DInv'
<1>0. /\ root' = root /\ validating' = validating /\ cases' = cases /\ sampling' = sampling
      /\ chunks' = chunks /\ drawn' = drawn
  BY DEF request
<1>1. cases = <<>> /\ chunks = <<>> /\ sampling = NoSampling
  BY DEF DInv, Untouched
<1>2. DTyped'
  <2>1. stack' \in Seq(Frames)
    BY EmptySeq
  <2>2. QED
    BY <1>0, <2>1 DEF DInv, DTyped
<1>3. Untouched'
  BY <1>0, <1>1, IdsEmpty DEF Untouched
<1>4. Calls'
  <2>1. 1..Len(stack') = {} /\ 1..Len(stack') - 1 = {}
    OBVIOUS
  <2>2. QED
    BY <2>1 DEF Calls
<1>5. SplitExact'
  BY <1>0, <1>1 DEF SplitExact
<1>6. QED
  BY <1>2, <1>3, <1>4, <1>5 DEF DInv

LEMMA IncludeStep ==
  ASSUME DInv, Include
  PROVE  DInv'
<1> DEFINE n == Len(stack)
           f == Content[Top.file].includes[Top.next]
<1>1. /\ loading = "loading" /\ Top.next <= Len(Content[Top.file].includes)
      /\ UNCHANGED <<request, cases, sampling, chunks, divided, drawn>>
      /\ \/ loading' = "not_found" /\ stack' = <<>>
         \/ loading' = "cycle" /\ stack' = <<>>
         \/ /\ f \in DOMAIN Content \ {s.file : s \in Range(stack)}
            /\ stack' = Append(stack, Frame(f)) /\ loading' = loading
  BY DEF Include
<1>2. CASE loading' \in {"not_found", "cycle"} /\ stack' = <<>>
  BY <1>1, <1>2, LoadEnds
<1>3. CASE /\ f \in DOMAIN Content \ {s.file : s \in Range(stack)}
           /\ stack' = Append(stack, Frame(f)) /\ loading' = loading
  <2>0. stack # <<>>
    BY <1>1 DEF DInv, DTyped
  <2>1. /\ n \in Nat \ {0} /\ Top \in Frames /\ Top = stack[n] /\ stack \in Seq(Frames)
        /\ Top.file \in DOMAIN Content /\ Top.file \in Referred({root}, n - 1)
    BY <2>0, Depth
  <2>2. Top.next \in DOMAIN Content[Top.file].includes
    <3>1. Content[Top.file].includes \in Seq(Range(Content[Top.file].includes))
      BY <2>1, DatasetsAssumption
    <3>2. Top.next \in Nat \ {0}
      BY <2>1 DEF Frames
    <3>3. QED
      BY <1>1, <3>1, <3>2
  <2>3. f \in Referred({root}, n)
    <3>1. n - 1 \in Nat /\ (n - 1) + 1 = n
      BY <2>1
    <3>2. Referred({root}, n) = WithIncluded(Referred({root}, n - 1))
      BY <3>1, ReferredStep
    <3>3. f \in Range(Content[Top.file].includes)
      BY <2>2 DEF Range
    <3>4. QED
      BY <2>1, <3>2, <3>3 DEF WithIncluded
  <2>4. Frame(f) \in Frames /\ Frame(f).file = f /\ Gathered(Frame(f))
    <3>1. f \in DOMAIN Content
      BY <1>3, SMTT(30)
    <3>2. QED
      BY <3>1, FrameGathered
  <2>5. /\ stack' \in Seq(Frames) /\ Len(stack') = n + 1 /\ stack'[n + 1] = Frame(f)
        /\ \A i \in 1..n : stack'[i] = stack[i]
    BY <1>3, <2>1, <2>4, AppendProperties
  <2>6. root' = root /\ validating' = validating /\ cases' = cases /\ sampling' = sampling
        /\ chunks' = chunks /\ divided' = divided /\ drawn' = drawn
    BY <1>1 DEF request
  <2>7. DTyped'
    <3>1. stack' # <<>>
      BY <2>1, <2>5
    <3>2. QED
      BY <1>1, <1>3, <2>5, <2>6, <3>1 DEF DInv, DTyped
  <2>8. Untouched'
    BY <1>1, <1>3, <2>6 DEF DInv, Untouched
  <2>9. Calls'
    <3>0. \A i \in 1..Len(stack') : i \in 1..n \/ i = n + 1
      BY <2>1, <2>5
    <3>1. \A i \in 1..n : stack[i].file # f
      <4>1. \A i \in 1..n : stack[i] \in Range(stack)
        BY <2>1 DEF Range
      <4>2. QED
        BY <1>3, <4>1
    <3>2. ASSUME NEW i \in 1..Len(stack')
          PROVE  stack'[i].file \in Referred({root'}, i - 1) /\ (Gathered(stack[i]))'
      <4>1. CASE i \in 1..n
        <5>1. stack'[i] = stack[i] /\ stack[i].file \in Referred({root}, i - 1) /\ Gathered(stack[i])
          BY <2>5, <4>1 DEF DInv, Calls
        <5>2. (Gathered(stack[i]))'
          BY <2>6, <5>1 DEF Gathered, Through, Reached
        <5>3. QED
          BY <2>6, <5>1, <5>2
      <4>2. CASE i = n + 1
        <5>1. stack'[i] = Frame(f) /\ i - 1 = n
          BY <2>1, <2>5, <4>2
        <5>2. (Gathered(stack[i]))'
          BY <2>4, <2>6, <5>1 DEF Gathered, Through, Reached
        <5>3. QED
          BY <2>3, <2>4, <2>6, <5>1, <5>2
      <4>3. QED
        BY <3>0, <4>1, <4>2
    <3>3. ASSUME NEW i \in 1..Len(stack'), NEW j \in 1..Len(stack'), stack'[i].file = stack'[j].file
          PROVE  i = j
      <4>1. \A k \in 1..n : stack'[k].file # stack'[n + 1].file
        BY <2>4, <2>5, <3>1
      <4>2. ASSUME i \in 1..n, j \in 1..n PROVE i = j
        <5>1. stack[i].file = stack[j].file
          BY <2>5, <3>3, <4>2
        <5>2. QED
          BY <4>2, <5>1 DEF DInv, Calls
      <4>3. QED
        BY <3>0, <3>3, <4>1, <4>2
    <3>4. ASSUME NEW i \in 1..Len(stack') - 1
          PROVE  /\ stack'[i].next \in DOMAIN Content[stack'[i].file].includes
                 /\ Content[stack'[i].file].includes[stack'[i].next] = stack'[i + 1].file
      <4>1. i \in 1..n /\ stack'[i] = stack[i]
        BY <2>1, <2>5
      <4>2. CASE i = n
        <5>1. stack'[i] = Top /\ stack'[i + 1].file = f
          BY <2>1, <2>4, <2>5, <4>1, <4>2
        <5>2. QED
          BY <2>2, <5>1
      <4>3. CASE i # n
        <5>1. i \in 1..n - 1 /\ i + 1 \in 1..n
          BY <2>1, <4>1, <4>3
        <5>2. QED
          BY <2>5, <4>1, <5>1 DEF DInv, Calls
      <4>4. QED
        BY <4>2, <4>3
    <3>5. QED
      BY <3>2, <3>3, <3>4 DEF Calls
  <2>10. SplitExact'
    BY <2>6 DEF DInv, SplitExact
  <2>11. QED
    BY <2>7, <2>8, <2>9, <2>10 DEF DInv
<1>4. QED
  BY <1>1, <1>2, <1>3

\* What a call returns when all includes of its file are done.
Made == Top.cases \o Own(Top.file)

\* It has the cases of its file and of all that the file includes.
LEMMA MadeExact ==
  ASSUME DInv, stack # <<>>, Top.next > Len(Content[Top.file].includes)
  PROVE  /\ Made \in Seq(AllCases)
         /\ \E L \in SUBSET DOMAIN Content : Through(L, Made) /\ Top.file \in L
<1> DEFINE f == Top.file
           includes == Content[f].includes
<1>1. /\ Len(stack) - 1 \in Nat /\ Enough \in Nat /\ Len(stack) - 1 <= Enough /\ Top \in Frames
      /\ f \in DOMAIN Content /\ f \in Referred({root}, Len(stack) - 1) /\ Gathered(Top)
  BY Depth
<1>2. includes \in Seq(Range(includes)) /\ Top.next \in Nat /\ Top.cases \in Seq(AllCases)
  BY <1>1, DatasetsAssumption DEF Frames
<1>3. PICK K \in SUBSET DOMAIN Content :
        /\ Through(K, Top.cases)
        /\ \A j \in 1..Top.next - 1 : j \in DOMAIN includes /\ includes[j] \in K
  BY <1>1 DEF Gathered
<1>4. Range(includes) \subseteq K
  <2>1. DOMAIN includes = 1..Len(includes) /\ Len(includes) \in Nat
    BY <1>2
  <2>2. \A j \in DOMAIN includes : j \in 1..Top.next - 1
    BY <1>2, <2>1
  <2>3. QED
    BY <1>3, <2>2 DEF Range
<1> DEFINE L == K \cup {f}
<1>5. WithIncluded(L) \subseteq L
  BY <1>3, <1>4 DEF Through, WithIncluded
<1>6. f \in Reached
  BY <1>1, ReferredGrows DEF Reached
<1>7. ASSUME f \notin K PROVE ~Cyclic(f)
  <2>1. Referred(Range(includes), Enough) \subseteq K
    BY <1>1, <1>3, <1>4, ReferredClosed DEF Through
  <2>2. QED
    BY <1>7, <2>1 DEF Cyclic
<1>8. /\ Made \in Seq(AllCases)
      /\ Range(Made) = Range(Top.cases) \cup Range(Own(f))
  <2> DEFINE p == Top.cases
             q == Own(f)
  <2>1. p \in Seq(AllCases) /\ q \in Seq(AllCases) /\ Made = p \o q
    BY <1>1, <1>2, OwnAll DEF Made
  <2> HIDE DEF p, q
  <2>2. p \o q \in Seq(AllCases)
    BY <2>1, ConcatProperties, Zenon
  <2>3. Range(p \o q) = Range(p) \cup Range(q)
    BY <2>1, RangeConcatenation, ZenonT(40)
  <2>4. QED
    BY <2>1, <2>2, <2>3 DEF p, q
<1>9. Through(L, Made)
  <2>1. L \subseteq DOMAIN Content \cap Reached
    BY <1>1, <1>3, <1>6 DEF Through
  <2>2. \A g \in L : ~Cyclic(g)
    BY <1>3, <1>7 DEF Through
  <2>3. Range(Top.cases) = UNION {Range(Own(g)) : g \in K}
    BY <1>3 DEF Through
  <2>4. Range(Made) = UNION {Range(Own(g)) : g \in L}
    BY <1>8, <2>3
  <2>5. QED
    BY <1>5, <2>1, <2>2, <2>4 DEF Through
<1>10. QED
  BY <1>1, <1>8, <1>9

\* What two calls have been through.
LEMMA ThroughBoth ==
  ASSUME NEW K, NEW L, NEW p \in Seq(AllCases), NEW q \in Seq(AllCases), Through(K, p), Through(L, q)
  PROVE  p \o q \in Seq(AllCases) /\ Through(K \cup L, p \o q)
<1>1. p \o q \in Seq(AllCases)
  BY ConcatProperties, Zenon
<1>2. Range(p \o q) = Range(p) \cup Range(q)
  BY RangeConcatenation, ZenonT(40)
<1>3. WithIncluded(K \cup L) \subseteq K \cup L
  BY DEF Through, WithIncluded
<1>4. Range(p \o q) = UNION {Range(Own(f)) : f \in K \cup L}
  BY <1>2 DEF Through
<1>5. QED
  BY <1>1, <1>3, <1>4 DEF Through

\* A call returns to the one that made it: what the last call but one has afterwards.
Resumed(frame, all) == [frame EXCEPT !.next = @ + 1, !.cases = @ \o all]

\* The calls after that.
Returned(s, all) ==
  [Front(s) EXCEPT ![Len(Front(s))].next = @ + 1, ![Len(Front(s))].cases = @ \o all]

LEMMA Popped ==
  ASSUME NEW n \in Nat, n > 1, NEW s \in Seq(Frames), Len(s) = n, NEW all \in Seq(AllCases),
         NEW t, t = Returned(s, all)
  PROVE  /\ t \in Seq(Frames) /\ Len(t) = n - 1
         /\ \A i \in 1..n - 2 : t[i] = s[i]
         /\ t[n - 1] = Resumed(s[n - 1], all) /\ s[n - 1] \in Frames
<1> DEFINE m == n - 1
           u == Front(s)
<1>1. m \in Nat \ {0} /\ m \in 1..m /\ 1..n - 2 = 1..m \ {m} /\ m \in 1..n /\ 1..m \subseteq 1..n
  OBVIOUS
<1>2. u \in Seq(Frames) /\ Len(u) = m /\ \A i \in 1..m : u[i] = s[i]
  BY <1>1 DEF Front
<1>3. \A i \in 1..m : u[i] \in Frames
  BY <1>2, ElementOfSeq
<1> HIDE DEF m, u
<1>4. u \in [1..m -> Frames]
  BY <1>2, <1>3
<1>5. t = [u EXCEPT ![m] = Resumed(u[m], all)]
  BY <1>1, <1>2, <1>3, <1>4 DEF Resumed, Returned, u, Frames
<1>6. Resumed(u[m], all) \in Frames
  <2>1. u[m].cases \in Seq(AllCases) /\ u[m].next \in Nat \ {0} /\ u[m].file \in DOMAIN Content
    BY <1>1, <1>3 DEF Frames
  <2>2. u[m].cases \o all \in Seq(AllCases)
    BY <2>1, ConcatProperties, Zenon
  <2> DEFINE x == u[m]
  <2>3. x \in Frames /\ x.cases \o all \in Seq(AllCases) /\ x.next + 1 \in Nat \ {0}
    BY <1>1, <1>3, <2>1, <2>2
  <2> HIDE DEF x
  <2>4. [x EXCEPT !.next = @ + 1, !.cases = @ \o all] \in Frames
    BY <2>3 DEF Frames
  <2>5. QED
    BY <2>4 DEF Resumed, x
<1>7. /\ t \in [1..m -> Frames] /\ \A i \in 1..m \ {m} : t[i] = u[i]
      /\ t[m] = Resumed(u[m], all)
  BY <1>1, <1>4, <1>5, <1>6
<1>8. t \in Seq(Frames) /\ Len(t) = m
  <2>1. m \in Nat /\ t \in [1..m -> Frames]
    BY <1>1, <1>7
  <2>2. QED
    BY <2>1, FunctionIsSeq, Zenon
<1>9. QED
  BY <1>1, <1>2, <1>3, <1>7, <1>8 DEF m

\* A call goes on with what one of its includes returned.
LEMMA ResumedGathered ==
  ASSUME NEW x \in Frames, NEW all \in Seq(AllCases), Gathered(x),
         x.next \in DOMAIN Content[x.file].includes,
         NEW L \in SUBSET DOMAIN Content, Through(L, all), Content[x.file].includes[x.next] \in L
  PROVE  Gathered(Resumed(x, all))
<1> DEFINE y == Resumed(x, all)
<1>1. x.next \in Nat \ {0} /\ x.cases \in Seq(AllCases)
  BY DEF Frames
<1>2. y.file = x.file /\ y.next = x.next + 1 /\ y.cases = x.cases \o all
  BY DEF Resumed, Frames
<1>3. PICK K \in SUBSET DOMAIN Content :
        /\ Through(K, x.cases)
        /\ \A j \in 1..x.next - 1 :
             j \in DOMAIN Content[x.file].includes /\ Content[x.file].includes[j] \in K
  BY DEF Gathered
<1> HIDE DEF y
<1>4. Through(K \cup L, y.cases)
  BY <1>1, <1>2, <1>3, ThroughBoth
<1>5. ASSUME NEW j \in 1..y.next - 1
      PROVE  /\ j \in DOMAIN Content[y.file].includes
             /\ Content[y.file].includes[j] \in K \cup L
  <2>1. j \in 1..x.next - 1 \/ j = x.next
    BY <1>1, <1>2, SMTT(30)
  <2>2. QED
    BY <1>2, <1>3, <2>1
<1>6. QED
  BY <1>4, <1>5 DEF Gathered, y

LEMMA AssembleStep ==
  ASSUME DInv, Assemble
  PROVE  DInv'
<1> DEFINE n == Len(stack)
           good == /\ \A c \in Range(Made) : c.flaw # "unknown_parameter"
                   /\ validating => Valid(Made)
<1>1. /\ loading = "loading" /\ Top.next > Len(Content[Top.file].includes)
      /\ root' = root /\ validating' = validating /\ sampling' = sampling /\ chunks' = chunks
      /\ divided' = divided /\ drawn' = drawn
      /\ \/ loading' = "invalid" /\ stack' = <<>> /\ cases' = cases
         \/ good /\ n = 1 /\ loading' = "loaded" /\ stack' = <<>> /\ cases' = Made
         \/ /\ good /\ n > 1 /\ loading' = loading /\ cases' = cases
            /\ stack' = Returned(stack, Made)
  BY DEF Assemble, Made, Returned, request
<1> HIDE DEF good
<1>2. stack # <<>>
  BY <1>1 DEF DInv, DTyped
<1>3. Made \in Seq(AllCases) /\ \E L \in SUBSET DOMAIN Content : Through(L, Made) /\ Top.file \in L
  BY <1>1, <1>2, MadeExact
<1>4. n \in Nat \ {0} /\ stack \in Seq(Frames) /\ Top = stack[n]
  BY <1>2, Depth
<1>5. SplitExact' /\ Untouched'
  <2>1. chunks = <<>> /\ sampling = NoSampling /\ cases = <<>>
    BY <1>1 DEF DInv, Untouched
  <2>2. validating /\ cases' = Made => IsInjective(Ids(Made)) \/ cases' = <<>>
    BY <1>1, <2>1 DEF good, Valid
  <2>3. SplitExact'
    BY <1>1, <2>1 DEF SplitExact
  <2>4. Untouched'
    BY <1>1, <2>1, <2>2, IdsEmpty DEF Untouched
  <2>5. QED
    BY <2>3, <2>4
<1>6. CASE loading' = "invalid" /\ stack' = <<>> /\ cases' = cases
  BY <1>1, <1>6, LoadEnds DEF request
<1>7. CASE good /\ n = 1 /\ loading' = "loaded" /\ stack' = <<>> /\ cases' = Made
  <2>1. DTyped'
    <3>1. stack' \in Seq(Frames)
      BY <1>7, EmptySeq
    <3>2. QED
      BY <1>1, <1>3, <1>7, <3>1 DEF DInv, DTyped
  <2>2. Calls'
    <3>1. 1..Len(stack') = {} /\ 1..Len(stack') - 1 = {}
      BY <1>7
    <3>2. QED
      BY <3>1 DEF Calls
  <2>3. QED
    BY <1>5, <2>1, <2>2 DEF DInv
<1>8. CASE /\ good /\ n > 1 /\ loading' = loading /\ cases' = cases
           /\ stack' = Returned(stack, Made)
  <2>1. /\ stack' \in Seq(Frames) /\ Len(stack') = n - 1
        /\ \A i \in 1..n - 2 : stack'[i] = stack[i]
        /\ stack'[n - 1] = Resumed(stack[n - 1], Made) /\ stack[n - 1] \in Frames
    <3> HIDE DEF n
    <3>1. /\ n \in Nat /\ n > 1 /\ stack \in Seq(Frames) /\ Made \in Seq(AllCases)
          /\ stack' = Returned(stack, Made)
      BY <1>3, <1>4, <1>8
    <3>2. Len(stack) = n
      BY DEF n
    <3>3. QED
      BY <3>1, <3>2, Popped
  <2>2. DTyped'
    <3>1. stack' # <<>>
      BY <1>4, <1>8, <2>1
    <3>2. QED
      BY <1>1, <1>8, <2>1, <3>1 DEF DInv, DTyped
  <2>3. /\ n - 1 \in 1..n /\ (n - 1) + 1 = n /\ n - 1 \in 1..Len(stack) - 1
        /\ \A i \in 1..n - 1 : i \in 1..n /\ (i \in 1..n - 2 \/ i = n - 1)
        /\ \A i \in 1..n - 2 : i + 1 \in 1..n - 1 /\ i \in 1..Len(stack) - 1
        /\ (n - 1) - 1 = n - 2
    BY <1>4, <1>8
  <2>4. Gathered(stack'[n - 1])
    <3> DEFINE x == stack[n - 1]
    <3>1. /\ x.next \in DOMAIN Content[x.file].includes
          /\ Content[x.file].includes[x.next] = Top.file
      BY <1>4, <2>3 DEF DInv, Calls
    <3>2. Gathered(x) /\ x \in Frames
      BY <2>1, <2>3 DEF DInv, Calls
    <3> HIDE DEF x
    <3>3. Gathered(Resumed(x, Made))
      BY <1>3, <3>1, <3>2, ResumedGathered
    <3>4. QED
      BY <2>1, <3>3 DEF x
  <2>5. /\ stack'[n - 1].file = stack[n - 1].file
        /\ \A i \in 1..n - 1 : stack'[i].file = stack[i].file
    <3>1. stack'[n - 1].file = stack[n - 1].file
      BY <2>1 DEF Resumed, Frames
    <3>2. QED
      BY <2>1, <2>3, <3>1
  <2>6. Calls'
    <3>1. ASSUME NEW i \in 1..Len(stack')
          PROVE  stack'[i].file \in Referred({root'}, i - 1) /\ (Gathered(stack[i]))'
      <4>1. i \in 1..n /\ stack'[i].file = stack[i].file
        BY <2>1, <2>3, <2>5
      <4>2. stack[i].file \in Referred({root}, i - 1) /\ Gathered(stack[i])
        BY <4>1 DEF DInv, Calls
      <4>3. Gathered(stack'[i])
        <5>1. i \in 1..n - 2 \/ i = n - 1
          BY <2>1, <2>3
        <5>2. QED
          BY <2>1, <2>4, <4>2, <5>1
      <4>4. (Gathered(stack[i]))'
        BY <1>1, <4>3 DEF Gathered, Through, Reached
      <4>5. QED
        BY <1>1, <4>1, <4>2, <4>4
    <3>2. ASSUME NEW i \in 1..Len(stack'), NEW j \in 1..Len(stack'), stack'[i].file = stack'[j].file
          PROVE  i = j
      <4>1. i \in 1..n /\ j \in 1..n /\ stack[i].file = stack[j].file
        BY <2>1, <2>3, <2>5, <3>2
      <4>2. QED
        BY <4>1 DEF DInv, Calls
    <3>3. ASSUME NEW i \in 1..Len(stack') - 1
          PROVE  /\ stack'[i].next \in DOMAIN Content[stack'[i].file].includes
                 /\ Content[stack'[i].file].includes[stack'[i].next] = stack'[i + 1].file
      <4>1. i \in 1..n - 2
        BY <2>1, <2>3
      <4>2. stack'[i] = stack[i] /\ stack'[i + 1].file = stack[i + 1].file
        BY <2>1, <2>3, <2>5, <4>1
      <4>3. QED
        BY <2>3, <4>1, <4>2 DEF DInv, Calls
    <3>4. QED
      BY <3>1, <3>2, <3>3 DEF Calls
  <2>7. QED
    BY <1>5, <2>2, <2>6 DEF DInv
<1>9. QED
  BY <1>1, <1>6, <1>7, <1>8, SMTT(30)

\* The two halves of SplitExact: what a split returned, and what a dataset tells.
SplitFair ==
  chunks # <<>> =>
    LET all    == Joined(chunks)
        whole  == divided.cases
        ratios == divided.ratios
    IN
    /\ \A c \in Range(all) \cup Range(whole) : Times(c, all) = Times(c, whole)
    /\ Len(chunks) = Len(ratios)
    /\ \A i \in DOMAIN ratios :
         LET d == Len(chunks[i]) * Total(ratios) - Len(whole) * ratios[i] IN
         /\ -Total(ratios) <= d /\ d <= Total(ratios)
         /\ ratios[i] = 0 => chunks[i] = <<>>

SelectionNoted ==
  sampling # NoSampling =>
    /\ sampling.selected = Ids(cases)
    /\ drawn = IF sampling.provenance = <<>> THEN sampling.selected ELSE sampling.provenance

LEMMA SplitHalves == (SplitExact <=> SplitFair /\ SelectionNoted)
                       /\ (SplitExact <=> SplitFair /\ SelectionNoted)'
BY DEF SplitExact, SplitFair, SelectionNoted

\* A loaded dataset that gets other cases, out of those it had.
LEMMA LoadedStep ==
  ASSUME DInv, loading = "loaded", UNCHANGED <<stack, loading, request>>,
         cases' \in Seq(AllCases), IsInjective(Ids(cases)) => IsInjective(Ids(cases')),
         sampling' \in [operation : {"none", "sample", "split"}, selected : Seq(AllIds),
                        provenance : Seq(AllIds)],
         drawn' \in Seq(AllIds), SplitFair', SelectionNoted'
  PROVE  DInv'
<1>1. stack' = stack /\ loading' = loading /\ root' = root /\ validating' = validating
  BY DEF request
<1>2. DTyped'
  BY <1>1 DEF DInv, DTyped
<1>3. Untouched'
  BY <1>1 DEF DInv, Untouched
<1>4. Calls'
  <2>1. stack' = <<>> /\ 1..Len(stack') = {} /\ 1..Len(stack') - 1 = {}
    BY <1>1 DEF DInv, DTyped
  <2>2. QED
    BY <2>1 DEF Calls
<1>5. QED
  BY <1>2, <1>3, <1>4, SplitHalves DEF DInv

\* There is nothing to take from nothing.
LEMMA OnlyOfNothing ==
  ASSUME NEW s \in Seq(AllCases), Ids(s) = <<>>, NEW K
  PROVE  Ids(Only(s, K)) = <<>>
<1> DEFINE r == Only(s, K)
           D == AllCases
           n == Len(r)
<1>0. s \in Seq(D) /\ r = Only(s, K)
  OBVIOUS
<1> HIDE DEF r
<1>1. Len(s) = 0
  BY IdsSeq
<1>2. r \in Seq(D) /\ \E at \in [1..n -> 1..Len(s)] : TRUE
  <2> HIDE DEF D
  <2>1. QED
    BY <1>0, OnlyExact
<1>3. n = 0
  <2>1. n \in Nat /\ 1..Len(s) = {}
    BY <1>1, <1>2
  <2>2. PICK at \in [1..n -> 1..Len(s)] : TRUE
    BY <1>2
  <2>3. \A i \in 1..n : at[i] \in {}
    BY <2>1, <2>2
  <2>4. QED
    BY <2>1, <2>3
<1>4. r = <<>>
  BY <1>2, <1>3
<1>5. QED
  BY <1>4, IdsEmpty DEF r

LEMMA FilterStep ==
  ASSUME DInv, NEW include, NEW exclude, NEW ids, Filter(include, exclude, ids)
  PROVE  DInv'
<1>1. /\ loading = "loaded" /\ UNCHANGED <<stack, loading, request>> /\ chunks' = chunks
      /\ divided' = divided /\ drawn' = drawn
      /\ sampling' = IF sampling = NoSampling THEN NoSampling
                     ELSE [sampling EXCEPT !.selected = Ids(cases'),
                             !.provenance = IF @ = <<>> THEN sampling.selected ELSE @]
  BY DEF Filter
<1>2. PICK K : cases' = Only(cases, K)
  BY DEF Filter, Matching
<1>3. /\ cases \in Seq(AllCases) /\ drawn \in Seq(AllIds)
      /\ sampling \in [operation : {"none", "sample", "split"}, selected : Seq(AllIds),
                       provenance : Seq(AllIds)]
      /\ SplitFair /\ SelectionNoted
  BY SplitHalves DEF DInv, DTyped
<1>4. cases' \in Seq(AllCases) /\ (IsInjective(Ids(cases)) => IsInjective(Ids(cases')))
  BY <1>2, <1>3, OnlySome
<1>5. Ids(cases) = <<>> => Ids(cases') = <<>>
  BY <1>2, <1>3, OnlyOfNothing
<1>6. Ids(cases') \in Seq(AllIds)
  BY <1>4, IdsSeq
<1>7. sampling' \in [operation : {"none", "sample", "split"}, selected : Seq(AllIds),
                     provenance : Seq(AllIds)]
  BY <1>1, <1>3, <1>6
<1>8. SplitFair'
  BY <1>1, <1>3 DEF SplitFair
<1>9. SelectionNoted'
  <2>1. CASE sampling = NoSampling
    BY <1>1, <2>1 DEF SelectionNoted
  <2>2. CASE sampling # NoSampling
    <3>1. /\ sampling'.selected = Ids(cases')
          /\ sampling'.provenance = IF sampling.provenance = <<>> THEN sampling.selected
                                    ELSE sampling.provenance
      BY <1>1, <1>3, <2>2
    <3>2. sampling.selected = Ids(cases) /\ drawn = sampling'.provenance
      BY <1>3, <2>2, <3>1 DEF SelectionNoted
    <3>3. sampling'.provenance = <<>> => sampling.selected = <<>> \/ sampling.provenance # <<>>
      BY <3>1
    <3>4. sampling'.provenance = <<>> => drawn' = sampling'.selected
      BY <1>1, <1>5, <3>1, <3>2
    <3>5. QED
      BY <1>1, <3>1, <3>2, <3>4 DEF SelectionNoted
  <2>3. QED
    BY <2>1, <2>2
<1>10. QED
  BY <1>1, <1>3, <1>4, <1>7, <1>8, <1>9, LoadedStep

\* The numbers 1..m, one after the other.
Numbered(m) == [i \in 1..m |-> i]

\* Different places, in their order.
LEMMA OnlyNumbers ==
  ASSUME NEW m \in Nat, NEW I
  PROVE  \E n \in Nat : /\ Only(Numbered(m), I) \in [1..n -> 1..m]
                        /\ \A i, j \in 1..n : Only(Numbered(m), I)[i] = Only(Numbered(m), I)[j] => i = j
<1> DEFINE N == Numbered(m)
           D == 1..m
           r == Only(N, I)
<1>1. N \in Seq(D) /\ Len(N) = m /\ \A i \in 1..m : N[i] = i
  <2>1. N \in [1..m -> D] /\ \A i \in 1..m : N[i] = i
    BY DEF Numbered
  <2> HIDE DEF N, D
  <2>2. QED
    BY <2>1, FunctionIsSeq, Zenon
<1> HIDE DEF N, D
<1> HIDE DEF r
<1>2. r \in Seq(D) /\ \E n \in Nat : \E at \in [1..n -> 1..Len(N)] : Taken(r, N, n, at)
  <2>1. N \in Seq(D) /\ r = Only(N, I)
    BY <1>1 DEF r
  <2>2. QED
    BY <2>1, OnlyPlaces
<1>3. PICK n \in Nat : \E at \in [1..n -> 1..Len(N)] : Taken(r, N, n, at)
  BY <1>2
<1>8. PICK at \in [1..n -> 1..Len(N)] :
        /\ Len(r) = n
        /\ \A j \in 1..n : r[j] = N[at[j]]
        /\ \A i, j \in 1..n : at[i] = at[j] => i = j
  BY <1>3 DEF Taken
<1>4. \A j \in 1..n : at[j] \in 1..m /\ r[j] = at[j]
  BY <1>1, <1>8
<1>5. r \in [1..n -> 1..m]
  BY <1>2, <1>8 DEF D
<1>6. \A i, j \in 1..n : r[i] = r[j] => i = j
  BY <1>8, <1>4
<1>7. QED
  BY <1>5, <1>6 DEF r, N

LEMMA SampleStep ==
  ASSUME DInv, NEW I \in SUBSET DOMAIN cases, Sample(I)
  PROVE  DInv'
<1> DEFINE at == Only(Numbered(Len(cases)), I)
<1>2. cases \in Seq(AllCases) /\ SplitFair
  BY SplitHalves DEF DInv, DTyped
<1>3. Len(cases) \in Nat /\ DOMAIN cases = 1..Len(cases)
  BY <1>2
<1>4. [i \in DOMAIN cases |-> i] = Numbered(Len(cases))
  BY <1>3 DEF Numbered
<1>1. /\ loading = "loaded" /\ UNCHANGED <<stack, loading, request>> /\ chunks' = chunks
      /\ cases' = [i \in DOMAIN at |-> cases[at[i]]] /\ drawn' = Ids(cases')
      /\ divided' = divided
      /\ sampling' = [operation |-> "sample", selected |-> Ids(cases'), provenance |-> <<>>]
  BY <1>4 DEF Sample
<1>5. PICK n \in Nat : /\ at \in [1..n -> 1..Len(cases)]
                       /\ \A i, j \in 1..n : at[i] = at[j] => i = j
  BY <1>3, OnlyNumbers
<1> HIDE DEF at
<1>7. Listed(cases', n) /\ \A i \in 1..n : cases'[i] = cases[at[i]]
  BY <1>1, <1>5 DEF Listed
<1>8. cases' \in Seq(AllCases) /\ (IsInjective(Ids(cases)) => IsInjective(Ids(cases')))
  BY <1>2, <1>5, <1>7, SomeOfThem, Zenon
<1>9. Ids(cases') \in Seq(AllIds) /\ <<>> \in Seq(AllIds)
  BY <1>8, IdsSeq, EmptySeq
<1>10. sampling' \in [operation : {"none", "sample", "split"}, selected : Seq(AllIds),
                      provenance : Seq(AllIds)]
  BY <1>1, <1>9
<1>11. SplitFair'
  BY <1>1, <1>2 DEF SplitFair
<1>12. SelectionNoted'
  BY <1>1 DEF SelectionNoted
<1>13. QED
  BY <1>1, <1>8, <1>9, <1>10, <1>11, <1>12, LoadedStep

\* The boundaries of a split.
Boundaries(ratios, n) == [i \in 0..Len(ratios) |-> Boundary(ratios, i, n)]

\* They are within the dataset.
LEMMA BoundariesWithin ==
  ASSUME NEW ratios \in Seq(Nat), Total(ratios) > 0, NEW n \in Nat
  PROVE  Boundaries(ratios, n) \in [0..Len(ratios) -> 0..n]
<1> DEFINE m == Len(ratios)
           B(i) == Boundary(ratios, i, n)
           T == {j \in 0..m : B(m - j) <= n}
<1>1. m \in Nat /\ B(m) = n /\ \A i \in 0..m : B(i) \in Nat
  BY BoundariesExact
<1>2. \A i \in 1..m : B(i - 1) <= B(i)
  BY BoundariesExact
<1> HIDE DEF B, m
<1>3. 0 \in T
  BY <1>1
<1>4. ASSUME NEW j \in 1..m, j - 1 \in T PROVE j \in T
  <2>1. /\ m - (j - 1) \in 1..m /\ (m - (j - 1)) - 1 = m - j /\ m - j \in 0..m /\ j \in 0..m
        /\ m - (j - 1) \in 0..m
    BY <1>1
  <2>2. B(m - j) <= B(m - (j - 1)) /\ B(m - (j - 1)) <= n
    BY <1>2, <1>4, <2>1
  <2>3. QED
    BY <1>1, <2>1, <2>2
<1>5. 0..m \subseteq T
  <2> HIDE DEF T
  <2>1. QED
    BY <1>1, <1>3, <1>4, NumbersUpTo
<1>6. ASSUME NEW i \in 0..m PROVE B(i) \in 0..n
  <2>1. m - i \in 0..m /\ m - (m - i) = i
    BY <1>1
  <2>2. B(i) <= n
    BY <1>5, <2>1
  <2>3. QED
    BY <1>1, <2>2
<1>7. QED
  BY <1>6 DEF Boundaries, B, m

\* A shuffled dataset.
LEMMA Shuffled ==
  ASSUME NEW s \in Seq(AllCases), NEW order \in SetToSeqs(DOMAIN s),
         NEW t, Listed(t, Len(s)), \A i \in 1..Len(s) : t[i] = s[order[i]]
  PROVE  /\ t \in Seq(AllCases) /\ Len(t) = Len(s) /\ (IsInjective(Ids(s)) => IsInjective(Ids(t)))
         /\ \A c : Times(c, t) = Times(c, s)
<1> DEFINE n == Len(s)
<1>1. n \in Nat /\ DOMAIN s = 1..n /\ Cardinality(1..n) = n
  <2>1. n \in Nat /\ DOMAIN s = 1..n
    OBVIOUS
  <2> HIDE DEF n
  <2>2. n \in Int /\ 1 \in Int /\ (IF 1 > n THEN 0 ELSE n - 1 + 1) = n
    BY <2>1
  <2>3. QED
    BY <2>1, <2>2, FS_Interval
<1>2. order \in [1..n -> 1..n] /\ \A i, j \in 1..n : order[i] = order[j] => i = j
  BY <1>1 DEF SetToSeqs, IsInjective
<1>3. Listed(t, n) /\ \A i \in 1..n : t[i] = s[order[i]]
  OBVIOUS
<1> HIDE DEF n
<1>7. order \in Surjection(1..n, 1..n)
  <2>1. order \in Injection(1..n, 1..n)
    BY <1>2 DEF Injection, IsInjective
  <2>2. IsFiniteSet(1..n)
    BY <1>1, FS_Interval
  <2>3. QED
    BY <2>1, <2>2, FS_Injection
<1>8. ASSUME NEW c PROVE Times(c, t) = Times(c, s)
  <2> DEFINE A == {i \in DOMAIN t : t[i] = c}
             B == {i \in DOMAIN s : s[i] = c}
             f == [i \in A |-> order[i]]
  <2>0. DOMAIN t = 1..n
    BY <1>3 DEF Listed
  <2>1. ASSUME NEW i \in A PROVE f[i] \in B /\ i \in 1..n
    BY <1>1, <1>2, <1>3, <2>0
  <2>2. ASSUME NEW i \in A, NEW j \in A, f[i] = f[j] PROVE i = j
    BY <1>2, <2>0, <2>2
  <2>3. ASSUME NEW k \in B PROVE \E i \in A : f[i] = k
    <3>1. PICK i \in 1..n : order[i] = k
      BY <1>1, <1>7 DEF Surjection
    <3>2. t[i] = c
      BY <1>3, <3>1
    <3>3. QED
      BY <2>0, <3>1, <3>2
  <2>4. IsFiniteSet(A)
    <3>1. IsFiniteSet(1..n)
      BY <1>1, FS_Interval
    <3>2. A \subseteq 1..n
      BY <2>0
    <3> HIDE DEF A
    <3>3. QED
      BY <3>1, <3>2, FS_Subset
  <2>5. DOMAIN f = A /\ f = [i \in A |-> f[i]]
    OBVIOUS
  <2>6. Times(c, t) = Cardinality(A) /\ Times(c, s) = Cardinality(B)
    BY DEF Times
  <2> HIDE DEF f, A, B
  <2>7. f \in [A -> B]
    BY <2>1, <2>5
  <2>8. f \in Bijection(A, B)
    BY <2>2, <2>3, <2>7 DEF Bijection, Injection, Surjection, IsInjective
  <2>9. QED
    BY <2>4, <2>6, <2>8, FS_Bijection DEF ExistsBijection
<1>4. s \in Seq(AllCases) /\ n \in Nat /\ order \in [1..n -> 1..Len(s)]
  BY <1>1, <1>2 DEF n
<1>5. t \in Seq(AllCases) /\ Len(t) = n /\ (IsInjective(Ids(s)) => IsInjective(Ids(t)))
  <2>1. \A i, j \in 1..n : order[i] = order[j] => i = j
    BY <1>2
  <2>2. QED
    BY <1>3, <1>4, <2>1, SomeOfThem, Zenon
<1>6. QED
  BY <1>5, <1>8 DEF n

\* What is left and what was drawn, after a split into chunks.
LEMMA SplitStep ==
  ASSUME DInv, NEW ratios \in Ratios, NEW order \in SetToSeqs(DOMAIN cases),
         NEW k \in DOMAIN ratios, Split(ratios, order, k)
  PROVE  DInv'
<1> DEFINE n == Len(cases)
           m == Len(ratios)
           s == [i \in DOMAIN cases |-> cases[order[i]]]
           b == Boundaries(ratios, n)
           D == AllCases
<1>1. /\ loading = "loaded" /\ Total(ratios) > 0 /\ UNCHANGED <<stack, loading, request>>
      /\ chunks' = [i \in DOMAIN ratios |->
           SubSeq(s, Boundary(ratios, i - 1, n) + 1, Boundary(ratios, i, n))]
      /\ cases' = chunks'[k] /\ drawn' = Ids(cases')
      /\ divided' = [cases |-> cases, ratios |-> ratios]
      /\ sampling' = [operation |-> "split", selected |-> Ids(cases'), provenance |-> <<>>]
  BY DEF Split
<1>2. /\ cases \in Seq(D) /\ n \in Nat /\ DOMAIN cases = 1..n
      /\ ratios \in Seq(Nat) /\ m \in Nat /\ DOMAIN ratios = 1..m
  <2>1. cases \in Seq(D)
    BY DEF DInv, DTyped
  <2>2. ratios \in Seq(Nat)
    BY DatasetsAssumption
  <2>3. QED
    BY <2>1, <2>2
<1>3. /\ s \in Seq(D) /\ Len(s) = n /\ (IsInjective(Ids(cases)) => IsInjective(Ids(s)))
      /\ \A c : Times(c, s) = Times(c, cases)
  <2>1. Listed(s, Len(cases)) /\ \A i \in 1..Len(cases) : s[i] = cases[order[i]]
    BY <1>2 DEF Listed
  <2> HIDE DEF s
  <2>2. QED
    BY <1>2, <2>1, Shuffled
<1>4. /\ b \in [0..m -> 0..n] /\ b[0] = 0 /\ b[m] = n /\ \A i \in 1..m : b[i - 1] <= b[i]
      /\ \A i \in 1..m : LET d == (b[i] - b[i - 1]) * Total(ratios) - n * ratios[i] IN
           /\ -Total(ratios) <= d /\ d <= Total(ratios)
           /\ ratios[i] = 0 => b[i] - b[i - 1] = 0
  <2>1. b \in [0..m -> 0..n]
    BY <1>1, <1>2, BoundariesWithin
  <2>2. \A i \in 0..m : b[i] = Boundary(ratios, i, n)
    BY DEF Boundaries
  <2>3. 0 \in 0..m /\ m \in 0..m /\ \A i \in 1..m : i \in 0..m /\ i - 1 \in 0..m
    BY <1>2
  <2> HIDE DEF b, m, n
  <2>4. \A i \in 1..m :
          /\ b[i] = Boundary(ratios, i, n) /\ b[i - 1] = Boundary(ratios, i - 1, n)
    BY <2>2, <2>3
  <2>5. /\ Boundary(ratios, 0, n) = 0 /\ Boundary(ratios, m, n) = n
        /\ \A i \in 1..m :
             LET c == Boundary(ratios, i, n) - Boundary(ratios, i - 1, n)
                 d == c * Total(ratios) - n * ratios[i]
             IN
             /\ Boundary(ratios, i - 1, n) <= Boundary(ratios, i, n)
             /\ -Total(ratios) <= d /\ d <= Total(ratios)
             /\ ratios[i] = 0 => c = 0
    BY <1>1, <1>2, BoundariesExact DEF m
  <2>6. QED
    BY <2>1, <2>2, <2>3, <2>4, <2>5
<1>5. chunks' = Slices(s, b, m)
  <2>1. \A i \in 1..m : i \in 0..m /\ i - 1 \in 0..m
    BY <1>2
  <2>2. \A i \in 1..m : b[i] = Boundary(ratios, i, n) /\ b[i - 1] = Boundary(ratios, i - 1, n)
    BY <2>1 DEF Boundaries
  <2> HIDE DEF b, m, n, s
  <2>3. QED
    BY <1>1, <1>2, <2>2 DEF Slices
<1> HIDE DEF b, m, s, n, D
<1>6. /\ chunks' \in Seq(Seq(D)) /\ Len(chunks') = m
      /\ \A i \in 1..m : /\ chunks'[i] \in Seq(D) /\ Len(chunks'[i]) = b[i] - b[i - 1]
                         /\ \A j \in 1..Len(chunks'[i]) : chunks'[i][j] = s[b[i - 1] + j]
  <2>1. /\ s \in Seq(D) /\ m \in Nat /\ b \in [0..m -> 0..Len(s)] /\ b[0] = 0 /\ b[m] = Len(s)
        /\ (\A i \in 1..m : b[i - 1] <= b[i]) /\ chunks' = Slices(s, b, m)
    BY <1>2, <1>3, <1>4, <1>5
  <2>2. chunks' \in Seq(Seq(D)) /\ InPieces(D, s, b, m, chunks')
    BY <2>1, Pieces
  <2>3. QED
    BY <2>2 DEF InPieces
<1>7. Joined(chunks') = s
  <2>1. InPieces(D, s, b, m, chunks')
    BY <1>3, <1>4, <1>6 DEF InPieces
  <2>2. s \in Seq(D) /\ m \in Nat /\ b \in [0..m -> 0..Len(s)] /\ chunks' \in Seq(Seq(D))
    BY <1>2, <1>3, <1>4, <1>6
  <2>3. QED
    BY <2>1, <2>2, ChunksJoined
<1>8. SplitFair'
  <2>1. \A c : Times(c, Joined(chunks')) = Times(c, cases)
    BY <1>3, <1>7
  <2>2. /\ divided'.cases = cases /\ divided'.ratios = ratios /\ Len(chunks') = Len(ratios)
        /\ Len(cases) = n
    BY <1>1, <1>6 DEF m, n
  <2>3. ASSUME NEW i \in DOMAIN ratios
        PROVE  LET d == Len(chunks'[i]) * Total(ratios) - n * ratios[i] IN
               /\ -Total(ratios) <= d /\ d <= Total(ratios)
               /\ ratios[i] = 0 => chunks'[i] = <<>>
    <3>1. i \in 1..m /\ chunks'[i] \in Seq(D) /\ Len(chunks'[i]) = b[i] - b[i - 1]
      BY <1>2, <1>6
    <3>2. chunks'[i] = <<>> \/ Len(chunks'[i]) # 0
      BY <3>1, EmptySeq
    <3>3. LET d == (b[i] - b[i - 1]) * Total(ratios) - n * ratios[i] IN
          /\ -Total(ratios) <= d /\ d <= Total(ratios)
          /\ ratios[i] = 0 => b[i] - b[i - 1] = 0
      BY <1>4, <3>1
    <3>4. QED
      BY <3>1, <3>2, <3>3
  <2>4. QED
    BY <2>1, <2>2, <2>3 DEF SplitFair
<1>9. cases' \in Seq(AllCases) /\ (IsInjective(Ids(cases)) => IsInjective(Ids(cases')))
  <2> DEFINE c  == chunks'[k]
             l  == Len(c)
             x  == b[k - 1]
             at == [j \in 1..l |-> x + j]
  <2>0. k \in 1..m /\ k \in 0..m /\ k - 1 \in 0..m
    BY <1>2
  <2>1. cases' = c /\ c \in Seq(D) /\ l = b[k] - x /\ \A j \in 1..l : c[j] = s[x + j]
    BY <1>1, <1>6, <2>0
  <2> HIDE DEF c, x
  <2>2. b[k] \in 0..n /\ x \in 0..n /\ l \in Nat
    BY <1>4, <2>0, <2>1 DEF x
  <2>3. Listed(cases', l)
    BY <2>1 DEF Listed
  <2> HIDE DEF l
  <2>4. at \in [1..l -> 1..Len(s)] /\ \A i, j \in 1..l : at[i] = at[j] => i = j
    <3>1. \A j \in 1..l : x + j \in 1..n
      BY <1>2, <2>1, <2>2
    <3>2. \A i, j \in 1..l : x + i = x + j => i = j
      BY <1>2, <2>2
    <3>3. QED
      BY <1>3, <3>1, <3>2
  <2>5. \A j \in 1..l : cases'[j] = s[at[j]]
    BY <2>1
  <2>6. s \in Seq(AllCases)
    BY <1>3 DEF D
  <2> HIDE DEF at
  <2>7. IsInjective(Ids(s)) => IsInjective(Ids(cases'))
    BY <2>2, <2>3, <2>4, <2>5, <2>6, SomeOfThem
  <2>8. QED
    BY <1>3, <2>1, <2>7 DEF D
<1>10. Ids(cases') \in Seq(AllIds) /\ <<>> \in Seq(AllIds)
  BY <1>9, IdsSeq, EmptySeq
<1>11. sampling' \in [operation : {"none", "sample", "split"}, selected : Seq(AllIds),
                      provenance : Seq(AllIds)]
  BY <1>1, <1>10
<1>12. SelectionNoted'
  BY <1>1 DEF SelectionNoted
<1>13. QED
  BY <1>1, <1>8, <1>9, <1>10, <1>11, <1>12, LoadedStep

\* Every step of a dataset keeps the invariant.
LEMMA DatasetsStep == DInv /\ [DatasetsNext]_datasetVars => DInv'
<1> SUFFICES ASSUME DInv, [DatasetsNext]_datasetVars PROVE DInv'
  OBVIOUS
<1>1. ASSUME NEW f \in DOMAIN Content, NEW v \in BOOLEAN, Load(f, v) PROVE DInv'
  BY <1>1, LoadStep
<1>2. CASE Include
  BY <1>2, IncludeStep
<1>3. CASE Assemble
  BY <1>3, AssembleStep
<1>4. ASSUME NEW include, NEW exclude, NEW ids, Filter(include, exclude, ids) PROVE DInv'
  BY <1>4, FilterStep
<1>5. ASSUME NEW I \in SUBSET DOMAIN cases, Sample(I) PROVE DInv'
  BY <1>5, SampleStep
<1>6. ASSUME NEW ratios \in Ratios, NEW order \in SetToSeqs(DOMAIN cases),
             NEW k \in DOMAIN ratios, Split(ratios, order, k)
      PROVE  DInv'
  BY <1>6, SplitStep
<1>7. CASE UNCHANGED datasetVars
  <2>1. /\ stack' = stack /\ loading' = loading /\ root' = root /\ validating' = validating
        /\ cases' = cases /\ sampling' = sampling /\ chunks' = chunks /\ drawn' = drawn
        /\ divided' = divided
    BY <1>7 DEF datasetVars
  <2>2. DTyped' /\ Untouched'
    BY <2>1 DEF DInv, DTyped, Untouched
  <2>3. Calls'
    BY <2>1 DEF DInv, Calls, Gathered, Through, Reached
  <2>4. SplitExact'
    BY <2>1 DEF DInv, SplitExact
  <2>5. QED
    BY <2>2, <2>3, <2>4 DEF DInv
<1>8. QED
  BY <1>1, <1>2, <1>3, <1>4, <1>5, <1>6, <1>7 DEF DatasetsNext

\* The inductive invariant of a dataset: see DInv.
THEOREM DatasetsInvariant == DatasetsSpec => []DInv
BY InitDInv, DatasetsStep, PTL DEF DatasetsSpec

\* The type invariant of the calls of load_dataset and of the Dataset they return.
THEOREM DatasetsTypes == DatasetsSpec => []DatasetsTypeOK
<1>1. DInv => DatasetsTypeOK
  <2> SUFFICES ASSUME DInv PROVE DatasetsTypeOK
    OBVIOUS
  <2>1. /\ stack \in Seq(Frames) /\ (stack # <<>>) = (loading = "loading")
        /\ loading \in {"idle", "loading", "loaded", "cycle", "not_found", "invalid"}
        /\ validating \in BOOLEAN /\ sampling.operation \in {"none", "sample", "split"}
    BY DEF DInv, DTyped
  <2>2. ASSUME NEW s \in Range(stack) PROVE s.file \in DOMAIN Content /\ s.next \in Nat
    <3>1. PICK i \in DOMAIN stack : s = stack[i]
      BY DEF Range
    <3>2. s \in Frames
      BY <2>1, <3>1, ElementOfSeq
    <3>3. QED
      BY <3>2 DEF Frames
  <2>3. QED
    BY <2>1, <2>2 DEF DatasetsTypeOK
<1>2. QED
  BY <1>1, DatasetsInvariant, PTL

\* A split of a dataset loses no case and gives none to two chunks, each chunk has its
\* share to within one case, and a dataset tells what is left and what was drawn:
\* Dataset.split and Dataset.filter, for all suites and ratios.
THEOREM SplitsExact == DatasetsSpec => []SplitExact
<1>1. DInv => SplitExact
  BY DEF DInv
<1>2. QED
  BY <1>1, DatasetsInvariant, PTL

\* A file that is met again while it is being loaded includes itself over others.
LEMMA CircleCloses ==
  ASSUME DInv, stack # <<>>, NEW i \in 1..Len(stack),
         stack[i].file \in Range(Content[Top.file].includes)
  PROVE  stack[i].file \in Reached \cap DOMAIN Content /\ Cyclic(stack[i].file)
<1> DEFINE n == Len(stack)
           f == stack[i].file
           S == Range(Content[f].includes)
           In(k) == Range(Content[stack[i + k].file].includes)
           T == {k \in 0..n - i : In(k) \subseteq Referred(S, k)}
<1>1. n \in Nat \ {0} /\ Enough \in Nat /\ n <= Enough /\ Top = stack[n] /\ stack \in Seq(Frames)
  BY Depth
<1>2. \A j \in 1..n : stack[j].file \in DOMAIN Content
  <2> SUFFICES ASSUME NEW j \in 1..n PROVE stack[j].file \in DOMAIN Content
    OBVIOUS
  <2>1. stack[j] \in Frames
    BY <1>1, ElementOfSeq
  <2>2. QED
    BY <2>1 DEF Frames
<1>3. i \in Int /\ n - i \in Nat /\ i - 1 \in Nat /\ n - i <= Enough /\ i - 1 <= Enough
  BY <1>1
<1>4. 0 \in T
  <2>1. 0 \in 0..n - i /\ i + 0 = i
    BY <1>3
  <2>2. In(0) \subseteq Referred(S, 0)
    BY <2>1, ReferredStep
  <2>3. QED
    BY <2>1, <2>2
<1>5. ASSUME NEW k \in 1..n - i, k - 1 \in T PROVE k \in T
  <2> DEFINE j == i + (k - 1)
             x == stack[j]
             y == stack[j + 1]
  <2>1. /\ j \in 1..n - 1 /\ j + 1 \in 1..n /\ j + 1 = i + k /\ k - 1 \in Nat
        /\ (k - 1) + 1 = k /\ k \in 0..n - i
    <3>1. n \in Nat /\ i \in 1..n /\ k \in 1..n - i
      BY <1>1
    <3>2. j + 1 = i + k /\ (k - 1) + 1 = k /\ k - 1 \in Nat /\ k \in 0..n - i
      BY ONLY <3>1
    <3>3. j \in 1..n - 1 /\ j + 1 \in 1..n
      BY ONLY <3>1
    <3>4. QED
      BY <3>2, <3>3, Zenon
  <2>2. x.next \in DOMAIN Content[x.file].includes /\ Content[x.file].includes[x.next] = y.file
    BY <2>1, SMTT(30) DEF DInv, Calls
  <2>3. y.file \in In(k - 1) /\ y.file \in DOMAIN Content
    BY <1>2, <2>1, <2>2 DEF Range
  <2>4. y.file \in Referred(S, k - 1)
    BY <1>5, <2>3
  <2>5. Range(Content[y.file].includes) \subseteq WithIncluded(Referred(S, k - 1))
    BY <2>3, <2>4 DEF WithIncluded
  <2>6. Referred(S, k) = WithIncluded(Referred(S, k - 1))
    BY <2>1, ReferredStep
  <2>7. In(k) \subseteq Referred(S, k)
    BY <2>1, <2>5, <2>6
  <2>8. QED
    BY <2>1, <2>7
<1>6. 0..n - i \subseteq T
  <2> HIDE DEF T
  <2>1. QED
    BY <1>3, <1>4, <1>5, NumbersUpTo
<1>7. f \in Referred(S, n - i)
  <2>1. n - i \in 0..n - i /\ i + (n - i) = n
    BY <1>3, <1>1
  <2>2. In(n - i) \subseteq Referred(S, n - i)
    BY <1>6, <2>1
  <2>3. QED
    BY <1>1, <2>1, <2>2
<1>8. Cyclic(f)
  <2>1. Referred(S, n - i) \subseteq Referred(S, Enough)
    BY <1>1, <1>3, ReferredGrows
  <2>2. QED
    BY <1>7, <2>1 DEF Cyclic
<1>9. f \in Reached
  <2>1. f \in Referred({root}, i - 1)
    BY DEF DInv, Calls
  <2>2. Referred({root}, i - 1) \subseteq Referred({root}, Enough)
    BY <1>1, <1>3, ReferredGrows
  <2>3. QED
    BY <2>1, <2>2 DEF Reached
<1>10. QED
  BY <1>2, <1>8, <1>9

\* What a call of load_dataset may end with.
EndExact ==
  loading = "loading" =>
    /\ loading' = "loaded" =>
         /\ \A f \in Reached : f \in DOMAIN Content /\ ~Cyclic(f)
         /\ Range(cases') = UNION {Range(Own(f)) : f \in Reached}
         /\ validating => IsInjective(Ids(cases'))
    /\ loading' = "cycle" => \E f \in Reached \cap DOMAIN Content : Cyclic(f)

LEMMA IncludeEnds ==
  ASSUME DInv, Include
  PROVE  EndExact
<1> DEFINE f == Content[Top.file].includes[Top.next]
<1>1. /\ loading = "loading" /\ Top.next <= Len(Content[Top.file].includes)
      /\ loading' # "loaded"
      /\ loading' = "cycle" => f \in {s.file : s \in Range(stack)}
  BY DEF Include
<1>2. CASE loading' = "cycle"
  <2>1. stack # <<>>
    BY <1>1 DEF DInv, DTyped
  <2>2. PICK s \in Range(stack) : f = s.file
    BY <1>1, <1>2
  <2>3. stack \in Seq(Frames) /\ Top \in Frames /\ Top.file \in DOMAIN Content
    BY <2>1, Depth
  <2>4. PICK i \in 1..Len(stack) : f = stack[i].file
    BY <2>2, <2>3 DEF Range
  <2>5. f \in Range(Content[Top.file].includes)
    <3>1. Content[Top.file].includes \in Seq(Range(Content[Top.file].includes))
      BY <2>3, DatasetsAssumption
    <3>2. Top.next \in DOMAIN Content[Top.file].includes
      BY <1>1, <2>3, <3>1 DEF Frames
    <3>3. QED
      BY <3>2 DEF Range
  <2>6. f \in Reached \cap DOMAIN Content /\ Cyclic(f)
    BY <2>1, <2>4, <2>5, CircleCloses
  <2>7. QED
    BY <1>1, <2>6 DEF EndExact
<1>3. QED
  BY <1>1, <1>2 DEF EndExact

LEMMA AssembleEnds ==
  ASSUME DInv, Assemble
  PROVE  EndExact
<1>1. /\ loading = "loading" /\ Top.next > Len(Content[Top.file].includes) /\ loading' # "cycle"
      /\ loading' = "loaded" => /\ validating => Valid(Made)
                                /\ Len(stack) = 1 /\ cases' = Made
  BY DEF Assemble, Made
<1>2. CASE loading' = "loaded"
  <2>1. stack # <<>>
    BY <1>1 DEF DInv, DTyped
  <2>2. PICK L \in SUBSET DOMAIN Content : Through(L, Made) /\ Top.file \in L
    BY <1>1, <2>1, MadeExact
  <2>3. Top.file = root /\ Enough \in Nat
    <3>1. Top.file \in Referred({root}, Len(stack) - 1) /\ Len(stack) - 1 = 0
      BY <1>1, <1>2, <2>1, Depth
    <3>2. Referred({root}, 0) = {root}
      BY ReferredStep
    <3>3. QED
      BY <2>1, <3>1, <3>2, Depth
  <2>4. Reached \subseteq L
    BY <2>2, <2>3, ReferredClosed DEF Reached, Through
  <2>5. L = Reached
    BY <2>2, <2>4 DEF Through
  <2>6. \A f \in Reached : f \in DOMAIN Content /\ ~Cyclic(f)
    BY <2>2, <2>5 DEF Through
  <2>7. Range(cases') = UNION {Range(Own(f)) : f \in Reached}
    BY <1>1, <1>2, <2>2, <2>5 DEF Through
  <2>8. validating => IsInjective(Ids(cases'))
    BY <1>1, <1>2 DEF Valid
  <2>9. QED
    BY <1>1, <1>2, <2>6, <2>7, <2>8 DEF EndExact
<1>3. QED
  BY <1>1, <1>2 DEF EndExact

\* What load_dataset returns has every case of every file that is included over others
\* and no other, and only a file in a circle is refused as one: for all sets of files.
THEOREM LoadsExact == DatasetsSpec => LoadExact
<1>1. ASSUME DInv, DatasetsNext PROVE EndExact
  <2>1. CASE loading = "loading"
    <3>1. Include \/ Assemble
      BY <1>1, <2>1 DEF DatasetsNext, Load, Filter, Sample, Split
    <3>2. QED
      BY <1>1, <3>1, IncludeEnds, AssembleEnds
  <2>2. QED
    BY <2>1 DEF EndExact
<1>2. DInv /\ [DatasetsNext]_datasetVars => [EndExact]_datasetVars
  BY <1>1
<1>3. QED
  BY <1>2, DatasetsInvariant, PTL DEF DatasetsSpec, LoadExact, EndExact

=============================================================================
