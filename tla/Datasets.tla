------------------------------ MODULE Datasets ------------------------------
(***************************************************************************)
(* blackbox/domain/suite.py: how a suite is composed of files that include *)
(* each other and of cases with parameters, how it is validated, and how a *)
(* dataset is sampled, split and filtered without losing where it is from. *)
(*                                                                         *)
(* A file is a record: the files it includes, its cases and the parameter  *)
(* sets it has for all of them.  A raw case has an id, its own parameter   *)
(* sets, a flaw ("none", or what is wrong with it) and tags.               *)
(***************************************************************************)
EXTENDS Integers, FiniteSets, SequencesExt, Selection

CONSTANTS
  Content,    \* [files -> what is in each]: the suites that may be loaded
  Tags,       \* tags to filter by
  Ratios      \* ratios of a split: sequences of numbers, one for each name

\* Files include files and have cases with parameters, one after the other; there are
\* finitely many files, and ratios are not negative.
ASSUME DatasetsAssumption ==
  /\ IsFiniteSet(DOMAIN Content)
  /\ \A f \in DOMAIN Content :
       /\ Content[f].includes \in Seq(Range(Content[f].includes))
       /\ Content[f].parameters \in Seq(Range(Content[f].parameters))
       /\ Content[f].cases \in Seq(Range(Content[f].cases))
       /\ \A c \in Range(Content[f].cases) : c.parameters \in Seq(Range(c.parameters))
  /\ Ratios \subseteq Seq(Nat)

VARIABLES
  stack,      \* calls of load_dataset under way: file, next include, cases so far
  loading,    \* "idle", "loading", "loaded", or what load_dataset raised
  root,       \* the file that was asked for
  validating, \* does the call ask for a validation? load_suite does not
  cases,      \* the cases of the dataset
  sampling,   \* its SamplingConfig
  chunks,     \* what the last split returned
  divided,    \* what it was to divide, and by which ratios
  drawn       \* the ids that the last sample or split selected for this dataset

datasetVars == <<stack, loading, root, validating, cases, sampling, chunks, divided, drawn>>
request == <<root, validating>>

NoSampling == [operation |-> "none", selected |-> <<>>, provenance |-> <<>>]

DatasetsInit ==
  /\ stack = <<>> /\ loading = "idle" /\ root = "" /\ validating = TRUE /\ cases = <<>>
  /\ sampling = NoSampling /\ chunks = <<>> /\ drawn = <<>>
  /\ divided = [cases |-> <<>>, ratios |-> <<>>]

Ids(s) == [i \in DOMAIN s |-> s[i].id]

-----------------------------------------------------------------------------
(* Loading.                                                                *)

Frame(f) == [file |-> f, next |-> 1, cases |-> <<>>]
Top == stack[Len(stack)]

\* load_dataset of a file that exists and is not being loaded already.
Load(f, validate) ==
  /\ loading = "idle"
  /\ root' = f /\ validating' = validate
  /\ stack' = <<Frame(f)>> /\ loading' = "loading"
  /\ UNCHANGED <<cases, sampling, chunks, divided, drawn>>

\* The next include is loaded first, unless it is one of those under way.
Include ==
  LET f == Content[Top.file].includes[Top.next] IN
  /\ loading = "loading" /\ Top.next <= Len(Content[Top.file].includes)
  /\ \/ /\ f \notin DOMAIN Content
        /\ loading' = "not_found" /\ stack' = <<>>
     \/ /\ f \in {s.file : s \in Range(stack)}
        /\ loading' = "cycle" /\ stack' = <<>>
     \/ /\ f \in DOMAIN Content \ {s.file : s \in Range(stack)}
        /\ stack' = Append(stack, Frame(f)) /\ UNCHANGED loading
  /\ UNCHANGED <<request, cases, sampling, chunks, divided, drawn>>

\* parameterize(): a template in the id becomes part of it; a set without the
\* parameter that a template names is an error.
Parameterized(raw, set) ==
  [id |-> IF raw.templated THEN <<raw.id, set>> ELSE <<raw.id>>,
   flaw |-> IF raw.templated /\ set = "other" THEN "unknown_parameter" ELSE raw.flaw,
   tags |-> raw.tags]

\* A case for every parameter set: its own sets, or those of the file.  An empty set
\* changes nothing; an id that no parameter changes is told apart by the digest of
\* the set, if there are several.
Expand(raw, file) ==
  LET sets == IF raw.parameters = <<>> THEN Content[file].parameters ELSE raw.parameters
      Base == [id |-> <<raw.id>>, flaw |-> raw.flaw, tags |-> raw.tags]
      C(set) == IF set = "none" THEN Base ELSE Parameterized(raw, set)
  IN [i \in DOMAIN sets |->
       IF Len(sets) > 1 /\ C(sets[i]).id = Base.id
       THEN [C(sets[i]) EXCEPT !.id = <<raw.id, sets[i]>>]
       ELSE C(sets[i])]

Own(file) ==
  Joined([i \in DOMAIN Content[file].cases |-> Expand(Content[file].cases[i], file)])

\* What validate_suite finds without a corpus, besides ids that are there twice.
Flaws ==
  {"no_id", "no_messages", "no_question", "unknown_expectation", "asserts_nothing",
   "refusal_with_content"}

\* What the bundled schema refuses although validate_suite does not.
SchemaFlaws == {"unknown_field"}

\* Faulty variant: ids are not compared.
ValidEach(s) == s # <<>> /\ \A c \in Range(s) : c.flaw \notin Flaws \cup SchemaFlaws

Valid(s) ==
  /\ s # <<>>
  /\ \A c \in Range(s) : c.flaw \notin Flaws \cup SchemaFlaws
  /\ IsInjective(Ids(s))

\* A file is done: its cases come after those it includes, and all are validated,
\* if that is asked for.  Filters are for the file that was asked for.
Assemble ==
  LET all  == Top.cases \o Own(Top.file)
      good == /\ \A c \in Range(all) : c.flaw # "unknown_parameter"
              /\ validating => Valid(all)
  IN
  /\ loading = "loading" /\ Top.next > Len(Content[Top.file].includes)
  /\ \/ /\ ~good
        /\ loading' = "invalid" /\ stack' = <<>> /\ UNCHANGED cases
     \/ /\ good /\ Len(stack) = 1
        /\ loading' = "loaded" /\ stack' = <<>> /\ cases' = all
     \/ /\ good /\ Len(stack) > 1
        /\ stack' = LET s == Front(stack) IN
             [s EXCEPT ![Len(s)].next = @ + 1, ![Len(s)].cases = @ \o all]
        /\ UNCHANGED <<loading, cases>>
  /\ UNCHANGED <<request, sampling, chunks, divided, drawn>>

-----------------------------------------------------------------------------
(* Datasets.                                                               *)

\* The cases that have all tags of one set and none of the other; no ids are all ids.
Matching(include, exclude, ids) ==
  Only(cases, {c \in Range(cases) : /\ include \subseteq c.tags /\ exclude \cap c.tags = {}
                                   /\ (ids = {} \/ c.id \in ids)})

\* Faulty variant: the second filter forgets what was drawn.
FilterAnew(include, exclude, ids) ==
  LET kept == Matching(include, exclude, ids) IN
  /\ loading = "loaded"
  /\ cases' = kept
  /\ sampling' = IF sampling = NoSampling THEN NoSampling
                 ELSE [sampling EXCEPT !.selected = Ids(kept), !.provenance = sampling.selected]
  /\ UNCHANGED <<stack, loading, request, chunks, divided, drawn>>

\* filter(): it notes what is left, and keeps what had been selected before.
Filter(include, exclude, ids) ==
  LET kept == Matching(include, exclude, ids) IN
  /\ loading = "loaded"
  /\ cases' = kept
  /\ sampling' = IF sampling = NoSampling THEN NoSampling
                 ELSE [sampling EXCEPT !.selected = Ids(kept),
                         !.provenance = IF @ = <<>> THEN sampling.selected ELSE @]
  /\ UNCHANGED <<stack, loading, request, chunks, divided, drawn>>

\* sample(): any cases, in the order they had.
Sample(I) ==
  LET indexes == Only([i \in DOMAIN cases |-> i], I)
      taken   == [i \in DOMAIN indexes |-> cases[indexes[i]]]
  IN
  /\ loading = "loaded"
  /\ cases' = taken /\ drawn' = Ids(taken)
  /\ sampling' = [operation |-> "sample", selected |-> Ids(taken), provenance |-> <<>>]
  /\ UNCHANGED <<stack, loading, request, chunks, divided>>

\* round() of a / b: halves go to the even number.
Rounded(a, b) ==
  LET q == a \div b
      r == a % b
  IN IF 2 * r > b \/ (2 * r = b /\ q % 2 = 1) THEN q + 1 ELSE q

\* The sum of the first i ratios.
Running(ratios, i) ==
  LET Sum[j \in 0..i] == IF j = 0 THEN 0 ELSE Sum[j - 1] + ratios[j] IN Sum[i]

Total(ratios) == Running(ratios, Len(ratios))

\* Faulty variant: the last chunk takes its share, too.
BoundaryOfShares(ratios, i, n) ==
  IF i = 0 THEN 0
  ELSE IF i = Len(ratios)
  THEN Rounded(n * Running(ratios, i - 1), Total(ratios)) + (n * ratios[i]) \div Total(ratios)
  ELSE Rounded(n * Running(ratios, i), Total(ratios))

\* The end of the i-th chunk of n cases; the last chunk takes the rest.
Boundary(ratios, i, n) ==
  IF i = 0 THEN 0
  ELSE IF i = Len(ratios) THEN n
  ELSE Rounded(n * Running(ratios, i), Total(ratios))

\* split(): the cases are shuffled and cut; one of the chunks is used from here on.
Split(ratios, order, k) ==
  /\ loading = "loaded" /\ Total(ratios) > 0
  /\ LET n        == Len(cases)
         shuffled == [i \in DOMAIN cases |-> cases[order[i]]]
     IN
     chunks' = [i \in DOMAIN ratios |->
       SubSeq(shuffled, Boundary(ratios, i - 1, n) + 1, Boundary(ratios, i, n))]
  /\ divided' = [cases |-> cases, ratios |-> ratios]
  /\ cases' = chunks'[k] /\ drawn' = Ids(chunks'[k])
  /\ sampling' = [operation |-> "split", selected |-> Ids(chunks'[k]), provenance |-> <<>>]
  /\ UNCHANGED <<stack, loading, request>>

DatasetsNext ==
  \/ \E f \in DOMAIN Content, validate \in BOOLEAN : Load(f, validate)
  \/ Include \/ Assemble
  \/ \E t \in Tags : Filter({t}, {}, {}) \/ Filter({}, {t}, {})
  \/ \E c \in Range(cases) : Filter({}, {}, {c.id})
  \/ \E I \in SUBSET DOMAIN cases : Sample(I)
  \/ \E ratios \in Ratios, order \in SetToSeqs(DOMAIN cases) :
       \E k \in DOMAIN ratios : Split(ratios, order, k)

DatasetsSpec == DatasetsInit /\ [][DatasetsNext]_datasetVars

-----------------------------------------------------------------------------
(* Properties.                                                             *)

\* Types of the calls of load_dataset and of the Dataset they return.
DatasetsTypeOK ==
  /\ loading \in {"idle", "loading", "loaded", "cycle", "not_found", "invalid"}
  /\ validating \in BOOLEAN
  /\ (stack # <<>>) = (loading = "loading")
  /\ \A s \in Range(stack) : s.file \in DOMAIN Content /\ s.next \in Nat
  /\ sampling.operation \in {"none", "sample", "split"}

\* Files that S and the files in S refer to, over at most n includes.
Referred(S, n) ==
  LET R[i \in 0..n] ==
        IF i = 0 THEN S
        ELSE R[i - 1] \cup UNION {Range(Content[f].includes) : f \in R[i - 1] \cap DOMAIN Content}
  IN R[n]

\* As many includes as there are files are enough to get everywhere.
Enough == Cardinality(DOMAIN Content)

\* The file that was asked for, and those it includes over others.
Reached == Referred({root}, Enough)

\* A file that includes itself over others.
Cyclic(f) == f \in Referred(Range(Content[f].includes), Enough)

\* A suite that load_dataset returns has every case of every file it includes and no
\* other, each with an id of its own if it was validated, even when two files include
\* the same third one; a suite whose files include each other in a circle is never
\* loaded, and load_dataset says so of no other.
LoadExact ==
  [][loading = "loading" =>
       /\ loading' = "loaded" =>
            /\ \A f \in Reached : f \in DOMAIN Content /\ ~Cyclic(f)
            /\ Range(cases') = UNION {Range(Own(f)) : f \in Reached}
            /\ validating => IsInjective(Ids(cases'))
       /\ loading' = "cycle" => \E f \in Reached \cap DOMAIN Content : Cyclic(f)]_datasetVars

\* How often c is in s.
Times(c, s) == Cardinality({i \in DOMAIN s : s[i] = c})

\* A split of a dataset loses no case and gives none to two chunks: every case is as
\* often in the chunks as in what was split; there is a chunk for each of the ratios asked
\* for, with its share of the dataset to within one case, and with nothing if its ratio is
\* zero.  And however often a dataset is filtered afterwards, it tells which cases are left
\* and which had been drawn.
SplitExact ==
  /\ chunks # <<>> =>
       LET all    == Joined(chunks)
           whole  == divided.cases
           ratios == divided.ratios
       IN
       /\ \A c \in Range(all) \cup Range(whole) : Times(c, all) = Times(c, whole)
       /\ Len(chunks) = Len(ratios)
       /\ \A i \in DOMAIN ratios :
            LET d == Len(chunks[i]) * Total(ratios) - Len(whole) * ratios[i] IN
            /\ -Total(ratios) <= d /\ d <= Total(ratios)
            /\ ratios[i] = 0 => chunks[i] = <<>>
  /\ sampling # NoSampling =>
       /\ sampling.selected = Ids(cases)
       /\ drawn = IF sampling.provenance = <<>> THEN sampling.selected ELSE sampling.provenance

=============================================================================
