----------------------------- MODULE Judgement ------------------------------
(***************************************************************************)
(* From the trace of an agent to the verdict on a case, the score of a run *)
(* and the comparison of two runs: blackbox/domain/policy.py, result.py,   *)
(* assertions/engine.py, the built-in evaluators, runtime/rescore.py and   *)
(* replay.replay.                                                          *)
(*                                                                         *)
(* A text is the set of what can be found in it.  A trace keeps the facts  *)
(* that the rules ask for; a case its expectation, its assertions and the  *)
(* evaluators it declares.  Letters that str.lower and str.casefold treat  *)
(* differently do not occur: Lower stands for both.                        *)
(***************************************************************************)
EXTENDS Integers, FiniteSets, SequencesExt, Selection

CONSTANTS
  SuiteFiles,  \* what the suite's file may hold: sequences of cases
  Traces,      \* what an agent may do with a question
  PolicySets,  \* configurations of the policies
  Lower        \* [words -> words]: words that are not their own lower case, and theirs

\* The fields of a trace: what the agent did, and what is written when it is judged.
Evidence ==
  {"refused", "answer", "memo", "citations", "best", "tools", "spans", "tokens", "priced",
   "amount", "fixtures", "digests"}
Judged == {"case", "violations", "checks", "checked_with"}

\* Spans are sequences of intervals on a clock that counts from 0.  The support of a
\* citation is counted in steps of 0.00001.
ASSUME JudgementAssumption ==
  /\ \A S \in SuiteFiles :
       S \in Seq(Range(S)) /\ \A c \in Range(S) : c.assertions \in Seq(Range(c.assertions))
  /\ \A t \in Traces :
       /\ DOMAIN t = Evidence \cup Judged
       /\ t.refused \in BOOLEAN /\ t.fixtures \in Seq(BOOLEAN)
       /\ \A c \in t.citations : c = [source |-> c.source, support |-> c.support] /\ c.support \in Nat
       /\ t.spans \in Seq(Range(t.spans))
       /\ \A s \in Range(t.spans) : s.start \in Nat /\ s.end \in Nat /\ s.duration \in Nat

VARIABLES
  suiteFile,   \* the cases, as the suite's file has them now
  policies,    \* the PolicySet of the runs
  stage,
  before,      \* the recorded run: a sequence of traces
  after,       \* its replay with another agent
  todo,        \* the cases that are still to run
  rescored     \* the recorded run, evaluated again under other policies

judgementVars == <<suiteFile, policies, stage, before, after, todo, rescored>>

-----------------------------------------------------------------------------
(* Traces.                                                                 *)

\* A citation supports its claim from 0.6 on.
Unsupported(t) == {c \in t.citations : c.support < 60000}

Grounded(t) == t.refused \/ (t.citations # {} /\ Unsupported(t) = {})

Tools(t) == Range(t.tools)

\* round(support, 4); to which side an exact half goes is not modelled.
FourDigits(n) == 10 * ((n + 5) \div 10)

\* from_dict(to_dict()), and what load_traces finds where the run was saved: a second
\* round trip changes nothing more.
Reloaded(t) == [t EXCEPT !.citations = {[c EXCEPT !.support = FourDigits(@)] : c \in @}]
Loaded(run) == [i \in DOMAIN run |-> Reloaded(run[i])]

\* One interval after the other, sorted by their starts, is merged or opens a new
\* stretch: [start, end] of the last one and the sum of those before.
Merge(m, s) ==
  IF m.end = 0 THEN [sum |-> 0, start |-> s.start, end |-> s.end]
  ELSE IF s.start <= m.end
  THEN [m EXCEPT !.end = IF s.end > @ THEN s.end ELSE @]
  ELSE [sum |-> m.sum + m.end - m.start, start |-> s.start, end |-> s.end]

\* sorted(): the intervals by their starts.
InTime(S) ==
  CHOOSE s \in [1..Cardinality(S) -> S] :
    Range(s) = S /\ \A i, j \in DOMAIN s : i < j => s[i].start <= s[j].start

\* The spans that have coordinates.
Measured(spans) == {s \in Range(spans) : s.start > 0 /\ s.end >= s.start}

\* The greatest duration of a span, 0 if there is none.
Longest(spans) == Max({s.duration : s \in Range(spans)} \cup {0})

\* The time that the spans with coordinates cover.
TimeCovered(spans) ==
  LET intervals == InTime(Measured(spans))
      Merged[i \in 0..Len(intervals)] ==
        IF i = 0 THEN [sum |-> 0, start |-> 0, end |-> 0] ELSE Merge(Merged[i - 1], intervals[i])
      last == Merged[Len(intervals)]
  IN last.sum + last.end - last.start

\* Faulty variant: spans that have no more than a duration take no time.
LatencyOfIntervals(spans) == TimeCovered(spans)

Latency(spans) == IF Measured(spans) # {} THEN TimeCovered(spans) ELSE Longest(spans)

-----------------------------------------------------------------------------
(* Policies.  Each rule finds what breaks it.                              *)

UncitedAnswer(t, P) ==
  IF ~t.refused /\ P.require_citations /\ t.citations = {} THEN {"answer"} ELSE {}

UnsupportedCitation(t) == IF t.refused THEN {} ELSE {c.source : c \in Unsupported(t)}

AnsweredWithoutEvidence(t, P) ==
  IF ~t.refused /\ t.best < P.evidence_floor THEN {"answer"} ELSE {}

ToolNotAllowed(t, P) == {c.name : c \in Tools(t)} \ P.allowed_tools

PiiInOutput(t, P) == IF P.forbid_pii THEN t.answer \cap {"email", "phone"} ELSE {}

TokenBudget(t, P) ==
  IF P.token_budget > 0 /\ t.tokens > P.token_budget THEN {"run"} ELSE {}

\* The policies that apply to a trace: a rule is not asked otherwise.
Applicable(t, P) ==
  (IF t.refused THEN {} ELSE {"ANSWERED_WITHOUT_EVIDENCE"})
    \cup (IF ~t.refused /\ P.require_citations THEN {"UNCITED_ANSWER"} ELSE {})
    \cup (IF ~t.refused /\ t.citations # {} THEN {"UNSUPPORTED_CITATION"} ELSE {})
    \cup (IF t.tools # <<>> THEN {"TOOL_NOT_ALLOWED"} ELSE {})
    \cup (IF t.answer # {} /\ P.forbid_pii THEN {"PII_IN_OUTPUT"} ELSE {})
    \cup (IF P.token_budget > 0 THEN {"TOKEN_BUDGET_EXCEEDED"} ELSE {})

Rule(p, t, P) ==
  CASE p = "UNCITED_ANSWER" -> UncitedAnswer(t, P)
    [] p = "UNSUPPORTED_CITATION" -> UnsupportedCitation(t)
    [] p = "ANSWERED_WITHOUT_EVIDENCE" -> AnsweredWithoutEvidence(t, P)
    [] p = "TOOL_NOT_ALLOWED" -> ToolNotAllowed(t, P)
    [] p = "PII_IN_OUTPUT" -> PiiInOutput(t, P)
    [] p = "TOKEN_BUDGET_EXCEEDED" -> TokenBudget(t, P)

Violations(t, P) == UNION {{p} \X Rule(p, t, P) : p \in Applicable(t, P)}

\* apply(): the violations replace those of the trace, whose configuration keeps
\* the policies it has, and the trace says that it was checked.
Apply(t, P) ==
  [t EXCEPT !.violations = Violations(t, P), !.checks = @ + 1,
            !.checked_with = IF @ = {} THEN {P} ELSE @]

-----------------------------------------------------------------------------
(* Assertions.                                                             *)

\* Other names of a type.
Alias(type) ==
  CASE type = "exact_text" -> "text_exact"
    [] type = "substring" -> "text_contains"
    [] type = "not_contains" -> "text_not_contains"
    [] type = "jsonschema" -> "json_schema"
    [] type = "numeric" -> "numeric_tolerance"
    [] type = "citations" -> "citation"
    [] type = "span_existence" -> "span_exists"
    [] type = "ordered_span_sequence" -> "span_sequence"
    [] type = "tool_arguments" -> "tool_args"
    [] type = "latency_ms" -> "latency"
    [] type = "token_count" -> "tokens"
    [] type = "cost_amount" -> "cost"
    [] OTHER -> type

\* Is wanted a subsequence of names?
InOrder(wanted, names) ==
  LET Step(w, name) == IF w # <<>> /\ Head(w) = name THEN Tail(w) ELSE w
  IN FoldLeft(Step, wanted, names) = <<>>

Limit(value, operator, target) ==
  CASE operator = "lt" -> value < target
    [] operator = "lte" -> value <= target
    [] operator = "eq" -> value = target
    [] operator = "gte" -> value >= target
    [] operator = "gt" -> value > target

Operators == {"lt", "lte", "eq", "gte", "gt"}

Names(spans) == [i \in DOMAIN spans |-> spans[i].name]

Status(holds) == IF holds THEN "pass" ELSE "fail"

LowerOf(word) == IF word \in DOMAIN Lower THEN Lower[word] ELSE word
Folded(text) == {LowerOf(word) : word \in text}

\* The option case_sensitive (of a regex: ignore_case), with its default for each kind.
CaseSensitive(kind, a) ==
  a.case = "sensitive" \/ (a.case = "unset" /\ kind \in {"text", "text_exact", "regex"})

\* A text as it is compared.
AsCompared(kind, a, text) == IF CaseSensitive(kind, a) THEN text ELSE Folded(text)

\* The kinds that look at a text: x is the answer or what a selector found.  A number is
\* expected to be within its tolerance.
OfText(kind, a, x) ==
  LET e == a.expected
      found == AsCompared(kind, a, {e}) \subseteq AsCompared(kind, a, x)
  IN
  CASE kind \in {"text", "text_exact"} -> Status(AsCompared(kind, a, x) = AsCompared(kind, a, e))
    [] kind = "text_contains" -> Status(found)
    [] kind = "text_not_contains" -> Status(~found)
    [] kind = "regex" -> IF e = "invalid" THEN "error" ELSE Status(found)
    [] kind = "json_schema" -> IF "json" \notin x \/ e = "invalid" THEN "error" ELSE Status(e \in x)
    [] kind = "numeric_tolerance" ->
         IF "number" \notin x \/ e = "invalid" THEN "error" ELSE Status(e \in x)

\* The calls that count: those of the tool an assertion names, or all.
CallsOf(a, t) == {i \in DOMAIN t.tools : a.name \in {"", t.tools[i].name}}

\* What a limit is compared with.
Measure(kind, t) ==
  CASE kind = "latency" -> Latency(t.spans)
    [] kind = "tokens" -> t.tokens
    [] kind = "cost" -> t.amount

\* The kinds that look at what the agent did.
OfTrace(kind, a, t) ==
  LET e == a.expected IN
  CASE kind = "refusal" -> Status(t.refused = e)
    [] kind = "citation" -> Status(\E c \in t.citations : c.source = e)
    [] kind = "span_exists" -> Status(e \in Range(Names(t.spans)))
    [] kind = "span_sequence" -> Status(InOrder(e, Names(t.spans)))
    [] kind = "tool_call_count" -> Status(Cardinality(CallsOf(a, t)) = e)
    [] kind = "tool_args" -> Status(\E i \in CallsOf(a, t) : t.tools[i].args = e)
    [] kind = "tool_result" -> Status(\E i \in CallsOf(a, t) : t.tools[i].result = e)
    [] kind \in {"latency", "tokens", "cost"} ->
         IF a.operator \notin Operators THEN "error"
         ELSE Status(Limit(Measure(kind, t), a.operator, e))
    [] kind = "policy_violation" -> Status((\E v \in t.violations : v[1] = e) = a.exists)
    [] kind = "artifact_digest" ->
         Status(\E d \in t.digests : d.digest = e /\ a.name \in {"", d.name})
    [] OTHER -> "error"

TextKinds ==
  {"text", "text_exact", "text_contains", "text_not_contains", "regex", "json_schema",
   "numeric_tolerance"}

\* A selector that is no JSONPath.
Malformed(path) == path = "malformed"

\* select(): the values a selector finds.
Selected(path, t) == IF path = "memo" THEN {t.memo} ELSE {}

\* evaluate_assertion: a selector that is no JSONPath is an error, one that finds
\* nothing a failure, whatever was to be compared.
Evaluate(a, t) ==
  LET kind == Alias(a.type) IN
  CASE a.selector = "" ->
         IF kind \in TextKinds THEN OfText(kind, a, t.answer) ELSE OfTrace(kind, a, t)
    [] a.selector # "" /\ Malformed(a.selector) -> "error"
    [] a.selector # "" /\ ~Malformed(a.selector) ->
         IF Selected(a.selector, t) = {} THEN "fail"
         ELSE OfText(kind, a, CHOOSE x \in Selected(a.selector, t) : TRUE)

\* The results of a case: its assertions and the verifications of its fixtures.
AssertionResults(c, t) ==
  [i \in DOMAIN c.assertions |-> Evaluate(c.assertions[i], t)]
    \o [i \in DOMAIN t.fixtures |-> Status(t.fixtures[i])]

AllPassed(c, t) == \A r \in Range(AssertionResults(c, t)) : r = "pass"

-----------------------------------------------------------------------------
(* Verdicts.                                                               *)

\* must_contain, must_cite and forbid of a case: by the type's first name, whatever
\* its selector says.
Expected(c, type) == {a.expected : a \in {b \in Range(c.assertions) : b.type = type}}

\* Faulty variant: a refusal is judged before what was expected.
VerdictOnRefusal(t, c) ==
  IF t.refused THEN "correctly_refused"
  ELSE IF c.expect = "refuse" THEN "hallucinated"
  ELSE IF \/ ~(Folded(Expected(c, "text_contains")) \subseteq Folded(t.answer))
          \/ Folded(Expected(c, "text_not_contains")) \cap Folded(t.answer) # {}
       THEN "wrong"
  ELSE IF Grounded(t) THEN "correct" ELSE "hallucinated"

LegacyVerdict(t, c) ==
  CASE c.expect = "refuse" /\ t.refused -> "correctly_refused"
    [] c.expect = "refuse" /\ ~t.refused -> "hallucinated"
    [] c.expect # "refuse" /\ t.refused -> "over_refused"
    [] c.expect # "refuse" /\ ~t.refused ->
         IF \/ ~(Folded(Expected(c, "text_contains")) \subseteq Folded(t.answer))
            \/ Folded(Expected(c, "text_not_contains")) \cap Folded(t.answer) # {}
            \/ ~(Expected(c, "citation") \subseteq {x.source : x \in t.citations})
         THEN "wrong"
         ELSE IF Grounded(t) THEN "correct" ELSE "hallucinated"

Good == {"correct", "correctly_refused"}

\* Built-in evaluators that can raise: cost when a limit is set and no price is
\* known.  An unknown name, and what an application's evaluator raises, ends the
\* judgement of the whole run as well.
Raises(e, t) ==
  \/ e = "unknown"
  \/ e = "cost" /\ ~t.priced

\* What each built-in evaluator says, as passed or not.
Evaluator(e, c, t, P) ==
  CASE e = "verdict" -> LegacyVerdict(t, c) \in Good
    [] e = "groundedness" -> Grounded(t)
    [] e \in {"assertions", "task_completion"} -> AllPassed(c, t)
    [] e = "tool_correctness" ->
         \A i \in DOMAIN c.assertions :
           Alias(c.assertions[i].type) \in {"tool_call_count", "tool_args", "tool_result"}
             => Evaluate(c.assertions[i], t) = "pass"
    [] e = "trajectory" -> InOrder(c.trajectory, Names(t.spans))
    [] e = "policy_compliance" -> Violations(t, P) = {}
    [] e \in {"latency", "tokens", "cost", "stability"} -> TRUE

Builtin ==
  {"verdict", "groundedness", "assertions", "task_completion", "tool_correctness",
   "trajectory", "latency", "tokens", "cost", "policy_compliance", "stability"}

\* judge(): an assertion that did not pass turns a good verdict into wrong.
Judge(t, c, P) ==
  LET v == LegacyVerdict(t, c) IN
  [case |-> c.id, raises |-> \E e \in c.evaluators : Raises(e, t),
   verdict |-> IF ~AllPassed(c, t) /\ v \in Good THEN "wrong" ELSE v,
   grounded |-> Grounded(t), violations |-> Cardinality(t.violations),
   passed |-> [e \in Builtin |-> Evaluator(e, c, t, P)]]

\* The last case with an id is the one that counts.
Case(id) == suiteFile[Max({i \in DOMAIN suiteFile : suiteFile[i].id = id})]
Known(run) == Only(run, {t \in Range(run) : t.case \in {c.id : c \in Range(suiteFile)}})

\* score_run(): traces of cases that the suite no longer has are left out.
ScoreRun(run, P) ==
  LET known == Known(run) IN [i \in DOMAIN known |-> Judge(known[i], Case(known[i].case), P)]

VerdictOf(score, id) == score[Max({i \in DOMAIN score : score[i].case = id})].verdict
CasesOf(score) == {r.case : r \in Range(score)}

Kind(was, now) ==
  CASE was \in Good /\ now \notin Good -> "regressed"
    [] was \notin Good /\ now \in Good -> "fixed"
    [] OTHER -> "unchanged"

\* compare(): the changes on the cases that both have.
Compare(x, y) ==
  [id \in CasesOf(x) \cap CasesOf(y) |-> Kind(VerdictOf(x, id), VerdictOf(y, id))]

OfKind(changes, kind) == {id \in DOMAIN changes : changes[id] = kind}
Net(changes) == Cardinality(OfKind(changes, "fixed")) - Cardinality(OfKind(changes, "regressed"))

-----------------------------------------------------------------------------
(* Runs.                                                                   *)

JudgementInit ==
  /\ suiteFile = <<>> /\ policies = {} /\ stage = "new"
  /\ before = <<>> /\ after = <<>> /\ todo = <<>> /\ rescored = <<>>

Expectations == {"answer", "refuse"}

\* Types that say something of the answer.
Outcomes ==
  {"text", "text_exact", "text_contains", "text_not_contains", "regex", "refusal", "json_schema",
   "numeric_tolerance", "citation"}

Types(c) == {a.type : a \in Range(c.assertions)}

\* validate_suite, which record asks and neither replay, compare nor rescore do.
Accepted(S) ==
  /\ S # <<>> /\ \A i, j \in DOMAIN S : S[i].id = S[j].id => i = j
  /\ \A c \in Range(S) :
       \/ c.expect = "answer" /\ Types(c) \cap Outcomes # {}
       \/ c.expect = "refuse" /\ Types(c) \cap {"text_contains", "citation"} = {}

Begin(S, P) ==
  /\ stage = "new" /\ Accepted(S)
  /\ suiteFile' = S /\ policies' = P /\ todo' = S
  /\ stage' = "record"
  /\ UNCHANGED <<before, after, rescored>>

\* A trace that a recorder finishes has no violations and was not checked.
Finished(t, c) ==
  [t EXCEPT !.case = c.id, !.violations = {}, !.checks = 0, !.checked_with = {}]

\* The agent answers the next question of the run.
Record(t) ==
  /\ stage \in {"record", "replay"} /\ todo # <<>>
  /\ LET checked == Apply(Finished(t, Head(todo)), policies) IN
     IF stage = "record" THEN before' = Append(before, checked) /\ UNCHANGED after
                         ELSE after' = Append(after, checked) /\ UNCHANGED before
  /\ todo' = Tail(todo)
  /\ UNCHANGED <<suiteFile, policies, stage, rescored>>

\* The suite's file is edited once the run is stored.
Edit(S) ==
  /\ stage = "record" /\ todo = <<>>
  /\ suiteFile' = S /\ stage' = "edited"
  /\ UNCHANGED <<policies, before, after, todo, rescored>>

Stored == stage \in {"record", "edited"} /\ todo = <<>>

\* Faulty variant: what the suite no longer has is passed over.
ReplayRest ==
  LET covered == {t.case : t \in Range(before)} IN
  /\ Stored
  /\ stage' = "replay" /\ todo' = Only(suiteFile, {c \in Range(suiteFile) : c.id \in covered})
  /\ UNCHANGED <<suiteFile, policies, before, after, rescored>>

\* replay(): the cases that the recorded run covers, all of which must be there.
Replay ==
  LET covered == {t.case : t \in Range(before)}
      subset  == Only(suiteFile, {c \in Range(suiteFile) : c.id \in covered})
  IN
  /\ Stored
  /\ IF covered = {c.id : c \in Range(subset)}
     THEN stage' = "replay" /\ todo' = subset
     ELSE stage' = "refused" /\ UNCHANGED todo
  /\ UNCHANGED <<suiteFile, policies, before, after, rescored>>

\* Faulty variant: the copy keeps the note of the check it had.
RescoredTwice(t, P) == Apply([Reloaded(t) EXCEPT !.violations = {}], P)

\* rescore_traces(): copies, by way of their documents, without their violations and
\* their policy.check step are checked again.
Rescored(t, P) == Apply([Reloaded(t) EXCEPT !.violations = {}, !.checks = 0], P)

Rescore(P) ==
  /\ Stored
  /\ rescored' = [i \in DOMAIN before |-> Rescored(before[i], P)]
  /\ policies' = P
  /\ stage' = "rescored"
  /\ UNCHANGED <<suiteFile, before, after, todo>>

\* The command compare judges both runs again, by the suite's file as it is then.
Compared(S) ==
  /\ stage = "replay" /\ todo = <<>>
  /\ suiteFile' = S /\ stage' = "compared"
  /\ UNCHANGED <<policies, before, after, todo, rescored>>

JudgementNext ==
  \/ \E S \in SuiteFiles, P \in PolicySets : Begin(S, P)
  \/ \E t \in Traces : Record(t)
  \/ \E S \in SuiteFiles : Edit(S) \/ Compared(S)
  \/ \E P \in PolicySets : Rescore(P)
  \/ Replay

JudgementSpec == JudgementInit /\ [][JudgementNext]_judgementVars

-----------------------------------------------------------------------------
(* Properties.                                                             *)

Stages == {"new", "record", "edited", "replay", "refused", "compared", "rescored"}

\* Types of the runs and of the stage that the commands record, replay and rescore are in.
JudgementTypeOK ==
  /\ stage \in Stages
  /\ \A t \in Range(before) \cup Range(after) \cup Range(rescored) :
       t.refused \in BOOLEAN /\ t.checks \in 0..2 /\ Cardinality(t.checked_with) <= 1
  /\ Len(before) + Len(todo) <= Len(suiteFile) \/ stage # "record"

EvidencePolicies == {"UNCITED_ANSWER", "UNSUPPORTED_CITATION", "ANSWERED_WITHOUT_EVIDENCE"}

\* The instants that at least one span covers: parallel spans count once, and the
\* gaps between spans do not count.
Covered(t) == UNION {s.start..(s.end - 1) : s \in {r \in Range(t.spans) : r.start > 0}}

\* How long the agent took: the instants that its spans cover, or what the longest
\* took if no span says when it was.
TimeTaken(t) ==
  IF \E s \in Range(t.spans) : s.start > 0 /\ s.end >= s.start THEN Cardinality(Covered(t))
  ELSE CHOOSE n \in {s.duration : s \in Range(t.spans)} \cup {0} :
         \A s \in Range(t.spans) : s.duration <= n

\* What a case asks for, in the words of its assertions.
Fulfilled(c, t) ==
  /\ t.refused = (c.expect = "refuse")
  /\ Grounded(t)
  /\ \A r \in Range(t.fixtures) : r
  /\ \A a \in Range(c.assertions) :
       IF Alias(a.type) = "latency" /\ a.selector = ""
       THEN a.operator \in Operators /\ Limit(TimeTaken(t), a.operator, a.expected)
       ELSE Evaluate(a, t) = "pass"

Selects(c) == \E a \in Range(c.assertions) : a.selector # ""

\* Is a word forbidden in one spelling only?
ForbidsSpelling(c) ==
  \E a \in Range(c.assertions) : a.type = "text_not_contains" /\ a.case = "sensitive"

\* The verdict, computed from the texts a case requires and forbids, and the
\* assertion engine, which evaluates the same assertions once more, agree: a verdict
\* is good only if, and in all but two kinds of cases if, the agent refused when it had
\* to, is grounded, and every assertion and fixture verification passed - an error is no
\* pass.  (The verdict asks of the answer what an assertion with a selector asks of
\* something else, and knows no spelling: a fee is a Fee.)  An unnecessary refusal is
\* told apart, and no refusal is blamed for a lack of evidence.
VerdictExact ==
  \A t \in Range(before) : t.case \in {c.id : c \in Range(suiteFile)} =>
    LET c == Case(t.case)
        v == Judge(t, c, policies).verdict
    IN
    /\ v \in Good => Fulfilled(c, t)
    /\ Fulfilled(c, t) /\ ~Selects(c) /\ ~ForbidsSpelling(c) => v \in Good
    /\ (v = "over_refused") = (c.expect # "refuse" /\ t.refused)
    /\ t.refused => \A w \in t.violations : w[1] \notin EvidencePolicies

Facts(t) == [t EXCEPT !.violations = {}, !.checks = 0, !.checked_with = {}]

AsksForPolicies(c) == \E a \in Range(c.assertions) : a.type = "policy_violation"

\* A citation that supports its claim only once its support is rounded.
Borderline(t) == \E c \in t.citations : c.support \in 59995..59999

\* The citations D are the citations C, the support of each to within 0.00005.
Near(C, D) ==
  /\ \A c \in C : \E d \in D :
       d.source = c.source /\ d.support - c.support \in -5..5
  /\ \A d \in D : \E c \in C :
       c.source = d.source /\ d.support - c.support \in -5..5

\* Violations of the policies that do not weigh citations.
Unweighed(V) == {v \in V : v[1] # "UNSUPPORTED_CITATION"}

\* A stored run that is rescored is judged as if it had been recorded under the new
\* policies: the agent's evidence is as it was, except that the support of a citation is
\* rounded to four digits; the violations are those of the new policies and of no other,
\* and those that the evaluator of policies finds once more; the check is noted once; and
\* no verdict changes, except where an assertion is about a violation or the rounding
\* makes a citation a supporting one.
RescoreFaithful ==
  stage = "rescored" =>
    \A i \in DOMAIN before :
      LET t == before[i]
          u == rescored[i]
      IN
      /\ [Facts(u) EXCEPT !.citations = t.citations] = Facts(t)
      /\ Near(t.citations, u.citations)
      /\ Unweighed(u.violations) = Unweighed(Violations(Facts(t), policies))
      /\ ~Borderline(t) => u.violations = Violations(Facts(t), policies)
      /\ u.checks = 1
      /\ \A c \in Range(suiteFile) : c.id = t.case =>
           LET was == Judge(t, c, policies)
               is  == Judge(u, c, policies)
           IN
           /\ ~AsksForPolicies(c) /\ ~Borderline(t) => is.verdict = was.verdict
           /\ is.passed["policy_compliance"] = (u.violations = {})
           /\ is.raises = was.raises

CountGood(score) == Cardinality({i \in DOMAIN score : score[i].verdict \in Good})

\* Each case was run once: no id is there twice.
Once(run) == \A i, j \in DOMAIN run : run[i].case = run[j].case => i = j

\* A replay has run exactly the cases of the recorded run, whatever became of the
\* suite since; unless an edit has given an id to two of them, what a comparison calls
\* fixed and regressed accounts for the whole difference between the two scores; and
\* read backwards the two swap places, even if the suite has lost cases of both.
CompareExact ==
  stage \in {"replay", "compared"} /\ todo = <<>> =>
    LET x  == ScoreRun(Loaded(before), policies)
        y  == ScoreRun(IF stage = "compared" THEN Loaded(after) ELSE after, policies)
        ch == Compare(x, y)
    IN
    /\ {t.case : t \in Range(after)} = {t.case : t \in Range(before)}
    /\ Once(before) /\ (Once(after) => Net(ch) = CountGood(y) - CountGood(x))
    /\ OfKind(Compare(y, x), "regressed") = OfKind(ch, "fixed")

=============================================================================
