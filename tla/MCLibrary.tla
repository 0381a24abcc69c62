------------------------------ MODULE MCLibrary -----------------------------
(***************************************************************************)
(* The parts of the program that do not share state with one another, each *)
(* on an instance of its own: a behaviour picks one part in its first      *)
(* state and stays in it.                                                  *)
(***************************************************************************)
EXTENDS Workspace, Fixtures, HttpAdapter, Judgement, Datasets, TLC

VARIABLE part

-----------------------------------------------------------------------------
(* A workspace: rows of every table that a removal meets, for two runs, and *)
(* three runs with nothing in them to list.                                *)

WsTable ==
  [project |-> "projects", experiment |-> "experiments", r1 |-> "runs", r2 |-> "runs",
   p1 |-> "runs", p2 |-> "runs", p3 |-> "runs", conversation |-> "conversations",
   turn |-> "turns", span |-> "spans", child |-> "spans",
   definition |-> "evaluator_definitions", result |-> "evaluator_results",
   artifact |-> "artifacts", event |-> "events", artifact2 |-> "artifacts",
   event2 |-> "events", job |-> "jobs", audit |-> "audit_events"]

WsRows == DOMAIN WsTable

WsRefers ==
  [experiment |-> {"project"}, r1 |-> {"experiment"}, conversation |-> {"r1"},
   turn |-> {"conversation"}, span |-> {"r1"}, child |-> {"r1", "span"},
   result |-> {"r1", "definition"}, event |-> {"r1", "artifact"}, event2 |-> {"r2", "artifact2"}]
    @@ [x \in WsRows |-> {}]

Whole ==
  {{"project", "experiment", "r1"}, {"r2"},
   {"conversation", "turn", "span", "child", "definition", "result"}, {"artifact", "event"},
   {"artifact2", "event2", "job", "audit"}}
Lone == {{"p1"}, {"p2"}, {"p3"}}

WsGroups == Lone \cup Whole
WsCreated == [x \in WsRows |-> IF x = "p3" THEN 1 ELSE 2]
WsRank ==
  [p1 |-> 1, p2 |-> 2, p3 |-> 3, r1 |-> 4, r2 |-> 5, project |-> 6, experiment |-> 7,
   conversation |-> 8, turn |-> 9, span |-> 10, child |-> 11, definition |-> 12, result |-> 13,
   artifact |-> 14, artifact2 |-> 15, event |-> 16, event2 |-> 17, job |-> 18, audit |-> 19]
PageSizes == {1, 2}

-----------------------------------------------------------------------------
(* Two cases that share an HTTP adapter; one of three addresses is private. *)

TwoCases == {"c1", "c2"}
ThreeAddresses == {"a1", "a2", "p"}
OnePrivate == {"p"}

-----------------------------------------------------------------------------
(* Suites of one case with one fixture, of every provider and flaw, and a   *)
(* suite of three cases with three, two and no fixtures.                   *)

F(p, c, d) == [provider |-> p, config |-> c, destructive |-> d]

OneFixture ==
  {F(p, "fine", d) : p \in {"http", "sql", "filesystem", "memory", "custom", "unknown"}, d \in BOOLEAN}
    \cup {F("http", c, FALSE) : c \in {"scheme", "credentials", "no_host", "name", "private", "method", "headers"}}
    \cup {F("sql", c, FALSE) : c \in {"no_database", "not_one_statement", "not_read_only"}}
    \cup {F("filesystem", "escapes", FALSE), F("memory", "no_mapping", FALSE), F("custom", "refused", FALSE)}

ThreeCases ==
  <<<<F("custom", "fine", FALSE), F("custom", "fine", FALSE), F("custom", "fine", TRUE)>>,
    <<F("http", "fine", FALSE), F("custom", "fine", FALSE)>>, <<>>>>

FixtureSuites == {<<<<f>>>> : f \in OneFixture} \cup {ThreeCases, <<>>}

-----------------------------------------------------------------------------
(* Suites of one case for every kind of assertion, and of two cases; one    *)
(* deviation at a time from a trace that fulfils everything.               *)

A(type, expected, selector) ==
  [type |-> type, expected |-> expected, selector |-> selector, operator |-> "lte",
   case |-> "unset", name |-> "", exists |-> TRUE]
C(id, expect, assertions) ==
  [id |-> id, expect |-> expect, assertions |-> assertions, evaluators |-> {},
   trajectory |-> <<"plan">>]

MustAnswer(id) ==
  C(id, "answer", <<A("text_contains", "due", ""), A("text_not_contains", "fee", ""),
                    A("citation", "terms", "")>>)
MustRefuse(id) == C(id, "refuse", <<A("refusal", TRUE, "")>>)

Assertions ==
  {A("text_exact", {"due"}, ""), A("substring", "due", ""), A("regex", "invalid", ""),
   A("json_schema", "due", ""), A("text_contains", "due", "memo"),
   A("text_contains", "due", "nowhere"), A("text_contains", "due", "malformed"),
   A("span_exists", "plan", ""), A("ordered_span_sequence", <<"plan", "call">>, ""),
   A("tool_call_count", 1, ""), A("tool_arguments", "q", ""), A("tool_result", "r", ""),
   A("latency", 3, ""), [A("tokens", 2, "") EXCEPT !.operator = "gt"],
   [A("token_count", 2, "") EXCEPT !.operator = "near"], A("cost_amount", 1, ""),
   A("policy_violation", "PII_IN_OUTPUT", ""),
   [A("policy_violation", "TOOL_NOT_ALLOWED", "") EXCEPT !.exists = FALSE],
   A("artifact_digest", "d", ""), [A("artifact_digest", "d", "") EXCEPT !.name = "other"],
   [A("tool_call_count", 1, "") EXCEPT !.name = "mail"], [A("text", {"Due"}, "") EXCEPT !.case = "insensitive"],
   [A("text_contains", "Due", "") EXCEPT !.case = "sensitive"],
   [A("text_exact", {"Due"}, "") EXCEPT !.case = "sensitive"],
   [A("regex", "DUE", "") EXCEPT !.case = "insensitive"], A("numeric", "number", ""), A("telepathy", 1, "")}

\* The lower case of the words that are spelt with capitals.
ThreeCapitals == [Due |-> "due", DUE |-> "due", Fee |-> "fee"]

Plain ==
  [refused |-> FALSE, answer |-> {"due"}, memo |-> {"due"},
   citations |-> {[source |-> "terms", support |-> 90000]}, best |-> 1, tools |-> <<>>,
   spans |-> <<>>, tokens |-> 1, priced |-> TRUE, amount |-> 1, fixtures |-> <<>>, digests |-> {},
   case |-> "", violations |-> {}, checks |-> 0, checked_with |-> {}]

Cites(terms, faq) ==
  {[source |-> "terms", support |-> x] : x \in terms}
    \cup {[source |-> "faq", support |-> x] : x \in faq}
Call(n) == [name |-> n, args |-> "q", result |-> "r"]
S(n, start, end) == [name |-> n, start |-> start, end |-> end, duration |-> end - start]
Legacy(n, duration) == [name |-> n, start |-> 0, end |-> 0, duration |-> duration]

Answers ==
  {[Plain EXCEPT !.refused = r, !.answer = x, !.citations = c, !.best = b] :
     r \in BOOLEAN, x \in {{}, {"due"}, {"due", "fee"}, {"Due", "Fee"}, {"email", "json", "number"}}, b \in {0, 1},
     c \in {Cites({}, {}), Cites({90000}, {}), Cites({30000}, {}), Cites({90000}, {30000}),
            Cites({}, {60000}), Cites({59996}, {})}}

Deeds ==
  {[Plain EXCEPT !.tools = x, !.tokens = n] :
     x \in {<<Call("search")>>, <<Call("search"), Call("mail")>>}, n \in {1, 3}}
    \cup {[Plain EXCEPT !.fixtures = f, !.priced = p, !.amount = IF p THEN 2 ELSE 0] :
            f \in {<<TRUE>>, <<TRUE, FALSE>>}, p \in BOOLEAN}
    \cup {[Plain EXCEPT !.spans = x] :
            x \in {<<S("plan", 1, 3), S("call", 2, 4)>>,
                   <<S("call", 5, 6), S("plan", 1, 4), S("call", 2, 3)>>,
                   <<S("plan", 0, 0)>>, <<Legacy("plan", 4), Legacy("call", 2)>>,
                   <<Legacy("plan", 9), S("call", 1, 3)>>, <<S("plan", 2, 2), S("call", 1, 3), S("call", 3, 5)>>}}
    \cup {[Plain EXCEPT !.digests = {[name |-> "sheet", digest |-> "d"]}, !.memo = {}]}

Strict ==
  [evidence_floor |-> 1, token_budget |-> 0, allowed_tools |-> {"search"},
   require_citations |-> TRUE, forbid_pii |-> TRUE]
Lax ==
  [Strict EXCEPT !.evidence_floor = 0, !.token_budget = 2, !.require_citations = FALSE,
                 !.forbid_pii = FALSE]

\* The last of them is an edited file: nobody records with it.
FewSuites ==
  {<<C("a", "answer", <<a, A("text_not_contains", "fee", "")>>)>> : a \in Assertions}
    \cup {<<MustAnswer("a")>>, <<MustRefuse("a")>>, <<MustAnswer("b")>>,
          <<MustAnswer("a"), MustRefuse("b")>>, <<MustRefuse("a"), MustAnswer("b")>>,
          <<[MustAnswer("a") EXCEPT !.evaluators = {"cost"}]>>,
          <<MustAnswer("a"), MustRefuse("a")>>}
    \cup {<<C("a", "answer", <<[A("text_not_contains", "Fee", "") EXCEPT !.case = x]>>)>> :
            x \in {"unset", "sensitive"}}
FewTraces == Answers \cup Deeds
TwoPolicySets == {Strict, Lax}

\* Runs of two cases and replays: only these traces, to keep the instance small.
Few == {Plain, [Plain EXCEPT !.refused = TRUE], [Plain EXCEPT !.answer = {}],
        [Plain EXCEPT !.citations = {}]}
FewWhenMany ==
  Len(suiteFile') > 1 \/ stage' \in {"replay", "compared"} =>
    Range(before') \cup Range(after') \subseteq
      {Apply(Finished(t, MustAnswer(id)), policies') : t \in Few, id \in {"a", "b"}}

-----------------------------------------------------------------------------
(* Files that include each other along a diamond and in a circle.          *)

Raw(id, parameters, templated, tags) ==
  [id |-> id, parameters |-> parameters, templated |-> templated, flaw |-> "none",
   tags |-> tags]
File(includes, raw) == [includes |-> includes, cases |-> raw, parameters |-> <<"none">>]

SuiteContent ==
  [main |-> File(<<"left", "right">>, <<Raw("a", <<>>, FALSE, {"fast"})>>),
   left |-> File(<<>>, <<Raw("b", <<"x", "y">>, FALSE, {})>>),
   right |-> File(<<>>, <<Raw("c", <<"x">>, TRUE, {"fast"})>>),
   diamond |-> File(<<"main", "left">>, <<>>),
   loop |-> File(<<"right", "back">>, <<>>), back |-> File(<<"loop">>, <<>>),
   lost |-> File(<<"right", "nowhere">>, <<>>), empty |-> File(<<>>, <<>>),
   flawed |-> File(<<>>, <<[Raw("e", <<>>, FALSE, {}) EXCEPT !.flaw = "no_question"]>>),
   strange |-> File(<<>>, <<[Raw("e", <<>>, FALSE, {}) EXCEPT !.flaw = "unknown_field"]>>),
   unset |-> File(<<>>, <<Raw("f", <<"x", "other">>, TRUE, {})>>),
   twice |-> File(<<>>, <<Raw("d", <<"x", "x">>, FALSE, {})>>)]
OneTag == {"fast"}
ThreeRatios == {<<8, 1, 1>>, <<1, 1>>, <<0, 3, 0>>}

\* Bound: larger datasets are loaded, but neither sampled, split nor filtered ...
MaxDrawn == 4

\* ... and a chunk of four cases or three is not split once more.
MaxSplitAgain == 2

-----------------------------------------------------------------------------
libraryVars == <<part, workspaceVars, httpVars, fixtureVars, judgementVars, datasetVars>>

LibraryInit ==
  /\ part \in {"pages", "removal", "http", "fixtures", "judgement", "datasets"}
  /\ WorkspaceInit /\ HttpInit /\ FixturesInit /\ JudgementInit /\ DatasetsInit

\* Runs are listed while runs are inserted and removed ...
Pages ==
  /\ part = "pages" /\ WorkspaceNext
  /\ used' \subseteq UNION Lone /\ workspace'.version = 1 /\ tx'.kind # "workspace"

\* ... and removed, beside holds and insertions, when nobody lists them.
Removal ==
  /\ part = "removal" /\ WorkspaceNext
  /\ used' \subseteq UNION Whole /\ reader' = reader

LibraryNext ==
  /\ UNCHANGED part
  /\ \/ (Pages \/ Removal) /\ UNCHANGED <<httpVars, fixtureVars, judgementVars, datasetVars>>
     \/ part = "http" /\ HttpNext /\ UNCHANGED <<workspaceVars, fixtureVars, judgementVars, datasetVars>>
     \/ part = "fixtures" /\ FixturesNext /\ UNCHANGED <<workspaceVars, httpVars, judgementVars, datasetVars>>
     \/ /\ part = "judgement" /\ JudgementNext /\ FewWhenMany
        /\ UNCHANGED <<workspaceVars, httpVars, fixtureVars, datasetVars>>
     \/ /\ part = "datasets" /\ DatasetsNext /\ Len(cases) <= MaxDrawn
        /\ chunks = <<>> \/ chunks' = chunks \/ Len(cases) <= MaxSplitAgain
        /\ UNCHANGED <<workspaceVars, httpVars, fixtureVars, judgementVars>>

LibrarySpec == LibraryInit /\ [][LibraryNext]_libraryVars

-----------------------------------------------------------------------------
\* The type invariants of the five modules, each about the state of its part of the code.
LibraryTypeOK ==
  WorkspaceTypeOK /\ HttpTypeOK /\ FixturesTypeOK /\ JudgementTypeOK /\ DatasetsTypeOK

=============================================================================
