----------------------------- MODULE Workspace ------------------------------
(***************************************************************************)
(* A workspace in the database: the tables and foreign keys of migration   *)
(* 0001_phase6, the rows that requests and handlers insert, the removal of *)
(* runs and of the whole workspace by RetentionWorker beside a legal hold, *)
(* and the pages in which WorkspaceRepository lists runs.                  *)
(*                                                                         *)
(* A removal is one transaction of many statements.  Each sees what others *)
(* have committed so far, as READ COMMITTED does; what it has deleted      *)
(* blocks whoever refers to it until the transaction ends.                 *)
(***************************************************************************)
EXTENDS Naturals, FiniteSets, SequencesExt

CONSTANTS
  Rows,        \* rows there may be
  Table,       \* [Rows -> Owned]: the table of each
  Refers,      \* [Rows -> SUBSET Rows]: the rows its foreign keys name
  Created,     \* [Rows -> Nat]: created_at
  Rank,        \* [Rows -> Nat]: the order of the ids
  Groups,      \* sets of rows that are inserted in one transaction
  Limits,      \* sizes of a page
  MaxVersion,  \* bound: the version of the workspace's row that a hold or a
               \* request to delete still starts from
  NoRow

VARIABLES
  tables,      \* tables that exist
  upgraded,    \* the migration has been applied
  rows,        \* committed rows
  used,        \* rows that have been inserted: an id is not used again
  workspace,   \* the workspace's own row
  asked,       \* a delete_workspace job waits
  tx,          \* the transaction of the retention worker
  refused,     \* a foreign key refused a statement, and nobody had interfered
  reader       \* a client that pages through the runs

workspaceVars == <<tables, upgraded, rows, used, workspace, asked, tx, refused, reader>>

-----------------------------------------------------------------------------
(* The schema.                                                             *)

Owned ==
  {"memberships", "projects", "datasets", "dataset_versions", "experiments", "runs",
   "conversations", "turns", "spans", "events", "artifacts", "evaluator_definitions",
   "evaluator_results", "policies", "jobs", "audit_events", "retention_rules", "reviews",
   "artifact_deletions"}

Key(from, to, action) == [from |-> from, to |-> to, action |-> action]

OwnedKeys == {Key(t, "workspaces", "cascade") : t \in Owned}

ResourceKeys ==
  {Key("identities", "users", "cascade"), Key("memberships", "users", "cascade"),
   Key("experiments", "projects", "restrict"), Key("dataset_versions", "datasets", "cascade"),
   Key("runs", "experiments", "restrict")}

TraceKeys ==
  {Key("conversations", "runs", "cascade"), Key("turns", "conversations", "cascade"),
   Key("spans", "runs", "cascade"), Key("spans", "spans", "cascade"),
   Key("events", "runs", "cascade"), Key("events", "artifacts", "restrict")}

ResultKeys ==
  {Key("evaluator_results", "runs", "cascade"),
   Key("evaluator_results", "evaluator_definitions", "restrict"),
   Key("reviews", "runs", "cascade")}

ForeignKeys == OwnedKeys \cup ResourceKeys \cup TraceKeys \cup ResultKeys

UpgradeOrder ==
  <<"users", "workspaces", "identities", "memberships", "projects", "datasets", "policies",
    "evaluator_definitions", "artifacts", "experiments", "dataset_versions", "runs",
    "conversations", "turns", "spans", "events", "evaluator_results", "reviews", "jobs",
    "audit_events", "retention_rules", "artifact_deletions">>

\* Faulty variant: the rows of a parent are dropped before those of its children.
DowngradeParentFirst ==
  <<"artifact_deletions", "retention_rules", "audit_events", "jobs", "reviews",
    "evaluator_results", "events", "spans", "conversations", "turns", "runs",
    "dataset_versions", "experiments", "artifacts", "evaluator_definitions", "policies",
    "datasets", "projects", "memberships", "identities", "workspaces", "users">>

DowngradeOrder ==
  <<"artifact_deletions", "retention_rules", "audit_events", "jobs", "reviews",
    "evaluator_results", "events", "spans", "turns", "conversations", "runs",
    "dataset_versions", "experiments", "artifacts", "evaluator_definitions", "policies",
    "datasets", "projects", "memberships", "identities", "workspaces", "users">>

\* The tables a table refers to in models.py, besides workspaces and users.
ModelKeys(t) ==
  CASE t = "dataset_versions" -> {"datasets"}
    [] t = "experiments" -> {"projects"}
    [] t = "runs" -> {"experiments"}
    [] t \in {"conversations", "reviews"} -> {"runs"}
    [] t = "turns" -> {"conversations"}
    [] t = "spans" -> {"runs"}
    [] t = "events" -> {"runs", "artifacts"}
    [] t = "evaluator_results" -> {"runs", "evaluator_definitions"}
    [] OTHER -> {}

-----------------------------------------------------------------------------
ASSUME WorkspaceAssumption ==
  /\ IsFiniteSet(Rows) /\ NoRow \notin Rows
  /\ Table \in [Rows -> Owned] /\ Refers \in [Rows -> SUBSET Rows]
  /\ Created \in [Rows -> Nat] /\ Rank \in [Rows -> Nat]
  /\ \A x, y \in Rows : Rank[x] = Rank[y] => x = y
  /\ Groups \subseteq SUBSET Rows /\ Limits \subseteq Nat \ {0} /\ MaxVersion \in Nat \ {0}

\* Rows refer to rows as the foreign keys say, and ingest makes an artifact for
\* one event: no other event refers to it.
ASSUME ReferenceAssumption ==
  /\ \A x \in Rows : \A y \in Refers[x] :
       \E k \in ForeignKeys : k.from = Table[x] /\ k.to = Table[y]
  /\ \A v, w \in Rows : \A a \in Refers[v] \cap Refers[w] :
       Table[a] = "artifacts" => v = w

NoTx == [kind |-> "none", queue |-> {}, run |-> NoRow, statement |-> 0, left |-> {},
         gone |-> {}, doomed |-> {}, version |-> 0, due |-> {}, late |-> FALSE, failed |-> FALSE]
NoReader == [limit |-> 0, after |-> NoRow, listed |-> <<>>, before |-> {}, done |-> FALSE]

Of(t) == {x \in rows : Table[x] = t}

\* One foreign key further: E and the rows of X that refer to it.
Further(E, X) == E \cup {x \in X : Refers[x] \cap E # {}}

\* The rows of X that go with those of S, one foreign key after the other.
Dependents(S, X) ==
  LET D[n \in 0..Cardinality(Rows)] == IF n = 0 THEN S ELSE Further(D[n - 1], X)
  IN D[Cardinality(Rows)]

WorkspaceInit ==
  /\ tables = {} /\ upgraded = FALSE
  /\ rows = {} /\ used = {}
  /\ workspace = [hold |-> FALSE, version |-> 1, deleted |-> FALSE]
  /\ asked = FALSE /\ refused = FALSE
  /\ tx = NoTx /\ reader = NoReader

schema == <<tables, upgraded>>
data == <<rows, used, workspace, asked, tx, reader>>

\* upgrade(): a table needs the tables its foreign keys name.
CreateTable ==
  LET t == UpgradeOrder[Cardinality(tables) + 1] IN
  /\ ~upgraded
  /\ tables' = tables \cup {t}
  /\ upgraded' = (Cardinality(tables') = Len(UpgradeOrder))
  /\ refused' = (refused \/ \E k \in ForeignKeys : k.from = t /\ k.to \notin tables')
  /\ UNCHANGED data

\* downgrade(): a table that others still refer to cannot be dropped.
DropTable ==
  LET t == DowngradeOrder[Len(DowngradeOrder) - Cardinality(tables) + 1] IN
  /\ upgraded /\ tables # {} /\ used = {}
  /\ tables' = tables \ {t}
  /\ refused' = (refused \/ \E k \in ForeignKeys : k.to = t /\ k.from \in tables')
  /\ UNCHANGED <<upgraded, data>>

Serving == upgraded /\ Cardinality(tables) = Len(UpgradeOrder)

\* Rows are inserted and committed.  One that refers to a row an open
\* transaction has deleted waits for the end of that transaction.
Insert(S) ==
  /\ Serving /\ S \cap used = {}
  /\ \A x \in S : Refers[x] \subseteq (rows \ tx.gone) \cup S
  /\ rows' = rows \cup S /\ used' = used \cup S
  /\ tx' = [tx EXCEPT !.late = tx.kind # "none"]
  /\ UNCHANGED <<schema, workspace, asked, refused, reader>>

\* The legal hold is set or lifted through the ORM, as the tests do (the service
\* has no request for it); the ORM counts the versions of the row.
Hold ==
  /\ Serving /\ workspace.version < MaxVersion
  /\ workspace' = [workspace EXCEPT !.hold = ~@, !.version = @ + 1]
  /\ UNCHANGED <<schema, rows, used, asked, tx, refused, reader>>

-----------------------------------------------------------------------------
(* Removal.                                                                *)

\* The rows the DELETE of S takes along: ON DELETE CASCADE.
Cascade(S) == Dependents(S, {x \in rows \ tx.gone :
  \A y \in Refers[x] : Key(Table[x], Table[y], "cascade") \in ForeignKeys \/ y \notin S})

\* A row that is not deleted would be left without the row it refers to.
Dangling(D) ==
  \E x \in rows \ (tx.gone \cup D) : Refers[x] \cap D # {}

\* A DELETE of the rows S, the rest of the transaction being T.
Delete(S, T) ==
  LET D == Cascade(S \ tx.gone) IN
  /\ tx' = [T EXCEPT !.gone = @ \cup D, !.failed = Dangling(D)]
  /\ refused' = (refused \/ (Dangling(D) /\ ~tx.late))

Moves == /\ tx.kind # "none" /\ ~tx.failed
         /\ UNCHANGED <<schema, rows, used, asked, reader>>

Artifacts(r) ==
  {a \in Of("artifacts") : \E v \in Of("events") : {a, r} \subseteq Refers[v]}

\* What a removal of the runs R promises to remove.
DueRuns(R) == Dependents(R, rows) \cup UNION {Artifacts(r) : r \in R}

\* RetentionWorker.apply takes the runs created before a cutoff, a delete_run
\* job takes one.  Either reads the hold once.
BeginRuns(R) ==
  /\ Serving /\ tx.kind = "none" /\ R # {} /\ ~workspace.hold
  /\ tx' = [NoTx EXCEPT !.kind = "runs", !.queue = R, !.due = DueRuns(R)]
  /\ UNCHANGED <<schema, rows, used, workspace, asked, refused, reader>>

Expired(cutoff) == {r \in Of("runs") : Created[r] < cutoff}

RunSteps == <<"turns", "reviews", "evaluator_results", "spans", "events", "conversations">>

\* Faulty variant: the artifacts are noted when the events are gone.
SurveyLate(r) ==
  /\ tx.kind = "runs" /\ tx.run = NoRow /\ r \in tx.queue
  /\ Moves
  /\ tx' = [tx EXCEPT !.queue = @ \ {r}, !.run = r, !.statement = 1]
  /\ UNCHANGED <<workspace, refused>>

\* delete_run notes the artifacts of the run's events first.
Survey(r) ==
  /\ tx.kind = "runs" /\ tx.run = NoRow /\ r \in tx.queue
  /\ Moves
  /\ tx' = [tx EXCEPT !.queue = @ \ {r}, !.run = r, !.statement = 1,
                      !.doomed = @ \cup Artifacts(r)]
  /\ UNCHANGED <<workspace, refused>>

\* One DELETE statement of delete_run: turns by their conversation.
RunStep ==
  LET t == RunSteps[tx.statement]
      last == tx.statement = Len(RunSteps)
      BelongsTo(x) == \/ tx.run \in Refers[x]
                      \/ t = "turns" /\ \E c \in Refers[x] : tx.run \in Refers[c]
  IN
  /\ tx.kind = "runs" /\ tx.statement # 0 /\ Moves
  /\ Delete({x \in Of(t) : BelongsTo(x)},
            IF last THEN [tx EXCEPT !.statement = 0, !.run = NoRow,
                                    !.doomed = @ \cup {tx.run}]
                    ELSE [tx EXCEPT !.statement = @ + 1])
  /\ UNCHANGED workspace

\* POST /workspaces/{id}/delete.
Ask ==
  /\ Serving /\ ~asked /\ ~workspace.hold /\ workspace.version < MaxVersion
  /\ asked' = TRUE
  /\ UNCHANGED <<schema, rows, used, workspace, tx, refused, reader>>

\* The tables that delete_workspace empties in its loop, and the order of them:
\* Base.metadata.sorted_tables backwards, whoever refers to a table before it; the
\* jobs come last.
Emptied == Owned \ {"audit_events", "artifact_deletions", "jobs", "artifacts"}

FirstOf(T) ==
  IF T = {"jobs"} THEN "jobs"
  ELSE CHOOSE t \in T \ {"jobs"} : \A u \in T \ {t} : t \notin ModelKeys(u)

\* The handler of delete_workspace refuses under a hold; it lists the artifacts.
BeginWorkspace ==
  /\ Serving /\ asked /\ tx.kind = "none" /\ ~workspace.hold
  /\ tx' = [NoTx EXCEPT !.kind = "workspace",
                        !.left = {"jobs"} \cup (Emptied \cap {Table[x] : x \in Rows}),
                        !.doomed = Of("artifacts"), !.version = workspace.version,
                        !.due = {x \in rows : Table[x] \in Emptied \cup {"artifacts", "jobs"}}]
  /\ UNCHANGED <<schema, rows, used, workspace, asked, refused, reader>>

\* One DELETE statement of delete_workspace.
EmptyTable ==
  /\ tx.kind = "workspace" /\ tx.left # {} /\ Moves
  /\ LET t == FirstOf(tx.left) IN Delete(Of(t), [tx EXCEPT !.left = @ \ {t}])
  /\ UNCHANGED workspace

\* The objects marked with session.delete go when the session is flushed: at the
\* end, and before that when an artifact_deletions row is new.
Flush ==
  /\ tx.run = NoRow /\ tx.left = {} /\ Moves
  /\ \E S \in (SUBSET (tx.doomed \ tx.gone)) \ {{}} : Delete(S, tx)
  /\ UNCHANGED workspace

\* Setting deleted_at compares the version of the workspace's row.
Unchanged == tx.kind = "workspace" => tx.version = workspace.version

Commit ==
  /\ tx.kind # "none" /\ ~tx.failed /\ tx.queue = {} /\ tx.run = NoRow
  /\ tx.left = {} /\ tx.doomed \subseteq tx.gone /\ Unchanged
  /\ rows' = rows \ tx.gone
  /\ IF tx.kind = "workspace"
     THEN /\ asked' = FALSE
          /\ workspace' = [workspace EXCEPT !.deleted = TRUE, !.version = @ + 1]
     ELSE UNCHANGED <<asked, workspace>>
  /\ tx' = NoTx
  /\ UNCHANGED <<schema, used, refused, reader>>

\* A refused statement, a stale version, a run that is gone, a lost lease, a
\* crash: the transaction is rolled back.
Abort ==
  /\ tx.kind # "none"
  /\ tx' = NoTx
  /\ UNCHANGED <<schema, rows, used, workspace, asked, refused, reader>>

-----------------------------------------------------------------------------
(* Pages.                                                                  *)

\* The order of a listing: created_at, id.
Later(x, y) == Created[x] > Created[y] \/ (Created[x] = Created[y] /\ Rank[x] > Rank[y])

Listing(S) ==
  CHOOSE s \in [1..Cardinality(S) -> S] : \A i, j \in DOMAIN s : i < j => Later(s[j], s[i])

\* Faulty variant: the cursor is the time alone.
BeyondTime(x, cursor) == Created[x] > Created[cursor]

\* The rows that follow the one in the cursor.
Beyond(x, cursor) ==
  Created[x] >= Created[cursor] /\ (Created[x] = Created[cursor] => Rank[x] > Rank[cursor])

\* The runs that a query with this cursor finds, in its order.
Found(after) == Listing({r \in Of("runs") : after # NoRow => Beyond(r, after)})

\* The first request for a page of limit runs starts a listing.
Open(limit) ==
  /\ Serving /\ reader = NoReader /\ Of("runs") # {}
  /\ reader' = [NoReader EXCEPT !.limit = limit, !.before = Of("runs")]
  /\ UNCHANGED <<schema, rows, used, workspace, asked, tx, refused>>

\* page(): one row more than the limit tells whether there is a next page.
Page ==
  LET found == Found(reader.after)
      rest  == Len(found) > reader.limit
      shown == IF rest THEN SubSeq(found, 1, reader.limit) ELSE found
  IN
  /\ reader.limit > 0 /\ ~reader.done
  /\ reader' = [reader EXCEPT !.listed = @ \o shown, !.done = ~rest,
                              !.after = IF rest THEN Last(shown) ELSE @]
  /\ UNCHANGED <<schema, rows, used, workspace, asked, tx, refused>>

WorkspaceNext ==
  \/ CreateTable \/ DropTable \/ Hold \/ Ask
  \/ \E S \in Groups : Insert(S)
  \/ \E r \in Of("runs") : BeginRuns({r}) \/ Survey(r)
  \/ \E r \in Of("runs") : BeginRuns(Expired(Created[r]))
  \/ BeginWorkspace \/ RunStep \/ EmptyTable \/ Flush \/ Commit \/ Abort
  \/ \E limit \in Limits : Open(limit)
  \/ Page

WorkspaceSpec == WorkspaceInit /\ [][WorkspaceNext]_workspaceVars

-----------------------------------------------------------------------------
(* Properties.                                                             *)

\* Types of the tables, the rows, the transaction and the listing of WorkspaceRepository.
WorkspaceTypeOK ==
  /\ tables \subseteq Owned \cup {"users", "identities", "workspaces"}
  /\ upgraded \in BOOLEAN /\ asked \in BOOLEAN /\ refused \in BOOLEAN
  /\ rows \subseteq used /\ used \subseteq Rows
  /\ workspace \in [hold : BOOLEAN, version : 1..MaxVersion + 1,
                    deleted : BOOLEAN]
  /\ tx.kind \in {"none", "runs", "workspace"} /\ tx.run \in Rows \cup {NoRow}
  /\ tx.queue \cup tx.gone \cup tx.doomed \cup tx.due \subseteq Rows
  /\ reader.before \subseteq Rows /\ Range(reader.listed) \subseteq Rows

\* A table is created after and dropped before the tables its foreign keys name,
\* and delete_run and delete_workspace delete in an order that no RESTRICT stops:
\* a removal that fails on a foreign key was beside an insertion.
NeverRefused == ~refused

Committed == tx.kind # "none" /\ tx' = NoTx /\ rows' # rows

\* A removal that commits has removed all that was due when it began, the raw
\* events, what was derived from them and their artifacts alike, and nothing that
\* does not belong to the removed runs: the rest of the workspace is intact.  And a
\* legal hold that is committed while delete_workspace runs stops it: no workspace
\* is marked deleted under a hold.
DeletesExactly ==
  [][/\ Committed =>
          /\ tx.due \cap rows' = {}
          /\ tx.kind = "runs" =>
               LET D == Dependents(tx.due, rows) IN
               rows \ rows' \subseteq D \cup UNION {Refers[v] \cap Of("artifacts") : v \in D}
     /\ ~workspace.deleted /\ workspace'.deleted => ~workspace.hold]_workspaceVars

\* A client that follows next_cursor to the end has seen every run that was there
\* from the first page to the last exactly once and in order, whatever was inserted
\* and deleted between two pages.
PagesExact ==
  /\ \A i, j \in DOMAIN reader.listed : i < j => Later(reader.listed[j], reader.listed[i])
  /\ reader.done => reader.before \cap rows \subseteq Range(reader.listed)

=============================================================================
