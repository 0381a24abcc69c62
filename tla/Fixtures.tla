------------------------------ MODULE Fixtures ------------------------------
(***************************************************************************)
(* blackbox/fixtures.py and the loop of replay.run_suite that drives it:   *)
(* for every case of a suite its fixtures are prepared in order, the agent *)
(* is run once, every fixture is verified, and what was prepared is        *)
(* cleaned up in reverse, whatever has been raised.  An exception that     *)
(* leaves run_many ends the run, and with it the traces made so far.       *)
(*                                                                         *)
(* A fixture is a record: the provider it names, what its configuration    *)
(* asks for ("fine", or what is wrong with it) and whether the suite, the  *)
(* configuration or the provider calls it destructive.                     *)
(***************************************************************************)
EXTENDS Integers, FiniteSets, Sequences

CONSTANT Suites    \* suites to run: sequences of cases, a case being a sequence of fixtures

VARIABLES
  suite, approved,   \* the call of run_suite
  phase,             \* where run_many is
  prepared,          \* how many fixtures of the case are prepared
  verified,          \* how many have been verified
  undone,            \* how many calls of cleanup there were
  live,              \* fixtures that hold what prepare set up: cleanup was not called yet
  happened,          \* what went wrong in this case: <<step, fixture>>
  raised,            \* what left run_suite: its kind, and the errors it carries
  traces,            \* run.traces: for each, which fixtures passed
  passed             \* fixtures of this case whose verification passed

fixtureVars ==
  <<suite, approved, phase, prepared, verified, undone, live, happened, raised, traces, passed>>
call == <<suite, approved>>

Nothing == [kind |-> "none", carries |-> {}]

\* The fixtures of the case that is run; its number is one more than the traces'.
Fixtures == suite[Len(traces) + 1]
Current == prepared + 1

FixturesInit ==
  /\ suite = <<>> /\ approved = FALSE /\ phase = "new"
  /\ prepared = 0 /\ verified = 0 /\ undone = 0 /\ live = {}
  /\ happened = {} /\ raised = Nothing /\ traces = <<>> /\ passed = {}

-----------------------------------------------------------------------------
(* The providers.                                                          *)

\* Configurations that HTTPFixtureProvider.prepare refuses, by what is wrong.
HTTPRefused == {"scheme", "credentials", "no_host", "name", "private", "method", "headers"}
\* What makes a snapshot over HTTP fail.
HTTPFails == {"redirect", "too_large", "unreachable"}

\* The statement guard of SQLReadOnlyFixtureProvider, and a query that fails.
SQLRefused == {"no_database", "not_one_statement", "not_read_only"}
SQLFails == {"query"}

\* FilesystemSandboxFixtureProvider refuses a path out of its root at once, a link
\* and a large file when it meets one.
FilesystemRefused == {"escapes"}
FilesystemFails == {"link", "too_large"}

\* InMemoryFixtureProvider updates and copies a mapping.
MemoryRefused == {"no_mapping"}
MemoryFails == {"not_json"}

\* A provider that an application brings may fail everywhere.
Refused ==
  [http |-> HTTPRefused, sql |-> SQLRefused, filesystem |-> FilesystemRefused,
   memory |-> MemoryRefused, custom |-> {"refused"}]
SnapshotFails ==
  [http |-> HTTPFails, sql |-> SQLFails, filesystem |-> FilesystemFails,
   memory |-> MemoryFails, custom |-> {"raises"}]
CleanupFails ==
  [http |-> {}, sql |-> {}, filesystem |-> {}, memory |-> {}, custom |-> {"raises"}]

Providers == DOMAIN Refused

\* HTTP reads expected_status as a number; the other built-ins only compare.
VerifyFails ==
  [http |-> {"not_a_number"}, sql |-> {}, filesystem |-> {}, memory |-> {},
   custom |-> {"raises"}]

-----------------------------------------------------------------------------
(* run_many.                                                               *)

\* An Exception ends the body of run_many, and an interrupt is no Exception.
Fail(step, n) ==
  /\ phase' = "cleaning"
  /\ happened' = happened \cup {<<step, n>>}

Start(s, a) ==
  /\ phase = "new"
  /\ suite' = s /\ approved' = a
  /\ phase' = IF s = <<>> THEN "over" ELSE "preparing"
  /\ UNCHANGED <<prepared, verified, undone, live, happened, raised, traces, passed>>

work == <<call, undone, raised, traces>>

Declined(f) ==
  \/ f.provider \notin Providers
  \/ f.destructive /\ ~approved
  \/ f.provider \in Providers /\ f.config \in Refused[f.provider]

\* A fixture counts as prepared from here on, before its first snapshot.
Prepare ==
  /\ phase = "preparing" /\ prepared < Len(Fixtures)
  /\ ~Declined(Fixtures[Current])
  /\ prepared' = Current /\ live' = live \cup {Current}
  /\ phase' = "snapshot"
  /\ UNCHANGED <<work, verified, happened, passed>>

\* One that is declined, or whose prepare raises, is not cleaned up.
PrepareFails ==
  /\ phase = "preparing" /\ prepared < Len(Fixtures)
  /\ Declined(Fixtures[Current])
  /\ Fail("prepare", Current)
  /\ UNCHANGED <<work, prepared, live, verified, passed>>

\* The snapshot before the operation.
Before ==
  /\ phase = "snapshot"
  /\ \/ phase' = "preparing" /\ UNCHANGED happened
     \/ SnapshotFails[Fixtures[prepared].provider] # {} /\ Fail("before", prepared)
  /\ UNCHANGED <<work, prepared, live, verified, passed>>

\* The agent answers and its trace is checked; or it raises.
Operate ==
  /\ phase = "preparing" /\ prepared = Len(Fixtures)
  /\ \/ phase' = "verifying" /\ UNCHANGED happened
     \/ Fail("operation", 0)
  /\ UNCHANGED <<work, prepared, live, verified, passed>>

\* An interrupt may arrive anywhere in the body.
Interrupt ==
  /\ phase \in {"preparing", "snapshot", "verifying"}
  /\ Fail("interrupt", 0)
  /\ UNCHANGED <<work, prepared, live, verified, passed>>

\* The snapshot after it and the verification, in the order of preparation.
Verify ==
  LET n == verified + 1 IN
  /\ phase = "verifying" /\ n <= prepared
  /\ LET p == Fixtures[n].provider IN
     \/ /\ verified' = n
        /\ passed' \in {passed, passed \cup {n}}
        /\ UNCHANGED <<phase, happened>>
     \/ /\ SnapshotFails[p] \cup VerifyFails[p] # {}
        /\ Fail("after", n)
        /\ UNCHANGED <<verified, passed>>
  /\ UNCHANGED <<work, prepared, live>>

Verified ==
  /\ phase = "verifying" /\ verified = prepared
  /\ phase' = "cleaning"
  /\ UNCHANGED <<work, prepared, live, verified, happened, passed>>

\* The next prepared fixture to clean up, last first.
Topmost == prepared - undone

\* Faulty variant: an error of a cleanup ends the loop.
CleanupUntilError ==
  /\ phase = "cleaning" /\ Topmost > 0
  /\ undone' = undone + 1 /\ live' = live \ {Topmost}
  /\ \/ UNCHANGED <<phase, happened, raised>>
     \/ /\ CleanupFails[Fixtures[Topmost].provider] # {}
        /\ happened' = happened \cup {<<"cleanup", Topmost>>}
        /\ raised' = [kind |-> "cleanup", carries |-> {<<"cleanup", Topmost>>}]
        /\ phase' = "over"
  /\ UNCHANGED <<call, prepared, verified, traces, passed>>

\* One cleanup: an error of it is collected and the others go on.
Cleanup ==
  /\ phase = "cleaning" /\ Topmost > 0
  /\ undone' = undone + 1 /\ live' = live \ {Topmost}
  /\ \/ UNCHANGED happened
     \/ /\ CleanupFails[Fixtures[Topmost].provider] # {}
        /\ happened' = happened \cup {<<"cleanup", Topmost>>}
  /\ UNCHANGED <<call, phase, prepared, verified, raised, traces, passed>>

\* An interrupt that arrives in a cleanup ends them all.
Cut ==
  /\ phase = "cleaning" /\ Topmost > 0
  /\ undone' = undone + 1 /\ live' = live \ {Topmost}
  /\ happened' = happened \cup {<<"cut", Topmost>>}
  /\ raised' = [kind |-> "interrupt", carries |-> {<<"cut", Topmost>>}]
  /\ phase' = "over"
  /\ UNCHANGED <<call, prepared, verified, traces, passed>>

CleanupErrors == {e \in happened : e[1] = "cleanup"}
Primary == {e \in happened : e[1] \notin {"cleanup", "interrupt"}}

\* Faulty variant: an error of a cleanup hides the one that came before.
RaisedLast ==
  CASE CleanupErrors # {} -> [kind |-> "cleanup", carries |-> CleanupErrors]
    [] CleanupErrors = {} /\ happened # {} -> [kind |-> "primary", carries |-> happened]
    [] OTHER -> Nothing

\* What leaves the finally block: errors of cleanups alone, or together with the
\* Exception that came before them.
Raised ==
  CASE CleanupErrors # {} /\ Primary # {} -> [kind |-> "group", carries |-> Primary \cup CleanupErrors]
    [] CleanupErrors # {} /\ Primary = {} -> [kind |-> "cleanup", carries |-> CleanupErrors]
    [] CleanupErrors = {} /\ happened # {} -> [kind |-> "primary", carries |-> happened]
    [] OTHER -> Nothing

\* run_suite keeps the trace, with one step for every verification, and goes on
\* with the next case.
Keep ==
  /\ phase = "cleaning" /\ Topmost = 0 /\ Raised = Nothing
  /\ traces' = Append(traces, passed)
  /\ phase' = IF Len(traces') = Len(suite) THEN "over" ELSE "preparing"
  /\ prepared' = 0 /\ verified' = 0 /\ undone' = 0 /\ passed' = {}
  /\ UNCHANGED <<call, live, happened, raised>>

\* Whatever was raised leaves run_suite, which has not returned its run.
Lose ==
  /\ phase = "cleaning" /\ Topmost = 0 /\ Raised # Nothing
  /\ raised' = Raised
  /\ phase' = "over"
  /\ UNCHANGED <<call, prepared, verified, undone, live, happened, traces, passed>>

FixturesNext ==
  \/ \E s \in Suites, a \in BOOLEAN : Start(s, a)
  \/ Prepare \/ PrepareFails \/ Before \/ Operate \/ Verify \/ Verified
  \/ Interrupt \/ Cleanup \/ Cut \/ Keep \/ Lose

FixturesSpec == FixturesInit /\ [][FixturesNext]_fixtureVars

-----------------------------------------------------------------------------
(* Properties.                                                             *)

Phases == {"new", "preparing", "snapshot", "verifying", "cleaning", "over"}

\* Types of the locals of run_many and of run_suite.
FixturesTypeOK ==
  /\ approved \in BOOLEAN /\ phase \in Phases
  /\ prepared \in Nat /\ verified \in 0..prepared /\ undone \in 0..prepared
  /\ live \subseteq 1..prepared /\ passed \subseteq 1..verified
  /\ raised.kind \in {"none", "primary", "cleanup", "group", "interrupt"}
  /\ raised.carries \subseteq happened

\* What prepare set up is given up in the reverse order, and nothing of it is left
\* when run_many returns its trace or raises: neither an agent, a snapshot, a
\* verification nor another cleanup that fails gets in the way, only an interrupt
\* that arrives in a cleanup does.
CleanedUp ==
  [][/\ \A n \in live \ live', m \in live' : m < n
     /\ phase' = "over" \/ traces' # traces =>
          live' = {} \/ raised'.kind = "interrupt"]_fixtureVars

\* No failure is lost: the exception that leaves run_suite carries each that there
\* was, but for an interrupt of the body that a failed cleanup hides, and what came
\* before an interrupt of a cleanup.  A run is returned only if there was none.
ErrorsKept ==
  phase = "over" =>
    \/ raised.kind = "interrupt"
    \/ raised.carries = happened
    \/ raised.kind = "cleanup" /\ happened = raised.carries \cup {<<"interrupt", 0>>}
=============================================================================
