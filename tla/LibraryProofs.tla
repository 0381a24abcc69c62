---------------------------- MODULE LibraryProofs ---------------------------
(***************************************************************************)
(* What a case of a suite is run with: its fixtures (Fixtures) and the     *)
(* HTTP adapter of the agent under test (HttpAdapter), two parts that      *)
(* share no state; and at the end the five parts of the library together.  *)
(*                                                                         *)
(* Fixtures, whatever the suites: every suite, every number of fixtures,   *)
(* every provider and every way to leave run_many.  The cleanup is a       *)
(* stack: what is live is exactly what was prepared and not undone yet,    *)
(* numbered from below.  The body of run_many fails at most once, because  *)
(* a failure is what ends it.                                              *)
(*                                                                         *)
(* HttpAdapter for any number of cases, messages, addresses and retries.   *)
(* Two arguments that do not meet: a case resolves only while it holds the *)
(* lock and nobody has found addresses yet; and what a case has sent is    *)
(* bounded by the messages it was answered, in this attempt and those      *)
(* before, each with all its retries.                                      *)
(***************************************************************************)
EXTENDS MCLibrary, WorkspaceProofs, SuiteProofs, TLAPS

Body == {"new", "preparing", "snapshot", "verifying"}

Steps == {"prepare", "before", "operation", "interrupt", "after", "cleanup", "cut"}

Stacked ==
  /\ live = 1..(prepared - undone)
  /\ phase = "new" => prepared = 0
  /\ phase \in Body => undone = 0

\* What is not an error of a cleanup ended the body of run_many.
Failures == happened \ CleanupErrors

OneFailure ==
  /\ happened \subseteq Steps \X Nat
  /\ phase \in Body => happened = {}
  /\ phase # "over" => raised = Nothing
  /\ phase = "cleaning" =>
       /\ \A e, f \in Failures : e = f
       /\ \A e \in happened : e[1] = "interrupt" => e = <<"interrupt", 0>>

FInv == FixturesTypeOK /\ Stacked /\ OneFailure /\ ErrorsKept

-----------------------------------------------------------------------------
(* What leaves the finally block.                                          *)

LEMMA RaisedKind ==
  /\ Raised = Nothing => happened = {}
  /\ Raised.kind \in {"none", "primary", "cleanup", "group"}
  /\ Raised.carries \subseteq happened
<1>1. CleanupErrors \subseteq happened /\ Primary \subseteq happened
  BY DEF CleanupErrors, Primary
<1>2. CASE CleanupErrors # {} /\ Primary # {}
  BY <1>1, <1>2 DEF Raised, Nothing
<1>3. CASE CleanupErrors # {} /\ Primary = {}
  BY <1>1, <1>3 DEF Raised, Nothing
<1>4. CASE CleanupErrors = {} /\ happened # {}
  BY <1>4 DEF Raised, Nothing
<1>5. CASE CleanupErrors = {} /\ happened = {}
  BY <1>5 DEF Raised, Nothing
<1>6. QED
  BY <1>2, <1>3, <1>4, <1>5

\* One failure at most of the body, and those of the cleanups: what is raised carries
\* them all, but for an interrupt.
LEMMA RaisedCarriesAll ==
  ASSUME OneFailure, phase = "cleaning"
  PROVE  \/ Raised.carries = happened
         \/ Raised.kind = "cleanup" /\ happened = Raised.carries \cup {<<"interrupt", 0>>}
<1>1. CASE CleanupErrors = {} /\ happened # {}
  BY <1>1 DEF Raised
<1>2. CASE CleanupErrors = {} /\ happened = {}
  BY <1>2 DEF Raised, Nothing
<1>3. CASE CleanupErrors # {} /\ Primary = {}
  <2>1. Raised = [kind |-> "cleanup", carries |-> CleanupErrors]
    BY <1>3 DEF Raised
  <2>2. \A e \in Failures : e = <<"interrupt", 0>>
    BY <1>3 DEF Primary, Failures, CleanupErrors, OneFailure
  <2>3. happened = CleanupErrors \cup Failures
    BY DEF Failures, CleanupErrors
  <2>4. QED
    BY <2>1, <2>2, <2>3
<1>4. CASE CleanupErrors # {} /\ Primary # {}
  <2>1. Raised.carries = Primary \cup CleanupErrors
    BY <1>4 DEF Raised
  <2>2. PICK e \in Primary : TRUE
    BY <1>4
  <2>3. e \in Failures /\ e[1] # "interrupt"
    BY DEF Primary, Failures, CleanupErrors
  <2>4. \A f \in Failures : f = e
    BY <2>3 DEF OneFailure
  <2>5. Failures \subseteq Primary
    BY <2>2, <2>4
  <2>6. happened = Failures \cup CleanupErrors
    BY DEF Failures, CleanupErrors
  <2>7. Primary \subseteq happened
    BY DEF Primary
  <2>8. QED
    BY <2>1, <2>5, <2>6, <2>7
<1>5. QED
  BY <1>1, <1>2, <1>3, <1>4

\* The body fails: from nothing that happened to one thing.
LEMMA FailPreserves ==
  ASSUME NEW step \in Steps \ {"cleanup", "cut"}, NEW n \in Nat,
         step = "interrupt" => n = 0,
         OneFailure, phase \in Body, Fail(step, n), raised' = raised
  PROVE  OneFailure' /\ phase' = "cleaning" /\ happened \subseteq happened'
<1>1. happened = {} /\ phase' = "cleaning" /\ happened' = {<<step, n>>}
  BY DEF OneFailure, Fail
<1>2. raised' = Nothing
  BY DEF OneFailure, Body
<1>3. Failures' \subseteq happened'
  BY DEF Failures
<1>4. QED
  BY <1>1, <1>2, <1>3 DEF OneFailure, Body, Steps

-----------------------------------------------------------------------------
LEMMA FInitHolds == FixturesInit => FInv
<1> SUFFICES ASSUME FixturesInit
             PROVE  FInv
  OBVIOUS
<1>1. FixturesTypeOK
  <2>1. approved \in BOOLEAN /\ phase \in Phases
    BY DEF FixturesInit, Phases
  <2>2. prepared = 0 /\ verified = 0 /\ undone = 0 /\ live = {} /\ passed = {}
    BY DEF FixturesInit
  <2>3. raised.kind = "none" /\ raised.carries = {}
    BY DEF FixturesInit, Nothing
  <2>4. QED
    BY <2>1, <2>2, <2>3 DEF FixturesTypeOK
<1>2. Stacked
  BY DEF FixturesInit, Stacked
<1>3. OneFailure /\ ErrorsKept
  BY DEF FixturesInit, OneFailure, ErrorsKept, Nothing
<1>4. QED
  BY <1>1, <1>2, <1>3 DEF FInv

\* The steps of the body that do not fail leave what happened alone.
LEMMA BodyPreserves ==
  ASSUME FInv, phase \in Body, phase' \in Body \cup {"cleaning"},
         UNCHANGED <<happened, raised>>
  PROVE  OneFailure' /\ ErrorsKept'
<1>1. happened = {} /\ raised = Nothing
  BY DEF FInv, OneFailure, Body
<1>2. Failures' = {}
  BY <1>1 DEF Failures
<1>3. QED
  BY <1>1, <1>2 DEF OneFailure, ErrorsKept, Body

LEMMA StartPreserves ==
  ASSUME FInv, NEW s \in Suites, NEW a \in BOOLEAN, Start(s, a)
  PROVE  FInv'
<1>1. phase = "new" /\ happened = {} /\ raised = Nothing /\ undone = 0
  BY DEF FInv, Start, OneFailure, Stacked, Body
<1>2. phase' \in {"over", "preparing"}
  BY DEF Start
<1>3. UNCHANGED <<prepared, verified, undone, live, happened, raised, passed>>
  BY DEF Start
<1>4. FixturesTypeOK'
  BY <1>2, <1>3 DEF FInv, FixturesTypeOK, Start, Phases
<1>5. Stacked'
  BY <1>1, <1>2, <1>3 DEF FInv, Stacked, Body
<1>6. OneFailure' /\ ErrorsKept'
  BY <1>1, <1>2, <1>3 DEF OneFailure, ErrorsKept, Body, Nothing, Failures
<1>7. QED
  BY <1>4, <1>5, <1>6 DEF FInv

LEMMA PreparePreserves ==
  ASSUME FInv, Prepare
  PROVE  FInv'
<1>1. phase = "preparing" /\ phase' = "snapshot" /\ prepared' = prepared + 1
      /\ live' = live \cup {prepared + 1}
  BY DEF Prepare, Current
<1>2. UNCHANGED <<approved, verified, undone, happened, raised, passed>>
  BY DEF Prepare, work, call
<1>3. undone = 0 /\ live = 1..prepared /\ prepared \in Nat
  BY <1>1 DEF FInv, Stacked, Body, FixturesTypeOK
<1>4. FixturesTypeOK'
  BY <1>1, <1>2, <1>3 DEF FInv, FixturesTypeOK, Phases
<1>5. Stacked'
  BY <1>1, <1>2, <1>3 DEF Stacked, Body
<1>6. OneFailure' /\ ErrorsKept'
  BY <1>1, <1>2, BodyPreserves DEF Body
<1>7. QED
  BY <1>4, <1>5, <1>6 DEF FInv

\* The steps that fail or go on without preparing or undoing anything.
LEMMA UnpreparedPreserves ==
  ASSUME FInv, phase \in Body \ {"new"},
         UNCHANGED <<approved, prepared, live, undone, raised>>,
         verified' \in verified..prepared, passed' \subseteq 1..verified',
         \/ phase' \in Body \cup {"cleaning"} /\ phase' # "new" /\ happened' = happened
         \/ \E step \in Steps \ {"cleanup", "cut"}, n \in Nat :
              (step = "interrupt" => n = 0) /\ Fail(step, n)
  PROVE  FInv'
<1>1. OneFailure' /\ ErrorsKept' /\ phase' \in (Body \cup {"cleaning"}) \ {"new"}
      /\ happened \subseteq happened'
  <2>1. CASE phase' \in Body \cup {"cleaning"} /\ phase' # "new" /\ happened' = happened
    BY <2>1, BodyPreserves
  <2>2. CASE \E step \in Steps \ {"cleanup", "cut"}, n \in Nat :
               (step = "interrupt" => n = 0) /\ Fail(step, n)
    <3>1. OneFailure' /\ phase' = "cleaning" /\ happened \subseteq happened'
      BY <2>2, FailPreserves DEF FInv
    <3>2. QED
      BY <3>1 DEF ErrorsKept
  <2>3. QED
    BY <2>1, <2>2
<1>2. undone = 0
  BY DEF FInv, Stacked
<1>3. FixturesTypeOK'
  BY <1>1, <1>2 DEF FInv, FixturesTypeOK, Phases, Body
<1>4. Stacked'
  BY <1>1, <1>2 DEF FInv, Stacked
<1>5. QED
  BY <1>1, <1>3, <1>4 DEF FInv

LEMMA BodyStepsPreserve ==
  ASSUME FInv, PrepareFails \/ Before \/ Operate \/ Interrupt \/ Verify \/ Verified
  PROVE  FInv'
<1>a. prepared \in Nat /\ verified \in 0..prepared /\ passed \subseteq 1..verified
  BY DEF FInv, FixturesTypeOK
<1>1. CASE PrepareFails
  <2>1. phase = "preparing" /\ Fail("prepare", prepared + 1)
        /\ UNCHANGED <<approved, prepared, live, undone, raised, verified, passed>>
    BY <1>1 DEF PrepareFails, work, call, Current
  <2>2. "prepare" \in Steps \ {"cleanup", "cut"} /\ prepared + 1 \in Nat
    BY <1>a DEF Steps
  <2>3. QED
    BY <1>a, <2>1, <2>2, UnpreparedPreserves DEF Body
<1>2. CASE Before
  <2>1. phase = "snapshot" /\ UNCHANGED <<approved, prepared, live, undone, raised, verified, passed>>
        /\ ((phase' = "preparing" /\ happened' = happened) \/ Fail("before", prepared))
    BY <1>2 DEF Before, work, call
  <2>2. "before" \in Steps \ {"cleanup", "cut"}
    BY DEF Steps
  <2>3. QED
    BY <1>a, <2>1, <2>2, UnpreparedPreserves DEF Body
<1>3. CASE Operate
  <2>1. phase = "preparing" /\ UNCHANGED <<approved, prepared, live, undone, raised, verified, passed>>
        /\ ((phase' = "verifying" /\ happened' = happened) \/ Fail("operation", 0))
    BY <1>3 DEF Operate, work, call
  <2>2. "operation" \in Steps \ {"cleanup", "cut"}
    BY DEF Steps
  <2>3. QED
    BY <1>a, <2>1, <2>2, UnpreparedPreserves DEF Body
<1>4. CASE Interrupt
  <2>1. phase \in {"preparing", "snapshot", "verifying"} /\ Fail("interrupt", 0)
        /\ UNCHANGED <<approved, prepared, live, undone, raised, verified, passed>>
    BY <1>4 DEF Interrupt, work, call
  <2>2. "interrupt" \in Steps \ {"cleanup", "cut"}
    BY DEF Steps
  <2>3. QED
    BY <1>a, <2>1, <2>2, UnpreparedPreserves DEF Body
<1>5. CASE Verify
  <2> DEFINE n == verified + 1
  <2>1. phase = "verifying" /\ n <= prepared
        /\ UNCHANGED <<approved, prepared, live, undone, raised>>
    BY <1>5 DEF Verify, work, call
  <2>2. \/ /\ verified' = n /\ passed' \in {passed, passed \cup {n}}
           /\ phase' = phase /\ happened' = happened
        \/ /\ Fail("after", n) /\ verified' = verified /\ passed' = passed
    BY <1>5 DEF Verify
  <2>3. verified' \in verified..prepared /\ passed' \subseteq 1..verified'
    <3>1. CASE verified' = n /\ passed' \in {passed, passed \cup {n}}
      <4>1. \A k \in passed' : k \in 1..n
        BY <1>a, <3>1
      <4>2. QED
        BY <1>a, <2>1, <3>1, <4>1
    <3>2. CASE verified' = verified /\ passed' = passed
      BY <1>a, <2>1, <3>2
    <3>3. QED
      BY <2>2, <3>1, <3>2
  <2>4. "after" \in Steps \ {"cleanup", "cut"} /\ n \in Nat
    BY <1>a DEF Steps
  <2>5. QED
    BY <2>1, <2>2, <2>3, <2>4, UnpreparedPreserves DEF Body
<1>6. CASE Verified
  <2>1. phase = "verifying" /\ phase' = "cleaning"
        /\ UNCHANGED <<approved, prepared, live, undone, raised, verified, passed, happened>>
    BY <1>6 DEF Verified, work, call
  <2>2. QED
    BY <1>a, <2>1, UnpreparedPreserves DEF Body
<1>7. QED
  BY <1>1, <1>2, <1>3, <1>4, <1>5, <1>6

\* What a call of cleanup leaves of the stack.
LEMMA PopPreserves ==
  ASSUME FInv, phase = "cleaning", Topmost > 0,
         undone' = undone + 1, live' = live \ {Topmost},
         phase' \in {"cleaning", "over"}, prepared' = prepared
  PROVE  Stacked' /\ undone' \in 0..prepared' /\ live' \subseteq 1..prepared'
<1>1. prepared \in Nat /\ undone \in 0..prepared /\ live = 1..(prepared - undone)
  BY DEF FInv, FixturesTypeOK, Stacked
<1>2. undone < prepared
  BY <1>1 DEF Topmost
<1>3. live' = 1..(prepared - undone')
  BY <1>1, <1>2 DEF Topmost
<1>4. QED
  BY <1>1, <1>2, <1>3 DEF Stacked, Body

LEMMA CleanupPreserves ==
  ASSUME FInv, Cleanup
  PROVE  FInv'
<1>1. phase = "cleaning" /\ Topmost > 0 /\ undone' = undone + 1 /\ live' = live \ {Topmost}
      /\ UNCHANGED <<approved, phase, prepared, verified, raised, passed>>
  BY DEF Cleanup, call
<1>2. happened' = happened \/ happened' = happened \cup {<<"cleanup", Topmost>>}
  BY DEF Cleanup
<1>3. Stacked' /\ undone' \in 0..prepared' /\ live' \subseteq 1..prepared'
  BY <1>1, PopPreserves
<1>4. FixturesTypeOK'
  BY <1>1, <1>2, <1>3 DEF FInv, FixturesTypeOK
<1>5. Topmost \in Nat
  BY <1>1 DEF FInv, FixturesTypeOK, Topmost
<1>6. Failures' \subseteq Failures
  BY <1>2 DEF Failures, CleanupErrors
<1>7. OneFailure'
  BY <1>1, <1>2, <1>5, <1>6 DEF FInv, OneFailure, Body, Steps
<1>8. ErrorsKept'
  BY <1>1 DEF ErrorsKept
<1>9. QED
  BY <1>3, <1>4, <1>7, <1>8 DEF FInv

LEMMA CutPreserves ==
  ASSUME FInv, Cut
  PROVE  FInv'
<1>1. phase = "cleaning" /\ Topmost > 0 /\ undone' = undone + 1 /\ live' = live \ {Topmost}
      /\ phase' = "over" /\ UNCHANGED <<approved, prepared, verified, passed>>
  BY DEF Cut, call
<1>2. happened' = happened \cup {<<"cut", Topmost>>}
      /\ raised' = [kind |-> "interrupt", carries |-> {<<"cut", Topmost>>}]
  BY DEF Cut
<1>3. Stacked' /\ undone' \in 0..prepared' /\ live' \subseteq 1..prepared'
  BY <1>1, PopPreserves
<1>4. FixturesTypeOK'
  BY <1>1, <1>2, <1>3 DEF FInv, FixturesTypeOK, Phases
<1>5. Topmost \in Nat
  BY <1>1 DEF FInv, FixturesTypeOK, Topmost
<1>6. OneFailure' /\ ErrorsKept'
  BY <1>1, <1>2, <1>5 DEF FInv, OneFailure, Body, Steps, ErrorsKept
<1>7. QED
  BY <1>3, <1>4, <1>6 DEF FInv

LEMMA KeepPreserves ==
  ASSUME FInv, Keep
  PROVE  FInv'
<1>1. phase = "cleaning" /\ Topmost = 0 /\ Raised = Nothing /\ phase' \in {"over", "preparing"}
      /\ prepared' = 0 /\ verified' = 0 /\ undone' = 0 /\ passed' = {}
      /\ UNCHANGED <<approved, live, happened, raised>>
  BY DEF Keep, call
<1>2. happened = {} /\ raised = Nothing
  BY <1>1, RaisedKind DEF FInv, OneFailure
<1>3. live = {}
  BY <1>1 DEF FInv, Stacked, Topmost
<1>4. FixturesTypeOK'
  BY <1>1, <1>2, <1>3 DEF FInv, FixturesTypeOK, Phases
<1>5. Stacked'
  BY <1>1, <1>3 DEF Stacked, Body
<1>6. OneFailure' /\ ErrorsKept'
  BY <1>1, <1>2 DEF OneFailure, ErrorsKept, Nothing, Failures, Body
<1>7. QED
  BY <1>4, <1>5, <1>6 DEF FInv

LEMMA LosePreserves ==
  ASSUME FInv, Lose
  PROVE  FInv'
<1>1. phase = "cleaning" /\ phase' = "over" /\ raised' = Raised
      /\ UNCHANGED <<approved, prepared, verified, undone, live, happened, passed>>
  BY DEF Lose, call
<1>2. FixturesTypeOK'
  BY <1>1, RaisedKind DEF FInv, FixturesTypeOK, Phases
<1>3. Stacked'
  BY <1>1 DEF FInv, Stacked, Body
<1>4. OneFailure'
  BY <1>1 DEF FInv, OneFailure, Body
<1>5. ErrorsKept'
  BY <1>1, RaisedCarriesAll DEF FInv, ErrorsKept
<1>6. QED
  BY <1>2, <1>3, <1>4, <1>5 DEF FInv

LEMMA FInvStep ==
  ASSUME FInv, [FixturesNext]_fixtureVars
  PROVE  FInv'
<1>1. CASE \E s \in Suites, a \in BOOLEAN : Start(s, a)
  BY <1>1, StartPreserves
<1>2. CASE Prepare
  BY <1>2, PreparePreserves
<1>3. CASE PrepareFails \/ Before \/ Operate \/ Interrupt \/ Verify \/ Verified
  BY <1>3, BodyStepsPreserve
<1>4. CASE Cleanup
  BY <1>4, CleanupPreserves
<1>5. CASE Cut
  BY <1>5, CutPreserves
<1>6. CASE Keep
  BY <1>6, KeepPreserves
<1>7. CASE Lose
  BY <1>7, LosePreserves
<1>8. CASE UNCHANGED fixtureVars
  BY <1>8 DEF fixtureVars, FInv, FixturesTypeOK, Stacked, OneFailure, Failures, CleanupErrors, ErrorsKept
<1>9. QED
  BY <1>1, <1>2, <1>3, <1>4, <1>5, <1>6, <1>7, <1>8 DEF FixturesNext

\* Invariance of FInv: the locals of run_many are stacked as they are undone, and its
\* body fails at most once.
THEOREM FixturesInvariance == FixturesSpec => []FInv
<1>1. FixturesInit => FInv
  BY FInitHolds
<1>2. FInv /\ [FixturesNext]_fixtureVars => FInv'
  BY FInvStep
<1>3. QED
  BY <1>1, <1>2, PTL DEF FixturesSpec

-----------------------------------------------------------------------------
\* For every suite the locals of run_many and of run_suite keep their types.
THEOREM FixturesTypeCorrect == FixturesSpec => []FixturesTypeOK
<1>1. FInv => FixturesTypeOK
  BY DEF FInv
<1>2. QED
  BY <1>1, FixturesInvariance, PTL

\* No failure is lost: for every suite, what leaves run_suite carries all that went
\* wrong in fixtures, agent and cleanups, but for interrupts.
THEOREM NoErrorLost == FixturesSpec => []ErrorsKept
<1>1. FInv => ErrorsKept
  BY DEF FInv
<1>2. QED
  BY <1>1, FixturesInvariance, PTL

\* The fixture that a call of cleanup takes is the last one that is live.
LEMMA PopsLast ==
  ASSUME FInv, live' = live \ {Topmost}
  PROVE  \A n \in live \ live', m \in live' : m < n
<1>1. live = 1..Topmost /\ Topmost \in Int
  BY DEF FInv, FixturesTypeOK, Stacked, Topmost
<1>2. QED
  BY <1>1

\* What is prepared is cleaned up, last first, before run_many returns or raises, for
\* every number of fixtures and every failure but an interrupt of a cleanup.
THEOREM AlwaysCleanedUp == FixturesSpec => CleanedUp
<1> DEFINE Ordered == \A n \in live \ live', m \in live' : m < n
           Left == phase' = "over" \/ traces' # traces => live' = {} \/ raised'.kind = "interrupt"
<1>1. ASSUME FInv, FixturesNext
      PROVE  Ordered /\ Left
  <2>1. CASE \E s \in Suites, a \in BOOLEAN : Start(s, a)
    <3>1. phase = "new" /\ live' = live
      BY <2>1 DEF Start
    <3>2. live = {}
      BY <1>1, <3>1 DEF FInv, Stacked, Body
    <3>3. QED
      BY <3>1, <3>2
  <2>2. CASE Prepare
    BY <2>2 DEF Prepare, work
  <2>3. CASE PrepareFails \/ Before \/ Operate \/ Interrupt \/ Verify \/ Verified
    BY <2>3 DEF PrepareFails, Before, Operate, Interrupt, Verify, Verified, Fail, work
  <2>4. CASE Cleanup
    BY <1>1, <2>4, PopsLast DEF Cleanup
  <2>5. CASE Cut
    BY <1>1, <2>5, PopsLast DEF Cut
  <2>6. CASE Keep \/ Lose
    <3>1. live' = live /\ Topmost = 0
      BY <2>6 DEF Keep, Lose
    <3>2. live = {}
      BY <1>1, <3>1 DEF FInv, Stacked, Topmost
    <3>3. QED
      BY <3>1, <3>2
  <2>7. QED
    BY <1>1, <2>1, <2>2, <2>3, <2>4, <2>5, <2>6 DEF FixturesNext
<1>2. FInv /\ [FixturesNext]_fixtureVars => [Ordered /\ Left]_fixtureVars
  BY <1>1
<1>3. QED
  BY <1>2, FixturesInvariance, PTL DEF FixturesSpec, CleanedUp

-----------------------------------------------------------------------------
(* The HTTP adapter.                                                       *)

States == Awaiting \cup {"idle", "ready", "over"}

\* Requests for everything that was answered up to the h-th message of attempt t,
\* if every message took all its retries, in all attempts.
Spent(t, h) == ((t - 1) * Messages + h) * (MaxRetries + 1)

\* What the counts of a case say about where it is.
Fits(a, t, h, p, n) ==
  /\ a \in States /\ t \in 0..Attempts /\ h \in 0..Messages
  /\ p \in 0..MaxRetries + 1 /\ n \in Nat
  /\ a = "idle" => t = 0 /\ p = 0 /\ n = 0
  /\ a # "idle" => t > 0
  /\ a = "backoff" => t < Attempts /\ p = 0 /\ n <= Spent(t, Messages)
  /\ a \in {"lock", "resolve", "ready", "token"} => p = 0 /\ n <= Spent(t, h)
  /\ a \in {"token", "reply", "sleep"} => h < Messages
  /\ a \in {"reply", "sleep"} => n <= Spent(t, h) + p
  /\ a = "sleep" => p <= MaxRetries
  /\ a = "over" => n <= Spent(Attempts, Messages)

Counted ==
  /\ at \in [Cases -> States]
  /\ tries \in [Cases -> Nat] /\ heard \in [Cases -> Nat]
  /\ posts \in [Cases -> Nat] /\ total \in [Cases -> Nat]
  /\ \A c \in Cases : Fits(at[c], tries[c], heard[c], posts[c], total[c])

\* Only the holder of the lock resolves, and only as long as nobody has.
Guarded ==
  /\ PinnedDestination
  /\ \A c \in Cases : at[c] = "resolve" => holder = c /\ addresses = {}

SharedTypes ==
  /\ holder \in Cases \cup {Nobody}
  /\ addresses \subseteq Addresses /\ dialed \subseteq Addresses
  /\ client \in BOOLEAN /\ closed \in {"no", "begun", "yes"}

HInv == Counted /\ Guarded /\ SharedTypes

-----------------------------------------------------------------------------
(* Arithmetic of retries.                                                  *)

LEMMA ProductGrows ==
  ASSUME NEW a \in Nat, NEW b \in Nat, NEW k \in Nat, a <= b
  PROVE  a * k <= b * k
BY Z3

LEMMA SpentNat ==
  ASSUME NEW t \in Nat, NEW h \in Nat, t > 0
  PROVE  Spent(t, h) \in Nat
<1>1. (t - 1) * Messages \in Nat /\ MaxRetries + 1 \in Nat
  BY HttpAssumption
<1>2. (t - 1) * Messages + h \in Nat
  BY <1>1
<1>3. QED
  BY <1>1, <1>2 DEF Spent

LEMMA SpentNext ==
  ASSUME NEW t \in Nat, NEW h \in Nat, t > 0
  PROVE  /\ Spent(t, h + 1) = Spent(t, h) + MaxRetries + 1
         /\ Spent(t + 1, 0) = Spent(t, Messages)
<1> DEFINE k == (t - 1) * Messages
           r == MaxRetries + 1
<1>1. k \in Nat /\ r \in Nat
  BY HttpAssumption
<1>2. k + h \in Nat
  BY <1>1
<1>3. (k + h + 1) * r = (k + h) * r + r
  BY <1>1
<1>4. t * Messages = k + Messages
  BY HttpAssumption
<1>5. QED
  BY <1>1, <1>2, <1>3, <1>4, HttpAssumption DEF Spent

LEMMA SpentGrows ==
  ASSUME NEW t \in Nat, NEW u \in Nat, t > 0, t <= u,
         NEW h \in Nat, NEW i \in Nat, h <= i
  PROVE  Spent(t, h) <= Spent(u, i)
<1> DEFINE k == (t - 1) * Messages
           l == (u - 1) * Messages
<1>1. t - 1 \in Nat /\ u - 1 \in Nat /\ t - 1 <= u - 1 /\ Messages \in Nat
      /\ MaxRetries + 1 \in Nat
  BY HttpAssumption
<1>2. k <= l
  BY <1>1, ProductGrows
<1>3. k \in Nat /\ l \in Nat
  BY <1>1
<1>4. k + h \in Nat /\ l + i \in Nat /\ k + h <= l + i
  BY <1>2, <1>3
<1>5. (k + h) * (MaxRetries + 1) <= (l + i) * (MaxRetries + 1)
  BY <1>1, <1>4, ProductGrows
<1>6. QED
  BY <1>5 DEF Spent

\* A case may be over after whatever it has sent.
LEMMA OverFits ==
  ASSUME NEW a, NEW t, NEW h, NEW p, NEW n,
         Fits(a, t, h, p, n), a # "idle"
  PROVE  Fits("over", t, h, p, n)
<1>1. t \in Nat /\ t > 0 /\ t <= Attempts /\ h \in Nat /\ h <= Messages
      /\ p \in Nat /\ p <= MaxRetries + 1 /\ n \in Nat
      /\ Attempts \in Nat /\ Messages \in Nat /\ MaxRetries \in Nat
  BY HttpAssumption DEF Fits
<1>2. n <= Spent(Attempts, Messages)
  <2>0. a \in States
    BY DEF Fits
  <2>1. CASE a = "backoff"
    <3>1. n <= Spent(t, Messages)
      BY <2>1 DEF Fits
    <3>2. Spent(t, Messages) <= Spent(Attempts, Messages)
      BY <1>1, SpentGrows
    <3>3. Spent(t, Messages) \in Nat /\ Spent(Attempts, Messages) \in Nat
      BY <1>1, SpentNat
    <3>4. QED
      BY <1>1, <3>1, <3>2, <3>3
  <2>2. CASE a \in {"lock", "resolve", "ready", "token"}
    <3>1. n <= Spent(t, h)
      BY <2>2 DEF Fits
    <3>2. Spent(t, h) <= Spent(Attempts, Messages)
      BY <1>1, SpentGrows
    <3>3. Spent(t, h) \in Nat /\ Spent(Attempts, Messages) \in Nat
      BY <1>1, SpentNat
    <3>4. QED
      BY <1>1, <3>1, <3>2, <3>3
  <2>3. CASE a \in {"reply", "sleep"}
    <3>1. n <= Spent(t, h) + p /\ h + 1 <= Messages
      BY <1>1, <2>3 DEF Fits
    <3>2. Spent(t, h + 1) <= Spent(Attempts, Messages)
      BY <1>1, <3>1, SpentGrows
    <3>3. Spent(t, h) \in Nat /\ Spent(t, h + 1) = Spent(t, h) + MaxRetries + 1
      BY <1>1, SpentNat, SpentNext
    <3>4. Spent(Attempts, Messages) \in Nat
      BY <1>1, SpentNat
    <3>5. QED
      BY <1>1, <3>1, <3>2, <3>3, <3>4
  <2>4. CASE a = "over"
    BY <2>4 DEF Fits
  <2>5. QED
    BY <2>0, <2>1, <2>2, <2>3, <2>4 DEF States, Awaiting
<1>3. QED
  BY <1>1, <1>2 DEF Fits, States

-----------------------------------------------------------------------------
(* Steps.                                                                  *)

\* A step of c gives it other counts, which fit as well.
LEMMA CaseStep ==
  ASSUME Counted, NEW c \in Cases, NEW a, NEW t, NEW h, NEW p, NEW n,
         Fits(a, t, h, p, n),
         at' = [at EXCEPT ![c] = a],
         tries' = [tries EXCEPT ![c] = t] \/ (tries' = tries /\ tries[c] = t),
         heard' = [heard EXCEPT ![c] = h] \/ (heard' = heard /\ heard[c] = h),
         posts' = [posts EXCEPT ![c] = p] \/ (posts' = posts /\ posts[c] = p),
         total' = [total EXCEPT ![c] = n] \/ (total' = total /\ total[c] = n)
  PROVE  Counted'
<1>1. a \in States /\ t \in Nat /\ h \in Nat /\ p \in Nat /\ n \in Nat
  BY DEF Fits
<1>2. /\ at' \in [Cases -> States]
      /\ tries' \in [Cases -> Nat] /\ heard' \in [Cases -> Nat]
      /\ posts' \in [Cases -> Nat] /\ total' \in [Cases -> Nat]
  BY <1>1 DEF Counted
<1>3. ASSUME NEW d \in Cases
      PROVE  Fits(at'[d], tries'[d], heard'[d], posts'[d], total'[d])
  <2>1. CASE d = c
    <3>1. at'[d] = a /\ tries'[d] = t /\ heard'[d] = h /\ posts'[d] = p /\ total'[d] = n
      BY <2>1 DEF Counted
    <3>2. QED
      BY <3>1
  <2>2. CASE d # c
    <3>1. at'[d] = at[d] /\ tries'[d] = tries[d] /\ heard'[d] = heard[d]
          /\ posts'[d] = posts[d] /\ total'[d] = total[d]
      BY <2>2 DEF Counted
    <3>2. QED
      BY <3>1 DEF Counted
  <2>3. QED
    BY <2>1, <2>2
<1>4. QED
  BY <1>2, <1>3 DEF Counted

\* A step that moves c and leaves all counts.
LEMMA Moved ==
  ASSUME Counted, NEW c \in Cases, NEW a, UNCHANGED counts,
         Fits(a, tries[c], heard[c], posts[c], total[c]), Goto(c, a)
  PROVE  Counted'
BY CaseStep DEF counts, Goto

LEMMA EndFits ==
  ASSUME Counted, NEW c \in Cases, at[c] # "idle"
  PROVE  Fits("over", tries[c], heard[c], posts[c], total[c])
BY OverFits DEF Counted

LEMMA PrepareCounted ==
  ASSUME Counted, NEW c \in Cases, PrepareAttempt(c)
  PROVE  Counted'
<1> DEFINE a == IF closed # "no" THEN "over" ELSE IF addresses # {} THEN "ready" ELSE "lock"
           t == tries[c] + 1
<1>1. /\ at[c] \in {"idle", "backoff"} /\ at' = [at EXCEPT ![c] = a]
      /\ tries' = [tries EXCEPT ![c] = t] /\ heard' = [heard EXCEPT ![c] = 0]
      /\ posts' = posts /\ total' = total
  BY DEF PrepareAttempt, Goto
<1>2. Fits(at[c], tries[c], heard[c], posts[c], total[c])
  BY DEF Counted
<1>3. t \in Nat /\ t > 0 /\ t <= Attempts /\ posts[c] = 0 /\ total[c] \in Nat
  BY <1>1, <1>2, HttpAssumption DEF Fits
<1>4. Spent(t, 0) \in Nat /\ total[c] <= Spent(t, 0)
  <2>1. Spent(t, 0) \in Nat
    BY <1>3, SpentNat
  <2>2. CASE at[c] = "idle"
    BY <1>2, <2>1, <2>2 DEF Fits
  <2>3. CASE at[c] = "backoff"
    <3>1. tries[c] \in Nat /\ tries[c] > 0 /\ total[c] <= Spent(tries[c], Messages)
      BY <1>2, <2>3 DEF Fits
    <3>2. Spent(t, 0) = Spent(tries[c], Messages)
      BY <3>1, SpentNext
    <3>3. QED
      BY <2>1, <3>1, <3>2
  <2>4. QED
    BY <1>1, <2>2, <2>3
<1>5. Fits("ready", t, 0, posts[c], total[c]) /\ Fits("lock", t, 0, posts[c], total[c])
  BY <1>3, <1>4, HttpAssumption DEF Fits, States, Awaiting
<1>6. Fits("over", t, 0, posts[c], total[c])
  BY <1>5, OverFits
<1>7. Fits(a, t, 0, posts[c], total[c])
  BY <1>5, <1>6
<1>8. QED
  BY <1>1, <1>7, CaseStep

LEMMA PostCounted ==
  ASSUME Counted, NEW c \in Cases, Post(c)
  PROVE  Counted'
<1>1. /\ at[c] \in {"token", "sleep"} /\ at' = [at EXCEPT ![c] = "reply"]
      /\ posts' = [posts EXCEPT ![c] = posts[c] + 1]
      /\ total' = [total EXCEPT ![c] = total[c] + 1]
      /\ tries' = tries /\ heard' = heard
  BY DEF Post, Goto
<1>2. Fits(at[c], tries[c], heard[c], posts[c], total[c])
  BY DEF Counted
<1>3. tries[c] \in Nat /\ tries[c] > 0 /\ heard[c] \in Nat /\ posts[c] \in Nat /\ total[c] \in Nat
      /\ posts[c] <= MaxRetries /\ MaxRetries \in Nat
  BY <1>1, <1>2, HttpAssumption DEF Fits
<1>4. Spent(tries[c], heard[c]) \in Nat
  BY <1>3, SpentNat
<1>5. total[c] <= Spent(tries[c], heard[c]) + posts[c]
  BY <1>1, <1>2, <1>3, <1>4 DEF Fits
<1>6. Fits("reply", tries[c], heard[c], posts[c] + 1, total[c] + 1)
  <2>1. total[c] + 1 <= Spent(tries[c], heard[c]) + (posts[c] + 1)
    BY <1>3, <1>4, <1>5
  <2>2. heard[c] < Messages /\ tries[c] \in 0..Attempts /\ heard[c] \in 0..Messages
    BY <1>1, <1>2 DEF Fits
  <2>3. QED
    BY <1>3, <2>1, <2>2 DEF Fits, States, Awaiting
<1>7. QED
  BY <1>1, <1>6, CaseStep

LEMMA ReplyCounted ==
  ASSUME Counted, NEW c \in Cases, NEW r \in Replies, Reply(c, r)
  PROVE  Counted'
<1> DEFINE t == tries[c]
           h == heard[c]
           p == posts[c]
           n == total[c]
<1>0. at[c] = "reply" /\ tries' = tries /\ total' = total
  BY DEF Reply
<1>2. Fits(at[c], t, h, p, n)
  BY DEF Counted
<1>3. t \in Nat /\ t > 0 /\ t <= Attempts /\ h \in Nat /\ h < Messages /\ p \in Nat /\ n \in Nat
      /\ p <= MaxRetries + 1 /\ n <= Spent(t, h) + p
      /\ MaxRetries \in Nat /\ Messages \in Nat /\ Attempts \in Nat
  BY <1>0, <1>2, HttpAssumption DEF Fits
<1>4. Spent(t, h) \in Nat /\ Spent(t, h + 1) = Spent(t, h) + MaxRetries + 1
  BY <1>3, SpentNat, SpentNext
<1>5. n <= Spent(t, h + 1)
  BY <1>3, <1>4
<1>6. Fits("over", t, h, p, n)
  BY <1>0, EndFits
<1>7. Fits("over", t, h, 0, n)
  BY <1>6, HttpAssumption DEF Fits
<1>8. CASE at' = [at EXCEPT ![c] = "over"] /\ heard' = heard /\ posts' = posts
  BY <1>0, <1>6, <1>8, CaseStep
<1>9. CASE /\ RetriesLeft(c) /\ at' = [at EXCEPT ![c] = "sleep"]
           /\ heard' = heard /\ posts' = posts
  <2>1. Fits("sleep", t, h, p, n)
    BY <1>3, <1>9 DEF Fits, States, Awaiting, RetriesLeft
  <2>2. QED
    BY <1>0, <1>9, <2>1, CaseStep
<1>10. CASE /\ at' = [at EXCEPT ![c] = IF t < Attempts THEN "backoff" ELSE "over"]
            /\ posts' = [posts EXCEPT ![c] = 0] /\ heard' = heard
  <2>1. CASE t < Attempts
    <3>a. h + 1 \in Nat /\ h + 1 <= Messages
      BY <1>3
    <3>b. Spent(t, h + 1) \in Nat /\ Spent(t, Messages) \in Nat
      BY <1>3, <3>a, SpentNat
    <3>1. Spent(t, h + 1) <= Spent(t, Messages)
      BY <1>3, <3>a, SpentGrows
    <3>2. n <= Spent(t, Messages)
      BY <1>3, <1>5, <3>1, <3>b
    <3>3. Fits("backoff", t, h, 0, n)
      BY <1>3, <2>1, <3>2 DEF Fits, States, Awaiting
    <3>4. QED
      BY <1>0, <1>10, <2>1, <3>3, CaseStep
  <2>2. CASE ~(t < Attempts)
    BY <1>0, <1>7, <1>10, <2>2, CaseStep
  <2>3. QED
    BY <2>1, <2>2
<1>11. CASE /\ at' = [at EXCEPT ![c] = "ready"] /\ heard' = [heard EXCEPT ![c] = h + 1]
            /\ posts' = [posts EXCEPT ![c] = 0]
  <2>1. Fits("ready", t, h + 1, 0, n)
    BY <1>3, <1>5 DEF Fits, States
  <2>2. QED
    BY <1>0, <1>11, <2>1, CaseStep
<1>12. QED
  BY <1>8, <1>9, <1>10, <1>11 DEF Reply, Goto

\* The steps that only move c.
LEMMA OthersCounted ==
  ASSUME Counted, NEW c \in Cases,
         \/ Acquire(c) \/ Send(c) \/ BadToken(c) \/ Finish(c) \/ Deadline(c)
         \/ \E X \in SUBSET Addresses : Resolve(c, X)
  PROVE  Counted'
<1>1. Fits(at[c], tries[c], heard[c], posts[c], total[c])
  BY DEF Counted
<1>2. UNCHANGED counts
  BY DEF Acquire, Send, BadToken, Finish, Deadline, Resolve
<1>3. CASE Goto(c, "over")
  <2>1. at[c] # "idle"
    BY DEF Acquire, Send, BadToken, Finish, Deadline, Resolve, Awaiting
  <2>2. QED
    BY <1>2, <1>3, <2>1, EndFits, Moved
<1>4. CASE at[c] \in {"lock", "resolve"} /\ (Goto(c, "ready") \/ Goto(c, "resolve"))
  <2>1. /\ Fits("ready", tries[c], heard[c], posts[c], total[c])
        /\ Fits("resolve", tries[c], heard[c], posts[c], total[c])
    BY <1>1, <1>4 DEF Fits, States, Awaiting
  <2>2. QED
    BY <1>2, <1>4, <2>1, Moved
<1>5. CASE at[c] = "ready" /\ heard[c] < Messages /\ Goto(c, "token")
  <2>1. Fits("token", tries[c], heard[c], posts[c], total[c])
    BY <1>1, <1>5 DEF Fits, States, Awaiting
  <2>2. QED
    BY <1>2, <1>5, <2>1, Moved
<1>6. QED
  BY <1>3, <1>4, <1>5 DEF Acquire, Send, BadToken, Finish, Deadline, Resolve

LEMMA CountedStep ==
  ASSUME Counted, [HttpNext]_httpVars
  PROVE  Counted'
<1>1. CASE \E c \in Cases : PrepareAttempt(c)
  BY <1>1, PrepareCounted
<1>2. CASE \E c \in Cases : Post(c)
  BY <1>2, PostCounted
<1>3. CASE \E c \in Cases : \E r \in Replies : Reply(c, r)
  BY <1>3, ReplyCounted
<1>4. CASE \E c \in Cases :
             \/ Acquire(c) \/ Send(c) \/ BadToken(c) \/ Finish(c) \/ Deadline(c)
             \/ \E X \in SUBSET Addresses : Resolve(c, X)
  BY <1>4, OthersCounted
<1>5. CASE Close \/ Closed \/ UNCHANGED httpVars
  BY <1>5 DEF Close, Closed, counts, httpVars, Counted
<1>6. QED
  BY <1>1, <1>2, <1>3, <1>4, <1>5 DEF HttpNext

-----------------------------------------------------------------------------
(* The lock.                                                               *)

\* Steps of c that neither resolve nor touch what the cases share, but may dial.
LEMMA UnresolvedGuarded ==
  ASSUME Counted, Guarded, NEW c \in Cases, NEW a, Goto(c, a), a # "resolve",
         addresses' = addresses, holder' = holder \/ at[c] = "resolve" \/ holder = c,
         dialed' \subseteq dialed \cup addresses,
         holder' # holder => holder = c
  PROVE  Guarded'
<1>1. PinnedDestination'
  BY DEF Guarded, PinnedDestination, Acceptable
<1>2. ASSUME NEW d \in Cases, at'[d] = "resolve"
      PROVE  holder' = d /\ addresses' = {}
  <2>1. d # c /\ at[d] = "resolve"
    BY <1>2 DEF Goto, Counted
  <2>2. holder = d /\ addresses = {}
    BY <2>1 DEF Guarded
  <2>3. QED
    BY <2>1, <2>2
<1>3. QED
  BY <1>1, <1>2 DEF Guarded

LEMMA AcquireGuarded ==
  ASSUME Counted, Guarded, NEW c \in Cases, Acquire(c)
  PROVE  Guarded'
<1>1. holder = Nobody /\ UNCHANGED <<addresses, dialed>>
  BY DEF Acquire
<1>2. \A d \in Cases : at[d] # "resolve"
  BY <1>1, HttpAssumption DEF Guarded
<1>3. CASE addresses # {}
  <2>1. Goto(c, "ready") /\ holder' = holder
    BY <1>3 DEF Acquire
  <2>2. QED
    BY <1>1, <2>1, UnresolvedGuarded
<1>4. CASE addresses = {}
  <2>1. at' = [at EXCEPT ![c] = "resolve"] /\ holder' = c
    BY <1>4 DEF Acquire, Goto
  <2>2. \A d \in Cases : at'[d] = "resolve" => d = c
    BY <1>2, <2>1 DEF Counted
  <2>3. PinnedDestination'
    BY <1>1 DEF Guarded, PinnedDestination, Acceptable
  <2>4. QED
    BY <1>1, <1>4, <2>1, <2>2, <2>3 DEF Guarded
<1>5. QED
  BY <1>3, <1>4

LEMMA ResolveGuarded ==
  ASSUME Counted, Guarded, NEW c \in Cases, NEW X \in SUBSET Addresses,
         Resolve(c, X)
  PROVE  Guarded'
<1>1. at[c] = "resolve" /\ holder' = Nobody /\ dialed' = dialed
  BY DEF Resolve
<1>2. holder = c /\ addresses = {} /\ dialed = {}
  BY <1>1 DEF Guarded, PinnedDestination
<1>3. \A d \in Cases : at'[d] # "resolve"
  <2>1. \A d \in Cases : at[d] = "resolve" => d = c
    BY <1>2 DEF Guarded
  <2>2. Goto(c, "ready") \/ Goto(c, "over")
    BY DEF Resolve
  <2>3. QED
    BY <2>1, <2>2 DEF Goto, Counted
<1>4. addresses' = addresses \/ (addresses' = X /\ Acceptable(X))
  BY DEF Resolve
<1>5. PinnedDestination'
  BY <1>1, <1>2, <1>4 DEF PinnedDestination, Acceptable
<1>6. QED
  BY <1>3, <1>5 DEF Guarded

LEMMA GuardedStep ==
  ASSUME Counted, Guarded, [HttpNext]_httpVars
  PROVE  Guarded'
<1>1. ASSUME NEW c \in Cases, PrepareAttempt(c)
      PROVE  Guarded'
  <2>1. PICK a \in {"over", "ready", "lock"} : Goto(c, a)
    BY <1>1 DEF PrepareAttempt
  <2>2. UNCHANGED <<holder, addresses, dialed>>
    BY <1>1 DEF PrepareAttempt, shared
  <2>3. QED
    BY <2>1, <2>2, UnresolvedGuarded
<1>2. ASSUME NEW c \in Cases, Acquire(c)
      PROVE  Guarded'
  BY <1>2, AcquireGuarded
<1>3. ASSUME NEW c \in Cases, Send(c) \/ BadToken(c) \/ Finish(c)
      PROVE  Guarded'
  <2>1. PICK a \in {"token", "over"} : Goto(c, a)
    BY <1>3 DEF Send, BadToken, Finish
  <2>2. UNCHANGED <<holder, addresses, dialed>>
    BY <1>3 DEF Send, BadToken, Finish, shared
  <2>3. QED
    BY <2>1, <2>2, UnresolvedGuarded
<1>4. ASSUME NEW c \in Cases, Post(c)
      PROVE  Guarded'
  <2>1. Goto(c, "reply") /\ UNCHANGED <<holder, addresses>>
    BY <1>4 DEF Post
  <2>2. dialed' \subseteq dialed \cup addresses
    BY <1>4 DEF Post
  <2>3. QED
    BY <2>1, <2>2, UnresolvedGuarded
<1>5. ASSUME NEW c \in Cases, NEW r \in Replies, Reply(c, r)
      PROVE  Guarded'
  <2>1. PICK a \in {"over", "sleep", "backoff", "ready"} : Goto(c, a)
    BY <1>5 DEF Reply
  <2>2. UNCHANGED <<holder, addresses, dialed>>
    BY <1>5 DEF Reply, shared
  <2>3. QED
    BY <2>1, <2>2, UnresolvedGuarded
<1>6. ASSUME NEW c \in Cases, Deadline(c)
      PROVE  Guarded'
  <2>1. Goto(c, "over") /\ UNCHANGED <<addresses, dialed>>
        /\ holder' = IF holder = c THEN Nobody ELSE holder
    BY <1>6 DEF Deadline
  <2>2. QED
    BY <2>1, UnresolvedGuarded
<1>7. ASSUME NEW c \in Cases, NEW X \in SUBSET Addresses, Resolve(c, X)
      PROVE  Guarded'
  BY <1>7, ResolveGuarded
<1>8. CASE Close \/ Closed \/ UNCHANGED httpVars
  BY <1>8 DEF Close, Closed, httpVars, Guarded, PinnedDestination, Acceptable
<1>9. QED
  BY <1>1, <1>2, <1>3, <1>4, <1>5, <1>6, <1>7, <1>8 DEF HttpNext

-----------------------------------------------------------------------------
LEMMA SharedTypesStep ==
  ASSUME Guarded, SharedTypes, [HttpNext]_httpVars
  PROVE  SharedTypes'
<1>1. ASSUME NEW c \in Cases, \/ PrepareAttempt(c) \/ Send(c) \/ BadToken(c) \/ Finish(c)
                              \/ \E r \in Replies : Reply(c, r)
      PROVE  SharedTypes'
  BY <1>1 DEF PrepareAttempt, Send, BadToken, Finish, Reply, shared, SharedTypes
<1>2. ASSUME NEW c \in Cases, Acquire(c) \/ Deadline(c)
      PROVE  SharedTypes'
  BY <1>2 DEF Acquire, Deadline, SharedTypes
<1>3. ASSUME NEW c \in Cases, NEW X \in SUBSET Addresses, Resolve(c, X)
      PROVE  SharedTypes'
  BY <1>3 DEF Resolve, SharedTypes
<1>4. ASSUME NEW c \in Cases, Post(c)
      PROVE  SharedTypes'
  <2>1. PICK X \in (SUBSET addresses) \ {{}} : dialed' = dialed \cup X
    BY <1>4 DEF Post
  <2>2. dialed' \subseteq Addresses
    BY <2>1 DEF SharedTypes
  <2>3. QED
    BY <1>4, <2>2 DEF Post, SharedTypes
<1>5. CASE Close \/ Closed \/ UNCHANGED httpVars
  BY <1>5 DEF Close, Closed, httpVars, SharedTypes
<1>6. QED
  BY <1>1, <1>2, <1>3, <1>4, <1>5 DEF HttpNext

LEMMA HInitHolds ==
  ASSUME HttpInit
  PROVE  HInv
<1>1. Fits("idle", 0, 0, 0, 0)
  BY HttpAssumption DEF Fits, States
<1>2. Counted
  BY <1>1 DEF HttpInit, Counted, States
<1>3. Guarded
  BY DEF HttpInit, Guarded, PinnedDestination
<1>4. SharedTypes
  BY DEF HttpInit, SharedTypes
<1>5. QED
  BY <1>2, <1>3, <1>4 DEF HInv

\* Invariance of HInv: the counts of each case fit the call it awaits, and only the
\* holder of the lock resolves.
THEOREM HttpInvariance == HttpSpec => []HInv
<1>1. HttpInit => HInv
  BY HInitHolds
<1>2. HInv /\ [HttpNext]_httpVars => HInv'
  BY CountedStep, GuardedStep, SharedTypesStep DEF HInv
<1>3. QED
  BY <1>1, <1>2, PTL DEF HttpSpec

\* For any number of cases, addresses, messages and retries the adapter's attributes
\* and the counts of each case keep their types.
THEOREM HttpTypeCorrect == HttpSpec => []HttpTypeOK
<1>1. HInv => HttpTypeOK
  <2> SUFFICES ASSUME HInv
               PROVE  HttpTypeOK
    OBVIOUS
  <2>1. \A c \in Cases : tries[c] \in 0..Attempts /\ heard[c] \in 0..Messages
                         /\ posts[c] \in 0..MaxRetries + 1
    BY DEF HInv, Counted, Fits
  <2>2. tries \in [Cases -> 0..Attempts] /\ heard \in [Cases -> 0..Messages]
        /\ posts \in [Cases -> 0..MaxRetries + 1]
    BY <2>1 DEF HInv, Counted
  <2>3. QED
    BY <2>2 DEF HInv, Counted, SharedTypes, HttpTypeOK, States
<1>2. QED
  BY <1>1, HttpInvariance, PTL

\* However many cases wait for the lock, and whatever the resolver answers to each,
\* all connections go to addresses of one answer that was acceptable as a whole.
THEOREM DestinationPinned == HttpSpec => []PinnedDestination
<1>1. HInv => PinnedDestination
  BY DEF HInv, Guarded
<1>2. QED
  BY <1>1, HttpInvariance, PTL

\* For every retry policy, number of attempts and number of messages: the requests of
\* a case are at most their product.
THEOREM RequestsBounded == HttpSpec => []BoundedRequests
<1>1. HInv => BoundedRequests
  <2> SUFFICES ASSUME HInv, NEW c \in Cases
               PROVE  /\ total[c] <= Attempts * Messages * (MaxRetries + 1)
                      /\ posts[c] <= MaxRetries + 1
    BY DEF BoundedRequests
  <2>1. Fits(at[c], tries[c], heard[c], posts[c], total[c])
    BY DEF HInv, Counted
  <2>2. posts[c] <= MaxRetries + 1 /\ total[c] \in Nat
    BY <2>1, HttpAssumption DEF Fits
  <2>3. Spent(Attempts, Messages) = Attempts * Messages * (MaxRetries + 1)
    <3>1. (Attempts - 1) * Messages + Messages = Attempts * Messages
      BY HttpAssumption
    <3>2. QED
      BY <3>1 DEF Spent
  <2>4. total[c] <= Spent(Attempts, Messages)
    <3>1. CASE at[c] = "idle"
      <4>1. Spent(Attempts, Messages) \in Nat
        BY SpentNat, HttpAssumption
      <4>2. QED
        BY <2>1, <3>1, <4>1 DEF Fits
    <3>2. CASE at[c] # "idle"
      <4>1. Fits("over", tries[c], heard[c], posts[c], total[c])
        BY <3>2, EndFits DEF HInv
      <4>2. QED
        BY <4>1 DEF Fits
    <3>3. QED
      BY <3>1, <3>2
  <2>5. QED
    BY <2>2, <2>3, <2>4
<1>2. QED
  BY <1>1, HttpInvariance, PTL

-----------------------------------------------------------------------------
(* The parts together, as MCLibrary runs them.                             *)

\* A step of one part is a step of its module and leaves the others alone.
LEMMA LibraryStep ==
  ASSUME [LibraryNext]_libraryVars
  PROVE  /\ [WorkspaceNext]_workspaceVars /\ [HttpNext]_httpVars
         /\ [FixturesNext]_fixtureVars /\ [JudgementNext]_judgementVars
         /\ [DatasetsNext]_datasetVars
<1>1. CASE LibraryNext
  BY <1>1 DEF LibraryNext, Pages, Removal
<1>2. CASE UNCHANGED libraryVars
  BY <1>2 DEF libraryVars
<1>3. QED
  BY <1>1, <1>2

\* Whatever the parts are run together for holds of each alone: a behaviour of the
\* library is one of the workspace, of the HTTP adapter, of the fixtures, of the
\* judgement and of the datasets, so the theorems about each of them apply to it.
THEOREM PartsImplemented ==
  LibrarySpec => WorkspaceSpec /\ HttpSpec /\ FixturesSpec /\ JudgementSpec /\ DatasetsSpec
<1>1. LibraryInit => WorkspaceInit /\ HttpInit /\ FixturesInit /\ JudgementInit /\ DatasetsInit
  BY DEF LibraryInit
<1>2. [LibraryNext]_libraryVars =>
        /\ [WorkspaceNext]_workspaceVars /\ [HttpNext]_httpVars
        /\ [FixturesNext]_fixtureVars /\ [JudgementNext]_judgementVars
        /\ [DatasetsNext]_datasetVars
  BY LibraryStep
<1>3. QED
  BY <1>1, <1>2, PTL
     DEF LibrarySpec, WorkspaceSpec, HttpSpec, FixturesSpec, JudgementSpec, DatasetsSpec

\* The state of every part keeps its type, for all rows, suites, agents, files and
\* configurations that the modules' assumptions allow.
THEOREM LibraryTypeCorrect == LibrarySpec => []LibraryTypeOK
<1>1. WorkspaceSpec => []WorkspaceTypeOK
  BY WorkspaceTypes
<1>2. HttpSpec => []HttpTypeOK
  BY HttpTypeCorrect
<1>3. FixturesSpec => []FixturesTypeOK
  BY FixturesTypeCorrect
<1>4. JudgementSpec => []JudgementTypeOK
  BY JudgementTypes
<1>5. DatasetsSpec => []DatasetsTypeOK
  BY DatasetsTypes
<1>6. QED
  BY <1>1, <1>2, <1>3, <1>4, <1>5, PartsImplemented, PTL DEF LibraryTypeOK

=============================================================================
