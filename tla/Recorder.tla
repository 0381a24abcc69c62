------------------------------ MODULE Recorder ------------------------------
(***************************************************************************)
(* blackbox/recorder.py with the trace graph of domain/trace.py: asyncio   *)
(* tasks open and close conversations, turns and spans as nested with-     *)
(* blocks on one recorder, hand work over from one span to another, and    *)
(* start further tasks, which inherit the current conversation, turn and   *)
(* span and may outlive the blocks these were opened in.                   *)
(*                                                                         *)
(* No call of the recorder awaits anything, so each is one step.  A call   *)
(* that is refused before it changes anything is no step at all.           *)
(* Messages and events do not take part in the structure of the trace and  *)
(* are left out, with payloads, names and times.  So is the status of a    *)
(* conversation, turn or span: nothing looks at it, and one that has ended *)
(* stays in the trace.  How a block ended shows in its handoff.            *)
(***************************************************************************)
EXTENDS Naturals, Sequences

CONSTANTS
  Tasks, Main,    \* asyncio tasks, and the first of them
  Conversations, Turns, Spans, Handoffs,   \* identifiers
  Agents,
  None

ASSUME RecorderAssumption ==
  /\ Main \in Tasks
  /\ None \notin Conversations \cup Turns \cup Spans \cup Handoffs \cup Agents

VARIABLES
  conversations, \* conversations of the trace
  turn,          \* each turn, with the span_ids it declares
  reused,        \* further conversations that have a turn of the same id; which
                 \* of the two a span goes to is not kept, as neither the
                 \* first nor any later one is valid any more
  span,          \* each span of the trace
  handoff,       \* each handoff of the trace
  started,       \* tasks that have been created
  current,       \* context variables of each task
  blocks,        \* with-blocks each task is in, innermost first
  misused        \* history: has a caller nested blocks the wrong way round,
                 \* named a parent itself, or given a turn the id that a turn
                 \* of another conversation has?

trace == <<conversations, turn, reused, span, handoff>>
vars == <<trace, started, current, blocks, misused>>

NoTurn == [conversation |-> None, span_ids |-> {}]
NoSpan == [conversation |-> None, turn |-> None, parent |-> None,
           agent |-> None, links |-> {}]
NoHandoff == [status |-> "none", source |-> None, target |-> None, agent |-> None]
NoContext == [kind \in {"conversation", "turn", "span"} |-> None]

Init ==
  /\ conversations = {}
  /\ turn = [u \in Turns |-> NoTurn]
  /\ reused = {}
  /\ span = [s \in Spans |-> NoSpan]
  /\ handoff = [h \in Handoffs |-> NoHandoff]
  /\ started = {Main}
  /\ current = [t \in Tasks |-> NoContext]
  /\ blocks = [t \in Tasks |-> <<>>]
  /\ misused = FALSE

-----------------------------------------------------------------------------
(* Trace.validate.                                                         *)

Present(spans) == {s \in Spans : spans[s].turn # None}

\* A span sits in a turn of its conversation, under a parent in the same turn,
\* and the turn knows it.
SpanValid(s, spans, turns) ==
  LET v == spans[s]
  IN  /\ turns[v.turn].conversation = v.conversation
      /\ v.parent # None => /\ v.parent \in Present(spans)
                            /\ spans[v.parent].conversation = v.conversation
                            /\ spans[v.parent].turn = v.turn

Owned(u, spans) == {s \in Present(spans) : spans[s].turn = u}

HandoffValid(v, spans) ==
  /\ v.source \in Present(spans)
  /\ IF v.target = None
     THEN v.status = "requested"
     ELSE /\ v.target \in Present(spans)
          /\ spans[v.target].agent = v.agent
          /\ v.source \in spans[v.target].links

\* No set of spans is closed under taking parents.
Acyclic(spans) ==
  \A S \in SUBSET Present(spans) : S # {} => \E s \in S : spans[s].parent \notin S

\* Ids differ over the whole trace: those of conversations and spans because
\* _attach looks at the whole trace too, those of turns if no conversation
\* has a turn of another one's id.
Valid(turns, spans, handoffs) ==
  /\ reused = {}
  /\ \A s \in Present(spans) : SpanValid(s, spans, turns)
  /\ \A u \in Turns : turns[u].span_ids = Owned(u, spans)
  /\ \A h \in Handoffs : handoffs[h].status # "none" => HandoffValid(handoffs[h], spans)
  /\ Acyclic(spans)

TraceValid == Valid(turn, span, handoff)

-----------------------------------------------------------------------------
(* Entering a block.                                                       *)

\* Faulty variant: remembers the current span whatever is entered.
EnterSpanOnly(t, kind, id, h) ==
  /\ current' = [current EXCEPT ![t][kind] = id]
  /\ blocks' = [blocks EXCEPT ![t] =
       <<[kind |-> kind, id |-> id, before |-> current[t].span, handoff |-> h]>> \o @]

\* Sets the context variable and remembers what it held.
Enter(t, kind, id, h) ==
  /\ current' = [current EXCEPT ![t][kind] = id]
  /\ blocks' = [blocks EXCEPT ![t] =
       <<[kind |-> kind, id |-> id, before |-> current[t][kind], handoff |-> h]>> \o @]

OpenConversation(t, c) ==
  /\ t \in started /\ c \notin conversations
  /\ conversations' = conversations \cup {c}
  /\ Enter(t, "conversation", c, None)
  /\ misused' = (misused \/ current[t].turn # None)
  /\ UNCHANGED <<turn, reused, span, handoff, started>>

Taken(u) == turn[u].conversation # None

\* _attach looks for the id among the turns of the current conversation only.
OpenTurn(t, u) ==
  LET c == current[t].conversation
  IN  /\ t \in started /\ c # None
      /\ turn[u].conversation # c /\ <<c, u>> \notin reused
      /\ IF Taken(u)
         THEN reused' = reused \cup {<<c, u>>} /\ turn' = turn
         ELSE turn' = [turn EXCEPT ![u].conversation = c] /\ reused' = reused
      /\ Enter(t, "turn", u, None)
      /\ misused' = (misused \/ current[t].span # None \/ Taken(u))
      /\ UNCHANGED <<conversations, span, handoff, started>>

\* A span of the current conversation and turn.
NewSpan(t, p, a) ==
  [conversation |-> current[t].conversation, turn |-> current[t].turn, parent |-> p,
   agent |-> a, links |-> {}]

MayOpenSpan(t, s) ==
  /\ t \in started
  /\ current[t].conversation # None /\ current[t].turn # None
  /\ s \notin Present(span)

\* Faulty variant: one current span for the recorder instead of one per task.
CurrentSpanShared(t) ==
  LET open == {n \in Tasks : blocks[n] # <<>> /\ Head(blocks[n]).kind = "span"}
  IN  IF open = {} THEN None ELSE Head(blocks[CHOOSE n \in open : TRUE]).id

CurrentSpan(t) == current[t].span

\* _attach adds the span to the trace and to its turn.
Attached(t, s, v) ==
  /\ span' = [span EXCEPT ![s] = v]
  /\ turn' = [turn EXCEPT ![current[t].turn].span_ids = @ \cup {s}]

\* The block is entered if the trace is valid with the span in it; the span
\* stays in the trace if it is not.
OpenSpan(t, s) ==
  /\ MayOpenSpan(t, s)
  /\ \E p \in {CurrentSpan(t)} \cup Spans, a \in Agents :
       /\ Attached(t, s, NewSpan(t, p, a))
       /\ misused' = (misused \/ p # CurrentSpan(t))
  /\ IF Valid(turn', span', handoff)
     THEN Enter(t, "span", s, None)
     ELSE UNCHANGED <<current, blocks>>
  /\ UNCHANGED <<conversations, reused, handoff, started>>

-----------------------------------------------------------------------------
(* Handoffs.                                                               *)

Final == {"completed", "failed", "cancelled"}

\* HANDOFF_TRANSITIONS.
Transitions(status) ==
  CASE status = "requested" -> {"accepted", "failed", "cancelled"}
    [] status = "accepted"  -> Final
    [] OTHER                -> {}

MayBecome(h, status) ==
  /\ status \in Transitions(handoff[h].status)
  /\ status = "accepted" => handoff[h].target # None

Requested(t, a) ==
  [status |-> "requested", source |-> current[t].span, target |-> None, agent |-> a]

Request(t, h, a) ==
  /\ t \in started /\ current[t].span # None /\ handoff[h].status = "none"
  /\ handoff' = [handoff EXCEPT ![h] = Requested(t, a)]
  /\ UNCHANGED <<conversations, turn, reused, span, started, current, blocks, misused>>

\* Faulty variant: a handoff that has a target is accepted again.
AwaitsAnything(h) == handoff[h].status \in {"requested", "accepted"}

AwaitsTarget(h) == handoff[h].status = "requested" /\ handoff[h].target = None

\* accept_handoff: the target span is opened, bound and linked to the source,
\* and the handoff accepted.
Accept(t, h, s) ==
  LET v == NewSpan(t, CurrentSpan(t), handoff[h].agent)
  IN  /\ AwaitsTarget(h) /\ MayOpenSpan(t, s)
      /\ IF Valid([turn EXCEPT ![current[t].turn].span_ids = @ \cup {s}],
                  [span EXCEPT ![s] = v], handoff)
         THEN /\ Attached(t, s, [v EXCEPT !.links = {handoff[h].source}])
              /\ handoff' = [handoff EXCEPT ![h].target = s, ![h].status = "accepted"]
              /\ Enter(t, "span", s, h)
         ELSE /\ Attached(t, s, v)
              /\ UNCHANGED <<handoff, current, blocks>>
      /\ UNCHANGED <<conversations, reused, started, misused>>

\* handoff(): requested, and bound to a span that is there already.  A span of
\* another agent is refused, which leaves no more behind than Request does.
HandoffTo(t, h, s) ==
  /\ t \in started /\ current[t].span # None /\ handoff[h].status = "none"
  /\ s \in Present(span)
  /\ TraceValid
  /\ handoff' = [handoff EXCEPT ![h] = [Requested(t, span[s].agent) EXCEPT !.target = s]]
  /\ span' = [span EXCEPT ![s].links = @ \cup {current[t].span}]
  /\ UNCHANGED <<conversations, turn, reused, started, current, blocks, misused>>

\* transition_handoff, called by anybody who has the handoff.
Transition(h, status) ==
  /\ MayBecome(h, status)
  /\ handoff' = [handoff EXCEPT ![h].status = status]
  /\ UNCHANGED <<conversations, turn, reused, span, started, current, blocks, misused>>

-----------------------------------------------------------------------------
(* Leaving a block, and tasks.                                             *)

\* Faulty variant: a target that ends leaves its handoff alone.
OutcomeForgotten(how) == "accepted"

Outcome(how) ==
  CASE how = "cancelled" -> "cancelled" [] how = "raised" -> "failed" [] OTHER -> "completed"

\* A target's handoff ends with it, if the trace is valid and nobody has
\* moved the handoff on already; otherwise __exit__ raises.
Leave(t, how) ==
  LET b == Head(blocks[t])
      h == b.handoff
  IN  /\ blocks[t] # <<>>
      /\ handoff' = IF h # None /\ TraceValid /\ MayBecome(h, Outcome(how))
                    THEN [handoff EXCEPT ![h].status = Outcome(how)] ELSE handoff
      /\ current' = [current EXCEPT ![t][b.kind] = b.before]
      /\ blocks' = [blocks EXCEPT ![t] = Tail(@)]
      /\ UNCHANGED <<conversations, turn, reused, span, started, misused>>

\* asyncio.create_task copies the context.
Spawn(t, n) ==
  /\ t \in started /\ n \notin started
  /\ started' = started \cup {n}
  /\ current' = [current EXCEPT ![n] = current[t]]
  /\ UNCHANGED <<trace, blocks, misused>>

Hows == {"returned", "raised", "cancelled"}

Next ==
  \/ \E t \in Tasks :
       \/ \E c \in Conversations : OpenConversation(t, c)
       \/ \E u \in Turns : OpenTurn(t, u)
       \/ \E s \in Spans : OpenSpan(t, s)
       \/ \E h \in Handoffs, a \in Agents : Request(t, h, a)
       \/ \E h \in Handoffs, s \in Spans : Accept(t, h, s)
       \/ \E h \in Handoffs, s \in Spans : HandoffTo(t, h, s)
       \/ \E how \in Hows : Leave(t, how)
       \/ \E n \in Tasks : Spawn(t, n)
  \/ \E h \in Handoffs, status \in Final \cup {"accepted"} : Transition(h, status)

Spec == Init /\ [][Next]_vars

-----------------------------------------------------------------------------
(* What the recorder promises.                                             *)

OrNone(S) == S \cup {None}

Turn == [conversation : OrNone(Conversations), span_ids : SUBSET Spans]
Span == [conversation : OrNone(Conversations), turn : OrNone(Turns),
         parent : OrNone(Spans), agent : OrNone(Agents), links : SUBSET Spans]
Handoff == [status : {"none", "requested", "accepted"} \cup Final, source : OrNone(Spans),
            target : OrNone(Spans), agent : OrNone(Agents)]

Kinds == {"conversation", "turn", "span"}
Names(kind) == CASE kind = "conversation" -> Conversations
                 [] kind = "turn"         -> Turns
                 [] kind = "span"         -> Spans
AnyName == Conversations \cup Turns \cup Spans \cup {None}

Context == {c \in [Kinds -> AnyName] : \A k \in Kinds : c[k] \in OrNone(Names(k))}
Block == {b \in [kind : Kinds, id : AnyName, before : AnyName, handoff : OrNone(Handoffs)] :
            b.id \in Names(b.kind) /\ b.before \in OrNone(Names(b.kind))}

\* Type invariant: every context variable, and every value that a block will
\* put back into one, names something of its kind (_RecordingContext).
TypeOK ==
  /\ conversations \in SUBSET Conversations
  /\ turn \in [Turns -> Turn]
  /\ reused \in SUBSET (Conversations \X Turns)
  /\ span \in [Spans -> Span]
  /\ handoff \in [Handoffs -> Handoff]
  /\ started \in SUBSET Tasks
  /\ current \in [Tasks -> Context]
  /\ blocks \in [Tasks -> Seq(Block)]
  /\ misused \in BOOLEAN

\* A handoff that was decided without a target.
Declined(h) == handoff[h].status \in Final /\ handoff[h].target = None

\* However tasks interleave and whenever the blocks they inherited end, a trace
\* stays valid as long as conversations, turns and spans are opened from the
\* outside in, no caller names a parent or reuses a turn id in another
\* conversation, and no handoff is declined: no span() and no __exit__ raises
\* TraceValidationError then (_attach, Trace.validate).
ValidInGoodUse == ~misused /\ (\A h \in Handoffs : ~Declined(h)) => TraceValid

\* A handoff whose status is not "requested" has a target span, as the
\* constructor of AgentHandoff and Trace.validate insist (domain/trace.py).
StatusNeedsTarget == \A h \in Handoffs : ~Declined(h)

\* When the block of an accepted target ends, its handoff has ended too, unless
\* an invalid trace kept __exit__ from getting there (_HandoffTargetContext).
Settles(t) ==
  blocks[t] # <<>> /\ blocks'[t] = Tail(blocks[t]) /\ Head(blocks[t]).handoff # None
    => handoff'[Head(blocks[t]).handoff].status \in Final

TargetSettles == [][TraceValid => \A t \in Tasks : Settles(t)]_vars

\* Each handoff lives as HandoffLifecycle says: one source, at most one target,
\* one end, however many tasks accept and transition it.
Life == [h \in Handoffs |-> [status |-> handoff[h].status, source |-> handoff[h].source,
                             target |-> handoff[h].target]]

Lifecycle == INSTANCE HandoffLifecycle WITH life <- Life
ImplementsHandoffLifecycle == Lifecycle!Spec
=============================================================================
