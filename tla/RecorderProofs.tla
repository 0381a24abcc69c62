--------------------------- MODULE RecorderProofs ---------------------------
(***************************************************************************)
(* Proofs about the recorder, for any number of tasks, conversations,      *)
(* turns, spans and handoffs: types, that good use keeps the trace valid,  *)
(* that handoffs keep to their lifecycle, and what comes of declining one. *)
(***************************************************************************)
EXTENDS Recorder, SequenceTheorems, TLAPS

-----------------------------------------------------------------------------
(* Stacks of blocks, and the context they are left with.                   *)

\* Blocks of kind k belong inside blocks of kind o.
Inside(k, o) ==
  \/ k = "span" /\ o \in {"turn", "conversation"}
  \/ k = "turn" /\ o = "conversation"

Has(q, k) == \E i \in 1 .. Len(q) : q[i].kind = k

\* Whoever is in a block of a kind has a current value of it, and one who is in
\* a block but in none inside of it has no current value of that inner kind.
Surrounded(q, c) ==
  /\ \A k \in Kinds : Has(q, k) => c[k] # None
  /\ \A k, o \in Kinds : Inside(k, o) /\ Has(q, o) /\ ~Has(q, k) => c[k] = None

\* Blocks are nested by kind.
Nested(q) == \A i, j \in 1 .. Len(q) : i < j => ~Inside(q[j].kind, q[i].kind)

\* A block puts a value back if it is in another one of its kind, and none if
\* it is the first of its kind in a block of an outer kind.
PutsBack(q) ==
  \A i, j \in 1 .. Len(q) :
    /\ i < j /\ q[i].kind = q[j].kind => q[i].before # None
    /\ /\ Inside(q[i].kind, q[j].kind)
       /\ \A l \in 1 .. Len(q) : l > i => q[l].kind # q[i].kind
       => q[i].before = None

InOrder(q, c) == Surrounded(q, c) /\ Nested(q) /\ PutsBack(q)

\* In a trace with these spans and turns, span s belongs to the turn and
\* conversation of a context, turn u to its conversation.
SpanFits(s, c, spans) ==
  /\ s \in Present(spans)
  /\ spans[s].turn = c["turn"] /\ spans[s].conversation = c["conversation"]

TurnFits(u, c, turns) ==
  c["conversation"] # None /\ turns[u].conversation = c["conversation"]

Coherent(c, spans, turns) ==
  /\ c["span"] # None => SpanFits(c["span"], c, spans)
  /\ c["turn"] # None => TurnFits(c["turn"], c, turns)

\* What block b puts back fits the context.
Restores(b, c, spans, turns) ==
  /\ b.kind = "span" /\ b.before # None => SpanFits(b.before, c, spans)
  /\ b.kind = "turn" /\ b.before # None => TurnFits(b.before, c, turns)

\* Good use: every task is in order.
TaskOK(t) ==
  /\ Coherent(current[t], span, turn)
  /\ InOrder(blocks[t], current[t])
  /\ \A i \in 1 .. Len(blocks[t]) : Restores(blocks[t][i], current[t], span, turn)

\* The part of Trace.validate that is about spans and turns.
StructureValid ==
  /\ \A s \in Present(span) : span[s].conversation # None /\ SpanValid(s, span, turn)
  /\ \A u \in Turns : turn[u].span_ids = Owned(u, span)
  /\ Acyclic(span)
  /\ reused = {}

GoodUse == ~misused => StructureValid /\ \A t \in Tasks : TaskOK(t)

\* Whatever callers do, what contexts, blocks and handoffs name is in the trace,
\* and the handoff of a target that was entered has been accepted.
BlockPresent(b) ==
  /\ b.kind = "span" => b.before \in Present(span) \cup {None}
  /\ b.handoff # None => handoff[b.handoff].status \in {"accepted"} \cup Final

NamesPresent(t) ==
  /\ current[t]["span"] \in Present(span) \cup {None}
  /\ \A i \in 1 .. Len(blocks[t]) : BlockPresent(blocks[t][i])

HandoffOK(h) ==
  /\ handoff[h].status = "none" => handoff[h] = NoHandoff
  /\ handoff[h].status # "none" /\ ~Declined(h) => HandoffValid(handoff[h], span)

RInv ==
  /\ TypeOK
  /\ \A t \in Tasks : NamesPresent(t)
  /\ \A t \in Tasks \ started : blocks[t] = <<>>
  /\ \A h \in Handoffs : HandoffOK(h)
  /\ GoodUse

-----------------------------------------------------------------------------
(* Types.                                                                  *)

NewBlock(t, kind, id, h) ==
  [kind |-> kind, id |-> id, before |-> current[t][kind], handoff |-> h]

\* Entering a block keeps the types of contexts and stacks.
LEMMA EnterTyped ==
  ASSUME TypeOK, NEW t \in Tasks, NEW kind \in Kinds, NEW id \in Names(kind),
         NEW h \in OrNone(Handoffs), Enter(t, kind, id, h)
  PROVE  /\ NewBlock(t, kind, id, h) \in Block
         /\ current' \in [Tasks -> Context]
         /\ blocks' \in [Tasks -> Seq(Block)]
         /\ current' = [current EXCEPT ![t] = [current[t] EXCEPT ![kind] = id]]
         /\ blocks' = [blocks EXCEPT ![t] = <<NewBlock(t, kind, id, h)>> \o blocks[t]]
<1>1. /\ current[t] \in Context /\ id \in AnyName /\ blocks[t] \in Seq(Block)
      /\ current \in [Tasks -> Context] /\ blocks \in [Tasks -> Seq(Block)]
  BY DEF TypeOK, Kinds, Names, AnyName
<1>2. NewBlock(t, kind, id, h) \in Block
  BY <1>1 DEF NewBlock, Block, Context
<1>3. [current[t] EXCEPT ![kind] = id] \in Context
  BY <1>1 DEF Context, OrNone
<1>4. <<NewBlock(t, kind, id, h)>> \o blocks[t] \in Seq(Block)
  <2>1. <<NewBlock(t, kind, id, h)>> \in Seq(Block)
    BY <1>2
  <2>2. QED
    BY <1>1, <2>1, ConcatProperties
<1>5. /\ current' = [current EXCEPT ![t] = [current[t] EXCEPT ![kind] = id]]
      /\ blocks' = [blocks EXCEPT ![t] = <<NewBlock(t, kind, id, h)>> \o blocks[t]]
  BY <1>1 DEF Enter, NewBlock
<1>6. QED
  BY <1>1, <1>2, <1>3, <1>4, <1>5

-----------------------------------------------------------------------------
(* Stacks.                                                                 *)

\* What a stack holds after a block is entered.
LEMMA Pushed ==
  ASSUME NEW q \in Seq(Block), NEW b \in Block
  PROVE  LET r == <<b>> \o q
         IN  /\ r \in Seq(Block) /\ Len(q) \in Nat /\ Len(r) = Len(q) + 1
             /\ r[1] = b
             /\ \A i \in 1 .. Len(q) : r[i + 1] = q[i]
             /\ \A i \in 1 .. Len(r) : i # 1 => i - 1 \in 1 .. Len(q) /\ r[i] = q[i - 1]
<1> DEFINE r == <<b>> \o q
<1>1. <<b>> \in Seq(Block) /\ Len(<<b>>) = 1 /\ <<b>>[1] = b
  OBVIOUS
<1>2. Len(q) \in Nat
  BY LenProperties
<1>3. /\ r \in Seq(Block) /\ Len(r) = Len(q) + 1
      /\ \A i \in 1 .. Len(q) + 1 : r[i] = IF i <= 1 THEN <<b>>[i] ELSE q[i - 1]
  BY <1>1, <1>2, ConcatProperties
<1> HIDE DEF r
<1>4. QED
  <2>1. r[1] = b /\ \A i \in 1 .. Len(q) : r[i + 1] = q[i]
    BY <1>1, <1>2, <1>3
  <2>2. ASSUME NEW i \in 1 .. Len(r), i # 1
        PROVE  i - 1 \in 1 .. Len(q) /\ r[i] = q[i - 1]
    <3>1. i \in 1 .. Len(q) + 1 /\ i \in Nat /\ ~(i <= 1)
      BY <1>2, <1>3, <2>2
    <3>2. i - 1 \in 1 .. Len(q)
      BY <1>2, <3>1
    <3>3. QED
      BY <1>3, <3>1, <3>2
  <2>3. /\ r \in Seq(Block) /\ Len(q) \in Nat /\ Len(r) = Len(q) + 1
        /\ r[1] = b
        /\ \A i \in 1 .. Len(q) : r[i + 1] = q[i]
        /\ \A i \in 1 .. Len(r) : i # 1 => i - 1 \in 1 .. Len(q) /\ r[i] = q[i - 1]
    BY <1>2, <1>3, <2>1, <2>2
  <2>4. QED
    BY ONLY <2>3, Zenon DEF r

\* What a stack holds after a block is left.
LEMMA Popped ==
  ASSUME NEW q \in Seq(Block), q # <<>>
  PROVE  /\ Head(q) \in Block /\ Head(q) = q[1]
         /\ Tail(q) \in Seq(Block) /\ Len(q) \in Nat \ {0} /\ Len(Tail(q)) = Len(q) - 1
         /\ \A i \in 1 .. Len(Tail(q)) : i + 1 \in 1 .. Len(q) /\ Tail(q)[i] = q[i + 1]
         /\ \A i \in 1 .. Len(q) : i # 1 => i - 1 \in 1 .. Len(Tail(q)) /\ Tail(q)[i - 1] = q[i]
<1> DEFINE r == Tail(q)
<1>1. Len(q) \in Nat \ {0}
  BY EmptySeq
<1>2. /\ Head(q) \in Block /\ r \in Seq(Block) /\ Len(r) = Len(q) - 1
      /\ \A i \in 1 .. Len(r) : r[i] = q[i + 1]
  BY HeadTailProperties
<1>3. Head(q) = q[1]
  BY <1>1
<1> HIDE DEF r
<1>4. \A i \in 1 .. Len(r) : i + 1 \in 1 .. Len(q)
  BY <1>1, <1>2
<1>5. ASSUME NEW i \in 1 .. Len(q), i # 1
      PROVE  i - 1 \in 1 .. Len(r) /\ r[i - 1] = q[i]
  <2>1. i - 1 \in 1 .. Len(r) /\ (i - 1) + 1 = i
    BY <1>1, <1>2, <1>5
  <2>2. r[i - 1] = q[(i - 1) + 1]
    BY <1>2, <2>1
  <2>3. QED
    BY <2>1, <2>2
<1>6. /\ Head(q) \in Block /\ Head(q) = q[1]
      /\ r \in Seq(Block) /\ Len(q) \in Nat \ {0} /\ Len(r) = Len(q) - 1
      /\ \A i \in 1 .. Len(r) : i + 1 \in 1 .. Len(q) /\ r[i] = q[i + 1]
      /\ \A i \in 1 .. Len(q) : i # 1 => i - 1 \in 1 .. Len(r) /\ r[i - 1] = q[i]
  BY <1>1, <1>2, <1>3, <1>4, <1>5
<1>7. QED
  BY ONLY <1>6, Zenon DEF r

\* Entering a block where no value of an inner kind is current keeps the stack
\* in order.
LEMMA StackEntered ==
  ASSUME NEW q \in Seq(Block), NEW c \in Context, InOrder(q, c),
         NEW b \in Block, b.before = c[b.kind],
         \A k \in Kinds : Inside(k, b.kind) => c[k] = None
  PROVE  InOrder(<<b>> \o q, [c EXCEPT ![b.kind] = b.id])
<1> DEFINE r == <<b>> \o q
           d == [c EXCEPT ![b.kind] = b.id]
<1>1. /\ r \in Seq(Block) /\ Len(q) \in Nat /\ Len(r) = Len(q) + 1
      /\ r[1] = b
      /\ \A i \in 1 .. Len(q) : r[i + 1] = q[i]
      /\ \A i \in 1 .. Len(r) : i # 1 => i - 1 \in 1 .. Len(q) /\ r[i] = q[i - 1]
  BY Pushed
<1>2. b.kind \in Kinds /\ b.id # None
  BY RecorderAssumption DEF Block, Names, Kinds
<1>3. /\ d[b.kind] = b.id
      /\ \A k \in Kinds : k # b.kind => d[k] = c[k]
  BY <1>2 DEF Context
<1> HIDE DEF r, d
<1>4. \A k \in Kinds : Has(r, k) <=> k = b.kind \/ Has(q, k)
  <2>1. Has(r, b.kind)
    BY <1>1 DEF Has
  <2>2. ASSUME NEW k \in Kinds, Has(q, k) PROVE Has(r, k)
    BY <1>1, <2>2 DEF Has
  <2>3. ASSUME NEW k \in Kinds, Has(r, k), k # b.kind PROVE Has(q, k)
    BY <1>1, <2>3 DEF Has
  <2>4. QED
    BY <2>1, <2>2, <2>3
<1>5. \A i \in 1 .. Len(q) : q[i].kind \in Kinds /\ c[q[i].kind] # None /\ ~Inside(q[i].kind, b.kind)
  <2>1. \A i \in 1 .. Len(q) : q[i].kind \in Kinds
    BY ElementOfSeq DEF Block
  <2>2. QED
    BY <2>1 DEF InOrder, Surrounded, Has
<1>6. Surrounded(r, d)
  <2>1. ASSUME NEW k \in Kinds, Has(r, k) PROVE d[k] # None
    BY <1>2, <1>3, <1>4, <2>1 DEF InOrder, Surrounded
  <2>2. ASSUME NEW k \in Kinds, NEW o \in Kinds, Inside(k, o), Has(r, o), ~Has(r, k)
        PROVE  d[k] = None
    BY <1>2, <1>3, <1>4, <2>2 DEF InOrder, Surrounded
  <2>3. QED
    BY <2>1, <2>2 DEF Surrounded
<1>7. Nested(r)
  <2> SUFFICES ASSUME NEW i \in 1 .. Len(r), NEW j \in 1 .. Len(r), i < j
               PROVE  ~Inside(r[j].kind, r[i].kind)
    BY DEF Nested
  <2>1. CASE i = 1
    BY <1>1, <1>5, <2>1
  <2>2. CASE i # 1
    BY <1>1, <2>2 DEF InOrder, Nested
  <2>3. QED
    BY <2>1, <2>2
<1>8. PutsBack(r)
  <2> SUFFICES ASSUME NEW i \in 1 .. Len(r), NEW j \in 1 .. Len(r)
               PROVE  /\ i < j /\ r[i].kind = r[j].kind => r[i].before # None
                      /\ /\ Inside(r[i].kind, r[j].kind)
                         /\ \A l \in 1 .. Len(r) : l > i => r[l].kind # r[i].kind
                         => r[i].before = None
    BY DEF PutsBack
  <2>1. ASSUME i < j, r[i].kind = r[j].kind PROVE r[i].before # None
    <3>1. CASE i = 1
      BY <1>1, <1>5, <2>1, <3>1
    <3>2. CASE i # 1
      <4>1. /\ i - 1 \in 1 .. Len(q) /\ r[i] = q[i - 1]
            /\ j - 1 \in 1 .. Len(q) /\ r[j] = q[j - 1]
            /\ i - 1 < j - 1
        BY <1>1, <2>1, <3>2
      <4>2. q[i - 1].before # None
        BY <2>1, <4>1 DEF InOrder, PutsBack
      <4>3. QED
        BY <4>1, <4>2
    <3>3. QED
      BY <3>1, <3>2
  <2>2. ASSUME Inside(r[i].kind, r[j].kind),
               \A l \in 1 .. Len(r) : l > i => r[l].kind # r[i].kind
        PROVE  r[i].before = None
    <3>1. CASE i = 1
      <4>1. j # 1
        BY <2>2, <3>1 DEF Inside
      <4>2. Has(q, r[j].kind) /\ r[j].kind \in Kinds
        BY <1>1, <1>5, <4>1 DEF Has
      <4>3. ~Has(q, b.kind)
        <5>1. ASSUME NEW l \in 1 .. Len(q) PROVE q[l].kind # b.kind
          <6>1. l + 1 \in 1 .. Len(r) /\ l + 1 > 1 /\ r[l + 1] = q[l]
            BY <1>1
          <6>2. QED
            BY <1>1, <2>2, <3>1, <6>1
        <5>2. QED
          BY <5>1 DEF Has
      <4>4. QED
        BY <1>1, <1>2, <2>2, <3>1, <4>2, <4>3 DEF InOrder, Surrounded
    <3>2. CASE i # 1
      <4>1. \A l \in 1 .. Len(q) : l > i - 1 => q[l].kind # q[i - 1].kind
        BY <1>1, <2>2, <3>2
      <4>2. CASE j = 1
        BY <1>1, <1>5, <2>2, <3>2, <4>2
      <4>3. CASE j # 1
        BY <1>1, <2>2, <3>2, <4>1, <4>3, ZenonT(40) DEF InOrder, PutsBack
      <4>4. QED
        BY <4>2, <4>3
    <3>3. QED
      BY <3>1, <3>2
  <2>3. QED
    BY <2>1, <2>2
<1>9. QED
  BY <1>6, <1>7, <1>8 DEF InOrder, r, d

\* Leaving a block keeps the stack in order.
LEMMA StackLeft ==
  ASSUME NEW q \in Seq(Block), q # <<>>, NEW c \in Context, InOrder(q, c)
  PROVE  InOrder(Tail(q), [c EXCEPT ![Head(q).kind] = Head(q).before])
<1> DEFINE r == Tail(q)
           b == Head(q)
           d == [c EXCEPT ![b.kind] = b.before]
<1>1. /\ b \in Block /\ b = q[1] /\ Len(q) \in Nat \ {0} /\ Len(r) = Len(q) - 1
      /\ \A i \in 1 .. Len(r) : i + 1 \in 1 .. Len(q) /\ r[i] = q[i + 1]
      /\ \A i \in 1 .. Len(q) : i # 1 => i - 1 \in 1 .. Len(r) /\ r[i - 1] = q[i]
  BY Popped
<1>2. b.kind \in Kinds
  BY <1>1 DEF Block
<1>3. /\ d[b.kind] = b.before
      /\ \A k \in Kinds : k # b.kind => d[k] = c[k]
  BY <1>2 DEF Context
<1> HIDE DEF r, b, d
<1>4. \A k \in Kinds : Has(r, k) => Has(q, k)
  BY <1>1 DEF Has
<1>5. \A k \in Kinds : k # b.kind /\ Has(q, k) => Has(r, k)
  BY <1>1 DEF Has
<1>6. Surrounded(r, d)
  <2>1. ASSUME NEW k \in Kinds, Has(r, k) PROVE d[k] # None
    <3>1. CASE k = b.kind
      <4>1. PICK i \in 1 .. Len(r) : r[i].kind = k
        BY <2>1 DEF Has
      <4>2. q[1].before # None
        BY <1>1, <3>1, <4>1 DEF InOrder, PutsBack
      <4>3. QED
        BY <1>1, <1>3, <3>1, <4>2
    <3>2. CASE k # b.kind
      BY <1>3, <1>4, <2>1, <3>2 DEF InOrder, Surrounded
    <3>3. QED
      BY <3>1, <3>2
  <2>2. ASSUME NEW k \in Kinds, NEW o \in Kinds, Inside(k, o), Has(r, o), ~Has(r, k)
        PROVE  d[k] = None
    <3>1. CASE k = b.kind
      <4>1. PICK j \in 1 .. Len(r) : r[j].kind = o
        BY <2>2 DEF Has
      <4>2. ASSUME NEW l \in 1 .. Len(q), l > 1 PROVE q[l].kind # q[1].kind
        <5>1. l - 1 \in 1 .. Len(r) /\ r[l - 1] = q[l]
          BY <1>1, <4>2
        <5>2. QED
          BY <1>1, <2>2, <3>1, <5>1 DEF Has
      <4>3. q[1].before = None
        <5>1. j + 1 \in 1 .. Len(q) /\ 1 \in 1 .. Len(q) /\ Inside(q[1].kind, q[j + 1].kind)
          BY <1>1, <2>2, <3>1, <4>1
        <5>2. QED
          BY <4>2, <5>1 DEF InOrder, PutsBack
      <4>4. QED
        BY <1>1, <1>3, <3>1, <4>3
    <3>2. CASE k # b.kind
      BY <1>3, <1>4, <1>5, <2>2, <3>2 DEF InOrder, Surrounded
    <3>3. QED
      BY <3>1, <3>2
  <2>3. QED
    BY <2>1, <2>2 DEF Surrounded
<1>7. Nested(r)
  BY <1>1 DEF InOrder, Nested
<1>8. PutsBack(r)
  <2> SUFFICES ASSUME NEW i \in 1 .. Len(r), NEW j \in 1 .. Len(r)
               PROVE  /\ i < j /\ r[i].kind = r[j].kind => r[i].before # None
                      /\ /\ Inside(r[i].kind, r[j].kind)
                         /\ \A l \in 1 .. Len(r) : l > i => r[l].kind # r[i].kind
                         => r[i].before = None
    BY DEF PutsBack
  <2>1. ASSUME \A l \in 1 .. Len(r) : l > i => r[l].kind # r[i].kind,
               NEW l \in 1 .. Len(q), l > i + 1
        PROVE  q[l].kind # q[i + 1].kind
    <3>1. l - 1 \in 1 .. Len(r) /\ l - 1 > i /\ r[l - 1] = q[l] /\ r[i] = q[i + 1]
      BY <1>1, <2>1
    <3>2. QED
      BY <2>1, <3>1
  <2>2. QED
    BY <1>1, <2>1 DEF InOrder, PutsBack
<1>9. QED
  BY <1>6, <1>7, <1>8 DEF InOrder, r, b, d

-----------------------------------------------------------------------------
(* Every step keeps the types and takes nothing away from the trace.       *)

Grows ==
  /\ \A s \in Present(span) :
       /\ s \in Present(span')
       /\ span'[s].conversation = span[s].conversation /\ span'[s].turn = span[s].turn
       /\ span'[s].agent = span[s].agent /\ span[s].links \subseteq span'[s].links
  /\ \A u \in Turns : turn[u].conversation # None
                       => turn'[u].conversation = turn[u].conversation

\* What _attach does when task t adds span s.
Adds(t, s, v) ==
  /\ span' \in [Spans -> Span] /\ turn' \in [Turns -> Turn]
  /\ current[t].turn \in Turns /\ current[t].conversation \in Conversations
  /\ span'[s] = v /\ \A x \in Spans : x # s => span'[x] = span[x]
  /\ Present(span') = Present(span) \cup {s} /\ s \notin Present(span)
  /\ \A u \in Turns :
       /\ turn'[u].conversation = turn[u].conversation
       /\ turn'[u].span_ids = IF u = current[t].turn THEN turn[u].span_ids \cup {s}
                              ELSE turn[u].span_ids
  /\ Grows

LEMMA AttachedSpan ==
  ASSUME TypeOK, NEW t \in Tasks, NEW s \in Spans, MayOpenSpan(t, s),
         NEW v \in Span, v.turn = current[t].turn, Attached(t, s, v)
  PROVE  Adds(t, s, v)
<1>1. /\ current[t].turn \in Turns /\ current[t].conversation \in Conversations
      /\ v.turn # None /\ s \notin Present(span)
  BY DEF TypeOK, MayOpenSpan, Context, Kinds, Names, OrNone
<1>2. /\ span \in [Spans -> Span] /\ turn \in [Turns -> Turn]
      /\ span' = [span EXCEPT ![s] = v]
      /\ turn' = [turn EXCEPT ![current[t].turn].span_ids = @ \cup {s}]
  BY DEF TypeOK, Attached
<1>3. span' \in [Spans -> Span] /\ span'[s] = v /\ \A x \in Spans : x # s => span'[x] = span[x]
  BY <1>2
<1>4. /\ turn' \in [Turns -> Turn]
      /\ \A u \in Turns :
           /\ turn'[u].conversation = turn[u].conversation
           /\ turn'[u].span_ids = IF u = current[t].turn THEN turn[u].span_ids \cup {s}
                                  ELSE turn[u].span_ids
  BY <1>1, <1>2 DEF Turn
<1>5. Present(span') = Present(span) \cup {s}
  BY <1>1, <1>3 DEF Present
<1>6. Grows
  BY <1>1, <1>3, <1>4, <1>5 DEF Grows, Present
<1>7. QED
  BY <1>1, <1>3, <1>4, <1>5, <1>6 DEF Adds

NewSpanTyped ==
  \A t \in Tasks, p \in OrNone(Spans), a \in OrNone(Agents) :
    NewSpan(t, p, a) \in Span /\ NewSpan(t, p, a).turn = current[t].turn

LEMMA NewSpans == ASSUME TypeOK PROVE NewSpanTyped
<1> SUFFICES ASSUME NEW t \in Tasks, NEW p \in OrNone(Spans), NEW a \in OrNone(Agents)
             PROVE  NewSpan(t, p, a) \in Span /\ NewSpan(t, p, a).turn = current[t].turn
  BY DEF NewSpanTyped
<1>1. current[t].turn \in OrNone(Turns) /\ current[t].conversation \in OrNone(Conversations)
  BY DEF TypeOK, Context, Kinds, Names
<1>2. QED
  BY <1>1 DEF NewSpan, Span

LEMMA InitTyped == Init => TypeOK
<1> SUFFICES ASSUME Init PROVE TypeOK
  OBVIOUS
<1>1. NoTurn \in Turn /\ NoSpan \in Span /\ NoHandoff \in Handoff
  BY DEF NoTurn, NoSpan, NoHandoff, Turn, Span, Handoff, OrNone
<1>2. NoContext \in Context
  BY DEF NoContext, Context, Kinds, AnyName, OrNone
<1>3. <<>> \in Seq(Block)
  OBVIOUS
<1>4. QED
  BY <1>1, <1>2, <1>3, RecorderAssumption DEF Init, TypeOK

\* What turn() changes: a turn whose id is free, or only who else has the id.
LEMMA TurnOpened ==
  ASSUME TypeOK, NEW t \in Tasks, NEW u \in Turns, OpenTurn(t, u)
  PROVE  /\ turn' \in [Turns -> Turn] /\ reused' \in SUBSET (Conversations \X Turns)
         /\ \A w \in Turns :
              /\ turn'[w].span_ids = turn[w].span_ids
              /\ turn[w].conversation # None => turn'[w].conversation = turn[w].conversation
         /\ ~misused' => turn'[u].conversation = current[t].conversation /\ reused' = reused
<1> DEFINE c == current[t].conversation
<1>1. /\ c \in Conversations /\ turn \in [Turns -> Turn]
      /\ reused \in SUBSET (Conversations \X Turns)
  BY DEF OpenTurn, TypeOK, Context, Kinds, Names, OrNone
<1>2. CASE Taken(u)
  <2>1. turn' = turn /\ reused' = reused \cup {<<c, u>>} /\ misused'
    BY <1>2 DEF OpenTurn
  <2>2. QED
    BY <1>1, <2>1
<1>3. CASE ~Taken(u)
  <2>1. turn' = [turn EXCEPT ![u].conversation = c] /\ reused' = reused
    BY <1>3 DEF OpenTurn
  <2>2. QED
    BY <1>1, <1>3, <2>1 DEF Taken, Turn, OrNone
<1>4. QED
  BY <1>2, <1>3

LEMMA StepTyped ==
  ASSUME TypeOK, Next
  PROVE  TypeOK' /\ Grows
<1> USE RecorderAssumption
<1>1. ASSUME NEW t \in Tasks, NEW c \in Conversations, OpenConversation(t, c)
      PROVE  TypeOK' /\ Grows
  <2>1. "conversation" \in Kinds /\ c \in Names("conversation") /\ None \in OrNone(Handoffs)
    BY DEF Kinds, Names, OrNone
  <2>2. current' \in [Tasks -> Context] /\ blocks' \in [Tasks -> Seq(Block)]
    BY <1>1, <2>1, EnterTyped DEF OpenConversation
  <2>3. QED
    BY <1>1, <2>2 DEF OpenConversation, TypeOK, Grows
<1>2. ASSUME NEW t \in Tasks, NEW u \in Turns, OpenTurn(t, u)
      PROVE  TypeOK' /\ Grows
  <2>1. /\ "turn" \in Kinds /\ u \in Names("turn") /\ None \in OrNone(Handoffs)
        /\ current[t].conversation \in OrNone(Conversations)
    BY DEF TypeOK, Context, Kinds, Names, OrNone
  <2>2. current' \in [Tasks -> Context] /\ blocks' \in [Tasks -> Seq(Block)]
    BY <1>2, <2>1, EnterTyped DEF OpenTurn
  <2>3. turn' \in [Turns -> Turn] /\ reused' \in SUBSET (Conversations \X Turns)
    BY <1>2, TurnOpened
  <2>4. Grows
    BY <1>2, TurnOpened DEF OpenTurn, Grows
  <2>5. QED
    BY <1>2, <2>2, <2>3, <2>4 DEF OpenTurn, TypeOK
<1>3. ASSUME NEW t \in Tasks, NEW s \in Spans, OpenSpan(t, s)
      PROVE  TypeOK' /\ Grows
  <2>1. /\ "span" \in Kinds /\ s \in Names("span") /\ None \in OrNone(Handoffs)
        /\ CurrentSpan(t) \in OrNone(Spans)
    BY DEF TypeOK, Context, Kinds, Names, OrNone, CurrentSpan
  <2>2. PICK p \in {CurrentSpan(t)} \cup Spans, a \in Agents :
          Attached(t, s, NewSpan(t, p, a)) /\ misused' = (misused \/ p # CurrentSpan(t))
    BY <1>3 DEF OpenSpan
  <2>3. NewSpan(t, p, a) \in Span /\ NewSpan(t, p, a).turn = current[t].turn
    BY <2>1, NewSpans DEF NewSpanTyped, OrNone
  <2>4. span' \in [Spans -> Span] /\ turn' \in [Turns -> Turn] /\ Grows
    BY <1>3, <2>2, <2>3, AttachedSpan DEF OpenSpan, Adds
  <2>5. current' \in [Tasks -> Context] /\ blocks' \in [Tasks -> Seq(Block)]
    BY <1>3, <2>1, EnterTyped DEF OpenSpan, TypeOK
  <2>6. QED
    BY <1>3, <2>2, <2>4, <2>5 DEF OpenSpan, TypeOK
<1>4. ASSUME NEW t \in Tasks, NEW h \in Handoffs, NEW a \in Agents, Request(t, h, a)
      PROVE  TypeOK' /\ Grows
  <2>1. current[t].span \in OrNone(Spans)
    BY DEF TypeOK, Context, Kinds, Names
  <2>2. Requested(t, a) \in Handoff
    BY <2>1 DEF Requested, Handoff, OrNone
  <2>3. QED
    BY <1>4, <2>2 DEF Request, TypeOK, Grows
<1>5. ASSUME NEW t \in Tasks, NEW h \in Handoffs, NEW s \in Spans, Accept(t, h, s)
      PROVE  TypeOK' /\ Grows
  <2> DEFINE v == NewSpan(t, CurrentSpan(t), handoff[h].agent)
             w == [v EXCEPT !.links = {handoff[h].source}]
  <2>1. /\ "span" \in Kinds /\ s \in Names("span") /\ h \in OrNone(Handoffs)
        /\ CurrentSpan(t) \in OrNone(Spans) /\ handoff[h] \in Handoff
    BY DEF TypeOK, Context, Kinds, Names, OrNone, CurrentSpan
  <2>2. v \in Span /\ v.turn = current[t].turn
    BY <2>1, NewSpans DEF NewSpanTyped, Handoff
  <2>3. MayOpenSpan(t, s)
    BY <1>5 DEF Accept
  <2>4. CASE UNCHANGED <<handoff, current, blocks>> /\ Attached(t, s, v)
    <3>1. span' \in [Spans -> Span] /\ turn' \in [Turns -> Turn] /\ Grows
      BY <2>2, <2>3, <2>4, AttachedSpan DEF Adds
    <3>2. QED
      BY <1>5, <2>4, <3>1 DEF Accept, TypeOK
  <2>5. CASE /\ Attached(t, s, w)
             /\ handoff' = [handoff EXCEPT ![h].target = s, ![h].status = "accepted"]
             /\ Enter(t, "span", s, h)
             /\ handoff[h].source \in Spans
    <3>1. w \in Span /\ w.turn = current[t].turn
      BY <2>2, <2>5 DEF Span
    <3>2. span' \in [Spans -> Span] /\ turn' \in [Turns -> Turn] /\ Grows
      BY <2>3, <2>5, <3>1, AttachedSpan DEF Adds
    <3>3. current' \in [Tasks -> Context] /\ blocks' \in [Tasks -> Seq(Block)]
      BY <2>1, <2>5, EnterTyped
    <3>4. handoff' \in [Handoffs -> Handoff]
      BY <2>1, <2>5 DEF TypeOK, Handoff, OrNone
    <3>5. QED
      BY <1>5, <3>2, <3>3, <3>4 DEF Accept, TypeOK
  <2>6. QED
    BY <1>5, <2>4, <2>5 DEF Accept, Valid, HandoffValid, Present, AwaitsTarget
<1>6. ASSUME NEW t \in Tasks, NEW h \in Handoffs, NEW s \in Spans, HandoffTo(t, h, s)
      PROVE  TypeOK' /\ Grows
  <2>1. current[t].span \in Spans /\ span[s] \in Span
    BY <1>6 DEF HandoffTo, TypeOK, Context, Kinds, Names, OrNone
  <2>2. [Requested(t, span[s].agent) EXCEPT !.target = s] \in Handoff
    BY <2>1 DEF Requested, Handoff, OrNone, Span
  <2>3. handoff' \in [Handoffs -> Handoff]
    BY <1>6, <2>2 DEF HandoffTo, TypeOK
  <2>4. span' \in [Spans -> Span] /\ Grows
    BY <1>6, <2>1 DEF HandoffTo, TypeOK, Span, Grows, Present
  <2>5. QED
    BY <1>6, <2>3, <2>4 DEF HandoffTo, TypeOK
<1>7. ASSUME NEW t \in Tasks, NEW how \in Hows, Leave(t, how)
      PROVE  TypeOK' /\ Grows
  <2>1. /\ blocks[t] \in Seq(Block) /\ blocks[t] # <<>> /\ current[t] \in Context
        /\ current' = [current EXCEPT ![t][Head(blocks[t]).kind] = Head(blocks[t]).before]
        /\ blocks' = [blocks EXCEPT ![t] = Tail(@)]
    BY <1>7 DEF Leave, TypeOK
  <2>2. Head(blocks[t]) \in Block /\ Tail(blocks[t]) \in Seq(Block)
    BY <2>1, Popped
  <2>3. [current[t] EXCEPT ![Head(blocks[t]).kind] = Head(blocks[t]).before] \in Context
    BY <2>1, <2>2 DEF Context, Block, OrNone
  <2>4. current' \in [Tasks -> Context] /\ blocks' \in [Tasks -> Seq(Block)]
    BY <2>1, <2>2, <2>3 DEF TypeOK
  <2>5. Head(blocks[t]).handoff \in OrNone(Handoffs) /\ Outcome(how) \in Final
    BY <2>2 DEF Block, Outcome, Final
  <2>6. handoff' \in [Handoffs -> Handoff]
    BY <1>7, <2>5, ZenonT(40) DEF Leave, TypeOK, Handoff, OrNone
  <2>7. QED
    BY <1>7, <2>4, <2>6 DEF Leave, TypeOK, Grows
<1>8. ASSUME NEW t \in Tasks, NEW n \in Tasks, Spawn(t, n)
      PROVE  TypeOK' /\ Grows
  BY <1>8 DEF Spawn, trace, TypeOK, Grows
<1>9. ASSUME NEW h \in Handoffs, NEW status \in Final \cup {"accepted"}, Transition(h, status)
      PROVE  TypeOK' /\ Grows
  BY <1>9 DEF Transition, TypeOK, Handoff, Grows
<1>10. QED
  BY <1>1, <1>2, <1>3, <1>4, <1>5, <1>6, <1>7, <1>8, <1>9 DEF Next

-----------------------------------------------------------------------------
(* What steps do to contexts and stacks.                                   *)

\* Task t enters a block for something the trace then holds.
Enters(t, kind, id, h) ==
  /\ Enter(t, kind, id, h) /\ t \in started /\ UNCHANGED started
  /\ kind = "span" => /\ id \in Present(span') /\ current[t]["turn"] # None
                      /\ span'[id].turn = current[t]["turn"]
                      /\ span'[id].conversation = current[t]["conversation"]
  /\ kind = "turn" => current[t]["conversation"] # None
  /\ h # None => handoff'[h].status = "accepted"
  /\ ~misused' => /\ kind = "turn" => /\ current[t]["span"] = None
                                      /\ turn'[id].conversation = current[t]["conversation"]
                  /\ kind = "conversation" => current[t]["turn"] = None

Leaves(t) ==
  /\ \E how \in Hows : Leave(t, how)
  /\ blocks[t] # <<>>
  /\ current' = [current EXCEPT ![t][Head(blocks[t]).kind] = Head(blocks[t]).before]
  /\ blocks' = [blocks EXCEPT ![t] = Tail(@)]
  /\ UNCHANGED <<started, turn, span>>

Spawns(t, n) ==
  /\ t \in started /\ n \notin started /\ started' = started \cup {n}
  /\ current' = [current EXCEPT ![n] = current[t]]
  /\ UNCHANGED <<blocks, turn, span>>

\* A handoff that was accepted never goes back, and nobody unlearns a misuse.
NoWayBack ==
  /\ misused => misused'
  /\ \A h \in Handoffs : handoff[h].status \in {"accepted"} \cup Final
                         => handoff'[h].status \in {"accepted"} \cup Final

ContextStep ==
  \/ UNCHANGED <<current, blocks, started>>
  \/ \E t \in Tasks, kind \in Kinds : \E id \in Names(kind), h \in OrNone(Handoffs) :
       Enters(t, kind, id, h)
  \/ \E t \in Tasks : Leaves(t)
  \/ \E t, n \in Tasks : Spawns(t, n)

LEMMA ContextSteps ==
  ASSUME TypeOK, Next
  PROVE  ContextStep /\ NoWayBack
<1> USE RecorderAssumption
<1>1. ASSUME NEW t \in Tasks, NEW c \in Conversations, OpenConversation(t, c)
      PROVE  ContextStep /\ NoWayBack
  <2>1. "conversation" \in Kinds /\ c \in Names("conversation") /\ None \in OrNone(Handoffs)
    BY DEF Kinds, Names, OrNone
  <2>2. Enters(t, "conversation", c, None)
    BY <1>1 DEF OpenConversation, Enters
  <2>3. QED
    BY <1>1, <2>1, <2>2 DEF ContextStep, NoWayBack, OpenConversation
<1>2. ASSUME NEW t \in Tasks, NEW u \in Turns, OpenTurn(t, u)
      PROVE  ContextStep /\ NoWayBack
  <2>1. "turn" \in Kinds /\ u \in Names("turn") /\ None \in OrNone(Handoffs)
    BY DEF Kinds, Names, OrNone
  <2>2. ~misused' => turn'[u].conversation = current[t].conversation
    BY <1>2, TurnOpened
  <2>3. Enters(t, "turn", u, None)
    BY <1>2, <2>2 DEF OpenTurn, Enters
  <2>4. QED
    BY <1>2, <2>1, <2>3 DEF ContextStep, NoWayBack, OpenTurn
<1>3. ASSUME NEW t \in Tasks, NEW s \in Spans, NEW h \in OrNone(Handoffs), NEW v \in Span,
             MayOpenSpan(t, s), v.turn = current[t].turn,
             v.conversation = current[t].conversation, Attached(t, s, v),
             Enter(t, "span", s, h), h # None => handoff'[h].status = "accepted",
             UNCHANGED started
      PROVE  ContextStep
  <2>1. "span" \in Kinds /\ s \in Names("span")
    BY DEF Kinds, Names
  <2>2. s \in Present(span') /\ span'[s] = v
    BY <1>3, AttachedSpan DEF Adds
  <2>3. Enters(t, "span", s, h)
    BY <1>3, <2>2 DEF Enters, MayOpenSpan
  <2>4. QED
    BY <2>1, <2>3 DEF ContextStep
<1>4. ASSUME NEW t \in Tasks, NEW s \in Spans, OpenSpan(t, s)
      PROVE  ContextStep /\ NoWayBack
  <2>1. CurrentSpan(t) \in OrNone(Spans) /\ None \in OrNone(Handoffs)
    BY DEF TypeOK, Context, Kinds, Names, OrNone, CurrentSpan
  <2>2. PICK p \in {CurrentSpan(t)} \cup Spans, a \in Agents :
          Attached(t, s, NewSpan(t, p, a)) /\ misused' = (misused \/ p # CurrentSpan(t))
    BY <1>4 DEF OpenSpan
  <2>3. /\ NewSpan(t, p, a) \in Span /\ NewSpan(t, p, a).turn = current[t].turn
        /\ NewSpan(t, p, a).conversation = current[t].conversation
    BY <2>1, NewSpans DEF NewSpanTyped, OrNone, NewSpan
  <2>4. CASE Enter(t, "span", s, None)
    BY <1>3, <1>4, <2>1, <2>2, <2>3, <2>4 DEF OpenSpan, NoWayBack
  <2>5. CASE UNCHANGED <<current, blocks>>
    BY <1>4, <2>2, <2>5 DEF OpenSpan, ContextStep, NoWayBack
  <2>6. QED
    BY <1>4, <2>4, <2>5 DEF OpenSpan
<1>5. ASSUME NEW t \in Tasks, NEW h \in Handoffs, NEW a \in Agents, Request(t, h, a)
      PROVE  ContextStep /\ NoWayBack
  BY <1>5 DEF Request, TypeOK, ContextStep, NoWayBack, Final
<1>6. ASSUME NEW t \in Tasks, NEW h \in Handoffs, NEW s \in Spans, Accept(t, h, s)
      PROVE  ContextStep /\ NoWayBack
  <2> DEFINE v == NewSpan(t, CurrentSpan(t), handoff[h].agent)
             w == [v EXCEPT !.links = {handoff[h].source}]
  <2>1. CurrentSpan(t) \in OrNone(Spans) /\ handoff[h] \in Handoff /\ h \in OrNone(Handoffs)
    BY DEF TypeOK, Context, Kinds, Names, OrNone, CurrentSpan
  <2>2. /\ v \in Span /\ v.turn = current[t].turn /\ v.conversation = current[t].conversation
    BY <2>1, NewSpans DEF NewSpanTyped, Handoff, NewSpan
  <2>3. CASE UNCHANGED <<handoff, current, blocks>>
    BY <1>6, <2>3 DEF Accept, ContextStep, NoWayBack
  <2>4. CASE /\ Attached(t, s, w)
             /\ handoff' = [handoff EXCEPT ![h].target = s, ![h].status = "accepted"]
             /\ Enter(t, "span", s, h)
             /\ handoff[h].source \in Spans
    <3>1. w \in Span /\ w.turn = v.turn /\ w.conversation = v.conversation
      BY <2>2, <2>4 DEF Span
    <3>2. handoff'[h].status = "accepted"
      BY <2>1, <2>4 DEF TypeOK, Handoff
    <3>3. ContextStep
      BY <1>3, <1>6, <2>1, <2>2, <2>4, <3>1, <3>2 DEF Accept
    <3>4. NoWayBack
      BY <1>6, <2>4, <3>2 DEF Accept, NoWayBack, TypeOK, Handoff
    <3>5. QED
      BY <3>3, <3>4
  <2>5. QED
    BY <1>6, <2>3, <2>4 DEF Accept, Valid, HandoffValid, Present, AwaitsTarget
<1>7. ASSUME NEW t \in Tasks, NEW h \in Handoffs, NEW s \in Spans, HandoffTo(t, h, s)
      PROVE  ContextStep /\ NoWayBack
  BY <1>7 DEF HandoffTo, TypeOK, ContextStep, NoWayBack, Final
<1>8. ASSUME NEW t \in Tasks, NEW how \in Hows, Leave(t, how)
      PROVE  ContextStep /\ NoWayBack
  <2>1. Leaves(t)
    BY <1>8 DEF Leave, Leaves
  <2>2. NoWayBack
    BY <1>8 DEF Leave, NoWayBack, TypeOK, Handoff, Outcome, Final
  <2>3. QED
    BY <2>1, <2>2 DEF ContextStep
<1>9. ASSUME NEW t \in Tasks, NEW n \in Tasks, Spawn(t, n)
      PROVE  ContextStep /\ NoWayBack
  BY <1>9 DEF Spawn, trace, ContextStep, Spawns, NoWayBack
<1>10. ASSUME NEW h \in Handoffs, NEW status \in Final \cup {"accepted"}, Transition(h, status)
       PROVE  ContextStep /\ NoWayBack
  BY <1>10 DEF Transition, TypeOK, Handoff, ContextStep, NoWayBack
<1>11. QED
  BY <1>1, <1>2, <1>4, <1>5, <1>6, <1>7, <1>8, <1>9, <1>10 DEF Next

LEMMA NamesKept ==
  ASSUME TypeOK, TypeOK', Grows, ContextStep, NoWayBack,
         \A t \in Tasks : NamesPresent(t),
         \A t \in Tasks \ started : blocks[t] = <<>>
  PROVE  /\ \A t \in Tasks : NamesPresent(t)'
         /\ \A t \in Tasks \ started' : blocks'[t] = <<>>
<1>1. \A b \in Block : BlockPresent(b) => BlockPresent(b)'
  BY DEF BlockPresent, Grows, NoWayBack, Block, OrNone
<1>2. \A t \in Tasks : blocks[t] \in Seq(Block) /\ current[t] \in Context
  BY DEF TypeOK
<1>3. ASSUME NEW t \in Tasks, current'[t] = current[t], blocks'[t] = blocks[t]
      PROVE  NamesPresent(t)'
  <2>1. ASSUME NEW i \in 1 .. Len(blocks[t]) PROVE BlockPresent(blocks[t][i])'
    <3>1. blocks[t][i] \in Block /\ BlockPresent(blocks[t][i])
      BY <1>2, ElementOfSeq DEF NamesPresent
    <3>2. QED
      BY <1>1, <1>3, <3>1
  <2>2. QED
    BY <1>3, <2>1 DEF NamesPresent, Grows
<1>4. CASE UNCHANGED <<current, blocks, started>>
  BY <1>3, <1>4
<1>5. ASSUME NEW t \in Tasks, NEW kind \in Kinds, NEW id \in Names(kind),
             NEW h \in OrNone(Handoffs), Enters(t, kind, id, h)
      PROVE  /\ \A n \in Tasks : NamesPresent(n)'
             /\ \A n \in Tasks \ started' : blocks'[n] = <<>>
  <2> DEFINE b == NewBlock(t, kind, id, h)
  <2>1. /\ b \in Block
        /\ current' = [current EXCEPT ![t] = [current[t] EXCEPT ![kind] = id]]
        /\ blocks' = [blocks EXCEPT ![t] = <<b>> \o blocks[t]]
    BY <1>5, EnterTyped DEF Enters
  <2>2. /\ Len(blocks'[t]) = Len(blocks[t]) + 1 /\ blocks'[t][1] = b
        /\ \A i \in 1 .. Len(blocks'[t]) :
             i # 1 => i - 1 \in 1 .. Len(blocks[t]) /\ blocks'[t][i] = blocks[t][i - 1]
    BY <1>2, <2>1, Pushed DEF TypeOK
  <2>3. BlockPresent(blocks[t][1])'
    <3>1. /\ blocks'[t][1].kind = kind /\ blocks'[t][1].before = current[t][kind]
          /\ blocks'[t][1].handoff = h
      BY <2>2 DEF NewBlock
    <3>2. kind = "span" => current[t][kind] \in Present(span') \cup {None}
      BY DEF NamesPresent, Grows
    <3>3. h # None => handoff'[h].status \in {"accepted"} \cup Final
      BY <1>5 DEF Enters
    <3>4. QED
      BY <3>1, <3>2, <3>3 DEF BlockPresent
  <2>4. ASSUME NEW i \in 1 .. Len(blocks'[t]) PROVE BlockPresent(blocks[t][i])'
    <3>1. CASE i = 1
      BY <2>2, <2>3, <3>1
    <3>2. CASE i # 1
      <4>1. i - 1 \in 1 .. Len(blocks[t]) /\ blocks'[t][i] = blocks[t][i - 1]
        BY <2>2, <3>2
      <4>2. blocks[t][i - 1] \in Block /\ BlockPresent(blocks[t][i - 1])
        BY <1>2, <4>1, ElementOfSeq DEF NamesPresent
      <4>3. QED
        BY <1>1, <4>1, <4>2
    <3>3. QED
      BY <3>1, <3>2
  <2>5. current'[t]["span"] \in Present(span') \cup {None}
    BY <1>2, <1>5, <2>1 DEF Enters, NamesPresent, Grows, TypeOK, Context, Kinds
  <2>6. NamesPresent(t)'
    BY <2>4, <2>5 DEF NamesPresent
  <2>7. \A n \in Tasks : n # t => NamesPresent(n)'
    BY <1>3, <2>1 DEF TypeOK
  <2>8. QED
    BY <1>5, <2>1, <2>6, <2>7 DEF Enters, TypeOK
<1>6. ASSUME NEW t \in Tasks, Leaves(t)
      PROVE  /\ \A n \in Tasks : NamesPresent(n)'
             /\ \A n \in Tasks \ started' : blocks'[n] = <<>>
  <2>1. /\ Head(blocks[t]) \in Block /\ Head(blocks[t]) = blocks[t][1]
        /\ 1 \in 1 .. Len(blocks[t])
        /\ \A i \in 1 .. Len(Tail(blocks[t])) :
             i + 1 \in 1 .. Len(blocks[t]) /\ Tail(blocks[t])[i] = blocks[t][i + 1]
    BY <1>2, <1>6, Popped DEF Leaves
  <2>2. blocks'[t] = Tail(blocks[t]) /\ \A n \in Tasks : n # t => blocks'[n] = blocks[n]
    BY <1>6 DEF Leaves, TypeOK
  <2>3. ASSUME NEW i \in 1 .. Len(blocks'[t]) PROVE BlockPresent(blocks[t][i])'
    <3>1. i + 1 \in 1 .. Len(blocks[t]) /\ blocks'[t][i] = blocks[t][i + 1]
      BY <2>1, <2>2
    <3>2. blocks[t][i + 1] \in Block /\ BlockPresent(blocks[t][i + 1])
      BY <1>2, <3>1, ElementOfSeq DEF NamesPresent
    <3>3. QED
      BY <1>1, <3>1, <3>2
  <2>4. current'[t]["span"] \in Present(span') \cup {None}
    <3>1. BlockPresent(Head(blocks[t]))
      BY <2>1 DEF NamesPresent
    <3>2. QED
      BY <1>2, <1>6, <2>1, <3>1 DEF Leaves, BlockPresent, NamesPresent, TypeOK, Context, Kinds, Block
  <2>5. NamesPresent(t)'
    BY <2>3, <2>4 DEF NamesPresent
  <2>6. \A n \in Tasks : n # t => NamesPresent(n)'
    BY <1>3, <1>6, <2>2 DEF Leaves, TypeOK
  <2>7. t \in started
    BY <1>6 DEF Leaves
  <2>8. QED
    BY <1>6, <2>2, <2>5, <2>6, <2>7 DEF Leaves
<1>7. ASSUME NEW t \in Tasks, NEW n \in Tasks, Spawns(t, n)
      PROVE  /\ \A m \in Tasks : NamesPresent(m)'
             /\ \A m \in Tasks \ started' : blocks'[m] = <<>>
  <2>1. \A m \in Tasks : m # n => NamesPresent(m)'
    BY <1>3, <1>7 DEF Spawns, TypeOK
  <2>2. current'[n] = current[t] /\ blocks'[n] = <<>> /\ span' = span
    BY <1>7 DEF Spawns, TypeOK
  <2>3. NamesPresent(n)'
    BY <2>2 DEF NamesPresent
  <2>4. QED
    BY <1>7, <2>1, <2>3 DEF Spawns
<1>8. QED
  BY <1>4, <1>5, <1>6, <1>7 DEF ContextStep

\* In good use a step leaves every task in order.
LEMMA TasksKept ==
  ASSUME TypeOK, TypeOK', Grows, ContextStep, ~misused', \A t \in Tasks : TaskOK(t),
         \A t \in Tasks \ started : blocks[t] = <<>>
  PROVE  \A t \in Tasks : TaskOK(t)'
<1> USE RecorderAssumption
<1>1. \A c \in Context :
        /\ Coherent(c, span, turn) => Coherent(c, span', turn')
        /\ \A b \in Block : Restores(b, c, span, turn) => Restores(b, c, span', turn')
  BY DEF Restores, Coherent, SpanFits, TurnFits, Grows, Block, Context, Kinds, Names, OrNone
<1>2. \A t \in Tasks : blocks[t] \in Seq(Block) /\ current[t] \in Context
  BY DEF TypeOK
<1>3. ASSUME NEW t \in Tasks, current'[t] = current[t], blocks'[t] = blocks[t]
      PROVE  TaskOK(t)'
  <2>1. ASSUME NEW i \in 1 .. Len(blocks[t]) PROVE Restores(blocks[t][i], current[t], span, turn)'
    <3>1. blocks[t][i] \in Block /\ Restores(blocks[t][i], current[t], span, turn)
      BY <1>2, ElementOfSeq DEF TaskOK
    <3>2. QED
      BY <1>1, <1>2, <1>3, <3>1
  <2>2. Coherent(current[t], span, turn)'
    BY <1>1, <1>2, <1>3 DEF TaskOK
  <2>3. InOrder(blocks[t], current[t])'
    BY <1>3 DEF TaskOK
  <2>4. QED
    BY <1>3, <2>1, <2>2, <2>3 DEF TaskOK
<1>4. CASE UNCHANGED <<current, blocks, started>>
  BY <1>3, <1>4
<1>5. ASSUME NEW t \in Tasks, NEW kind \in Kinds, NEW id \in Names(kind),
             NEW h \in OrNone(Handoffs), Enters(t, kind, id, h)
      PROVE  \A n \in Tasks : TaskOK(n)'
  <2> DEFINE b == NewBlock(t, kind, id, h)
             q == blocks[t]
             c == current[t]
             d == [current[t] EXCEPT ![kind] = id]
  <2>1. /\ b \in Block /\ d \in Context
        /\ current' = [current EXCEPT ![t] = d]
        /\ blocks' = [blocks EXCEPT ![t] = <<b>> \o q]
        /\ b.kind = kind /\ b.id = id /\ b.before = c[kind]
    <3>1. /\ b \in Block /\ current' \in [Tasks -> Context]
          /\ current' = [current EXCEPT ![t] = d]
          /\ blocks' = [blocks EXCEPT ![t] = <<b>> \o q]
      BY <1>5, EnterTyped DEF Enters
    <3>2. current'[t] = d
      BY <3>1 DEF TypeOK
    <3>3. QED
      BY <3>1, <3>2 DEF NewBlock
  <2>2. /\ current'[t] = d /\ blocks'[t] = <<b>> \o q
        /\ Len(blocks'[t]) = Len(q) + 1 /\ blocks'[t][1] = b
        /\ \A i \in 1 .. Len(blocks'[t]) :
             i # 1 => i - 1 \in 1 .. Len(q) /\ blocks'[t][i] = q[i - 1]
    BY <1>2, <2>1, Pushed DEF TypeOK
  <2>3. /\ Coherent(c, span, turn) /\ InOrder(q, c) /\ c \in Context
        /\ \A i \in 1 .. Len(q) : q[i] \in Block /\ Restores(q[i], c, span, turn)
    BY <1>2, ElementOfSeq DEF TaskOK
  <2>4. /\ d[kind] = id /\ id # None
        /\ \A k \in Kinds : k # kind => d[k] = c[k]
    BY <2>3 DEF Context, Names, Kinds
  <2>5. \A k \in Kinds : Inside(k, kind) => c[k] = None
    BY <1>5, <2>3 DEF Enters, Inside, Coherent, SpanFits, Present, Kinds
  <2>6. InOrder(blocks[t], current[t])'
    <3>1. InOrder(<<b>> \o q, [c EXCEPT ![b.kind] = b.id])
      BY <1>2, <2>1, <2>3, <2>5, StackEntered
    <3>2. QED
      BY <2>1, <2>2, <3>1
  <2>7. Coherent(current[t], span, turn)'
    <3>1. CASE kind = "span"
      BY <1>5, <2>2, <2>3, <2>4, <3>1
         DEF Enters, Coherent, SpanFits, TurnFits, Grows, Kinds, Context, Names, OrNone
    <3>2. CASE kind = "turn"
      BY <1>5, <2>2, <2>4, <2>5, <3>2
         DEF Enters, Coherent, SpanFits, TurnFits, Inside, Kinds
    <3>3. CASE kind = "conversation"
      BY <2>2, <2>4, <2>5, <3>3 DEF Coherent, Inside, Kinds
    <3>4. QED
      BY <3>1, <3>2, <3>3 DEF Kinds
  <2>8. ASSUME NEW i \in 1 .. Len(blocks'[t]) PROVE Restores(blocks[t][i], current[t], span, turn)'
    <3>1. CASE i = 1
      <4>1. \/ kind = "span" /\ d["turn"] = c["turn"] /\ d["conversation"] = c["conversation"]
            \/ kind = "turn" /\ d["conversation"] = c["conversation"]
            \/ kind = "conversation"
        BY <2>4 DEF Kinds
      <4>2. Restores(b, d, span, turn)
        BY <2>1, <2>3, <4>1 DEF Restores, Coherent, SpanFits, TurnFits
      <4>3. QED
        BY <1>1, <2>1, <2>2, <3>1, <4>2
    <3>2. CASE i # 1
      <4>1. i - 1 \in 1 .. Len(q) /\ blocks'[t][i] = q[i - 1]
        BY <2>2, <3>2
      <4>2. q[i - 1].kind \in Kinds /\ c[q[i - 1].kind] # None
        BY <2>3, <4>1 DEF InOrder, Surrounded, Has, Block
      <4>3. Restores(q[i - 1], d, span, turn)
        BY <2>3, <2>4, <2>5, <4>1, <4>2
           DEF Restores, SpanFits, TurnFits, Inside, Kinds
      <4>4. QED
        BY <1>1, <2>1, <2>2, <2>3, <4>1, <4>3
    <3>3. QED
      BY <3>1, <3>2
  <2>9. TaskOK(t)'
    BY <2>6, <2>7, <2>8 DEF TaskOK
  <2>10. \A n \in Tasks : n # t => TaskOK(n)'
    BY <1>3, <2>1 DEF TypeOK
  <2>11. QED
    BY <2>9, <2>10
<1>6. ASSUME NEW t \in Tasks, Leaves(t)
      PROVE  \A n \in Tasks : TaskOK(n)'
  <2> DEFINE q == blocks[t]
             c == current[t]
             b == Head(blocks[t])
             d == [current[t] EXCEPT ![Head(blocks[t]).kind] = Head(blocks[t]).before]
  <2>1. /\ b \in Block /\ b = q[1] /\ 1 \in 1 .. Len(q)
        /\ \A i \in 1 .. Len(Tail(q)) :
             i + 1 \in 1 .. Len(q) /\ i + 1 > 1 /\ Tail(q)[i] = q[i + 1]
    BY <1>2, <1>6, Popped DEF Leaves
  <2>2. /\ current'[t] = d /\ blocks'[t] = Tail(q)
        /\ \A n \in Tasks : n # t => blocks'[n] = blocks[n] /\ current'[n] = current[n]
    BY <1>6 DEF Leaves, TypeOK
  <2>3. /\ Coherent(c, span, turn) /\ InOrder(q, c) /\ c \in Context /\ b.kind \in Kinds
        /\ \A i \in 1 .. Len(q) : q[i] \in Block /\ Restores(q[i], c, span, turn)
    BY <1>2, <2>1, ElementOfSeq DEF TaskOK, Block
  <2>4. /\ d[b.kind] = b.before
        /\ \A k \in Kinds : k # b.kind => d[k] = c[k]
    BY <2>3 DEF Context
  <2>5. d \in Context
    <3>1. current' \in [Tasks -> Context]
      BY DEF TypeOK
    <3>2. QED
      BY <2>2, <3>1
  <2>6. \A k \in Kinds : Inside(k, b.kind) => ~Has(q, k) /\ c[k] = None
    <3>1. \A i \in 1 .. Len(q) : ~Inside(q[i].kind, b.kind)
      <4> SUFFICES ASSUME NEW i \in 1 .. Len(q) PROVE ~Inside(q[i].kind, b.kind)
        OBVIOUS
      <4>1. CASE i = 1
        BY <2>1, <4>1 DEF Inside
      <4>2. CASE i # 1
        BY <2>1, <2>3, <4>2 DEF InOrder, Nested
      <4>3. QED
        BY <4>1, <4>2
    <3>2. Has(q, b.kind)
      BY <2>1 DEF Has
    <3>3. \A k \in Kinds : Inside(k, b.kind) => ~Has(q, k)
      BY <3>1 DEF Has
    <3>4. QED
      BY <2>3, <3>2, <3>3 DEF InOrder, Surrounded
  <2>7. InOrder(blocks[t], current[t])'
    BY <1>2, <1>6, <2>2, <2>3, StackLeft DEF Leaves
  <2>8. Coherent(d, span, turn)
    <3>1. Restores(b, c, span, turn)
      BY <2>1, <2>3
    <3>2. CASE b.kind = "span"
      BY <2>3, <2>4, <3>1, <3>2 DEF Coherent, Restores, SpanFits, TurnFits, Kinds
    <3>3. CASE b.kind = "turn"
      BY <2>4, <2>6, <3>1, <3>3 DEF Coherent, Restores, TurnFits, Inside, Kinds
    <3>4. CASE b.kind = "conversation"
      BY <2>4, <2>6, <3>4 DEF Coherent, Inside, Kinds
    <3>5. QED
      BY <2>3, <3>2, <3>3, <3>4 DEF Kinds
  <2>9. ASSUME NEW i \in 1 .. Len(blocks'[t]) PROVE Restores(blocks[t][i], current[t], span, turn)'
    <3>1. i + 1 \in 1 .. Len(q) /\ blocks'[t][i] = q[i + 1] /\ q[i + 1].kind \in Kinds
      BY <2>1, <2>2, <2>3 DEF Block
    <3>2. ~Inside(q[i + 1].kind, b.kind)
      BY <2>6, <3>1 DEF Has
    <3>3. Restores(q[i + 1], d, span, turn)
      BY <2>3, <2>4, <3>1, <3>2 DEF Restores, SpanFits, TurnFits, Inside, Kinds
    <3>4. QED
      BY <1>1, <2>2, <2>3, <2>5, <3>1, <3>3
  <2>10. Coherent(current[t], span, turn)'
    BY <1>1, <2>2, <2>5, <2>8
  <2>11. TaskOK(t)'
    BY <2>7, <2>9, <2>10 DEF TaskOK
  <2>12. QED
    BY <1>3, <2>2, <2>11
<1>7. ASSUME NEW t \in Tasks, NEW n \in Tasks, Spawns(t, n)
      PROVE  \A m \in Tasks : TaskOK(m)'
  <2>1. \A m \in Tasks : m # n => TaskOK(m)'
    BY <1>3, <1>7 DEF Spawns, TypeOK
  <2>2. current'[n] = current[t] /\ blocks'[n] = <<>>
    BY <1>7 DEF Spawns, TypeOK
  <2>3. Coherent(current[n], span, turn)'
    BY <1>1, <1>2, <2>2 DEF TaskOK
  <2>4. TaskOK(n)'
    BY <2>2, <2>3 DEF TaskOK, InOrder, Surrounded, Has, Nested, PutsBack
  <2>5. QED
    BY <2>1, <2>4
<1>8. QED
  BY <1>4, <1>5, <1>6, <1>7 DEF ContextStep

-----------------------------------------------------------------------------
(* The trace.                                                              *)

\* A span opened under the current span of an orderly task keeps spans and
\* turns valid.
LEMMA AttachedValid ==
  ASSUME TypeOK, StructureValid, NEW t \in Tasks, NEW s \in Spans, MayOpenSpan(t, s),
         Coherent(current[t], span, turn),
         NEW v \in Span, v.turn = current[t].turn, v.conversation = current[t].conversation,
         v.parent = current[t].span, Attached(t, s, v), reused' = {}
  PROVE  StructureValid'
<1> USE RecorderAssumption
<1>1. Adds(t, s, v)
  BY AttachedSpan
<1>2. v.parent # None => /\ v.parent \in Present(span)
                         /\ span[v.parent].turn = v.turn
                         /\ span[v.parent].conversation = v.conversation
  BY DEF Coherent, SpanFits
<1>3. turn[v.turn].conversation = v.conversation
  BY <1>1 DEF Coherent, TurnFits, Adds
<1>4. \A x \in Present(span) :
        /\ x \in Spans /\ x # s /\ span'[x] = span[x]
        /\ span[x].turn \in Turns /\ span[x].conversation # None
        /\ SpanValid(x, span, turn)
  BY <1>1 DEF Present, StructureValid, TypeOK, Span, OrNone, Adds
<1>5. ASSUME NEW x \in Present(span')
      PROVE  span'[x].conversation # None /\ SpanValid(x, span', turn')
  <2>1. CASE x = s
    BY <1>1, <1>2, <1>3, <1>4, <2>1, ZenonT(40) DEF SpanValid, Adds
  <2>2. CASE x # s
    <3>1. x \in Present(span) /\ span'[x] = span[x] /\ SpanValid(x, span, turn)
          /\ span[x].turn \in Turns /\ span[x].conversation # None
      BY <1>1, <1>4, <2>2 DEF Adds
    <3>2. span[x].parent # None => /\ span[x].parent \in Present(span')
                                   /\ span'[span[x].parent] = span[span[x].parent]
      BY <1>1, <1>4, <3>1 DEF SpanValid, Adds
    <3>3. QED
      BY <1>1, <3>1, <3>2, ZenonT(40) DEF SpanValid, Adds
  <2>3. QED
    BY <2>1, <2>2
<1>6. ASSUME NEW u \in Turns PROVE turn'[u].span_ids = Owned(u, span')
  <2>1. turn[u].span_ids = Owned(u, span)
    BY DEF StructureValid
  <2>2. Owned(u, span') = IF u = current[t].turn THEN Owned(u, span) \cup {s} ELSE Owned(u, span)
    BY <1>1, <1>4 DEF Owned, Adds
  <2>3. QED
    BY <1>1, <2>1, <2>2 DEF Adds
<1>7. Acyclic(span')
  <2> SUFFICES ASSUME NEW S \in SUBSET Present(span'), S # {}
               PROVE  \E x \in S : span'[x].parent \notin S
    BY DEF Acyclic
  <2>1. None \notin S
    BY DEF Present
  <2>2. CASE S \subseteq {s}
    <3>1. S = {s}
      BY <2>2
    <3>2. v.parent # s
      BY <1>1, <1>2 DEF Adds
    <3>3. QED
      BY <1>1, <3>1, <3>2 DEF Adds
  <2>3. CASE S \ {s} # {}
    <3>1. S \ {s} \in SUBSET Present(span)
      BY <1>1 DEF Adds
    <3>2. PICK x \in S \ {s} : span[x].parent \notin S \ {s}
      BY <2>3, <3>1 DEF StructureValid, Acyclic
    <3>3. x \in Present(span)
      BY <3>1, <3>2
    <3>4. span[x].parent # s
      BY <1>1, <1>4, <3>3 DEF SpanValid, Present, Adds
    <3>5. QED
      BY <1>4, <3>2, <3>3, <3>4
  <2>4. QED
    BY <2>2, <2>3
<1>8. QED
  BY <1>5, <1>6, <1>7 DEF StructureValid

\* In good use a step keeps spans and turns valid.
LEMMA StructureKept ==
  ASSUME TypeOK, Next, ~misused', StructureValid, \A t \in Tasks : TaskOK(t)
  PROVE  StructureValid'
<1> USE RecorderAssumption
<1>0. reused' = {}
  <2>1. ASSUME NEW t \in Tasks, NEW u \in Turns, OpenTurn(t, u) PROVE reused' = reused
    BY <2>1, TurnOpened
  <2>2. reused' = reused
    BY <2>1, ZenonT(40)
       DEF Next, OpenConversation, OpenSpan, Request, Accept, HandoffTo, Leave, Spawn,
           Transition, trace
  <2>3. QED
    BY <2>2 DEF StructureValid
<1>1. CASE UNCHANGED <<span, turn>>
  BY <1>0, <1>1 DEF StructureValid
<1>2. ASSUME NEW t \in Tasks, NEW u \in Turns, OpenTurn(t, u) PROVE StructureValid'
  <2>1. /\ span' = span
        /\ \A w \in Turns : turn'[w].span_ids = turn[w].span_ids
        /\ \A w \in Turns :
             turn[w].conversation # None => turn'[w].conversation = turn[w].conversation
    BY <1>2, TurnOpened DEF OpenTurn
  <2>2. \A s \in Present(span) : span[s].turn \in Turns
    BY DEF TypeOK, Present, Span, OrNone
  <2>3. \A s \in Present(span') : span'[s].conversation # None /\ SpanValid(s, span', turn')
    BY <2>1, <2>2 DEF StructureValid, SpanValid
  <2>4. QED
    BY <1>0, <2>1, <2>3 DEF StructureValid
<1>3. ASSUME NEW t \in Tasks, NEW s \in Spans, OpenSpan(t, s) PROVE StructureValid'
  <2>1. PICK p \in {CurrentSpan(t)} \cup Spans, a \in Agents :
          Attached(t, s, NewSpan(t, p, a)) /\ misused' = (misused \/ p # CurrentSpan(t))
    BY <1>3 DEF OpenSpan
  <2>2. p = CurrentSpan(t) /\ CurrentSpan(t) \in OrNone(Spans)
    BY <2>1 DEF CurrentSpan, TypeOK, Context, Kinds, Names
  <2>3. /\ NewSpan(t, p, a) \in Span /\ NewSpan(t, p, a).turn = current[t].turn
        /\ NewSpan(t, p, a).conversation = current[t].conversation
        /\ NewSpan(t, p, a).parent = current[t].span
    BY <2>2, NewSpans DEF NewSpanTyped, OrNone, NewSpan, CurrentSpan
  <2>4. QED
    BY <1>0, <1>3, <2>1, <2>3, AttachedValid DEF OpenSpan, TaskOK
<1>4. ASSUME NEW t \in Tasks, NEW h \in Handoffs, NEW s \in Spans, Accept(t, h, s)
      PROVE  StructureValid'
  <2> DEFINE v == NewSpan(t, CurrentSpan(t), handoff[h].agent)
             w == [v EXCEPT !.links = {handoff[h].source}]
  <2>1. CurrentSpan(t) \in OrNone(Spans) /\ handoff[h] \in Handoff
    BY DEF TypeOK, Context, Kinds, Names, CurrentSpan
  <2>2. /\ v \in Span /\ v.turn = current[t].turn /\ v.conversation = current[t].conversation
        /\ v.parent = current[t].span
    BY <2>1, NewSpans DEF NewSpanTyped, Handoff, NewSpan, CurrentSpan
  <2>3. CASE Attached(t, s, v)
    BY <1>0, <1>4, <2>2, <2>3, AttachedValid DEF Accept, TaskOK
  <2>4. CASE Attached(t, s, w) /\ handoff[h].source \in Spans
    <3>1. /\ w \in Span /\ w.turn = v.turn /\ w.conversation = v.conversation
          /\ w.parent = v.parent
      BY <2>2, <2>4 DEF Span
    <3>2. QED
      BY <1>0, <1>4, <2>2, <2>4, <3>1, AttachedValid DEF Accept, TaskOK
  <2>5. QED
    BY <1>4, <2>3, <2>4 DEF Accept, Valid, HandoffValid, Present, AwaitsTarget
<1>5. ASSUME NEW t \in Tasks, NEW h \in Handoffs, NEW s \in Spans, HandoffTo(t, h, s)
      PROVE  StructureValid'
  <2>1. /\ turn' = turn
        /\ \A x \in Spans :
             /\ span'[x].turn = span[x].turn /\ span'[x].parent = span[x].parent
             /\ span'[x].conversation = span[x].conversation
    BY <1>5 DEF HandoffTo, TypeOK, Span
  <2>2. Present(span') = Present(span)
    BY <2>1 DEF Present
  <2>3. \A x \in Present(span') : span'[x].conversation # None /\ SpanValid(x, span', turn')
    BY <2>1, <2>2 DEF StructureValid, SpanValid, Present
  <2>4. \A u \in Turns : turn'[u].span_ids = Owned(u, span')
    BY <2>1, <2>2 DEF StructureValid, Owned, Present
  <2>5. Acyclic(span')
    BY <2>1, <2>2 DEF StructureValid, Acyclic, Present
  <2>6. QED
    BY <1>0, <2>3, <2>4, <2>5 DEF StructureValid
<1>6. QED
  BY <1>1, <1>2, <1>3, <1>4, <1>5
     DEF Next, OpenConversation, Request, Transition, Leave, Spawn, trace

\* A handoff that moves on keeps what validate asks of it, or is declined.
LEMMA HandoffMoved ==
  ASSUME NEW h \in Handoffs, handoff[h] \in Handoff, HandoffOK(h), Grows,
         NEW st \in Transitions(handoff[h].status),
         st = "accepted" => handoff[h].target # None,
         handoff'[h] = [handoff[h] EXCEPT !.status = st]
  PROVE  HandoffOK(h)'
<1> USE RecorderAssumption
<1>1. handoff[h].status \in {"requested", "accepted"} /\ st # "none" /\ st # "requested"
  BY DEF Transitions, Handoff, Final
<1>2. HandoffValid(handoff[h], span)
  BY <1>1 DEF HandoffOK, Declined, Final
<1>3. handoff'[h].target = None => st \in Final
  BY <1>1, <1>2 DEF Handoff, HandoffValid, Transitions, Final
<1>4. CASE handoff[h].target # None
  BY <1>1, <1>2, <1>4 DEF HandoffOK, HandoffValid, Grows, Handoff
<1>5. CASE handoff[h].target = None
  BY <1>1, <1>3, <1>5 DEF HandoffOK, Declined, Handoff
<1>6. QED
  BY <1>4, <1>5

LEMMA HandoffsKept ==
  ASSUME TypeOK, Grows, Next, \A t \in Tasks : NamesPresent(t),
         \A h \in Handoffs : HandoffOK(h)
  PROVE  \A h \in Handoffs : HandoffOK(h)'
<1> USE RecorderAssumption
<1>1. ASSUME NEW h \in Handoffs, handoff'[h] = handoff[h] PROVE HandoffOK(h)'
  BY <1>1 DEF HandoffOK, Declined, HandoffValid, Grows
<1>2. \A h \in Handoffs : handoff[h] \in Handoff
  BY DEF TypeOK
<1>3. \A t \in Tasks : current[t].span # None => current[t].span \in Present(span)
  BY DEF NamesPresent
<1>4. ASSUME NEW t \in Tasks, NEW h \in Handoffs, NEW a \in Agents, Request(t, h, a)
      PROVE  \A k \in Handoffs : HandoffOK(k)'
  <2>1. handoff'[h] = Requested(t, a) /\ \A k \in Handoffs : k # h => handoff'[k] = handoff[k]
    BY <1>4 DEF Request, TypeOK
  <2>2. HandoffOK(h)'
    BY <1>3, <1>4, <2>1 DEF Request, Requested, HandoffOK, HandoffValid, Grows
  <2>3. QED
    BY <1>1, <2>1, <2>2
<1>5. ASSUME NEW t \in Tasks, NEW h \in Handoffs, NEW s \in Spans, Accept(t, h, s)
      PROVE  \A k \in Handoffs : HandoffOK(k)'
  <2> DEFINE v == NewSpan(t, CurrentSpan(t), handoff[h].agent)
             w == [v EXCEPT !.links = {handoff[h].source}]
  <2>1. CASE UNCHANGED handoff
    BY <1>1, <2>1
  <2>2. CASE /\ Attached(t, s, w)
             /\ handoff' = [handoff EXCEPT ![h].target = s, ![h].status = "accepted"]
    <3>1. handoff[h].source \in Present(span) /\ handoff[h].status = "requested"
      BY <1>5 DEF Accept, AwaitsTarget, HandoffOK, Declined, Final, HandoffValid
    <3>2. handoff[h].agent \in OrNone(Agents) /\ CurrentSpan(t) \in OrNone(Spans)
      BY <1>2 DEF Handoff, TypeOK, Context, Kinds, Names, CurrentSpan
    <3>3. w \in Span /\ w.agent = handoff[h].agent /\ w.links = {handoff[h].source}
          /\ w.turn = current[t].turn
      BY <3>1, <3>2, NewSpans DEF NewSpanTyped, NewSpan, Span, Present
    <3>4. span'[s] = w /\ s \in Present(span')
      <4>1. Adds(t, s, w)
        BY <1>5, <2>2, <3>3, AttachedSpan DEF Accept
      <4>2. QED
        BY <4>1 DEF Adds
    <3>5. /\ handoff'[h] = [handoff[h] EXCEPT !.target = s, !.status = "accepted"]
          /\ \A k \in Handoffs : k # h => handoff'[k] = handoff[k]
      BY <2>2 DEF TypeOK
    <3>6. /\ handoff'[h].source = handoff[h].source /\ handoff'[h].target = s
          /\ handoff'[h].status = "accepted" /\ handoff'[h].agent = handoff[h].agent
      BY <1>2, <3>5 DEF Handoff
    <3>7. HandoffOK(h)'
      BY <3>1, <3>3, <3>4, <3>6 DEF HandoffOK, HandoffValid, Grows, Present
    <3>8. QED
      BY <1>1, <3>5, <3>7
  <2>3. QED
    BY <1>5, <2>1, <2>2 DEF Accept
<1>6. ASSUME NEW t \in Tasks, NEW h \in Handoffs, NEW s \in Spans, HandoffTo(t, h, s)
      PROVE  \A k \in Handoffs : HandoffOK(k)'
  <2>1. /\ handoff'[h] = [Requested(t, span[s].agent) EXCEPT !.target = s]
        /\ \A k \in Handoffs : k # h => handoff'[k] = handoff[k]
    BY <1>6 DEF HandoffTo, TypeOK
  <2>2. /\ handoff'[h].status = "requested" /\ handoff'[h].source = current[t].span
        /\ handoff'[h].target = s /\ handoff'[h].agent = span[s].agent
    BY <2>1 DEF Requested
  <2>3. /\ span'[s].agent = span[s].agent /\ current[t].span \in span'[s].links
        /\ s \in Present(span') /\ current[t].span \in Present(span')
    BY <1>3, <1>6 DEF HandoffTo, TypeOK, Span, Present, Grows
  <2>4. HandoffOK(h)'
    BY <2>2, <2>3 DEF HandoffOK, HandoffValid
  <2>5. QED
    BY <1>1, <2>1, <2>4
<1>7. ASSUME NEW t \in Tasks, NEW how \in Hows, Leave(t, how)
      PROVE  \A k \in Handoffs : HandoffOK(k)'
  <2> DEFINE h == Head(blocks[t]).handoff
  <2>1. CASE UNCHANGED handoff
    BY <1>1, <2>1
  <2>2. CASE /\ h # None /\ MayBecome(h, Outcome(how))
             /\ handoff' = [handoff EXCEPT ![h].status = Outcome(how)]
    <3>1. PICK k \in Handoffs : k = h
      <4>1. blocks[t] \in Seq(Block) /\ blocks[t] # <<>>
        BY <1>7 DEF Leave, TypeOK
      <4>2. Head(blocks[t]) \in Block
        BY <4>1, Popped
      <4>3. QED
        BY <2>2, <4>2 DEF Block, OrNone
    <3>2. /\ handoff'[k] = [handoff[k] EXCEPT !.status = Outcome(how)]
          /\ \A n \in Handoffs : n # k => handoff'[n] = handoff[n]
      BY <2>2, <3>1 DEF TypeOK
    <3>3. HandoffOK(k)'
      BY <1>2, <2>2, <3>1, <3>2, HandoffMoved DEF MayBecome
    <3>4. QED
      BY <1>1, <3>2, <3>3
  <2>3. QED
    BY <1>7, <2>1, <2>2 DEF Leave
<1>8. ASSUME NEW h \in Handoffs, NEW status \in Final \cup {"accepted"}, Transition(h, status)
      PROVE  \A k \in Handoffs : HandoffOK(k)'
  <2>1. /\ handoff'[h] = [handoff[h] EXCEPT !.status = status]
        /\ \A k \in Handoffs : k # h => handoff'[k] = handoff[k]
    BY <1>8 DEF Transition, TypeOK
  <2>2. HandoffOK(h)'
    BY <1>2, <1>8, <2>1, HandoffMoved DEF Transition, MayBecome
  <2>3. QED
    BY <1>1, <2>1, <2>2
<1>9. QED
  BY <1>1, <1>4, <1>5, <1>6, <1>7, <1>8
     DEF Next, OpenConversation, OpenTurn, OpenSpan, Spawn, trace

-----------------------------------------------------------------------------
(* Theorems.                                                               *)

\* The inductive invariant.
THEOREM RecorderInvariance == Spec => []RInv
<1> USE RecorderAssumption
<1>1. Init => RInv
  <2> SUFFICES ASSUME Init PROVE RInv
    OBVIOUS
  <2>1. TypeOK
    BY InitTyped
  <2>2. /\ \A t \in Tasks : blocks[t] = <<>> /\ \A k \in Kinds : current[t][k] = None
        /\ \A h \in Handoffs : handoff[h] = NoHandoff
        /\ Present(span) = {}
    BY DEF Init, NoContext, Kinds, Present, NoSpan
  <2>3. ASSUME NEW t \in Tasks PROVE NamesPresent(t) /\ TaskOK(t)
    <3>1. /\ blocks[t] = <<>> /\ 1 .. Len(blocks[t]) = {}
          /\ current[t]["span"] = None /\ current[t]["turn"] = None
      BY <2>2 DEF Kinds
    <3>2. NamesPresent(t)
      BY <3>1 DEF NamesPresent
    <3>3. InOrder(blocks[t], current[t])
      BY <3>1 DEF InOrder, Surrounded, Has, Nested, PutsBack
    <3>4. QED
      BY <3>1, <3>2, <3>3 DEF TaskOK, Coherent
  <2>4. \A h \in Handoffs : HandoffOK(h)
    BY <2>2 DEF HandoffOK, NoHandoff
  <2>5. StructureValid
    <3>1. \A u \in Turns : turn[u].span_ids = {} /\ Owned(u, span) = {}
      BY <2>2 DEF Init, NoTurn, Owned
    <3>2. QED
      BY <2>2, <3>1 DEF Init, StructureValid, Acyclic
  <2>6. QED
    BY <2>1, <2>2, <2>3, <2>4, <2>5 DEF RInv, GoodUse
<1>2. RInv /\ [Next]_vars => RInv'
  <2> SUFFICES ASSUME RInv, [Next]_vars PROVE RInv'
    OBVIOUS
  <2>1. CASE UNCHANGED vars
    BY <2>1 DEF vars, trace, RInv, TypeOK, NamesPresent, BlockPresent, HandoffOK, Declined,
                HandoffValid, GoodUse, StructureValid, TaskOK
  <2>2. CASE Next
    <3>1. TypeOK' /\ Grows
      BY <2>2, StepTyped DEF RInv
    <3>2. ContextStep /\ NoWayBack
      BY <2>2, ContextSteps DEF RInv
    <3>3. /\ \A t \in Tasks : NamesPresent(t)'
          /\ \A t \in Tasks \ started' : blocks'[t] = <<>>
      BY <3>1, <3>2, NamesKept DEF RInv
    <3>4. \A h \in Handoffs : HandoffOK(h)'
      BY <2>2, <3>1, HandoffsKept DEF RInv
    <3>5. ASSUME ~misused' PROVE StructureValid' /\ \A t \in Tasks : TaskOK(t)'
      <4>1. StructureValid /\ \A t \in Tasks : TaskOK(t)
        BY <3>2, <3>5 DEF RInv, GoodUse, NoWayBack
      <4>2. StructureValid'
        BY <2>2, <3>5, <4>1, StructureKept DEF RInv
      <4>3. \A t \in Tasks : TaskOK(t)'
        BY <3>1, <3>2, <3>5, <4>1, TasksKept DEF RInv
      <4>4. QED
        BY <4>2, <4>3
    <3>6. QED
      BY <3>1, <3>3, <3>4, <3>5 DEF RInv, GoodUse
  <2>3. QED
    BY <2>1, <2>2
<1>3. QED
  BY <1>1, <1>2, PTL DEF Spec

\* Every variable keeps its type: what a block puts back into a context variable
\* is of the variable's kind.
THEOREM RecorderTypeCorrect == Spec => []TypeOK
<1>1. RInv => TypeOK
  BY DEF RInv
<1>2. QED
  BY <1>1, RecorderInvariance, PTL

\* Any number of tasks that open blocks from the outside in, and leave parents
\* and new ids to the recorder, leave a trace that Trace.validate accepts at any
\* moment, unless a handoff was declined.
THEOREM TraceStaysValid == Spec => []ValidInGoodUse
<1>1. RInv => ValidInGoodUse
  BY DEF RInv, GoodUse, StructureValid, HandoffOK, ValidInGoodUse, TraceValid, Valid
<1>2. QED
  BY <1>1, RecorderInvariance, PTL

\* The block of an accepted target leaves no handoff open behind it.
THEOREM TargetsSettle == Spec => TargetSettles
<1>1. ASSUME RInv, [Next]_vars, TraceValid, NEW t \in Tasks PROVE Settles(t)
  <2>1. /\ blocks[t] \in Seq(Block)
        /\ blocks[t] # <<>> => /\ Head(blocks[t]) \in Block
                               /\ BlockPresent(Head(blocks[t]))
                               /\ Len(blocks[t]) \in Nat
                               /\ Len(Tail(blocks[t])) = Len(blocks[t]) - 1
    <3>1. blocks[t] \in Seq(Block)
      BY <1>1 DEF RInv, TypeOK
    <3>2. ASSUME blocks[t] # <<>>
          PROVE  /\ Head(blocks[t]) \in Block
                 /\ Head(blocks[t]) = blocks[t][1] /\ Len(blocks[t]) \in Nat \ {0}
                 /\ Len(Tail(blocks[t])) = Len(blocks[t]) - 1
      BY <3>1, <3>2, Popped
    <3>3. blocks[t] # <<>> => BlockPresent(Head(blocks[t]))
      BY <1>1, <3>2 DEF RInv, NamesPresent
    <3>4. QED
      BY <3>1, <3>2, <3>3
  <2>2. CASE \E how \in Hows : Leave(t, how)
    <3>1. PICK how \in Hows : Leave(t, how)
      BY <2>2
    <3>2. ASSUME NEW h \in Handoffs, h = Head(blocks[t]).handoff, blocks[t] # <<>>
          PROVE  handoff'[h].status \in Final
      <4>1. handoff[h].status \in {"accepted"} \cup Final /\ h # None
        BY <2>1, <3>2, RecorderAssumption DEF BlockPresent
      <4>2. handoff \in [Handoffs -> Handoff] /\ Outcome(how) \in Final
        BY <1>1 DEF RInv, TypeOK, Outcome, Final
      <4>3. CASE handoff[h].status = "accepted"
        <5>1. MayBecome(h, Outcome(how))
          BY <4>2, <4>3 DEF MayBecome, Transitions, Final
        <5>2. handoff' = [handoff EXCEPT ![h].status = Outcome(how)]
          BY <1>1, <3>1, <3>2, <4>1, <5>1 DEF Leave
        <5>3. QED
          BY <4>2, <5>2 DEF Handoff
      <4>4. CASE handoff[h].status \in Final
        <5>1. ~MayBecome(h, Outcome(how))
          BY <4>4 DEF MayBecome, Transitions, Final
        <5>2. handoff' = handoff
          BY <3>1, <3>2, <5>1 DEF Leave
        <5>3. QED
          BY <4>4, <5>2
      <4>5. QED
        BY <4>1, <4>3, <4>4
    <3>3. QED
      BY <2>1, <3>2 DEF Settles, Block, OrNone
  <2>3. CASE blocks[t] # <<>> /\ ~\E how \in Hows : Leave(t, how)
    <3>1. SUFFICES blocks'[t] # Tail(blocks[t])
      BY DEF Settles
    <3>2. blocks[t] # Tail(blocks[t])
      <4>1. Len(Tail(blocks[t])) = Len(blocks[t]) - 1 /\ Len(blocks[t]) \in Nat
        BY <2>1, <2>3
      <4>2. Len(Tail(blocks[t])) # Len(blocks[t])
        BY ONLY <4>1
      <4>3. QED
        BY ONLY <4>2, Zenon
    <3>3. ASSUME NEW n \in Tasks, NEW kind \in Kinds, NEW id \in Names(kind),
                 NEW h \in OrNone(Handoffs), Enters(n, kind, id, h)
          PROVE  blocks'[t] # Tail(blocks[t])
      <4>1. /\ NewBlock(n, kind, id, h) \in Block
            /\ blocks' = [blocks EXCEPT ![n] = <<NewBlock(n, kind, id, h)>> \o blocks[n]]
        BY <1>1, <3>3, EnterTyped DEF Enters, RInv
      <4>2. CASE n = t
        <5>1. blocks'[t] = <<NewBlock(n, kind, id, h)>> \o blocks[t]
          BY <1>1, <4>1, <4>2 DEF RInv, TypeOK
        <5>2. Len(<<NewBlock(n, kind, id, h)>> \o blocks[t]) = Len(blocks[t]) + 1
          BY <2>1, <4>1, Pushed
        <5>3. QED
          BY <2>1, <2>3, <5>1, <5>2
      <4>3. CASE n # t
        BY <1>1, <3>2, <4>1, <4>3 DEF RInv, TypeOK
      <4>4. QED
        BY <4>2, <4>3
    <3>4. ASSUME NEW n \in Tasks, Leaves(n) PROVE blocks'[t] # Tail(blocks[t])
      BY <1>1, <2>3, <3>2, <3>4 DEF Leaves, RInv, TypeOK
    <3>5. CASE Next
      <4>1. ContextStep
        BY <1>1, <3>5, ContextSteps DEF RInv
      <4>2. QED
        BY <3>2, <3>3, <3>4, <4>1 DEF ContextStep, Spawns
    <3>6. QED
      BY <1>1, <3>2, <3>5 DEF vars
  <2>4. QED
    BY <2>2, <2>3 DEF Settles
<1>2. RInv /\ [Next]_vars => (TraceValid => \A t \in Tasks : Settles(t))
  BY <1>1
<1>3. QED
  BY <1>2, RecorderInvariance, PTL DEF Spec, TargetSettles

\* A move of a handoff that the lifecycle allows.
HandoffMoves(h) == Lifecycle!Moves(Life[h], Life'[h])

LEMMA LifeOf ==
  ASSUME NEW h \in Handoffs
  PROVE  /\ Life[h].status = handoff[h].status /\ Life[h].source = handoff[h].source
         /\ Life[h].target = handoff[h].target
         /\ Life'[h].status = handoff'[h].status /\ Life'[h].source = handoff'[h].source
         /\ Life'[h].target = handoff'[h].target
BY DEF Life

\* Whoever moves a handoff on, alone or with its target.
LEMMA MovesAllowed ==
  ASSUME NEW h \in Handoffs, handoff \in [Handoffs -> Handoff], NEW status,
         MayBecome(h, status), handoff' = [handoff EXCEPT ![h].status = status]
  PROVE  HandoffMoves(h)
<1>1. /\ handoff'[h].status = status /\ handoff'[h].source = handoff[h].source
      /\ handoff'[h].target = handoff[h].target
  BY DEF Handoff
<1>2. /\ status \in Lifecycle!After[handoff[h].status]
      /\ handoff[h].status # "none"
      /\ status = "accepted" => handoff[h].target # None
  BY DEF MayBecome, Transitions, Lifecycle!After, Lifecycle!Final, Final, Handoff
<1>3. QED
  BY <1>1, <1>2, LifeOf DEF HandoffMoves, Lifecycle!Moves

\* Every call moves each handoff as the lifecycle allows, or leaves it alone.
LEMMA CallsMoveHandoffs ==
  ASSUME RInv, Next
  PROVE  \A k \in Handoffs : handoff'[k] = handoff[k] \/ HandoffMoves(k)
<1> USE RecorderAssumption
<1>1. TypeOK /\ \A h \in Handoffs : handoff[h].status = "none" => handoff[h] = NoHandoff
  BY DEF RInv, HandoffOK
<1>2. ASSUME NEW t \in Tasks, NEW h \in Handoffs, NEW a \in Agents, Request(t, h, a)
      PROVE  \A k \in Handoffs : handoff'[k] = handoff[k] \/ HandoffMoves(k)
  <2>1. handoff'[h] = Requested(t, a) /\ handoff[h] = NoHandoff
    BY <1>1, <1>2 DEF Request, TypeOK
  <2>2. HandoffMoves(h)
    BY <2>1, LifeOf DEF HandoffMoves, Lifecycle!Moves, Lifecycle!After, Requested, NoHandoff
  <2>3. QED
    BY <1>1, <1>2, <2>2 DEF Request, TypeOK
<1>3. ASSUME NEW t \in Tasks, NEW h \in Handoffs, NEW s \in Spans, Accept(t, h, s)
      PROVE  \A k \in Handoffs : handoff'[k] = handoff[k] \/ HandoffMoves(k)
  <2>1. CASE handoff' = handoff
    BY <2>1
  <2>2. CASE handoff' = [handoff EXCEPT ![h].target = s, ![h].status = "accepted"]
    <3>1. /\ handoff'[h].status = "accepted" /\ handoff'[h].target = s
          /\ handoff'[h].source = handoff[h].source
          /\ handoff[h].status = "requested" /\ handoff[h].target = None
      BY <1>1, <1>3, <2>2 DEF Accept, AwaitsTarget, TypeOK, Handoff
    <3>2. HandoffMoves(h)
      BY <3>1, LifeOf DEF HandoffMoves, Lifecycle!Moves, Lifecycle!After
    <3>3. QED
      BY <1>1, <2>2, <3>2 DEF TypeOK
  <2>3. QED
    BY <1>3, <2>1, <2>2 DEF Accept
<1>4. ASSUME NEW t \in Tasks, NEW h \in Handoffs, NEW s \in Spans, HandoffTo(t, h, s)
      PROVE  \A k \in Handoffs : handoff'[k] = handoff[k] \/ HandoffMoves(k)
  <2>1. /\ handoff'[h] = [Requested(t, span[s].agent) EXCEPT !.target = s]
        /\ handoff[h] = NoHandoff
    BY <1>1, <1>4 DEF HandoffTo, TypeOK
  <2>2. HandoffMoves(h)
    BY <2>1, LifeOf DEF HandoffMoves, Lifecycle!Moves, Lifecycle!After, Requested, NoHandoff
  <2>3. QED
    BY <1>1, <1>4, <2>2 DEF HandoffTo, TypeOK
<1>5. ASSUME NEW h \in Handoffs, NEW status, MayBecome(h, status),
             handoff' = [handoff EXCEPT ![h].status = status]
      PROVE  \A k \in Handoffs : handoff'[k] = handoff[k] \/ HandoffMoves(k)
  BY <1>1, <1>5, MovesAllowed DEF TypeOK
<1>6. ASSUME NEW t \in Tasks, NEW how \in Hows, Leave(t, how)
      PROVE  \A k \in Handoffs : handoff'[k] = handoff[k] \/ HandoffMoves(k)
  <2>1. Head(blocks[t]).handoff \in OrNone(Handoffs)
    <3>1. blocks[t] \in Seq(Block) /\ blocks[t] # <<>>
      BY <1>1, <1>6 DEF Leave, TypeOK
    <3>2. QED
      BY <3>1, Popped DEF Block
  <2>2. QED
    BY <1>5, <1>6, <2>1 DEF Leave, OrNone
<1>7. QED
  BY <1>2, <1>3, <1>4, <1>5, <1>6
     DEF Next, OpenConversation, OpenTurn, OpenSpan, Spawn, trace, Transition

\* The recorder implements the lifecycle of handoffs.
THEOREM HandoffLifecycleImplemented == Spec => ImplementsHandoffLifecycle
<1> USE RecorderAssumption
<1>1. Init => Lifecycle!Init
  BY DEF Init, Lifecycle!Init, Life, NoHandoff, Lifecycle!NewLife
<1>2. RInv /\ [Next]_vars => [Lifecycle!Next]_Life
  <2> SUFFICES ASSUME RInv, [Next]_vars PROVE [Lifecycle!Next]_Life
    OBVIOUS
  <2>1. CASE UNCHANGED vars
    BY <2>1 DEF vars, trace, Life
  <2>2. CASE Next
    <3>1. ASSUME NEW k \in Handoffs PROVE Life'[k] = Life[k] \/ HandoffMoves(k)
      BY <2>2, <3>1, CallsMoveHandoffs DEF Life
    <3>2. QED
      BY <3>1 DEF Lifecycle!Next, HandoffMoves
  <2>3. QED
    BY <2>1, <2>2
<1>3. QED
  BY <1>1, <1>2, RecorderInvariance, PTL DEF Spec, ImplementsHandoffLifecycle, Lifecycle!Spec

-----------------------------------------------------------------------------
(* What comes of declining a handoff.                                       *)

\* Task t enters the block of a span.
EntersSpan(t) == Len(blocks'[t]) > Len(blocks[t]) /\ Head(blocks'[t]).kind = "span"

\* A handoff is declined by a call of transition_handoff on one that was
\* requested, never by a block that ends.
DeclineStep(h) ==
  ~Declined(h) /\ Declined(h)' =>
    /\ handoff[h].status = "requested" /\ handoff'[h].status \in {"failed", "cancelled"}
    /\ blocks' = blocks

\* A declined handoff stays one, and the trace is invalid with it: no span is
\* entered any more, and no block that ends settles a handoff.
DeclineLocks(h) ==
  Declined(h) =>
    /\ ~TraceValid /\ Declined(h)'
    /\ \A t \in Tasks : ~EntersSpan(t)
    /\ handoff' # handoff => blocks' = blocks

LEMMA DeclinedRefuted ==
  ASSUME NEW h \in Handoffs, Declined(h), NEW turns, NEW spans
  PROVE  ~Valid(turns, spans, handoff)
BY DEF Declined, Final, Valid, HandoffValid

\* Nothing undoes a decline, and only what was merely requested is declined.
LEMMA DeclinedForGood ==
  ASSUME RInv, Next, NEW h \in Handoffs
  PROVE  /\ Declined(h) => Declined(h)'
         /\ ~Declined(h) /\ Declined(h)' =>
              handoff[h].status = "requested" /\ handoff'[h].status \in {"failed", "cancelled"}
<1>1. handoff[h] \in Handoff
  BY DEF RInv, TypeOK
<1>2. handoff'[h] = handoff[h] \/ HandoffMoves(h)
  BY CallsMoveHandoffs
<1>3. ASSUME Declined(h), HandoffMoves(h) PROVE Declined(h)'
  BY <1>1, <1>3, LifeOf DEF HandoffMoves, Lifecycle!Moves, Lifecycle!After, Declined, Final
<1>4. ASSUME ~Declined(h), Declined(h)', HandoffMoves(h)
      PROVE  handoff[h].status = "requested" /\ handoff'[h].status \in {"failed", "cancelled"}
  <2>1. /\ handoff'[h].target = None /\ handoff'[h].status \in Final
        /\ handoff'[h].status \in Lifecycle!After[handoff[h].status]
    BY <1>4, LifeOf DEF Declined, HandoffMoves, Lifecycle!Moves
  <2>2. handoff[h].target = None
    BY <1>4, LifeOf, RecorderAssumption DEF HandoffMoves, Lifecycle!Moves, Declined
  <2>3. handoff[h].status = "requested"
    BY <1>1, <1>4, <2>1, <2>2 DEF RInv, HandoffOK, HandoffValid, Lifecycle!After, Handoff, Final
  <2>4. QED
    BY <2>1, <2>3 DEF Lifecycle!After, Final
<1>5. QED
  BY <1>2, <1>3, <1>4 DEF Declined

\* Entering the block of a span or settling a handoff takes a valid trace.
LEMMA LockedStep ==
  ASSUME RInv, Next, \A turns, spans : ~Valid(turns, spans, handoff)
  PROVE  /\ \A t \in Tasks : ~EntersSpan(t)
         /\ handoff' # handoff => blocks' = blocks
<1> USE RecorderAssumption
<1>1. blocks \in [Tasks -> Seq(Block)]
  BY DEF RInv, TypeOK
<1>2. ~TraceValid /\ \A turns, spans : ~Valid(turns, spans, handoff)
  BY DEF TraceValid
<1>3. ASSUME UNCHANGED blocks PROVE \A t \in Tasks : ~EntersSpan(t)
  <2>1. \A t \in Tasks : Len(blocks[t]) \in Nat
    BY <1>1
  <2>2. QED
    BY <1>3, <2>1 DEF EntersSpan
<1>4. ASSUME NEW n \in Tasks, NEW kind \in {"conversation", "turn"}, NEW id \in Names(kind),
             Enter(n, kind, id, None)
      PROVE  \A t \in Tasks : ~EntersSpan(t)
  <2>1. /\ kind \in Kinds /\ NewBlock(n, kind, id, None) \in Block
        /\ blocks' = [blocks EXCEPT ![n] = <<NewBlock(n, kind, id, None)>> \o blocks[n]]
    BY <1>4, EnterTyped DEF RInv, Kinds, OrNone
  <2>2. SUFFICES ASSUME NEW t \in Tasks PROVE ~EntersSpan(t)
    OBVIOUS
  <2>3. CASE t = n
    <3>1. blocks'[t] = <<NewBlock(n, kind, id, None)>> \o blocks[t] /\ blocks[t] \in Seq(Block)
      BY <1>1, <2>1, <2>3
    <3>2. Head(blocks'[t]) = NewBlock(n, kind, id, None)
      BY <2>1, <3>1
    <3>3. QED
      BY <3>2 DEF EntersSpan, NewBlock
  <2>4. CASE t # n
    <3>1. blocks'[t] = blocks[t] /\ Len(blocks[t]) \in Nat
      BY <1>1, <2>1, <2>4
    <3>2. QED
      BY <3>1 DEF EntersSpan
  <2>5. QED
    BY <2>3, <2>4
<1>5. ASSUME NEW t \in Tasks, NEW c \in Conversations, OpenConversation(t, c)
      PROVE  UNCHANGED handoff /\ \A n \in Tasks : ~EntersSpan(n)
  BY <1>4, <1>5 DEF OpenConversation, Names
<1>6. ASSUME NEW t \in Tasks, NEW u \in Turns, OpenTurn(t, u)
      PROVE  UNCHANGED handoff /\ \A n \in Tasks : ~EntersSpan(n)
  BY <1>4, <1>6 DEF OpenTurn, Names
<1>7. ASSUME NEW t \in Tasks, NEW how \in Hows, Leave(t, how)
      PROVE  UNCHANGED handoff /\ \A n \in Tasks : ~EntersSpan(n)
  <2>1. UNCHANGED handoff /\ blocks' = [blocks EXCEPT ![t] = Tail(blocks[t])]
        /\ blocks[t] \in Seq(Block) /\ blocks[t] # <<>>
    BY <1>1, <1>2, <1>7 DEF Leave
  <2>2. Len(Tail(blocks[t])) = Len(blocks[t]) - 1 /\ Len(blocks[t]) \in Nat \ {0}
    BY <2>1, Popped
  <2>3. \A n \in Tasks : Len(blocks[n]) \in Nat
    BY <1>1
  <2>4. \A n \in Tasks : Len(blocks'[n]) <= Len(blocks[n])
    BY <1>1, <2>1, <2>2, <2>3
  <2>5. QED
    BY <1>1, <2>1, <2>2, <2>3, <2>4 DEF EntersSpan
<1>8. ASSUME NEW t \in Tasks, NEW s \in Spans, OpenSpan(t, s)
      PROVE  UNCHANGED <<handoff, blocks>>
  BY <1>2, <1>8 DEF OpenSpan
<1>9. ASSUME NEW t \in Tasks, NEW k \in Handoffs, NEW s \in Spans, Accept(t, k, s)
      PROVE  UNCHANGED <<handoff, blocks>>
  BY <1>2, <1>9 DEF Accept
<1>10. ASSUME NEW t \in Tasks, NEW k \in Handoffs, NEW s \in Spans, HandoffTo(t, k, s)
       PROVE  FALSE
  BY <1>2, <1>10 DEF HandoffTo
<1>11. ASSUME NEW t \in Tasks, NEW n \in Tasks, Spawn(t, n) PROVE UNCHANGED <<handoff, blocks>>
  BY <1>11 DEF Spawn, trace
<1>12. ASSUME UNCHANGED blocks \/ (UNCHANGED handoff /\ \A n \in Tasks : ~EntersSpan(n))
       PROVE  /\ \A t \in Tasks : ~EntersSpan(t)
              /\ handoff' # handoff => blocks' = blocks
  BY <1>3, <1>12
<1>13. QED
  BY <1>5, <1>6, <1>7, <1>8, <1>9, <1>10, <1>11, <1>12 DEF Next, Request, Transition

\* Blocks never decline a handoff: they end only what was accepted.
LEMMA BlocksDeclineNothing ==
  ASSUME RInv, Next, NEW h \in Handoffs, ~Declined(h), Declined(h)'
  PROVE  blocks' = blocks
<1> USE RecorderAssumption
<1>1. handoff[h].status = "requested" /\ handoff'[h] # handoff[h]
  BY DeclinedForGood DEF Declined
<1>2. handoff \in [Handoffs -> Handoff] /\ blocks \in [Tasks -> Seq(Block)]
  BY DEF RInv, TypeOK
<1>3. ASSUME NEW t \in Tasks, NEW how \in Hows, Leave(t, how) PROVE FALSE
  <2>1. blocks[t] \in Seq(Block) /\ blocks[t] # <<>>
    BY <1>2, <1>3 DEF Leave
  <2>2. /\ Head(blocks[t]) = blocks[t][1] /\ 1 \in 1 .. Len(blocks[t])
    BY <2>1, Popped
  <2>3. BlockPresent(Head(blocks[t]))
    BY <2>2 DEF RInv, NamesPresent
  <2>4. Head(blocks[t]).handoff # h
    BY <1>1, <2>3 DEF BlockPresent, Final
  <2>5. handoff'[h] = handoff[h]
    BY <1>2, <1>3, <2>4 DEF Leave
  <2>6. QED
    BY <1>1, <2>5
<1>4. ASSUME NEW t \in Tasks, NEW k \in Handoffs, NEW s \in Spans, Accept(t, k, s) PROVE FALSE
  <2>1. handoff' = [handoff EXCEPT ![k].target = s, ![k].status = "accepted"] \/ UNCHANGED handoff
    BY <1>4 DEF Accept
  <2>2. h = k => handoff'[h].status \in {"accepted", "requested"}
    BY <1>1, <1>2, <2>1 DEF Handoff
  <2>3. h # k => handoff'[h] = handoff[h]
    BY <1>2, <2>1
  <2>4. QED
    BY <1>1, <2>2, <2>3 DEF Declined, Final
<1>5. QED
  BY <1>1, <1>3, <1>4
     DEF Next, OpenConversation, OpenTurn, OpenSpan, Request, HandoffTo, Spawn, Transition, trace

\* What StatusNeedsTarget denies: a requested handoff can be declined, by a call of
\* transition_handoff and by nothing else, and stays declined; the trace is invalid
\* from then on, so that no span() and no accept_handoff() enters a block again and
\* no target that ends settles its handoff (recorder.py, Trace.validate).
THEOREM DecliningLocksTheRecorder ==
  Spec => [][\A h \in Handoffs : DeclineStep(h) /\ DeclineLocks(h)]_vars
<1>1. ASSUME RInv, Next, NEW h \in Handoffs PROVE DeclineStep(h)
  BY <1>1, DeclinedForGood, BlocksDeclineNothing DEF DeclineStep
<1>2. ASSUME RInv, Next, NEW h \in Handoffs PROVE DeclineLocks(h)
  BY <1>2, DeclinedForGood, LockedStep, DeclinedRefuted DEF DeclineLocks, TraceValid
<1>3. RInv /\ [Next]_vars => [\A h \in Handoffs : DeclineStep(h) /\ DeclineLocks(h)]_vars
  BY <1>1, <1>2
<1>4. QED
  BY <1>3, RecorderInvariance, PTL DEF Spec

\* What a turn id in two conversations does: turn() accepts the id of another conversation's turn,
\* and from then on the trace is invalid for ever, no task enters a span and no block
\* that ends settles a handoff (recorder.py:265, Trace.validate).
THEOREM ReusedTurnIdsLockTheRecorder ==
  Spec => [][reused # {} => /\ ~TraceValid /\ reused \subseteq reused'
                            /\ \A t \in Tasks : ~EntersSpan(t)
                            /\ handoff' # handoff => blocks' = blocks]_vars
<1>1. ASSUME Next PROVE reused \subseteq reused'
  <2>1. ASSUME NEW t \in Tasks, NEW u \in Turns, OpenTurn(t, u) PROVE reused \subseteq reused'
    BY <2>1 DEF OpenTurn
  <2>2. QED
    BY <1>1, <2>1, ZenonT(40)
       DEF Next, OpenConversation, OpenSpan, Request, Accept, HandoffTo, Leave, Spawn,
           Transition, trace
<1>2. ASSUME reused # {} PROVE \A turns, spans : ~Valid(turns, spans, handoff)
  BY <1>2 DEF Valid
<1>3. ASSUME RInv, Next, reused # {}
      PROVE  /\ ~TraceValid /\ reused \subseteq reused'
             /\ \A t \in Tasks : ~EntersSpan(t)
             /\ handoff' # handoff => blocks' = blocks
  BY <1>1, <1>2, <1>3, LockedStep DEF TraceValid
<1>4. RInv /\ [Next]_vars =>
        [reused # {} => /\ ~TraceValid /\ reused \subseteq reused'
                        /\ \A t \in Tasks : ~EntersSpan(t)
                        /\ handoff' # handoff => blocks' = blocks]_vars
  BY <1>3
<1>5. QED
  BY <1>4, RecorderInvariance, PTL DEF Spec
=============================================================================
