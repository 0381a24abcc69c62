---------------------------- MODULE HttpAdapter ----------------------------
(***************************************************************************)
(* blackbox/adapters/http.py: one HttpAgentAdapter that the cases of a run  *)
(* share.  Its destination is resolved once, under a lock, and every        *)
(* connection goes to the addresses found then; requests are retried below  *)
(* the runner's own attempts; close() drops the client.                     *)
(*                                                                         *)
(* A case stands for AsyncRunner's task for it: it calls prepare,           *)
(* start_conversation and send in this order, starts again after a          *)
(* transient error, and a deadline may cut it at any await.                 *)
(***************************************************************************)
EXTENDS Integers, FiniteSets

CONSTANTS
  Cases,         \* the cases of the run
  Addresses,     \* addresses the resolver may return
  Private,       \* those that are not global, or multicast or unspecified
  AllowPrivate,  \* allow_private_networks
  MaxRetries,    \* HttpRetryPolicy.max_retries
  Attempts,      \* RunnerConfig.max_retries + 1
  Messages,      \* messages of a case
  Nobody

\* What HttpRetryPolicy and RunnerConfig accept.
ASSUME HttpAssumption ==
  /\ Nobody \notin Cases
  /\ MaxRetries \in Nat /\ Messages \in Nat /\ Attempts \in Nat \ {0}

VARIABLES
  at,         \* where each case is: the call it awaits
  tries,      \* attempts the runner has made
  heard,      \* responses in the conversation
  posts,      \* requests for the message that is being sent
  total,      \* requests of the case so far
  holder,     \* who holds _resolution_lock
  addresses,  \* _resolved_addresses; {} stands for None
  client,     \* _client: is there one?
  closed,     \* close() has begun, or has ended
  dialed      \* addresses that connections were made to

httpVars == <<at, tries, heard, posts, total, holder, addresses, client, closed, dialed>>

Awaiting == {"lock", "resolve", "token", "reply", "sleep", "backoff"}

HttpInit ==
  /\ at = [c \in Cases |-> "idle"]
  /\ tries = [c \in Cases |-> 0]
  /\ heard = [c \in Cases |-> 0]
  /\ posts = [c \in Cases |-> 0]
  /\ total = [c \in Cases |-> 0]
  /\ holder = Nobody /\ addresses = {} /\ client = FALSE
  /\ closed = "no" /\ dialed = {}

Goto(c, a) == at' = [at EXCEPT ![c] = a]

counts == <<tries, heard, posts, total>>
shared == <<holder, addresses, client, closed, dialed>>

-----------------------------------------------------------------------------
(* prepare.                                                                *)

\* A new attempt: a new conversation, with no responses yet.
PrepareAttempt(c) ==
  /\ at[c] \in {"idle", "backoff"}
  /\ tries' = [tries EXCEPT ![c] = @ + 1]
  /\ heard' = [heard EXCEPT ![c] = 0]
  /\ Goto(c, IF closed # "no" THEN "over" ELSE IF addresses # {} THEN "ready" ELSE "lock")
  /\ UNCHANGED <<posts, total, shared>>

\* Faulty variant: the addresses are looked at before the wait only.
AcquireBlindly(c) ==
  /\ at[c] = "lock" /\ holder = Nobody
  /\ Goto(c, "resolve") /\ holder' = c
  /\ UNCHANGED <<counts, addresses, client, closed, dialed>>

\* Whoever has waited for the lock looks at the addresses again.
Acquire(c) ==
  /\ at[c] = "lock" /\ holder = Nobody
  /\ IF addresses # {}
     THEN Goto(c, "ready") /\ UNCHANGED holder
     ELSE Goto(c, "resolve") /\ holder' = c
  /\ UNCHANGED <<counts, addresses, client, closed, dialed>>

Acceptable(A) == A # {} /\ (A \cap Private = {} \/ AllowPrivate)

\* The resolver answers with the addresses A, all of which must do, or fails:
\* then A is empty.
Resolve(c, A) ==
  /\ at[c] = "resolve"
  /\ holder' = Nobody
  /\ IF Acceptable(A) THEN addresses' = A /\ Goto(c, "ready")
                      ELSE Goto(c, "over") /\ UNCHANGED addresses
  /\ UNCHANGED <<counts, client, closed, dialed>>

-----------------------------------------------------------------------------
(* send.                                                                   *)

\* The payload is built and measured, then a token is asked for.
Send(c) ==
  /\ at[c] = "ready" /\ heard[c] < Messages
  /\ \/ Goto(c, "token")
     \/ Goto(c, "over")
  /\ UNCHANGED <<counts, shared>>

\* The token provider returns what is not an OIDCTokenSecret, or raises.
BadToken(c) ==
  /\ at[c] = "token"
  /\ Goto(c, "over")
  /\ UNCHANGED <<counts, shared>>

\* One request, by a client that is made when there is none.  The connection is
\* tried with the validated addresses in turn.
Post(c) ==
  /\ at[c] \in {"token", "sleep"}
  /\ Goto(c, "reply")
  /\ posts' = [posts EXCEPT ![c] = @ + 1]
  /\ total' = [total EXCEPT ![c] = @ + 1]
  /\ client' = TRUE
  /\ \E A \in (SUBSET addresses) \ {{}} : dialed' = dialed \cup A
  /\ UNCHANGED <<tries, heard, holder, addresses, closed>>

\* What comes back: a status, 0 if the connection broke before there was one, and
\* what the body turns out to be when it is read, decoded and mapped.
Replies == [status : {200, 302, 404, 429, 503}, body : {"document"}]
             \cup [status : {0}, body : {"broken"}]
             \cup [status : {200}, body : {"broken", "too_large", "not_json", "unmapped"}]

\* _check_status: the server asks for another try; or the connection broke.
Transient(r) == r.status \in {408, 425, 429} \/ r.status >= 500 \/ r.body = "broken"

\* A redirect, an error of the client, a body that cannot be used: final.
Permanent(r) == ~Transient(r) /\ (r.status >= 300 \/ r.body # "document")

\* Faulty variant: one too many.
RetriesLeftInclusive(c) == posts[c] <= MaxRetries + 1

\* Retries are counted from the first request of this message on.
RetriesLeft(c) == posts[c] <= MaxRetries

Reply(c, r) ==
  /\ at[c] = "reply"
  /\ \/ /\ Permanent(r)
        /\ Goto(c, "over") /\ UNCHANGED <<heard, posts>>
     \/ /\ Transient(r) /\ RetriesLeft(c)
        /\ Goto(c, "sleep") /\ UNCHANGED <<heard, posts>>
     \/ /\ Transient(r) /\ ~RetriesLeft(c)
        /\ Goto(c, IF tries[c] < Attempts THEN "backoff" ELSE "over")
        /\ posts' = [posts EXCEPT ![c] = 0]
        /\ UNCHANGED heard
     \/ /\ ~Transient(r) /\ ~Permanent(r)
        /\ heard' = [heard EXCEPT ![c] = @ + 1]
        /\ posts' = [posts EXCEPT ![c] = 0]
        /\ Goto(c, "ready")
  /\ UNCHANGED <<tries, total, shared>>

\* finish_conversation, which awaits nothing.
Finish(c) ==
  /\ at[c] = "ready" /\ heard[c] = Messages
  /\ Goto(c, "over")
  /\ UNCHANGED <<counts, shared>>

\* The deadline of the case, or a cancellation, ends what it awaits; the lock is
\* released on the way out.
Deadline(c) ==
  /\ at[c] \in Awaiting
  /\ Goto(c, "over")
  /\ holder' = IF holder = c THEN Nobody ELSE holder
  /\ UNCHANGED <<counts, addresses, client, closed, dialed>>

-----------------------------------------------------------------------------
(* close, which AsyncRunner calls when all its tasks have ended.           *)

Close ==
  /\ closed = "no" /\ \A c \in Cases : at[c] = "over"
  /\ closed' = "begun"
  /\ UNCHANGED <<at, counts, holder, addresses, client, dialed>>

Closed ==
  /\ closed = "begun"
  /\ closed' = "yes" /\ client' = FALSE
  /\ UNCHANGED <<at, counts, holder, addresses, dialed>>

HttpNext ==
  \/ \E c \in Cases :
       \/ PrepareAttempt(c) \/ Acquire(c) \/ Send(c) \/ BadToken(c) \/ Post(c)
       \/ Finish(c) \/ Deadline(c)
       \/ \E A \in SUBSET Addresses : Resolve(c, A)
       \/ \E r \in Replies : Reply(c, r)
  \/ Close \/ Closed

HttpSpec == HttpInit /\ [][HttpNext]_httpVars

-----------------------------------------------------------------------------
(* Properties.                                                             *)

\* Types of the adapter's attributes and of what each case awaits.
HttpTypeOK ==
  /\ at \in [Cases -> Awaiting \cup {"idle", "ready", "over"}]
  /\ tries \in [Cases -> 0..Attempts]
  /\ heard \in [Cases -> 0..Messages]
  /\ posts \in [Cases -> 0..MaxRetries + 1]
  /\ total \in [Cases -> Nat]
  /\ holder \in Cases \cup {Nobody}
  /\ addresses \subseteq Addresses /\ dialed \subseteq Addresses
  /\ client \in BOOLEAN /\ closed \in {"no", "begun", "yes"}

\* However many cases wait for the first resolution and whatever the resolver
\* answers to one and to the next, all connections of the run go to addresses of
\* one answer, of which every address was acceptable.
PinnedDestination ==
  /\ dialed \subseteq addresses
  /\ addresses # {} => Acceptable(addresses)

\* The adapter's retries and the runner's multiply and no more: a case makes at
\* most this many requests, for a message at most one more than its retries.
BoundedRequests ==
  \A c \in Cases :
    /\ total[c] <= Attempts * Messages * (MaxRetries + 1)
    /\ posts[c] <= MaxRetries + 1

=============================================================================
