--------------------------- MODULE EventPipeline ---------------------------
(***************************************************************************)
(* The event backbone: rows of the outbox table are moved by relay         *)
(* processes (workers/relay.py) into a Redis stream, and from there by the *)
(* members of one consumer group (workers/consumers.py) to the handlers.   *)
(* An event is named by its outbox sequence number.  PostgreSQL's row      *)
(* locks and the Redis stream are modelled from how the code uses them.    *)
(***************************************************************************)
EXTENDS Integers, Sequences, FiniteSets

CONSTANTS
    Events,       \* sequence numbers of the events there may be
    Transactions, \* the sets of events written by one transaction each
    Subject,      \* the stock line an event is about
    Relays,       \* relay processes
    Workers,      \* consumer processes
    RelayBatch,   \* BATCH_SIZE of the relay
    WorkerBatch,  \* BATCH of the consumers
    StreamCap,    \* STREAM_MAXLEN
    MaxFailures   \* bound of the model: crashes, failed calls, stalled handlers

ASSUME EventsAssumption ==
    /\ Events \subseteq Nat \ {0} /\ IsFiniteSet(Events)
    /\ UNION Transactions = Events
    /\ \A t, u \in Transactions : t = u \/ t \cap u = {}
ASSUME BatchAssumption ==
    /\ RelayBatch \in Nat \ {0} /\ WorkerBatch \in Nat \ {0}
    /\ StreamCap \in Nat \ {0} /\ MaxFailures \in Nat

VARIABLES
    row,        \* state of each event's outbox row
    claim,      \* the rows a relay's transaction has locked, in order
    sent,       \* how many of them it has added to the stream
    stream,     \* every entry ever added, by position; entries are events
    trimmed,    \* positions up to this one have been trimmed away
    delivered,  \* the group's last-delivered position
    pel,        \* positions delivered and not acknowledged
    batch,      \* the positions a worker has in hand, in order
    phase,      \* what it does with the first: "handle" or "ack"
    reactions,  \* how often the handlers' effects of an event were committed
    swallowed,  \* history: events whose handlers raised and were acknowledged
    failures

relayVars == <<row, claim, sent>>
redisVars == <<stream, trimmed, delivered, pel>>
workerVars == <<batch, phase, reactions, swallowed>>
vars == <<relayVars, redisVars, workerVars, failures>>

Committed(e) == row[e] \in {"unpublished", "published"}
Streamed == {stream[i] : i \in 1..Len(stream)}
InHand(w) == {batch[w][i] : i \in 1..Len(batch[w])}
Claimed(r) == {claim[r][i] : i \in 1..Len(claim[r])}

TypeOK ==
    /\ row \in [Events -> {"staged", "unpublished", "published",
                           "rolled_back"}]
    /\ claim \in [Relays -> Seq(Events)]
    /\ sent \in [Relays -> Nat]
    /\ \A r \in Relays : sent[r] <= Len(claim[r])
    /\ stream \in Seq(Events)
    /\ trimmed \in 0..Len(stream)
    /\ delivered \in 0..Len(stream)
    /\ pel \subseteq 1..delivered
    /\ batch \in [Workers -> Seq(1..delivered)]
    /\ phase \in [Workers -> {"handle", "ack"}]
    /\ reactions \in [Events -> Nat]
    /\ swallowed \subseteq Events
    /\ failures \in 0..MaxFailures

Init ==
    /\ row = [e \in Events |-> "staged"]
    /\ claim = [r \in Relays |-> <<>>]
    /\ sent = [r \in Relays |-> 0]
    /\ stream = <<>>
    /\ trimmed = 0
    /\ delivered = 0
    /\ pel = {}
    /\ batch = [w \in Workers |-> <<>>]
    /\ phase = [w \in Workers |-> "handle"]
    /\ reactions = [e \in Events |-> 0]
    /\ swallowed = {}
    /\ failures = 0

\* The lists of the n smallest elements of a set of numbers, in increasing
\* order: there is one.
FirstOf(S, n) ==
    LET smallest == {x \in S : Cardinality({y \in S : y < x}) < n}
    IN  {list \in [1..Cardinality(smallest) -> smallest] :
            \A j, k \in DOMAIN list : j < k => list[j] < list[k]}

Fails == failures < MaxFailures /\ failures' = failures + 1

-----------------------------------------------------------------------------
(* Producers: record_event writes the rows in the caller's transaction.    *)

\* Two transactions that touch the same line end in the order in which they
\* numbered their events for it: they hold its row lock from before the number
\* is given until they end.
Ends(t, state) ==
    /\ \A e \in t : row[e] = "staged"
    /\ \A e \in t, f \in Events \ t :
          Subject[f] = Subject[e] /\ f < e => row[f] # "staged"
    /\ row' = [e \in Events |-> IF e \in t THEN state ELSE row[e]]
    /\ UNCHANGED <<claim, sent, redisVars, workerVars, failures>>

CommitTransaction(t) == Ends(t, "unpublished")
AbortTransaction(t) == Ends(t, "rolled_back")

-----------------------------------------------------------------------------
(* Relays.                                                                 *)

\* Mutant: without FOR UPDATE SKIP LOCKED.
ClaimableByAll == {e \in Events : row[e] = "unpublished"}

\* SELECT ... WHERE published_at IS NULL ORDER BY sequence LIMIT n
\* FOR UPDATE SKIP LOCKED
Claimable == {e \in Events :
                 /\ row[e] = "unpublished"
                 /\ \A r \in Relays : e \notin Claimed(r)}

\* Mutant: without ORDER BY sequence.
ClaimAny(r) ==
    /\ claim[r] = <<>>
    /\ \E e \in Claimable : claim' = [claim EXCEPT ![r] = <<e>>]
    /\ UNCHANGED <<row, sent, redisVars, workerVars, failures>>

Claim(r) ==
    /\ claim[r] = <<>>
    /\ Claimable # {}
    /\ \E list \in FirstOf(Claimable, RelayBatch) :
          claim' = [claim EXCEPT ![r] = list]
    /\ UNCHANGED <<row, sent, redisVars, workerVars, failures>>

\* XADD of the next event of the batch.  MAXLEN is approximate: Redis may
\* trim down to the cap or keep more.
Publish(r) ==
    /\ sent[r] < Len(claim[r])
    /\ stream' = Append(stream, claim[r][sent[r] + 1])
    /\ sent' = [sent EXCEPT ![r] = @ + 1]
    /\ \E t \in trimmed..Len(stream') :
          /\ t = trimmed \/ Len(stream') - t >= StreamCap
          /\ trimmed' = t
    /\ UNCHANGED <<row, claim, delivered, pel, workerVars, failures>>

\* Mutant: published_at is set before the batch has been added to the stream.
MarkEarly(r) ==
    /\ claim[r] # <<>>
    /\ row' = [e \in Events |-> IF e \in Claimed(r) THEN "published"
                                ELSE row[e]]
    /\ claim' = [claim EXCEPT ![r] = <<>>]
    /\ sent' = [sent EXCEPT ![r] = 0]
    /\ UNCHANGED <<redisVars, workerVars, failures>>

\* Every XADD of the batch has returned: published_at is set and committed.
Mark(r) ==
    /\ claim[r] # <<>>
    /\ sent[r] = Len(claim[r])
    /\ row' = [e \in Events |-> IF e \in Claimed(r) THEN "published"
                                ELSE row[e]]
    /\ claim' = [claim EXCEPT ![r] = <<>>]
    /\ sent' = [sent EXCEPT ![r] = 0]
    /\ UNCHANGED <<redisVars, workerVars, failures>>

\* An XADD or the commit raises, or the process dies: the transaction is
\* rolled back, what was added to the stream stays there.
RelayFails(r) ==
    /\ claim[r] # <<>>
    /\ claim' = [claim EXCEPT ![r] = <<>>]
    /\ sent' = [sent EXCEPT ![r] = 0]
    /\ Fails
    /\ UNCHANGED <<row, redisVars, workerVars>>

-----------------------------------------------------------------------------
(* Workers.                                                                *)

Take(w, positions) == batch' = [batch EXCEPT ![w] = positions]

\* XREADGROUP ">" goes on after the last entry delivered to the group, or after
\* the last one trimmed.
ReadUpTo == IF trimmed > delivered THEN trimmed ELSE delivered

Read(w) ==
    LET last == IF ReadUpTo + WorkerBatch < Len(stream)
                THEN ReadUpTo + WorkerBatch ELSE Len(stream)
    IN  /\ batch[w] = <<>>
        /\ ReadUpTo < Len(stream)
        /\ Take(w, [k \in 1..last - ReadUpTo |-> ReadUpTo + k])
        /\ delivered' = last
        /\ pel' = pel \cup ((ReadUpTo + 1)..last)
        /\ UNCHANGED <<relayVars, stream, trimmed, phase, reactions,
                       swallowed, failures>>

Abandoned == {i \in pel : \A w \in Workers : i \notin InHand(w)}

\* XAUTOCLAIM: takes over entries pending for CLAIM_IDLE_MS, dropping those
\* that were trimmed away.
TakeOver(w, idle) ==
    /\ batch[w] = <<>>
    /\ idle # {}
    /\ \E list \in FirstOf({i \in idle : i > trimmed}, WorkerBatch) : Take(w, list)
    /\ pel' = pel \ {i \in idle : i <= trimmed}
    /\ UNCHANGED <<relayVars, stream, trimmed, delivered, phase, reactions,
                   swallowed>>

\* Mutant: a consumer that never takes over what another left.
NeverReclaim(w) == FALSE /\ TakeOver(w, {}) /\ UNCHANGED failures

\* Entries no worker has in hand any more do become idle.
Reclaim(w) ==
    \E idle \in SUBSET Abandoned : TakeOver(w, idle) /\ UNCHANGED failures

\* A handler that outlasts CLAIM_IDLE_MS loses its entries to another worker
\* and goes on with them all the same.
ReclaimFromStalled(w) ==
    \E idle \in SUBSET pel : ~(idle \subseteq Abandoned) /\ TakeOver(w, idle)
                              /\ Fails

EventInHand(w) == stream[Head(batch[w])]

\* dispatch, then db.commit(): the handlers' effects are in the database.
Handle(w) ==
    /\ batch[w] # <<>> /\ phase[w] = "handle"
    /\ reactions' = [reactions EXCEPT ![EventInHand(w)] = @ + 1]
    /\ phase' = [phase EXCEPT ![w] = "ack"]
    /\ UNCHANGED <<relayVars, redisVars, batch, swallowed, failures>>

\* A handler raises: dispatch logs it and the message counts as handled.
Swallow(w) ==
    /\ batch[w] # <<>> /\ phase[w] = "handle"
    /\ Fails
    /\ swallowed' = swallowed \cup {EventInHand(w)}
    /\ phase' = [phase EXCEPT ![w] = "ack"]
    /\ UNCHANGED <<relayVars, redisVars, batch, reactions>>

\* XACK, after the commit.
Ack(w) ==
    /\ batch[w] # <<>> /\ phase[w] = "ack"
    /\ pel' = pel \ {Head(batch[w])}
    /\ Take(w, Tail(batch[w]))
    /\ phase' = [phase EXCEPT ![w] = "handle"]
    /\ UNCHANGED <<relayVars, stream, trimmed, delivered, reactions,
                   swallowed, failures>>

\* Mutant: acknowledged although the commit failed.
AckAnyway(w) ==
    /\ batch[w] # <<>>
    /\ Fails
    /\ pel' = pel \ {Head(batch[w])}
    /\ Take(w, Tail(batch[w]))
    /\ phase' = [phase EXCEPT ![w] = "handle"]
    /\ UNCHANGED <<relayVars, stream, trimmed, delivered, reactions, swallowed>>

\* The commit or the XACK raises: the message stays pending and the worker
\* goes on to the next one.
LeavePending(w) ==
    /\ batch[w] # <<>>
    /\ Fails
    /\ Take(w, Tail(batch[w]))
    /\ phase' = [phase EXCEPT ![w] = "handle"]
    /\ UNCHANGED <<relayVars, redisVars, reactions, swallowed>>

\* The process dies with its batch; another takes its place in the group.
WorkerCrash(w) ==
    /\ batch[w] # <<>>
    /\ Fails
    /\ Take(w, <<>>)
    /\ phase' = [phase EXCEPT ![w] = "handle"]
    /\ UNCHANGED <<relayVars, redisVars, reactions, swallowed>>

-----------------------------------------------------------------------------
RelayStep(r) == Claim(r) \/ Publish(r) \/ Mark(r)
WorkerStep(w) == Read(w) \/ Handle(w) \/ Ack(w)

Next ==
    \/ \E t \in Transactions : CommitTransaction(t) \/ AbortTransaction(t)
    \/ \E r \in Relays : RelayStep(r) \/ RelayFails(r)
    \/ \E w \in Workers : \/ WorkerStep(w) \/ Reclaim(w) \/ ReclaimFromStalled(w)
                          \/ Swallow(w) \/ LeavePending(w) \/ WorkerCrash(w)

Spec == Init /\ [][Next]_vars

\* Relay.run and Consumer.run loop for ever, catch what a turn raises and are
\* restarted when they die; each turn of the consumer reclaims, then reads.
Fairness ==
    /\ \A r \in Relays : WF_vars(RelayStep(r))
    /\ \A w \in Workers : WF_vars(WorkerStep(w)) /\ WF_vars(Reclaim(w))

FairSpec == Spec /\ Fairness

-----------------------------------------------------------------------------
(* Properties.                                                             *)

\* The stream tells the outbox: an event marked as relayed is in the stream
\* ("a lost event cannot be detected"), and nothing is in the stream that was
\* rolled back ("the event cannot describe a movement that gets rolled back").
StreamTellsTheOutbox ==
    \A e \in Events :
        /\ row[e] = "published" => e \in Streamed
        /\ e \in Streamed => Committed(e)

\* No entry falls between the group's offset and its pending list: one that
\* was delivered is pending until its event was reacted to, unless it was
\* trimmed from the stream first.  A crash at any point keeps this.
NothingStranded ==
    \A i \in 1..delivered :
        \/ i \in pel
        \/ i <= trimmed
        \/ reactions[stream[i]] > 0
        \/ stream[i] \in swallowed

\* Duplicates come from failures only: with no crash, no failed call and no
\* handler slower than the reclaim timeout, relays do not publish an event
\* twice and the group reacts to it at most once.
NoDuplicateWithoutFailure ==
    failures = 0 =>
        /\ \A i, j \in 1..Len(stream) : stream[i] = stream[j] => i = j
        /\ \A e \in Events : reactions[e] <= 1

FirstPosition(e) ==
    CHOOSE i \in 1..Len(stream) :
        stream[i] = e /\ \A j \in 1..i-1 : stream[j] # e

\* Readers of the stream see a line's events in sequence order: the first
\* appearance of a later one never precedes that of an earlier one that was
\* committed ("Sequence order ... 'stock went to zero' arriving before 'stock
\* moved' would be nonsense to anyone reading the stream").
StreamInSequenceOrder ==
    \A e, f \in Streamed :
        Subject[e] = Subject[f] /\ e < f => FirstPosition(e) < FirstPosition(f)

Delivery == INSTANCE EventDelivery WITH
    emitted <- {e \in Events : Committed(e)},
    settled <- {e \in Events : reactions[e] > 0} \cup swallowed

\* At-least-once end to end, as long as the stream is not trimmed past unread
\* entries: what was committed is reacted to, through any finite number of
\* crashes of relays and workers.
AtLeastOnce == Delivery!Spec
=============================================================================
