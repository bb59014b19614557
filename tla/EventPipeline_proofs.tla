------------------------ MODULE EventPipeline_proofs ------------------------
(***************************************************************************)
(* For any events, any transactions that write them, any number of relays  *)
(* and workers and any failures: nothing is lost or invented between the   *)
(* outbox, the stream and the consumer group, and one relay keeps the      *)
(* order of a line's events.                                               *)
(***************************************************************************)
EXTENDS EventPipeline, FiniteSetTheorems, SequenceTheorems, TLAPS

-----------------------------------------------------------------------------
(* The lists a batch is made of.                                           *)

\* What a batch lists are members of the set it was taken from.
LEMMA FirstOfIsSeq ==
  ASSUME NEW S, IsFiniteSet(S), NEW n, NEW list \in FirstOf(S, n)
  PROVE  list \in Seq(S)
  <1> DEFINE smallest == {x \in S : Cardinality({y \in S : y < x}) < n}
  <1>1. IsFiniteSet(smallest)
    BY FS_Subset
  <1>2. Cardinality(smallest) \in Nat
    BY <1>1, FS_CardinalityType
  <1>3. list \in [1..Cardinality(smallest) -> smallest]
    BY DEF FirstOf
  <1>4. PICK m \in Nat : list \in [1..m -> smallest]
    BY <1>2, <1>3
  <1>5. list \in [1..m -> S]
    BY <1>4
  <1> QED
    BY <1>5, SeqDef

LEMMA FirstOfIsInjective ==
  ASSUME NEW S, S \subseteq Nat, IsFiniteSet(S), NEW n, NEW list \in FirstOf(S, n),
         NEW j \in 1..Len(list), NEW k \in 1..Len(list), list[j] = list[k]
  PROVE  j = k
  <1>1. list \in Seq(S)
    BY FirstOfIsSeq
  <1>2. DOMAIN list = 1..Len(list) /\ Len(list) \in Nat
    BY <1>1, LenProperties
  <1>3. \A a, b \in DOMAIN list : a < b => list[a] < list[b]
    BY DEF FirstOf
  <1>4. list[j] \in Nat /\ list[k] \in Nat
    BY <1>1, ElementOfSeq
  <1> QED
    BY <1>2, <1>3, <1>4

-----------------------------------------------------------------------------
(* Types.                                                                  *)

LEMMA InitType == Init => TypeOK
  BY BatchAssumption DEF Init, TypeOK

LEMMA ClaimableFinite == IsFiniteSet(Claimable) /\ Claimable \subseteq Events
  BY EventsAssumption, FS_Subset DEF Claimable

LEMMA PositionsFinite ==
  ASSUME TypeOK, NEW S, S \subseteq pel
  PROVE  IsFiniteSet(S) /\ S \subseteq 1..delivered /\ S \subseteq Nat
  <1>1. IsFiniteSet(1..delivered) /\ pel \subseteq 1..delivered
    BY FS_Interval DEF TypeOK
  <1>2. S \subseteq 1..delivered
    BY <1>1
  <1>3. IsFiniteSet(S)
    BY <1>1, <1>2, FS_Subset
  <1>4. 1..delivered \subseteq Nat
    OBVIOUS
  <1> QED
    BY <1>2, <1>3, <1>4

LEMMA ProducerType ==
  ASSUME TypeOK, NEW t \in Transactions, CommitTransaction(t) \/ AbortTransaction(t)
  PROVE  TypeOK'
  <1>1. PICK state \in {"unpublished", "rolled_back"} : Ends(t, state)
    BY DEF CommitTransaction, AbortTransaction
  <1> QED
    BY <1>1 DEF TypeOK, Ends, redisVars, workerVars

LEMMA RelayType ==
  ASSUME TypeOK, NEW r \in Relays, RelayStep(r) \/ RelayFails(r)
  PROVE  TypeOK'
  <1>1. CASE Claim(r)
    <2>1. PICK list \in FirstOf(Claimable, RelayBatch) :
             claim' = [claim EXCEPT ![r] = list]
      BY <1>1 DEF Claim
    <2>2. list \in Seq(Claimable)
      BY ClaimableFinite, FirstOfIsSeq
    <2>3. list \in Seq(Events)
      BY <2>2, ClaimableFinite, SeqMonotonic
    <2>4. sent[r] = 0
      BY <1>1 DEF TypeOK, Claim
    <2> QED
      BY <1>1, <2>1, <2>3, <2>4 DEF TypeOK, Claim, redisVars, workerVars
  <1>2. CASE Publish(r)
    <2>1. claim[r][sent[r] + 1] \in Events
      BY <1>2 DEF TypeOK, Publish
    <2>2. stream' \in Seq(Events) /\ Len(stream') = Len(stream) + 1
      BY <1>2, <2>1 DEF TypeOK, Publish
    <2>3. trimmed' \in 0..Len(stream')
      BY <1>2, <2>2 DEF TypeOK, Publish
    <2>4. /\ sent' \in [Relays -> Nat]
          /\ \A q \in Relays : sent'[q] <= Len(claim[q])
      BY <1>2 DEF TypeOK, Publish
    <2>5. delivered \in 0..Len(stream')
      BY <2>2 DEF TypeOK
    <2>6. UNCHANGED <<row, claim, delivered, pel, workerVars, failures>>
      BY <1>2 DEF Publish
    <2> QED
      BY <2>2, <2>3, <2>4, <2>5, <2>6 DEF TypeOK, workerVars
  <1>3. CASE Mark(r) \/ RelayFails(r)
    <2>1. row' \in [Events -> {"staged", "unpublished", "published",
                               "rolled_back"}]
      BY <1>3 DEF TypeOK, Mark, RelayFails
    <2>2. claim' = [claim EXCEPT ![r] = <<>>] /\ sent' = [sent EXCEPT ![r] = 0]
      BY <1>3 DEF Mark, RelayFails
    <2>3. claim' \in [Relays -> Seq(Events)] /\ sent' \in [Relays -> Nat]
          /\ \A q \in Relays : sent'[q] <= Len(claim'[q])
      BY <2>2 DEF TypeOK
    <2>4. failures' \in 0..MaxFailures
      BY <1>3, BatchAssumption DEF TypeOK, Mark, RelayFails, Fails
    <2> QED
      BY <1>3, <2>1, <2>3, <2>4 DEF TypeOK, Mark, RelayFails, redisVars, workerVars
  <1> QED
    BY <1>1, <1>2, <1>3 DEF RelayStep

\* A batch taken over lists pending positions.
LEMMA TakenOver ==
  ASSUME TypeOK, NEW w \in Workers, NEW idle \in SUBSET pel, TakeOver(w, idle)
  PROVE  \E list \in Seq({i \in idle : i > trimmed}) :
            batch' = [batch EXCEPT ![w] = list]
  <1>1. IsFiniteSet({i \in idle : i > trimmed})
    BY PositionsFinite
  <1> QED
    BY <1>1, FirstOfIsSeq DEF TakeOver, Take

LEMMA WorkerType ==
  ASSUME TypeOK, NEW w \in Workers,
         \/ WorkerStep(w) \/ Reclaim(w) \/ ReclaimFromStalled(w)
         \/ Swallow(w) \/ LeavePending(w) \/ WorkerCrash(w)
  PROVE  TypeOK'
  <1>1. CASE Read(w)
    <2> DEFINE last == IF ReadUpTo + WorkerBatch < Len(stream)
                       THEN ReadUpTo + WorkerBatch ELSE Len(stream)
               fresh == [k \in 1..last - ReadUpTo |-> ReadUpTo + k]
    <2>1. /\ ReadUpTo \in Nat /\ delivered \in Nat /\ delivered <= ReadUpTo
          /\ ReadUpTo < Len(stream) /\ Len(stream) \in Nat
      BY <1>1 DEF TypeOK, Read, ReadUpTo
    <2>2. last \in ReadUpTo..Len(stream) /\ last \in Nat
      BY <2>1, BatchAssumption
    <2> HIDE DEF last
    <2>3. /\ delivered' = last
          /\ pel' = pel \cup ((ReadUpTo + 1)..last)
          /\ batch' = [batch EXCEPT ![w] = fresh]
      BY <1>1 DEF Read, Take, last
    <2>4. fresh \in [1..last - ReadUpTo -> 1..last] /\ last - ReadUpTo \in Nat
      BY <2>1, <2>2
    <2>5. fresh \in Seq(1..last)
      <3> DEFINE n == last - ReadUpTo
      <3> HIDE DEF n, fresh
      <3>1. fresh \in [1..n -> 1..last] /\ n \in Nat
        BY <2>4 DEF n
      <3>2. fresh \in UNION {[1..m -> 1..last] : m \in Nat}
        BY <3>1
      <3> QED
        BY <3>2, SeqDef
    <2>6. batch' \in [Workers -> Seq(1..delivered')]
      <3>1. 1..delivered \subseteq 1..last
        BY <2>1, <2>2
      <3>2. \A u \in Workers : batch[u] \in Seq(1..last)
        BY <3>1, SeqMonotonic DEF TypeOK
      <3> QED
        BY <2>3, <2>5, <3>2 DEF TypeOK
    <2>7. pel' \subseteq 1..delivered' /\ delivered' \in 0..Len(stream)
      BY <2>1, <2>2, <2>3 DEF TypeOK
    <2> QED
      BY <1>1, <2>6, <2>7 DEF TypeOK, Read, relayVars
  <1>2. CASE Reclaim(w) \/ ReclaimFromStalled(w)
    <2>1. PICK idle \in SUBSET pel : TakeOver(w, idle)
      BY <1>2 DEF Reclaim, ReclaimFromStalled, Abandoned
    <2>2. PICK list \in Seq({i \in idle : i > trimmed}) :
             batch' = [batch EXCEPT ![w] = list]
      BY <2>1, TakenOver
    <2>3. list \in Seq(1..delivered)
      BY <2>2, SeqMonotonic DEF TypeOK
    <2>4. batch' \in [Workers -> Seq(1..delivered)]
      BY <2>2, <2>3 DEF TypeOK
    <2>5. failures' \in 0..MaxFailures
      BY <1>2, BatchAssumption DEF TypeOK, Reclaim, ReclaimFromStalled, Fails
    <2> QED
      BY <2>1, <2>4, <2>5 DEF TypeOK, TakeOver, relayVars
  <1>3. CASE Handle(w) \/ Swallow(w)
    <2>1. EventInHand(w) \in Events
      BY <1>3 DEF TypeOK, Handle, Swallow, EventInHand
    <2>2. failures' \in 0..MaxFailures
      BY <1>3, BatchAssumption DEF TypeOK, Handle, Swallow, Fails
    <2>3. phase' \in [Workers -> {"handle", "ack"}]
      BY <1>3 DEF TypeOK, Handle, Swallow
    <2>4. reactions' \in [Events -> Nat] /\ swallowed' \subseteq Events
      <3> HIDE DEF EventInHand
      <3>1. CASE Handle(w)
        BY <2>1, <3>1 DEF TypeOK, Handle
      <3>2. CASE Swallow(w)
        BY <2>1, <3>2 DEF TypeOK, Swallow
      <3> QED
        BY <1>3, <3>1, <3>2
    <2>5. UNCHANGED <<relayVars, redisVars, batch>>
      BY <1>3 DEF Handle, Swallow
    <2> QED
      BY <2>2, <2>3, <2>4, <2>5 DEF TypeOK, relayVars, redisVars
  <1>4. CASE Ack(w) \/ LeavePending(w) \/ WorkerCrash(w)
    <2>1. PICK rest \in Seq(1..delivered) : batch' = [batch EXCEPT ![w] = rest]
      <3>1. batch[w] # <<>> /\ batch[w] \in Seq(1..delivered)
        BY <1>4 DEF TypeOK, Ack, LeavePending, WorkerCrash
      <3>2. Tail(batch[w]) \in Seq(1..delivered) /\ <<>> \in Seq(1..delivered)
        BY <3>1, HeadTailProperties, EmptySeq
      <3>3. \/ batch' = [batch EXCEPT ![w] = Tail(batch[w])]
            \/ batch' = [batch EXCEPT ![w] = <<>>]
        BY <1>4 DEF Ack, LeavePending, WorkerCrash, Take
      <3> QED
        BY <3>2, <3>3
    <2>2. batch' \in [Workers -> Seq(1..delivered)]
      BY <2>1 DEF TypeOK
    <2>3. failures' \in 0..MaxFailures
      <3>1. failures' = failures \/ Fails
        BY <1>4 DEF Ack, LeavePending, WorkerCrash
      <3>2. failures \in 0..MaxFailures
        BY DEF TypeOK
      <3> QED
        BY <3>1, <3>2, BatchAssumption DEF Fails
    <2>4. pel' \subseteq pel
      BY <1>4 DEF Ack, LeavePending, WorkerCrash, redisVars
    <2> QED
      BY <1>4, <2>2, <2>3, <2>4
         DEF TypeOK, Ack, LeavePending, WorkerCrash, relayVars, redisVars
  <1> QED
    BY <1>1, <1>2, <1>3, <1>4 DEF WorkerStep

LEMMA NextType == TypeOK /\ [Next]_vars => TypeOK'
  <1>1. TypeOK /\ UNCHANGED vars => TypeOK'
    BY DEF TypeOK, vars, relayVars, redisVars, workerVars
  <1> QED
    BY <1>1, ProducerType, RelayType, WorkerType DEF Next

\* Positions, claims and batches stay within the stream and the outbox,
\* whatever crashes (models.py, relay.py, consumers.py).
THEOREM PipelineTypes == Spec => []TypeOK
  BY InitType, NextType, PTL DEF Spec
-----------------------------------------------------------------------------
(* Outbox and stream.                                                      *)

\* What a relay holds has been committed; what it has added is in the stream.
ClaimSound ==
    \A r \in Relays : \A k \in 1..Len(claim[r]) :
        /\ Committed(claim[r][k])
        /\ k <= sent[r] => claim[r][k] \in Streamed

RelayInv == TypeOK /\ ClaimSound /\ StreamTellsTheOutbox

LEMMA InitRelay == Init => RelayInv
  BY InitType DEF Init, RelayInv, ClaimSound, StreamTellsTheOutbox, Streamed

\* Steps that leave the relays and the stream alone.
LEMMA ElsewhereRelay ==
  ASSUME RelayInv, TypeOK', UNCHANGED <<row, claim, sent, stream>>
  PROVE  RelayInv'
  BY DEF RelayInv, ClaimSound, StreamTellsTheOutbox, Streamed, Committed

LEMMA ProducerRelay ==
  ASSUME RelayInv, NEW t \in Transactions,
         CommitTransaction(t) \/ AbortTransaction(t)
  PROVE  RelayInv'
  <1>1. PICK state \in {"unpublished", "rolled_back"} : Ends(t, state)
    BY DEF CommitTransaction, AbortTransaction
  <1>2. \A e \in Events : Committed(e) => row'[e] = row[e]
    BY <1>1 DEF Ends, Committed, RelayInv, TypeOK
  <1>3. \A e \in Events : row'[e] = "published" => row[e] = "published"
    BY <1>1 DEF Ends, RelayInv, TypeOK
  <1>4. UNCHANGED <<claim, sent, stream>>
    BY <1>1 DEF Ends, redisVars
  <1>5. \A r \in Relays : \A k \in 1..Len(claim[r]) : claim[r][k] \in Events
    BY DEF RelayInv, TypeOK
  <1>6. TypeOK'
    BY ProducerType DEF RelayInv
  <1> QED
    BY <1>2, <1>3, <1>4, <1>5, <1>6
       DEF RelayInv, ClaimSound, StreamTellsTheOutbox, Streamed, Committed

LEMMA ClaimRelay ==
  ASSUME RelayInv, NEW r \in Relays, Claim(r)
  PROVE  RelayInv'
  <1>1. PICK list \in FirstOf(Claimable, RelayBatch) :
           claim' = [claim EXCEPT ![r] = list]
    BY DEF Claim
  <1>2. list \in Seq(Claimable)
    BY ClaimableFinite, FirstOfIsSeq
  <1>3. \A k \in 1..Len(list) : Committed(list[k])
    BY <1>2 DEF Claimable, Committed
  <1>4. sent[r] = 0 /\ UNCHANGED <<row, sent, stream>>
    BY DEF Claim, RelayInv, TypeOK, redisVars
  <1>5. TypeOK'
    BY RelayType DEF RelayInv, RelayStep
  <1>6. ClaimSound'
    <2> SUFFICES ASSUME NEW q \in Relays, NEW k \in 1..Len(claim'[q])
                 PROVE  /\ Committed(claim'[q][k])
                        /\ k <= sent[q] => claim'[q][k] \in Streamed
      BY <1>4 DEF ClaimSound, Committed, Streamed
    <2>1. CASE q = r
      BY <1>1, <1>3, <1>4, <2>1 DEF RelayInv, TypeOK
    <2>2. CASE q # r
      BY <1>1, <2>2 DEF RelayInv, TypeOK, ClaimSound
    <2> QED
      BY <2>1, <2>2
  <1> QED
    BY <1>4, <1>5, <1>6 DEF RelayInv, StreamTellsTheOutbox, Streamed, Committed

LEMMA StreamedAppend ==
  ASSUME NEW e \in Events, stream \in Seq(Events), stream' = Append(stream, e)
  PROVE  Streamed' = Streamed \cup {e}
  <1>1. /\ Len(stream') = Len(stream) + 1 /\ Len(stream) \in Nat
        /\ \A i \in 1..Len(stream) : stream'[i] = stream[i]
        /\ stream'[Len(stream) + 1] = e
    OBVIOUS
  <1>2. Streamed' = {stream'[i] : i \in 1..Len(stream')}
    BY DEF Streamed
  <1>3. \A x : x \in Streamed' <=> x \in Streamed \cup {e}
    BY <1>1, <1>2 DEF Streamed
  <1> QED
    BY <1>3

LEMMA PublishRelay ==
  ASSUME RelayInv, NEW r \in Relays, Publish(r)
  PROVE  RelayInv'
  <1> DEFINE e == claim[r][sent[r] + 1]
  <1>1. sent[r] + 1 \in 1..Len(claim[r]) /\ e \in Events /\ Committed(e)
    <2>1. claim[r] \in Seq(Events) /\ sent[r] \in Nat /\ sent[r] < Len(claim[r])
      BY DEF Publish, RelayInv, TypeOK
    <2>2. sent[r] + 1 \in 1..Len(claim[r])
      BY <2>1
    <2>3. e \in Events
      BY <2>1, <2>2
    <2>4. Committed(e)
      BY <2>2 DEF RelayInv, ClaimSound
    <2> QED
      BY <2>2, <2>3, <2>4
  <1>2. stream' = Append(stream, e) /\ sent' = [sent EXCEPT ![r] = @ + 1]
        /\ UNCHANGED <<row, claim>>
    BY DEF Publish
  <1>3. Streamed' = Streamed \cup {e}
    BY <1>1, <1>2, StreamedAppend DEF RelayInv, TypeOK
  <1>4. TypeOK'
    BY RelayType DEF RelayInv, RelayStep
  <1>5. ClaimSound'
    <2> SUFFICES ASSUME NEW q \in Relays, NEW k \in 1..Len(claim[q])
                 PROVE  /\ Committed(claim[q][k])
                        /\ k <= sent'[q] => claim[q][k] \in Streamed'
      BY <1>2 DEF ClaimSound, Committed
    <2>1. sent'[q] = IF q = r THEN sent[q] + 1 ELSE sent[q]
      BY <1>2 DEF RelayInv, TypeOK
    <2> QED
      BY <1>3, <2>1 DEF RelayInv, ClaimSound, TypeOK
  <1> QED
    BY <1>1, <1>2, <1>3, <1>4, <1>5
       DEF RelayInv, StreamTellsTheOutbox, Committed

LEMMA ReleaseRelay ==
  ASSUME RelayInv, NEW r \in Relays, Mark(r) \/ RelayFails(r)
  PROVE  RelayInv'
  <1>1. claim' = [claim EXCEPT ![r] = <<>>] /\ sent' = [sent EXCEPT ![r] = 0]
        /\ stream' = stream
    BY DEF Mark, RelayFails, redisVars
  <1>2. \A e \in Events :
           \/ row'[e] = row[e]
           \/ row'[e] = "published" /\ Committed(e) /\ e \in Streamed
    <2>1. CASE Mark(r)
      BY <2>1 DEF Mark, Claimed, RelayInv, ClaimSound, TypeOK
    <2>2. CASE RelayFails(r)
      BY <2>2 DEF RelayFails
    <2> QED
      BY <2>1, <2>2
  <1>3. TypeOK'
    BY RelayType DEF RelayInv, RelayStep
  <1>4. \A q \in Relays : \A k \in 1..Len(claim'[q]) :
           q # r /\ claim'[q] = claim[q] /\ sent'[q] = sent[q]
           /\ claim[q][k] \in Events
    BY <1>1 DEF RelayInv, TypeOK
  <1>5. \A e \in Events : Committed(e) => Committed(e)'
    BY <1>2 DEF Committed
  <1>6. ClaimSound'
    BY <1>1, <1>4, <1>5 DEF RelayInv, ClaimSound, Streamed
  <1> QED
    BY <1>1, <1>2, <1>3, <1>5, <1>6
       DEF RelayInv, StreamTellsTheOutbox, Streamed, Committed

LEMMA WorkersLeaveRelays ==
  ASSUME NEW w \in Workers,
         \/ WorkerStep(w) \/ Reclaim(w) \/ ReclaimFromStalled(w)
         \/ Swallow(w) \/ LeavePending(w) \/ WorkerCrash(w)
  PROVE  UNCHANGED <<row, claim, sent, stream, trimmed>>
  BY DEF WorkerStep, Read, Handle, Ack, Reclaim, ReclaimFromStalled, TakeOver,
         Swallow, LeavePending, WorkerCrash, relayVars, redisVars

LEMMA NextRelay == RelayInv /\ [Next]_vars => RelayInv'
  <1> SUFFICES ASSUME RelayInv, [Next]_vars PROVE RelayInv'
    OBVIOUS
  <1>1. TypeOK'
    BY NextType DEF RelayInv
  <1>2. CASE UNCHANGED vars
    BY <1>1, <1>2, ElsewhereRelay DEF vars, relayVars, redisVars
  <1>3. ASSUME NEW r \in Relays, RelayStep(r) \/ RelayFails(r)
        PROVE  RelayInv'
    BY <1>3, ClaimRelay, PublishRelay, ReleaseRelay DEF RelayStep
  <1>4. ASSUME NEW w \in Workers,
               \/ WorkerStep(w) \/ Reclaim(w) \/ ReclaimFromStalled(w)
               \/ Swallow(w) \/ LeavePending(w) \/ WorkerCrash(w)
        PROVE  RelayInv'
    BY <1>1, <1>4, WorkersLeaveRelays, ElsewhereRelay
  <1> QED
    BY <1>2, <1>3, <1>4, ProducerRelay DEF Next

\* Whatever relays crash, repeat or overtake: an event marked as relayed is in
\* the stream, and nothing is in the stream whose transaction was rolled back
\* (relay.py, publish_batch; publisher.py, record_event).
THEOREM OutboxReachesStream == Spec => []StreamTellsTheOutbox
  BY InitRelay, NextRelay, PTL DEF Spec, RelayInv
-----------------------------------------------------------------------------
(* Stream and handlers.                                                    *)

Done(e) == reactions[e] > 0 \/ e \in swallowed

\* A worker acknowledges what it has dealt with.
HandSound ==
    \A w \in Workers : phase[w] = "ack" =>
        batch[w] # <<>> /\ Done(stream[Head(batch[w])])

GroupInv == TypeOK /\ HandSound /\ NothingStranded

LEMMA HeadInHand ==
  ASSUME TypeOK, NEW w \in Workers, batch[w] # <<>>
  PROVE  /\ Head(batch[w]) \in 1..delivered
         /\ Head(batch[w]) \in 1..Len(stream)
         /\ stream[Head(batch[w])] \in Events
  <1>1. batch[w] \in Seq(1..delivered)
    BY DEF TypeOK
  <1>2. Head(batch[w]) \in 1..delivered
    BY <1>1, HeadTailProperties
  <1>3. delivered \in 0..Len(stream) /\ stream \in Seq(Events)
    BY DEF TypeOK
  <1> QED
    BY <1>2, <1>3

LEMMA InitGroup == Init => GroupInv
  BY InitType DEF Init, GroupInv, HandSound, NothingStranded

\* Whatever has been dealt with stays so, and entries keep their positions:
\* steps that leave the group's offset, pending list and batches alone.
LEMMA ElsewhereGroup ==
  ASSUME GroupInv, TypeOK', UNCHANGED <<delivered, pel, batch, phase, reactions,
                                        swallowed>>,
         trimmed <= trimmed', \A i \in 1..Len(stream) : stream'[i] = stream[i]
  PROVE  GroupInv'
  <1>1. delivered \in 0..Len(stream) /\ trimmed \in Nat /\ trimmed' \in Nat
    BY DEF GroupInv, TypeOK
  <1>2. HandSound'
    <2> SUFFICES ASSUME NEW w \in Workers, phase[w] = "ack"
                 PROVE  batch[w] # <<>> /\ Done(stream'[Head(batch[w])])
      BY DEF HandSound, Done
    <2>1. batch[w] # <<>> /\ Done(stream[Head(batch[w])])
      BY DEF GroupInv, HandSound
    <2> QED
      BY <2>1, HeadInHand DEF GroupInv
  <1>3. NothingStranded'
    <2> SUFFICES ASSUME NEW i \in 1..delivered
                 PROVE  \/ i \in pel
                        \/ i <= trimmed'
                        \/ reactions[stream'[i]] > 0
                        \/ stream'[i] \in swallowed
      BY DEF NothingStranded
    <2>1. stream'[i] = stream[i]
      BY <1>1
    <2> QED
      BY <1>1, <2>1 DEF GroupInv, NothingStranded
  <1> QED
    BY <1>2, <1>3 DEF GroupInv

LEMMA RelayGroup ==
  ASSUME GroupInv, NEW r \in Relays, RelayStep(r) \/ RelayFails(r)
  PROVE  GroupInv'
  <1>1. TypeOK'
    BY RelayType DEF GroupInv
  <1>2. UNCHANGED <<delivered, pel, batch, phase, reactions, swallowed>>
    BY DEF RelayStep, RelayFails, Claim, Publish, Mark, redisVars, workerVars
  <1>3. trimmed <= trimmed' /\ \A i \in 1..Len(stream) : stream'[i] = stream[i]
    <2>1. CASE Publish(r)
      <3>1. stream \in Seq(Events) /\ trimmed \in 0..Len(stream)
            /\ claim[r][sent[r] + 1] \in Events
        BY <2>1 DEF GroupInv, TypeOK, Publish
      <3> QED
        BY <2>1, <3>1 DEF Publish
    <2>2. CASE ~Publish(r)
      BY <2>2 DEF RelayStep, RelayFails, Claim, Mark, redisVars, GroupInv, TypeOK
    <2> QED
      BY <2>1, <2>2
  <1> QED
    BY <1>1, <1>2, <1>3, ElsewhereGroup

\* A worker that takes up entries has none in hand.
LEMMA TakeUpGroup ==
  ASSUME GroupInv, NEW w \in Workers, batch[w] = <<>>, NEW list,
         batch' = [batch EXCEPT ![w] = list],
         UNCHANGED <<stream, phase, reactions, swallowed>>
  PROVE  HandSound'
  <1> SUFFICES ASSUME NEW u \in Workers, phase[u] = "ack"
               PROVE  batch'[u] # <<>> /\ Done(stream[Head(batch'[u])])
    BY DEF HandSound, Done
  <1>1. u # w /\ batch[u] # <<>> /\ Done(stream[Head(batch[u])])
    BY DEF GroupInv, HandSound
  <1> QED
    BY <1>1 DEF GroupInv, TypeOK

LEMMA ReadGroup ==
  ASSUME GroupInv, NEW w \in Workers, Read(w)
  PROVE  GroupInv'
  <1>1. TypeOK'
    BY WorkerType DEF GroupInv, WorkerStep
  <1>2. HandSound'
    BY TakeUpGroup DEF Read, Take
  <1>3. NothingStranded'
    <2> SUFFICES ASSUME NEW i \in 1..delivered'
                 PROVE  \/ i \in pel'
                        \/ i <= trimmed
                        \/ reactions[stream[i]] > 0
                        \/ stream[i] \in swallowed
      BY DEF NothingStranded, Read
    <2>1. /\ trimmed \in Nat /\ delivered \in Nat /\ delivered' \in Nat
          /\ pel' = pel \cup ((ReadUpTo + 1)..delivered')
      BY <1>1 DEF GroupInv, TypeOK, Read
    <2>2. CASE i <= delivered
      BY <2>1, <2>2 DEF GroupInv, NothingStranded
    <2>3. CASE i > delivered
      BY <2>1, <2>3 DEF ReadUpTo
    <2> QED
      BY <2>1, <2>2, <2>3
  <1> QED
    BY <1>1, <1>2, <1>3 DEF GroupInv

LEMMA TakeOverGroup ==
  ASSUME GroupInv, NEW w \in Workers, Reclaim(w) \/ ReclaimFromStalled(w)
  PROVE  GroupInv'
  <1>1. TypeOK'
    BY WorkerType DEF GroupInv
  <1>2. PICK idle \in SUBSET pel : TakeOver(w, idle)
    BY DEF Reclaim, ReclaimFromStalled, Abandoned
  <1>3. HandSound'
    BY <1>2, TakeUpGroup DEF TakeOver, Take
  <1>4. NothingStranded'
    BY <1>2 DEF GroupInv, NothingStranded, TakeOver, TypeOK
  <1> QED
    BY <1>1, <1>3, <1>4 DEF GroupInv

LEMMA DealGroup ==
  ASSUME GroupInv, NEW w \in Workers, Handle(w) \/ Swallow(w)
  PROVE  GroupInv'
  <1>1. TypeOK'
    BY WorkerType DEF GroupInv, WorkerStep
  <1>2. /\ batch[w] # <<>> /\ phase' = [phase EXCEPT ![w] = "ack"]
        /\ UNCHANGED <<stream, trimmed, delivered, pel, batch>>
    BY DEF Handle, Swallow, redisVars
  <1>3. EventInHand(w) \in Events
    BY <1>2, HeadInHand DEF EventInHand, GroupInv
  <1>4. \A e \in Events : Done(e) => Done(e)'
    <2>1. CASE Handle(w)
      <3>1. reactions' = [reactions EXCEPT ![EventInHand(w)] = @ + 1]
            /\ swallowed' = swallowed
        BY <2>1 DEF Handle
      <3>2. \A e \in Events : reactions[e] > 0 => reactions'[e] > 0
        BY <1>3, <3>1 DEF GroupInv, TypeOK
      <3> QED
        BY <3>1, <3>2 DEF Done
    <2>2. CASE Swallow(w)
      BY <2>2 DEF Done, Swallow
    <2> QED
      BY <2>1, <2>2
  <1>5. Done(EventInHand(w))'
    <2>1. CASE Handle(w)
      <3>1. reactions' = [reactions EXCEPT ![EventInHand(w)] = @ + 1]
        BY <2>1 DEF Handle
      <3>2. reactions'[EventInHand(w)] > 0
        BY <1>3, <3>1 DEF GroupInv, TypeOK
      <3> QED
        BY <1>2, <3>2 DEF Done, EventInHand
    <2>2. CASE Swallow(w)
      BY <1>2, <2>2 DEF Done, EventInHand, Swallow
    <2> QED
      BY <2>1, <2>2
  <1>6. HandSound'
    <2> SUFFICES ASSUME NEW u \in Workers, phase'[u] = "ack"
                 PROVE  batch[u] # <<>> /\ Done(stream[Head(batch[u])])'
      BY <1>2 DEF HandSound, Done
    <2>1. CASE u = w
      BY <1>2, <1>5, <2>1 DEF EventInHand
    <2>2. CASE u # w
      <3>1. batch[u] # <<>> /\ Done(stream[Head(batch[u])])
        BY <1>2, <2>2 DEF GroupInv, HandSound, TypeOK
      <3>2. stream[Head(batch[u])] \in Events
        BY <3>1, HeadInHand DEF GroupInv
      <3>3. Done(stream[Head(batch[u])])'
        BY <1>2, <1>4, <3>1, <3>2 DEF Done
      <3> QED
        BY <3>1, <3>3
    <2> QED
      BY <2>1, <2>2
  <1>7. NothingStranded'
    <2> SUFFICES ASSUME NEW i \in 1..delivered, i \notin pel, ~(i <= trimmed)
                 PROVE  Done(stream[i])'
      BY <1>2 DEF NothingStranded, Done
    <2>1. Done(stream[i]) /\ stream[i] \in Events
      BY DEF GroupInv, NothingStranded, Done, TypeOK
    <2> QED
      BY <1>2, <1>4, <2>1 DEF Done
  <1> QED
    BY <1>1, <1>6, <1>7 DEF GroupInv

LEMMA LeaveGroup ==
  ASSUME GroupInv, NEW w \in Workers, Ack(w) \/ LeavePending(w) \/ WorkerCrash(w)
  PROVE  GroupInv'
  <1>1. TypeOK'
    BY WorkerType DEF GroupInv, WorkerStep
  <1>2. UNCHANGED <<stream, trimmed, delivered, reactions, swallowed>>
        /\ phase' = [phase EXCEPT ![w] = "handle"]
    BY DEF Ack, LeavePending, WorkerCrash, redisVars
  <1>3. PICK rest : batch' = [batch EXCEPT ![w] = rest]
    BY DEF Ack, LeavePending, WorkerCrash, Take
  <1>4. HandSound'
    <2> SUFFICES ASSUME NEW u \in Workers, phase'[u] = "ack"
                 PROVE  batch'[u] # <<>> /\ Done(stream[Head(batch'[u])])
      BY <1>2 DEF HandSound, Done
    <2>1. u # w /\ phase[u] = "ack" /\ batch'[u] = batch[u]
      BY <1>2, <1>3 DEF GroupInv, TypeOK
    <2> QED
      BY <2>1 DEF GroupInv, HandSound
  <1>5. \A i \in pel : i \in pel' \/ Done(stream[i])
    <2>1. CASE Ack(w)
      <3>1. phase[w] = "ack" /\ pel' = pel \ {Head(batch[w])}
        BY <2>1 DEF Ack
      <3>2. Done(stream[Head(batch[w])])
        BY <3>1 DEF GroupInv, HandSound
      <3> QED
        BY <3>1, <3>2
    <2>2. CASE ~Ack(w)
      BY <2>2 DEF LeavePending, WorkerCrash, redisVars
    <2> QED
      BY <2>1, <2>2
  <1>6. NothingStranded'
    BY <1>2, <1>5 DEF GroupInv, NothingStranded, Done
  <1> QED
    BY <1>1, <1>4, <1>6 DEF GroupInv

LEMMA NextGroup == GroupInv /\ [Next]_vars => GroupInv'
  <1> SUFFICES ASSUME GroupInv, [Next]_vars PROVE GroupInv'
    OBVIOUS
  <1>1. TypeOK'
    BY NextType DEF GroupInv
  <1>2. CASE \/ UNCHANGED vars
             \/ \E t \in Transactions : CommitTransaction(t) \/ AbortTransaction(t)
    <2>1. UNCHANGED <<redisVars, workerVars>>
      BY <1>2 DEF vars, CommitTransaction, AbortTransaction, Ends
    <2>2. trimmed \in Nat
      BY DEF GroupInv, TypeOK
    <2> QED
      BY <1>1, <2>1, <2>2, ElsewhereGroup DEF redisVars, workerVars
  <1>3. CASE \E r \in Relays : RelayStep(r) \/ RelayFails(r)
    BY <1>3, RelayGroup
  <1>4. CASE \E w \in Workers : \/ WorkerStep(w) \/ Reclaim(w)
                                \/ ReclaimFromStalled(w) \/ Swallow(w)
                                \/ LeavePending(w) \/ WorkerCrash(w)
    BY <1>4, ReadGroup, TakeOverGroup, DealGroup, LeaveGroup DEF WorkerStep
  <1> QED
    BY <1>2, <1>3, <1>4 DEF Next

\* However many workers die with a batch, time out or fail to acknowledge, an
\* entry delivered to the group is pending until it was dealt with, unless the
\* stream was trimmed past it (consumers.py, Consumer).
THEOREM NoEntryStranded == Spec => []NothingStranded
  BY InitGroup, NextGroup, PTL DEF Spec, GroupInv
-----------------------------------------------------------------------------
(* The backbone implements EventDelivery, step by step.                    *)

Emitted == {e \in Events : Committed(e)}
Settled == {e \in Events : reactions[e] > 0} \cup swallowed

LEMMA CommitDelivers ==
  ASSUME RelayInv, NEW t \in Transactions, CommitTransaction(t)
  PROVE  Delivery!Next \/ UNCHANGED Delivery!vars
  <1>1. t \subseteq Events /\ (\A e \in t : row[e] = "staged")
        /\ row' = [e \in Events |-> IF e \in t THEN "unpublished" ELSE row[e]]
        /\ UNCHANGED <<reactions, swallowed>>
    BY EventsAssumption DEF CommitTransaction, Ends, workerVars
  <1>2. t \cap Emitted = {} /\ Emitted' = Emitted \cup t
    BY <1>1 DEF Emitted, Committed, RelayInv, TypeOK
  <1>3. Settled' = Settled
    BY <1>1 DEF Settled
  <1> QED
    BY <1>1, <1>2, <1>3
       DEF Emitted, Settled, Delivery!Next, Delivery!Emit, Delivery!vars

LEMMA DealingDelivers ==
  ASSUME RelayInv, NEW w \in Workers, Handle(w) \/ Swallow(w)
  PROVE  Delivery!Next
  <1>1. /\ EventInHand(w) \in Events /\ EventInHand(w) \in Streamed
        /\ row' = row
    BY HeadInHand DEF Handle, Swallow, EventInHand, Streamed, relayVars, RelayInv
  <1>2. EventInHand(w) \in Emitted
    BY <1>1 DEF RelayInv, StreamTellsTheOutbox, Emitted
  <1>3. Settled' = Settled \cup {EventInHand(w)}
    <2> HIDE DEF EventInHand
    <2>1. CASE Handle(w)
      <3>1. reactions' = [reactions EXCEPT ![EventInHand(w)] = @ + 1]
            /\ swallowed' = swallowed
        BY <2>1 DEF Handle
      <3>2. \A e \in Events : reactions'[e] > 0 <=>
                reactions[e] > 0 \/ e = EventInHand(w)
        BY <1>1, <3>1 DEF RelayInv, TypeOK
      <3> QED
        BY <1>1, <3>1, <3>2 DEF Settled
    <2>2. CASE Swallow(w)
      BY <2>2 DEF Settled, Swallow
    <2> QED
      BY <2>1, <2>2
  <1>4. Emitted' = Emitted
    BY <1>1 DEF Emitted, Committed
  <1> QED
    BY <1>1, <1>2, <1>3, <1>4 DEF Emitted, Settled, Delivery!Next, Delivery!Settle

\* Every other step commits no event and deals with none.
LEMMA OthersStutter ==
  ASSUME RelayInv, UNCHANGED <<reactions, swallowed>>,
         \A e \in Events : Committed(e)' <=> Committed(e)
  PROVE  UNCHANGED Delivery!vars
  BY DEF Delivery!vars

LEMMA StepDelivers == RelayInv /\ [Next]_vars => [Delivery!Next]_(Delivery!vars)
  <1> SUFFICES ASSUME RelayInv, [Next]_vars
               PROVE  Delivery!Next \/ UNCHANGED Delivery!vars
    OBVIOUS
  <1>1. CASE UNCHANGED vars
    BY <1>1, OthersStutter DEF vars, relayVars, workerVars, Committed
  <1>2. ASSUME NEW t \in Transactions, AbortTransaction(t)
        PROVE  UNCHANGED Delivery!vars
    BY <1>2, OthersStutter
       DEF AbortTransaction, Ends, workerVars, Committed, RelayInv, TypeOK
  <1>3. ASSUME NEW r \in Relays, RelayStep(r) \/ RelayFails(r)
        PROVE  UNCHANGED Delivery!vars
    <2>1. UNCHANGED <<reactions, swallowed>>
      BY <1>3 DEF RelayStep, RelayFails, Claim, Publish, Mark, workerVars
    <2>2. \A e \in Events : Committed(e)' <=> Committed(e)
      <3>1. CASE Mark(r)
        <4>1. \A e \in Events : e \in Claimed(r) => Committed(e)
          BY DEF Claimed, RelayInv, ClaimSound
        <4> QED
          BY <3>1, <4>1 DEF Mark, Committed, RelayInv, TypeOK
      <3>2. CASE ~Mark(r)
        BY <1>3, <3>2 DEF RelayStep, RelayFails, Claim, Publish, Committed
      <3> QED
        BY <3>1, <3>2
    <2> QED
      BY <2>1, <2>2, OthersStutter
  <1>4. ASSUME NEW w \in Workers,
               \/ Read(w) \/ Ack(w) \/ Reclaim(w) \/ ReclaimFromStalled(w)
               \/ LeavePending(w) \/ WorkerCrash(w)
        PROVE  UNCHANGED Delivery!vars
    <2>1. UNCHANGED <<row, reactions, swallowed>>
      BY <1>4 DEF Read, Ack, Reclaim, ReclaimFromStalled, TakeOver, LeavePending,
                  WorkerCrash, relayVars
    <2> QED
      BY <2>1, OthersStutter DEF Committed
  <1> QED
    BY <1>1, <1>2, <1>3, <1>4, CommitDelivers, DealingDelivers
       DEF Next, WorkerStep

LEMMA InitDelivers == Init => Delivery!Init
  BY DEF Init, Delivery!Init, Committed

\* The relays, the stream and the workers together react to what was committed
\* and only to that, each event emitted by one commit: every behaviour is one
\* of EventDelivery, liveness apart (relay.py, consumers.py).
THEOREM ReactsToTheCommitted == Spec => Delivery!Safety
  <1>1. Spec => []RelayInv
    BY InitRelay, NextRelay, PTL DEF Spec
  <1> QED
    BY <1>1, StepDelivers, InitDelivers, PTL DEF Spec, Delivery!Safety
-----------------------------------------------------------------------------
(* Until something fails: each event is added once and reacted to once.    *)

\* Relays hold different rows, unpublished ones, and what is in the stream is
\* there once: marked as published, or about to be by the relay that added it.
RelayQuiet ==
    /\ \A r, q \in Relays :
          \A j \in 1..Len(claim[r]), k \in 1..Len(claim[q]) :
              claim[r][j] = claim[q][k] => r = q /\ j = k
    /\ \A r \in Relays : \A k \in 1..Len(claim[r]) :
          row[claim[r][k]] = "unpublished"
    /\ \A i, j \in 1..Len(stream) : stream[i] = stream[j] => i = j
    /\ \A i \in 1..Len(stream) :
          \/ row[stream[i]] = "published"
          \/ \E r \in Relays : \E k \in 1..Len(claim[r]) :
                k <= sent[r] /\ claim[r][k] = stream[i]

RelayCalm == TypeOK /\ RelayQuiet

LEMMA InitCalm == Init => RelayCalm
  BY InitType DEF Init, RelayCalm, RelayQuiet

LEMMA EndsCalm ==
  ASSUME RelayCalm, NEW t \in Transactions,
         CommitTransaction(t) \/ AbortTransaction(t)
  PROVE  RelayQuiet'
  <1>1. PICK state \in {"unpublished", "rolled_back"} : Ends(t, state)
    BY DEF CommitTransaction, AbortTransaction
  <1>2. \A e \in Events : row[e] # "staged" => row'[e] = row[e]
    BY <1>1 DEF Ends, RelayCalm, TypeOK
  <1>3. UNCHANGED <<claim, sent, stream>>
    BY <1>1 DEF Ends, redisVars
  <1>4. /\ \A r \in Relays : \A k \in 1..Len(claim[r]) : claim[r][k] \in Events
        /\ \A i \in 1..Len(stream) : stream[i] \in Events
    BY DEF RelayCalm, TypeOK
  <1> QED
    BY <1>2, <1>3, <1>4 DEF RelayCalm, RelayQuiet

LEMMA ClaimCalm ==
  ASSUME RelayCalm, NEW r \in Relays, Claim(r)
  PROVE  RelayQuiet'
  <1>1. PICK list \in FirstOf(Claimable, RelayBatch) :
           claim' = [claim EXCEPT ![r] = list]
    BY DEF Claim
  <1>2. list \in Seq(Claimable) /\ Claimable \subseteq Nat
    BY ClaimableFinite, FirstOfIsSeq, EventsAssumption
  <1>3. \A k \in 1..Len(list) :
           row[list[k]] = "unpublished" /\ \A q \in Relays : list[k] \notin Claimed(q)
    BY <1>2 DEF Claimable
  <1>4. \A j, k \in 1..Len(list) : list[j] = list[k] => j = k
    BY <1>2, ClaimableFinite, FirstOfIsInjective
  <1>5. /\ sent[r] = 0 /\ claim[r] = <<>> /\ UNCHANGED <<row, sent, stream>>
        /\ claim'[r] = list /\ \A q \in Relays : q # r => claim'[q] = claim[q]
    BY <1>1 DEF Claim, RelayCalm, TypeOK, redisVars
  <1>6. \A q, p \in Relays :
          \A j \in 1..Len(claim'[q]), k \in 1..Len(claim'[p]) :
              claim'[q][j] = claim'[p][k] => q = p /\ j = k
    <2>1. \A q \in Relays : q # r =>
            \A j \in 1..Len(claim[q]), k \in 1..Len(list) : claim[q][j] # list[k]
      BY <1>3 DEF Claimed
    <2>2. \A q, p \in Relays :
            \A j \in 1..Len(claim[q]), k \in 1..Len(claim[p]) :
                claim[q][j] = claim[p][k] => q = p /\ j = k
      BY DEF RelayCalm, RelayQuiet
    <2> SUFFICES ASSUME NEW q \in Relays, NEW p \in Relays,
                        NEW j \in 1..Len(claim'[q]), NEW k \in 1..Len(claim'[p]),
                        claim'[q][j] = claim'[p][k]
                 PROVE  q = p /\ j = k
      OBVIOUS
    <2>3. CASE q = r /\ p = r
      BY <1>4, <1>5, <2>3
    <2>4. CASE q = r /\ p # r
      BY <1>5, <2>1, <2>4
    <2>5. CASE q # r /\ p = r
      BY <1>5, <2>1, <2>5
    <2>6. CASE q # r /\ p # r
      BY <1>5, <2>2, <2>6
    <2> QED
      BY <2>3, <2>4, <2>5, <2>6
  <1>7. \A q \in Relays : \A k \in 1..Len(claim'[q]) :
          row[claim'[q][k]] = "unpublished"
    BY <1>3, <1>5 DEF RelayCalm, RelayQuiet
  <1>8. \A i \in 1..Len(stream) :
          \/ row[stream[i]] = "published"
          \/ \E q \in Relays : \E k \in 1..Len(claim'[q]) :
                k <= sent[q] /\ claim'[q][k] = stream[i]
    <2> SUFFICES ASSUME NEW i \in 1..Len(stream), row[stream[i]] # "published"
                 PROVE  \E q \in Relays : \E k \in 1..Len(claim'[q]) :
                            k <= sent[q] /\ claim'[q][k] = stream[i]
      OBVIOUS
    <2>1. PICK q \in Relays : \E k \in 1..Len(claim[q]) :
             k <= sent[q] /\ claim[q][k] = stream[i]
      BY DEF RelayCalm, RelayQuiet
    <2>2. q # r
      BY <1>5, <2>1
    <2> QED
      BY <1>5, <2>1, <2>2
  <1> QED
    BY <1>5, <1>6, <1>7, <1>8 DEF RelayCalm, RelayQuiet

LEMMA PublishCalm ==
  ASSUME RelayCalm, NEW r \in Relays, Publish(r)
  PROVE  RelayQuiet'
  <1> DEFINE next == sent[r] + 1
             e == claim[r][next]
  <1>1. next \in 1..Len(claim[r]) /\ e \in Events /\ sent[r] \in Nat
    BY DEF Publish, RelayCalm, TypeOK
  <1>2. /\ Len(stream') = Len(stream) + 1 /\ Len(stream) \in Nat
        /\ \A i \in 1..Len(stream) : stream'[i] = stream[i]
        /\ stream'[Len(stream) + 1] = e
    BY <1>1 DEF Publish, RelayCalm, TypeOK
  <1>3. /\ UNCHANGED <<row, claim>> /\ sent'[r] = next
        /\ \A q \in Relays : q # r => sent'[q] = sent[q]
    BY DEF Publish, RelayCalm, TypeOK
  <1>4. \A q \in Relays : sent[q] <= sent'[q] /\ sent[q] \in Nat /\ sent'[q] \in Nat
    <2> TAKE q \in Relays
    <2>1. sent[q] \in Nat
      BY DEF RelayCalm, TypeOK
    <2>2. sent'[q] = sent[q] \/ sent'[q] = sent[q] + 1
      BY <1>3
    <2> QED
      BY <2>1, <2>2
  <1> HIDE DEF next, e
  <1>5. \A i \in 1..Len(stream) : stream[i] # e
    <2> SUFFICES ASSUME NEW i \in 1..Len(stream), stream[i] = e PROVE FALSE
      OBVIOUS
    <2>1. row[e] = "unpublished"
      BY <1>1 DEF RelayCalm, RelayQuiet, e
    <2>2. PICK q \in Relays : \E k \in 1..Len(claim[q]) :
             k <= sent[q] /\ claim[q][k] = e
      BY <2>1 DEF RelayCalm, RelayQuiet
    <2>3. PICK k \in 1..Len(claim[q]) : k <= sent[q] /\ claim[q][k] = e
      BY <2>2
    <2>4. q = r /\ k = next
      BY <1>1, <2>3 DEF RelayCalm, RelayQuiet, e
    <2> QED
      BY <1>1, <2>3, <2>4 DEF next
  <1>6. \A i, j \in 1..Len(stream') : stream'[i] = stream'[j] => i = j
    BY <1>2, <1>5 DEF RelayCalm, RelayQuiet
  <1>7. \A i \in 1..Len(stream') :
          \/ row[stream'[i]] = "published"
          \/ \E q \in Relays : \E k \in 1..Len(claim[q]) :
                k <= sent'[q] /\ claim[q][k] = stream'[i]
    <2> SUFFICES ASSUME NEW i \in 1..Len(stream'), row[stream'[i]] # "published"
                 PROVE  \E q \in Relays : \E k \in 1..Len(claim[q]) :
                            k <= sent'[q] /\ claim[q][k] = stream'[i]
      OBVIOUS
    <2>1. CASE i = Len(stream) + 1
      BY <1>1, <1>2, <1>3, <2>1 DEF e
    <2>2. CASE i \in 1..Len(stream)
      <3>1. PICK q \in Relays : \E k \in 1..Len(claim[q]) :
               k <= sent[q] /\ claim[q][k] = stream[i]
        BY <1>2, <2>2 DEF RelayCalm, RelayQuiet
      <3> QED
        BY <1>2, <1>4, <2>2, <3>1
    <2> QED
      BY <1>2, <2>1, <2>2
  <1> QED
    BY <1>3, <1>6, <1>7 DEF RelayCalm, RelayQuiet

LEMMA MarkCalm ==
  ASSUME RelayCalm, NEW r \in Relays, Mark(r)
  PROVE  RelayQuiet'
  <1>1. /\ claim'[r] = <<>> /\ stream' = stream
        /\ \A q \in Relays : q # r => claim'[q] = claim[q] /\ sent'[q] = sent[q]
    BY DEF Mark, RelayCalm, TypeOK, redisVars
  <1>2. /\ \A q \in Relays : \A k \in 1..Len(claim[q]) : claim[q][k] \in Events
        /\ \A i \in 1..Len(stream) : stream[i] \in Events
    BY DEF RelayCalm, TypeOK
  <1>3. \A e \in Events :
           row'[e] = IF e \in Claimed(r) THEN "published" ELSE row[e]
    BY DEF Mark
  <1>4. \A q \in Relays : \A k \in 1..Len(claim'[q]) :
           row'[claim'[q][k]] = "unpublished"
    <2> SUFFICES ASSUME NEW q \in Relays, NEW k \in 1..Len(claim'[q])
                 PROVE  row'[claim'[q][k]] = "unpublished"
      OBVIOUS
    <2>1. q # r /\ claim'[q] = claim[q]
      BY <1>1
    <2>2. claim[q][k] \notin Claimed(r)
      BY <2>1 DEF Claimed, RelayCalm, RelayQuiet
    <2> QED
      BY <1>2, <1>3, <2>1, <2>2 DEF RelayCalm, RelayQuiet
  <1>5. \A i \in 1..Len(stream) :
          \/ row'[stream[i]] = "published"
          \/ \E q \in Relays : \E k \in 1..Len(claim'[q]) :
                k <= sent'[q] /\ claim'[q][k] = stream[i]
    <2> SUFFICES ASSUME NEW i \in 1..Len(stream), row'[stream[i]] # "published"
                 PROVE  \E q \in Relays : \E k \in 1..Len(claim'[q]) :
                            k <= sent'[q] /\ claim'[q][k] = stream[i]
      OBVIOUS
    <2>1. stream[i] \notin Claimed(r) /\ row[stream[i]] # "published"
      BY <1>2, <1>3
    <2>2. PICK q \in Relays : \E k \in 1..Len(claim[q]) :
             k <= sent[q] /\ claim[q][k] = stream[i]
      BY <2>1 DEF RelayCalm, RelayQuiet
    <2>3. q # r
      BY <2>1, <2>2 DEF Claimed
    <2> QED
      BY <1>1, <2>2, <2>3
  <1>6. \A q, p \in Relays :
          \A j \in 1..Len(claim'[q]), k \in 1..Len(claim'[p]) :
              claim'[q][j] = claim'[p][k] => q = p /\ j = k
    BY <1>1 DEF RelayCalm, RelayQuiet
  <1> QED
    BY <1>1, <1>4, <1>5, <1>6 DEF RelayCalm, RelayQuiet
\* Workers hold different positions, all that is pending is in some worker's
\* hand, and what was reacted to has been acknowledged or is about to be.
Held == UNION {InHand(w) : w \in Workers}

Acknowledging(i) ==
    \E w \in Workers : batch[w] # <<>> /\ Head(batch[w]) = i /\ phase[w] = "ack"

GroupQuiet ==
    /\ \A u, w \in Workers :
          \A j \in 1..Len(batch[u]), k \in 1..Len(batch[w]) :
              batch[u][j] = batch[w][k] => u = w /\ j = k
    /\ pel \subseteq Held
    /\ \A e \in Events : reactions[e] > 0 =>
          \E i \in 1..delivered : stream[i] = e /\ (i \in Held => Acknowledging(i))
    /\ \A e \in Events : reactions[e] <= 1

GroupCalm == RelayCalm /\ GroupQuiet

LEMMA InitGroupCalm == Init => GroupCalm
  BY InitCalm DEF Init, GroupCalm, GroupQuiet

\* Steps of the producers and the relays.
LEMMA ElsewhereCalm ==
  ASSUME GroupCalm, UNCHANGED <<delivered, pel, workerVars>>,
         \A i \in 1..Len(stream) : stream'[i] = stream[i]
  PROVE  GroupQuiet'
  <1>1. \A i \in 1..delivered : stream'[i] = stream[i]
    BY DEF GroupCalm, RelayCalm, TypeOK
  <1>2. UNCHANGED <<delivered, pel, batch, phase, reactions>>
    BY DEF workerVars
  <1>3. Held' = Held /\ \A i : Acknowledging(i)' <=> Acknowledging(i)
    BY <1>2 DEF Held, InHand, Acknowledging
  <1>4. \A e \in Events : reactions[e] > 0 =>
          \E i \in 1..delivered : stream'[i] = e /\ (i \in Held' => Acknowledging(i)')
    BY <1>1, <1>3 DEF GroupCalm, GroupQuiet
  <1> QED
    BY <1>2, <1>3, <1>4 DEF GroupCalm, GroupQuiet

LEMMA ReadCalm ==
  ASSUME GroupCalm, NEW w \in Workers, Read(w)
  PROVE  GroupQuiet'
  <1> DEFINE last == delivered'
             fresh == [k \in 1..last - ReadUpTo |-> ReadUpTo + k]
  <1>1. /\ batch[w] = <<>> /\ batch' = [batch EXCEPT ![w] = fresh]
        /\ pel' = pel \cup ((ReadUpTo + 1)..last)
        /\ UNCHANGED <<stream, phase, reactions>>
    BY DEF Read, Take
  <1>2. /\ delivered \in Nat /\ ReadUpTo \in Nat /\ delivered <= ReadUpTo
        /\ last \in Nat /\ ReadUpTo <= last
    BY BatchAssumption DEF Read, ReadUpTo, GroupCalm, RelayCalm, TypeOK
  <1> HIDE DEF last
  <1>3. Len(fresh) = last - ReadUpTo /\ \A k \in 1..Len(fresh) : fresh[k] = ReadUpTo + k
    BY <1>2
  <1>4. \A u \in Workers : \A k \in 1..Len(batch[u]) : batch[u][k] \in 1..delivered
    BY DEF GroupCalm, RelayCalm, TypeOK
  <1>5. /\ batch'[w] = fresh
        /\ \A u \in Workers : u # w => batch'[u] = batch[u]
    BY <1>1 DEF GroupCalm, RelayCalm, TypeOK
  <1> HIDE DEF fresh
  <1>6. \A u, v \in Workers :
          \A j \in 1..Len(batch'[u]), k \in 1..Len(batch'[v]) :
              batch'[u][j] = batch'[v][k] => u = v /\ j = k
    <2> SUFFICES ASSUME NEW u \in Workers, NEW v \in Workers,
                        NEW j \in 1..Len(batch'[u]), NEW k \in 1..Len(batch'[v]),
                        batch'[u][j] = batch'[v][k]
                 PROVE  u = v /\ j = k
      OBVIOUS
    <2> DEFINE Fresh(x) == \E n \in 1..Len(fresh) : x = fresh[n]
    <2>0. /\ \A x : Fresh(x) => x > delivered
          /\ \A x \in Workers : \A n \in 1..Len(batch[x]) : batch[x][n] <= delivered
      <3> DEFINE up == ReadUpTo
      <3>1. /\ delivered \in Nat /\ up \in Nat /\ delivered <= up
            /\ Len(fresh) = last - up /\ last \in Nat
            /\ \A n \in 1..Len(fresh) : fresh[n] = up + n
        BY <1>2, <1>3
      <3> HIDE DEF up
      <3>2. \A n \in 1..Len(fresh) : fresh[n] > delivered
        BY <3>1
      <3>3. \A x \in Workers : \A n \in 1..Len(batch[x]) : batch[x][n] <= delivered
        BY <1>2, <1>4
      <3> QED
        BY <3>2, <3>3
    <2>1. CASE u = w /\ v = w
      <3> DEFINE up == ReadUpTo
      <3>1. /\ j \in 1..Len(fresh) /\ k \in 1..Len(fresh)
            /\ fresh[j] = fresh[k]
        BY <1>5, <2>1
      <3>2. up \in Nat /\ \A n \in 1..Len(fresh) : fresh[n] = up + n
        BY <1>2, <1>3
      <3> HIDE DEF up
      <3>3. j = k
        BY <3>1, <3>2
      <3> QED
        BY <2>1, <3>3
    <2>2. CASE u = w /\ v # w
      <3>1. Fresh(batch'[u][j]) /\ batch'[v][k] <= delivered
        BY <1>5, <2>0, <2>2
      <3> QED
        BY <1>2, <1>3, <2>0, <3>1
    <2>3. CASE u # w /\ v = w
      <3>1. Fresh(batch'[v][k]) /\ batch'[u][j] <= delivered
        BY <1>5, <2>0, <2>3
      <3> QED
        BY <1>2, <1>3, <2>0, <3>1
    <2>4. CASE u # w /\ v # w
      BY <1>5, <2>4 DEF GroupCalm, GroupQuiet
    <2> QED
      BY <2>1, <2>2, <2>3, <2>4
  <1>7. \A i : i \in Held' <=> i \in Held \/ i \in (ReadUpTo + 1)..last
    <2>1. InHand(w)' = (ReadUpTo + 1)..last
      <3>1. \A i \in (ReadUpTo + 1)..last :
               i - ReadUpTo \in 1..Len(fresh) /\ fresh[i - ReadUpTo] = i
        BY <1>2, <1>3
      <3>2. \A k \in 1..Len(fresh) : fresh[k] \in (ReadUpTo + 1)..last
        BY <1>2, <1>3
      <3> QED
        BY <1>5, <3>1, <3>2 DEF InHand
    <2>2. \A u \in Workers : u # w => InHand(u)' = InHand(u)
      BY <1>5 DEF InHand
    <2>3. InHand(w) = {}
      BY <1>1 DEF InHand
    <2> QED
      BY <2>1, <2>2, <2>3 DEF Held
  <1>8. pel' \subseteq Held'
    BY <1>1, <1>7 DEF GroupCalm, GroupQuiet
  <1>9. \A e \in Events : reactions[e] > 0 =>
          \E i \in 1..last : stream[i] = e /\ (i \in Held' => Acknowledging(i)')
    <2> SUFFICES ASSUME NEW e \in Events, reactions[e] > 0
                 PROVE  \E i \in 1..last : stream[i] = e
                                          /\ (i \in Held' => Acknowledging(i)')
      OBVIOUS
    <2>1. PICK i \in 1..delivered : stream[i] = e /\ (i \in Held => Acknowledging(i))
      BY DEF GroupCalm, GroupQuiet
    <2>2. i \in 1..last /\ i \notin (ReadUpTo + 1)..last
      BY <1>2
    <2>3. Acknowledging(i) => Acknowledging(i)'
      BY <1>1, <1>5 DEF Acknowledging
    <2> QED
      BY <1>7, <2>1, <2>2, <2>3
  <1> QED
    BY <1>1, <1>6, <1>8, <1>9 DEF GroupCalm, GroupQuiet, last

LEMMA HandleCalm ==
  ASSUME GroupCalm, NEW w \in Workers, Handle(w)
  PROVE  GroupQuiet'
  <1> DEFINE h == Head(batch[w])
             e == stream[h]
  <1>1. /\ batch[w] # <<>> /\ phase[w] = "handle"
        /\ reactions' = [reactions EXCEPT ![e] = @ + 1]
        /\ phase' = [phase EXCEPT ![w] = "ack"]
        /\ UNCHANGED <<stream, delivered, pel, batch>>
    BY DEF Handle, EventInHand, redisVars
  <1>2. /\ h \in 1..delivered /\ h \in 1..Len(stream) /\ e \in Events
        /\ batch[w] \in Seq(1..delivered) /\ Len(batch[w]) >= 1 /\ h = batch[w][1]
    <2>1. TypeOK
      BY DEF GroupCalm, RelayCalm
    <2>2. h \in 1..delivered /\ h \in 1..Len(stream) /\ e \in Events
      BY <1>1, <2>1, HeadInHand
    <2>3. batch[w] \in Seq(1..delivered)
      BY <2>1 DEF TypeOK
    <2>4. Len(batch[w]) >= 1 /\ Head(batch[w]) = batch[w][1]
      BY <1>1, <2>3
    <2> QED
      BY <2>2, <2>3, <2>4
  <1>3. h \in Held
    BY <1>2 DEF Held, InHand
  <1> HIDE DEF h, e
  <1>4. ~ Acknowledging(h)
    <2> SUFFICES ASSUME NEW u \in Workers, batch[u] # <<>>, Head(batch[u]) = h,
                        phase[u] = "ack"
                 PROVE  FALSE
      BY DEF Acknowledging
    <2>1. batch[u] \in Seq(1..delivered) /\ Len(batch[u]) >= 1 /\ batch[u][1] = h
      BY DEF GroupCalm, RelayCalm, TypeOK
    <2>2. u = w
      BY <1>2, <2>1 DEF GroupCalm, GroupQuiet
    <2> QED
      BY <1>1, <2>2
  <1>5. reactions[e] = 0
    <2> SUFFICES ASSUME reactions[e] > 0 PROVE FALSE
      BY <1>2 DEF GroupCalm, RelayCalm, TypeOK
    <2>1. PICK i \in 1..delivered : stream[i] = e /\ (i \in Held => Acknowledging(i))
      BY <1>2 DEF GroupCalm, GroupQuiet
    <2>2. i \in 1..Len(stream)
      BY DEF GroupCalm, RelayCalm, TypeOK
    <2>3. i = h
      BY <1>2, <2>1, <2>2 DEF GroupCalm, RelayCalm, RelayQuiet, e
    <2> QED
      BY <1>3, <1>4, <2>1, <2>3
  <1>6. /\ reactions'[e] = 1
        /\ \A f \in Events : f # e => reactions'[f] = reactions[f]
    BY <1>1, <1>2, <1>5 DEF GroupCalm, RelayCalm, TypeOK
  <1>7. Held' = Held
    BY <1>1 DEF Held, InHand
  <1>8. \A i : i = h \/ Acknowledging(i) => Acknowledging(i)'
    BY <1>1 DEF Acknowledging, h, GroupCalm, RelayCalm, TypeOK
  <1>9. \A f \in Events : reactions'[f] > 0 =>
          \E i \in 1..delivered : stream[i] = f /\ (i \in Held' => Acknowledging(i)')
    <2> SUFFICES ASSUME NEW f \in Events, reactions'[f] > 0
                 PROVE  \E i \in 1..delivered : stream[i] = f
                                               /\ (i \in Held' => Acknowledging(i)')
      OBVIOUS
    <2>1. CASE f = e
      <3>1. stream[h] = e
        BY DEF e
      <3> QED
        BY <1>2, <1>8, <2>1, <3>1
    <2>2. CASE f # e
      BY <1>6, <1>7, <1>8, <2>2 DEF GroupCalm, GroupQuiet
    <2> QED
      BY <2>1, <2>2
  <1>10. \A f \in Events : reactions'[f] <= 1
    BY <1>6 DEF GroupCalm, GroupQuiet
  <1> QED
    BY <1>1, <1>7, <1>9, <1>10 DEF GroupCalm, GroupQuiet

LEMMA AckCalm ==
  ASSUME GroupCalm, NEW w \in Workers, Ack(w)
  PROVE  GroupQuiet'
  <1> DEFINE h == Head(batch[w])
  <1>1. /\ batch[w] # <<>> /\ pel' = pel \ {h}
        /\ batch' = [batch EXCEPT ![w] = Tail(batch[w])]
        /\ phase' = [phase EXCEPT ![w] = "handle"]
        /\ UNCHANGED <<stream, delivered, reactions>>
    BY DEF Ack, Take
  <1>2. /\ batch[w] \in Seq(1..delivered) /\ Len(batch[w]) \in Nat
        /\ Len(batch[w]) >= 1 /\ h = batch[w][1]
    BY <1>1 DEF GroupCalm, RelayCalm, TypeOK
  <1>3. /\ Len(Tail(batch[w])) = Len(batch[w]) - 1
        /\ \A k \in 1..Len(batch[w]) - 1 : Tail(batch[w])[k] = batch[w][k + 1]
    BY <1>1, <1>2
  <1>4. /\ batch'[w] = Tail(batch[w])
        /\ \A u \in Workers : u # w => batch'[u] = batch[u] /\ phase'[u] = phase[u]
    BY <1>1 DEF GroupCalm, RelayCalm, TypeOK
  <1> HIDE DEF h
  <1>5. \A u, v \in Workers :
          \A j \in 1..Len(batch'[u]), k \in 1..Len(batch'[v]) :
              batch'[u][j] = batch'[v][k] => u = v /\ j = k
    <2> SUFFICES ASSUME NEW u \in Workers, NEW v \in Workers,
                        NEW j \in 1..Len(batch'[u]), NEW k \in 1..Len(batch'[v]),
                        batch'[u][j] = batch'[v][k]
                 PROVE  u = v /\ j = k
      OBVIOUS
    <2>1. \A n \in 1..Len(batch'[w]) :
             n + 1 \in 1..Len(batch[w]) /\ batch'[w][n] = batch[w][n + 1]
      BY <1>2, <1>3, <1>4
    <2>2. CASE u = w /\ v = w
      <3>1. batch[w][j + 1] = batch[w][k + 1]
        BY <2>1, <2>2
      <3>2. j + 1 = k + 1
        BY <2>1, <2>2, <3>1 DEF GroupCalm, GroupQuiet
      <3> QED
        BY <2>2, <3>2
    <2>3. CASE u = w /\ v # w
      <3>1. batch[w][j + 1] = batch[v][k] /\ k \in 1..Len(batch[v])
        BY <1>4, <2>1, <2>3
      <3> QED
        BY <2>1, <2>3, <3>1 DEF GroupCalm, GroupQuiet
    <2>4. CASE u # w /\ v = w
      <3>1. batch[u][j] = batch[w][k + 1] /\ j \in 1..Len(batch[u])
        BY <1>4, <2>1, <2>4
      <3> QED
        BY <2>1, <2>4, <3>1 DEF GroupCalm, GroupQuiet
    <2>5. CASE u # w /\ v # w
      BY <1>4, <2>5 DEF GroupCalm, GroupQuiet
    <2> QED
      BY <2>2, <2>3, <2>4, <2>5
  <1>6. Held' = Held \ {h}
    <2>1. InHand(w)' = InHand(w) \ {h}
      <3>1. \A k \in 1..Len(batch[w]) : batch[w][k] = h => k = 1
        BY <1>2 DEF GroupCalm, GroupQuiet
      <3>2. \A k \in 2..Len(batch[w]) :
               k - 1 \in 1..Len(batch'[w]) /\ batch'[w][k - 1] = batch[w][k]
        BY <1>2, <1>3, <1>4
      <3>3. \A k \in 1..Len(batch'[w]) :
               k + 1 \in 1..Len(batch[w]) /\ batch'[w][k] = batch[w][k + 1]
        BY <1>2, <1>3, <1>4
      <3>4. \A i : i \in InHand(w)' => i \in InHand(w) /\ i # h
        BY <3>1, <3>3 DEF InHand
      <3>5. \A k \in 1..Len(batch[w]) : k = 1 \/ k \in 2..Len(batch[w])
        OBVIOUS
      <3>6. \A i : i \in InHand(w) /\ i # h => i \in InHand(w)'
        BY <1>2, <3>2, <3>5 DEF InHand
      <3> QED
        BY <3>4, <3>6
    <2>2. \A u \in Workers : u # w => InHand(u)' = InHand(u) /\ h \notin InHand(u)
      BY <1>2, <1>4 DEF InHand, GroupCalm, GroupQuiet
    <2> QED
      BY <2>1, <2>2 DEF Held
  <1>7. \A i : i # h /\ Acknowledging(i) => Acknowledging(i)'
    BY <1>4 DEF Acknowledging, h
  <1>8. \A e \in Events : reactions[e] > 0 =>
          \E i \in 1..delivered : stream[i] = e /\ (i \in Held' => Acknowledging(i)')
    BY <1>6, <1>7 DEF GroupCalm, GroupQuiet
  <1> QED
    BY <1>1, <1>5, <1>6, <1>8 DEF GroupCalm, GroupQuiet
\* Once something has failed nothing is claimed any more.
QuietInv == TypeOK /\ (failures = 0 => RelayQuiet /\ GroupQuiet)

LEMMA InitQuiet == Init => QuietInv
  BY InitType, InitCalm, InitGroupCalm
     DEF QuietInv, RelayCalm, GroupCalm

LEMMA NextQuiet == QuietInv /\ [Next]_vars => QuietInv'
  <1> SUFFICES ASSUME QuietInv, [Next]_vars, failures' = 0
               PROVE  RelayQuiet' /\ GroupQuiet'
    BY NextType DEF QuietInv
  <1>1. failures = 0
    <2>1. failures' = failures \/ Fails
      BY DEF Next, vars, CommitTransaction, AbortTransaction, Ends, RelayStep,
             Claim, Publish, Mark, RelayFails, WorkerStep, Read, Handle, Ack,
             Reclaim, ReclaimFromStalled, Swallow, LeavePending, WorkerCrash
    <2> QED
      BY <2>1 DEF Fails, QuietInv, TypeOK
  <1>2. GroupCalm /\ RelayCalm /\ ~Fails
    BY <1>1 DEF QuietInv, GroupCalm, RelayCalm, Fails
  <1>3. CASE UNCHANGED vars
    <2>1. RelayQuiet'
      BY <1>2, <1>3 DEF RelayCalm, RelayQuiet, vars, relayVars, redisVars
    <2> QED
      BY <1>2, <1>3, <2>1, ElsewhereCalm DEF vars, redisVars
  <1>4. ASSUME NEW t \in Transactions, CommitTransaction(t) \/ AbortTransaction(t)
        PROVE  RelayQuiet' /\ GroupQuiet'
    <2>1. UNCHANGED <<redisVars, workerVars>>
      BY <1>4 DEF CommitTransaction, AbortTransaction, Ends
    <2> QED
      BY <1>2, <1>4, <2>1, EndsCalm, ElsewhereCalm DEF redisVars
  <1>5. ASSUME NEW r \in Relays, RelayStep(r) \/ RelayFails(r)
        PROVE  RelayQuiet' /\ GroupQuiet'
    <2>1. RelayStep(r)
      BY <1>2, <1>5 DEF RelayFails
    <2>2. UNCHANGED <<delivered, pel, workerVars>>
      BY <2>1 DEF RelayStep, Claim, Publish, Mark, redisVars
    <2>3. \A i \in 1..Len(stream) : stream'[i] = stream[i]
      <3>1. CASE Publish(r)
        <4>1. stream \in Seq(Events) /\ claim[r][sent[r] + 1] \in Events
          BY <1>2, <3>1 DEF RelayCalm, TypeOK, Publish
        <4> QED
          BY <3>1, <4>1 DEF Publish
      <3>2. CASE ~Publish(r)
        BY <2>1, <3>2 DEF RelayStep, Claim, Mark, redisVars
      <3> QED
        BY <3>1, <3>2
    <2> QED
      BY <1>2, <2>1, <2>2, <2>3, ElsewhereCalm, ClaimCalm, PublishCalm, MarkCalm
         DEF RelayStep
  <1>6. ASSUME NEW w \in Workers,
               \/ WorkerStep(w) \/ Reclaim(w) \/ ReclaimFromStalled(w)
               \/ Swallow(w) \/ LeavePending(w) \/ WorkerCrash(w)
        PROVE  RelayQuiet' /\ GroupQuiet'
    <2>1. ~Reclaim(w)
      <3>1. Abandoned = {}
        BY <1>2 DEF Abandoned, GroupCalm, GroupQuiet, Held
      <3> QED
        BY <3>1 DEF Reclaim, TakeOver
    <2>2. WorkerStep(w)
      BY <1>2, <1>6, <2>1 DEF ReclaimFromStalled, Swallow, LeavePending, WorkerCrash
    <2>3. RelayQuiet'
      BY <1>2, <1>6, WorkersLeaveRelays DEF RelayCalm, RelayQuiet
    <2> QED
      BY <1>2, <2>2, <2>3, ReadCalm, HandleCalm, AckCalm DEF WorkerStep
  <1> QED
    BY <1>3, <1>4, <1>5, <1>6 DEF Next

\* Before the first failure no relay adds an event twice, however many relays
\* there are, and the group reacts to it at most once, however many workers
\* (relay.py, FOR UPDATE SKIP LOCKED; consumers.py, Consumer).
THEOREM OnceWithoutFailure == Spec => []NoDuplicateWithoutFailure
  <1>1. QuietInv => NoDuplicateWithoutFailure
    BY DEF QuietInv, RelayQuiet, GroupQuiet, NoDuplicateWithoutFailure
  <1> QED
    BY <1>1, InitQuiet, NextQuiet, PTL DEF Spec

-----------------------------------------------------------------------------
(* One relay, as deployed: the stream has every line's events in the order  *)
(* of their sequence numbers, whatever fails and is repeated, for any        *)
(* events, transactions and size of the batches.                             *)

OneRelay == \A q, r \in Relays : q = r

\* f comes after e: a later event about the same line.
After(f, e) == Subject[e] = Subject[f] /\ e < f

-----------------------------------------------------------------------------
(* A batch has no gaps.                                                    *)

\* What is smaller than a member of the batch is in the batch.
HasNoGaps(list, S) ==
    \A k \in 1..Len(list), x \in S :
        x < list[k] => \E j \in 1..Len(list) : list[j] = x

LEMMA FirstOfHasNoGaps ==
  ASSUME NEW S, S \subseteq Nat, IsFiniteSet(S), NEW n \in Nat,
         NEW list \in FirstOf(S, n)
  PROVE  HasNoGaps(list, S)
  <1> SUFFICES ASSUME NEW k \in 1..Len(list), NEW x \in S, x < list[k]
               PROVE  \E j \in 1..Len(list) : list[j] = x
    BY DEF HasNoGaps
  <1> DEFINE below(y) == {z \in S : z < y}
             smallest == {y \in S : Cardinality(below(y)) < n}
             c == Cardinality(smallest)
  <1>1. IsFiniteSet(smallest) /\ c \in Nat
    BY FS_Subset, FS_CardinalityType
  <1>2. list \in [1..c -> smallest] /\ \A a, b \in 1..c : a < b => list[a] < list[b]
    BY DEF FirstOf
  <1>3. Len(list) = c /\ list[k] \in smallest
    <2> HIDE DEF c, smallest
    <2>1. Len(list) = c
      BY <1>1, <1>2
    <2> QED
      BY <1>2, <2>1
  <1>4. x \in smallest
    <2>1. below(x) \subseteq below(list[k]) /\ IsFiniteSet(below(list[k]))
      <3>1. list[k] \in Nat /\ x \in Nat
        BY <1>3
      <3>2. below(x) \subseteq below(list[k])
        <4> SUFFICES ASSUME NEW z \in S, z < x PROVE z < list[k]
          OBVIOUS
        <4>1. z \in Nat
          OBVIOUS
        <4> QED
          BY <3>1, <4>1
      <3>3. IsFiniteSet(below(list[k]))
        BY FS_Subset
      <3> QED
        BY <3>2, <3>3
    <2>2. /\ IsFiniteSet(below(x))
          /\ Cardinality(below(x)) <= Cardinality(below(list[k]))
      BY <2>1, FS_Subset
    <2>3. Cardinality(below(x)) \in Nat /\ Cardinality(below(list[k])) \in Nat
      BY <2>1, <2>2, FS_CardinalityType
    <2>4. Cardinality(below(list[k])) < n
      BY <1>3
    <2> HIDE DEF below
    <2> QED
      BY <2>2, <2>3, <2>4
  <1> HIDE DEF smallest
  <1>5. list \in Injection(1..c, smallest)
    <2>1. \A a, b \in 1..c : list[a] \in Nat /\ list[b] \in Nat
      BY <1>2 DEF smallest
    <2>2. \A a, b \in 1..c : list[a] = list[b] => a = b
      BY <1>1, <1>2, <2>1
    <2> QED
      BY <1>2, <2>2 DEF Injection, IsInjective
  <1>6. IsFiniteSet(1..c) /\ Cardinality(1..c) = c
    <2> HIDE DEF c
    <2>1. 1 \in Int /\ c \in Int /\ c \in Nat
      BY <1>1
    <2>2. IsFiniteSet(1..c) /\ Cardinality(1..c) = IF 1 > c THEN 0 ELSE c - 1 + 1
      BY <2>1, FS_Interval
    <2> QED
      BY <2>1, <2>2
  <1>7. list \in Surjection(1..c, smallest)
    BY <1>1, <1>5, <1>6, FS_Injection
  <1> QED
    BY <1>3, <1>4, <1>7 DEF Surjection

-----------------------------------------------------------------------------
(* The invariant.                                                          *)

\* Transactions about one line end in the order of its events.
RowsInOrder ==
    \A e, f \in Events : After(f, e) /\ row[f] # "staged" => row[e] # "staged"

\* A relay holds its rows in order, and leaves out none that has to go first.
ClaimInOrder ==
    \A r \in Relays :
        /\ \A j, k \in 1..Len(claim[r]) : j < k => claim[r][j] < claim[r][k]
        /\ \A k \in 1..Len(claim[r]), e \in Events :
              After(claim[r][k], e) /\ row[e] = "unpublished" =>
                  \E j \in 1..Len(claim[r]) : claim[r][j] = e

\* Before every entry of the stream is an entry of each event that has to go
\* first.
StreamedInOrder ==
    \A i \in 1..Len(stream), e \in Events :
        After(stream[i], e) /\ Committed(e) => \E j \in 1..i-1 : stream[j] = e

\* Every event in the stream is there for a first time.
FirstSeen ==
    \A e \in Streamed : \E i \in 1..Len(stream) :
        stream[i] = e /\ \A j \in 1..i-1 : stream[j] # e

OrderInv == RowsInOrder /\ ClaimInOrder /\ StreamedInOrder /\ FirstSeen
OrderIInv == RelayInv /\ OrderInv

LEMMA InitOrder == Init => OrderIInv
  BY InitRelay DEF Init, OrderIInv, OrderInv, RowsInOrder, ClaimInOrder,
                   StreamedInOrder, FirstSeen, Streamed

LEMMA ElsewhereOrder ==
  ASSUME OrderInv, UNCHANGED <<row, claim, sent, stream>>
  PROVE  OrderInv'
  BY DEF OrderInv, RowsInOrder, ClaimInOrder, StreamedInOrder, FirstSeen,
         Streamed, Committed

LEMMA SeenStays ==
  ASSUME FirstSeen, UNCHANGED stream
  PROVE  FirstSeen'
  <1>1. stream' = stream /\ Streamed' = Streamed
    BY DEF Streamed
  <1> QED
    BY <1>1 DEF FirstSeen

\* What is claimed or in the stream is committed already, so nothing that has
\* to go before it can be committed now.
LEMMA ProducerOrder ==
  ASSUME OrderIInv, NEW t \in Transactions,
         CommitTransaction(t) \/ AbortTransaction(t)
  PROVE  OrderInv'
  <1>1. PICK state \in {"unpublished", "rolled_back"} : Ends(t, state)
    BY DEF CommitTransaction, AbortTransaction
  <1>2. /\ UNCHANGED <<claim, stream>>
        /\ row' = [e \in Events |-> IF e \in t THEN state ELSE row[e]]
        /\ \A e \in t : row[e] = "staged"
        /\ \A e \in t, f \in Events \ t :
              Subject[f] = Subject[e] /\ f < e => row[f] # "staged"
    BY <1>1 DEF Ends, redisVars
  <1>3. \A e, f \in Events :
           After(f, e) /\ Committed(f) => row'[e] = row[e]
    BY <1>2 DEF OrderIInv, OrderInv, RowsInOrder, Committed
  <1>4. /\ \A r \in Relays : \A k \in 1..Len(claim[r]) :
              claim[r][k] \in Events /\ Committed(claim[r][k])
        /\ \A i \in 1..Len(stream) : stream[i] \in Events /\ Committed(stream[i])
    BY DEF OrderIInv, RelayInv, TypeOK, ClaimSound, StreamTellsTheOutbox, Streamed
  <1>5. RowsInOrder'
    BY <1>2 DEF OrderIInv, OrderInv, RowsInOrder, After
  <1>6. ClaimInOrder'
    BY <1>2, <1>3, <1>4 DEF OrderIInv, OrderInv, ClaimInOrder
  <1>7. StreamedInOrder'
    BY <1>2, <1>3, <1>4 DEF OrderIInv, OrderInv, StreamedInOrder, Committed
  <1>8. FirstSeen'
    BY <1>2, SeenStays DEF OrderIInv, OrderInv
  <1> QED
    BY <1>5, <1>6, <1>7, <1>8 DEF OrderInv

\* Alone, a relay finds every unpublished row claimable.
LEMMA ClaimOrder ==
  ASSUME OneRelay, OrderIInv, NEW r \in Relays, Claim(r)
  PROVE  OrderInv'
  <1>1. PICK list \in FirstOf(Claimable, RelayBatch) :
           claim' = [claim EXCEPT ![r] = list]
    BY DEF Claim
  <1>2. list \in Seq(Claimable)
    BY ClaimableFinite, FirstOfIsSeq
  <1>3. /\ IsFiniteSet(Claimable) /\ Claimable \subseteq Nat
        /\ RelayBatch \in Nat
    BY ClaimableFinite, EventsAssumption, BatchAssumption
  <1>4. \A e \in Events : row[e] = "unpublished" => e \in Claimable
    BY DEF OneRelay, Claim, Claimable, Claimed
  <1>5. \A k \in 1..Len(list), e \in Events :
           e < list[k] /\ row[e] = "unpublished" =>
               \E j \in 1..Len(list) : list[j] = e
    <2>1. HasNoGaps(list, Claimable)
      BY <1>3, FirstOfHasNoGaps
    <2> QED
      BY <1>4, <2>1 DEF HasNoGaps
  <1>6. \A j, k \in 1..Len(list) : j < k => list[j] < list[k]
    <2>1. DOMAIN list = 1..Len(list)
      BY <1>2, LenProperties
    <2>2. \A j, k \in DOMAIN list : j < k => list[j] < list[k]
      BY DEF FirstOf
    <2> QED
      BY <2>1, <2>2
  <1>7. \A q \in Relays : claim'[q] = list
    BY <1>1 DEF OneRelay, OrderIInv, RelayInv, TypeOK
  <1>8. UNCHANGED <<row, stream>>
    BY DEF Claim, redisVars
  <1>9. ClaimInOrder'
    BY <1>5, <1>6, <1>7, <1>8 DEF ClaimInOrder, After
  <1> QED
    BY <1>8, <1>9 DEF OrderIInv, OrderInv, RowsInOrder, StreamedInOrder, FirstSeen,
                      Streamed, Committed

LEMMA PublishOrder ==
  ASSUME OrderIInv, NEW r \in Relays, Publish(r)
  PROVE  OrderInv'
  <1> DEFINE m == sent[r] + 1
             f == claim[r][m]
             n == Len(stream)
  <1>1. /\ m \in 1..Len(claim[r]) /\ f \in Events
        /\ stream' = Append(stream, f) /\ UNCHANGED <<row, claim>>
    <2>1. claim[r] \in Seq(Events) /\ sent[r] \in Nat /\ sent[r] < Len(claim[r])
      BY DEF Publish, OrderIInv, RelayInv, TypeOK
    <2>2. m \in 1..Len(claim[r])
      BY <2>1
    <2>3. f \in Events
      BY <2>1, <2>2
    <2> QED
      BY <2>2, <2>3 DEF Publish
  <1> HIDE DEF f
  <1>2. /\ Len(stream') = n + 1 /\ n \in Nat /\ stream'[n + 1] = f
        /\ \A i \in 1..n : stream'[i] = stream[i]
    BY <1>1 DEF OrderIInv, RelayInv, TypeOK
  <1>3. Streamed' = Streamed \cup {f}
    BY <1>1, StreamedAppend DEF OrderIInv, RelayInv, TypeOK
  \* What has to go first is in the stream: marked, or sent before f.
  <1>4. ASSUME NEW e \in Events, After(f, e), Committed(e)
        PROVE  e \in Streamed
    <2>1. CASE row[e] = "published"
      BY <2>1 DEF OrderIInv, RelayInv, StreamTellsTheOutbox
    <2>2. CASE row[e] = "unpublished"
      <3>1. PICK j \in 1..Len(claim[r]) : claim[r][j] = e
        BY <1>1, <1>4, <2>2 DEF OrderIInv, OrderInv, ClaimInOrder, f
      <3>2. e < f /\ e \in Nat /\ f \in Nat
        BY <1>1, <1>4, EventsAssumption DEF After
      <3>3. ~(m < j) /\ m # j
        BY <1>1, <3>1, <3>2 DEF OrderIInv, OrderInv, ClaimInOrder, f
      <3>4. j <= sent[r]
        BY <1>1, <3>3 DEF OrderIInv, RelayInv, TypeOK
      <3> QED
        BY <3>1, <3>4 DEF OrderIInv, RelayInv, ClaimSound
    <2> QED
      BY <1>4, <2>1, <2>2 DEF Committed
  <1>5. StreamedInOrder'
    <2> SUFFICES ASSUME NEW i \in 1..n + 1, NEW e \in Events,
                        After(stream'[i], e), Committed(e)
                 PROVE  \E j \in 1..i-1 : stream'[j] = e
      BY <1>1, <1>2 DEF StreamedInOrder, Committed, After
    <2>1. CASE i = n + 1
      <3>1. e \in Streamed
        BY <1>2, <1>4, <2>1
      <3>2. PICK j \in 1..n : stream[j] = e
        BY <3>1 DEF Streamed
      <3> QED
        BY <1>2, <2>1, <3>2
    <2>2. CASE i \in 1..n
      <3>1. PICK j \in 1..i-1 : stream[j] = e
        BY <1>2, <2>2 DEF OrderIInv, OrderInv, StreamedInOrder
      <3> QED
        BY <1>2, <2>2, <3>1
    <2> QED
      BY <1>2, <2>1, <2>2
  <1>6. FirstSeen'
    <2> SUFFICES ASSUME NEW e \in Streamed \cup {f}
                 PROVE  \E i \in 1..n + 1 :
                           stream'[i] = e /\ \A j \in 1..i-1 : stream'[j] # e
      BY <1>2, <1>3 DEF FirstSeen
    <2>1. CASE e \in Streamed
      <3>1. PICK i \in 1..n : stream[i] = e /\ \A j \in 1..i-1 : stream[j] # e
        BY <2>1 DEF OrderIInv, OrderInv, FirstSeen
      <3>2. \A j \in 1..i-1 : j \in 1..n
        BY <1>2
      <3> QED
        BY <1>2, <3>1, <3>2
    <2>2. CASE e = f /\ e \notin Streamed
      <3>1. \A j \in 1..n : stream[j] # e
        BY <2>2 DEF Streamed
      <3>2. stream'[n + 1] = e /\ \A j \in 1..(n + 1) - 1 : stream'[j] # e
        BY <1>2, <2>2, <3>1
      <3> QED
        BY <1>2, <3>2
    <2> QED
      BY <2>1, <2>2
  <1>7. RowsInOrder' /\ ClaimInOrder'
    BY <1>1 DEF OrderIInv, OrderInv, RowsInOrder, ClaimInOrder
  <1> QED
    BY <1>5, <1>6, <1>7 DEF OrderInv

\* Letting go, marked or not, brings nothing out of order.
LEMMA ReleaseOrder ==
  ASSUME OrderIInv, NEW r \in Relays, Mark(r) \/ RelayFails(r)
  PROVE  OrderInv'
  <1>1. claim' = [claim EXCEPT ![r] = <<>>] /\ UNCHANGED stream
    BY DEF Mark, RelayFails, redisVars
  <1>2. \A e \in Events :
           row'[e] = row[e] \/ (row'[e] = "published" /\ Committed(e))
    <2>1. CASE Mark(r)
      BY <2>1 DEF Mark, Claimed, OrderIInv, RelayInv, ClaimSound, TypeOK
    <2>2. CASE RelayFails(r)
      BY <2>2 DEF RelayFails
    <2> QED
      BY <2>1, <2>2
  <1>3. \A e \in Events :
           /\ row'[e] = "staged" <=> row[e] = "staged"
           /\ row'[e] = "unpublished" => row[e] = "unpublished"
           /\ Committed(e)' <=> Committed(e)
    BY <1>2 DEF Committed
  <1>4. \A q \in Relays : \A k \in 1..Len(claim'[q]) : claim'[q] = claim[q]
    BY <1>1 DEF OrderIInv, RelayInv, TypeOK
  <1>5. RowsInOrder' /\ ClaimInOrder'
    BY <1>3, <1>4 DEF OrderIInv, OrderInv, RowsInOrder, ClaimInOrder
  <1>6. StreamedInOrder' /\ FirstSeen'
    <2>1. \A i \in 1..Len(stream) : stream[i] \in Events
      BY DEF OrderIInv, RelayInv, TypeOK
    <2>2. StreamedInOrder'
      BY <1>1, <1>3, <2>1 DEF OrderIInv, OrderInv, StreamedInOrder
    <2> QED
      BY <1>1, <2>2, SeenStays DEF OrderIInv, OrderInv
  <1> QED
    BY <1>5, <1>6 DEF OrderInv

LEMMA NextOrder ==
  ASSUME OneRelay, OrderIInv, [Next]_vars
  PROVE  OrderIInv'
  <1>1. RelayInv'
    BY NextRelay DEF OrderIInv
  <1>2. CASE UNCHANGED vars
    BY <1>1, <1>2, ElsewhereOrder DEF OrderIInv, vars, relayVars, redisVars
  <1>3. ASSUME NEW r \in Relays, RelayStep(r) \/ RelayFails(r)
        PROVE  OrderInv'
    BY <1>3, ClaimOrder, PublishOrder, ReleaseOrder DEF RelayStep
  <1>4. ASSUME NEW w \in Workers,
               \/ WorkerStep(w) \/ Reclaim(w) \/ ReclaimFromStalled(w)
               \/ Swallow(w) \/ LeavePending(w) \/ WorkerCrash(w)
        PROVE  OrderInv'
    BY <1>4, WorkersLeaveRelays, ElsewhereOrder DEF OrderIInv
  <1> QED
    BY <1>1, <1>2, <1>3, <1>4, ProducerOrder DEF Next, OrderIInv

\* The first appearance of an event is the one FirstPosition chooses.
LEMMA OrderSuffices ==
  ASSUME OrderIInv
  PROVE  StreamInSequenceOrder
  <1> SUFFICES ASSUME NEW e \in Streamed, NEW f \in Streamed,
                      Subject[e] = Subject[f], e < f
               PROVE  FirstPosition(e) < FirstPosition(f)
    BY DEF StreamInSequenceOrder
  <1>1. \A g \in Streamed :
           /\ FirstPosition(g) \in 1..Len(stream)
           /\ stream[FirstPosition(g)] = g
           /\ \A j \in 1..FirstPosition(g)-1 : stream[j] # g
    BY DEF OrderIInv, OrderInv, FirstSeen, FirstPosition
  <1>2. e \in Events /\ f \in Events /\ Committed(e)
    BY DEF OrderIInv, RelayInv, TypeOK, StreamTellsTheOutbox, Streamed
  <1> DEFINE i == FirstPosition(f)
             p == FirstPosition(e)
  <1> HIDE DEF i, p
  <1>3. /\ i \in 1..Len(stream) /\ stream[i] = f
        /\ p \in 1..Len(stream) /\ \A j \in 1..p-1 : stream[j] # e
    BY <1>1 DEF i, p
  <1>4. PICK j \in 1..i-1 : stream[j] = e
    BY <1>2, <1>3 DEF OrderIInv, OrderInv, StreamedInOrder, After
  <1>5. p <= j
    BY <1>3, <1>4
  <1>6. p < i
    BY <1>3, <1>4, <1>5
  <1> QED
    BY <1>6 DEF i, p

\* Readers of the stream see a line's events in sequence order as long as one
\* relay runs, whatever crashes and however often a batch is sent again
\* (relay.py, publish_batch: ORDER BY sequence; "Sequence order").
THEOREM OneRelayKeepsOrder ==
  ASSUME OneRelay
  PROVE  Spec => []StreamInSequenceOrder
  <1>1. OrderIInv /\ [Next]_vars => OrderIInv'
    BY NextOrder
  <1> QED
    BY InitOrder, OrderSuffices, <1>1, PTL DEF Spec
=============================================================================
