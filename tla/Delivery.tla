------------------------------ MODULE Delivery ------------------------------
(***************************************************************************)
(* Events on their way from the stores to the cloud.                       *)
(*                                                                         *)
(* Every store runs a publisher (pos-edge/src/event_publish.rs) that reads *)
(* a batch from its outbox, publishes it over one of two links and         *)
(* acknowledges the accepted prefix.  Over NATS (link-nats) the events are *)
(* appended one by one to a stream that the whole fleet shares, and the    *)
(* cloud's cursor (pos-cloud/src/cursor.rs) pulls, ingests and             *)
(* acknowledges them.  Over HTTPS (cloud-sync-http) the cloud ingests the  *)
(* batch in the request.  Both end in Cloud::ingest and the append of      *)
(* store-postgres.                                                         *)
(*                                                                         *)
(* An event is <<s, n>>: the n-th position of store s's outbox.            *)
(***************************************************************************)
EXTENDS Integers, Sequences, FiniteSets

CONSTANTS
  NatsStores, HttpStores,  \* the stores, by the link they publish over
  MaxEvents,               \* how many events a store commits
  BatchSize,               \* the link's max_batch_size
  CursorBatch,             \* the most one pull gathers
  StreamLimit,             \* max_messages of the stream
  MaxFaults                \* lost answers, failed calls, restarts

Stores == NatsStores \cup HttpStores
Events == Stores \X (1 .. MaxEvents)

ASSUME DeliveryAssumption ==
  /\ NatsStores \cap HttpStores = {}
  /\ MaxEvents \in Nat /\ MaxFaults \in Nat /\ StreamLimit \in Nat
  /\ BatchSize \in Nat \ {0} /\ CursorBatch \in Nat \ {0}

VARIABLES
  queued,   \* the last position of each store's outbox
  through,  \* the last position acknowledged to it
  up,       \* whether the store's link has had its handshake
  pub,      \* each publisher: [phase, from, to, accepted]
  posts,    \* HTTPS publishes at the cloud: [store, from, to, waited]
  stream,   \* the fleet's stream: a sequence of events
  done,     \* the messages acknowledged by the cursor, by their place in it
  waiting,  \* the messages delivered, neither acknowledged nor returned
  cursor,   \* the cloud's cursor: [phase, batch]
  cloud,    \* the events stored: the primary key makes it a set
  handed,   \* the rows of event_outbox for each event, which has no such key
  faults    \* how many faults have happened

storeVars == <<queued, through, up, pub>>
brokerVars == <<stream, done, waiting>>
cloudVars == <<cursor, cloud, handed>>
vars == <<storeVars, posts, brokerVars, cloudVars, faults>>

Idle == [phase |-> "idle", from |-> 0, to |-> 0, accepted |-> 0]
NoBatch == [phase |-> "idle", batch |-> {}]
Smaller(a, b) == IF a < b THEN a ELSE b
Fault == faults < MaxFaults /\ faults' = faults + 1

-----------------------------------------------------------------------------
\* The store: its log, and the publisher's loop.

\* The log commits an event and queues it (EventLog).
Commit(s) ==
  /\ queued[s] < MaxEvents
  /\ queued' = [queued EXCEPT ![s] = @ + 1]
  /\ UNCHANGED <<through, up, pub, posts, brokerVars, cloudVars, faults>>

\* `handshake` accepted; it is tried until it is.
Handshake(s) ==
  /\ ~up[s]
  /\ up' = [up EXCEPT ![s] = TRUE]
  /\ UNCHANGED <<queued, through, pub, posts, brokerVars, cloudVars, faults>>

\* Mutant: a batch taken to be full.
ReadBatchFull(s) ==
  /\ up[s] /\ pub[s].phase = "idle" /\ queued[s] > through[s]
  /\ pub' = [pub EXCEPT ![s] = [phase |-> "read", from |-> through[s],
                                to |-> Smaller(MaxEvents, through[s] + BatchSize),
                                accepted |-> 0]]
  /\ UNCHANGED <<queued, through, up, posts, brokerVars, cloudVars, faults>>

\* `drain_once` reads a batch from the start of the outbox.
ReadBatch(s) ==
  /\ up[s] /\ pub[s].phase = "idle" /\ queued[s] > through[s]
  /\ pub' = [pub EXCEPT ![s] = [phase |-> "read", from |-> through[s],
                                to |-> Smaller(queued[s], through[s] + BatchSize),
                                accepted |-> 0]]
  /\ UNCHANGED <<queued, through, up, posts, brokerVars, cloudVars, faults>>

\* `publish` over NATS asks for the capacity of the stream, and gives up on a
\* full one. The other stores go on publishing after it has asked.
CheckCapacity(s) ==
  /\ s \in NatsStores /\ pub[s].phase = "read"
  /\ pub' = [pub EXCEPT ![s] = IF Len(stream) >= StreamLimit THEN Idle
                               ELSE [@ EXCEPT !.phase = "sending"]]
  /\ UNCHANGED <<queued, through, up, posts, brokerVars, cloudVars, faults>>

\* The event the loop of `publish` is at.
Current(s) == <<s, pub[s].from + pub[s].accepted + 1>>
LastOfBatch(s) == pub[s].from + pub[s].accepted + 1 = pub[s].to

\* The stream takes the event and its acknowledgement arrives.
SendAcked(s) ==
  /\ pub[s].phase = "sending"
  /\ Len(stream) < StreamLimit
  /\ stream' = Append(stream, Current(s))
  /\ pub' = [pub EXCEPT ![s].accepted = @ + 1,
                        ![s].phase = IF LastOfBatch(s) THEN "answered" ELSE "sending"]
  /\ UNCHANGED <<queued, through, up, posts, done, waiting, cloudVars, faults>>

\* The stream takes the event, and its acknowledgement is lost: the loop stops
\* with the prefix before it.
SendAckLost(s) ==
  /\ pub[s].phase = "sending"
  /\ Len(stream) < StreamLimit
  /\ Fault
  /\ stream' = Append(stream, Current(s))
  /\ pub' = [pub EXCEPT ![s].phase = "answered"]
  /\ UNCHANGED <<queued, through, up, posts, done, waiting, cloudVars>>

\* The stream is full by now (`discard: new`), or the publish never got there.
SendRefused(s) ==
  /\ pub[s].phase = "sending"
  /\ \/ Len(stream) >= StreamLimit /\ UNCHANGED faults
     \/ Fault
  /\ pub' = [pub EXCEPT ![s].phase = "answered"]
  /\ UNCHANGED <<queued, through, up, posts, brokerVars, cloudVars>>

\* Mutant: the whole batch is acknowledged, whatever was accepted of it.
AcknowledgeBatch(s) ==
  /\ pub[s].phase = "answered"
  /\ \/ through' = [through EXCEPT ![s] = pub[s].to] /\ UNCHANGED faults
     \/ Fault /\ UNCHANGED through
  /\ pub' = [pub EXCEPT ![s] = Idle]
  /\ UNCHANGED <<queued, up, posts, brokerVars, cloudVars>>

\* `drain_once` acknowledges the accepted prefix; nothing accepted, or a failed
\* acknowledgement, leaves the outbox as it is.
AcknowledgePrefix(s) ==
  /\ pub[s].phase = "answered"
  /\ \/ /\ through' = [through EXCEPT ![s] = pub[s].from + pub[s].accepted]
        /\ UNCHANGED faults
     \/ Fault /\ UNCHANGED through
  /\ pub' = [pub EXCEPT ![s] = Idle]
  /\ UNCHANGED <<queued, up, posts, brokerVars, cloudVars>>

\* The store's process stops and starts again, wherever the publisher was. A
\* request it had sent may still arrive.
Restart(s) ==
  /\ Fault
  /\ pub' = [pub EXCEPT ![s] = Idle]
  /\ up' = [up EXCEPT ![s] = FALSE]
  /\ posts' = {[p EXCEPT !.waited = @ /\ p.store # s] : p \in posts}
  /\ UNCHANGED <<queued, through, brokerVars, cloudVars>>

-----------------------------------------------------------------------------
\* HTTPS: one request carries a prefix of the batch.

\* `framed_prefix` stops where the body would grow too large.
Post(s) ==
  /\ s \in HttpStores /\ pub[s].phase = "read"
  /\ \E sent \in (pub[s].from + 1) .. pub[s].to :
       posts' = posts \cup {[store |-> s, from |-> pub[s].from, to |-> sent, waited |-> TRUE]}
  /\ pub' = [pub EXCEPT ![s].phase = "posting"]
  /\ UNCHANGED <<queued, through, up, brokerVars, cloudVars, faults>>

\* Mutant: the publisher goes on waiting for an answer that does not come.
GiveUpStuck(s) ==
  /\ pub[s].phase = "posting"
  /\ Fault
  /\ \/ posts' = {[p EXCEPT !.waited = @ /\ p.store # s] : p \in posts}
     \/ posts' = {p \in posts : ~(p.store = s /\ p.waited)}
  /\ UNCHANGED <<storeVars, brokerVars, cloudVars>>

\* The call fails or times out: the outbox holds. The cloud may not have seen
\* the request, or may still serve it.
GiveUp(s) ==
  /\ pub[s].phase = "posting"
  /\ Fault
  /\ \/ posts' = {[p EXCEPT !.waited = @ /\ p.store # s] : p \in posts}
     \/ posts' = {p \in posts : ~(p.store = s /\ p.waited)}
  /\ pub' = [pub EXCEPT ![s] = Idle]
  /\ UNCHANGED <<queued, through, up, brokerVars, cloudVars>>

-----------------------------------------------------------------------------
\* The cloud.

\* Mutant: a row in event_outbox for a duplicate too.
IngestAgain(E) ==
  /\ cloud' = cloud \cup E
  /\ handed' = [e \in Events |-> IF e \in E THEN handed[e] + 1 ELSE handed[e]]

\* `append` of store-postgres: a row that conflicts is skipped, and only one
\* that was inserted gets a row in event_outbox.
Ingest(E) ==
  /\ cloud' = cloud \cup E
  /\ handed' = [e \in Events |-> IF e \in E \ cloud THEN handed[e] + 1 ELSE handed[e]]

Posted(p) == {<<p.store, n>> : n \in (p.from + 1) .. p.to}

\* `edge_publish_events`: ingest, then answer with the whole batch.
Serve(p) ==
  /\ Ingest(Posted(p))
  /\ posts' = posts \ {p}
  /\ pub' = IF p.waited
            THEN [pub EXCEPT ![p.store].phase = "answered",
                             ![p.store].accepted = p.to - p.from]
            ELSE pub
  /\ UNCHANGED <<queued, through, up, brokerVars, cursor, faults>>

\* `pull`: the first messages the broker has to deliver, in the stream's order.
Pull ==
  LET free == DOMAIN stream \ (done \cup waiting)
      size == Smaller(Cardinality(free), CursorBatch)
  IN  /\ cursor.phase = "idle" /\ free # {}
      /\ \E B \in SUBSET free :
           /\ Cardinality(B) = size
           /\ \A i \in B, j \in free \ B : i < j
           /\ cursor' = [phase |-> "pulled", batch |-> B]
           /\ waiting' = waiting \cup B
      /\ UNCHANGED <<storeVars, posts, stream, done, cloud, handed, faults>>

Pulled == {stream[i] : i \in cursor.batch}

\* `append` refuses a batch that names two stores.
OneStore(E) == \A e, f \in E : e[1] = f[1]

\* `Cloud::ingest` commits the batch.
CursorIngest ==
  /\ cursor.phase = "pulled"
  /\ OneStore(Pulled)
  /\ Ingest(Pulled)
  /\ cursor' = [cursor EXCEPT !.phase = "stored"]
  /\ UNCHANGED <<storeVars, posts, brokerVars, faults>>

\* Mutant: a batch that fails is dropped, so that it cannot block the cursor.
CursorDrops ==
  /\ cursor.phase = "pulled"
  /\ \/ ~OneStore(Pulled) /\ UNCHANGED faults
     \/ Fault
  /\ waiting' = waiting \ cursor.batch
  /\ done' = done \cup cursor.batch
  /\ cursor' = NoBatch
  /\ UNCHANGED <<storeVars, posts, stream, cloud, handed>>

\* It fails, and `decide` returns the batch.
CursorRefused ==
  /\ cursor.phase = "pulled"
  /\ \/ ~OneStore(Pulled) /\ UNCHANGED faults
     \/ Fault
  /\ waiting' = waiting \ cursor.batch
  /\ cursor' = NoBatch
  /\ UNCHANGED <<storeVars, posts, stream, done, cloud, handed>>

\* Mutant: the position after the message.
CursorAckNext(i) ==
  /\ cursor.phase = "stored"
  /\ i \in cursor.batch /\ \A j \in cursor.batch : i <= j
  /\ done' = done \cup {i + 1}
  /\ waiting' = waiting \ {i}
  /\ cursor' = IF cursor.batch = {i} THEN NoBatch ELSE [cursor EXCEPT !.batch = @ \ {i}]
  /\ UNCHANGED <<storeVars, posts, stream, cloud, handed, faults>>

\* `ConsumedBatch::ack`, one message after another.
CursorAck(i) ==
  /\ cursor.phase = "stored"
  /\ i \in cursor.batch /\ \A j \in cursor.batch : i <= j
  /\ done' = done \cup {i}
  /\ waiting' = waiting \ {i}
  /\ cursor' = IF cursor.batch = {i} THEN NoBatch ELSE [cursor EXCEPT !.batch = @ \ {i}]
  /\ UNCHANGED <<storeVars, posts, stream, cloud, handed, faults>>

\* The broker cannot be reached or the cloud restarts: what the cursor held is
\* delivered again once the broker has waited for it.
CursorLost ==
  /\ cursor.phase # "idle"
  /\ Fault
  /\ cursor' = NoBatch
  /\ UNCHANGED <<storeVars, posts, brokerVars, cloud, handed>>

\* The broker's acknowledgement wait runs out.
AckWait ==
  /\ cursor.phase = "idle" /\ waiting # {}
  /\ waiting' = {}
  /\ UNCHANGED <<storeVars, posts, stream, done, cloudVars, faults>>

-----------------------------------------------------------------------------
Init ==
  /\ queued = [s \in Stores |-> 0] /\ through = [s \in Stores |-> 0]
  /\ up = [s \in Stores |-> FALSE] /\ pub = [s \in Stores |-> Idle]
  /\ posts = {}
  /\ stream = <<>> /\ done = {} /\ waiting = {}
  /\ cursor = NoBatch
  /\ cloud = {} /\ handed = [e \in Events |-> 0]
  /\ faults = 0

Publisher(s) ==
  \/ Handshake(s) \/ ReadBatch(s) \/ CheckCapacity(s)
  \/ SendAcked(s) \/ SendAckLost(s) \/ SendRefused(s)
  \/ Post(s) \/ GiveUp(s) \/ AcknowledgePrefix(s)

Cursor ==
  \/ Pull \/ CursorIngest \/ CursorRefused
  \/ \E i \in cursor.batch : CursorAck(i)

Next ==
  \/ \E s \in Stores : Commit(s) \/ Publisher(s) \/ Restart(s)
  \/ \E p \in posts : Serve(p)
  \/ Cursor \/ CursorLost \/ AckWait

Spec == Init /\ [][Next]_vars

\* Both loops run for as long as their process does and only sleep for bounded
\* times, a request the cloud has is served, and the broker's wait ends.
FairSpec ==
  /\ Spec
  /\ \A s \in Stores : WF_vars(Publisher(s))
  /\ WF_vars(\E p \in posts : Serve(p))
  /\ WF_vars(Cursor) /\ WF_vars(AckWait)

-----------------------------------------------------------------------------
\* Every variable keeps its shape.
TypeOK ==
  /\ queued \in [Stores -> 0 .. MaxEvents] /\ through \in [Stores -> 0 .. MaxEvents]
  /\ up \in [Stores -> BOOLEAN]
  /\ pub \in [Stores -> [phase : {"idle", "read", "sending", "posting", "answered"},
                         from : 0 .. MaxEvents, to : 0 .. MaxEvents, accepted : 0 .. MaxEvents]]
  /\ posts \subseteq [store : HttpStores, from : 0 .. MaxEvents, to : 0 .. MaxEvents,
                      waited : BOOLEAN]
  /\ stream \in Seq(Events)
  /\ done \subseteq DOMAIN stream /\ waiting \subseteq DOMAIN stream
  /\ cursor \in [phase : {"idle", "pulled", "stored"}, batch : SUBSET DOMAIN stream]
  /\ cloud \subseteq Events /\ handed \in [Events -> Nat]
  /\ faults \in 0 .. MaxFaults

\* No event falls between two places: what a store committed is in its outbox,
\* on the stream and not acknowledged there, or in the cloud (drain_once, pump).
NothingFallsBetween ==
  \A s \in Stores : \A n \in 1 .. queued[s] :
    \/ n > through[s]
    \/ \E i \in DOMAIN stream \ done : stream[i] = <<s, n>>
    \/ <<s, n>> \in cloud

\* "Nothing is acknowledged before it is stored" (link-nats/src/consumer.rs).
AcknowledgedIsStored == \A i \in done : stream[i] \in cloud

\* An event is handed to the cloud's readers once, however often it is sent
\* again or delivered again (store-postgres append).
HandedOnce == \A e \in Events : handed[e] = IF e \in cloud THEN 1 ELSE 0

\* Delivery implements its promise: only committed events, each handed on once.
Promise == INSTANCE ExactlyOnce
             WITH committed <- {e \in Events : e[2] <= queued[e[1]]}
ImplementsExactlyOnce == Promise!Spec

\* A publisher uses its outbox as the outbox promises to be used: it never
\* acknowledges what was not queued, and never takes an acknowledgement back.
StoreOutbox(s) == INSTANCE Outbox WITH queued <- queued[s], through <- through[s]
UsesOutbox ==
  [][\A s \in Stores : \/ StoreOutbox(s)!Queue \/ StoreOutbox(s)!AcknowledgeThrough
                       \/ UNCHANGED <<queued[s], through[s]>>]_vars

\* Every committed event reaches the cloud once the faults are over.
EveryEventLands ==
  \A e \in Events : (e[2] <= queued[e[1]]) ~> (e \in cloud)
=============================================================================
