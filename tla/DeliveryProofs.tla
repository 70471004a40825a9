--------------------------- MODULE DeliveryProofs ---------------------------
(***************************************************************************)
(* For every set of stores, every batch size, stream limit and number of   *)
(* faults: what Delivery's runs check of two stores.                       *)
(*                                                                         *)
(* The invariant follows one event: it is safe when the stream holds it    *)
(* unacknowledged or the cloud has stored it, no step makes a safe event   *)
(* unsafe (SafeStays), and a publisher counts an event as accepted only    *)
(* when it is safe.                                                        *)
(***************************************************************************)
EXTENDS Delivery, TLAPS

SafeOn(q, d, c) == {e \in Events : \/ \E i \in DOMAIN q \ d : q[i] = e
                                   \/ e \in c}
Safe == SafeOn(stream, done, cloud)
Known == {e \in Events : e[2] <= queued[e[1]]}

\* A publisher q of store s, whose outbox was given n positions and let go of t.
PubFine(s, q, t, n, S) ==
  /\ t <= n
  /\ \A k \in 1 .. t : <<s, k>> \in S
  /\ q.phase # "idle" => /\ q.from = t /\ q.to <= n
                         /\ q.from + q.accepted <= q.to
                         /\ \A k \in 1 .. (q.from + q.accepted) : <<s, k>> \in S
  /\ q.phase \in {"read", "sending"} => q.from + q.accepted < q.to

\* A request: what it carries was queued, and a publisher that waits for it
\* sent it for the batch it holds.
PostFine(p, q, n) ==
  /\ p.from <= p.to /\ p.to <= n
  /\ p.waited => q.phase = "posting" /\ p.from = q.from /\ p.to <= q.to

PubsOK == \A s \in Stores : PubFine(s, pub[s], through[s], queued[s], Safe)
PostsOK ==
  /\ \A p \in posts : PostFine(p, pub[p.store], queued[p.store])
  /\ \A p, r \in posts : p.waited /\ r.waited /\ p.store = r.store => p = r
KnownOK == /\ \A i \in DOMAIN stream : stream[i] \in Known
           /\ cloud \subseteq Known
CursorOK == cursor.phase = "stored" => \A i \in cursor.batch : stream[i] \in cloud

IndInv == TypeOK /\ PubsOK /\ PostsOK /\ KnownOK /\ CursorOK
          /\ AcknowledgedIsStored /\ HandedOnce

PubType == [phase : {"idle", "read", "sending", "posting", "answered"},
            from : 0 .. MaxEvents, to : 0 .. MaxEvents, accepted : 0 .. MaxEvents]

-----------------------------------------------------------------------------
\* What appending an event does to a stream.
LEMMA AppendProps ==
  ASSUME NEW S, NEW q \in Seq(S), NEW e \in S
  PROVE  /\ Append(q, e) \in Seq(S)
         /\ DOMAIN q \subseteq DOMAIN Append(q, e)
         /\ \A i \in DOMAIN q : Append(q, e)[i] = q[i]
         /\ Len(q) + 1 \in DOMAIN Append(q, e) /\ Len(q) + 1 \notin DOMAIN q
         /\ Append(q, e)[Len(q) + 1] = e
         /\ \A i \in DOMAIN Append(q, e) : i \in DOMAIN q \/ i = Len(q) + 1
<1>1. Append(q, e) \in Seq(S) /\ Len(Append(q, e)) = Len(q) + 1 /\ Len(q) \in Nat
  OBVIOUS
<1>2. DOMAIN q = 1 .. Len(q) /\ DOMAIN Append(q, e) = 1 .. (Len(q) + 1)
  BY <1>1
<1>3. \A i \in 1 .. Len(q) : Append(q, e)[i] = q[i]
  OBVIOUS
<1>4. Append(q, e)[Len(q) + 1] = e
  OBVIOUS
<1> QED BY <1>1, <1>2, <1>3, <1>4

\* A publisher stays fine as more is queued and more is safe.
LEMMA PubMono ==
  ASSUME NEW s, NEW q, NEW t \in Nat, NEW n \in Nat, NEW m \in Nat, NEW S, NEW R,
         PubFine(s, q, t, n, S), n <= m, S \subseteq R, q.to \in Nat
  PROVE  PubFine(s, q, t, m, R)
<1>1. t <= m
  BY DEF PubFine
<1>2. \A k \in 1 .. t : <<s, k>> \in R
  BY DEF PubFine
<1>3. ASSUME q.phase # "idle"
      PROVE  /\ q.from = t /\ q.to <= m
             /\ q.from + q.accepted <= q.to
             /\ \A k \in 1 .. (q.from + q.accepted) : <<s, k>> \in R
  BY <1>3 DEF PubFine
<1>4. q.phase \in {"read", "sending"} => q.from + q.accepted < q.to
  BY DEF PubFine
<1> QED BY <1>1, <1>2, <1>3, <1>4 DEF PubFine

\* A stream that grows keeps safe what was, and makes the new event safe.
LEMMA AppendSafe ==
  ASSUME NEW q \in Seq(Events), NEW d \in SUBSET DOMAIN q, NEW c, NEW e \in Events
  PROVE  SafeOn(q, d, c) \cup {e} \subseteq SafeOn(Append(q, e), d, c)
<1>1. \A i \in DOMAIN q : i \in DOMAIN Append(q, e) /\ Append(q, e)[i] = q[i]
  BY AppendProps
<1>2. /\ Len(q) + 1 \in DOMAIN Append(q, e) \ d
      /\ Append(q, e)[Len(q) + 1] = e
  BY AppendProps
<1> QED BY <1>1, <1>2 DEF SafeOn

\* So does a cloud that stores.
LEMMA StoreSafe ==
  ASSUME NEW q, NEW d, NEW c, NEW E \in SUBSET Events
  PROVE  SafeOn(q, d, c) \cup E \subseteq SafeOn(q, d, c \cup E)
BY DEF SafeOn

-----------------------------------------------------------------------------
\* No event exists yet.
LEMMA InitInd == Init => IndInv
<1> SUFFICES ASSUME Init PROVE IndInv
  OBVIOUS
<1> USE DeliveryAssumption
<1>1. TypeOK
  <2>1. stream \in Seq(Events) /\ DOMAIN stream = {}
    BY DEF Init
  <2>2. cursor \in [phase : {"idle", "pulled", "stored"}, batch : SUBSET DOMAIN stream]
    BY <2>1 DEF Init, NoBatch
  <2>3. pub \in [Stores -> PubType]
    BY DEF Init, Idle, PubType
  <2> QED BY <2>1, <2>2, <2>3 DEF Init, TypeOK, PubType
<1>2. PubsOK
  BY DEF Init, PubsOK, PubFine, Idle
<1>3. PostsOK /\ CursorOK /\ AcknowledgedIsStored
  BY DEF Init, PostsOK, CursorOK, NoBatch, AcknowledgedIsStored
<1>4. KnownOK
  <2>1. DOMAIN stream = {} /\ cloud = {}
    BY DEF Init
  <2> QED BY <2>1 DEF KnownOK
<1>5. HandedOnce
  BY DEF Init, HandedOnce
<1> QED BY <1>1, <1>2, <1>3, <1>4, <1>5 DEF IndInv

\* A step that leaves the stream, the cloud and the outbox's end alone.
LEMMA Frame ==
  ASSUME IndInv, UNCHANGED <<stream, done, cloud, handed, queued>>
  PROVE  Safe' = Safe /\ KnownOK' /\ AcknowledgedIsStored' /\ HandedOnce'
<1>1. Safe' = Safe /\ Known' = Known
  BY DEF Safe, Known
<1>2. KnownOK'
  BY <1>1 DEF IndInv, KnownOK
<1>3. AcknowledgedIsStored'
  BY DEF IndInv, AcknowledgedIsStored
<1>4. HandedOnce'
  BY DEF IndInv, HandedOnce
<1> QED BY <1>1, <1>2, <1>3, <1>4

\* One publisher moves to q and lets its outbox go up to t; the others stay.
LEMMA PubStep ==
  ASSUME IndInv, NEW s \in Stores, NEW q \in PubType, NEW t \in 0 .. MaxEvents,
         pub' = [pub EXCEPT ![s] = q], through' = [through EXCEPT ![s] = t],
         queued' = queued, Safe \subseteq Safe',
         PubFine(s, q, t, queued[s], Safe')
  PROVE  /\ pub' \in [Stores -> PubType] /\ through' \in [Stores -> 0 .. MaxEvents]
         /\ PubsOK'
<1>1. pub \in [Stores -> PubType] /\ through \in [Stores -> 0 .. MaxEvents]
      /\ queued \in [Stores -> 0 .. MaxEvents]
  BY DEF IndInv, TypeOK, PubType
<1>2. pub' \in [Stores -> PubType] /\ through' \in [Stores -> 0 .. MaxEvents]
  BY <1>1
<1>3. ASSUME NEW r \in Stores
      PROVE  PubFine(r, pub'[r], through'[r], queued'[r], Safe')
  <2>1. CASE r = s
    BY <1>1, <2>1
  <2>2. CASE r # s
    <3>1. pub'[r] = pub[r] /\ through'[r] = through[r] /\ queued'[r] = queued[r]
      BY <1>1, <2>2
    <3>2. PubFine(r, pub[r], through[r], queued[r], Safe)
      BY DEF IndInv, PubsOK
    <3>3. through[r] \in Nat /\ queued[r] \in Nat /\ pub[r].to \in Nat
      BY <1>1, DeliveryAssumption DEF PubType
    <3>4. PubFine(r, pub[r], through[r], queued[r], Safe')
      BY <3>2, <3>3, PubMono
    <3> QED BY <3>1, <3>4
  <2> QED BY <2>1, <2>2
<1> QED BY <1>2, <1>3 DEF PubsOK

\* A request stays fine while its store's publisher does not wait for one.
LEMMA PostsKeep ==
  ASSUME IndInv, NEW s \in Stores, NEW q, pub[s].phase # "posting",
         pub' = [pub EXCEPT ![s] = q], UNCHANGED <<posts, queued>>
  PROVE  PostsOK'
<1>1. ASSUME NEW p \in posts PROVE PostFine(p, pub'[p.store], queued[p.store])
  <2>1. PostFine(p, pub[p.store], queued[p.store])
    BY DEF IndInv, PostsOK
  <2>2. CASE p.store = s
    BY <2>1, <2>2 DEF PostFine
  <2>3. CASE p.store # s
    <3>1. p.store \in Stores
      BY DEF IndInv, TypeOK, Stores
    <3>2. pub'[p.store] = pub[p.store]
      BY <2>3, <3>1 DEF IndInv, TypeOK
    <3> QED BY <2>1, <3>2
  <2> QED BY <2>2, <2>3
<1> QED BY <1>1 DEF IndInv, PostsOK

\* A step of a publisher that touches neither the stream nor a request.
LEMMA PubLocal ==
  ASSUME IndInv, NEW s \in Stores, NEW q \in PubType, NEW t \in 0 .. MaxEvents,
         pub[s].phase # "posting",
         pub' = [pub EXCEPT ![s] = q], through' = [through EXCEPT ![s] = t],
         PubFine(s, q, t, queued[s], Safe),
         up' \in [Stores -> BOOLEAN], faults' \in 0 .. MaxFaults,
         UNCHANGED <<queued, posts, brokerVars, cloudVars>>
  PROVE  IndInv'
<1>1. UNCHANGED <<queued, posts, stream, done, waiting, cursor, cloud, handed>>
  BY DEF brokerVars, cloudVars
<1>2. Safe' = Safe /\ KnownOK' /\ AcknowledgedIsStored' /\ HandedOnce'
  BY <1>1, Frame
<1>3. /\ pub' \in [Stores -> PubType] /\ through' \in [Stores -> 0 .. MaxEvents]
      /\ PubsOK'
  BY <1>1, <1>2, PubStep
<1>4. PostsOK'
  BY <1>1, PostsKeep
<1>5. CursorOK'
  BY <1>1 DEF IndInv, CursorOK
<1>6. TypeOK'
  BY <1>1, <1>3 DEF IndInv, TypeOK, PubType
<1> QED BY <1>2, <1>3, <1>4, <1>5, <1>6 DEF IndInv

\* The event at which the loop of `publish` is was queued.
LEMMA CurrentKnown ==
  ASSUME IndInv, NEW s \in Stores, pub[s].phase = "sending"
  PROVE  /\ Current(s) \in Events /\ Current(s) \in Known
         /\ pub[s].from + pub[s].accepted + 1 <= pub[s].to
<1>1. pub[s] \in PubType /\ queued[s] \in 0 .. MaxEvents
  BY DEF IndInv, TypeOK, PubType
<1>2. PubFine(s, pub[s], through[s], queued[s], Safe)
  BY DEF IndInv, PubsOK
<1>3. pub[s].from + pub[s].accepted < pub[s].to /\ pub[s].to <= queued[s]
  BY <1>2 DEF PubFine
<1>4. /\ pub[s].from + pub[s].accepted + 1 \in 1 .. MaxEvents
      /\ pub[s].from + pub[s].accepted + 1 <= pub[s].to
      /\ pub[s].from + pub[s].accepted + 1 <= queued[s]
  BY <1>1, <1>3, DeliveryAssumption DEF PubType
<1>5. Current(s) \in Events
  BY <1>4 DEF Current, Events
<1>6. Current(s)[1] = s /\ Current(s)[2] = pub[s].from + pub[s].accepted + 1
  BY DEF Current
<1> QED BY <1>4, <1>5, <1>6 DEF Known

\* A step of a publisher that appends its event to the stream.
LEMMA PubSend ==
  ASSUME IndInv, NEW s \in Stores, NEW q \in PubType, pub[s].phase = "sending",
         pub' = [pub EXCEPT ![s] = q], stream' = Append(stream, Current(s)),
         PubFine(s, q, through[s], queued[s], Safe \cup {Current(s)}),
         faults' \in 0 .. MaxFaults,
         UNCHANGED <<queued, through, up, posts, done, waiting, cloudVars>>
  PROVE  IndInv'
<1>1. UNCHANGED <<queued, through, up, posts, done, waiting, cursor, cloud, handed>>
  BY DEF cloudVars
<1>2. Current(s) \in Events /\ Current(s) \in Known
  BY CurrentKnown
<1>3. stream \in Seq(Events) /\ done \in SUBSET DOMAIN stream
  BY DEF IndInv, TypeOK
<1>4. Safe \cup {Current(s)} \subseteq Safe'
  BY <1>1, <1>2, <1>3, AppendSafe DEF Safe
<1>5. /\ stream' \in Seq(Events) /\ DOMAIN stream \subseteq DOMAIN stream'
      /\ \A i \in DOMAIN stream : stream'[i] = stream[i]
      /\ \A i \in DOMAIN stream' : i \in DOMAIN stream \/ stream'[i] = Current(s)
  BY <1>2, <1>3, AppendProps
<1>6. through[s] \in 0 .. MaxEvents /\ queued[s] \in 0 .. MaxEvents
      /\ through' = [through EXCEPT ![s] = through[s]]
  BY <1>1 DEF IndInv, TypeOK
<1>7. PubFine(s, q, through[s], queued[s], Safe')
  BY <1>4, <1>6, PubMono, DeliveryAssumption DEF PubType
<1>8. pub' \in [Stores -> PubType] /\ PubsOK'
  BY <1>1, <1>4, <1>6, <1>7, PubStep
<1>9. PostsOK'
  BY <1>1, PostsKeep
<1>10. KnownOK'
  <2>1. Known' = Known
    BY <1>1 DEF Known
  <2> QED BY <1>1, <1>2, <1>5, <2>1 DEF IndInv, KnownOK
<1>11. CursorOK'
  BY <1>1, <1>5 DEF IndInv, CursorOK, TypeOK
<1>12. AcknowledgedIsStored'
  BY <1>1, <1>3, <1>5 DEF IndInv, AcknowledgedIsStored
<1>13. HandedOnce'
  BY <1>1 DEF IndInv, HandedOnce
<1>14. TypeOK'
  BY <1>1, <1>5, <1>8 DEF IndInv, TypeOK, PubType
<1> QED BY <1>8, <1>9, <1>10, <1>11, <1>12, <1>13, <1>14 DEF IndInv

-----------------------------------------------------------------------------
\* The steps of the store.

LEMMA CommitInd ==
  ASSUME IndInv, NEW s \in Stores, Commit(s)
  PROVE  IndInv'
<1>1. /\ queued[s] < MaxEvents /\ queued' = [queued EXCEPT ![s] = queued[s] + 1]
      /\ UNCHANGED <<through, up, pub, posts, stream, done, waiting, cursor, cloud,
                     handed, faults>>
  BY DEF Commit, brokerVars, cloudVars
<1>2. queued \in [Stores -> 0 .. MaxEvents] /\ through \in [Stores -> 0 .. MaxEvents]
      /\ pub \in [Stores -> PubType]
  BY DEF IndInv, TypeOK, PubType
<1>3. queued' \in [Stores -> 0 .. MaxEvents] /\ \A r \in Stores : queued[r] <= queued'[r]
  BY <1>1, <1>2, DeliveryAssumption
<1>4. TypeOK'
  BY <1>1, <1>3 DEF IndInv, TypeOK
<1>5. Safe' = Safe
  BY <1>1 DEF Safe
<1>6. PubsOK'
  <2> SUFFICES ASSUME NEW r \in Stores
               PROVE  PubFine(r, pub[r], through[r], queued'[r], Safe)
    BY <1>1, <1>5 DEF PubsOK
  <2>1. PubFine(r, pub[r], through[r], queued[r], Safe)
    BY DEF IndInv, PubsOK
  <2>2. through[r] \in Nat /\ queued[r] \in Nat /\ queued'[r] \in Nat /\ pub[r].to \in Nat
    BY <1>2, <1>3, DeliveryAssumption DEF PubType
  <2> QED BY <1>3, <2>1, <2>2, PubMono
<1>7. PostsOK'
  <2>1. ASSUME NEW p \in posts PROVE PostFine(p, pub[p.store], queued'[p.store])
    <3>1. PostFine(p, pub[p.store], queued[p.store])
      BY DEF IndInv, PostsOK
    <3>2. p.store \in Stores /\ p.to \in 0 .. MaxEvents
      BY DEF IndInv, TypeOK, Stores
    <3>3. queued[p.store] \in Nat /\ queued'[p.store] \in Nat /\ p.to \in Nat
      BY <1>2, <1>3, <3>2, DeliveryAssumption
    <3> QED BY <1>3, <3>1, <3>2, <3>3 DEF PostFine
  <2> QED BY <1>1, <2>1 DEF IndInv, PostsOK
<1>8. KnownOK'
  <2>1. Known \subseteq Known'
    <3> SUFFICES ASSUME NEW e \in Known PROVE e \in Known'
      OBVIOUS
    <3>1. e \in Events /\ e[1] \in Stores /\ e[2] \in Nat /\ e[2] <= queued[e[1]]
      BY DeliveryAssumption DEF Known, Events
    <3>2. queued[e[1]] \in Nat /\ queued'[e[1]] \in Nat
      BY <1>2, <1>3, <3>1, DeliveryAssumption
    <3> QED BY <1>3, <3>1, <3>2 DEF Known
  <2> QED BY <1>1, <2>1 DEF IndInv, KnownOK
<1>9. CursorOK' /\ AcknowledgedIsStored' /\ HandedOnce'
  BY <1>1 DEF IndInv, CursorOK, AcknowledgedIsStored, HandedOnce
<1> QED BY <1>4, <1>6, <1>7, <1>8, <1>9 DEF IndInv

\* Updates of a publisher's fields.
LEMMA SetPhase ==
  ASSUME NEW g \in PubType, NEW x
  PROVE  [g EXCEPT !.phase = x]
           = [phase |-> x, from |-> g.from, to |-> g.to, accepted |-> g.accepted]
BY DEF PubType

LEMMA SetAccepted ==
  ASSUME NEW g \in PubType, NEW x, NEW a
  PROVE  [[g EXCEPT !.accepted = a] EXCEPT !.phase = x]
           = [phase |-> x, from |-> g.from, to |-> g.to, accepted |-> a]
<1> DEFINE h == [g EXCEPT !.accepted = a]
<1>1. h = [phase |-> g.phase, from |-> g.from, to |-> g.to, accepted |-> a]
  BY DEF PubType
<1> HIDE DEF h
<1>2. [h EXCEPT !.phase = x]
        = [phase |-> x, from |-> g.from, to |-> g.to, accepted |-> a]
  BY <1>1
<1> QED BY <1>2 DEF h

LEMMA SetAnswered ==
  ASSUME NEW g \in PubType, NEW x, NEW a
  PROVE  [[g EXCEPT !.phase = x] EXCEPT !.accepted = a]
           = [phase |-> x, from |-> g.from, to |-> g.to, accepted |-> a]
<1> DEFINE h == [g EXCEPT !.phase = x]
<1>1. h = [phase |-> x, from |-> g.from, to |-> g.to, accepted |-> g.accepted]
  BY DEF PubType
<1> HIDE DEF h
<1>2. [h EXCEPT !.accepted = a]
        = [phase |-> x, from |-> g.from, to |-> g.to, accepted |-> a]
  BY <1>1
<1> QED BY <1>2 DEF h

\* What the invariant says of one publisher.
LEMMA OfPublisher ==
  ASSUME IndInv, NEW s \in Stores
  PROVE  /\ pub[s] \in PubType
         /\ pub[s] = [phase |-> pub[s].phase, from |-> pub[s].from, to |-> pub[s].to,
                      accepted |-> pub[s].accepted]
         /\ through[s] \in 0 .. MaxEvents /\ queued[s] \in 0 .. MaxEvents
         /\ through = [through EXCEPT ![s] = through[s]]
         /\ PubFine(s, pub[s], through[s], queued[s], Safe)
         /\ Idle \in PubType /\ PubFine(s, Idle, through[s], queued[s], Safe)
<1>1. /\ pub[s] \in PubType
      /\ through[s] \in 0 .. MaxEvents /\ queued[s] \in 0 .. MaxEvents
      /\ through = [through EXCEPT ![s] = through[s]]
  BY DEF IndInv, TypeOK, PubType
<1>2. PubFine(s, pub[s], through[s], queued[s], Safe)
  BY DEF IndInv, PubsOK
<1>3. Idle \in PubType
  BY DeliveryAssumption DEF Idle, PubType
<1>4. PubFine(s, Idle, through[s], queued[s], Safe)
  BY <1>2 DEF PubFine, Idle
<1>5. pub[s] = [phase |-> pub[s].phase, from |-> pub[s].from, to |-> pub[s].to,
                accepted |-> pub[s].accepted]
  BY <1>1 DEF PubType
<1> QED BY <1>1, <1>2, <1>3, <1>4, <1>5

LEMMA HandshakeInd ==
  ASSUME IndInv, NEW s \in Stores, Handshake(s)
  PROVE  IndInv'
<1>1. /\ up' = [up EXCEPT ![s] = TRUE]
      /\ UNCHANGED <<queued, through, pub, posts, stream, done, waiting, cursor, cloud,
                     handed, faults>>
  BY DEF Handshake, brokerVars, cloudVars
<1>2. Safe' = Safe /\ KnownOK' /\ AcknowledgedIsStored' /\ HandedOnce'
  BY <1>1, Frame
<1>3. TypeOK'
  BY <1>1 DEF IndInv, TypeOK
<1>4. PubsOK' /\ PostsOK' /\ CursorOK'
  BY <1>1, <1>2 DEF IndInv, PubsOK, PostsOK, CursorOK
<1> QED BY <1>2, <1>3, <1>4 DEF IndInv

LEMMA ReadBatchInd ==
  ASSUME IndInv, NEW s \in Stores, ReadBatch(s)
  PROVE  IndInv'
<1> DEFINE q == [phase |-> "read", from |-> through[s],
                 to |-> Smaller(queued[s], through[s] + BatchSize), accepted |-> 0]
<1>1. /\ pub[s].phase = "idle" /\ queued[s] > through[s]
      /\ pub' = [pub EXCEPT ![s] = q]
      /\ UNCHANGED <<queued, through, up, posts, brokerVars, cloudVars, faults>>
  BY DEF ReadBatch
<1>2. /\ through[s] \in 0 .. MaxEvents /\ queued[s] \in 0 .. MaxEvents
      /\ through = [through EXCEPT ![s] = through[s]]
      /\ PubFine(s, pub[s], through[s], queued[s], Safe)
  BY OfPublisher
<1>3. /\ q.to \in 0 .. MaxEvents /\ q.to > through[s] /\ q.to <= queued[s]
  BY <1>1, <1>2, DeliveryAssumption DEF Smaller
<1>4. q \in PubType
  BY <1>2, <1>3, DeliveryAssumption DEF PubType
<1>5. PubFine(s, q, through[s], queued[s], Safe)
  <2>1. q.from + q.accepted = through[s]
    BY <1>2
  <2> HIDE DEF q
  <2>2. q.from = through[s] /\ q.phase = "read"
    BY DEF q
  <2> QED BY <1>2, <1>3, <2>1, <2>2 DEF PubFine
<1>6. up' \in [Stores -> BOOLEAN] /\ faults' \in 0 .. MaxFaults
  BY <1>1 DEF IndInv, TypeOK
<1> HIDE DEF q
<1> QED BY <1>1, <1>2, <1>4, <1>5, <1>6, PubLocal

LEMMA CheckCapacityInd ==
  ASSUME IndInv, NEW s \in Stores, CheckCapacity(s)
  PROVE  IndInv'
<1>1. /\ pub[s].phase = "read"
      /\ UNCHANGED <<queued, through, up, posts, brokerVars, cloudVars, faults>>
      /\ pub' = [pub EXCEPT ![s] = IF Len(stream) >= StreamLimit THEN Idle
                                   ELSE [pub[s] EXCEPT !.phase = "sending"]]
  BY DEF CheckCapacity
<1>2. /\ pub[s] \in PubType /\ Idle \in PubType
      /\ through[s] \in 0 .. MaxEvents
      /\ through = [through EXCEPT ![s] = through[s]]
      /\ PubFine(s, pub[s], through[s], queued[s], Safe)
      /\ PubFine(s, Idle, through[s], queued[s], Safe)
  BY OfPublisher
<1>3. up' \in [Stores -> BOOLEAN] /\ faults' \in 0 .. MaxFaults
  BY <1>1 DEF IndInv, TypeOK
<1>4. CASE pub' = [pub EXCEPT ![s] = Idle]
  BY <1>1, <1>2, <1>3, <1>4, PubLocal
<1>5. CASE pub' = [pub EXCEPT ![s] = [pub[s] EXCEPT !.phase = "sending"]]
  <2> DEFINE q == [pub[s] EXCEPT !.phase = "sending"]
  <2>1. /\ q \in PubType /\ q.phase = "sending" /\ q.from = pub[s].from
        /\ q.to = pub[s].to /\ q.accepted = pub[s].accepted
    BY <1>2 DEF PubType
  <2> HIDE DEF q
  <2>2. PubFine(s, q, through[s], queued[s], Safe)
    BY <1>1, <1>2, <2>1 DEF PubFine
  <2>3. pub' = [pub EXCEPT ![s] = q]
    BY <1>5 DEF q
  <2> QED BY <1>1, <1>2, <1>3, <2>1, <2>2, <2>3, PubLocal
<1> QED BY <1>1, <1>4, <1>5

LEMMA SendAckedInd ==
  ASSUME IndInv, NEW s \in Stores, SendAcked(s)
  PROVE  IndInv'
<1> DEFINE q == [phase |-> IF LastOfBatch(s) THEN "answered" ELSE "sending",
                 from |-> pub[s].from, to |-> pub[s].to, accepted |-> pub[s].accepted + 1]
<1>1. /\ pub[s].phase = "sending" /\ stream' = Append(stream, Current(s))
      /\ pub' = [pub EXCEPT ![s].accepted = pub[s].accepted + 1,
                            ![s].phase = IF LastOfBatch(s) THEN "answered" ELSE "sending"]
      /\ UNCHANGED <<queued, through, up, posts, done, waiting, cloudVars, faults>>
  BY DEF SendAcked
<1>2. /\ pub[s] \in PubType /\ through[s] \in 0 .. MaxEvents
      /\ PubFine(s, pub[s], through[s], queued[s], Safe)
      /\ queued[s] \in 0 .. MaxEvents
  BY OfPublisher
<1>3. pub[s].from + pub[s].accepted + 1 <= pub[s].to
  BY <1>1, CurrentKnown
<1>4. pub' = [pub EXCEPT ![s] = q]
  <2> DEFINE x == IF LastOfBatch(s) THEN "answered" ELSE "sending"
             a == pub[s].accepted + 1
  <2>1. pub' = [pub EXCEPT ![s].accepted = a, ![s].phase = x]
    BY <1>1
  <2>2. q = [phase |-> x, from |-> pub[s].from, to |-> pub[s].to, accepted |-> a]
    OBVIOUS
  <2> HIDE DEF x, a, q
  <2>3. pub' = [pub EXCEPT ![s] = [[pub[s] EXCEPT !.accepted = a] EXCEPT !.phase = x]]
    BY <2>1
  <2>4. [[pub[s] EXCEPT !.accepted = a] EXCEPT !.phase = x] = q
    BY <1>2, <2>2, SetAccepted
  <2> QED BY <2>3, <2>4
<1>5. q \in PubType
  BY <1>2, <1>3, DeliveryAssumption DEF PubType
<1>6. PubFine(s, q, through[s], queued[s], Safe \cup {Current(s)})
  <2>1. /\ q.from = pub[s].from /\ q.to = pub[s].to
        /\ q.from + q.accepted = pub[s].from + pub[s].accepted + 1
        /\ q.phase = IF LastOfBatch(s) THEN "answered" ELSE "sending"
    BY <1>2 DEF PubType
  <2> HIDE DEF q
  <2>2. \A k \in 1 .. (q.from + q.accepted) : <<s, k>> \in Safe \cup {Current(s)}
    <3> SUFFICES ASSUME NEW k \in 1 .. (pub[s].from + pub[s].accepted + 1)
                 PROVE  <<s, k>> \in Safe \cup {Current(s)}
      BY <2>1
    <3>1. CASE k = pub[s].from + pub[s].accepted + 1
      BY <3>1 DEF Current
    <3>2. CASE k \in 1 .. (pub[s].from + pub[s].accepted)
      BY <1>1, <1>2, <3>2 DEF PubFine
    <3> QED BY <1>2, <3>1, <3>2, DeliveryAssumption DEF PubType
  <2>3. q.phase = "sending" => q.from + q.accepted < q.to
    BY <1>2, <1>3, <2>1 DEF LastOfBatch, PubType
  <2>4. q.from = through[s] /\ q.to <= queued[s] /\ through[s] <= queued[s]
    BY <1>1, <1>2, <2>1 DEF PubFine
  <2>5. \A k \in 1 .. through[s] : <<s, k>> \in Safe \cup {Current(s)}
    BY <1>2 DEF PubFine
  <2>6. q.phase # "read" /\ q.from + q.accepted <= q.to
    BY <1>3, <2>1
  <2> QED BY <2>2, <2>3, <2>4, <2>5, <2>6 DEF PubFine
<1>7. faults' \in 0 .. MaxFaults
  BY <1>1 DEF IndInv, TypeOK
<1> HIDE DEF q
<1> QED BY <1>1, <1>4, <1>5, <1>6, <1>7, PubSend

\* A publisher that stops in the middle of its batch keeps what it counted.
Answered(s) == [phase |-> "answered", from |-> pub[s].from, to |-> pub[s].to,
                accepted |-> pub[s].accepted]

LEMMA AnsweredFine ==
  ASSUME IndInv, NEW s \in Stores, pub[s].phase = "sending"
  PROVE  /\ Answered(s) \in PubType
         /\ PubFine(s, Answered(s), through[s], queued[s], Safe)
         /\ PubFine(s, Answered(s), through[s], queued[s], Safe \cup {Current(s)})
         /\ [pub EXCEPT ![s].phase = "answered"] = [pub EXCEPT ![s] = Answered(s)]
<1>1. /\ pub[s] \in PubType /\ PubFine(s, pub[s], through[s], queued[s], Safe)
      /\ through[s] \in 0 .. MaxEvents /\ queued[s] \in 0 .. MaxEvents
  BY OfPublisher
<1>2. /\ Answered(s) \in PubType /\ Answered(s).phase = "answered"
      /\ Answered(s).from = pub[s].from /\ Answered(s).to = pub[s].to
      /\ Answered(s).accepted = pub[s].accepted
  BY <1>1 DEF PubType, Answered
<1>3. PubFine(s, Answered(s), through[s], queued[s], Safe)
  BY <1>1, <1>2 DEF PubFine
<1>4. Answered(s).to \in Nat
  BY <1>2, DeliveryAssumption DEF PubType
<1>5. PubFine(s, Answered(s), through[s], queued[s], Safe \cup {Current(s)})
  <2>1. through[s] \in Nat /\ queued[s] \in Nat /\ queued[s] <= queued[s]
    BY <1>1, DeliveryAssumption
  <2> QED BY <1>3, <1>4, <2>1, PubMono
<1>6. [pub EXCEPT ![s].phase = "answered"] = [pub EXCEPT ![s] = Answered(s)]
  <2>1. [pub EXCEPT ![s].phase = "answered"]
          = [pub EXCEPT ![s] = [pub[s] EXCEPT !.phase = "answered"]]
    OBVIOUS
  <2>2. [pub[s] EXCEPT !.phase = "answered"] = Answered(s)
    BY <1>1, SetPhase DEF Answered
  <2> QED BY <2>1, <2>2
<1> QED BY <1>2, <1>3, <1>5, <1>6

LEMMA SendAckLostInd ==
  ASSUME IndInv, NEW s \in Stores, SendAckLost(s)
  PROVE  IndInv'
<1>1. /\ pub[s].phase = "sending" /\ stream' = Append(stream, Current(s))
      /\ pub' = [pub EXCEPT ![s].phase = "answered"]
      /\ UNCHANGED <<queued, through, up, posts, done, waiting, cloudVars>>
  BY DEF SendAckLost
<1>2. faults' \in 0 .. MaxFaults
  BY DeliveryAssumption DEF SendAckLost, Fault, IndInv, TypeOK
<1>3. /\ Answered(s) \in PubType /\ pub' = [pub EXCEPT ![s] = Answered(s)]
      /\ PubFine(s, Answered(s), through[s], queued[s], Safe \cup {Current(s)})
  BY <1>1, AnsweredFine
<1> QED BY <1>1, <1>2, <1>3, PubSend

LEMMA SendRefusedInd ==
  ASSUME IndInv, NEW s \in Stores, SendRefused(s)
  PROVE  IndInv'
<1>1. /\ pub[s].phase = "sending"
      /\ pub' = [pub EXCEPT ![s].phase = "answered"]
      /\ UNCHANGED <<queued, through, up, posts, brokerVars, cloudVars>>
  BY DEF SendRefused
<1>2. faults' \in 0 .. MaxFaults /\ up' \in [Stores -> BOOLEAN]
  BY <1>1, DeliveryAssumption DEF SendRefused, Fault, IndInv, TypeOK
<1>3. /\ Answered(s) \in PubType /\ pub' = [pub EXCEPT ![s] = Answered(s)]
      /\ PubFine(s, Answered(s), through[s], queued[s], Safe)
  BY <1>1, AnsweredFine
<1>4. /\ through[s] \in 0 .. MaxEvents
      /\ through' = [through EXCEPT ![s] = through[s]]
  BY <1>1, OfPublisher
<1> QED BY <1>1, <1>2, <1>3, <1>4, PubLocal

LEMMA AcknowledgePrefixInd ==
  ASSUME IndInv, NEW s \in Stores, AcknowledgePrefix(s)
  PROVE  IndInv'
<1>1. /\ pub[s].phase = "answered" /\ pub' = [pub EXCEPT ![s] = Idle]
      /\ UNCHANGED <<queued, up, posts, brokerVars, cloudVars>>
  BY DEF AcknowledgePrefix
<1>2. faults' \in 0 .. MaxFaults /\ up' \in [Stores -> BOOLEAN]
  BY <1>1, DeliveryAssumption DEF AcknowledgePrefix, Fault, IndInv, TypeOK
<1>3. /\ pub[s] \in PubType /\ Idle \in PubType
      /\ through[s] \in 0 .. MaxEvents /\ queued[s] \in 0 .. MaxEvents
      /\ through = [through EXCEPT ![s] = through[s]]
      /\ PubFine(s, pub[s], through[s], queued[s], Safe)
      /\ PubFine(s, Idle, through[s], queued[s], Safe)
  BY OfPublisher
<1>4. CASE through' = through
  BY <1>1, <1>2, <1>3, <1>4, PubLocal
<1>5. CASE through' = [through EXCEPT ![s] = pub[s].from + pub[s].accepted]
  <2> DEFINE t == pub[s].from + pub[s].accepted
  <2>1. t <= queued[s] /\ t \in 0 .. MaxEvents /\ \A k \in 1 .. t : <<s, k>> \in Safe
    BY <1>1, <1>3, DeliveryAssumption DEF PubFine, PubType
  <2>2. through' = [through EXCEPT ![s] = t]
    BY <1>5
  <2> HIDE DEF t
  <2>3. PubFine(s, Idle, t, queued[s], Safe)
    BY <2>1 DEF PubFine, Idle
  <2> QED BY <1>1, <1>2, <1>3, <2>1, <2>2, <2>3, PubLocal
<1> QED BY <1>4, <1>5 DEF AcknowledgePrefix

-----------------------------------------------------------------------------
\* Requests.

PostType == [store : HttpStores, from : 0 .. MaxEvents, to : 0 .. MaxEvents,
             waited : BOOLEAN]

\* The publisher of s waits for none of what is left of the requests.
Dropped(s) ==
  \A r \in posts' : /\ r \in PostType
                    /\ \E p \in posts : /\ r.store = p.store /\ r.from = p.from /\ r.to = p.to
                                        /\ r.waited => p.waited /\ p.store # s

LEMMA PostsDropped ==
  ASSUME IndInv, NEW s \in Stores, NEW q, pub' = [pub EXCEPT ![s] = q],
         UNCHANGED queued, Dropped(s)
  PROVE  PostsOK' /\ posts' \subseteq PostType
<1>1. ASSUME NEW r \in posts' PROVE PostFine(r, pub'[r.store], queued[r.store])
  <2>1. PICK p \in posts : /\ r.store = p.store /\ r.from = p.from /\ r.to = p.to
                           /\ r.waited => p.waited /\ p.store # s
    BY DEF Dropped
  <2>2. PostFine(p, pub[p.store], queued[p.store]) /\ p.store \in Stores
    BY DEF IndInv, PostsOK, TypeOK, Stores
  <2>3. r.waited => pub'[p.store] = pub[p.store]
    BY <2>1, <2>2 DEF IndInv, TypeOK
  <2> QED BY <2>1, <2>2, <2>3 DEF PostFine
<1>2. ASSUME NEW r1 \in posts', NEW r2 \in posts', r1.waited, r2.waited,
             r1.store = r2.store
      PROVE  r1 = r2
  <2>1. PICK p1 \in posts : /\ r1.store = p1.store /\ r1.from = p1.from /\ r1.to = p1.to
                            /\ p1.waited
    BY <1>2 DEF Dropped
  <2>2. PICK p2 \in posts : /\ r2.store = p2.store /\ r2.from = p2.from /\ r2.to = p2.to
                            /\ p2.waited
    BY <1>2 DEF Dropped
  <2>3. p1 = p2
    BY <1>2, <2>1, <2>2 DEF IndInv, PostsOK
  <2>4. r1 \in PostType /\ r2 \in PostType
    BY DEF Dropped
  <2>5. r1.waited = r2.waited /\ r1.from = r2.from /\ r1.to = r2.to
    BY <1>2, <2>1, <2>2, <2>3, <2>4 DEF PostType
  <2> QED BY <1>2, <2>4, <2>5 DEF PostType
<1> QED BY <1>1, <1>2 DEF PostsOK, Dropped

\* The two ways in which a request loses its sender.
LEMMA NoLongerWaited ==
  ASSUME IndInv, NEW s \in Stores,
         \/ posts' = {[p EXCEPT !.waited = @ /\ p.store # s] : p \in posts}
         \/ posts' = {p \in posts : ~(p.store = s /\ p.waited)}
  PROVE  Dropped(s)
<1>1. posts \subseteq PostType
  BY DEF IndInv, TypeOK, PostType
<1>2. CASE posts' = {p \in posts : ~(p.store = s /\ p.waited)}
  BY <1>1, <1>2 DEF Dropped
<1>3. CASE posts' = {[p EXCEPT !.waited = @ /\ p.store # s] : p \in posts}
  <2> SUFFICES ASSUME NEW r \in posts'
               PROVE  /\ r \in PostType
                      /\ \E p \in posts :
                           /\ r.store = p.store /\ r.from = p.from /\ r.to = p.to
                           /\ r.waited => p.waited /\ p.store # s
    BY DEF Dropped
  <2>1. PICK p \in posts : r = [p EXCEPT !.waited = p.waited /\ p.store # s]
    BY <1>3
  <2> DEFINE w == p.waited /\ p.store # s
  <2>2. w \in BOOLEAN /\ (w => p.waited /\ p.store # s)
    OBVIOUS
  <2>3. r = [p EXCEPT !.waited = w]
    BY <2>1
  <2> HIDE DEF w
  <2>4. p \in PostType
    BY <1>1
  <2>5. /\ r \in PostType /\ r.store = p.store /\ r.from = p.from /\ r.to = p.to
        /\ r.waited = w
    BY <2>2, <2>3, <2>4 DEF PostType
  <2> QED BY <2>2, <2>5
<1> QED BY <1>2, <1>3

\* A publisher falls back to idle, and so do its requests.
LEMMA BackToIdle ==
  ASSUME IndInv, NEW s \in Stores, pub' = [pub EXCEPT ![s] = Idle], Dropped(s),
         up' \in [Stores -> BOOLEAN], faults' \in 0 .. MaxFaults,
         UNCHANGED <<queued, through, brokerVars, cloudVars>>
  PROVE  IndInv'
<1>1. UNCHANGED <<queued, through, stream, done, waiting, cursor, cloud, handed>>
  BY DEF brokerVars, cloudVars
<1>2. Safe' = Safe /\ KnownOK' /\ AcknowledgedIsStored' /\ HandedOnce'
  BY <1>1, Frame
<1>3. /\ Idle \in PubType /\ through[s] \in 0 .. MaxEvents
      /\ PubFine(s, Idle, through[s], queued[s], Safe)
      /\ through = [through EXCEPT ![s] = through[s]]
  BY OfPublisher
<1>4. pub' \in [Stores -> PubType] /\ PubsOK'
  BY <1>1, <1>2, <1>3, PubStep
<1>5. PostsOK' /\ posts' \subseteq PostType
  BY <1>1, PostsDropped
<1>6. CursorOK'
  BY <1>1 DEF IndInv, CursorOK
<1>7. TypeOK'
  BY <1>1, <1>4, <1>5 DEF IndInv, TypeOK, PubType, PostType
<1> QED BY <1>2, <1>4, <1>5, <1>6, <1>7 DEF IndInv

LEMMA GiveUpInd ==
  ASSUME IndInv, NEW s \in Stores, GiveUp(s)
  PROVE  IndInv'
<1>1. /\ pub' = [pub EXCEPT ![s] = Idle] /\ Dropped(s)
      /\ UNCHANGED <<queued, through, up, brokerVars, cloudVars>>
  BY NoLongerWaited DEF GiveUp
<1>2. faults' \in 0 .. MaxFaults /\ up' \in [Stores -> BOOLEAN]
  BY <1>1, DeliveryAssumption DEF GiveUp, Fault, IndInv, TypeOK
<1> QED BY <1>1, <1>2, BackToIdle

LEMMA RestartInd ==
  ASSUME IndInv, NEW s \in Stores, Restart(s)
  PROVE  IndInv'
<1>1. /\ pub' = [pub EXCEPT ![s] = Idle] /\ Dropped(s)
      /\ UNCHANGED <<queued, through, brokerVars, cloudVars>>
  BY NoLongerWaited DEF Restart
<1>2. faults' \in 0 .. MaxFaults /\ up' \in [Stores -> BOOLEAN]
  BY DeliveryAssumption DEF Restart, Fault, IndInv, TypeOK
<1> QED BY <1>1, <1>2, BackToIdle

LEMMA PostInd ==
  ASSUME IndInv, NEW s \in Stores, Post(s)
  PROVE  IndInv'
<1> DEFINE q == [phase |-> "posting", from |-> pub[s].from, to |-> pub[s].to,
                 accepted |-> pub[s].accepted]
<1>1. /\ s \in HttpStores /\ pub[s].phase = "read"
      /\ pub' = [pub EXCEPT ![s].phase = "posting"]
      /\ UNCHANGED <<queued, through, up, stream, done, waiting, cursor, cloud, handed, faults>>
  BY DEF Post, brokerVars, cloudVars
<1>2. PICK sent \in (pub[s].from + 1) .. pub[s].to :
        posts' = posts \cup {[store |-> s, from |-> pub[s].from, to |-> sent, waited |-> TRUE]}
  BY DEF Post
<1>3. /\ pub[s] \in PubType
      /\ through[s] \in 0 .. MaxEvents /\ queued[s] \in 0 .. MaxEvents
      /\ through = [through EXCEPT ![s] = through[s]]
      /\ PubFine(s, pub[s], through[s], queued[s], Safe)
  BY OfPublisher
<1>4. pub' = [pub EXCEPT ![s] = q]
  <2>1. pub' = [pub EXCEPT ![s] = [pub[s] EXCEPT !.phase = "posting"]]
    BY <1>1
  <2>2. [pub[s] EXCEPT !.phase = "posting"] = q
    BY <1>3, SetPhase
  <2> QED BY <2>1, <2>2
<1>5. /\ q \in PubType /\ q.phase = "posting" /\ q.from = pub[s].from /\ q.to = pub[s].to
      /\ q.accepted = pub[s].accepted
  BY <1>3 DEF PubType
<1> HIDE DEF q
<1>6. PubFine(s, q, through[s], queued[s], Safe)
  BY <1>1, <1>3, <1>5 DEF PubFine
<1>7. Safe' = Safe /\ KnownOK' /\ AcknowledgedIsStored' /\ HandedOnce'
  BY <1>1, Frame
<1>8. pub' \in [Stores -> PubType] /\ PubsOK'
  BY <1>1, <1>3, <1>4, <1>5, <1>6, <1>7, PubStep
<1> DEFINE new == [store |-> s, from |-> pub[s].from, to |-> sent, waited |-> TRUE]
<1>9. /\ new \in PostType /\ new.store = s /\ new.from = q.from /\ new.to <= q.to
      /\ new.from <= new.to /\ new.to <= queued[s] /\ new.waited
  BY <1>1, <1>3, <1>5, DeliveryAssumption DEF PostType, PubType, PubFine
<1>10. posts' = posts \cup {new}
  BY <1>2
<1> HIDE DEF new
<1>11. \A r \in posts : r.store = s => ~r.waited
  BY <1>1 DEF IndInv, PostsOK, PostFine
<1>12. \A r \in posts' : PostFine(r, pub'[r.store], queued'[r.store])
  <2>1. PostFine(new, pub'[new.store], queued'[new.store])
    BY <1>1, <1>4, <1>5, <1>9 DEF PostFine, IndInv, TypeOK
  <2>2. ASSUME NEW r \in posts PROVE PostFine(r, pub'[r.store], queued[r.store])
    <3>1. PostFine(r, pub[r.store], queued[r.store]) /\ r.store \in Stores
      BY DEF IndInv, PostsOK, TypeOK, Stores
    <3>2. r.waited => pub'[r.store] = pub[r.store]
      BY <1>4, <1>11, <3>1 DEF IndInv, TypeOK
    <3> QED BY <3>1, <3>2 DEF PostFine
  <2> QED BY <1>1, <1>10, <2>1, <2>2
<1>13. PostsOK'
  BY <1>9, <1>10, <1>11, <1>12 DEF IndInv, PostsOK
<1>14. CursorOK'
  BY <1>1 DEF IndInv, CursorOK
<1>15. TypeOK'
  BY <1>1, <1>8, <1>9, <1>10 DEF IndInv, TypeOK, PubType, PostType
<1> QED BY <1>7, <1>8, <1>13, <1>14, <1>15 DEF IndInv

-----------------------------------------------------------------------------
\* The steps of the cloud.

\* Storing events of the outboxes once.
LEMMA IngestStep ==
  ASSUME IndInv, NEW E, E \subseteq Known, Ingest(E), UNCHANGED <<stream, done, queued>>
  PROVE  /\ cloud' \subseteq Events /\ handed' \in [Events -> Nat]
         /\ cloud \cup E = cloud' /\ Safe \cup E \subseteq Safe'
         /\ KnownOK' /\ AcknowledgedIsStored' /\ HandedOnce'
<1>1. /\ cloud' = cloud \cup E
      /\ handed' = [e \in Events |-> IF e \in E \ cloud THEN handed[e] + 1 ELSE handed[e]]
  BY DEF Ingest
<1>2. E \subseteq Events /\ cloud \subseteq Events /\ handed \in [Events -> Nat]
  BY DEF Known, IndInv, TypeOK
<1>3. cloud' \subseteq Events /\ handed' \in [Events -> Nat]
  BY <1>1, <1>2
<1>4. Safe \cup E \subseteq Safe'
  BY <1>1, <1>2, StoreSafe DEF Safe
<1>5. Known' = Known
  BY DEF Known
<1>6. KnownOK'
  BY <1>1, <1>5 DEF IndInv, KnownOK
<1>7. AcknowledgedIsStored'
  BY <1>1 DEF IndInv, AcknowledgedIsStored
<1>8. ASSUME NEW e \in Events PROVE handed'[e] = IF e \in cloud' THEN 1 ELSE 0
  <2>1. handed[e] = IF e \in cloud THEN 1 ELSE 0
    BY DEF IndInv, HandedOnce
  <2>2. handed'[e] = IF e \in E \ cloud THEN handed[e] + 1 ELSE handed[e]
    BY <1>1
  <2>3. CASE e \in E \ cloud
    BY <1>1, <2>1, <2>2, <2>3
  <2>4. CASE e \notin E \ cloud
    BY <1>1, <2>1, <2>2, <2>4
  <2> QED BY <2>3, <2>4
<1>9. HandedOnce'
  BY <1>8 DEF HandedOnce
<1> QED BY <1>1, <1>3, <1>4, <1>6, <1>7, <1>9

\* What a request carries was queued.
LEMMA PostedKnown ==
  ASSUME IndInv, NEW p \in posts
  PROVE  Posted(p) \subseteq Known
<1>1. /\ p.store \in Stores /\ p.from \in 0 .. MaxEvents /\ p.to \in 0 .. MaxEvents
      /\ p.to <= queued[p.store] /\ queued[p.store] \in 0 .. MaxEvents
  BY DEF IndInv, TypeOK, PostsOK, PostFine, Stores
<1>2. ASSUME NEW n \in (p.from + 1) .. p.to PROVE <<p.store, n>> \in Known
  <2>1. n \in 1 .. MaxEvents /\ n <= queued[p.store]
    BY <1>1, DeliveryAssumption
  <2>2. <<p.store, n>>[1] = p.store /\ <<p.store, n>>[2] = n
    OBVIOUS
  <2> QED BY <1>1, <2>1, <2>2 DEF Known, Events
<1> QED BY <1>2 DEF Posted

LEMMA ServeInd ==
  ASSUME IndInv, NEW p \in posts, Serve(p)
  PROVE  IndInv'
<1> DEFINE s == p.store
           q == [phase |-> "answered", from |-> pub[s].from, to |-> pub[s].to,
                 accepted |-> p.to - p.from]
<1>1. /\ Ingest(Posted(p)) /\ posts' = posts \ {p}
      /\ UNCHANGED <<queued, through, up, stream, done, waiting, cursor, faults>>
      /\ pub' = IF p.waited
                THEN [pub EXCEPT ![s].phase = "answered", ![s].accepted = p.to - p.from]
                ELSE pub
  BY DEF Serve, brokerVars
<1>2. /\ s \in Stores /\ p.from \in 0 .. MaxEvents /\ p.to \in 0 .. MaxEvents
      /\ PostFine(p, pub[s], queued[s])
  BY DEF IndInv, TypeOK, PostsOK, Stores
<1>3. /\ cloud' \subseteq Events /\ handed' \in [Events -> Nat]
      /\ cloud \subseteq cloud' /\ Safe \cup Posted(p) \subseteq Safe'
      /\ KnownOK' /\ AcknowledgedIsStored' /\ HandedOnce'
  BY <1>1, PostedKnown, IngestStep
<1>4. CursorOK'
  BY <1>1, <1>3 DEF IndInv, CursorOK
<1>5. /\ pub[s] \in PubType
      /\ through[s] \in 0 .. MaxEvents /\ queued[s] \in 0 .. MaxEvents
      /\ through = [through EXCEPT ![s] = through[s]]
      /\ PubFine(s, pub[s], through[s], queued[s], Safe)
  BY <1>2, OfPublisher
<1>6. CASE ~p.waited
  <2>1. pub' = [pub EXCEPT ![s] = pub[s]]
    BY <1>1, <1>2, <1>6 DEF IndInv, TypeOK
  <2>2. through[s] \in Nat /\ queued[s] \in Nat /\ pub[s].to \in Nat
    BY <1>5, DeliveryAssumption DEF PubType
  <2>3. PubFine(s, pub[s], through[s], queued[s], Safe')
    BY <1>3, <1>5, <2>2, PubMono
  <2>4. pub' \in [Stores -> PubType] /\ PubsOK'
    BY <1>1, <1>2, <1>3, <1>5, <2>1, <2>3, PubStep
  <2>5. PostsOK'
    BY <1>1, <1>6 DEF IndInv, PostsOK
  <2>6. TypeOK'
    BY <1>1, <1>3, <2>4 DEF IndInv, TypeOK, PubType
  <2> QED BY <1>3, <1>4, <2>4, <2>5, <2>6 DEF IndInv
<1>7. CASE p.waited
  <2>1. /\ pub[s].phase = "posting" /\ p.from = pub[s].from /\ p.to <= pub[s].to
        /\ p.from <= p.to /\ p.from = through[s] /\ pub[s].to <= queued[s]
    BY <1>2, <1>5, <1>7 DEF PostFine, PubFine
  <2>2. pub' = [pub EXCEPT ![s] = q]
    <3> DEFINE a == p.to - p.from
    <3> HIDE DEF a
    <3>1. pub' = [pub EXCEPT ![s].phase = "answered", ![s].accepted = a]
      BY <1>1, <1>7 DEF a
    <3>2. pub' = [pub EXCEPT ![s] = [[pub[s] EXCEPT !.phase = "answered"] EXCEPT !.accepted = a]]
      BY <3>1
    <3>3. [[pub[s] EXCEPT !.phase = "answered"] EXCEPT !.accepted = a]
            = [phase |-> "answered", from |-> pub[s].from, to |-> pub[s].to, accepted |-> a]
      BY <1>5, SetAnswered
    <3>4. q = [phase |-> "answered", from |-> pub[s].from, to |-> pub[s].to, accepted |-> a]
      BY DEF a
    <3> QED BY <3>2, <3>3, <3>4
  <2>3. /\ q \in PubType /\ q.phase = "answered" /\ q.from = p.from /\ q.to = pub[s].to
        /\ q.from + q.accepted = p.to
    BY <1>2, <1>5, <2>1, DeliveryAssumption DEF PubType
  <2> HIDE DEF q
  <2>4. \A k \in 1 .. p.to : <<s, k>> \in Safe'
    <3> SUFFICES ASSUME NEW k \in 1 .. p.to PROVE <<s, k>> \in Safe'
      OBVIOUS
    <3>1. CASE k \in 1 .. p.from
      BY <1>3, <1>5, <2>1, <3>1 DEF PubFine
    <3>2. CASE k \in (p.from + 1) .. p.to
      BY <1>3, <3>2 DEF Posted
    <3> QED BY <1>2, <3>1, <3>2
  <2>5. PubFine(s, q, through[s], queued[s], Safe')
    <3>1. \A k \in 1 .. through[s] : <<s, k>> \in Safe'
      BY <1>3, <1>5 DEF PubFine
    <3>2. through[s] <= queued[s]
      BY <1>5 DEF PubFine
    <3> QED BY <2>1, <2>3, <2>4, <3>1, <3>2 DEF PubFine
  <2>6. pub' \in [Stores -> PubType] /\ PubsOK'
    BY <1>1, <1>2, <1>3, <1>5, <2>2, <2>3, <2>5, PubStep
  <2>7. PostsOK'
    <3>1. ASSUME NEW r \in posts' PROVE PostFine(r, pub'[r.store], queued[r.store])
      <4>1. r \in posts /\ r # p
        BY <1>1
      <4>2. PostFine(r, pub[r.store], queued[r.store]) /\ r.store \in Stores
        BY <4>1 DEF IndInv, PostsOK, TypeOK, Stores
      <4>3. r.waited => r.store # s
        BY <1>7, <4>1 DEF IndInv, PostsOK
      <4>4. r.waited => pub'[r.store] = pub[r.store]
        BY <2>2, <4>2, <4>3 DEF IndInv, TypeOK
      <4> QED BY <4>2, <4>4 DEF PostFine
    <3> QED BY <1>1, <3>1 DEF IndInv, PostsOK
  <2>8. TypeOK'
    BY <1>1, <1>3, <2>6 DEF IndInv, TypeOK, PubType
  <2> QED BY <1>3, <1>4, <2>6, <2>7, <2>8 DEF IndInv
<1> QED BY <1>6, <1>7

\* A step of the cursor or of the broker that stores nothing: it touches only
\* what is delivered, and lets go only of what is stored.
LEMMA BrokerStep ==
  ASSUME IndInv, done' \subseteq DOMAIN stream,
         \A i \in done' : stream[i] \in cloud, waiting' \subseteq DOMAIN stream,
         cursor' \in [phase : {"idle", "pulled", "stored"}, batch : SUBSET DOMAIN stream],
         CursorOK', faults' \in 0 .. MaxFaults,
         UNCHANGED <<storeVars, posts, stream, cloud, handed>>
  PROVE  IndInv'
<1>1. UNCHANGED <<queued, through, up, pub, posts, stream, cloud, handed>>
  BY DEF storeVars
<1>2. Safe \subseteq Safe'
  BY <1>1 DEF Safe, SafeOn
<1>3. Known' = Known
  BY <1>1 DEF Known
<1>4. KnownOK' /\ HandedOnce'
  BY <1>1, <1>3 DEF IndInv, KnownOK, HandedOnce
<1>5. AcknowledgedIsStored'
  BY <1>1 DEF IndInv, AcknowledgedIsStored
<1>6. PubsOK'
  <2> SUFFICES ASSUME NEW r \in Stores
               PROVE  PubFine(r, pub[r], through[r], queued[r], Safe')
    BY <1>1 DEF PubsOK
  <2>1. PubFine(r, pub[r], through[r], queued[r], Safe)
    BY DEF IndInv, PubsOK
  <2>2. through[r] \in Nat /\ queued[r] \in Nat /\ pub[r].to \in Nat
    BY DeliveryAssumption DEF IndInv, TypeOK
  <2> QED BY <1>2, <2>1, <2>2, PubMono
<1>7. PostsOK'
  BY <1>1 DEF IndInv, PostsOK
<1>8. TypeOK'
  BY <1>1 DEF IndInv, TypeOK
<1> QED BY <1>4, <1>5, <1>6, <1>7, <1>8 DEF IndInv

LEMMA CursorInd ==
  ASSUME IndInv, \/ Pull \/ CursorRefused \/ CursorLost \/ AckWait
                 \/ \E i \in cursor.batch : CursorAck(i)
  PROVE  IndInv'
<1> DEFINE CursorType == [phase : {"idle", "pulled", "stored"}, batch : SUBSET DOMAIN stream]
<1>1. /\ cursor \in CursorType /\ waiting \subseteq DOMAIN stream
      /\ done \subseteq DOMAIN stream /\ faults \in 0 .. MaxFaults
  BY DEF IndInv, TypeOK
<1>2. NoBatch \in CursorType /\ NoBatch.phase = "idle"
  BY DEF NoBatch
<1>3. \A i \in done : stream[i] \in cloud
  BY DEF IndInv, AcknowledgedIsStored
<1>4. faults' \in 0 .. MaxFaults
  BY <1>1, DeliveryAssumption DEF Pull, CursorRefused, CursorLost, AckWait, CursorAck, Fault
<1>5. CASE Pull
  <2>1. PICK B \in SUBSET (DOMAIN stream \ (done \cup waiting)) :
          cursor' = [phase |-> "pulled", batch |-> B] /\ waiting' = waiting \cup B
    BY <1>5 DEF Pull
  <2>2. UNCHANGED <<storeVars, posts, stream, done, cloud, handed>>
    BY <1>5 DEF Pull
  <2>3. CursorOK' /\ waiting' \subseteq DOMAIN stream /\ cursor' \in CursorType
    BY <1>1, <2>1 DEF CursorOK
  <2>4. done' \subseteq DOMAIN stream /\ \A i \in done' : stream[i] \in cloud
    BY <1>1, <1>3, <2>2
  <2> QED BY <1>4, <2>2, <2>3, <2>4, BrokerStep
<1>6. CASE CursorRefused
  <2>1. /\ UNCHANGED <<storeVars, posts, stream, done, cloud, handed>>
        /\ waiting' = waiting \ cursor.batch /\ cursor' = NoBatch
    BY <1>6 DEF CursorRefused
  <2>2. CursorOK' /\ waiting' \subseteq DOMAIN stream /\ cursor' \in CursorType
    BY <1>1, <1>2, <2>1 DEF CursorOK
  <2>3. done' \subseteq DOMAIN stream /\ \A i \in done' : stream[i] \in cloud
    BY <1>1, <1>3, <2>1
  <2> QED BY <1>4, <2>1, <2>2, <2>3, BrokerStep
<1>7. CASE CursorLost
  <2>1. /\ UNCHANGED <<storeVars, posts, stream, done, waiting, cloud, handed>>
        /\ cursor' = NoBatch
    BY <1>7 DEF CursorLost, brokerVars
  <2>2. CursorOK' /\ waiting' \subseteq DOMAIN stream /\ cursor' \in CursorType
    BY <1>1, <1>2, <2>1 DEF CursorOK
  <2>3. done' \subseteq DOMAIN stream /\ \A i \in done' : stream[i] \in cloud
    BY <1>1, <1>3, <2>1
  <2> QED BY <1>4, <2>1, <2>2, <2>3, BrokerStep
<1>8. CASE AckWait
  <2>1. /\ UNCHANGED <<storeVars, posts, stream, done, cursor, cloud, handed>>
        /\ waiting' = {}
    BY <1>8 DEF AckWait, cloudVars
  <2>2. CursorOK' /\ waiting' \subseteq DOMAIN stream /\ cursor' \in CursorType
    BY <1>1, <2>1 DEF CursorOK, IndInv
  <2>3. done' \subseteq DOMAIN stream /\ \A i \in done' : stream[i] \in cloud
    BY <1>1, <1>3, <2>1
  <2> QED BY <1>4, <2>1, <2>2, <2>3, BrokerStep
<1>9. ASSUME NEW i \in cursor.batch, CursorAck(i) PROVE IndInv'
  <2>1. /\ UNCHANGED <<storeVars, posts, stream, cloud, handed>>
        /\ cursor.phase = "stored" /\ done' = done \cup {i} /\ waiting' = waiting \ {i}
        /\ cursor' = IF cursor.batch = {i} THEN NoBatch
                     ELSE [cursor EXCEPT !.batch = cursor.batch \ {i}]
    BY <1>9 DEF CursorAck
  <2>2. i \in DOMAIN stream /\ \A j \in cursor.batch : stream[j] \in cloud
    BY <1>1, <2>1 DEF IndInv, CursorOK
  <2>3. waiting' \subseteq DOMAIN stream /\ done' \subseteq DOMAIN stream
    BY <1>1, <2>1, <2>2
  <2>4. cursor' = NoBatch \/ cursor' = [phase |-> "stored", batch |-> cursor.batch \ {i}]
    BY <1>1, <2>1
  <2>5. cursor' \in CursorType /\ CursorOK'
    BY <1>1, <1>2, <2>1, <2>2, <2>4 DEF CursorOK
  <2>6. \A j \in done' : stream[j] \in cloud
    BY <1>3, <2>1, <2>2
  <2> QED BY <1>4, <2>1, <2>3, <2>5, <2>6, BrokerStep
<1> QED BY <1>5, <1>6, <1>7, <1>8, <1>9

LEMMA CursorIngestInd ==
  ASSUME IndInv, CursorIngest
  PROVE  IndInv'
<1>1. /\ Ingest(Pulled) /\ cursor' = [cursor EXCEPT !.phase = "stored"]
      /\ UNCHANGED <<queued, through, up, pub, posts, stream, done, waiting, faults>>
  BY DEF CursorIngest, storeVars, brokerVars
<1>2. cursor \in [phase : {"idle", "pulled", "stored"}, batch : SUBSET DOMAIN stream]
  BY DEF IndInv, TypeOK
<1>3. Pulled \subseteq Known
  BY <1>2 DEF Pulled, IndInv, KnownOK
<1>4. /\ cloud' \subseteq Events /\ handed' \in [Events -> Nat]
      /\ cloud \cup Pulled = cloud' /\ Safe \subseteq Safe'
      /\ KnownOK' /\ AcknowledgedIsStored' /\ HandedOnce'
  BY <1>1, <1>3, IngestStep
<1>5. cursor' = [phase |-> "stored", batch |-> cursor.batch]
  BY <1>1, <1>2
<1>6. CursorOK'
  BY <1>1, <1>4, <1>5 DEF CursorOK, Pulled
<1>7. PubsOK'
  <2> SUFFICES ASSUME NEW r \in Stores
               PROVE  PubFine(r, pub[r], through[r], queued[r], Safe')
    BY <1>1 DEF PubsOK
  <2>1. PubFine(r, pub[r], through[r], queued[r], Safe)
    BY DEF IndInv, PubsOK
  <2>2. through[r] \in Nat /\ queued[r] \in Nat /\ pub[r].to \in Nat
    BY DeliveryAssumption DEF IndInv, TypeOK
  <2> QED BY <1>4, <2>1, <2>2, PubMono
<1>8. PostsOK'
  BY <1>1 DEF IndInv, PostsOK
<1>9. TypeOK'
  BY <1>1, <1>2, <1>4, <1>5 DEF IndInv, TypeOK
<1> QED BY <1>4, <1>6, <1>7, <1>8, <1>9 DEF IndInv

LEMMA StutterInd ==
  ASSUME IndInv, UNCHANGED vars
  PROVE  IndInv'
<1>1. UNCHANGED <<storeVars, posts, stream, cloud, handed, done, waiting, cursor, faults>>
  BY DEF vars, brokerVars, cloudVars
<1>2. done' \subseteq DOMAIN stream /\ \A i \in done' : stream[i] \in cloud
  BY <1>1 DEF IndInv, TypeOK, AcknowledgedIsStored
<1>3. /\ CursorOK' /\ waiting' \subseteq DOMAIN stream /\ faults' \in 0 .. MaxFaults
      /\ cursor' \in [phase : {"idle", "pulled", "stored"}, batch : SUBSET DOMAIN stream]
  BY <1>1 DEF IndInv, CursorOK, TypeOK
<1> QED BY <1>1, <1>2, <1>3, BrokerStep

-----------------------------------------------------------------------------
LEMMA StepInd ==
  ASSUME IndInv, [Next]_vars
  PROVE  IndInv'
<1>1. ASSUME NEW s \in Stores, Commit(s) \/ Publisher(s) \/ Restart(s) PROVE IndInv'
  BY <1>1, CommitInd, HandshakeInd, ReadBatchInd, CheckCapacityInd, SendAckedInd,
     SendAckLostInd, SendRefusedInd, PostInd, GiveUpInd, AcknowledgePrefixInd, RestartInd
     DEF Publisher
<1>2. ASSUME NEW p \in posts, Serve(p) PROVE IndInv'
  BY <1>2, ServeInd
<1>3. CASE Cursor \/ CursorLost \/ AckWait
  BY <1>3, CursorInd, CursorIngestInd DEF Cursor
<1>4. CASE UNCHANGED vars
  BY <1>4, StutterInd
<1> QED BY <1>1, <1>2, <1>3, <1>4 DEF Next

\* Every reachable state satisfies the invariant.
THEOREM Invariance == Spec => []IndInv
<1>1. Init => IndInv
  BY InitInd
<1>2. IndInv /\ [Next]_vars => IndInv'
  BY StepInd
<1> QED BY <1>1, <1>2, PTL DEF Spec

\* Every variable of the stores, the links and the cloud keeps its shape.
THEOREM TypeCorrect == Spec => []TypeOK
<1>1. IndInv => TypeOK
  BY DEF IndInv
<1> QED BY Invariance, <1>1, PTL

\* No event a store committed falls between its outbox, the stream and the
\* cloud, whatever is lost, repeated, refused or restarted (drain_once, pump).
THEOREM NothingFalls == Spec => []NothingFallsBetween
<1>1. IndInv => NothingFallsBetween
  <2> SUFFICES ASSUME IndInv, NEW s \in Stores, NEW n \in 1 .. queued[s], ~(n > through[s])
               PROVE  \/ \E i \in DOMAIN stream \ done : stream[i] = <<s, n>>
                      \/ <<s, n>> \in cloud
    BY DEF NothingFallsBetween
  <2>1. /\ through[s] \in 0 .. MaxEvents /\ queued[s] \in 0 .. MaxEvents
        /\ PubFine(s, pub[s], through[s], queued[s], Safe)
    BY OfPublisher
  <2>2. n \in 1 .. through[s]
    BY <2>1
  <2>3. <<s, n>> \in Safe
    BY <2>1, <2>2 DEF PubFine
  <2> QED BY <2>3 DEF Safe, SafeOn
<1> QED BY Invariance, <1>1, PTL

\* Nothing is acknowledged on the stream before it is stored (ConsumedBatch::ack).
THEOREM StoredFirst == Spec => []AcknowledgedIsStored
<1>1. IndInv => AcknowledgedIsStored
  BY DEF IndInv
<1> QED BY Invariance, <1>1, PTL

\* Every stored event has exactly one row in the cloud's outbox, however often
\* it was sent or delivered (store-postgres append).
THEOREM OneRow == Spec => []HandedOnce
<1>1. IndInv => HandedOnce
  BY DEF IndInv
<1> QED BY Invariance, <1>1, PTL

-----------------------------------------------------------------------------
\* A step of the cloud that stores the events E of the outboxes.
LEMMA IngestHandsOn ==
  ASSUME IndInv, NEW E, E \subseteq Known, Ingest(E), UNCHANGED queued
  PROVE  Promise!HandOn
<1> DEFINE F == E \ cloud
<1>1. F \in SUBSET {e \in Known : handed[e] = 0}
  BY DEF IndInv, HandedOnce, Known
<1>2. \A e \in Events : e \in F => handed[e] = 0
  BY <1>1
<1>3. handed' = [e \in Events |-> IF e \in F THEN 1 ELSE handed[e]]
  BY <1>2 DEF Ingest
<1>4. Known' = Known
  BY DEF Known
<1> HIDE DEF F
<1> QED BY <1>1, <1>3, <1>4 DEF Promise!HandOn, Known

LEMMA StepHandsOn ==
  ASSUME IndInv, [Next]_vars
  PROVE  [Promise!Commit \/ Promise!HandOn]_<<Known, handed>>
<1>1. CASE UNCHANGED <<queued, handed>>
  BY <1>1 DEF Known
<1>2. ASSUME NEW s \in Stores, Commit(s) PROVE Promise!Commit
  <2>1. queued' = [queued EXCEPT ![s] = queued[s] + 1] /\ UNCHANGED handed
    BY <1>2 DEF Commit, cloudVars
  <2>2. queued \in [Stores -> 0 .. MaxEvents]
    BY DEF IndInv, TypeOK
  <2>3. \A r \in Stores : queued[r] \in Nat /\ queued'[r] \in Nat /\ queued[r] <= queued'[r]
    BY <2>1, <2>2, DeliveryAssumption
  <2>4. \A e \in Events : e[1] \in Stores /\ e[2] \in Nat
    BY DeliveryAssumption DEF Events
  <2>5. Known \subseteq Known' /\ Known' \subseteq Events
    BY <2>3, <2>4 DEF Known
  <2> DEFINE E == Known' \ Known
  <2>6. E \in SUBSET (Events \ Known) /\ Known' = Known \cup E
    BY <2>5
  <2> HIDE DEF E
  <2> QED BY <2>1, <2>6 DEF Promise!Commit, Known
<1>3. ASSUME NEW p \in posts, Serve(p) PROVE Promise!HandOn
  <2>1. Ingest(Posted(p)) /\ UNCHANGED queued
    BY <1>3 DEF Serve
  <2> QED BY <2>1, PostedKnown, IngestHandsOn
<1>4. CASE CursorIngest
  <2>1. Ingest(Pulled) /\ UNCHANGED queued
    BY <1>4 DEF CursorIngest, storeVars
  <2>2. Pulled \subseteq Known
    BY DEF Pulled, IndInv, KnownOK, TypeOK
  <2> QED BY <2>1, <2>2, IngestHandsOn
<1>5. ASSUME NEW s \in Stores, Publisher(s) \/ Restart(s)
      PROVE  UNCHANGED <<queued, handed>>
  BY <1>5 DEF Publisher, Restart, Handshake, ReadBatch, CheckCapacity, SendAcked, SendAckLost,
              SendRefused, Post, GiveUp, AcknowledgePrefix, cloudVars
<1>6. CASE Pull \/ CursorRefused \/ (\E i \in cursor.batch : CursorAck(i)) \/ CursorLost \/ AckWait
  BY <1>1, <1>6 DEF Pull, CursorRefused, CursorAck, CursorLost, AckWait, storeVars, cloudVars
<1>7. CASE UNCHANGED vars
  BY <1>1, <1>7 DEF vars, storeVars, cloudVars
<1> QED BY <1>1, <1>2, <1>3, <1>4, <1>5, <1>6, <1>7 DEF Next, Cursor

\* Delivery implements its promise for every fleet: only committed events reach
\* the readers of the cloud, and each at most once (Cloud::ingest).
THEOREM DeliveryPromise == Spec => ImplementsExactlyOnce
<1>1. Init => Promise!Init
  <2> SUFFICES ASSUME Init PROVE Promise!Init
    OBVIOUS
  <2>1. \A e \in Events : ~(e[2] <= queued[e[1]])
    BY DeliveryAssumption DEF Init, Events
  <2> QED BY <2>1 DEF Init, Promise!Init
<1>2. IndInv /\ [Next]_vars => [Promise!Commit \/ Promise!HandOn]_<<Known, handed>>
  BY StepHandsOn
<1> QED BY Invariance, <1>1, <1>2, PTL DEF Spec, ImplementsExactlyOnce, Promise!Spec, Known

\* A publisher uses its outbox as the outbox promises: together with EventLog's
\* LogIsAnOutbox this ties the two models (drain_once, acknowledge_through).
THEOREM PublisherUsesOutbox == Spec => UsesOutbox
<1>1. ASSUME IndInv, IndInv', [Next]_vars, NEW s \in Stores
      PROVE  \/ StoreOutbox(s)!Queue \/ StoreOutbox(s)!AcknowledgeThrough
             \/ UNCHANGED <<queued[s], through[s]>>
  <2>1. /\ queued \in [Stores -> 0 .. MaxEvents] /\ through \in [Stores -> 0 .. MaxEvents]
        /\ queued' \in [Stores -> 0 .. MaxEvents] /\ through' \in [Stores -> 0 .. MaxEvents]
    BY <1>1 DEF IndInv, TypeOK
  <2>2. CASE UNCHANGED <<queued, through>>
    BY <2>2
  <2>3. ASSUME NEW r \in Stores, Commit(r)
        PROVE  StoreOutbox(s)!Queue \/ UNCHANGED <<queued[s], through[s]>>
    <3>1. queued' = [queued EXCEPT ![r] = queued[r] + 1] /\ UNCHANGED through
      BY <2>3 DEF Commit
    <3>2. queued[s] \in Nat /\ queued'[s] \in Nat
      BY <2>1, DeliveryAssumption
    <3>3. CASE r = s
      BY <2>1, <3>1, <3>2, <3>3 DEF StoreOutbox!Queue
    <3>4. CASE r # s
      BY <2>1, <3>1, <3>4
    <3> QED BY <3>3, <3>4
  <2>4. ASSUME NEW r \in Stores, AcknowledgePrefix(r)
        PROVE  StoreOutbox(s)!AcknowledgeThrough \/ UNCHANGED <<queued[s], through[s]>>
    <3>1. /\ UNCHANGED queued /\ pub[r].phase = "answered"
          /\ \/ through' = [through EXCEPT ![r] = pub[r].from + pub[r].accepted]
             \/ UNCHANGED through
      BY <2>4 DEF AcknowledgePrefix
    <3>2. CASE r = s /\ through' = [through EXCEPT ![r] = pub[r].from + pub[r].accepted]
      <4>1. /\ pub[s] \in PubType /\ through[s] \in 0 .. MaxEvents
            /\ queued[s] \in 0 .. MaxEvents
            /\ PubFine(s, pub[s], through[s], queued[s], Safe)
        BY <1>1, OfPublisher
      <4>2. /\ through'[s] = pub[s].from + pub[s].accepted /\ pub[s].from = through[s]
            /\ pub[s].from + pub[s].accepted <= pub[s].to /\ pub[s].to <= queued[s]
        BY <2>1, <3>1, <3>2, <4>1 DEF PubFine
      <4>3. /\ through'[s] \in Nat /\ through'[s] <= queued[s]
            /\ through'[s] > through[s] \/ through'[s] = through[s]
        BY <2>1, <4>1, <4>2, DeliveryAssumption DEF PubType
      <4> QED BY <3>1, <4>3 DEF StoreOutbox!AcknowledgeThrough
    <3>3. CASE r # s \/ UNCHANGED through
      BY <2>1, <3>1, <3>3
    <3> QED BY <3>1, <3>2, <3>3
  <2>5. ASSUME NEW r \in Stores, Publisher(r) \/ Restart(r), ~AcknowledgePrefix(r)
        PROVE  UNCHANGED <<queued, through>>
    BY <2>5 DEF Publisher, Restart, Handshake, ReadBatch, CheckCapacity, SendAcked,
                SendAckLost, SendRefused, Post, GiveUp
  <2>6. ASSUME \/ \E p \in posts : Serve(p)
               \/ Cursor \/ CursorLost \/ AckWait \/ UNCHANGED vars
        PROVE  UNCHANGED <<queued, through>>
    BY <2>6 DEF Serve, Cursor, Pull, CursorIngest, CursorRefused, CursorAck, CursorLost, AckWait,
                storeVars, vars
  <2> QED BY <1>1, <2>2, <2>3, <2>4, <2>5, <2>6 DEF Next
<1>2. IndInv /\ IndInv' /\ [Next]_vars
        => [\A s \in Stores : \/ StoreOutbox(s)!Queue \/ StoreOutbox(s)!AcknowledgeThrough
                              \/ UNCHANGED <<queued[s], through[s]>>]_vars
  BY <1>1
<1> QED BY Invariance, <1>2, PTL DEF Spec, UsesOutbox
=============================================================================
