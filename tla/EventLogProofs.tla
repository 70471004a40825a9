--------------------------- MODULE EventLogProofs ---------------------------
(***************************************************************************)
(* The event log's invariants, for any number of events, any grouping of   *)
(* them into transactions and any interleaving with acknowledgements,      *)
(* sweeps, walks and crashes.                                              *)
(*                                                                         *)
(* The inductive invariant says the same of the committed tables and of    *)
(* the transaction being written: ChainOK of the rows above the            *)
(* checkpoint, QueueOK of the outbox beside them.  HistoryOK relates them  *)
(* to everything ever written, WalkOK to the walk's cursor.                *)
(***************************************************************************)
EXTENDS EventLog, TLAPS

\* The rows from the checkpoint to the head, one per sequence, each linked to
\* the one before it and the first to the checkpoint.
ChainOK(R) ==
  /\ \A r, q \in R : (r.seq = q.seq \/ r.id = q.id) => r = q
  /\ \A r \in R : r.seq > checkpoint.seq
  /\ \A r \in R : \A n \in (checkpoint.seq + 1) .. r.seq : \E q \in R : q.seq = n
  /\ \A r \in R : r.hash = Hash(r.seq, r.prev, r.id)
  /\ \A r \in R : r.seq = checkpoint.seq + 1 => r.prev = checkpoint.hash
  /\ \A r, q \in R : q.seq = r.seq + 1 => q.prev = r.hash
  /\ R = {} => checkpoint = [seq |-> 0, hash |-> Genesis]
  /\ R # {} => \E h \in R : \A q \in R : q.seq <= h.seq

\* The outbox: positions without a hole up to the next one, in chain order, and
\* holding exactly what is stored and not acknowledged.
QueueOK(R, O, P) ==
  /\ \A o \in O : o.pos < P
  /\ \A o, p \in O : o.pos = p.pos => o = p
  /\ \A o, p \in O : o.pos < p.pos => (o.seq = 0 \/ o.seq < p.seq)
  /\ \A o \in O : \A n \in o.pos .. (P - 1) : \E p \in O : p.pos = n
  /\ O # {} => \E o \in O : \A p \in O : o.pos <= p.pos
  /\ \A o \in O : o.seq # 0 => \E r \in R : r.seq = o.seq /\ r.id = o.id
  /\ \A r \in R : r.id \in acked \/ \E o \in O : o.id = r.id /\ o.seq = r.seq
  /\ \A i \in Legacy : i \in acked \/ \E o \in O : o.id = i /\ o.seq = 0

\* Everything ever written: the rows stored, and below the checkpoint the ones
\* deleted, all of them acknowledged.
HistoryOK ==
  /\ rows \subseteq written
  /\ \A w \in written \ rows : w.seq <= checkpoint.seq /\ w.id \in acked
  /\ \A v, w \in written : (v.seq = w.seq \/ v.id = w.id) => v = w
  /\ \A n \in 1 .. checkpoint.seq : \E w \in written : w.seq = n
  /\ \A i \in Legacy \ legacy : i \in acked

\* An open transaction extends the committed tables.
TxOK ==
  tx.open => /\ ChainOK(tx.rows)
             /\ QueueOK(tx.rows, tx.outbox, tx.pos)
             /\ tx.pos # 0
             /\ rows \subseteq tx.rows
             /\ \A r \in tx.rows : \A w \in written \ rows : r.id # w.id
             /\ outbox \subseteq tx.outbox /\ tx.pos >= pos
             /\ \A o \in tx.outbox \ outbox : o.pos >= pos
             /\ \A n \in pos .. (tx.pos - 1) : \E o \in tx.outbox : o.pos = n

\* The walk stands at the checkpoint or at a row, and expects its hash.
WalkOK ==
  /\ walk.phase # "broken"
  /\ walk.phase = "walking" =>
       \/ walk.after = checkpoint.seq /\ walk.expect = checkpoint.hash
       \/ \E r \in rows : r.seq = walk.after /\ r.hash = walk.expect

IndInv == /\ TypeOK
          /\ ChainOK(rows)
          /\ QueueOK(rows, outbox, pos)
          /\ HistoryOK
          /\ TxOK
          /\ WalkOK

-----------------------------------------------------------------------------
\* `chain_head` finds the row of the highest sequence.
LEMMA HeadIsHighest ==
  ASSUME NEW R, ChainOK(R), R # {}
  PROVE  Head(R) \in R /\ \A q \in R : q.seq <= Head(R).seq
BY DEF Head, ChainOK

\* The first row of the outbox has the lowest position and, when it is chained,
\* no row has a lower sequence: nothing before it in the chain is queued.
LEMMA FirstOutIsLowest ==
  ASSUME TypeOK, QueueOK(rows, outbox, pos), outbox # {}
  PROVE  /\ FirstOut \in outbox
         /\ FirstOut.seq # 0 =>
              \A o \in outbox : o.seq # 0 /\ FirstOut.seq <= o.seq
<1>1. FirstOut \in outbox /\ \A p \in outbox : FirstOut.pos <= p.pos
  BY DEF FirstOut, QueueOK
<1>2. \A o \in outbox : o.pos \in Nat /\ o.seq \in Nat
  BY DEF TypeOK, OutOK
<1>3. ASSUME FirstOut.seq # 0, NEW o \in outbox
      PROVE  o.seq # 0 /\ FirstOut.seq <= o.seq
  <2>1. CASE FirstOut.pos = o.pos
    BY <1>1, <1>2, <1>3, <2>1 DEF QueueOK
  <2>2. CASE FirstOut.pos < o.pos
    BY <1>1, <1>2, <1>3, <2>2 DEF QueueOK
  <2> QED BY <1>1, <1>2, <2>1, <2>2
<1> QED BY <1>1, <1>3

\* The row `write_events` adds takes the sequence after the head, or after the
\* checkpoint of an empty chain, and links to it.
LEMMA NextRowFollows ==
  ASSUME NEW R, ChainOK(R), \A r \in R : RowOK(r), checkpoint.seq \in Nat,
         NEW e \in EventIds
  PROVE  LET r == NextRow(R, e) IN
         /\ RowOK(r) /\ r.id = e /\ r.hash = Hash(r.seq, r.prev, e)
         /\ \A q \in R : q.seq < r.seq
         /\ r.seq > checkpoint.seq
         /\ r.seq = checkpoint.seq + 1 <=> R = {}
         /\ R = {} => r.prev = checkpoint.hash
         /\ R # {} => \E q \in R : q.seq + 1 = r.seq /\ q.hash = r.prev
<1> DEFINE r == NextRow(R, e)
<1>1. CASE R = {}
  <2>1. Head(R) = [seq |-> 0, hash |-> Genesis] /\ checkpoint = [seq |-> 0, hash |-> Genesis]
    BY <1>1 DEF Head, ChainOK
  <2>2. /\ r = [seq |-> r.seq, id |-> e, prev |-> r.prev, hash |-> Hash(r.seq, r.prev, e)]
        /\ r.seq = 1 /\ r.prev = checkpoint.hash
    BY <2>1 DEF NextRow
  <2>3. RowOK(r) /\ r.id = e /\ r.hash = Hash(r.seq, r.prev, e)
    BY <2>2 DEF RowOK
  <2> QED BY <1>1, <2>1, <2>2, <2>3
<1>2. CASE R # {}
  <2>1. Head(R) \in R /\ (\A q \in R : q.seq <= Head(R).seq)
    BY <1>2, HeadIsHighest
  <2>2. \A q \in R : q.seq \in Nat \ {0} /\ q.seq > checkpoint.seq
    BY DEF RowOK, ChainOK
  <2>3. /\ r = [seq |-> r.seq, id |-> e, prev |-> r.prev, hash |-> Hash(r.seq, r.prev, e)]
        /\ r.seq = Head(R).seq + 1 /\ r.prev = Head(R).hash
    BY DEF NextRow
  <2>4. r.seq \in Nat \ {0} /\ (\A q \in R : q.seq < r.seq) /\ r.seq > checkpoint.seq + 1
    BY <2>1, <2>2, <2>3
  <2>5. RowOK(r) /\ r.id = e /\ r.hash = Hash(r.seq, r.prev, e)
    BY <2>3, <2>4 DEF RowOK
  <2>6. \E q \in R : q.seq + 1 = r.seq /\ q.hash = r.prev
    BY <2>1, <2>3
  <2> QED BY <1>2, <2>4, <2>5, <2>6
<1> QED BY <1>1, <1>2

\* Adding that row keeps the chain.
LEMMA WriteKeepsChain ==
  ASSUME NEW R, ChainOK(R), \A r \in R : RowOK(r), checkpoint.seq \in Nat,
         NEW e \in EventIds, e \notin {r.id : r \in R}
  PROVE  ChainOK(R \cup {NextRow(R, e)})
<1> DEFINE n == NextRow(R, e)
           S == R \cup {n}
<1> HIDE DEF n
<1>1. /\ RowOK(n) /\ n.id = e /\ n.hash = Hash(n.seq, n.prev, n.id)
      /\ \A q \in R : q.seq < n.seq
      /\ n.seq > checkpoint.seq
      /\ n.seq = checkpoint.seq + 1 <=> R = {}
      /\ R = {} => n.prev = checkpoint.hash
      /\ R # {} => \E q \in R : q.seq + 1 = n.seq /\ q.hash = n.prev
  BY NextRowFollows DEF n
<1>2. n.seq \in Nat \ {0} /\ \A r \in R : r.seq \in Nat \ {0}
  BY <1>1 DEF RowOK
<1>3. \A r, q \in S : (r.seq = q.seq \/ r.id = q.id) => r = q
  BY <1>1, <1>2 DEF ChainOK
<1>4. \A r \in S : r.seq > checkpoint.seq
  BY <1>1 DEF ChainOK
<1>5. \A r \in S : \A k \in (checkpoint.seq + 1) .. r.seq : \E q \in S : q.seq = k
  <2> SUFFICES ASSUME NEW k \in (checkpoint.seq + 1) .. n.seq
               PROVE  \E q \in S : q.seq = k
    BY DEF ChainOK
  <2>1. CASE k = n.seq
    BY <2>1
  <2>2. CASE k # n.seq
    <3>1. R # {}
      BY <1>1, <1>2, <2>2
    <3>2. PICK q \in R : q.seq + 1 = n.seq
      BY <1>1, <3>1
    <3>3. k \in (checkpoint.seq + 1) .. q.seq
      BY <1>2, <2>2, <3>2
    <3> QED BY <3>2, <3>3 DEF ChainOK
  <2> QED BY <2>1, <2>2
<1>6. \A r \in S : r.hash = Hash(r.seq, r.prev, r.id)
  BY <1>1 DEF ChainOK
<1>7. \A r \in S : r.seq = checkpoint.seq + 1 => r.prev = checkpoint.hash
  BY <1>1 DEF ChainOK
<1>8. \A r, q \in S : q.seq = r.seq + 1 => q.prev = r.hash
  <2> SUFFICES ASSUME NEW r \in R, n.seq = r.seq + 1
               PROVE  n.prev = r.hash
    BY <1>1, <1>2 DEF ChainOK
  <2>1. PICK q \in R : q.seq + 1 = n.seq /\ q.hash = n.prev
    BY <1>1
  <2>2. q = r
    BY <1>2, <2>1 DEF ChainOK
  <2> QED BY <2>1, <2>2
<1>9. n \in S /\ \A q \in S : q.seq <= n.seq
  BY <1>1, <1>2
<1> QED BY <1>3, <1>4, <1>5, <1>6, <1>7, <1>8, <1>9 DEF ChainOK, n

\* Adding the row and its outbox entry keeps the outbox.
LEMMA WriteKeepsQueue ==
  ASSUME NEW R, NEW O, NEW P \in Nat, P # 0, ChainOK(R), QueueOK(R, O, P),
         \A r \in R : RowOK(r), \A o \in O : OutOK(o), checkpoint.seq \in Nat,
         NEW e \in EventIds
  PROVE  LET n == NextRow(R, e)
         IN  QueueOK(R \cup {n}, O \cup {[pos |-> P, id |-> e, seq |-> n.seq]}, P + 1)
<1> DEFINE n == NextRow(R, e)
           x == [pos |-> P, id |-> e, seq |-> n.seq]
           S == R \cup {n}
           Q == O \cup {x}
<1>1. RowOK(n) /\ n.id = e /\ \A q \in R : q.seq < n.seq
  BY NextRowFollows
<1> HIDE DEF n
<1>2. n.seq \in Nat \ {0} /\ \A r \in R : r.seq \in Nat
  BY <1>1 DEF RowOK
<1>3. x.pos = P /\ x.id = e /\ x.seq = n.seq
  OBVIOUS
<1>4. \A o \in O : o.pos \in Nat /\ o.seq \in Nat /\ o.pos < P
  BY DEF OutOK, QueueOK
<1> HIDE DEF x
<1>5. \A o \in Q : o.pos < P + 1
  BY <1>3, <1>4
<1>6. \A o, p \in Q : o.pos = p.pos => o = p
  BY <1>3, <1>4 DEF QueueOK
<1>7. \A o \in O : o.seq = 0 \/ o.seq < n.seq
  BY <1>1 DEF QueueOK
<1>8. \A o, p \in Q : o.pos < p.pos => (o.seq = 0 \/ o.seq < p.seq)
  BY <1>3, <1>4, <1>7 DEF QueueOK
<1>9. \A o \in Q : \A k \in o.pos .. ((P + 1) - 1) : \E p \in Q : p.pos = k
  <2> SUFFICES ASSUME NEW o \in O, NEW k \in o.pos .. P, k # P
               PROVE  \E p \in Q : p.pos = k
    BY <1>3
  <2>1. k \in o.pos .. (P - 1)
    BY <1>4
  <2> QED BY <2>1 DEF QueueOK
<1>10. \E o \in Q : \A p \in Q : o.pos <= p.pos
  <2>1. CASE O = {}
    BY <1>3, <2>1
  <2>2. CASE O # {}
    BY <1>3, <1>4, <2>2 DEF QueueOK
  <2> QED BY <2>1, <2>2
<1>11. \A o \in Q : o.seq # 0 => \E r \in S : r.seq = o.seq /\ r.id = o.id
  BY <1>1, <1>3 DEF QueueOK
<1>12. \A r \in S : r.id \in acked \/ \E o \in Q : o.id = r.id /\ o.seq = r.seq
  BY <1>1, <1>3 DEF QueueOK
<1>13. \A i \in Legacy : i \in acked \/ \E o \in Q : o.id = i /\ o.seq = 0
  BY DEF QueueOK
<1> QED
  BY <1>5, <1>6, <1>8, <1>9, <1>10, <1>11, <1>12, <1>13 DEF QueueOK, n, x

-----------------------------------------------------------------------------
\* A store that has just applied the migration satisfies the invariant.
LEMMA InitInd == Init => IndInv
<1> SUFFICES ASSUME Init PROVE IndInv
  OBVIOUS
<1> USE EventLogAssumption
<1>1. PICK synced \in 0 .. LegacyCount :
        /\ outbox = {[pos |-> i, id |-> i, seq |-> 0] : i \in (synced + 1) .. LegacyCount}
        /\ acked = 1 .. synced
  BY DEF Init
<1>2. \A o \in outbox : /\ o \in [pos : Nat \ {0}, id : Legacy, seq : {0}]
                        /\ o.pos = o.id /\ o.pos \in (synced + 1) .. LegacyCount
  BY <1>1 DEF Legacy
<1>3. \A k \in (synced + 1) .. LegacyCount : [pos |-> k, id |-> k, seq |-> 0] \in outbox
  BY <1>1
<1>4. TypeOK
  <2>1. \A o \in outbox : OutOK(o)
    BY <1>2 DEF OutOK, Ids
  <2>2. acked \subseteq Ids
    BY <1>1 DEF Ids, Legacy
  <2> QED BY <2>1, <2>2 DEF Init, TypeOK, NoTx
<1>5. ChainOK(rows)
  BY DEF Init, ChainOK
<1>6. QueueOK(rows, outbox, pos)
  <2>1. pos = LegacyCount + 1 /\ rows = {}
    BY DEF Init
  <2>2. \A o \in outbox : o.pos < pos /\ o.seq = 0
    BY <1>2, <2>1
  <2>3. \A o, p \in outbox : o.pos = p.pos => o = p
    BY <1>2
  <2>4. \A o \in outbox : \A n \in o.pos .. (pos - 1) : \E p \in outbox : p.pos = n
    <3> SUFFICES ASSUME NEW o \in outbox, NEW n \in o.pos .. (pos - 1)
                 PROVE  \E p \in outbox : p.pos = n
      OBVIOUS
    <3>1. n \in (synced + 1) .. LegacyCount
      BY <1>2, <2>1
    <3> QED BY <1>3, <3>1
  <2>5. outbox # {} => \E o \in outbox : \A p \in outbox : o.pos <= p.pos
    <3> SUFFICES ASSUME outbox # {} PROVE \E o \in outbox : \A p \in outbox : o.pos <= p.pos
      OBVIOUS
    <3>1. synced + 1 \in (synced + 1) .. LegacyCount
      BY <1>2
    <3>2. \A p \in outbox : synced + 1 <= p.pos
      BY <1>2
    <3> QED BY <1>3, <3>1, <3>2
  <2>6. \A i \in Legacy : i \in acked \/ \E o \in outbox : o.id = i /\ o.seq = 0
    <3> SUFFICES ASSUME NEW i \in Legacy, i \notin acked
                 PROVE  \E o \in outbox : o.id = i /\ o.seq = 0
      OBVIOUS
    <3>1. i \in (synced + 1) .. LegacyCount
      BY <1>1 DEF Legacy
    <3> QED BY <1>3, <3>1
  <2> QED BY <2>1, <2>2, <2>3, <2>4, <2>5, <2>6 DEF QueueOK
<1>7. HistoryOK
  BY DEF Init, HistoryOK
<1>8. TxOK /\ WalkOK
  BY DEF Init, TxOK, WalkOK, NoTx
<1> QED BY <1>4, <1>5, <1>6, <1>7, <1>8 DEF IndInv

-----------------------------------------------------------------------------
\* What leaves the committed tables alone keeps what is said of them.
LEMMA LogUnchanged ==
  ASSUME ChainOK(rows), QueueOK(rows, outbox, pos), HistoryOK,
         UNCHANGED <<rows, legacy, outbox, pos, checkpoint, acked, written>>
  PROVE  ChainOK(rows)' /\ QueueOK(rows, outbox, pos)' /\ HistoryOK'
<1>1. ChainOK(rows)'
  BY DEF ChainOK
<1>2. QueueOK(rows, outbox, pos)'
  BY DEF QueueOK
<1>3. HistoryOK'
  BY DEF HistoryOK
<1> QED BY <1>1, <1>2, <1>3

\* A step of a transaction keeps the invariant.
LEMMA TxStepInd ==
  ASSUME IndInv,
         Begin \/ CommitTx \/ RollbackTx \/ \E e \in EventIds : WriteEvent(e)
  PROVE  IndInv'
<1> USE DEF IndInv, logVars
<1>1. CASE Begin
  <2>1. TypeOK'
    BY <1>1 DEF Begin, TypeOK
  <2>2. ChainOK(rows)' /\ QueueOK(rows, outbox, pos)' /\ HistoryOK' /\ WalkOK'
    BY <1>1, LogUnchanged DEF Begin, WalkOK
  <2>3. tx'.rows = rows /\ tx'.outbox = outbox /\ tx'.pos = pos
    BY <1>1 DEF Begin
  <2>4. ChainOK(tx.rows)' /\ QueueOK(tx.rows, tx.outbox, tx.pos)'
    <3>1. ChainOK(tx.rows)'
      BY <1>1, <2>3 DEF Begin, ChainOK
    <3>2. QueueOK(tx.rows, tx.outbox, tx.pos)'
      BY <1>1, <2>3 DEF Begin, QueueOK
    <3> QED BY <3>1, <3>2
  <2>5. \A r \in rows : \A w \in written \ rows : r.id # w.id
    BY DEF HistoryOK
  <2>6. TxOK'
    BY <1>1, <2>3, <2>4, <2>5 DEF Begin, TxOK, TypeOK
  <2> QED BY <2>1, <2>2, <2>6
<1>2. CASE CommitTx
  <2>1. tx.open
    BY <1>2 DEF CommitTx
  <2>2. TypeOK'
    BY <1>2, <2>1 DEF CommitTx, TypeOK, NoTx, TxOK
  <2>3. ChainOK(rows)' /\ QueueOK(rows, outbox, pos)'
    <3>1. rows' = tx.rows /\ outbox' = tx.outbox /\ pos' = tx.pos
          /\ UNCHANGED <<checkpoint, acked>>
      BY <1>2 DEF CommitTx
    <3>2. ChainOK(tx.rows) /\ QueueOK(tx.rows, tx.outbox, tx.pos)
      BY <2>1 DEF TxOK
    <3>3. ChainOK(rows)'
      BY <3>1, <3>2 DEF ChainOK
    <3>4. QueueOK(rows, outbox, pos)'
      BY <3>1, <3>2 DEF QueueOK
    <3> QED BY <3>3, <3>4
  <2>4. HistoryOK'
    <3>1. written' \ rows' = written \ tx.rows /\ written \ tx.rows \subseteq written \ rows
      BY <1>2, <2>1 DEF CommitTx, TxOK
    <3>2. \A v, w \in written' : (v.seq = w.seq \/ v.id = w.id) => v = w
      <4> SUFFICES ASSUME NEW v \in tx.rows, NEW w \in written \ rows
                   PROVE  v.seq # w.seq /\ v.id # w.id
        BY <1>2, <2>1 DEF CommitTx, TxOK, HistoryOK, ChainOK
      <4>1. v.seq \in Nat /\ w.seq \in Nat /\ checkpoint.seq \in Nat
        BY DEF TypeOK, RowOK
      <4>2. v.seq > checkpoint.seq /\ w.seq <= checkpoint.seq /\ v.id # w.id
        BY <2>1 DEF TxOK, ChainOK, HistoryOK
      <4> QED BY <4>1, <4>2
    <3> QED BY <1>2, <3>1, <3>2 DEF CommitTx, HistoryOK
  <2>5. TxOK' /\ WalkOK'
    BY <1>2, <2>1 DEF CommitTx, TxOK, WalkOK, NoTx
  <2> QED BY <2>2, <2>3, <2>4, <2>5
<1>3. CASE RollbackTx
  <2>1. ChainOK(rows)' /\ QueueOK(rows, outbox, pos)' /\ HistoryOK'
    BY <1>3, LogUnchanged DEF RollbackTx
  <2>2. TypeOK' /\ TxOK' /\ WalkOK'
    BY <1>3 DEF RollbackTx, NoTx, TypeOK, TxOK, WalkOK
  <2> QED BY <2>1, <2>2
<1>4. ASSUME NEW e \in EventIds, WriteEvent(e) PROVE IndInv'
  <2> DEFINE n == NextRow(tx.rows, e)
             x == [pos |-> tx.pos, id |-> e, seq |-> n.seq]
  <2>1. /\ tx.open /\ e \notin {r.id : r \in tx.rows}
        /\ e \notin {r.id : r \in written \ rows}
        /\ tx' = [open |-> TRUE, rows |-> tx.rows \cup {n},
                  outbox |-> tx.outbox \cup {x}, pos |-> tx.pos + 1]
        /\ UNCHANGED <<logVars, walk, acked, written>>
    BY <1>4 DEF WriteEvent
  <2>2. /\ ChainOK(tx.rows) /\ QueueOK(tx.rows, tx.outbox, tx.pos)
        /\ (\A r \in tx.rows : RowOK(r)) /\ (\A o \in tx.outbox : OutOK(o))
        /\ checkpoint.seq \in Nat /\ tx.pos \in Nat /\ tx.pos # 0
    BY <2>1 DEF TypeOK, TxOK
  <2>3. ChainOK(tx.rows \cup {n})
    BY <2>1, <2>2, WriteKeepsChain
  <2>4. QueueOK(tx.rows \cup {n}, tx.outbox \cup {x}, tx.pos + 1)
    BY <2>2, WriteKeepsQueue
  <2>5. RowOK(n) /\ n.id = e
    BY <2>2, NextRowFollows
  <2> HIDE DEF n
  <2>6. OutOK(x)
    BY <2>2, <2>5 DEF OutOK, RowOK, Ids
  <2> HIDE DEF x
  <2>7. /\ tx'.open /\ tx'.rows = tx.rows \cup {n} /\ tx'.outbox = tx.outbox \cup {x}
        /\ tx'.pos = tx.pos + 1
    BY <2>1
  <2>8. TypeOK'
    BY <2>1, <2>2, <2>5, <2>6, <2>7 DEF TypeOK
  <2>9. ChainOK(rows)' /\ QueueOK(rows, outbox, pos)' /\ HistoryOK' /\ WalkOK'
    BY <2>1, LogUnchanged DEF WalkOK
  <2>10. ChainOK(tx.rows)' /\ QueueOK(tx.rows, tx.outbox, tx.pos)'
    <3>1. ChainOK(tx.rows)'
      BY <2>1, <2>3, <2>7 DEF ChainOK
    <3>2. QueueOK(tx.rows, tx.outbox, tx.pos)'
      BY <2>1, <2>4, <2>7 DEF QueueOK
    <3> QED BY <3>1, <3>2
  <2>11. TxOK'
    <3>1. UNCHANGED <<rows, written>>
      BY <2>1
    <3>2. tx'.pos # 0 /\ rows \subseteq tx'.rows
      BY <2>1, <2>2, <2>7 DEF TxOK
    <3>3. \A r \in tx'.rows : \A w \in written \ rows : r.id # w.id
      BY <2>1, <2>5, <2>7 DEF TxOK
    <3>4. x.pos = tx.pos /\ tx.pos >= pos /\ pos \in Nat
      BY <2>1 DEF TxOK, TypeOK, x
    <3>5. outbox \subseteq tx'.outbox /\ tx'.pos >= pos
      BY <2>1, <2>2, <2>7, <3>4 DEF TxOK
    <3>6. \A o \in tx'.outbox \ outbox : o.pos >= pos
      BY <2>1, <2>7, <3>4 DEF TxOK
    <3>7. \A m \in pos .. (tx'.pos - 1) : \E o \in tx'.outbox : o.pos = m
      <4> SUFFICES ASSUME NEW m \in pos .. (tx'.pos - 1)
                   PROVE  \E o \in tx'.outbox : o.pos = m
        OBVIOUS
      <4>1. CASE m = tx.pos
        BY <2>7, <3>4, <4>1
      <4>2. CASE m \in pos .. (tx.pos - 1)
        BY <2>1, <2>7, <4>2 DEF TxOK
      <4> QED BY <2>2, <2>7, <3>4, <4>1, <4>2
    <3>8. UNCHANGED <<outbox, pos>>
      BY <2>1
    <3> QED BY <2>10, <3>1, <3>2, <3>3, <3>5, <3>6, <3>7, <3>8 DEF TxOK
  <2> QED BY <2>8, <2>9, <2>11
<1> QED BY <1>1, <1>2, <1>3, <1>4

-----------------------------------------------------------------------------
\* Acknowledging up to a queued position keeps the invariant: what leaves the
\* outbox is a prefix of it, and is acknowledged.
LEMMA AcknowledgeInd ==
  ASSUME IndInv, NEW a \in outbox, Acknowledge(a.pos)
  PROVE  IndInv'
<1> USE DEF IndInv
<1>1. /\ ~tx.open
      /\ outbox' = {o \in outbox : o.pos > a.pos}
      /\ acked' = acked \cup {o.id : o \in {p \in outbox : p.pos <= a.pos}}
      /\ UNCHANGED <<rows, legacy, pos, checkpoint, tx, walk, written>>
  BY DEF Acknowledge
<1>2. \A o \in outbox : o.pos \in Nat /\ o.id \in Ids
  BY DEF TypeOK, OutOK
<1>3. pos \in Nat
  BY DEF TypeOK
<1>4. TypeOK'
  <2>1. acked' \subseteq Ids
    BY <1>1, <1>2 DEF TypeOK
  <2> QED BY <1>1, <2>1 DEF TypeOK
<1>5. ChainOK(rows)' /\ WalkOK' /\ TxOK'
  BY <1>1 DEF ChainOK, WalkOK, TxOK
<1>6. HistoryOK'
  BY <1>1 DEF HistoryOK
<1>7. QueueOK(rows, outbox, pos)'
  <2>1. \A o \in outbox' : o \in outbox /\ o.pos > a.pos
    BY <1>1
  <2>2. \A o \in outbox : o \in outbox' \/ o.id \in acked'
    BY <1>1, <1>2
  <2>3. \A o \in outbox' : \A n \in o.pos .. (pos - 1) : \E p \in outbox' : p.pos = n
    <3> SUFFICES ASSUME NEW o \in outbox', NEW n \in o.pos .. (pos - 1)
                 PROVE  \E p \in outbox' : p.pos = n
      OBVIOUS
    <3>1. PICK p \in outbox : p.pos = n
      BY <2>1 DEF QueueOK
    <3>2. p.pos > a.pos
      BY <1>2, <2>1, <3>1
    <3> QED BY <1>1, <3>1, <3>2
  <2>4. outbox' # {} => \E o \in outbox' : \A p \in outbox' : o.pos <= p.pos
    <3> SUFFICES ASSUME NEW b \in outbox'
                 PROVE  \E o \in outbox' : \A p \in outbox' : o.pos <= p.pos
      OBVIOUS
    <3>1. b.pos < pos /\ b.pos > a.pos
      BY <2>1 DEF QueueOK
    <3>2. a.pos + 1 \in a.pos .. (pos - 1)
      BY <1>2, <1>3, <2>1, <3>1
    <3>3. PICK o \in outbox : o.pos = a.pos + 1
      BY <3>2 DEF QueueOK
    <3>4. o \in outbox'
      BY <1>1, <1>2, <3>3
    <3> QED BY <1>2, <2>1, <3>3, <3>4
  <2>5. \A r \in rows : r.id \in acked' \/ \E o \in outbox' : o.id = r.id /\ o.seq = r.seq
    BY <1>1, <2>2 DEF QueueOK
  <2>6. \A i \in Legacy : i \in acked' \/ \E o \in outbox' : o.id = i /\ o.seq = 0
    BY <1>1, <2>2 DEF QueueOK
  <2>7. /\ \A o \in outbox' : o.pos < pos
        /\ \A o, p \in outbox' : o.pos = p.pos => o = p
        /\ \A o, p \in outbox' : o.pos < p.pos => (o.seq = 0 \/ o.seq < p.seq)
        /\ \A o \in outbox' : o.seq # 0 => \E r \in rows : r.seq = o.seq /\ r.id = o.id
    BY <2>1 DEF QueueOK
  <2> QED BY <1>1, <2>3, <2>4, <2>5, <2>6, <2>7 DEF QueueOK
<1> QED BY <1>4, <1>5, <1>6, <1>7

-----------------------------------------------------------------------------
\* A chunk of a sweep over the unchained events keeps the invariant: no chained
\* event is queued behind an unchained one, so all of these are acknowledged.
LEMMA PruneUnchainedInd ==
  ASSUME IndInv, NEW i \in Legacy, PruneUnchained(i)
  PROVE  IndInv'
<1> USE DEF IndInv
<1>1. /\ outbox # {} => FirstOut.seq # 0
      /\ legacy' \subseteq legacy
      /\ UNCHANGED <<rows, outbox, pos, checkpoint, tx, walk, acked, written>>
  BY DEF PruneUnchained
<1>2. \A o \in outbox : o.seq # 0
  BY <1>1, FirstOutIsLowest
<1>3. Legacy \subseteq acked
  BY <1>2 DEF QueueOK
<1>4. TypeOK' /\ ChainOK(rows)' /\ QueueOK(rows, outbox, pos)'
  <2>1. TypeOK'
    BY <1>1 DEF TypeOK
  <2>2. ChainOK(rows)'
    BY <1>1 DEF ChainOK
  <2>3. QueueOK(rows, outbox, pos)'
    BY <1>1 DEF QueueOK
  <2> QED BY <2>1, <2>2, <2>3
<1>5. HistoryOK'
  BY <1>1, <1>3 DEF HistoryOK
<1>6. TxOK' /\ WalkOK'
  <2>1. ~tx.open
    BY DEF PruneUnchained, SweepMayRun
  <2> QED BY <1>1, <2>1 DEF TxOK, WalkOK
<1> QED BY <1>4, <1>5, <1>6

\* A chunk of a sweep over the chained events keeps the invariant: every event
\* it deletes is below the first queued one, hence acknowledged, and the first
\* one left links to the new checkpoint.
LEMMA PruneChainedInd ==
  ASSUME IndInv, NEW last \in rows, PruneChained(last)
  PROVE  IndInv'
<1> USE DEF IndInv
<1>1. /\ ~tx.open /\ walk.phase \in {"intact", "broken"}
      /\ outbox # {} => FirstOut.seq # 0 /\ last.seq < FirstOut.seq
      /\ last.seq > checkpoint.seq /\ last.seq < Head(rows).seq
      /\ rows' = {r \in rows : ~(r.seq > checkpoint.seq /\ r.seq <= last.seq)}
      /\ checkpoint' = [seq |-> last.seq, hash |-> last.hash]
      /\ UNCHANGED <<legacy, outbox, pos, tx, walk, acked, written>>
  BY DEF PruneChained, SweepMayRun
<1>2. \A r \in rows : r.seq \in Nat \ {0} /\ r.seq > checkpoint.seq /\ RowOK(r)
  BY DEF TypeOK, RowOK, ChainOK
<1>3. Head(rows) \in rows /\ \A q \in rows : q.seq <= Head(rows).seq
  BY HeadIsHighest
<1>4. rows' = {r \in rows : r.seq > last.seq} /\ Head(rows) \in rows'
  BY <1>1, <1>2, <1>3
<1>5. checkpoint'.seq = last.seq /\ checkpoint'.hash = last.hash
  BY <1>1
<1>6. \A o \in outbox : o.seq # 0 /\ o.seq > last.seq
  <2> SUFFICES ASSUME NEW o \in outbox PROVE o.seq # 0 /\ o.seq > last.seq
    OBVIOUS
  <2>1. o.seq \in Nat /\ FirstOut \in outbox /\ FirstOut.seq \in Nat
    BY FirstOutIsLowest DEF TypeOK, OutOK
  <2>2. o.seq # 0 /\ FirstOut.seq <= o.seq /\ last.seq < FirstOut.seq
    BY <1>1, FirstOutIsLowest
  <2> QED BY <1>2, <2>1, <2>2
<1>7. TypeOK'
  BY <1>1, <1>2, <1>4, <1>5 DEF TypeOK
<1>8. ChainOK(rows)'
  <2>1. \A r, q \in rows' : (r.seq = q.seq \/ r.id = q.id) => r = q
    BY <1>4 DEF ChainOK
  <2>2. \A r \in rows' : r.seq > last.seq
    BY <1>4
  <2>3. \A r \in rows' : \A n \in (last.seq + 1) .. r.seq : \E q \in rows' : q.seq = n
    <3> SUFFICES ASSUME NEW r \in rows', NEW n \in (last.seq + 1) .. r.seq
                 PROVE  \E q \in rows' : q.seq = n
      OBVIOUS
    <3>1. r \in rows /\ n \in (checkpoint.seq + 1) .. r.seq /\ n > last.seq
      BY <1>1, <1>2, <1>4 DEF TypeOK
    <3>2. PICK q \in rows : q.seq = n
      BY <3>1 DEF ChainOK
    <3> QED BY <1>4, <3>1, <3>2
  <2>4. \A r \in rows' : r.hash = Hash(r.seq, r.prev, r.id)
    BY <1>4 DEF ChainOK
  <2>5. \A r \in rows' : r.seq = last.seq + 1 => r.prev = last.hash
    BY <1>4 DEF ChainOK
  <2>6. \A r, q \in rows' : q.seq = r.seq + 1 => q.prev = r.hash
    BY <1>4 DEF ChainOK
  <2>7. \A q \in rows' : q.seq <= Head(rows).seq
    BY <1>3, <1>4
  <2> QED BY <1>4, <1>5, <2>1, <2>2, <2>3, <2>4, <2>5, <2>6, <2>7 DEF ChainOK
<1>9. QueueOK(rows, outbox, pos)'
  <2>1. \A o \in outbox : o.seq # 0 => \E r \in rows' : r.seq = o.seq /\ r.id = o.id
    BY <1>4, <1>6 DEF QueueOK
  <2>2. \A r \in rows' : r.id \in acked \/ \E o \in outbox : o.id = r.id /\ o.seq = r.seq
    BY <1>4 DEF QueueOK
  <2> QED BY <1>1, <2>1, <2>2 DEF QueueOK
<1>10. HistoryOK'
  <2>1. rows' \subseteq written
    BY <1>4 DEF HistoryOK
  <2>2. ASSUME NEW w \in written \ rows' PROVE w.seq <= last.seq /\ w.id \in acked
    <3>1. CASE w \in rows
      <4>1. w.seq <= last.seq
        BY <1>2, <1>4, <2>2, <3>1
      <4>2. ~ \E o \in outbox : o.id = w.id /\ o.seq = w.seq
        BY <1>2, <1>6, <3>1, <4>1 DEF TypeOK, OutOK
      <4> QED BY <3>1, <4>1, <4>2 DEF QueueOK
    <3>2. CASE w \in written \ rows
      <4>1. w.seq <= checkpoint.seq /\ w.id \in acked
        BY <3>2 DEF HistoryOK
      <4>2. w.seq \in Nat /\ checkpoint.seq \in Nat
        BY DEF TypeOK, RowOK
      <4> QED BY <1>1, <1>2, <4>1, <4>2
    <3> QED BY <2>2, <3>1, <3>2
  <2>3. ASSUME NEW n \in 1 .. last.seq PROVE \E w \in written : w.seq = n
    <3>1. CASE n \in 1 .. checkpoint.seq
      BY <3>1 DEF HistoryOK
    <3>2. CASE n \notin 1 .. checkpoint.seq
      <4>1. n \in (checkpoint.seq + 1) .. last.seq
        BY <2>3, <3>2 DEF TypeOK
      <4>2. PICK q \in rows : q.seq = n
        BY <4>1 DEF ChainOK
      <4> QED BY <4>2 DEF HistoryOK
    <3> QED BY <3>1, <3>2
  <2> QED BY <1>1, <1>5, <2>1, <2>2, <2>3 DEF HistoryOK
<1>11. TxOK' /\ WalkOK'
  BY <1>1 DEF TxOK, WalkOK
<1> QED BY <1>7, <1>8, <1>9, <1>10, <1>11

-----------------------------------------------------------------------------
\* What leaves the tables and the transaction alone keeps what is said of them.
LEMMA TablesUnchanged ==
  ASSUME ChainOK(rows), QueueOK(rows, outbox, pos), HistoryOK, TxOK,
         UNCHANGED <<rows, legacy, outbox, pos, checkpoint, tx, acked, written>>
  PROVE  ChainOK(rows)' /\ QueueOK(rows, outbox, pos)' /\ HistoryOK' /\ TxOK'
<1>1. ChainOK(rows)' /\ QueueOK(rows, outbox, pos)' /\ HistoryOK'
  BY LogUnchanged
<1>2. TxOK'
  <2>1. ChainOK(tx.rows) => ChainOK(tx.rows)'
    BY DEF ChainOK
  <2>2. QueueOK(tx.rows, tx.outbox, tx.pos) => QueueOK(tx.rows, tx.outbox, tx.pos)'
    BY DEF QueueOK
  <2> QED BY <2>1, <2>2 DEF TxOK
<1> QED BY <1>1, <1>2

\* The walk never meets a break: the row after its cursor is the next sequence
\* and links to the hash it carries, whatever was committed meanwhile.
LEMMA WalkInd ==
  ASSUME IndInv, WalkStart \/ WalkRow
  PROVE  IndInv'
<1> USE DEF IndInv
<1>1. UNCHANGED <<rows, legacy, outbox, pos, checkpoint, tx, acked, written>>
  BY DEF WalkStart, WalkRow, logVars
<1>2. ChainOK(rows)' /\ QueueOK(rows, outbox, pos)' /\ HistoryOK' /\ TxOK'
  BY <1>1, TablesUnchanged
<1>3. /\ checkpoint.seq \in Nat /\ walk.after \in Nat
      /\ \A r \in rows : r.seq \in Nat \ {0}
  BY DEF TypeOK, RowOK
<1>4. CASE WalkStart
  <2>1. walk' = [phase |-> "walking", after |-> checkpoint.seq, expect |-> checkpoint.hash]
    BY <1>4 DEF WalkStart
  <2> QED BY <1>1, <1>2, <1>3, <2>1 DEF TypeOK, WalkOK
<1>5. CASE WalkRow
  <2> DEFINE ahead == {r \in rows : r.seq > walk.after}
             next == CHOOSE r \in ahead : \A q \in ahead : r.seq <= q.seq
  <2>1. walk.phase = "walking"
    BY <1>5 DEF WalkRow
  <2>2. walk' = IF ahead = {} THEN [walk EXCEPT !.phase = "intact"]
                ELSE IF Breaks(next) THEN [walk EXCEPT !.phase = "broken"]
                ELSE [phase |-> "walking", after |-> next.seq, expect |-> next.hash]
    BY <1>5 DEF WalkRow
  <2>3. CASE ahead = {}
    <3>1. walk' = [walk EXCEPT !.phase = "intact"]
      BY <2>2, <2>3
    <3> QED BY <1>1, <1>2, <3>1 DEF TypeOK, WalkOK
  <2>4. CASE ahead # {}
    <3>1. walk.after >= checkpoint.seq
      BY <1>3, <2>1 DEF WalkOK, ChainOK
    <3>2. PICK f \in rows : f.seq = walk.after + 1
      <4>1. PICK a \in rows : a.seq > walk.after
        BY <2>4
      <4>2. walk.after + 1 \in (checkpoint.seq + 1) .. a.seq
        BY <1>3, <3>1, <4>1
      <4> QED BY <4>2 DEF ChainOK
    <3>3. f \in ahead /\ \A q \in ahead : f.seq <= q.seq
      BY <1>3, <3>2
    <3>4. next \in ahead /\ \A q \in ahead : next.seq <= q.seq
      BY <3>3
    <3>5. next = f
      <4>1. next \in rows /\ next.seq = f.seq
        BY <1>3, <3>3, <3>4
      <4> QED BY <4>1 DEF ChainOK
    <3>6. f.prev = walk.expect /\ f.hash = Hash(f.seq, f.prev, f.id)
      BY <1>3, <2>1, <3>2 DEF WalkOK, ChainOK
    <3>7. ~Breaks(next)
      BY <3>2, <3>5, <3>6 DEF Breaks
    <3>8. walk' = [phase |-> "walking", after |-> f.seq, expect |-> f.hash]
      BY <2>2, <2>4, <3>5, <3>7
    <3>9. f.seq \in Nat
      BY <1>3
    <3> QED BY <1>1, <1>2, <3>8, <3>9 DEF TypeOK, WalkOK
  <2> QED BY <2>3, <2>4
<1> QED BY <1>4, <1>5

\* A crash keeps the committed tables and forgets the rest.
LEMMA CrashInd ==
  ASSUME IndInv, Crash
  PROVE  IndInv'
<1> USE DEF IndInv
<1>1. UNCHANGED <<rows, legacy, outbox, pos, checkpoint, acked, written>>
  BY DEF Crash, logVars
<1>2. /\ tx' = [open |-> FALSE, rows |-> {}, outbox |-> {}, pos |-> 0]
      /\ walk' = [phase |-> "start", after |-> 0, expect |-> Genesis]
  BY DEF Crash, NoTx
<1>3. ChainOK(rows)' /\ QueueOK(rows, outbox, pos)' /\ HistoryOK'
  BY <1>1, LogUnchanged
<1>4. TypeOK' /\ TxOK' /\ WalkOK'
  BY <1>1, <1>2 DEF TypeOK, TxOK, WalkOK
<1> QED BY <1>3, <1>4

\* A step that changes nothing keeps the invariant.
LEMMA StutterInd ==
  ASSUME IndInv, UNCHANGED vars
  PROVE  IndInv'
<1>1. UNCHANGED <<rows, legacy, outbox, pos, checkpoint, tx, walk, acked, written>>
  BY DEF vars, logVars
<1>2. TypeOK' /\ WalkOK'
  BY <1>1 DEF IndInv, TypeOK, WalkOK
<1>3. ChainOK(rows)' /\ QueueOK(rows, outbox, pos)' /\ HistoryOK' /\ TxOK'
  BY <1>1, TablesUnchanged DEF IndInv
<1> QED BY <1>2, <1>3 DEF IndInv

\* Every step the log takes of itself keeps the invariant.
LEMMA LogStepInd ==
  ASSUME IndInv, LogStep
  PROVE  IndInv'
BY TxStepInd, PruneUnchainedInd, PruneChainedInd, WalkInd, CrashInd DEF LogStep

-----------------------------------------------------------------------------
\* The invariant holds throughout, for any log and any set of events.
THEOREM Invariance == Spec => []IndInv
<1>1. IndInv /\ [Next]_vars => IndInv'
  BY LogStepInd, AcknowledgeInd, StutterInd DEF Next
<1> QED BY InitInd, <1>1, PTL DEF Spec

\* The tables keep their shape (the writer's statements on events and outbox).
THEOREM TypeCorrect == Spec => []TypeOK
<1>1. IndInv => TypeOK
  BY DEF IndInv
<1> QED BY Invariance, <1>1, PTL

\* Nothing committed is lost before the link acknowledged it, through any
\* rollback, crash and sweep (write_events, acknowledge, prune_events).
THEOREM NoLoss == Spec => []NothingLost
<1>1. IndInv => NothingLost
  BY DEF IndInv, HistoryOK, QueueOK, NothingLost
<1> QED BY Invariance, <1>1, PTL

\* Retention deletes only acknowledged events (prune_unchained, prune_chained).
THEOREM RetentionSafe == Spec => []PrunedWasSynced
<1>1. IndInv => PrunedWasSynced
  BY DEF IndInv, HistoryOK, PrunedWasSynced
<1> QED BY Invariance, <1>1, PTL

\* A chain position is used for one event, for ever, and no position is skipped
\* (next_link, chain_head and the head that prune_chained keeps).
THEOREM PositionsOnce == Spec => []PositionsUsedOnce
<1>1. IndInv => PositionsUsedOnce
  <2> SUFFICES ASSUME IndInv, NEW w \in written, NEW n \in 1 .. w.seq
               PROVE  \E v \in written : v.seq = n
    BY DEF IndInv, HistoryOK, PositionsUsedOnce
  <2>1. checkpoint.seq \in Nat /\ w.seq \in Nat
    BY DEF IndInv, TypeOK, RowOK
  <2>2. CASE n \in 1 .. checkpoint.seq
    BY <2>2 DEF IndInv, HistoryOK
  <2>3. CASE n \in (checkpoint.seq + 1) .. w.seq
    <3>1. w \in rows
      BY <2>1, <2>3 DEF IndInv, HistoryOK
    <3>2. PICK q \in rows : q.seq = n
      BY <2>3, <3>1 DEF IndInv, ChainOK
    <3> QED BY <3>2 DEF IndInv, HistoryOK
  <2> QED BY <2>1, <2>2, <2>3
<1> QED BY Invariance, <1>1, PTL

\* The start-up walk of an untouched log reports no break (verify_chain_chunk).
THEOREM WalkNeverBreaks == Spec => []WalkIntact
<1>1. IndInv => WalkIntact
  BY DEF IndInv, WalkOK, WalkIntact
<1> QED BY Invariance, <1>1, PTL

\* The outbox is in chain order (write_events queues as it stamps).
THEOREM ChainOrder == Spec => []OutboxInChainOrder
<1>1. IndInv => OutboxInChainOrder
  BY DEF IndInv, QueueOK, OutboxInChainOrder
<1> QED BY Invariance, <1>1, PTL

-----------------------------------------------------------------------------
\* k splits the positions below q: those above it are the ones S holds.
Splits(S, q, k) ==
  /\ k \in Nat /\ k < q
  /\ \A o \in S : o.pos > k
  /\ \A n \in (k + 1) .. (q - 1) : \E o \in S : o.pos = n

ThroughOK == Splits(outbox, pos, Through)

\* Only one position splits them.
LEMMA SplitUnique ==
  ASSUME NEW S, NEW q \in Nat, NEW k, NEW t, Splits(S, q, k), Splits(S, q, t)
  PROVE  t = k
<1>1. k \in Nat /\ t \in Nat /\ k < q /\ t < q
  BY DEF Splits
<1>2. CASE t < k
  <2>1. k \in (t + 1) .. (q - 1)
    BY <1>1, <1>2
  <2>2. PICK o \in S : o.pos = k
    BY <2>1 DEF Splits
  <2>3. k > k
    BY <2>2 DEF Splits
  <2> QED BY <1>1, <2>3
<1>3. CASE k < t
  <2>1. t \in (k + 1) .. (q - 1)
    BY <1>1, <1>3
  <2>2. PICK o \in S : o.pos = t
    BY <2>1 DEF Splits
  <2>3. t > t
    BY <2>2 DEF Splits
  <2> QED BY <1>1, <2>3
<1> QED BY <1>1, <1>2, <1>3

\* It goes on splitting them as positions are given out.
LEMMA SplitGrows ==
  ASSUME NEW S, NEW T, NEW q \in Nat, NEW r \in Nat, NEW k,
         Splits(S, q, k), S \subseteq T, r >= q, \A o \in T : o.pos > k,
         \A n \in q .. (r - 1) : \E o \in T : o.pos = n
  PROVE  Splits(T, r, k)
<1>1. k \in Nat /\ k < q
  BY DEF Splits
<1>2. ASSUME NEW n \in (k + 1) .. (r - 1) PROVE \E o \in T : o.pos = n
  <2>1. CASE n < q
    <3>1. n \in (k + 1) .. (q - 1)
      BY <1>1, <1>2, <2>1
    <3> QED BY <3>1 DEF Splits
  <2>2. CASE n >= q
    <3>1. n \in q .. (r - 1)
      BY <1>1, <1>2, <2>2
    <3> QED BY <3>1
  <2> QED BY <1>1, <1>2, <2>1, <2>2
<1> QED BY <1>1, <1>2 DEF Splits

\* The outbox holds exactly the positions after the acknowledged one.
LEMMA ThroughSplits ==
  ASSUME IndInv
  PROVE  ThroughOK
<1>1. pos \in Nat \ {0} /\ \A o \in outbox : o.pos \in Nat \ {0}
  BY DEF IndInv, TypeOK, OutOK
<1>2. CASE outbox = {}
  BY <1>1, <1>2 DEF Through, ThroughOK, Splits
<1>3. CASE outbox # {}
  <2>1. FirstOut \in outbox /\ \A p \in outbox : FirstOut.pos <= p.pos
    BY <1>3 DEF FirstOut, IndInv, QueueOK
  <2>2. Through = FirstOut.pos - 1 /\ FirstOut.pos \in Nat \ {0} /\ FirstOut.pos < pos
    BY <1>1, <1>3, <2>1 DEF Through, IndInv, QueueOK
  <2>3. \A n \in FirstOut.pos .. (pos - 1) : \E o \in outbox : o.pos = n
    BY <2>1 DEF IndInv, QueueOK
  <2> QED BY <1>1, <2>1, <2>2, <2>3 DEF ThroughOK, Splits
<1> QED BY <1>2, <1>3

\* A step of the log queues, acknowledges, or does neither.
LEMMA StepImplements ==
  ASSUME IndInv, IndInv', ThroughOK, ThroughOK', [Next]_vars
  PROVE  [Positions!Queue \/ Positions!AcknowledgeThrough]_<<pos - 1, Through>>
<1>1. pos \in Nat \ {0} /\ pos' \in Nat \ {0} /\ \A o \in outbox : o.pos \in Nat \ {0}
  BY DEF IndInv, TypeOK, OutOK
<1>2. /\ Through \in Nat /\ Through < pos
      /\ \A o \in outbox : o.pos > Through
      /\ \A n \in (Through + 1) .. (pos - 1) : \E o \in outbox : o.pos = n
  BY DEF ThroughOK, Splits
<1>3. Splits(outbox', pos', Through')
  BY DEF ThroughOK
<1>4. ASSUME NEW k, Splits(outbox', pos', k) PROVE Through' = k
  BY <1>1, <1>3, <1>4, SplitUnique
<1>5. CASE UNCHANGED <<outbox, pos>>
  BY <1>5 DEF Through, FirstOut
<1>6. CASE CommitTx
  <2>1. tx.open /\ outbox' = tx.outbox /\ pos' = tx.pos
    BY <1>6 DEF CommitTx
  <2>2. /\ outbox \subseteq tx.outbox /\ tx.pos >= pos
        /\ \A o \in tx.outbox \ outbox : o.pos >= pos
        /\ \A n \in pos .. (tx.pos - 1) : \E o \in tx.outbox : o.pos = n
    BY <2>1 DEF IndInv, TxOK
  <2>3. \A o \in outbox' : o.pos \in Nat /\ o.pos > Through
    BY <1>1, <1>2, <2>1, <2>2 DEF IndInv, TypeOK, OutOK
  <2>4. Splits(outbox, pos, Through) /\ pos' >= pos /\ outbox \subseteq outbox'
    BY <2>1, <2>2 DEF ThroughOK
  <2>5. Splits(outbox', pos', Through)
    BY <1>1, <2>1, <2>2, <2>3, <2>4, SplitGrows
  <2>6. Through' = Through
    BY <1>4, <2>5
  <2> QED BY <1>1, <2>1, <2>2, <2>6 DEF Positions!Queue
<1>7. ASSUME NEW a \in outbox, Acknowledge(a.pos)
      PROVE  Positions!AcknowledgeThrough
  <2>1. outbox' = {o \in outbox : o.pos > a.pos} /\ pos' = pos
    BY <1>7 DEF Acknowledge
  <2>2. a.pos \in Nat /\ a.pos < pos /\ a.pos > Through
    BY <1>1, <1>2 DEF IndInv, QueueOK
  <2>3. \A n \in (a.pos + 1) .. (pos' - 1) : \E o \in outbox' : o.pos = n
    <3> SUFFICES ASSUME NEW n \in (a.pos + 1) .. (pos - 1)
                 PROVE  \E o \in outbox' : o.pos = n
      BY <2>1
    <3>1. n \in (Through + 1) .. (pos - 1) /\ n > a.pos
      BY <1>1, <1>2, <2>2
    <3> QED BY <1>2, <2>1, <3>1
  <2>4. Splits(outbox', pos', a.pos)
    BY <2>1, <2>2, <2>3 DEF Splits
  <2>5. Through' = a.pos
    BY <1>4, <2>4
  <2> QED BY <1>1, <2>1, <2>2, <2>5 DEF Positions!AcknowledgeThrough
<1>8. CASE LogStep /\ ~CommitTx
  <2>1. UNCHANGED <<outbox, pos>>
    BY <1>8 DEF LogStep, Begin, RollbackTx, WriteEvent, PruneUnchained, PruneChained,
                WalkStart, WalkRow, Crash, logVars
  <2> QED BY <1>5, <2>1
<1>9. CASE UNCHANGED vars
  BY <1>5, <1>9 DEF vars, logVars
<1> QED BY <1>6, <1>7, <1>8, <1>9 DEF Next

\* The log implements the outbox its publisher relies on, for any events and any
\* retention: Delivery builds on the promise instead of on the tables.
THEOREM LogIsAnOutbox == Spec => ImplementsOutbox
<1>1. Init => Positions!Init
  <2> SUFFICES ASSUME Init PROVE Positions!Init
    OBVIOUS
  <2>1. pos \in Nat \ {0}
    BY InitInd DEF IndInv, TypeOK
  <2>2. Through \in Nat /\ Through < pos
    BY InitInd, ThroughSplits DEF ThroughOK, Splits
  <2> QED BY <2>1, <2>2 DEF Positions!Init
<1>2. IndInv => ThroughOK
  BY ThroughSplits
<1>3. IndInv /\ IndInv' /\ ThroughOK /\ ThroughOK' /\ [Next]_vars
        => [Positions!Queue \/ Positions!AcknowledgeThrough]_<<pos - 1, Through>>
  BY StepImplements
<1> QED BY Invariance, <1>1, <1>2, <1>3, PTL DEF Spec, ImplementsOutbox, Positions!Spec
=============================================================================
