------------------------------ MODULE EventLog ------------------------------
(***************************************************************************)
(* The store's event log: the SQLite database of pos_edge and its writer   *)
(* thread (crates/adapters/store-sqlite/src/writer.rs, chain_walk.rs).     *)
(*                                                                         *)
(* One thread executes one command at a time.  A commit is one database    *)
(* transaction that inserts events one by one, each linked to the one      *)
(* before it, and queues each in the outbox; a crash in the middle leaves  *)
(* nothing of it.  The publisher acknowledges a prefix of the outbox, and  *)
(* retention deletes a prefix of the log.  At start-up the chain is walked *)
(* row by row beside the trading.                                          *)
(*                                                                         *)
(* An event is its id.  Ids are numbers, because ULIDs are ordered; they   *)
(* are minted before the commit, so they need not be committed in order.   *)
(* The events 1..LegacyCount predate the chain and have no sequence.       *)
(***************************************************************************)
EXTENDS Integers, FiniteSets

CONSTANTS
  LegacyCount,  \* how many events the log held when the chain was introduced
  EventIds      \* the ids minted since

ASSUME EventLogAssumption ==
  /\ LegacyCount \in Nat
  /\ EventIds \subseteq {n \in Nat : n > LegacyCount}

VARIABLES
  rows,        \* chained events stored: [seq, id, prev, hash]
  legacy,      \* unchained events stored (seq IS NULL)
  outbox,      \* events not acknowledged: [pos, id, seq], seq 0 for unchained
  pos,         \* the next outbox position (AUTOINCREMENT)
  checkpoint,  \* [seq, hash] of the last chained event deleted, seq 0 for none
  tx,          \* the transaction being written: [open, rows, outbox, pos]
  walk,        \* the start-up chain walk: [phase, after, expect]
  acked,       \* history: ids acknowledged to the outbox
  written      \* history: every chained row ever committed

logVars == <<rows, legacy, outbox, pos, checkpoint>>
vars == <<logVars, tx, walk, acked, written>>

Legacy == 1 .. LegacyCount
Ids == Legacy \cup EventIds

-----------------------------------------------------------------------------
\* The chain.

\* An ideal digest of a record and the link it takes: no two inputs agree.
Hash(seq, prev, id) == <<seq, prev, id>>
Genesis == <<>>

NoTx == [open |-> FALSE, rows |-> {}, outbox |-> {}, pos |-> 0]

\* Mutant: the newest row by id, not by sequence.
HeadById(R) == IF R = {} THEN [seq |-> 0, hash |-> Genesis]
               ELSE CHOOSE r \in R : \A q \in R : q.id <= r.id

\* `chain_head`: the row of the highest sequence, whatever retention deleted.
Head(R) == IF R = {} THEN [seq |-> 0, hash |-> Genesis]
           ELSE CHOOSE r \in R : \A q \in R : q.seq <= r.seq

\* Mutant: the head's own sequence, without the step.
NextRowNoStep(R, e) ==
  LET seq == Head(R).seq
      prev == Head(R).hash
  IN  [seq |-> seq, id |-> e, prev |-> prev, hash |-> Hash(seq, prev, e)]

\* `ChainHead::next_link` and the row that takes it.
NextRow(R, e) ==
  LET seq == Head(R).seq + 1
      prev == Head(R).hash
  IN  [seq |-> seq, id |-> e, prev |-> prev, hash |-> Hash(seq, prev, e)]

\* The first row of the outbox, in position order.
FirstOut == CHOOSE o \in outbox : \A p \in outbox : o.pos <= p.pos

-----------------------------------------------------------------------------
\* `commit`: one immediate transaction on the writer thread.

\* Mutant: a rowid without AUTOINCREMENT starts over when the table is empty.
BeginRowid ==
  /\ ~tx.open
  /\ tx' = [open |-> TRUE, rows |-> rows, outbox |-> outbox,
            pos |-> IF outbox = {} THEN 1 ELSE pos]
  /\ UNCHANGED <<logVars, walk, acked, written>>

Begin ==
  /\ ~tx.open
  /\ tx' = [open |-> TRUE, rows |-> rows, outbox |-> outbox, pos |-> pos]
  /\ UNCHANGED <<logVars, walk, acked, written>>

\* One turn of `write_events`. INSERT OR IGNORE: an id that is stored keeps its
\* row, and neither the chain nor the outbox moves. An id is minted once, so one
\* that was deleted does not come back.
WriteEvent(e) ==
  /\ tx.open
  /\ e \notin {r.id : r \in written \ rows}
  /\ e \notin {r.id : r \in tx.rows}
  /\ LET r == NextRow(tx.rows, e) IN
       tx' = [open   |-> TRUE,
              rows   |-> tx.rows \cup {r},
              outbox |-> tx.outbox \cup {[pos |-> tx.pos, id |-> e, seq |-> r.seq]},
              pos    |-> tx.pos + 1]
  /\ UNCHANGED <<logVars, walk, acked, written>>

CommitTx ==
  /\ tx.open
  /\ rows' = tx.rows
  /\ outbox' = tx.outbox
  /\ pos' = tx.pos
  /\ written' = written \cup tx.rows
  /\ tx' = NoTx
  /\ UNCHANGED <<legacy, checkpoint, walk, acked>>

\* A write fails or an inbound order's key is taken: everything rolls back.
RollbackTx ==
  /\ tx.open
  /\ tx' = NoTx
  /\ UNCHANGED <<logVars, walk, acked, written>>

-----------------------------------------------------------------------------
\* Mutant: off by one, so that the row after the prefix leaves with it.
AcknowledgeOneMore(through) ==
  /\ ~tx.open
  /\ outbox' = {o \in outbox : o.pos > through + 1}
  /\ acked' = acked \cup {o.id : o \in {p \in outbox : p.pos <= through}}
  /\ UNCHANGED <<rows, legacy, pos, checkpoint, tx, walk, written>>

\* `acknowledge`: everything up to a position leaves the outbox.
Acknowledge(through) ==
  /\ ~tx.open
  /\ outbox' = {o \in outbox : o.pos > through}
  /\ acked' = acked \cup {o.id : o \in {p \in outbox : p.pos <= through}}
  /\ UNCHANGED <<rows, legacy, pos, checkpoint, tx, walk, written>>

-----------------------------------------------------------------------------
\* `prune_events`: one chunk of a retention sweep. How far it goes is left to
\* the age of the events and the size of the chunk. The first sweep waits for
\* FIRST_SWEEP_DELAY, long past the end of the start-up walk.

\* Mutant: the sweep does not wait for the walk.
SweepAnyTime == ~tx.open

SweepMayRun == ~tx.open /\ walk.phase \in {"intact", "broken"}

\* Mutant: what the link has not acknowledged goes too.
PruneUnchainedUnsynced(through) ==
  /\ SweepMayRun
  /\ legacy # {}
  /\ legacy' = {i \in legacy : i > through}
  /\ UNCHANGED <<rows, outbox, pos, checkpoint, tx, walk, acked, written>>

\* `prune_unchained`: before any chained event, oldest id first, and not while
\* one of them is unacknowledged.
PruneUnchained(through) ==
  /\ SweepMayRun
  /\ outbox # {} => FirstOut.seq # 0
  /\ legacy # {}
  /\ legacy' = {i \in legacy : i > through}
  /\ UNCHANGED <<rows, outbox, pos, checkpoint, tx, walk, acked, written>>

\* Mutant: the head may go too, and the chain starts over.
PruneChainedHead(last) ==
  /\ SweepMayRun
  /\ outbox # {} => FirstOut.seq # 0
  /\ legacy = {}
  /\ last \in rows
  /\ last.seq > checkpoint.seq
  /\ outbox # {} => last.seq < FirstOut.seq
  /\ rows' = {r \in rows : ~(r.seq > checkpoint.seq /\ r.seq <= last.seq)}
  /\ checkpoint' = [seq |-> last.seq, hash |-> last.hash]
  /\ UNCHANGED <<legacy, outbox, pos, tx, walk, acked, written>>

\* `prune_chained`: from the checkpoint, never an unacknowledged event and never
\* the head; the checkpoint moves with the delete.
PruneChained(last) ==
  /\ SweepMayRun
  /\ outbox # {} => FirstOut.seq # 0
  /\ legacy = {}
  /\ last \in rows
  /\ last.seq > checkpoint.seq
  /\ last.seq < Head(rows).seq
  /\ outbox # {} => last.seq < FirstOut.seq
  /\ rows' = {r \in rows : ~(r.seq > checkpoint.seq /\ r.seq <= last.seq)}
  /\ checkpoint' = [seq |-> last.seq, hash |-> last.hash]
  /\ UNCHANGED <<legacy, outbox, pos, tx, walk, acked, written>>

-----------------------------------------------------------------------------
\* `verify_chain`: the checkpoint is one command, and every chunk another, so
\* that commits and acknowledgements fall between them. A chunk here is one row,
\* the finest interleaving.

WalkStart ==
  /\ ~tx.open
  /\ walk.phase = "start"
  /\ walk' = [phase |-> "walking", after |-> checkpoint.seq, expect |-> checkpoint.hash]
  /\ UNCHANGED <<logVars, tx, acked, written>>

\* `chain_break`: a gap, a link to another predecessor, or an edited record. A
\* walk from the beginning anchors on whichever row comes first.
Breaks(r) ==
  \/ walk.after # 0 /\ r.seq # walk.after + 1
  \/ r.prev # walk.expect
  \/ r.hash # Hash(r.seq, r.prev, r.id)

WalkRow ==
  /\ ~tx.open
  /\ walk.phase = "walking"
  /\ LET ahead == {r \in rows : r.seq > walk.after}
         r     == CHOOSE r \in ahead : \A q \in ahead : r.seq <= q.seq
     IN  walk' = IF ahead = {} THEN [walk EXCEPT !.phase = "intact"]
                 ELSE IF Breaks(r) THEN [walk EXCEPT !.phase = "broken"]
                 ELSE [phase |-> "walking", after |-> r.seq, expect |-> r.hash]
  /\ UNCHANGED <<logVars, tx, acked, written>>

\* The process stops, at any point: what was not committed is gone, and the next
\* start walks the chain again.
Crash ==
  /\ tx' = NoTx
  /\ walk' = [phase |-> "start", after |-> 0, expect |-> Genesis]
  /\ UNCHANGED <<logVars, acked, written>>

-----------------------------------------------------------------------------
\* A store that has just applied the chain's migration: `synced` of its events
\* were acknowledged.
Init ==
  /\ \E synced \in 0 .. LegacyCount :
       /\ outbox = {[pos |-> i, id |-> i, seq |-> 0] : i \in (synced + 1) .. LegacyCount}
       /\ acked = 1 .. synced
  /\ rows = {} /\ legacy = Legacy
  /\ pos = LegacyCount + 1
  /\ checkpoint = [seq |-> 0, hash |-> Genesis]
  /\ tx = NoTx
  /\ walk = [phase |-> "start", after |-> 0, expect |-> Genesis]
  /\ written = {}

\* What the log does of itself, without the publisher's acknowledgements.
LogStep ==
  \/ Begin \/ CommitTx \/ RollbackTx
  \/ \E e \in EventIds : WriteEvent(e)
  \/ \E i \in Legacy : PruneUnchained(i)
  \/ \E r \in rows : PruneChained(r)
  \/ WalkStart \/ WalkRow
  \/ Crash

Next == LogStep \/ \E o \in outbox : Acknowledge(o.pos)

Spec == Init /\ [][Next]_vars

-----------------------------------------------------------------------------
RowOK(r) == /\ DOMAIN r = {"seq", "id", "prev", "hash"}
            /\ r.seq \in Nat \ {0} /\ r.id \in EventIds
OutOK(o) == o \in [pos : Nat \ {0}, id : Ids, seq : Nat]

\* Every variable keeps its shape: the tables of the database and the writer.
TypeOK ==
  /\ \A r \in rows \cup written : RowOK(r)
  /\ legacy \subseteq Legacy
  /\ \A o \in outbox : OutOK(o)
  /\ pos \in Nat \ {0}
  /\ DOMAIN checkpoint = {"seq", "hash"} /\ checkpoint.seq \in Nat
  /\ DOMAIN tx = {"open", "rows", "outbox", "pos"} /\ tx.open \in BOOLEAN /\ tx.pos \in Nat
  /\ (\A r \in tx.rows : RowOK(r)) /\ (\A o \in tx.outbox : OutOK(o))
  /\ DOMAIN walk = {"phase", "after", "expect"} /\ walk.after \in Nat
  /\ walk.phase \in {"start", "walking", "intact", "broken"}
  /\ acked \subseteq Ids

\* No committed event is lost on the store's side: it is acknowledged, or it is
\* still queued under the sequence it was stamped with. No commit, rollback,
\* crash or sweep takes one out of the outbox (write_events, prune_events).
NothingLost ==
  /\ \A w \in written : w.id \in acked \/ \E o \in outbox : o.id = w.id /\ o.seq = w.seq
  /\ \A i \in Legacy : i \in acked \/ \E o \in outbox : o.id = i

\* Retention deletes only what the link acknowledged ("an event the link has not
\* acknowledged stays", SqliteStore::prune_events).
PrunedWasSynced ==
  /\ \A w \in written \ rows : w.id \in acked
  /\ \A i \in Legacy \ legacy : i \in acked

\* A position of the chain is given out once, and never again after retention
\* emptied the log behind it ("which would reuse positions the cloud holds",
\* prune_events): the sequences ever committed are 1..n, one event each.
PositionsUsedOnce ==
  /\ \A v, w \in written : (v.seq = w.seq \/ v.id = w.id) => v = w
  /\ \A w \in written : \A n \in 1 .. w.seq : \E v \in written : v.seq = n

\* The walk of an untouched log never reports a break, wherever commits,
\* acknowledgements, sweeps and restarts fall between its chunks.
WalkIntact == walk.phase # "broken"

\* The outbox is in chain order: unchained events first, then by sequence, so
\* that acknowledging a prefix of positions acknowledges a prefix of the chain,
\* which is what lets prune_events stop at its first row.
OutboxInChainOrder ==
  \A o, p \in outbox : o.pos < p.pos => (o.seq = 0 \/ o.seq < p.seq)

\* The log is an outbox for its publisher: positions are never given out twice
\* and leave in order, whatever retention and restarts do in between (Outbox).
Through == IF outbox = {} THEN pos - 1 ELSE FirstOut.pos - 1
Positions == INSTANCE Outbox WITH queued <- pos - 1, through <- Through
ImplementsOutbox == Positions!Spec
=============================================================================
