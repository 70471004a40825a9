# Specifications of pos-framework

TLA+ models of the parts of this repository where steps of several actors, lost
messages, restarts and retries decide whether a store's sales stay right, the TLC
runs that check them on small instances, and TLAPS proofs for every instance.

## The system

A restaurant runs one **edge** (`crates/pos-edge`): a server in the store, with a
SQLite event log, which keeps trading when the internet is gone. **Tills** and
kitchen screens (`ui`) talk to it over HTTP and a WebSocket. The **cloud**
(`crates/pos-cloud`, Postgres) takes the events of all stores, and publishes
configuration, leases, updates and inbound orders back.

```
 till --command--> edge: decide -> commit (event log + outbox) -> publish -> fold
  ^                         |                                        |
  |                         | outbox                                 | frames
  |                         v                                        v
  |                  event publisher --NATS stream | HTTPS-->  cloud ingest -> event_outbox
  +--- WebSocket frames, resync, reads --- fan-out                   |
                                                                     v
       config, lease, OTA, relayed orders  <-- pull loops --   webhooks, reports
```

### Inventory

| Part | State | Operations | What is hard about it | Module |
|---|---|---|---|---|
| Event log (`store-sqlite`) | events, hash chain, outbox, checkpoint | commit, acknowledge, prune, walk | crashes inside a commit, retention racing the walk, ids not in commit order | `EventLog` |
| Publisher and links (`event_publish.rs`, `link-nats`, `cloud-sync-http`) | batch in flight, link up | read, send, acknowledge a prefix | lost answers, a batch accepted in part, late requests | `Delivery` |
| Cloud ingest (`cursor.rs`, `store-postgres` append) | stream, cursor, events, event_outbox | pull, ingest, acknowledge, return | redelivery, crash between store and acknowledgement, batches of several stores | `Delivery` |
| Fan-out (`fanout.rs`, `ws.rs`) | sequence, replay buffer, channel | publish, resume, pump | a frame published during a reconnect, lag, restarts | `LiveLink` |
| Till link (`live.ts`, `engine.ts`) | position, held frames, reads | receive, resync, read, retry | reads and frames on two connections in any order | `LiveLink` |
| Sales core (`app/`, `pos-core` machines) | tables, orders, lines, bills, receipt counter | the commands of a till | state read before an await and used after it | `Sales` |
| Projection and rebuild (`projection/`) | everything a command reads | live fold, replay | two ways to the same state | `Sales` |
| Order relay and intake | cloud queue, parked callers, intake ledger | submit, pull, make, acknowledge | redelivery, timeout against a late answer, failure half-way | planned |
| Print queue and agents | jobs, claims, last job written | enqueue, claim, print, acknowledge, expire | a claim that lapses while printing | planned |
| Lease, config pull | generation held, version held, receipt floor | bump, pull, weigh, take over | a replaced box that is offline, steps of a pull that fail | planned |
| Webhooks | cursor, breaker | deliver, retry, disable | a cursor over ids that arrive out of order, restarts | planned |
| Shifts, anchors | shift state, anchor ledger | count, close, anchor | a failure between the commit and the fold | planned |
| OTA | release, boot marker, self-test | decide, install, confirm, revert | crashes between the steps, the same bad release twice | planned |
| Back office, reports, wire types, rendering, adapters, screens | rows edited one at a time, or none | create, read, update, delete | little that interleaves | not planned |

The models cover the protocols and not the bulk of the code: some 3,400 of more than half
a million source lines, of which most are back office, screens, wire types and adapters.

`PROJECT.json` lists every component with the reason where it is left out, the
hazards at their lines, and which source lines each definition stands for.

## Modules

### EventLog

The SQLite database and its one writer thread (`writer.rs`, `chain_walk.rs`).
`rows`, `legacy`, `outbox`, `checkpoint` are its tables; `tx` is the transaction
being written, one `WriteEvent` per turn of `write_events`, so that `Crash` and
`RollbackTx` fall between two events of a commit. `PruneUnchained` and
`PruneChained` are the two halves of `prune_events`; how many rows one call deletes
is left free, because it depends on ages. `WalkRow` is the start-up walk with the
smallest chunk. `acked` and `written` are history variables of the properties.

Abstractions: an event is its id; ids are minted before the commit, so they are
committed in any order. The hash is an injective tuple. A sweep waits for the end of
the walk, as `FIRST_SWEEP_DELAY` makes it in practice (`SweepMayRun`; its mutant shows
that `WalkIntact` depends on it).

`Outbox` is what the log promises its publisher. `ImplementsOutbox` maps the tables
to it: `queued` is the last position given out, `through` the one before the first
row left.

### Delivery

Every store's publisher, both links, the fleet's stream, the cloud's cursor and
append. An event is `<<store, position>>`. The NATS link sends one event after another
and a failure leaves a prefix accepted, and perhaps one more that the stream took
without the answer arriving (`SendAckLost`). An HTTPS request can be served after its
sender gave up (`GiveUp`, then `Serve`). The cursor pulls, ingests, acknowledges
message by message, and may stop between any two of these. `OneStore` is the rule of
`append` that a batch names one store. `cloud` is a set because of its primary key;
`handed` counts rows of `event_outbox`, which has none. The broker's redelivery
(`AckWait`) is external and taken from how `consumer.rs` uses it.

`ExactlyOnce` is the abstract promise; `UsesOutbox` says that each publisher takes only
steps the `Outbox` of its store allows. So EventLog and Delivery meet in one abstract
module: one implements it, the other uses it.

### LiveLink

What a command's event goes through from the commit to the till's screen. `stage` is
how far the handler of each event is; handlers in `FoldFirst` (the sold-out marks)
fold before they publish, the others after. `frames` is the replay buffer, `sent` all
frames of the stream, `feed` a socket's place in the broadcast channel. On the device
are `position`, `held`, `again`, the one read in flight, a fresh read `queued` behind
it, and the retry `timer`. All of the device's reads are one read, and what it shows
is the set of events its view reflects.

### Sales

Tables, orders, lines and bills. Every command is taken apart as the code is: it
reads the projection under the lock and decides (`SeatTable`, `SettleBill`, ...), a
settle awaits its number (`AllocateReceipt`), the event ids are minted (`Prepare`),
the commit is awaited (`Commit`, `Fail`), and the result is folded (`Finish`).
`Restart` stops the process anywhere and rebuilds. `FoldLive` is what the commands do
to the projection; `Fold` is what their events do on replay; they are different code
in the repository and different definitions here.

The log itself is not kept. `recent` holds the commands minted since the first one
not yet folded, in id order, and `base` what everything before folds to. Nothing can
be ordered before `base` any more, so this loses nothing.

Abstractions: a command's events are minted together; what a command reads under
several short locks is read at once; a tender pays a whole bill, in cash, into one
drawer; a split makes two parts; discounts, taxes, tips, quantities, courses, approvals
and flow guards are left out, since they change amounts or who may act and not which
steps may follow which.

`Apart` states what the passing runs assume of the staff: two tills do not work on one
order or table at the same instant, except that each may settle a part of its own.
The code does not enforce it; see the findings.

## Runs

| Run | Instance | Distinct states | Shows |
|---|---|---|---|
| `event_log` | 2 events before the chain, 3 after | 4.5 k | No event lost, deleted unsynced, or given a used position; the walk is clean; the log is an `Outbox`. |
| `delivery` | one store per link, 2 events each, 2 faults, stream of 5 | 119 k | Nothing falls between two places, nothing is acknowledged before it is stored, each event is handed on once, publishers keep to the `Outbox`, and every event lands. |
| `livelink` | one device, a sale and two marks, one drop, restart and failed read | 697 k | The replay is dense, frames have no hole without a resync, a device in step shows every mark, a resync's read undoes nothing, and a device always gets in step again. |
| `sales_floor` | 2 tables, 2 orders, 2 lines, 2 bills, one command at a time | 203 k | An open bill is owed where its table waits for it, no sold line leaves unbilled, a paid bill stays paid. |
| `sales_parts` | 1 table, 2 tills, 1 order, 2 lines, 3 bills, paid bills voided | 83 k | With parts split, merged, voided and paid, two at once: a table that waits has something to be paid, each line is charged once, each bill is paid once, receipt numbers are distinct, the drawer holds the settled bills, and a restart rebuilds what is shown. |
| `delivery_fleet` | 2 stores on the stream | violation | See findings. |
| `livelink_sale` | one command, no fault | violation | See findings. |
| `sales_void_table` | 1 table, 2 orders, paid bills voided | violation | See findings. |
| `sales_settle_race` | 2 tills, `Apart` false | violation | See findings. |

**Bounds.** Capacities of one (replay buffer, channel, held frames) put every limit
within reach of two frames. Two events per store and batches of two give a batch that
is accepted in part. The stream of five holds both events with the copies that two
faults can add before them, and is full when the faults add more, so a full stream
refuses a publisher in the run. Only one store is on the stream: with two,
`EveryEventLands` fails (finding 1), while the safety properties are proved for any fleet. One device is enough, because devices share only the
edge's side, which none of them changes. Three bills are a bill and the two parts of
it; two lines are the fewest a bill can be split by. Commands on different orders and
tables share only the receipt counter, so one order with two tills and two orders with
one command at a time cover each other. `MaxRecent` bounds the commands in flight;
three cover two tills whose commands overlap in a chain. Symmetry (tables, tills) is
used only with invariants and one action property.

**Deadlock** is left on in `event_log` and the Sales runs, where it says little, since a
crash or restart is always possible. In `delivery` and `livelink` it is off: with all
events delivered and all faults spent the system rests.

**Fairness.** `Delivery!FairSpec`: the publisher and the cursor are loops that only
sleep for bounded times (`EventPublisher::run`, `cursor::run`), a request that reached
the cloud is served, the broker's acknowledgement wait ends. No fairness on commits,
faults or restarts. `LiveLink!Fairness`: a handler runs to its end, the reconnect timer
fires, the pump and the browser's event loop take what is ready, a read ends, one way
or the other. Faults are bounded by budgets, so liveness says: once they are over.

**Mutants.** Each property of each passing run has a mutant of a definition it depends
on, written beside that definition and marked as such, under which TLC refutes it.

## Findings

1. `delivery_fleet`: the cursor hands a pull to one append, and the append refuses
   two stores in one batch; the batch is returned and pulled again for ever, and
   neither store's events land, although ADR-0087 says that "every event lands".
2. `sales_void_table`: voiding a paid bill moves the bill's table although other
   guests sit there now; their open bill can then not be paid.
3. `sales_settle_race`: two tills that settle one bill at once both pay it; the
   machine that makes it "a one-time transition" is asked before two awaits and not
   again.
4. `livelink_sale`: a till that subscribes between a command's publish and its fold
   reads the old state and never shows the change.

The same gap between read and fold is why the Sales runs assume `Apart`: the hazards
in `PROJECT.json` name the places (`open.rs`, `lines.rs`, `fold.rs`). Other limits of
the checked statements are in the hazards' notes too: the retry of a resync's failed
read holds no frames; the stream keeps what was acknowledged, so its ceiling counts
every event ever published; a receipt number allocated to a settle that failed stays
with its bill.

## Proofs

`EventLogProofs` and `DeliveryProofs` prove, for every value of the constants allowed
by `EventLogAssumption` and `DeliveryAssumption` (any set of ids above the unchained ones; any fleet in
which a store has one link, any batch sizes, stream limit, and bounds on events and faults), the type invariants and all safety
properties of the runs `event_log` and `delivery`, and the three refinements.

**EventLogProofs.** `IndInv` is `TypeOK` with five facts. `ChainOK`: the rows are a
gapless, correctly linked chain above the checkpoint. `QueueOK`: the outbox has its
positions without a hole, is in chain order, and holds every stored event that is not
acknowledged. `HistoryOK`: what was written is stored, or was acknowledged and lies
below the checkpoint. `TxOK`: the open transaction is a correct extension of the log.
`WalkOK`: the walk stands at the checkpoint or at a row and expects its hash. None of the properties is inductive alone: that
retention never deletes an unsynced event needs the outbox's order, which needs the
chain's, which needs that the head is never deleted. There is one lemma per action;
`Invariance` combines them, and each property follows from `IndInv`. `WalkNeverBreaks`
rests on `SweepMayRun`: the code has a delay of ten minutes there, not a lock. `LogIsAnOutbox`
shows that each step queues, acknowledges or stutters.

**DeliveryProofs.** `IndInv` is `TypeOK` with: `PubsOK`, everything up to what a
publisher counts as accepted is on the stream unacknowledged or in the cloud;
`PostsOK`, a request at the cloud carries queued events, and the one its publisher
waits for was sent for the batch it holds; `KnownOK`, only committed events are
anywhere; `CursorOK`, a batch the cursor acknowledges is stored. `AcknowledgedIsStored`
and `HandedOnce` are conjuncts themselves. `NothingFalls` needs them: an event leaves
the outbox on a publisher's count, and the stream on the cursor's acknowledgement.

The fair runs' liveness (`EveryEventLands`, `CatchesUp`) and everything about
`LiveLink` and `Sales` is model-checked only. Liveness under fairness is out of the
prover's reach; the safety of the other two modules is future work. Taken on trust by
the models, not proved: SQLite's and Postgres' transactions, JetStream's redelivery,
and an ideal hash.

## Plan

In this order; each new module comes with its run, mutants and, where it is small
enough, an inductive invariant.

1. **Relay** (`relay.rs`, `relay_client.rs`, `order_in.rs`): submit, park and wake,
   pull, make, acknowledge, look-up, with lost answers and timeouts. Abstract
   specification: one order per reference, and an answer that agrees with it. Question:
   can a caller be told no for an order the kitchen has?
2. **PrintQueue** with the agent: claims that lapse, jobs that expire, the last id
   written per printer. Question: is a job printed twice, or two at once on one head?
3. **Lease** with the config pull and the receipt floor: a replaced box opens nothing
   new after its first pull, two boxes never print one number.
4. **Webhooks**: over a log that fills in commit order and is read in id order, is
   every event delivered?
5. **Shifts and anchors**, **OTA**: the failure between commit and fold; crash at each
   step of an install.
6. Proofs: `Sales` (receipt numbers distinct, from the counter's invariant; the type
   invariant; with one till, that the projection is what a rebuild yields), `LiveLink`
   (`ReplayDense`, `NextFrameContinues`), then the new modules' invariants.

## Checking it

```
tlc -config EventLog.cfg MCEventLog        # and likewise for the other runs
tlapm EventLogProofs.tla
tlapm DeliveryProofs.tla
```

The `MC` modules declare the configurations' model values and, for Sales, the symmetry. Model checking takes seconds to about a minute per run, the proofs
some minutes each.
