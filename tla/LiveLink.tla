------------------------------ MODULE LiveLink ------------------------------
(***************************************************************************)
(* The live link of a store: how what the edge commits reaches the screen  *)
(* of a till.                                                              *)
(*                                                                         *)
(*   handlers   --publish-->  fan-out  --pump-->  socket  -->  LiveLink    *)
(*      |                     (replay buffer,                     |        *)
(*      +---fold--> projection  broadcast channel)                |        *)
(*                      |                                         |        *)
(*                      +-------------- HTTP read ----------------+        *)
(*                                                                         *)
(* Edge: pos-edge-app/src/fanout.rs, app/publish.rs, app/orders/sold_out.rs*)
(* and pos-edge/src/http/ws.rs.  Device: ui/src/api/live.ts and            *)
(* ui/src/state/engine.ts.  An event is an element of Events; the frame of *)
(* an event is its event with the number the fan-out gave it.              *)
(***************************************************************************)
EXTENDS Naturals, Sequences, FiniteSets, SequencesExt

CONSTANTS
  None,             \* no position, nothing held, no read
  Devices,          \* the tills of the store
  Events,           \* the committed changes of the run, each by its own handler
  FoldFirst,        \* those whose handler folds before it publishes (sold-out marks)
  ReplayCapacity,   \* REPLAY_CAPACITY
  FanoutCapacity,   \* FANOUT_CAPACITY
  HeldLimit,        \* HELD_LIMIT
  SocketBuffer,     \* frames a socket takes before `send` waits
  MaxRestarts,      \* bound: edge restarts
  MaxDrops,         \* bound: sockets lost
  MaxFailures       \* bound: failed reads

ASSUME LiveLinkAssumption ==
  /\ IsFiniteSet(Devices) /\ IsFiniteSet(Events)
  /\ FoldFirst \subseteq Events
  /\ {ReplayCapacity, HeldLimit, MaxRestarts, MaxDrops, MaxFailures} \subseteq Nat
  /\ {FanoutCapacity, SocketBuffer} \subseteq Nat \ {0}

VARIABLES
  stage,     \* each handler: "idle", "committed", "published", "folded", "done"
  served,    \* the events the projection serves
  stream,    \* which process's fan-out is running: `stream_id`
  frames,    \* the replay buffer: frames [seq, event], oldest first
  last,      \* last_sequence
  sent,      \* history: every frame of this stream, the n-th at n
  link,      \* each device's socket: "closed" or "open"
  feed,      \* each socket's receiver: the next sequence it takes
  wire,      \* each socket: messages sent and not yet received
  position,  \* each device: the position it holds, or None
  held,      \* each device: frames held while a resync's read is out, or None
  again,     \* each device: #again
  read,      \* each device: the read in flight, or None
  queued,    \* each device: a fresh read waits behind the one in flight
  timer,     \* each device: a failed read is to be retried
  retried,   \* history: a retried read was applied since the last resync's
  view,      \* each device: the events its store reflects
  budget     \* what is left of the three bounds

edgeVars == <<stage, served, stream, frames, last, sent>>
socketVars == <<link, feed, wire>>
readVars == <<read, queued, timer, retried, view>>
deviceVars == <<position, held, again, readVars>>
vars == <<edgeVars, socketVars, deviceVars, budget>>

Resync == [kind |-> "resync"]
Frame(s, e) == [kind |-> "frame", stream |-> stream, seq |-> s, event |-> e]

-----------------------------------------------------------------------------
\* The replay buffer and the channel.

OldestSequence == last - Len(frames) + 1

\* Mutant of After: an evicted frame is not noticed.
AfterIgnoringEviction(sequence) ==
  IF sequence > last THEN None
  ELSE SelectSeq(frames, LAMBDA f : f.seq > sequence)

\* `ReplayBuffer::after`: the frames after a sequence, or None for a Gap.
After(sequence) ==
  IF sequence > last \/ sequence + 1 < OldestSequence
  THEN None
  ELSE SubSeq(frames, sequence + 1 - OldestSequence + 1, Len(frames))

\* `Fanout::resume`: a position on another stream cannot be replayed.
Resume(pos) == IF pos.stream = stream THEN After(pos.seq) ELSE None

\* Mutant of Push: the buffer keeps one frame too many.
PushOffByOne(buffer, f) ==
  LET grown == Append(buffer, f)
      over  == IF Len(grown) > ReplayCapacity + 1 THEN 1 ELSE 0
  IN  SubSeq(grown, over + 1, Len(grown))

\* `ReplayBuffer::push`: the oldest frames leave once the buffer is full.
Push(buffer, f) ==
  LET grown == Append(buffer, f)
      over  == IF Len(grown) > ReplayCapacity THEN Len(grown) - ReplayCapacity ELSE 0
  IN  SubSeq(grown, over + 1, Len(grown))

\* The oldest frame the broadcast channel still holds for a slow receiver.
OldestInChannel == IF last > FanoutCapacity THEN last - FanoutCapacity + 1 ELSE 1

-----------------------------------------------------------------------------
\* The edge's handlers.

\* The handler's transaction commits.
Commit(e) ==
  /\ stage[e] = "idle"
  /\ stage' = [stage EXCEPT ![e] = "committed"]
  /\ UNCHANGED <<served, stream, frames, last, sent, socketVars, deviceVars, budget>>

\* A command publishes when it has committed, and folds its projection after;
\* a sold-out mark is folded first.
Publish(e) ==
  /\ stage[e] = IF e \in FoldFirst THEN "folded" ELSE "committed"
  /\ LET f == Frame(last + 1, e) IN
       /\ frames' = Push(frames, f)
       /\ last' = last + 1
       /\ sent' = Append(sent, f)
  /\ stage' = [stage EXCEPT ![e] = IF e \in FoldFirst THEN "done" ELSE "published"]
  /\ UNCHANGED <<served, stream, socketVars, deviceVars, budget>>

Fold(e) ==
  /\ stage[e] = IF e \in FoldFirst THEN "committed" ELSE "published"
  /\ served' = served \cup {e}
  /\ stage' = [stage EXCEPT ![e] = IF e \in FoldFirst THEN "folded" ELSE "done"]
  /\ UNCHANGED <<stream, frames, last, sent, socketVars, deviceVars, budget>>

\* The process stops and starts: handlers die where they stand, the projection
\* is rebuilt from the log, and the new fan-out has a new stream. Sockets close
\* and the reads waiting for an answer fail.
Restart ==
  /\ budget.restarts > 0
  /\ budget' = [budget EXCEPT !.restarts = @ - 1]
  /\ stage' = [e \in Events |-> IF stage[e] = "idle" THEN "idle" ELSE "done"]
  /\ served' = {e \in Events : stage[e] # "idle"}
  /\ stream' = stream + 1
  /\ frames' = <<>> /\ last' = 0 /\ sent' = <<>>
  /\ link' = [d \in Devices |-> "closed"]
  /\ wire' = [d \in Devices |-> <<>>]
  /\ read' = [d \in Devices |->
                IF read[d] # None /\ read[d].phase = "asked"
                THEN [phase |-> "lost"] ELSE read[d]]
  /\ UNCHANGED <<feed, position, held, again, queued, timer, retried, view>>

-----------------------------------------------------------------------------
\* The socket: `pump`.

\* Mutant of Connect: a device with no position is served live.
ConnectLive(d) ==
  /\ link[d] = "closed"
  /\ link' = [link EXCEPT ![d] = "open"]
  /\ feed' = [feed EXCEPT ![d] = last + 1]
  /\ LET missed == IF position[d] = None THEN <<>> ELSE Resume(position[d])
     IN  wire' = [wire EXCEPT ![d] = IF missed = None THEN <<Resync>> ELSE missed]
  /\ UNCHANGED <<edgeVars, deviceVars, budget>>

\* A device connects. It names its position, or nothing it can be resumed from;
\* the receiver subscribes before anything is sent.
Connect(d) ==
  /\ link[d] = "closed"
  /\ link' = [link EXCEPT ![d] = "open"]
  /\ feed' = [feed EXCEPT ![d] = last + 1]
  /\ LET missed == IF position[d] = None THEN None ELSE Resume(position[d])
     IN  wire' = [wire EXCEPT ![d] = IF missed = None THEN <<Resync>> ELSE missed]
  /\ UNCHANGED <<edgeVars, deviceVars, budget>>

\* One turn of the pump: the next frame, or `resync` when the receiver lagged.
\* A receiver that lagged goes on from the oldest frame the channel holds.
Pump(d) ==
  /\ link[d] = "open"
  /\ Len(wire[d]) < SocketBuffer
  /\ feed[d] <= last
  /\ IF feed[d] < OldestInChannel
     THEN /\ wire' = [wire EXCEPT ![d] = Append(@, Resync)]
          /\ feed' = [feed EXCEPT ![d] = OldestInChannel]
     ELSE /\ wire' = [wire EXCEPT ![d] = Append(@, sent[feed[d]])]
          /\ feed' = [feed EXCEPT ![d] = @ + 1]
  /\ UNCHANGED <<edgeVars, link, deviceVars, budget>>

\* The network loses the socket, and what was on its way.
Drop(d) ==
  /\ link[d] = "open"
  /\ budget.drops > 0
  /\ budget' = [budget EXCEPT !.drops = @ - 1]
  /\ link' = [link EXCEPT ![d] = "closed"]
  /\ wire' = [wire EXCEPT ![d] = <<>>]
  /\ UNCHANGED <<edgeVars, feed, deviceVars>>

-----------------------------------------------------------------------------
\* The device: `LiveLink`'s message handler and the reads it starts.

\* Whether a frame skipped something since the position held.
Skipped(pos, f) == pos # None /\ (f.stream # pos.stream \/ f.seq # pos.seq + 1)

\* A fresh read starts, or waits behind the one in flight.
StartFresh(d) ==
  IF read[d] = None
  THEN /\ read' = [read EXCEPT ![d] = [phase |-> "asked"]]
       /\ timer' = [timer EXCEPT ![d] = FALSE]
       /\ UNCHANGED queued
  ELSE /\ queued' = [queued EXCEPT ![d] = TRUE]
       /\ UNCHANGED <<read, timer>>

\* `resync`: the position is spent, and everything is read again while the
\* frames that arrive are held; when a read is out already it is made again.
ReceiveResync(d) ==
  /\ wire[d] # <<>> /\ Head(wire[d]) = Resync
  /\ wire' = [wire EXCEPT ![d] = Tail(@)]
  /\ position' = [position EXCEPT ![d] = None]
  /\ IF held[d] # None
     THEN /\ again' = [again EXCEPT ![d] = TRUE]
          /\ UNCHANGED <<held, read, queued, timer>>
     ELSE /\ held' = [held EXCEPT ![d] = <<>>]
          /\ again' = [again EXCEPT ![d] = FALSE]
          /\ StartFresh(d)
  /\ UNCHANGED <<edgeVars, link, feed, retried, view, budget>>

\* Mutant of Show: a frame is applied at once, held or not.
ShowAtOnce(d, holding, e) == view[d] \cup {e}

\* What a device shows after a frame: one that is held waits.
Show(d, holding, e) == IF holding = None THEN view[d] \cup {e} ELSE view[d]

\* A frame: a skipped one starts a resync of its own, and the frame is applied,
\* or held, or drops every frame held once too many are.
ReceiveFrame(d) ==
  /\ wire[d] # <<>> /\ Head(wire[d]) # Resync
  /\ wire' = [wire EXCEPT ![d] = Tail(@)]
  /\ LET f        == Head(wire[d])
         skip     == Skipped(position[d], f)
         starts   == skip /\ held[d] = None
         holding  == IF starts THEN <<>> ELSE held[d]
         overflow == holding # None /\ Len(holding) >= HeldLimit
     IN  /\ position' = [position EXCEPT ![d] = [stream |-> f.stream, seq |-> f.seq]]
         /\ held' = [held EXCEPT ![d] =
              IF holding = None THEN None
              ELSE IF overflow THEN <<>> ELSE Append(holding, f.event)]
         /\ again' = [again EXCEPT ![d] =
              overflow \/ (IF starts THEN FALSE ELSE @ \/ skip)]
         /\ view' = [view EXCEPT ![d] = Show(d, holding, f.event)]
         /\ IF starts THEN StartFresh(d) ELSE UNCHANGED <<read, queued, timer>>
  /\ UNCHANGED <<edgeVars, link, feed, retried, budget>>

\* Mutant of Answer: the frames kept, not the projection.
AnswerFromBuffer(d) ==
  /\ read[d] # None /\ read[d].phase = "asked"
  /\ read' = [read EXCEPT ![d] = [phase |-> "answered", body |-> ToSet(frames)]]
  /\ UNCHANGED <<edgeVars, socketVars, position, held, again, queued, timer, retried,
                 view, budget>>

\* The edge answers a read from its projection.
Answer(d) ==
  /\ read[d] # None /\ read[d].phase = "asked"
  /\ read' = [read EXCEPT ![d] = [phase |-> "answered", body |-> served]]
  /\ UNCHANGED <<edgeVars, socketVars, position, held, again, queued, timer, retried,
                 view, budget>>

\* Mutant of AfterRead: `again` is not reset before the read is repeated.
AfterReadKeepsAgain(d, store) ==
  IF queued[d] \/ (held[d] # None /\ again[d])
  THEN /\ read' = [read EXCEPT ![d] = [phase |-> "asked"]]
       /\ queued' = [queued EXCEPT ![d] = FALSE]
       /\ view' = [view EXCEPT ![d] = store]
       /\ UNCHANGED <<again, held>>
  ELSE /\ read' = [read EXCEPT ![d] = None]
       /\ held' = [held EXCEPT ![d] = None]
       /\ view' = [view EXCEPT ![d] =
                     store \cup (IF held[d] = None THEN {} ELSE ToSet(held[d]))]
       /\ UNCHANGED <<queued, again>>

\* What follows a read that settled: the fresh read that waited, the resync's
\* read again, or the frames held, applied over `store`.
AfterRead(d, store) ==
  IF queued[d] \/ (held[d] # None /\ again[d])
  THEN /\ read' = [read EXCEPT ![d] = [phase |-> "asked"]]
       /\ queued' = [queued EXCEPT ![d] = FALSE]
       /\ again' = [again EXCEPT ![d] = IF queued[d] THEN @ ELSE FALSE]
       /\ view' = [view EXCEPT ![d] = store]
       /\ UNCHANGED held
  ELSE /\ read' = [read EXCEPT ![d] = None]
       /\ held' = [held EXCEPT ![d] = None]
       /\ view' = [view EXCEPT ![d] =
                     store \cup (IF held[d] = None THEN {} ELSE ToSet(held[d]))]
       /\ UNCHANGED <<queued, again>>

\* An answer arrives and replaces what the device's store held.
SettleRead(d) ==
  /\ read[d] # None /\ read[d].phase = "answered"
  /\ AfterRead(d, read[d].body)
  /\ timer' = [timer EXCEPT ![d] = FALSE]
  /\ retried' = [retried EXCEPT ![d] = held[d] = None \/ queued[d]]
  /\ UNCHANGED <<edgeVars, socketVars, position, budget>>

\* A read fails and is to be made again after a delay; the frames held are
\* applied all the same.
FailRead(d) ==
  /\ read[d] # None
  /\ \/ /\ read[d].phase = "lost"
        /\ UNCHANGED budget
     \/ /\ read[d].phase # "lost"
        /\ budget.failures > 0
        /\ budget' = [budget EXCEPT !.failures = @ - 1]
  /\ AfterRead(d, view[d])
  /\ timer' = [timer EXCEPT ![d] = read'[d] = None]
  /\ UNCHANGED <<edgeVars, socketVars, position, retried>>

\* The retry's timer: a read, unless one is in flight already.
RetryRead(d) ==
  /\ timer[d]
  /\ timer' = [timer EXCEPT ![d] = FALSE]
  /\ read' = [read EXCEPT ![d] = IF @ = None THEN [phase |-> "asked"] ELSE @]
  /\ UNCHANGED <<edgeVars, socketVars, position, held, again, queued, retried, view, budget>>

-----------------------------------------------------------------------------
Init ==
  /\ stage = [e \in Events |-> "idle"]
  /\ served = {}
  /\ stream = 1 /\ frames = <<>> /\ last = 0 /\ sent = <<>>
  /\ link = [d \in Devices |-> "closed"]
  /\ feed = [d \in Devices |-> 1]
  /\ wire = [d \in Devices |-> <<>>]
  /\ position = [d \in Devices |-> None]
  /\ held = [d \in Devices |-> None]
  /\ again = [d \in Devices |-> FALSE]
  /\ read = [d \in Devices |-> None]
  /\ queued = [d \in Devices |-> FALSE]
  /\ timer = [d \in Devices |-> FALSE]
  /\ retried = [d \in Devices |-> FALSE]
  /\ view = [d \in Devices |-> {}]
  /\ budget = [restarts |-> MaxRestarts, drops |-> MaxDrops, failures |-> MaxFailures]

Next ==
  \/ \E e \in Events : Commit(e) \/ Publish(e) \/ Fold(e)
  \/ Restart
  \/ \E d \in Devices : \/ Connect(d) \/ Pump(d) \/ Drop(d)
                        \/ ReceiveResync(d) \/ ReceiveFrame(d)
                        \/ Answer(d) \/ SettleRead(d) \/ FailRead(d) \/ RetryRead(d)

Spec == Init /\ [][Next]_vars

\* A handler runs to its end, a closed socket is reconnected by its timer, the
\* pump and the device's event loop take what is ready, and a read ends.
Fairness ==
  /\ \A e \in Events : WF_vars(Publish(e) \/ Fold(e))
  /\ \A d \in Devices : /\ WF_vars(Connect(d)) /\ WF_vars(Pump(d))
                        /\ WF_vars(ReceiveResync(d) \/ ReceiveFrame(d))
                        /\ WF_vars(Answer(d) \/ SettleRead(d) \/ FailRead(d))
                        /\ WF_vars(RetryRead(d))

FairSpec == Spec /\ Fairness

-----------------------------------------------------------------------------
Position == [stream : Nat, seq : Nat]
FrameSet == [kind : {"frame"}, stream : Nat, seq : Nat, event : Events]

\* Every variable keeps its shape: the fan-out, the sockets and the devices.
TypeOK ==
  /\ stage \in [Events -> {"idle", "committed", "published", "folded", "done"}]
  /\ served \subseteq Events
  /\ stream \in Nat /\ last \in Nat
  /\ frames \in Seq(FrameSet) /\ sent \in Seq(FrameSet)
  /\ link \in [Devices -> {"closed", "open"}]
  /\ feed \in [Devices -> Nat]
  /\ \A d \in Devices : /\ wire[d] \in Seq(FrameSet \cup {Resync})
                        /\ position[d] = None \/ position[d] \in Position
                        /\ held[d] = None \/ held[d] \in Seq(Events)
                        /\ \/ read[d] = None
                           \/ read[d] \in [phase : {"asked", "lost"}]
                           \/ read[d] \in [phase : {"answered"}, body : SUBSET Events]
  /\ again \in [Devices -> BOOLEAN] /\ queued \in [Devices -> BOOLEAN]
  /\ timer \in [Devices -> BOOLEAN] /\ retried \in [Devices -> BOOLEAN]
  /\ view \in [Devices -> SUBSET Events]
  /\ budget \in [restarts : Nat, drops : Nat, failures : Nat]

\* "Dense and in order: the frames held are exactly the sequences from
\* oldest_sequence to last_sequence" (fanout.rs, ReplayBuffer): what the buffer
\* answers by position is the suffix of everything sent on the stream.
ReplayDense ==
  /\ Len(frames) <= ReplayCapacity
  /\ last = Len(sent)
  /\ \A i \in DOMAIN frames : frames[i] = sent[OldestSequence + i - 1]

Follows(pos, f) == f.stream = pos.stream /\ f.seq = pos.seq + 1
IsFrame(m) == m # Resync

\* "every frame is either in the replay or on the receiver and never both:
\* nothing is sent twice, and nothing falls between the two" (Fanout::resume).
\* The next frame a device takes always continues the position it holds, across
\* reconnects, replays, lag and restarts: only a `resync` breaks the sequence.
NextFrameContinues ==
  \A d \in Devices :
    /\ \A i \in 1 .. Len(wire[d]) - 1 :
         IsFrame(wire[d][i]) /\ IsFrame(wire[d][i + 1]) => Follows(wire[d][i], wire[d][i + 1])
    /\ position[d] # None /\ wire[d] # <<>> /\ IsFrame(Head(wire[d]))
         => Follows(position[d], Head(wire[d]))

\* A device with nothing on its way: connected, everything received, no read
\* out and none to be retried.
InStep(d) ==
  /\ link[d] = "open" /\ wire[d] = <<>> /\ feed[d] > last
  /\ held[d] = None /\ read[d] = None /\ ~timer[d]

\* A device in step reflects every finished sold-out mark, whatever it missed,
\* however its socket dropped, lagged or was replayed, and across restarts:
\* the read a `resync` starts lands after the subscription. (Not so after a
\* retried read, which is made with no frames held.)
InStepShowsMarks ==
  \A d \in Devices : InStep(d) /\ ~retried[d] =>
    \A e \in FoldFirst : stage[e] = "done" => e \in view[d]

\* The same of every command: "reads what is open once the edge says `resync`
\* ... what was sent before it was subscribed would otherwise never reach it"
\* (docs/architecture.md:24).
InStepShowsAll ==
  \A d \in Devices : InStep(d) /\ ~retried[d] =>
    \A e \in Events : stage[e] = "done" => e \in view[d]

\* The read a resync waits for never takes back a sold-out mark the device
\* already shows: it is a fresh read, asked after the frame was applied, or the
\* frame was held until it settled (LiveLink.#catchUp, engine.ts load).
ResyncReadKeepsMarks ==
  [][\A d \in Devices : held[d] # None /\ ~queued[d]
       => (view[d] \cap FoldFirst) \subseteq view'[d]]_vars

\* A device is in step again and again: no drop, lag, overflow of the held
\* frames, failed read or restart leaves it waiting for ever.
CatchesUp == \A d \in Devices : []<>InStep(d)
=============================================================================
