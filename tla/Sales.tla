------------------------------- MODULE Sales -------------------------------
(***************************************************************************)
(* The sales core of a store's edge: tables, orders, lines and bills, the  *)
(* commands tills send about them, and the projection they read.           *)
(*                                                                         *)
(* A command reads the projection under its lock and decides, lets the     *)
(* lock go, mints the ids of its events, awaits the commit, and takes the  *)
(* lock again to fold what it committed into the projection.  Nothing      *)
(* holds two commands apart between the read and the fold.  A settle also  *)
(* awaits its receipt number before it mints.  On boot the projection is   *)
(* rebuilt from the log, in the order of the event ids.                    *)
(*                                                                         *)
(* Only the part of the log a later fold can still be ordered before is    *)
(* kept: `recent' holds the commands whose ids are minted, in id order,    *)
(* from the first one not folded yet; `base' is what everything before it  *)
(* folds to.  A command's own events are minted together.  Money is        *)
(* counted in bills: a tender pays one bill, in cash.                      *)
(***************************************************************************)
EXTENDS Integers, FiniteSets, SequencesExt

CONSTANTS
    Tables,        \* the store's tables
    Tills,         \* requests being served at once: one command each
    MaxOrders,     \* bound: orders opened
    MaxLines,      \* bound: lines rung up
    MaxBills,      \* bound: bills opened, the parts of a split included
    MaxRecent,     \* bound: commands minted from the first unfinished one on
    VoidsPaid,     \* whether somebody holds billing.bill.void_settled
    Apart,         \* whether the staff keep to one till per order at a time
    None           \* no table, order, line, bill or till

ASSUME SalesAssumption ==
    /\ MaxOrders \in Nat /\ MaxLines \in Nat /\ MaxBills \in Nat
    /\ MaxRecent \in Nat
    /\ VoidsPaid \in BOOLEAN /\ Apart \in BOOLEAN
    /\ None \notin Tables \cup Tills \cup Nat

Orders == 1 .. MaxOrders
Lines == 1 .. MaxLines
Bills == 1 .. MaxBills

VARIABLES
    proj,          \* the projection every command reads
    base,          \* what the settled part of the log folds to
    recent,        \* the minted commands after it, in id order
    at,            \* what each till's request is doing
    receipt,       \* the receipt number allocated to each bill, 0 for none
    nextReceipt    \* the store's receipt counter

vars == <<proj, base, recent, at, receipt, nextReceipt>>

-----------------------------------------------------------------------------
(* The machines: from which state each trigger is legal, and to which. *)

TableFrom == [seat |-> "free", request_bill |-> "occupied",
              settle |-> "awaiting", clean |-> "cleaning",
              transfer |-> "occupied", release |-> "occupied"]
TableTo == [seat |-> "occupied", request_bill |-> "awaiting",
            settle |-> "cleaning", clean |-> "free",
            transfer |-> "cleaning", release |-> "free"]

BillFrom == [settle |-> "open", void |-> "open", void_settled |-> "settled",
             split |-> "open", merge |-> "open"]

TableStates == {"free", "occupied", "awaiting", "cleaning"}
BillStates == {"none", "open", "settled", "voided", "split", "merged"}

BillRecord == [state : BillStates, order : Orders \cup {None},
               table : Tables \cup {None}, covers : SUBSET Lines]
LineRecord == [state : {"none", "sold", "voided"}, order : Orders \cup {None}]
Projection == [tables : [Tables -> TableStates],
               tableOrder : [Tables -> Orders \cup {None}],
               orders : SUBSET Orders,
               lines : [Lines -> LineRecord],
               bills : [Bills -> BillRecord],
               paid : [Bills -> Nat],
               drawer : Int]

NoBill == [state |-> "none", order |-> None, table |-> None, covers |-> {}]
NoLine == [state |-> "none", order |-> None]
EmptyProjection ==
    [tables |-> [t \in Tables |-> "free"],
     tableOrder |-> [t \in Tables |-> None],
     orders |-> {},
     lines |-> [l \in Lines |-> NoLine],
     bills |-> [b \in Bills |-> NoBill],
     paid |-> [b \in Bills |-> 0],
     drawer |-> 0]

-----------------------------------------------------------------------------
(* What the projection answers. *)

HasBillIn(p, o, s) ==
    \E b \in Bills : p.bills[b].order = o /\ p.bills[b].state = s

\* the order is being charged, or has been
BilledOrder(p, o) == HasBillIn(p, o, "open") \/ HasBillIn(p, o, "settled")

TableForOrder(p, o) ==
    IF \E t \in Tables : p.tableOrder[t] = o
    THEN CHOOSE t \in Tables : p.tableOrder[t] = o
    ELSE None

LinesOf(p, o) == {l \in Lines : p.lines[l].order = o}
SoldLines(p, o) == {l \in LinesOf(p, o) : p.lines[l].state = "sold"}

-----------------------------------------------------------------------------
(* What the projection records, live and on replay alike. *)

SetTable(p, t, s) == IF t = None THEN p ELSE [p EXCEPT !.tables[t] = s]

OpenOrder(p, t, o) ==
    [p EXCEPT !.orders = @ \cup {o},
              !.tableOrder = IF t = None THEN @ ELSE [@ EXCEPT ![t] = o]]

CloseOrder(p, o) ==
    [p EXCEPT !.tableOrder = [t \in Tables |->
                 IF o # None /\ t = TableForOrder(p, o) THEN None ELSE @[t]]]

MoveOrder(p, o, from, to) ==
    [p EXCEPT !.tableOrder = [t \in Tables |->
                 CASE t = to -> o
                   [] t = from /\ @[t] = o -> None
                   [] OTHER -> @[t]]]

RecordLine(p, l, o) ==
    [p EXCEPT !.lines[l] = [state |-> "sold", order |-> o]]
RecordLineVoid(p, l) == [p EXCEPT !.lines[l].state = "voided"]

\* parts: the bills opened together, each with the lines it covers
OpenBillRecords(p, parts, o, t) ==
    [p EXCEPT !.bills = [b \in Bills |->
        IF \E m \in parts : m.bill = b
        THEN [state |-> "open", order |-> o, table |-> t,
              covers |-> (CHOOSE m \in parts : m.bill = b).covers]
        ELSE @[b]]]
SetBillState(p, b, s) ==
    IF p.bills[b].state = "none" THEN p ELSE [p EXCEPT !.bills[b].state = s]

\* the table moves on only when nothing else on the order still owes
SettleBillRecord(p, b) ==
    LET q == SetBillState(p, b, "settled")
    IN  IF HasBillIn(q, q.bills[b].order, "open") THEN q
        ELSE SetTable(q, q.bills[b].table, TableTo["settle"])

\* mutant: the voided bill's table keeps waiting
VoidKeepsTable(p, b) == SetBillState(p, b, "voided")

VoidBillRecord(p, b) ==
    LET q == SetBillState(p, b, "voided")
        o == q.bills[b].order
        t == q.bills[b].table
    IN  IF t = None \/ HasBillIn(q, o, "open") THEN q
        ELSE IF q.tables[t] # "awaiting" THEN q
        ELSE SetTable(q, t, IF HasBillIn(q, o, "settled")
                            THEN "cleaning" ELSE "occupied")

\* mutant: the void leaves the drawer as it was
VoidKeepsCash(p, b) == VoidBillRecord(p, b)

\* a paid bill's void gives back all the cash its bill was paid
VoidSettledRecord(p, b) ==
    VoidBillRecord([p EXCEPT !.drawer = @ - p.paid[b]], b)

\* the tender goes on the bill and in the drawer, then the bill settles
RecordSettle(p, b) ==
    SettleBillRecord([p EXCEPT !.paid[b] = @ + 1, !.drawer = @ + 1], b)

\* mutant: the absorbed bills stay open
MergeKeepsAbsorbed(p, b, ls, absorbed) ==
    [p EXCEPT !.bills[b].covers = ls]

\* absorbed bills end, their lines go to b
MergeBillRecords(p, b, ls, absorbed) ==
    [p EXCEPT !.bills = [c \in Bills |->
        IF c = b THEN [@[c] EXCEPT !.covers = ls]
        ELSE IF c \in absorbed THEN [@[c] EXCEPT !.state = "merged"]
        ELSE @[c]]]

-----------------------------------------------------------------------------
(* Commands: what one decided under the lock, for its commit and fold. *)

NoCmd == [op |-> "none", table |-> None, to |-> None, order |-> None,
          line |-> None, bill |-> None, covers |-> {}, parts |-> {}]

Ops == {"none", "seat", "counter", "clean", "release", "transfer", "add_line",
        "void_line", "open_bill", "settle", "void", "void_settled", "split",
        "merge"}

Command == [op : Ops, table : Tables \cup {None}, to : Tables \cup {None},
            order : Orders \cup {None}, line : Lines \cup {None},
            bill : Bills \cup {None}, covers : SUBSET Lines,
            parts : SUBSET [bill : Bills, covers : SUBSET Lines]]

\* what a command does to the projection once it is committed
FoldLive(p, c) ==
    CASE c.op = "seat" ->
            OpenOrder(SetTable(p, c.table, TableTo["seat"]), c.table, c.order)
      [] c.op = "counter" -> OpenOrder(p, None, c.order)
      [] c.op = "clean" -> SetTable(p, c.table, TableTo["clean"])
      [] c.op = "release" ->
            SetTable(CloseOrder(p, c.order), c.table, TableTo["release"])
      [] c.op = "transfer" ->
            MoveOrder(SetTable(SetTable(p, c.table, TableTo["transfer"]),
                               c.to, TableTo["seat"]),
                      c.order, c.table, c.to)
      [] c.op = "add_line" -> RecordLine(p, c.line, c.order)
      [] c.op = "void_line" -> RecordLineVoid(p, c.line)
      [] c.op = "open_bill" ->
            SetTable(OpenBillRecords(p, c.parts, c.order, c.table),
                     c.table, TableTo["request_bill"])
      [] c.op = "settle" -> RecordSettle(p, c.bill)
      [] c.op = "void" -> VoidBillRecord(p, c.bill)
      [] c.op = "void_settled" -> VoidSettledRecord(p, c.bill)
      [] c.op = "split" ->
            SetBillState(OpenBillRecords(p, c.parts, c.order, c.table),
                         c.bill, "split")
      [] c.op = "merge" ->
            MergeBillRecords(p, c.bill,
                             c.covers \cup UNION {m.covers : m \in c.parts},
                             {m.bill : m \in c.parts})

\* a bill event names its order, never a table
FoldOpened(p, c) ==
    LET t == TableForOrder(p, c.order)
    IN  SetTable(OpenBillRecords(p, c.parts, c.order, t), t, "awaiting")

\* mutant: no arm for a void
FoldNoVoid(p, c) ==
    CASE c.op \in {"open_bill"} -> FoldOpened(p, c)
      [] c.op \in {"split", "merge"} -> FoldLive(p, c)
      [] c.op \in {"void", "void_settled", "void_line"} -> p
      [] OTHER -> FoldLive(p, c)

\* what a command's events do to the projection when the log is replayed
Fold(p, c) ==
    CASE c.op = "open_bill" -> FoldOpened(p, c)
      [] c.op = "split" -> SetBillState(FoldOpened(p, c), c.bill, "split")
      [] c.op = "merge" ->
            LET absorbed == {m.bill : m \in c.parts}
            IN  MergeBillRecords(p, c.bill,
                                 UNION {p.bills[b].covers :
                                            b \in absorbed \cup {c.bill}},
                                 absorbed)
      [] c.op \in {"void", "void_settled"} ->
            IF p.bills[c.bill].state = "settled"
            THEN VoidSettledRecord(p, c.bill)
            ELSE VoidBillRecord(p, c.bill)
      [] OTHER -> FoldLive(p, c)

-----------------------------------------------------------------------------
Idle == [phase |-> "idle", cmd |-> NoCmd]

Init ==
    /\ proj = EmptyProjection
    /\ base = EmptyProjection
    /\ recent = <<>>
    /\ at = [w \in Tills |-> Idle]
    /\ receipt = [b \in Bills |-> 0]
    /\ nextReceipt = 1

Flying == {at[w].cmd : w \in Tills}

\* ids nobody holds, the next one minted of each kind
FreshOrders == Orders \ (proj.orders \cup {c.order : c \in Flying})
FreshLines == {l \in Lines : proj.lines[l].state = "none"}
                 \ {c.line : c \in Flying}
FreshBills == {b \in Bills : proj.bills[b].state = "none"}
                 \ {m.bill : m \in UNION {c.parts : c \in Flying}}
Least(S) == CHOOSE n \in S : \A k \in S : n <= k

\* Two commands the staff keep apart: about one order or one table, unless
\* each pays a bill of its own.
Clash(c, d) ==
    IF c.op = "settle" /\ d.op = "settle" THEN c.bill = d.bill
    ELSE \/ c.order # None /\ c.order = d.order
         \/ ({c.table, c.to} \cap {d.table, d.to}) \ {None} # {}

\* The till's request has read the projection and decided on command c.
Decide(w, c) ==
    /\ at[w].phase = "idle"
    /\ Apart => \A d \in Flying : ~Clash(c, d)
    /\ at' = [at EXCEPT ![w] = [phase |-> "decided", cmd |-> c]]
    /\ UNCHANGED <<proj, base, recent, receipt, nextReceipt>>

TableMay(t, trigger) == proj.tables[t] = TableFrom[trigger]
BillMay(b, trigger) == proj.bills[b].state = BillFrom[trigger]

SeatTable(w, t) ==
    /\ TableMay(t, "seat")
    /\ FreshOrders # {}
    /\ Decide(w, [NoCmd EXCEPT !.op = "seat", !.table = t,
                               !.order = Least(FreshOrders)])

OpenCounterOrder(w) ==
    /\ FreshOrders # {}
    /\ Decide(w, [NoCmd EXCEPT !.op = "counter", !.order = Least(FreshOrders)])

CleanTable(w, t) ==
    /\ TableMay(t, "clean")
    /\ Decide(w, [NoCmd EXCEPT !.op = "clean", !.table = t])

\* only a table nothing was sold at and no bill is open for
ReleaseTable(w, t) ==
    LET o == proj.tableOrder[t]
    IN  /\ TableMay(t, "release")
        /\ SoldLines(proj, o) = {} /\ ~HasBillIn(proj, o, "open")
        /\ Decide(w, [NoCmd EXCEPT !.op = "release", !.table = t, !.order = o])

\* mutant: guests who asked for the bill may still move
TransferAwaiting(w, t, u) ==
    /\ proj.tables[t] \in {"occupied", "awaiting"} /\ TableMay(u, "seat")
    /\ proj.tableOrder[t] # None
    /\ Decide(w, [NoCmd EXCEPT !.op = "transfer", !.table = t, !.to = u,
                               !.order = proj.tableOrder[t]])

TransferTable(w, t, u) ==
    /\ TableMay(t, "transfer") /\ TableMay(u, "seat")
    /\ proj.tableOrder[t] # None
    /\ Decide(w, [NoCmd EXCEPT !.op = "transfer", !.table = t, !.to = u,
                               !.order = proj.tableOrder[t]])

\* mutant: a line rung after the bill
AddLineBilled(w, o) ==
    /\ o \in proj.orders
    /\ FreshLines # {}
    /\ Decide(w, [NoCmd EXCEPT !.op = "add_line", !.order = o,
                               !.line = Least(FreshLines)])

\* by the table's order or by the order itself: a billed order takes no line
AddLine(w, o) ==
    /\ o \in proj.orders
    /\ ~BilledOrder(proj, o)
    /\ FreshLines # {}
    /\ Decide(w, [NoCmd EXCEPT !.op = "add_line", !.order = o,
                               !.line = Least(FreshLines)])

VoidLine(w, l) ==
    /\ proj.lines[l].state = "sold"
    /\ Decide(w, [NoCmd EXCEPT !.op = "void_line", !.line = l,
                               !.order = proj.lines[l].order])

OpenBill(w, o) ==
    LET t == TableForOrder(proj, o)
    IN  /\ o \in proj.orders
        /\ ~BilledOrder(proj, o)
        /\ SoldLines(proj, o) # {}
        /\ t # None => TableMay(t, "request_bill")
        /\ FreshBills # {}
        /\ Decide(w, [NoCmd EXCEPT !.op = "open_bill", !.order = o, !.table = t,
                !.parts = {[bill |-> Least(FreshBills),
                            covers |-> SoldLines(proj, o)]}])

OnBill(b, op) == [NoCmd EXCEPT !.op = op, !.bill = b,
                               !.order = proj.bills[b].order,
                               !.table = proj.bills[b].table]

\* mutant: the bill's own machine is not asked
SettleAny(w, b) ==
    LET t == proj.bills[b].table
    IN  /\ proj.bills[b].state \in {"open", "settled"}
        /\ t # None => TableMay(t, "settle")
        /\ Decide(w, OnBill(b, "settle"))

\* something on the bill is still owed, and its table may settle
SettleBill(w, b) ==
    LET t == proj.bills[b].table
    IN  /\ BillMay(b, "settle")
        /\ \E l \in proj.bills[b].covers : proj.lines[l].state = "sold"
        /\ t # None => TableMay(t, "settle")
        /\ Decide(w, OnBill(b, "settle"))

VoidBill(w, b) ==
    /\ BillMay(b, "void")
    /\ Decide(w, OnBill(b, "void"))

\* mutant: the permission is not asked for
VoidSettledAnyone(w, b) ==
    /\ BillMay(b, "void_settled")
    /\ Decide(w, OnBill(b, "void_settled"))

VoidSettledBill(w, b) ==
    /\ VoidsPaid
    /\ BillMay(b, "void_settled")
    /\ Decide(w, OnBill(b, "void_settled"))

\* into two parts that partition the lines the bill covers
SplitBill(w, b) ==
    LET n == Least(FreshBills)
        m == Least(FreshBills \ {n})
        covers == proj.bills[b].covers
    IN  /\ BillMay(b, "split")
        /\ Cardinality(FreshBills) >= 2
        /\ \E ls \in (SUBSET covers) \ {{}, covers} :
               Decide(w, [OnBill(b, "split") EXCEPT
                   !.parts = {[bill |-> n, covers |-> ls],
                              [bill |-> m, covers |-> covers \ ls]}])

MergeBills(w, b, c) ==
    /\ b # c
    /\ BillMay(b, "merge") /\ BillMay(c, "merge")
    /\ proj.bills[c].table = proj.bills[b].table
    /\ proj.bills[c].order = proj.bills[b].order
    /\ Decide(w, [OnBill(b, "merge") EXCEPT
              !.covers = proj.bills[b].covers,
              !.parts = {[bill |-> c, covers |-> proj.bills[c].covers]}])

-----------------------------------------------------------------------------
(* The command's way through the store. *)

\* mutant: the number is read and the counter not advanced
AllocateStale(w) ==
    /\ at[w].phase = "decided" /\ at[w].cmd.op = "settle"
    /\ receipt' = [receipt EXCEPT ![at[w].cmd.bill] = nextReceipt]
    /\ at' = [at EXCEPT ![w].phase = "numbered"]
    /\ UNCHANGED <<proj, base, recent, nextReceipt>>

\* A settle awaits its number; a bill that has one gets it back.
AllocateReceipt(w) ==
    LET b == at[w].cmd.bill
    IN  /\ at[w].phase = "decided" /\ at[w].cmd.op = "settle"
        /\ IF receipt[b] # 0
           THEN UNCHANGED <<receipt, nextReceipt>>
           ELSE /\ receipt' = [receipt EXCEPT ![b] = nextReceipt]
                /\ nextReceipt' = nextReceipt + 1
        /\ at' = [at EXCEPT ![w].phase = "numbered"]
        /\ UNCHANGED <<proj, base, recent>>

\* The event ids are minted: this is the command's place in the log.
Prepare(w) ==
    /\ at[w].phase = IF at[w].cmd.op = "settle" THEN "numbered" ELSE "decided"
    /\ Len(recent) < MaxRecent
    /\ at' = [at EXCEPT ![w].phase = "prepared"]
    /\ recent' = Append(recent, [till |-> w, cmd |-> at[w].cmd])
    /\ UNCHANGED <<proj, base, receipt, nextReceipt>>

Commit(w) ==
    /\ at[w].phase = "prepared"
    /\ at' = [at EXCEPT ![w].phase = "committed"]
    /\ UNCHANGED <<proj, base, recent, receipt, nextReceipt>>

\* mutant: the failed command stays with its till
FailKeepsCmd(w) ==
    /\ at[w].phase \in {"decided", "numbered", "prepared"}
    /\ at' = [at EXCEPT ![w].phase = "idle"]
    /\ recent' = SelectSeq(recent, LAMBDA e : e.till # w)
    /\ UNCHANGED <<proj, base, receipt, nextReceipt>>

\* The store refused an await of the command before its commit: an error
\* answer, and nothing of it in the log.  A number stays allocated.
Fail(w) ==
    /\ at[w].phase \in {"decided", "numbered", "prepared"}
    /\ at' = [at EXCEPT ![w] = Idle]
    /\ recent' = SelectSeq(recent, LAMBDA e : e.till # w)
    /\ UNCHANGED <<proj, base, receipt, nextReceipt>>

Folded(p, entries) == FoldLeft(LAMBDA q, e : Fold(q, e.cmd), p, entries)

\* how many of the entries no command in flight can come before
Settled(entries) ==
    Cardinality({i \in DOMAIN entries :
                    \A k \in 1 .. i : entries[k].till = None})

\* The command takes the lock again and folds what it committed.
Finish(w) ==
    LET done == [i \in DOMAIN recent |->
                    IF recent[i].till = w THEN [recent[i] EXCEPT !.till = None]
                    ELSE recent[i]]
        n == Settled(done)
    IN  /\ at[w].phase = "committed"
        /\ proj' = FoldLive(proj, at[w].cmd)
        /\ base' = Folded(base, SubSeq(done, 1, n))
        /\ recent' = SubSeq(done, n + 1, Len(done))
        /\ at' = [at EXCEPT ![w] = Idle]
        /\ UNCHANGED <<receipt, nextReceipt>>

\* Whether the log holds an entry's events.
InLog(e) == e.till = None \/ at[e.till].phase = "committed"

\* What a rebuild of the projection comes to now.
Replay == Folded(base, SelectSeq(recent, InLog))

\* The process stops; the next one rebuilds before it serves a till.
Restart ==
    /\ proj' = Replay
    /\ base' = Replay
    /\ recent' = <<>>
    /\ at' = [w \in Tills |-> Idle]
    /\ UNCHANGED <<receipt, nextReceipt>>

Next ==
    \/ \E w \in Tills :
         \/ \E t \in Tables : \/ SeatTable(w, t) \/ CleanTable(w, t)
                             \/ ReleaseTable(w, t)
         \/ \E t, u \in Tables : TransferTable(w, t, u)
         \/ OpenCounterOrder(w)
         \/ \E o \in Orders : AddLine(w, o) \/ OpenBill(w, o)
         \/ \E l \in Lines : VoidLine(w, l)
         \/ \E b \in Bills : \/ SettleBill(w, b) \/ VoidBill(w, b)
                            \/ VoidSettledBill(w, b) \/ SplitBill(w, b)
         \/ \E b, c \in Bills : MergeBills(w, b, c)
         \/ AllocateReceipt(w) \/ Prepare(w) \/ Commit(w)
         \/ Fail(w) \/ Finish(w)
    \/ Restart

Spec == Init /\ [][Next]_vars

-----------------------------------------------------------------------------
(* Properties. *)

\* The state has its shape: projections, minted commands, phases, numbers.
TypeOK ==
    /\ proj \in Projection /\ base \in Projection
    /\ \A i \in DOMAIN recent : /\ recent[i].till \in Tills \cup {None}
                               /\ recent[i].cmd \in Command
    /\ \A w \in Tills :
          /\ at[w].phase \in {"idle", "decided", "numbered", "prepared",
                              "committed"}
          /\ at[w].cmd \in Command
          /\ at[w].phase = "idle" <=> at[w].cmd.op = "none"
    /\ receipt \in [Bills -> Nat] /\ nextReceipt \in Nat \ {0}

\* no command of a till is between its commit and its fold
Quiet == \A w \in Tills : at[w].phase # "committed"

\* Once every committed command is folded, the projection is what a restart
\* would rebuild from the log (Edge::rebuild): tables, orders, lines, bills,
\* payments and the drawer, though commands fold in the order their commits
\* return and the log replays in the order of their ids.
RebuildAgrees == Quiet => proj = Replay

\* A bill that is owed at a table is owed by the order sitting there, and the
\* table waits for it: otherwise prove_settle refuses its payment.
OpenBillAwaits ==
    \A b \in Bills :
        LET bill == proj.bills[b]
        IN  bill.state = "open" /\ bill.table # None =>
                /\ proj.tables[bill.table] = "awaiting"
                /\ proj.tableOrder[bill.table] = bill.order

\* A table that waits for payment has a bill to pay: only a settle or a void
\* of one leaves that state.
AwaitedBillExists ==
    \A t \in Tables : proj.tables[t] = "awaiting" =>
        HasBillIn(proj, proj.tableOrder[t], "open")

Charging(b) == proj.bills[b].state \in {"open", "settled"}

\* No line is charged on two bills, through voids, splits and merges.
LineChargedOnce ==
    \A b, c \in Bills : b # c /\ Charging(b) /\ Charging(c) =>
        proj.bills[b].covers \cap proj.bills[c].covers = {}

\* An order that was paid and owes no more leaves no line behind: each one
\* still sold was on a bill that was paid, or on one that was voided.
NoLineLeavesUnbilled ==
    \A o \in Orders :
        HasBillIn(proj, o, "settled") /\ ~HasBillIn(proj, o, "open") =>
            \A l \in SoldLines(proj, o) : \E b \in Bills :
                /\ proj.bills[b].state \in {"settled", "voided"}
                /\ l \in proj.bills[b].covers

\* The drawer is expected to hold the money of the settled bills, each paid
\* once, whatever was voided before or after its payment.
DrawerHoldsSettled ==
    proj.drawer = Cardinality({b \in Bills : proj.bills[b].state = "settled"})

\* Every settled bill has a number, and no two bills have the same one.
ReceiptsDistinct ==
    /\ \A b \in Bills : proj.bills[b].state = "settled" => receipt[b] # 0
    /\ \A b, c \in Bills : b # c /\ receipt[b] # 0 => receipt[b] # receipt[c]

\* bill:settle is a one-time transition: no bill is paid twice.
PaidOnce == \A b \in Bills : proj.paid[b] <= 1

\* A settled bill stays settled, unless it is voided; a restart included.
SettledStays ==
    [][\A b \in Bills : proj.bills[b].state = "settled" =>
            proj'.bills[b].state \in
                IF VoidsPaid THEN {"settled", "voided"} ELSE {"settled"}]_vars
=============================================================================
