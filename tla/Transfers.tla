----------------------------- MODULE Transfers -----------------------------
(***************************************************************************)
(* Transfers of serialised stock between franchises                        *)
(* (app/services/transfer.py, app/routers/transfers.py): the source node   *)
(* drafts and dispatches, Master passes the manifest on, the destination   *)
(* scans and receives, possibly in parts, and Master passes each receipt   *)
(* back.  Every franchise has its own database.                            *)
(*                                                                         *)
(* Granularity.  A request loads the transfer with its items and decides   *)
(* on what it loaded; its first write takes SQLite's write lock and the    *)
(* rest, up to the commit, is one step.  Between the two it may wait for   *)
(* the lock (busy_timeout) while other requests commit.                    *)
(*                                                                         *)
(* Events travel as MasterOutbox and MasterInbox deliver them: in order    *)
(* and exactly once.                                                       *)
(***************************************************************************)
EXTENDS Integers, Sequences, FiniteSets, SequencesExt

CONSTANTS
    Franchises, Serials,
    Transfers,    \* the transfers that may be created
    Source, Dest, \* franchise of each transfer
    Home,         \* franchise that stocks each serial at first
    Products, Product,  \* product of each serial
    Edited,       \* bound: the products whose description may change
    Clerks,       \* threads that serve requests
    MaxOvertaken  \* bound: requests of the same franchise that commit while
                  \* one waits between its read and its write

ASSUME RouteAssumption ==
    /\ Source \in [Transfers -> Franchises]
    /\ Dest \in [Transfers -> Franchises]
    /\ \A t \in Transfers : Source[t] # Dest[t]
ASSUME NamesAssumption == Franchises \cap Transfers = {}
ASSUME HomeAssumption == Home \in [Serials -> Franchises]
ASSUME ProductAssumption == Product \in [Serials -> Products] /\ Edited \subseteq Products
ASSUME MaxOvertakenAssumption == MaxOvertaken \in Nat

VARIABLES
    status,       \* serials.status at each franchise
    active,       \* serials with active = TRUE at each franchise
    conflicts,    \* products that each franchise describes otherwise than the
                  \* manifests it receives
    out, outItems, outReceived,         \* LocalTransfer row at the source
    in, inItems, scanned, inReceived,   \* LocalTransfer row at the destination
    open,         \* the request of each clerk that has read and not yet written
    raced,        \* history: transfers edited after their dispatch, or dispatched
                  \* with other items than they had by then
    sent,         \* events of each franchise on their way to Master
    queue         \* commands of Master for each franchise

serialVars == <<status, active, conflicts>>
outVars == <<out, outItems, outReceived>>
inVars == <<in, inItems, scanned, inReceived>>
clerkVars == <<open, raced>>
vars == <<status, active, conflicts, out, outItems, outReceived, in, inItems, scanned,
          inReceived, open, raced, sent, queue>>

-----------------------------------------------------------------------------
OutStatuses == {"NONE", "DRAFT", "DISPATCHED", "PARTIALLY_RECEIVED", "RECEIVED"}
InStatuses == {"NONE", "AWAITING_RECEIPT", "PARTIALLY_RECEIVED", "RECEIVED"}

\* OPEN_OUTBOUND_STATUSES and RECEIVABLE_STATUSES
OpenOutbound == {"DRAFT", "DISPATCHED", "PARTIALLY_RECEIVED"}
Receivable == {"AWAITING_RECEIPT", "PARTIALLY_RECEIVED"}

Messages == [type : {"DISPATCHED", "RECEIVED"}, transfer : Transfers,
             items : SUBSET Serials]
Message(type, t, items) == [type |-> type, transfer |-> t, items |-> items]
Receiver(m) == IF m.type = "DISPATCHED" THEN Dest[m.transfer] ELSE Source[m.transfer]

\* A request after its read: the items it will work on, the transfer status it
\* loaded and the one it will store, the items it loaded as received, and how many
\* commits have overtaken it.
Requests == [op : {"add", "remove", "dispatch", "finalize"}, transfer : Transfers,
             items : SUBSET Serials, was : OutStatuses \cup InStatuses,
             new : OutStatuses \cup InStatuses, received : SUBSET Serials,
             overtaken : 0..MaxOvertaken]
NoRequest == [op |-> "none"]
Request(op, t, items, was, new) ==
    [op |-> op, transfer |-> t, items |-> items, was |-> was, new |-> new,
     received |-> inReceived[t], overtaken |-> 0]

InStock(f, s) == status[f][s] = "IN_STOCK" /\ s \in active[f]
InTransit(f, s) == status[f][s] = "IN_TRANSIT" /\ s \in active[f]

SetStatus(f, items, new) ==
    status' = [status EXCEPT ![f] =
                 [s \in Serials |-> IF s \in items THEN new ELSE @[s]]]

\* Clerk c has read: it now waits for the write lock of its franchise.
Open(c, r) == /\ open[c] = NoRequest
              /\ open' = [open EXCEPT ![c] = r]

\* Clerk c commits, before the others that wait at the same franchise.
Site(r) == IF r.op = "finalize" THEN Dest[r.transfer] ELSE Source[r.transfer]
Waiting(c) == {d \in Clerks \ {c} : open[d] # NoRequest /\ Site(open[d]) = Site(open[c])}
Close(c) ==
    /\ \A d \in Waiting(c) : open[d].overtaken < MaxOvertaken
    /\ open' = [d \in Clerks |->
                  IF d = c THEN NoRequest
                  ELSE IF d \in Waiting(c) THEN [open[d] EXCEPT !.overtaken = @ + 1]
                  ELSE open[d]]

\* The write of clerk c is one that would not have been made by now.
Race(c, late) == raced' = IF late THEN raced \cup {open[c].transfer} ELSE raced

Enqueue(f, m) == sent' = [sent EXCEPT ![f] = Append(@, m)]

-----------------------------------------------------------------------------
Init ==
    /\ status = [f \in Franchises |->
                   [s \in Serials |-> IF Home[s] = f THEN "IN_STOCK" ELSE "ABSENT"]]
    /\ active = [f \in Franchises |-> {s \in Serials : Home[s] = f}]
    /\ conflicts = [f \in Franchises |-> {}]
    /\ out = [t \in Transfers |-> "NONE"]
    /\ outItems = [t \in Transfers |-> {}]
    /\ outReceived = [t \in Transfers |-> {}]
    /\ in = [t \in Transfers |-> "NONE"]
    /\ inItems = [t \in Transfers |-> {}]
    /\ scanned = [t \in Transfers |-> {}]
    /\ inReceived = [t \in Transfers |-> {}]
    /\ open = [c \in Clerks |-> NoRequest]
    /\ raced = {}
    /\ sent = [f \in Franchises |-> <<>>]
    /\ queue = [f \in Franchises |-> <<>>]

-----------------------------------------------------------------------------
(* The source franchise. *)

CreateOutbound(t) ==
    /\ out[t] = "NONE"
    /\ out' = [out EXCEPT ![t] = "DRAFT"]
    /\ UNCHANGED <<serialVars, outItems, outReceived, inVars, clerkVars, sent, queue>>

Editable(t) == out[t] = "DRAFT"

\* add_outbound_serial looks: a draft, a serial in stock, and no open outbound
\* transfer that holds it.
CanAdd(t, s) ==
    /\ Editable(t)
    /\ InStock(Source[t], s)
    /\ \A u \in Transfers :
          Source[u] = Source[t] /\ out[u] \in OpenOutbound => s \notin outItems[u]

AddLooks(c, t, s) ==
    /\ CanAdd(t, s)
    /\ Open(c, Request("add", t, {s}, "DRAFT", "DRAFT"))
    /\ UNCHANGED <<serialVars, outVars, inVars, raced, sent, queue>>

\* ... and inserts the item, whatever has become of the transfer since.
AddOutboundSerial(c) ==
    /\ open[c].op = "add"
    /\ outItems' = [outItems EXCEPT ![open[c].transfer] = @ \cup open[c].items]
    /\ Close(c) /\ Race(c, ~Editable(open[c].transfer))
    /\ UNCHANGED <<serialVars, out, outReceived, inVars, sent, queue>>

\* remove_outbound_serial looks, and deletes the item.
CanRemove(t, s) == Editable(t) /\ s \in outItems[t]

RemoveLooks(c, t, s) ==
    /\ CanRemove(t, s)
    /\ Open(c, Request("remove", t, {s}, "DRAFT", "DRAFT"))
    /\ UNCHANGED <<serialVars, outVars, inVars, raced, sent, queue>>

RemoveOutboundSerial(c) ==
    /\ open[c].op = "remove"
    /\ outItems' = [outItems EXCEPT ![open[c].transfer] = @ \ open[c].items]
    /\ outReceived' = [outReceived EXCEPT ![open[c].transfer] = @ \ open[c].items]
    /\ Close(c) /\ Race(c, ~Editable(open[c].transfer))
    /\ UNCHANGED <<serialVars, out, inVars, sent, queue>>

DispatchLooks(c, t) ==
    /\ out[t] = "DRAFT"
    /\ outItems[t] # {}
    /\ Open(c, Request("dispatch", t, outItems[t], "DRAFT", "DISPATCHED"))
    /\ UNCHANGED <<serialVars, outVars, inVars, raced, sent, queue>>

\* The conditional UPDATE of every item (and a variant without condition).
DispatchUnclaimed(f, items) == TRUE
CanDispatch(f, items) == \A s \in items : InStock(f, s)

\* dispatch_outbound_transfer claims every loaded item, IN_STOCK to
\* IN_TRANSIT, stores the status and the event; one lost claim undoes it all.
DispatchOutbound(c) ==
    LET r == open[c]
        f == Site(r)
    IN  /\ r.op = "dispatch"
        /\ Close(c)
        /\ IF CanDispatch(f, r.items)
              THEN /\ SetStatus(f, r.items, "IN_TRANSIT")
                   /\ out' = [out EXCEPT ![r.transfer] = r.new]
                   /\ Enqueue(f, Message("DISPATCHED", r.transfer, r.items))
                   /\ Race(c, r.items # outItems[r.transfer])
              ELSE UNCHANGED <<status, out, raced, sent>>
        /\ UNCHANGED <<active, conflicts, outItems, outReceived, inVars, queue>>

\* Another workflow of the franchise (a sale) takes the serial out of stock.
SellSerial(f, s) ==
    /\ InStock(f, s)
    /\ SetStatus(f, {s}, "SOLD")
    /\ UNCHANGED <<active, conflicts, outVars, inVars, clerkVars, sent, queue>>

\* update_product and create_product: the name, HSN, unit, GST rate or Tally stock
\* item of a product code is from now on what the manifests say, or is not.
EditProduct(f, p) ==
    /\ conflicts' = [conflicts EXCEPT ![f] = IF p \in @ THEN @ \ {p} ELSE @ \cup {p}]
    /\ UNCHANGED <<status, active, outVars, inVars, clerkVars, sent, queue>>

-----------------------------------------------------------------------------
(* Master, external: passes the oldest event of a franchise on. *)

MasterRoutes(f) ==
    /\ sent[f] # <<>>
    /\ queue' = [queue EXCEPT ![Receiver(Head(sent[f]))] = Append(@, Head(sent[f]))]
    /\ sent' = [sent EXCEPT ![f] = Tail(@)]
    /\ UNCHANGED <<serialVars, outVars, inVars, clerkVars>>

-----------------------------------------------------------------------------
(* Commands.  A command whose handler raises stays the first one. *)

\* Variant: only when that transfer is complete.
ReturningWhenComplete(f, s) ==
    /\ status[f][s] = "IN_TRANSIT" /\ s \notin active[f]
    /\ \E t \in Transfers : Source[t] = f /\ s \in outItems[t] /\ out[t] = "RECEIVED"

\* _reactivate_returning_serial: a known serial may come back only after a
\* transfer that took it away has been received.
Returning(f, s) ==
    /\ status[f][s] = "IN_TRANSIT" /\ s \notin active[f]
    /\ \E t \in Transfers : Source[t] = f /\ s \in outItems[t] \cap outReceived[t]

\* _validate_product_snapshot, and the product of a returning serial: the manifest
\* of a transfer that is not here yet describes a product in another way.
Conflicting(f, m) ==
    /\ m.type = "DISPATCHED" /\ in[m.transfer] = "NONE"
    /\ \E s \in m.items : Product[s] \in conflicts[f]

CanArrive(f, m) ==
    \/ in[m.transfer] # "NONE"
    \/ \A s \in m.items : status[f][s] = "ABSENT" \/ Returning(f, s)

\* apply_transfer_available_command; a transfer that is already here is left
\* as it is.
ApplyAvailable(f, m) ==
    /\ m.type = "DISPATCHED"
    /\ CanArrive(f, m) /\ ~Conflicting(f, m)
    /\ IF in[m.transfer] = "NONE"
          THEN /\ in' = [in EXCEPT ![m.transfer] = "AWAITING_RECEIPT"]
               /\ inItems' = [inItems EXCEPT ![m.transfer] = m.items]
               /\ SetStatus(f, m.items, "IN_TRANSIT")
               /\ active' = [active EXCEPT ![f] = @ \cup m.items]
          ELSE UNCHANGED <<in, inItems, status, active>>
    /\ UNCHANGED <<outVars, scanned, inReceived>>

\* apply_transfer_receipt_command: items in the manifest become received, and
\* their serials leave local stock for good.
CanSettle(m) == out[m.transfer] # "DRAFT" /\ m.items \subseteq outItems[m.transfer]

\* The items received after a receipt (variants: all of the manifest, or only
\* those of this receipt), and what becomes of the transfer.
WholeManifest(m) == outItems[m.transfer]
OnlyThisReceipt(m) == m.items
ReceivedBy(m) == outReceived[m.transfer] \cup m.items

Settled(t, received) ==
    IF received = outItems[t] THEN "RECEIVED"
    ELSE IF received # {} THEN "PARTIALLY_RECEIVED" ELSE out[t]

ApplyReceipt(f, m) ==
    LET t == m.transfer
        received == ReceivedBy(m)
    IN  /\ m.type = "RECEIVED"
        /\ CanSettle(m)
        /\ outReceived' = [outReceived EXCEPT ![t] = received]
        /\ active' = [active EXCEPT ![f] = @ \ (m.items \ outReceived[t])]
        /\ out' = [out EXCEPT ![t] = Settled(t, received)]
        /\ UNCHANGED <<status, outItems, inVars>>

ApplyCommand(f) ==
    /\ queue[f] # <<>>
    /\ ApplyAvailable(f, Head(queue[f])) \/ ApplyReceipt(f, Head(queue[f]))
    /\ queue' = [queue EXCEPT ![f] = Tail(@)]
    /\ UNCHANGED <<conflicts, clerkVars, sent>>

-----------------------------------------------------------------------------
(* The destination franchise. *)

\* scan_inbound_transfer_item; the UPDATE repeats the tests on the item.
CanScan(t, s) ==
    in[t] \in Receivable /\ s \in inItems[t] \ (inReceived[t] \cup scanned[t])

ScanInbound(t, s) ==
    /\ CanScan(t, s)
    /\ scanned' = [scanned EXCEPT ![t] = @ \cup {s}]
    /\ UNCHANGED <<serialVars, outVars, in, inItems, inReceived, clerkVars, sent, queue>>

\* The status finalize_inbound_receipt will store (variant: one receipt is
\* enough).
DoneAtOnce(t, receipt) == "RECEIVED"
AfterReceipt(t, receipt) ==
    IF inReceived[t] \cup receipt = inItems[t] THEN "RECEIVED" ELSE "PARTIALLY_RECEIVED"

FinalizeLooks(c, t) ==
    LET receipt == scanned[t] \ inReceived[t]
    IN  /\ in[t] \in Receivable
        /\ receipt # {}
        /\ Open(c, Request("finalize", t, receipt, in[t], AfterReceipt(t, receipt)))
        /\ UNCHANGED <<serialVars, outVars, inVars, raced, sent, queue>>

\* The conditional UPDATE of every item (and a variant without condition).
ReceiveUnclaimed(f, items) == TRUE
CanReceive(f, items) == \A s \in items : InTransit(f, s)

\* finalize_inbound_receipt claims every loaded item, IN_TRANSIT to IN_STOCK,
\* and stores items, status (if it changed from the loaded one) and event.
FinalizeInbound(c) ==
    LET r == open[c]
        f == Site(r)
    IN  /\ r.op = "finalize"
        /\ Close(c)
        /\ IF CanReceive(f, r.items)
              THEN /\ SetStatus(f, r.items, "IN_STOCK")
                   /\ inReceived' = [inReceived EXCEPT ![r.transfer] = @ \cup r.items]
                   /\ in' = [in EXCEPT ![r.transfer] =
                               IF r.new = r.was THEN @ ELSE r.new]
                   /\ Enqueue(f, Message("RECEIVED", r.transfer, r.items))
              ELSE UNCHANGED <<status, inReceived, in, sent>>
        /\ UNCHANGED <<active, conflicts, outVars, inItems, scanned, raced, queue>>

-----------------------------------------------------------------------------
ClerkStep(c) ==
    \/ AddOutboundSerial(c)
    \/ RemoveOutboundSerial(c)
    \/ DispatchOutbound(c)
    \/ FinalizeInbound(c)
    \/ \E t \in Transfers :
          \/ DispatchLooks(c, t)
          \/ FinalizeLooks(c, t)
          \/ \E s \in Serials : AddLooks(c, t, s) \/ RemoveLooks(c, t, s)

Next ==
    \/ \E c \in Clerks : ClerkStep(c)
    \/ \E t \in Transfers :
          CreateOutbound(t) \/ \E s \in Serials : ScanInbound(t, s)
    \/ \E f \in Franchises :
          \/ MasterRoutes(f)
          \/ ApplyCommand(f)
          \/ \E s \in Serials : SellSerial(f, s)
          \/ \E p \in Edited : EditProduct(f, p)

Spec == Init /\ [][Next]_vars

\* Outbox, Master and inbox deliver (MasterOutbox, MasterInbox); users may
\* leave any document as it is.
Fairness ==
    \A f \in Franchises : WF_vars(MasterRoutes(f)) /\ WF_vars(ApplyCommand(f))

FairSpec == Spec /\ Fairness

-----------------------------------------------------------------------------
TypeOK ==
    /\ status \in [Franchises ->
                     [Serials -> {"ABSENT", "IN_STOCK", "IN_TRANSIT", "SOLD"}]]
    /\ active \in [Franchises -> SUBSET Serials]
    /\ conflicts \in [Franchises -> SUBSET Products]
    /\ out \in [Transfers -> OutStatuses]
    /\ outItems \in [Transfers -> SUBSET Serials]
    /\ outReceived \in [Transfers -> SUBSET Serials]
    /\ in \in [Transfers -> InStatuses]
    /\ inItems \in [Transfers -> SUBSET Serials]
    /\ scanned \in [Transfers -> SUBSET Serials]
    /\ inReceived \in [Transfers -> SUBSET Serials]
    /\ open \in [Clerks -> Requests \cup {NoRequest}]
    /\ raced \subseteq Transfers
    /\ sent \in [Franchises -> Seq(Messages)]
    /\ queue \in [Franchises -> Seq(Messages)]

\* Serial s is on its way in transfer t: in a dispatch event or command, or in
\* an inbound manifest that has not been received.
Carries(m, type, t, s) == m.type = type /\ m.transfer = t /\ s \in m.items
Holds(q, type, t, s) == \E m \in ToSet(q) : Carries(m, type, t, s)
Arriving(t, s) == s \in inItems[t] \ inReceived[t]
Carried(t, s) ==
    \/ Holds(sent[Source[t]], "DISPATCHED", t, s)
    \/ Holds(queue[Dest[t]], "DISPATCHED", t, s)
    \/ Arriving(t, s)

\* Nothing is lost and nothing is duplicated: at any moment a serial is in
\* stock (or sold) at one franchise, or travels in one transfer.
At(f, s) == s \in active[f] /\ status[f][s] \in {"IN_STOCK", "SOLD"}
Places(s) ==
    {f \in Franchises : At(f, s)} \cup {t \in Transfers : Carried(t, s)}
Conserved ==
    \A s \in Serials : \E p \in Franchises \cup Transfers : Places(s) = {p}

\* The rows and messages of all franchises together implement the custody of
\* serials: a dispatch, a receipt and a sale each hand over the serials they claim,
\* once, and whatever else is stored, sent or applied moves none of them.
Custodians == [s \in Serials |-> CHOOSE p \in Franchises \cup Transfers : p \in Places(s)]
IsSold(s) == \E f \in Franchises : s \in active[f] /\ status[f][s] = "SOLD"
SoldSerials == {s \in Serials : IsSold(s)}
Manifests == [t \in Transfers |-> inItems[t] \cup {s \in Serials : Carried(t, s)}]

Promise == INSTANCE Custody WITH
              custodian <- Custodians, sold <- SoldSerials, manifest <- Manifests
ImplementsCustody == Promise!Spec

\* The source believes only what the destination has recorded.
SourceAgrees ==
    \A t \in Transfers : outReceived[t] \subseteq inReceived[t]

\* A transfer is RECEIVED at the destination only when every item of the manifest
\* is, however receipts overlap.  It is so as soon as every item is, and RECEIVED
\* at the source only then, unless the transfer was edited after its dispatch or
\* dispatched with other items than it had by then.
CompleteAgrees ==
    /\ \A t \in Transfers : in[t] = "RECEIVED" => inItems[t] # {} /\ inReceived[t] = inItems[t]
    /\ \A t \in Transfers \ raced :
          /\ out[t] = "RECEIVED" => in[t] = "RECEIVED"
          /\ inItems[t] # {} /\ inReceived[t] = inItems[t] => in[t] = "RECEIVED"

\* A franchise refuses what another one has rightfully sent only for a product it
\* describes in another way: otherwise the first command of every queue can be
\* applied.  A refused one blocks all the commands behind it.
NeverBlocked ==
    raced = {} =>
        \A f \in Franchises : queue[f] # <<>> =>
            LET m == Head(queue[f])
            IN  IF m.type = "DISPATCHED" THEN CanArrive(f, m) ELSE CanSettle(m)

\* "Only a draft transfer can be dispatched.": a dispatch event is stored only
\* while its transfer is a draft, so Master sees one manifest per transfer.  It
\* holds while a request is overtaken by one other commit, and no longer when
\* two overtake it (README, Known disagreements).
DispatchedOnce ==
    [][\A t \in Transfers :
          \A items \in SUBSET Serials :
             sent'[Source[t]] = Append(sent[Source[t]],
                                       Message("DISPATCHED", t, items))
             => out[t] = "DRAFT"]_vars

\* Whatever has been received everywhere is eventually settled at the source,
\* unless a manifest stands before the receipt there and waits for a product
\* mapping to be resolved.
Refuses(f) == queue[f] # <<>> /\ Conflicting(f, Head(queue[f]))
SourceLearns ==
    \A t \in Transfers :
        in[t] = "RECEIVED" ~> out[t] = "RECEIVED" \/ Refuses(Source[t]) \/ raced # {}

-----------------------------------------------------------------------------
(* What makes the properties inductive.  First what holds however requests     *)
(* overlap: a request knows what it will store, a message is on its way from   *)
(* its sender to its receiver, and a receipt tells what has been recorded.     *)

RequestsKnow ==
    \A c \in Clerks :
        /\ open[c].op = "dispatch" => open[c].new = "DISPATCHED"
        /\ open[c].op = "finalize" =>
              /\ open[c].was \in Receivable
              /\ open[c].new \in {"PARTIALLY_RECEIVED", "RECEIVED"}

Sender(m) == IF m.type = "DISPATCHED" THEN Source[m.transfer] ELSE Dest[m.transfer]
Routed ==
    \A f \in Franchises :
        /\ \A m \in ToSet(sent[f]) : Sender(m) = f
        /\ \A m \in ToSet(queue[f]) : Receiver(m) = f

OnTheirWay == UNION {ToSet(sent[f]) \cup ToSet(queue[f]) : f \in Franchises}
ReceiptsAreTrue ==
    \A m \in OnTheirWay : m.type = "RECEIVED" => m.items \subseteq inReceived[m.transfer]

BaseInv == TypeOK /\ RequestsKnow /\ Routed /\ ReceiptsAreTrue /\ SourceAgrees

-----------------------------------------------------------------------------
(* Then the journey of a serial, while at most one commit overtakes a request. *)

\* No manifest and no received serial is on its way twice.
Repeats(m, n) ==
    /\ m.type = n.type /\ m.transfer = n.transfer
    /\ m.type = "DISPATCHED" \/ m.items \cap n.items # {}
Distinct(q) == \A i, j \in 1..Len(q) : Repeats(q[i], q[j]) => i = j
NoRepeats ==
    \A f \in Franchises :
        /\ Distinct(sent[f]) /\ Distinct(queue[f])
        /\ \A g \in Franchises : \A m \in ToSet(sent[f]), n \in ToSet(queue[g]) : ~Repeats(m, n)

\* Draft, manifest on its way, transfer at the destination.
Dispatched(t) == out[t] \notin {"NONE", "DRAFT"}
InStages ==
    /\ \A m \in OnTheirWay : m.type = "DISPATCHED" => Dispatched(m.transfer) /\ in[m.transfer] = "NONE"
    /\ \A t \in Transfers :
          /\ in[t] # "NONE" => Dispatched(t)
          /\ in[t] = "NONE" => inItems[t] = {}
          /\ inReceived[t] \subseteq inItems[t] /\ scanned[t] \subseteq inItems[t]

\* A serial that has left in a transfer stays IN_TRANSIT at the source until the
\* receipt is settled; one that has arrived is IN_TRANSIT at the destination.
Receipted(t, s) ==
    Holds(sent[Dest[t]], "RECEIVED", t, s) \/ Holds(queue[Source[t]], "RECEIVED", t, s)
Unsettled(t, s) == Carried(t, s) \/ Receipted(t, s)
InOneRole ==
    \A t \in Transfers, s \in Serials :
        /\ Unsettled(t, s) =>
              /\ InTransit(Source[t], s)
              /\ \A u \in Transfers : Unsettled(u, s) /\ Source[u] = Source[t] => u = t
              /\ \A u \in Transfers : Arriving(u, s) => Dest[u] # Source[t]
        /\ Arriving(t, s) => InTransit(Dest[t], s)
        /\ Receipted(t, s) => s \notin outReceived[t]

\* What a dispatch or a receipt that waits to write still knows.
DispatchFits(r) ==
    LET t == r.transfer
    IN  /\ r.items # {}
        /\ r.overtaken = 0 => out[t] = "DRAFT" /\ r.items = outItems[t]
        /\ out[t] = "DRAFT" \/ \E s \in r.items : ~InStock(Source[t], s)
        /\ outItems[t] = {} \/ r.items \cap outItems[t] # {}
ReceiptFits(r) ==
    LET t == r.transfer
    IN  /\ r.items # {} /\ r.items \subseteq inItems[t]
        /\ \A s \in r.items :
              s \notin inReceived[t] \/ (r.overtaken # 0 /\ At(Dest[t], s))
RequestsFit ==
    \A c \in Clerks :
        /\ open[c].op = "dispatch" => DispatchFits(open[c])
        /\ open[c].op = "finalize" => ReceiptFits(open[c])

JourneyInv == BaseInv /\ NoRepeats /\ InStages /\ InOneRole /\ RequestsFit /\ Conserved

-----------------------------------------------------------------------------
(* And what two franchises agree on, but for raced transfers. *)

\* The items of a dispatched transfer are those of its manifest, and no message
\* is empty.
ManifestIsKept ==
    /\ \A m \in OnTheirWay :
          /\ m.items # {}
          /\ m.type = "DISPATCHED" /\ m.transfer \notin raced => m.items = outItems[m.transfer]
    /\ \A t \in Transfers : outReceived[t] # {} => Dispatched(t)
    /\ \A t \in Transfers \ raced :
          /\ in[t] # "NONE" => inItems[t] = outItems[t]
          /\ Dispatched(t) => outItems[t] # {}

\* A receipt that waits to write knows what was received when it read, and knows
\* the transfer as long as no other receipt of it has been stored.  After that
\* one of its items is received already: of two receipts that read the same, one
\* is part of the other, since scanned items stay scanned.
KnowsReceived(r) ==
    LET t == r.transfer
    IN  r.op = "finalize" =>
          /\ r.received \subseteq inReceived[t]
          /\ r.items \subseteq scanned[t] \ r.received
          /\ r.new = "RECEIVED" => r.received \cup r.items = inItems[t]
          /\ r.received = inReceived[t] => in[t] = r.was /\ r.new = AfterReceipt(t, r.items)
          /\ r.received # inReceived[t] => r.items \cap inReceived[t] # {}
Nested(r, q) ==
    r.op = "finalize" /\ q.op = "finalize" /\ r.transfer = q.transfer /\ r.received = q.received
       => r.items \subseteq q.items \/ q.items \subseteq r.items
ReceiptsKnow == /\ \A c \in Clerks : KnowsReceived(open[c])
                /\ \A c, d \in Clerks : Nested(open[c], open[d])

\* A receipt leaves a franchise before the serial does.
InOrder(q) ==
    \A i, j \in 1..Len(q) :
        q[i].type = "DISPATCHED" /\ q[j].type = "RECEIVED" /\ q[i].items \cap q[j].items # {}
           => j < i
ReceiptsComeFirst ==
    \A f \in Franchises :
        /\ InOrder(sent[f]) /\ InOrder(queue[f])
        /\ \A m \in ToSet(sent[f]) : m.type = "RECEIVED" =>
              \A s \in m.items :
                 At(f, s) \/ \E t \in Transfers : Holds(sent[f], "DISPATCHED", t, s)

\* A franchise knows a serial only while it has it or if it may come back, as long
\* as no transfer is raced.
Known(f, s) ==
    \/ At(f, s)
    \/ \E t \in Transfers : Source[t] = f /\ Unsettled(t, s)
    \/ \E t \in Transfers : Dest[t] = f /\ Arriving(t, s)
    \/ Returning(f, s)
SerialsAreKnown ==
    raced = {} =>
        \A f \in Franchises, s \in Serials : status[f][s] = "ABSENT" \/ Known(f, s)

AgreementInv ==
    /\ JourneyInv /\ ManifestIsKept /\ ReceiptsKnow /\ CompleteAgrees
    /\ ReceiptsComeFirst /\ SerialsAreKnown

=============================================================================
