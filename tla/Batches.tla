------------------------------ MODULE Batches ------------------------------
(***************************************************************************)
(* Stock documents of one franchise (app/services/inventory.py,            *)
(* shelf_verification.py, sale_returns.py, expiry.py and                   *)
(* app/routers/batches.py): a batch is a draft into which serials are      *)
(* scanned and which is then submitted.  The submission moves every serial *)
(* to its new status, writes the ledger (inventory_transactions) and       *)
(* queues the event for Master in one transaction.                         *)
(*                                                                         *)
(* As in Transfers, a request loads what it decides on, waits for SQLite's *)
(* write lock, and writes and commits in one step.                         *)
(***************************************************************************)
EXTENDS Integers, Sequences, FiniteSets

CONSTANTS
    Serials, Batches, Clerks,
    Type,          \* batch_type of each batch
    Damaged,       \* sales returns with reason DAMAGED or EXPIRED
    Expiry,        \* expiry_date of each serial (all of one product)
    Interval,      \* shelf_verification_interval of the product
    InitialStatus, \* status of each serial at first
    MaxOvertaken   \* bound: requests that commit while one waits to write

Types == {"PURCHASE", "SALE", "SALES_RETURN", "PURCHASE_RETURN", "ISSUE", "AUDIT"}
Statuses == {"GENERATED", "IN_STOCK", "SOLD", "DAMAGED", "PURCHASE_RETURN", "ISSUED"}

ASSUME TypeAssumption == Type \in [Batches -> Types]
ASSUME DamagedAssumption == Damaged \subseteq Batches
ASSUME ProductAssumption == Expiry \in [Serials -> Nat] /\ Interval \in Nat \ {0}
ASSUME InitialStatusAssumption == InitialStatus \in [Serials -> Statuses]
ASSUME OvertakenAssumption == MaxOvertaken \in Nat

VARIABLES
    status,     \* serials.status
    batch,      \* batches.status
    items,      \* serials of each batch
    shelved,    \* items with shelf_verified_at
    returned,   \* PENDING_SHELF return logs of each sale
    ledger,     \* stock movements of each serial: status_from, status_to
    events,     \* queued events: batch and items
    open        \* the request of each clerk that waits to write

vars == <<status, batch, items, shelved, returned, ledger, events, open>>

-----------------------------------------------------------------------------
\* SHELF_CONTROLLED_BATCH_TYPES, FEFO_BATCH_TYPES
Controlled(b) == Type[b] \in {"PURCHASE", "AUDIT"}
Fefo(b) == Type[b] \in {"SALE", "ISSUE", "PURCHASE_RETURN"}

\* serial_allowed_for_batch: the statuses a batch of this type accepts
Allowed(b) ==
    CASE Type[b] = "PURCHASE" -> {"GENERATED", "PURCHASE_RETURN"}
      [] Type[b] = "SALES_RETURN" -> {"SOLD"}
      [] Type[b] = "AUDIT" -> Statuses \ {"GENERATED"}
      [] OTHER -> {"IN_STOCK"}

\* apply_batch_statuses: the status the submission gives
Target(b) ==
    CASE Type[b] = "PURCHASE" -> "IN_STOCK"
      [] Type[b] = "SALE" -> "SOLD"
      [] Type[b] = "SALES_RETURN" -> IF b \in Damaged THEN "DAMAGED" ELSE "IN_STOCK"
      [] Type[b] = "PURCHASE_RETURN" -> "PURCHASE_RETURN"
      [] Type[b] = "ISSUE" -> "ISSUED"

Draft(b) == batch[b] = "DRAFT"
InDraft(s) == \E b \in Batches : Draft(b) /\ s \in items[b]

\* fefo_candidate_serials and validate_fefo_scan: no serial that expires
\* earlier is free.  (RETURNED, which nothing stores any more, is left out.)
Free(s) == status[s] = "IN_STOCK" /\ ~InDraft(s)
ExpiresFirst(s) == \A r \in Serials : Free(r) => Expiry[s] <= Expiry[r]
FirstByExpiry(set) ==
    /\ set # {} /\ \A s \in set : Free(s)
    /\ \A s \in set, r \in Serials \ set : Free(r) => Expiry[s] <= Expiry[r]

\* pending_shelf_items and shelf_verification_state
PendingShelf(b) == IF Controlled(b) THEN items[b] \ shelved[b] ELSE {}
ShelfRequired(b) == Cardinality(PendingShelf(b)) >= Interval

\* validate_sale_returns_complete and validate_shelf_verification_complete
SaleReturnsComplete(b) == returned[b] = {}
ShelfComplete(b) == PendingShelf(b) = {}

-----------------------------------------------------------------------------
\* A request that has read: the serials it writes about, the statuses it has
\* loaded for them, and how many commits have overtaken it.
NoRequest == [op |-> "none"]
Open(c, op, b, set) ==
    /\ open[c] = NoRequest
    /\ open' = [open EXCEPT ![c] = [op |-> op, batch |-> b, items |-> set,
                                    seen |-> status, overtaken |-> 0]]

Waiting(c) == {d \in Clerks \ {c} : open[d] # NoRequest}
Close(c) ==
    /\ \A d \in Waiting(c) : open[d].overtaken < MaxOvertaken
    /\ open' = [d \in Clerks |->
                  IF d = c THEN NoRequest
                  ELSE IF d \in Waiting(c) THEN [open[d] EXCEPT !.overtaken = @ + 1]
                  ELSE open[d]]

Commits(c, op) == open[c].op = op /\ Close(c)

-----------------------------------------------------------------------------
Init ==
    /\ status = InitialStatus
    /\ batch = [b \in Batches |-> "NONE"]
    /\ items = [b \in Batches |-> {}]
    /\ shelved = [b \in Batches |-> {}]
    /\ returned = [b \in Batches |-> {}]
    /\ ledger = [s \in Serials |-> <<>>]
    /\ events = <<>>
    /\ open = [c \in Clerks |-> NoRequest]

\* create_batch, and its route: a form it refuses stores nothing (who may create
\* which batch, parties and tax treatment are left out).
NewBatch(b) == batch' = [batch EXCEPT ![b] = "DRAFT"]
CreateBatch(b) ==
    /\ batch[b] = "NONE"
    /\ NewBatch(b)
    /\ UNCHANGED <<status, items, shelved, returned, ledger, events, open>>

\* scan_into_batch and add_serial_to_batch; a rejected scan is only logged.
ScanLooks(c, b, s) ==
    /\ Draft(b)
    /\ SaleReturnsComplete(b) /\ ~ShelfRequired(b)
    /\ status[s] \in Allowed(b)
    /\ Fefo(b) => ExpiresFirst(s)
    /\ ~InDraft(s)
    /\ Open(c, "scan", b, {s})
    /\ UNCHANGED <<status, batch, items, shelved, returned, ledger, events>>

\* fefo_pick_into_batch: the first quantity serials by expiry
FefoLooks(c, b, set) ==
    /\ Draft(b) /\ Fefo(b) /\ FirstByExpiry(set)
    /\ Open(c, "scan", b, set)
    /\ UNCHANGED <<status, batch, items, shelved, returned, ledger, events>>

\* The INSERT fails as a whole if one of the serials is in the batch by now.
AddSerialToBatch(c) ==
    LET r == open[c]
    IN  /\ Commits(c, "scan")
        /\ items' = [items EXCEPT ![r.batch] =
                       IF r.items \cap @ = {} THEN @ \cup r.items ELSE @]
        /\ UNCHANGED <<status, batch, shelved, returned, ledger, events>>

\* remove_batch_item
RemoveLooks(c, b, s) ==
    /\ Draft(b) /\ s \in items[b]
    /\ Open(c, "remove", b, {s})
    /\ UNCHANGED <<status, batch, items, shelved, returned, ledger, events>>

DropItems(b, set) ==
    /\ items' = [items EXCEPT ![b] = @ \ set]
    /\ shelved' = [shelved EXCEPT ![b] = @ \ set]

RemoveBatchItem(c) ==
    /\ Commits(c, "remove")
    /\ DropItems(open[c].batch, open[c].items)
    /\ UNCHANGED <<status, batch, returned, ledger, events>>

\* scan_sale_return_product: the customer gives an item back at the counter.
ReturnLooks(c, b, s) ==
    /\ Draft(b) /\ Type[b] = "SALE"
    /\ SaleReturnsComplete(b) /\ s \in items[b]
    /\ Open(c, "return", b, {s})
    /\ UNCHANGED <<status, batch, items, shelved, returned, ledger, events>>

ScanSaleReturn(c) ==
    LET r == open[c]
    IN  /\ Commits(c, "return")
        /\ DropItems(r.batch, r.items)
        /\ returned' = [returned EXCEPT ![r.batch] = @ \cup r.items]
        /\ UNCHANGED <<status, batch, ledger, events>>

\* A shelf code: in a sale the returned product goes back there, in another batch
\* the items are verified on it.
ShelfLooks(c, b) ==
    LET pending == IF Type[b] = "SALE" THEN returned[b] ELSE PendingShelf(b)
    IN  /\ Draft(b) /\ pending # {}
        /\ Open(c, "shelf", b, pending)
        /\ UNCHANGED <<status, batch, items, shelved, returned, ledger, events>>

VerifySaleReturnOnShelf(c) ==
    LET r == open[c]
    IN  /\ Commits(c, "shelf") /\ Type[r.batch] = "SALE"
        /\ returned' = [returned EXCEPT ![r.batch] = @ \ r.items]
        /\ UNCHANGED <<status, batch, items, shelved, ledger, events>>

\* An item deleted since it was loaded makes the UPDATE fail.
VerifyPendingItemsOnShelf(c) ==
    LET r == open[c]
    IN  /\ Commits(c, "shelf") /\ Type[r.batch] # "SALE"
        /\ shelved' = [shelved EXCEPT ![r.batch] =
                          IF r.items \subseteq items[r.batch] THEN @ \cup r.items ELSE @]
        /\ UNCHANGED <<status, batch, items, returned, ledger, events>>

\* submit_batch loads the draft and validates it (the rates, which must be
\* positive, are left out).
SubmitLooks(c, b) ==
    /\ Draft(b) /\ items[b] # {}
    /\ SaleReturnsComplete(b) /\ ShelfComplete(b)
    /\ \A s \in items[b] : status[s] \in Allowed(b)
    /\ Open(c, "submit", b, items[b])
    /\ UNCHANGED <<status, batch, items, shelved, returned, ledger, events>>

\* apply_batch_statuses claims each loaded serial on its loaded status (an
\* audit claims nothing and moves nothing: its AUDIT rows in the transaction
\* log and its findings are left out), stores the frozen discounts (which needs
\* the items to be there) and the ledger; the event goes into the same commit.
CanApplyUnclaimed(r) == r.items \subseteq items[r.batch]  \* variant: no claim
CanApply(r) ==
    /\ r.items \subseteq items[r.batch]
    /\ Type[r.batch] # "AUDIT" => \A s \in r.items : status[s] = r.seen[s]

ApplyBatchStatuses(r) ==
    IF Type[r.batch] = "AUDIT"
       THEN UNCHANGED <<status, ledger>>
       ELSE /\ status' = [s \in Serials |-> IF s \in r.items THEN Target(r.batch)
                                                             ELSE status[s]]
            /\ ledger' = [s \in Serials |->
                            IF s \in r.items
                               THEN Append(ledger[s], [from |-> r.seen[s],
                                                       to |-> Target(r.batch)])
                               ELSE ledger[s]]

\* The items of the event are those loaded (variant: those there by now).
ItemsByNow(r) == items[r.batch]
Reported(r) == r.items

SubmitBatch(c) ==
    LET r == open[c]
    IN  /\ Commits(c, "submit")
        /\ IF CanApply(r)
              THEN /\ ApplyBatchStatuses(r)
                   /\ batch' = [batch EXCEPT ![r.batch] = "PENDING_SYNC"]
                   /\ events' = Append(events, [batch |-> r.batch, items |-> Reported(r)])
              ELSE UNCHANGED <<status, ledger, batch, events>>
        /\ UNCHANGED <<items, shelved, returned>>

-----------------------------------------------------------------------------
ClerkStep(c) ==
    \/ AddSerialToBatch(c) \/ RemoveBatchItem(c) \/ ScanSaleReturn(c)
    \/ VerifySaleReturnOnShelf(c) \/ VerifyPendingItemsOnShelf(c) \/ SubmitBatch(c)
    \/ \E b \in Batches :
          \/ ShelfLooks(c, b) \/ SubmitLooks(c, b)
          \/ \E s \in Serials :
                ScanLooks(c, b, s) \/ RemoveLooks(c, b, s) \/ ReturnLooks(c, b, s)
          \/ \E set \in SUBSET Serials : FefoLooks(c, b, set)

Next == \/ \E b \in Batches : CreateBatch(b)
        \/ \E c \in Clerks : ClerkStep(c)

Spec == Init /\ [][Next]_vars

-----------------------------------------------------------------------------
Requests == [op : {"scan", "remove", "return", "shelf", "submit"}, batch : Batches,
             items : SUBSET Serials, seen : [Serials -> Statuses],
             overtaken : 0..MaxOvertaken]

TypeOK ==
    /\ status \in [Serials -> Statuses]
    /\ batch \in [Batches -> {"NONE", "DRAFT", "PENDING_SYNC"}]
    /\ items \in [Batches -> SUBSET Serials]
    /\ shelved \in [Batches -> SUBSET Serials]
    /\ returned \in [Batches -> SUBSET Serials]
    /\ ledger \in [Serials -> Seq([from : Statuses, to : Statuses])]
    /\ events \in Seq([batch : Batches, items : SUBSET Serials])
    /\ open \in [Clerks -> Requests \cup {NoRequest}]

\* Movements q lead, each from where the one before ended, from first to last.
Before(q, first, i) == IF i = 1 THEN first ELSE q[i - 1].to
Chain(q, first, last) ==
    /\ \A i \in 1..Len(q) : q[i].from = Before(q, first, i)
    /\ last = Before(q, first, Len(q) + 1)

\* The ledger of a serial is an unbroken chain from its first status to its
\* present one, however the submissions overtake each other: no movement is
\* lost, repeated or recorded from a status the serial did not have.
LedgerChains == \A s \in Serials : Chain(ledger[s], InitialStatus[s], status[s])

\* What Master is told adds up: replaying the queued events in order gives
\* every serial its present status.
Moves(s) == {i \in 1..Len(events) : s \in events[i].items
                                      /\ Type[events[i].batch] # "AUDIT"}
EventsTellStatus ==
    \A s \in Serials : \A i \in Moves(s) :
        (\A j \in Moves(s) : j <= i) => status[s] = Target(events[i].batch)

\* "This batch is already submitted": a batch that moves stock is submitted, and
\* reported to Master, at most once.  (An audit claims nothing, so two overlapping
\* submissions of it both succeed.)
MovesStock(b) == Type[b] # "AUDIT"
SubmittedOnce ==
    \A i, j \in 1..Len(events) :
        events[i].batch = events[j].batch /\ MovesStock(events[i].batch) => i = j

\* "Submitted batches cannot be edited": a submitted batch keeps the items it
\* reported; they were all verified on a shelf, and none of them waits to be
\* put back.  It does not hold: an edit that waits for the write lock while the
\* batch is submitted does change it (README, Known disagreements).
SubmittedIsFrozen ==
    \A i \in 1..Len(events) :
        LET b == events[i].batch
        IN  items[b] = events[i].items /\ PendingShelf(b) = {} /\ returned[b] = {}

-----------------------------------------------------------------------------
(* What makes SubmittedOnce inductive. *)

\* What the events report is submitted.
ReportedIsSubmitted == \A i \in 1..Len(events) : batch[events[i].batch] = "PENDING_SYNC"

\* A request that no commit has overtaken writes into a draft, and a submission
\* knows the draft as it is.
RequestsAreFresh ==
    \A c \in Clerks :
        LET r == open[c]
        IN  r.op # "none" /\ r.overtaken = 0 =>
               /\ Draft(r.batch)
               /\ r.op = "submit" => r.seen = status /\ r.items = items[r.batch]

\* A submission has found serials, all in a status that the batch accepts.
SubmissionsAreValid ==
    \A c \in Clerks : open[c].op = "submit" =>
        /\ open[c].items # {}
        /\ \A s \in open[c].items : open[c].seen[s] \in Allowed(open[c].batch)

\* A submission of stock that came too late cannot claim one of its serials.
LateCannotClaim ==
    \A c \in Clerks :
        LET r == open[c]
        IN  r.op = "submit" /\ r.overtaken > 0 /\ MovesStock(r.batch) =>
               Draft(r.batch) \/ \E s \in r.items : status[s] # r.seen[s]

OnceInv ==
    /\ TypeOK /\ ReportedIsSubmitted /\ RequestsAreFresh /\ SubmissionsAreValid
    /\ LateCannotClaim /\ SubmittedOnce

=============================================================================
