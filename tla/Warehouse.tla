----------------------------- MODULE Warehouse -----------------------------
(***************************************************************************)
(* The life of QR serials in a warehouse (app/services/relocation.py,      *)
(* master_qr.py, replacement.py, assignment.py and the routers above       *)
(* them).  A serial is a label on a physical unit.  It is allocated by a   *)
(* command of Master, or generated here in legacy mode; purchased, sold    *)
(* and returned by batches; placed on a shelf by the shelf scans of drafts *)
(* and moved between storage locations; and retired in favour of a         *)
(* replacement label that takes over its unit.  Events name the warehouse  *)
(* of a location; a location stands for it here.  Transfers between        *)
(* franchises, which reset the location, are in module Transfers.          *)
(*                                                                         *)
(* As in Batches, a request loads what it decides on, waits for SQLite's   *)
(* write lock, and writes and commits in one step.  A command of Master    *)
(* inserts its inbox row first, so it reads under the lock, unless the row *)
(* is there already because the command has failed before.                 *)
(***************************************************************************)
EXTENDS Integers, FiniteSets

CONSTANTS
    Serials,       \* primary keys of serials, in the order of creation
    Locations,     \* primary keys of storage_locations
    None,          \* stands for no location, no serial, no item
    Clerks,        \* users whose requests overlap
    Expiry,        \* expiry date of the unit a first label is put on
    Items,         \* items a move may ask for: [from, quantity, serial]
    Shelved,       \* serials in the drafts whose shelf scans are modelled
    Modes,         \* app_mode: "lite", or "legacy" in tests
    MaxFailed,     \* bound: failed commands Master still repeats
    MaxOvertaken   \* bound: requests that commit while one waits to write

Worker == "worker"             \* the thread that applies Master's commands
Gone == "gone"                 \* a unit that is not in this warehouse
Places == Locations \cup {None}
ItemRecords == [from : Places, quantity : Nat, serial : Serials \cup {None}]

ASSUME WarehouseAssumption ==
    /\ Serials \subseteq Nat /\ IsFiniteSet(Serials)
    /\ Expiry \in [Serials -> Nat]
    /\ None \notin Locations \cup Serials /\ Gone \notin Places
    /\ Worker \notin Clerks
    /\ Items \subseteq ItemRecords /\ None \notin Items
    /\ Shelved \subseteq Serials
    /\ Modes \subseteq {"lite", "legacy"}
ASSUME WarehouseBoundsAssumption ==
    MaxFailed \in Nat /\ MaxOvertaken \in Nat

VARIABLES
    mode,       \* app_mode
    product,    \* the product: missing, or how it compares with Master's
    serial,     \* status, active, location_id, replaced_by_id
    locations,  \* the storage locations that are there and active
    trail,      \* of the relocations and shelf scans of a serial: where the last
                \* one ends, and whether each starts where the one before ended
    told,       \* location in its newest event, Gone if placed on a shelf since
    failed,     \* QR_REPLACE commands with a FAILED inbox row that may still succeed
    open,       \* the request of each clerk that waits to write
    unitOf,     \* the unit each label stands for, named by its first label
    place,      \* where each unit is
    raced       \* units whose label was replaced or shelved from a stale row

stockVars == <<serial, trail, told, unitOf, place, raced>>
vars == <<mode, product, locations, failed, open, stockVars>>

-----------------------------------------------------------------------------
\* SOLD stands for every status of stock that has left.
Statuses == {"NONE", "GENERATED", "IN_STOCK", "SOLD", "DAMAGED", "INVALID"}
Movable == {"IN_STOCK"}                    \* nothing assigns RETURNED any more
Replaceable == {"GENERATED", "IN_STOCK", "DAMAGED"}
Stocked == {"IN_STOCK", "DAMAGED"}

NoRow == [status |-> "NONE", active |-> FALSE, loc |-> None, replacedBy |-> None]
TrailFrom(loc) == [end |-> loc, whole |-> TRUE]
Exists(s) == serial[s].status # "NONE"
Unused == {s \in Serials : ~Exists(s)}

\* A request that has read, and how many commits have overtaken it since.
NoRequest == [op |-> "none"]
Actors == Clerks \cup {Worker}
Requests ==
    {NoRequest}
    \cup [op : {"move"}, dest : Locations, first : Items, second : Items \cup {None},
          set : SUBSET Serials, overtaken : 0..MaxOvertaken]
    \cup [op : {"delete"}, overtaken : 0..MaxOvertaken]
    \cup [op : {"shelf"}, old : Serials, dest : Locations, loc : Places,
          changed : BOOLEAN, overtaken : 0..MaxOvertaken]
    \cup [op : {"replace"}, old : Serials, new : Serials, expected : Replaceable,
          loc : Places, changed : BOOLEAN, overtaken : 0..MaxOvertaken]

Open(c, request) ==
    /\ open[c] = NoRequest
    /\ open' = [open EXCEPT ![c] = request]

\* A commit, by a waiting request or (None) by one that need not wait, overtakes
\* the requests that wait.  Those that write a row they have read note when it
\* has changed.
Waiting(c) == {d \in Actors \ {c} : open[d] # NoRequest}
Overtaken(r) ==
    IF r.op \in {"replace", "shelf"}
       THEN [r EXCEPT !.overtaken = @ + 1,
                      !.changed = @ \/ serial'[r.old] # serial[r.old]]
       ELSE [r EXCEPT !.overtaken = @ + 1]
Commit(c) ==
    /\ \A d \in Waiting(c) : open[d].overtaken < MaxOvertaken
    /\ open' = [d \in Actors |->
                  IF d \in Waiting(c) THEN Overtaken(open[d])
                  ELSE IF d = c THEN NoRequest ELSE open[d]]

-----------------------------------------------------------------------------
Init ==
    /\ mode \in Modes
    /\ product = "none"
    /\ serial = [s \in Serials |-> NoRow]
    /\ locations = {}
    /\ trail = [s \in Serials |-> TrailFrom(None)]
    /\ told = [s \in Serials |-> Gone]
    /\ failed = {}
    /\ open = [c \in Actors |-> NoRequest]
    /\ unitOf = [s \in Serials |-> s]
    /\ place = [s \in Serials |-> Gone]
    /\ raced = {}

-----------------------------------------------------------------------------
(* Products.  Only identity matters here: "same" as Master's, "other", or  *)
(* "inactive".                                                             *)

CreateProduct(identity) ==
    /\ product = "none"
    /\ product' = identity
    /\ serial' = serial
    /\ Commit(None)
    /\ UNCHANGED <<mode, locations, failed, trail, told, unitOf, place, raced>>

\* update_product_pricing may change the HSN, the GST rate and the Tally name.
UpdateProductPricing(identity) ==
    /\ product # "none"
    /\ product' = IF product = "inactive" THEN product ELSE identity
    /\ serial' = serial
    /\ Commit(None)
    /\ UNCHANGED <<mode, locations, failed, trail, told, unitOf, place, raced>>

\* delete_product counts the serials, then waits to write.
DeleteProductLooks(c) ==
    /\ product # "none"
    /\ Unused = Serials
    /\ Open(c, [op |-> "delete", overtaken |-> 0])
    /\ UNCHANGED <<mode, product, locations, failed, stockVars>>

\* The foreign key of serials.product_id refuses the delete when there are
\* serials by now (and a variant for a database without PRAGMA foreign_keys).
DeleteProductUnchecked(c) ==
    /\ open[c].op = "delete"
    /\ product' = "none"
    /\ serial' = serial
    /\ Commit(c)
    /\ UNCHANGED <<mode, locations, failed, trail, told, unitOf, place, raced>>
DeleteProduct(c) ==
    /\ open[c].op = "delete"
    /\ product' = IF Unused = Serials THEN "none" ELSE product
    /\ serial' = serial
    /\ Commit(c)
    /\ UNCHANGED <<mode, locations, failed, trail, told, unitOf, place, raced>>

\* apply_product_upsert_command: Master owns the identity, but an existing
\* product keeps whether it is active.
ApplyProductUpsert(active) ==
    /\ mode = "lite"
    /\ product' = IF product = "inactive" \/ (product = "none" /\ ~active)
                     THEN "inactive" ELSE "same"
    /\ serial' = serial
    /\ Commit(None)
    /\ UNCHANGED <<mode, locations, failed, trail, told, unitOf, place, raced>>

-----------------------------------------------------------------------------
(* New labels. *)

NewRow(status, loc) ==
    [status |-> status, active |-> TRUE, loc |-> loc, replacedBy |-> None]

\* The rows of a set of new labels, each on a unit of its own.  Units of labels
\* that are in stock at once are there already.
AddLabels(set, status) ==
    /\ set # {} /\ set \subseteq Unused
    /\ serial' = [s \in Serials |-> IF s \in set THEN NewRow(status, None) ELSE serial[s]]
    /\ place' = [s \in Serials |->
                   IF s \in set /\ status \in Stocked THEN None ELSE place[s]]
    /\ UNCHANGED <<trail, told, unitOf, raced>>

\* apply_qr_allocated_command: a product that is there must be Master's.
ApplyQrAllocated(set) ==
    /\ mode = "lite"
    /\ product \in {"none", "same"}
    /\ product' = "same"
    /\ AddLabels(set, "GENERATED")
    /\ failed' = {k \in failed : k.new \notin set}
    /\ Commit(None)
    /\ UNCHANGED <<mode, locations>>

\* assign_barcodes_to_existing_stock: labels, ledger and a closed batch in one
\* transaction.
AssignBarcodes(set, status) ==
    /\ mode = "legacy"
    /\ AddLabels(set, status)
    /\ Commit(None)
    /\ UNCHANGED <<mode, locations, failed>>

\* The form of the assignment page, for stock that is there or is expected.
GenerateAssignment(set, status) ==
    /\ status \in {"GENERATED", "IN_STOCK"}
    /\ product # "none" /\ product' = product
    /\ AssignBarcodes(set, status)

\* The form of the products page, which takes any status.
GenerateProductSerials(set, status) ==
    /\ product # "none" /\ product' = product
    /\ AssignBarcodes(set, status)

\* An Excel sheet of stock that is there.  A product it names is found among the
\* active ones, or created.
ImportProduct == IF product = "none" THEN "other" ELSE product
BulkAssignment(set) ==
    /\ product # "inactive"
    /\ product' = ImportProduct
    /\ AssignBarcodes(set, "IN_STOCK")

-----------------------------------------------------------------------------
(* Batches: apply_batch_statuses claims each serial on its status.  A unit *)
(* comes back to where its label says it was, and the event tells Master   *)
(* where that is.  Issues and purchase returns are like sales.             *)

Transitions ==
    {<<"GENERATED", "IN_STOCK">>, <<"IN_STOCK", "SOLD">>, <<"SOLD", "IN_STOCK">>,
     <<"SOLD", "DAMAGED">>}

SubmitBatch(s, t) ==
    /\ t \in Transitions
    /\ serial[s].active /\ serial[s].status = t[1]
    /\ serial' = [serial EXCEPT ![s].status = t[2]]
    /\ place' = [place EXCEPT ![unitOf[s]] = IF t[2] \in Stocked THEN serial[s].loc ELSE Gone]
    /\ told' = IF mode = "lite" THEN [told EXCEPT ![s] = serial[s].loc] ELSE told
    /\ Commit(None)
    /\ UNCHANGED <<mode, product, locations, failed, trail, unitOf, raced>>

\* A shelf scan places the pending items of a purchase or audit draft, or the
\* serials removed from a sale draft; it does not look at their state again.
ShelfLooks(c, s, l) ==
    /\ Exists(s) /\ l \in locations
    /\ Open(c, [op |-> "shelf", old |-> s, dest |-> l, loc |-> serial[s].loc,
                changed |-> FALSE, overtaken |-> 0])
    /\ UNCHANGED <<mode, product, locations, failed, stockVars>>

\* A row of relocation_serials, or a shelf scan, added to a serial's history.
Recorded(s, from, to) ==
    [end |-> to, whole |-> trail[s].whole /\ trail[s].end = from]

\* The unit of work writes a location only where it differs from the loaded one.
\* There is no relocation row and no event.
VerifyOnShelf(c) ==
    LET r == open[c]
        s == r.old
    IN  /\ r.op = "shelf"
        /\ serial' = [serial EXCEPT ![s].loc = IF r.loc = r.dest THEN @ ELSE r.dest]
        /\ trail' = [trail EXCEPT ![s] = Recorded(s, r.loc, r.dest)]
        /\ told' = [told EXCEPT ![s] = Gone]
        /\ place' = [place EXCEPT ![unitOf[s]] = IF @ = Gone THEN @ ELSE r.dest]
        /\ raced' = IF r.changed \/ ~serial[s].active THEN raced \cup {unitOf[s]} ELSE raced
        /\ Commit(c)
        /\ UNCHANGED <<mode, product, locations, failed, unitOf>>

-----------------------------------------------------------------------------
(* Locations and moves. *)

\* create_location, whose code is unique, and the form that calls it.
NewLocation(l) == l \notin locations /\ locations' = locations \cup {l}

AddLocation(l) ==
    /\ NewLocation(l)
    /\ serial' = serial
    /\ Commit(None)
    /\ UNCHANGED <<mode, product, failed, trail, told, unitOf, place, raced>>

ToggleLocation(l) ==
    /\ locations' = IF l \in locations THEN locations \ {l} ELSE locations \cup {l}
    /\ serial' = serial
    /\ Commit(None)
    /\ UNCHANGED <<mode, product, failed, trail, told, unitOf, place, raced>>

\* _candidate_query in the order it sorts: by expiry date, then by age.
Candidates(rows, item) ==
    {s \in Serials : /\ rows[s].active /\ rows[s].status \in Movable
                     /\ rows[s].loc = item.from
                     /\ item.serial \in {s, None}}
Before(s, t) ==
    \/ Expiry[unitOf[s]] < Expiry[unitOf[t]]
    \/ Expiry[unitOf[s]] = Expiry[unitOf[t]] /\ s < t
Picks(rows, item) ==
    LET found == Candidates(rows, item)
    IN  {s \in found : Cardinality({t \in found : Before(t, s)}) < item.quantity}
Supplies(set, item) == Cardinality(set) = item.quantity

Asks(item, dest) ==
    /\ item.quantity >= 1
    /\ item.serial # None => item.quantity = 1
    /\ item.from # dest

\* relocate_stock checks the destination and picks the serials of the first
\* item before the first write; the others are picked under the write lock.
RelocateLooks(c, dest, first, second) ==
    LET picked == Picks(serial, first)
    IN  /\ dest \in locations
        /\ Asks(first, dest) /\ (second # None => Asks(second, dest))
        /\ Supplies(picked, first)
        /\ Open(c, [op |-> "move", dest |-> dest, first |-> first, second |-> second,
                    set |-> picked, overtaken |-> 0])
        /\ UNCHANGED <<mode, product, locations, failed, stockVars>>

\* The conditional UPDATE of an item (and a variant without its condition on
\* the location), and the rows after it.
ClaimedAnywhere(set, item) ==
    \A s \in set : serial[s].active /\ serial[s].status \in Movable
Claimed(set, item) ==
    \A s \in set : /\ serial[s].active /\ serial[s].status \in Movable
                   /\ serial[s].loc = item.from
MovedTo(rows, set, dest) ==
    [s \in Serials |-> IF s \in set THEN [rows[s] EXCEPT !.loc = dest] ELSE rows[s]]

\* The location a snapshot event tells: of the objects aligned with the UPDATE
\* (and a variant that tells what was loaded).
SnapshotLoaded(s, dest) == serial[s].loc
Snapshot(s, dest) == dest

\* Everything of a move commits or nothing does.
RelocateStock(c) ==
    LET r == open[c]
        rows == MovedTo(serial, r.set, r.dest)
        more == IF r.second = None THEN {} ELSE Picks(rows, r.second)
        moved == r.set \cup more
        source(s) == IF s \in r.set THEN r.first.from ELSE r.second.from
    IN  /\ r.op = "move"
        /\ Claimed(r.set, r.first)
        /\ r.second # None => Supplies(more, r.second)
        /\ serial' = MovedTo(rows, more, r.dest)
        /\ trail' = [s \in Serials |->
                       IF s \in moved THEN Recorded(s, source(s), r.dest) ELSE trail[s]]
        /\ told' = [s \in Serials |->
                      IF mode = "lite" /\ s \in moved THEN Snapshot(s, r.dest) ELSE told[s]]
        /\ place' = [u \in Serials |->
                       IF \E s \in moved : unitOf[s] = u THEN r.dest ELSE place[u]]
        /\ Commit(c)
        /\ UNCHANGED <<mode, product, locations, failed, unitOf, raced>>

RelocationFails(c) ==
    LET r == open[c]
        rows == MovedTo(serial, r.set, r.dest)
    IN  /\ r.op = "move"
        /\ \/ ~Claimed(r.set, r.first)
           \/ r.second # None /\ ~Supplies(Picks(rows, r.second), r.second)
        /\ open' = [open EXCEPT ![c] = NoRequest]
        /\ UNCHANGED <<mode, product, locations, failed, stockVars>>

-----------------------------------------------------------------------------
(* Replacement of a label. *)

\* The state a replacement asks for (and a variant that trusts the command).
MatchesAny(s, expected) == serial[s].status \in Replaceable
Matches(s, expected) == serial[s].active /\ serial[s].status = expected

\* The new label takes over the unit and, as it was read, the location; the old
\* one is retired whatever has become of its row.
Replace(old, new, expected, loc, changed) ==
    /\ serial' = [serial EXCEPT
                    ![new] = NewRow(IF expected = "GENERATED" THEN expected ELSE "IN_STOCK", loc),
                    ![old].status = "INVALID", ![old].active = FALSE, ![old].replacedBy = new]
    /\ unitOf' = [unitOf EXCEPT ![new] = unitOf[old]]
    /\ told' = IF mode = "lite"
                  THEN [told EXCEPT ![old] = Snapshot(old, serial[old].loc),
                                    ![new] = Snapshot(new, loc)]
                  ELSE told
    /\ raced' = IF changed THEN raced \cup {unitOf[old]} ELSE raced
    /\ trail' = [trail EXCEPT ![new] = TrailFrom(loc)]
    /\ place' = place

\* apply_qr_replace_command at the first delivery, under the write lock: it is
\* applied, or kept as failed (and fails for ever if its new label exists).
ApplyQrReplace(old, new, expected) ==
    LET command == [old |-> old, new |-> new, expected |-> expected]
    IN  /\ mode = "lite"
        /\ old # new /\ command \notin failed
        /\ open[Worker] = NoRequest
        /\ IF Matches(old, expected) /\ ~Exists(new)
              THEN /\ Replace(old, new, expected, serial[old].loc, FALSE)
                   /\ failed' = {k \in failed : k.new # new}
              ELSE /\ ~Exists(new) /\ Cardinality(failed) < MaxFailed
                   /\ failed' = failed \cup {command}
                   /\ UNCHANGED stockVars
        /\ Commit(None)
        /\ UNCHANGED <<mode, product, locations>>

\* A repeated command, or the replacement form of legacy mode, reads before it
\* has the lock.
ReplaceLooks(c, old, new, expected) ==
    LET command == [old |-> old, new |-> new, expected |-> expected]
    IN  /\ old # new
        /\ IF mode = "lite" THEN c = Worker /\ command \in failed ELSE c \in Clerks
        /\ Matches(old, expected) /\ ~Exists(new)
        /\ Open(c, [op |-> "replace", old |-> old, new |-> new, expected |-> expected,
                    loc |-> serial[old].loc, changed |-> FALSE, overtaken |-> 0])
        /\ UNCHANGED <<mode, product, locations, failed, stockVars>>

\* Only the number of the new label is checked again, by its unique index.
ReplaceBarcodeSerial(c) ==
    LET r == open[c]
    IN  /\ r.op = "replace"
        /\ ~Exists(r.new)
        /\ Replace(r.old, r.new, r.expected, r.loc, r.changed)
        /\ failed' = {k \in failed : k.new # r.new}
        /\ Commit(c)
        /\ UNCHANGED <<mode, product, locations>>

ReplacementFails(c) ==
    /\ open[c].op = "replace"
    /\ Exists(open[c].new)
    /\ open' = [open EXCEPT ![c] = NoRequest]
    /\ UNCHANGED <<mode, product, locations, failed, stockVars>>

-----------------------------------------------------------------------------
Next ==
    \/ \E identity \in {"same", "other"} :
           CreateProduct(identity) \/ UpdateProductPricing(identity)
    \/ \E active \in BOOLEAN : ApplyProductUpsert(active)
    \/ \E set \in SUBSET Serials :
           \/ ApplyQrAllocated(set)
           \/ BulkAssignment(set)
           \/ \E status \in Statuses \ {"NONE"} :
                  GenerateAssignment(set, status) \/ GenerateProductSerials(set, status)
    \/ \E s \in Serials, t \in Transitions : SubmitBatch(s, t)
    \/ \E l \in Locations : AddLocation(l) \/ ToggleLocation(l)
    \/ \E old, new \in Serials, expected \in Replaceable :
           \/ ApplyQrReplace(old, new, expected)
           \/ \E c \in Actors : ReplaceLooks(c, old, new, expected)
    \/ \E c \in Actors : ReplaceBarcodeSerial(c) \/ ReplacementFails(c)
    \/ \E c \in Clerks :
           \/ \E s \in Shelved, l \in Locations : ShelfLooks(c, s, l)
           \/ VerifyOnShelf(c)
           \/ DeleteProductLooks(c) \/ DeleteProduct(c)
           \/ \E dest \in Locations, first \in Items, second \in Items \cup {None} :
                  RelocateLooks(c, dest, first, second)
           \/ RelocateStock(c) \/ RelocationFails(c)

Spec == Init /\ [][Next]_vars

-----------------------------------------------------------------------------
Rows == [status : Statuses, active : BOOLEAN, loc : Places, replacedBy : Serials \cup {None}]
Trails == [end : Places, whole : BOOLEAN]

\* Every variable holds values of its kind.
TypeOK ==
    /\ mode \in {"lite", "legacy"}
    /\ product \in {"none", "same", "other", "inactive"}
    /\ serial \in [Serials -> Rows]
    /\ locations \subseteq Locations
    /\ trail \in [Serials -> Trails]
    /\ told \in [Serials -> Places \cup {Gone}]
    /\ failed \subseteq [old : Serials, new : Serials, expected : Replaceable]
    /\ open \in [Actors -> Requests]
    /\ unitOf \in [Serials -> Serials]
    /\ place \in [Serials -> Places \cup {Gone}]
    /\ raced \subseteq Serials

\* The relocations and shelf scans of a serial are a path: each starts where the
\* one before it ended, and the last one ends at the serial's location, because
\* overlapping moves of relocate_stock claim the serial at the location they
\* record as the previous one.  The exception are serials a shelf scan has placed
\* from a row that had changed since.
TrailChains ==
    \A s \in {t \in Serials : unitOf[t] \notin raced} :
        trail[s].whole /\ trail[s].end = serial[s].loc

\* A label that is active and in stock stands for a unit that is here, at the
\* location of the label, through moves, sales, returns and replacements; the
\* exception are units one of whose labels was replaced or shelved by a request or
\* a repeated command that had read the label before it changed, and units
\* shelved under a label that was replaced while it was in the draft.
StockIsWhereItSays ==
    \A s \in Serials :
        (/\ serial[s].active /\ serial[s].status \in Stocked
         /\ unitOf[s] \notin raced)
            => place[unitOf[s]] = serial[s].loc

\* The newest event of a serial in the outbox tells Master where the serial is,
\* unless a shelf scan has placed it since: relocate_stock, submissions and
\* apply_qr_replace_command write it in the transaction that changes the serial.
MasterKnowsPlace ==
    \A s \in Serials : told[s] # Gone => told[s] = serial[s].loc

\* No serial is left without its product when a delete overtakes, or is
\* overtaken by, the allocation of labels.
LabelsHaveProduct == product = "none" => Unused = Serials
-----------------------------------------------------------------------------
(* What makes the properties inductive. *)

\* A serial that is not used yet has a blank row, no history, no event and a unit
\* of its own; the labels of a unit follow its first one.
UnusedIsBlank ==
    \A s \in Unused :
        serial[s] = NoRow /\ trail[s] = TrailFrom(None) /\ told[s] = Gone /\ unitOf[s] = s
UnitsExist == \A s \in Serials : Exists(s) => Exists(unitOf[s])

\* A unit has one active label: a replacement retires the old one as it adds the
\* new one.
OneActiveLabel ==
    \A s, t \in Serials :
        (/\ serial[s].active /\ serial[t].active
         /\ unitOf[s] = unitOf[t] /\ unitOf[s] \notin raced) => s = t

\* A request that waits has loaded a row that is there, and while nobody has
\* written that row it is as it was read.
RequestsFit ==
    \A c \in Actors :
        LET r == open[c]
        IN  /\ r.op \in {"shelf", "replace"} => Exists(r.old)
            /\ r.op \in {"shelf", "replace"} /\ ~r.changed => serial[r.old].loc = r.loc
            /\ r.op = "replace" /\ ~r.changed => Matches(r.old, r.expected)
            /\ r.op = "replace" => r.old # r.new

\* Legacy mode writes no events.
LegacyIsSilent == mode = "legacy" => \A s \in Serials : told[s] = Gone

StockInv ==
    /\ TrailChains /\ StockIsWhereItSays /\ MasterKnowsPlace
    /\ UnusedIsBlank /\ UnitsExist /\ OneActiveLabel /\ LegacyIsSilent
IInv == TypeOK /\ StockInv /\ LabelsHaveProduct /\ RequestsFit
=============================================================================
