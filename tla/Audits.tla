------------------------------- MODULE Audits -------------------------------
(***************************************************************************)
(* Timed stock audits (app/services/audit.py, app/routers/                 *)
(* audit_assignments.py): an assignment freezes the stock it expects and a *)
(* window of time; the auditor scans serials into its batches; findings    *)
(* are computed when a batch is submitted, when the deadline is extended,  *)
(* and when somebody opens a report after the deadline.  The report of     *)
(* missing stock shows, for each serial, the newest finding of any         *)
(* assignment.                                                             *)
(*                                                                         *)
(* As in Batches, a request loads what it decides on, waits for SQLite's   *)
(* write lock, and writes and commits in one step.  Time may pass between. *)
(*                                                                         *)
(* Initial states, steps and types are named after the component, so that  *)
(* MaintenanceProofs can extend this module and Maintenance.               *)
(***************************************************************************)
EXTENDS Integers, Sequences, FiniteSets, SequencesExt

CONSTANTS
    Serials,       \* serials of one product
    Assignments,   \* primary keys of audit_assignments
    Batches, Clerks,
    None,          \* stands for no assignment
    MaxTime,       \* bound: the clock
    MaxOvertaken   \* bound: requests that commit while one waits to write

ASSUME AuditsAssumption == Assignments \subseteq Nat /\ None \notin Assignments
ASSUME AuditsBoundsAssumption == MaxTime \in Nat \ {0} /\ MaxOvertaken \in Nat

VARIABLES
    now,        \* the clock, from 1
    stock,      \* serials IN_STOCK; the others are SOLD
    starts, ends,   \* window of each assignment; ends is 0 before it exists
    expected,   \* audit_assignment_items of each assignment
    owner,      \* audit_assignment_id of each batch
    batch,      \* batches.status
    scans,      \* created_at of each batch_item, 0 if there is none
    stored,     \* history: when each batch_item was committed
    findings,   \* finding_type of each assignment's finding of each serial
    order,      \* the assignments by the age of their findings
    outdated,   \* history: assignments whose findings were computed with a deadline
                \* that an overlapping request had replaced
    open        \* the request of each clerk that waits to write

assignmentVars == <<starts, ends, expected>>
batchVars == <<owner, batch, scans, stored>>
findingVars == <<findings, order, outdated>>
auditVars == <<now, stock, assignmentVars, batchVars, findingVars, open>>

-----------------------------------------------------------------------------
Times == 1..MaxTime
FindingTypes == {"NONE", "VERIFIED", "MISSING", "PENDING", "EXTRA"}
BatchesOf(a) == {b \in Batches : owner[b] = a}
Draft(b) == batch[b] = "DRAFT"
InDraft(s) == \E b \in Batches : Draft(b) /\ scans[b][s] # 0

\* A request that has read: the batch and the serials, or the assignments, it
\* writes about, the deadlines as it has loaded or wants to set them (the window
\* of a new assignment), the time, and how many commits have overtaken it.
Operations == {"create", "scan", "remove", "submit", "extend", "refresh"}
AuditRequests == [op : Operations, batch : Batches \cup {None},
                  set : SUBSET (Serials \cup Assignments),
                  ends : [Assignments -> 0..MaxTime] \cup (Times \X Times),
                  moment : Times, overtaken : 0..MaxOvertaken]
NoRequest == [op |-> "none"]
Open(c, op, b, set, deadlines) ==
    /\ open[c] = NoRequest
    /\ open' = [open EXCEPT ![c] = [op |-> op, batch |-> b, set |-> set, ends |-> deadlines,
                                    moment |-> now, overtaken |-> 0]]

Waiting(c) == {d \in Clerks \ {c} : open[d] # NoRequest}
Close(c) ==
    /\ \A d \in Waiting(c) : open[d].overtaken < MaxOvertaken
    /\ open' = [d \in Clerks |->
                  IF d = c THEN NoRequest
                  ELSE IF d \in Waiting(c) THEN [open[d] EXCEPT !.overtaken = @ + 1]
                  ELSE open[d]]

Commits(c, op) == open[c].op = op /\ Close(c)

-----------------------------------------------------------------------------
(* reconcile_audit_assignment *)

\* Scans of an assignment within the window (and a variant that looks at
\* submitted batches only).
CountedWhenSubmitted(a, end) ==
    {s \in Serials : \E b \in BatchesOf(a) : ~Draft(b) /\ scans[b][s] \in starts[a]..end}
Counted(a, end) ==
    {s \in Serials : \E b \in BatchesOf(a) : scans[b][s] \in starts[a]..end}

\* The finding of one serial, given the deadline as loaded and the time.
Finding(a, end, moment, s) ==
    IF s \in Counted(a, end)
       THEN IF s \in expected[a] THEN "VERIFIED" ELSE "EXTRA"
       ELSE IF s \notin expected[a] THEN "NONE"
       ELSE IF moment > end THEN "MISSING" ELSE "PENDING"

\* The old findings of these assignments are deleted and new ones inserted.
Newest(set) == SelectSeq(order, LAMBDA a : a \notin set) \o SetToSortSeq(set, <)

Reconcile(set, deadlines, moment) ==
    /\ outdated' = (outdated \ set) \cup {a \in set : deadlines[a] # ends'[a]}
    /\ findings' = [a \in Assignments |->
                      IF a \in set
                         THEN [s \in Serials |-> Finding(a, deadlines[a], moment, s)]
                         ELSE findings[a]]
    /\ order' = Newest(set)

-----------------------------------------------------------------------------
AuditInit ==
    /\ now = 1
    /\ stock = Serials
    /\ starts = [a \in Assignments |-> 0]
    /\ ends = [a \in Assignments |-> 0]
    /\ expected = [a \in Assignments |-> {}]
    /\ owner = [b \in Batches |-> None]
    /\ batch = [b \in Batches |-> "NONE"]
    /\ scans = [b \in Batches |-> [s \in Serials |-> 0]]
    /\ stored = scans
    /\ findings = [a \in Assignments |-> [s \in Serials |-> "NONE"]]
    /\ order = <<>>
    /\ outdated = {}
    /\ open = [c \in Clerks |-> NoRequest]

Tick ==
    /\ now < MaxTime
    /\ now' = now + 1
    /\ UNCHANGED <<stock, assignmentVars, batchVars, findingVars, open>>

\* A sale or a sales return of a serial that is in no open batch (see Batches).
StockMoves(s) ==
    /\ ~InDraft(s)
    /\ stock' = IF s \in stock THEN stock \ {s} ELSE stock \cup {s}
    /\ UNCHANGED <<now, assignmentVars, batchVars, findingVars, open>>

\* create_audit_assignment: the expected serials are read, then everything is
\* inserted, the first batch included.
CanCreate(start, end) == start < end /\ end > now /\ stock # {}

CreateLooks(c, start, end) ==
    /\ CanCreate(start, end)
    /\ Open(c, "create", None, stock, <<start, end>>)
    /\ UNCHANGED <<now, stock, assignmentVars, batchVars, findingVars>>

CreateAuditAssignment(c, a, b) ==
    LET r == open[c]
    IN  /\ Commits(c, "create")
        /\ ends[a] = 0 /\ batch[b] = "NONE"
        /\ starts' = [starts EXCEPT ![a] = r.ends[1]]
        /\ ends' = [ends EXCEPT ![a] = r.ends[2]]
        /\ expected' = [expected EXCEPT ![a] = r.set]
        /\ owner' = [owner EXCEPT ![b] = a]
        /\ batch' = [batch EXCEPT ![b] = "DRAFT"]
        /\ UNCHANGED <<now, stock, scans, stored, findingVars>>

\* POST /batches/new with an active assignment that has no draft.
CreateBatch(a, b) ==
    /\ now \in starts[a]..ends[a]
    /\ ~\E d \in BatchesOf(a) : Draft(d)
    /\ batch[b] = "NONE"
    /\ owner' = [owner EXCEPT ![b] = a]
    /\ batch' = [batch EXCEPT ![b] = "DRAFT"]
    /\ UNCHANGED <<now, stock, assignmentVars, scans, stored, findingVars, open>>

\* add_serial_to_batch with validate_assignment_scan; created_at is set after the
\* checks, before the INSERT waits for the lock.
ScanLooks(c, b, s) ==
    /\ Draft(b) /\ ~InDraft(s)
    /\ now \in starts[owner[b]]..ends[owner[b]]
    /\ Open(c, "scan", b, {s}, ends)
    /\ UNCHANGED <<now, stock, assignmentVars, batchVars, findingVars>>

Stamped(times, b, set, time) ==
    [times EXCEPT ![b] = [s \in Serials |-> IF s \in set THEN time ELSE @[s]]]
AddSerialToBatch(c) ==
    LET r == open[c]
        new == {s \in r.set : scans[r.batch][s] = 0}
    IN  /\ Commits(c, "scan")
        /\ \E created \in r.moment..now : scans' = Stamped(scans, r.batch, new, created)
        /\ stored' = Stamped(stored, r.batch, new, now)
        /\ UNCHANGED <<now, stock, assignmentVars, owner, batch, findingVars>>

RemoveLooks(c, b, s) ==
    /\ Draft(b) /\ scans[b][s] # 0
    /\ Open(c, "remove", b, {s}, ends)
    /\ UNCHANGED <<now, stock, assignmentVars, batchVars, findingVars>>

RemoveBatchItem(c) ==
    LET r == open[c]
    IN  /\ Commits(c, "remove")
        /\ scans' = Stamped(scans, r.batch, r.set, 0)
        /\ stored' = Stamped(stored, r.batch, r.set, 0)
        /\ UNCHANGED <<now, stock, assignmentVars, owner, batch, findingVars>>

\* submit_batch (see Batches for the rest of it) and reconcile_audit_batch; an
\* item that is gone makes the UPDATE fail.  The deadline does not matter.
SubmitLooks(c, b) ==
    LET items == {s \in Serials : scans[b][s] # 0}
    IN  /\ Draft(b) /\ items # {}
        /\ Open(c, "submit", b, items, ends)
        /\ UNCHANGED <<now, stock, assignmentVars, batchVars, findingVars>>

SubmitBatch(c) ==
    LET r == open[c]
    IN  /\ Commits(c, "submit")
        /\ UNCHANGED ends
        /\ IF \A s \in r.set : scans[r.batch][s] # 0
              THEN /\ batch' = [batch EXCEPT ![r.batch] = "SUBMITTED"]
                   /\ Reconcile({owner[r.batch]}, r.ends, now)
              ELSE UNCHANGED <<batch, findingVars>>
        /\ UNCHANGED <<now, stock, starts, expected, owner, scans, stored>>

\* extend_audit_assignment_deadline
CanExtend(a, end) ==
    /\ ends[a] # 0
    /\ end > starts[a] /\ end > ends[a] /\ end > now

ExtendLooks(c, a, end) ==
    /\ CanExtend(a, end)
    /\ Open(c, "extend", None, {a}, [ends EXCEPT ![a] = end])
    /\ UNCHANGED <<now, stock, assignmentVars, batchVars, findingVars>>

\* The new deadline is stored with new findings (and a variant that leaves the
\* findings as they are).
Extended(r) == [a \in Assignments |-> IF a \in r.set THEN r.ends[a] ELSE ends[a]]
ExtendOnly(c) ==
    /\ Commits(c, "extend")
    /\ ends' = Extended(open[c])
    /\ UNCHANGED <<now, stock, starts, expected, batchVars, findingVars>>

ExtendDeadline(c) ==
    LET r == open[c]
    IN  /\ Commits(c, "extend")
        /\ ends' = Extended(r)
        /\ Reconcile(r.set, r.ends, r.moment)
        /\ UNCHANGED <<now, stock, starts, expected, batchVars>>

\* refresh_expired_audit_assignments, called by every report: one transaction
\* for all assignments that are over.
NeedsRefresh(a) ==
    /\ ends[a] # 0 /\ ends[a] < now
    /\ \/ \E s \in Serials : findings[a][s] = "PENDING"
       \/ \A s \in Serials : findings[a][s] = "NONE"

RefreshLooks(c) ==
    LET due == {a \in Assignments : NeedsRefresh(a)}
    IN  /\ due # {}
        /\ Open(c, "refresh", None, due, ends)
        /\ UNCHANGED <<now, stock, assignmentVars, batchVars, findingVars>>

RefreshExpired(c) ==
    LET r == open[c]
    IN  /\ Commits(c, "refresh")
        /\ UNCHANGED ends
        /\ Reconcile(r.set, r.ends, r.moment)
        /\ UNCHANGED <<now, stock, starts, expected, batchVars>>

Looks(c) ==
    \/ \E start, end \in Times : CreateLooks(c, start, end)
    \/ \E a \in Assignments, end \in Times : ExtendLooks(c, a, end)
    \/ RefreshLooks(c)
    \/ \E b \in Batches :
          \/ SubmitLooks(c, b)
          \/ \E s \in Serials : ScanLooks(c, b, s) \/ RemoveLooks(c, b, s)

Stores(c) ==
    \/ \E a \in Assignments, b \in Batches : CreateAuditAssignment(c, a, b)
    \/ AddSerialToBatch(c)
    \/ RemoveBatchItem(c)
    \/ SubmitBatch(c)
    \/ ExtendDeadline(c)
    \/ RefreshExpired(c)

AuditNext ==
    \/ Tick
    \/ \E s \in Serials : StockMoves(s)
    \/ \E a \in Assignments, b \in Batches : CreateBatch(a, b)
    \/ \E c \in Clerks : Looks(c) \/ Stores(c)

AuditSpec == AuditInit /\ [][AuditNext]_auditVars

-----------------------------------------------------------------------------
RowsTyped ==
    /\ now \in Times
    /\ stock \subseteq Serials
    /\ starts \in [Assignments -> 0..MaxTime] /\ ends \in [Assignments -> 0..MaxTime]
    /\ expected \in [Assignments -> SUBSET Serials]
    /\ owner \in [Batches -> Assignments \cup {None}]
    /\ batch \in [Batches -> {"NONE", "DRAFT", "SUBMITTED"}]
    /\ scans \in [Batches -> [Serials -> 0..MaxTime]]
    /\ stored \in [Batches -> [Serials -> 0..MaxTime]]
    /\ findings \in [Assignments -> [Serials -> FindingTypes]]
    /\ outdated \subseteq Assignments
    /\ open \in [Clerks -> AuditRequests \cup {NoRequest}]

\* Stock is called missing only after the deadline (the end of audit_assignment_
\* state "ACTIVE"), although a deadline may be extended after it was missed; the
\* findings of a request that an extension has overtaken are the exception.
MissingOnlyAfterDeadline ==
    \A a \in Assignments \ outdated, s \in Serials :
        findings[a][s] = "MISSING" => now > ends[a]

\* A serial that an assignment calls missing has no scan in its window, in
\* whichever of its batches and whether or not that batch was submitted, except
\* one that waited for the write lock and was stored after the deadline.
MissingIsUnscanned ==
    \A a \in Assignments \ outdated, s \in Serials, b \in Batches :
        /\ findings[a][s] = "MISSING" /\ owner[b] = a
        /\ scans[b][s] # 0 /\ scans[b][s] \in starts[a]..ends[a]
        => stored[b][s] > ends[a]

\* current_missing_stock_findings_query: the newest finding of the serial is
\* MISSING, and the serial is in stock.
ReportedMissing(s, i) ==
    /\ s \in stock
    /\ findings[order[i]][s] = "MISSING"
    /\ \A j \in (i + 1)..Len(order) : findings[order[j]][s] = "NONE"

\* "Return missing findings that have not been resolved by a newer audit scan":
\* no other assignment has found the serial after the deadline of the one that
\* reports it missing.  It does not hold once two assignments expect the serial:
\* the older one may be reconciled last (README, Known disagreements).
MissingIsUnresolved ==
    \A s \in Serials, i \in DOMAIN order : ReportedMissing(s, i) =>
        \A b \in Batches : owner[b] # None /\ findings[owner[b]][s] = "VERIFIED" =>
            scans[b][s] <= ends[order[i]]

-----------------------------------------------------------------------------
(* What makes the two properties inductive. *)

\* An assignment that does not exist yet has nothing, nor has such a batch.
NothingYet ==
    /\ \A a \in Assignments : ends[a] = 0 =>
          /\ \A s \in Serials : findings[a][s] = "NONE"
          /\ \A b \in Batches : owner[b] # a
    /\ \A b \in Batches :
          IF batch[b] = "NONE" THEN \A s \in Serials : scans[b][s] = 0
          ELSE owner[b] \in Assignments

\* What a request that waits to write still knows: it works on rows that exist,
\* it has read them in the past, and a deadline it sets was ahead then.
RequestFits(r) ==
    /\ r.op \in {"scan", "remove", "submit"} =>
          r.batch \in Batches /\ batch[r.batch] # "NONE" /\ r.set \subseteq Serials
    /\ r.op \in {"extend", "refresh"} =>
          r.moment <= now /\ r.set \subseteq {a \in Assignments : ends[a] # 0}
    /\ r.op = "extend" =>
          /\ r.ends \in [Assignments -> 0..MaxTime]
          /\ \A a \in r.set : r.ends[a] > r.moment
    /\ r.op = "create" => r.set \subseteq Serials /\ r.ends \in Times \X Times

AuditRequestsFit == \A c \in Clerks : RequestFits(open[c])

AuditInv ==
    /\ RowsTyped /\ NothingYet /\ AuditRequestsFit
    /\ MissingOnlyAfterDeadline /\ MissingIsUnscanned

=============================================================================
