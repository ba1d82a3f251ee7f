--------------------------- MODULE BatchesProofs ---------------------------
(***************************************************************************)
(* Proofs about Batches, for any serials, batches, clerks and any number   *)
(* of requests that overtake each other.                                   *)
(***************************************************************************)
EXTENDS Batches, TLAPS

Movements == [from : Statuses, to : Statuses]

\* A submission of a batch that moves stock moves it to a status there is.
LEMMA TargetIsStatus ==
    ASSUME NEW b \in Batches, Type[b] # "AUDIT"
    PROVE  Target(b) \in Statuses
<1>1. Type[b] \in Types
  BY TypeAssumption
<1>2. CASE Type[b] = "PURCHASE"
  BY <1>2, Zenon DEF Target, Statuses
<1>3. CASE Type[b] = "SALE"
  BY <1>3, Zenon DEF Target, Statuses
<1>4. CASE Type[b] = "SALES_RETURN"
  BY <1>4, Zenon DEF Target, Statuses
<1>5. CASE Type[b] = "PURCHASE_RETURN"
  BY <1>5, Zenon DEF Target, Statuses
<1>6. CASE Type[b] = "ISSUE"
  BY <1>6, Zenon DEF Target, Statuses
<1> QED
  BY <1>1, <1>2, <1>3, <1>4, <1>5, <1>6 DEF Types

\* Opening a request keeps the requests well typed.
LEMMA OpenTyped ==
    ASSUME TypeOK, NEW c \in Clerks, NEW b \in Batches, NEW set \in SUBSET Serials,
           NEW op \in {"scan", "remove", "return", "shelf", "submit"},
           Open(c, op, b, set)
    PROVE  open' \in [Clerks -> Requests \cup {NoRequest}]
<1>1. [op |-> op, batch |-> b, items |-> set, seen |-> status, overtaken |-> 0]
         \in Requests
  BY OvertakenAssumption DEF TypeOK, Requests
<1> QED
  BY <1>1 DEF Open, TypeOK

\* A clerk that commits holds a request, and every clerk does afterwards or none.
LEMMA CommitTyped ==
    ASSUME TypeOK, NEW c \in Clerks,
           NEW op \in {"scan", "remove", "return", "shelf", "submit"},
           Commits(c, op)
    PROVE  /\ open[c] \in Requests
           /\ open' \in [Clerks -> Requests \cup {NoRequest}]
<1>1. open[c] \in Requests
  BY DEF TypeOK, Commits, NoRequest
<1>2. \A d \in Waiting(c) : [open[d] EXCEPT !.overtaken = @ + 1] \in Requests
  <2> SUFFICES ASSUME NEW d \in Waiting(c)
               PROVE  [open[d] EXCEPT !.overtaken = @ + 1] \in Requests
    OBVIOUS
  <2>1. open[d] \in Requests /\ open[d].overtaken < MaxOvertaken
    BY DEF TypeOK, Waiting, Commits, Close
  <2>2. open[d].overtaken + 1 \in 0..MaxOvertaken
    BY <2>1, OvertakenAssumption DEF Requests
  <2> QED
    BY <2>1, <2>2 DEF Requests
<1>3. open' \in [Clerks -> Requests \cup {NoRequest}]
  BY <1>2 DEF TypeOK, Commits, Close
<1> QED
  BY <1>1, <1>3

\* Every step keeps the types.
LEMMA TypeStep == TypeOK /\ [Next]_vars => TypeOK'
<1> SUFFICES ASSUME TypeOK, [Next]_vars PROVE TypeOK'
  OBVIOUS
<1>1. ASSUME NEW b \in Batches, CreateBatch(b) PROVE TypeOK'
  BY <1>1 DEF CreateBatch, NewBatch, TypeOK
<1>2. ASSUME NEW c \in Clerks, NEW b \in Batches, NEW s \in Serials, ScanLooks(c, b, s)
      PROVE  TypeOK'
  <2>1. open' \in [Clerks -> Requests \cup {NoRequest}]
    BY <1>2, OpenTyped DEF ScanLooks
  <2> QED
    BY <1>2, <2>1 DEF ScanLooks, TypeOK
<1>3. ASSUME NEW c \in Clerks, NEW b \in Batches, NEW set \in SUBSET Serials,
             FefoLooks(c, b, set)
      PROVE  TypeOK'
  <2>1. open' \in [Clerks -> Requests \cup {NoRequest}]
    BY <1>3, OpenTyped DEF FefoLooks
  <2> QED
    BY <1>3, <2>1 DEF FefoLooks, TypeOK
<1>4. ASSUME NEW c \in Clerks, NEW b \in Batches, NEW s \in Serials, RemoveLooks(c, b, s)
      PROVE  TypeOK'
  <2>1. open' \in [Clerks -> Requests \cup {NoRequest}]
    BY <1>4, OpenTyped DEF RemoveLooks
  <2> QED
    BY <1>4, <2>1 DEF RemoveLooks, TypeOK
<1>5. ASSUME NEW c \in Clerks, NEW b \in Batches, NEW s \in Serials, ReturnLooks(c, b, s)
      PROVE  TypeOK'
  <2>1. open' \in [Clerks -> Requests \cup {NoRequest}]
    BY <1>5, OpenTyped DEF ReturnLooks
  <2> QED
    BY <1>5, <2>1 DEF ReturnLooks, TypeOK
<1>6. ASSUME NEW c \in Clerks, NEW b \in Batches, ShelfLooks(c, b) PROVE TypeOK'
  <2>1. PendingShelf(b) \in SUBSET Serials /\ returned[b] \in SUBSET Serials
    BY DEF PendingShelf, TypeOK
  <2>2. open' \in [Clerks -> Requests \cup {NoRequest}]
    BY <1>6, <2>1, OpenTyped DEF ShelfLooks
  <2> QED
    BY <1>6, <2>2 DEF ShelfLooks, TypeOK
<1>7. ASSUME NEW c \in Clerks, NEW b \in Batches, SubmitLooks(c, b) PROVE TypeOK'
  <2>1. items[b] \in SUBSET Serials
    BY DEF TypeOK
  <2>2. open' \in [Clerks -> Requests \cup {NoRequest}]
    BY <1>7, <2>1, OpenTyped DEF SubmitLooks
  <2> QED
    BY <1>7, <2>2 DEF SubmitLooks, TypeOK
<1>8. ASSUME NEW c \in Clerks, AddSerialToBatch(c) PROVE TypeOK'
  <2>1. open[c] \in Requests /\ open' \in [Clerks -> Requests \cup {NoRequest}]
    BY <1>8, CommitTyped DEF AddSerialToBatch
  <2> QED
    BY <1>8, <2>1 DEF AddSerialToBatch, TypeOK, Requests
<1>9. ASSUME NEW c \in Clerks, RemoveBatchItem(c) PROVE TypeOK'
  <2>1. open[c] \in Requests /\ open' \in [Clerks -> Requests \cup {NoRequest}]
    BY <1>9, CommitTyped DEF RemoveBatchItem
  <2> QED
    BY <1>9, <2>1 DEF RemoveBatchItem, DropItems, TypeOK, Requests
<1>10. ASSUME NEW c \in Clerks, ScanSaleReturn(c) PROVE TypeOK'
  <2>1. open[c] \in Requests /\ open' \in [Clerks -> Requests \cup {NoRequest}]
    BY <1>10, CommitTyped DEF ScanSaleReturn
  <2> QED
    BY <1>10, <2>1 DEF ScanSaleReturn, DropItems, TypeOK, Requests
<1>11. ASSUME NEW c \in Clerks, VerifyPendingItemsOnShelf(c) PROVE TypeOK'
  <2>1. open[c] \in Requests /\ open' \in [Clerks -> Requests \cup {NoRequest}]
    BY <1>11, CommitTyped DEF VerifyPendingItemsOnShelf
  <2>2. open[c].batch \in Batches /\ open[c].items \in SUBSET Serials
    BY <2>1 DEF Requests
  <2>3. shelved' \in [Batches -> SUBSET Serials]
    BY <1>11, <2>2 DEF VerifyPendingItemsOnShelf, TypeOK
  <2> QED
    BY <1>11, <2>1, <2>3 DEF VerifyPendingItemsOnShelf, TypeOK
<1>12. ASSUME NEW c \in Clerks, SubmitBatch(c) PROVE TypeOK'
  <2>1. open[c] \in Requests /\ open' \in [Clerks -> Requests \cup {NoRequest}]
    BY <1>12, CommitTyped DEF SubmitBatch
  <2> DEFINE r == open[c]
  <2>2. /\ r.batch \in Batches /\ r.items \in SUBSET Serials
        /\ r.seen \in [Serials -> Statuses]
    BY <2>1 DEF Requests
  <2>3. UNCHANGED <<items, shelved, returned>>
    BY <1>12 DEF SubmitBatch
  <2>4. CASE ~CanApply(r)
    BY <1>12, <2>1, <2>3, <2>4 DEF SubmitBatch, TypeOK
  <2>5. CASE CanApply(r)
    <3>1. ApplyBatchStatuses(r)
      BY <1>12, <2>5 DEF SubmitBatch
    <3>2. batch' \in [Batches -> {"NONE", "DRAFT", "PENDING_SYNC"}]
      BY <1>12, <2>5, <2>2 DEF SubmitBatch, TypeOK
    <3>3. events' \in Seq([batch : Batches, items : SUBSET Serials])
      <4>1. [batch |-> r.batch, items |-> r.items] \in [batch : Batches, items : SUBSET Serials]
        BY <2>2
      <4>2. events' = Append(events, [batch |-> r.batch, items |-> r.items])
        BY <1>12, <2>5 DEF SubmitBatch, Reported
      <4>3. events \in Seq([batch : Batches, items : SUBSET Serials])
        BY DEF TypeOK
      <4> HIDE DEF r
      <4> QED
        BY <4>1, <4>2, <4>3
    <3>4. /\ status' \in [Serials -> Statuses]
          /\ ledger' \in [Serials -> Seq(Movements)]
      <4>1. CASE Type[r.batch] = "AUDIT"
        BY <3>1, <4>1 DEF ApplyBatchStatuses, TypeOK, Movements
      <4>2. CASE Type[r.batch] # "AUDIT"
        <5>1. Target(r.batch) \in Statuses
          BY <2>2, <4>2, TargetIsStatus
        <5>2. status' \in [Serials -> Statuses]
          BY <3>1, <4>2, <5>1 DEF ApplyBatchStatuses, TypeOK
        <5>3. \A s \in Serials : [from |-> r.seen[s], to |-> Target(r.batch)] \in Movements
          BY <2>2, <5>1 DEF Movements
        <5>4. \A s \in Serials : ledger[s] \in Seq(Movements)
          BY DEF TypeOK, Movements
        <5>5. \A s \in Serials :
                 Append(ledger[s], [from |-> r.seen[s], to |-> Target(r.batch)])
                    \in Seq(Movements)
          BY <5>3, <5>4
        <5>6. ledger' = [s \in Serials |->
                 IF s \in r.items
                    THEN Append(ledger[s], [from |-> r.seen[s], to |-> Target(r.batch)])
                    ELSE ledger[s]]
          BY <3>1, <4>2 DEF ApplyBatchStatuses
        <5>7. ledger' \in [Serials -> Seq(Movements)]
          BY <5>4, <5>5, <5>6, Zenon
        <5> QED
          BY <5>2, <5>7
      <4> QED
        BY <4>1, <4>2
    <3> QED
      BY <2>1, <2>3, <3>2, <3>3, <3>4 DEF TypeOK, Movements
  <2> QED
    BY <2>4, <2>5
<1>13. ASSUME NEW c \in Clerks, VerifySaleReturnOnShelf(c) PROVE TypeOK'
  <2>1. open[c] \in Requests /\ open' \in [Clerks -> Requests \cup {NoRequest}]
    BY <1>13, CommitTyped DEF VerifySaleReturnOnShelf
  <2>2. open[c].batch \in Batches /\ open[c].items \in SUBSET Serials
    BY <2>1 DEF Requests
  <2> QED
    BY <1>13, <2>1, <2>2 DEF VerifySaleReturnOnShelf, TypeOK
<1>14. CASE UNCHANGED vars
  BY <1>14 DEF vars, TypeOK
<1> QED
  BY <1>1, <1>2, <1>3, <1>4, <1>5, <1>6, <1>7, <1>8, <1>9, <1>10, <1>11, <1>12,
     <1>13, <1>14 DEF Next, ClerkStep

\* Statuses, batches, ledgers, events and waiting requests keep their types
\* (app/services/inventory.py), for any number of clerks.
THEOREM TypeCorrect == Spec => []TypeOK
<1>1. Init => TypeOK
  BY InitialStatusAssumption DEF Init, TypeOK
<1> QED
  BY <1>1, TypeStep, PTL DEF Spec

-----------------------------------------------------------------------------
\* A chain grows by a movement that starts where the chain ends.
LEMMA ChainGrows ==
    ASSUME NEW q \in Seq(Movements), NEW first, NEW from \in Statuses,
           NEW to \in Statuses, Chain(q, first, from)
    PROVE  Chain(Append(q, [from |-> from, to |-> to]), first, to)
<1> DEFINE e == [from |-> from, to |-> to]
           p == Append(q, e)
<1>1. e \in Movements /\ e.from = from /\ e.to = to
  BY DEF Movements
<1>2. Len(q) \in Nat /\ Len(p) = Len(q) + 1 /\ p[Len(q) + 1] = e
  BY <1>1
<1>3. \A i \in 1..Len(q) : p[i] = q[i]
  BY <1>1
<1>4. \A i \in 1..(Len(q) + 1) : Before(p, first, i) = Before(q, first, i)
  BY <1>2, <1>3 DEF Before
<1>5. \A i \in 1..Len(p) : p[i].from = Before(p, first, i)
  <2> SUFFICES ASSUME NEW i \in 1..Len(p) PROVE p[i].from = Before(p, first, i)
    OBVIOUS
  <2>1. CASE i = Len(q) + 1
    BY <2>1, <1>1, <1>2, <1>4 DEF Chain
  <2>2. CASE i # Len(q) + 1
    <3>1. i \in 1..Len(q)
      BY <2>2, <1>2
    <3> QED
      BY <3>1, <1>2, <1>3, <1>4 DEF Chain
  <2> QED
    BY <2>1, <2>2
<1>6. to = Before(p, first, Len(p) + 1)
  BY <1>1, <1>2 DEF Before
<1> QED
  BY <1>5, <1>6 DEF Chain

\* Steps other than a submission leave statuses and ledger alone; a submission
\* adds a movement from the status it claims, or nothing.
LEMMA LedgerStep == TypeOK /\ LedgerChains /\ [Next]_vars => LedgerChains'
<1> SUFFICES ASSUME TypeOK, LedgerChains, [Next]_vars PROVE LedgerChains'
  OBVIOUS
<1>1. CASE UNCHANGED <<status, ledger>>
  BY <1>1 DEF LedgerChains
<1>2. ASSUME NEW c \in Clerks, SubmitBatch(c) PROVE LedgerChains'
  <2> DEFINE r == open[c]
  <2>1. r \in Requests
    BY <1>2, CommitTyped DEF SubmitBatch
  <2>2. CASE ~CanApply(r) \/ Type[r.batch] = "AUDIT"
    BY <1>1, <1>2, <2>2 DEF SubmitBatch, ApplyBatchStatuses
  <2>3. CASE CanApply(r) /\ Type[r.batch] # "AUDIT"
    <3>1. ApplyBatchStatuses(r)
      BY <1>2, <2>3 DEF SubmitBatch
    <3> SUFFICES ASSUME NEW s \in Serials
                 PROVE  Chain(ledger'[s], InitialStatus[s], status'[s])
      BY DEF LedgerChains
    <3>2. Chain(ledger[s], InitialStatus[s], status[s]) /\ ledger[s] \in Seq(Movements)
      BY DEF LedgerChains, TypeOK, Movements
    <3>3. CASE s \notin r.items
      BY <3>1, <3>2, <3>3, <2>3 DEF ApplyBatchStatuses
    <3>4. CASE s \in r.items
      <4>1. status[s] = r.seen[s] /\ status[s] \in Statuses
        BY <2>3, <3>4 DEF CanApply, TypeOK
      <4>2. Target(r.batch) \in Statuses
        BY <2>1, <2>3, TargetIsStatus DEF Requests
      <4>3. /\ status'[s] = Target(r.batch)
            /\ ledger'[s] = Append(ledger[s], [from |-> status[s], to |-> Target(r.batch)])
        BY <3>1, <3>4, <2>3, <4>1 DEF ApplyBatchStatuses
      <4> QED
        BY <3>2, <4>1, <4>2, <4>3, ChainGrows
    <3> QED
      BY <3>3, <3>4
  <2> QED
    BY <2>2, <2>3
<1>3. ASSUME NEW b \in Batches, CreateBatch(b) PROVE LedgerChains'
  BY <1>1, <1>3 DEF CreateBatch
<1>4. ASSUME NEW c \in Clerks, ClerkStep(c), ~SubmitBatch(c) PROVE LedgerChains'
  BY <1>1, <1>4 DEF ClerkStep, AddSerialToBatch, RemoveBatchItem, ScanSaleReturn,
     VerifySaleReturnOnShelf, VerifyPendingItemsOnShelf, ShelfLooks, SubmitLooks,
     ScanLooks, RemoveLooks, ReturnLooks, FefoLooks
<1>5. CASE UNCHANGED vars
  BY <1>1, <1>5 DEF vars
<1> QED
  BY <1>2, <1>3, <1>4, <1>5 DEF Next

\* The ledger of every serial is an unbroken chain that ends at its present
\* status (the claim in apply_batch_statuses), whatever requests overtake each
\* other and however often.
THEOREM LedgerIsSound == Spec => []LedgerChains
<1>1. Init => LedgerChains
  BY DEF Init, LedgerChains, Chain, Before
<1> QED
  BY <1>1, TypeStep, LedgerStep, TypeCorrect, PTL DEF Spec

-----------------------------------------------------------------------------
\* A submission reports its batch as a last event.
LEMMA EventsGrow ==
    ASSUME TypeOK, NEW c \in Clerks, SubmitBatch(c), CanApply(open[c])
    PROVE  /\ open[c] \in Requests
           /\ events \in Seq([batch : Batches, items : SUBSET Serials])
           /\ Len(events) \in Nat /\ Len(events') = Len(events) + 1
           /\ \A i \in 1..Len(events) : events'[i] = events[i]
           /\ events'[Len(events) + 1] = [batch |-> open[c].batch, items |-> open[c].items]
<1> DEFINE e == [batch |-> open[c].batch, items |-> open[c].items]
<1>1. open[c] \in Requests
  BY CommitTyped DEF SubmitBatch
<1>2. e \in [batch : Batches, items : SUBSET Serials]
  BY <1>1 DEF Requests
<1>3. events \in Seq([batch : Batches, items : SUBSET Serials])
  BY DEF TypeOK
<1>4. events' = Append(events, e)
  BY DEF SubmitBatch, Reported
<1> HIDE DEF e
<1>5. /\ Len(events) \in Nat /\ Len(events') = Len(events) + 1
      /\ \A i \in 1..Len(events) : events'[i] = events[i]
      /\ events'[Len(events) + 1] = e
  BY <1>2, <1>3, <1>4
<1> QED
  BY <1>1, <1>3, <1>5 DEF e

\* An event is about a batch.
LEMMA EventsTyped ==
    ASSUME TypeOK
    PROVE  \A i \in 1..Len(events) : events[i].batch \in Batches /\ events[i].items \in SUBSET Serials
<1> DEFINE Reports == [batch : Batches, items : SUBSET Serials]
<1>1. events \in Seq(Reports)
  BY DEF TypeOK
<1>2. \A i \in 1..Len(events) : events[i] \in Reports
  <2> HIDE DEF Reports
  <2> QED
    BY <1>1
<1> QED
  BY <1>2

\* What is left alone by every step that submits nothing.
LEMMA NoSubmission ==
    ASSUME [Next]_vars, \A c \in Clerks : SubmitBatch(c) => ~CanApply(open[c])
    PROVE  UNCHANGED <<status, ledger, events>>
<1>1. ASSUME NEW b \in Batches, CreateBatch(b) PROVE UNCHANGED <<status, ledger, events>>
  BY <1>1 DEF CreateBatch
<1>2. ASSUME NEW c \in Clerks, ClerkStep(c), ~SubmitBatch(c)
      PROVE  UNCHANGED <<status, ledger, events>>
  BY <1>2 DEF ClerkStep, AddSerialToBatch, RemoveBatchItem, ScanSaleReturn,
     VerifySaleReturnOnShelf, VerifyPendingItemsOnShelf, ShelfLooks, SubmitLooks,
     ScanLooks, RemoveLooks, ReturnLooks, FefoLooks
<1>3. ASSUME NEW c \in Clerks, SubmitBatch(c) PROVE UNCHANGED <<status, ledger, events>>
  BY <1>3 DEF SubmitBatch
<1>4. CASE UNCHANGED vars
  BY <1>4 DEF vars
<1> QED
  BY <1>1, <1>2, <1>3, <1>4 DEF Next

LEMMA EventsStep == TypeOK /\ EventsTellStatus /\ [Next]_vars => EventsTellStatus'
<1> SUFFICES ASSUME TypeOK, EventsTellStatus, [Next]_vars PROVE EventsTellStatus'
  OBVIOUS
<1>1. CASE UNCHANGED <<status, events>>
  BY <1>1 DEF EventsTellStatus, Moves
<1>2. ASSUME NEW c \in Clerks, SubmitBatch(c), CanApply(open[c]) PROVE EventsTellStatus'
  <2> DEFINE r == open[c]
             n == Len(events)
             e == [batch |-> r.batch, items |-> r.items]
  <2>1. /\ r \in Requests /\ n \in Nat /\ Len(events') = n + 1
        /\ \A i \in 1..n : events'[i] = events[i]
        /\ events'[n + 1] = e /\ e.batch = r.batch /\ e.items = r.items
    BY <1>2, EventsGrow
  <2>2. ApplyBatchStatuses(r) /\ r.batch \in Batches /\ r.items \in SUBSET Serials
    BY <1>2, <2>1 DEF SubmitBatch, Requests
  <2> SUFFICES ASSUME NEW s \in Serials, NEW i \in Moves(s)',
                      \A j \in Moves(s)' : j <= i
               PROVE  status'[s] = Target(events'[i].batch)
    BY DEF EventsTellStatus
  <2>3. /\ i \in 1..(n + 1) /\ s \in events'[i].items /\ Type[events'[i].batch] # "AUDIT"
        /\ \A j \in 1..n : j \in Moves(s) <=> j \in Moves(s)'
    BY <2>1 DEF Moves
  <2> HIDE DEF r, n, e
  <2>4. CASE i = n + 1
    <3>1. s \in r.items /\ Type[r.batch] # "AUDIT" /\ events'[i].batch = r.batch
      BY <2>1, <2>3, <2>4
    <3> QED
      BY <2>2, <3>1 DEF ApplyBatchStatuses
  <2>5. CASE i # n + 1
    <3>1. i \in 1..n /\ events'[i] = events[i] /\ i \in Moves(s)
      BY <2>1, <2>3, <2>5
    <3>2. \A j \in Moves(s) : j \in 1..n
      BY DEF Moves, n
    <3>3. status[s] = Target(events[i].batch)
      BY <2>3, <3>1, <3>2 DEF EventsTellStatus
    <3>4. ~(s \in r.items /\ Type[r.batch] # "AUDIT")
      <4> SUFFICES ASSUME s \in r.items, Type[r.batch] # "AUDIT" PROVE FALSE
        OBVIOUS
      <4>1. n + 1 \in Moves(s)'
        BY <2>1 DEF Moves
      <4> QED
        BY <2>1, <3>1, <4>1
    <3>5. status'[s] = status[s]
      BY <2>2, <3>4 DEF ApplyBatchStatuses
    <3> QED
      BY <3>1, <3>3, <3>5
  <2> QED
    BY <2>4, <2>5
<1> QED
  BY <1>1, <1>2, NoSubmission

\* Replayed in order, the events queued for Master give every serial its present
\* status (enqueue_batch_submitted_event in the commit of apply_batch_statuses),
\* whatever requests overtake each other and however often.
THEOREM EventsAddUp == Spec => []EventsTellStatus
<1>1. Init => EventsTellStatus
  BY DEF Init, EventsTellStatus, Moves
<1> QED
  BY <1>1, EventsStep, TypeCorrect, PTL DEF Spec

-----------------------------------------------------------------------------
\* At most one commit overtakes a request.
FewOvertake == MaxOvertaken \in 0..1

\* A batch that moves stock does not accept what it has moved.
LEMMA MovedIsRefused ==
    ASSUME NEW b \in Batches, Type[b] # "AUDIT"
    PROVE  Target(b) \notin Allowed(b)
<1>1. Type[b] \in Types
  BY TypeAssumption
<1>2. CASE Type[b] = "PURCHASE"
  <2>1. Target(b) = "IN_STOCK"
    BY <1>2, Zenon DEF Target
  <2>2. Allowed(b) = {"GENERATED", "PURCHASE_RETURN"}
    BY <1>2, Zenon DEF Allowed
  <2> QED
    BY <2>1, <2>2
<1>3. CASE Type[b] = "SALES_RETURN"
  <2>1. Target(b) \in {"IN_STOCK", "DAMAGED"}
    BY <1>3, Zenon DEF Target
  <2>2. Allowed(b) = {"SOLD"}
    <3>1. Type[b] # "PURCHASE"
      BY <1>3
    <3> QED
      BY <1>3, <3>1, Zenon DEF Allowed
  <2> QED
    BY <2>1, <2>2
<1>4. CASE Type[b] \in {"SALE", "PURCHASE_RETURN", "ISSUE"}
  <2>1. Target(b) \in {"SOLD", "PURCHASE_RETURN", "ISSUED"}
    <3>1. CASE Type[b] = "SALE"
      BY <3>1, Zenon DEF Target
    <3>2. CASE Type[b] = "PURCHASE_RETURN"
      BY <3>2, Zenon DEF Target
    <3>3. CASE Type[b] = "ISSUE"
      BY <3>3, Zenon DEF Target
    <3> QED
      BY <1>4, <3>1, <3>2, <3>3
  <2>2. Allowed(b) = {"IN_STOCK"}
    <3>1. Type[b] # "PURCHASE" /\ Type[b] # "SALES_RETURN" /\ Type[b] # "AUDIT"
      BY <1>4
    <3> QED
      BY <3>1, Zenon DEF Allowed
  <2> QED
    BY <2>1, <2>2
<1> QED
  BY <1>1, <1>2, <1>3, <1>4 DEF Types

\* What a commit leaves of the requests: those that waited are overtaken for the
\* first time, and otherwise as they were.
LEMMA AfterCommit ==
    ASSUME TypeOK, FewOvertake, NEW c \in Clerks,
           NEW op \in {"scan", "remove", "return", "shelf", "submit"},
           Commits(c, op), NEW d \in Clerks, open'[d].op # "none"
    PROVE  /\ d # c /\ MaxOvertaken = 1
           /\ open[d] \in Requests /\ open[d].op # "none" /\ open[d].overtaken = 0
           /\ open'[d].op = open[d].op /\ open'[d].batch = open[d].batch
           /\ open'[d].items = open[d].items /\ open'[d].seen = open[d].seen
           /\ open'[d].overtaken = 1
<1>1. d \in Waiting(c) /\ d # c
  BY DEF Commits, Close, Waiting, NoRequest
<1>2. open[d] \in Requests /\ open[d].overtaken < MaxOvertaken
  BY <1>1 DEF TypeOK, Waiting, Commits, Close
<1>3. MaxOvertaken = 1 /\ open[d].overtaken = 0 /\ open[d].op # "none"
  BY <1>2, OvertakenAssumption DEF FewOvertake, Requests
<1>4. open'[d] = [open[d] EXCEPT !.overtaken = @ + 1]
  BY <1>1 DEF Commits, Close
<1> QED
  BY <1>1, <1>2, <1>3, <1>4 DEF Requests

\* The part of the invariant that is about requests.
RequestsOK == RequestsAreFresh /\ SubmissionsAreValid /\ LateCannotClaim
EventsOK == ReportedIsSubmitted /\ SubmittedOnce

\* A commit leaves no request that is not overtaken, and a submission that waits
\* was of a draft as it still was before that commit.
LEMMA CommitStep ==
    ASSUME TypeOK, FewOvertake, RequestsOK, NEW c \in Clerks,
           NEW op \in {"scan", "remove", "return", "shelf", "submit"}, Commits(c, op),
           \A d \in Clerks \ {c} :
              open[d].op = "submit" /\ open[d].overtaken = 0 /\ MovesStock(open[d].batch) =>
                 \/ batch'[open[d].batch] = "DRAFT"
                 \/ \E s \in open[d].items : status'[s] # open[d].seen[s]
    PROVE  RequestsOK'
<1>1. RequestsAreFresh'
  <2> SUFFICES ASSUME NEW d \in Clerks, open'[d].op # "none", open'[d].overtaken = 0 PROVE FALSE
    BY DEF RequestsAreFresh
  <2> QED
    BY AfterCommit
<1>2. SubmissionsAreValid'
  <2> SUFFICES ASSUME NEW d \in Clerks, open'[d].op = "submit"
               PROVE  /\ open'[d].items # {}
                      /\ \A s \in open'[d].items : open'[d].seen[s] \in Allowed(open'[d].batch)
    BY DEF SubmissionsAreValid, Allowed
  <2> QED
    BY AfterCommit DEF RequestsOK, SubmissionsAreValid
<1>3. LateCannotClaim'
  <2> SUFFICES ASSUME NEW d \in Clerks, open'[d].op = "submit", MovesStock(open'[d].batch)
               PROVE  \/ batch'[open'[d].batch] = "DRAFT"
                      \/ \E s \in open'[d].items : status'[s] # open'[d].seen[s]
    BY DEF LateCannotClaim, Draft, MovesStock
  <2>1. /\ d # c /\ MaxOvertaken = 1 /\ open[d].op = "submit" /\ open[d].overtaken = 0
        /\ open'[d].batch = open[d].batch
        /\ open'[d].items = open[d].items /\ open'[d].seen = open[d].seen
    BY AfterCommit
  <2> QED
    BY <2>1
<1> QED
  BY <1>1, <1>2, <1>3 DEF RequestsOK

\* A commit that submits nothing.
LEMMA QuietCommit ==
    ASSUME TypeOK, FewOvertake, RequestsOK, EventsOK, NEW c \in Clerks,
           NEW op \in {"scan", "remove", "return", "shelf", "submit"}, Commits(c, op),
           UNCHANGED <<batch, events>>
    PROVE  RequestsOK' /\ EventsOK'
<1>1. ASSUME NEW d \in Clerks, open[d].op = "submit", open[d].overtaken = 0
      PROVE  batch'[open[d].batch] = "DRAFT"
  BY <1>1 DEF RequestsOK, RequestsAreFresh, Draft
<1>2. RequestsOK'
  BY <1>1, CommitStep
<1>3. EventsOK'
  BY DEF EventsOK, ReportedIsSubmitted, SubmittedOnce
<1> QED
  BY <1>2, <1>3

\* A request that reads.
LEMMA Looks ==
    ASSUME TypeOK, RequestsOK, EventsOK, NEW c \in Clerks, NEW b \in Batches, NEW set,
           NEW op \in {"scan", "remove", "return", "shelf", "submit"}, Open(c, op, b, set),
           Draft(b),
           op = "submit" => /\ set = items[b] /\ set # {}
                            /\ \A s \in set : status[s] \in Allowed(b),
           UNCHANGED <<status, batch, items, shelved, returned, ledger, events>>
    PROVE  RequestsOK' /\ EventsOK'
<1>1. /\ open'[c] = [op |-> op, batch |-> b, items |-> set, seen |-> status, overtaken |-> 0]
      /\ \A d \in Clerks \ {c} : open'[d] = open[d]
  BY DEF Open, TypeOK
<1>2. RequestsAreFresh'
  <2> SUFFICES ASSUME NEW d \in Clerks, open'[d].op # "none", open'[d].overtaken = 0
               PROVE  /\ batch[open'[d].batch] = "DRAFT"
                      /\ open'[d].op = "submit" =>
                           open'[d].seen = status /\ open'[d].items = items[open'[d].batch]
    BY DEF RequestsAreFresh, Draft
  <2>1. CASE d = c
    BY <1>1, <2>1 DEF Draft
  <2>2. CASE d # c
    BY <1>1, <2>2 DEF RequestsOK, RequestsAreFresh, Draft
  <2> QED
    BY <2>1, <2>2
<1>3. SubmissionsAreValid'
  <2> SUFFICES ASSUME NEW d \in Clerks, open'[d].op = "submit"
               PROVE  /\ open'[d].items # {}
                      /\ \A s \in open'[d].items : open'[d].seen[s] \in Allowed(open'[d].batch)
    BY DEF SubmissionsAreValid, Allowed
  <2>1. CASE d = c
    BY <1>1, <2>1
  <2>2. CASE d # c
    BY <1>1, <2>2 DEF RequestsOK, SubmissionsAreValid
  <2> QED
    BY <2>1, <2>2
<1>4. LateCannotClaim'
  <2> SUFFICES ASSUME NEW d \in Clerks, open'[d].op = "submit", open'[d].overtaken > 0,
                      MovesStock(open'[d].batch)
               PROVE  \/ batch[open'[d].batch] = "DRAFT"
                      \/ \E s \in open'[d].items : status[s] # open'[d].seen[s]
    BY DEF LateCannotClaim, Draft, MovesStock
  <2>1. d # c /\ open'[d] = open[d]
    BY <1>1
  <2> QED
    BY <2>1 DEF RequestsOK, LateCannotClaim, Draft
<1>5. EventsOK'
  BY DEF EventsOK, ReportedIsSubmitted, SubmittedOnce
<1> QED
  BY <1>2, <1>3, <1>4, <1>5 DEF RequestsOK

\* A submission of stock finds its batch still a draft.
LEMMA SubmitsADraft ==
    ASSUME TypeOK, FewOvertake, RequestsOK, NEW c \in Clerks, SubmitBatch(c), CanApply(open[c]),
           MovesStock(open[c].batch)
    PROVE  Draft(open[c].batch)
<1>1. open[c] \in Requests /\ open[c].op = "submit"
  BY CommitTyped DEF SubmitBatch, Commits
<1>2. CASE open[c].overtaken = 0
  BY <1>1, <1>2 DEF RequestsOK, RequestsAreFresh
<1>3. CASE open[c].overtaken # 0
  <2>1. open[c].overtaken > 0 /\ MaxOvertaken = 1
    BY <1>1, <1>3, OvertakenAssumption DEF FewOvertake, Requests
  <2>2. \A s \in open[c].items : status[s] = open[c].seen[s]
    BY DEF CanApply, MovesStock
  <2> QED
    BY <1>1, <2>1, <2>2 DEF RequestsOK, LateCannotClaim
<1> QED
  BY <1>2, <1>3

LEMMA SubmitStep ==
    ASSUME TypeOK, FewOvertake, RequestsOK, EventsOK, NEW c \in Clerks, SubmitBatch(c)
    PROVE  RequestsOK' /\ EventsOK'
<1>1. CASE ~CanApply(open[c])
  BY <1>1, QuietCommit DEF SubmitBatch
<1>2. CASE CanApply(open[c])
  <2> DEFINE r == open[c]
             n == Len(events)
  <2>1. /\ r \in Requests /\ r.batch \in Batches /\ r.items \in SUBSET Serials
        /\ n \in Nat /\ Len(events') = n + 1
        /\ \A i \in 1..n : events'[i] = events[i]
        /\ events'[n + 1].batch = r.batch
        /\ events \in Seq([batch : Batches, items : SUBSET Serials])
    <3>1. /\ r \in Requests /\ n \in Nat /\ Len(events') = n + 1
          /\ \A i \in 1..n : events'[i] = events[i]
          /\ events'[n + 1] = [batch |-> r.batch, items |-> r.items]
          /\ events \in Seq([batch : Batches, items : SUBSET Serials])
      BY <1>2, EventsGrow
    <3>2. r.batch \in Batches /\ r.items \in SUBSET Serials
      BY <3>1 DEF Requests
    <3> HIDE DEF r, n
    <3> QED
      BY <3>1, <3>2
  <2>2. /\ batch' = [batch EXCEPT ![r.batch] = "PENDING_SYNC"]
        /\ ApplyBatchStatuses(r) /\ Commits(c, "submit") /\ r.op = "submit"
    BY <1>2 DEF SubmitBatch, Commits
  <2>3. MovesStock(r.batch) => Draft(r.batch)
    BY <1>2, SubmitsADraft
  <2>4. EventsOK'
    <3>1. \A i \in 1..n : batch[events[i].batch] = "PENDING_SYNC"
      BY DEF EventsOK, ReportedIsSubmitted
    <3>2. \A i \in 1..n : events[i].batch \in Batches
      BY EventsTyped
    <3> HIDE DEF r, n
    <3>3. ReportedIsSubmitted'
      <4>1. batch' \in [Batches -> {"NONE", "DRAFT", "PENDING_SYNC"}]
            /\ \A b \in Batches : batch'[b] = IF b = r.batch THEN "PENDING_SYNC" ELSE batch[b]
        BY <2>2 DEF TypeOK
      <4>2. \A i \in 1..(n + 1) :
               i = n + 1 \/ (i \in 1..n /\ events'[i].batch = events[i].batch)
        BY <2>1
      <4>3. ASSUME NEW i \in 1..(n + 1) PROVE batch'[events'[i].batch] = "PENDING_SYNC"
        <5>1. CASE i = n + 1
          <6>1. events'[i].batch = r.batch /\ r.batch \in Batches
            BY <2>1, <5>1
          <6> QED
            BY <4>1, <6>1
        <5>2. CASE i \in 1..n /\ events'[i].batch = events[i].batch
          <6>1. events[i].batch \in Batches /\ batch[events[i].batch] = "PENDING_SYNC"
            BY <3>1, <3>2, <5>2
          <6>2. batch'[events[i].batch] = "PENDING_SYNC"
            BY <4>1, <6>1
          <6> QED
            BY <5>2, <6>2, Zenon
        <5> QED
          BY <4>2, <5>1, <5>2
      <4> QED
        BY <2>1, <4>3 DEF ReportedIsSubmitted
    <3>4. \A i, j \in 1..n :
             events[i].batch = events[j].batch /\ MovesStock(events[i].batch) => i = j
      BY DEF EventsOK, SubmittedOnce, n
    <3>5. SubmittedOnce'
      <4> SUFFICES ASSUME NEW i \in 1..(n + 1), NEW j \in 1..(n + 1),
                          events'[i].batch = events'[j].batch, MovesStock(events'[i].batch)
                   PROVE  i = j
        BY <2>1 DEF SubmittedOnce, MovesStock
      <4>1. /\ n \in Nat /\ events'[n + 1].batch = r.batch
            /\ \A k \in 1..n : events'[k].batch = events[k].batch
        BY <2>1
      <4>2. CASE i \in 1..n /\ j \in 1..n
        BY <3>4, <4>1, <4>2
      <4>3. ASSUME MovesStock(r.batch), NEW k \in 1..n PROVE events'[k].batch # r.batch
        BY <2>3, <3>1, <4>1, <4>3 DEF Draft
      <4>4. CASE i = n + 1 /\ j \in 1..n
        <5>1. MovesStock(r.batch) /\ events'[j].batch = r.batch
          BY <4>1, <4>4
        <5> QED
          BY <4>3, <4>4, <5>1
      <4>5. CASE j = n + 1 /\ i \in 1..n
        <5>1. events'[j].batch = r.batch
          BY <4>1, <4>5
        <5>2. MovesStock(r.batch) /\ events'[i].batch = r.batch
          BY <5>1
        <5> QED
          BY <4>3, <4>5, <5>2
      <4> QED
        BY <4>1, <4>2, <4>4, <4>5
    <3> QED
      BY <3>3, <3>5 DEF EventsOK
  <2>5. ASSUME NEW d \in Clerks \ {c}, open[d].op = "submit", open[d].overtaken = 0,
               MovesStock(open[d].batch)
        PROVE  \/ batch'[open[d].batch] = "DRAFT"
               \/ \E s \in open[d].items : status'[s] # open[d].seen[s]
    <3>1. batch[open[d].batch] = "DRAFT" /\ open[d].seen = status
          /\ open[d].items = items[open[d].batch]
      BY <2>5 DEF RequestsOK, RequestsAreFresh, Draft
    <3>2. CASE open[d].batch # r.batch
      <4>1. open[d].batch \in Batches
        BY <2>5 DEF TypeOK, Requests, NoRequest
      <4> QED
        BY <2>2, <3>1, <3>2, <4>1 DEF TypeOK
    <3>3. CASE open[d].batch = r.batch
      <4>1. Type[r.batch] # "AUDIT"
        BY <2>5, <3>3 DEF MovesStock
      <4>2. PICK s \in r.items : TRUE
        BY <2>2 DEF RequestsOK, SubmissionsAreValid
      <4>3. s \in Serials /\ s \in open[d].items /\ status[s] = r.seen[s]
        BY <1>2, <2>1, <3>1, <3>3, <4>1, <4>2 DEF CanApply
      <4>4. status[s] \in Allowed(r.batch)
        BY <2>2, <4>2, <4>3 DEF RequestsOK, SubmissionsAreValid
      <4>5. status'[s] = Target(r.batch)
        BY <2>2, <4>1, <4>2, <4>3 DEF ApplyBatchStatuses
      <4>6. status'[s] # status[s]
        BY <2>1, <4>1, <4>4, <4>5, MovedIsRefused
      <4> QED
        BY <3>1, <4>3, <4>6
    <3> QED
      BY <3>2, <3>3
  <2>6. RequestsOK'
    BY <2>2, <2>5, CommitStep
  <2> QED
    BY <2>4, <2>6
<1> QED
  BY <1>1, <1>2

LEMMA OnceStep ==
    ASSUME TypeOK, FewOvertake, RequestsOK, EventsOK, [Next]_vars
    PROVE  RequestsOK' /\ EventsOK'
<1>1. ASSUME NEW b \in Batches, CreateBatch(b) PROVE RequestsOK' /\ EventsOK'
  <2>1. /\ \A x \in Batches : Draft(x) => Draft(x)'
        /\ \A x \in Batches : batch[x] = "PENDING_SYNC" => batch'[x] = "PENDING_SYNC"
        /\ UNCHANGED <<status, items, shelved, returned, events, open>>
    BY <1>1 DEF CreateBatch, NewBatch, Draft, TypeOK
  <2>2. \A c \in Clerks : open[c].op # "none" => open[c].batch \in Batches
    BY DEF TypeOK, Requests, NoRequest
  <2>3. RequestsAreFresh'
    BY <2>1, <2>2 DEF RequestsOK, RequestsAreFresh
  <2>4. SubmissionsAreValid'
    BY <2>1 DEF RequestsOK, SubmissionsAreValid, Allowed
  <2>5. LateCannotClaim'
    BY <2>1, <2>2 DEF RequestsOK, LateCannotClaim, MovesStock
  <2>6. EventsOK'
    <3>1. \A i \in 1..Len(events) : events[i].batch \in Batches
      BY EventsTyped
    <3> QED
      BY <2>1, <3>1 DEF EventsOK, ReportedIsSubmitted, SubmittedOnce, MovesStock
  <2> QED
    BY <2>3, <2>4, <2>5, <2>6 DEF RequestsOK
<1>2. ASSUME NEW c \in Clerks,
             \/ AddSerialToBatch(c) \/ RemoveBatchItem(c) \/ ScanSaleReturn(c)
             \/ VerifySaleReturnOnShelf(c) \/ VerifyPendingItemsOnShelf(c)
      PROVE  RequestsOK' /\ EventsOK'
  <2>1. UNCHANGED <<batch, events>>
    BY <1>2 DEF AddSerialToBatch, RemoveBatchItem, ScanSaleReturn, VerifySaleReturnOnShelf,
       VerifyPendingItemsOnShelf
  <2>2. PICK op \in {"scan", "remove", "return", "shelf"} : Commits(c, op)
    BY <1>2 DEF AddSerialToBatch, RemoveBatchItem, ScanSaleReturn, VerifySaleReturnOnShelf,
       VerifyPendingItemsOnShelf
  <2> QED
    BY <2>1, <2>2, QuietCommit
<1>3. ASSUME NEW c \in Clerks, NEW b \in Batches, NEW s \in Serials,
             ScanLooks(c, b, s) \/ RemoveLooks(c, b, s) \/ ReturnLooks(c, b, s)
      PROVE  RequestsOK' /\ EventsOK'
  <2>1. CASE ScanLooks(c, b, s)
    BY <2>1, Looks DEF ScanLooks
  <2>2. CASE RemoveLooks(c, b, s)
    BY <2>2, Looks DEF RemoveLooks
  <2>3. CASE ReturnLooks(c, b, s)
    BY <2>3, Looks DEF ReturnLooks
  <2> QED
    BY <1>3, <2>1, <2>2, <2>3
<1>4. ASSUME NEW c \in Clerks, NEW b \in Batches, NEW set \in SUBSET Serials,
             FefoLooks(c, b, set)
      PROVE  RequestsOK' /\ EventsOK'
  BY <1>4, Looks DEF FefoLooks
<1>5. ASSUME NEW c \in Clerks, NEW b \in Batches, ShelfLooks(c, b)
      PROVE  RequestsOK' /\ EventsOK'
  BY <1>5, Looks DEF ShelfLooks
<1>6. ASSUME NEW c \in Clerks, NEW b \in Batches, SubmitLooks(c, b)
      PROVE  RequestsOK' /\ EventsOK'
  BY <1>6, Looks DEF SubmitLooks
<1>7. CASE UNCHANGED vars
  BY <1>7 DEF vars, RequestsOK, RequestsAreFresh, SubmissionsAreValid, LateCannotClaim,
     EventsOK, ReportedIsSubmitted, SubmittedOnce, MovesStock, Draft, Allowed
<1> QED
  BY <1>1, <1>2, <1>3, <1>4, <1>5, <1>6, <1>7, SubmitStep DEF Next, ClerkStep

LEMMA OnceInit == Init => RequestsOK /\ EventsOK
BY DEF Init, NoRequest, RequestsOK, RequestsAreFresh, SubmissionsAreValid, LateCannotClaim,
   EventsOK, ReportedIsSubmitted, SubmittedOnce

\* The inductive invariant of submissions.
THEOREM OnceInductive == FewOvertake => (Spec => []OnceInv)
<1> SUFFICES ASSUME FewOvertake PROVE Spec => []OnceInv
  OBVIOUS
<1>1. TypeOK /\ RequestsOK /\ EventsOK /\ [Next]_vars => RequestsOK' /\ EventsOK'
  BY OnceStep
<1>2. TypeOK /\ RequestsOK /\ EventsOK => OnceInv
  BY DEF OnceInv, RequestsOK, EventsOK
<1> QED
  BY <1>1, <1>2, OnceInit, TypeCorrect, PTL DEF Spec

\* "This batch is already submitted": a batch that moves stock is submitted and
\* reported once, although submit_batch loads it before it has the write lock, because a late
\* submission cannot claim the serials (apply_batch_statuses).
THEOREM BatchesAreSubmittedOnce == FewOvertake => (Spec => []SubmittedOnce)
<1> SUFFICES ASSUME FewOvertake PROVE Spec => []SubmittedOnce
  OBVIOUS
<1>1. OnceInv => SubmittedOnce
  BY DEF OnceInv
<1> QED
  BY <1>1, OnceInductive, PTL
=============================================================================
