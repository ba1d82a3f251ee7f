------------------------- MODULE MaintenanceProofs -------------------------
(***************************************************************************)
(* Machine-checked proofs about the two components whose work a clock      *)
(* starts: Audits for any number of assignments, batches and serials, and  *)
(* Maintenance for every retention, and any number of commits, restores,   *)
(* changes of the settings and failures.                                   *)
(***************************************************************************)
EXTENDS Maintenance, Audits, TLAPS

-----------------------------------------------------------------------------
(* Audits.                                                                    *)

\* A request that reads waits with what it has read.
LEMMA AuditOpened ==
    ASSUME RowsTyped, NEW c \in Clerks, NEW op \in Operations, NEW b \in Batches \cup {None},
           NEW set \in SUBSET (Serials \cup Assignments),
           NEW deadlines \in [Assignments -> 0..MaxTime] \cup (Times \X Times),
           Open(c, op, b, set, deadlines)
    PROVE  /\ open' \in [Clerks -> AuditRequests \cup {NoRequest}]
           /\ \A d \in Clerks \ {c} : open'[d] = open[d]
           /\ open'[c].op = op /\ open'[c].batch = b /\ open'[c].set = set
           /\ open'[c].ends = deadlines /\ open'[c].moment = now
<1> DEFINE r == [op |-> op, batch |-> b, set |-> set, ends |-> deadlines,
                 moment |-> now, overtaken |-> 0]
<1>1. r \in AuditRequests
  BY AuditsBoundsAssumption DEF AuditRequests, RowsTyped
<1>2. open' = [open EXCEPT ![c] = r]
  BY DEF Open
<1>3. /\ r.op = op /\ r.batch = b /\ r.set = set /\ r.ends = deadlines /\ r.moment = now
  OBVIOUS
<1> HIDE DEF r
<1>4. open'[c] = r /\ open' \in [Clerks -> AuditRequests \cup {NoRequest}]
      /\ \A d \in Clerks \ {c} : open'[d] = open[d]
  BY <1>1, <1>2 DEF RowsTyped
<1> QED
  BY <1>3, <1>4

\* A commit: the requests that still wait have only been overtaken, and what they
\* know stays true.
LEMMA AuditClosed ==
    ASSUME AuditInv, NEW c \in Clerks, NEW op \in Operations, Commits(c, op)
    PROVE  /\ open[c] \in AuditRequests /\ open[c].op = op /\ RequestFits(open[c])
           /\ open' \in [Clerks -> AuditRequests \cup {NoRequest}]
           /\ \A d \in Clerks :
                 \/ open'[d] = NoRequest
                 \/ /\ open'[d].op = open[d].op /\ open'[d].batch = open[d].batch
                    /\ open'[d].set = open[d].set /\ open'[d].ends = open[d].ends
                    /\ open'[d].moment = open[d].moment /\ open[d] \in AuditRequests
<1>1. open[c].op = op /\ Close(c) /\ RowsTyped /\ RequestFits(open[c])
  BY DEF Commits, AuditInv, AuditRequestsFit
<1>2. NoRequest.op = "none" /\ op # "none"
  BY DEF NoRequest, Operations
<1>3. open[c] \in AuditRequests
  BY <1>1, <1>2 DEF RowsTyped
<1> DEFINE row(d) == IF d = c THEN NoRequest
                     ELSE IF d \in Waiting(c) THEN [open[d] EXCEPT !.overtaken = @ + 1]
                     ELSE open[d]
<1>4. open' = [d \in Clerks |-> row(d)]
  BY <1>1 DEF Close
<1>5. ASSUME NEW d \in Clerks
      PROVE  /\ row(d) \in AuditRequests \cup {NoRequest}
             /\ \/ row(d) = NoRequest
                \/ /\ row(d).op = open[d].op /\ row(d).batch = open[d].batch
                   /\ row(d).set = open[d].set /\ row(d).ends = open[d].ends
                   /\ row(d).moment = open[d].moment /\ open[d] \in AuditRequests
  <2>1. CASE d \in Waiting(c)
    <3>1. open[d] \in AuditRequests /\ d # c
      BY <1>1, <2>1 DEF Waiting, RowsTyped
    <3>2. open[d].overtaken \in 0..MaxOvertaken /\ open[d].overtaken < MaxOvertaken
      BY <1>1, <2>1, <3>1 DEF Close, AuditRequests
    <3>3. open[d].overtaken + 1 \in 0..MaxOvertaken
      BY <3>2, AuditsBoundsAssumption
    <3>4. row(d) = [open[d] EXCEPT !.overtaken = open[d].overtaken + 1]
      BY <2>1, <3>1
    <3> QED
      BY <3>1, <3>3, <3>4 DEF AuditRequests
  <2>2. CASE d \notin Waiting(c)
    BY <1>1, <2>2 DEF Waiting, RowsTyped
  <2> QED
    BY <2>1, <2>2
<1> HIDE DEF row
<1> QED
  BY <1>1, <1>3, <1>4, <1>5

LEMMA RequestsStay ==
    ASSUME AuditInv, NEW c \in Clerks, NEW op \in Operations, Commits(c, op), now' = now,
           \A b \in Batches : batch[b] # "NONE" => batch'[b] # "NONE",
           \A a \in Assignments : ends'[a] = 0 => ends[a] = 0
    PROVE  AuditRequestsFit'
<1> SUFFICES ASSUME NEW d \in Clerks PROVE RequestFits(open[d])'
  BY DEF AuditRequestsFit
<1>1. RequestFits(open[d])
  BY DEF AuditInv, AuditRequestsFit
<1>2. CASE open'[d] = NoRequest
  BY <1>2 DEF RequestFits, NoRequest
<1>3. CASE /\ open'[d].op = open[d].op /\ open'[d].batch = open[d].batch
           /\ open'[d].set = open[d].set /\ open'[d].ends = open[d].ends
           /\ open'[d].moment = open[d].moment /\ open[d] \in AuditRequests
  BY <1>1, <1>3 DEF RequestFits
<1> QED
  BY <1>2, <1>3, AuditClosed

\* What a finding says.
LEMMA FindingMeans ==
    ASSUME NEW a, NEW end, NEW moment, NEW s \in Serials
    PROVE  /\ Finding(a, end, moment, s) \in FindingTypes
           /\ Finding(a, end, moment, s) = "MISSING" =>
                 /\ moment > end
                 /\ \A b \in Batches : owner[b] = a => scans[b][s] \notin starts[a]..end
<1>1. Finding(a, end, moment, s) \in FindingTypes
  BY DEF Finding, FindingTypes
<1>2. Finding(a, end, moment, s) = "MISSING" => moment > end /\ s \notin Counted(a, end)
  BY DEF Finding
<1> QED
  BY <1>1, <1>2 DEF Counted, BatchesOf

LEMMA Reconciled ==
    ASSUME RowsTyped, NEW set, NEW deadlines, NEW moment, Reconcile(set, deadlines, moment)
    PROVE  /\ findings' \in [Assignments -> [Serials -> FindingTypes]]
           /\ \A a \in Assignments, s \in Serials :
                 findings'[a][s] = IF a \in set THEN Finding(a, deadlines[a], moment, s)
                                   ELSE findings[a][s]
           /\ outdated' = (outdated \ set) \cup {a \in set : deadlines[a] # ends'[a]}
<1> DEFINE row(a) == IF a \in set THEN [s \in Serials |-> Finding(a, deadlines[a], moment, s)]
                     ELSE findings[a]
<1>1. findings' = [a \in Assignments |-> row(a)]
  BY DEF Reconcile
<1>2. ASSUME NEW a \in Assignments
      PROVE  /\ row(a) \in [Serials -> FindingTypes]
             /\ \A s \in Serials : row(a)[s] = IF a \in set THEN Finding(a, deadlines[a], moment, s)
                                               ELSE findings[a][s]
  BY FindingMeans DEF RowsTyped
<1> HIDE DEF row
<1> QED
  BY <1>1, <1>2 DEF Reconcile

\* A request that reads changes nothing but itself.
LEMMA LooksKeep ==
    ASSUME AuditInv, NEW c \in Clerks, \A d \in Clerks \ {c} : open'[d] = open[d],
           RequestFits(open[c])', open' \in [Clerks -> AuditRequests \cup {NoRequest}],
           UNCHANGED <<now, stock, assignmentVars, batchVars, findingVars>>
    PROVE  AuditInv'
<1>1. UNCHANGED <<now, stock, starts, ends, expected, owner, batch, scans, stored, findings,
                  outdated>>
  BY DEF assignmentVars, batchVars, findingVars
<1>2. RowsTyped' /\ NothingYet' /\ MissingOnlyAfterDeadline' /\ MissingIsUnscanned'
  BY <1>1 DEF AuditInv, RowsTyped, NothingYet, MissingOnlyAfterDeadline, MissingIsUnscanned
<1>3. ASSUME NEW d \in Clerks PROVE RequestFits(open[d])'
  <2>1. CASE d # c
    <3>1. RequestFits(open[d])
      BY DEF AuditInv, AuditRequestsFit
    <3> QED
      BY <1>1, <2>1, <3>1 DEF RequestFits
  <2> QED
    BY <2>1
<1>4. AuditRequestsFit'
  BY <1>3 DEF AuditRequestsFit
<1> QED
  BY <1>2, <1>4 DEF AuditInv

LEMMA LooksAudit ==
    ASSUME AuditInv, NEW c \in Clerks, Looks(c)
    PROVE  AuditInv'
<1>1. RowsTyped /\ NothingYet /\ MissingOnlyAfterDeadline
  BY DEF AuditInv
<1>2. /\ ends \in [Assignments -> 0..MaxTime]
      /\ \A s \in Serials : {s} \in SUBSET (Serials \cup Assignments)
  BY <1>1 DEF RowsTyped
<1>3. ASSUME NEW start \in Times, NEW end \in Times, CreateLooks(c, start, end) PROVE AuditInv'
  <2>1. /\ Open(c, "create", None, stock, <<start, end>>)
        /\ UNCHANGED <<now, stock, assignmentVars, batchVars, findingVars>>
    BY <1>3 DEF CreateLooks
  <2>2. /\ <<start, end>> \in Times \X Times
        /\ stock \in SUBSET (Serials \cup Assignments)
    BY <1>1 DEF RowsTyped
  <2>3. /\ open' \in [Clerks -> AuditRequests \cup {NoRequest}]
        /\ \A d \in Clerks \ {c} : open'[d] = open[d]
        /\ open'[c].op = "create" /\ open'[c].set = stock
        /\ open'[c].ends = <<start, end>>
    BY <1>1, <2>1, <2>2, AuditOpened DEF Operations
  <2>4. RequestFits(open[c])'
    BY <1>1, <2>2, <2>3 DEF RequestFits, RowsTyped
  <2> QED
    BY <2>1, <2>3, <2>4, LooksKeep
<1>4. ASSUME NEW a \in Assignments, NEW end \in Times, ExtendLooks(c, a, end) PROVE AuditInv'
  <2> DEFINE deadlines == [ends EXCEPT ![a] = end]
  <2>1. /\ Open(c, "extend", None, {a}, deadlines) /\ ends[a] # 0 /\ end > now
        /\ UNCHANGED <<now, stock, assignmentVars, batchVars, findingVars>>
    BY <1>4 DEF ExtendLooks, CanExtend
  <2>2. deadlines \in [Assignments -> 0..MaxTime] /\ deadlines[a] = end
    BY <1>1 DEF RowsTyped, Times
  <2> HIDE DEF deadlines
  <2>3. /\ open' \in [Clerks -> AuditRequests \cup {NoRequest}]
        /\ \A d \in Clerks \ {c} : open'[d] = open[d]
        /\ open'[c].op = "extend" /\ open'[c].set = {a}
        /\ open'[c].ends = deadlines /\ open'[c].moment = now
    BY <1>1, <2>1, <2>2, AuditOpened DEF Operations
  <2>4. now' = now /\ ends' = ends /\ now \in Int
    BY <1>1, <2>1 DEF assignmentVars, RowsTyped, Times
  <2>5. RequestFits(open[c])'
    BY <2>1, <2>2, <2>3, <2>4 DEF RequestFits
  <2> QED
    BY <2>1, <2>3, <2>5, LooksKeep
<1>5. ASSUME RefreshLooks(c) PROVE AuditInv'
  <2> DEFINE due == {a \in Assignments : NeedsRefresh(a)}
  <2>1. /\ Open(c, "refresh", None, due, ends)
        /\ UNCHANGED <<now, stock, assignmentVars, batchVars, findingVars>>
    BY <1>5 DEF RefreshLooks
  <2>2. due \subseteq {a \in Assignments : ends[a] # 0} /\ due \in SUBSET (Serials \cup Assignments)
    BY DEF NeedsRefresh
  <2> HIDE DEF due
  <2>3. /\ open' \in [Clerks -> AuditRequests \cup {NoRequest}]
        /\ \A d \in Clerks \ {c} : open'[d] = open[d]
        /\ open'[c].op = "refresh" /\ open'[c].set = due
        /\ open'[c].ends = ends /\ open'[c].moment = now
    BY <1>1, <2>1, <2>2, AuditOpened DEF RowsTyped, Operations
  <2>4. now' = now /\ ends' = ends /\ now \in Int
    BY <1>1, <2>1 DEF assignmentVars, RowsTyped, Times
  <2>5. RequestFits(open[c])'
    BY <2>2, <2>3, <2>4 DEF RequestFits
  <2> QED
    BY <2>1, <2>3, <2>5, LooksKeep
<1>6. ASSUME NEW b \in Batches, SubmitLooks(c, b) PROVE AuditInv'
  <2> DEFINE items == {s \in Serials : scans[b][s] # 0}
  <2>1. /\ Open(c, "submit", b, items, ends) /\ Draft(b)
        /\ UNCHANGED <<now, stock, assignmentVars, batchVars, findingVars>>
    BY <1>6 DEF SubmitLooks
  <2>2. items \subseteq Serials /\ items \in SUBSET (Serials \cup Assignments)
    OBVIOUS
  <2> HIDE DEF items
  <2>3. /\ open' \in [Clerks -> AuditRequests \cup {NoRequest}]
        /\ \A d \in Clerks \ {c} : open'[d] = open[d]
        /\ open'[c].op = "submit" /\ open'[c].set = items
        /\ open'[c].ends = ends /\ open'[c].batch = b
    BY <1>1, <2>1, <2>2, <1>2, AuditOpened DEF Operations
  <2>4. batch' = batch /\ ends' = ends
    BY <2>1 DEF assignmentVars, batchVars
  <2>5. RequestFits(open[c])'
    BY <2>1, <2>2, <2>3, <2>4 DEF RequestFits, Draft
  <2> QED
    BY <2>1, <2>3, <2>5, LooksKeep
<1>7. ASSUME NEW b \in Batches, NEW s \in Serials, ScanLooks(c, b, s) PROVE AuditInv'
  <2>1. /\ Open(c, "scan", b, {s}, ends) /\ Draft(b)
        /\ UNCHANGED <<now, stock, assignmentVars, batchVars, findingVars>>
    BY <1>7 DEF ScanLooks
  <2>2. /\ open' \in [Clerks -> AuditRequests \cup {NoRequest}]
        /\ \A d \in Clerks \ {c} : open'[d] = open[d]
        /\ open'[c].op = "scan" /\ open'[c].set = {s} /\ open'[c].batch = b
    BY <1>1, <1>2, <2>1, AuditOpened DEF Operations
  <2>3. batch' = batch
    BY <2>1 DEF batchVars
  <2>4. RequestFits(open[c])'
    BY <2>1, <2>2, <2>3 DEF RequestFits, Draft
  <2> QED
    BY <2>1, <2>2, <2>4, LooksKeep
<1>8. ASSUME NEW b \in Batches, NEW s \in Serials, RemoveLooks(c, b, s) PROVE AuditInv'
  <2>1. /\ Open(c, "remove", b, {s}, ends) /\ Draft(b)
        /\ UNCHANGED <<now, stock, assignmentVars, batchVars, findingVars>>
    BY <1>8 DEF RemoveLooks
  <2>2. /\ open' \in [Clerks -> AuditRequests \cup {NoRequest}]
        /\ \A d \in Clerks \ {c} : open'[d] = open[d]
        /\ open'[c].op = "remove" /\ open'[c].set = {s} /\ open'[c].batch = b
    BY <1>1, <1>2, <2>1, AuditOpened DEF Operations
  <2>3. batch' = batch
    BY <2>1 DEF batchVars
  <2>4. RequestFits(open[c])'
    BY <2>1, <2>2, <2>3 DEF RequestFits, Draft
  <2> QED
    BY <2>1, <2>2, <2>4, LooksKeep
<1> QED
  BY <1>3, <1>4, <1>5, <1>6, <1>7, <1>8 DEF Looks


\* A new assignment comes with its first batch, and nothing is said about it yet.
LEMMA CreateAudits ==
    ASSUME AuditInv, NEW c \in Clerks, NEW a \in Assignments, NEW b \in Batches,
           CreateAuditAssignment(c, a, b)
    PROVE  AuditInv'
<1>1. RowsTyped /\ NothingYet /\ MissingOnlyAfterDeadline /\ MissingIsUnscanned
  BY DEF AuditInv
<1>2. /\ open[c].op = "create" /\ open' \in [Clerks -> AuditRequests \cup {NoRequest}]
      /\ RequestFits(open[c]) /\ Commits(c, "create")
  BY AuditClosed DEF CreateAuditAssignment, Operations
<1>3. open[c].set \subseteq Serials /\ open[c].ends \in Times \X Times
  BY <1>2 DEF RequestFits
<1>4. /\ ends[a] = 0 /\ batch[b] = "NONE"
      /\ starts' = [starts EXCEPT ![a] = open[c].ends[1]]
      /\ ends' = [ends EXCEPT ![a] = open[c].ends[2]]
      /\ expected' = [expected EXCEPT ![a] = open[c].set]
      /\ owner' = [owner EXCEPT ![b] = a]
      /\ batch' = [batch EXCEPT ![b] = "DRAFT"]
      /\ UNCHANGED <<now, stock, scans, stored, findings, outdated>>
  BY DEF CreateAuditAssignment, findingVars
<1>5. /\ ends'[a] \in Times /\ \A d \in Assignments \ {a} : ends'[d] = ends[d] /\ starts'[d] = starts[d]
      /\ owner'[b] = a /\ \A d \in Batches \ {b} : owner'[d] = owner[d] /\ batch'[d] = batch[d]
      /\ batch'[b] # "NONE"
  BY <1>1, <1>3, <1>4 DEF RowsTyped
<1>6. RowsTyped'
  <2>1. starts' \in [Assignments -> 0..MaxTime] /\ ends' \in [Assignments -> 0..MaxTime]
    BY <1>1, <1>3, <1>4 DEF RowsTyped, Times
  <2>2. /\ expected' \in [Assignments -> SUBSET Serials]
        /\ owner' \in [Batches -> Assignments \cup {None}]
        /\ batch' \in [Batches -> {"NONE", "DRAFT", "SUBMITTED"}]
    BY <1>1, <1>3, <1>4 DEF RowsTyped
  <2> QED
    BY <1>1, <1>2, <1>4, <2>1, <2>2 DEF RowsTyped
<1>7. NothingYet'
  BY <1>1, <1>4, <1>5 DEF NothingYet, Times
<1>8. \A s \in Serials : findings[a][s] = "NONE" /\ scans[b][s] = 0
  BY <1>1, <1>4 DEF NothingYet
<1>9. MissingOnlyAfterDeadline' /\ MissingIsUnscanned'
  BY <1>1, <1>4, <1>5, <1>8 DEF MissingOnlyAfterDeadline, MissingIsUnscanned
<1>10. AuditRequestsFit'
  BY <1>2, <1>4, <1>5, RequestsStay DEF Operations
<1> QED
  BY <1>2, <1>6, <1>7, <1>9, <1>10 DEF AuditInv

\* A commit that leaves the assignments and their findings alone, but for a scan that
\* is taken away or stored now.
LEMMA ScansAudit ==
    ASSUME AuditInv, NEW b \in Batches, batch[b] # "NONE",
           UNCHANGED <<now, stock, starts, ends, expected, owner, batch, findings, outdated>>,
           open' \in [Clerks -> AuditRequests \cup {NoRequest}], AuditRequestsFit',
           scans' \in [Batches -> [Serials -> 0..MaxTime]],
           stored' \in [Batches -> [Serials -> 0..MaxTime]],
           \A d \in Batches, s \in Serials :
              \/ scans'[d][s] = scans[d][s] /\ stored'[d][s] = stored[d][s]
              \/ d = b /\ scans'[d][s] = 0
              \/ d = b /\ stored'[d][s] = now
    PROVE  AuditInv'
<1>1. RowsTyped /\ NothingYet /\ MissingOnlyAfterDeadline /\ MissingIsUnscanned
  BY DEF AuditInv
<1>2. RowsTyped'
  BY <1>1 DEF RowsTyped
<1>3. NothingYet'
  BY <1>1 DEF NothingYet
<1>4. MissingOnlyAfterDeadline'
  BY <1>1 DEF MissingOnlyAfterDeadline
<1>5. MissingIsUnscanned'
  <2> SUFFICES ASSUME NEW a \in Assignments \ outdated, NEW s \in Serials, NEW d \in Batches,
                      findings[a][s] = "MISSING", owner[d] = a, scans'[d][s] # 0,
                      scans'[d][s] \in starts[a]..ends[a]
               PROVE  stored'[d][s] > ends[a]
    BY DEF MissingIsUnscanned
  <2>1. CASE scans'[d][s] = scans[d][s] /\ stored'[d][s] = stored[d][s]
    BY <1>1, <2>1 DEF MissingIsUnscanned
  <2>2. CASE stored'[d][s] = now
    BY <1>1, <2>2 DEF MissingOnlyAfterDeadline
  <2> QED
    BY <2>1, <2>2
<1> QED
  BY <1>2, <1>3, <1>4, <1>5 DEF AuditInv

\* A scan or a removal writes rows of one batch.
LEMMA StampedRow ==
    ASSUME NEW times, times \in [Batches -> [Serials -> 0..MaxTime]], NEW b \in Batches,
           NEW set, NEW time \in 0..MaxTime
    PROVE  /\ Stamped(times, b, set, time) \in [Batches -> [Serials -> 0..MaxTime]]
           /\ \A d \in Batches, s \in Serials :
                 Stamped(times, b, set, time)[d][s] =
                    IF d = b /\ s \in set THEN time ELSE times[d][s]
<1> DEFINE row == [s \in Serials |-> IF s \in set THEN time ELSE times[b][s]]
<1>1. /\ row \in [Serials -> 0..MaxTime]
      /\ \A s \in Serials : row[s] = IF s \in set THEN time ELSE times[b][s]
  OBVIOUS
<1>2. Stamped(times, b, set, time) = [times EXCEPT ![b] = row]
  BY DEF Stamped
<1> HIDE DEF row
<1> QED
  BY <1>1, <1>2

LEMMA AddAudits ==
    ASSUME AuditInv, NEW c \in Clerks, AddSerialToBatch(c)
    PROVE  AuditInv'
<1> DEFINE r == open[c]
           new == {s \in r.set : scans[r.batch][s] = 0}
<1>1. RowsTyped
  BY DEF AuditInv
<1>2. /\ r \in AuditRequests /\ r.op = "scan" /\ RequestFits(r) /\ Commits(c, "scan")
      /\ open' \in [Clerks -> AuditRequests \cup {NoRequest}]
  BY AuditClosed DEF AddSerialToBatch, Operations
<1>3. /\ UNCHANGED <<now, stock, starts, ends, expected, owner, batch, findings, outdated>>
      /\ stored' = Stamped(stored, r.batch, new, now)
  BY DEF AddSerialToBatch, assignmentVars, findingVars
<1>4. PICK created \in r.moment..now : scans' = Stamped(scans, r.batch, new, created)
  BY DEF AddSerialToBatch
<1>5. created \in 0..MaxTime /\ now \in 0..MaxTime
  <2>1. r.moment \in Times /\ now \in Times
    BY <1>1, <1>2 DEF RowsTyped, AuditRequests
  <2> QED
    BY <1>4, <2>1, AuditsBoundsAssumption DEF Times
<1>6. r.batch \in Batches /\ batch[r.batch] # "NONE"
  BY <1>2 DEF RequestFits
<1>7. AuditRequestsFit'
  BY <1>2, <1>3, RequestsStay DEF Operations
<1> HIDE DEF new, r
<1>8. /\ scans' \in [Batches -> [Serials -> 0..MaxTime]]
      /\ \A d \in Batches, s \in Serials :
            scans'[d][s] = IF d = r.batch /\ s \in new THEN created ELSE scans[d][s]
  <2>1. scans \in [Batches -> [Serials -> 0..MaxTime]]
    BY <1>1 DEF RowsTyped
  <2>2. created \in 0..MaxTime /\ r.batch \in Batches
    BY <1>5, <1>6
  <2>3. /\ Stamped(scans, r.batch, new, created) \in [Batches -> [Serials -> 0..MaxTime]]
        /\ \A d \in Batches, s \in Serials :
              Stamped(scans, r.batch, new, created)[d][s] =
                 IF d = r.batch /\ s \in new THEN created ELSE scans[d][s]
    BY <2>1, <2>2, StampedRow
  <2> QED
    BY <1>4, <2>3
<1>9. /\ stored' \in [Batches -> [Serials -> 0..MaxTime]]
      /\ \A d \in Batches, s \in Serials :
            stored'[d][s] = IF d = r.batch /\ s \in new THEN now ELSE stored[d][s]
  BY <1>1, <1>3, <1>5, <1>6, StampedRow DEF RowsTyped
<1> QED
  BY <1>2, <1>3, <1>6, <1>7, <1>8, <1>9, ScansAudit

LEMMA RemoveAudits ==
    ASSUME AuditInv, NEW c \in Clerks, RemoveBatchItem(c)
    PROVE  AuditInv'
<1> DEFINE r == open[c]
<1>1. RowsTyped /\ 0 \in 0..MaxTime
  BY AuditsBoundsAssumption DEF AuditInv
<1>2. /\ r.op = "remove" /\ RequestFits(r) /\ Commits(c, "remove")
      /\ open' \in [Clerks -> AuditRequests \cup {NoRequest}]
  BY AuditClosed DEF RemoveBatchItem, Operations
<1>3. /\ UNCHANGED <<now, stock, starts, ends, expected, owner, batch, findings, outdated>>
      /\ scans' = Stamped(scans, r.batch, r.set, 0)
      /\ stored' = Stamped(stored, r.batch, r.set, 0)
  BY DEF RemoveBatchItem, assignmentVars, findingVars
<1>4. r.batch \in Batches /\ batch[r.batch] # "NONE"
  BY <1>2 DEF RequestFits
<1>5. AuditRequestsFit'
  BY <1>2, <1>3, RequestsStay DEF Operations
<1> HIDE DEF r
<1>6. /\ scans' \in [Batches -> [Serials -> 0..MaxTime]]
      /\ \A d \in Batches, s \in Serials :
            scans'[d][s] = IF d = r.batch /\ s \in r.set THEN 0 ELSE scans[d][s]
  BY <1>1, <1>3, <1>4, StampedRow DEF RowsTyped
<1>7. /\ stored' \in [Batches -> [Serials -> 0..MaxTime]]
      /\ \A d \in Batches, s \in Serials :
            stored'[d][s] = IF d = r.batch /\ s \in r.set THEN 0 ELSE stored[d][s]
  BY <1>1, <1>3, <1>4, StampedRow DEF RowsTyped
<1> QED
  BY <1>2, <1>3, <1>4, <1>5, <1>6, <1>7, ScansAudit

\* Findings computed at a moment that is not in the future call missing only what is,
\* if they were computed with the deadline that will stand.
LEMMA ReconcileAudits ==
    ASSUME AuditInv, NEW set, NEW deadlines, NEW moment \in Int, moment <= now,
           Reconcile(set, deadlines, moment), AuditRequestsFit',
           set \subseteq {a \in Assignments : ends[a] # 0},
           \A a \in Assignments : a \notin set => ends'[a] = ends[a],
           \A a \in Assignments : ends'[a] = 0 => ends[a] = 0,
           ends' \in [Assignments -> 0..MaxTime],
           batch' \in [Batches -> {"NONE", "DRAFT", "SUBMITTED"}],
           \A b \in Batches : batch'[b] = "NONE" <=> batch[b] = "NONE",
           open' \in [Clerks -> AuditRequests \cup {NoRequest}],
           UNCHANGED <<now, stock, starts, expected, owner, scans, stored>>
    PROVE  AuditInv'
<1>1. RowsTyped /\ NothingYet /\ MissingOnlyAfterDeadline /\ MissingIsUnscanned
  BY DEF AuditInv
<1>2. /\ findings' \in [Assignments -> [Serials -> FindingTypes]]
      /\ \A a \in Assignments, s \in Serials :
            findings'[a][s] = IF a \in set THEN Finding(a, deadlines[a], moment, s)
                              ELSE findings[a][s]
      /\ outdated' = (outdated \ set) \cup {a \in set : deadlines[a] # ends'[a]}
  BY <1>1, Reconciled
<1>3. RowsTyped'
  BY <1>1, <1>2 DEF RowsTyped
<1>4. NothingYet'
  BY <1>1, <1>2 DEF NothingYet
<1>5. ASSUME NEW a \in Assignments \ outdated', NEW s \in Serials, findings'[a][s] = "MISSING"
      PROVE  /\ now' > ends'[a]
             /\ \A b \in Batches :
                   /\ owner'[b] = a
                   /\ scans'[b][s] # 0 /\ scans'[b][s] \in starts'[a]..ends'[a]
                   => stored'[b][s] > ends'[a]
  <2>1. CASE a \in set
    <3>1. Finding(a, ends'[a], moment, s) = "MISSING"
      BY <1>2, <1>5, <2>1
    <3>2. /\ moment > ends'[a]
          /\ \A b \in Batches : owner[b] = a => scans[b][s] \notin starts[a]..ends'[a]
      BY <3>1, FindingMeans
    <3>3. now \in Int /\ ends'[a] \in Int
      BY <1>1 DEF RowsTyped, Times
    <3> QED
      BY <3>2, <3>3
  <2>2. CASE a \notin set
    <3>1. findings[a][s] = "MISSING" /\ ends'[a] = ends[a] /\ a \in Assignments \ outdated
      BY <1>2, <1>5, <2>2
    <3> QED
      BY <1>1, <3>1 DEF MissingOnlyAfterDeadline, MissingIsUnscanned
  <2> QED
    BY <2>1, <2>2
<1> QED
  BY <1>3, <1>4, <1>5 DEF AuditInv, MissingOnlyAfterDeadline, MissingIsUnscanned

LEMMA SubmitAudits ==
    ASSUME AuditInv, NEW c \in Clerks, SubmitBatch(c)
    PROVE  AuditInv'
<1> SUFFICES ASSUME NEW r, r = open[c] PROVE AuditInv'
  OBVIOUS
<1>1. RowsTyped /\ NothingYet
  BY DEF AuditInv
<1>2. /\ r.op = "submit" /\ RequestFits(r) /\ Commits(c, "submit")
      /\ open' \in [Clerks -> AuditRequests \cup {NoRequest}]
  BY AuditClosed DEF SubmitBatch, Operations
<1>3. r.batch \in Batches /\ batch[r.batch] # "NONE"
  BY <1>2 DEF RequestFits
<1>4. UNCHANGED <<now, stock, starts, ends, expected, owner, scans, stored>>
  BY DEF SubmitBatch
<1>5. /\ batch' \in [Batches -> {"NONE", "DRAFT", "SUBMITTED"}]
      /\ \A b \in Batches : batch'[b] = "NONE" <=> batch[b] = "NONE"
  BY <1>1, <1>3 DEF SubmitBatch, RowsTyped
<1>6. AuditRequestsFit'
  BY <1>2, <1>4, <1>5, RequestsStay DEF Operations
<1>7. CASE ~\A s \in r.set : scans[r.batch][s] # 0
  <2>1. UNCHANGED <<batch, findings, outdated>>
    BY <1>7 DEF SubmitBatch, findingVars
  <2> QED
    BY <1>1, <1>2, <1>3, <1>4, <1>6, <2>1, ScansAudit DEF RowsTyped
<1>8. CASE \A s \in r.set : scans[r.batch][s] # 0
  <2>1. Reconcile({owner[r.batch]}, r.ends, now)
    BY <1>8 DEF SubmitBatch
  <2>2. {owner[r.batch]} \subseteq {a \in Assignments : ends[a] # 0}
    BY <1>1, <1>3 DEF NothingYet
  <2>3. now \in Int /\ ends' \in [Assignments -> 0..MaxTime]
    BY <1>1, <1>4 DEF RowsTyped, Times
  <2> QED
    BY <1>2, <1>4, <1>5, <1>6, <2>1, <2>2, <2>3, ReconcileAudits
<1> QED
  BY <1>7, <1>8

LEMMA ExtendAudits ==
    ASSUME AuditInv, NEW c \in Clerks, ExtendDeadline(c)
    PROVE  AuditInv'
<1> SUFFICES ASSUME NEW r, r = open[c] PROVE AuditInv'
  OBVIOUS
<1>1. RowsTyped
  BY DEF AuditInv
<1>2. /\ r \in AuditRequests /\ r.op = "extend" /\ RequestFits(r) /\ Commits(c, "extend")
      /\ open' \in [Clerks -> AuditRequests \cup {NoRequest}]
  BY AuditClosed DEF ExtendDeadline, Operations
<1>3. /\ r.ends \in [Assignments -> 0..MaxTime] /\ r.moment \in Int /\ r.moment <= now
      /\ r.set \subseteq {a \in Assignments : ends[a] # 0}
      /\ \A a \in r.set : r.ends[a] > r.moment
  BY <1>2 DEF RequestFits, AuditRequests, Times
<1>4. /\ ends' = [a \in Assignments |-> IF a \in r.set THEN r.ends[a] ELSE ends[a]]
      /\ Reconcile(r.set, r.ends, r.moment)
      /\ UNCHANGED <<now, stock, starts, expected, owner, batch, scans, stored>>
  BY DEF ExtendDeadline, Extended, batchVars
<1>5. ends' \in [Assignments -> 0..MaxTime]
  BY <1>1, <1>3, <1>4 DEF RowsTyped
<1>6. \A a \in Assignments : ends'[a] = 0 => ends[a] = 0
  <2>1. r.moment >= 1
    BY <1>2 DEF AuditRequests, Times
  <2> QED
    BY <1>3, <1>4, <2>1
<1>7. batch' \in [Batches -> {"NONE", "DRAFT", "SUBMITTED"}]
  BY <1>1, <1>4 DEF RowsTyped
<1>8. AuditRequestsFit'
  BY <1>2, <1>4, <1>6, RequestsStay DEF Operations
<1> QED
  BY <1>2, <1>3, <1>4, <1>5, <1>6, <1>7, <1>8, ReconcileAudits

LEMMA RefreshAudits ==
    ASSUME AuditInv, NEW c \in Clerks, RefreshExpired(c)
    PROVE  AuditInv'
<1> SUFFICES ASSUME NEW r, r = open[c] PROVE AuditInv'
  OBVIOUS
<1>1. RowsTyped
  BY DEF AuditInv
<1>2. /\ r \in AuditRequests /\ r.op = "refresh" /\ RequestFits(r) /\ Commits(c, "refresh")
      /\ open' \in [Clerks -> AuditRequests \cup {NoRequest}]
  BY AuditClosed DEF RefreshExpired, Operations
<1>3. /\ r.moment \in Int /\ r.moment <= now
      /\ r.set \subseteq {a \in Assignments : ends[a] # 0}
  BY <1>2 DEF RequestFits, AuditRequests, Times
<1>4. /\ Reconcile(r.set, r.ends, r.moment)
      /\ UNCHANGED <<now, stock, starts, ends, expected, owner, batch, scans, stored>>
  BY DEF RefreshExpired, batchVars
<1>5. /\ ends' \in [Assignments -> 0..MaxTime]
      /\ batch' \in [Batches -> {"NONE", "DRAFT", "SUBMITTED"}]
  BY <1>1, <1>4 DEF RowsTyped
<1>6. AuditRequestsFit'
  BY <1>2, <1>4, RequestsStay DEF Operations
<1> QED
  BY <1>2, <1>3, <1>4, <1>5, <1>6, ReconcileAudits

\* Time, other stock documents and a new batch of an assignment.
LEMMA OthersAudit ==
    ASSUME AuditInv, UNCHANGED <<starts, ends, expected, scans, stored, findings, outdated, open>>,
           now' \in Times, now' >= now, stock' \subseteq Serials,
           owner' \in [Batches -> Assignments \cup {None}],
           batch' \in [Batches -> {"NONE", "DRAFT", "SUBMITTED"}],
           \A b \in Batches :
              \/ owner'[b] = owner[b] /\ batch'[b] = batch[b]
              \/ batch[b] = "NONE" /\ batch'[b] # "NONE"
                 /\ owner'[b] \in Assignments /\ ends[owner'[b]] # 0
    PROVE  AuditInv'
<1>1. RowsTyped /\ NothingYet /\ MissingOnlyAfterDeadline /\ MissingIsUnscanned
  BY DEF AuditInv
<1>2. RowsTyped'
  BY <1>1 DEF RowsTyped
<1>3. NothingYet'
  BY <1>1 DEF NothingYet
<1>4. MissingOnlyAfterDeadline'
  <2>1. \A a \in Assignments : ends[a] \in Int
    BY <1>1 DEF RowsTyped
  <2>2. now \in Int /\ now' \in Int
    BY <1>1 DEF RowsTyped, Times
  <2> QED
    BY <1>1, <2>1, <2>2 DEF MissingOnlyAfterDeadline
<1>5. MissingIsUnscanned'
  BY <1>1 DEF MissingIsUnscanned, NothingYet
<1>6. AuditRequestsFit'
  <2> SUFFICES ASSUME NEW c \in Clerks PROVE RequestFits(open[c])'
    BY DEF AuditRequestsFit
  <2>1. RequestFits(open[c]) /\ now \in Int /\ now' \in Int
    BY <1>1 DEF AuditInv, AuditRequestsFit, RowsTyped, Times
  <2>2. open[c] # NoRequest => open[c] \in AuditRequests
    BY <1>1 DEF RowsTyped
  <2>3. open[c].op \in {"extend", "refresh"} => open[c].moment \in Int
    BY <2>2 DEF NoRequest, AuditRequests, Times
  <2> QED
    BY <2>1, <2>3 DEF RequestFits
<1> QED
  BY <1>2, <1>3, <1>4, <1>5, <1>6 DEF AuditInv

LEMMA AuditStep == AuditInv /\ [AuditNext]_auditVars => AuditInv'
<1> SUFFICES ASSUME AuditInv, [AuditNext]_auditVars PROVE AuditInv'
  OBVIOUS
<1>1. RowsTyped
  BY DEF AuditInv
<1>2. ASSUME NEW c \in Clerks, Looks(c) \/ Stores(c) PROVE AuditInv'
  BY <1>2, LooksAudit, CreateAudits, AddAudits, RemoveAudits, SubmitAudits, ExtendAudits,
     RefreshAudits DEF Stores
<1>3. ASSUME Tick \/ (\E s \in Serials : StockMoves(s)) \/ UNCHANGED auditVars PROVE AuditInv'
  <2>1. UNCHANGED <<starts, ends, expected, scans, stored, findings, outdated, open, owner,
                  batch>>
    BY <1>3 DEF Tick, StockMoves, auditVars, assignmentVars, batchVars, findingVars
  <2>2. now' \in Times /\ now' >= now
    BY <1>1, <1>3, AuditsBoundsAssumption DEF Tick, StockMoves, auditVars, RowsTyped, Times
  <2>3. stock' \subseteq Serials
    BY <1>1, <1>3 DEF Tick, StockMoves, auditVars, RowsTyped
  <2> QED
    BY <1>1, <2>1, <2>2, <2>3, OthersAudit DEF RowsTyped
<1>4. ASSUME NEW a \in Assignments, NEW b \in Batches, CreateBatch(a, b) PROVE AuditInv'
  <2>1. /\ UNCHANGED <<now, stock, starts, ends, expected, scans, stored, findings, outdated, open>>
        /\ now \in starts[a]..ends[a] /\ batch[b] = "NONE"
        /\ owner' = [owner EXCEPT ![b] = a] /\ batch' = [batch EXCEPT ![b] = "DRAFT"]
    BY <1>4 DEF CreateBatch, assignmentVars, findingVars
  <2>2. /\ owner' \in [Batches -> Assignments \cup {None}]
        /\ batch' \in [Batches -> {"NONE", "DRAFT", "SUBMITTED"}]
        /\ owner'[b] = a /\ batch'[b] = "DRAFT"
        /\ \A d \in Batches \ {b} : owner'[d] = owner[d] /\ batch'[d] = batch[d]
    BY <1>1, <2>1 DEF RowsTyped
  <2>3. ends[a] # 0 /\ now' \in Times /\ now' >= now /\ stock' \subseteq Serials
    BY <1>1, <2>1 DEF RowsTyped, Times
  <2> QED
    BY <2>1, <2>2, <2>3, OthersAudit
<1> QED
  BY <1>2, <1>3, <1>4 DEF AuditNext

LEMMA AuditInitInv == AuditInit => AuditInv
<1> SUFFICES ASSUME AuditInit PROVE AuditInv
  OBVIOUS
<1>1. RowsTyped
  BY AuditsBoundsAssumption DEF AuditInit, RowsTyped, Times, FindingTypes
<1>2. NothingYet
  BY AuditsAssumption DEF AuditInit, NothingYet
<1>3. AuditRequestsFit
  BY DEF AuditInit, AuditRequestsFit, RequestFits, NoRequest
<1>4. MissingOnlyAfterDeadline /\ MissingIsUnscanned
  BY DEF AuditInit, MissingOnlyAfterDeadline, MissingIsUnscanned
<1> QED
  BY <1>1, <1>2, <1>3, <1>4 DEF AuditInv

\* Findings, deadlines and scans fit together, however many requests overlap: a
\* report reconciles an expired assignment with the deadline it has loaded
\* (refresh_expired_audit_assignments), an extension reconciles it with the new one.
THEOREM AuditsInductive == AuditSpec => []AuditInv
BY AuditStep, AuditInitInv, PTL DEF AuditSpec

\* Stock is called missing only after the deadline, however often the deadline is
\* extended before or after it was missed (extend_audit_assignment_deadline), but
\* for findings of a request that an extension has overtaken.
THEOREM MissingComesLate == AuditSpec => []MissingOnlyAfterDeadline
<1>1. AuditInv => MissingOnlyAfterDeadline
  BY DEF AuditInv
<1> QED
  BY <1>1, AuditsInductive, PTL

\* A serial that an assignment calls missing was not scanned in its window
\* (reconcile_audit_assignment), or the scan was stored after the deadline.
THEOREM MissingWasNotScanned == AuditSpec => []MissingIsUnscanned
<1>1. AuditInv => MissingIsUnscanned
  BY DEF AuditInv
<1> QED
  BY <1>1, AuditsInductive, PTL

-----------------------------------------------------------------------------
(* Backup, restore and reset.                                                 *)

USE MaintenanceAssumption, MaintenanceBoundsAssumption

\* The parts of the inductive invariant that do not look at the backups.
DatabaseInv == StaleIsKnown /\ MixedIsKnown /\ CurrentIsFresh
\* The parts that do.
BackupInv ==
    BackupsAreWhole /\ SafetyIsKept /\ SourceIsKnown /\ CopyIsKnown /\ SafetyIsNewest

\* A fresh database satisfies the inductive invariant.
LEMMA InitIInv == Init => IInv
<1> SUFFICES ASSUME Init PROVE IInv
    OBVIOUS
<1>1. TypeOK
  <2>1. commits \in States /\ file \in Nat /\ inode \in States
    BY DEF Init, States, Mixed
  <2>2. backups \in [Folders -> Seq(Nat)]
    BY DEF Init
  <2>3. settings \in Settings /\ worker \in BOOLEAN /\ exposed \in BOOLEAN
    BY DEF Init, Settings
  <2> QED
    BY <2>1, <2>2, <2>3 DEF Init, TypeOK
<1>2. DatabaseInv
    BY DEF Init, DatabaseInv, StaleIsKnown, MixedIsKnown, CurrentIsFresh, Stale,
       Mixed, NoWal
<1>3. BackupInv
    BY DEF Init, BackupInv, BackupsAreWhole, SafetyIsKept, Listed,
       SourceIsKnown, CopyIsKnown, SafetyIsNewest
<1> QED
    BY <1>1, <1>2, <1>3 DEF IInv, DatabaseInv, BackupInv

\* What the next commit makes of the database; only a mixture stays one.
LEMMA LaterStates ==
    ASSUME TypeOK
    PROVE  /\ Live \in Nat /\ Later \in Nat /\ commits + 1 \in States
           /\ Later = Mixed <=> Live = Mixed
BY DEF TypeOK, Live, Later, States, Mixed, NoWal

\* A database that is a mixture was exposed, or its log waits for its removal.
LEMMA MixturesAreKnown ==
    ASSUME DatabaseInv, Live = Mixed
    PROVE  exposed \/ (Stale /\ At("removingAgain"))
BY DEF DatabaseInv, StaleIsKnown, MixedIsKnown, Live, Stale

\* A job goes on: only its step changes.
LEMMA ContinueJob ==
    ASSUME TypeOK, job # Idle, NEW step \in StepNames, Continue(step)
    PROVE  /\ job \in JobSet /\ job' \in JobSet /\ job' # Idle
           /\ job'.step = step /\ job'.then = job.then /\ job'.source = job.source
           /\ job'.copy = job.copy /\ job'.retention = job.retention
           /\ job'.directory = job.directory /\ job'.offsite = job.offsite
<1>1. job \in JobSet
    BY DEF TypeOK
<1>2. job' = [job EXCEPT !.step = step]
    BY DEF Continue
<1>3. job' \in JobSet /\ job'.step = step
    BY <1>1, <1>2 DEF JobSet
<1>4. job' # Idle
    BY <1>3 DEF StepNames, Idle
<1> QED
    BY <1>1, <1>2, <1>3, <1>4 DEF JobSet

\* A step that leaves the backups, the job and the safety backup alone.
LEMMA SameBackups ==
    ASSUME BackupInv, UNCHANGED <<backups, job, safety>>, exposed => exposed'
    PROVE  BackupInv'
BY DEF BackupInv, BackupsAreWhole, SafetyIsKept, SourceIsKnown, CopyIsKnown,
   SafetyIsNewest, Listed

\* A step that only ends the job.
LEMMA NoJob ==
    ASSUME BackupInv, UNCHANGED <<backups, safety>>, job' = Idle, exposed => exposed'
    PROVE  BackupInv'
BY DEF BackupInv, BackupsAreWhole, SafetyIsKept, SourceIsKnown, CopyIsKnown,
   SafetyIsNewest, Listed

\* Opening a database beside a foreign log is noted in exposed.
LEMMA BeginRequestIInv ==
    ASSUME IInv, BeginRequest
    PROVE  IInv'
<1>0. TypeOK /\ DatabaseInv /\ BackupInv
    BY DEF IInv, DatabaseInv, BackupInv
<1>a. /\ exposed' \in BOOLEAN /\ (exposed => exposed')
      /\ held' \in {"none", "current", "orphan"} /\ idle' \subseteq {"current", "orphan"}
  <2>1. exposed' = exposed \/ exposed' = (exposed \/ Stale)
    BY DEF BeginRequest
  <2>2. exposed' \in BOOLEAN /\ (exposed => exposed')
    BY <1>0, <2>1 DEF TypeOK
  <2>3. \/ held' = "current" /\ idle' = idle
        \/ \E kind \in idle : held' = kind /\ idle' = idle \ {kind}
    BY DEF BeginRequest
  <2>4. held' \in {"none", "current", "orphan"} /\ idle' \subseteq {"current", "orphan"}
    BY <1>0, <2>3 DEF TypeOK
  <2> QED
    BY <2>2, <2>4
<1>1. TypeOK'
    BY <1>0, <1>a, LaterStates DEF TypeOK, BeginRequest, Opens,
       States, Mixed, NoWal, databaseVars, connectionVars,
       workerVars, counters
<1>2. DatabaseInv'
    BY <1>0, LaterStates DEF TypeOK, BeginRequest, Opens,
       States, Mixed, NoWal, Stale, At, Idle, DatabaseInv, StaleIsKnown,
       MixedIsKnown, CurrentIsFresh, databaseVars, connectionVars,
       workerVars, counters
<1>3. BackupInv'
    BY <1>0, <1>a, SameBackups DEF BeginRequest, databaseVars, connectionVars,
       workerVars, counters
<1> QED
    BY <1>1, <1>2, <1>3 DEF IInv, DatabaseInv, BackupInv

\* A commit goes into a log of the current file, or nowhere.
LEMMA RequestCommitsIInv ==
    ASSUME IInv, RequestCommits
    PROVE  IInv'
<1>0. TypeOK /\ DatabaseInv /\ BackupInv
    BY DEF IInv, DatabaseInv, BackupInv
<1>1. TypeOK'
    BY <1>0, LaterStates DEF TypeOK, RequestCommits, Writes, GoesNowhere,
       States, Mixed, NoWal, databaseVars, connectionVars,
       workerVars, counters
<1>2. DatabaseInv'
    BY <1>0, LaterStates, MixturesAreKnown DEF TypeOK, RequestCommits, Writes, GoesNowhere,
       States, Mixed, NoWal, Stale, At, Idle, DatabaseInv, StaleIsKnown,
       MixedIsKnown, CurrentIsFresh, databaseVars, connectionVars,
       workerVars, counters
<1>3. BackupInv'
    BY <1>0, SameBackups DEF RequestCommits, databaseVars, connectionVars,
       workerVars, counters
<1> QED
    BY <1>1, <1>2, <1>3 DEF IInv, DatabaseInv, BackupInv

\* A connection goes back to the pool as it is.
LEMMA EndRequestIInv ==
    ASSUME IInv, EndRequest
    PROVE  IInv'
<1>0. TypeOK /\ DatabaseInv /\ BackupInv
    BY DEF IInv, DatabaseInv, BackupInv
<1>1. TypeOK'
    BY <1>0, LaterStates DEF TypeOK, EndRequest,
       States, Mixed, NoWal, databaseVars, connectionVars,
       workerVars, counters
<1>2. DatabaseInv'
    BY <1>0, LaterStates DEF TypeOK, EndRequest,
       States, Mixed, NoWal, Stale, At, Idle, DatabaseInv, StaleIsKnown,
       MixedIsKnown, CurrentIsFresh, databaseVars, connectionVars,
       workerVars, counters
<1>3. BackupInv'
    BY <1>0, SameBackups DEF EndRequest, databaseVars, connectionVars,
       workerVars, counters
<1> QED
    BY <1>1, <1>2, <1>3 DEF IInv, DatabaseInv, BackupInv

\* A checkpoint brings the log into its own file.
LEMMA CheckpointIInv ==
    ASSUME IInv, Checkpoint
    PROVE  IInv'
<1>0. TypeOK /\ DatabaseInv /\ BackupInv
    BY DEF IInv, DatabaseInv, BackupInv
<1>1. TypeOK'
    BY <1>0, LaterStates DEF TypeOK, Checkpoint,
       States, Mixed, NoWal, databaseVars, connectionVars,
       workerVars, counters
<1>2. DatabaseInv'
    BY <1>0, LaterStates DEF TypeOK, Checkpoint,
       States, Mixed, NoWal, Stale, At, Idle, DatabaseInv, StaleIsKnown,
       MixedIsKnown, CurrentIsFresh, databaseVars, connectionVars,
       workerVars, counters
<1>3. BackupInv'
    BY <1>0, SameBackups DEF Checkpoint, databaseVars, connectionVars,
       workerVars, counters
<1> QED
    BY <1>1, <1>2, <1>3 DEF IInv, DatabaseInv, BackupInv

\* A reset is a commit that may bring the log into the file.
LEMMA ResetDatabaseAndCacheIInv ==
    ASSUME IInv, ResetDatabaseAndCache
    PROVE  IInv'
<1>a. worker' \in BOOLEAN
    BY DEF IInv, TypeOK, ResetDatabaseAndCache, Settings
<1>0. TypeOK /\ DatabaseInv /\ BackupInv
    BY DEF IInv, DatabaseInv, BackupInv
<1>1. TypeOK'
    BY <1>a, <1>0, LaterStates DEF TypeOK, ResetDatabaseAndCache, Writes, GoesNowhere,
       States, Mixed, NoWal, databaseVars, connectionVars,
       workerVars, counters
<1>2. DatabaseInv'
    BY <1>a, <1>0, LaterStates, MixturesAreKnown DEF TypeOK, ResetDatabaseAndCache, Writes, GoesNowhere,
       States, Mixed, NoWal, Stale, At, Idle, DatabaseInv, StaleIsKnown,
       MixedIsKnown, CurrentIsFresh, databaseVars, connectionVars,
       workerVars, counters
<1>3. BackupInv'
    BY <1>0, SameBackups DEF ResetDatabaseAndCache, databaseVars, connectionVars,
       workerVars, counters
<1> QED
    BY <1>1, <1>2, <1>3 DEF IInv, DatabaseInv, BackupInv

\* A downloaded copy opens the database only while no restore runs.
LEMMA DownloadBackupIInv ==
    ASSUME IInv, DownloadBackup
    PROVE  IInv'
<1>0. TypeOK /\ DatabaseInv /\ BackupInv
    BY DEF IInv, DatabaseInv, BackupInv
<1>1. TypeOK'
    BY <1>0, LaterStates DEF TypeOK, DownloadBackup, Opens,
       States, Mixed, NoWal, databaseVars, connectionVars,
       workerVars, counters
<1>2. DatabaseInv'
    BY <1>0, LaterStates DEF TypeOK, DownloadBackup, Opens,
       States, Mixed, NoWal, Stale, At, Idle, DatabaseInv, StaleIsKnown,
       MixedIsKnown, CurrentIsFresh, databaseVars, connectionVars,
       workerVars, counters
<1>3. BackupInv'
    BY <1>0, SameBackups DEF DownloadBackup, databaseVars, connectionVars,
       workerVars, counters
<1> QED
    BY <1>1, <1>2, <1>3 DEF IInv, DatabaseInv, BackupInv

\* New settings apply to the next backup; the running one keeps its own.
LEMMA SaveBackupSettingsIInv ==
    ASSUME IInv, NEW new \in Settings, SaveBackupSettings(new)
    PROVE  IInv'
<1>a. settings' \in Settings /\ worker' \in BOOLEAN
    BY DEF SaveBackupSettings, Settings
<1>0. TypeOK /\ DatabaseInv /\ BackupInv
    BY DEF IInv, DatabaseInv, BackupInv
<1>1. TypeOK'
    BY <1>a, <1>0, LaterStates DEF TypeOK, SaveBackupSettings,
       States, Mixed, NoWal, databaseVars, connectionVars,
       workerVars, counters
<1>2. DatabaseInv'
    BY <1>a, <1>0, LaterStates DEF TypeOK, SaveBackupSettings,
       States, Mixed, NoWal, Stale, At, Idle, DatabaseInv, StaleIsKnown,
       MixedIsKnown, CurrentIsFresh, databaseVars, connectionVars,
       workerVars, counters
<1>3. BackupInv'
    BY <1>0, SameBackups DEF SaveBackupSettings, databaseVars, connectionVars,
       workerVars, counters
<1> QED
    BY <1>1, <1>2, <1>3 DEF IInv, DatabaseInv, BackupInv

\* A job starts with the settings as they are.
LEMMA NewBackupJob ==
    ASSUME TypeOK, NEW then \in {"idle", "restoring"}, NEW source \in Nat,
           job' = NewBackup(then, source)
    PROVE  /\ job' \in JobSet /\ job' # Idle
           /\ job'.step = "copying" /\ job'.then = then /\ job'.source = source
BY DEF TypeOK, NewBackup, JobSet, StepNames, Settings, Idle

\* The worker starts a backup; nothing is touched yet.
LEMMA ScheduledBackupIInv ==
    ASSUME IInv, ScheduledBackup
    PROVE  IInv'
<1>0. TypeOK /\ DatabaseInv /\ BackupInv
    BY DEF IInv, DatabaseInv, BackupInv
<1>b. /\ job' \in JobSet /\ job' # Idle
      /\ job'.step = "copying" /\ job'.then = "idle" /\ job'.source = 0
    BY <1>0, NewBackupJob DEF ScheduledBackup
<1>1. TypeOK'
    BY <1>0, <1>b DEF TypeOK, ScheduledBackup,
       States, Mixed, NoWal, databaseVars, connectionVars,
       workerVars, counters
<1>2. DatabaseInv'
    BY <1>0, <1>b DEF TypeOK, ScheduledBackup, StepNames,
       States, Mixed, NoWal, Stale, At, Idle, DatabaseInv, StaleIsKnown,
       MixedIsKnown, CurrentIsFresh, databaseVars, connectionVars,
       workerVars, counters
<1>3. BackupInv'
    BY <1>0, <1>b DEF ScheduledBackup, BackupInv, BackupsAreWhole, SafetyIsKept,
       SourceIsKnown, CopyIsKnown, SafetyIsNewest, Listed, Verifying, Restoring, databaseVars, connectionVars,
       workerVars, counters
<1> QED
    BY <1>1, <1>2, <1>3 DEF IInv, DatabaseInv, BackupInv

\* A mixture that a restore starts from is known.
LEMMA StartRestoreIInv ==
    ASSUME IInv, NEW source \in Restorable, StartRestore(source)
    PROVE  IInv'
<1>0. TypeOK /\ DatabaseInv /\ BackupInv
    BY DEF IInv, DatabaseInv, BackupInv
<1>a. source \in Nat /\ (source = Mixed => exposed)
  <2>1. CASE source \in 1..commits
    BY <1>0, <2>1 DEF TypeOK, States, Mixed
  <2>2. ASSUME NEW f \in Folders, source \in Listed(backups[f])
        PROVE  source \in Nat /\ (source = Mixed => exposed)
    <3>1. backups[f] \in Seq(Nat)
      BY <1>0 DEF TypeOK
    <3>2. source \in Nat
      BY <2>2, <3>1 DEF Listed
    <3> QED
      BY <1>0, <2>2, <3>2 DEF BackupInv, BackupsAreWhole
  <2>3. source \in 1..commits \/ \E f \in Folders : source \in Listed(backups[f])
    BY DEF Restorable, Shown
  <2> QED
    BY <2>1, <2>2, <2>3
<1>b. /\ job' \in JobSet /\ job' # Idle
      /\ job'.step = "copying" /\ job'.then = "restoring" /\ job'.source = source
    BY <1>0, <1>a, NewBackupJob DEF StartRestore
<1>c. worker' \in BOOLEAN /\ restores' \in Nat
  <2>1. worker' = FALSE
    BY Zenon DEF StartRestore
  <2>2. restores' = restores + 1
    BY DEF StartRestore
  <2>3. restores' \in Nat
    BY <1>0, <2>2 DEF TypeOK
  <2> QED
    BY <2>1, <2>3
<1>1. TypeOK'
    BY <1>0, <1>b, <1>c DEF TypeOK, StartRestore,
       States, Mixed, NoWal, databaseVars, connectionVars,
       workerVars, counters
<1>2. DatabaseInv'
    BY <1>0, <1>b DEF TypeOK, StartRestore, StepNames,
       States, Mixed, NoWal, Stale, At, Idle, DatabaseInv, StaleIsKnown,
       MixedIsKnown, CurrentIsFresh, databaseVars, connectionVars,
       workerVars, counters
<1>3. BackupInv'
    BY <1>0, <1>a, <1>b DEF StartRestore, BackupInv, BackupsAreWhole, SafetyIsKept,
       SourceIsKnown, CopyIsKnown, SafetyIsNewest, Listed, Verifying, Restoring, databaseVars, connectionVars,
       workerVars, counters
<1> QED
    BY <1>1, <1>2, <1>3 DEF IInv, DatabaseInv, BackupInv

\* The copy of a database that no restore is replacing: a mixture is known.
LEMMA CopyDatabaseIInv ==
    ASSUME IInv, CopyDatabase
    PROVE  IInv'
<1>0. TypeOK /\ DatabaseInv /\ BackupInv
    BY DEF IInv, DatabaseInv, BackupInv
<1>a. job # Idle /\ job \in JobSet /\ Live \in Nat
    BY <1>0, LaterStates DEF TypeOK, CopyDatabase, At, Idle
<1>b. /\ job' \in JobSet /\ job' # Idle
      /\ job'.step = "copied" /\ job'.then = job.then /\ job'.source = job.source
      /\ job'.copy = Live
    BY <1>a DEF CopyDatabase, JobSet, StepNames, Idle
<1>c. Live = Mixed => exposed
    BY <1>0, MixturesAreKnown DEF CopyDatabase, At
<1>1. TypeOK'
    BY <1>0, <1>b DEF TypeOK, CopyDatabase, Opens,
       States, Mixed, NoWal, databaseVars, connectionVars,
       workerVars, counters
<1>2. DatabaseInv'
    BY <1>0, <1>b DEF TypeOK, CopyDatabase, Opens, StepNames,
       States, Mixed, NoWal, Stale, At, Idle, DatabaseInv, StaleIsKnown,
       MixedIsKnown, CurrentIsFresh, databaseVars, connectionVars,
       workerVars, counters
<1>3. BackupInv'
    BY <1>0, <1>a, <1>b, <1>c DEF CopyDatabase, At, BackupInv, BackupsAreWhole, SafetyIsKept,
       SourceIsKnown, CopyIsKnown, SafetyIsNewest, Listed, Verifying, Restoring, databaseVars, connectionVars,
       workerVars, counters
<1> QED
    BY <1>1, <1>2, <1>3 DEF IInv, DatabaseInv, BackupInv

\* What is put in front of a list of whole backups keeps it so.
LEMMA PushBackup ==
    ASSUME NEW files \in Seq(Nat), NEW state \in Nat
    PROVE  /\ <<state>> \o files \in Seq(Nat)
           /\ <<state>> \o files # <<>> /\ (<<state>> \o files)[1] = state
           /\ Listed(<<state>> \o files) = {state} \cup Listed(files)
<1> DEFINE new == <<state>> \o files
<1>1. new \in Seq(Nat) /\ Len(new) = Len(files) + 1 /\ new[1] = state
    OBVIOUS
<1>2. \A i \in 1..Len(files) : new[i + 1] = files[i]
    OBVIOUS
<1>3. \A i \in 1..Len(new) : i = 1 \/ (i - 1 \in 1..Len(files) /\ new[i] = files[i - 1])
    OBVIOUS
<1>4. \A i \in 1..Len(files) : i + 1 \in 1..Len(new)
    BY <1>1
<1>5. Listed(new) \subseteq {state} \cup Listed(files)
    BY <1>1, <1>3 DEF Listed
<1>6. ASSUME NEW i \in 1..Len(files) PROVE files[i] \in Listed(new)
  <2>1. i + 1 \in 1..Len(new) /\ new[i + 1] = files[i]
    BY <1>2, <1>4
  <2> QED
    BY <2>1 DEF Listed
<1>7. state \in Listed(new)
  <2>1. 1 \in 1..Len(new) /\ new[1] = state
    BY <1>1
  <2> QED
    BY <2>1 DEF Listed
<1>8. {state} \cup Listed(files) \subseteq Listed(new)
    BY <1>6, <1>7 DEF Listed
<1> QED
    BY <1>1, <1>5, <1>8

\* Pruning leaves the newest backup and adds none.
LEMMA PruneKeepsNewest ==
    ASSUME NEW files \in Seq(Nat), NEW retention \in Retentions
    PROVE  /\ Kept(files, retention) \in Seq(Nat)
           /\ Listed(Kept(files, retention)) \subseteq Listed(files)
           /\ files # <<>> => /\ Kept(files, retention) # <<>>
                             /\ Kept(files, retention)[1] = files[1]
<1> DEFINE n == IF Len(files) < retention THEN Len(files) ELSE retention
<1> DEFINE kept == SubSeq(files, 1, n)
<1>1. n \in 0..Len(files) /\ (files # <<>> => n >= 1)
    OBVIOUS
<1>2. kept \in Seq(Nat) /\ Len(kept) = n /\ \A i \in 1..n : kept[i] = files[i]
    BY <1>1
<1>3. Listed(kept) \subseteq Listed(files)
    BY <1>1, <1>2 DEF Listed
<1>4. ASSUME files # <<>> PROVE kept # <<>> /\ kept[1] = files[1]
  <2>1. 1 \in 1..n
    BY <1>1, <1>4
  <2>2. kept[1] = files[1]
    BY <1>2, <2>1
  <2>3. Len(kept) # 0
    BY <1>2, <2>1
  <2> HIDE DEF kept
  <2>4. kept # <<>>
    BY <2>3
  <2> QED
    BY <2>2, <2>4
<1>5. Kept(files, retention) = kept
    BY DEF Kept
<1> HIDE DEF kept
<1> QED
    BY <1>2, <1>3, <1>4, <1>5

\* A copy that is put in front of the list of a folder is the newest one there,
\* and leaves the others.
LEMMA ListingKeeps ==
    ASSUME TypeOK, BackupInv, NEW copy \in Nat, NEW folder \in Folders,
           Listing(copy, folder), copy = Mixed => exposed, exposed' = exposed
    PROVE  /\ backups' \in [Folders -> Seq(Nat)]
           /\ backups'[folder] # <<>> /\ backups'[folder][1] = copy
           /\ \A f \in Folders : f # folder => backups'[f] = backups[f]
           /\ \A f \in Folders : Listed(backups[f]) \subseteq Listed(backups'[f])
           /\ copy \in Listed(backups'[folder])
           /\ BackupsAreWhole'
<1>1. backups \in [Folders -> Seq(Nat)] /\ backups' = [backups EXCEPT ![folder] = <<copy>> \o @]
    BY DEF TypeOK, Listing
<1>2. /\ <<copy>> \o backups[folder] \in Seq(Nat)
      /\ <<copy>> \o backups[folder] # <<>> /\ (<<copy>> \o backups[folder])[1] = copy
      /\ Listed(<<copy>> \o backups[folder]) = {copy} \cup Listed(backups[folder])
    BY <1>1, PushBackup
<1> DEFINE new == <<copy>> \o backups[folder]
<1>3. backups'[folder] = new /\ \A f \in Folders : f # folder => backups'[f] = backups[f]
    BY <1>1
<1>4. new \in Seq(Nat) /\ new # <<>> /\ new[1] = copy
      /\ Listed(new) = {copy} \cup Listed(backups[folder])
    BY <1>2
<1> HIDE DEF new
<1>5. backups' \in [Folders -> Seq(Nat)]
    BY <1>1, <1>2
<1>6. ASSUME NEW f \in Folders
      PROVE  /\ Listed(backups[f]) \subseteq Listed(backups'[f])
             /\ Listed(backups'[f]) \subseteq {copy} \cup Listed(backups[f])
  <2>1. CASE f = folder
    BY <1>3, <1>4, <2>1
  <2>2. CASE f # folder
    BY <1>3, <2>2
  <2> QED
    BY <2>1, <2>2
<1>7. BackupsAreWhole'
  <2> SUFFICES ASSUME NEW f \in Folders, Mixed \in Listed(backups'[f])
               PROVE  exposed'
    BY DEF BackupsAreWhole, Listed
  <2>1. Mixed = copy \/ Mixed \in Listed(backups[f])
    BY <1>6
  <2> QED
    BY <2>1 DEF BackupInv, BackupsAreWhole
<1>8. copy \in Listed(backups'[folder])
    BY <1>3, <1>4
<1> QED
    BY <1>3, <1>4, <1>5, <1>6, <1>7, <1>8

\* The copy becomes the newest backup, and that of a restore the safety backup.
LEMMA PublishBackupIInv ==
    ASSUME IInv, PublishBackup
    PROVE  IInv'
<1>0. TypeOK /\ DatabaseInv /\ BackupInv
    BY DEF IInv, DatabaseInv, BackupInv
<1>a. /\ job # Idle /\ job \in JobSet /\ job.copy \in Nat /\ job.directory \in Folders
      /\ job.copy = Mixed => exposed
      /\ exposed' = exposed /\ Listing(job.copy, job.directory)
    BY <1>0 DEF TypeOK, PublishBackup, At, Idle, JobSet, BackupInv, CopyIsKnown
<1>g. Continue(IF job.offsite = NoFolder THEN "pruning" ELSE "sending")
    BY Zenon DEF PublishBackup
<1>b. /\ job' \in JobSet /\ job' # Idle /\ job'.step \in {"sending", "pruning"}
      /\ job'.then = job.then /\ job'.source = job.source /\ job'.copy = job.copy
      /\ job'.directory = job.directory /\ job'.offsite = job.offsite
      /\ job'.step = "sending" => job.offsite # NoFolder
  <2>1. CASE job.offsite = NoFolder
    <3>1. Continue("pruning")
      BY <1>g, <2>1
    <3> QED
      BY <1>0, <1>a, <2>1, <3>1, ContinueJob DEF StepNames
  <2>2. CASE job.offsite # NoFolder
    <3>1. Continue("sending")
      BY <1>g, <2>2
    <3> QED
      BY <1>0, <1>a, <2>2, <3>1, ContinueJob DEF StepNames
  <2> QED
    BY <2>1, <2>2
<1>c. /\ backups' \in [Folders -> Seq(Nat)]
      /\ backups'[job.directory] # <<>> /\ backups'[job.directory][1] = job.copy
      /\ \A f \in Folders : Listed(backups[f]) \subseteq Listed(backups'[f])
      /\ job.copy \in Listed(backups'[job.directory])
      /\ BackupsAreWhole'
    BY <1>0, <1>a, ListingKeeps
<1>d. safety' \in [state : Nat, folder : Folders] \cup {NoSafety}
    BY <1>0, <1>a DEF PublishBackup, TypeOK
<1>e. job.then \in {"idle", "restoring"}
    BY <1>a DEF JobSet
<1>1. TypeOK'
    BY <1>0, <1>b, <1>c, <1>d DEF TypeOK, PublishBackup,
       States, Mixed, NoWal, databaseVars, connectionVars,
       workerVars, counters
<1>2. DatabaseInv'
    BY <1>0, <1>b DEF TypeOK, PublishBackup, StepNames,
       States, Mixed, NoWal, Stale, At, Idle, DatabaseInv, StaleIsKnown,
       MixedIsKnown, CurrentIsFresh, databaseVars, connectionVars,
       workerVars, counters
<1>4. SafetyIsKept'
  <2>1. CASE job.then = "restoring"
    <3>1. safety' = [state |-> job.copy, folder |-> job.directory]
      BY <2>1 DEF PublishBackup
    <3> QED
      BY <1>c, <3>1 DEF SafetyIsKept, Listed
  <2>2. CASE job.then = "idle"
    <3>1. safety' = safety
      BY <2>2 DEF PublishBackup
    <3>2. SUFFICES ASSUME safety # NoSafety
                   PROVE  safety.state \in Listed(backups'[safety.folder])
      BY <3>1 DEF SafetyIsKept, Listed
    <3>3. safety.folder \in Folders /\ safety.state \in Listed(backups[safety.folder])
      BY <1>0, <3>2 DEF TypeOK, BackupInv, SafetyIsKept
    <3> QED
      BY <1>c, <3>3
  <2> QED
    BY <1>e, <2>1, <2>2
<1>5. SourceIsKnown' /\ CopyIsKnown'
    BY <1>0, <1>a, <1>b DEF PublishBackup, At, BackupInv, SourceIsKnown, CopyIsKnown,
       Restoring
<1>6. SafetyIsNewest'
    BY <1>b, <1>c DEF PublishBackup, SafetyIsNewest
<1>3. BackupInv'
    BY <1>c, <1>4, <1>5, <1>6 DEF BackupInv
<1> QED
    BY <1>1, <1>2, <1>3 DEF IInv, DatabaseInv, BackupInv

\* The off-site copy is of the backup; the safety backup stays the newest of its folder.
LEMMA CopyToOffsiteIInv ==
    ASSUME IInv, CopyToOffsite
    PROVE  IInv'
<1>0. TypeOK /\ DatabaseInv /\ BackupInv
    BY DEF IInv, DatabaseInv, BackupInv
<1>a. /\ job # Idle /\ job \in JobSet /\ job.copy \in Nat /\ job.offsite \in Folders
      /\ job.copy = Mixed => exposed
      /\ exposed' = exposed /\ Listing(job.copy, job.offsite)
    BY <1>0 DEF TypeOK, CopyToOffsite, At, Idle, JobSet, BackupInv, CopyIsKnown
<1>b. /\ job' \in JobSet /\ job' # Idle /\ job'.step = "pruning"
      /\ job'.then = job.then /\ job'.source = job.source /\ job'.copy = job.copy
      /\ job'.directory = job.directory /\ job'.offsite = job.offsite
    BY <1>0, <1>a, ContinueJob DEF CopyToOffsite, StepNames
<1>c. /\ backups' \in [Folders -> Seq(Nat)]
      /\ backups'[job.offsite] # <<>> /\ backups'[job.offsite][1] = job.copy
      /\ \A f \in Folders : f # job.offsite => backups'[f] = backups[f]
      /\ \A f \in Folders : Listed(backups[f]) \subseteq Listed(backups'[f])
      /\ BackupsAreWhole'
  <2>1. job.copy \in Nat /\ job.offsite \in Folders
    BY <1>a
  <2>2. Listing(job.copy, job.offsite) /\ (job.copy = Mixed => exposed) /\ exposed' = exposed
    BY <1>a
  <2> DEFINE folder == job.offsite
  <2>3. /\ backups' \in [Folders -> Seq(Nat)]
        /\ backups'[folder] # <<>> /\ backups'[folder][1] = job.copy
        /\ \A f \in Folders : f # folder => backups'[f] = backups[f]
        /\ \A f \in Folders : Listed(backups[f]) \subseteq Listed(backups'[f])
        /\ BackupsAreWhole'
    <3> HIDE DEF folder
    <3>1. folder \in Folders /\ Listing(job.copy, folder)
      BY <2>1, <2>2 DEF folder
    <3>2. backups' \in [Folders -> Seq(Nat)] /\ BackupsAreWhole'
      BY <1>0, <2>1, <2>2, <3>1, ListingKeeps
    <3>3. backups'[folder] # <<>> /\ backups'[folder][1] = job.copy
      BY <1>0, <2>1, <2>2, <3>1, ListingKeeps
    <3>4. \A f \in Folders : f # folder => backups'[f] = backups[f]
      BY <1>0, <2>1, <2>2, <3>1, ListingKeeps
    <3>5. \A f \in Folders : Listed(backups[f]) \subseteq Listed(backups'[f])
      BY <1>0, <2>1, <2>2, <3>1, ListingKeeps
    <3> QED
      BY <3>2, <3>3, <3>4, <3>5
  <2> QED
    BY <2>3
<1>d. job.directory \in Folders /\ safety' = safety
    BY <1>a DEF JobSet, CopyToOffsite
<1>1. TypeOK'
    BY <1>0, <1>b, <1>c, <1>d DEF TypeOK, CopyToOffsite,
       States, Mixed, NoWal, databaseVars, connectionVars,
       workerVars, counters
<1>2. DatabaseInv'
    BY <1>0, <1>b DEF TypeOK, CopyToOffsite, StepNames,
       States, Mixed, NoWal, Stale, At, Idle, DatabaseInv, StaleIsKnown,
       MixedIsKnown, CurrentIsFresh, databaseVars, connectionVars,
       workerVars, counters
<1>4. SafetyIsKept'
  <2>1. SUFFICES ASSUME safety # NoSafety
                 PROVE  safety.state \in Listed(backups'[safety.folder])
    BY <1>d DEF SafetyIsKept, Listed
  <2>2. safety.folder \in Folders /\ safety.state \in Listed(backups[safety.folder])
    BY <1>0, <2>1 DEF TypeOK, BackupInv, SafetyIsKept
  <2> QED
    BY <1>c, <2>2
<1>5. SourceIsKnown' /\ CopyIsKnown'
    BY <1>0, <1>a, <1>b DEF CopyToOffsite, At, BackupInv, SourceIsKnown, CopyIsKnown,
       Restoring
<1>6. SafetyIsNewest'
  <2>1. SUFFICES ASSUME job.then = "restoring"
                 PROVE  /\ safety = [state |-> job.copy, folder |-> job.directory]
                        /\ backups'[job.directory] # <<>>
                        /\ backups'[job.directory][1] = job.copy
    BY <1>b, <1>d DEF SafetyIsNewest
  <2>2. /\ safety = [state |-> job.copy, folder |-> job.directory]
        /\ backups[job.directory] # <<>> /\ backups[job.directory][1] = job.copy
    BY <1>0, <1>a, <2>1 DEF BackupInv, SafetyIsNewest, CopyToOffsite, At, Verifying
  <2> QED
    BY <1>c, <1>d, <2>2
<1>3. BackupInv'
    BY <1>c, <1>4, <1>5, <1>6 DEF BackupInv
<1> QED
    BY <1>1, <1>2, <1>3 DEF IInv, DatabaseInv, BackupInv

\* Pruning spares the newest backup, which is the safety backup of a restore.
LEMMA PruneBackupsIInv ==
    ASSUME IInv, PruneBackups
    PROVE  IInv'
<1>0. TypeOK /\ DatabaseInv /\ BackupInv
    BY DEF IInv, DatabaseInv, BackupInv
<1>a. /\ job # Idle /\ job \in JobSet /\ job.retention \in Retentions
      /\ job.then \in {"idle", "restoring"} /\ job.directory \in Folders
    BY <1>0 DEF TypeOK, PruneBackups, At, Idle, JobSet
<1>b. \/ job.then = "idle" /\ job' = Idle
      \/ /\ job.then = "restoring" /\ job' \in JobSet /\ job' # Idle /\ job'.step = "restoring"
         /\ job'.then = job.then /\ job'.source = job.source /\ job'.copy = job.copy
         /\ job'.directory = job.directory
  <2>1. CASE job.then = "idle"
    BY <2>1 DEF PruneBackups
  <2>2. CASE job.then = "restoring"
    BY <1>0, <1>a, <2>2, ContinueJob DEF PruneBackups, StepNames
  <2> QED
    BY <1>a, <2>1, <2>2
<1>c. ASSUME NEW f \in Folders
      PROVE  /\ backups'[f] \in Seq(Nat)
             /\ Listed(backups'[f]) \subseteq Listed(backups[f])
             /\ backups[f] # <<>> => backups'[f] # <<>> /\ backups'[f][1] = backups[f][1]
  <2>1. backups[f] \in Seq(Nat)
    BY <1>0 DEF TypeOK
  <2>2. backups'[f] = Kept(backups[f], job.retention) \/ backups'[f] = backups[f]
    BY DEF PruneBackups
  <2>3. CASE backups'[f] = Kept(backups[f], job.retention)
    BY <1>a, <2>1, <2>3, PruneKeepsNewest
  <2>4. CASE backups'[f] = backups[f]
    BY <2>1, <2>4
  <2> QED
    BY <2>2, <2>3, <2>4
<1>d. backups' \in [Folders -> Seq(Nat)]
  <2>1. backups' = [f \in Folders |-> backups'[f]]
    BY DEF PruneBackups
  <2> QED
    BY <1>c, <2>1
<1>e. safety' \in [state : Nat, folder : Folders] \cup {NoSafety}
    BY <1>0 DEF PruneBackups, TypeOK
<1>f. job.then = "restoring"
        => /\ safety = [state |-> job.copy, folder |-> job.directory] /\ safety' = safety
           /\ backups'[job.directory] # <<>> /\ backups'[job.directory][1] = job.copy
  <2> SUFFICES ASSUME job.then = "restoring"
               PROVE  /\ safety = [state |-> job.copy, folder |-> job.directory]
                      /\ safety' = safety
                      /\ backups'[job.directory] # <<>> /\ backups'[job.directory][1] = job.copy
    OBVIOUS
  <2>1. /\ safety = [state |-> job.copy, folder |-> job.directory]
        /\ backups[job.directory] # <<>> /\ backups[job.directory][1] = job.copy
    BY <1>0, <1>a DEF BackupInv, SafetyIsNewest, PruneBackups, At, Verifying
  <2>2. safety' = safety
    BY DEF PruneBackups
  <2> QED
    BY <1>a, <1>c, <2>1, <2>2
<1>1. TypeOK'
    BY <1>0, <1>b, <1>d, <1>e DEF TypeOK, PruneBackups,
       States, Mixed, NoWal, databaseVars, connectionVars,
       workerVars, counters
<1>2. DatabaseInv'
    BY <1>0, <1>b DEF TypeOK, PruneBackups, StepNames,
       States, Mixed, NoWal, Stale, At, Idle, DatabaseInv, StaleIsKnown,
       MixedIsKnown, CurrentIsFresh, databaseVars, connectionVars,
       workerVars, counters
<1>4. BackupsAreWhole'
  <2> SUFFICES ASSUME NEW f \in Folders, Mixed \in Listed(backups'[f])
               PROVE  exposed'
    BY DEF BackupsAreWhole, Listed
  <2>1. Mixed \in Listed(backups[f])
    BY <1>c
  <2> QED
    BY <1>0, <2>1 DEF BackupInv, BackupsAreWhole, PruneBackups
<1>5. SafetyIsKept'
  <2>1. CASE job.then = "idle"
    BY <2>1 DEF PruneBackups, SafetyIsKept
  <2>2. CASE job.then = "restoring"
    <3> DEFINE files == backups'[job.directory]
    <3>1. /\ files \in Seq(Nat) /\ files # <<>> /\ files[1] = job.copy
          /\ safety' = [state |-> job.copy, folder |-> job.directory]
      BY <1>a, <1>c, <1>f, <2>2
    <3>2. 1 \in 1..Len(files)
      <4> HIDE DEF files
      <4> QED
        BY <3>1
    <3>3. job.copy \in Listed(files)
      <4> HIDE DEF files
      <4> QED
        BY <3>1, <3>2 DEF Listed
    <3> QED
      BY <3>1, <3>3 DEF SafetyIsKept, Listed
  <2> QED
    BY <1>a, <2>1, <2>2
<1>6. SourceIsKnown' /\ CopyIsKnown'
    BY <1>0, <1>a, <1>b DEF PruneBackups, At, BackupInv, SourceIsKnown, CopyIsKnown,
       Restoring
<1>7. SafetyIsNewest'
    BY <1>b, <1>f DEF SafetyIsNewest
<1>3. BackupInv'
    BY <1>4, <1>5, <1>6, <1>7 DEF BackupInv
<1> QED
    BY <1>1, <1>2, <1>3 DEF IInv, DatabaseInv, BackupInv

\* Closing the last connection brings the log into its own file.
LEMMA DisposeEngineIInv ==
    ASSUME IInv, DisposeEngine
    PROVE  IInv'
<1>0. TypeOK /\ DatabaseInv /\ BackupInv
    BY DEF IInv, DatabaseInv, BackupInv
<1>a. job # Idle /\ job \in JobSet
    BY <1>0 DEF TypeOK, DisposeEngine, At, Idle
<1>b. /\ job' \in JobSet /\ job' # Idle /\ job'.step = "removing"
      /\ job'.then = job.then /\ job'.source = job.source /\ job'.copy = job.copy
      /\ job'.directory = job.directory
    BY <1>0, <1>a, ContinueJob DEF DisposeEngine, StepNames
<1>c. job.then = "restoring" /\ job.source \in Nat /\ (job.source = Mixed => exposed)
    BY <1>0, <1>a DEF DisposeEngine, At, BackupInv, SourceIsKnown, Restoring, JobSet
<1>1. TypeOK'
    BY <1>0, <1>b, <1>c DEF TypeOK, DisposeEngine, Checkpointed,
       States, Mixed, NoWal, databaseVars, connectionVars,
       workerVars, counters
<1>2. DatabaseInv'
    BY <1>0, <1>b DEF TypeOK, DisposeEngine, Checkpointed, StepNames,
       States, Mixed, NoWal, Stale, At, Idle, DatabaseInv, StaleIsKnown,
       MixedIsKnown, CurrentIsFresh, databaseVars, connectionVars,
       workerVars, counters
<1>3. BackupInv'
    BY <1>0, <1>a, <1>b, <1>c DEF DisposeEngine, At, BackupInv, BackupsAreWhole, SafetyIsKept,
       SourceIsKnown, CopyIsKnown, SafetyIsNewest, Listed, Verifying, Restoring, databaseVars, connectionVars,
       workerVars, counters
<1> QED
    BY <1>1, <1>2, <1>3 DEF IInv, DatabaseInv, BackupInv

\* Without a log there is none to be applied.
LEMMA RemoveSidecarsIInv ==
    ASSUME IInv, RemoveSidecars
    PROVE  IInv'
<1>0. TypeOK /\ DatabaseInv /\ BackupInv
    BY DEF IInv, DatabaseInv, BackupInv
<1>a. job # Idle /\ job \in JobSet
    BY <1>0 DEF TypeOK, RemoveSidecars, At, Idle
<1>b. /\ job' \in JobSet /\ job' # Idle /\ job'.step = "replacing"
      /\ job'.then = job.then /\ job'.source = job.source /\ job'.copy = job.copy
      /\ job'.directory = job.directory
    BY <1>0, <1>a, ContinueJob DEF RemoveSidecars, StepNames
<1>c. job.then = "restoring" /\ job.source \in Nat /\ (job.source = Mixed => exposed)
    BY <1>0, <1>a DEF RemoveSidecars, At, BackupInv, SourceIsKnown, Restoring, JobSet
<1>1. TypeOK'
    BY <1>0, <1>b, <1>c DEF TypeOK, RemoveSidecars, Orphans,
       States, Mixed, NoWal, databaseVars, connectionVars,
       workerVars, counters
<1>2. DatabaseInv'
    BY <1>0, <1>b DEF TypeOK, RemoveSidecars, Orphans, StepNames,
       States, Mixed, NoWal, Stale, At, Idle, DatabaseInv, StaleIsKnown,
       MixedIsKnown, CurrentIsFresh, databaseVars, connectionVars,
       workerVars, counters
<1>3. BackupInv'
    BY <1>0, <1>a, <1>b, <1>c DEF RemoveSidecars, At, BackupInv, BackupsAreWhole, SafetyIsKept,
       SourceIsKnown, CopyIsKnown, SafetyIsNewest, Listed, Verifying, Restoring, databaseVars, connectionVars,
       workerVars, counters
<1> QED
    BY <1>1, <1>2, <1>3 DEF IInv, DatabaseInv, BackupInv

\* A log that is there now is another file's; every connection is of that file.
LEMMA ReplaceDatabaseIInv ==
    ASSUME IInv, ReplaceDatabase
    PROVE  IInv'
<1>0. TypeOK /\ DatabaseInv /\ BackupInv
    BY DEF IInv, DatabaseInv, BackupInv
<1>a. job # Idle /\ job \in JobSet
    BY <1>0 DEF TypeOK, ReplaceDatabase, At, Idle
<1>b. /\ job' \in JobSet /\ job' # Idle /\ job'.step = "removingAgain"
      /\ job'.then = job.then /\ job'.source = job.source /\ job'.copy = job.copy
      /\ job'.directory = job.directory
    BY <1>0, <1>a, ContinueJob DEF ReplaceDatabase, StepNames
<1>c. job.then = "restoring" /\ job.source \in Nat /\ (job.source = Mixed => exposed)
    BY <1>0, <1>a DEF ReplaceDatabase, At, BackupInv, SourceIsKnown, Restoring, JobSet
<1>1. TypeOK'
    BY <1>0, <1>b, <1>c DEF TypeOK, ReplaceDatabase, Orphans,
       States, Mixed, NoWal, databaseVars, connectionVars,
       workerVars, counters
<1>2. DatabaseInv'
    BY <1>0, <1>b, <1>c DEF TypeOK, ReplaceDatabase, Orphans, StepNames,
       States, Mixed, NoWal, Stale, At, Idle, DatabaseInv, StaleIsKnown,
       MixedIsKnown, CurrentIsFresh, databaseVars, connectionVars,
       workerVars, counters
<1>3. BackupInv'
    BY <1>0, <1>a, <1>b, <1>c DEF ReplaceDatabase, At, BackupInv, BackupsAreWhole, SafetyIsKept,
       SourceIsKnown, CopyIsKnown, SafetyIsNewest, Listed, Verifying, Restoring, databaseVars, connectionVars,
       workerVars, counters
<1> QED
    BY <1>1, <1>2, <1>3 DEF IInv, DatabaseInv, BackupInv

\* The second removal takes away a log of the replaced file.
LEMMA RemoveSidecarsAgainIInv ==
    ASSUME IInv, RemoveSidecarsAgain
    PROVE  IInv'
<1>0. TypeOK /\ DatabaseInv /\ BackupInv
    BY DEF IInv, DatabaseInv, BackupInv
<1>a. job # Idle /\ job \in JobSet
    BY <1>0 DEF TypeOK, RemoveSidecarsAgain, At, Idle
<1>b. /\ job' \in JobSet /\ job' # Idle /\ job'.step = "reloading"
      /\ job'.then = job.then /\ job'.source = job.source /\ job'.copy = job.copy
      /\ job'.directory = job.directory
    BY <1>0, <1>a, ContinueJob DEF RemoveSidecarsAgain, StepNames
<1>c. job.then = "restoring" /\ job.source \in Nat /\ (job.source = Mixed => exposed)
    BY <1>0, <1>a DEF RemoveSidecarsAgain, At, BackupInv, SourceIsKnown, Restoring, JobSet
<1>1. TypeOK'
    BY <1>0, <1>b, <1>c DEF TypeOK, RemoveSidecarsAgain, Orphans,
       States, Mixed, NoWal, databaseVars, connectionVars,
       workerVars, counters
<1>2. DatabaseInv'
    BY <1>0, <1>b DEF TypeOK, RemoveSidecarsAgain, Orphans, StepNames,
       States, Mixed, NoWal, Stale, At, Idle, DatabaseInv, StaleIsKnown,
       MixedIsKnown, CurrentIsFresh, databaseVars, connectionVars,
       workerVars, counters
<1>3. BackupInv'
    BY <1>0, <1>a, <1>b, <1>c DEF RemoveSidecarsAgain, At, BackupInv, BackupsAreWhole, SafetyIsKept,
       SourceIsKnown, CopyIsKnown, SafetyIsNewest, Listed, Verifying, Restoring, databaseVars, connectionVars,
       workerVars, counters
<1> QED
    BY <1>1, <1>2, <1>3 DEF IInv, DatabaseInv, BackupInv

\* The commit after a restore goes into a log of the new file, or nowhere.
LEMMA ReloadRuntimeDatabaseIInv ==
    ASSUME IInv, ReloadRuntimeDatabase
    PROVE  IInv'
<1>a. worker' \in BOOLEAN
    BY DEF IInv, TypeOK, ReloadRuntimeDatabase, Settings
<1>0. TypeOK /\ DatabaseInv /\ BackupInv
    BY DEF IInv, DatabaseInv, BackupInv
<1>b. idle' \subseteq {"current", "orphan"} /\ exposed' = exposed
    BY <1>0 DEF TypeOK, ReloadRuntimeDatabase
<1>c. job' = Idle /\ UNCHANGED <<held, disposed, backups, settings, counters, safety>>
    BY DEF ReloadRuntimeDatabase
<1>d. /\ commits' \in States /\ file' \in Nat /\ inode' \in States
      /\ wal' \in [of : States, state : Nat] \cup {NoWal}
    BY <1>0, LaterStates DEF TypeOK, ReloadRuntimeDatabase, Writes, GoesNowhere, States,
       Mixed, databaseVars
<1>1. TypeOK'
    BY <1>a, <1>b, <1>c, <1>d, <1>0 DEF TypeOK, ReloadRuntimeDatabase, Writes, GoesNowhere,
       States, Mixed, NoWal, databaseVars, connectionVars,
       workerVars, counters
<1>2. DatabaseInv'
    BY <1>a, <1>0, LaterStates, MixturesAreKnown DEF TypeOK, ReloadRuntimeDatabase, Writes, GoesNowhere,
       States, Mixed, NoWal, Stale, At, Idle, DatabaseInv, StaleIsKnown,
       MixedIsKnown, CurrentIsFresh, databaseVars, connectionVars,
       workerVars, counters
<1>3. BackupInv'
    BY <1>0, NoJob DEF ReloadRuntimeDatabase, databaseVars, connectionVars,
       workerVars, counters
<1> QED
    BY <1>1, <1>2, <1>3 DEF IInv, DatabaseInv, BackupInv

\* A step that raises leaves what it has done, and notes an exposed log.
LEMMA JobFailsIInv ==
    ASSUME IInv, JobFails
    PROVE  IInv'
<1>a. worker' \in BOOLEAN
    BY DEF IInv, TypeOK, JobFails, WorkerGoesOn, Settings
<1>0. TypeOK /\ DatabaseInv /\ BackupInv
    BY DEF IInv, DatabaseInv, BackupInv
<1>1. TypeOK'
    BY <1>a, <1>0, LaterStates DEF TypeOK, JobFails,
       States, Mixed, NoWal, databaseVars, connectionVars,
       workerVars, counters
<1>2. DatabaseInv'
    BY <1>a, <1>0, LaterStates DEF TypeOK, JobFails,
       States, Mixed, NoWal, Stale, At, Idle, DatabaseInv, StaleIsKnown,
       MixedIsKnown, CurrentIsFresh, databaseVars, connectionVars,
       workerVars, counters
<1>3. BackupInv'
    BY <1>0, NoJob DEF JobFails, databaseVars, connectionVars,
       workerVars, counters
<1> QED
    BY <1>1, <1>2, <1>3 DEF IInv, DatabaseInv, BackupInv

\* A process that is killed leaves what it has done, and opens what it finds.
LEMMA RestartIInv ==
    ASSUME IInv, Restart
    PROVE  IInv'
<1>a. worker' \in BOOLEAN
    BY DEF IInv, TypeOK, Restart, Settings
<1>0. TypeOK /\ DatabaseInv /\ BackupInv
    BY DEF IInv, DatabaseInv, BackupInv
<1>c. /\ held' = "none" /\ disposed' = FALSE /\ idle' = {} /\ job' = Idle
      /\ failures' = failures + 1
      /\ UNCHANGED <<commits, inode, backups, settings, restores, changes, safety>>
    BY DEF Restart
<1>d. file' \in Nat /\ wal' \in [of : States, state : Nat] \cup {NoWal}
    BY <1>0 DEF TypeOK, Restart, Opens, Mixed
<1>1. TypeOK'
  <2>1. /\ commits' \in States /\ inode' \in States /\ backups' \in [Folders -> Seq(Nat)]
        /\ settings' \in Settings /\ safety' \in [state : Nat, folder : Folders] \cup {NoSafety}
    BY <1>c, <1>0 DEF TypeOK
  <2>2. restores' \in Nat /\ changes' \in Nat /\ failures' \in Nat
    BY <1>c, <1>0 DEF TypeOK
  <2>3. /\ held' \in {"none", "current", "orphan"} /\ disposed' \in BOOLEAN
        /\ idle' \subseteq {"current", "orphan"} /\ job' \in JobSet \cup {Idle}
    BY <1>c
  <2>4. exposed' \in BOOLEAN
    BY <1>0 DEF TypeOK, Restart
  <2> QED
    BY <1>a, <1>d, <2>1, <2>2, <2>3, <2>4 DEF TypeOK
<1>2. DatabaseInv'
    BY <1>a, <1>0, LaterStates DEF TypeOK, Restart, Opens,
       States, Mixed, NoWal, Stale, At, Idle, DatabaseInv, StaleIsKnown,
       MixedIsKnown, CurrentIsFresh, databaseVars, connectionVars,
       workerVars, counters
<1>3. BackupInv'
    BY <1>0, NoJob DEF Restart, databaseVars, connectionVars,
       workerVars, counters
<1> QED
    BY <1>1, <1>2, <1>3 DEF IInv, DatabaseInv, BackupInv

\* Every step, and stuttering, preserves the inductive invariant.
LEMMA NextIInv == IInv /\ [Next]_vars => IInv'
<1> SUFFICES ASSUME IInv, [Next]_vars PROVE IInv'
    OBVIOUS
<1>1. CASE BeginRequest
    BY <1>1, BeginRequestIInv
<1>2. CASE RequestCommits
    BY <1>2, RequestCommitsIInv
<1>3. CASE EndRequest
    BY <1>3, EndRequestIInv
<1>4. CASE Checkpoint
    BY <1>4, CheckpointIInv
<1>5. CASE ResetDatabaseAndCache
    BY <1>5, ResetDatabaseAndCacheIInv
<1>6. CASE DownloadBackup
    BY <1>6, DownloadBackupIInv
<1>7. CASE \E new \in Settings : SaveBackupSettings(new)
    BY <1>7, SaveBackupSettingsIInv
<1>8. CASE \E source \in Restorable : StartRestore(source)
    BY <1>8, StartRestoreIInv
<1>9. CASE ScheduledBackup
    BY <1>9, ScheduledBackupIInv
<1>10. CASE CopyDatabase
    BY <1>10, CopyDatabaseIInv
<1>11. CASE PublishBackup
    BY <1>11, PublishBackupIInv
<1>12. CASE CopyToOffsite
    BY <1>12, CopyToOffsiteIInv
<1>13. CASE PruneBackups
    BY <1>13, PruneBackupsIInv
<1>14. CASE DisposeEngine
    BY <1>14, DisposeEngineIInv
<1>15. CASE RemoveSidecars
    BY <1>15, RemoveSidecarsIInv
<1>16. CASE ReplaceDatabase
    BY <1>16, ReplaceDatabaseIInv
<1>17. CASE RemoveSidecarsAgain
    BY <1>17, RemoveSidecarsAgainIInv
<1>18. CASE ReloadRuntimeDatabase
    BY <1>18, ReloadRuntimeDatabaseIInv
<1>19. CASE JobFails
    BY <1>19, JobFailsIInv
<1>20. CASE Restart
    BY <1>20, RestartIInv
<1>21. CASE UNCHANGED vars
  <2>1. TypeOK'
    BY <1>21 DEF IInv, TypeOK, vars, databaseVars, connectionVars, workerVars,
       counters
  <2>2. DatabaseInv'
    BY <1>21 DEF IInv, DatabaseInv, StaleIsKnown, MixedIsKnown, CurrentIsFresh,
       Stale, At, vars, databaseVars, connectionVars, workerVars, counters
  <2>3. BackupInv'
    BY <1>21, SameBackups DEF IInv, BackupInv, vars, databaseVars, connectionVars,
       workerVars, counters
  <2> QED
    BY <2>1, <2>2, <2>3 DEF IInv, DatabaseInv, BackupInv
<1> QED
    BY <1>1, <1>2, <1>3, <1>4, <1>5, <1>6, <1>7, <1>8, <1>9, <1>10, <1>11,
       <1>12, <1>13, <1>14, <1>15, <1>16, <1>17, <1>18, <1>19, <1>20, <1>21
       DEF Next, Requests, JobSteps

\* The inductive invariant holds in every reachable state.
LEMMA Inductive == Spec => []IInv
<1>1. Init => IInv
    BY InitIInv
<1>2. IInv /\ [Next]_vars => IInv'
    BY NextIInv
<1> QED
    BY <1>1, <1>2, PTL DEF Spec

-----------------------------------------------------------------------------
\* Type correctness of the backup, restore and reset code.
THEOREM TypeCorrect == Spec => []TypeOK
<1>1. IInv => TypeOK
    BY DEF IInv
<1> QED
    BY <1>1, Inductive, PTL

\* No backup in any folder is a mixture of two databases, whatever the settings
\* name as folders and whatever verify_sqlite_backup accepts, unless a restored
\* database was opened before its log was removed for the second time.
THEOREM ListedBackupsAreWhole == Spec => []BackupsAreWhole
<1>1. IInv => BackupsAreWhole
    BY DEF IInv
<1> QED
    BY <1>1, Inductive, PTL

\* The state restore_sqlite_backup_file has saved before it touches the
\* database survives every failure until a later backup is complete.
THEOREM SafetyBackupSurvives == Spec => []SafetyIsKept
<1>1. IInv => SafetyIsKept
    BY DEF IInv
<1> QED
    BY <1>1, Inductive, PTL

\* The log of the replaced database is applied to the restored one only when
\* that is opened before the second removal of the log.
THEOREM RestoredIsWhole == Spec => []DatabaseIsWhole
<1>1. IInv => DatabaseIsWhole
    BY MixturesAreKnown DEF IInv, DatabaseInv, DatabaseIsWhole
<1> QED
    BY <1>1, Inductive, PTL
=============================================================================
