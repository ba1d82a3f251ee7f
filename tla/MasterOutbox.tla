---------------------------- MODULE MasterOutbox ----------------------------
(***************************************************************************)
(* Delivery of the durable outbox of a Lite node to Setuora Master         *)
(* (app/services/master_sync.py, app/routers/lite_sync.py).                *)
(*                                                                         *)
(* Events are rows of master_outbox_events.  A row's id is an              *)
(* AUTOINCREMENT value taken inside the transaction that writes the        *)
(* business change, and is the sequence number Master expects.  Several    *)
(* pushers run push_pending_events at once: the background worker thread   *)
(* and the request threads of POST /sync and POST /connect.  Nothing but   *)
(* the rows themselves coordinates them.                                   *)
(*                                                                         *)
(* Granularity.  A step is one statement or one commit against SQLite:     *)
(* a SELECT sees the last commit, a commit is atomic and serialised, and   *)
(* between two of them any other thread may run.  The ORM session writes   *)
(* back only the columns whose value differs from the one it loaded, and   *)
(* never checks that the row still holds the loaded values (see Flush).    *)
(***************************************************************************)
EXTENDS Integers, FiniteSets

CONSTANTS
    Pushers,       \* threads that run push_pending_events
    Workers,       \* those of them that are the background worker
    MaxEvents,     \* bound: events ever committed
    MaxFaults,     \* bound: crashes, losses, errors, stalls, corruptions and
                   \* operator interventions (pauses, manual retries)
    Limit,         \* the "limit" argument: events sent by one call
    EventKinds,    \* aggregate types of the events enqueued
    MasterErrors   \* error answers of Master: HTTP status and error code

ASSUME WorkersAssumption == Workers \subseteq Pushers
ASSUME MaxEventsAssumption == MaxEvents \in Nat \ {0}
ASSUME MaxFaultsAssumption == MaxFaults \in Nat
ASSUME LimitAssumption == Limit \in Nat \ {0}
ASSUME EventKindsAssumption == EventKinds \subseteq {"BATCH", "RECEIPT", "OTHER"}
ASSUME MasterErrorsAssumption == MasterErrors \subseteq [status : 300..599, code : STRING]

VARIABLES
    top,        \* highest committed event id (the AUTOINCREMENT counter)
    kind,       \* aggregate_type of each event
    outbox,     \* id -> row: status, next_attempt_at, sending_at
    intact,     \* ids whose payload still matches payload_sha256
    document,   \* the batch status / receipt.synced_at an event reports to
    enabled,    \* MASTER_SYNC_ENABLED
    phase,      \* where each pusher is in push_pending_events
    target,     \* the event each pusher works on
    loaded,     \* the row as the pusher's session last loaded it
    sentCount,  \* sent_count of each running call
    post,       \* the HTTP exchange of each pusher
    review,     \* ids and loaded rows held by retry_failed_event handlers
    late,       \* requests nobody waits for that may still reach Master
    masterLast, \* Master's cursor: it has recorded events 1..masterLast
    faults      \* faults and interventions so far

rowVars == <<top, kind, outbox, intact, document>>
pusherVars == <<phase, target, loaded, sentCount, post>>
vars == <<top, kind, outbox, intact, document, enabled, phase, target, loaded,
          sentCount, post, review, late, masterLast, faults>>

-----------------------------------------------------------------------------
Ids == 1..MaxEvents
Kinds == {"BATCH", "RECEIPT", "OTHER"}
Statuses == {"ABSENT", "PENDING", "SENDING", "SENT", "FAILED"}
DocStatuses == {"NONE", "PENDING_SYNC", "SYNCING", "SYNCED", "FAILED",
                "UNCONFIRMED", "CONFIRMED"}

\* next_attempt_at is NULL, in the past or in the future; sending_at is NULL,
\* within the claim timeout, or older than it.
Rows == [status : Statuses, next : {"null", "due", "later"},
         since : {"null", "fresh", "stale"}]

\* What a session needs of a row it has loaded: Flush only asks whether a
\* loaded timestamp is NULL.
LoadedRows == [status : Statuses, next : {"null", "set"},
               since : {"null", "set"}]
Load(row) == [status |-> row.status,
              next |-> IF row.next = "null" THEN "null" ELSE "set",
              since |-> IF row.since = "null" THEN "null" ELSE "set"]

absentRow == [status |-> "ABSENT", next |-> "null", since |-> "null"]
newRow == [status |-> "PENDING", next |-> "null", since |-> "null"]

Phases == {"idle", "loop", "stale", "recovered", "ready", "claimed", "posted"}

\* What the HTTP exchange has come to: no exchange, waiting for an answer, an
\* acknowledgement, an error answer, or an exception raised by the client:
\* "network" (URLError, timeout, OSError), "mangled" (a 2xx body that is not
\* the acknowledgement of this event), "refused" (redirect, oversized body).
Reply(status, code) == [status |-> status, code |-> code]
NoReply == Reply(0, "none")
Waiting == Reply(0, "waiting")
Acknowledged == Reply(200, "")
SequenceGap == Reply(409, "SEQUENCE_GAP")
Spoilings == {"network", "mangled", "refused"}
Replies == MasterErrors \cup {NoReply, Waiting, Acknowledged, SequenceGap}
                        \cup {Reply(0, how) : how \in Spoilings}

InitialDocument(k) == CASE k = "BATCH" -> "PENDING_SYNC"
                        [] k = "RECEIPT" -> "UNCONFIRMED"
                        [] OTHER -> "NONE"

-----------------------------------------------------------------------------
(***************************************************************************)
(* The unit of work of the ORM session: db is the row as stored, old the   *)
(* row as loaded, new the row as assigned.  An assignment of the loaded    *)
(* value is no change and is not written.  A new timestamp always differs  *)
(* from a loaded one; NULL over NULL is no change.                         *)
(***************************************************************************)
Flush(db, old, new) ==
    [status |-> IF new.status = old.status THEN db.status ELSE new.status,
     next |-> IF new.next = "null" /\ old.next = "null"
                 THEN db.next ELSE new.next,
     since |-> IF new.since = "null" /\ old.since = "null"
                  THEN db.since ELSE new.since]

\* _http_status_is_retryable
Retryable(status, code) ==
    IF status \in {409, 412}
       THEN status = 409 /\ code = "CONCURRENT_EVENT_CONFLICT"
       ELSE status \in {408, 425, 429} \/ status \in {401, 403} \/ status >= 500

\* A 2xx answer that _validate_event_acknowledgement accepts.  (Variant: any
\* answer will do.)
AnyAnswerSucceeds(r) == r.status > 0
Succeeds(r) == r = Acknowledged

\* Which exceptions and answers of the exchange push_pending_events retries.
ReplyIsRetryable(r) ==
    \/ r \in {Reply(0, "network"), Reply(0, "mangled")}
    \/ r.status >= 300 /\ Retryable(r.status, r.code)

\* Variant: rows in delivery are passed over.
OldestUnclaimed(e) ==
    /\ e <= top
    /\ outbox[e].status \notin {"SENT", "SENDING"}
    /\ \A k \in 1..(e - 1) : outbox[k].status \in {"SENT", "SENDING"}

\* _oldest_unsent_event
OldestUnsent(e) ==
    /\ e <= top
    /\ outbox[e].status # "SENT"
    /\ \A k \in 1..(e - 1) : outbox[k].status = "SENT"

\* Variant: a claim never expires.
OwnedForGood(row) == row.status = "SENDING"

\* A FAILED row without a due retry blocks the queue; a fresh SENDING row
\* belongs to somebody else.
Backoff(row) == row.status = "FAILED" /\ row.next # "due"
Owned(row) == row.status = "SENDING" /\ row.since = "fresh"
Interrupted(row) == row.status = "SENDING" /\ row.since # "fresh"

\* What an interrupted delivery becomes: to be sent again at once.  (Variant:
\* it is taken for done.)
RecoveredAsSent == [status |-> "SENT", next |-> "null", since |-> "null"]
Recovered == [status |-> "FAILED", next |-> "due", since |-> "null"]

\* batch.status when the event is claimed, failed or retried
BatchTo(e, s) == [document EXCEPT ![e] = IF kind[e] = "BATCH" THEN s ELSE @]

-----------------------------------------------------------------------------
\* The node has been connected: its inventory baseline is event 1.
Init ==
    /\ top = 1
    /\ kind = [e \in Ids |-> "OTHER"]
    /\ outbox = [e \in Ids |-> IF e = 1 THEN newRow ELSE absentRow]
    /\ intact = Ids
    /\ document = [e \in Ids |-> "NONE"]
    /\ enabled = TRUE
    /\ phase = [p \in Pushers |-> "idle"]
    /\ target = [p \in Pushers |-> 0]
    /\ loaded = [p \in Pushers |-> absentRow]
    /\ sentCount = [p \in Pushers |-> 0]
    /\ post = [p \in Pushers |-> NoReply]
    /\ review = [e \in Ids |-> absentRow]
    /\ late = {}
    /\ masterLast = 0
    /\ faults = 0

\* enqueue_outbox_event, with the commit of the caller's transaction: the id
\* and the business change become visible together or not at all.
EnqueueOutboxEvent(k) ==
    /\ top < MaxEvents
    /\ top' = top + 1
    /\ kind' = [kind EXCEPT ![top + 1] = k]
    /\ outbox' = [outbox EXCEPT ![top + 1] = newRow]
    /\ document' = [document EXCEPT ![top + 1] = InitialDocument(k)]
    /\ UNCHANGED <<intact, enabled, pusherVars, review, late, masterLast, faults>>

-----------------------------------------------------------------------------
(***************************************************************************)
(* push_pending_events                                                     *)
(***************************************************************************)
\* Pusher p is done with its event and goes on with the loop, or returns.
Leave(p, where, count) ==
    /\ phase' = [phase EXCEPT ![p] = where]
    /\ target' = [target EXCEPT ![p] = 0]
    /\ loaded' = [loaded EXCEPT ![p] = absentRow]
    /\ post' = [post EXCEPT ![p] = NoReply]
    /\ sentCount' = [sentCount EXCEPT ![p] = count]

\* The condition of the loop.
UnderLimit(p) == sentCount[p] < Limit

\* The call starts; a paused node returns 0 at once.
StartPush(p) ==
    /\ phase[p] = "idle"
    /\ enabled
    /\ phase' = [phase EXCEPT ![p] = "loop"]
    /\ UNCHANGED <<rowVars, enabled, target, loaded, sentCount, post, review,
                   late, masterLast, faults>>

\* Select the oldest unsent event and decide on the row as selected.
Pick(p, e) ==
    /\ phase[p] = "loop"
    /\ UnderLimit(p)
    /\ OldestUnsent(e)
    /\ ~Owned(outbox[e]) /\ ~Backoff(outbox[e])
    /\ phase' = [phase EXCEPT ![p] = IF Interrupted(outbox[e]) THEN "stale"
                                                               ELSE "ready"]
    /\ target' = [target EXCEPT ![p] = e]
    /\ loaded' = [loaded EXCEPT ![p] = Load(outbox[e])]
    /\ UNCHANGED <<rowVars, enabled, sentCount, post, review, late,
                   masterLast, faults>>

\* The loop ends: nothing unsent, the limit reached, or the first unsent
\* event belongs to another delivery or waits for its retry.
StopPush(p) ==
    /\ phase[p] = "loop"
    /\ \/ ~UnderLimit(p)
       \/ \A e \in Ids : OldestUnsent(e) => Owned(outbox[e]) \/ Backoff(outbox[e])
    /\ Leave(p, "idle", 0)
    /\ UNCHANGED <<rowVars, enabled, review, late, masterLast, faults>>

\* An interrupted delivery is made FAILED and due at once; its batch keeps
\* the status it had.
RecoverInterrupted(p) ==
    /\ phase[p] = "stale"
    /\ outbox' = [outbox EXCEPT ![target[p]] =
                    Flush(@, loaded[p], Recovered)]
    /\ phase' = [phase EXCEPT ![p] = "recovered"]
    /\ UNCHANGED <<top, kind, intact, document, enabled, target, loaded,
                   sentCount, post, review, late, masterLast, faults>>

\* The commit expired the row, so the next access loads it again: another
\* pusher may have moved it, and only a FAILED status is looked at again.
ReloadRecovered(p) ==
    /\ phase[p] = "recovered"
    /\ IF Backoff(outbox[target[p]])
          THEN Leave(p, "idle", 0)
          ELSE /\ loaded' = [loaded EXCEPT ![p] = Load(outbox[target[p]])]
               /\ phase' = [phase EXCEPT ![p] = "ready"]
               /\ UNCHANGED <<target, sentCount, post>>
    /\ UNCHANGED <<rowVars, enabled, review, late, masterLast, faults>>

\* _fail_outbox_event: row and batch in one commit, and the call ends.
FailOutboxEvent(p, retryable) ==
    LET e == target[p]
    IN  /\ outbox' = [outbox EXCEPT ![e] =
                        Flush(@, loaded[p],
                              [status |-> "FAILED", since |-> "null",
                               next |-> IF retryable THEN "later" ELSE "null"])]
        /\ document' = BatchTo(e, "FAILED")
        /\ Leave(p, "idle", 0)

\* The frozen payload no longer matches its hash.
RejectCorrupt(p) ==
    /\ phase[p] = "ready"
    /\ target[p] \notin intact
    /\ FailOutboxEvent(p, FALSE)
    /\ UNCHANGED <<top, kind, intact, enabled, review, late, masterLast, faults>>

\* The row becomes SENDING.  The claim is unconditional: it does not test
\* that the row still has the status it was selected with.
Claim(p) ==
    /\ phase[p] = "ready"
    /\ target[p] \in intact
    /\ outbox' = [outbox EXCEPT ![target[p]] =
                    Flush(@, loaded[p], [status |-> "SENDING", next |-> "null",
                                         since |-> "fresh"])]
    /\ document' = BatchTo(target[p], "SYNCING")
    /\ phase' = [phase EXCEPT ![p] = "claimed"]
    /\ UNCHANGED <<top, kind, intact, enabled, target, loaded, sentCount, post,
                   review, late, masterLast, faults>>

\* Building the request reloads the row, and the request goes out.
PostEvent(p) ==
    /\ phase[p] = "claimed"
    /\ loaded' = [loaded EXCEPT ![p] = Load(outbox[target[p]])]
    /\ post' = [post EXCEPT ![p] = Waiting]
    /\ phase' = [phase EXCEPT ![p] = "posted"]
    /\ UNCHANGED <<rowVars, enabled, target, sentCount, review, late,
                   masterLast, faults>>

\* An error answer, an exception or an unusable acknowledgement.
DeliveryFails(p) ==
    /\ phase[p] = "posted"
    /\ post[p] # Waiting /\ ~Succeeds(post[p])
    /\ FailOutboxEvent(p, ReplyIsRetryable(post[p]))
    /\ UNCHANGED <<top, kind, intact, enabled, review, late, masterLast, faults>>

\* A valid acknowledgement: the row is SENT, the batch SYNCED, the receipt
\* confirmed, and the loop goes on.
DeliverySucceeds(p) ==
    LET e == target[p]
    IN  /\ phase[p] = "posted"
        /\ Succeeds(post[p])
        /\ outbox' = [outbox EXCEPT ![e] =
                        Flush(@, loaded[p], [status |-> "SENT", next |-> "null",
                                             since |-> "null"])]
        /\ document' = [document EXCEPT ![e] =
                          CASE kind[e] = "BATCH" -> "SYNCED"
                            [] kind[e] = "RECEIPT" -> "CONFIRMED"
                            [] OTHER -> @]
        /\ Leave(p, "loop", sentCount[p] + 1)
        /\ UNCHANGED <<top, kind, intact, enabled, review, late, masterLast, faults>>

-----------------------------------------------------------------------------
(***************************************************************************)
(* retry_failed_event: an administrator requeues a FAILED event.  The row  *)
(* is read first and written later, without looking again.                 *)
(***************************************************************************)
OpenRetry(e) ==
    /\ outbox[e].status = "FAILED"
    /\ e \in intact
    /\ review[e] = absentRow /\ faults < MaxFaults
    /\ review' = [review EXCEPT ![e] = Load(outbox[e])]
    /\ faults' = faults + 1
    /\ UNCHANGED <<rowVars, enabled, pusherVars, late, masterLast>>

RetryFailedEvent(e) ==
    /\ review[e] # absentRow
    /\ outbox' = [outbox EXCEPT ![e] = Flush(@, review[e], newRow)]
    /\ document' = BatchTo(e, "PENDING_SYNC")
    /\ review' = [review EXCEPT ![e] = absentRow]
    /\ UNCHANGED <<top, kind, intact, enabled, pusherVars, late, masterLast, faults>>

-----------------------------------------------------------------------------
(***************************************************************************)
(* Master, external: how the code in src/ relies on it.  It records the    *)
(* next sequence, acknowledges again what it has recorded, and refuses a   *)
(* gap.                                                                    *)
(***************************************************************************)
RecordIfNext(e) == masterLast' = IF e = masterLast + 1 THEN e ELSE masterLast

MasterAnswer(e) == IF e <= masterLast + 1 THEN Acknowledged
                                          ELSE SequenceGap

MasterAccepts(p) ==
    /\ post[p] = Waiting
    /\ RecordIfNext(target[p])
    /\ post' = [post EXCEPT ![p] = MasterAnswer(target[p])]
    /\ UNCHANGED <<rowVars, enabled, phase, target, loaded, sentCount, review,
                   late, faults>>

\* Master answers with an error and records nothing.
MasterRejects(p, err) ==
    /\ post[p] = Waiting
    /\ faults < MaxFaults
    /\ post' = [post EXCEPT ![p] = err]
    /\ faults' = faults + 1
    /\ UNCHANGED <<rowVars, enabled, phase, target, loaded, sentCount, review,
                   late, masterLast>>

\* The answer to a recorded event is lost, mangled or refused by the client.
AnswerSpoiled(p, how) ==
    /\ post[p] = Waiting
    /\ faults < MaxFaults
    /\ RecordIfNext(target[p])
    /\ post' = [post EXCEPT ![p] = Reply(0, how)]
    /\ faults' = faults + 1
    /\ UNCHANGED <<rowVars, enabled, phase, target, loaded, sentCount, review, late>>

\* The client times out while the request is still on its way.
RequestTimesOut(p) ==
    /\ post[p] = Waiting
    /\ faults < MaxFaults
    /\ post' = [post EXCEPT ![p] = Reply(0, "network")]
    /\ late' = late \cup {target[p]}
    /\ faults' = faults + 1
    /\ UNCHANGED <<rowVars, enabled, phase, target, loaded, sentCount, review,
                   masterLast>>

\* A request nobody waits for any more arrives after all, or never will.
LateArrival(e) ==
    /\ e \in late
    /\ late' = late \ {e}
    /\ RecordIfNext(e)
    /\ UNCHANGED <<rowVars, enabled, pusherVars, review, faults>>

-----------------------------------------------------------------------------
\* Time passes: a backoff ends.
BackoffEnds(e) ==
    /\ outbox[e].next = "later"
    /\ outbox' = [outbox EXCEPT ![e].next = "due"]
    /\ UNCHANGED <<top, kind, intact, document, enabled, pusherVars, review,
                   late, masterLast, faults>>

\* The claim timeout of max(60, 2 * request timeout) passes over a delivery
\* that was interrupted, or (a fault: a stalled thread, an answer that
\* trickles in) over one that still runs.
Delivering(e) == \E p \in Pushers : target[p] = e /\ phase[p] \in {"claimed", "posted"}

ClaimExpires(e) ==
    /\ outbox[e].since = "fresh"
    /\ ~Delivering(e)
    /\ outbox' = [outbox EXCEPT ![e].since = "stale"]
    /\ UNCHANGED <<top, kind, intact, document, enabled, pusherVars, review,
                   late, masterLast, faults>>

DeliveryOutlastsClaim(e) ==
    /\ outbox[e].since = "fresh"
    /\ Delivering(e) /\ faults < MaxFaults
    /\ outbox' = [outbox EXCEPT ![e].since = "stale"]
    /\ faults' = faults + 1
    /\ UNCHANGED <<top, kind, intact, document, enabled, pusherVars, review,
                   late, masterLast>>

\* The process dies: every call and handler in progress is gone, the requests
\* already sent may still arrive.
Crash ==
    /\ faults < MaxFaults
    /\ faults' = faults + 1
    /\ late' = late \cup {target[p] : p \in {q \in Pushers : post[q] = Waiting}}
    /\ phase' = [p \in Pushers |-> "idle"]
    /\ target' = [p \in Pushers |-> 0]
    /\ loaded' = [p \in Pushers |-> absentRow]
    /\ post' = [p \in Pushers |-> NoReply]
    /\ sentCount' = [p \in Pushers |-> 0]
    /\ review' = [e \in Ids |-> absentRow]
    /\ UNCHANGED <<rowVars, enabled, masterLast>>

\* POST /settings pauses or resumes synchronisation.
Pause ==
    /\ enabled /\ faults < MaxFaults
    /\ enabled' = FALSE
    /\ faults' = faults + 1
    /\ UNCHANGED <<rowVars, pusherVars, review, late, masterLast>>

Resume ==
    /\ ~enabled
    /\ enabled' = TRUE
    /\ UNCHANGED <<rowVars, pusherVars, review, late, masterLast, faults>>

\* The stored payload of an event at rest is damaged (disk, manual edit).
CorruptPayload(e) ==
    /\ e <= top /\ e \in intact /\ faults < MaxFaults
    /\ outbox[e].status \in {"PENDING", "FAILED"}
    /\ \A p \in Pushers : target[p] = e => phase[p] \in {"idle", "loop"}
    /\ intact' = intact \ {e}
    /\ faults' = faults + 1
    /\ UNCHANGED <<top, kind, outbox, document, enabled, pusherVars, review,
                   late, masterLast>>

-----------------------------------------------------------------------------
PushStep(p) ==
    \/ StartPush(p)
    \/ \E e \in Ids : Pick(p, e)
    \/ StopPush(p)
    \/ RecoverInterrupted(p)
    \/ ReloadRecovered(p)
    \/ RejectCorrupt(p)
    \/ Claim(p)
    \/ PostEvent(p)
    \/ DeliveryFails(p)
    \/ DeliverySucceeds(p)

MasterStep(p) ==
    \/ MasterAccepts(p)
    \/ \E err \in MasterErrors : MasterRejects(p, err)
    \/ \E how \in Spoilings : AnswerSpoiled(p, how)
    \/ RequestTimesOut(p)

EventStep(e) ==
    \/ OpenRetry(e)
    \/ RetryFailedEvent(e)
    \/ LateArrival(e)
    \/ BackoffEnds(e)
    \/ ClaimExpires(e)
    \/ DeliveryOutlastsClaim(e)
    \/ CorruptPayload(e)

Next ==
    \/ \E k \in EventKinds : EnqueueOutboxEvent(k)
    \/ \E p \in Pushers : PushStep(p) \/ MasterStep(p)
    \/ \E e \in Ids : EventStep(e)
    \/ Crash
    \/ Pause
    \/ Resume

Spec == Init /\ [][Next]_vars

(***************************************************************************)
(* Fairness.  A call that has started runs to its end; the worker starts   *)
(* one every MASTER_SYNC_INTERVAL_SECONDS; a request is answered or times  *)
(* out; clocks advance; an administrator resumes a paused node.  Nothing   *)
(* is assumed of the other pushers' or administrators' initiative, and     *)
(* Master's errors stop only because faults are bounded.                   *)
(***************************************************************************)
Fairness ==
    /\ \A p \in Pushers : WF_vars(phase[p] # "idle" /\ PushStep(p))
    /\ \A p \in Pushers : WF_vars(MasterStep(p))
    /\ \A p \in Workers : WF_vars(StartPush(p))
    /\ \A e \in Ids : /\ WF_vars(RetryFailedEvent(e))
                       /\ WF_vars(BackoffEnds(e))
                       /\ WF_vars(ClaimExpires(e))
    /\ WF_vars(Resume)

FairSpec == Spec /\ Fairness

-----------------------------------------------------------------------------
TypeOK ==
    /\ top \in Ids
    /\ kind \in [Ids -> Kinds]
    /\ outbox \in [Ids -> Rows]
    /\ intact \subseteq Ids
    /\ document \in [Ids -> DocStatuses]
    /\ enabled \in BOOLEAN
    /\ phase \in [Pushers -> Phases]
    /\ target \in [Pushers -> Ids \cup {0}]
    /\ loaded \in [Pushers -> LoadedRows]
    /\ sentCount \in [Pushers -> 0..Limit]
    /\ post \in [Pushers -> Replies]
    /\ review \in [Ids -> LoadedRows]
    /\ late \subseteq Ids
    /\ masterLast \in 0..MaxEvents
    /\ faults \in 0..MaxFaults

\* Strict sequence (push_pending_events): whatever pushers race and whatever
\* claims are recovered, no request is ever ahead of Master's cursor by more
\* than one event, so Master never has to answer SEQUENCE_GAP, an error the
\* code would park for good.
NoSequenceGap ==
    /\ \A p \in Pushers : phase[p] = "posted" => target[p] <= masterLast + 1
    /\ \A e \in late : e <= masterLast + 1

\* What Lite reports as delivered (a SENT row, a SYNCED batch, a receipt with
\* synced_at) Master has recorded, although SENT itself can be overwritten.
ReportedIsRecorded ==
    \A e \in Ids :
        \/ outbox[e].status = "SENT"
        \/ document[e] \in {"SYNCED", "CONFIRMED"}
        => e <= masterLast

\* An event Lite has committed is eventually known to be delivered, unless an
\* event at or before it was given up (FAILED with no retry time) and waits
\* for an administrator: crashes, lost answers and pushers that overwrite
\* each other's result cannot strand an event in SENDING or in backoff.
GivenUp(e) == outbox[e].status = "FAILED" /\ outbox[e].next = "null"
EventuallyConfirmed ==
    \A e \in Ids :
        e <= top ~> (outbox[e].status = "SENT" \/ \E k \in 1..e : GivenUp(k))

\* The outbox and Master together implement the event log: every step of the
\* code appends one committed event, records the next one at Master, or
\* changes what Lite believes to be delivered, never more at once.
Log == INSTANCE EventLog WITH
           committed <- top,
           recorded <- masterLast,
           confirmed <- {e \in Ids : outbox[e].status = "SENT"}
ImplementsEventLog == Log!Spec

-----------------------------------------------------------------------------
(***************************************************************************)
(* The inductive invariant.  A pusher past its SELECT works on an event    *)
(* whose predecessors were all SENT when it was selected, hence recorded;  *)
(* Master's cursor never goes back, so the bound outlives any overwriting  *)
(* of the SENT status by other pushers.                                    *)
(***************************************************************************)
Working(p) == phase[p] \in {"stale", "recovered", "ready", "claimed", "posted"}

TargetsAreNext ==
    \A p \in Pushers : Working(p) => /\ target[p] \in 1..top
                                     /\ target[p] <= masterLast + 1
                                     /\ sentCount[p] < Limit

AckIsRecorded ==
    \A p \in Pushers : /\ post[p] # NoReply => phase[p] = "posted"
                       /\ post[p] = Acknowledged => target[p] <= masterLast

LateAreNext == \A e \in late : e \in 1..top /\ e <= masterLast + 1

IInv ==
    /\ TypeOK
    /\ masterLast <= top
    /\ TargetsAreNext
    /\ AckIsRecorded
    /\ LateAreNext
    /\ ReportedIsRecorded

=============================================================================
