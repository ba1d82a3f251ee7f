---------------------------- MODULE TallyWorker ----------------------------
(***************************************************************************)
(* The consumer of Tally requests outside Lite mode                        *)
(* (app/services/sync_worker.py, tally_jobs.py, tally_cache.py and the     *)
(* claim and post of tally.py): requests commit work and ring an           *)
(* asyncio.Event; one loop scans the database in a thread, one item per    *)
(* pass, and sleeps on the event.  Work is a gateway check, a data job or  *)
(* the voucher of a batch.                                                 *)
(*                                                                         *)
(* Stopping the loop (a restore or a reset does) cancels the task but not  *)
(* its thread: the pass goes on as an orphan beside the new loop.  A crash *)
(* ends every thread.  The clock is abstract: a lease, a cooldown or a     *)
(* wait may end at any moment, and does end.                               *)
(***************************************************************************)
EXTENDS Integers, Sequences, FiniteSets, SequencesExt

CONSTANTS
    Batches,      \* primary keys of batches, in the order of created_at
    Keys,         \* request keys of data jobs
    Answers,      \* what can become of the answer of Tally to a voucher
    Broken,       \* versions of the settings no voucher can be built from
    MaxSettings,  \* bound: versions of the settings
    MaxBooks,     \* bound: changes of Tally's own data
    MaxChecks,    \* bound: gateway checks
    MaxActive,    \* MAX_ACTIVE_TALLY_DATA_JOBS
    MaxCrashes,   \* bound: crashes, and answers of Tally cut off
    MaxStops      \* bound: stops of the worker

ASSUME BatchesAssumption == Batches \subseteq Nat
ASSUME AnswersAssumption ==
    Answers \subseteq {"imported", "rejected", "lost", "unreadable", "cut"}
ASSUME BoundsAssumption ==
    /\ MaxSettings \in Nat \ {0} /\ MaxActive \in Nat \ {0}
    /\ {MaxBooks, MaxChecks, MaxCrashes, MaxStops} \subseteq Nat
    /\ Broken \subseteq 1..MaxSettings

VARIABLES
    batch,     \* status, frozen payload, last_retry_at and lease of each batch
    line,      \* the batches by last_retry_at
    accepted,  \* versions of each batch's voucher that Tally has taken
    disowned,  \* batches recorded as FAILED although Tally has taken a voucher
    config,    \* version of the settings a voucher is built from
    enabled,   \* Tally sync is enabled for the type of the batches
    jobs,      \* newest row of each request key: status and lease
    queue,     \* the keys of active rows by created_at
    asked,     \* Tally's data when the row was created
    book,      \* Tally's data
    cache,     \* the data of the cache tables, by key
    check,     \* the gateway check of the settings table
    thread,    \* the pass of the loop, and the one it has orphaned
    lock,      \* holder of TALLY_REQUEST_LOCK
    loop,      \* where retry_worker_loop is
    prefer,    \* _prefer_data_job
    wake,      \* the event is set
    ring,      \* a request has committed and not yet notified
    mixed,     \* an orphan has run beside the loop
    crashes, stops

batchVars == <<batch, line, accepted, disowned>>
settingVars == <<config, enabled>>
jobVars == <<jobs, queue, asked, cache>>
loopVars == <<loop, prefer, wake>>
faults == <<mixed, crashes, stops>>
vars == <<batchVars, settingVars, jobVars, book, check, thread, lock, loopVars, ring, faults>>

-----------------------------------------------------------------------------
Threads == {"pass", "orphan"}
Versions == 1..MaxSettings
NoXml == 0

Idle == [pc |-> "idle", plan |-> <<>>, batch |-> 0, seen |-> 0, saw |-> "", key |-> "",
         row |-> FALSE, got |-> 0, check |-> 0, reply |-> ""]

Running(t) == thread[t].pc \notin {"idle", "done", "empty"}
At(t, pc) == thread[t].pc = pc

\* The pass goes on at pc, or ends having processed something or nothing.
Step(t, pc) == thread' = [thread EXCEPT ![t] = [@ EXCEPT !.pc = pc]]
Ends(t, processed) ==
    thread' = [thread EXCEPT ![t] = [Idle EXCEPT !.pc =
                  IF t = "orphan" THEN "idle" ELSE IF processed THEN "done" ELSE "empty"]]

\* Nothing found: the next of the two kinds of work, or the end of the pass.
NextTry(t) ==
    IF Len(thread[t].plan) = 1
       THEN Ends(t, FALSE)
       ELSE thread' = [thread EXCEPT ![t] =
                         [Idle EXCEPT !.pc = "try", !.plan = Tail(thread[t].plan)]]

Trying(t, kind) == At(t, "try") /\ Head(thread[t].plan) = kind

\* A check or a job; it is claimed when it is queued or when the lease of a claim
\* has ended (and a variant without leases).
NoCheck == [id |-> 0, status |-> "none", stale |-> FALSE]
Pending(c) == c.status \in {"queued", "running"}
ClaimableOnce(w) == w.status = "queued"
Claimable(w) == w.status = "queued" \/ (w.status = "running" /\ w.stale)

Init ==
    /\ batch = [b \in Batches |->
                  [status |-> "DRAFT", xml |-> NoXml, retry |-> "null", stale |-> FALSE]]
    /\ line = <<>>
    /\ accepted = [b \in Batches |-> {}]
    /\ disowned = {}
    /\ config = 1
    /\ enabled = TRUE
    /\ jobs = [k \in Keys |-> [status |-> "none", stale |-> FALSE]]
    /\ queue = <<>>
    /\ asked = [k \in Keys |-> 0]
    /\ book = 0
    /\ cache = [k \in Keys |-> 0]
    /\ check = NoCheck
    /\ thread = [t \in Threads |-> Idle]
    /\ lock = "free"
    /\ loop = "scan"
    /\ prefer = TRUE
    /\ wake = FALSE
    /\ ring = FALSE
    /\ mixed = FALSE
    /\ crashes = 0
    /\ stops = 0

-----------------------------------------------------------------------------
(* Requests.  Each commits and then notifies the worker (Ring). *)

\* submit_batch outside Lite mode.
SubmitBatch(b) ==
    /\ batch[b].status = "DRAFT"
    /\ batch' = [batch EXCEPT ![b].status = "SUBMITTED"]
    /\ ring' = TRUE
    /\ UNCHANGED <<line, accepted, disowned, settingVars, jobVars, book, check, thread, lock,
                   loopVars, faults>>

\* queue_batch_for_sync: a rejected voucher is built anew, one with an unknown
\* outcome keeps its payload and loses its cooldown.
Requeued(row) ==
    [status |-> IF row.status = "FAILED" THEN "PENDING_SYNC" ELSE row.status,
     xml |-> IF row.status = "FAILED" THEN NoXml ELSE row.xml,
     retry |-> "null", stale |-> FALSE]

RetryBatch(b) ==
    /\ batch[b].status \in {"SUBMITTED", "FAILED", "PENDING_SYNC"}
    /\ batch' = [batch EXCEPT ![b] = Requeued(@)]
    /\ ring' = TRUE
    /\ UNCHANGED <<line, accepted, disowned, settingVars, jobVars, book, check, thread, lock,
                   loopVars, faults>>

\* queue_tally_gateway_check: clicks collapse while a check is pending.
QueueTallyGatewayCheck ==
    /\ check.id < MaxChecks
    /\ check' = IF Pending(check) THEN check
                ELSE [id |-> check.id + 1, status |-> "queued", stale |-> FALSE]
    /\ ring' = TRUE
    /\ UNCHANGED <<batchVars, settingVars, jobVars, book, thread, lock, loopVars, faults>>

\* _queue_live_data_job, queue_tally_data_job under _enqueue_lock: an active row
\* of the same key answers, a full queue refuses (no step), else there is a new
\* row; whoever works on the old row keeps its own.
QueueTallyDataJob(k) ==
    /\ ring' = TRUE
    /\ IF k \in ToSet(queue)
          THEN UNCHANGED <<jobs, queue, asked, thread>>
          ELSE /\ Len(queue) < MaxActive
               /\ jobs' = [jobs EXCEPT ![k] = [status |-> "queued", stale |-> FALSE]]
               /\ queue' = Append(queue, k)
               /\ asked' = [asked EXCEPT ![k] = book]
               /\ thread' = [t \in Threads |->
                               IF thread[t].key = k THEN [thread[t] EXCEPT !.row = FALSE]
                               ELSE thread[t]]
    /\ UNCHANGED <<batchVars, settingVars, cache, book, check, lock, loopVars, faults>>

\* notify_retry_worker; there is nobody to notify while the worker is stopped.
NotifyRetryWorker ==
    /\ ring
    /\ ring' = FALSE
    /\ wake' = IF loop = "off" THEN wake ELSE TRUE
    /\ UNCHANGED <<batchVars, settingVars, jobVars, book, check, thread, lock, loop, prefer,
                   faults>>

\* The settings a voucher is built from, which are also the configuration of the
\* active company.  Nothing that changes them notifies the worker.
ApplySettings ==
    /\ config < MaxSettings
    /\ config' = config + 1
    /\ UNCHANGED <<batchVars, jobVars, book, check, thread, lock, loopVars, ring, faults>>

\* The settings page (live_sync_readiness may refuse to enable: no step), its
\* autosave, which leaves the switches alone, the form of the active company on
\* the Tally page, and the activation of another company, which turns sync off.
SaveSettings == ApplySettings /\ enabled' \in BOOLEAN
AutosaveSettings == ApplySettings /\ UNCHANGED enabled
SaveCompany == ApplySettings /\ UNCHANGED enabled
ActivateCompany == ApplySettings /\ enabled' = FALSE

SettingsChange == SaveSettings \/ AutosaveSettings \/ SaveCompany \/ ActivateCompany

\* Somebody works in Tally.
TallyChanges ==
    /\ book < MaxBooks
    /\ book' = book + 1
    /\ UNCHANGED <<batchVars, settingVars, jobVars, check, thread, lock, loopVars, ring, faults>>

-----------------------------------------------------------------------------
(* process_next_tally_request, in a thread t. *)

\* _claim_gateway_check: a compare and swap of the settings row.
ClaimGatewayCheck(t) ==
    /\ At(t, "check")
    /\ IF Claimable(check)
          THEN /\ check' = [check EXCEPT !.status = "running", !.stale = FALSE]
               /\ thread' = [thread EXCEPT ![t].pc = "test", ![t].check = check.id]
          ELSE /\ thread' = [thread EXCEPT ![t].pc = "try",
                               ![t].plan = IF prefer THEN <<"job", "batch">>
                                           ELSE <<"batch", "job">>]
               /\ UNCHANGED check
    /\ UNCHANGED <<batchVars, settingVars, jobVars, book, lock, loopVars, ring, faults>>

\* test_tally_gateway, then _finish_gateway_check: the row is read and, if it is
\* about the same request, written as it was read.
TestTallyGateway(t) ==
    /\ At(t, "test") /\ lock = "free"
    /\ IF check.id = thread[t].check THEN Step(t, "tested") ELSE Ends(t, TRUE)
    /\ UNCHANGED <<batchVars, settingVars, jobVars, book, check, lock, loopVars, ring, faults>>

FinishGatewayCheck(t) ==
    /\ At(t, "tested")
    /\ \E status \in {"succeeded", "failed"} :
          check' = [id |-> thread[t].check, status |-> status, stale |-> FALSE]
    /\ Ends(t, TRUE)
    /\ UNCHANGED <<batchVars, settingVars, jobVars, book, lock, loopVars, ring, faults>>

\* _claim_next_job: the oldest row that is queued or whose lease has ended is
\* selected, then claimed if it still is.
Available == {k \in Keys : k \in ToSet(queue) /\ Claimable(jobs[k])}

SelectJob(t) ==
    /\ Trying(t, "job")
    /\ IF Available = {}
          THEN NextTry(t)
          ELSE \E i \in DOMAIN queue :
                  /\ queue[i] \in Available /\ \A j \in 1..(i - 1) : queue[j] \notin Available
                  /\ thread' = [thread EXCEPT ![t].pc = "claim", ![t].key = queue[i],
                                              ![t].row = TRUE]
    /\ UNCHANGED <<batchVars, settingVars, jobVars, book, check, lock, loopVars, ring, faults>>

ClaimJob(t) ==
    LET k == thread[t].key
    IN  /\ At(t, "claim")
        /\ IF thread[t].row /\ Claimable(jobs[k])
              THEN /\ jobs' = [jobs EXCEPT ![k] = [status |-> "running", stale |-> FALSE]]
                   /\ Step(t, "fetch")
              ELSE UNCHANGED jobs /\ NextTry(t)
        /\ UNCHANGED <<batchVars, settingVars, queue, asked, cache, book, check, lock, loopVars,
                       ring, faults>>

\* _execute_job: the answer of Tally, or an error, then the cache tables in one
\* transaction of its own, which may fail too (and a variant that reports a
\* failure as a success).
FetchFromTally(t) ==
    /\ At(t, "fetch") /\ lock = "free"
    /\ thread' = [thread EXCEPT ![t].pc = "store", ![t].got = book]
    /\ UNCHANGED <<batchVars, settingVars, jobVars, book, check, lock, loopVars, ring, faults>>

JobFailsQuietly(t) ==
    /\ At(t, "fetch") \/ At(t, "store")
    /\ thread' = [thread EXCEPT ![t].pc = "finish", ![t].reply = "succeeded"]
    /\ UNCHANGED <<batchVars, settingVars, jobVars, book, check, lock, loopVars, ring, faults>>

JobFails(t) ==
    /\ At(t, "fetch") \/ At(t, "store")
    /\ thread' = [thread EXCEPT ![t].pc = "finish", ![t].reply = "failed"]
    /\ UNCHANGED <<batchVars, settingVars, jobVars, book, check, lock, loopVars, ring, faults>>

ReplaceCached(t) ==
    /\ At(t, "store")
    /\ cache' = [cache EXCEPT ![thread[t].key] = thread[t].got]
    /\ thread' = [thread EXCEPT ![t].pc = "finish", ![t].reply = "succeeded"]
    /\ UNCHANGED <<batchVars, settingVars, jobs, queue, asked, book, check, lock, loopVars, ring,
                   faults>>

\* _finish_job, and the turn goes to the vouchers (and a variant where it does
\* not, and one that leaves the row active).
KeepsItsTurn == UNCHANGED prefer
TurnsToVouchers == prefer' = FALSE

FinishJobLooks(t) ==
    /\ At(t, "finish")
    /\ IF thread[t].row /\ jobs[thread[t].key].status = "running"
          THEN Step(t, "finished") /\ UNCHANGED prefer
          ELSE Ends(t, TRUE) /\ TurnsToVouchers
    /\ UNCHANGED <<batchVars, settingVars, jobVars, book, check, lock, loop, wake, ring, faults>>

FinishJobUnqueued(t) ==
    /\ At(t, "finished")
    /\ jobs' = [jobs EXCEPT ![thread[t].key].status = thread[t].reply]
    /\ Ends(t, TRUE)
    /\ TurnsToVouchers
    /\ UNCHANGED <<batchVars, settingVars, queue, asked, cache, book, check, lock, loop, wake,
                   ring, faults>>

FinishJob(t) ==
    LET k == thread[t].key
    IN  /\ At(t, "finished")
        /\ IF thread[t].row
              THEN /\ jobs' = [jobs EXCEPT ![k] = [status |-> thread[t].reply, stale |-> FALSE]]
                   /\ queue' = RemoveFirst(queue, k)
              ELSE UNCHANGED <<jobs, queue>>
        /\ Ends(t, TRUE)
        /\ TurnsToVouchers
        /\ UNCHANGED <<batchVars, settingVars, asked, cache, book, check, lock, loop, wake, ring,
                       faults>>

-----------------------------------------------------------------------------
(* retry_pending_batches(1) and sync_batch, in a thread t. *)

\* Batches to try now (and a variant that forgets those a dead pass has left).
DueButSyncing(b) ==
    \/ batch[b].status = "SUBMITTED"
    \/ batch[b].status = "PENDING_SYNC" /\ batch[b].retry # "recent"
Due(b) ==
    \/ batch[b].status = "SUBMITTED"
    \/ batch[b].status = "PENDING_SYNC" /\ batch[b].retry # "recent"
    \/ batch[b].status = "SYNCING" /\ batch[b].stale

DueBatches == {b \in Batches : Due(b)}

\* ORDER BY last_retry_at IS NOT NULL, last_retry_at, created_at
Precedes(a, b) ==
    \/ batch[a].retry = "null" /\ (batch[b].retry = "null" => a < b)
    \/ batch[a].retry # "null" /\ batch[b].retry # "null"
       /\ \E i, j \in DOMAIN line : i < j /\ line[i] = a /\ line[j] = b

\* The batch is loaded with its status and payload.
SelectBatch(t) ==
    /\ Trying(t, "batch")
    /\ IF enabled /\ DueBatches # {}
          THEN \E b \in DueBatches :
                  /\ \A other \in DueBatches \ {b} : Precedes(b, other)
                  /\ thread' = [thread EXCEPT ![t].pc = "sync", ![t].batch = b,
                                    ![t].seen = batch[b].xml, ![t].saw = batch[b].status]
          ELSE NextTry(t)
    /\ UNCHANGED <<batchVars, settingVars, jobVars, book, check, lock, loopVars, ring, faults>>

\* A pass that served a voucher while data jobs were not preferred prefers them.
TurnsToJobs(t) == prefer' = (prefer \/ Len(thread[t].plan) = 2)

\* last_retry_at := now
Retried(b) == line' = Append(RemoveFirst(line, b), b)

\* What sync_batch does with the lock held, up to the post.  It returns for a
\* batch that is SYNCED or SYNCING under a fresh lease; it refreshes the batch
\* only if the status has changed since it was loaded; a voucher that cannot be
\* built or is disabled goes back to PENDING_SYNC; else the batch is claimed
\* with its payload frozen.  (And a variant that builds the voucher every time.)
Stored(t, b) == IF batch[b].status = thread[t].saw THEN thread[t].seen ELSE batch[b].xml
MustBuildAlways(t, b) == TRUE
MustBuild(t, b) == batch[b].status = "FAILED" \/ Stored(t, b) = NoXml
Payload(t, b) == IF MustBuild(t, b) THEN config ELSE Stored(t, b)
Unbuildable(t, b) == MustBuild(t, b) /\ config \in Broken

Returns(b) ==
    \/ batch[b].status = "SYNCED"
    \/ batch[b].status = "SYNCING" /\ ~batch[b].stale

SyncBatch(t) ==
    LET b == thread[t].batch
    IN  /\ At(t, "sync") /\ lock = "free"
        /\ IF Returns(b)
              THEN Ends(t, TRUE) /\ TurnsToJobs(t) /\ UNCHANGED <<batch, line, lock>>
           ELSE IF Unbuildable(t, b)
              THEN /\ batch' = [batch EXCEPT ![b].status = "PENDING_SYNC", ![b].retry = "recent"]
                   /\ Retried(b) /\ Ends(t, TRUE) /\ TurnsToJobs(t) /\ UNCHANGED lock
           ELSE IF ~enabled
              THEN /\ batch' = [batch EXCEPT ![b].status = "PENDING_SYNC", ![b].retry = "recent",
                                             ![b].xml = Payload(t, b)]
                   /\ Retried(b) /\ Ends(t, TRUE) /\ TurnsToJobs(t) /\ UNCHANGED lock
           ELSE /\ batch' = [batch EXCEPT ![b] =
                      [status |-> "SYNCING", xml |-> Payload(t, b), stale |-> FALSE,
                       retry |-> IF @.status = "SUBMITTED" THEN @.retry ELSE "recent"]]
                /\ IF batch[b].status = "SUBMITTED" THEN UNCHANGED line ELSE Retried(b)
                /\ lock' = t
                /\ Step(t, "post")
                /\ UNCHANGED prefer
        /\ UNCHANGED <<accepted, disowned, settingVars, jobVars, book, check, loop, wake, ring,
                       faults>>

\* post_to_tally.  Tally takes the voucher or not, and the answer is read, lost,
\* unreadable, or cut off in a way post_to_tally does not catch (a fault counted
\* with the crashes: its lease of ten minutes outlasts many passes).
Replies == [taken : {TRUE}, answer : Answers \ {"rejected"}]
           \cup [taken : {FALSE}, answer : Answers \cap {"rejected", "lost"}]

PostToTally(t) ==
    LET b == thread[t].batch
    IN  /\ At(t, "post")
        /\ \E r \in Replies :
              /\ r.answer = "cut" => crashes < MaxCrashes
              /\ crashes' = IF r.answer = "cut" THEN crashes + 1 ELSE crashes
              /\ accepted' = IF r.taken THEN [accepted EXCEPT ![b] = @ \cup {batch[b].xml}]
                             ELSE accepted
              /\ disowned' = IF accepted'[b] # {} /\ r.answer \in {"unreadable", "rejected"}
                                THEN disowned \cup {b} ELSE disowned
              /\ thread' = [thread EXCEPT ![t].pc = "posted", ![t].reply = r.answer]
        /\ UNCHANGED <<batch, line, settingVars, jobVars, book, check, lock, loopVars, ring, mixed,
                       stops>>

\* The status an answer leads to (and a variant that takes any answer for an
\* import).
OutcomeOfAny(answer) == IF answer = "lost" THEN "PENDING_SYNC" ELSE "SYNCED"
Outcome(answer) ==
    IF answer = "imported" THEN "SYNCED"
    ELSE IF answer = "lost" THEN "PENDING_SYNC" ELSE "FAILED"

\* The end of _sync_batch_locked; a cut answer leaves the batch SYNCING, and the
\* exception ends the pass.
FinishSync(t) ==
    LET b == thread[t].batch
        r == thread[t].reply
    IN  /\ At(t, "posted")
        /\ IF r = "cut" THEN UNCHANGED <<batch, line, prefer>>
           ELSE /\ batch' = [batch EXCEPT ![b].stale = FALSE,
                               ![b].status = Outcome(r),
                               ![b].retry = IF r = "imported" THEN @ ELSE "recent"]
                /\ IF r = "imported" THEN UNCHANGED line ELSE Retried(b)
                /\ TurnsToJobs(t)
        /\ lock' = "free"
        /\ Ends(t, TRUE)
        /\ UNCHANGED <<accepted, disowned, settingVars, jobVars, book, check, loop, wake, ring, faults>>

-----------------------------------------------------------------------------
(* retry_worker_loop *)

\* A scan starts, and what follows it: another one after something was
\* processed, a last one after the event is cleared, the wait (and a variant
\* that clears the event after the last scan).
StartPass ==
    /\ loop \in {"scan", "rescan"} /\ At("pass", "idle")
    /\ Step("pass", "check")
    /\ UNCHANGED <<batchVars, settingVars, jobVars, book, check, lock, loopVars, ring, faults>>

EndPassClearingLate ==
    /\ thread["pass"].pc \in {"done", "empty"}
    /\ thread' = [thread EXCEPT !["pass"] = Idle]
    /\ loop' = IF At("pass", "done") THEN "scan" ELSE IF loop = "scan" THEN "rescan" ELSE "wait"
    /\ wake' = IF At("pass", "empty") /\ loop = "rescan" THEN FALSE ELSE wake
    /\ UNCHANGED <<batchVars, settingVars, jobVars, book, check, lock, prefer, ring, faults>>

EndPass ==
    /\ thread["pass"].pc \in {"done", "empty"}
    /\ thread' = [thread EXCEPT !["pass"] = Idle]
    /\ loop' = IF At("pass", "done") THEN "scan" ELSE IF loop = "scan" THEN "rescan" ELSE "wait"
    /\ wake' = IF At("pass", "empty") /\ loop = "scan" THEN FALSE ELSE wake
    /\ UNCHANGED <<batchVars, settingVars, jobVars, book, check, lock, prefer, ring, faults>>

\* The event is set, or the interval is over.
WakeUp ==
    /\ loop = "wait"
    /\ loop' = "scan"
    /\ UNCHANGED <<batchVars, settingVars, jobVars, book, check, thread, lock, prefer, wake, ring,
                   faults>>

\* stop_retry_worker: the thread of the cancelled task goes on by itself.
StopRetryWorker ==
    /\ loop # "off" /\ stops < MaxStops
    /\ thread["orphan"] = Idle
    /\ thread' = [pass |-> Idle, orphan |-> IF Running("pass") THEN thread["pass"] ELSE Idle]
    /\ lock' = IF lock = "pass" THEN "orphan" ELSE lock
    /\ loop' = "off"
    /\ wake' = FALSE
    /\ stops' = stops + 1
    /\ UNCHANGED <<batchVars, settingVars, jobVars, book, check, prefer, ring, mixed, crashes>>

StartRetryWorker ==
    /\ loop = "off"
    /\ loop' = "scan"
    /\ mixed' = (mixed \/ Running("orphan"))
    /\ UNCHANGED <<batchVars, settingVars, jobVars, book, check, thread, lock, prefer, wake, ring,
                   crashes, stops>>

\* The process dies and is started again.
Crash ==
    /\ crashes < MaxCrashes
    /\ crashes' = crashes + 1
    /\ thread' = [t \in Threads |-> Idle]
    /\ lock' = "free"
    /\ loop' = "scan" /\ prefer' = TRUE /\ wake' = FALSE /\ ring' = FALSE
    /\ UNCHANGED <<batchVars, settingVars, jobVars, book, check, mixed, stops>>

-----------------------------------------------------------------------------
(* The clock. *)

\* retry_interval_seconds after the last attempt.
CooldownEnds(b) ==
    /\ batch[b].status = "PENDING_SYNC" /\ batch[b].retry = "recent"
    /\ batch' = [batch EXCEPT ![b].retry = "due"]
    /\ UNCHANGED <<line, accepted, disowned, settingVars, jobVars, book, check, thread, lock,
                   loopVars, ring, faults>>

\* SYNC_LEASE_MINUTES, TALLY_DATA_JOB_LEASE_SECONDS, GATEWAY_CHECK_LEASE_SECONDS
SyncLeaseEnds(b) ==
    /\ batch[b].status = "SYNCING" /\ ~batch[b].stale
    /\ batch' = [batch EXCEPT ![b].stale = TRUE]
    /\ UNCHANGED <<line, accepted, disowned, settingVars, jobVars, book, check, thread, lock,
                   loopVars, ring, faults>>

JobLeaseEnds(k) ==
    /\ jobs[k].status = "running" /\ ~jobs[k].stale
    /\ jobs' = [jobs EXCEPT ![k].stale = TRUE]
    /\ UNCHANGED <<batchVars, settingVars, queue, asked, cache, book, check, thread, lock,
                   loopVars, ring, faults>>

CheckLeaseEnds ==
    /\ check.status = "running" /\ ~check.stale
    /\ check' = [check EXCEPT !.stale = TRUE]
    /\ UNCHANGED <<batchVars, settingVars, jobVars, book, thread, lock, loopVars, ring, faults>>

-----------------------------------------------------------------------------
Pass(t) ==
    \/ ClaimGatewayCheck(t) \/ TestTallyGateway(t) \/ FinishGatewayCheck(t)
    \/ SelectJob(t) \/ ClaimJob(t) \/ FetchFromTally(t) \/ JobFails(t) \/ ReplaceCached(t)
    \/ FinishJobLooks(t) \/ FinishJob(t)
    \/ SelectBatch(t) \/ SyncBatch(t) \/ PostToTally(t) \/ FinishSync(t)

Loop == StartPass \/ EndPass \/ WakeUp \/ StartRetryWorker

Clock ==
    \/ \E b \in Batches : CooldownEnds(b) \/ SyncLeaseEnds(b)
    \/ \E k \in Keys : JobLeaseEnds(k)
    \/ CheckLeaseEnds

Requests ==
    \/ \E b \in Batches : SubmitBatch(b) \/ RetryBatch(b)
    \/ \E k \in Keys : QueueTallyDataJob(k)
    \/ QueueTallyGatewayCheck \/ SettingsChange \/ TallyChanges

Next ==
    \/ Requests
    \/ NotifyRetryWorker
    \/ \E t \in Threads : Pass(t)
    \/ Loop
    \/ Clock
    \/ StopRetryWorker
    \/ Crash

\* Threads and the loop go on, requests to Tally end (they time out) and so do
\* leases and waits.
Fairness ==
    /\ WF_vars(NotifyRetryWorker)
    /\ \A t \in Threads : WF_vars(Pass(t))
    /\ WF_vars(Loop)
    /\ \A b \in Batches : WF_vars(CooldownEnds(b)) /\ WF_vars(SyncLeaseEnds(b))
    /\ \A k \in Keys : WF_vars(JobLeaseEnds(k))
    /\ WF_vars(CheckLeaseEnds)

Spec == Init /\ [][Next]_vars /\ Fairness

-----------------------------------------------------------------------------
(* Properties. *)

Statuses == {"DRAFT", "SUBMITTED", "PENDING_SYNC", "SYNCING", "FAILED", "SYNCED"}
WorkStatuses == {"none", "queued", "running", "succeeded", "failed"}

Plans == {<<"job", "batch">>, <<"batch", "job">>, <<"job">>, <<"batch">>}
Passes ==
    [pc : {"idle", "check", "test", "tested", "try", "claim", "fetch", "store", "finish",
           "finished", "sync", "post", "posted", "done", "empty"},
     plan : Plans \cup {<<>>}, batch : Batches \cup {0}, seen : Versions \cup {NoXml},
     saw : Statuses \cup {""}, key : Keys \cup {""}, row : BOOLEAN, got : 0..MaxBooks,
     check : 0..MaxChecks, reply : Answers \cup {"succeeded", "failed", ""}]

\* The variables have their types, and the active rows are the queue.
TypeOK ==
    /\ batch \in [Batches -> [status : Statuses, xml : Versions \cup {NoXml},
                              retry : {"null", "recent", "due"}, stale : BOOLEAN]]
    /\ line \in Seq(Batches) /\ IsInjective(line)
    /\ accepted \in [Batches -> SUBSET Versions]
    /\ disowned \subseteq Batches
    /\ config \in Versions /\ enabled \in BOOLEAN
    /\ jobs \in [Keys -> [status : WorkStatuses, stale : BOOLEAN]]
    /\ queue \in Seq(Keys) /\ IsInjective(queue)
    /\ ToSet(queue) = {k \in Keys : Pending(jobs[k])}
    /\ thread \in [Threads -> Passes]
    /\ asked \in [Keys -> 0..MaxBooks] /\ cache \in [Keys -> 0..MaxBooks]
    /\ book \in 0..MaxBooks
    /\ check \in [id : 0..MaxChecks, status : WorkStatuses, stale : BOOLEAN]
    /\ lock \in Threads \cup {"free"}
    /\ loop \in {"scan", "rescan", "wait", "off"}
    /\ {prefer, wake, ring, mixed} \subseteq BOOLEAN
    /\ crashes \in 0..MaxCrashes /\ stops \in 0..MaxStops

\* "Pending and stale SYNCING attempts keep their frozen payload because Tally
\* may already have accepted the request": whatever is lost, cut off or crashes,
\* Tally never takes two different vouchers of one batch.  There are two
\* exceptions.  FAILED is taken for a confirmed rejection, but Tally may hold the
\* voucher: the answer was unreadable, or an earlier post of the same payload had
\* been taken and its answer lost.  And an orphan that has loaded a PENDING_SYNC
\* batch without payload finds it PENDING_SYNC again after another pass has
\* posted it, and posts what it builds itself.
OneVoucher == \A b \in Batches : Cardinality(accepted[b]) > 1 => b \in disowned \/ mixed

\* A batch that is SYNCED is in Tally with the payload stored in the batch, even
\* when an orphan and the loop have both posted it.
SyncedIsInTally ==
    \A b \in Batches : batch[b].status = "SYNCED" => batch[b].xml \in accepted[b]

\* No wake-up is lost: when the worker waits, its event is not set and no request
\* is about to ring, then no work waits that was committed by a request.
NoLostWakeup ==
    loop = "wait" /\ ~wake /\ ~ring /\ ~mixed =>
        /\ check.status # "queued"
        /\ \A k \in Keys : jobs[k].status # "queued"

\* A data job that has succeeded shows data no older than its request.
FreshAnswer ==
    \A k \in Keys : jobs[k].status = "succeeded" /\ ~mixed => cache[k] >= asked[k]

\* A submitted batch is tried although data jobs are requested without end.
BatchIsTried ==
    \A b \in Batches : batch[b].status = "SUBMITTED" ~> (batch[b].status # "SUBMITTED" \/ ~enabled)

\* A batch that a dead or cut-off pass has left SYNCING is taken over once its
\* lease has ended.
SyncingIsTakenOver ==
    \A b \in Batches : (batch[b].status = "SYNCING" /\ batch[b].stale)
                           ~> (~batch[b].stale \/ ~enabled)

\* Data jobs and gateway checks are answered, also when their pass has died.
RequestsAreAnswered ==
    /\ Pending(check) ~> ~Pending(check)
    /\ \A k \in Keys : Pending(jobs[k]) ~> ~Pending(jobs[k])
-----------------------------------------------------------------------------
(* What makes the safety properties inductive. *)

\* A pass knows its plan, its job or its batch where it needs them.
PassesAreWhole ==
    \A t \in Threads :
        /\ thread[t].pc \in {"try", "claim"} => thread[t].plan # <<>>
        /\ thread[t].pc \in {"claim", "fetch", "store", "finish", "finished"} =>
              thread[t].key \in Keys
        /\ thread[t].pc \in {"finish", "finished"} => thread[t].reply \in {"succeeded", "failed"}
        /\ thread[t].pc = "posted" => thread[t].reply \in Answers
        /\ thread[t].pc \in {"sync", "post", "posted"} => thread[t].batch \in Batches

\* The loop does not start a pass while it waits or is stopped, so an orphan that
\* has not met a new loop is alone.
OneAtATime ==
    /\ loop \in {"wait", "off"} => At("pass", "idle")
    /\ Running("orphan") /\ ~mixed => loop = "off"

\* Whoever posts holds the lock and has claimed its batch, whose payload is frozen.
PostsUnderLock ==
    \A t \in Threads :
        LET b == thread[t].batch
        IN  /\ thread[t].pc \in {"post", "posted"} =>
                  lock = t /\ batch[b].status = "SYNCING" /\ batch[b].xml # NoXml
            /\ thread[t].pc = "posted" /\ thread[t].reply = "imported" =>
                  batch[b].xml \in accepted[b]
            /\ thread[t].pc = "posted" /\ thread[t].reply \in {"unreadable", "rejected"} =>
                  accepted[b] = {} \/ b \in disowned

\* What Tally has taken is the payload of the batch, which stays to be synced.
PayloadIsFrozen ==
    ~mixed => \A b \in Batches :
        accepted[b] # {} /\ b \notin disowned =>
            /\ batch[b].status \in {"PENDING_SYNC", "SYNCING", "SYNCED"}
            /\ batch[b].xml # NoXml /\ accepted[b] = {batch[b].xml}

\* A pass that is alone still knows the batch as it has loaded it.
LoadedIsCurrent ==
    ~mixed => \A t \in Threads :
        LET b == thread[t].batch
        IN  thread[t].pc = "sync" =>
                /\ batch[b].status = thread[t].saw /\ batch[b].xml = thread[t].seen
                /\ batch[b].status \in {"SUBMITTED", "PENDING_SYNC", "SYNCING"}

\* A pass that is alone has its job to itself until it has finished it.
AskedInPast == \A k \in Keys : asked[k] <= book
JobsInHand ==
    ~mixed => \A t \in Threads :
        LET k == thread[t].key
        IN  /\ thread[t].pc = "claim" => thread[t].row /\ Claimable(jobs[k])
            /\ thread[t].pc \in {"fetch", "store", "finish", "finished"} =>
                  thread[t].row /\ jobs[k].status = "running"
            /\ thread[t].pc = "store" => thread[t].got >= asked[k]
            /\ thread[t].pc \in {"finish", "finished"} /\ thread[t].reply = "succeeded" =>
                  cache[k] >= asked[k]

\* What the scan after the event was cleared has looked at is not queued, unless
\* a request has come since.
NothingMissed ==
    loop = "rescan" /\ ~wake /\ ~ring /\ ~mixed =>
        /\ thread["pass"].pc \in {"try", "claim", "fetch", "store", "finish", "finished",
                                 "sync", "post", "posted", "empty"} => check.status # "queued"
        /\ \/ thread["pass"].pc = "empty"
           \/ thread["pass"].pc = "try" /\ thread["pass"].plan = <<"batch">>
           => \A k \in Keys : jobs[k].status # "queued"

VoucherInv ==
    PostsUnderLock /\ SyncedIsInTally /\ PayloadIsFrozen /\ LoadedIsCurrent
JobInv == AskedInPast /\ JobsInHand /\ FreshAnswer
WakeInv == NothingMissed /\ NoLostWakeup
IInv == TypeOK /\ PassesAreWhole /\ OneAtATime /\ VoucherInv /\ JobInv /\ WakeInv
=============================================================================
