------------------------- MODULE MasterOutboxProofs -------------------------
(***************************************************************************)
(* Machine-checked proofs about MasterOutbox for every number of pushers,  *)
(* events, faults and every set of error answers.                          *)
(***************************************************************************)
EXTENDS MasterOutbox, TLAPS

USE MaxEventsAssumption, MaxFaultsAssumption, LimitAssumption

-----------------------------------------------------------------------------
(* Helpers: what the session writes back, and what Master may answer.      *)

\* A flushed row is a row, and it is SENT only if it was, or is assigned SENT.
LEMMA FlushRow ==
    ASSUME NEW db \in Rows, NEW old \in LoadedRows, NEW new \in Rows
    PROVE  /\ Flush(db, old, new) \in Rows
           /\ Flush(db, old, new).status = "SENT" =>
                 db.status = "SENT" \/ new.status = "SENT"
BY DEF Flush, Rows

\* Loading a row gives a loaded row.
LEMMA LoadRow == ASSUME NEW row \in Rows PROVE Load(row) \in LoadedRows
BY DEF Load, Rows, LoadedRows

\* The constant rows have their types.
LEMMA ConstantRows ==
    /\ newRow \in Rows /\ absentRow \in Rows /\ absentRow \in LoadedRows
    /\ newRow.status = "PENDING" /\ absentRow.status = "ABSENT"
BY DEF newRow, absentRow, Rows, LoadedRows, Statuses

\* An error answer is none of the values that mark progress of the exchange.
LEMMA ErrorAnswers ==
    ASSUME NEW err \in MasterErrors
    PROVE  err \in Replies /\ err # Acknowledged /\ err # NoReply /\ err # Waiting
<1>1. err.status >= 300
    BY MasterErrorsAssumption
<1>2. Acknowledged.status = 200 /\ NoReply.status = 0 /\ Waiting.status = 0
    BY DEF Acknowledged, NoReply, Waiting, Reply
<1>3. err # Acknowledged /\ err # NoReply /\ err # Waiting
    BY <1>1, <1>2
<1> QED
    BY <1>3 DEF Replies

\* The markers of an exchange are replies, and they are distinct.
LEMMA ReplyMarks ==
    /\ Acknowledged \in Replies /\ NoReply \in Replies /\ Waiting \in Replies
    /\ SequenceGap \in Replies /\ SequenceGap # Acknowledged
    /\ Acknowledged # NoReply /\ Acknowledged # Waiting /\ Waiting # NoReply
    /\ \A how \in Spoilings :
          /\ Reply(0, how) \in Replies /\ Reply(0, how) # Acknowledged
          /\ Reply(0, how) # Waiting /\ Reply(0, how) # NoReply
<1>1. Acknowledged.status = 200 /\ NoReply.status = 0 /\ SequenceGap.status = 409
    BY DEF Acknowledged, NoReply, SequenceGap, Reply
<1>2. Waiting.status = 0 /\ Waiting.code = "waiting" /\ NoReply.code = "none"
    BY DEF Waiting, NoReply, Reply
<1>3. \A how \in Spoilings : Reply(0, how).status = 0 /\ Reply(0, how).code = how
    BY DEF Reply
<1>4. \A how \in Spoilings : how # "waiting" /\ how # "none"
    BY DEF Spoilings
<1>5. /\ Acknowledged \in Replies /\ NoReply \in Replies /\ Waiting \in Replies
      /\ SequenceGap \in Replies
      /\ \A how \in Spoilings : Reply(0, how) \in Replies
    BY Zenon DEF Replies
<1> QED
    BY <1>1, <1>2, <1>3, <1>4, <1>5

-----------------------------------------------------------------------------
(* The inductive invariant, one lemma per group of actions.                *)

\* The initial state satisfies it.
LEMMA InitIInv == Init => IInv
<1> SUFFICES ASSUME Init PROVE IInv
    OBVIOUS
<1>1. TypeOK
    BY ConstantRows, ReplyMarks
       DEF Init, TypeOK, Ids, Kinds, DocStatuses, Phases
<1>2. ReportedIsRecorded
    BY ConstantRows DEF Init, ReportedIsRecorded, Ids
<1> QED
    BY <1>1, <1>2
       DEF Init, IInv, TargetsAreNext, Working, AckIsRecorded, LateAreNext

\* A committed event appends a row beyond every event in delivery.
LEMMA EnqueueIInv ==
    ASSUME IInv, NEW k \in EventKinds, EnqueueOutboxEvent(k)
    PROVE  IInv'
<1> USE DEF IInv, EnqueueOutboxEvent, pusherVars
<1>1. InitialDocument(k) \in DocStatuses \ {"SYNCED", "CONFIRMED"}
    BY DEF InitialDocument, DocStatuses
<1>2. top + 1 \in Ids /\ k \in Kinds
    BY EventKindsAssumption DEF TypeOK, Ids, Kinds
<1>3. TypeOK'
    BY <1>1, <1>2, ConstantRows DEF TypeOK
<1>4. ReportedIsRecorded'
    BY <1>1, <1>2, ConstantRows DEF ReportedIsRecorded, TypeOK
<1> QED
    BY <1>3, <1>4 DEF TypeOK, Ids, TargetsAreNext, Working, AckIsRecorded, LateAreNext

\* Taking up an event: only the row's position relative to Master's cursor
\* matters, and every predecessor is SENT, hence recorded.
LEMMA TakeUpIInv ==
    ASSUME IInv, NEW p \in Pushers,
           StartPush(p) \/ (\E e \in Ids : Pick(p, e)) \/ StopPush(p)
    PROVE  IInv'
<1> USE DEF IInv
<1>1. CASE StartPush(p)
  <2>1. TypeOK'
    BY <1>1 DEF StartPush, TypeOK, rowVars, Phases
  <2> QED
    BY <1>1, <2>1 DEF StartPush, TypeOK, rowVars, TargetsAreNext, Working,
                      AckIsRecorded, LateAreNext, ReportedIsRecorded
<1>2. ASSUME NEW e \in Ids, Pick(p, e) PROVE IInv'
  <2>1. TypeOK'
    BY <1>2, LoadRow DEF Pick, TypeOK, rowVars, Phases
  <2>2. e <= masterLast + 1
    <3>1. CASE e = 1
      BY <3>1 DEF TypeOK
    <3>2. CASE e # 1
      <4>1. e - 1 \in 1..(e - 1) /\ e - 1 \in Ids
        BY <3>2 DEF Ids
      <4>2. outbox[e - 1].status = "SENT"
        BY <1>2, <4>1 DEF Pick, OldestUnsent
      <4> QED
        BY <4>1, <4>2 DEF ReportedIsRecorded, TypeOK, Ids
    <3> QED
      BY <3>1, <3>2
  <2>3. e \in 1..top
    BY <1>2 DEF Pick, OldestUnsent, Ids, TypeOK
  <2>4. TargetsAreNext'
    BY <1>2, <2>2, <2>3 DEF Pick, UnderLimit, TypeOK, rowVars, TargetsAreNext, Working
  <2>5. AckIsRecorded'
    BY <1>2, ReplyMarks DEF Pick, TypeOK, AckIsRecorded
  <2> QED
    BY <1>2, <2>1, <2>4, <2>5 DEF Pick, rowVars, LateAreNext, ReportedIsRecorded
<1>3. CASE StopPush(p)
  <2>1. TypeOK'
    BY <1>3, ConstantRows, ReplyMarks DEF StopPush, Leave, TypeOK, rowVars, Phases
  <2> QED
    BY <1>3, <2>1, ReplyMarks
       DEF StopPush, Leave, TypeOK, rowVars, TargetsAreNext, Working,
           AckIsRecorded, LateAreNext, ReportedIsRecorded
<1> QED
    BY <1>1, <1>2, <1>3

\* A write that assigns a status other than SENT and a document status other
\* than SYNCED and CONFIRMED, to a row at or below top.
LEMMA NonFinalWrite ==
    ASSUME IInv, NEW e \in Ids, NEW old \in LoadedRows, NEW new \in Rows,
           new.status # "SENT", NEW s \in DocStatuses \ {"SYNCED", "CONFIRMED"},
           outbox' = [outbox EXCEPT ![e] = Flush(@, old, new)],
           document' = BatchTo(e, s) \/ document' = document,
           masterLast' = masterLast
    PROVE  /\ outbox' \in [Ids -> Rows]
           /\ document' \in [Ids -> DocStatuses]
           /\ ReportedIsRecorded'
<1>1. /\ Flush(outbox[e], old, new) \in Rows
      /\ Flush(outbox[e], old, new).status = "SENT" => outbox[e].status = "SENT"
    BY FlushRow DEF IInv, TypeOK
<1>2. outbox' \in [Ids -> Rows] /\ document' \in [Ids -> DocStatuses]
    BY <1>1 DEF IInv, TypeOK, BatchTo
<1>3. ASSUME NEW f \in Ids
      PROVE  /\ outbox'[f].status = "SENT" => outbox[f].status = "SENT"
             /\ document'[f] \in {"SYNCED", "CONFIRMED"} =>
                   document[f] \in {"SYNCED", "CONFIRMED"}
    BY <1>1 DEF IInv, TypeOK, BatchTo
<1>4. ReportedIsRecorded'
    BY <1>3 DEF IInv, ReportedIsRecorded
<1> QED
    BY <1>2, <1>4

\* Recovering, reloading, claiming and posting.
LEMMA DeliverIInv ==
    ASSUME IInv, NEW p \in Pushers,
           \/ RecoverInterrupted(p) \/ ReloadRecovered(p)
           \/ Claim(p) \/ PostEvent(p)
    PROVE  IInv'
<1> DEFINE e == target[p]
<1> USE DEF IInv
<1>1. CASE RecoverInterrupted(p)
  <2>1. e \in Ids
    BY <1>1 DEF RecoverInterrupted, Recovered, TypeOK, TargetsAreNext, Working, Ids
  <2>2. [status |-> "FAILED", next |-> "due", since |-> "null"] \in Rows
    BY DEF Rows, Statuses
  <2>3. /\ outbox' \in [Ids -> Rows]
        /\ ReportedIsRecorded'
    <3>1. "NONE" \in DocStatuses \ {"SYNCED", "CONFIRMED"}
      BY DEF DocStatuses
    <3>2. /\ outbox' = [outbox EXCEPT ![e] = Flush(@, loaded[p],
                          [status |-> "FAILED", next |-> "due", since |-> "null"])]
          /\ document' = document /\ masterLast' = masterLast
      BY <1>1 DEF RecoverInterrupted, Recovered
    <3>3. loaded[p] \in LoadedRows
      BY DEF TypeOK
    <3> QED
      BY <2>1, <2>2, <3>1, <3>2, <3>3, NonFinalWrite
  <2>4. TypeOK'
    BY <1>1, <2>3 DEF RecoverInterrupted, Recovered, TypeOK, Phases
  <2> QED
    BY <1>1, <2>3, <2>4
       DEF RecoverInterrupted, Recovered, TypeOK, TargetsAreNext, Working, AckIsRecorded, LateAreNext
<1>2. CASE ReloadRecovered(p)
  <2>1. e \in Ids
    BY <1>2 DEF ReloadRecovered, TypeOK, TargetsAreNext, Working, Ids
  <2>2. TypeOK'
    BY <1>2, <2>1, LoadRow, ConstantRows, ReplyMarks
       DEF ReloadRecovered, Leave, TypeOK, rowVars, Phases
  <2> QED
    BY <1>2, <2>2, ReplyMarks
       DEF ReloadRecovered, Leave, rowVars, TypeOK, TargetsAreNext, Working,
           AckIsRecorded, LateAreNext, ReportedIsRecorded
<1>3. CASE Claim(p)
  <2>1. e \in Ids
    BY <1>3 DEF Claim, TypeOK, TargetsAreNext, Working, Ids
  <2>2. [status |-> "SENDING", next |-> "null", since |-> "fresh"] \in Rows
    BY DEF Rows, Statuses
  <2>3. /\ outbox' \in [Ids -> Rows] /\ document' \in [Ids -> DocStatuses]
        /\ ReportedIsRecorded'
    BY <1>3, <2>1, <2>2, NonFinalWrite DEF Claim, TypeOK, DocStatuses
  <2>4. TypeOK'
    BY <1>3, <2>3 DEF Claim, TypeOK, Phases
  <2> QED
    BY <1>3, <2>3, <2>4
       DEF Claim, TypeOK, TargetsAreNext, Working, AckIsRecorded, LateAreNext
<1>4. CASE PostEvent(p)
  <2>1. e \in Ids
    BY <1>4 DEF PostEvent, TypeOK, TargetsAreNext, Working, Ids
  <2>2. TypeOK'
    BY <1>4, <2>1, LoadRow, ReplyMarks DEF PostEvent, TypeOK, rowVars, Phases
  <2> QED
    BY <1>4, <2>2, ReplyMarks
       DEF PostEvent, rowVars, TypeOK, TargetsAreNext, Working, AckIsRecorded,
           LateAreNext, ReportedIsRecorded
<1> QED
    BY <1>1, <1>2, <1>3, <1>4

\* Ending a delivery.  Only DeliverySucceeds assigns SENT, SYNCED and
\* CONFIRMED, and an acknowledgement is only given for a recorded event.
LEMMA FinishIInv ==
    ASSUME IInv, NEW p \in Pushers,
           RejectCorrupt(p) \/ DeliveryFails(p) \/ DeliverySucceeds(p)
    PROVE  IInv'
<1> DEFINE e == target[p]
<1> USE DEF IInv
<1>1. e \in Ids /\ sentCount[p] + 1 \in 0..Limit
  <2>1. Working(p)
    BY DEF RejectCorrupt, DeliveryFails, DeliverySucceeds, Working
  <2> QED
    BY <2>1 DEF TypeOK, TargetsAreNext, Ids
<1>2. ASSUME NEW retryable \in BOOLEAN, FailOutboxEvent(p, retryable),
             UNCHANGED <<top, kind, intact, enabled, review, late, masterLast, faults>>
      PROVE  IInv'
  <2>1. [status |-> "FAILED", since |-> "null",
         next |-> IF retryable THEN "later" ELSE "null"] \in Rows
    BY DEF Rows, Statuses
  <2>2. /\ outbox' \in [Ids -> Rows] /\ document' \in [Ids -> DocStatuses]
        /\ ReportedIsRecorded'
    BY <1>1, <1>2, <2>1, NonFinalWrite DEF FailOutboxEvent, TypeOK, DocStatuses
  <2>3. TypeOK'
    BY <1>2, <2>2, ConstantRows, ReplyMarks
       DEF FailOutboxEvent, Leave, TypeOK, Phases
  <2> QED
    BY <1>2, <2>2, <2>3, ReplyMarks
       DEF FailOutboxEvent, Leave, TypeOK, TargetsAreNext, Working,
           AckIsRecorded, LateAreNext
<1>3. CASE RejectCorrupt(p)
    BY <1>2, <1>3 DEF RejectCorrupt
<1>4. CASE DeliveryFails(p)
  <2>1. ReplyIsRetryable(post[p]) \in BOOLEAN
    BY DEF ReplyIsRetryable
  <2> QED
    BY <1>2, <1>4, <2>1 DEF DeliveryFails
<1>5. CASE DeliverySucceeds(p)
  <2>1. e <= masterLast
    BY <1>5 DEF DeliverySucceeds, Succeeds, AckIsRecorded
  <2>2. [status |-> "SENT", next |-> "null", since |-> "null"] \in Rows
    BY DEF Rows, Statuses
  <2>3. outbox' \in [Ids -> Rows]
    BY <1>1, <1>5, <2>2, FlushRow DEF DeliverySucceeds, Succeeds, TypeOK
  <2>4. document' \in [Ids -> DocStatuses]
    <3>1. (CASE kind[e] = "BATCH" -> "SYNCED"
             [] kind[e] = "RECEIPT" -> "CONFIRMED"
             [] OTHER -> document[e]) \in DocStatuses
      BY <1>1, Zenon DEF TypeOK, DocStatuses
    <3> QED
      BY <1>1, <1>5, <3>1, Zenon DEF DeliverySucceeds, Succeeds, TypeOK
  <2>5. TypeOK'
    BY <1>1, <1>5, <2>3, <2>4, ConstantRows, ReplyMarks
       DEF DeliverySucceeds, Succeeds, Leave, TypeOK, Phases
  <2>6. ReportedIsRecorded'
    BY <1>1, <1>5, <2>1 DEF DeliverySucceeds, Succeeds, TypeOK, ReportedIsRecorded
  <2> QED
    BY <1>1, <1>5, <2>5, <2>6, ReplyMarks
       DEF DeliverySucceeds, Succeeds, Leave, TypeOK, TargetsAreNext, Working,
           AckIsRecorded, LateAreNext
<1> QED
    BY <1>3, <1>4, <1>5

\* Master's cursor moves by at most one event and only to a committed one.
LEMMA RecordAdvances ==
    ASSUME IInv, NEW e \in 1..top, RecordIfNext(e)
    PROVE  /\ masterLast' \in 0..MaxEvents /\ masterLast' <= top
           /\ masterLast' \in {masterLast, masterLast + 1}
           /\ e <= masterLast + 1 => e <= masterLast'
BY DEF IInv, TypeOK, Ids, RecordIfNext

\* What was within reach of the old cursor is within reach of the new one.
LEMMA CursorMoves ==
    ASSUME IInv, masterLast' \in {masterLast, masterLast + 1},
           UNCHANGED <<top, outbox, document, phase, target, sentCount>>,
           late' \subseteq late
    PROVE  TargetsAreNext' /\ LateAreNext' /\ ReportedIsRecorded'
<1>1. masterLast' >= masterLast /\ masterLast' \in Int /\ masterLast \in Int
    BY DEF IInv, TypeOK
<1>2. TargetsAreNext'
    BY <1>1 DEF IInv, TypeOK, TargetsAreNext, Working, Ids
<1>3. LateAreNext'
  <2> SUFFICES ASSUME NEW f \in late' PROVE f \in 1..top' /\ f <= masterLast' + 1
    BY DEF LateAreNext
  <2>1. f \in 1..top /\ f <= masterLast + 1
    BY DEF IInv, LateAreNext
  <2>2. top' = top /\ top \in Int
    BY DEF IInv, TypeOK, Ids
  <2>3. f \in Int
    BY <2>1, <2>2
  <2>4. \A x, y, z \in Int : x <= y + 1 /\ z >= y => x <= z + 1
    OBVIOUS
  <2>5. f <= masterLast' + 1
    BY <1>1, <2>1, <2>3, <2>4
  <2> QED
    BY <2>1, <2>2, <2>5
<1>4. ReportedIsRecorded'
    BY <1>1 DEF IInv, TypeOK, ReportedIsRecorded, Ids
<1> QED
    BY <1>2, <1>3, <1>4

\* Master's answers, lost answers and timeouts.
LEMMA MasterIInv ==
    ASSUME IInv, NEW p \in Pushers, MasterStep(p)
    PROVE  IInv'
<1> DEFINE e == target[p]
<1> USE DEF IInv
<1>1. post[p] = Waiting
    BY DEF MasterStep, MasterAccepts, MasterRejects, AnswerSpoiled, RequestTimesOut
<1>2. phase[p] = "posted" /\ e \in 1..top /\ e \in Ids /\ e <= masterLast + 1
    BY <1>1, ReplyMarks DEF AckIsRecorded, TargetsAreNext, Working, TypeOK, Ids
<1>3. CASE MasterAccepts(p)
  <2>1. /\ masterLast' \in 0..MaxEvents /\ masterLast' <= top
        /\ masterLast' \in {masterLast, masterLast + 1}
        /\ e <= masterLast'
    BY <1>2, <1>3, RecordAdvances DEF MasterAccepts
  <2>2. MasterAnswer(e) \in Replies
    BY ReplyMarks DEF MasterAnswer
  <2>3. TypeOK'
    BY <1>3, <2>1, <2>2 DEF MasterAccepts, TypeOK, rowVars
  <2>4. TargetsAreNext' /\ LateAreNext' /\ ReportedIsRecorded'
    BY <1>3, <2>1, CursorMoves DEF MasterAccepts, rowVars
  <2>5. AckIsRecorded'
    <3> SUFFICES ASSUME NEW q \in Pushers
                 PROVE  /\ post'[q] # NoReply => phase'[q] = "posted"
                        /\ post'[q] = Acknowledged => target'[q] <= masterLast'
      BY DEF AckIsRecorded
    <3>1. target' = target /\ phase' = phase
      BY <1>3 DEF MasterAccepts
    <3>2. CASE q = p
      BY <1>2, <2>1, <3>1, <3>2
    <3>3. CASE q # p
      <4>1. post'[q] = post[q]
        BY <1>3, <3>3 DEF MasterAccepts, TypeOK
      <4>2. target[q] \in Int /\ masterLast \in Int /\ masterLast <= masterLast'
        BY <2>1 DEF TypeOK, Ids
      <4> QED
        BY <2>1, <3>1, <4>1, <4>2 DEF AckIsRecorded
    <3> QED
      BY <3>2, <3>3
  <2>6. masterLast' <= top'
    BY <1>3, <2>1 DEF MasterAccepts, rowVars
  <2> QED
    BY <2>3, <2>4, <2>5, <2>6
<1>4. ASSUME NEW err \in MasterErrors, MasterRejects(p, err) PROVE IInv'
  <2>1. TypeOK'
    BY <1>4, ErrorAnswers DEF MasterRejects, TypeOK, rowVars
  <2> QED
    BY <1>2, <1>4, <2>1, ErrorAnswers
       DEF MasterRejects, rowVars, TypeOK, TargetsAreNext, Working,
           AckIsRecorded, LateAreNext, ReportedIsRecorded
<1>5. ASSUME NEW how \in Spoilings, AnswerSpoiled(p, how) PROVE IInv'
  <2>1. /\ masterLast' \in 0..MaxEvents /\ masterLast' <= top
        /\ masterLast' \in {masterLast, masterLast + 1}
    BY <1>2, <1>5, RecordAdvances DEF AnswerSpoiled
  <2>2. TypeOK'
    BY <1>5, <2>1, ReplyMarks DEF AnswerSpoiled, TypeOK, rowVars
  <2>3. TargetsAreNext' /\ LateAreNext' /\ ReportedIsRecorded'
    BY <1>5, <2>1, CursorMoves DEF AnswerSpoiled, rowVars
  <2>4. AckIsRecorded'
    <3> SUFFICES ASSUME NEW q \in Pushers
                 PROVE  /\ post'[q] # NoReply => phase'[q] = "posted"
                        /\ post'[q] = Acknowledged => target'[q] <= masterLast'
      BY DEF AckIsRecorded
    <3>1. target' = target /\ phase' = phase
      BY <1>5 DEF AnswerSpoiled
    <3>2. CASE q = p
      <4>1. post'[p] = Reply(0, how)
        BY <1>5 DEF AnswerSpoiled, TypeOK
      <4> QED
        BY <1>2, <3>1, <3>2, <4>1, ReplyMarks
    <3>3. CASE q # p
      <4>1. post'[q] = post[q]
        BY <1>5, <3>3 DEF AnswerSpoiled, TypeOK
      <4>2. target[q] \in Int /\ masterLast \in Int /\ masterLast <= masterLast'
        BY <2>1 DEF TypeOK, Ids
      <4> QED
        BY <2>1, <3>1, <4>1, <4>2 DEF AckIsRecorded
    <3> QED
      BY <3>2, <3>3
  <2>5. masterLast' <= top'
    BY <1>5, <2>1 DEF AnswerSpoiled, rowVars
  <2> QED
    BY <2>2, <2>3, <2>4, <2>5
<1>6. CASE RequestTimesOut(p)
  <2>1. Reply(0, "network") \in Replies /\ Reply(0, "network") # Acknowledged
    BY ReplyMarks DEF Spoilings
  <2>2. TypeOK'
    BY <1>2, <1>6, <2>1 DEF RequestTimesOut, TypeOK, rowVars
  <2> QED
    BY <1>2, <1>6, <2>1, <2>2
       DEF RequestTimesOut, rowVars, TypeOK, TargetsAreNext, Working,
           AckIsRecorded, LateAreNext, ReportedIsRecorded
<1> QED
    BY <1>3, <1>4, <1>5, <1>6 DEF MasterStep

\* Manual retries, late requests, clocks and corruption.
LEMMA EventIInv ==
    ASSUME IInv, NEW e \in Ids, EventStep(e)
    PROVE  IInv'
<1> USE DEF IInv, pusherVars
<1>1. CASE OpenRetry(e)
  <2>1. TypeOK'
    BY <1>1, LoadRow DEF OpenRetry, TypeOK, rowVars
  <2> QED
    BY <1>1, <2>1 DEF OpenRetry, rowVars, TypeOK, TargetsAreNext, Working,
                      AckIsRecorded, LateAreNext, ReportedIsRecorded
<1>2. CASE RetryFailedEvent(e)
  <2>1. /\ outbox' \in [Ids -> Rows] /\ document' \in [Ids -> DocStatuses]
        /\ ReportedIsRecorded'
    <3>1. newRow \in Rows /\ newRow.status # "SENT"
      BY ConstantRows
    <3>2. "PENDING_SYNC" \in DocStatuses \ {"SYNCED", "CONFIRMED"}
      BY DEF DocStatuses
    <3> QED
      BY <1>2, <3>1, <3>2, NonFinalWrite DEF RetryFailedEvent, TypeOK
  <2>2. TypeOK'
    BY <1>2, <2>1, ConstantRows DEF RetryFailedEvent, TypeOK
  <2> QED
    BY <1>2, <2>1, <2>2
       DEF RetryFailedEvent, TypeOK, TargetsAreNext, Working, AckIsRecorded, LateAreNext
<1>3. CASE LateArrival(e)
  <2>1. /\ masterLast' \in 0..MaxEvents /\ masterLast' <= top
        /\ masterLast' \in {masterLast, masterLast + 1}
    BY <1>3, RecordAdvances DEF LateArrival, LateAreNext
  <2>2. TypeOK'
    BY <1>3, <2>1 DEF LateArrival, TypeOK, rowVars
  <2>3. TargetsAreNext' /\ LateAreNext' /\ ReportedIsRecorded'
    BY <1>3, <2>1, CursorMoves DEF LateArrival, rowVars
  <2>4. AckIsRecorded'
    BY <1>3, <2>1 DEF LateArrival, AckIsRecorded, TypeOK, Ids
  <2>5. masterLast' <= top'
    BY <1>3, <2>1 DEF LateArrival, rowVars
  <2> QED
    BY <2>2, <2>3, <2>4, <2>5
<1>4. CASE BackoffEnds(e) \/ ClaimExpires(e) \/ DeliveryOutlastsClaim(e)
  <2>1. /\ outbox' \in [Ids -> Rows]
        /\ \A f \in Ids : outbox'[f].status = outbox[f].status
    BY <1>4 DEF BackoffEnds, ClaimExpires, DeliveryOutlastsClaim, TypeOK, Rows
  <2>2. TypeOK'
    BY <1>4, <2>1 DEF BackoffEnds, ClaimExpires, DeliveryOutlastsClaim, TypeOK
  <2>3. UNCHANGED <<top, document, phase, target, sentCount, post, late, masterLast>>
    BY <1>4 DEF BackoffEnds, ClaimExpires, DeliveryOutlastsClaim
  <2> QED
    BY <2>1, <2>2, <2>3 DEF TargetsAreNext, Working, AckIsRecorded, LateAreNext,
                            ReportedIsRecorded
<1>5. CASE CorruptPayload(e)
  <2>1. TypeOK'
    BY <1>5 DEF CorruptPayload, TypeOK
  <2> QED
    BY <1>5, <2>1 DEF CorruptPayload, TypeOK, TargetsAreNext, Working,
                      AckIsRecorded, LateAreNext, ReportedIsRecorded
<1> QED
    BY <1>1, <1>2, <1>3, <1>4, <1>5 DEF EventStep

\* The process dies, or an administrator pauses and resumes the node.
LEMMA NodeIInv ==
    ASSUME IInv, Crash \/ Pause \/ Resume
    PROVE  IInv'
<1> USE DEF IInv
<1>1. CASE Crash
  <2>1. ASSUME NEW q \in Pushers, post[q] = Waiting
        PROVE  target[q] \in 1..top /\ target[q] \in Ids /\ target[q] <= masterLast + 1
    BY <2>1, ReplyMarks DEF AckIsRecorded, TargetsAreNext, Working, TypeOK, Ids
  <2>2. late' \subseteq Ids /\ LateAreNext'
    BY <1>1, <2>1 DEF Crash, LateAreNext, TypeOK, rowVars
  <2>3. TypeOK'
    BY <1>1, <2>2, ConstantRows, ReplyMarks DEF Crash, TypeOK, rowVars, Phases
  <2> QED
    BY <1>1, <2>2, <2>3, ReplyMarks
       DEF Crash, rowVars, TypeOK, TargetsAreNext, Working, AckIsRecorded,
           ReportedIsRecorded
<1>2. CASE Pause \/ Resume
  <2>1. enabled' \in BOOLEAN
    BY <1>2, Zenon DEF Pause, Resume
  <2>2. /\ UNCHANGED <<rowVars, pusherVars, review, late, masterLast>>
        /\ faults' \in 0..MaxFaults
    BY <1>2 DEF Pause, Resume, TypeOK
  <2>3. TypeOK'
    BY <2>1, <2>2 DEF TypeOK, rowVars, pusherVars
  <2> QED
    BY <2>2, <2>3 DEF rowVars, pusherVars, TargetsAreNext, Working,
                      AckIsRecorded, LateAreNext, ReportedIsRecorded
<1> QED
    BY <1>1, <1>2

\* Every step preserves the inductive invariant.
LEMMA NextIInv == IInv /\ [Next]_vars => IInv'
<1> SUFFICES ASSUME IInv, [Next]_vars PROVE IInv'
    OBVIOUS
<1>1. ASSUME NEW p \in Pushers, PushStep(p) PROVE IInv'
    BY <1>1, TakeUpIInv, DeliverIInv, FinishIInv DEF PushStep
<1>2. CASE Next
    BY <1>1, <1>2, EnqueueIInv, MasterIInv, EventIInv, NodeIInv DEF Next
<1>3. CASE UNCHANGED vars
    BY <1>3 DEF vars, IInv, TypeOK, TargetsAreNext, Working, AckIsRecorded,
                LateAreNext, ReportedIsRecorded
<1> QED
    BY <1>2, <1>3

-----------------------------------------------------------------------------
\* The variables of every reachable state have their types: in particular one
\* call never sends more than its limit.
THEOREM TypeCorrect == Spec => []TypeOK
<1>1. IInv => TypeOK
    BY DEF IInv
<1> QED
    BY InitIInv, NextIInv, <1>1, PTL DEF Spec

\* push_pending_events never sends Master an event that leaves a gap, however
\* many pushers race and however often claims are recovered.
THEOREM NeverSendsGap == Spec => []NoSequenceGap
<1>1. IInv => NoSequenceGap
    BY DEF IInv, NoSequenceGap, TargetsAreNext, Working, LateAreNext
<1> QED
    BY InitIInv, NextIInv, <1>1, PTL DEF Spec

\* What the franchise sees as delivered, Master has recorded.
THEOREM ReportsAreTrue == Spec => []ReportedIsRecorded
<1>1. IInv => ReportedIsRecorded
    BY DEF IInv
<1> QED
    BY InitIInv, NextIInv, <1>1, PTL DEF Spec

-----------------------------------------------------------------------------
(* Refinement of EventLog.                                                 *)

SentEvents == {e \in Ids : outbox[e].status = "SENT"}

\* A step that writes one row confirms it, reopens it or changes nothing.
LEMMA OneRowStep ==
    ASSUME IInv, IInv', NEW e \in Ids, NEW row,
           outbox' = [outbox EXCEPT ![e] = row], UNCHANGED <<top, masterLast>>
    PROVE  [Log!Next]_(Log!logVars)
<1>1. \A f \in Ids : f # e => outbox'[f] = outbox[f]
    BY DEF IInv, TypeOK
<1>2. CASE outbox'[e].status = "SENT"
  <2>1. SentEvents' = SentEvents \cup {e}
    BY <1>1, <1>2 DEF SentEvents
  <2>2. e \in 1..masterLast
    BY <1>2 DEF IInv, ReportedIsRecorded, TypeOK, Ids
  <2> QED
    BY <2>1, <2>2 DEF Log!Next, Log!Confirm, SentEvents
<1>3. CASE outbox'[e].status # "SENT" /\ outbox[e].status = "SENT"
  <2>1. SentEvents' = SentEvents \ {e} /\ e \in SentEvents
    BY <1>1, <1>3 DEF SentEvents
  <2> QED
    BY <2>1 DEF Log!Next, Log!Reopen, SentEvents
<1>4. CASE outbox'[e].status # "SENT" /\ outbox[e].status # "SENT"
  <2>1. SentEvents' = SentEvents
    BY <1>1, <1>4 DEF SentEvents
  <2> QED
    BY <2>1 DEF Log!logVars, SentEvents
<1> QED
    BY <1>2, <1>3, <1>4

\* A step that leaves the rows alone stutters or records the next event.
LEMMA CursorStep ==
    ASSUME IInv, IInv', UNCHANGED <<top, outbox>>,
           masterLast' \in {masterLast, masterLast + 1}
    PROVE  [Log!Next]_(Log!logVars)
<1>1. SentEvents' = SentEvents
    BY DEF SentEvents
<1>2. CASE masterLast' = masterLast
    BY <1>1, <1>2 DEF Log!logVars, SentEvents
<1>3. CASE masterLast' = masterLast + 1
  <2>1. masterLast < top
    BY <1>3 DEF IInv, TypeOK, Ids
  <2> QED
    BY <1>1, <1>3, <2>1 DEF Log!Next, Log!Record, SentEvents
<1> QED
    BY <1>2, <1>3

\* Enqueueing commits one event; the new row is not SENT and was not.
LEMMA CommitStep ==
    ASSUME IInv, IInv', NEW k \in EventKinds, EnqueueOutboxEvent(k)
    PROVE  [Log!Next]_(Log!logVars)
<1>1. top + 1 \in Ids /\ ~(top + 1 <= masterLast)
    BY DEF EnqueueOutboxEvent, IInv, TypeOK, Ids
<1>2. outbox[top + 1].status # "SENT"
    BY <1>1 DEF IInv, ReportedIsRecorded
<1>3. SentEvents' = SentEvents
    BY <1>1, <1>2, ConstantRows DEF EnqueueOutboxEvent, SentEvents, IInv, TypeOK
<1> QED
    BY <1>3 DEF EnqueueOutboxEvent, Log!Next, Log!Commit, SentEvents

\* Every step of a pusher is a step of the log.
LEMMA PushLogStep ==
    ASSUME IInv, IInv', NEW p \in Pushers, PushStep(p)
    PROVE  [Log!Next]_(Log!logVars)
<1>1. ASSUME Working(p) PROVE target[p] \in Ids
    BY <1>1 DEF IInv, TypeOK, TargetsAreNext, Ids
<1>2. ASSUME \/ StartPush(p) \/ (\E e \in Ids : Pick(p, e)) \/ StopPush(p)
             \/ ReloadRecovered(p) \/ PostEvent(p)
      PROVE  UNCHANGED <<top, outbox>> /\ masterLast' = masterLast
    BY <1>2 DEF StartPush, Pick, StopPush, ReloadRecovered, PostEvent, rowVars
<1>3. CASE \/ StartPush(p) \/ (\E e \in Ids : Pick(p, e)) \/ StopPush(p)
           \/ ReloadRecovered(p) \/ PostEvent(p)
    BY <1>2, <1>3, CursorStep
<1>4. CASE RecoverInterrupted(p)
  <2>1. target[p] \in Ids
    BY <1>1, <1>4 DEF RecoverInterrupted, Recovered, Working
  <2> QED
    BY <1>4, <2>1, OneRowStep DEF RecoverInterrupted, Recovered
<1>5. CASE Claim(p)
  <2>1. target[p] \in Ids
    BY <1>1, <1>5 DEF Claim, Working
  <2> QED
    BY <1>5, <2>1, OneRowStep DEF Claim
<1>6. CASE RejectCorrupt(p)
  <2>1. target[p] \in Ids
    BY <1>1, <1>6 DEF RejectCorrupt, Working
  <2> QED
    BY <1>6, <2>1, OneRowStep DEF RejectCorrupt, FailOutboxEvent
<1>7. CASE DeliveryFails(p)
  <2>1. target[p] \in Ids
    BY <1>1, <1>7 DEF DeliveryFails, Working
  <2> QED
    BY <1>7, <2>1, OneRowStep DEF DeliveryFails, FailOutboxEvent
<1>8. CASE DeliverySucceeds(p)
  <2>1. target[p] \in Ids
    BY <1>1, <1>8 DEF DeliverySucceeds, Succeeds, Working
  <2>2. /\ outbox' = [outbox EXCEPT ![target[p]] =
                        Flush(outbox[target[p]], loaded[p],
                              [status |-> "SENT", next |-> "null", since |-> "null"])]
        /\ UNCHANGED <<top, masterLast>>
    BY <1>8 DEF DeliverySucceeds, Succeeds
  <2> QED
    BY <2>1, <2>2, OneRowStep
<1> QED
    BY <1>3, <1>4, <1>5, <1>6, <1>7, <1>8 DEF PushStep

\* Every other step is a step of the log, too.
LEMMA OtherLogStep ==
    ASSUME IInv, IInv',
           \/ \E p \in Pushers : MasterStep(p)
           \/ \E e \in Ids : EventStep(e)
           \/ Crash \/ Pause \/ Resume
    PROVE  [Log!Next]_(Log!logVars)
<1>1. masterLast \in Int
    BY DEF IInv, TypeOK
<1>2. ASSUME NEW p \in Pushers, MasterStep(p) PROVE [Log!Next]_(Log!logVars)
  <2>1. UNCHANGED <<top, outbox>> /\ masterLast' \in {masterLast, masterLast + 1}
    BY <1>1, <1>2 DEF MasterStep, MasterAccepts, MasterRejects, AnswerSpoiled,
                      RequestTimesOut, RecordIfNext, rowVars
  <2> QED
    BY <2>1, CursorStep
<1>3. ASSUME NEW e \in Ids, EventStep(e) PROVE [Log!Next]_(Log!logVars)
  <2>1. CASE OpenRetry(e) \/ LateArrival(e) \/ CorruptPayload(e)
    <3>1. UNCHANGED <<top, outbox>> /\ masterLast' \in {masterLast, masterLast + 1}
      BY <1>1, <2>1 DEF OpenRetry, LateArrival, CorruptPayload, RecordIfNext, rowVars
    <3> QED
      BY <3>1, CursorStep
  <2>2. CASE RetryFailedEvent(e)
    BY <2>2, OneRowStep DEF RetryFailedEvent
  <2>3. CASE BackoffEnds(e)
    BY <2>3, OneRowStep DEF BackoffEnds
  <2>4. CASE ClaimExpires(e) \/ DeliveryOutlastsClaim(e)
    BY <2>4, OneRowStep DEF ClaimExpires, DeliveryOutlastsClaim
  <2> QED
    BY <1>3, <2>1, <2>2, <2>3, <2>4 DEF EventStep
<1>4. CASE Crash \/ Pause \/ Resume
  <2>1. UNCHANGED <<top, outbox>> /\ masterLast' \in {masterLast, masterLast + 1}
    BY <1>4 DEF Crash, Pause, Resume, rowVars
  <2> QED
    BY <2>1, CursorStep
<1> QED
    BY <1>2, <1>3, <1>4

\* The outbox, its pushers and Master implement the event log: events reach
\* Master once each, in commit order, and only recorded events are confirmed.
THEOREM OutboxImplementsEventLog == Spec => ImplementsEventLog
<1>1. Init => Log!Init
    BY ConstantRows DEF Init, Log!Init, Ids
<1>2. IInv /\ IInv' /\ [Next]_vars => [Log!Next]_(Log!logVars)
  <2> SUFFICES ASSUME IInv, IInv', [Next]_vars PROVE [Log!Next]_(Log!logVars)
    OBVIOUS
  <2>1. CASE UNCHANGED vars
    BY <2>1 DEF vars, Log!logVars
  <2>2. CASE Next
    BY <2>2, CommitStep, PushLogStep, OtherLogStep DEF Next
  <2> QED
    BY <2>1, <2>2
<1> QED
    BY InitIInv, NextIInv, <1>1, <1>2, PTL DEF Spec, ImplementsEventLog, Log!Spec

=============================================================================
