------------------------- MODULE MasterInboxProofs -------------------------
(***************************************************************************)
(* Machine-checked proofs about MasterInbox for every number of pollers,   *)
(* commands, faults and conflicting replays.                               *)
(***************************************************************************)
EXTENDS MasterInbox, TLAPS

USE NAssumption, InboxBoundsAssumption

\* The initial state satisfies the inductive invariant.
LEMMA InitIInv == Init => IInv
BY DEF Init, IInv, TypeOK, Commands, Phases, ExactlyOnce, AppliedInOrder,
       AckedIsApplied, TodoIsSuffix, ReadyToAck

\* Going on with an unchanged database.
LEMMA SameRows ==
    ASSUME IInv, TypeOK', UNCHANGED <<rowVars, acked>>, TodoIsSuffix', ReadyToAck'
    PROVE  IInv'
BY DEF IInv, rowVars, ExactlyOnce, AppliedInOrder, AckedIsApplied

\* A fetched list leaves out only acknowledged, hence applied, commands.
LEMMA FetchIInv ==
    ASSUME IInv, NEW p \in Pollers,
           Fetch(p) \/ \E c \in Commands : FetchConflicting(p, c)
    PROVE  IInv'
<1>1. /\ phase' = [phase EXCEPT ![p] = "fetched"]
      /\ todo' = [todo EXCEPT ![p] = Unacked]
      /\ UNCHANGED <<rowVars, acked>>
    BY DEF Fetch, FetchConflicting, Go, masterVars
<1>2. Unacked \subseteq Commands
    BY DEF Unacked, IInv, TypeOK, Commands
<1>3. TypeOK'
  <2>1. CASE Fetch(p)
    BY <1>2, <2>1 DEF IInv, TypeOK, Fetch, Go, masterVars, rowVars, Phases
  <2>2. ASSUME NEW c \in Commands, FetchConflicting(p, c) PROVE TypeOK'
    BY <1>2, <2>2 DEF IInv, TypeOK, FetchConflicting, Go, masterVars, rowVars,
                      Phases, Commands
  <2> QED
    BY <2>1, <2>2
<1>4. ASSUME NEW d \in Unacked, NEW c \in Commands, c < d
      PROVE  c \in Unacked \/ row[c] = "APPLIED"
    BY <1>4 DEF Unacked, IInv, TypeOK, AckedIsApplied, Commands
<1>5. TodoIsSuffix'
    BY <1>1, <1>4 DEF IInv, TypeOK, TodoIsSuffix, rowVars
<1>6. ReadyToAck'
    BY <1>1 DEF IInv, TypeOK, ReadyToAck, IsCurrent, rowVars
<1> QED
    BY <1>1, <1>3, <1>5, <1>6, SameRows

\* Selecting the row of the current command.
LEMMA LoadIInv ==
    ASSUME IInv, NEW p \in Pollers, NEW c \in Commands, LoadRow(p, c)
    PROVE  IInv'
<1>1. TypeOK'
    BY DEF IInv, TypeOK, LoadRow, Verdict, Go, masterVars, rowVars, Phases
<1>2. TodoIsSuffix'
    BY DEF IInv, TypeOK, LoadRow, Verdict, rowVars, TodoIsSuffix
<1>3. ReadyToAck'
  <2> SUFFICES ASSUME NEW q \in Pollers, NEW d \in Commands,
                      phase'[q] = "ack", IsCurrent(q, d)'
               PROVE  row'[d] = "APPLIED"
    BY DEF ReadyToAck
  <2>1. row' = row /\ todo' = todo
    BY DEF LoadRow, rowVars
  <2>2. IsCurrent(q, d)
    BY <2>1 DEF IsCurrent
  <2>3. CASE q # p
    BY <2>1, <2>2, <2>3 DEF IInv, TypeOK, LoadRow, Verdict, Go, ReadyToAck
  <2>4. CASE q = p
    <3>1. IsCurrent(p, c) /\ row[c] = "APPLIED"
      BY <2>4 DEF IInv, TypeOK, LoadRow, Verdict, Go
    <3>2. c = d
      BY <2>2, <2>4, <3>1 DEF IsCurrent, Commands
    <3> QED
      BY <2>1, <3>1, <3>2
  <2> QED
    BY <2>3, <2>4
<1> QED
    BY <1>1, <1>2, <1>3, SameRows DEF LoadRow, masterVars

\* Committing a command: it is the first one left of the list, so all the
\* earlier ones are applied, and the handler's own check keeps its effect
\* single.
LEMMA CommitIInv ==
    ASSUME IInv, NEW p \in Pollers, NEW c \in Commands,
           ApplyNew(p, c) \/ ApplyAgain(p, c)
    PROVE  IInv'
<1>1. /\ IsCurrent(p, c) /\ ApplyCommit(p, c)
      /\ UNCHANGED <<masterVars, todo, odd, seen, faults, conflicts>>
    BY DEF ApplyNew, ApplyAgain
<1>2. effects[c] = IF row[c] = "APPLIED" THEN 1 ELSE 0
    BY DEF IInv, ExactlyOnce
<1>3. effects' = [effects EXCEPT ![c] = 1]
  <2>1. (IF effects[c] = 0 THEN effects[c] + 1 ELSE effects[c]) = 1
    BY <1>2
  <2>2. effects' = [effects EXCEPT ![c] =
                      IF effects[c] = 0 THEN effects[c] + 1 ELSE effects[c]]
    BY <1>1 DEF ApplyCommit, HandlerChanges
  <2> QED
    BY <2>1, <2>2
<1>4. row' = [row EXCEPT ![c] = "APPLIED"] /\ phase' = [phase EXCEPT ![p] = "ack"]
    BY <1>1 DEF ApplyCommit, Go
<1>5. hash' \in [Commands -> {"none", "true", "odd"}]
    BY <1>1 DEF ApplyCommit, Payload, IInv, TypeOK
<1>6. TypeOK'
    BY <1>1, <1>3, <1>4, <1>5 DEF IInv, TypeOK, masterVars, Phases
<1>7. ExactlyOnce'
    BY <1>3, <1>4 DEF IInv, TypeOK, ExactlyOnce
<1>8. \A d \in Commands : d < c => row[d] = "APPLIED"
  <2> SUFFICES ASSUME NEW d \in Commands, d < c PROVE row[d] = "APPLIED"
    OBVIOUS
  <2>1. c \in todo[p] /\ d \notin todo[p]
    BY <1>1 DEF IsCurrent, Commands
  <2> QED
    BY <2>1 DEF IInv, TodoIsSuffix
<1>9. AppliedInOrder'
    BY <1>4, <1>8 DEF IInv, TypeOK, AppliedInOrder
<1>10. AckedIsApplied' /\ TodoIsSuffix'
    BY <1>1, <1>4 DEF IInv, TypeOK, AckedIsApplied, TodoIsSuffix, masterVars
<1>11. ReadyToAck'
  <2> SUFFICES ASSUME NEW q \in Pollers, NEW d \in Commands,
                      phase'[q] = "ack", IsCurrent(q, d)'
               PROVE  row'[d] = "APPLIED"
    BY DEF ReadyToAck
  <2>1. IsCurrent(q, d)
    BY <1>1 DEF IsCurrent
  <2>2. CASE q # p
    BY <1>4, <2>1, <2>2 DEF IInv, TypeOK, ReadyToAck
  <2>3. CASE q = p
    <3>1. c = d
      BY <1>1, <2>1, <2>3 DEF IsCurrent, Commands
    <3> QED
      BY <1>4, <3>1 DEF IInv, TypeOK
  <2> QED
    BY <2>2, <2>3
<1> QED
    BY <1>6, <1>7, <1>9, <1>10, <1>11 DEF IInv

\* Steps that only move a poller, other than to an acknowledgement.
LEMMA MoveIInv ==
    ASSUME IInv, TypeOK', NEW p \in Pollers, NEW where \in Phases \ {"ack"},
           phase' = [phase EXCEPT ![p] = where],
           \A q \in Pollers : q # p => todo'[q] = todo[q],
           todo'[p] \in {todo[p], {}},
           UNCHANGED <<rowVars, acked>>
    PROVE  IInv'
<1>1. TodoIsSuffix'
    BY DEF IInv, TypeOK, TodoIsSuffix, rowVars
<1>2. ReadyToAck'
  <2> SUFFICES ASSUME NEW q \in Pollers, NEW d \in Commands,
                      phase'[q] = "ack", IsCurrent(q, d)'
               PROVE  row'[d] = "APPLIED"
    BY DEF ReadyToAck
  <2>1. q # p
    BY DEF IInv, TypeOK
  <2>2. phase[q] = "ack" /\ IsCurrent(q, d)
    BY <2>1 DEF IInv, TypeOK, IsCurrent
  <2> QED
    BY <2>2 DEF IInv, ReadyToAck, rowVars
<1> QED
    BY <1>1, <1>2, SameRows

\* Failures, collisions and refusals, and the end of a call.
LEMMA FailIInv ==
    ASSUME IInv, NEW p \in Pollers,
           \/ PollDone(p) \/ HandlerFails(p)
           \/ \E c \in Commands : \/ InsertCollides(p, c) \/ RepetitionRefused(p, c)
                                  \/ PersistLooks(p, c)
    PROVE  IInv'
<1> USE DEF masterVars
<1>1. CASE PollDone(p)
  <2>1. TypeOK'
    BY <1>1 DEF PollDone, Return, IInv, TypeOK, rowVars, Phases
  <2> QED
    BY <1>1, <2>1, MoveIInv DEF PollDone, Return, IInv, TypeOK, Phases
<1>2. CASE HandlerFails(p)
  <2>1. TypeOK'
    BY <1>2 DEF HandlerFails, Go, IInv, TypeOK, rowVars, Phases
  <2> QED
    BY <1>2, <2>1, MoveIInv DEF HandlerFails, Go, Phases
<1>3. ASSUME NEW c \in Commands, InsertCollides(p, c) \/ RepetitionRefused(p, c)
      PROVE  IInv'
  <2>1. TypeOK'
    BY <1>3 DEF InsertCollides, RepetitionRefused, Go, IInv, TypeOK, rowVars, Phases
  <2> QED
    BY <1>3, <2>1, MoveIInv DEF InsertCollides, RepetitionRefused, Go, Phases
<1>4. ASSUME NEW c \in Commands, PersistLooks(p, c) PROVE IInv'
  <2>1. CASE row[c] = "APPLIED"
    <3>1. TypeOK'
      BY <1>4, <2>1 DEF PersistLooks, Return, IInv, TypeOK, rowVars, Phases
    <3> QED
      BY <1>4, <2>1, <3>1, MoveIInv DEF PersistLooks, Return, IInv, TypeOK, Phases
  <2>2. CASE row[c] # "APPLIED"
    <3>1. row[c] \in {"NONE", "FAILED"}
      BY <2>2 DEF IInv, TypeOK
    <3>2. TypeOK'
      BY <1>4, <2>2, <3>1 DEF PersistLooks, Go, IInv, TypeOK, rowVars, Phases
    <3> QED
      BY <1>4, <2>2, <3>2, MoveIInv DEF PersistLooks, Go, Phases
  <2> QED
    BY <2>1, <2>2
<1> QED
    BY <1>1, <1>2, <1>3, <1>4

\* Storing a failure: only a missing row becomes FAILED.
LEMMA PersistIInv ==
    ASSUME IInv, NEW p \in Pollers, NEW c \in Commands, PersistWrites(p, c)
    PROVE  IInv'
<1> USE DEF PersistWrites, masterVars
<1>1. CASE seen[p] = "NONE" /\ row[c] = "NONE"
  <2>1. row' = [row EXCEPT ![c] = "FAILED"] /\ effects' = effects
    BY <1>1
  <2>2. TypeOK'
    BY <1>1 DEF Return, Payload, IInv, TypeOK, Phases
  <2>3. \A d \in Commands : (row'[d] = "APPLIED") <=> (row[d] = "APPLIED")
    BY <1>1, <2>1 DEF IInv, TypeOK
  <2>4. ExactlyOnce' /\ AppliedInOrder'
    BY <2>1, <2>3 DEF IInv, ExactlyOnce, AppliedInOrder
  <2>5. AckedIsApplied'
    BY <2>3 DEF IInv, TypeOK, AckedIsApplied
  <2>6. todo' = [todo EXCEPT ![p] = {}] /\ phase' = [phase EXCEPT ![p] = "idle"]
    BY DEF Return
  <2>7. TodoIsSuffix'
    BY <2>3, <2>6 DEF IInv, TypeOK, TodoIsSuffix
  <2>8. ReadyToAck'
    BY <2>3, <2>6 DEF IInv, TypeOK, ReadyToAck, IsCurrent
  <2> QED
    BY <2>2, <2>4, <2>5, <2>7, <2>8 DEF IInv
<1>2. CASE ~(seen[p] = "NONE" /\ row[c] = "NONE")
  <2>1. TypeOK'
    BY <1>2 DEF Return, IInv, TypeOK, Phases
  <2>2. /\ phase' = [phase EXCEPT ![p] = "idle"]
        /\ todo' = [todo EXCEPT ![p] = {}]
        /\ UNCHANGED <<row, hash, effects, acked>>
    BY <1>2 DEF Return
  <2>3. /\ \A q \in Pollers : q # p => todo'[q] = todo[q]
        /\ todo'[p] = {}
    BY <2>2 DEF IInv, TypeOK
  <2>4. "idle" \in Phases \ {"ack"}
    BY DEF Phases
  <2> QED
    BY <2>1, <2>2, <2>3, <2>4, MoveIInv DEF rowVars
<1> QED
    BY <1>1, <1>2

\* Acknowledging: the current command is applied.
LEMMA AckIInv ==
    ASSUME IInv, NEW p \in Pollers, NEW c \in Commands,
           Acknowledge(p, c) \/ AcknowledgeFails(p, c)
    PROVE  IInv'
<1>1. row[c] = "APPLIED" /\ UNCHANGED rowVars
    BY DEF Acknowledge, AcknowledgeFails, IInv, ReadyToAck
<1>2. acked' \in {acked, acked \cup {c}}
    BY DEF Acknowledge, AcknowledgeFails
<1>3. AckedIsApplied'
    BY <1>1, <1>2 DEF IInv, AckedIsApplied, rowVars
<1>4. /\ \/ todo' = [todo EXCEPT ![p] = @ \ {c}]
         \/ todo' = [todo EXCEPT ![p] = {}]
      /\ \/ phase' = [phase EXCEPT ![p] = "fetched"]
         \/ phase' = [phase EXCEPT ![p] = "idle"]
    BY DEF Acknowledge, AcknowledgeFails, Return, Go
<1>5. TypeOK'
  <2>1. CASE Acknowledge(p, c)
    BY <2>1, <1>2 DEF Acknowledge, Go, IInv, TypeOK, rowVars, Phases
  <2>2. CASE AcknowledgeFails(p, c)
    BY <2>2, <1>2 DEF AcknowledgeFails, Return, IInv, TypeOK, rowVars, Phases
  <2> QED
    BY <2>1, <2>2
<1>6. TodoIsSuffix'
  <2> SUFFICES ASSUME NEW q \in Pollers, NEW d \in todo'[q], NEW e \in Commands, e < d
               PROVE  e \in todo'[q] \/ row'[e] = "APPLIED"
    BY DEF TodoIsSuffix
  <2>1. d \in todo[q] /\ row' = row
    BY <1>1, <1>4 DEF IInv, TypeOK, rowVars
  <2>2. e \in todo[q] \/ row[e] = "APPLIED"
    BY <2>1 DEF IInv, TodoIsSuffix
  <2> QED
    BY <1>1, <1>4, <2>1, <2>2 DEF IInv, TypeOK
<1>7. ReadyToAck'
  <2> SUFFICES ASSUME NEW q \in Pollers, NEW d \in Commands,
                      phase'[q] = "ack", IsCurrent(q, d)'
               PROVE  row'[d] = "APPLIED"
    BY DEF ReadyToAck
  <2>1. q # p
    BY <1>4 DEF IInv, TypeOK
  <2>2. phase[q] = "ack" /\ IsCurrent(q, d)
    BY <1>4, <2>1 DEF IInv, TypeOK, IsCurrent
  <2> QED
    BY <1>1, <2>2 DEF IInv, ReadyToAck, rowVars
<1> QED
    BY <1>1, <1>3, <1>5, <1>6, <1>7
       DEF IInv, rowVars, ExactlyOnce, AppliedInOrder

\* Master issues a command, or the process dies.
LEMMA OutsideIInv ==
    ASSUME IInv, MasterIssues \/ Crash
    PROVE  IInv'
<1>1. CASE MasterIssues
  <2>1. TypeOK'
    BY <1>1 DEF MasterIssues, IInv, TypeOK, rowVars
  <2> QED
    BY <1>1, <2>1, SameRows
       DEF MasterIssues, IInv, TypeOK, rowVars, TodoIsSuffix, ReadyToAck, IsCurrent
<1>2. CASE Crash
  <2>1. TypeOK'
    BY <1>2 DEF Crash, IInv, TypeOK, rowVars, masterVars, Phases
  <2> QED
    BY <1>2, <2>1, SameRows
       DEF Crash, IInv, TypeOK, rowVars, masterVars, TodoIsSuffix, ReadyToAck
<1> QED
    BY <1>1, <1>2

\* Every step preserves the inductive invariant.
LEMMA NextIInv == IInv /\ [Next]_vars => IInv'
<1> SUFFICES ASSUME IInv, [Next]_vars PROVE IInv'
    OBVIOUS
<1>1. ASSUME NEW p \in Pollers, NEW c \in Commands, CommandStep(p, c) PROVE IInv'
    BY <1>1, LoadIInv, CommitIInv, FailIInv, PersistIInv, AckIInv DEF CommandStep
<1>2. CASE Next
    BY <1>1, <1>2, FetchIInv, FailIInv, AckIInv, OutsideIInv DEF Next, PollStep
<1>3. CASE UNCHANGED vars
    BY <1>3 DEF vars, IInv, TypeOK, ExactlyOnce, AppliedInOrder, AckedIsApplied,
                TodoIsSuffix, ReadyToAck, IsCurrent
<1> QED
    BY <1>2, <1>3

-----------------------------------------------------------------------------
\* The variables of every reachable state have their types.
THEOREM TypeCorrect == Spec => []TypeOK
<1>1. IInv => TypeOK
    BY DEF IInv
<1> QED
    BY InitIInv, NextIInv, <1>1, PTL DEF Spec

\* A command changes inventory exactly once, and that change and the APPLIED
\* mark become durable together.
THEOREM CommandsApplyOnce == Spec => []ExactlyOnce
<1>1. IInv => ExactlyOnce
    BY DEF IInv
<1> QED
    BY InitIInv, NextIInv, <1>1, PTL DEF Spec

\* Commands are applied in the order Master issued them, and Master is told
\* only of applied ones.
THEOREM CommandsApplyInOrder == Spec => [](AppliedInOrder /\ AckedIsApplied)
<1>1. IInv => AppliedInOrder /\ AckedIsApplied
    BY DEF IInv
<1> QED
    BY InitIInv, NextIInv, <1>1, PTL DEF Spec

\* No replay, failure or race erases the proof that a command was applied.
THEOREM AppliedProofKept == Spec => ProofKept
<1>1. IInv /\ [Next]_vars =>
        [\A c \in Commands : row[c] = "APPLIED" =>
            row'[c] = "APPLIED" /\ hash'[c] = hash[c]]_vars
  <2> SUFFICES ASSUME IInv, Next, NEW c \in Commands, row[c] = "APPLIED"
               PROVE  row'[c] = "APPLIED" /\ hash'[c] = hash[c]
    BY DEF vars
  <2>1. CASE UNCHANGED rowVars
    BY <2>1 DEF rowVars
  <2>2. ASSUME NEW p \in Pollers, NEW d \in Commands, ApplyCommit(p, d)
        PROVE  row'[c] = "APPLIED" /\ hash'[c] = hash[c]
    BY <2>2 DEF ApplyCommit, IInv, TypeOK
  <2>3. ASSUME NEW p \in Pollers, NEW d \in Commands, PersistWrites(p, d)
        PROVE  row'[c] = "APPLIED" /\ hash'[c] = hash[c]
    BY <2>3 DEF PersistWrites, IInv, TypeOK
  <2>4. ASSUME NEW p \in Pollers, NEW d \in Commands, CommandStep(p, d)
        PROVE  row'[c] = "APPLIED" /\ hash'[c] = hash[c]
    BY <2>1, <2>2, <2>3, <2>4
       DEF CommandStep, LoadRow, ApplyNew, InsertCollides, ApplyAgain,
           RepetitionRefused, PersistLooks, Acknowledge
  <2>5. ASSUME \/ MasterIssues \/ Crash
               \/ \E p \in Pollers :
                     \/ Fetch(p) \/ PollDone(p) \/ HandlerFails(p)
                     \/ \E d \in Commands :
                           FetchConflicting(p, d) \/ AcknowledgeFails(p, d)
        PROVE  UNCHANGED rowVars
    BY <2>5 DEF MasterIssues, Crash, Fetch, PollDone, HandlerFails,
                FetchConflicting, AcknowledgeFails
  <2> QED
    BY <2>1, <2>4, <2>5 DEF Next, PollStep
<1> QED
    BY InitIInv, NextIInv, <1>1, PTL DEF Spec, ProofKept

=============================================================================
