---------------------------- MODULE MasterInbox ----------------------------
(***************************************************************************)
(* Commands from Setuora Master (poll_master_commands and                  *)
(* apply_master_command in app/services/master_sync.py).                   *)
(*                                                                         *)
(* A poller fetches the unacknowledged commands in order, applies each in  *)
(* one local transaction that also marks its inbox row APPLIED, then       *)
(* acknowledges it to Master with a PATCH.  The worker thread and request  *)
(* threads of POST /sync and POST /connect poll at the same time.  A       *)
(* SELECT sees the last commit and takes no lock; the first write of a     *)
(* transaction takes SQLite's single write lock until commit, so what      *)
(* follows it is one step here and what was read before it may be stale.   *)
(***************************************************************************)
EXTENDS Integers, FiniteSets

CONSTANTS
    Pollers,      \* threads that run poll_master_commands
    Workers,      \* those of them that are the background worker
    N,            \* Master issues commands 1..N in this order
    Refusing,     \* commands whose handler rejects a repetition (QR_ALLOCATED,
                  \* QR_REPLACE); the others treat one as already done
    MaxFaults,    \* bound: crashes, lost calls and refused commands
    MaxConflicts  \* bound: replays of a command with another payload

ASSUME NAssumption == N \in Nat \ {0}
ASSUME InboxPollersAssumption == Workers \subseteq Pollers
ASSUME RefusingAssumption == Refusing \subseteq 1..N
ASSUME InboxBoundsAssumption == MaxFaults \in Nat /\ MaxConflicts \in Nat

VARIABLES
    issued,    \* number of commands Master has issued
    acked,     \* commands Master has been told are done
    row,       \* status of each master_inbox_commands row
    hash,      \* the payload its payload_sha256 stands for
    effects,   \* how often each command has changed local inventory
    phase,     \* where each poller is
    todo,      \* commands each poller has fetched and not finished
    odd,       \* the fetched command whose payload differs, or 0
    seen,      \* the row status _persist_failed_command has read
    faults, conflicts

vars == <<issued, acked, row, hash, effects, phase, todo, odd, seen, faults,
          conflicts>>
masterVars == <<issued, acked>>
rowVars == <<row, hash, effects>>

-----------------------------------------------------------------------------
Commands == 1..N
Phases == {"idle", "fetched", "insert", "apply", "failing", "persist", "ack"}

Unacked == (1..issued) \ acked

\* The command poller p works on: the first one left of its list.
IsCurrent(p, c) == c \in todo[p] /\ \A d \in todo[p] : c <= d

\* The payload p received for c, as its canonical hash.
Payload(p, c) == IF odd[p] = c THEN "odd" ELSE "true"

Go(p, where) == phase' = [phase EXCEPT ![p] = where]

\* The call returns or raises.
Return(p) ==
    /\ phase' = [phase EXCEPT ![p] = "idle"]
    /\ todo' = [todo EXCEPT ![p] = {}]
    /\ odd' = [odd EXCEPT ![p] = 0]
    /\ seen' = [seen EXCEPT ![p] = "NONE"]

-----------------------------------------------------------------------------
Init ==
    /\ issued = 0
    /\ acked = {}
    /\ row = [c \in Commands |-> "NONE"]
    /\ hash = [c \in Commands |-> "none"]
    /\ effects = [c \in Commands |-> 0]
    /\ phase = [p \in Pollers |-> "idle"]
    /\ todo = [p \in Pollers |-> {}]
    /\ odd = [p \in Pollers |-> 0]
    /\ seen = [p \in Pollers |-> "NONE"]
    /\ faults = 0
    /\ conflicts = 0

\* Master, external, issues its next command.
MasterIssues ==
    /\ issued < N
    /\ issued' = issued + 1
    /\ UNCHANGED <<acked, rowVars, phase, todo, odd, seen, faults, conflicts>>

\* GET /commands returns every unacknowledged command, in order.
Fetch(p) ==
    /\ phase[p] = "idle"
    /\ Unacked # {}
    /\ todo' = [todo EXCEPT ![p] = Unacked]
    /\ Go(p, "fetched")
    /\ UNCHANGED <<masterVars, rowVars, odd, seen, faults, conflicts>>

\* The same, but one command comes back with a different payload.
FetchConflicting(p, c) ==
    /\ phase[p] = "idle"
    /\ c \in Unacked /\ conflicts < MaxConflicts
    /\ todo' = [todo EXCEPT ![p] = Unacked]
    /\ odd' = [odd EXCEPT ![p] = c]
    /\ conflicts' = conflicts + 1
    /\ Go(p, "fetched")
    /\ UNCHANGED <<masterVars, rowVars, seen, faults>>

\* Variant: a FAILED row is never retried.
FailedIsFinal(p, c) == IF row[c] = "NONE" THEN "insert"
                       ELSE IF row[c] = "APPLIED" THEN "ack" ELSE "failing"

\* What apply_master_command makes of the row.
Verdict(p, c) ==
    IF row[c] = "NONE" THEN "insert"
    ELSE IF hash[c] # Payload(p, c) THEN "failing"
    ELSE IF row[c] = "APPLIED" THEN "ack" ELSE "apply"

\* apply_master_command selects the inbox row of the next command.
LoadRow(p, c) ==
    /\ phase[p] = "fetched"
    /\ IsCurrent(p, c)
    /\ Go(p, Verdict(p, c))
    /\ UNCHANGED <<masterVars, rowVars, todo, odd, seen, faults, conflicts>>

\* Every fetched command is done: the call returns.
PollDone(p) ==
    /\ phase[p] = "fetched"
    /\ todo[p] = {}
    /\ Return(p)
    /\ UNCHANGED <<masterVars, rowVars, faults, conflicts>>

\* Variant: a handler that does not look for its own effect.
ChangesAgain(c) == TRUE

\* What the handlers of app/services/{transfer,receipts,master_qr}.py do to
\* inventory: they look for their own effect before they repeat it.
HandlerChanges(c) == effects[c] = 0
HandlerRefuses(c) == effects[c] > 0 /\ c \in Refusing

\* The handler succeeds and the commit stores effect and APPLIED together.
ApplyCommit(p, c) ==
    /\ ~HandlerRefuses(c)
    /\ effects' = [effects EXCEPT ![c] = IF HandlerChanges(c) THEN @ + 1 ELSE @]
    /\ row' = [row EXCEPT ![c] = "APPLIED"]
    /\ hash' = [hash EXCEPT ![c] = IF row[c] = "NONE" THEN Payload(p, c) ELSE @]
    /\ Go(p, "ack")

\* No row when selected.  The INSERT takes the write lock; if another poller
\* has inserted the row meanwhile, the unique command_id makes it fail.
ApplyNew(p, c) ==
    /\ phase[p] = "insert" /\ IsCurrent(p, c)
    /\ row[c] = "NONE"
    /\ ApplyCommit(p, c)
    /\ UNCHANGED <<masterVars, todo, odd, seen, faults, conflicts>>

InsertCollides(p, c) ==
    /\ phase[p] = "insert" /\ IsCurrent(p, c)
    /\ row[c] # "NONE"
    /\ Go(p, "failing")
    /\ UNCHANGED <<masterVars, rowVars, todo, odd, seen, faults, conflicts>>

\* A FAILED row when selected: nothing stops two pollers from both retrying
\* it, and only the handler's own check keeps the effect single.
ApplyAgain(p, c) ==
    /\ phase[p] = "apply" /\ IsCurrent(p, c)
    /\ ApplyCommit(p, c)
    /\ UNCHANGED <<masterVars, todo, odd, seen, faults, conflicts>>

\* The handler refuses the repetition, or looked before the other poller's
\* commit and then runs into the unique key of what it inserts.
RepetitionRefused(p, c) ==
    /\ phase[p] = "apply" /\ IsCurrent(p, c)
    /\ effects[c] > 0
    /\ Go(p, "failing")
    /\ UNCHANGED <<masterVars, rowVars, todo, odd, seen, faults, conflicts>>

\* The handler refuses the command as things stand (a product to be mapped
\* first, a busy database): the transaction is rolled back.
HandlerFails(p) ==
    /\ phase[p] \in {"insert", "apply"}
    /\ faults < MaxFaults
    /\ Go(p, "failing")
    /\ faults' = faults + 1
    /\ UNCHANGED <<masterVars, rowVars, todo, odd, seen, conflicts>>

\* _persist_failed_command reads the row again; an APPLIED row stays.
PersistLooks(p, c) ==
    /\ phase[p] = "failing" /\ IsCurrent(p, c)
    /\ IF row[c] = "APPLIED"
          THEN Return(p)
          ELSE /\ seen' = [seen EXCEPT ![p] = row[c]]
               /\ Go(p, "persist")
               /\ UNCHANGED <<todo, odd>>
    /\ UNCHANGED <<masterVars, rowVars, faults, conflicts>>

\* Variants: the status is always written; the poll goes on after a failure.
PersistOverwrites(p, c) ==
    /\ phase[p] = "persist" /\ IsCurrent(p, c)
    /\ row' = [row EXCEPT ![c] = "FAILED"]
    /\ Return(p)
    /\ UNCHANGED <<masterVars, hash, effects, faults, conflicts>>

PersistGoesOn(p, c) ==
    /\ phase[p] = "persist" /\ IsCurrent(p, c)
    /\ todo' = [todo EXCEPT ![p] = @ \ {c}]
    /\ Go(p, "fetched")
    /\ UNCHANGED <<masterVars, rowVars, odd, seen, faults, conflicts>>

\* It then inserts a FAILED row (which fails if one is there by now), or
\* updates the one it saw, whose status it does not change.
PersistWrites(p, c) ==
    /\ phase[p] = "persist" /\ IsCurrent(p, c)
    /\ IF seen[p] = "NONE" /\ row[c] = "NONE"
          THEN /\ row' = [row EXCEPT ![c] = "FAILED"]
               /\ hash' = [hash EXCEPT ![c] = Payload(p, c)]
          ELSE UNCHANGED <<row, hash>>
    /\ Return(p)
    /\ UNCHANGED <<masterVars, effects, faults, conflicts>>

\* PATCH /commands/{id}: Master notes it and the loop goes on.
Acknowledge(p, c) ==
    /\ phase[p] = "ack" /\ IsCurrent(p, c)
    /\ acked' = acked \cup {c}
    /\ todo' = [todo EXCEPT ![p] = @ \ {c}]
    /\ Go(p, "fetched")
    /\ UNCHANGED <<issued, rowVars, odd, seen, faults, conflicts>>

\* The PATCH or its answer is lost: the call raises MasterSyncError.
AcknowledgeFails(p, c) ==
    /\ phase[p] = "ack" /\ IsCurrent(p, c)
    /\ faults < MaxFaults
    /\ acked' \in {acked, acked \cup {c}}
    /\ faults' = faults + 1
    /\ Return(p)
    /\ UNCHANGED <<issued, rowVars, conflicts>>

\* The process dies; only committed rows survive.
Crash ==
    /\ faults < MaxFaults
    /\ \E p \in Pollers : phase[p] # "idle"
    /\ faults' = faults + 1
    /\ phase' = [p \in Pollers |-> "idle"]
    /\ todo' = [p \in Pollers |-> {}]
    /\ odd' = [p \in Pollers |-> 0]
    /\ seen' = [p \in Pollers |-> "NONE"]
    /\ UNCHANGED <<masterVars, rowVars, conflicts>>

-----------------------------------------------------------------------------
CommandStep(p, c) ==
    \/ LoadRow(p, c)
    \/ ApplyNew(p, c)
    \/ InsertCollides(p, c)
    \/ ApplyAgain(p, c)
    \/ RepetitionRefused(p, c)
    \/ PersistLooks(p, c)
    \/ PersistWrites(p, c)
    \/ Acknowledge(p, c)

PollStep(p) == PollDone(p) \/ \E c \in Commands : CommandStep(p, c)

Next ==
    \/ MasterIssues
    \/ \E p \in Pollers :
          \/ Fetch(p)
          \/ PollStep(p)
          \/ HandlerFails(p)
          \/ \E c \in Commands : FetchConflicting(p, c) \/ AcknowledgeFails(p, c)
    \/ Crash

Spec == Init /\ [][Next]_vars

\* A call that has started goes on, and the worker starts one every interval.
\* Pollers in request threads need not ever start.
Fairness ==
    /\ \A p \in Pollers : WF_vars(PollStep(p))
    /\ \A p \in Workers : WF_vars(Fetch(p))

FairSpec == Spec /\ Fairness

-----------------------------------------------------------------------------
TypeOK ==
    /\ issued \in 0..N
    /\ acked \subseteq Commands
    /\ row \in [Commands -> {"NONE", "FAILED", "APPLIED"}]
    /\ hash \in [Commands -> {"none", "true", "odd"}]
    /\ effects \in [Commands -> Nat]
    /\ phase \in [Pollers -> Phases]
    /\ todo \in [Pollers -> SUBSET Commands]
    /\ odd \in [Pollers -> 0..N]
    /\ seen \in [Pollers -> {"NONE", "FAILED"}]
    /\ faults \in 0..MaxFaults
    /\ conflicts \in 0..MaxConflicts

\* Exactly once: a command changes inventory once if its row is APPLIED and
\* never otherwise, although two pollers may both apply it and any call may
\* be repeated.
ExactlyOnce ==
    \A c \in Commands : effects[c] = IF row[c] = "APPLIED" THEN 1 ELSE 0

\* "in order" (poll_master_commands): a command is applied only after every
\* earlier one, whichever pollers applied them.
AppliedInOrder ==
    \A c, d \in Commands : c < d /\ row[d] = "APPLIED" => row[c] = "APPLIED"

\* Master is told only of commands whose effect is durable.
AckedIsApplied == \A c \in acked : row[c] = "APPLIED"

\* A conflicting or failed replay never erases the proof that the command has
\* been applied, nor the hash of the payload that was applied.
ProofKept ==
    [][\A c \in Commands : row[c] = "APPLIED" =>
          row'[c] = "APPLIED" /\ hash'[c] = hash[c]]_vars

\* Every issued command is eventually applied and acknowledged, once handlers
\* stop refusing it and calls stop failing; unless the row of it, or of an
\* earlier one, was first written for a payload Master no longer sends, in which
\* case apply_master_command refuses every delivery as a conflict.
Blocked(c) == \E d \in 1..c : hash[d] = "odd"
EventuallyAcked == \A c \in Commands : (c <= issued) ~> (c \in acked \/ Blocked(c))

-----------------------------------------------------------------------------
(***************************************************************************)
(* The inductive invariant.  A poller's list is a suffix of the commands   *)
(* that are not applied: whatever precedes a listed command is listed too  *)
(* or has been applied, so the first one left may be applied next.         *)
(***************************************************************************)
TodoIsSuffix ==
    \A p \in Pollers : \A d \in todo[p] : \A c \in Commands :
        c < d => c \in todo[p] \/ row[c] = "APPLIED"

ReadyToAck ==
    \A p \in Pollers : \A c \in Commands :
        phase[p] = "ack" /\ IsCurrent(p, c) => row[c] = "APPLIED"

IInv ==
    /\ TypeOK
    /\ ExactlyOnce
    /\ AppliedInOrder
    /\ AckedIsApplied
    /\ TodoIsSuffix
    /\ ReadyToAck

=============================================================================
