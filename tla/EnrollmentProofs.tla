-------------------------- MODULE EnrollmentProofs --------------------------
(***************************************************************************)
(* Proofs about Enrollment, for any records of Master, any number of       *)
(* requests and crashes and an outbox of any length, while only /connect   *)
(* overlaps with itself: /initialize and /settings do not take its lock.   *)
(***************************************************************************)
EXTENDS Enrollment, SequenceTheorems, TLAPS

OnlyConnect == Overlapping \subseteq {"connect"}

\* A request that starts finds no other.
LEMMA StartsAlone ==
    ASSUME OnlyConnect, OneRequest, NEW a \in Admins, NEW op \in {"connect", "initialize", "settings"},
           MayStart(op), op = "connect" => LockIsFree
    PROVE  \A b \in Admins : phase[b] = "idle"
<1> SUFFICES ASSUME NEW b \in Admins, phase[b] # "idle" PROVE FALSE
  OBVIOUS
<1>1. op = "connect" /\ Operation(phase[b]) = "connect"
  BY DEF MayStart, OnlyConnect
<1>2. lock = b /\ lock = Unlinked
  BY <1>1 DEF OneRequest, LockIsFree
<1> QED
  BY <1>2, NodesAssumption

\* Nobody else is at work beside a request.
LEMMA OthersIdle ==
    ASSUME OneRequest, NEW a \in Admins, phase[a] # "idle"
    PROVE  \A b \in Admins \ {a} : phase[b] = "idle"
BY DEF OneRequest

\* With events in the outbox, a valid identity has the configured code and address.
LEMMA ValidIsConfigured ==
    ASSUME TypeOK, Linked, NEW link \in Links, IdentityIsValid(link), outbox # <<>>
    PROVE  env # Unlinked /\ link.code = env.code /\ link.origin = env.origin
<1>1. env # Unlinked /\ link.code = env.code /\ SavedOrigin(link.origin)
  BY DEF IdentityIsValid, Configured
<1>2. PICK n \in Nodes : Owner(n) /\ savedNode \in {Unlinked, n}
  BY DEF Linked
<1>3. link.origin = env.origin
  BY <1>1, <1>2 DEF SavedOrigin, Owner, Names
<1> QED
  BY <1>1, <1>3

\* An event is appended.
LEMMA AppendEvent ==
    ASSUME TypeOK, NEW e \in Events, Len(outbox) < MaxEvents, outbox' = Append(outbox, e)
    PROVE  /\ outbox' \in Seq(Events) /\ Len(outbox') = Len(outbox) + 1 /\ outbox' # <<>>
           /\ Len(outbox') <= MaxEvents
           /\ outbox'[Len(outbox) + 1] = e
           /\ \A i \in 1..Len(outbox) : outbox'[i] = outbox[i]
<1>1. outbox \in Seq(Events) /\ Len(outbox) \in Nat /\ MaxEvents \in Nat
  BY EnrollmentBoundsAssumption, LenProperties DEF TypeOK
<1> QED
  BY <1>1, AppendProperties

LEMMA EmptyOutbox ==
    ASSUME TypeOK
    PROVE  /\ Len(outbox) \in Nat
           /\ outbox = <<>> <=> Len(outbox) = 0
BY EmptySeq, LenProperties DEF TypeOK

\* A request ends.
LEMMA Finished ==
    ASSUME TypeOK, NEW a \in Admins, Finish(a)
    PROVE  /\ phase' \in [Admins -> Phases] /\ want' \in [Admins -> Links \cup {Unlinked}]
           /\ bounds' \in [Admins -> [min : 0..MaxEvents, max : 0..MaxEvents]]
           /\ named' \in [Admins -> Codes \cup {Unlinked}]
           /\ phase'[a] = "idle" /\ \A b \in Admins \ {a} : phase'[b] = phase[b]
<1>1. NoBounds \in [min : 0..MaxEvents, max : 0..MaxEvents]
  BY EnrollmentBoundsAssumption DEF NoBounds
<1> QED
  BY <1>1 DEF Finish, TypeOK, Phases

LEMMA Goes ==
    ASSUME TypeOK, NEW a \in Admins, NEW where \in Phases, Go(a, where)
    PROVE  /\ phase' \in [Admins -> Phases] /\ phase'[a] = where
           /\ \A b \in Admins \ {a} : phase'[b] = phase[b]
BY DEF Go, TypeOK

\* The request a goes on, and all the others are idle.
LEMMA OneMoves ==
    ASSUME NEW a \in Admins, \A b \in Admins \ {a} : phase'[b] = "idle",
           phase'[a] # "idle" /\ Operation(phase'[a]) = "connect" => lock' = a,
           RequestFits(a)'
    PROVE  OneRequest' /\ \A b \in Admins : RequestFits(b)'
<1>1. OneRequest'
  BY DEF OneRequest
<1>2. \A b \in Admins : RequestFits(b)'
  BY DEF RequestFits
<1> QED
  BY <1>1, <1>2

\* The link, the history and the outbox stay as they are.
LEMMA DataFrame ==
    ASSUME Linked, Received, OneBaseline, CodeLocked, UNCHANGED <<env, outbox, sent, savedNode, cursor, entered>>
    PROVE  Linked' /\ Received' /\ OneBaseline' /\ CodeLocked'
BY DEF Linked, Received, OneBaseline, CodeLocked, Configured, Owner, Strayed, Names

-----------------------------------------------------------------------------
(* POST /connect *)

LEMMA ConnectStep ==
    ASSUME OnlyConnect, IInv, NEW a \in Admins, NEW link \in Links, Connect(a, link)
    PROVE  IInv'
<1>0. TypeOK /\ OneRequest /\ Linked /\ Received /\ OneBaseline /\ CodeLocked
  BY DEF IInv
<1>1. \A b \in Admins : phase[b] = "idle"
  BY <1>0, StartsAlone DEF Connect
<1>2. /\ phase' \in [Admins -> Phases] /\ phase'[a] = "validated"
      /\ \A b \in Admins \ {a} : phase'[b] = "idle"
  BY <1>0, <1>1, Goes DEF Connect, Phases
<1>3. /\ lock' = a /\ want' = [want EXCEPT ![a] = link]
      /\ UNCHANGED <<env, outbox, sent, savedNode, cursor, bounds, named, entered, crashes>>
  BY DEF Connect, dbVars
<1>4. TypeOK'
  BY <1>0, <1>2, <1>3 DEF TypeOK
<1>5. outbox # <<>> => link.code = env.code /\ link.origin = env.origin
  BY <1>0, ValidIsConfigured DEF Connect
<1>6. RequestFits(a)'
  BY <1>0, <1>2, <1>3, <1>5 DEF RequestFits, TypeOK
<1> QED
  BY <1>0, <1>2, <1>3, <1>4, <1>6, OneMoves, DataFrame DEF IInv

\* The facts about the one request at work.
LEMMA AtWork ==
    ASSUME IInv, NEW a \in Admins, phase[a] # "idle"
    PROVE  /\ TypeOK /\ OneRequest /\ Linked /\ Received /\ OneBaseline /\ CodeLocked
           /\ \A b \in Admins \ {a} : phase[b] = "idle"
           /\ Operation(phase[a]) = "connect" => lock = a
           /\ RequestFits(a)
<1>1. TypeOK /\ OneRequest /\ Linked /\ Received /\ OneBaseline /\ CodeLocked
  BY DEF IInv
<1>2. RequestFits(a)
  BY DEF IInv, RequestFits
<1> QED
  BY <1>1, <1>2, OthersIdle DEF OneRequest

\* A request is over: what is left is idle.
LEMMA EndStep ==
    ASSUME IInv, NEW a \in Admins, phase[a] # "idle", Finish(a),
           UNCHANGED <<env, outbox, sent, savedNode, cursor, entered, crashes>>,
           lock' \in {lock, Unlinked}
    PROVE  IInv'
<1>1. /\ TypeOK /\ OneRequest /\ Linked /\ Received /\ OneBaseline /\ CodeLocked
      /\ \A b \in Admins \ {a} : phase[b] = "idle"
  BY AtWork
<1>2. /\ phase' \in [Admins -> Phases] /\ want' \in [Admins -> Links \cup {Unlinked}]
      /\ bounds' \in [Admins -> [min : 0..MaxEvents, max : 0..MaxEvents]]
      /\ named' \in [Admins -> Codes \cup {Unlinked}]
      /\ \A b \in Admins : phase'[b] = "idle"
  BY <1>1, Finished
<1>3. TypeOK'
  BY <1>1, <1>2 DEF TypeOK
<1>4. OneRequest' /\ (\A b \in Admins : RequestFits(b)')
  BY <1>2 DEF OneRequest, RequestFits
<1> QED
  BY <1>1, <1>3, <1>4, DataFrame DEF IInv

LEMMA ConnectMeasuresStep ==
    ASSUME IInv, NEW a \in Admins, ConnectMeasures(a)
    PROVE  IInv'
<1>1. phase[a] = "validated"
  BY DEF ConnectMeasures
<1>2. /\ TypeOK /\ OneRequest /\ Linked /\ Received /\ OneBaseline /\ CodeLocked
      /\ \A b \in Admins \ {a} : phase[b] = "idle"
      /\ lock = a /\ RequestFits(a)
  BY <1>1, AtWork DEF Operation
<1>3. /\ phase' \in [Admins -> Phases] /\ phase'[a] = "measured"
      /\ \A b \in Admins \ {a} : phase'[b] = "idle"
  BY <1>2, Goes DEF ConnectMeasures, Phases
<1>4. /\ bounds' = [bounds EXCEPT ![a] = OutboxRange]
      /\ UNCHANGED <<env, outbox, sent, savedNode, cursor, lock, want, named, entered, crashes>>
  BY DEF ConnectMeasures, dbVars
<1>5. OutboxRange \in [min : 0..MaxEvents, max : 0..MaxEvents] /\ OutboxRange.max = Len(outbox)
  BY <1>2, EmptyOutbox, EnrollmentBoundsAssumption DEF OutboxRange, TypeOK, Received
<1>6. TypeOK'
  BY <1>2, <1>3, <1>4, <1>5 DEF TypeOK
<1>7. bounds'[a].max > 0 => outbox # <<>>
  BY <1>2, <1>4, <1>5, EmptyOutbox DEF TypeOK
<1>8. RequestFits(a)'
  BY <1>1, <1>2, <1>3, <1>4, <1>7 DEF RequestFits
<1> QED
  BY <1>2, <1>3, <1>4, <1>6, <1>8, OneMoves, DataFrame DEF IInv

LEMMA ConnectVerifiesStep ==
    ASSUME IInv, NEW a \in Admins, ConnectVerifies(a)
    PROVE  IInv'
<1>1. phase[a] = "measured" /\ UNCHANGED <<env, outbox, sent, savedNode, cursor, entered, crashes>>
  BY DEF ConnectVerifies, dbVars
<1>2. /\ TypeOK /\ OneRequest /\ Linked /\ Received /\ OneBaseline /\ CodeLocked
      /\ \A b \in Admins \ {a} : phase[b] = "idle"
      /\ lock = a /\ RequestFits(a)
  BY <1>1, AtWork DEF Operation
<1>3. CASE Verified(want[a], bounds[a]) /\ SavedNodeFits(want[a].node)
  <2>1. Go(a, "verified") /\ UNCHANGED <<lock, want, bounds, named>>
    BY <1>3 DEF ConnectVerifies
  <2>2. /\ phase' \in [Admins -> Phases] /\ phase'[a] = "verified"
        /\ \A b \in Admins \ {a} : phase'[b] = "idle"
    BY <1>2, <2>1, Goes DEF Phases
  <2>3. TypeOK'
    BY <1>1, <1>2, <2>1, <2>2 DEF TypeOK
  <2>4. Authentic(want[a])'
    BY <1>3, <2>1 DEF Verified, Authentic, Names
  <2>5. RequestFits(a)'
    BY <1>1, <1>2, <2>1, <2>2, <2>4 DEF RequestFits
  <2> QED
    BY <1>1, <1>2, <2>1, <2>2, <2>3, <2>5, OneMoves, DataFrame DEF IInv
<1>4. CASE ~(Verified(want[a], bounds[a]) /\ SavedNodeFits(want[a].node))
  <2>1. Finish(a) /\ lock' \in {lock, Unlinked}
    BY <1>4 DEF ConnectVerifies, Unlock
  <2> QED
    BY <1>1, <2>1, EndStep
<1> QED
  BY <1>3, <1>4

\* The settings file: the same code and address, or an empty outbox.
LEMMA SavesData ==
    ASSUME TypeOK, Linked, Received, OneBaseline, CodeLocked, NEW link \in Links,
           outbox # <<>> => /\ link.code = env.code /\ link.origin = env.origin
                            /\ Authentic(link) \/ link.node \in entered',
           env' = link, entered \subseteq entered',
           UNCHANGED <<outbox, sent, savedNode, cursor>>
    PROVE  Linked' /\ Received' /\ OneBaseline' /\ CodeLocked'
<1>1. link # Unlinked
  BY NodesAssumption
<1>2. CASE outbox # <<>>
  <2>1. env # Unlinked
    BY <1>2 DEF Linked, Owner
  <2>2. \A n \in Nodes : Owner(n)' <=> Owner(n)
    BY <1>1, <1>2, <2>1 DEF Owner, Names
  <2>3. Strayed' <=> Strayed
    BY <2>2 DEF Strayed
  <2>4. Linked'
    <3>1. PICK n \in Nodes : Owner(n) /\ savedNode \in {Unlinked, n}
      BY <1>2 DEF Linked
    <3>2. env'.node \in entered' \cup {n}
      <4>1. CASE link.node \in entered'
        BY <4>1
      <4>2. CASE Authentic(link)
        <5>1. link.node \in Nodes
          BY DEF Links
        <5>2. Code[link.node] = Code[n] /\ Origin[link.node] = Origin[n]
          BY <1>2, <3>1, <4>2 DEF Authentic, Names, Owner
        <5> QED
          BY <5>1, <5>2, IdentityAssumption
      <4> QED
        BY <1>2, <4>1, <4>2
    <3> QED
      BY <1>2, <2>2, <3>1, <3>2 DEF Linked
  <2>5. Received'
    BY <2>2, <2>3 DEF Received
  <2> QED
    BY <1>1, <1>2, <2>1, <2>4, <2>5 DEF OneBaseline, CodeLocked, Configured
<1>3. CASE outbox = <<>>
  <2>1. Len(outbox) = 0 /\ sent = 0 /\ MaxEvents \in Nat
    BY <1>3, EmptyOutbox, EnrollmentBoundsAssumption DEF TypeOK
  <2>2. \A n \in Nodes : cursor[n] = 0
    BY <2>1 DEF Received, TypeOK
  <2>3. Received'
    BY <2>1, <2>2 DEF Received
  <2> QED
    BY <1>1, <1>3, <2>1, <2>3 DEF Linked, OneBaseline, CodeLocked
<1> QED
  BY <1>2, <1>3

LEMMA ConnectSavesStep ==
    ASSUME IInv, NEW a \in Admins, ConnectSaves(a)
    PROVE  IInv'
<1>1. /\ phase[a] = "verified" /\ env' = want[a]
      /\ UNCHANGED <<outbox, sent, savedNode, cursor, lock, want, bounds, named, entered, crashes>>
  BY DEF ConnectSaves, dbVars
<1>2. /\ TypeOK /\ OneRequest /\ Linked /\ Received /\ OneBaseline /\ CodeLocked
      /\ \A b \in Admins \ {a} : phase[b] = "idle"
      /\ lock = a /\ RequestFits(a)
  BY <1>1, AtWork DEF Operation
<1>3. /\ phase' \in [Admins -> Phases] /\ phase'[a] = "saved"
      /\ \A b \in Admins \ {a} : phase'[b] = "idle"
  BY <1>2, Goes DEF ConnectSaves, Phases
<1>4. /\ want[a] \in Links /\ Authentic(want[a])
      /\ outbox # <<>> => want[a].code = env.code /\ want[a].origin = env.origin
  BY <1>1, <1>2 DEF RequestFits
<1>5. Linked' /\ Received' /\ OneBaseline' /\ CodeLocked'
  BY <1>1, <1>2, <1>4, SavesData
<1>6. TypeOK'
  BY <1>1, <1>2, <1>3, <1>4 DEF TypeOK
<1>7. Authentic(env)'
  BY <1>1, <1>4 DEF Authentic, Names
<1>8. RequestFits(a)'
  BY <1>1, <1>2, <1>3, <1>4, <1>7, NodesAssumption DEF RequestFits
<1> QED
  BY <1>1, <1>2, <1>3, <1>5, <1>6, <1>8, OneMoves DEF IInv

\* A snapshot has read the configured code.
LEMMA LooksStep ==
    ASSUME IInv, NEW a \in Admins, phase[a] # "idle", env # Unlinked, outbox = <<>>,
           Authentic(env),
           NEW where \in {"checked", "initChecked"}, SnapshotLooks(a, where),
           where = "checked" => want[a] = env /\ lock = a,
           UNCHANGED <<env, outbox, sent, savedNode, cursor, lock, entered, crashes>>
    PROVE  IInv'
<1>1. /\ TypeOK /\ OneRequest /\ Linked /\ Received /\ OneBaseline /\ CodeLocked
      /\ \A b \in Admins \ {a} : phase[b] = "idle"
  BY AtWork
<1>2. /\ phase' \in [Admins -> Phases] /\ phase'[a] = where
      /\ \A b \in Admins \ {a} : phase'[b] = "idle"
  BY <1>1, Goes DEF SnapshotLooks, Phases
<1>3. named' = [named EXCEPT ![a] = env.code] /\ UNCHANGED <<want, bounds>>
  BY DEF SnapshotLooks
<1>4. TypeOK'
  <2>1. env.code \in Codes
    BY <1>1 DEF TypeOK, Links
  <2> QED
    BY <1>1, <1>2, <1>3, <2>1 DEF TypeOK
<1>5. RequestFits(a)'
  BY <1>1, <1>2, <1>3 DEF RequestFits, TypeOK, Authentic, Names
<1>6. phase'[a] # "idle" /\ Operation(phase'[a]) = "connect" => lock' = a
  BY <1>2 DEF Operation
<1> QED
  BY <1>1, <1>2, <1>4, <1>5, <1>6, OneMoves, DataFrame DEF IInv

LEMMA ConnectChecksStep ==
    ASSUME IInv, NEW a \in Admins, ConnectChecks(a)
    PROVE  IInv'
<1>1. phase[a] = "saved" /\ UNCHANGED <<env, outbox, sent, savedNode, cursor, entered, crashes>>
  BY DEF ConnectChecks, dbVars
<1>2. lock = a /\ want[a] = env /\ env # Unlinked /\ Authentic(env)
  BY <1>1, AtWork DEF Operation, RequestFits
<1>3. CASE NothingQueued
  <2>1. SnapshotLooks(a, "checked") /\ UNCHANGED lock /\ outbox = <<>>
    BY <1>3 DEF ConnectChecks, NothingQueued
  <2> QED
    BY <1>1, <1>2, <2>1, LooksStep
<1>4. CASE ~NothingQueued
  <2>1. Finish(a) /\ lock' \in {lock, Unlinked}
    BY <1>4 DEF ConnectChecks, Unlock
  <2> QED
    BY <1>1, <2>1, EndStep
<1> QED
  BY <1>3, <1>4

\* The baseline is the first event.
LEMMA BaselineData ==
    ASSUME TypeOK, Linked, Received, NEW a \in Admins, env # Unlinked, Authentic(env),
           named[a] = env.code, outbox = <<>>, Len(outbox) < MaxEvents,
           outbox' = Append(outbox, Baseline(a)), savedNode' \in {savedNode, env.node},
           UNCHANGED <<env, sent, cursor, entered>>
    PROVE  /\ Linked' /\ Received' /\ OneBaseline' /\ CodeLocked'
           /\ outbox' \in Seq(Events) /\ sent' \in 0..Len(outbox') /\ outbox' # <<>>
           /\ savedNode' \in Nodes \cup {Unlinked}
<1>1. /\ env \in Links /\ env.node \in Nodes /\ env.code \in Codes
      /\ Len(outbox) = 0 /\ sent = 0 /\ MaxEvents \in Nat
  BY EmptyOutbox, EnrollmentBoundsAssumption DEF TypeOK, Links
<1>2. Baseline(a) \in Events /\ Baseline(a).baseline = TRUE /\ Baseline(a).code = env.code
  BY <1>1 DEF Baseline, Events
<1>3. /\ outbox' \in Seq(Events) /\ Len(outbox') = 1 /\ outbox' # <<>> /\ outbox'[1] = Baseline(a)
      /\ Len(outbox') <= MaxEvents
  <2>1. /\ outbox' \in Seq(Events) /\ Len(outbox') = Len(outbox) + 1 /\ outbox' # <<>>
        /\ Len(outbox') <= MaxEvents /\ outbox'[Len(outbox) + 1] = Baseline(a)
    BY <1>2, AppendEvent
  <2> QED
    BY <1>1, <2>1
<1>4. OneBaseline' /\ CodeLocked'
  BY <1>2, <1>3 DEF OneBaseline, CodeLocked, Configured
<1>5. Linked'
  <2>1. Owner(env.node)' /\ savedNode' \in {Unlinked, env.node}
    BY DEF Linked, Owner, Authentic, Names
  <2> QED
    BY <1>1, <1>3, <2>1 DEF Linked
<1>6. Received'
  <2>1. \A n \in Nodes : cursor[n] = 0
    BY <1>1 DEF Received, TypeOK
  <2> QED
    BY <1>1, <1>3, <2>1 DEF Received
<1> QED
  BY <1>1, <1>3, <1>4, <1>5, <1>6 DEF TypeOK

LEMMA ConnectCommitsStep ==
    ASSUME IInv, NEW a \in Admins, ConnectCommits(a)
    PROVE  IInv'
<1>1. /\ phase[a] \in {"checked", "saved"} /\ savedNode' = want[a].node
      /\ UNCHANGED <<env, sent, cursor, lock, want, bounds, named, entered, crashes>>
  BY DEF ConnectCommits
<1>2. /\ TypeOK /\ OneRequest /\ Linked /\ Received /\ OneBaseline /\ CodeLocked
      /\ \A b \in Admins \ {a} : phase[b] = "idle"
      /\ lock = a /\ RequestFits(a)
  BY <1>1, AtWork DEF Operation
<1>3. /\ phase' \in [Admins -> Phases] /\ phase'[a] = "synced"
      /\ \A b \in Admins \ {a} : phase'[b] = "idle"
  BY <1>2, Goes DEF ConnectCommits, Phases
<1>4. want[a] = env /\ env # Unlinked /\ Authentic(env) /\ env.node \in Nodes
  BY <1>1, <1>2 DEF RequestFits, TypeOK, Links
<1>5. /\ Linked' /\ Received' /\ OneBaseline' /\ CodeLocked'
      /\ outbox' \in Seq(Events) /\ sent' \in 0..Len(outbox')
      /\ savedNode' \in Nodes \cup {Unlinked}
  <2>1. CASE phase[a] = "checked"
    <3>1. outbox = <<>> /\ named[a] = env.code
      BY <1>2, <2>1 DEF RequestFits
    <3>2. Len(outbox) < MaxEvents /\ outbox' = Append(outbox, Baseline(a))
      BY <2>1 DEF ConnectCommits
    <3> QED
      BY <1>1, <1>2, <1>4, <3>1, <3>2, BaselineData
  <2>2. CASE phase[a] = "saved"
    <3>1. bounds[a].max > 0 /\ UNCHANGED outbox
      BY <2>2 DEF ConnectCommits
    <3>2. outbox # <<>>
      BY <1>2, <2>2, <3>1 DEF RequestFits
    <3>3. Owner(env.node)' /\ savedNode' = env.node
      BY <1>1, <1>4 DEF Owner, Authentic, Names
    <3>4. Linked'
      BY <1>1, <1>4, <3>1, <3>2, <3>3 DEF Linked
    <3> QED
      BY <1>1, <1>2, <1>4, <3>1, <3>3, <3>4
         DEF Received, OneBaseline, CodeLocked, Configured, TypeOK, Owner, Strayed, Names
  <2> QED
    BY <1>1, <2>1, <2>2
<1>6. TypeOK'
  BY <1>1, <1>2, <1>3, <1>5 DEF TypeOK
<1>7. RequestFits(a)'
  BY <1>1, <1>3, <1>4 DEF RequestFits, Authentic, Names
<1> QED
  BY <1>1, <1>2, <1>3, <1>5, <1>6, <1>7, OneMoves DEF IInv

LEMMA ConnectEndsStep ==
    ASSUME IInv, NEW a \in Admins, ConnectEnds(a)
    PROVE  IInv'
BY EndStep DEF ConnectEnds, Unlock, dbVars

-----------------------------------------------------------------------------
(* POST /initialize and POST /settings *)

LEMMA InitializeStep ==
    ASSUME OnlyConnect, IInv, NEW a \in Admins, Initialize(a)
    PROVE  IInv'
<1>0. TypeOK /\ OneRequest /\ Linked /\ Received /\ OneBaseline /\ CodeLocked
  BY DEF IInv
<1>1. \A b \in Admins : phase[b] = "idle"
  BY <1>0, StartsAlone DEF Initialize
<1>2. /\ phase' \in [Admins -> Phases] /\ phase'[a] = "init"
      /\ \A b \in Admins \ {a} : phase'[b] = "idle"
  BY <1>0, <1>1, Goes DEF Initialize, Phases
<1>3. /\ env # Unlinked /\ Authentic(env)
      /\ UNCHANGED <<env, outbox, sent, savedNode, cursor, lock, want, bounds, named, entered, crashes>>
  BY DEF Initialize, dbVars, Verified
<1>4. TypeOK'
  BY <1>0, <1>2, <1>3 DEF TypeOK
<1>5. RequestFits(a)'
  BY <1>2, <1>3 DEF RequestFits, Authentic, Names
<1>6. Operation(phase'[a]) # "connect"
  BY <1>2 DEF Operation
<1> QED
  BY <1>0, <1>2, <1>3, <1>4, <1>5, <1>6, OneMoves, DataFrame DEF IInv

LEMMA InitializeChecksStep ==
    ASSUME IInv, NEW a \in Admins, InitializeChecks(a)
    PROVE  IInv'
<1>1. phase[a] = "init" /\ UNCHANGED <<env, outbox, sent, savedNode, cursor, lock, entered, crashes>>
  BY DEF InitializeChecks, dbVars
<1>2. env # Unlinked /\ Authentic(env)
  BY <1>1, AtWork DEF RequestFits
<1>3. CASE NothingQueued
  <2>1. SnapshotLooks(a, "initChecked") /\ outbox = <<>>
    BY <1>3 DEF InitializeChecks, NothingQueued
  <2> QED
    BY <1>1, <1>2, <2>1, LooksStep
<1>4. CASE ~NothingQueued
  <2>1. Finish(a)
    BY <1>4 DEF InitializeChecks
  <2> QED
    BY <1>1, <2>1, EndStep
<1> QED
  BY <1>3, <1>4

LEMMA InitializeCommitsStep ==
    ASSUME IInv, NEW a \in Admins, InitializeCommits(a)
    PROVE  IInv'
<1>1. /\ phase[a] = "initChecked" /\ Len(outbox) < MaxEvents
      /\ outbox' = Append(outbox, Baseline(a)) /\ Finish(a)
      /\ UNCHANGED <<env, sent, savedNode, cursor, lock, entered, crashes>>
  BY DEF InitializeCommits
<1>2. /\ TypeOK /\ OneRequest /\ Linked /\ Received
      /\ \A b \in Admins \ {a} : phase[b] = "idle"
      /\ RequestFits(a)
  BY <1>1, AtWork
<1>3. outbox = <<>> /\ named[a] = env.code /\ env # Unlinked /\ Authentic(env)
  BY <1>1, <1>2 DEF RequestFits
<1>4. /\ Linked' /\ Received' /\ OneBaseline' /\ CodeLocked'
      /\ outbox' \in Seq(Events) /\ sent' \in 0..Len(outbox')
  BY <1>1, <1>2, <1>3, BaselineData
<1>5. /\ phase' \in [Admins -> Phases] /\ want' \in [Admins -> Links \cup {Unlinked}]
      /\ bounds' \in [Admins -> [min : 0..MaxEvents, max : 0..MaxEvents]]
      /\ named' \in [Admins -> Codes \cup {Unlinked}]
      /\ \A b \in Admins : phase'[b] = "idle"
  BY <1>1, <1>2, Finished
<1>6. TypeOK'
  BY <1>1, <1>2, <1>4, <1>5 DEF TypeOK
<1>7. OneRequest' /\ (\A b \in Admins : RequestFits(b)')
  BY <1>5 DEF OneRequest, RequestFits
<1> QED
  BY <1>4, <1>6, <1>7 DEF IInv

LEMMA SettingsStep ==
    ASSUME OnlyConnect, IInv, NEW a \in Admins, NEW link \in Links, Settings(a, link)
    PROVE  IInv'
<1>0. TypeOK /\ OneRequest /\ Linked /\ Received /\ OneBaseline /\ CodeLocked
  BY DEF IInv
<1>1. \A b \in Admins : phase[b] = "idle"
  BY <1>0, StartsAlone DEF Settings
<1>2. /\ phase' \in [Admins -> Phases] /\ phase'[a] = "settings"
      /\ \A b \in Admins \ {a} : phase'[b] = "idle"
  BY <1>0, <1>1, Goes DEF Settings, Phases
<1>3. /\ want' = [want EXCEPT ![a] = link]
      /\ UNCHANGED <<env, outbox, sent, savedNode, cursor, lock, bounds, named, entered, crashes>>
  BY DEF Settings, dbVars
<1>4. TypeOK'
  BY <1>0, <1>2, <1>3 DEF TypeOK
<1>5. outbox # <<>> => link.code = env.code /\ link.origin = env.origin
  BY <1>0, ValidIsConfigured DEF Settings
<1>6. RequestFits(a)'
  BY <1>0, <1>2, <1>3, <1>5 DEF RequestFits, TypeOK
<1>7. Operation(phase'[a]) # "connect"
  BY <1>2 DEF Operation
<1> QED
  BY <1>0, <1>2, <1>3, <1>4, <1>6, <1>7, OneMoves, DataFrame DEF IInv

LEMMA SettingsSavesStep ==
    ASSUME IInv, NEW a \in Admins, SettingsSaves(a)
    PROVE  IInv'
<1>1. /\ phase[a] = "settings" /\ env' = want[a] /\ Finish(a)
      /\ entered' = IF outbox # <<>> /\ ~Authentic(want[a]) THEN entered \cup {want[a].node}
                                                          ELSE entered
      /\ UNCHANGED <<outbox, sent, savedNode, cursor, lock, crashes>>
  BY DEF SettingsSaves, dbVars
<1>2. /\ TypeOK /\ OneRequest /\ Linked /\ Received /\ OneBaseline /\ CodeLocked
      /\ \A b \in Admins \ {a} : phase[b] = "idle"
      /\ RequestFits(a)
  BY <1>1, AtWork
<1>3. /\ want[a] \in Links /\ want[a].node \in Nodes
      /\ outbox # <<>> => want[a].code = env.code /\ want[a].origin = env.origin
  BY <1>1, <1>2 DEF RequestFits, Links
<1>4. /\ entered \subseteq entered' /\ entered' \subseteq Nodes
      /\ outbox # <<>> => Authentic(want[a]) \/ want[a].node \in entered'
  BY <1>1, <1>2, <1>3 DEF TypeOK
<1>5. Linked' /\ Received' /\ OneBaseline' /\ CodeLocked'
  BY <1>1, <1>2, <1>3, <1>4, SavesData
<1>6. /\ phase' \in [Admins -> Phases] /\ want' \in [Admins -> Links \cup {Unlinked}]
      /\ bounds' \in [Admins -> [min : 0..MaxEvents, max : 0..MaxEvents]]
      /\ named' \in [Admins -> Codes \cup {Unlinked}]
      /\ \A b \in Admins : phase'[b] = "idle"
  BY <1>1, <1>2, Finished
<1>7. TypeOK'
  BY <1>1, <1>2, <1>3, <1>6, <1>4 DEF TypeOK
<1>8. OneRequest' /\ (\A b \in Admins : RequestFits(b)')
  BY <1>6 DEF OneRequest, RequestFits
<1> QED
  BY <1>5, <1>7, <1>8 DEF IInv

-----------------------------------------------------------------------------
(* The outbox beside the requests. *)

LEMMA EnqueueStep ==
    ASSUME IInv, EnqueueOutboxEvent
    PROVE  IInv'
<1> DEFINE e == [baseline |-> FALSE, code |-> env.code]
<1>0. /\ TypeOK /\ OneRequest /\ Linked /\ Received /\ (\A b \in Admins : RequestFits(b)) /\ OneBaseline /\ CodeLocked
  BY DEF IInv
<1>1. /\ env # Unlinked /\ InitialInventoryIsQueued(env.code) /\ Len(outbox) < MaxEvents
      /\ outbox' = Append(outbox, e)
      /\ UNCHANGED <<env, sent, savedNode, cursor, lock, phase, want, bounds, named, entered,
                     crashes>>
  BY DEF EnqueueOutboxEvent
<1>2. Len(outbox) \in Nat /\ Len(outbox) # 0 /\ outbox # <<>> /\ env.code \in Codes
  BY <1>0, <1>1, EmptyOutbox DEF InitialInventoryIsQueued, TypeOK, Links
<1>3. e \in Events /\ e.baseline = FALSE /\ e.code = env.code
  BY <1>2 DEF Events
<1> HIDE DEF e
<1>4. /\ outbox' \in Seq(Events) /\ Len(outbox') = Len(outbox) + 1 /\ outbox' # <<>>
      /\ Len(outbox') <= MaxEvents /\ outbox'[Len(outbox) + 1] = e
      /\ \A i \in 1..Len(outbox) : outbox'[i] = outbox[i]
  BY <1>0, <1>1, <1>3, AppendEvent
<1>5. OneBaseline' /\ CodeLocked'
  <2> SUFFICES ASSUME NEW i \in 1..Len(outbox')
               PROVE  (outbox'[i].baseline <=> i = 1) /\ Configured(outbox'[i].code)
    BY <1>1 DEF OneBaseline, CodeLocked, Configured
  <2>1. CASE i \in 1..Len(outbox)
    <3>1. (outbox[i].baseline <=> i = 1) /\ Configured(outbox[i].code) /\ outbox'[i] = outbox[i]
      BY <1>0, <1>4, <2>1 DEF OneBaseline, CodeLocked
    <3> QED
      BY <3>1
  <2>2. CASE i = Len(outbox) + 1
    BY <1>1, <1>2, <1>3, <1>4, <2>2 DEF Configured
  <2> QED
    BY <1>2, <1>4, <2>1, <2>2
<1>6. Linked'
  BY <1>0, <1>1, <1>2, <1>4 DEF Linked, Owner, Names
<1>7. Received'
  BY <1>0, <1>1, <1>2, <1>4 DEF Received, TypeOK, Owner, Strayed, Names
<1>8. TypeOK'
  <2>1. sent' \in 0..Len(outbox')
    BY <1>0, <1>1, <1>2, <1>4 DEF TypeOK
  <2> QED
    BY <1>0, <1>1, <1>4, <2>1 DEF TypeOK
<1>9. OneRequest' /\ (\A b \in Admins : RequestFits(b)')
  BY <1>0, <1>1, <1>2, <1>4 DEF OneRequest, RequestFits, Authentic, Names
<1> QED
  BY <1>5, <1>6, <1>7, <1>8, <1>9 DEF IInv

LEMMA DeliverStep ==
    ASSUME IInv, Deliver
    PROVE  IInv'
<1>0. /\ TypeOK /\ OneRequest /\ Linked /\ Received
      /\ (\A b \in Admins : RequestFits(b)) /\ OneBaseline /\ CodeLocked
  BY DEF IInv
<1> DEFINE to == env.node
<1>1. /\ sent < Len(outbox) /\ env # Unlinked /\ sent <= cursor[to]
      /\ cursor' = [cursor EXCEPT ![to] = IF @ = sent THEN sent + 1 ELSE @]
      /\ sent' \in {sent, sent + 1}
      /\ UNCHANGED <<env, outbox, savedNode, lock, phase, want, bounds, named, entered, crashes>>
  BY DEF Deliver
<1>2. /\ to \in Nodes /\ sent \in Nat /\ Len(outbox) \in Nat /\ MaxEvents \in Nat
      /\ cursor \in [Nodes -> 0..MaxEvents] /\ outbox # <<>>
      /\ cursor[to] \in sent..Len(outbox) /\ Len(outbox) <= MaxEvents
  <2>1. to \in Nodes
    BY <1>0, <1>1 DEF TypeOK, Links
  <2> QED
    BY <1>0, <1>1, <2>1, EmptyOutbox, EnrollmentBoundsAssumption DEF TypeOK, Received
<1> DEFINE new == IF cursor[to] = sent THEN sent + 1 ELSE cursor[to]
<1>3. cursor' = [cursor EXCEPT ![to] = new]
  BY <1>1, <1>2
<1>4. new \in sent'..Len(outbox) /\ new \in 1..MaxEvents /\ sent' \in 0..Len(outbox)
  BY <1>1, <1>2
<1>5. \A n \in Nodes : Owner(n)' <=> Owner(n)
  BY <1>1 DEF Owner, Names
<1>6. PICK o \in Nodes : Owner(o) /\ to \in entered \cup {o}
  BY <1>0, <1>2 DEF Linked
<1>7. Owner(to) \/ to \in entered
  BY <1>6
<1> HIDE DEF new
<1>8. /\ cursor' \in [Nodes -> 0..MaxEvents] /\ cursor'[to] = new
      /\ \A n \in Nodes \ {to} : cursor'[n] = cursor[n]
  BY <1>2, <1>3, <1>4
<1>9. Received'
  <2> SUFFICES ASSUME NEW n \in Nodes
               PROVE  /\ cursor'[n] <= Len(outbox)
                      /\ cursor'[n] > 0 /\ ~Owner(n) => n \in entered
                      /\ Owner(n) /\ ~Strayed' => sent' <= cursor'[n]
    BY <1>1, <1>2, <1>5 DEF Received
  <2>1. CASE n = to
    BY <1>4, <1>7, <1>8, <2>1
  <2>2. CASE n # to
    <3>1. cursor'[n] = cursor[n] /\ cursor[n] <= Len(outbox)
          /\ (cursor[n] > 0 /\ ~Owner(n) => n \in entered)
      BY <1>0, <1>8, <2>2 DEF Received
    <3>2. ASSUME Owner(n) PROVE Strayed'
      <4>1. ~Owner(to)
        BY <1>2, <2>2, <3>2, IdentityAssumption DEF Owner, Names
      <4>2. cursor'[to] > 0
        BY <1>4, <1>8, <1>2
      <4> QED
        BY <1>2, <1>5, <4>1, <4>2 DEF Strayed
    <3> QED
      BY <3>1, <3>2
  <2> QED
    BY <2>1, <2>2
<1>10. TypeOK'
  BY <1>0, <1>1, <1>4, <1>8 DEF TypeOK
<1>11. /\ Linked' /\ OneBaseline' /\ CodeLocked' /\ OneRequest'
       /\ \A b \in Admins : RequestFits(b)'
  BY <1>0, <1>1 DEF Linked, Owner, Names, OneBaseline, CodeLocked, Configured, OneRequest,
     RequestFits, Authentic
<1> QED
  BY <1>9, <1>10, <1>11 DEF IInv

LEMMA CrashStep ==
    ASSUME IInv, Crash
    PROVE  IInv'
<1>0. /\ TypeOK /\ Linked /\ Received /\ OneBaseline /\ CodeLocked
  BY DEF IInv
<1>1. /\ UNCHANGED <<env, outbox, sent, savedNode, cursor, entered>>
      /\ lock' = Unlinked /\ phase' = [a \in Admins |-> "idle"]
      /\ want' = [a \in Admins |-> Unlinked] /\ bounds' = [a \in Admins |-> NoBounds]
      /\ named' = [a \in Admins |-> Unlinked] /\ crashes < MaxCrashes /\ crashes' = crashes + 1
  BY DEF Crash, dbVars
<1>2. NoBounds \in [min : 0..MaxEvents, max : 0..MaxEvents] /\ crashes' \in 0..MaxCrashes
  BY <1>0, <1>1, EnrollmentBoundsAssumption DEF NoBounds, TypeOK
<1>3. TypeOK'
  BY <1>0, <1>1, <1>2 DEF TypeOK, Phases
<1>4. OneRequest' /\ (\A b \in Admins : RequestFits(b)')
  BY <1>1 DEF OneRequest, RequestFits
<1> QED
  BY <1>0, <1>1, <1>3, <1>4, DataFrame DEF IInv

-----------------------------------------------------------------------------
(* The theorems. *)

LEMMA InitIInv ==
    ASSUME Init
    PROVE  IInv
<1>1. Len(outbox) = 0 /\ outbox \in Seq(Events)
  BY DEF Init
<1>2. TypeOK
  BY <1>1, EnrollmentBoundsAssumption DEF Init, TypeOK, NoBounds, Phases
<1>3. OneRequest /\ \A b \in Admins : RequestFits(b)
  BY DEF Init, OneRequest, RequestFits
<1>4. Linked /\ Received /\ OneBaseline /\ CodeLocked
  BY <1>1, EnrollmentBoundsAssumption DEF Init, Linked, Received, OneBaseline, CodeLocked
<1> QED
  BY <1>2, <1>3, <1>4 DEF IInv

LEMMA NextIInv ==
    ASSUME OnlyConnect, IInv, [Next]_vars
    PROVE  IInv'
<1>1. ASSUME NEW a \in Admins, NEW link \in Links, Connect(a, link) \/ Settings(a, link)
      PROVE  IInv'
  BY <1>1, ConnectStep, SettingsStep
<1>2. ASSUME NEW a \in Admins,
             \/ ConnectMeasures(a) \/ ConnectVerifies(a) \/ ConnectSaves(a)
             \/ ConnectChecks(a) \/ ConnectCommits(a) \/ ConnectEnds(a)
      PROVE  IInv'
  BY <1>2, ConnectMeasuresStep, ConnectVerifiesStep, ConnectSavesStep, ConnectChecksStep,
     ConnectCommitsStep, ConnectEndsStep
<1>3. ASSUME NEW a \in Admins,
             \/ Initialize(a) \/ InitializeChecks(a) \/ InitializeCommits(a)
             \/ SettingsSaves(a)
      PROVE  IInv'
  BY <1>3, InitializeStep, InitializeChecksStep, InitializeCommitsStep, SettingsSavesStep
<1>4. CASE UNCHANGED vars
  <2>1. /\ TypeOK /\ OneRequest /\ Linked /\ Received /\ (\A b \in Admins : RequestFits(b)) /\ OneBaseline /\ CodeLocked
        /\ UNCHANGED <<env, outbox, sent, savedNode, cursor, lock, phase, want, bounds, named, entered,
                       crashes>>
    BY <1>4 DEF IInv, vars
  <2>2. TypeOK' /\ OneRequest' /\ (\A b \in Admins : RequestFits(b)')
    BY <2>1 DEF TypeOK, OneRequest, RequestFits, Authentic, Names
  <2> QED
    BY <2>1, <2>2, DataFrame DEF IInv
<1> QED
  BY <1>1, <1>2, <1>3, <1>4, EnqueueStep, DeliverStep, CrashStep DEF Next

\* The inductive invariant of the link to Master.
THEOREM Inductive == OnlyConnect => (Spec => []IInv)
<1> SUFFICES ASSUME OnlyConnect PROVE Spec => []IInv
  OBVIOUS
<1>1. IInv /\ [Next]_vars => IInv'
  BY NextIInv
<1> QED
  BY <1>1, InitIInv, PTL DEF Spec

\* Every variable keeps its type.
THEOREM TypeCorrect == OnlyConnect => (Spec => []TypeOK)
<1> SUFFICES ASSUME OnlyConnect PROVE Spec => []TypeOK
  OBVIOUS
<1>1. IInv => TypeOK
  BY DEF IInv
<1> QED
  BY <1>1, Inductive, PTL

\* The outbox starts with its one baseline ("Repeated clicks must never create
\* a second baseline", enqueue_initial_inventory_snapshot), whatever is
\* repeated or cut short.
THEOREM BaselineIsFirstAndOnly == OnlyConnect => (Spec => []OneBaseline)
<1> SUFFICES ASSUME OnlyConnect PROVE Spec => []OneBaseline
  OBVIOUS
<1>1. IInv => OneBaseline
  BY DEF IInv
<1> QED
  BY <1>1, Inductive, PTL

\* Settings file and outbox name the same franchise (_validate_connection_identity
\* and save_master_connection_settings), although no transaction joins them.
THEOREM FranchiseIsLocked == OnlyConnect => (Spec => []CodeLocked)
<1> SUFFICES ASSUME OnlyConnect PROVE Spec => []CodeLocked
  OBVIOUS
<1>1. IInv => CodeLocked
  BY DEF IInv
<1> QED
  BY <1>1, Inductive, PTL

\* Events reach the record that the configured code and address name, as a prefix
\* of the outbox that covers what is marked SENT, and another record only when
\* /settings was given that record's credential (POST /settings asks Master nothing;
\* verify_master_enrollment_identity is asked by /connect and /initialize).
THEOREM HistoryHasOneOwner == OnlyConnect => (Spec => []OneHistory)
<1> SUFFICES ASSUME OnlyConnect PROVE Spec => []OneHistory
  OBVIOUS
<1>1. IInv => OneHistory
  <2> SUFFICES ASSUME IInv PROVE OneHistory
    OBVIOUS
  <2>1. TypeOK /\ Linked /\ Received
    BY DEF IInv
  <2>2. \A n \in Nodes : cursor[n] > 0 /\ ~Owner(n) => n \in entered
    BY <2>1 DEF Received
  <2>3. ASSUME sent > 0, ~Strayed
        PROVE  \E n \in Nodes : Owner(n) /\ cursor[n] \in sent..Len(outbox)
    <3>1. outbox # <<>> /\ Len(outbox) \in Nat /\ sent \in Nat
      BY <2>1, <2>3, EmptyOutbox DEF TypeOK
    <3>2. PICK n \in Nodes : Owner(n)
      BY <2>1, <3>1 DEF Linked
    <3>3. cursor[n] \in sent..Len(outbox)
      BY <2>1, <2>3, <3>1, <3>2, EnrollmentBoundsAssumption DEF Received, TypeOK
    <3> QED
      BY <3>2, <3>3
  <2> QED
    BY <2>2, <2>3 DEF OneHistory
<1> QED
  BY <1>1, Inductive, PTL

\* With events in the outbox, /connect accepts the setup details of the record that
\* the configured code and address name (POST /connect), after any crash between
\* file and database and with any credential in the settings file, as long as no
\* event was delivered to another record.
THEOREM LinkIsRepairable == OnlyConnect => (Spec => []Reconnectable)
<1> SUFFICES ASSUME OnlyConnect PROVE Spec => []Reconnectable
  OBVIOUS
<1>1. IInv => Reconnectable
  <2> DEFINE range == [min |-> sent, max |-> Len(outbox)]
  <2> SUFFICES ASSUME IInv, outbox # <<>>, ~Strayed
               PROVE  \E link \in Links :
                          /\ env # Unlinked /\ link.code = env.code /\ link.origin = env.origin
                          /\ IdentityIsValid(link)
                          /\ Verified(link, range)
                          /\ savedNode \in {Unlinked, link.node}
    BY DEF Reconnectable
  <2>1. /\ TypeOK /\ Linked /\ Received /\ OneBaseline /\ CodeLocked
        /\ Len(outbox) \in Nat /\ 1 \in 1..Len(outbox)
    BY EmptyOutbox DEF IInv
  <2>2. PICK n \in Nodes : Owner(n) /\ savedNode \in {Unlinked, n}
    BY <2>1 DEF Linked
  <2>3. env # Unlinked /\ env \in Links /\ env.code = Code[n] /\ env.origin = Origin[n]
    BY <2>1, <2>2 DEF Owner, Names, TypeOK
  <2> DEFINE link == [code |-> env.code, origin |-> env.origin, node |-> n]
  <2>4. /\ link \in Links /\ link.code = env.code /\ link.origin = env.origin
        /\ link.node = n
    BY <2>3 DEF Links
  <2> HIDE DEF link
  <2>5. outbox[1].baseline /\ outbox[1].code = env.code
    BY <2>1 DEF OneBaseline, CodeLocked, Configured
  <2>6. InitialInventoryIsQueued(link.code)
    BY <2>1, <2>4, <2>5 DEF InitialInventoryIsQueued
  <2>7. Configured(link.code) /\ SavedOrigin(link.origin)
    BY <2>2, <2>3, <2>4 DEF Configured, SavedOrigin
  <2>8. IdentityIsValid(link)
    BY <2>6, <2>7 DEF IdentityIsValid, CredentialIsValid
  <2>9. cursor[n] \in sent..Len(outbox)
    BY <2>1, <2>2, EnrollmentBoundsAssumption DEF Received, TypeOK
  <2>10. Verified(link, range)
    BY <2>3, <2>4, <2>9 DEF Verified, Authentic, Names, CursorFits
  <2> QED
    BY <2>2, <2>3, <2>4, <2>8, <2>10
<1> QED
  BY <1>1, Inductive, PTL
=============================================================================
