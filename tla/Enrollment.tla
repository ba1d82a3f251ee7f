----------------------------- MODULE Enrollment -----------------------------
(***************************************************************************)
(* Linking a Lite installation to one franchise record (node) of Master    *)
(* (app/routers/lite_sync.py: POST /connect, /initialize and /settings;    *)
(* app/services/master_sync.py; app/config.py).                            *)
(*                                                                         *)
(* The link has two halves that no transaction joins: the settings file    *)
(* (franchise code, Master address, credential), and the database (the     *)
(* outbox, whose first event is the inventory baseline, and the node id    *)
(* and address noted at the last /connect).  /connect runs under a         *)
(* process-wide lock, /initialize and /settings do not take it.  The       *)
(* actions follow the handlers from one database, file or network access   *)
(* to the next.                                                            *)
(***************************************************************************)
EXTENDS Integers, Sequences, FiniteSets

CONSTANTS
    Nodes,       \* franchise records at Master, each with one credential
    Code,        \* franchise code of each record
    Origin,      \* Master address of each record
    Unlinked,    \* stands for settings not yet made
    Admins,      \* request threads
    Overlapping, \* requests that may overlap: "connect", "initialize", "settings";
                 \* a bound: the others run while no request does
    MaxEvents,   \* bound: events in the outbox
    MaxCrashes   \* bound: process crashes

\* Franchise code, Master address and credential are three fields of the forms and
\* of the settings file; a credential is named by the record it was issued for.
Codes == {Code[n] : n \in Nodes}
Origins == {Origin[n] : n \in Nodes}
Links == [code : Codes, origin : Origins, node : Nodes]

ASSUME NodesAssumption == Unlinked \notin Nodes \cup Admins \cup Links \cup Codes
\* A franchise code is unique at its Master (README.md, Setup).
ASSUME IdentityAssumption ==
    /\ DOMAIN Code = Nodes /\ DOMAIN Origin = Nodes
    /\ \A m, n \in Nodes : Code[m] = Code[n] /\ Origin[m] = Origin[n] => m = n
ASSUME OverlappingAssumption == Overlapping \subseteq {"connect", "initialize", "settings"}
ASSUME EnrollmentBoundsAssumption == MaxEvents \in Nat /\ MaxCrashes \in Nat

VARIABLES
    env,        \* the configured link
    outbox,     \* events in sequence: baseline or not, and franchise code
    sent,       \* events 1..sent are SENT
    savedNode,  \* _master_connection_node_id, _master_connection_origin
    cursor,     \* last_sequence of each record at Master
    lock,       \* holder of _connection_setup_lock
    phase, want,    \* where each request is, and the link it was given
    bounds,     \* the outbox range a /connect has measured
    named,      \* the franchise code a snapshot in progress has read
    entered,    \* history: records whose credential /settings saved, with events in the
                \* outbox, under a code or an address that is not the record's
    crashes

dbVars == <<outbox, sent, savedNode>>
vars == <<env, outbox, sent, savedNode, cursor, lock, phase, want, bounds, named, entered,
          crashes>>

-----------------------------------------------------------------------------
NoBounds == [min |-> 0, max |-> 0]
Phases == {"idle", "validated", "measured", "verified", "saved", "checked",
           "synced", "init", "initChecked", "settings"}
Events == [baseline : BOOLEAN, code : Codes]

\* initial_inventory_is_queued
InitialInventoryIsQueued(code) ==
    \E i \in 1..Len(outbox) : outbox[i].baseline /\ outbox[i].code = code

\* What Master knows: the record that a code and an address name, and a link
\* whose credential is that record's.
Names(link, n) == Code[n] = link.code /\ Origin[n] = link.origin
Authentic(link) == Names(link, link.node)

\* configured_franchise_code, and the saved address, which falls back on the
\* configured one.
Configured(code) == env # Unlinked /\ env.code = code
SavedOrigin(origin) ==
    IF savedNode # Unlinked THEN Origin[savedNode] = origin
                            ELSE env # Unlinked /\ env.origin = origin

\* A credential that is saved belongs to the saved address.
CredentialIsValid(link) ==
    env # Unlinked /\ link.node = env.node => SavedOrigin(link.origin)

\* Variants: the code, or the address, is not locked.
OriginIsValid(link) ==
    /\ outbox # <<>> => SavedOrigin(link.origin)
    /\ CredentialIsValid(link)
CodeIsValid(link) ==
    outbox # <<>> => Configured(link.code) /\ InitialInventoryIsQueued(link.code)

\* _validate_connection_identity: with events in the outbox, code and address
\* are locked.  Of the credential only the format is known, and it is that of a
\* credential Master has handed out.
IdentityIsValid(link) ==
    /\ outbox # <<>> => /\ Configured(link.code)
                        /\ InitialInventoryIsQueued(link.code)
                        /\ SavedOrigin(link.origin)
    /\ CredentialIsValid(link)

\* The conflict with the node of an earlier /connect.
SavedNodeFits(n) == savedNode \in {Unlinked, n}

\* The sequence range of the outbox that Master is asked about.
OutboxRange == [min |-> sent, max |-> Len(outbox)]

\* Variant: Master must have exactly what Lite knows to be delivered.
CursorIsKnown(n, b) == cursor[n] = b.min

\* verify_master_enrollment_identity: Master knows the credential, its record has
\* the code, and its cursor lies in the range.
CursorFits(n, b) == cursor[n] \in b.min..b.max
Verified(link, b) == Authentic(link) /\ CursorFits(link.node, b)

\* _connection_setup_lock (and a variant without it)
NoLock == TRUE
LockIsFree == lock = Unlinked

\* What enqueue_initial_inventory_snapshot looks for.
NothingQueued == outbox = <<>>

\* The operation of a request, by where it is, and which may start beside it.
Operation(where) ==
    IF where \in {"init", "initChecked"} THEN "initialize"
    ELSE IF where = "settings" THEN "settings" ELSE "connect"
MayStart(op) ==
    \A a \in Admins : phase[a] # "idle" => {op, Operation(phase[a])} \subseteq Overlapping

Go(a, where) == phase' = [phase EXCEPT ![a] = where]
Finish(a) ==
    /\ phase' = [phase EXCEPT ![a] = "idle"]
    /\ want' = [want EXCEPT ![a] = Unlinked]
    /\ bounds' = [bounds EXCEPT ![a] = NoBounds]
    /\ named' = [named EXCEPT ![a] = Unlinked]
Unlock(a) == lock' = IF lock = a THEN Unlinked ELSE lock

-----------------------------------------------------------------------------
Init ==
    /\ env = Unlinked
    /\ outbox = <<>>
    /\ sent = 0
    /\ savedNode = Unlinked
    /\ cursor = [n \in Nodes |-> 0]
    /\ lock = Unlinked
    /\ phase = [a \in Admins |-> "idle"]
    /\ want = [a \in Admins |-> Unlinked]
    /\ bounds = [a \in Admins |-> NoBounds]
    /\ named = [a \in Admins |-> Unlinked]
    /\ entered = {}
    /\ crashes = 0

-----------------------------------------------------------------------------
(* POST /connect *)

\* An identity that is not valid is answered with an error and changes nothing.
Connect(a, link) ==
    /\ MayStart("connect")
    /\ phase[a] = "idle" /\ LockIsFree
    /\ IdentityIsValid(link)
    /\ lock' = a
    /\ want' = [want EXCEPT ![a] = link]
    /\ Go(a, "validated")
    /\ UNCHANGED <<env, dbVars, cursor, bounds, named, entered, crashes>>

ConnectMeasures(a) ==
    /\ phase[a] = "validated"
    /\ bounds' = [bounds EXCEPT ![a] = OutboxRange]
    /\ Go(a, "measured")
    /\ UNCHANGED <<env, dbVars, cursor, lock, want, named, entered, crashes>>

ConnectVerifies(a) ==
    /\ phase[a] = "measured"
    /\ IF Verified(want[a], bounds[a]) /\ SavedNodeFits(want[a].node)
          THEN Go(a, "verified") /\ UNCHANGED <<lock, want, bounds, named>>
          ELSE Finish(a) /\ Unlock(a)
    /\ UNCHANGED <<env, dbVars, cursor, entered, crashes>>

\* save_master_connection_settings, before anything is in the database
ConnectSaves(a) ==
    /\ phase[a] = "verified"
    /\ env' = want[a]
    /\ Go(a, "saved")
    /\ UNCHANGED <<dbVars, cursor, lock, want, bounds, named, entered, crashes>>

\* enqueue_initial_inventory_snapshot looks for an event and reads the
\* configured franchise code ...
SnapshotLooks(a, where) ==
    /\ Go(a, where)
    /\ named' = [named EXCEPT ![a] = env.code]
    /\ UNCHANGED <<want, bounds>>

ConnectChecks(a) ==
    /\ phase[a] = "saved"
    /\ bounds[a].max = 0
    /\ IF NothingQueued
          THEN SnapshotLooks(a, "checked") /\ UNCHANGED lock
          ELSE Finish(a) /\ Unlock(a)
    /\ UNCHANGED <<env, dbVars, cursor, entered, crashes>>

\* ... and the baseline (one event here, several if the stock is large) and
\* the link are committed together.
Baseline(a) == [baseline |-> TRUE, code |-> named[a]]
ConnectCommits(a) ==
    /\ \/ phase[a] = "checked" /\ Len(outbox) < MaxEvents
          /\ outbox' = Append(outbox, Baseline(a))
       \/ phase[a] = "saved" /\ bounds[a].max > 0 /\ UNCHANGED outbox
    /\ savedNode' = want[a].node
    /\ Go(a, "synced")
    /\ UNCHANGED <<env, sent, cursor, lock, want, bounds, named, entered, crashes>>

\* _sync_connection has pushed and polled (see Deliver), and the lock is freed.
ConnectEnds(a) ==
    /\ phase[a] = "synced"
    /\ Finish(a) /\ Unlock(a)
    /\ UNCHANGED <<env, dbVars, cursor, entered, crashes>>

-----------------------------------------------------------------------------
(* POST /initialize *)

Initialize(a) ==
    /\ MayStart("initialize")
    /\ phase[a] = "idle" /\ env # Unlinked
    /\ Verified(env, NoBounds)
    /\ Go(a, "init")
    /\ UNCHANGED <<env, dbVars, cursor, lock, want, bounds, named, entered, crashes>>

InitializeChecks(a) ==
    /\ phase[a] = "init"
    /\ IF NothingQueued THEN SnapshotLooks(a, "initChecked")
                        ELSE Finish(a)
    /\ UNCHANGED <<env, dbVars, cursor, lock, entered, crashes>>

InitializeCommits(a) ==
    /\ phase[a] = "initChecked" /\ Len(outbox) < MaxEvents
    /\ outbox' = Append(outbox, Baseline(a))
    /\ Finish(a)
    /\ UNCHANGED <<env, sent, savedNode, cursor, lock, entered, crashes>>

-----------------------------------------------------------------------------
(* POST /settings: no call to Master, no lock. *)

Settings(a, link) ==
    /\ MayStart("settings")
    /\ phase[a] = "idle"
    /\ IdentityIsValid(link)
    /\ want' = [want EXCEPT ![a] = link]
    /\ Go(a, "settings")
    /\ UNCHANGED <<env, dbVars, cursor, lock, bounds, named, entered, crashes>>

SettingsSaves(a) ==
    /\ phase[a] = "settings"
    /\ env' = want[a]
    /\ entered' = IF outbox # <<>> /\ ~Authentic(want[a]) THEN entered \cup {want[a].node}
                                                        ELSE entered
    /\ Finish(a)
    /\ UNCHANGED <<dbVars, cursor, lock, crashes>>

-----------------------------------------------------------------------------
\* A stock operation: enqueue_outbox_event after require_initial_inventory_queued.
EnqueueOutboxEvent ==
    /\ env # Unlinked /\ InitialInventoryIsQueued(env.code)
    /\ Len(outbox) < MaxEvents
    /\ outbox' = Append(outbox, [baseline |-> FALSE, code |-> env.code])
    /\ UNCHANGED <<env, sent, savedNode, cursor, lock, phase, want, bounds, named, entered,
                   crashes>>

\* push_pending_events sends the oldest unsent event to the configured address
\* with the configured credential, if there is a baseline for the configured code
\* (MasterOutbox has the details).  An event does not say whose it is: Master takes
\* it for that of the record the credential belongs to.  The acknowledgement may
\* be lost.
Deliver ==
    /\ sent < Len(outbox)
    /\ env # Unlinked /\ InitialInventoryIsQueued(env.code)
    /\ Origin[env.node] = env.origin
    /\ sent <= cursor[env.node]
    /\ cursor' = [cursor EXCEPT ![env.node] = IF @ = sent THEN sent + 1 ELSE @]
    /\ sent' \in {sent, sent + 1}
    /\ UNCHANGED <<env, outbox, savedNode, lock, phase, want, bounds, named, entered, crashes>>

\* The process dies: requests and lock are gone, file and database stay.
Crash ==
    /\ crashes < MaxCrashes
    /\ crashes' = crashes + 1
    /\ lock' = Unlinked
    /\ phase' = [a \in Admins |-> "idle"]
    /\ want' = [a \in Admins |-> Unlinked]
    /\ bounds' = [a \in Admins |-> NoBounds]
    /\ named' = [a \in Admins |-> Unlinked]
    /\ UNCHANGED <<env, dbVars, cursor, entered>>

Next ==
    \/ \E a \in Admins :
          \/ \E link \in Links : Connect(a, link) \/ Settings(a, link)
          \/ ConnectMeasures(a) \/ ConnectVerifies(a) \/ ConnectSaves(a)
          \/ ConnectChecks(a) \/ ConnectCommits(a) \/ ConnectEnds(a)
          \/ Initialize(a) \/ InitializeChecks(a) \/ InitializeCommits(a)
          \/ SettingsSaves(a)
    \/ EnqueueOutboxEvent
    \/ Deliver
    \/ Crash

Spec == Init /\ [][Next]_vars

-----------------------------------------------------------------------------
TypeOK ==
    /\ env \in Links \cup {Unlinked}
    /\ outbox \in Seq(Events)
    /\ sent \in 0..Len(outbox)
    /\ savedNode \in Nodes \cup {Unlinked}
    /\ cursor \in [Nodes -> 0..MaxEvents]
    /\ lock \in Admins \cup {Unlinked}
    /\ phase \in [Admins -> Phases]
    /\ want \in [Admins -> Links \cup {Unlinked}]
    /\ bounds \in [Admins -> [min : 0..MaxEvents, max : 0..MaxEvents]]
    /\ named \in [Admins -> Codes \cup {Unlinked}]
    /\ entered \subseteq Nodes
    /\ crashes \in 0..MaxCrashes

\* "Repeated clicks must never create a second baseline": the outbox starts
\* with the baseline and holds no other, whatever crashes and is repeated.
OneBaseline == \A i \in 1..Len(outbox) : outbox[i].baseline <=> i = 1

\* "Franchise code is locked because this node already has outbox events.":
\* settings file and outbox agree on the franchise, although they are written
\* one after the other.
CodeLocked == \A i \in 1..Len(outbox) : Configured(outbox[i].code)

\* The record that the configured code and address name, and the others.
Owner(n) == env # Unlinked /\ Names(env, n)
Strayed == \E n \in Nodes : cursor[n] > 0 /\ ~Owner(n)

\* Events reach the record that the configured code and address name, whose cursor
\* covers what Lite counts as delivered, a prefix of the outbox.  They reach
\* another record only when /settings, which does not ask Master, was given that
\* record's credential.
OneHistory ==
    /\ \A n \in Nodes : cursor[n] > 0 /\ ~Owner(n) => n \in entered
    /\ sent > 0 /\ ~Strayed => \E n \in Nodes : Owner(n) /\ cursor[n] \in sent..Len(outbox)

\* The link can be repaired: with events in the outbox, /connect with the setup
\* details of the record that the configured code and address name is never
\* refused for good, whatever credential /settings has saved meanwhile, unless an
\* event was delivered with that credential.
Reconnectable ==
    outbox # <<>> /\ ~Strayed =>
        \E link \in Links :
            /\ env # Unlinked /\ link.code = env.code /\ link.origin = env.origin
            /\ IdentityIsValid(link)
            /\ Verified(link, [min |-> sent, max |-> Len(outbox)])
            /\ savedNode \in {Unlinked, link.node}

-----------------------------------------------------------------------------
(* What makes the properties inductive while only /connect overlaps. *)

\* The lock keeps one /connect at work, and the bound keeps the others apart.
OneRequest ==
    /\ \A a, b \in Admins : phase[a] # "idle" /\ phase[b] # "idle" => a = b
    /\ \A a \in Admins : phase[a] # "idle" /\ Operation(phase[a]) = "connect" => lock = a

\* A node is noted with the baseline, and it is the one that the code and the
\* address of the settings file name; so is the one the credential belongs to, or
\* /settings was given it.
Linked ==
    /\ outbox # <<>> => \E n \in Nodes : /\ Owner(n) /\ savedNode \in {Unlinked, n}
                                          /\ env.node \in entered \cup {n}
    /\ outbox = <<>> => savedNode = Unlinked

\* Who has received what: no more than the outbox, the owner no less than is SENT
\* as long as nothing has strayed.
Received ==
    /\ Len(outbox) <= MaxEvents
    /\ \A n \in Nodes : /\ cursor[n] <= Len(outbox)
                        /\ cursor[n] > 0 /\ ~Owner(n) => n \in entered
                        /\ Owner(n) /\ ~Strayed => sent <= cursor[n]

\* What a request in progress knows: with events, code and address are those
\* configured, and a baseline is written into an empty outbox under a link that
\* Master has verified.
RequestFits(a) ==
    /\ phase[a] \in {"validated", "measured", "verified", "settings"} =>
          /\ want[a] \in Links
          /\ outbox # <<>> => want[a].code = env.code /\ want[a].origin = env.origin
    /\ phase[a] = "verified" => Authentic(want[a])
    /\ phase[a] \in {"saved", "checked", "synced"} => want[a] = env
    /\ phase[a] \in {"saved", "checked", "synced", "init", "initChecked"} =>
          env # Unlinked /\ Authentic(env)
    /\ phase[a] \in {"measured", "verified", "saved"} /\ bounds[a].max > 0 => outbox # <<>>
    /\ phase[a] \in {"checked", "initChecked"} => outbox = <<>> /\ named[a] = env.code

IInv ==
    /\ TypeOK /\ OneRequest /\ Linked /\ Received
    /\ \A a \in Admins : RequestFits(a)
    /\ OneBaseline /\ CodeLocked
=============================================================================
