------------------------------- MODULE Custody -------------------------------
(***************************************************************************)
(* What transfers between franchises promise: every serial is in the       *)
(* custody of one franchise or of one transfer.  It leaves a franchise     *)
(* only with the one manifest of a transfer from there, reaches only the   *)
(* destination of that transfer, and is not sold or sent again once it     *)
(* has been sold.                                                          *)
(***************************************************************************)
CONSTANTS Franchises, Serials, Transfers, Source, Dest, Home

VARIABLES
    custodian,  \* the franchise or the transfer that has each serial
    sold,       \* serials sold by the franchise that has them
    manifest    \* what each transfer has taken with it

custodyVars == <<custodian, sold, manifest>>

Init ==
    /\ custodian = Home
    /\ sold = {}
    /\ manifest = [t \in Transfers |-> {}]

HandOver(items, from, to) ==
    /\ \A s \in items : custodian[s] = from /\ s \notin sold
    /\ custodian' = [s \in Serials |-> IF s \in items THEN to ELSE custodian[s]]
    /\ UNCHANGED sold

Dispatch(t, items) ==
    /\ manifest[t] = {} /\ items # {}
    /\ HandOver(items, Source[t], t)
    /\ manifest' = [manifest EXCEPT ![t] = items]

Receive(t, items) ==
    /\ items # {}
    /\ HandOver(items, t, Dest[t])
    /\ UNCHANGED manifest

Sell(s) ==
    /\ custodian[s] \in Franchises /\ s \notin sold
    /\ sold' = sold \cup {s}
    /\ UNCHANGED <<custodian, manifest>>

Next ==
    \/ \E t \in Transfers, items \in SUBSET Serials : Dispatch(t, items) \/ Receive(t, items)
    \/ \E s \in Serials : Sell(s)

Spec == Init /\ [][Next]_custodyVars
=============================================================================
