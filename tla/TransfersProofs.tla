-------------------------- MODULE TransfersProofs --------------------------
(***************************************************************************)
(* Proofs about Transfers, for any franchises, serials, transfers and      *)
(* clerks: what holds however requests overlap, and, while at most one     *)
(* commit overtakes a request, the journey of a serial and what two        *)
(* franchises agree on.                                                    *)
(***************************************************************************)
EXTENDS Transfers, SequenceTheorems, TLAPS

-----------------------------------------------------------------------------
(* Queues. *)

LEMMA ToSetAppend ==
    ASSUME NEW S, NEW q \in Seq(S), NEW m \in S
    PROVE  Append(q, m) \in Seq(S) /\ ToSet(Append(q, m)) = ToSet(q) \cup {m}
<1>1. /\ Len(q) \in Nat /\ DOMAIN q = 1..Len(q)
      /\ Append(q, m) \in Seq(S) /\ Len(Append(q, m)) = Len(q) + 1
      /\ \A i \in 1..Len(q) : Append(q, m)[i] = q[i]
      /\ Append(q, m)[Len(q) + 1] = m
  BY AppendProperties, LenProperties
<1>2. DOMAIN Append(q, m) = 1..(Len(q) + 1)
  BY <1>1, LenProperties
<1> QED
  BY <1>1, <1>2 DEF ToSet

LEMMA ToSetTail ==
    ASSUME NEW S, NEW q \in Seq(S), q # <<>>
    PROVE  /\ Head(q) \in S /\ Tail(q) \in Seq(S) /\ ToSet(Tail(q)) \subseteq S
           /\ ToSet(q) = {Head(q)} \cup ToSet(Tail(q))
<1>1. /\ Len(q) \in Nat /\ Len(q) > 0 /\ DOMAIN q = 1..Len(q)
      /\ Head(q) = q[1] /\ Head(q) \in S
      /\ Tail(q) \in Seq(S) /\ Len(Tail(q)) = Len(q) - 1
      /\ \A i \in 1..Len(Tail(q)) : Tail(q)[i] = q[i + 1]
  BY HeadTailProperties, LenProperties, EmptySeq
<1>2. DOMAIN Tail(q) = 1..(Len(q) - 1)
  BY <1>1, LenProperties
<1>3. ToSet(Tail(q)) \subseteq ToSet(q)
  BY <1>1, <1>2 DEF ToSet
<1>4. ASSUME NEW i \in 1..Len(q) PROVE q[i] = Head(q) \/ q[i] \in ToSet(Tail(q))
  <2>1. CASE i = 1
    BY <1>1, <2>1
  <2>2. CASE i # 1
    <3>1. i - 1 \in 1..(Len(q) - 1) /\ Tail(q)[i - 1] = q[i]
      BY <1>1, <2>2
    <3> QED
      BY <1>2, <3>1 DEF ToSet
  <2> QED
    BY <2>1, <2>2
<1>5. ToSet(q) \subseteq {Head(q)} \cup ToSet(Tail(q)) /\ Head(q) \in ToSet(q)
  BY <1>1, <1>4 DEF ToSet
<1>6. ToSet(Tail(q)) \subseteq S
  BY <1>1, <1>2 DEF ToSet
<1> QED
  BY <1>1, <1>3, <1>5, <1>6

LEMMA ToSetTyped ==
    ASSUME NEW S, NEW q \in Seq(S)
    PROVE  ToSet(q) \subseteq S /\ (q = <<>> => ToSet(q) = {})
BY LenProperties, EmptySeq DEF ToSet

LEMMA DistinctAppend ==
    ASSUME NEW q \in Seq(Messages), NEW m \in Messages, Distinct(q),
           \A n \in ToSet(q) : ~Repeats(n, m)
    PROVE  Distinct(Append(q, m))
<1>1. /\ Len(q) \in Nat /\ DOMAIN q = 1..Len(q)
      /\ Len(Append(q, m)) = Len(q) + 1
      /\ \A i \in 1..Len(q) : Append(q, m)[i] = q[i]
      /\ Append(q, m)[Len(q) + 1] = m
  BY AppendProperties, LenProperties
<1>2. \A i \in 1..Len(q) : q[i] \in ToSet(q)
  BY <1>1 DEF ToSet
<1>3. \A i \in 1..Len(q) : ~Repeats(q[i], m) /\ ~Repeats(m, q[i])
  BY <1>2 DEF Repeats
<1> SUFFICES ASSUME NEW i \in 1..(Len(q) + 1), NEW j \in 1..(Len(q) + 1),
                    Repeats(Append(q, m)[i], Append(q, m)[j])
             PROVE  i = j
  BY <1>1 DEF Distinct
<1>4. CASE i \in 1..Len(q) /\ j \in 1..Len(q)
  BY <1>1, <1>4 DEF Distinct
<1>5. CASE i = Len(q) + 1 /\ j \in 1..Len(q)
  BY <1>1, <1>3, <1>5
<1>6. CASE i \in 1..Len(q) /\ j = Len(q) + 1
  BY <1>1, <1>3, <1>6
<1> QED
  BY <1>1, <1>4, <1>5, <1>6

LEMMA DistinctTail ==
    ASSUME NEW q \in Seq(Messages), q # <<>>, Distinct(q)
    PROVE  /\ Distinct(Tail(q))
           /\ \A n \in ToSet(Tail(q)) : ~Repeats(Head(q), n)
<1>1. /\ Len(q) \in Nat /\ Len(q) > 0 /\ Head(q) = q[1]
      /\ Tail(q) \in Seq(Messages) /\ Len(Tail(q)) = Len(q) - 1
      /\ \A i \in 1..Len(Tail(q)) : Tail(q)[i] = q[i + 1]
      /\ DOMAIN Tail(q) = 1..Len(Tail(q))
  BY HeadTailProperties, LenProperties, EmptySeq
<1>2. ASSUME NEW i \in 1..(Len(q) - 1), NEW j \in 1..(Len(q) - 1), Repeats(Tail(q)[i], Tail(q)[j])
      PROVE  i = j
  <2>1. i + 1 \in 1..Len(q) /\ j + 1 \in 1..Len(q) /\ Repeats(q[i + 1], q[j + 1])
    BY <1>1, <1>2
  <2>2. i + 1 = j + 1
    BY <2>1 DEF Distinct
  <2> QED
    BY <2>2
<1>3. ASSUME NEW i \in 1..(Len(q) - 1), Repeats(Head(q), Tail(q)[i]) PROVE FALSE
  <2>1. 1 \in 1..Len(q) /\ i + 1 \in 1..Len(q) /\ Repeats(q[1], q[i + 1])
    BY <1>1, <1>3
  <2>2. 1 = i + 1
    BY <2>1 DEF Distinct
  <2> QED
    BY <2>2
<1> QED
  BY <1>1, <1>2, <1>3 DEF Distinct, ToSet

-----------------------------------------------------------------------------
(* What the operators that change the state do. *)

SerialStatuses == {"ABSENT", "IN_STOCK", "IN_TRANSIT", "SOLD"}

LEMMA StatusSet ==
    ASSUME TypeOK, NEW f \in Franchises, NEW set \in SUBSET Serials, NEW new \in SerialStatuses,
           SetStatus(f, set, new)
    PROVE  /\ status' \in [Franchises -> [Serials -> SerialStatuses]]
           /\ \A g \in Franchises, s \in Serials :
                 status'[g][s] = IF g = f /\ s \in set THEN new ELSE status[g][s]
<1> DEFINE row == [s \in Serials |-> IF s \in set THEN new ELSE status[f][s]]
<1>1. status \in [Franchises -> [Serials -> SerialStatuses]]
  BY DEF TypeOK, SerialStatuses
<1>2. row \in [Serials -> SerialStatuses]
  BY <1>1
<1>3. status' = [status EXCEPT ![f] = row]
  BY DEF SetStatus
<1>4. \A s \in Serials : row[s] = IF s \in set THEN new ELSE status[f][s]
  OBVIOUS
<1> HIDE DEF row
<1>5. status' \in [Franchises -> [Serials -> SerialStatuses]]
  BY <1>1, <1>2, <1>3
<1>6. status'[f] = row /\ \A g \in Franchises \ {f} : status'[g] = status[g]
  BY <1>1, <1>3
<1> QED
  BY <1>4, <1>5, <1>6

Operations == {"add", "remove", "dispatch", "finalize"}

\* A request that reads waits with what it has read.
LEMMA Opened ==
    ASSUME TypeOK, NEW c \in Clerks, NEW op \in Operations, NEW t \in Transfers,
           NEW set \in SUBSET Serials, NEW was \in OutStatuses \cup InStatuses,
           NEW new \in OutStatuses \cup InStatuses,
           Open(c, Request(op, t, set, was, new))
    PROVE  /\ open' \in [Clerks -> Requests \cup {NoRequest}]
           /\ open'[c] = [op |-> op, transfer |-> t, items |-> set, was |-> was, new |-> new,
                          received |-> inReceived[t], overtaken |-> 0]
           /\ \A d \in Clerks \ {c} : open'[d] = open[d]
<1> DEFINE r == [op |-> op, transfer |-> t, items |-> set, was |-> was, new |-> new,
                 received |-> inReceived[t], overtaken |-> 0]
<1>1. r \in Requests
  BY MaxOvertakenAssumption DEF Requests, Operations, TypeOK
<1>2. open' = [open EXCEPT ![c] = r]
  BY DEF Open, Request
<1> HIDE DEF r
<1>3. /\ open' \in [Clerks -> Requests \cup {NoRequest}]
      /\ open'[c] = r /\ \A d \in Clerks \ {c} : open'[d] = open[d]
  BY <1>1, <1>2 DEF TypeOK
<1> QED
  BY <1>3 DEF r

\* A request that commits is gone, and those that wait at its site are overtaken.
LEMMA Closed ==
    ASSUME TypeOK, NEW c \in Clerks, open[c].op \in Operations, Close(c)
    PROVE  /\ open[c] \in Requests
           /\ open' \in [Clerks -> Requests \cup {NoRequest}]
           /\ \A d \in Clerks : open'[d].op # "none" =>
                 /\ d # c /\ open[d] \in Requests
                 /\ open'[d].op = open[d].op /\ open'[d].transfer = open[d].transfer
                 /\ open'[d].items = open[d].items
                 /\ open'[d].was = open[d].was /\ open'[d].new = open[d].new
                 /\ open'[d].received = open[d].received
                 /\ IF Site(open[d]) = Site(open[c])
                       THEN /\ open[d].overtaken < MaxOvertaken
                            /\ open'[d].overtaken = open[d].overtaken + 1
                       ELSE open'[d].overtaken = open[d].overtaken
<1>1. open[c] \in Requests
  BY DEF TypeOK, Operations, NoRequest
<1>2. ASSUME NEW d \in Waiting(c)
      PROVE  /\ open[d] \in Requests /\ open[d].overtaken < MaxOvertaken
             /\ [open[d] EXCEPT !.overtaken = @ + 1] \in Requests
  <2>1. open[d] \in Requests /\ open[d].overtaken < MaxOvertaken
    BY DEF TypeOK, Waiting, Close
  <2>2. open[d].overtaken + 1 \in 0..MaxOvertaken
    BY <2>1, MaxOvertakenAssumption DEF Requests
  <2> QED
    BY <2>1, <2>2 DEF Requests
<1>3. open' = [d \in Clerks |->
                  IF d = c THEN NoRequest
                  ELSE IF d \in Waiting(c) THEN [open[d] EXCEPT !.overtaken = @ + 1]
                  ELSE open[d]]
  BY DEF Close
<1>4. open' \in [Clerks -> Requests \cup {NoRequest}]
  BY <1>2, <1>3 DEF TypeOK
<1>5. ASSUME NEW d \in Clerks, open'[d].op # "none"
      PROVE  /\ d # c /\ open[d] \in Requests
             /\ open'[d].op = open[d].op /\ open'[d].transfer = open[d].transfer
             /\ open'[d].items = open[d].items
             /\ open'[d].was = open[d].was /\ open'[d].new = open[d].new
             /\ open'[d].received = open[d].received
             /\ IF Site(open[d]) = Site(open[c])
                   THEN /\ open[d].overtaken < MaxOvertaken
                        /\ open'[d].overtaken = open[d].overtaken + 1
                   ELSE open'[d].overtaken = open[d].overtaken
  <2>1. d # c
    BY <1>3, <1>5 DEF NoRequest
  <2>2. CASE d \in Waiting(c)
    <3>1. open'[d] = [open[d] EXCEPT !.overtaken = @ + 1]
      BY <1>3, <2>1, <2>2
    <3>2. open[d] \in Requests /\ open[d].overtaken < MaxOvertaken
      BY <1>2, <2>2
    <3>3. Site(open[d]) = Site(open[c])
      BY <2>2 DEF Waiting
    <3> QED
      BY <2>1, <3>1, <3>2, <3>3 DEF Requests
  <2>3. CASE d \notin Waiting(c)
    <3>1. open'[d] = open[d]
      BY <1>3, <2>1, <2>3
    <3>2. open[d] # NoRequest /\ open[d] \in Requests
      BY <1>5, <3>1 DEF TypeOK, NoRequest
    <3>3. Site(open[d]) # Site(open[c])
      BY <2>1, <2>3, <3>2 DEF Waiting
    <3> QED
      BY <2>1, <3>1, <3>2, <3>3
  <2> QED
    BY <2>2, <2>3
<1> QED
  BY <1>1, <1>4, <1>5

\* Which messages are on their way.
LEMMA WhereMessagesAre ==
    ASSUME NEW m
    PROVE  m \in OnTheirWay <=> \E f \in Franchises : m \in ToSet(sent[f]) \/ m \in ToSet(queue[f])
BY DEF OnTheirWay

LEMMA MessagesTyped ==
    ASSUME TypeOK
    PROVE  /\ OnTheirWay \subseteq Messages
           /\ \A f \in Franchises :
                 /\ sent[f] \in Seq(Messages) /\ queue[f] \in Seq(Messages)
                 /\ ToSet(sent[f]) \subseteq Messages /\ ToSet(queue[f]) \subseteq Messages
<1>1. \A f \in Franchises : sent[f] \in Seq(Messages) /\ queue[f] \in Seq(Messages)
  BY DEF TypeOK
<1>2. \A f \in Franchises : ToSet(sent[f]) \subseteq Messages /\ ToSet(queue[f]) \subseteq Messages
  BY <1>1, ToSetTyped
<1> QED
  BY <1>1, <1>2 DEF OnTheirWay

\* An event is stored in the outbox of a franchise.
LEMMA Enqueued ==
    ASSUME TypeOK, NEW f \in Franchises, NEW m \in Messages, Enqueue(f, m), UNCHANGED queue
    PROVE  /\ sent' \in [Franchises -> Seq(Messages)] /\ sent'[f] = Append(sent[f], m)
           /\ ToSet(sent'[f]) = ToSet(sent[f]) \cup {m}
           /\ \A g \in Franchises \ {f} : sent'[g] = sent[g]
           /\ OnTheirWay' = OnTheirWay \cup {m}
<1>1. sent[f] \in Seq(Messages)
  BY MessagesTyped
<1>2. Append(sent[f], m) \in Seq(Messages) /\ ToSet(Append(sent[f], m)) = ToSet(sent[f]) \cup {m}
  BY <1>1, ToSetAppend
<1>3. /\ sent' \in [Franchises -> Seq(Messages)] /\ sent'[f] = Append(sent[f], m)
      /\ \A g \in Franchises \ {f} : sent'[g] = sent[g]
  BY <1>2 DEF Enqueue, TypeOK
<1>4. OnTheirWay' = OnTheirWay \cup {m}
  <2>1. \A x : x \in OnTheirWay <=>
           \E g \in Franchises : x \in ToSet(sent[g]) \/ x \in ToSet(queue[g])
    BY DEF OnTheirWay
  <2>2. \A x : x \in OnTheirWay' <=>
           \E g \in Franchises : x \in ToSet(sent'[g]) \/ x \in ToSet(queue[g])
    BY DEF OnTheirWay
  <2>3. \A x, g : g \in Franchises =>
           (x \in ToSet(sent'[g]) <=> x \in ToSet(sent[g]) \/ (g = f /\ x = m))
    BY <1>2, <1>3
  <2> QED
    BY <2>1, <2>2, <2>3
<1> QED
  BY <1>2, <1>3, <1>4

\* Master passes a message on.
LEMMA MessageRouted ==
    ASSUME TypeOK, NEW f \in Franchises, MasterRoutes(f)
    PROVE  LET m == Head(sent[f])  to == Receiver(m)
           IN  /\ m \in Messages /\ to \in Franchises
               /\ sent' \in [Franchises -> Seq(Messages)] /\ queue' \in [Franchises -> Seq(Messages)]
               /\ sent[f] # <<>> /\ sent'[f] = Tail(sent[f]) /\ queue'[to] = Append(queue[to], m)
               /\ ToSet(sent[f]) = {m} \cup ToSet(sent'[f])
               /\ ToSet(queue'[to]) = ToSet(queue[to]) \cup {m}
               /\ \A g \in Franchises \ {f} : sent'[g] = sent[g]
               /\ \A g \in Franchises \ {to} : queue'[g] = queue[g]
               /\ OnTheirWay' = OnTheirWay /\ m \in OnTheirWay
<1> DEFINE m == Head(sent[f])
           to == Receiver(m)
<1>1. sent[f] \in Seq(Messages) /\ sent[f] # <<>>
  BY MessagesTyped DEF MasterRoutes
<1>2. m \in Messages /\ Tail(sent[f]) \in Seq(Messages)
      /\ ToSet(sent[f]) = {m} \cup ToSet(Tail(sent[f]))
  BY <1>1, ToSetTail
<1>3. to \in Franchises
  BY <1>2, RouteAssumption DEF Receiver, Messages
<1>4. queue[to] \in Seq(Messages)
  BY <1>3, MessagesTyped
<1>5. Append(queue[to], m) \in Seq(Messages)
      /\ ToSet(Append(queue[to], m)) = ToSet(queue[to]) \cup {m}
  BY <1>2, <1>4, ToSetAppend
<1>6. /\ queue' = [queue EXCEPT ![to] = Append(queue[to], m)]
      /\ sent' = [sent EXCEPT ![f] = Tail(sent[f])]
  BY DEF MasterRoutes
<1> HIDE DEF m, to
<1>7. /\ sent' \in [Franchises -> Seq(Messages)] /\ sent'[f] = Tail(sent[f])
      /\ \A g \in Franchises \ {f} : sent'[g] = sent[g]
      /\ queue' \in [Franchises -> Seq(Messages)] /\ queue'[to] = Append(queue[to], m)
      /\ \A g \in Franchises \ {to} : queue'[g] = queue[g]
  BY <1>2, <1>3, <1>5, <1>6 DEF TypeOK
<1>8. /\ ToSet(sent[f]) = {m} \cup ToSet(sent'[f])
      /\ ToSet(queue'[to]) = ToSet(queue[to]) \cup {m}
  BY <1>2, <1>5, <1>7
<1>9. OnTheirWay' = OnTheirWay /\ m \in OnTheirWay
  <2>1. \A x : x \in OnTheirWay <=>
           \E g \in Franchises : x \in ToSet(sent[g]) \/ x \in ToSet(queue[g])
    BY DEF OnTheirWay
  <2>2. \A x : x \in OnTheirWay' <=>
           \E g \in Franchises : x \in ToSet(sent'[g]) \/ x \in ToSet(queue'[g])
    BY DEF OnTheirWay
  <2>3. \A x : x \in OnTheirWay => x \in OnTheirWay'
    BY <1>3, <1>7, <1>8, <2>1, <2>2
  <2>4. \A x : x \in OnTheirWay' => x \in OnTheirWay
    BY <1>3, <1>7, <1>8, <2>1, <2>2
  <2> QED
    BY <1>8, <2>1, <2>3, <2>4
<1> QED
  BY <1>1, <1>2, <1>3, <1>7, <1>8, <1>9 DEF m, to

\* A franchise applies its first command.
LEMMA CommandTaken ==
    ASSUME TypeOK, NEW f \in Franchises, ApplyCommand(f)
    PROVE  LET m == Head(queue[f])
           IN  /\ m \in Messages
               /\ queue' \in [Franchises -> Seq(Messages)] /\ queue[f] # <<>>
               /\ queue'[f] = Tail(queue[f]) /\ ToSet(queue[f]) = {m} \cup ToSet(queue'[f])
               /\ \A g \in Franchises \ {f} : queue'[g] = queue[g]
               /\ UNCHANGED <<conflicts, open, raced, sent>>
               /\ OnTheirWay' \subseteq OnTheirWay /\ m \in OnTheirWay
<1> DEFINE m == Head(queue[f])
<1>1. queue[f] \in Seq(Messages) /\ queue[f] # <<>>
  BY MessagesTyped DEF ApplyCommand
<1>2. m \in Messages /\ Tail(queue[f]) \in Seq(Messages)
      /\ ToSet(queue[f]) = {m} \cup ToSet(Tail(queue[f]))
  BY <1>1, ToSetTail
<1>3. queue' = [queue EXCEPT ![f] = Tail(queue[f])] /\ UNCHANGED <<conflicts, open, raced, sent>>
  BY DEF ApplyCommand, clerkVars
<1> HIDE DEF m
<1>4. /\ queue' \in [Franchises -> Seq(Messages)] /\ queue'[f] = Tail(queue[f])
      /\ \A g \in Franchises \ {f} : queue'[g] = queue[g]
  BY <1>2, <1>3 DEF TypeOK
<1>5. ToSet(queue[f]) = {m} \cup ToSet(queue'[f])
  BY <1>2, <1>4
<1>6. OnTheirWay' \subseteq OnTheirWay /\ m \in OnTheirWay
  <2>1. \A x : x \in OnTheirWay <=>
           \E g \in Franchises : x \in ToSet(sent[g]) \/ x \in ToSet(queue[g])
    BY DEF OnTheirWay
  <2>2. \A x : x \in OnTheirWay' <=>
           \E g \in Franchises : x \in ToSet(sent[g]) \/ x \in ToSet(queue'[g])
    BY <1>3 DEF OnTheirWay
  <2> QED
    BY <1>4, <1>5, <2>1, <2>2
<1> QED
  BY <1>1, <1>2, <1>3, <1>4, <1>5, <1>6 DEF m

-----------------------------------------------------------------------------
(* What holds however requests overlap. *)

LEMMA OpenKnows ==
    ASSUME TypeOK, RequestsKnow, NEW c \in Clerks, NEW op \in Operations, NEW t \in Transfers,
           NEW set \in SUBSET Serials, NEW was \in OutStatuses \cup InStatuses,
           NEW new \in OutStatuses \cup InStatuses,
           Open(c, Request(op, t, set, was, new)),
           op = "dispatch" => new = "DISPATCHED",
           op = "finalize" => was \in Receivable /\ new \in {"PARTIALLY_RECEIVED", "RECEIVED"}
    PROVE  open' \in [Clerks -> Requests \cup {NoRequest}] /\ RequestsKnow'
<1>1. /\ open' \in [Clerks -> Requests \cup {NoRequest}]
      /\ open'[c] = [op |-> op, transfer |-> t, items |-> set, was |-> was, new |-> new,
                     received |-> inReceived[t], overtaken |-> 0]
      /\ \A d \in Clerks \ {c} : open'[d] = open[d]
  BY Opened
<1>2. RequestsKnow'
  <2> SUFFICES ASSUME NEW d \in Clerks
               PROVE  /\ open'[d].op = "dispatch" => open'[d].new = "DISPATCHED"
                      /\ open'[d].op = "finalize" =>
                            /\ open'[d].was \in Receivable
                            /\ open'[d].new \in {"PARTIALLY_RECEIVED", "RECEIVED"}
    BY DEF RequestsKnow
  <2>1. CASE d = c
    BY <1>1, <2>1
  <2>2. CASE d # c
    BY <1>1, <2>2 DEF RequestsKnow
  <2> QED
    BY <2>1, <2>2
<1> QED
  BY <1>1, <1>2

LEMMA CloseKnows ==
    ASSUME TypeOK, RequestsKnow, NEW c \in Clerks, open[c].op \in Operations, Close(c)
    PROVE  /\ open[c] \in Requests /\ open' \in [Clerks -> Requests \cup {NoRequest}]
           /\ RequestsKnow'
<1>1. RequestsKnow'
  <2> SUFFICES ASSUME NEW d \in Clerks, open'[d].op \in {"dispatch", "finalize"}
               PROVE  /\ open'[d].op = "dispatch" => open'[d].new = "DISPATCHED"
                      /\ open'[d].op = "finalize" =>
                            /\ open'[d].was \in Receivable
                            /\ open'[d].new \in {"PARTIALLY_RECEIVED", "RECEIVED"}
    BY DEF RequestsKnow
  <2>1. /\ open'[d].op = open[d].op /\ open'[d].was = open[d].was
        /\ open'[d].new = open[d].new
    BY Closed
  <2> QED
    BY <2>1 DEF RequestsKnow
<1> QED
  BY <1>1, Closed

LEMMA LooksTyped ==
    ASSUME TypeOK, RequestsKnow, NEW c \in Clerks, NEW t \in Transfers,
           \/ DispatchLooks(c, t) \/ FinalizeLooks(c, t)
           \/ \E s \in Serials : AddLooks(c, t, s) \/ RemoveLooks(c, t, s)
    PROVE  TypeOK' /\ RequestsKnow'
<1>1. UNCHANGED <<serialVars, outVars, inVars, raced, sent, queue>>
  BY DEF DispatchLooks, FinalizeLooks, AddLooks, RemoveLooks
<1>2. open' \in [Clerks -> Requests \cup {NoRequest}] /\ RequestsKnow'
  <2>1. CASE DispatchLooks(c, t)
    <3>1. outItems[t] \in SUBSET Serials
      BY DEF TypeOK
    <3>2. Open(c, Request("dispatch", t, outItems[t], "DRAFT", "DISPATCHED"))
      BY <2>1 DEF DispatchLooks
    <3> QED
      BY <3>1, <3>2, OpenKnows DEF OutStatuses, Operations
  <2>2. CASE FinalizeLooks(c, t)
    <3> DEFINE receipt == scanned[t] \ inReceived[t]
    <3>1. receipt \in SUBSET Serials /\ in[t] \in Receivable
      BY <2>2 DEF TypeOK, FinalizeLooks
    <3>2. Open(c, Request("finalize", t, receipt, in[t], AfterReceipt(t, receipt)))
      BY <2>2 DEF FinalizeLooks
    <3> HIDE DEF receipt
    <3>3. AfterReceipt(t, receipt) \in {"PARTIALLY_RECEIVED", "RECEIVED"}
      BY DEF AfterReceipt
    <3> QED
      BY <3>1, <3>2, <3>3, OpenKnows DEF InStatuses, Operations, Receivable
  <2>3. ASSUME NEW s \in Serials, AddLooks(c, t, s) \/ RemoveLooks(c, t, s)
        PROVE  open' \in [Clerks -> Requests \cup {NoRequest}] /\ RequestsKnow'
    <3>1. PICK op \in {"add", "remove"} : Open(c, Request(op, t, {s}, "DRAFT", "DRAFT"))
      BY <2>3 DEF AddLooks, RemoveLooks
    <3> QED
      BY <3>1, OpenKnows DEF OutStatuses, Operations
  <2> QED
    BY <2>1, <2>2, <2>3
<1>3. TypeOK'
  BY <1>1, <1>2 DEF TypeOK, serialVars, outVars, inVars
<1> QED
  BY <1>2, <1>3

LEMMA RaceTyped ==
    ASSUME TypeOK, NEW c \in Clerks, open[c].transfer \in Transfers, NEW late, Race(c, late)
    PROVE  raced' \subseteq Transfers /\ raced \subseteq raced'
BY DEF TypeOK, Race

LEMMA CommitTyped ==
    ASSUME TypeOK, RequestsKnow, NEW c \in Clerks,
           \/ AddOutboundSerial(c) \/ RemoveOutboundSerial(c)
           \/ DispatchOutbound(c) \/ FinalizeInbound(c)
    PROVE  TypeOK' /\ RequestsKnow'
<1> DEFINE r == open[c]
<1>1. /\ r \in Requests /\ open' \in [Clerks -> Requests \cup {NoRequest}]
      /\ RequestsKnow'
  BY CloseKnows DEF AddOutboundSerial, RemoveOutboundSerial, DispatchOutbound, FinalizeInbound,
     Operations
<1>2. r.transfer \in Transfers /\ r.items \in SUBSET Serials
  BY <1>1 DEF Requests
<1>3. Site(r) \in Franchises
  BY <1>2, RouteAssumption DEF Site
<1>4. CASE AddOutboundSerial(c)
  <2>1. raced' \subseteq Transfers
    BY <1>2, <1>4, RaceTyped DEF AddOutboundSerial
  <2> QED
    BY <1>1, <1>2, <1>4, <2>1 DEF AddOutboundSerial, TypeOK, serialVars, inVars
<1>5. CASE RemoveOutboundSerial(c)
  <2>1. raced' \subseteq Transfers
    BY <1>2, <1>5, RaceTyped DEF RemoveOutboundSerial
  <2> QED
    BY <1>1, <1>2, <1>5, <2>1 DEF RemoveOutboundSerial, TypeOK, serialVars, inVars
<1>6. CASE DispatchOutbound(c)
  <2>1. /\ UNCHANGED <<active, conflicts, outItems, outReceived, in, inItems, scanned, inReceived, queue>>
        /\ raced' \subseteq Transfers
    <3>1. raced' \subseteq Transfers
      BY <1>2, <1>6, RaceTyped DEF DispatchOutbound, TypeOK
    <3> QED
      BY <1>6, <3>1 DEF DispatchOutbound, inVars
  <2>2. CASE UNCHANGED <<status, out, sent>>
    BY <1>1, <2>1, <2>2 DEF TypeOK
  <2>3. CASE ~UNCHANGED <<status, out, sent>>
    <3>1. /\ SetStatus(Site(r), r.items, "IN_TRANSIT")
          /\ out' = [out EXCEPT ![r.transfer] = r.new] /\ r.new = "DISPATCHED"
          /\ Enqueue(Site(r), Message("DISPATCHED", r.transfer, r.items))
      BY <1>6, <2>3 DEF DispatchOutbound, RequestsKnow
    <3>2. Message("DISPATCHED", r.transfer, r.items) \in Messages
      BY <1>2 DEF Message, Messages
    <3>3. status' \in [Franchises -> [Serials -> SerialStatuses]]
      BY <1>2, <1>3, <3>1, StatusSet DEF SerialStatuses
    <3>4. sent' \in [Franchises -> Seq(Messages)]
      BY <1>3, <2>1, <3>1, <3>2, Enqueued
    <3>5. out' \in [Transfers -> OutStatuses]
      BY <1>2, <3>1 DEF TypeOK, OutStatuses
    <3> QED
      BY <1>1, <2>1, <3>3, <3>4, <3>5 DEF TypeOK, SerialStatuses
  <2> QED
    BY <1>1, <2>2, <2>3
<1>7. CASE FinalizeInbound(c)
  <2>1. /\ UNCHANGED <<active, conflicts, out, outItems, outReceived, inItems, scanned, queue>>
        /\ raced' \subseteq Transfers
    <3>1. raced' \subseteq Transfers
      BY <1>2, <1>7, RaceTyped DEF FinalizeInbound, TypeOK
    <3> QED
      BY <1>7, <3>1 DEF FinalizeInbound, outVars
  <2>2. CASE UNCHANGED <<status, inReceived, in, sent>>
    BY <1>1, <2>1, <2>2 DEF TypeOK
  <2>3. CASE ~UNCHANGED <<status, inReceived, in, sent>>
    <3>1. /\ SetStatus(Site(r), r.items, "IN_STOCK")
          /\ inReceived' = [inReceived EXCEPT ![r.transfer] = @ \cup r.items]
          /\ in' = [in EXCEPT ![r.transfer] = IF r.new = r.was THEN @ ELSE r.new]
          /\ r.new \in {"PARTIALLY_RECEIVED", "RECEIVED"}
          /\ Enqueue(Site(r), Message("RECEIVED", r.transfer, r.items))
      BY <1>7, <2>3 DEF FinalizeInbound, RequestsKnow
    <3>2. Message("RECEIVED", r.transfer, r.items) \in Messages
      BY <1>2 DEF Message, Messages
    <3>3. status' \in [Franchises -> [Serials -> SerialStatuses]]
      BY <1>2, <1>3, <3>1, StatusSet DEF SerialStatuses
    <3>4. sent' \in [Franchises -> Seq(Messages)]
      BY <1>3, <2>1, <3>1, <3>2, Enqueued
    <3>5. in' \in [Transfers -> InStatuses]
      BY <1>2, <3>1 DEF TypeOK, InStatuses
    <3>6. inReceived' \in [Transfers -> SUBSET Serials]
      BY <1>2, <3>1 DEF TypeOK
    <3> QED
      BY <1>1, <2>1, <3>3, <3>4, <3>5, <3>6 DEF TypeOK, SerialStatuses
  <2> QED
    BY <1>1, <2>2, <2>3
<1> QED
  BY <1>1, <1>4, <1>5, <1>6, <1>7

\* The effect of a dispatch, of a receipt and of each command, serial by serial.
LEMMA DispatchDoes ==
    ASSUME TypeOK, RequestsKnow, NEW c \in Clerks, DispatchOutbound(c)
    PROVE  LET r == open[c]
               t == r.transfer
               f == Source[t]
               m == [type |-> "DISPATCHED", transfer |-> t, items |-> r.items]
           IN  /\ r \in Requests /\ r.op = "dispatch" /\ Close(c)
               /\ t \in Transfers /\ f \in Franchises /\ r.items \in SUBSET Serials
               /\ UNCHANGED <<active, outItems, outReceived, in, inItems, scanned, inReceived, queue>>
               /\ raced \subseteq raced'
               /\ \/ UNCHANGED <<status, out, sent>>
                  \/ /\ \A s \in r.items : InStock(f, s)
                     /\ \A g \in Franchises, s \in Serials :
                           status'[g][s] = IF g = f /\ s \in r.items THEN "IN_TRANSIT" ELSE status[g][s]
                     /\ out'[t] = "DISPATCHED" /\ \A u \in Transfers \ {t} : out'[u] = out[u]
                     /\ t \notin raced' => r.items = outItems[t]
                     /\ m \in Messages /\ sent'[f] = Append(sent[f], m)
                     /\ ToSet(sent'[f]) = ToSet(sent[f]) \cup {m}
                     /\ \A g \in Franchises \ {f} : sent'[g] = sent[g]
                     /\ OnTheirWay' = OnTheirWay \cup {m}
<1> DEFINE r == open[c]
           t == r.transfer
           f == Source[t]
           m == [type |-> "DISPATCHED", transfer |-> t, items |-> r.items]
<1>1. r \in Requests /\ r.op = "dispatch" /\ Close(c)
  BY CloseKnows DEF DispatchOutbound, Operations
<1>2. t \in Transfers /\ r.items \in SUBSET Serials
  BY <1>1 DEF Requests
<1>3. f \in Franchises /\ Site(r) = f
  BY <1>1, <1>2, RouteAssumption DEF Site
<1>4. UNCHANGED <<active, outItems, outReceived, in, inItems, scanned, inReceived, queue>>
  BY DEF DispatchOutbound, inVars
<1>0. raced \subseteq raced'
  BY <1>2, RaceTyped DEF DispatchOutbound
<1>5. CASE ~CanDispatch(Site(r), r.items)
  BY <1>1, <1>2, <1>3, <1>4, <1>0, <1>5 DEF DispatchOutbound
<1>6. CASE CanDispatch(Site(r), r.items)
  <2>1. /\ SetStatus(f, r.items, "IN_TRANSIT") /\ \A s \in r.items : InStock(f, s)
        /\ out' = [out EXCEPT ![t] = "DISPATCHED"] /\ Enqueue(f, m)
        /\ t \notin raced' => r.items = outItems[t]
    BY <1>1, <1>3, <1>6 DEF DispatchOutbound, RequestsKnow, CanDispatch, Message, Race
  <2>2. m \in Messages
    BY <1>2 DEF Messages
  <2>3. \A g \in Franchises, s \in Serials :
           status'[g][s] = IF g = f /\ s \in r.items THEN "IN_TRANSIT" ELSE status[g][s]
    BY <1>2, <1>3, <2>1, StatusSet DEF SerialStatuses
  <2>4. out'[t] = "DISPATCHED" /\ \A u \in Transfers \ {t} : out'[u] = out[u]
    BY <1>2, <2>1 DEF TypeOK
  <2>5. queue' = queue
    BY <1>4
  <2> HIDE DEF r, t, f, m
  <2>6. /\ sent'[f] = Append(sent[f], m)
        /\ ToSet(sent'[f]) = ToSet(sent[f]) \cup {m}
        /\ \A g \in Franchises \ {f} : sent'[g] = sent[g]
        /\ OnTheirWay' = OnTheirWay \cup {m}
    BY <1>3, <2>1, <2>2, <2>5, Enqueued
  <2> QED
    BY <1>1, <1>2, <1>3, <1>4, <1>0, <2>1, <2>2, <2>3, <2>4, <2>6 DEF r, t, f, m
<1> QED
  BY <1>5, <1>6

LEMMA FinalizeDoes ==
    ASSUME TypeOK, RequestsKnow, NEW c \in Clerks, FinalizeInbound(c)
    PROVE  LET r == open[c]
               t == r.transfer
               f == Dest[t]
               m == [type |-> "RECEIVED", transfer |-> t, items |-> r.items]
           IN  /\ r \in Requests /\ r.op = "finalize" /\ Close(c)
               /\ t \in Transfers /\ f \in Franchises /\ r.items \in SUBSET Serials
               /\ UNCHANGED <<active, out, outItems, outReceived, inItems, scanned, raced, queue>>
               /\ \/ UNCHANGED <<status, inReceived, in, sent>>
                  \/ /\ \A s \in r.items : InTransit(f, s)
                     /\ \A g \in Franchises, s \in Serials :
                           status'[g][s] = IF g = f /\ s \in r.items THEN "IN_STOCK" ELSE status[g][s]
                     /\ inReceived'[t] = inReceived[t] \cup r.items
                     /\ \A u \in Transfers \ {t} : inReceived'[u] = inReceived[u]
                     /\ in'[t] = IF r.new = r.was THEN in[t] ELSE r.new
                     /\ \A u \in Transfers \ {t} : in'[u] = in[u]
                     /\ m \in Messages /\ sent'[f] = Append(sent[f], m)
                     /\ ToSet(sent'[f]) = ToSet(sent[f]) \cup {m}
                     /\ \A g \in Franchises \ {f} : sent'[g] = sent[g]
                     /\ OnTheirWay' = OnTheirWay \cup {m}
<1> DEFINE r == open[c]
           t == r.transfer
           f == Dest[t]
           m == [type |-> "RECEIVED", transfer |-> t, items |-> r.items]
<1>1. r \in Requests /\ r.op = "finalize" /\ Close(c)
  BY CloseKnows DEF FinalizeInbound, Operations
<1>2. t \in Transfers /\ r.items \in SUBSET Serials
  BY <1>1 DEF Requests
<1>3. f \in Franchises /\ Site(r) = f
  BY <1>1, <1>2, RouteAssumption DEF Site
<1>4. UNCHANGED <<active, out, outItems, outReceived, inItems, scanned, raced, queue>>
  BY DEF FinalizeInbound, outVars
<1>5. CASE ~CanReceive(Site(r), r.items)
  BY <1>1, <1>2, <1>3, <1>4, <1>5 DEF FinalizeInbound
<1>6. CASE CanReceive(Site(r), r.items)
  <2>1. /\ SetStatus(f, r.items, "IN_STOCK") /\ \A s \in r.items : InTransit(f, s)
        /\ inReceived' = [inReceived EXCEPT ![t] = @ \cup r.items]
        /\ in' = [in EXCEPT ![t] = IF r.new = r.was THEN @ ELSE r.new] /\ Enqueue(f, m)
    BY <1>1, <1>3, <1>6 DEF FinalizeInbound, CanReceive, Message
  <2>2. m \in Messages
    BY <1>2 DEF Messages
  <2>3. \A g \in Franchises, s \in Serials :
           status'[g][s] = IF g = f /\ s \in r.items THEN "IN_STOCK" ELSE status[g][s]
    BY <1>2, <1>3, <2>1, StatusSet DEF SerialStatuses
  <2>4. /\ inReceived'[t] = inReceived[t] \cup r.items
        /\ \A u \in Transfers \ {t} : inReceived'[u] = inReceived[u]
        /\ in'[t] = IF r.new = r.was THEN in[t] ELSE r.new
        /\ \A u \in Transfers \ {t} : in'[u] = in[u]
    BY <1>2, <2>1 DEF TypeOK
  <2>5. queue' = queue
    BY <1>4
  <2> HIDE DEF r, t, f, m
  <2>6. /\ sent'[f] = Append(sent[f], m)
        /\ ToSet(sent'[f]) = ToSet(sent[f]) \cup {m}
        /\ \A g \in Franchises \ {f} : sent'[g] = sent[g]
        /\ OnTheirWay' = OnTheirWay \cup {m}
    BY <1>3, <2>1, <2>2, <2>5, Enqueued
  <2>7. \A s \in r.items : InTransit(f, s)
    BY <2>1
  <2> USE DEF r, t, f, m
  <2> QED
    BY <1>1, <1>2, <1>3, <1>4, <2>2, <2>3, <2>4, <2>6, <2>7
<1> QED
  BY <1>5, <1>6

LEMMA AvailableDoes ==
    ASSUME TypeOK, NEW f \in Franchises, NEW m \in Messages, ApplyAvailable(f, m)
    PROVE  /\ m.type = "DISPATCHED" /\ m.transfer \in Transfers /\ m.items \in SUBSET Serials
           /\ UNCHANGED <<out, outItems, outReceived, scanned, inReceived>>
           /\ \/ in[m.transfer] # "NONE" /\ UNCHANGED <<in, inItems, status, active>>
              \/ /\ in[m.transfer] = "NONE"
                 /\ \A s \in m.items : status[f][s] = "ABSENT" \/ Returning(f, s)
                 /\ \A g \in Franchises, s \in Serials :
                       status'[g][s] = IF g = f /\ s \in m.items THEN "IN_TRANSIT" ELSE status[g][s]
                 /\ active'[f] = active[f] \cup m.items
                 /\ \A g \in Franchises \ {f} : active'[g] = active[g]
                 /\ in'[m.transfer] = "AWAITING_RECEIPT" /\ inItems'[m.transfer] = m.items
                 /\ \A u \in Transfers \ {m.transfer} : in'[u] = in[u] /\ inItems'[u] = inItems[u]
           /\ status' \in [Franchises -> [Serials -> SerialStatuses]]
           /\ active' \in [Franchises -> SUBSET Serials]
           /\ in' \in [Transfers -> InStatuses] /\ inItems' \in [Transfers -> SUBSET Serials]
<1>1. m.type = "DISPATCHED" /\ m.transfer \in Transfers /\ m.items \in SUBSET Serials
  BY DEF ApplyAvailable, Messages
<1>2. UNCHANGED <<out, outItems, outReceived, scanned, inReceived>>
  BY DEF ApplyAvailable, outVars
<1>3. CASE in[m.transfer] # "NONE"
  <2>1. UNCHANGED <<in, inItems, status, active>>
    BY <1>3 DEF ApplyAvailable, serialVars
  <2> QED
    BY <1>1, <1>2, <1>3, <2>1 DEF TypeOK, SerialStatuses
<1>4. CASE in[m.transfer] = "NONE"
  <2>1. /\ in' = [in EXCEPT ![m.transfer] = "AWAITING_RECEIPT"]
        /\ inItems' = [inItems EXCEPT ![m.transfer] = m.items]
        /\ SetStatus(f, m.items, "IN_TRANSIT")
        /\ active' = [active EXCEPT ![f] = @ \cup m.items]
        /\ \A s \in m.items : status[f][s] = "ABSENT" \/ Returning(f, s)
    BY <1>4 DEF ApplyAvailable, CanArrive
  <2>2. /\ status' \in [Franchises -> [Serials -> SerialStatuses]]
        /\ \A g \in Franchises, s \in Serials :
              status'[g][s] = IF g = f /\ s \in m.items THEN "IN_TRANSIT" ELSE status[g][s]
    BY <1>1, <2>1, StatusSet DEF SerialStatuses
  <2>3. /\ active' \in [Franchises -> SUBSET Serials] /\ active'[f] = active[f] \cup m.items
        /\ \A g \in Franchises \ {f} : active'[g] = active[g]
    BY <1>1, <2>1 DEF TypeOK
  <2>4. /\ in' \in [Transfers -> InStatuses] /\ inItems' \in [Transfers -> SUBSET Serials]
        /\ in'[m.transfer] = "AWAITING_RECEIPT" /\ inItems'[m.transfer] = m.items
        /\ \A u \in Transfers \ {m.transfer} : in'[u] = in[u] /\ inItems'[u] = inItems[u]
    BY <1>1, <2>1 DEF TypeOK, InStatuses
  <2> QED
    BY <1>1, <1>2, <1>4, <2>1, <2>2, <2>3, <2>4
<1> QED
  BY <1>3, <1>4

LEMMA ReceiptDoes ==
    ASSUME TypeOK, NEW f \in Franchises, NEW m \in Messages, ApplyReceipt(f, m)
    PROVE  LET t == m.transfer
           IN  /\ m.type = "RECEIVED" /\ t \in Transfers /\ m.items \in SUBSET Serials
               /\ CanSettle(m)
               /\ UNCHANGED <<status, outItems, in, inItems, scanned, inReceived>>
               /\ outReceived'[t] = outReceived[t] \cup m.items
               /\ \A u \in Transfers \ {t} : outReceived'[u] = outReceived[u] /\ out'[u] = out[u]
               /\ active'[f] = active[f] \ (m.items \ outReceived[t])
               /\ \A g \in Franchises \ {f} : active'[g] = active[g]
               /\ out'[t] = Settled(t, outReceived[t] \cup m.items)
               /\ out'[t] \in {"RECEIVED", "PARTIALLY_RECEIVED", out[t]}
               /\ active' \in [Franchises -> SUBSET Serials]
               /\ out' \in [Transfers -> OutStatuses]
               /\ outReceived' \in [Transfers -> SUBSET Serials]
<1> DEFINE t == m.transfer
<1>1. m.type = "RECEIVED" /\ t \in Transfers /\ m.items \in SUBSET Serials
  BY DEF ApplyReceipt, Messages
<1>2. CanSettle(m) /\ UNCHANGED <<status, outItems, in, inItems, scanned, inReceived>>
  BY DEF ApplyReceipt, inVars
<1>3. Settled(t, outReceived[t] \cup m.items) \in {"RECEIVED", "PARTIALLY_RECEIVED", out[t]}
  BY DEF Settled
<1>4. /\ outReceived' = [outReceived EXCEPT ![t] = outReceived[t] \cup m.items]
      /\ active' = [active EXCEPT ![f] = @ \ (m.items \ outReceived[t])]
      /\ out' = [out EXCEPT ![t] = Settled(t, outReceived[t] \cup m.items)]
  BY DEF ApplyReceipt, ReceivedBy
<1>5. out[t] \in OutStatuses
  BY <1>1 DEF TypeOK
<1> HIDE DEF t
<1>6. /\ outReceived' \in [Transfers -> SUBSET Serials]
      /\ outReceived'[t] = outReceived[t] \cup m.items
      /\ \A u \in Transfers \ {t} : outReceived'[u] = outReceived[u]
  BY <1>1, <1>4 DEF TypeOK
<1>7. /\ active' \in [Franchises -> SUBSET Serials]
      /\ active'[f] = active[f] \ (m.items \ outReceived[t])
      /\ \A g \in Franchises \ {f} : active'[g] = active[g]
  BY <1>1, <1>4 DEF TypeOK
<1>8. /\ out' \in [Transfers -> OutStatuses]
      /\ out'[t] = Settled(t, outReceived[t] \cup m.items)
      /\ \A u \in Transfers \ {t} : out'[u] = out[u]
  BY <1>1, <1>3, <1>4, <1>5 DEF TypeOK, OutStatuses
<1> QED
  BY <1>1, <1>2, <1>3, <1>6, <1>7, <1>8 DEF t

LEMMA TypeStep ==
    ASSUME TypeOK, RequestsKnow, [Next]_vars
    PROVE  TypeOK' /\ RequestsKnow'
<1>1. ASSUME NEW c \in Clerks, ClerkStep(c) PROVE TypeOK' /\ RequestsKnow'
  BY <1>1, LooksTyped, CommitTyped DEF ClerkStep
<1>2. ASSUME UNCHANGED open, TypeOK' PROVE TypeOK' /\ RequestsKnow'
  BY <1>2 DEF RequestsKnow
<1>3. ASSUME NEW t \in Transfers, CreateOutbound(t) PROVE TypeOK' /\ UNCHANGED open
  BY <1>3 DEF CreateOutbound, TypeOK, serialVars, inVars, clerkVars, OutStatuses
<1>4. ASSUME NEW t \in Transfers, NEW s \in Serials, ScanInbound(t, s)
      PROVE  TypeOK' /\ UNCHANGED open
  BY <1>4 DEF ScanInbound, TypeOK, serialVars, outVars, clerkVars
<1>5. ASSUME NEW f \in Franchises, NEW s \in Serials, SellSerial(f, s)
      PROVE  TypeOK' /\ UNCHANGED open
  <2>1. status' \in [Franchises -> [Serials -> SerialStatuses]]
    BY <1>5, StatusSet DEF SellSerial, SerialStatuses
  <2> QED
    BY <1>5, <2>1 DEF SellSerial, TypeOK, SerialStatuses, outVars, inVars, clerkVars
<1>6. ASSUME NEW f \in Franchises, MasterRoutes(f) PROVE TypeOK' /\ UNCHANGED open
  <2>1. sent' \in [Franchises -> Seq(Messages)] /\ queue' \in [Franchises -> Seq(Messages)]
    BY <1>6, MessageRouted
  <2> QED
    BY <1>6, <2>1 DEF MasterRoutes, TypeOK, serialVars, outVars, inVars, clerkVars
<1>7. ASSUME NEW f \in Franchises, ApplyCommand(f) PROVE TypeOK' /\ UNCHANGED open
  <2>1. /\ Head(queue[f]) \in Messages /\ queue' \in [Franchises -> Seq(Messages)]
        /\ UNCHANGED <<conflicts, open, raced, sent>>
    BY <1>7, CommandTaken
  <2>2. CASE ApplyAvailable(f, Head(queue[f]))
    <3>1. /\ UNCHANGED <<out, outItems, outReceived, scanned, inReceived>>
          /\ status' \in [Franchises -> [Serials -> SerialStatuses]]
          /\ active' \in [Franchises -> SUBSET Serials]
          /\ in' \in [Transfers -> InStatuses] /\ inItems' \in [Transfers -> SUBSET Serials]
      BY <2>1, <2>2, AvailableDoes
    <3> QED
      BY <2>1, <3>1 DEF TypeOK, SerialStatuses
  <2>3. CASE ApplyReceipt(f, Head(queue[f]))
    <3>1. /\ UNCHANGED <<status, outItems, in, inItems, scanned, inReceived>>
          /\ active' \in [Franchises -> SUBSET Serials]
          /\ out' \in [Transfers -> OutStatuses]
          /\ outReceived' \in [Transfers -> SUBSET Serials]
      BY <2>1, <2>3, ReceiptDoes
    <3> QED
      BY <2>1, <3>1 DEF TypeOK
  <2> QED
    BY <1>7, <2>2, <2>3 DEF ApplyCommand
<1>8. ASSUME NEW f \in Franchises, NEW p \in Edited, EditProduct(f, p)
      PROVE  TypeOK' /\ UNCHANGED open
  <2>1. p \in Products
    BY ProductAssumption
  <2>2. conflicts' \in [Franchises -> SUBSET Products]
    BY <1>8, <2>1 DEF EditProduct, TypeOK
  <2> QED
    BY <1>8, <2>2 DEF EditProduct, TypeOK, outVars, inVars, clerkVars
<1>9. CASE UNCHANGED vars
  BY <1>9 DEF vars, TypeOK, RequestsKnow
<1> QED
  BY <1>1, <1>2, <1>3, <1>4, <1>5, <1>6, <1>7, <1>8, <1>9 DEF Next

\* Messages, what they tell and what has been received are left alone.
LEMMA MessagesFrame ==
    ASSUME Routed, ReceiptsAreTrue, SourceAgrees, UNCHANGED <<sent, queue, inReceived>>,
           \A t \in Transfers : outReceived'[t] \subseteq outReceived[t]
    PROVE  Routed' /\ ReceiptsAreTrue' /\ SourceAgrees'
<1>1. Routed'
  BY DEF Routed, Sender, Receiver
<1>2. ReceiptsAreTrue'
  BY DEF ReceiptsAreTrue, OnTheirWay
<1>3. SourceAgrees'
  BY DEF SourceAgrees
<1> QED
  BY <1>1, <1>2, <1>3

LEMMA DispatchTells ==
    ASSUME BaseInv, NEW c \in Clerks, DispatchOutbound(c)
    PROVE  Routed' /\ ReceiptsAreTrue' /\ SourceAgrees'
<1> DEFINE t == open[c].transfer
           f == Source[t]
           m == [type |-> "DISPATCHED", transfer |-> t, items |-> open[c].items]
<1>1. TypeOK /\ RequestsKnow /\ Routed /\ ReceiptsAreTrue /\ SourceAgrees
  BY DEF BaseInv
<1>2. CASE UNCHANGED <<status, out, sent>>
  <2>1. UNCHANGED <<sent, queue, inReceived>> /\ UNCHANGED outReceived
    BY <1>1, <1>2, DispatchDoes
  <2> QED
    BY <1>1, <2>1, MessagesFrame
<1>3. CASE ~UNCHANGED <<status, out, sent>>
  <2>1. /\ UNCHANGED <<queue, inReceived, outReceived>> /\ f \in Franchises
        /\ ToSet(sent'[f]) = ToSet(sent[f]) \cup {m}
        /\ \A g \in Franchises \ {f} : sent'[g] = sent[g]
        /\ OnTheirWay' = OnTheirWay \cup {m}
        /\ m.type = "DISPATCHED" /\ Sender(m) = f
    BY <1>1, <1>3, DispatchDoes DEF Sender
  <2> HIDE DEF t, f, m
  <2>2. Routed'
    BY <1>1, <2>1 DEF Routed, Sender, Receiver
  <2>3. ReceiptsAreTrue'
    BY <1>1, <2>1 DEF ReceiptsAreTrue
  <2> QED
    BY <1>1, <2>1, <2>2, <2>3 DEF SourceAgrees
<1> QED
  BY <1>2, <1>3

LEMMA FinalizeTells ==
    ASSUME BaseInv, NEW c \in Clerks, FinalizeInbound(c)
    PROVE  Routed' /\ ReceiptsAreTrue' /\ SourceAgrees'
<1> DEFINE t == open[c].transfer
           f == Dest[t]
           m == [type |-> "RECEIVED", transfer |-> t, items |-> open[c].items]
<1>1. TypeOK /\ RequestsKnow /\ Routed /\ ReceiptsAreTrue /\ SourceAgrees
  BY DEF BaseInv
<1>2. CASE UNCHANGED <<status, inReceived, in, sent>>
  <2>1. UNCHANGED <<sent, queue, inReceived>> /\ UNCHANGED outReceived
    BY <1>1, <1>2, FinalizeDoes
  <2> QED
    BY <1>1, <2>1, MessagesFrame
<1>3. CASE ~UNCHANGED <<status, inReceived, in, sent>>
  <2>1. /\ UNCHANGED <<queue, outReceived>> /\ f \in Franchises /\ t \in Transfers
        /\ inReceived'[t] = inReceived[t] \cup open[c].items
        /\ \A u \in Transfers \ {t} : inReceived'[u] = inReceived[u]
        /\ ToSet(sent'[f]) = ToSet(sent[f]) \cup {m}
        /\ \A g \in Franchises \ {f} : sent'[g] = sent[g]
        /\ OnTheirWay' = OnTheirWay \cup {m}
        /\ m.type = "RECEIVED" /\ m.transfer = t /\ m.items = open[c].items /\ Sender(m) = f
    BY <1>1, <1>3, FinalizeDoes DEF Sender
  <2>2. \A u \in Transfers : inReceived[u] \subseteq inReceived'[u]
    BY <2>1
  <2>3. \A n \in OnTheirWay : n.transfer \in Transfers
    BY <1>1, MessagesTyped DEF Messages
  <2> HIDE DEF t, f, m
  <2>4. Routed'
    BY <1>1, <2>1 DEF Routed, Sender, Receiver
  <2>5. ReceiptsAreTrue'
    BY <1>1, <2>1, <2>2, <2>3 DEF ReceiptsAreTrue
  <2> QED
    BY <1>1, <2>1, <2>2, <2>4, <2>5 DEF SourceAgrees
<1> QED
  BY <1>2, <1>3

Tells == Routed /\ ReceiptsAreTrue /\ SourceAgrees

LEMMA BaseStep == BaseInv /\ [Next]_vars => BaseInv'
<1> SUFFICES ASSUME BaseInv, [Next]_vars PROVE BaseInv'
  OBVIOUS
<1>1. TypeOK /\ RequestsKnow /\ Routed /\ ReceiptsAreTrue /\ SourceAgrees
  BY DEF BaseInv
<1>2. TypeOK' /\ RequestsKnow'
  BY <1>1, TypeStep
<1>3. ASSUME UNCHANGED <<outReceived, inReceived, sent, queue>> PROVE Tells'
  BY <1>1, <1>3, MessagesFrame DEF Tells
<1>4. ASSUME NEW c \in Clerks, RemoveOutboundSerial(c) PROVE Tells'
  <2>1. open[c] \in Requests
    BY <1>1, <1>4, CloseKnows DEF RemoveOutboundSerial, Operations
  <2>2. \A t \in Transfers : outReceived'[t] \subseteq outReceived[t]
    BY <1>1, <1>4, <2>1 DEF RemoveOutboundSerial, TypeOK, Requests
  <2>3. UNCHANGED <<sent, queue, inReceived>>
    BY <1>4 DEF RemoveOutboundSerial, inVars
  <2> QED
    BY <1>1, <2>2, <2>3, MessagesFrame DEF Tells
<1>5. ASSUME NEW c \in Clerks, ClerkStep(c) PROVE Tells'
  <2>1. CASE DispatchOutbound(c) \/ FinalizeInbound(c) \/ RemoveOutboundSerial(c)
    BY <1>4, <2>1, DispatchTells, FinalizeTells DEF Tells
  <2>2. CASE ~(DispatchOutbound(c) \/ FinalizeInbound(c) \/ RemoveOutboundSerial(c))
    <3>1. UNCHANGED <<outReceived, inReceived, sent, queue>>
      BY <1>5, <2>2 DEF ClerkStep, AddOutboundSerial, DispatchLooks, FinalizeLooks, AddLooks,
         RemoveLooks, outVars, inVars
    <3> QED
      BY <1>3, <3>1
  <2> QED
    BY <2>1, <2>2
<1>6. ASSUME NEW t \in Transfers, CreateOutbound(t) \/ \E s \in Serials : ScanInbound(t, s)
      PROVE  Tells'
  <2>1. UNCHANGED <<outReceived, inReceived, sent, queue>>
    BY <1>6 DEF CreateOutbound, ScanInbound, outVars, inVars
  <2> QED
    BY <1>3, <2>1
<1>7. ASSUME NEW f \in Franchises, NEW s \in Serials, SellSerial(f, s) PROVE Tells'
  <2>1. UNCHANGED <<outReceived, inReceived, sent, queue>>
    BY <1>7 DEF SellSerial, outVars, inVars
  <2> QED
    BY <1>3, <2>1
<1>12. ASSUME NEW f \in Franchises, NEW p \in Edited, EditProduct(f, p) PROVE Tells'
  <2>1. UNCHANGED <<outReceived, inReceived, sent, queue>>
    BY <1>12 DEF EditProduct, outVars, inVars
  <2> QED
    BY <1>3, <2>1
<1>8. ASSUME NEW f \in Franchises, MasterRoutes(f) PROVE Tells'
  <2> DEFINE m == Head(sent[f])
             to == Receiver(m)
  <2>1. /\ ToSet(sent[f]) = {m} \cup ToSet(sent'[f])
        /\ ToSet(queue'[to]) = ToSet(queue[to]) \cup {m}
        /\ \A g \in Franchises \ {f} : sent'[g] = sent[g]
        /\ \A g \in Franchises \ {to} : queue'[g] = queue[g]
        /\ OnTheirWay' = OnTheirWay /\ to \in Franchises
    BY <1>1, <1>8, MessageRouted
  <2>2. UNCHANGED <<outReceived, inReceived>> /\ Receiver(m) = to
    BY <1>8 DEF MasterRoutes, outVars, inVars
  <2> HIDE DEF m, to
  <2>3. Routed'
    BY <1>1, <2>1, <2>2 DEF Routed, Sender, Receiver
  <2> QED
    BY <1>1, <2>1, <2>2, <2>3 DEF ReceiptsAreTrue, SourceAgrees, Tells
<1>9. ASSUME NEW f \in Franchises, ApplyCommand(f) PROVE Tells'
  <2> DEFINE m == Head(queue[f])
  <2>1. /\ m \in Messages /\ m \in OnTheirWay /\ OnTheirWay' \subseteq OnTheirWay
        /\ ToSet(queue[f]) = {m} \cup ToSet(queue'[f])
        /\ \A g \in Franchises \ {f} : queue'[g] = queue[g]
        /\ sent' = sent
    BY <1>1, <1>9, CommandTaken
  <2> HIDE DEF m
  <2>2. Routed'
    BY <1>1, <2>1 DEF Routed, Sender, Receiver
  <2>3. CASE ApplyAvailable(f, m)
    <3>1. UNCHANGED <<outReceived, inReceived>>
      BY <1>1, <2>1, <2>3, AvailableDoes
    <3> QED
      BY <1>1, <2>1, <2>2, <3>1 DEF ReceiptsAreTrue, SourceAgrees, Tells
  <2>4. CASE ApplyReceipt(f, m)
    <3>1. /\ UNCHANGED inReceived /\ m.type = "RECEIVED" /\ m.transfer \in Transfers
          /\ outReceived'[m.transfer] = outReceived[m.transfer] \cup m.items
          /\ \A u \in Transfers \ {m.transfer} : outReceived'[u] = outReceived[u]
      BY <1>1, <2>1, <2>4, ReceiptDoes
    <3> QED
      BY <1>1, <2>1, <2>2, <3>1 DEF ReceiptsAreTrue, SourceAgrees, Tells
  <2> QED
    BY <1>9, <2>3, <2>4 DEF ApplyCommand, m
<1>10. ASSUME UNCHANGED vars PROVE Tells'
  <2>1. UNCHANGED <<outReceived, inReceived, sent, queue>>
    BY <1>10 DEF vars
  <2> QED
    BY <1>3, <2>1
<1>11. Tells'
  BY <1>5, <1>6, <1>7, <1>8, <1>9, <1>10, <1>12 DEF Next
<1> QED
  BY <1>2, <1>11 DEF BaseInv, Tells

LEMMA BaseInit == Init => BaseInv
<1> SUFFICES ASSUME Init PROVE BaseInv
  OBVIOUS
<1>1. \A f \in Franchises : ToSet(sent[f]) = {} /\ ToSet(queue[f]) = {}
  BY ToSetTyped DEF Init, ToSet
<1>2. TypeOK
  <2>1. status \in [Franchises -> [Serials -> SerialStatuses]]
    BY DEF Init, SerialStatuses
  <2>2. <<>> \in Seq(Messages)
    OBVIOUS
  <2> QED
    BY <2>1, <2>2 DEF Init, TypeOK, SerialStatuses, OutStatuses, InStatuses
<1>3. RequestsKnow /\ SourceAgrees
  BY DEF Init, RequestsKnow, SourceAgrees, NoRequest
<1>4. Routed /\ ReceiptsAreTrue
  BY <1>1 DEF Routed, ReceiptsAreTrue, OnTheirWay
<1> QED
  BY <1>2, <1>3, <1>4 DEF BaseInv

\* What holds of transfers however requests overlap.
THEOREM BaseInductive == Spec => []BaseInv
<1> QED
  BY BaseInit, BaseStep, PTL DEF Spec

\* Documents, serials, requests and messages keep their types
\* (app/services/transfer.py); the status of a transfer is one of its own side.
THEOREM TypeCorrect == Spec => []TypeOK
<1>1. BaseInv => TypeOK
  BY DEF BaseInv
<1> QED
  BY <1>1, BaseInductive, PTL

\* The source marks as received only what the destination has recorded
\* (apply_transfer_receipt_command), whatever requests overtake each other.
THEOREM SourceBelievesTheReceipts == Spec => []SourceAgrees
<1>1. BaseInv => SourceAgrees
  BY DEF BaseInv
<1> QED
  BY <1>1, BaseInductive, PTL

-----------------------------------------------------------------------------
(* The journey of a serial, while at most one commit overtakes a request. *)

\* A manifest or a receipt on its way is with its sender or with its receiver.
Travels(t, s) == \E m \in OnTheirWay : Carries(m, "DISPATCHED", t, s)
Answered(t, s) == \E m \in OnTheirWay : Carries(m, "RECEIVED", t, s)
Placing ==
    \A t \in Transfers, s \in Serials :
        /\ Carried(t, s) <=> Travels(t, s) \/ Arriving(t, s)
        /\ Receipted(t, s) <=> Answered(t, s)

LEMMA PlacingHolds == Routed => Placing
<1> SUFFICES ASSUME Routed, NEW t \in Transfers, NEW s \in Serials
             PROVE  /\ Carried(t, s) <=> Travels(t, s) \/ Arriving(t, s)
                    /\ Receipted(t, s) <=> Answered(t, s)
  BY DEF Placing
<1>1. Source[t] \in Franchises /\ Dest[t] \in Franchises
  BY RouteAssumption
<1>2. \A m : m \in OnTheirWay <=>
         \E f \in Franchises : m \in ToSet(sent[f]) \/ m \in ToSet(queue[f])
  BY DEF OnTheirWay
<1>3. ASSUME NEW m \in OnTheirWay, Carries(m, "DISPATCHED", t, s)
      PROVE  m \in ToSet(sent[Source[t]]) \/ m \in ToSet(queue[Dest[t]])
  BY <1>2, <1>3 DEF Routed, Sender, Receiver, Carries
<1>4. ASSUME NEW m \in OnTheirWay, Carries(m, "RECEIVED", t, s)
      PROVE  m \in ToSet(sent[Dest[t]]) \/ m \in ToSet(queue[Source[t]])
  BY <1>2, <1>4 DEF Routed, Sender, Receiver, Carries
<1>5. /\ Holds(sent[Source[t]], "DISPATCHED", t, s) \/ Holds(queue[Dest[t]], "DISPATCHED", t, s)
            <=> Travels(t, s)
      /\ Holds(sent[Dest[t]], "RECEIVED", t, s) \/ Holds(queue[Source[t]], "RECEIVED", t, s)
            <=> Answered(t, s)
  BY <1>1, <1>2, <1>3, <1>4 DEF Holds, Travels, Answered
<1> QED
  BY <1>5 DEF Carried, Receipted

LEMMA PlacingNext == Routed' => Placing'
<1> QED
  BY PlacingHolds, PTL

\* A serial is in one place.
OnePlace(s) ==
    /\ \A f, g \in Franchises : At(f, s) /\ At(g, s) => f = g
    /\ \A t, u \in Transfers : Carried(t, s) /\ Carried(u, s) => t = u
    /\ \A f \in Franchises, t \in Transfers : ~(At(f, s) /\ Carried(t, s))
    /\ \/ \E f \in Franchises : At(f, s)
       \/ \E t \in Transfers : Carried(t, s)

AllInOnePlace == \A s \in Serials : OnePlace(s)

LEMMA ConservedMeans == Conserved <=> AllInOnePlace
<1> SUFFICES ASSUME NEW s \in Serials
             PROVE  (\E p \in Franchises \cup Transfers : Places(s) = {p}) <=> OnePlace(s)
  BY DEF Conserved, AllInOnePlace
<1>1. \A p : p \in Places(s) <=> \/ p \in Franchises /\ At(p, s)
                                 \/ p \in Transfers /\ Carried(p, s)
  BY DEF Places
<1>2. \A p : ~(p \in Franchises /\ p \in Transfers)
  BY NamesAssumption
<1>3. ASSUME NEW p \in Franchises \cup Transfers, Places(s) = {p} PROVE OnePlace(s)
  <2>1. \A x : x \in Places(s) <=> x = p
    BY <1>3
  <2> QED
    BY <1>1, <1>2, <2>1 DEF OnePlace
<1>4. ASSUME OnePlace(s) PROVE \E p \in Franchises \cup Transfers : Places(s) = {p}
  <2>1. CASE \E f \in Franchises : At(f, s)
    <3>1. PICK f \in Franchises : At(f, s)
      BY <2>1
    <3>2. \A x : x \in Places(s) <=> x = f
      BY <1>1, <1>4, <3>1 DEF OnePlace
    <3>3. Places(s) = {f}
      BY <3>2
    <3> QED
      BY <3>3
  <2>2. CASE \E t \in Transfers : Carried(t, s)
    <3>1. PICK t \in Transfers : Carried(t, s)
      BY <2>2
    <3>2. \A x : x \in Places(s) <=> x = t
      BY <1>1, <1>4, <3>1 DEF OnePlace
    <3>3. Places(s) = {t}
      BY <3>2
    <3> QED
      BY <3>3
  <2> QED
    BY <1>4, <2>1, <2>2 DEF OnePlace
<1> QED
  BY <1>3, <1>4

\* Repetition goes both ways.
LEMMA RepeatsBack ==
    ASSUME NEW m, NEW n, Repeats(m, n)
    PROVE  Repeats(n, m)
BY DEF Repeats

\* An event that repeats none keeps messages apart.
LEMMA EnqueueApart ==
    ASSUME TypeOK, NoRepeats, NEW f \in Franchises, NEW m \in Messages, UNCHANGED queue,
           sent'[f] = Append(sent[f], m), \A g \in Franchises \ {f} : sent'[g] = sent[g],
           ToSet(sent'[f]) = ToSet(sent[f]) \cup {m},
           \A n \in OnTheirWay : ~Repeats(n, m)
    PROVE  NoRepeats'
<1>1. \A g \in Franchises : ToSet(sent[g]) \subseteq OnTheirWay /\ ToSet(queue[g]) \subseteq OnTheirWay
  BY DEF OnTheirWay
<1>2. Distinct(sent'[f])
  BY <1>1, MessagesTyped, DistinctAppend DEF NoRepeats
<1>3. ASSUME NEW g \in Franchises PROVE Distinct(sent'[g]) /\ Distinct(queue[g])
  BY <1>2 DEF NoRepeats
<1>4. ASSUME NEW h \in Franchises, NEW g \in Franchises,
             NEW a \in ToSet(sent'[h]), NEW b \in ToSet(queue[g])
      PROVE  ~Repeats(a, b)
  <2>1. CASE a \in ToSet(sent[h])
    BY <2>1 DEF NoRepeats
  <2>2. CASE h = f /\ a = m
    BY <1>1, <2>2, RepeatsBack
  <2> QED
    BY <2>1, <2>2
<1> SUFFICES ASSUME NEW h \in Franchises
             PROVE  /\ Distinct(sent'[h]) /\ Distinct(queue[h])
                    /\ \A g \in Franchises : \A a \in ToSet(sent'[h]), b \in ToSet(queue[g]) : ~Repeats(a, b)
  BY DEF NoRepeats, Distinct, Repeats
<1> QED
  BY <1>3, <1>4

\* Master passes a message on: it stays the only one of its kind.
LEMMA RouteApart ==
    ASSUME TypeOK, Routed, NoRepeats, NEW f \in Franchises, MasterRoutes(f)
    PROVE  NoRepeats'
<1> DEFINE m == Head(sent[f])
           to == Receiver(m)
<1>1. /\ m \in Messages /\ to \in Franchises
      /\ sent[f] # <<>> /\ sent'[f] = Tail(sent[f]) /\ queue'[to] = Append(queue[to], m)
      /\ ToSet(sent[f]) = {m} \cup ToSet(sent'[f])
      /\ ToSet(queue'[to]) = ToSet(queue[to]) \cup {m}
      /\ \A g \in Franchises \ {f} : sent'[g] = sent[g]
      /\ \A g \in Franchises \ {to} : queue'[g] = queue[g]
  BY MessageRouted
<1>2. /\ sent[f] \in Seq(Messages) /\ Distinct(sent[f])
      /\ queue[to] \in Seq(Messages) /\ Distinct(queue[to])
  BY <1>1, MessagesTyped DEF NoRepeats
<1>3. Distinct(sent'[f]) /\ \A n \in ToSet(sent'[f]) : ~Repeats(m, n)
  BY <1>1, <1>2, DistinctTail
<1> HIDE DEF m, to
<1>4. Distinct(queue'[to])
  <2>1. \A n \in ToSet(queue[to]) : ~Repeats(n, m)
    BY <1>1, RepeatsBack DEF NoRepeats
  <2> QED
    BY <1>1, <1>2, <2>1, DistinctAppend
<1>5. ASSUME NEW h \in Franchises, NEW g \in Franchises,
             NEW a \in ToSet(sent'[h]), NEW b \in ToSet(queue'[g])
      PROVE  ~Repeats(a, b)
  <2>1. a \in ToSet(sent[h])
    BY <1>1
  <2>2. CASE b \in ToSet(queue[g])
    BY <2>1, <2>2 DEF NoRepeats
  <2>3. CASE b = m /\ h = f
    BY <1>3, <2>3, RepeatsBack
  <2>4. CASE b = m /\ h # f
    <3>1. Sender(a) = h /\ Sender(m) = f
      BY <1>1, <2>1 DEF Routed
    <3> QED
      BY <2>4, <3>1 DEF Repeats, Sender
  <2> QED
    BY <1>1, <2>2, <2>3, <2>4
<1>6. \A g \in Franchises : Distinct(sent'[g]) /\ Distinct(queue'[g])
  BY <1>1, <1>3, <1>4 DEF NoRepeats
<1> QED
  BY <1>5, <1>6 DEF NoRepeats, Distinct, Repeats

\* A franchise applies a command: none like it is left.
LEMMA ApplyApart ==
    ASSUME TypeOK, Routed, NoRepeats, NEW f \in Franchises, ApplyCommand(f)
    PROVE  /\ NoRepeats'
           /\ \A n \in OnTheirWay' : ~Repeats(n, Head(queue[f]))
           /\ OnTheirWay = {Head(queue[f])} \cup OnTheirWay'
           /\ Receiver(Head(queue[f])) = f
<1> DEFINE m == Head(queue[f])
<1>1. /\ m \in Messages
      /\ queue[f] # <<>> /\ queue'[f] = Tail(queue[f]) /\ ToSet(queue[f]) = {m} \cup ToSet(queue'[f])
      /\ \A g \in Franchises \ {f} : queue'[g] = queue[g]
      /\ sent' = sent /\ OnTheirWay' \subseteq OnTheirWay /\ m \in OnTheirWay
  BY CommandTaken
<1>2. queue[f] \in Seq(Messages) /\ Distinct(queue[f])
  BY MessagesTyped DEF NoRepeats
<1>3. Distinct(queue'[f]) /\ \A n \in ToSet(queue'[f]) : ~Repeats(m, n)
  BY <1>1, <1>2, DistinctTail
<1>4. Receiver(m) = f
  BY <1>1 DEF Routed
<1> HIDE DEF m
<1>5. ASSUME NEW h \in Franchises, NEW g \in Franchises,
             NEW a \in ToSet(sent'[h]), NEW b \in ToSet(queue'[g])
      PROVE  ~Repeats(a, b)
  <2>1. a \in ToSet(sent[h]) /\ b \in ToSet(queue[g])
    BY <1>1
  <2> QED
    BY <2>1 DEF NoRepeats
<1>6. \A g \in Franchises : Distinct(sent'[g]) /\ Distinct(queue'[g])
  BY <1>1, <1>3 DEF NoRepeats
<1>7. NoRepeats'
  BY <1>5, <1>6 DEF NoRepeats, Distinct, Repeats
<1>8. \A x : x \in OnTheirWay' <=>
         \E g \in Franchises : x \in ToSet(sent[g]) \/ x \in ToSet(queue'[g])
  BY <1>1 DEF OnTheirWay
<1>9. \A x : x \in OnTheirWay <=>
         \E g \in Franchises : x \in ToSet(sent[g]) \/ x \in ToSet(queue[g])
  BY DEF OnTheirWay
<1>10. ASSUME NEW n \in OnTheirWay', Repeats(n, m) PROVE FALSE
  <2>1. PICK g \in Franchises : n \in ToSet(sent[g]) \/ n \in ToSet(queue'[g])
    BY <1>8
  <2>2. CASE n \in ToSet(sent[g])
    BY <1>1, <1>10, <2>2 DEF NoRepeats
  <2>3. CASE n \in ToSet(queue'[g]) /\ g = f
    BY <1>3, <1>10, <2>3, RepeatsBack
  <2>4. CASE n \in ToSet(queue'[g]) /\ g # f
    <3>1. Receiver(n) = g
      BY <1>1, <2>4 DEF Routed
    <3> QED
      BY <1>4, <1>10, <2>4, <3>1 DEF Repeats, Receiver
  <2> QED
    BY <2>1, <2>2, <2>3, <2>4
<1>11. OnTheirWay = {m} \cup OnTheirWay'
  <2>1. \A x : x \in OnTheirWay <=> x = m \/ x \in OnTheirWay'
    BY <1>1, <1>8, <1>9
  <2> QED
    BY <2>1
<1> QED
  BY <1>4, <1>7, <1>10, <1>11 DEF m

\* Where a serial is, when a step leaves the places of serials alone.
Journeys == InStages /\ InOneRole /\ AllInOnePlace

LEMMA JourneysFrame ==
    ASSUME Routed, Routed', Journeys, OnTheirWay' = OnTheirWay,
           UNCHANGED <<in, inItems, inReceived>>,
           \A f \in Franchises, s \in Serials :
              (At(f, s)' <=> At(f, s)) /\ (InTransit(f, s)' <=> InTransit(f, s)),
           \A t \in Transfers :
              /\ Dispatched(t) => Dispatched(t)'
              /\ outReceived'[t] \subseteq outReceived[t]
              /\ scanned'[t] \subseteq scanned[t] \cup inItems[t],
           \A m \in OnTheirWay : m.transfer \in Transfers
    PROVE  /\ Journeys'
           /\ \A u \in Transfers, s \in Serials : Unsettled(u, s)' <=> Unsettled(u, s)
<1>1. InStages /\ InOneRole /\ AllInOnePlace
  BY DEF Journeys
<1>2. \A t \in Transfers : Source[t] \in Franchises /\ Dest[t] \in Franchises
  BY RouteAssumption
<1>3. \A t \in Transfers, s \in Serials : Arriving(t, s)' <=> Arriving(t, s)
  BY DEF Arriving
<1>4. \A t \in Transfers, s \in Serials :
         /\ Travels(t, s)' <=> Travels(t, s)
         /\ Answered(t, s)' <=> Answered(t, s)
  BY DEF Travels, Answered, Carries
<1>5. \A t \in Transfers, s \in Serials :
         (Carried(t, s)' <=> Carried(t, s)) /\ (Receipted(t, s)' <=> Receipted(t, s))
  BY <1>3, <1>4, PlacingHolds, PlacingNext DEF Placing
<1>6. InStages'
  BY <1>1 DEF InStages
<1>7. InOneRole'
  BY <1>1, <1>2, <1>3, <1>5 DEF InOneRole, Unsettled
<1>8. AllInOnePlace'
  BY <1>1, <1>5 DEF AllInOnePlace, OnePlace
<1> QED
  BY <1>5, <1>6, <1>7, <1>8 DEF Journeys, Unsettled

\* A dispatch takes serials that were in stock on their way.
LEMMA DispatchJourneys ==
    ASSUME TypeOK, Routed, Routed', Journeys, NEW t \in Transfers, NEW items \in SUBSET Serials,
           \A s \in items : InStock(Source[t], s), out[t] = "DRAFT",
           \A g \in Franchises, s \in Serials :
              status'[g][s] = IF g = Source[t] /\ s \in items THEN "IN_TRANSIT" ELSE status[g][s],
           out'[t] = "DISPATCHED", \A u \in Transfers \ {t} : out'[u] = out[u],
           UNCHANGED <<active, outReceived, in, inItems, scanned, inReceived>>,
           OnTheirWay' = OnTheirWay \cup {[type |-> "DISPATCHED", transfer |-> t, items |-> items]}
    PROVE  /\ Journeys'
           /\ \A u \in Transfers, s \in Serials : Unsettled(u, s)' <=> Unsettled(u, s) \/ (u = t /\ s \in items)
<1> DEFINE f == Source[t]
           m == [type |-> "DISPATCHED", transfer |-> t, items |-> items]
<1>1. InStages /\ InOneRole /\ AllInOnePlace /\ f \in Franchises
  BY RouteAssumption DEF Journeys
<1>2. \A u \in Transfers : Source[u] \in Franchises /\ Dest[u] \in Franchises
  BY RouteAssumption
<1>3. \A u \in Transfers, s \in Serials : Arriving(u, s)' <=> Arriving(u, s)
  BY DEF Arriving
<1>4. m.type = "DISPATCHED" /\ m.transfer = t /\ m.items = items /\ OnTheirWay' = OnTheirWay \cup {m}
  OBVIOUS
<1>5. ~Dispatched(t) /\ Dispatched(t)' /\ \A u \in Transfers : Dispatched(u) => Dispatched(u)'
  BY DEF Dispatched
<1>6. \A g \in Franchises, s \in Serials :
         /\ At(g, s)' <=> At(g, s) /\ ~(g = f /\ s \in items)
         /\ InTransit(g, s)' <=> InTransit(g, s) \/ (g = f /\ s \in items)
  BY DEF At, InTransit, InStock
<1>7. \A s \in items : At(f, s) /\ ~InTransit(f, s)
  BY DEF At, InTransit, InStock
<1> HIDE DEF f, m
<1>8. \A u \in Transfers, s \in Serials :
         /\ Travels(u, s)' <=> Travels(u, s) \/ (u = t /\ s \in items)
         /\ Answered(u, s)' <=> Answered(u, s)
  BY <1>4 DEF Travels, Answered, Carries
<1>9. \A u \in Transfers, s \in Serials :
         /\ Carried(u, s)' <=> Carried(u, s) \/ (u = t /\ s \in items)
         /\ Receipted(u, s)' <=> Receipted(u, s)
  BY <1>3, <1>8, PlacingHolds, PlacingNext DEF Placing
<1>10. InStages'
  <2>1. in[t] = "NONE"
    BY <1>1, <1>5 DEF InStages
  <2>2. \A n \in OnTheirWay' : n.type = "DISPATCHED" => Dispatched(n.transfer)' /\ in'[n.transfer] = "NONE"
    <3> SUFFICES ASSUME NEW n \in OnTheirWay', n.type = "DISPATCHED"
                 PROVE  Dispatched(n.transfer)' /\ in'[n.transfer] = "NONE"
      OBVIOUS
    <3>1. CASE n = m
      BY <1>4, <1>5, <2>1, <3>1
    <3>2. CASE n \in OnTheirWay
      <4>1. Dispatched(n.transfer) /\ in[n.transfer] = "NONE" /\ n.transfer \in Transfers
        BY <1>1, <3>2, MessagesTyped DEF InStages, Messages
      <4> QED
        BY <1>5, <4>1
    <3> QED
      BY <1>4, <3>1, <3>2
  <2> QED
    BY <1>1, <1>5, <2>2 DEF InStages
<1>11. AllInOnePlace'
  <2> SUFFICES ASSUME NEW s \in Serials PROVE OnePlace(s)'
    BY DEF AllInOnePlace
  <2>1. OnePlace(s)
    BY <1>1 DEF AllInOnePlace
  <2>2. CASE s \in items
    BY <1>1, <1>6, <1>7, <1>9, <2>1, <2>2 DEF OnePlace
  <2>3. CASE s \notin items
    BY <1>6, <1>9, <2>1, <2>3 DEF OnePlace
  <2> QED
    BY <2>2, <2>3
<1>12. \A u \in Transfers, s \in Serials :
          /\ Unsettled(u, s)' <=> Unsettled(u, s) \/ (u = t /\ s \in items)
          /\ Arriving(u, s) => Carried(u, s)
          /\ Unsettled(u, s) => InTransit(Source[u], s)
  BY <1>1, <1>9 DEF Unsettled, Carried, InOneRole
<1>13. InOneRole'
  <2>1. ASSUME NEW u \in Transfers, NEW s \in Serials, Unsettled(u, s)'
        PROVE  /\ InTransit(Source[u], s)'
               /\ \A w \in Transfers : Unsettled(w, s)' /\ Source[w] = Source[u] => w = u
               /\ \A w \in Transfers : Arriving(w, s)' => Dest[w] # Source[u]
    <3>1. CASE s \in items
      <4>1. \A w \in Transfers : ~Carried(w, s)
        BY <1>1, <1>7, <3>1 DEF AllInOnePlace, OnePlace
      <4>2. \A w \in Transfers : Unsettled(w, s) => Source[w] # f
        BY <1>7, <1>12, <3>1
      <4>3. InTransit(Source[u], s)'
        BY <1>2, <1>6, <1>12, <2>1 DEF f
      <4>4. \A w \in Transfers : ~Arriving(w, s)'
        BY <1>3, <1>12, <4>1
      <4>5. \A w \in Transfers : Unsettled(w, s)' /\ Source[w] = Source[u] => w = u
        BY <1>1, <1>12, <2>1, <4>2 DEF InOneRole, f
      <4> QED
        BY <4>3, <4>4, <4>5
    <3>2. CASE s \notin items
      BY <1>1, <1>2, <1>3, <1>6, <1>12, <2>1, <3>2 DEF InOneRole
    <3> QED
      BY <3>1, <3>2
  <2>2. ASSUME NEW u \in Transfers, NEW s \in Serials
        PROVE  /\ Arriving(u, s)' => InTransit(Dest[u], s)'
               /\ Receipted(u, s)' => s \notin outReceived'[u]
    BY <1>1, <1>2, <1>3, <1>6, <1>9 DEF InOneRole
  <2> QED
    BY <2>1, <2>2 DEF InOneRole
<1> QED
  BY <1>10, <1>11, <1>12, <1>13 DEF Journeys

\* A receipt takes serials that have arrived into stock.
LEMMA FinalizeJourneys ==
    ASSUME TypeOK, Routed, Routed', SourceAgrees, Journeys, NEW t \in Transfers,
           NEW items \in SUBSET Serials, items # {}, \A s \in items : Arriving(t, s),
           \A g \in Franchises, s \in Serials :
              status'[g][s] = IF g = Dest[t] /\ s \in items THEN "IN_STOCK" ELSE status[g][s],
           inReceived'[t] = inReceived[t] \cup items,
           \A u \in Transfers \ {t} : inReceived'[u] = inReceived[u],
           in[t] # "NONE" => in'[t] # "NONE",
           \A u \in Transfers \ {t} : in'[u] = in[u],
           UNCHANGED <<active, out, outReceived, inItems, scanned>>,
           OnTheirWay' = OnTheirWay \cup {[type |-> "RECEIVED", transfer |-> t, items |-> items]}
    PROVE  /\ Journeys'
           /\ \A u \in Transfers, s \in Serials : Unsettled(u, s)' <=> Unsettled(u, s)
<1> DEFINE f == Dest[t]
           m == [type |-> "RECEIVED", transfer |-> t, items |-> items]
<1>1. InStages /\ InOneRole /\ AllInOnePlace /\ f \in Franchises
  BY RouteAssumption DEF Journeys
<1>2. \A u \in Transfers : Source[u] \in Franchises /\ Dest[u] \in Franchises
  BY RouteAssumption
<1>3. \A u \in Transfers, s \in Serials :
         Arriving(u, s)' <=> Arriving(u, s) /\ ~(u = t /\ s \in items)
  BY DEF Arriving
<1>4. m.type = "RECEIVED" /\ m.transfer = t /\ m.items = items /\ OnTheirWay' = OnTheirWay \cup {m}
  OBVIOUS
<1>5. in[t] # "NONE" /\ in'[t] # "NONE" /\ items \subseteq inItems[t] /\ items \cap inReceived[t] = {}
  BY <1>1 DEF Arriving, InStages
<1>6. \A s \in items : InTransit(f, s) /\ Carried(t, s)
  BY <1>1 DEF InOneRole, Carried
<1>7. \A g \in Franchises, s \in Serials :
         /\ At(g, s)' <=> At(g, s) \/ (g = f /\ s \in items)
         /\ InTransit(g, s)' <=> InTransit(g, s) /\ ~(g = f /\ s \in items)
  BY <1>6 DEF At, InTransit
<1> HIDE DEF f, m
<1>8. \A u \in Transfers, s \in Serials :
         /\ Travels(u, s)' <=> Travels(u, s)
         /\ Answered(u, s)' <=> Answered(u, s) \/ (u = t /\ s \in items)
  BY <1>4 DEF Travels, Answered, Carries
<1>9. \A s \in Serials : ~Travels(t, s)
  BY <1>1, <1>5 DEF Travels, Carries, InStages
<1>10. \A u \in Transfers, s \in Serials :
         /\ Carried(u, s)' <=> Carried(u, s) /\ ~(u = t /\ s \in items)
         /\ Receipted(u, s)' <=> Receipted(u, s) \/ (u = t /\ s \in items)
  BY <1>3, <1>8, <1>9, PlacingHolds, PlacingNext DEF Placing
<1>11. InStages'
  <2>1. \A n \in OnTheirWay' : n.type = "DISPATCHED" => Dispatched(n.transfer)' /\ in'[n.transfer] = "NONE"
    <3> SUFFICES ASSUME NEW n \in OnTheirWay', n.type = "DISPATCHED"
                 PROVE  Dispatched(n.transfer)' /\ in'[n.transfer] = "NONE"
      OBVIOUS
    <3>1. n \in OnTheirWay
      BY <1>4
    <3>2. Dispatched(n.transfer) /\ in[n.transfer] = "NONE" /\ n.transfer \in Transfers
      BY <1>1, <3>1, MessagesTyped DEF InStages, Messages
    <3> QED
      BY <1>5, <3>2 DEF Dispatched
  <2>2. ASSUME NEW u \in Transfers
        PROVE  /\ in'[u] # "NONE" => Dispatched(u)'
               /\ in'[u] = "NONE" => inItems'[u] = {}
               /\ inReceived'[u] \subseteq inItems'[u] /\ scanned'[u] \subseteq inItems'[u]
    <3>1. CASE u = t
      BY <1>1, <1>5, <3>1 DEF InStages, Dispatched
    <3>2. CASE u # t
      BY <1>1, <3>2 DEF InStages, Dispatched
    <3> QED
      BY <3>1, <3>2
  <2> QED
    BY <2>1, <2>2 DEF InStages
<1>12. AllInOnePlace'
  <2> SUFFICES ASSUME NEW s \in Serials PROVE OnePlace(s)'
    BY DEF AllInOnePlace
  <2>1. OnePlace(s)
    BY <1>1 DEF AllInOnePlace
  <2>2. CASE s \in items
    BY <1>1, <1>6, <1>7, <1>10, <2>1, <2>2 DEF OnePlace
  <2>3. CASE s \notin items
    BY <1>7, <1>10, <2>1, <2>3 DEF OnePlace
  <2> QED
    BY <2>2, <2>3
<1>13. \A u \in Transfers, s \in Serials : Unsettled(u, s)' <=> Unsettled(u, s)
  BY <1>6, <1>10 DEF Unsettled
<1>14. InOneRole'
  <2>1. ASSUME NEW u \in Transfers, NEW s \in Serials, Unsettled(u, s)'
        PROVE  /\ InTransit(Source[u], s)'
               /\ \A w \in Transfers : Unsettled(w, s)' /\ Source[w] = Source[u] => w = u
               /\ \A w \in Transfers : Arriving(w, s)' => Dest[w] # Source[u]
    <3>1. Unsettled(u, s)
      BY <1>13, <2>1
    <3>2. InTransit(Source[u], s)'
      BY <1>1, <1>2, <1>7, <3>1 DEF InOneRole, f
    <3> QED
      BY <1>1, <1>3, <1>13, <3>1, <3>2 DEF InOneRole
  <2>2. ASSUME NEW u \in Transfers, NEW s \in Serials, Arriving(u, s)'
        PROVE  InTransit(Dest[u], s)'
    <3>1. Arriving(u, s) /\ InTransit(Dest[u], s) /\ Carried(u, s)
      BY <1>1, <1>3, <2>2 DEF InOneRole, Carried
    <3>2. s \in items => u = t
      BY <1>1, <1>6, <3>1 DEF AllInOnePlace, OnePlace
    <3> QED
      BY <1>2, <1>3, <1>7, <2>2, <3>1, <3>2
  <2>3. ASSUME NEW u \in Transfers, NEW s \in Serials, Receipted(u, s)'
        PROVE  s \notin outReceived'[u]
    BY <1>1, <1>5, <1>10, <2>3 DEF InOneRole, SourceAgrees
  <2> QED
    BY <2>1, <2>2, <2>3 DEF InOneRole
<1> QED
  BY <1>11, <1>12, <1>13, <1>14 DEF Journeys

\* A manifest arrives: its serials travel on as items of an inbound transfer.
LEMMA AvailableJourneys ==
    ASSUME TypeOK, Routed, Routed', Journeys, NEW f \in Franchises, NEW m \in OnTheirWay,
           m.type = "DISPATCHED", f = Dest[m.transfer], m.transfer \in Transfers, m.items \in SUBSET Serials,
           \A s \in m.items : status[f][s] = "ABSENT" \/ Returning(f, s),
           \A g \in Franchises, s \in Serials :
              status'[g][s] = IF g = f /\ s \in m.items THEN "IN_TRANSIT" ELSE status[g][s],
           active'[f] = active[f] \cup m.items,
           \A g \in Franchises \ {f} : active'[g] = active[g],
           in'[m.transfer] = "AWAITING_RECEIPT", inItems'[m.transfer] = m.items,
           \A u \in Transfers \ {m.transfer} : in'[u] = in[u] /\ inItems'[u] = inItems[u],
           UNCHANGED <<out, outReceived, scanned, inReceived>>,
           OnTheirWay = {m} \cup OnTheirWay', \A n \in OnTheirWay' : ~Repeats(n, m)
    PROVE  /\ Journeys'
           /\ \A u \in Transfers, s \in Serials : Unsettled(u, s)' <=> Unsettled(u, s)
<1> DEFINE t == m.transfer
           items == m.items
<1>1. InStages /\ InOneRole /\ AllInOnePlace /\ t \in Transfers
  BY DEF Journeys
<1>2. \A u \in Transfers : Source[u] \in Franchises /\ Dest[u] \in Franchises
  BY RouteAssumption
<1>3. Dispatched(t) /\ in[t] = "NONE" /\ inItems[t] = {} /\ inReceived[t] = {} /\ scanned[t] = {}
  BY <1>1 DEF InStages
<1>4. \A s \in items : ~At(f, s) /\ ~InTransit(f, s)
  BY DEF At, InTransit, Returning
<1>5. \A g \in Franchises, s \in Serials :
         /\ At(g, s)' <=> At(g, s)
         /\ InTransit(g, s)' <=> InTransit(g, s) \/ (g = f /\ s \in items)
  BY <1>4 DEF At, InTransit
<1>6. \A n \in OnTheirWay' : n.type = "DISPATCHED" => n.transfer # t
  BY DEF Repeats
<1>7. \A u \in Transfers, s \in Serials :
         Arriving(u, s)' <=> Arriving(u, s) \/ (u = t /\ s \in items)
  BY <1>3 DEF Arriving
<1> HIDE DEF t, items
<1>8. \A u \in Transfers, s \in Serials :
         /\ Travels(u, s) <=> Travels(u, s)' \/ (u = t /\ s \in items)
         /\ u = t => ~Travels(u, s)' /\ ~Arriving(u, s)
         /\ Answered(u, s)' <=> Answered(u, s)
  BY <1>3, <1>6 DEF Travels, Answered, Carries, t, items, Arriving
<1>9. \A u \in Transfers, s \in Serials :
         /\ Carried(u, s)' <=> Carried(u, s)
         /\ Receipted(u, s)' <=> Receipted(u, s)
         /\ u = t /\ s \in items => Carried(u, s)
  BY <1>7, <1>8, PlacingHolds, PlacingNext DEF Placing
<1>10. InStages'
  <2>1. \A n \in OnTheirWay' : n.type = "DISPATCHED" => Dispatched(n.transfer)' /\ in'[n.transfer] = "NONE"
    <3> SUFFICES ASSUME NEW n \in OnTheirWay', n.type = "DISPATCHED"
                 PROVE  Dispatched(n.transfer)' /\ in'[n.transfer] = "NONE"
      OBVIOUS
    <3>1. Dispatched(n.transfer) /\ in[n.transfer] = "NONE" /\ n.transfer \in Transfers \ {t}
      BY <1>1, <1>6, MessagesTyped DEF InStages, Messages
    <3> QED
      BY <3>1 DEF Dispatched, t
  <2>2. ASSUME NEW u \in Transfers
        PROVE  /\ in'[u] # "NONE" => Dispatched(u)'
               /\ in'[u] = "NONE" => inItems'[u] = {}
               /\ inReceived'[u] \subseteq inItems'[u] /\ scanned'[u] \subseteq inItems'[u]
    <3>1. CASE u = t
      BY <1>3, <3>1 DEF Dispatched, t
    <3>2. CASE u # t
      BY <1>1, <3>2 DEF InStages, Dispatched, t
    <3> QED
      BY <3>1, <3>2
  <2> QED
    BY <2>1, <2>2 DEF InStages
<1>11. AllInOnePlace'
  BY <1>1, <1>5, <1>9 DEF AllInOnePlace, OnePlace
<1>12. \A u \in Transfers, s \in Serials : Unsettled(u, s)' <=> Unsettled(u, s)
  BY <1>9 DEF Unsettled
<1>13. InOneRole'
  <2>1. ASSUME NEW u \in Transfers, NEW s \in Serials, Unsettled(u, s)'
        PROVE  /\ InTransit(Source[u], s)'
               /\ \A w \in Transfers : Unsettled(w, s)' /\ Source[w] = Source[u] => w = u
               /\ \A w \in Transfers : Arriving(w, s)' => Dest[w] # Source[u]
    <3>1. Unsettled(u, s) /\ InTransit(Source[u], s)
      BY <1>1, <1>12, <2>1 DEF InOneRole
    <3>2. s \in items => Source[u] # f
      BY <1>4, <3>1
    <3>3. \A w \in Transfers : Arriving(w, s)' => Dest[w] # Source[u]
      BY <1>1, <1>7, <3>1, <3>2 DEF InOneRole, t
    <3> QED
      BY <1>1, <1>2, <1>5, <1>12, <3>1, <3>3 DEF InOneRole
  <2>2. ASSUME NEW u \in Transfers, NEW s \in Serials, Arriving(u, s)'
        PROVE  InTransit(Dest[u], s)'
    BY <1>1, <1>2, <1>5, <1>7, <2>2 DEF InOneRole, t
  <2>3. ASSUME NEW u \in Transfers, NEW s \in Serials, Receipted(u, s)'
        PROVE  s \notin outReceived'[u]
    BY <1>1, <1>9, <2>3 DEF InOneRole
  <2> QED
    BY <2>1, <2>2, <2>3 DEF InOneRole
<1> QED
  BY <1>10, <1>11, <1>12, <1>13 DEF Journeys

\* A receipt is settled: its serials leave the source for good.
LEMMA ReceiptJourneys ==
    ASSUME TypeOK, Routed, Routed', ReceiptsAreTrue, Journeys,
           NEW f \in Franchises, NEW m \in OnTheirWay,
           m.type = "RECEIVED", f = Source[m.transfer], m.transfer \in Transfers, m.items \in SUBSET Serials,
           UNCHANGED <<status, in, inItems, scanned, inReceived>>,
           outReceived'[m.transfer] = outReceived[m.transfer] \cup m.items,
           \A u \in Transfers \ {m.transfer} : outReceived'[u] = outReceived[u],
           active'[f] = active[f] \ (m.items \ outReceived[m.transfer]),
           \A g \in Franchises \ {f} : active'[g] = active[g],
           \A u \in Transfers : Dispatched(u) => Dispatched(u)',
           OnTheirWay = {m} \cup OnTheirWay', \A n \in OnTheirWay' : ~Repeats(n, m)
    PROVE  /\ Journeys'
           /\ \A u \in Transfers, s \in Serials : Unsettled(u, s)' <=> Unsettled(u, s) /\ ~(u = m.transfer /\ s \in m.items)
<1> DEFINE t == m.transfer
           items == m.items
<1>1. InStages /\ InOneRole /\ AllInOnePlace /\ t \in Transfers
  BY DEF Journeys
<1>2. \A u \in Transfers : Source[u] \in Franchises /\ Dest[u] \in Franchises
  BY RouteAssumption
<1>3. \A u \in Transfers, s \in Serials : Arriving(u, s)' <=> Arriving(u, s)
  BY DEF Arriving
<1>4. \A s \in items : Answered(t, s)
  BY DEF Answered, Carries
<1>5. items \subseteq inReceived[t] /\ \A s \in items : ~Arriving(t, s)
  BY DEF ReceiptsAreTrue, Arriving
<1>6. \A s \in items : Receipted(t, s)
  BY <1>1, <1>4, PlacingHolds DEF Placing
<1>7. \A s \in items : s \notin outReceived[t] /\ InTransit(f, s)
  BY <1>1, <1>6 DEF InOneRole, Unsettled
<1>8. active'[f] = active[f] \ items
  BY <1>7
<1>9. \A g \in Franchises, s \in Serials :
         /\ At(g, s)' <=> At(g, s)
         /\ InTransit(g, s)' <=> InTransit(g, s) /\ ~(g = f /\ s \in items)
  BY <1>7, <1>8 DEF At, InTransit
<1>10. \A n \in OnTheirWay', s \in items : ~Carries(n, "RECEIVED", t, s)
  BY DEF Repeats, Carries
<1> HIDE DEF t, items
<1>11. \A u \in Transfers, s \in Serials :
         /\ Travels(u, s)' <=> Travels(u, s)
         /\ Answered(u, s)' <=> Answered(u, s) /\ ~(u = t /\ s \in items)
  BY <1>10 DEF Travels, Answered, Carries, t, items
<1>12. \A s \in items : ~Carried(t, s)
  <2> SUFFICES ASSUME NEW s \in items PROVE ~Carried(t, s)
    OBVIOUS
  <2>1. inItems[t] # {} /\ in[t] # "NONE"
    BY <1>1, <1>5 DEF InStages
  <2>2. ~Travels(t, s)
    BY <1>1, <2>1 DEF Travels, Carries, InStages
  <2> QED
    BY <1>1, <1>5, <2>2, PlacingHolds DEF Placing, t, items
<1>13. \A u \in Transfers, s \in Serials :
         /\ Carried(u, s)' <=> Carried(u, s)
         /\ Receipted(u, s)' <=> Receipted(u, s) /\ ~(u = t /\ s \in items)
  BY <1>3, <1>11, PlacingHolds, PlacingNext DEF Placing
<1>14. InStages'
  <2>1. \A n \in OnTheirWay' : n.type = "DISPATCHED" => Dispatched(n.transfer)' /\ in'[n.transfer] = "NONE"
    <3> SUFFICES ASSUME NEW n \in OnTheirWay', n.type = "DISPATCHED"
                 PROVE  Dispatched(n.transfer)' /\ in'[n.transfer] = "NONE"
      OBVIOUS
    <3>1. Dispatched(n.transfer) /\ in[n.transfer] = "NONE" /\ n.transfer \in Transfers
      BY <1>1, MessagesTyped DEF InStages, Messages
    <3> QED
      BY <3>1
  <2> QED
    BY <1>1, <2>1 DEF InStages
<1>15. AllInOnePlace'
  BY <1>1, <1>9, <1>13 DEF AllInOnePlace, OnePlace
<1>16. \A u \in Transfers, s \in Serials :
          Unsettled(u, s)' <=> Unsettled(u, s) /\ ~(u = t /\ s \in items)
  BY <1>12, <1>13 DEF Unsettled
<1>17. InOneRole'
  <2>1. ASSUME NEW u \in Transfers, NEW s \in Serials, Unsettled(u, s)'
        PROVE  /\ InTransit(Source[u], s)'
               /\ \A w \in Transfers : Unsettled(w, s)' /\ Source[w] = Source[u] => w = u
               /\ \A w \in Transfers : Arriving(w, s)' => Dest[w] # Source[u]
    <3>1. Unsettled(u, s) /\ InTransit(Source[u], s) /\ ~(u = t /\ s \in items)
      BY <1>1, <1>16, <2>1 DEF InOneRole
    <3>2. s \in items => Unsettled(t, s)
      BY <1>6 DEF Unsettled
    <3>3. s \in items => Source[u] # f
      BY <1>1, <3>1, <3>2 DEF InOneRole, t
    <3> QED
      BY <1>1, <1>2, <1>3, <1>9, <1>16, <3>1, <3>3 DEF InOneRole
  <2>2. ASSUME NEW u \in Transfers, NEW s \in Serials, Arriving(u, s)'
        PROVE  InTransit(Dest[u], s)'
    <3>1. s \in items => Unsettled(t, s)
      BY <1>6 DEF Unsettled
    <3>2. s \in items => Dest[u] # f
      BY <1>1, <1>3, <2>2, <3>1 DEF InOneRole, t
    <3> QED
      BY <1>1, <1>2, <1>3, <1>9, <2>2, <3>2 DEF InOneRole
  <2>3. ASSUME NEW u \in Transfers, NEW s \in Serials, Receipted(u, s)'
        PROVE  s \notin outReceived'[u]
    BY <1>1, <1>13, <2>3 DEF InOneRole, t, items
  <2> QED
    BY <2>1, <2>2, <2>3 DEF InOneRole
<1> QED
  BY <1>14, <1>15, <1>16, <1>17 DEF Journeys, t, items

-----------------------------------------------------------------------------
(* What a request that waits to write still knows. *)

Fits(r) ==
    /\ r.op = "dispatch" => DispatchFits(r)
    /\ r.op = "finalize" => ReceiptFits(r)

\* Requests that go on waiting while nothing else commits at their site.
LEMMA FitFrame ==
    ASSUME TypeOK, RequestsFit, InStages, NEW d \in Clerks, open'[d] = open[d],
           \A u \in Transfers :
              /\ out[u] = "DRAFT" => out'[u] = "DRAFT"
              /\ inItems[u] # {} => inItems'[u] = inItems[u],
           UNCHANGED <<outItems, inReceived>>,
           \A f \in Franchises, s \in Serials :
              (InStock(f, s)' => InStock(f, s)) /\ (At(f, s) => At(f, s)')
    PROVE  Fits(open[d])'
<1> DEFINE r == open[d]
           t == r.transfer
<1>1. CASE r.op = "dispatch"
  <2>1. r \in Requests /\ t \in Transfers /\ Source[t] \in Franchises /\ r.items \subseteq Serials
    BY <1>1, RouteAssumption DEF TypeOK, Requests, NoRequest
  <2>2. DispatchFits(r)
    BY <1>1 DEF RequestsFit
  <2>3. DispatchFits(open[d])'
    BY <2>1, <2>2 DEF DispatchFits
  <2> QED
    BY <1>1, <2>3 DEF Fits
<1>2. CASE r.op = "finalize"
  <2>1. r \in Requests /\ t \in Transfers /\ Dest[t] \in Franchises /\ r.items \subseteq Serials
    BY <1>2, RouteAssumption DEF TypeOK, Requests, NoRequest
  <2>2. ReceiptFits(r)
    BY <1>2 DEF RequestsFit
  <2>3. inItems'[t] = inItems[t]
    BY <2>1, <2>2 DEF ReceiptFits
  <2>4. ReceiptFits(open[d])'
    BY <2>1, <2>2, <2>3 DEF ReceiptFits
  <2> QED
    BY <1>2, <2>4 DEF Fits
<1> QED
  BY <1>1, <1>2 DEF Fits

LEMMA FitMeans ==
    ASSUME \A d \in Clerks : Fits(open[d])'
    PROVE  RequestsFit'
BY DEF Fits, RequestsFit

\* Requests that wait while another one commits: one at its site was not
\* overtaken before.
OneOvertakes == MaxOvertaken \in 0..1

LEMMA CommitFits ==
    ASSUME OneOvertakes, TypeOK, RequestsFit, NEW c \in Clerks, open[c].op \in Operations, Close(c),
           inItems' = inItems,
           \A u \in Transfers : Source[u] # Site(open[c]) =>
              /\ out'[u] = out[u] /\ outItems'[u] = outItems[u]
              /\ \A s \in Serials : InStock(Source[u], s)' <=> InStock(Source[u], s),
           \A u \in Transfers : Dest[u] # Site(open[c]) =>
              /\ inReceived'[u] = inReceived[u]
              /\ \A s \in Serials : At(Dest[u], s)' <=> At(Dest[u], s),
           \A u \in Transfers : Source[u] = Site(open[c]) /\ out[u] = "DRAFT" /\ outItems[u] # {} =>
              /\ out'[u] = "DRAFT" \/ \E s \in outItems[u] : ~InStock(Source[u], s)'
              /\ outItems'[u] = {} \/ outItems[u] \cap outItems'[u] # {},
           \A u \in Transfers : Dest[u] = Site(open[c]) =>
              \A s \in inReceived'[u] \ inReceived[u] : At(Dest[u], s)'
    PROVE  RequestsFit'
<1> SUFFICES ASSUME NEW d \in Clerks PROVE Fits(open[d])'
  BY FitMeans
<1> DEFINE r == open[d]
           t == r.transfer
<1>1. open'[d].op # "none" =>
         /\ r \in Requests
         /\ open'[d].op = r.op /\ open'[d].transfer = t
         /\ open'[d].items = r.items
         /\ IF Site(r) = Site(open[c])
               THEN r.overtaken < MaxOvertaken /\ open'[d].overtaken = r.overtaken + 1
               ELSE open'[d].overtaken = r.overtaken
  BY Closed
<1>2. r \in Requests /\ Site(r) = Site(open[c]) /\ r.overtaken < MaxOvertaken => r.overtaken = 0
  BY MaxOvertakenAssumption DEF Requests, OneOvertakes
<1>3. ASSUME open'[d].op = "dispatch" PROVE DispatchFits(open[d])'
  <2>1. /\ r \in Requests /\ r.op = "dispatch" /\ t \in Transfers /\ r.items \subseteq Serials
        /\ Site(r) = Source[t] /\ Source[t] \in Franchises
    BY <1>1, <1>3, RouteAssumption DEF Requests, Site
  <2>2. DispatchFits(r) /\ open'[d].transfer = t /\ open'[d].items = r.items
    BY <1>1, <1>3, <2>1 DEF RequestsFit
  <2>3. CASE Source[t] = Site(open[c])
    <3>1. r.overtaken = 0 /\ open'[d].overtaken = 1
      BY <1>1, <1>2, <1>3, <2>1, <2>3
    <3>2. out[t] = "DRAFT" /\ r.items = outItems[t] /\ r.items # {}
      BY <2>2, <3>1 DEF DispatchFits
    <3> QED
      BY <2>1, <2>2, <2>3, <3>1, <3>2 DEF DispatchFits
  <2>4. CASE Source[t] # Site(open[c])
    <3>1. open'[d].overtaken = r.overtaken
      BY <1>1, <1>3, <2>1, <2>4
    <3> QED
      BY <2>1, <2>2, <2>4, <3>1 DEF DispatchFits
  <2> QED
    BY <2>3, <2>4
<1>4. ASSUME open'[d].op = "finalize" PROVE ReceiptFits(open[d])'
  <2>1. /\ r \in Requests /\ r.op = "finalize" /\ t \in Transfers /\ r.items \subseteq Serials
        /\ Site(r) = Dest[t] /\ Dest[t] \in Franchises
    BY <1>1, <1>4, RouteAssumption DEF Requests, Site
  <2>2. ReceiptFits(r) /\ open'[d].transfer = t /\ open'[d].items = r.items
    BY <1>1, <1>4, <2>1 DEF RequestsFit
  <2>3. CASE Dest[t] = Site(open[c])
    <3>1. r.overtaken = 0 /\ open'[d].overtaken = 1
      BY <1>1, <1>2, <1>4, <2>1, <2>3
    <3>2. \A s \in r.items : s \notin inReceived[t]
      BY <2>2, <3>1 DEF ReceiptFits
    <3> QED
      BY <2>1, <2>2, <2>3, <3>1, <3>2 DEF ReceiptFits
  <2>4. CASE Dest[t] # Site(open[c])
    <3>1. open'[d].overtaken = r.overtaken
      BY <1>1, <1>4, <2>1, <2>4
    <3> QED
      BY <2>1, <2>2, <2>4, <3>1 DEF ReceiptFits
  <2> QED
    BY <2>3, <2>4
<1> QED
  BY <1>3, <1>4 DEF Fits

-----------------------------------------------------------------------------
(* The steps of a journey. *)

Journey == NoRepeats /\ Journeys /\ RequestsFit

LEMMA JourneyMeans == JourneyInv <=> BaseInv /\ Journey
BY ConservedMeans DEF JourneyInv, Journey, Journeys

\* A step that moves no message and no serial.
LEMMA StillJourneys ==
    ASSUME BaseInv, BaseInv', Journey, UNCHANGED <<sent, queue, in, inItems, inReceived>>,
           \A f \in Franchises, s \in Serials :
              (At(f, s)' <=> At(f, s)) /\ (InTransit(f, s)' <=> InTransit(f, s)),
           \A t \in Transfers :
              /\ Dispatched(t) => Dispatched(t)'
              /\ outReceived'[t] \subseteq outReceived[t]
              /\ scanned'[t] \subseteq scanned[t] \cup inItems[t]
    PROVE  /\ NoRepeats' /\ Journeys'
           /\ \A u \in Transfers, s \in Serials : Unsettled(u, s)' <=> Unsettled(u, s)
<1>1. OnTheirWay' = OnTheirWay
  BY DEF OnTheirWay
<1>2. NoRepeats'
  BY DEF Journey, NoRepeats, Distinct, Repeats
<1>3. \A m \in OnTheirWay : m.transfer \in Transfers
  BY MessagesTyped DEF BaseInv, Messages
<1>4. /\ Journeys'
      /\ \A u \in Transfers, s \in Serials : Unsettled(u, s)' <=> Unsettled(u, s)
  BY <1>1, <1>3, JourneysFrame DEF BaseInv, Journey
<1> QED
  BY <1>2, <1>4

LEMMA LooksJourney ==
    ASSUME BaseInv, BaseInv', Journey, NEW c \in Clerks, NEW t \in Transfers,
           \/ DispatchLooks(c, t) \/ FinalizeLooks(c, t)
           \/ \E s \in Serials : AddLooks(c, t, s) \/ RemoveLooks(c, t, s)
    PROVE  Journey'
<1>1. UNCHANGED <<serialVars, outVars, inVars, raced, sent, queue>>
  BY DEF DispatchLooks, FinalizeLooks, AddLooks, RemoveLooks
<1>2. UNCHANGED <<status, active, out, outItems, outReceived, in, inItems, scanned, inReceived, sent, queue>>
  BY <1>1 DEF serialVars, outVars, inVars
<1>3. \A f \in Franchises, s \in Serials :
         /\ At(f, s)' <=> At(f, s)
         /\ InTransit(f, s)' <=> InTransit(f, s)
         /\ InStock(f, s)' <=> InStock(f, s)
  BY <1>2 DEF At, InTransit, InStock
<1>4. NoRepeats' /\ Journeys'
  BY <1>2, <1>3, StillJourneys DEF Dispatched
<1>5. TypeOK /\ RequestsFit /\ InStages
  BY DEF BaseInv, Journey, Journeys
<1>6. \A d \in Clerks \ {c} : open'[d] = open[d]
  BY <1>5 DEF DispatchLooks, FinalizeLooks, AddLooks, RemoveLooks, Open, TypeOK
<1>7. \A d \in Clerks \ {c} : Fits(open[d])'
  BY <1>2, <1>3, <1>5, <1>6, FitFrame
<1>8. Fits(open[c])'
  <2>1. CASE DispatchLooks(c, t)
    <3>1. Open(c, Request("dispatch", t, outItems[t], "DRAFT", "DISPATCHED"))
          /\ outItems[t] # {} /\ out[t] = "DRAFT"
      BY <2>1 DEF DispatchLooks
    <3>2. outItems[t] \in SUBSET Serials
      BY <1>5 DEF TypeOK
    <3>3. open'[c] = [op |-> "dispatch", transfer |-> t, items |-> outItems[t], was |-> "DRAFT",
                      new |-> "DISPATCHED", received |-> inReceived[t], overtaken |-> 0]
      BY <1>5, <3>1, <3>2, Opened DEF Operations, OutStatuses
    <3> QED
      BY <1>2, <3>1, <3>3 DEF Fits, DispatchFits
  <2>2. CASE FinalizeLooks(c, t)
    <3> DEFINE receipt == scanned[t] \ inReceived[t]
    <3>1. /\ receipt \in SUBSET Serials /\ in[t] \in Receivable /\ receipt # {}
          /\ receipt \subseteq inItems[t] /\ receipt \cap inReceived[t] = {}
      BY <1>5, <2>2 DEF TypeOK, FinalizeLooks, InStages
    <3>2. Open(c, Request("finalize", t, receipt, in[t], AfterReceipt(t, receipt)))
      BY <2>2 DEF FinalizeLooks
    <3> HIDE DEF receipt
    <3>3. AfterReceipt(t, receipt) \in {"PARTIALLY_RECEIVED", "RECEIVED"}
      BY DEF AfterReceipt
    <3>4. open'[c] = [op |-> "finalize", transfer |-> t, items |-> receipt, was |-> in[t],
                      new |-> AfterReceipt(t, receipt), received |-> inReceived[t],
                      overtaken |-> 0]
      BY <1>5, <3>1, <3>2, <3>3, Opened DEF Operations, InStatuses, Receivable
    <3> QED
      BY <1>2, <3>1, <3>4 DEF Fits, ReceiptFits
  <2>3. ASSUME NEW s \in Serials, AddLooks(c, t, s) \/ RemoveLooks(c, t, s)
        PROVE  Fits(open[c])'
    <3>1. PICK op \in {"add", "remove"} : Open(c, Request(op, t, {s}, "DRAFT", "DRAFT"))
      BY <2>3 DEF AddLooks, RemoveLooks
    <3>2. op \in Operations /\ {s} \in SUBSET Serials /\ "DRAFT" \in OutStatuses \cup InStatuses
      BY DEF Operations, OutStatuses
    <3>3. open'[c] = [op |-> op, transfer |-> t, items |-> {s}, was |-> "DRAFT", new |-> "DRAFT",
                      received |-> inReceived[t], overtaken |-> 0]
      BY <1>5, <3>1, <3>2, Opened
    <3>4. open'[c].op \in {"add", "remove"}
      BY <3>3
    <3> QED
      BY <3>4 DEF Fits
  <2> QED
    BY <2>1, <2>2, <2>3
<1>9. RequestsFit'
  BY <1>7, <1>8, FitMeans
<1> QED
  BY <1>4, <1>9 DEF Journey

LEMMA EditsJourney ==
    ASSUME OneOvertakes, BaseInv, BaseInv', Journey, NEW c \in Clerks,
           AddOutboundSerial(c) \/ RemoveOutboundSerial(c)
    PROVE  Journey'
<1> DEFINE t == open[c].transfer
           items == open[c].items
<1>1. TypeOK /\ RequestsKnow /\ RequestsFit
  BY DEF BaseInv, Journey
<1>2. open[c].op \in {"add", "remove"} /\ Close(c)
  BY DEF AddOutboundSerial, RemoveOutboundSerial
<1>3. open[c] \in Requests /\ t \in Transfers /\ items \in SUBSET Serials /\ Site(open[c]) = Source[t]
  <2>1. open[c] \in Requests
    BY <1>1, <1>2, CloseKnows DEF Operations
  <2> QED
    BY <1>2, <2>1 DEF Requests, Site
<1>4. /\ UNCHANGED <<status, active, out, in, inItems, scanned, inReceived, sent, queue>>
      /\ \A u \in Transfers : outReceived'[u] \subseteq outReceived[u]
      /\ outItems'[t] \in {outItems[t] \cup items, outItems[t] \ items}
      /\ \A u \in Transfers \ {t} : outItems'[u] = outItems[u]
  <2>1. CASE AddOutboundSerial(c)
    BY <1>1, <1>3, <2>1 DEF AddOutboundSerial, TypeOK, serialVars, inVars
  <2>2. CASE RemoveOutboundSerial(c)
    BY <1>1, <1>3, <2>2 DEF RemoveOutboundSerial, TypeOK, serialVars, inVars
  <2> QED
    BY <2>1, <2>2
<1>5. \A f \in Franchises, s \in Serials :
         /\ At(f, s)' <=> At(f, s)
         /\ InTransit(f, s)' <=> InTransit(f, s)
         /\ InStock(f, s)' <=> InStock(f, s)
  BY <1>4 DEF At, InTransit, InStock
<1>6. NoRepeats' /\ Journeys'
  BY <1>4, <1>5, StillJourneys DEF Dispatched
<1>7. \A u \in Transfers : outItems[u] # {} => outItems'[u] = {} \/ outItems[u] \cap outItems'[u] # {}
  <2> SUFFICES ASSUME NEW u \in Transfers, outItems[u] # {}, outItems'[u] # {}
               PROVE  outItems[u] \cap outItems'[u] # {}
    OBVIOUS
  <2>1. outItems[u] \subseteq outItems'[u] \/ outItems'[u] \subseteq outItems[u]
    BY <1>3, <1>4
  <2> QED
    BY <2>1
<1>8. \A u \in Transfers : Source[u] \in Franchises /\ Dest[u] \in Franchises
  BY RouteAssumption
<1> HIDE DEF t, items
<1>9. RequestsFit'
  BY <1>1, <1>2, <1>3, <1>4, <1>5, <1>7, <1>8, CommitFits DEF Operations
<1> QED
  BY <1>6, <1>9 DEF Journey

\* A commit that gives up changes nothing but the requests.
LEMMA GivesUp ==
    ASSUME OneOvertakes, BaseInv, BaseInv', Journey, NEW c \in Clerks,
           open[c].op \in Operations, Close(c),
           UNCHANGED <<status, active, out, outItems, outReceived, in, inItems, scanned, inReceived, sent, queue>>
    PROVE  Journey'
<1>1. TypeOK /\ RequestsFit
  BY DEF BaseInv, Journey
<1>2. \A f \in Franchises, s \in Serials :
         /\ At(f, s)' <=> At(f, s)
         /\ InTransit(f, s)' <=> InTransit(f, s)
         /\ InStock(f, s)' <=> InStock(f, s)
  BY DEF At, InTransit, InStock
<1>3. NoRepeats' /\ Journeys'
  BY <1>2, StillJourneys DEF Dispatched
<1>4. \A u \in Transfers : Source[u] \in Franchises /\ Dest[u] \in Franchises
  BY RouteAssumption
<1>5. RequestsFit'
  BY <1>1, <1>2, <1>4, CommitFits
<1> QED
  BY <1>3, <1>5 DEF Journey

LEMMA DispatchJourney ==
    ASSUME OneOvertakes, BaseInv, BaseInv', Journey, NEW c \in Clerks, DispatchOutbound(c)
    PROVE  Journey'
<1> DEFINE r == open[c]
           t == r.transfer
           f == Source[t]
           m == [type |-> "DISPATCHED", transfer |-> t, items |-> r.items]
<1>1. /\ TypeOK /\ RequestsKnow /\ Routed /\ Routed' /\ Journeys /\ RequestsFit /\ NoRepeats
      /\ InStages /\ InOneRole
  BY DEF BaseInv, Journey, Journeys
<1>2. /\ r \in Requests /\ r.op = "dispatch" /\ Close(c)
      /\ t \in Transfers /\ f \in Franchises /\ r.items \in SUBSET Serials
      /\ UNCHANGED <<active, outItems, outReceived, in, inItems, scanned, inReceived, queue>>
  BY <1>1, DispatchDoes
<1>3. CASE UNCHANGED <<status, out, sent>>
  BY <1>2, <1>3, GivesUp DEF Operations
<1>4. CASE ~UNCHANGED <<status, out, sent>>
  <2>1. /\ \A s \in r.items : InStock(f, s)
        /\ \A g \in Franchises, s \in Serials :
              status'[g][s] = IF g = f /\ s \in r.items THEN "IN_TRANSIT" ELSE status[g][s]
        /\ out'[t] = "DISPATCHED" /\ \A u \in Transfers \ {t} : out'[u] = out[u]
        /\ m \in Messages /\ sent'[f] = Append(sent[f], m)
        /\ ToSet(sent'[f]) = ToSet(sent[f]) \cup {m}
        /\ \A g \in Franchises \ {f} : sent'[g] = sent[g]
        /\ OnTheirWay' = OnTheirWay \cup {m}
    BY <1>1, <1>4, DispatchDoes
  <2>2. DispatchFits(r)
    BY <1>1, <1>2 DEF RequestsFit
  <2>3. out[t] = "DRAFT"
    BY <2>1, <2>2 DEF DispatchFits
  <2>4. \A n \in OnTheirWay : ~Repeats(n, m)
    BY <1>1, <2>3 DEF InStages, Dispatched, Repeats
  <2>5. NoRepeats'
    BY <1>1, <1>2, <2>1, <2>4, EnqueueApart
  <2>6. Journeys'
    BY <1>1, <1>2, <2>1, <2>3, DispatchJourneys
  <2>7. Site(r) = f /\ \A u \in Transfers : Source[u] \in Franchises /\ Dest[u] \in Franchises
    BY <1>2, RouteAssumption DEF Site
  <2>8. \A u \in Transfers : Source[u] # f =>
           /\ out'[u] = out[u]
           /\ \A s \in Serials : InStock(Source[u], s)' <=> InStock(Source[u], s)
    BY <1>2, <2>1, <2>7 DEF InStock
  <2>9. \A u \in Transfers : Dest[u] # f =>
              \A s \in Serials : At(Dest[u], s)' <=> At(Dest[u], s)
    BY <1>2, <2>1, <2>7 DEF At
  <2>10. ASSUME NEW u \in Transfers, Source[u] = f, out[u] = "DRAFT", outItems[u] # {}
         PROVE  /\ out'[u] = "DRAFT" \/ \E s \in outItems[u] : ~InStock(Source[u], s)'
                /\ outItems'[u] = {} \/ outItems[u] \cap outItems'[u] # {}
    <3>1. CASE u # t
      BY <1>2, <2>1, <2>10, <3>1
    <3>2. CASE u = t
      <4>1. PICK s \in r.items : s \in outItems[t]
        BY <2>2, <2>10, <3>2 DEF DispatchFits
      <4>2. status'[f][s] = "IN_TRANSIT"
        BY <1>2, <2>1, <4>1
      <4>3. ~InStock(Source[u], s)'
        BY <2>10, <4>2 DEF InStock
      <4> QED
        BY <1>2, <3>2, <4>1, <4>3
    <3> QED
      BY <3>1, <3>2
  <2> HIDE DEF r, t, f, m
  <2>11. RequestsFit'
    <3>1. open[c].op \in Operations /\ Close(c) /\ Site(open[c]) = f
      BY <1>2, <2>7 DEF r, Operations
    <3> QED
      BY <1>1, <1>2, <2>8, <2>9, <2>10, <3>1, CommitFits
  <2> QED
    BY <2>5, <2>6, <2>11 DEF Journey
<1> QED
  BY <1>3, <1>4

LEMMA FinalizeJourney ==
    ASSUME OneOvertakes, BaseInv, BaseInv', Journey, NEW c \in Clerks, FinalizeInbound(c)
    PROVE  Journey'
<1> DEFINE r == open[c]
           t == r.transfer
           f == Dest[t]
           m == [type |-> "RECEIVED", transfer |-> t, items |-> r.items]
<1>1. /\ TypeOK /\ RequestsKnow /\ Routed /\ Routed' /\ Journeys /\ RequestsFit /\ NoRepeats
      /\ InStages /\ InOneRole /\ ReceiptsAreTrue /\ SourceAgrees
  BY DEF BaseInv, Journey, Journeys
<1>2. /\ r \in Requests /\ r.op = "finalize" /\ Close(c)
      /\ t \in Transfers /\ f \in Franchises /\ r.items \in SUBSET Serials
      /\ UNCHANGED <<active, out, outItems, outReceived, inItems, scanned, queue>>
  BY <1>1, FinalizeDoes
<1>3. CASE UNCHANGED <<status, inReceived, in, sent>>
  BY <1>2, <1>3, GivesUp DEF Operations
<1>4. CASE ~UNCHANGED <<status, inReceived, in, sent>>
  <2>1. /\ \A s \in r.items : InTransit(f, s)
        /\ \A g \in Franchises, s \in Serials :
              status'[g][s] = IF g = f /\ s \in r.items THEN "IN_STOCK" ELSE status[g][s]
        /\ inReceived'[t] = inReceived[t] \cup r.items
        /\ \A u \in Transfers \ {t} : inReceived'[u] = inReceived[u]
        /\ in'[t] = IF r.new = r.was THEN in[t] ELSE r.new
        /\ \A u \in Transfers \ {t} : in'[u] = in[u]
        /\ m \in Messages /\ sent'[f] = Append(sent[f], m)
        /\ ToSet(sent'[f]) = ToSet(sent[f]) \cup {m}
        /\ \A g \in Franchises \ {f} : sent'[g] = sent[g]
        /\ OnTheirWay' = OnTheirWay \cup {m}
    BY <1>1, <1>4, FinalizeDoes
  <2>2. ReceiptFits(r)
    BY <1>1, <1>2 DEF RequestsFit
  <2>3. \A s \in r.items : Arriving(t, s)
    BY <2>1, <2>2 DEF ReceiptFits, Arriving, At, InTransit
  <2>4. \A n \in OnTheirWay : ~Repeats(n, m)
    <3>1. r.items \cap inReceived[t] = {}
      BY <2>3 DEF Arriving
    <3> QED
      BY <1>1, <3>1 DEF Repeats, ReceiptsAreTrue
  <2>5. NoRepeats'
    BY <1>1, <1>2, <2>1, <2>4, EnqueueApart
  <2>6. r.new \in {"PARTIALLY_RECEIVED", "RECEIVED"} /\ r.items # {}
    BY <1>1, <1>2, <2>2 DEF RequestsKnow, ReceiptFits
  <2>7. in[t] # "NONE" => in'[t] # "NONE"
    BY <2>1, <2>6
  <2>8. Journeys'
    BY <1>1, <1>2, <2>1, <2>3, <2>6, <2>7, FinalizeJourneys
  <2>9. Site(r) = f /\ \A u \in Transfers : Source[u] \in Franchises /\ Dest[u] \in Franchises
    BY <1>2, RouteAssumption DEF Site
  <2>10. \A u \in Transfers : Source[u] # f =>
              \A s \in Serials : InStock(Source[u], s)' <=> InStock(Source[u], s)
    BY <1>2, <2>1, <2>9 DEF InStock
  <2>11. \A u \in Transfers : Dest[u] # f =>
              /\ inReceived'[u] = inReceived[u]
              /\ \A s \in Serials : At(Dest[u], s)' <=> At(Dest[u], s)
    BY <1>2, <2>1, <2>9 DEF At
  <2>12. ASSUME NEW u \in Transfers, Dest[u] = f, NEW s \in inReceived'[u] \ inReceived[u]
         PROVE  At(Dest[u], s)'
    <3>1. s \in r.items
      BY <2>1, <2>12
    <3>2. status'[f][s] = "IN_STOCK" /\ s \in active'[f]
      BY <1>2, <2>1, <3>1 DEF InTransit
    <3> QED
      BY <1>2, <2>12, <3>2 DEF At
  <2> HIDE DEF r, t, f, m
  <2>13. RequestsFit'
    <3>1. open[c].op \in Operations /\ Close(c) /\ Site(open[c]) = f
      BY <1>2, <2>9 DEF r, Operations
    <3> QED
      BY <1>1, <1>2, <2>10, <2>11, <2>12, <3>1, CommitFits
  <2> QED
    BY <2>5, <2>8, <2>13 DEF Journey
<1> QED
  BY <1>3, <1>4

\* A user's or Master's step that is no request keeps what requests know.
LEMMA OthersFit ==
    ASSUME BaseInv, Journey, UNCHANGED <<open, outItems, inReceived>>,
           \A u \in Transfers :
              /\ out[u] = "DRAFT" => out'[u] = "DRAFT"
              /\ inItems[u] # {} => inItems'[u] = inItems[u],
           \A f \in Franchises, s \in Serials :
              (InStock(f, s)' => InStock(f, s)) /\ (At(f, s) => At(f, s)')
    PROVE  RequestsFit'
<1>1. TypeOK /\ RequestsFit /\ InStages
  BY DEF BaseInv, Journey, Journeys
<1>2. \A d \in Clerks : Fits(open[d])'
  BY <1>1, FitFrame
<1> QED
  BY <1>2, FitMeans

\* Everything but a new draft, a scan or a sale stays as it is.
Rests ==
    /\ UNCHANGED <<active, outItems, outReceived, in, inItems, inReceived, open, raced, sent, queue>>
    /\ \A u \in Transfers :
          /\ out[u] = "DRAFT" => out'[u] = "DRAFT"
          /\ Dispatched(u) => Dispatched(u)'
          /\ scanned'[u] \subseteq scanned[u] \cup inItems[u]
    /\ \A g \in Franchises, x \in Serials :
          \/ status'[g][x] = status[g][x]
          \/ status[g][x] = "IN_STOCK" /\ status'[g][x] = "SOLD"

LEMMA UsersRest ==
    ASSUME TypeOK,
           \/ \E t \in Transfers : CreateOutbound(t) \/ \E s \in Serials : ScanInbound(t, s)
           \/ \E f \in Franchises :
                 (\E s \in Serials : SellSerial(f, s)) \/ \E p \in Edited : EditProduct(f, p)
           \/ UNCHANGED vars
    PROVE  Rests
<1>1. ASSUME NEW t \in Transfers, CreateOutbound(t) PROVE Rests
  BY <1>1 DEF CreateOutbound, TypeOK, serialVars, inVars, clerkVars, Dispatched, Rests
<1>2. ASSUME NEW t \in Transfers, NEW s \in Serials, ScanInbound(t, s) PROVE Rests
  BY <1>2 DEF ScanInbound, CanScan, TypeOK, serialVars, outVars, clerkVars, Dispatched, Rests
<1>3. ASSUME NEW f \in Franchises, NEW s \in Serials, SellSerial(f, s) PROVE Rests
  <2>1. \A g \in Franchises, x \in Serials :
           status'[g][x] = IF g = f /\ x \in {s} THEN "SOLD" ELSE status[g][x]
    BY <1>3, StatusSet DEF SellSerial, SerialStatuses
  <2>2. status[f][s] = "IN_STOCK"
    BY <1>3 DEF SellSerial, InStock
  <2> QED
    BY <1>3, <2>1, <2>2 DEF SellSerial, outVars, inVars, clerkVars, Dispatched, Rests
<1>4. ASSUME UNCHANGED vars PROVE Rests
  BY <1>4 DEF vars, Dispatched, Rests
<1>5. ASSUME NEW f \in Franchises, NEW p \in Edited, EditProduct(f, p) PROVE Rests
  BY <1>5 DEF EditProduct, outVars, inVars, clerkVars, Dispatched, Rests
<1> QED
  BY <1>1, <1>2, <1>3, <1>4, <1>5

LEMMA UsersJourney ==
    ASSUME BaseInv, BaseInv', Journey,
           \/ \E t \in Transfers : CreateOutbound(t) \/ \E s \in Serials : ScanInbound(t, s)
           \/ \E f \in Franchises :
                 (\E s \in Serials : SellSerial(f, s)) \/ \E p \in Edited : EditProduct(f, p)
           \/ UNCHANGED vars
    PROVE  Journey'
<1>1. TypeOK /\ InStages
  BY DEF BaseInv, Journey, Journeys
<1>2. Rests
  BY <1>1, UsersRest
<1>3. \A g \in Franchises, x \in Serials :
         /\ At(g, x)' <=> At(g, x)
         /\ InTransit(g, x)' <=> InTransit(g, x)
         /\ InStock(g, x)' => InStock(g, x)
  BY <1>2 DEF At, InTransit, InStock, Rests
<1>4. NoRepeats' /\ Journeys'
  BY <1>2, <1>3, StillJourneys DEF Rests
<1>5. RequestsFit'
  BY <1>2, <1>3, OthersFit DEF Rests
<1> QED
  BY <1>4, <1>5 DEF Journey

LEMMA RouteJourney ==
    ASSUME BaseInv, BaseInv', Journey, NEW f \in Franchises, MasterRoutes(f)
    PROVE  Journey'
<1>1. TypeOK /\ Routed /\ Routed' /\ NoRepeats /\ Journeys
  BY DEF BaseInv, Journey
<1>2. UNCHANGED <<status, active, out, outItems, outReceived, in, inItems, scanned, inReceived, open, raced>>
  BY DEF MasterRoutes, serialVars, outVars, inVars, clerkVars
<1>3. \A g \in Franchises, s \in Serials :
         /\ At(g, s)' <=> At(g, s)
         /\ InTransit(g, s)' <=> InTransit(g, s)
         /\ InStock(g, s)' <=> InStock(g, s)
  BY <1>2 DEF At, InTransit, InStock
<1>4. OnTheirWay' = OnTheirWay
  BY <1>1, MessageRouted
<1>5. \A m \in OnTheirWay : m.transfer \in Transfers
  BY <1>1, MessagesTyped DEF Messages
<1>6. Journeys'
  BY <1>1, <1>2, <1>3, <1>4, <1>5, JourneysFrame DEF Dispatched
<1>7. NoRepeats'
  BY <1>1, RouteApart
<1>8. RequestsFit'
  BY <1>2, <1>3, OthersFit
<1> QED
  BY <1>6, <1>7, <1>8 DEF Journey

LEMMA ApplyJourney ==
    ASSUME BaseInv, BaseInv', Journey, NEW f \in Franchises, ApplyCommand(f)
    PROVE  Journey'
<1> DEFINE m == Head(queue[f])
<1>1. /\ TypeOK /\ Routed /\ Routed' /\ NoRepeats /\ Journeys /\ ReceiptsAreTrue
      /\ InStages /\ InOneRole
  BY DEF BaseInv, Journey, Journeys
<1>2. m \in Messages /\ m \in OnTheirWay /\ UNCHANGED <<open, sent>>
  BY <1>1, CommandTaken
<1>3. /\ NoRepeats' /\ \A n \in OnTheirWay' : ~Repeats(n, m)
      /\ OnTheirWay = {m} \cup OnTheirWay' /\ Receiver(m) = f
  BY <1>1, ApplyApart
<1>4. ApplyAvailable(f, m) \/ ApplyReceipt(f, m)
  BY DEF ApplyCommand
<1> HIDE DEF m
<1>5. CASE ApplyAvailable(f, m)
  <2>1. /\ m.type = "DISPATCHED" /\ m.transfer \in Transfers /\ m.items \in SUBSET Serials
        /\ UNCHANGED <<out, outItems, outReceived, scanned, inReceived>>
    BY <1>1, <1>2, <1>5, AvailableDoes
  <2>2. in[m.transfer] = "NONE" /\ inItems[m.transfer] = {}
    BY <1>1, <1>2, <2>1 DEF InStages
  <2>3. /\ \A s \in m.items : status[f][s] = "ABSENT" \/ Returning(f, s)
        /\ \A g \in Franchises, s \in Serials :
              status'[g][s] = IF g = f /\ s \in m.items THEN "IN_TRANSIT" ELSE status[g][s]
        /\ active'[f] = active[f] \cup m.items
        /\ \A g \in Franchises \ {f} : active'[g] = active[g]
        /\ in'[m.transfer] = "AWAITING_RECEIPT" /\ inItems'[m.transfer] = m.items
        /\ \A u \in Transfers \ {m.transfer} : in'[u] = in[u] /\ inItems'[u] = inItems[u]
    BY <1>1, <1>2, <1>5, <2>2, AvailableDoes
  <2>4. f = Dest[m.transfer]
    BY <1>3, <2>1 DEF Receiver
  <2>5. Journeys'
    BY <1>1, <1>2, <1>3, <2>1, <2>3, <2>4, AvailableJourneys
  <2>6. \A g \in Franchises, s \in Serials :
           (InStock(g, s)' => InStock(g, s)) /\ (At(g, s) => At(g, s)')
    BY <2>3 DEF InStock, At, Returning
  <2>7. RequestsFit'
    BY <1>2, <2>1, <2>2, <2>3, <2>6, OthersFit
  <2> QED
    BY <1>3, <2>5, <2>7 DEF Journey
<1>6. CASE ApplyReceipt(f, m)
  <2>1. /\ m.type = "RECEIVED" /\ m.transfer \in Transfers /\ m.items \in SUBSET Serials
        /\ CanSettle(m)
        /\ UNCHANGED <<status, outItems, in, inItems, scanned, inReceived>>
        /\ outReceived'[m.transfer] = outReceived[m.transfer] \cup m.items
        /\ \A u \in Transfers \ {m.transfer} : outReceived'[u] = outReceived[u] /\ out'[u] = out[u]
        /\ active'[f] = active[f] \ (m.items \ outReceived[m.transfer])
        /\ \A g \in Franchises \ {f} : active'[g] = active[g]
        /\ out'[m.transfer] \in {"RECEIVED", "PARTIALLY_RECEIVED", out[m.transfer]}
    BY <1>1, <1>2, <1>6, ReceiptDoes
  <2>2. f = Source[m.transfer]
    BY <1>3, <2>1 DEF Receiver
  <2>3. \A u \in Transfers : Dispatched(u) => Dispatched(u)'
    BY <2>1 DEF Dispatched
  <2>4. \A u \in Transfers : out[u] = "DRAFT" => out'[u] = "DRAFT"
    BY <2>1 DEF CanSettle
  <2>5. Journeys'
    BY <1>1, <1>2, <1>3, <2>1, <2>2, <2>3, ReceiptJourneys
  <2>6. \A s \in m.items : InTransit(f, s)
    <3>1. \A s \in m.items : Answered(m.transfer, s)
      BY <1>2, <2>1 DEF Answered, Carries
    <3>2. \A s \in m.items : Receipted(m.transfer, s)
      BY <1>1, <2>1, <3>1, PlacingHolds DEF Placing
    <3> QED
      BY <1>1, <2>1, <2>2, <3>2 DEF InOneRole, Unsettled
  <2>7. \A g \in Franchises, s \in Serials :
           (InStock(g, s)' => InStock(g, s)) /\ (At(g, s) => At(g, s)')
    BY <2>1, <2>6 DEF InStock, At, InTransit
  <2>8. RequestsFit'
    BY <1>2, <2>1, <2>4, <2>7, OthersFit
  <2> QED
    BY <1>3, <2>5, <2>8 DEF Journey
<1> QED
  BY <1>4, <1>5, <1>6

LEMMA JourneyStep ==
    ASSUME OneOvertakes
    PROVE  JourneyInv /\ [Next]_vars => JourneyInv'
<1> SUFFICES ASSUME BaseInv, Journey, [Next]_vars PROVE BaseInv' /\ Journey'
  <2>1. JourneyInv' <=> BaseInv' /\ Journey'
    BY JourneyMeans, PTL
  <2> QED
    BY <2>1, JourneyMeans
<1>1. BaseInv'
  BY BaseStep
<1>2. ASSUME NEW c \in Clerks, ClerkStep(c) PROVE Journey'
  <2>1. CASE AddOutboundSerial(c) \/ RemoveOutboundSerial(c)
    BY <1>1, <2>1, EditsJourney
  <2>2. CASE DispatchOutbound(c)
    BY <1>1, <2>2, DispatchJourney
  <2>3. CASE FinalizeInbound(c)
    BY <1>1, <2>3, FinalizeJourney
  <2>4. CASE \E t \in Transfers :
                \/ DispatchLooks(c, t)
                \/ FinalizeLooks(c, t)
                \/ \E s \in Serials : AddLooks(c, t, s) \/ RemoveLooks(c, t, s)
    BY <1>1, <2>4, LooksJourney
  <2> QED
    BY <1>2, <2>1, <2>2, <2>3, <2>4 DEF ClerkStep
<1>3. ASSUME NEW f \in Franchises, MasterRoutes(f) PROVE Journey'
  BY <1>1, <1>3, RouteJourney
<1>4. ASSUME NEW f \in Franchises, ApplyCommand(f) PROVE Journey'
  BY <1>1, <1>4, ApplyJourney
<1>5. ASSUME \/ \E t \in Transfers : CreateOutbound(t) \/ \E s \in Serials : ScanInbound(t, s)
             \/ \E f \in Franchises :
                   (\E s \in Serials : SellSerial(f, s)) \/ \E p \in Edited : EditProduct(f, p)
             \/ UNCHANGED vars
      PROVE  Journey'
  BY <1>1, <1>5, UsersJourney
<1> QED
  BY <1>1, <1>2, <1>3, <1>4, <1>5 DEF Next

LEMMA JourneyInit == Init => JourneyInv
<1> SUFFICES ASSUME Init PROVE JourneyInv
  OBVIOUS
<1>1. BaseInv
  BY BaseInit
<1>2. /\ \A f \in Franchises : sent[f] = <<>> /\ queue[f] = <<>>
      /\ \A f \in Franchises, s \in Serials :
            /\ At(f, s) <=> f = Home[s]
            /\ ~InTransit(f, s)
      /\ \A t \in Transfers :
            /\ out[t] = "NONE" /\ in[t] = "NONE"
            /\ inItems[t] = {} /\ inReceived[t] = {} /\ scanned[t] = {}
      /\ \A d \in Clerks : open[d].op = "none"
  BY DEF Init, At, InTransit, NoRequest
<1>3. /\ OnTheirWay = {}
      /\ \A f \in Franchises : ToSet(sent[f]) = {} /\ ToSet(queue[f]) = {}
      /\ \A f \in Franchises : Len(sent[f]) = 0 /\ Len(queue[f]) = 0
  BY <1>2 DEF OnTheirWay, ToSet
<1>4. NoRepeats
  BY <1>3 DEF NoRepeats, Distinct
<1>5. \A t \in Transfers, s \in Serials : ~Carried(t, s) /\ ~Receipted(t, s) /\ ~Arriving(t, s)
  BY <1>1, <1>2, <1>3, PlacingHolds DEF BaseInv, Placing, Travels, Answered, Arriving
<1>6. InStages
  BY <1>2, <1>3 DEF InStages
<1>7. InOneRole
  BY <1>5 DEF InOneRole, Unsettled
<1>8. AllInOnePlace
  BY <1>2, <1>5, HomeAssumption DEF AllInOnePlace, OnePlace
<1>9. RequestsFit
  BY <1>2 DEF RequestsFit
<1> QED
  BY <1>1, <1>4, <1>6, <1>7, <1>8, <1>9, JourneyMeans DEF Journey, Journeys

\* The journey of every serial while at most one commit overtakes a request that
\* waits for the write lock of its franchise.
THEOREM JourneyInductive == OneOvertakes => (Spec => []JourneyInv)
<1> SUFFICES ASSUME OneOvertakes PROVE Spec => []JourneyInv
  OBVIOUS
<1>1. JourneyInv /\ [Next]_vars => JourneyInv'
  BY JourneyStep
<1> QED
  BY <1>1, JourneyInit, PTL DEF Spec

\* No serial is lost or duplicated between franchises (dispatch_outbound_transfer,
\* apply_transfer_available_command, finalize_inbound_receipt and
\* apply_transfer_receipt_command): it is in one place at a time.
THEOREM SerialsAreConserved == OneOvertakes => (Spec => []Conserved)
<1>1. JourneyInv => Conserved
  BY DEF JourneyInv
<1> QED
  BY <1>1, JourneyInductive, PTL

LEMMA AppendedOnce ==
    ASSUME NEW q \in Seq(Messages), NEW m \in Messages
    PROVE  /\ Append(q, m) # q
           /\ q # <<>> => Append(q, m) # Tail(q)
           /\ \A n \in Messages : Append(q, m) = Append(q, n) => m = n
<1>1. Len(q) \in Nat /\ Len(Append(q, m)) = Len(q) + 1 /\ Append(q, m)[Len(q) + 1] = m
  BY AppendProperties, LenProperties
<1>2. \A n \in Messages : Append(q, n)[Len(q) + 1] = n
  BY AppendProperties
<1>3. q # <<>> => Len(Tail(q)) = Len(q) - 1
  BY HeadTailProperties
<1> QED
  BY <1>1, <1>2, <1>3

LEMMA DispatchesADraft ==
    ASSUME JourneyInv, [Next]_vars, NEW t \in Transfers, NEW items \in SUBSET Serials,
           sent'[Source[t]] = Append(sent[Source[t]], Message("DISPATCHED", t, items))
    PROVE  out[t] = "DRAFT"
<1> DEFINE f == Source[t]
           m == [type |-> "DISPATCHED", transfer |-> t, items |-> items]
<1>1. /\ TypeOK /\ RequestsKnow /\ RequestsFit /\ f \in Franchises
      /\ sent[f] \in Seq(Messages) /\ m \in Messages
  BY RouteAssumption, MessagesTyped DEF JourneyInv, BaseInv, Messages
<1>2. sent'[f] = Append(sent[f], m) /\ sent'[f] # sent[f]
  BY <1>1, AppendedOnce DEF Message
<1>3. m.type = "DISPATCHED" /\ m.transfer = t
  OBVIOUS
<1> HIDE DEF m
<1>4. ASSUME NEW c \in Clerks, DispatchOutbound(c) PROVE out[t] = "DRAFT"
  <2> DEFINE n == [type |-> "DISPATCHED", transfer |-> open[c].transfer, items |-> open[c].items]
  <2>1. /\ \A s \in open[c].items : InStock(Source[open[c].transfer], s)
        /\ sent'[f] = sent[f] \/ (sent'[f] = Append(sent[f], n) /\ n \in Messages)
        /\ open[c].op = "dispatch"
    BY <1>1, <1>2, <1>4, DispatchDoes
  <2>2. n.transfer = open[c].transfer
    OBVIOUS
  <2> HIDE DEF n
  <2>3. m = n
    BY <1>1, <1>2, <2>1, AppendedOnce
  <2>4. DispatchFits(open[c])
    BY <1>1, <2>1 DEF RequestsFit
  <2> QED
    BY <1>3, <2>1, <2>2, <2>3, <2>4 DEF DispatchFits
<1>5. ASSUME NEW c \in Clerks, FinalizeInbound(c) PROVE FALSE
  <2> DEFINE n == [type |-> "RECEIVED", transfer |-> open[c].transfer, items |-> open[c].items]
  <2>1. sent'[f] = sent[f] \/ (sent'[f] = Append(sent[f], n) /\ n \in Messages)
    BY <1>1, <1>5, FinalizeDoes
  <2>2. n.type = "RECEIVED"
    OBVIOUS
  <2> HIDE DEF n
  <2> QED
    BY <1>1, <1>2, <1>3, <2>1, <2>2, AppendedOnce
<1>6. ASSUME NEW g \in Franchises, MasterRoutes(g) PROVE FALSE
  <2>1. sent'[f] = sent[f] \/ (sent[f] # <<>> /\ sent'[f] = Tail(sent[f]))
    BY <1>1, <1>6, MessageRouted
  <2> QED
    BY <1>1, <1>2, <2>1, AppendedOnce
<1>7. ASSUME UNCHANGED sent PROVE FALSE
  BY <1>2, <1>7
<1>8. ASSUME NEW c \in Clerks, ClerkStep(c) PROVE out[t] = "DRAFT"
  <2>1. CASE DispatchOutbound(c) \/ FinalizeInbound(c)
    BY <1>4, <1>5, <2>1
  <2>2. CASE ~(DispatchOutbound(c) \/ FinalizeInbound(c))
    <3>1. UNCHANGED sent
      BY <1>8, <2>2 DEF ClerkStep, AddOutboundSerial, RemoveOutboundSerial, DispatchLooks,
         FinalizeLooks, AddLooks, RemoveLooks
    <3> QED
      BY <1>7, <3>1
  <2> QED
    BY <2>1, <2>2
<1>9. ASSUME \/ \E u \in Transfers : CreateOutbound(u) \/ \E s \in Serials : ScanInbound(u, s)
             \/ \E g \in Franchises :
                   \/ ApplyCommand(g)
                   \/ (\E s \in Serials : SellSerial(g, s)) \/ \E p \in Edited : EditProduct(g, p)
             \/ UNCHANGED vars
      PROVE  UNCHANGED sent
  BY <1>9 DEF CreateOutbound, ScanInbound, ApplyCommand, SellSerial, EditProduct, vars
<1> QED
  BY <1>6, <1>7, <1>8, <1>9 DEF Next

\* "Only a draft transfer can be dispatched." (dispatch_outbound_transfer): a
\* manifest is sent only while its transfer is a draft, unless two commits
\* overtake the dispatch.
THEOREM DraftsAreDispatched == OneOvertakes => (Spec => DispatchedOnce)
<1> SUFFICES ASSUME OneOvertakes PROVE Spec => DispatchedOnce
  OBVIOUS
<1>1. JourneyInv /\ [Next]_vars =>
         [\A t \in Transfers : \A items \in SUBSET Serials :
             sent'[Source[t]] = Append(sent[Source[t]], Message("DISPATCHED", t, items))
                => out[t] = "DRAFT"]_vars
  BY DispatchesADraft
<1> QED
  BY <1>1, JourneyInductive, PTL DEF Spec, DispatchedOnce

-----------------------------------------------------------------------------
(* Transfers implement Custody.                                             *)

\* What the refinement mapping shows, in the terms of the journey.
Mapped ==
    /\ Custodians \in [Serials -> Franchises \cup Transfers]
    /\ \A s \in Serials :
          /\ \A f \in Franchises : Custodians[s] = f <=> At(f, s)
          /\ \A t \in Transfers : Custodians[s] = t <=> Carried(t, s)
    /\ SoldSerials \subseteq Serials
    /\ \A s \in Serials : s \in SoldSerials <=> IsSold(s)
    /\ Manifests \in [Transfers -> SUBSET Serials]
    /\ \A t \in Transfers, s \in Serials :
          s \in Manifests[t] <=> s \in inItems[t] \/ Travels(t, s)

LEMMA MappedHolds == JourneyInv => Mapped
<1> SUFFICES ASSUME JourneyInv PROVE Mapped
  OBVIOUS
<1>1. TypeOK /\ Placing /\ AllInOnePlace
  BY PlacingHolds, JourneyMeans DEF JourneyInv, BaseInv, Journey, Journeys
<1>2. ASSUME NEW s \in Serials
      PROVE  /\ Custodians[s] \in Franchises \cup Transfers
             /\ \A f \in Franchises : Custodians[s] = f <=> At(f, s)
             /\ \A t \in Transfers : Custodians[s] = t <=> Carried(t, s)
  <2>1. PICK p \in Franchises \cup Transfers : Places(s) = {p}
    BY DEF JourneyInv, Conserved
  <2>2. Custodians[s] = CHOOSE q \in Franchises \cup Transfers : q \in Places(s)
    BY DEF Custodians
  <2>3. Custodians[s] = p
    BY <2>1, <2>2
  <2>4. \A q : q \in Places(s) <=> \/ q \in Franchises /\ At(q, s)
                                   \/ q \in Transfers /\ Carried(q, s)
    BY DEF Places
  <2>5. \A q : ~(q \in Franchises /\ q \in Transfers)
    BY NamesAssumption
  <2> QED
    BY <2>1, <2>3, <2>4, <2>5
<1>3. ASSUME NEW t \in Transfers
      PROVE  /\ Manifests[t] = inItems[t] \cup {s \in Serials : Carried(t, s)}
             /\ inItems[t] \subseteq Serials
  BY <1>1 DEF Manifests, TypeOK
<1>4. ASSUME NEW t \in Transfers, NEW s \in Serials
      PROVE  s \in Manifests[t] <=> s \in inItems[t] \/ Travels(t, s)
  BY <1>1, <1>3 DEF Placing, Arriving
<1>5. Custodians \in [Serials -> Franchises \cup Transfers]
  <2>1. Custodians = [s \in Serials |-> Custodians[s]]
    BY DEF Custodians
  <2> QED
    BY <1>2, <2>1
<1>6. Manifests \in [Transfers -> SUBSET Serials]
  <2>1. Manifests = [t \in Transfers |-> Manifests[t]]
    BY DEF Manifests
  <2> QED
    BY <1>3, <2>1
<1> QED
  BY <1>2, <1>4, <1>5, <1>6 DEF Mapped, SoldSerials

LEMMA MappedNext == JourneyInv' => Mapped'
<1> QED
  BY MappedHolds, PTL

\* Where a serial stays with its custodian.
LEMMA StaysWith ==
    ASSUME Mapped, Mapped', NEW s \in Serials,
           \A f \in Franchises : At(f, s) => At(f, s)',
           \A t \in Transfers : Carried(t, s) => Carried(t, s)'
    PROVE  Custodians'[s] = Custodians[s]
BY DEF Mapped

\* A step sells nothing.
LEMMA NothingSold ==
    ASSUME Mapped, Mapped', \A s \in Serials : IsSold(s)' <=> IsSold(s)
    PROVE  SoldSerials' = SoldSerials
BY DEF Mapped

\* A step sends no manifest.
LEMMA NothingSent ==
    ASSUME Mapped, Mapped',
           \A t \in Transfers, s \in Serials :
              (s \in inItems'[t] \/ Travels(t, s)') <=> (s \in inItems[t] \/ Travels(t, s))
    PROVE  Manifests' = Manifests
<1>1. ASSUME NEW t \in Transfers PROVE Manifests'[t] = Manifests[t]
  BY DEF Mapped
<1> QED
  BY <1>1 DEF Mapped

\* A step that leaves every serial with its custodian.
LEMMA Stutters ==
    ASSUME Mapped, Mapped',
           \A s \in Serials :
              /\ \A f \in Franchises : At(f, s) => At(f, s)'
              /\ \A t \in Transfers : Carried(t, s) => Carried(t, s)'
              /\ IsSold(s)' <=> IsSold(s),
           \A t \in Transfers, s \in Serials :
              (s \in inItems'[t] \/ Travels(t, s)') <=> (s \in inItems[t] \/ Travels(t, s))
    PROVE  UNCHANGED Promise!custodyVars
<1>1. ASSUME NEW s \in Serials PROVE Custodians'[s] = Custodians[s]
  BY StaysWith
<1>2. Custodians' = Custodians
  BY <1>1 DEF Mapped
<1>3. SoldSerials' = SoldSerials
  BY NothingSold
<1>4. Manifests' = Manifests
  BY NothingSent
<1> QED
  BY <1>2, <1>3, <1>4 DEF Promise!custodyVars

\* A dispatch hands the items it has claimed to its transfer.
LEMMA DispatchHandsOver ==
    ASSUME JourneyInv, JourneyInv', NEW c \in Clerks, DispatchOutbound(c)
    PROVE  [Promise!Next]_(Promise!custodyVars)
<1> SUFFICES ASSUME NEW t, t = open[c].transfer, NEW items, items = open[c].items
             PROVE  [Promise!Next]_(Promise!custodyVars)
  OBVIOUS
<1> DEFINE f == Source[t]
           m == [type |-> "DISPATCHED", transfer |-> t, items |-> items]
<1>1. /\ TypeOK /\ RequestsKnow /\ RequestsFit /\ InStages /\ Placing /\ Placing' /\ Mapped /\ Mapped'
  BY PlacingHolds, PlacingNext, MappedHolds, MappedNext DEF JourneyInv, BaseInv
<1>2. /\ open[c].op = "dispatch" /\ t \in Transfers /\ f \in Franchises /\ items \in SUBSET Serials
      /\ UNCHANGED <<active, inItems, inReceived, queue>>
  BY <1>1, DispatchDoes
<1>3. CASE UNCHANGED <<status, out, sent>>
  <2>1. \A s \in Serials :
           /\ \A g \in Franchises : At(g, s)' <=> At(g, s)
           /\ IsSold(s)' <=> IsSold(s)
           /\ \A u \in Transfers :
                 /\ Travels(u, s)' <=> Travels(u, s)
                 /\ Carried(u, s)' <=> Carried(u, s)
    BY <1>2, <1>3 DEF At, IsSold, Travels, OnTheirWay, Carries, Carried, Holds, Arriving
  <2> QED
    BY <1>1, <1>2, <2>1, Stutters
<1>4. CASE ~UNCHANGED <<status, out, sent>>
  <2>1. /\ \A s \in items : InStock(f, s)
        /\ \A g \in Franchises, s \in Serials :
              status'[g][s] = IF g = f /\ s \in items THEN "IN_TRANSIT" ELSE status[g][s]
        /\ OnTheirWay' = OnTheirWay \cup {m}
    <3>1. \/ UNCHANGED <<status, out, sent>>
          \/ /\ \A s \in open[c].items : InStock(Source[open[c].transfer], s)
             /\ \A g \in Franchises, s \in Serials :
                   status'[g][s] = IF g = Source[open[c].transfer] /\ s \in open[c].items
                                      THEN "IN_TRANSIT" ELSE status[g][s]
             /\ OnTheirWay' = OnTheirWay \cup {[type |-> "DISPATCHED", transfer |-> open[c].transfer,
                                                items |-> open[c].items]}
      BY <1>1, DispatchDoes
    <3> QED
      BY <1>4, <3>1
  <2>2. items # {} /\ out[t] = "DRAFT"
    BY <1>1, <1>2, <2>1 DEF RequestsFit, DispatchFits
  <2>3. m.type = "DISPATCHED" /\ m.transfer = t /\ m.items = items
    OBVIOUS
  <2> HIDE DEF f, m
  <2>4. \A u \in Transfers, s \in Serials :
           Travels(u, s)' <=> Travels(u, s) \/ (u = t /\ s \in items)
    BY <2>1, <2>3 DEF Travels, Carries
  <2>5. Manifests[t] = {}
    <3>1. inItems[t] = {} /\ \A s \in Serials : ~Travels(t, s)
      BY <1>1, <1>2, <2>2 DEF InStages, Dispatched, Travels, Carries
    <3> QED
      BY <1>1, <1>2, <3>1 DEF Mapped
  <2>6. \A s \in items : Custodians[s] = f /\ s \notin SoldSerials
    <3> SUFFICES ASSUME NEW s \in items PROVE Custodians[s] = f /\ s \notin SoldSerials
      OBVIOUS
    <3>1. At(f, s) /\ status[f][s] = "IN_STOCK" /\ s \in Serials
      BY <1>2, <2>1 DEF InStock, At
    <3>2. Custodians[s] = f
      BY <1>1, <1>2, <3>1 DEF Mapped
    <3>3. ~IsSold(s)
      <4>1. ASSUME NEW g \in Franchises, s \in active[g], status[g][s] = "SOLD" PROVE FALSE
        <5>1. At(g, s)
          BY <4>1 DEF At
        <5> QED
          BY <1>1, <3>1, <3>2, <4>1, <5>1 DEF Mapped
      <4> QED
        BY <4>1 DEF IsSold
    <3> QED
      BY <1>1, <3>1, <3>2, <3>3 DEF Mapped
  <2>7. Custodians' = [s \in Serials |-> IF s \in items THEN t ELSE Custodians[s]]
    <3>1. ASSUME NEW s \in Serials \ items
          PROVE  /\ \A g \in Franchises : At(g, s) => At(g, s)'
                 /\ \A u \in Transfers : Carried(u, s) => Carried(u, s)'
      <4>1. \A u \in Transfers : Arriving(u, s)' <=> Arriving(u, s)
        BY <1>2 DEF Arriving
      <4> QED
        BY <1>1, <1>2, <2>1, <2>4, <4>1 DEF At, Placing
    <3>2. ASSUME NEW s \in Serials \ items PROVE Custodians'[s] = Custodians[s]
      BY <1>1, <3>1, <3>2, StaysWith
    <3>3. ASSUME NEW s \in items PROVE Custodians'[s] = t
      <4>1. Carried(t, s)'
        BY <1>1, <1>2, <2>4 DEF Placing
      <4> QED
        BY <1>1, <1>2, <4>1 DEF Mapped
    <3>4. Custodians' = [s \in Serials |-> Custodians'[s]]
      BY <1>1 DEF Mapped
    <3> QED
      BY <3>2, <3>3, <3>4
  <2>8. SoldSerials' = SoldSerials
    <3>1. \A s \in Serials : IsSold(s)' <=> IsSold(s)
      BY <1>2, <2>1 DEF IsSold, InStock
    <3> QED
      BY <1>1, <3>1, NothingSold
  <2>9. Manifests' = [Manifests EXCEPT ![t] = items]
    <3>1. ASSUME NEW u \in Transfers
          PROVE  Manifests'[u] = IF u = t THEN items ELSE Manifests[u]
      <4>1. Manifests'[u] \subseteq Serials /\ Manifests[u] \subseteq Serials
        BY <1>1 DEF Mapped
      <4>2. \A s \in Serials : s \in Manifests'[u] <=>
                 s \in Manifests[u] \/ (u = t /\ s \in items)
        BY <1>1, <1>2, <2>4 DEF Mapped
      <4> QED
        BY <1>2, <2>5, <4>1, <4>2
    <3>2. Manifests' = [u \in Transfers |-> Manifests'[u]]
      BY <1>1 DEF Mapped
    <3>3. Manifests = [u \in Transfers |-> Manifests[u]]
      BY <1>1 DEF Mapped
    <3> QED
      BY <1>2, <3>1, <3>2, <3>3
  <2>10. Promise!Dispatch(t, items)
    BY <2>2, <2>5, <2>6, <2>7, <2>8, <2>9 DEF f, Promise!Dispatch, Promise!HandOver
  <2>11. \E u \in Transfers, set \in SUBSET Serials : Promise!Dispatch(u, set)
    BY <1>2, <2>10
  <2> QED
    BY <2>11 DEF Promise!Next
<1> QED
  BY <1>3, <1>4

\* A receipt hands the items it has claimed to the destination.
LEMMA FinalizeHandsOver ==
    ASSUME JourneyInv, JourneyInv', NEW c \in Clerks, FinalizeInbound(c)
    PROVE  [Promise!Next]_(Promise!custodyVars)
<1> SUFFICES ASSUME NEW t, t = open[c].transfer, NEW items, items = open[c].items
             PROVE  [Promise!Next]_(Promise!custodyVars)
  OBVIOUS
<1> DEFINE f == Dest[t]
           m == [type |-> "RECEIVED", transfer |-> t, items |-> items]
<1>1. /\ TypeOK /\ RequestsKnow /\ RequestsFit /\ Placing /\ Placing' /\ Mapped /\ Mapped'
  BY PlacingHolds, PlacingNext, MappedHolds, MappedNext DEF JourneyInv, BaseInv
<1>2. /\ open[c].op = "finalize" /\ t \in Transfers /\ f \in Franchises /\ items \in SUBSET Serials
      /\ UNCHANGED <<active, inItems, queue>>
  BY <1>1, FinalizeDoes
<1>3. CASE UNCHANGED <<status, inReceived, in, sent>>
  <2>1. \A s \in Serials :
           /\ \A g \in Franchises : At(g, s)' <=> At(g, s)
           /\ IsSold(s)' <=> IsSold(s)
           /\ \A u \in Transfers :
                 /\ Travels(u, s)' <=> Travels(u, s)
                 /\ Carried(u, s)' <=> Carried(u, s)
    BY <1>2, <1>3 DEF At, IsSold, Travels, OnTheirWay, Carries, Carried, Holds, Arriving
  <2> QED
    BY <1>1, <1>2, <2>1, Stutters
<1>4. CASE ~UNCHANGED <<status, inReceived, in, sent>>
  <2>1. /\ \A s \in items : InTransit(f, s)
        /\ \A g \in Franchises, s \in Serials :
              status'[g][s] = IF g = f /\ s \in items THEN "IN_STOCK" ELSE status[g][s]
        /\ inReceived'[t] = inReceived[t] \cup items
        /\ \A u \in Transfers \ {t} : inReceived'[u] = inReceived[u]
        /\ OnTheirWay' = OnTheirWay \cup {m}
    <3>1. \/ UNCHANGED <<status, inReceived, in, sent>>
          \/ /\ \A s \in open[c].items : InTransit(Dest[open[c].transfer], s)
             /\ \A g \in Franchises, s \in Serials :
                   status'[g][s] = IF g = Dest[open[c].transfer] /\ s \in open[c].items
                                      THEN "IN_STOCK" ELSE status[g][s]
             /\ inReceived'[open[c].transfer] = inReceived[open[c].transfer] \cup open[c].items
             /\ \A u \in Transfers \ {open[c].transfer} : inReceived'[u] = inReceived[u]
             /\ OnTheirWay' = OnTheirWay \cup {[type |-> "RECEIVED", transfer |-> open[c].transfer,
                                                items |-> open[c].items]}
      BY <1>1, FinalizeDoes
    <3> QED
      BY <1>4, <3>1
  <2>2. items # {} /\ \A s \in items : Arriving(t, s)
    BY <1>1, <1>2, <2>1 DEF RequestsFit, ReceiptFits, InTransit, At, Arriving
  <2>3. m.type = "RECEIVED"
    OBVIOUS
  <2> HIDE DEF f, m
  <2>4. \A u \in Transfers, s \in Serials : Travels(u, s)' <=> Travels(u, s)
    BY <2>1, <2>3 DEF Travels, Carries
  <2>5. \A s \in items : Custodians[s] = t
    BY <1>1, <1>2, <2>2 DEF Mapped, Placing
  <2>6. \A s \in items : s \notin SoldSerials
    <3> SUFFICES ASSUME NEW s \in items PROVE ~IsSold(s)
      BY <1>1, <1>2 DEF Mapped
    <3>1. \A g \in Franchises : ~At(g, s)
      BY <1>1, <1>2, <2>5, NamesAssumption DEF Mapped
    <3> QED
      BY <3>1 DEF IsSold, At
  <2>7. \A g \in Franchises, s \in Serials : At(g, s)' <=> At(g, s) \/ (g = f /\ s \in items)
    BY <1>2, <2>1 DEF At, InTransit
  <2>8. Custodians' = [s \in Serials |-> IF s \in items THEN f ELSE Custodians[s]]
    <3>1. ASSUME NEW s \in Serials \ items PROVE Custodians'[s] = Custodians[s]
      <4>1. \A u \in Transfers : Arriving(u, s)' <=> Arriving(u, s)
        BY <1>2, <2>1 DEF Arriving
      <4>2. /\ \A g \in Franchises : At(g, s) => At(g, s)'
            /\ \A u \in Transfers : Carried(u, s) => Carried(u, s)'
        BY <1>1, <2>4, <2>7, <4>1 DEF Placing
      <4> QED
        BY <1>1, <4>2, StaysWith
    <3>2. ASSUME NEW s \in items PROVE Custodians'[s] = f
      BY <1>1, <1>2, <2>7 DEF Mapped
    <3>3. Custodians' = [s \in Serials |-> Custodians'[s]]
      BY <1>1 DEF Mapped
    <3> QED
      BY <3>1, <3>2, <3>3
  <2>9. SoldSerials' = SoldSerials
    <3>1. \A s \in Serials : IsSold(s)' <=> IsSold(s)
      BY <1>2, <2>1 DEF IsSold, InTransit
    <3> QED
      BY <1>1, <3>1, NothingSold
  <2>10. Manifests' = Manifests
    BY <1>1, <1>2, <2>4, NothingSent
  <2>11. Promise!Receive(t, items)
    BY <2>2, <2>5, <2>6, <2>8, <2>9, <2>10 DEF f, Promise!Receive, Promise!HandOver
  <2>12. \E u \in Transfers, set \in SUBSET Serials : Promise!Receive(u, set)
    BY <1>2, <2>11
  <2> QED
    BY <2>12 DEF Promise!Next
<1> QED
  BY <1>3, <1>4

\* Applying a dispatch command or settling a receipt moves no serial.
LEMMA ApplyStutters ==
    ASSUME JourneyInv, JourneyInv', NEW f \in Franchises, ApplyCommand(f)
    PROVE  UNCHANGED Promise!custodyVars
<1> DEFINE m == Head(queue[f])
<1>1. /\ TypeOK /\ Routed /\ NoRepeats /\ InStages /\ InOneRole
      /\ Placing /\ Placing' /\ Mapped /\ Mapped'
  BY PlacingHolds, PlacingNext, MappedHolds, MappedNext DEF JourneyInv, BaseInv
<1>2. m \in Messages /\ m \in OnTheirWay
  BY <1>1, CommandTaken
<1>3. /\ \A n \in OnTheirWay' : ~Repeats(n, m)
      /\ OnTheirWay = {m} \cup OnTheirWay' /\ Receiver(m) = f
  BY <1>1, ApplyApart
<1>4. ApplyAvailable(f, m) \/ ApplyReceipt(f, m)
  BY DEF ApplyCommand
<1> HIDE DEF m
<1>5. CASE ApplyAvailable(f, m)
  <2>1. /\ m.type = "DISPATCHED" /\ m.transfer \in Transfers /\ m.items \in SUBSET Serials
        /\ UNCHANGED inReceived
    BY <1>1, <1>2, <1>5, AvailableDoes
  <2>2. in[m.transfer] = "NONE" /\ inItems[m.transfer] = {} /\ inReceived[m.transfer] = {}
    BY <1>1, <1>2, <2>1 DEF InStages
  <2>3. /\ \A s \in m.items : status[f][s] = "ABSENT" \/ Returning(f, s)
        /\ \A g \in Franchises, s \in Serials :
              status'[g][s] = IF g = f /\ s \in m.items THEN "IN_TRANSIT" ELSE status[g][s]
        /\ active'[f] = active[f] \cup m.items
        /\ \A g \in Franchises \ {f} : active'[g] = active[g]
        /\ inItems'[m.transfer] = m.items
        /\ \A u \in Transfers \ {m.transfer} : inItems'[u] = inItems[u]
    BY <1>1, <1>2, <1>5, <2>2, AvailableDoes
  <2>4. ASSUME NEW u \in Transfers, NEW s \in Serials
        PROVE  /\ Travels(u, s) <=> Travels(u, s)' \/ (u = m.transfer /\ s \in m.items)
               /\ s \in inItems'[u] <=> s \in inItems[u] \/ (u = m.transfer /\ s \in m.items)
               /\ Arriving(u, s)' <=> Arriving(u, s) \/ (u = m.transfer /\ s \in m.items)
    <3>1. Travels(u, s) <=> Travels(u, s)' \/ (u = m.transfer /\ s \in m.items)
      BY <1>3, <2>1 DEF Travels, Carries
    <3> QED
      BY <2>1, <2>2, <2>3, <3>1 DEF Arriving
  <2>5. \A s \in m.items : status[f][s] \notin {"IN_STOCK", "SOLD"}
    BY <2>3 DEF Returning
  <2>6. ASSUME NEW s \in Serials
        PROVE  /\ \A g \in Franchises : At(g, s) => At(g, s)'
               /\ \A u \in Transfers : Carried(u, s) => Carried(u, s)'
               /\ IsSold(s)' <=> IsSold(s)
    <3>1. \A g \in Franchises :
             /\ At(g, s) => At(g, s)'
             /\ s \in active'[g] /\ status'[g][s] = "SOLD" <=> s \in active[g] /\ status[g][s] = "SOLD"
      BY <2>3, <2>5 DEF At
    <3>2. IsSold(s)' <=> IsSold(s)
      BY <3>1 DEF IsSold
    <3> QED
      BY <1>1, <2>4, <3>1, <3>2 DEF Placing
  <2> QED
    BY <1>1, <2>4, <2>6, Stutters
<1>6. CASE ApplyReceipt(f, m)
  <2>1. /\ m.type = "RECEIVED" /\ m.transfer \in Transfers /\ m.items \in SUBSET Serials
        /\ UNCHANGED <<status, outItems, in, inItems, scanned, inReceived>>
        /\ active'[f] = active[f] \ (m.items \ outReceived[m.transfer])
        /\ \A g \in Franchises \ {f} : active'[g] = active[g]
    BY <1>1, <1>2, <1>6, ReceiptDoes
  <2>2. f = Source[m.transfer]
    BY <1>3, <2>1 DEF Receiver
  <2>3. ASSUME NEW s \in m.items PROVE InTransit(f, s)
    <3>1. s \in Serials /\ Answered(m.transfer, s)
      BY <1>2, <2>1 DEF Answered, Carries
    <3>2. Unsettled(m.transfer, s)
      BY <1>1, <2>1, <3>1 DEF Placing, Unsettled
    <3>3. InTransit(Source[m.transfer], s)
      BY <1>1, <2>1, <3>1, <3>2 DEF InOneRole
    <3> QED
      BY <2>2, <3>3
  <2>4. ASSUME NEW u \in Transfers, NEW s \in Serials
        PROVE  /\ Travels(u, s)' <=> Travels(u, s)
               /\ Arriving(u, s)' <=> Arriving(u, s)
    <3>1. ~Carries(m, "DISPATCHED", u, s)
      BY <2>1 DEF Carries
    <3>2. Travels(u, s)' <=> Travels(u, s)
      BY <1>3, <3>1 DEF Travels, Carries
    <3> QED
      BY <2>1, <3>2 DEF Arriving
  <2>5. ASSUME NEW s \in Serials
        PROVE  /\ \A g \in Franchises : At(g, s) => At(g, s)'
               /\ \A u \in Transfers : Carried(u, s) => Carried(u, s)'
               /\ IsSold(s)' <=> IsSold(s)
    <3>1. \A g \in Franchises :
             /\ At(g, s) => At(g, s)'
             /\ s \in active'[g] /\ status'[g][s] = "SOLD" <=> s \in active[g] /\ status[g][s] = "SOLD"
      BY <2>1, <2>3 DEF At, InTransit
    <3>2. IsSold(s)' <=> IsSold(s)
      BY <3>1 DEF IsSold
    <3> QED
      BY <1>1, <2>4, <3>1, <3>2 DEF Placing
  <2> QED
    BY <1>1, <2>1, <2>4, <2>5, Stutters
<1> QED
  BY <1>4, <1>5, <1>6

\* A sale is the promised one.
LEMMA SaleSells ==
    ASSUME JourneyInv, JourneyInv', NEW f \in Franchises, NEW s \in Serials, SellSerial(f, s)
    PROVE  [Promise!Next]_(Promise!custodyVars)
<1>1. TypeOK /\ Placing /\ Placing' /\ Mapped /\ Mapped'
  BY PlacingHolds, PlacingNext, MappedHolds, MappedNext DEF JourneyInv, BaseInv
<1>2. \A g \in Franchises, x \in Serials :
         status'[g][x] = IF g = f /\ x \in {s} THEN "SOLD" ELSE status[g][x]
  BY <1>1, StatusSet DEF SellSerial, SerialStatuses
<1>3. InStock(f, s) /\ UNCHANGED <<active, inItems, inReceived, sent, queue>>
  BY DEF SellSerial, inVars
<1>4. \A t \in Transfers, x \in Serials :
         (Travels(t, x)' <=> Travels(t, x)) /\ (Arriving(t, x)' <=> Arriving(t, x))
  BY <1>3 DEF Travels, OnTheirWay, Carries, Arriving
<1>5. ASSUME NEW x \in Serials
      PROVE  /\ \A g \in Franchises : At(g, x) => At(g, x)'
             /\ \A u \in Transfers : Carried(u, x) => Carried(u, x)'
             /\ IsSold(x)' <=> IsSold(x) \/ x = s
  <2>1. \A g \in Franchises :
           /\ At(g, x) => At(g, x)'
           /\ s \in active[f]
           /\ x \in active'[g] /\ status'[g][x] = "SOLD" <=>
                 (x \in active[g] /\ status[g][x] = "SOLD") \/ (g = f /\ x = s)
    BY <1>2, <1>3 DEF At, InStock
  <2>2. IsSold(x)' <=> IsSold(x) \/ x = s
    BY <2>1 DEF IsSold
  <2> QED
    BY <1>1, <1>4, <2>1, <2>2 DEF Placing
<1>6. Custodians' = Custodians
  <2>1. \A x \in Serials : Custodians'[x] = Custodians[x]
    BY <1>1, <1>5, StaysWith
  <2> QED
    BY <1>1, <2>1 DEF Mapped
<1>7. Manifests' = Manifests
  BY <1>1, <1>3, <1>4, NothingSent
<1>8. Custodians[s] = f /\ At(f, s)
  BY <1>1, <1>3 DEF Mapped, InStock, At
<1>9. s \notin SoldSerials
  <2>1. ASSUME NEW g \in Franchises, s \in active[g], status[g][s] = "SOLD" PROVE FALSE
    <3>1. At(g, s)
      BY <2>1 DEF At
    <3> QED
      BY <1>1, <1>3, <1>8, <2>1, <3>1 DEF Mapped, InStock
  <2> QED
    BY <1>1, <2>1 DEF Mapped, IsSold
<1>10. SoldSerials' = SoldSerials \cup {s}
  <2>1. SoldSerials \subseteq Serials /\ SoldSerials' \subseteq Serials
    BY <1>1 DEF Mapped
  <2>2. \A x \in Serials : x \in SoldSerials' <=> x \in SoldSerials \/ x = s
    BY <1>1, <1>5 DEF Mapped
  <2> QED
    BY <2>1, <2>2
<1>11. Promise!Sell(s)
  BY <1>6, <1>7, <1>8, <1>9, <1>10 DEF Promise!Sell
<1> QED
  BY <1>11 DEF Promise!Next

\* What neither dispatches, receives, applies nor sells moves no serial.
LEMMA RestStutters ==
    ASSUME JourneyInv, JourneyInv', UNCHANGED <<status, active, inItems, inReceived>>,
           OnTheirWay' = OnTheirWay
    PROVE  UNCHANGED Promise!custodyVars
<1>1. Placing /\ Placing' /\ Mapped /\ Mapped'
  BY PlacingHolds, PlacingNext, MappedHolds, MappedNext DEF JourneyInv, BaseInv
<1>2. \A t \in Transfers, s \in Serials :
         (Travels(t, s)' <=> Travels(t, s)) /\ (Arriving(t, s)' <=> Arriving(t, s))
  BY DEF Travels, Arriving
<1>3. ASSUME NEW s \in Serials
      PROVE  /\ \A f \in Franchises : At(f, s) => At(f, s)'
             /\ \A t \in Transfers : Carried(t, s) => Carried(t, s)'
             /\ IsSold(s)' <=> IsSold(s)
  BY <1>1, <1>2 DEF At, IsSold, Placing
<1> QED
  BY <1>1, <1>2, <1>3, Stutters

LEMMA CustodyStep ==
    ASSUME JourneyInv, JourneyInv', [Next]_vars
    PROVE  [Promise!Next]_(Promise!custodyVars)
<1>1. ASSUME NEW c \in Clerks, DispatchOutbound(c) PROVE [Promise!Next]_(Promise!custodyVars)
  BY <1>1, DispatchHandsOver
<1>2. ASSUME NEW c \in Clerks, FinalizeInbound(c) PROVE [Promise!Next]_(Promise!custodyVars)
  BY <1>2, FinalizeHandsOver
<1>3. ASSUME NEW c \in Clerks,
             \/ AddOutboundSerial(c) \/ RemoveOutboundSerial(c)
             \/ \E t \in Transfers :
                   \/ DispatchLooks(c, t) \/ FinalizeLooks(c, t)
                   \/ \E s \in Serials : AddLooks(c, t, s) \/ RemoveLooks(c, t, s)
      PROVE  UNCHANGED Promise!custodyVars
  <2>1. UNCHANGED <<status, active, inItems, inReceived, sent, queue>>
    BY <1>3 DEF AddOutboundSerial, RemoveOutboundSerial, DispatchLooks, FinalizeLooks,
                AddLooks, RemoveLooks, serialVars, inVars
  <2>2. OnTheirWay' = OnTheirWay
    BY <2>1 DEF OnTheirWay
  <2> QED
    BY <2>1, <2>2, RestStutters
<1>4. ASSUME \/ \E t \in Transfers : CreateOutbound(t) \/ \E s \in Serials : ScanInbound(t, s)
             \/ \E f \in Franchises, p \in Edited : EditProduct(f, p)
             \/ UNCHANGED vars
      PROVE  UNCHANGED Promise!custodyVars
  <2>1. UNCHANGED <<status, active, inItems, inReceived, sent, queue>>
    BY <1>4 DEF CreateOutbound, ScanInbound, EditProduct, serialVars, inVars, vars
  <2>2. OnTheirWay' = OnTheirWay
    BY <2>1 DEF OnTheirWay
  <2> QED
    BY <2>1, <2>2, RestStutters
<1>5. ASSUME NEW f \in Franchises, MasterRoutes(f) PROVE UNCHANGED Promise!custodyVars
  <2>1. UNCHANGED <<status, active, inItems, inReceived>>
    BY <1>5 DEF MasterRoutes, serialVars, inVars
  <2>2. OnTheirWay' = OnTheirWay
    BY <1>5, MessageRouted DEF JourneyInv, BaseInv
  <2> QED
    BY <2>1, <2>2, RestStutters
<1>6. ASSUME NEW f \in Franchises, ApplyCommand(f) PROVE UNCHANGED Promise!custodyVars
  BY <1>6, ApplyStutters
<1>7. ASSUME NEW f \in Franchises, NEW s \in Serials, SellSerial(f, s)
      PROVE  [Promise!Next]_(Promise!custodyVars)
  BY <1>7, SaleSells
<1> QED
  BY <1>1, <1>2, <1>3, <1>4, <1>5, <1>6, <1>7 DEF Next, ClerkStep

LEMMA CustodyInit == Init => Promise!Init
<1> SUFFICES ASSUME Init PROVE Promise!Init
  OBVIOUS
<1>1. JourneyInv /\ Mapped /\ Placing
  BY JourneyInit, MappedHolds, PlacingHolds DEF JourneyInv, BaseInv
<1>2. /\ \A f \in Franchises : sent[f] = <<>> /\ queue[f] = <<>>
      /\ \A f \in Franchises, s \in Serials :
            At(f, s) <=> f = Home[s]
      /\ \A f \in Franchises, s \in Serials : status[f][s] # "SOLD"
      /\ \A t \in Transfers : inItems[t] = {}
  BY DEF Init, At
<1>3. OnTheirWay = {}
  BY <1>2 DEF OnTheirWay, ToSet
<1>4. Custodians = Home
  <2>1. \A s \in Serials : Custodians[s] = Home[s]
    BY <1>1, <1>2, HomeAssumption DEF Mapped
  <2> QED
    BY <1>1, <2>1, HomeAssumption DEF Mapped
<1>5. SoldSerials = {}
  BY <1>2 DEF SoldSerials, IsSold
<1>6. Manifests = [t \in Transfers |-> {}]
  <2>1. ASSUME NEW t \in Transfers PROVE Manifests[t] = {}
    <3>1. \A s \in Serials : ~Travels(t, s)
      BY <1>3 DEF Travels
    <3> QED
      BY <1>1, <1>2, <3>1 DEF Mapped
  <2> QED
    BY <1>1, <2>1 DEF Mapped
<1> QED
  BY <1>4, <1>5, <1>6 DEF Promise!Init

\* The rows and messages of all franchises implement Custody while at most one
\* commit overtakes a request: dispatch_outbound_transfer and
\* finalize_inbound_receipt each hand over, once, the serials they claim, a sale
\* takes one of the franchise's own, and nothing else moves a serial.
THEOREM TransfersImplementCustody == OneOvertakes => (Spec => ImplementsCustody)
<1> SUFFICES ASSUME OneOvertakes PROVE Spec => ImplementsCustody
  OBVIOUS
<1>1. JourneyInv /\ JourneyInv' /\ [Next]_vars => [Promise!Next]_(Promise!custodyVars)
  BY CustodyStep
<1> QED
  BY <1>1, CustodyInit, JourneyInductive, PTL DEF Spec, ImplementsCustody, Promise!Spec

-----------------------------------------------------------------------------
(* What two franchises agree on, but for raced transfers. *)

LEMMA ReceiptsMean ==
    ASSUME \A d \in Clerks : KnowsReceived(open[d])',
           \A d, e \in Clerks : Nested(open[d], open[e])'
    PROVE  ReceiptsKnow'
BY DEF ReceiptsKnow

\* A waiting receipt stays the receipt that it is.
KeepsReceipt(d) ==
    open'[d].op = "finalize" =>
       /\ open[d] \in Requests
       /\ open'[d].op = open[d].op /\ open'[d].transfer = open[d].transfer
       /\ open'[d].items = open[d].items /\ open'[d].received = open[d].received
       /\ open'[d].was = open[d].was /\ open'[d].new = open[d].new

\* The first receipt that is stored after a waiting one has read takes one of its
\* items.
TakesOfIt(d) ==
    LET u == open[d].transfer
    IN  open'[d].op = "finalize" /\ inReceived'[u] # inReceived[u] /\ open[d].received = inReceived[u]
           => open[d].items \cap inReceived'[u] # {}

LEMMA NothingTaken ==
    ASSUME inReceived' = inReceived
    PROVE  \A d \in Clerks : TakesOfIt(d)
BY DEF TakesOfIt

\* A request knows what it has read while nothing but a receipt touches a transfer
\* that may be received.
LEMMA KnowsFrame ==
    ASSUME TypeOK, RequestsKnow, RequestsFit, NEW d \in Clerks, KnowsReceived(open[d]),
           KeepsReceipt(d), TakesOfIt(d),
           \A u \in Transfers :
              /\ inReceived[u] \subseteq inReceived'[u] /\ scanned[u] \subseteq scanned'[u]
              /\ inItems[u] # {} => inItems'[u] = inItems[u]
              /\ in[u] \in Receivable /\ inReceived'[u] = inReceived[u] => in'[u] = in[u]
    PROVE  KnowsReceived(open[d])'
<1> DEFINE r == open[d]
           t == r.transfer
<1> SUFFICES ASSUME open'[d].op = "finalize" PROVE KnowsReceived(open[d])'
  BY DEF KnowsReceived
<1>1. /\ r \in Requests /\ t \in Transfers /\ r.op = "finalize" /\ r.was \in Receivable
      /\ r.received \subseteq inReceived[t] /\ r.items \subseteq scanned[t] \ r.received
      /\ r.new = "RECEIVED" => r.received \cup r.items = inItems[t]
      /\ r.received = inReceived[t] => in[t] = r.was /\ r.new = AfterReceipt(t, r.items)
      /\ r.received # inReceived[t] => r.items \cap inReceived[t] # {}
  BY DEF KeepsReceipt, KnowsReceived, RequestsKnow, Requests
<1>0. inItems[t] # {} /\ inItems'[t] = inItems[t]
  BY <1>1 DEF RequestsFit, ReceiptFits
<1>2. r.received \subseteq inReceived'[t] /\ r.items \subseteq scanned'[t] \ r.received
  BY <1>1
<1>3. /\ open'[d].op = r.op /\ open'[d].transfer = t /\ open'[d].items = r.items
      /\ open'[d].received = r.received /\ open'[d].was = r.was /\ open'[d].new = r.new
  BY DEF KeepsReceipt
<1>4. ASSUME r.received = inReceived'[t]
      PROVE  in'[t] = r.was /\ r.new = AfterReceipt(t, r.items)'
  <2>1. inReceived'[t] = inReceived[t] /\ in[t] = r.was /\ r.new = AfterReceipt(t, r.items)
    BY <1>1, <1>4
  <2>2. in'[t] = in[t] /\ inItems'[t] = inItems[t]
    BY <1>0, <1>1, <2>1
  <2> QED
    BY <1>3, <2>1, <2>2 DEF AfterReceipt
<1>5. ASSUME r.received # inReceived'[t] PROVE r.items \cap inReceived'[t] # {}
  <2>1. CASE r.received # inReceived[t]
    BY <1>1, <2>1
  <2>2. CASE r.received = inReceived[t]
    BY <1>5, <2>2 DEF TakesOfIt
  <2> QED
    BY <2>1, <2>2
<1> QED
  BY <1>0, <1>1, <1>2, <1>3, <1>4, <1>5 DEF KnowsReceived, AfterReceipt

\* Requests that go on waiting.
LEMMA StayedKnows ==
    ASSUME TypeOK, RequestsKnow, RequestsFit, ReceiptsKnow, open' = open, inReceived' = inReceived,
           \A u \in Transfers :
              /\ scanned[u] \subseteq scanned'[u]
              /\ inItems[u] # {} => inItems'[u] = inItems[u]
              /\ in[u] \in Receivable => in'[u] = in[u]
    PROVE  ReceiptsKnow'
<1>1. ASSUME NEW d \in Clerks PROVE KnowsReceived(open[d])'
  <2>1. KnowsReceived(open[d])
    BY DEF ReceiptsKnow
  <2>2. open'[d].op = "finalize" => open[d] \in Requests
    BY DEF TypeOK, NoRequest
  <2>3. KeepsReceipt(d) /\ TakesOfIt(d)
    BY <2>2 DEF KeepsReceipt, TakesOfIt
  <2> QED
    BY <2>1, <2>3, KnowsFrame
<1>2. \A d, e \in Clerks : Nested(open[d], open[e])'
  BY DEF ReceiptsKnow, Nested
<1> QED
  BY <1>1, <1>2, ReceiptsMean

\* Requests that go on waiting while one commits.
LEMMA CommitKnows ==
    ASSUME TypeOK, RequestsKnow, RequestsFit, ReceiptsKnow, NEW c \in Clerks,
           open[c].op \in Operations, Close(c), \A d \in Clerks : TakesOfIt(d),
           \A u \in Transfers :
              /\ inReceived[u] \subseteq inReceived'[u] /\ scanned[u] \subseteq scanned'[u]
              /\ inItems[u] # {} => inItems'[u] = inItems[u]
              /\ in[u] \in Receivable /\ inReceived'[u] = inReceived[u] => in'[u] = in[u]
    PROVE  ReceiptsKnow'
<1>1. \A d \in Clerks : KeepsReceipt(d)
  BY Closed DEF KeepsReceipt
<1>2. ASSUME NEW d \in Clerks PROVE KnowsReceived(open[d])'
  <2>1. KnowsReceived(open[d])
    BY DEF ReceiptsKnow
  <2> QED
    BY <1>1, <2>1, KnowsFrame
<1>3. ASSUME NEW d \in Clerks, NEW e \in Clerks PROVE Nested(open[d], open[e])'
  <2>1. Nested(open[d], open[e])
    BY DEF ReceiptsKnow
  <2> QED
    BY <1>1, <2>1 DEF Nested, KeepsReceipt
<1> QED
  BY <1>2, <1>3, ReceiptsMean

\* The order of messages in a queue.
Follows(m, n) ==
    m.type = "DISPATCHED" /\ n.type = "RECEIVED" /\ m.items \cap n.items # {}

LEMMA InOrderAppend ==
    ASSUME NEW q \in Seq(Messages), NEW m \in Messages, InOrder(q),
           \A n \in ToSet(q) : ~Follows(n, m)
    PROVE  InOrder(Append(q, m))
<1>1. /\ Len(q) \in Nat /\ DOMAIN q = 1..Len(q)
      /\ Len(Append(q, m)) = Len(q) + 1
      /\ \A i \in 1..Len(q) : Append(q, m)[i] = q[i]
      /\ Append(q, m)[Len(q) + 1] = m
  BY AppendProperties, LenProperties
<1>2. \A i \in 1..Len(q) : ~Follows(q[i], m)
  BY <1>1 DEF ToSet
<1> SUFFICES ASSUME NEW i \in 1..(Len(q) + 1), NEW j \in 1..(Len(q) + 1),
                    Follows(Append(q, m)[i], Append(q, m)[j])
             PROVE  j < i
  BY <1>1 DEF InOrder, Follows
<1>3. CASE i \in 1..Len(q) /\ j \in 1..Len(q)
  BY <1>1, <1>3 DEF InOrder, Follows
<1>4. CASE i = Len(q) + 1 /\ j \in 1..Len(q)
  BY <1>1, <1>4
<1>5. CASE i \in 1..Len(q) /\ j = Len(q) + 1
  BY <1>1, <1>2, <1>5
<1>6. CASE i = Len(q) + 1 /\ j = Len(q) + 1
  BY <1>1, <1>6 DEF Follows
<1> QED
  BY <1>1, <1>3, <1>4, <1>5, <1>6

LEMMA InOrderTail ==
    ASSUME NEW q \in Seq(Messages), q # <<>>, InOrder(q)
    PROVE  InOrder(Tail(q)) /\ \A n \in ToSet(Tail(q)) : ~Follows(Head(q), n)
<1>1. /\ Len(q) \in Nat /\ Len(q) > 0 /\ Head(q) = q[1]
      /\ Tail(q) \in Seq(Messages) /\ Len(Tail(q)) = Len(q) - 1
      /\ \A i \in 1..Len(Tail(q)) : Tail(q)[i] = q[i + 1]
      /\ DOMAIN Tail(q) = 1..Len(Tail(q))
  BY HeadTailProperties, LenProperties, EmptySeq
<1>2. ASSUME NEW i \in 1..(Len(q) - 1), NEW j \in 1..(Len(q) - 1), Follows(Tail(q)[i], Tail(q)[j])
      PROVE  j < i
  <2>1. i + 1 \in 1..Len(q) /\ j + 1 \in 1..Len(q) /\ Follows(q[i + 1], q[j + 1])
    BY <1>1, <1>2
  <2>2. j + 1 < i + 1
    BY <2>1 DEF InOrder, Follows
  <2> QED
    BY <2>2
<1>3. ASSUME NEW i \in 1..(Len(q) - 1), Follows(Head(q), Tail(q)[i]) PROVE FALSE
  <2>1. 1 \in 1..Len(q) /\ i + 1 \in 1..Len(q) /\ Follows(q[1], q[i + 1])
    BY <1>1, <1>3
  <2>2. i + 1 < 1
    BY <2>1 DEF InOrder, Follows
  <2> QED
    BY <2>2
<1>4. InOrder(Tail(q))
  BY <1>1, <1>2 DEF InOrder, Follows
<1> QED
  BY <1>1, <1>3, <1>4 DEF ToSet

Agreement ==
    /\ ManifestIsKept /\ ReceiptsKnow /\ CompleteAgrees
    /\ ReceiptsComeFirst /\ SerialsAreKnown

LEMMA AgreementMeans == AgreementInv <=> JourneyInv /\ Agreement
BY DEF AgreementInv, Agreement

\* What the journeys of serials tell an agreement.
LEMMA JourneyTells ==
    ASSUME JourneyInv
    PROVE  /\ BaseInv /\ Journey /\ TypeOK /\ RequestsKnow /\ Routed /\ ReceiptsAreTrue /\ SourceAgrees
           /\ NoRepeats /\ Journeys /\ RequestsFit /\ InStages /\ InOneRole /\ AllInOnePlace
           /\ OnTheirWay \subseteq Messages
           /\ \A m \in OnTheirWay : m.transfer \in Transfers /\ m.items \in SUBSET Serials
           /\ \A t \in Transfers : Source[t] \in Franchises /\ Dest[t] \in Franchises
<1>1. BaseInv /\ Journey
  BY JourneyMeans
<1>2. /\ TypeOK /\ RequestsKnow /\ Routed /\ ReceiptsAreTrue /\ SourceAgrees
      /\ NoRepeats /\ Journeys /\ RequestsFit /\ InStages /\ InOneRole /\ AllInOnePlace
  BY <1>1 DEF BaseInv, Journey, Journeys
<1>3. OnTheirWay \subseteq Messages
  BY <1>2, MessagesTyped
<1>4. \A m \in OnTheirWay : m.transfer \in Transfers /\ m.items \in SUBSET Serials
  BY <1>3 DEF Messages
<1> QED
  BY <1>1, <1>2, <1>3, <1>4, RouteAssumption

\* A serial stays known where it was known.
LEMMA StaysKnown ==
    ASSUME SerialsAreKnown, raced = {},
           \A f \in Franchises, s \in Serials :
              /\ status[f][s] = "ABSENT" => status'[f][s] = "ABSENT" \/ Known(f, s)'
              /\ At(f, s) => Known(f, s)'
              /\ Returning(f, s) => Known(f, s)',
           \A t \in Transfers, s \in Serials :
              /\ Unsettled(t, s) => Known(Source[t], s)'
              /\ Arriving(t, s) => Known(Dest[t], s)'
    PROVE  SerialsAreKnown'
<1> SUFFICES ASSUME NEW f \in Franchises, NEW s \in Serials
             PROVE  status'[f][s] = "ABSENT" \/ Known(f, s)'
  BY DEF SerialsAreKnown
<1>1. CASE status[f][s] = "ABSENT"
  BY <1>1
<1>2. CASE Known(f, s)
  BY <1>2 DEF Known
<1> QED
  BY <1>1, <1>2 DEF SerialsAreKnown

\* A step that sends, delivers and receives nothing, and leaves dispatched
\* transfers alone.
LEMMA QuietAgrees ==
    ASSUME JourneyInv, Agreement, ReceiptsKnow', raced \subseteq raced',
           UNCHANGED <<active, in, inItems, inReceived, sent, queue>>,
           \A u \in Transfers :
              /\ Dispatched(u)' <=> Dispatched(u)
              /\ out'[u] = "RECEIVED" => out[u] = "RECEIVED"
              /\ Dispatched(u) /\ u \notin raced' =>
                    outItems'[u] = outItems[u] /\ outReceived'[u] = outReceived[u]
              /\ outReceived'[u] \subseteq outReceived[u],
           \A f \in Franchises, s \in Serials :
              \/ status'[f][s] = status[f][s]
              \/ status[f][s] = "IN_STOCK" /\ status'[f][s] = "SOLD",
           \A t \in Transfers, s \in Serials : Unsettled(t, s)' <=> Unsettled(t, s)
    PROVE  Agreement'
<1>1. /\ TypeOK /\ InStages /\ \A m \in OnTheirWay : m.transfer \in Transfers
      /\ \A t \in Transfers : Source[t] \in Franchises /\ Dest[t] \in Franchises
  BY JourneyTells
<1>2. /\ ManifestIsKept /\ CompleteAgrees /\ ReceiptsComeFirst /\ SerialsAreKnown
  BY DEF Agreement
<1>3. OnTheirWay' = OnTheirWay
  BY DEF OnTheirWay
<1>4. \A f \in Franchises, s \in Serials : At(f, s)' <=> At(f, s)
  BY DEF At
<1>5. ManifestIsKept'
  BY <1>1, <1>2, <1>3 DEF ManifestIsKept, InStages
<1>6. CompleteAgrees'
  BY <1>2 DEF CompleteAgrees
<1>7. ReceiptsComeFirst'
  <2>1. \A f \in Franchises : InOrder(sent'[f]) /\ InOrder(queue'[f])
    BY <1>2 DEF ReceiptsComeFirst, InOrder
  <2>2. ASSUME NEW f \in Franchises, NEW m \in ToSet(sent'[f]), m.type = "RECEIVED", NEW s \in m.items
        PROVE  At(f, s)' \/ \E t \in Transfers : Holds(sent'[f], "DISPATCHED", t, s)
    <3>1. At(f, s) \/ \E t \in Transfers : Holds(sent[f], "DISPATCHED", t, s)
      BY <1>2, <2>2 DEF ReceiptsComeFirst
    <3>2. At(f, s) => At(f, s)'
      BY <1>1, <1>4 DEF At, TypeOK
    <3> QED
      BY <3>1, <3>2 DEF Holds, Carries
  <2> QED
    BY <2>1, <2>2 DEF ReceiptsComeFirst, InOrder, Holds, Carries
<1>8. SerialsAreKnown'
  <2> SUFFICES ASSUME raced' = {} PROVE SerialsAreKnown'
    BY DEF SerialsAreKnown
  <2>0. raced = {}
    OBVIOUS
  <2>1. \A f \in Franchises, s \in Serials : Returning(f, s) => Returning(f, s)'
    <3> SUFFICES ASSUME NEW f \in Franchises, NEW s \in Serials, Returning(f, s)
                 PROVE  Returning(f, s)'
      OBVIOUS
    <3>1. PICK t \in Transfers : Source[t] = f /\ s \in outItems[t] \cap outReceived[t]
      BY DEF Returning
    <3>2. Dispatched(t)
      BY <1>2, <3>1 DEF ManifestIsKept
    <3>3. s \in outItems'[t] \cap outReceived'[t]
      BY <3>1, <3>2
    <3>4. status'[f][s] = "IN_TRANSIT" /\ s \notin active'[f]
      BY DEF Returning
    <3> QED
      BY <3>1, <3>3, <3>4 DEF Returning
  <2>2. \A t \in Transfers, s \in Serials : Arriving(t, s)' <=> Arriving(t, s)
    BY DEF Arriving
  <2> QED
    BY <1>1, <1>2, <1>4, <2>0, <2>1, <2>2, StaysKnown DEF Known
<1> QED
  BY <1>5, <1>6, <1>7, <1>8 DEF Agreement

LEMMA LooksAgree ==
    ASSUME JourneyInv, JourneyInv', Agreement, NEW c \in Clerks, NEW t \in Transfers,
           \/ DispatchLooks(c, t) \/ FinalizeLooks(c, t)
           \/ \E s \in Serials : AddLooks(c, t, s) \/ RemoveLooks(c, t, s)
    PROVE  Agreement'
<1>1. UNCHANGED <<serialVars, outVars, inVars, raced, sent, queue>>
  BY DEF DispatchLooks, FinalizeLooks, AddLooks, RemoveLooks
<1>2. UNCHANGED <<status, active, out, outItems, outReceived, in, inItems, scanned, inReceived, raced, sent, queue>>
  BY <1>1 DEF serialVars, outVars, inVars
<1>3. /\ BaseInv /\ BaseInv' /\ Journey /\ TypeOK /\ RequestsKnow /\ RequestsFit /\ InStages
      /\ ReceiptsKnow
  BY JourneyTells DEF Agreement, JourneyInv
<1>4. \A f \in Franchises, s \in Serials :
         /\ At(f, s)' <=> At(f, s)
         /\ InTransit(f, s)' <=> InTransit(f, s)
  BY <1>2 DEF At, InTransit
<1>5. \A u \in Transfers, s \in Serials : Unsettled(u, s)' <=> Unsettled(u, s)
  BY <1>2, <1>3, <1>4, StillJourneys DEF Dispatched
<1>6. \A d \in Clerks \ {c} : open'[d] = open[d]
  BY <1>3 DEF DispatchLooks, FinalizeLooks, AddLooks, RemoveLooks, Open, TypeOK
<1>7. ASSUME NEW d \in Clerks \ {c} PROVE KnowsReceived(open[d])'
  <2>1. KnowsReceived(open[d]) /\ open'[d] = open[d] /\ open[d] \in Requests \cup {NoRequest}
    BY <1>3, <1>6 DEF ReceiptsKnow, TypeOK
  <2>2. open'[d].op = "finalize" => open[d] \in Requests
    BY <2>1 DEF NoRequest
  <2>3. KeepsReceipt(d) /\ TakesOfIt(d)
    BY <1>2, <2>1, <2>2, NothingTaken DEF KeepsReceipt
  <2> QED
    BY <1>2, <1>3, <2>1, <2>3, KnowsFrame
<1>8. /\ KnowsReceived(open[c])'
      /\ open'[c].op = "finalize" =>
            /\ open'[c].transfer = t /\ open'[c].received = inReceived[t]
            /\ open'[c].items = scanned[t] \ inReceived[t]
  <2>1. CASE DispatchLooks(c, t)
    <3>1. Open(c, Request("dispatch", t, outItems[t], "DRAFT", "DISPATCHED"))
      BY <2>1 DEF DispatchLooks
    <3>2. outItems[t] \in SUBSET Serials
      BY <1>3 DEF TypeOK
    <3>3. open'[c] = [op |-> "dispatch", transfer |-> t, items |-> outItems[t], was |-> "DRAFT",
                      new |-> "DISPATCHED", received |-> inReceived[t], overtaken |-> 0]
      BY <1>3, <3>1, <3>2, Opened DEF Operations, OutStatuses
    <3>4. open'[c].op = "dispatch"
      BY <3>3
    <3> QED
      BY <3>4 DEF KnowsReceived
  <2>2. CASE FinalizeLooks(c, t)
    <3> DEFINE receipt == scanned[t] \ inReceived[t]
    <3>1. receipt \in SUBSET Serials /\ in[t] \in Receivable /\ receipt # {}
      BY <1>3, <2>2 DEF TypeOK, FinalizeLooks
    <3>2. Open(c, Request("finalize", t, receipt, in[t], AfterReceipt(t, receipt)))
      BY <2>2 DEF FinalizeLooks
    <3> HIDE DEF receipt
    <3>3. AfterReceipt(t, receipt) \in {"PARTIALLY_RECEIVED", "RECEIVED"}
      BY DEF AfterReceipt
    <3>4. open'[c] = [op |-> "finalize", transfer |-> t, items |-> receipt, was |-> in[t],
                      new |-> AfterReceipt(t, receipt), received |-> inReceived[t],
                      overtaken |-> 0]
      BY <1>3, <3>1, <3>2, <3>3, Opened DEF Operations, InStatuses, Receivable
    <3>5. /\ open'[c].op = "finalize" /\ open'[c].transfer = t /\ open'[c].items = receipt
          /\ open'[c].was = in[t] /\ open'[c].new = AfterReceipt(t, receipt)
          /\ open'[c].received = inReceived[t]
      BY <3>4
    <3>6. receipt = scanned[t] \ inReceived[t]
      BY DEF receipt
    <3> QED
      BY <1>2, <3>1, <3>5, <3>6 DEF KnowsReceived, AfterReceipt
  <2>3. ASSUME NEW s \in Serials, AddLooks(c, t, s) \/ RemoveLooks(c, t, s)
        PROVE  KnowsReceived(open[c])' /\ open'[c].op # "finalize"
    <3>1. PICK op \in {"add", "remove"} : Open(c, Request(op, t, {s}, "DRAFT", "DRAFT"))
      BY <2>3 DEF AddLooks, RemoveLooks
    <3>2. op \in Operations /\ {s} \in SUBSET Serials /\ "DRAFT" \in OutStatuses \cup InStatuses
      BY DEF Operations, OutStatuses
    <3>3. open'[c] = [op |-> op, transfer |-> t, items |-> {s}, was |-> "DRAFT", new |-> "DRAFT",
                      received |-> inReceived[t], overtaken |-> 0]
      BY <1>3, <3>1, <3>2, Opened
    <3>4. open'[c].op # "finalize"
      BY <3>1, <3>3
    <3> QED
      BY <3>4 DEF KnowsReceived
  <2> QED
    BY <2>1, <2>2, <2>3
<1>9. ASSUME NEW d \in Clerks \ {c}, open'[c].op = "finalize", open[d].op = "finalize",
             open[d].transfer = t, open[d].received = inReceived[t]
      PROVE  open[d].items \subseteq open'[c].items
  <2>1. open[d].items \subseteq scanned[t] \ open[d].received
    BY <1>3, <1>9 DEF ReceiptsKnow, KnowsReceived
  <2> QED
    BY <1>8, <1>9, <2>1
<1>10. ASSUME NEW d \in Clerks, NEW e \in Clerks PROVE Nested(open[d], open[e])'
  <2>1. CASE d = c /\ e = c
    BY <2>1 DEF Nested
  <2>2. CASE d = c /\ e # c
    BY <1>6, <1>8, <1>9, <2>2 DEF Nested
  <2>3. CASE d # c /\ e = c
    BY <1>6, <1>8, <1>9, <2>3 DEF Nested
  <2>4. CASE d # c /\ e # c
    BY <1>3, <1>6, <2>4 DEF ReceiptsKnow, Nested
  <2> QED
    BY <2>1, <2>2, <2>3, <2>4
<1>11. ReceiptsKnow'
  BY <1>7, <1>8, <1>10, ReceiptsMean
<1> QED
  BY <1>2, <1>5, <1>11, QuietAgrees DEF Dispatched

LEMMA EditsAgree ==
    ASSUME JourneyInv, JourneyInv', Agreement, NEW c \in Clerks,
           AddOutboundSerial(c) \/ RemoveOutboundSerial(c)
    PROVE  Agreement'
<1> DEFINE t == open[c].transfer
           items == open[c].items
<1>1. /\ BaseInv /\ BaseInv' /\ Journey /\ TypeOK /\ RequestsKnow /\ RequestsFit /\ InStages
      /\ ReceiptsKnow
  BY JourneyTells DEF Agreement, JourneyInv
<1>2. /\ open[c].op \in {"add", "remove"} /\ open[c].op \in Operations /\ Close(c)
      /\ Race(c, ~Editable(t))
  BY DEF AddOutboundSerial, RemoveOutboundSerial, Operations
<1>3. open[c] \in Requests /\ t \in Transfers /\ items \in SUBSET Serials
  <2>1. open[c] \in Requests
    BY <1>1, <1>2, CloseKnows
  <2> QED
    BY <2>1 DEF Requests
<1>4. raced \subseteq raced' /\ (t \notin raced' => ~Dispatched(t))
  BY <1>2 DEF Race, Editable, Dispatched
<1>5. /\ UNCHANGED <<status, active, out, in, inItems, scanned, inReceived, sent, queue>>
      /\ \A u \in Transfers : outReceived'[u] \subseteq outReceived[u]
      /\ \A u \in Transfers \ {t} : outItems'[u] = outItems[u] /\ outReceived'[u] = outReceived[u]
  <2>1. CASE AddOutboundSerial(c)
    BY <1>1, <1>3, <2>1 DEF AddOutboundSerial, TypeOK, serialVars, inVars
  <2>2. CASE RemoveOutboundSerial(c)
    BY <1>1, <1>3, <2>2 DEF RemoveOutboundSerial, TypeOK, serialVars, inVars
  <2> QED
    BY <2>1, <2>2
<1>6. \A f \in Franchises, s \in Serials :
         /\ At(f, s)' <=> At(f, s)
         /\ InTransit(f, s)' <=> InTransit(f, s)
  BY <1>5 DEF At, InTransit
<1>7. \A u \in Transfers, s \in Serials : Unsettled(u, s)' <=> Unsettled(u, s)
  BY <1>1, <1>5, <1>6, StillJourneys DEF Dispatched
<1>8. ReceiptsKnow'
  BY <1>1, <1>2, <1>5, CommitKnows, NothingTaken
<1> HIDE DEF t, items
<1> QED
  BY <1>4, <1>5, <1>7, <1>8, QuietAgrees DEF Dispatched

LEMMA GivesUpAgrees ==
    ASSUME JourneyInv, JourneyInv', Agreement, NEW c \in Clerks, raced \subseteq raced',
           open[c].op \in Operations, Close(c),
           UNCHANGED <<status, active, out, outItems, outReceived, in, inItems, scanned, inReceived, sent, queue>>
    PROVE  Agreement'
<1>1. BaseInv /\ BaseInv' /\ Journey /\ TypeOK /\ RequestsKnow /\ RequestsFit /\ ReceiptsKnow
  BY JourneyTells DEF Agreement, JourneyInv
<1>2. \A f \in Franchises, s \in Serials :
         /\ At(f, s)' <=> At(f, s)
         /\ InTransit(f, s)' <=> InTransit(f, s)
  BY DEF At, InTransit
<1>3. \A u \in Transfers, s \in Serials : Unsettled(u, s)' <=> Unsettled(u, s)
  BY <1>1, <1>2, StillJourneys DEF Dispatched
<1>4. ReceiptsKnow'
  BY <1>1, CommitKnows, NothingTaken
<1> QED
  BY <1>3, <1>4, QuietAgrees DEF Dispatched

LEMMA UsersAgree ==
    ASSUME JourneyInv, JourneyInv', Agreement,
           \/ \E t \in Transfers : CreateOutbound(t) \/ \E s \in Serials : ScanInbound(t, s)
           \/ \E f \in Franchises :
                 (\E s \in Serials : SellSerial(f, s)) \/ \E p \in Edited : EditProduct(f, p)
           \/ UNCHANGED vars
    PROVE  Agreement'
<1>1. BaseInv /\ BaseInv' /\ Journey /\ TypeOK /\ RequestsKnow /\ RequestsFit /\ ReceiptsKnow /\ InStages
  BY JourneyTells DEF Agreement, JourneyInv
<1>2. Rests
  BY <1>1, UsersRest
<1>3. \A u \in Transfers :
         (Dispatched(u)' <=> Dispatched(u)) /\ (out'[u] = "RECEIVED" => out[u] = "RECEIVED")
  <2>1. ASSUME NEW t \in Transfers, CreateOutbound(t), NEW u \in Transfers
        PROVE  (Dispatched(u)' <=> Dispatched(u)) /\ (out'[u] = "RECEIVED" => out[u] = "RECEIVED")
    <3>1. out'[u] = out[u] \/ (out[u] = "NONE" /\ out'[u] = "DRAFT")
      BY <1>1, <2>1 DEF CreateOutbound, TypeOK
    <3> QED
      BY <3>1 DEF Dispatched
  <2>2. ASSUME \/ \E t \in Transfers, s \in Serials : ScanInbound(t, s)
               \/ \E f \in Franchises :
                     (\E s \in Serials : SellSerial(f, s)) \/ \E p \in Edited : EditProduct(f, p)
               \/ UNCHANGED vars
        PROVE  UNCHANGED out
    BY <2>2 DEF ScanInbound, SellSerial, EditProduct, vars, outVars
  <2> QED
    BY <2>1, <2>2 DEF Dispatched
<1>4. \A f \in Franchises, s \in Serials :
         /\ At(f, s)' <=> At(f, s)
         /\ InTransit(f, s)' <=> InTransit(f, s)
  BY <1>2 DEF At, InTransit, Rests
<1>5. \A u \in Transfers, s \in Serials : Unsettled(u, s)' <=> Unsettled(u, s)
  BY <1>1, <1>2, <1>4, StillJourneys DEF Rests
<1>6. ReceiptsKnow'
  <2>1. \A u \in Transfers : scanned[u] \subseteq scanned'[u]
    <3>1. ASSUME NEW u \in Transfers, NEW s \in Serials, ScanInbound(u, s), NEW v \in Transfers
          PROVE  scanned[v] \subseteq scanned'[v]
      BY <1>1, <3>1 DEF ScanInbound, TypeOK
    <3>2. ASSUME \/ \E u \in Transfers : CreateOutbound(u)
                 \/ \E f \in Franchises :
                       (\E s \in Serials : SellSerial(f, s)) \/ \E p \in Edited : EditProduct(f, p)
                 \/ UNCHANGED vars
          PROVE  scanned' = scanned
      BY <3>2 DEF CreateOutbound, SellSerial, EditProduct, vars, inVars
    <3> QED
      BY <3>1, <3>2
  <2> QED
    BY <1>1, <1>2, <2>1, StayedKnows DEF Rests
<1> QED
  BY <1>2, <1>3, <1>5, <1>6, QuietAgrees DEF Rests

\* A manifest and a receipt on their way are carried and receipted.
LEMMA MessageCarries ==
    ASSUME JourneyInv, NEW m \in OnTheirWay, NEW s \in m.items
    PROVE  /\ m.type = "DISPATCHED" => Carried(m.transfer, s) /\ ~Arriving(m.transfer, s)
           /\ m.type = "RECEIVED" => Receipted(m.transfer, s)
           /\ m.type \in {"DISPATCHED", "RECEIVED"} /\ s \in Serials
<1>1. /\ InStages /\ Routed /\ m.transfer \in Transfers /\ m.items \in SUBSET Serials /\ m \in Messages
  BY JourneyTells
<1>2. /\ m.type = "DISPATCHED" => Travels(m.transfer, s)
      /\ m.type = "RECEIVED" => Answered(m.transfer, s)
  BY DEF Travels, Answered, Carries
<1>3. m.type = "DISPATCHED" => ~Arriving(m.transfer, s)
  BY <1>1 DEF InStages, Arriving
<1> QED
  BY <1>1, <1>2, <1>3, PlacingHolds DEF Placing, Messages

\* A message that Master passes on keeps the order of receipts and manifests.
LEMMA RouteInOrder ==
    ASSUME JourneyInv, Agreement, NEW f \in Franchises, MasterRoutes(f)
    PROVE  ReceiptsComeFirst'
<1> DEFINE m == Head(sent[f])
           to == Receiver(m)
<1>1. TypeOK /\ Routed /\ NoRepeats /\ AllInOnePlace /\ ReceiptsComeFirst
  BY JourneyTells DEF Agreement
<1>2. /\ m \in Messages /\ to \in Franchises
      /\ sent[f] # <<>> /\ sent'[f] = Tail(sent[f]) /\ queue'[to] = Append(queue[to], m)
      /\ ToSet(sent[f]) = {m} \cup ToSet(sent'[f])
      /\ ToSet(queue'[to]) = ToSet(queue[to]) \cup {m}
      /\ \A g \in Franchises \ {f} : sent'[g] = sent[g]
      /\ \A g \in Franchises \ {to} : queue'[g] = queue[g]
      /\ m \in OnTheirWay
  BY <1>1, MessageRouted
<1>3. UNCHANGED <<status, active>>
  BY DEF MasterRoutes, serialVars
<1>4. \A g \in Franchises : InOrder(sent[g]) /\ InOrder(queue[g])
                            /\ sent[g] \in Seq(Messages) /\ queue[g] \in Seq(Messages)
                            /\ ToSet(sent[g]) \subseteq OnTheirWay /\ ToSet(queue[g]) \subseteq OnTheirWay
  BY <1>1, MessagesTyped DEF ReceiptsComeFirst, OnTheirWay
<1>5. InOrder(sent'[f]) /\ \A n \in ToSet(sent'[f]) : ~Follows(m, n)
  BY <1>2, <1>4, InOrderTail
<1> HIDE DEF m, to
<1>6. \A g \in Franchises, s \in m.items :
         m \in ToSet(sent[g]) /\ m.type = "RECEIVED"
            => At(g, s) \/ \E t \in Transfers : Holds(sent[g], "DISPATCHED", t, s)
  BY <1>1 DEF ReceiptsComeFirst
<1>7. ASSUME NEW n \in ToSet(queue[to]), Follows(n, m) PROVE FALSE
  <2>1. n \in OnTheirWay /\ n.type = "DISPATCHED" /\ m.type = "RECEIVED"
    BY <1>2, <1>4, <1>7 DEF Follows
  <2>2. PICK s \in m.items : s \in n.items
    BY <1>7 DEF Follows
  <2>3. Carried(n.transfer, s) /\ s \in Serials /\ n.transfer \in Transfers
    BY <2>1, <2>2, MessageCarries, JourneyTells
  <2>4. OnePlace(s)
    BY <1>1, <2>3 DEF AllInOnePlace
  <2>5. CASE At(f, s)
    BY <2>3, <2>4, <2>5 DEF OnePlace
  <2>6. ASSUME NEW t \in Transfers, Holds(sent[f], "DISPATCHED", t, s) PROVE FALSE
    <3>1. PICK k \in ToSet(sent[f]) : k.type = "DISPATCHED" /\ k.transfer = t /\ s \in k.items
      BY <2>6 DEF Holds, Carries
    <3>2. k \in OnTheirWay /\ Carried(t, s)
      BY <1>4, <3>1, MessageCarries
    <3>3. t = n.transfer
      BY <2>3, <2>4, <3>2 DEF OnePlace
    <3>4. Repeats(k, n)
      BY <2>1, <3>1, <3>3 DEF Repeats
    <3> QED
      BY <1>1, <1>2, <3>1, <3>4 DEF NoRepeats
  <2> QED
    BY <1>2, <1>6, <2>1, <2>2, <2>5, <2>6
<1>8. InOrder(queue'[to])
  BY <1>2, <1>4, <1>7, InOrderAppend
<1>9. ASSUME NEW g \in Franchises, NEW n \in ToSet(sent'[g]), n.type = "RECEIVED", NEW s \in n.items
      PROVE  At(g, s)' \/ \E t \in Transfers : Holds(sent'[g], "DISPATCHED", t, s)
  <2>1. n \in ToSet(sent[g])
    BY <1>2
  <2>2. CASE At(g, s)
    BY <1>3, <2>2 DEF At
  <2>3. ASSUME NEW t \in Transfers, Holds(sent[g], "DISPATCHED", t, s)
        PROVE  Holds(sent'[g], "DISPATCHED", t, s)
    <3>1. PICK k \in ToSet(sent[g]) : k.type = "DISPATCHED" /\ k.transfer = t /\ s \in k.items
      BY <2>3 DEF Holds, Carries
    <3>2. ~(g = f /\ k = m)
      BY <1>5, <1>9, <3>1 DEF Follows
    <3>3. k \in ToSet(sent'[g])
      BY <1>2, <3>1, <3>2
    <3> QED
      BY <3>1, <3>3 DEF Holds, Carries
  <2> QED
    BY <1>1, <1>9, <2>1, <2>2, <2>3 DEF ReceiptsComeFirst
<1>10. \A g \in Franchises : InOrder(sent'[g]) /\ InOrder(queue'[g])
  BY <1>2, <1>4, <1>5, <1>8
<1> QED
  BY <1>9, <1>10 DEF ReceiptsComeFirst, InOrder, Holds, Carries

LEMMA RouteAgrees ==
    ASSUME JourneyInv, JourneyInv', Agreement, NEW f \in Franchises, MasterRoutes(f)
    PROVE  Agreement'
<1>1. /\ TypeOK /\ RequestsKnow /\ RequestsFit /\ Routed /\ Routed' /\ Journeys
      /\ \A m \in OnTheirWay : m.transfer \in Transfers
      /\ ManifestIsKept /\ ReceiptsKnow /\ CompleteAgrees /\ SerialsAreKnown
      /\ \A t \in Transfers : Source[t] \in Franchises /\ Dest[t] \in Franchises
  BY JourneyTells DEF Agreement, JourneyInv, BaseInv
<1>2. UNCHANGED <<status, active, out, outItems, outReceived, in, inItems, scanned, inReceived, open, raced>>
  BY DEF MasterRoutes, serialVars, outVars, inVars, clerkVars
<1>3. OnTheirWay' = OnTheirWay
  BY <1>1, MessageRouted
<1>4. \A g \in Franchises, s \in Serials :
         /\ At(g, s)' <=> At(g, s)
         /\ InTransit(g, s)' <=> InTransit(g, s)
         /\ Returning(g, s)' <=> Returning(g, s)
  BY <1>2 DEF At, InTransit, Returning
<1>5. \A u \in Transfers, s \in Serials :
         (Unsettled(u, s)' <=> Unsettled(u, s)) /\ (Arriving(u, s)' <=> Arriving(u, s))
  BY <1>1, <1>2, <1>3, <1>4, JourneysFrame DEF Dispatched, Arriving
<1>6. ManifestIsKept' /\ CompleteAgrees'
  BY <1>1, <1>2, <1>3 DEF ManifestIsKept, CompleteAgrees, Dispatched
<1>7. ReceiptsKnow'
  BY <1>1, <1>2, StayedKnows
<1>8. SerialsAreKnown'
  <2> SUFFICES ASSUME raced' = {} PROVE SerialsAreKnown'
    BY DEF SerialsAreKnown
  <2> QED
    BY <1>1, <1>2, <1>4, <1>5, StaysKnown DEF Known
<1> QED
  BY <1>6, <1>7, <1>8, RouteInOrder DEF Agreement

LEMMA DispatchAgrees ==
    ASSUME JourneyInv, JourneyInv', Agreement, NEW c \in Clerks, DispatchOutbound(c)
    PROVE  Agreement'
<1> DEFINE r == open[c]
           t == r.transfer
           f == Source[t]
           m == [type |-> "DISPATCHED", transfer |-> t, items |-> r.items]
<1>1. /\ TypeOK /\ RequestsKnow /\ Routed /\ Routed' /\ Journeys /\ RequestsFit /\ InStages
      /\ \A u \in Transfers : Source[u] \in Franchises /\ Dest[u] \in Franchises
      /\ ManifestIsKept /\ ReceiptsKnow /\ CompleteAgrees /\ ReceiptsComeFirst /\ SerialsAreKnown
  BY JourneyTells DEF Agreement, JourneyInv, BaseInv
<1>2. /\ r \in Requests /\ r.op = "dispatch" /\ Close(c)
      /\ t \in Transfers /\ f \in Franchises /\ r.items \in SUBSET Serials
      /\ UNCHANGED <<active, outItems, outReceived, in, inItems, scanned, inReceived, queue>>
      /\ raced \subseteq raced'
  BY <1>1, DispatchDoes
<1>3. CASE UNCHANGED <<status, out, sent>>
  BY <1>2, <1>3, GivesUpAgrees DEF Operations
<1>4. CASE ~UNCHANGED <<status, out, sent>>
  <2>1. /\ \A s \in r.items : InStock(f, s)
        /\ \A g \in Franchises, s \in Serials :
              status'[g][s] = IF g = f /\ s \in r.items THEN "IN_TRANSIT" ELSE status[g][s]
        /\ out'[t] = "DISPATCHED" /\ \A u \in Transfers \ {t} : out'[u] = out[u]
        /\ t \notin raced' => r.items = outItems[t]
        /\ m \in Messages /\ sent'[f] = Append(sent[f], m)
        /\ ToSet(sent'[f]) = ToSet(sent[f]) \cup {m}
        /\ \A g \in Franchises \ {f} : sent'[g] = sent[g]
        /\ OnTheirWay' = OnTheirWay \cup {m}
    BY <1>1, <1>4, DispatchDoes
  <2>2. DispatchFits(r)
    BY <1>1, <1>2 DEF RequestsFit
  <2>3. out[t] = "DRAFT" /\ r.items # {} /\ Site(r) = f
    BY <1>2, <2>1, <2>2 DEF DispatchFits, Site
  <2>4. \A u \in Transfers, s \in Serials : Unsettled(u, s)' <=> Unsettled(u, s) \/ (u = t /\ s \in r.items)
    BY <1>1, <1>2, <2>1, <2>3, DispatchJourneys
  <2>5. ReceiptsKnow'
    BY <1>1, <1>2, CommitKnows, NothingTaken DEF Operations
  <2>6. m.type = "DISPATCHED" /\ m.transfer = t /\ m.items = r.items
    OBVIOUS
  <2> HIDE DEF m, r, t, f
  <2>7. ManifestIsKept'
    <3>1. \A n \in OnTheirWay' :
             /\ n.items # {}
             /\ n.type = "DISPATCHED" /\ n.transfer \notin raced' => n.items = outItems'[n.transfer]
      BY <1>1, <1>2, <2>1, <2>3, <2>6 DEF ManifestIsKept
    <3>2. \A u \in Transfers :
             /\ outReceived'[u] # {} => Dispatched(u)'
             /\ u \notin raced' => /\ in'[u] # "NONE" => inItems'[u] = outItems'[u]
                                   /\ Dispatched(u)' => outItems'[u] # {}
      BY <1>1, <1>2, <2>1, <2>3 DEF ManifestIsKept, Dispatched
    <3> QED
      BY <3>1, <3>2 DEF ManifestIsKept
  <2>8. CompleteAgrees'
    BY <1>1, <1>2, <2>1 DEF CompleteAgrees
  <2>9. ReceiptsComeFirst'
    <3>1. \A g \in Franchises : InOrder(sent[g]) /\ InOrder(queue[g]) /\ sent[g] \in Seq(Messages)
      BY <1>1, MessagesTyped DEF ReceiptsComeFirst
    <3>2. InOrder(sent'[f])
      BY <1>2, <2>1, <2>6, <3>1, InOrderAppend DEF Follows
    <3>3. \A g \in Franchises : InOrder(sent'[g]) /\ InOrder(queue'[g])
      BY <1>2, <2>1, <3>1, <3>2
    <3>4. ASSUME NEW g \in Franchises, NEW n \in ToSet(sent'[g]), n.type = "RECEIVED", NEW s \in n.items
          PROVE  At(g, s)' \/ \E u \in Transfers : Holds(sent'[g], "DISPATCHED", u, s)
      <4>1. n \in ToSet(sent[g]) /\ ToSet(sent[g]) \subseteq ToSet(sent'[g])
        BY <2>1, <2>6, <3>4
      <4>2. CASE \E u \in Transfers : Holds(sent[g], "DISPATCHED", u, s)
        BY <4>1, <4>2 DEF Holds
      <4>3. CASE At(g, s) /\ g = f /\ s \in r.items
        BY <1>2, <2>1, <2>6, <4>3 DEF Holds, Carries
      <4>4. CASE At(g, s) /\ ~(g = f /\ s \in r.items)
        <5>1. s \in Serials
          BY <1>1, <4>4 DEF At, TypeOK
        <5> QED
          BY <1>2, <2>1, <4>4, <5>1 DEF At
      <4> QED
        BY <1>1, <3>4, <4>1, <4>2, <4>3, <4>4 DEF ReceiptsComeFirst
    <3> QED
      BY <3>3, <3>4 DEF ReceiptsComeFirst, InOrder, Holds, Carries
  <2>10. SerialsAreKnown'
    <3> SUFFICES ASSUME raced' = {} PROVE SerialsAreKnown'
      BY DEF SerialsAreKnown
    <3>0. raced = {}
      BY <1>2
    <3>1. \A u \in Transfers, s \in Serials : u = t /\ s \in r.items => Unsettled(u, s)'
      BY <2>4
    <3>2. ASSUME NEW g \in Franchises, NEW s \in Serials, At(g, s) PROVE Known(g, s)'
      <4>1. CASE g = f /\ s \in r.items
        <5>1. PICK u \in Transfers : u = t /\ Source[u] = g
          BY <1>2, <4>1 DEF f
        <5>2. Unsettled(u, s)'
          BY <3>1, <4>1, <5>1
        <5> QED
          BY <5>1, <5>2 DEF Known
      <4>2. CASE ~(g = f /\ s \in r.items)
        <5>1. At(g, s)'
          BY <1>2, <2>1, <3>2, <4>2 DEF At
        <5> QED
          BY <5>1 DEF Known
      <4> QED
        BY <4>1, <4>2
    <3>3. ASSUME NEW g \in Franchises, NEW s \in Serials, Returning(g, s) PROVE Known(g, s)'
      <4>1. status'[g][s] = "IN_TRANSIT"
        BY <2>1, <3>3 DEF Returning
      <4>2. Returning(g, s)'
        BY <1>2, <3>3, <4>1 DEF Returning
      <4> QED
        BY <4>2 DEF Known
    <3>4. \A u \in Transfers, s \in Serials :
             /\ Unsettled(u, s) => Known(Source[u], s)'
             /\ Arriving(u, s) => Known(Dest[u], s)'
      BY <1>1, <1>2, <2>4 DEF Known, Arriving
    <3>5. \A g \in Franchises, s \in Serials : status[g][s] = "ABSENT" => status'[g][s] = "ABSENT"
      BY <2>1 DEF InStock
    <3> QED
      BY <1>1, <3>0, <3>2, <3>3, <3>4, <3>5, StaysKnown
  <2> QED
    BY <2>5, <2>7, <2>8, <2>9, <2>10 DEF Agreement
<1> QED
  BY <1>3, <1>4

LEMMA FinalizeAgrees ==
    ASSUME JourneyInv, JourneyInv', Agreement, NEW c \in Clerks, FinalizeInbound(c)
    PROVE  Agreement'
<1> DEFINE r == open[c]
           t == r.transfer
           f == Dest[t]
           m == [type |-> "RECEIVED", transfer |-> t, items |-> r.items]
<1>1. /\ TypeOK /\ RequestsKnow /\ Routed /\ Routed' /\ Journeys /\ RequestsFit /\ InStages
      /\ AllInOnePlace /\ SourceAgrees
      /\ \A u \in Transfers : Source[u] \in Franchises /\ Dest[u] \in Franchises
      /\ ManifestIsKept /\ ReceiptsKnow /\ CompleteAgrees /\ ReceiptsComeFirst /\ SerialsAreKnown
  BY JourneyTells DEF Agreement, JourneyInv, BaseInv
<1>2. /\ r \in Requests /\ r.op = "finalize" /\ Close(c)
      /\ t \in Transfers /\ f \in Franchises /\ r.items \in SUBSET Serials
      /\ UNCHANGED <<active, out, outItems, outReceived, inItems, scanned, raced, queue>>
  BY <1>1, FinalizeDoes
<1>3. CASE UNCHANGED <<status, inReceived, in, sent>>
  BY <1>2, <1>3, GivesUpAgrees DEF Operations
<1>4. CASE ~UNCHANGED <<status, inReceived, in, sent>>
  <2>1. /\ \A s \in r.items : InTransit(f, s)
        /\ \A g \in Franchises, s \in Serials :
              status'[g][s] = IF g = f /\ s \in r.items THEN "IN_STOCK" ELSE status[g][s]
        /\ inReceived'[t] = inReceived[t] \cup r.items
        /\ \A u \in Transfers \ {t} : inReceived'[u] = inReceived[u]
        /\ in'[t] = IF r.new = r.was THEN in[t] ELSE r.new
        /\ \A u \in Transfers \ {t} : in'[u] = in[u]
        /\ m \in Messages /\ sent'[f] = Append(sent[f], m)
        /\ ToSet(sent'[f]) = ToSet(sent[f]) \cup {m}
        /\ \A g \in Franchises \ {f} : sent'[g] = sent[g]
        /\ OnTheirWay' = OnTheirWay \cup {m}
    BY <1>1, <1>4, FinalizeDoes
  <2>2. ReceiptFits(r) /\ Site(r) = f
    BY <1>1, <1>2 DEF RequestsFit, Site
  <2>3. \A s \in r.items : Arriving(t, s)
    BY <2>1, <2>2 DEF ReceiptFits, Arriving, At, InTransit
  <2>4. /\ r.was \in Receivable /\ r.new \in {"PARTIALLY_RECEIVED", "RECEIVED"} /\ r.items # {}
        /\ r.items \subseteq inItems[t]
        /\ r.received \subseteq inReceived[t] /\ (r.new = "RECEIVED" => r.received \cup r.items = inItems[t])
        /\ r.received = inReceived[t]
        /\ in[t] = r.was /\ in'[t] = AfterReceipt(t, r.items)
    <3>1. r.items \cap inReceived[t] = {}
      BY <2>3 DEF Arriving
    <3>2. KnowsReceived(r)
      BY <1>1 DEF ReceiptsKnow
    <3> QED
      BY <1>1, <1>2, <2>1, <2>2, <3>1, <3>2 DEF RequestsKnow, KnowsReceived, ReceiptFits
  <2>5. /\ in[t] # "NONE" /\ in'[t] # "NONE"
        /\ in[t] # "RECEIVED"
    BY <1>1, <1>2, <2>1, <2>4 DEF Receivable, InStages
  <2>6. \A u \in Transfers, s \in Serials : Unsettled(u, s)' <=> Unsettled(u, s)
    BY <1>1, <1>2, <2>1, <2>3, <2>4, <2>5, FinalizeJourneys
  <2>7. ReceiptsKnow'
    <3>1. open[c].op \in Operations
      BY <1>2 DEF Operations
    <3>2. inReceived'[t] # inReceived[t]
      BY <2>1, <2>3, <2>4 DEF Arriving
    <3>3. \A u \in Transfers :
             /\ inReceived[u] \subseteq inReceived'[u]
             /\ in[u] \in Receivable /\ inReceived'[u] = inReceived[u] => in'[u] = in[u]
      BY <1>2, <2>1, <3>2
    <3>4. ASSUME NEW d \in Clerks PROVE TakesOfIt(d)
      <4> DEFINE q == open[d]
      <4> SUFFICES ASSUME open'[d].op = "finalize", inReceived'[q.transfer] # inReceived[q.transfer],
                          q.received = inReceived[q.transfer]
                   PROVE  q.items \cap inReceived'[q.transfer] # {}
        BY DEF TakesOfIt
      <4>1. q \in Requests /\ q.op = "finalize" /\ q.transfer \in Transfers
        <5>1. q \in Requests /\ q.op = "finalize"
          BY <1>1, <1>2, <3>1, Closed
        <5> QED
          BY <5>1 DEF Requests
      <4>2. q.transfer = t
        BY <2>1, <4>1
      <4>3. ReceiptFits(q) /\ Nested(r, q)
        BY <1>1, <4>1 DEF RequestsFit, ReceiptsKnow
      <4>4. r.items \subseteq q.items \/ q.items \subseteq r.items
        BY <1>2, <2>4, <4>1, <4>2, <4>3 DEF Nested
      <4>5. r.items # {} /\ q.items # {}
        BY <2>4, <4>3 DEF ReceiptFits
      <4> QED
        BY <2>1, <4>2, <4>4, <4>5
    <3> QED
      BY <1>1, <1>2, <3>1, <3>3, <3>4, CommitKnows
  <2>8. m.type = "RECEIVED" /\ m.transfer = t /\ m.items = r.items
    OBVIOUS
  <2> HIDE DEF m, r, t, f
  <2>9. ManifestIsKept'
    <3>1. \A n \in OnTheirWay' :
             /\ n.items # {}
             /\ n.type = "DISPATCHED" /\ n.transfer \notin raced' => n.items = outItems'[n.transfer]
      BY <1>1, <1>2, <2>1, <2>4, <2>8 DEF ManifestIsKept
    <3>2. \A u \in Transfers :
             /\ outReceived'[u] # {} => Dispatched(u)'
             /\ u \notin raced' => /\ in'[u] # "NONE" => inItems'[u] = outItems'[u]
                                   /\ Dispatched(u)' => outItems'[u] # {}
      BY <1>1, <1>2, <2>1, <2>5 DEF ManifestIsKept, Dispatched
    <3> QED
      BY <3>1, <3>2 DEF ManifestIsKept
  <2>10. CompleteAgrees'
    <3>1. ASSUME NEW u \in Transfers, in'[u] = "RECEIVED"
          PROVE  inItems'[u] # {} /\ inReceived'[u] = inItems'[u]
      <4>1. CASE u = t
        <5>1. inReceived'[t] \subseteq inItems[t] /\ inItems[t] # {}
          BY <1>1, <1>2, <2>1, <2>4 DEF InStages
        <5>2. inItems[t] \subseteq inReceived'[t]
          BY <1>1, <1>2, <2>1, <2>4, <3>1, <4>1 DEF CompleteAgrees
        <5> QED
          BY <1>2, <4>1, <5>1, <5>2
      <4>2. CASE u # t
        BY <1>1, <1>2, <2>1, <3>1, <4>2 DEF CompleteAgrees
      <4> QED
        BY <4>1, <4>2
    <3>2. ASSUME NEW u \in Transfers \ raced'
          PROVE  /\ out'[u] = "RECEIVED" => in'[u] = "RECEIVED"
                 /\ inItems'[u] # {} /\ inReceived'[u] = inItems'[u] => in'[u] = "RECEIVED"
      <4>1. CASE u = t
        <5>1. t \notin raced' /\ t \notin raced
          BY <1>2, <4>1
        <5>2. out'[t] # "RECEIVED"
          BY <1>1, <1>2, <2>5, <5>1 DEF CompleteAgrees
        <5>3. inReceived'[t] = inItems'[t] => in'[t] = "RECEIVED"
          BY <1>2, <2>1, <2>4, <5>1 DEF AfterReceipt
        <5> QED
          BY <4>1, <5>2, <5>3
      <4>2. CASE u # t
        BY <1>1, <1>2, <2>1, <4>2 DEF CompleteAgrees
      <4> QED
        BY <4>1, <4>2
    <3> QED
      BY <3>1, <3>2 DEF CompleteAgrees
  <2>11. \A g \in Franchises, s \in Serials : At(g, s)' <=> At(g, s) \/ (g = f /\ s \in r.items)
    BY <1>2, <2>1 DEF At, InTransit
  <2>12. ReceiptsComeFirst'
    <3>1. \A g \in Franchises : InOrder(sent[g]) /\ InOrder(queue[g]) /\ sent[g] \in Seq(Messages)
                                /\ ToSet(sent[g]) \subseteq OnTheirWay
      BY <1>1, MessagesTyped DEF ReceiptsComeFirst, OnTheirWay
    <3>2. ASSUME NEW n \in ToSet(sent[f]), Follows(n, m) PROVE FALSE
      <4>1. n \in OnTheirWay /\ n.type = "DISPATCHED"
        BY <1>2, <3>1, <3>2 DEF Follows
      <4>2. PICK s \in n.items : s \in r.items
        BY <2>8, <3>2 DEF Follows
      <4>3. Carried(n.transfer, s) /\ ~Arriving(n.transfer, s) /\ s \in Serials /\ n.transfer \in Transfers
        BY <4>1, <4>2, MessageCarries, JourneyTells
      <4>4. Arriving(t, s) /\ Carried(t, s)
        BY <2>3, <4>2 DEF Carried
      <4> QED
        BY <1>1, <1>2, <4>3, <4>4 DEF AllInOnePlace, OnePlace
    <3>3. InOrder(sent'[f])
      BY <1>2, <2>1, <3>1, <3>2, InOrderAppend
    <3>4. \A g \in Franchises : InOrder(sent'[g]) /\ InOrder(queue'[g])
      BY <1>2, <2>1, <3>1, <3>3
    <3>5. ASSUME NEW g \in Franchises, NEW n \in ToSet(sent'[g]), n.type = "RECEIVED", NEW s \in n.items
          PROVE  At(g, s)' \/ \E u \in Transfers : Holds(sent'[g], "DISPATCHED", u, s)
      <4>1. ToSet(sent[g]) \subseteq ToSet(sent'[g]) /\ (n \in ToSet(sent[g]) \/ (g = f /\ n = m))
        BY <2>1, <3>5
      <4>2. CASE n = m /\ g = f
        BY <1>2, <2>8, <2>11, <4>2
      <4>3. CASE n \in ToSet(sent[g])
        <5>1. At(g, s) \/ \E u \in Transfers : Holds(sent[g], "DISPATCHED", u, s)
          BY <1>1, <3>5, <4>3 DEF ReceiptsComeFirst
        <5>2. At(g, s) => At(g, s)'
          BY <1>1, <2>11 DEF At, TypeOK
        <5> QED
          BY <4>1, <5>1, <5>2 DEF Holds
      <4> QED
        BY <4>1, <4>2, <4>3
    <3> QED
      BY <3>4, <3>5 DEF ReceiptsComeFirst, InOrder, Holds, Carries
  <2>13. SerialsAreKnown'
    <3> SUFFICES ASSUME raced' = {} PROVE SerialsAreKnown'
      BY DEF SerialsAreKnown
    <3>0. raced = {}
      BY <1>2
    <3>1. \A g \in Franchises, s \in Serials : At(g, s) => Known(g, s)'
      BY <2>11 DEF Known
    <3>2. ASSUME NEW g \in Franchises, NEW s \in Serials, Returning(g, s) PROVE Known(g, s)'
      <4>1. ~(g = f /\ s \in r.items)
        BY <2>1, <3>2 DEF Returning, InTransit
      <4>2. Returning(g, s)'
        BY <1>2, <2>1, <3>2, <4>1 DEF Returning
      <4> QED
        BY <4>2 DEF Known
    <3>3. ASSUME NEW u \in Transfers, NEW s \in Serials, Unsettled(u, s) PROVE Known(Source[u], s)'
      <4>1. Unsettled(u, s)'
        BY <2>6, <3>3
      <4> QED
        BY <4>1 DEF Known
    <3>4. ASSUME NEW u \in Transfers, NEW s \in Serials, Arriving(u, s) PROVE Known(Dest[u], s)'
      <4>1. CASE u = t /\ s \in r.items
        <5>1. Dest[u] \in Franchises /\ Dest[u] = f
          BY <1>1, <4>1 DEF f
        <5>2. At(Dest[u], s)'
          BY <2>11, <4>1, <5>1
        <5> QED
          BY <5>2 DEF Known
      <4>2. CASE ~(u = t /\ s \in r.items)
        <5>1. Arriving(u, s)'
          BY <1>2, <2>1, <3>4, <4>2 DEF Arriving
        <5> QED
          BY <5>1 DEF Known
      <4> QED
        BY <4>1, <4>2
    <3>5. \A g \in Franchises, s \in Serials : status[g][s] = "ABSENT" => status'[g][s] = "ABSENT"
      BY <2>1 DEF InTransit
    <3> QED
      BY <1>1, <3>0, <3>1, <3>2, <3>3, <3>4, <3>5, StaysKnown
  <2> QED
    BY <2>7, <2>9, <2>10, <2>12, <2>13 DEF Agreement
<1> QED
  BY <1>3, <1>4

\* Applying a command keeps the order of what is left.
LEMMA ApplyInOrder ==
    ASSUME JourneyInv, Agreement, NEW f \in Franchises, ApplyCommand(f),
           \A g \in Franchises, s \in Serials : At(g, s)' <=> At(g, s)
    PROVE  ReceiptsComeFirst'
<1>1. TypeOK /\ ReceiptsComeFirst
  BY JourneyTells DEF Agreement
<1>2. /\ queue[f] # <<>> /\ queue'[f] = Tail(queue[f]) /\ queue[f] \in Seq(Messages)
      /\ \A g \in Franchises \ {f} : queue'[g] = queue[g]
      /\ sent' = sent
  BY <1>1, CommandTaken, MessagesTyped
<1>3. InOrder(queue'[f])
  BY <1>1, <1>2, InOrderTail DEF ReceiptsComeFirst
<1>4. \A g \in Franchises : InOrder(sent'[g]) /\ InOrder(queue'[g])
  BY <1>1, <1>2, <1>3 DEF ReceiptsComeFirst
<1>5. ASSUME NEW g \in Franchises, NEW n \in ToSet(sent'[g]), n.type = "RECEIVED", NEW s \in n.items
      PROVE  At(g, s)' \/ \E u \in Transfers : Holds(sent'[g], "DISPATCHED", u, s)
  <2>1. At(g, s) \/ \E u \in Transfers : Holds(sent[g], "DISPATCHED", u, s)
    BY <1>1, <1>2, <1>5 DEF ReceiptsComeFirst
  <2>2. At(g, s) => At(g, s)'
    BY <1>1 DEF At, TypeOK
  <2> QED
    BY <1>2, <2>1, <2>2
<1> QED
  BY <1>4, <1>5 DEF ReceiptsComeFirst, InOrder, Holds, Carries

LEMMA AvailableAgrees ==
    ASSUME JourneyInv, JourneyInv', Agreement, NEW f \in Franchises, ApplyCommand(f),
           ApplyAvailable(f, Head(queue[f]))
    PROVE  Agreement'
<1> DEFINE m == Head(queue[f])
           t == m.transfer
<1>1. /\ TypeOK /\ RequestsKnow /\ RequestsFit /\ Routed /\ Routed' /\ NoRepeats /\ Journeys /\ InStages
      /\ \A u \in Transfers : Source[u] \in Franchises /\ Dest[u] \in Franchises
      /\ ManifestIsKept /\ ReceiptsKnow /\ CompleteAgrees /\ SerialsAreKnown
  BY JourneyTells DEF Agreement, JourneyInv, BaseInv
<1>2. m \in Messages /\ m \in OnTheirWay /\ OnTheirWay' \subseteq OnTheirWay /\ UNCHANGED <<open, raced, sent>>
  BY <1>1, CommandTaken
<1>3. /\ \A n \in OnTheirWay' : ~Repeats(n, m)
      /\ OnTheirWay = {m} \cup OnTheirWay' /\ Receiver(m) = f
  BY <1>1, ApplyApart
<1> HIDE DEF m
<1>4. /\ m.type = "DISPATCHED" /\ t \in Transfers /\ m.items \in SUBSET Serials
      /\ UNCHANGED <<out, outItems, outReceived, scanned, inReceived>>
  BY <1>1, <1>2, AvailableDoes DEF m
<1>5. in[t] = "NONE" /\ inItems[t] = {} /\ inReceived[t] = {}
  BY <1>1, <1>2, <1>4 DEF InStages
<1>6. /\ \A s \in m.items : status[f][s] = "ABSENT" \/ Returning(f, s)
      /\ \A g \in Franchises, s \in Serials :
            status'[g][s] = IF g = f /\ s \in m.items THEN "IN_TRANSIT" ELSE status[g][s]
      /\ active'[f] = active[f] \cup m.items
      /\ \A g \in Franchises \ {f} : active'[g] = active[g]
      /\ in'[t] = "AWAITING_RECEIPT" /\ inItems'[t] = m.items
      /\ \A u \in Transfers \ {t} : in'[u] = in[u] /\ inItems'[u] = inItems[u]
  BY <1>1, <1>2, <1>5, AvailableDoes DEF m
<1>7. f = Dest[t]
  BY <1>3, <1>4 DEF Receiver
<1>8. \A u \in Transfers, s \in Serials : Unsettled(u, s)' <=> Unsettled(u, s)
  BY <1>1, <1>2, <1>3, <1>4, <1>6, <1>7, AvailableJourneys
<1>9. m.items # {} /\ (t \notin raced => m.items = outItems[t]) /\ Dispatched(t)
  BY <1>1, <1>2, <1>4 DEF ManifestIsKept, InStages
<1> HIDE DEF t
<1>10. \A g \in Franchises, s \in Serials : At(g, s)' <=> At(g, s)
  BY <1>6 DEF At, Returning
<1>11. ManifestIsKept'
  <2>1. \A n \in OnTheirWay' :
           /\ n.items # {}
           /\ n.type = "DISPATCHED" /\ n.transfer \notin raced' => n.items = outItems'[n.transfer]
    BY <1>1, <1>2, <1>4 DEF ManifestIsKept
  <2>2. \A u \in Transfers :
           /\ outReceived'[u] # {} => Dispatched(u)'
           /\ u \notin raced' => /\ in'[u] # "NONE" => inItems'[u] = outItems'[u]
                                 /\ Dispatched(u)' => outItems'[u] # {}
    BY <1>1, <1>2, <1>4, <1>6, <1>9 DEF ManifestIsKept, Dispatched
  <2> QED
    BY <2>1, <2>2 DEF ManifestIsKept
<1>12. CompleteAgrees'
  <2>1. inReceived'[t] # inItems'[t] /\ in'[t] # "RECEIVED"
    BY <1>4, <1>5, <1>6, <1>9
  <2>2. t \notin raced => out[t] # "RECEIVED"
    BY <1>1, <1>4, <1>5 DEF CompleteAgrees
  <2>3. \A u \in Transfers \ {t} : in'[u] = in[u] /\ inItems'[u] = inItems[u]
    BY <1>6
  <2>4. \A u \in Transfers : in'[u] = "RECEIVED" => inItems'[u] # {} /\ inReceived'[u] = inItems'[u]
    BY <1>1, <1>4, <2>1, <2>3 DEF CompleteAgrees
  <2>5. ASSUME NEW u \in Transfers \ raced', out'[u] = "RECEIVED" PROVE in'[u] = "RECEIVED"
    <3>1. u # t
      BY <1>2, <1>4, <2>2, <2>5
    <3> QED
      BY <1>1, <1>2, <1>4, <2>3, <2>5, <3>1 DEF CompleteAgrees
  <2>6. ASSUME NEW u \in Transfers \ raced', inItems'[u] # {}, inReceived'[u] = inItems'[u]
        PROVE  in'[u] = "RECEIVED"
    <3>1. u # t
      BY <2>1, <2>6
    <3> QED
      BY <1>1, <1>2, <1>4, <2>3, <2>6, <3>1 DEF CompleteAgrees
  <2> QED
    BY <2>4, <2>5, <2>6 DEF CompleteAgrees
<1>13. ReceiptsKnow'
  <2>1. \A u \in Transfers :
           /\ scanned[u] \subseteq scanned'[u]
           /\ inItems[u] # {} => inItems'[u] = inItems[u]
           /\ in[u] \in Receivable => in'[u] = in[u]
    BY <1>4, <1>5, <1>6 DEF Receivable
  <2>2. inReceived' = inReceived
    BY <1>4
  <2> QED
    BY <1>1, <1>2, <2>1, <2>2, StayedKnows
<1>14. SerialsAreKnown'
  <2> SUFFICES ASSUME raced' = {} PROVE SerialsAreKnown'
    BY DEF SerialsAreKnown
  <2>0. raced = {}
    BY <1>2
  <2>1. \A u \in Transfers, s \in Serials :
           /\ u = t /\ s \in m.items => Arriving(u, s)'
           /\ Arriving(u, s) => Arriving(u, s)'
    BY <1>4, <1>5, <1>6 DEF Arriving
  <2>2. ASSUME NEW g \in Franchises, NEW s \in Serials, g = f, s \in m.items PROVE Known(g, s)'
    <3>1. PICK u \in Transfers : u = t /\ Dest[u] = g
      BY <1>4, <1>7, <2>2
    <3>2. Arriving(u, s)'
      BY <2>1, <2>2, <3>1
    <3> QED
      BY <3>1, <3>2 DEF Known
  <2>3. ASSUME NEW g \in Franchises, NEW s \in Serials, Returning(g, s) PROVE Known(g, s)'
    <3>1. CASE g = f /\ s \in m.items
      BY <2>2, <3>1
    <3>2. CASE ~(g = f /\ s \in m.items)
      <4>1. status'[g][s] = status[g][s] /\ (s \in active'[g] => s \in active[g])
        BY <1>6, <3>2
      <4>2. Returning(g, s)'
        BY <1>4, <2>3, <4>1 DEF Returning
      <4> QED
        BY <4>2 DEF Known
    <3> QED
      BY <3>1, <3>2
  <2>4. ASSUME NEW g \in Franchises, NEW s \in Serials, status[g][s] = "ABSENT"
        PROVE  status'[g][s] = "ABSENT" \/ Known(g, s)'
    BY <1>6, <2>2, <2>4
  <2>5. \A u \in Transfers, s \in Serials :
           /\ Unsettled(u, s) => Known(Source[u], s)'
           /\ Arriving(u, s) => Known(Dest[u], s)'
    BY <1>1, <1>8, <2>1 DEF Known
  <2>6. \A g \in Franchises, s \in Serials : At(g, s) => Known(g, s)'
    BY <1>10 DEF Known
  <2> QED
    BY <1>1, <2>0, <2>3, <2>4, <2>5, <2>6, StaysKnown
<1>15. ReceiptsComeFirst'
  BY <1>10, ApplyInOrder
<1> QED
  BY <1>11, <1>12, <1>13, <1>14, <1>15 DEF Agreement

LEMMA SettleAgrees ==
    ASSUME JourneyInv, JourneyInv', Agreement, NEW f \in Franchises, ApplyCommand(f),
           ApplyReceipt(f, Head(queue[f]))
    PROVE  Agreement'
<1> DEFINE m == Head(queue[f])
           t == m.transfer
<1>1. /\ TypeOK /\ RequestsKnow /\ RequestsFit /\ Routed /\ Routed' /\ NoRepeats /\ Journeys /\ InStages /\ InOneRole
      /\ ReceiptsAreTrue /\ SourceAgrees'
      /\ \A u \in Transfers : Source[u] \in Franchises /\ Dest[u] \in Franchises
      /\ ManifestIsKept /\ ReceiptsKnow /\ CompleteAgrees /\ SerialsAreKnown
  BY JourneyTells DEF Agreement, JourneyInv, BaseInv
<1>2. m \in Messages /\ m \in OnTheirWay /\ OnTheirWay' \subseteq OnTheirWay /\ UNCHANGED <<open, raced, sent>>
  BY <1>1, CommandTaken
<1>3. /\ \A n \in OnTheirWay' : ~Repeats(n, m)
      /\ OnTheirWay = {m} \cup OnTheirWay' /\ Receiver(m) = f
  BY <1>1, ApplyApart
<1> HIDE DEF m
<1>4. /\ m.type = "RECEIVED" /\ t \in Transfers /\ m.items \in SUBSET Serials
      /\ CanSettle(m)
      /\ UNCHANGED <<status, outItems, in, inItems, scanned, inReceived>>
      /\ outReceived'[t] = outReceived[t] \cup m.items
      /\ \A u \in Transfers \ {t} : outReceived'[u] = outReceived[u] /\ out'[u] = out[u]
      /\ active'[f] = active[f] \ (m.items \ outReceived[t])
      /\ \A g \in Franchises \ {f} : active'[g] = active[g]
      /\ out'[t] = Settled(t, outReceived[t] \cup m.items)
  BY <1>1, <1>2, ReceiptDoes DEF m
<1>5. f = Source[t]
  BY <1>3, <1>4 DEF Receiver
<1>6. /\ m.items # {} /\ m.items \subseteq inReceived[t] /\ inReceived[t] \subseteq inItems[t]
      /\ in[t] # "NONE" /\ (t \notin raced => inItems[t] = outItems[t]) /\ Dispatched(t)
  BY <1>1, <1>2, <1>4 DEF ManifestIsKept, ReceiptsAreTrue, InStages
<1>7. /\ out'[t] \in {"RECEIVED", "PARTIALLY_RECEIVED"}
      /\ out'[t] = "RECEIVED" => outReceived'[t] = outItems[t]
  BY <1>4, <1>6 DEF Settled
<1>8. \A u \in Transfers : Dispatched(u)' <=> Dispatched(u)
  BY <1>4, <1>6, <1>7 DEF Dispatched
<1>9. \A u \in Transfers, s \in Serials :
         Unsettled(u, s)' <=> Unsettled(u, s) /\ ~(u = t /\ s \in m.items)
  BY <1>1, <1>2, <1>3, <1>4, <1>5, <1>8, ReceiptJourneys
<1>10. \A s \in m.items : s \in Serials /\ Receipted(t, s)
  BY <1>2, <1>4, MessageCarries
<1>11. \A s \in m.items : InTransit(f, s) /\ s \notin outReceived[t]
  BY <1>1, <1>4, <1>5, <1>10 DEF InOneRole, Unsettled
<1> HIDE DEF t
<1>12. \A g \in Franchises, s \in Serials : At(g, s)' <=> At(g, s)
  BY <1>4, <1>11 DEF At, InTransit
<1>13. ManifestIsKept'
  <2>1. \A n \in OnTheirWay' :
           /\ n.items # {}
           /\ n.type = "DISPATCHED" /\ n.transfer \notin raced' => n.items = outItems'[n.transfer]
    BY <1>1, <1>2, <1>4 DEF ManifestIsKept
  <2>2. \A u \in Transfers :
           /\ outReceived'[u] # {} => Dispatched(u)'
           /\ u \notin raced' => /\ in'[u] # "NONE" => inItems'[u] = outItems'[u]
                                 /\ Dispatched(u)' => outItems'[u] # {}
    BY <1>1, <1>2, <1>4, <1>6, <1>8 DEF ManifestIsKept
  <2> QED
    BY <2>1, <2>2 DEF ManifestIsKept
<1>14. CompleteAgrees'
  <2>1. ASSUME out'[t] = "RECEIVED", t \notin raced' PROVE in'[t] = "RECEIVED"
    <3>1. outItems[t] \subseteq inReceived[t]
      BY <1>1, <1>4, <1>7, <2>1 DEF SourceAgrees
    <3>2. inReceived[t] = inItems[t] /\ inItems[t] # {}
      BY <1>2, <1>6, <2>1, <3>1
    <3> QED
      BY <1>1, <1>2, <1>4, <2>1, <3>2 DEF CompleteAgrees
  <2> QED
    BY <1>1, <1>2, <1>4, <2>1 DEF CompleteAgrees
<1>15. ReceiptsKnow'
  BY <1>1, <1>2, <1>4, StayedKnows
<1>16. SerialsAreKnown'
  <2> SUFFICES ASSUME raced' = {} PROVE SerialsAreKnown'
    BY DEF SerialsAreKnown
  <2>0. raced = {}
    BY <1>2
  <2>1. ASSUME NEW g \in Franchises, NEW s \in Serials, Returning(g, s) PROVE Known(g, s)'
    <3>1. status'[g][s] = "IN_TRANSIT" /\ s \notin active'[g]
      BY <1>4, <2>1 DEF Returning
    <3>2. PICK u \in Transfers : Source[u] = g /\ s \in outItems[u] \cap outReceived[u]
      BY <2>1 DEF Returning
    <3>3. s \in outItems'[u] \cap outReceived'[u]
      BY <1>4, <3>2
    <3>4. Returning(g, s)'
      BY <3>1, <3>2, <3>3 DEF Returning
    <3> QED
      BY <3>4 DEF Known
  <2>2. ASSUME NEW u \in Transfers, NEW s \in Serials, Unsettled(u, s) PROVE Known(Source[u], s)'
    <3>1. CASE ~(u = t /\ s \in m.items)
      <4>1. Unsettled(u, s)'
        BY <1>9, <2>2, <3>1
      <4> QED
        BY <4>1 DEF Known
    <3>2. CASE u = t /\ s \in m.items
      <4>1. Source[u] \in Franchises /\ Source[u] = f
        BY <1>1, <1>5, <3>2
      <4>2. status'[Source[u]][s] = "IN_TRANSIT" /\ s \notin active'[Source[u]]
        BY <1>4, <1>11, <3>2, <4>1 DEF InTransit
      <4>3. s \in outItems'[u] \cap outReceived'[u]
        BY <1>4, <3>2 DEF CanSettle, t
      <4>4. Returning(Source[u], s)'
        BY <4>2, <4>3 DEF Returning
      <4> QED
        BY <4>4 DEF Known
    <3> QED
      BY <3>1, <3>2
  <2>3. \A u \in Transfers, s \in Serials : Arriving(u, s) => Known(Dest[u], s)'
    BY <1>4 DEF Known, Arriving
  <2>4. \A g \in Franchises, s \in Serials : At(g, s) => Known(g, s)'
    BY <1>12 DEF Known
  <2> QED
    BY <1>1, <1>4, <2>0, <2>1, <2>2, <2>3, <2>4, StaysKnown
<1>17. ReceiptsComeFirst'
  BY <1>12, ApplyInOrder
<1> QED
  BY <1>13, <1>14, <1>15, <1>16, <1>17 DEF Agreement

LEMMA AgreementStep ==
    ASSUME OneOvertakes
    PROVE  AgreementInv /\ [Next]_vars => AgreementInv'
<1> SUFFICES ASSUME JourneyInv, Agreement, [Next]_vars PROVE JourneyInv' /\ Agreement'
  <2>1. AgreementInv' <=> JourneyInv' /\ Agreement'
    BY AgreementMeans, PTL
  <2> QED
    BY <2>1, AgreementMeans
<1>1. JourneyInv'
  BY JourneyStep
<1>2. ASSUME NEW c \in Clerks, ClerkStep(c) PROVE Agreement'
  <2>1. CASE AddOutboundSerial(c) \/ RemoveOutboundSerial(c)
    BY <1>1, <2>1, EditsAgree
  <2>2. CASE DispatchOutbound(c)
    BY <1>1, <2>2, DispatchAgrees
  <2>3. CASE FinalizeInbound(c)
    BY <1>1, <2>3, FinalizeAgrees
  <2>4. CASE \E t \in Transfers :
                \/ DispatchLooks(c, t)
                \/ FinalizeLooks(c, t)
                \/ \E s \in Serials : AddLooks(c, t, s) \/ RemoveLooks(c, t, s)
    BY <1>1, <2>4, LooksAgree
  <2> QED
    BY <1>2, <2>1, <2>2, <2>3, <2>4 DEF ClerkStep
<1>3. ASSUME NEW f \in Franchises, MasterRoutes(f) PROVE Agreement'
  BY <1>1, <1>3, RouteAgrees
<1>4. ASSUME NEW f \in Franchises, ApplyCommand(f) PROVE Agreement'
  <2>1. ApplyAvailable(f, Head(queue[f])) \/ ApplyReceipt(f, Head(queue[f]))
    BY <1>4 DEF ApplyCommand
  <2> QED
    BY <1>1, <1>4, <2>1, AvailableAgrees, SettleAgrees
<1>5. ASSUME \/ \E t \in Transfers : CreateOutbound(t) \/ \E s \in Serials : ScanInbound(t, s)
             \/ \E f \in Franchises :
                   (\E s \in Serials : SellSerial(f, s)) \/ \E p \in Edited : EditProduct(f, p)
             \/ UNCHANGED vars
      PROVE  Agreement'
  BY <1>1, <1>5, UsersAgree
<1> QED
  BY <1>1, <1>2, <1>3, <1>4, <1>5 DEF Next

LEMMA AgreementInit == Init => AgreementInv
<1> SUFFICES ASSUME Init PROVE Agreement
  BY JourneyInit, AgreementMeans
<1>1. /\ \A f \in Franchises : sent[f] = <<>> /\ queue[f] = <<>>
      /\ \A t \in Transfers : /\ out[t] = "NONE" /\ in[t] = "NONE"
                              /\ inItems[t] = {} /\ inReceived[t] = {} /\ outReceived[t] = {}
      /\ \A d \in Clerks : open[d].op = "none"
  BY DEF Init, NoRequest
<1>2. /\ OnTheirWay = {}
      /\ \A f \in Franchises : ToSet(sent[f]) = {} /\ ToSet(queue[f]) = {}
      /\ \A f \in Franchises : Len(sent[f]) = 0 /\ Len(queue[f]) = 0
  BY <1>1 DEF OnTheirWay, ToSet
<1>3. ManifestIsKept /\ CompleteAgrees
  BY <1>1, <1>2 DEF ManifestIsKept, CompleteAgrees, Dispatched
<1>4. ReceiptsKnow
  BY <1>1 DEF ReceiptsKnow, KnowsReceived, Nested
<1>5. ReceiptsComeFirst
  BY <1>2 DEF ReceiptsComeFirst, InOrder
<1>6. SerialsAreKnown
  <2> SUFFICES ASSUME NEW f \in Franchises, NEW s \in Serials
               PROVE  status[f][s] = "ABSENT" \/ At(f, s)
    BY DEF SerialsAreKnown, Known
  <2> QED
    BY DEF Init, At
<1> QED
  BY <1>3, <1>4, <1>5, <1>6 DEF Agreement

\* The first command of a queue can be applied.
LEMMA AgreementBlocksNone == AgreementInv => NeverBlocked
<1> SUFFICES ASSUME AgreementInv, raced = {}, NEW f \in Franchises, queue[f] # <<>>
             PROVE  LET m == Head(queue[f])
                    IN  IF m.type = "DISPATCHED" THEN CanArrive(f, m) ELSE CanSettle(m)
  BY DEF NeverBlocked
<1> DEFINE m == Head(queue[f])
           t == m.transfer
<1>1. JourneyInv /\ Agreement
  BY AgreementMeans
<1>2. /\ TypeOK /\ Routed /\ NoRepeats /\ InStages /\ InOneRole /\ AllInOnePlace /\ ReceiptsAreTrue
      /\ \A u \in Transfers : Source[u] \in Franchises /\ Dest[u] \in Franchises
      /\ ManifestIsKept /\ ReceiptsComeFirst /\ SerialsAreKnown
  BY <1>1, JourneyTells DEF Agreement
<1>3. \A g \in Franchises : /\ sent[g] \in Seq(Messages) /\ queue[g] \in Seq(Messages)
                            /\ ToSet(sent[g]) \subseteq OnTheirWay /\ ToSet(queue[g]) \subseteq OnTheirWay
  BY <1>2, MessagesTyped DEF OnTheirWay
<1>4. /\ ToSet(queue[f]) = {m} \cup ToSet(Tail(queue[f]))
      /\ \A n \in ToSet(Tail(queue[f])) : ~Follows(m, n)
  BY <1>2, <1>3, ToSetTail, InOrderTail DEF ReceiptsComeFirst
<1>5. m \in OnTheirWay /\ m \in ToSet(queue[f]) /\ Receiver(m) = f
  BY <1>2, <1>3, <1>4 DEF Routed
<1> HIDE DEF m
<1>6. t \in Transfers /\ m.items \in SUBSET Serials /\ m.type \in {"DISPATCHED", "RECEIVED"} /\ m.items # {}
  BY <1>1, <1>2, <1>5, JourneyTells DEF Messages, ManifestIsKept
<1> HIDE DEF t
<1>7. CASE m.type = "DISPATCHED"
  <2>1. in[t] = "NONE" /\ f = Dest[t] /\ inItems[t] = {}
    BY <1>2, <1>5, <1>6, <1>7 DEF InStages, Receiver, t
  <2> SUFFICES ASSUME NEW s \in m.items PROVE status[f][s] = "ABSENT" \/ Returning(f, s)
    BY <1>7 DEF CanArrive, m
  <2>2. Carried(t, s) /\ ~Arriving(t, s) /\ s \in Serials /\ OnePlace(s)
    BY <1>1, <1>2, <1>5, <1>6, <1>7, MessageCarries DEF AllInOnePlace, t
  <2>3. ~At(f, s)
    BY <2>2, <1>6 DEF OnePlace
  <2>4. ASSUME NEW u \in Transfers, Source[u] = f, Carried(u, s) PROVE FALSE
    BY <1>6, <2>1, <2>2, <2>4, RouteAssumption DEF OnePlace
  <2>5. ASSUME NEW u \in Transfers, Dest[u] = f, Arriving(u, s) PROVE FALSE
    <3>1. Carried(u, s)
      BY <2>5 DEF Carried
    <3> QED
      BY <1>6, <2>2, <2>5, <3>1 DEF OnePlace
  <2>6. ASSUME NEW u \in Transfers, Source[u] = f, Receipted(u, s) PROVE FALSE
    <3>1. CASE Holds(queue[f], "RECEIVED", u, s)
      <4>1. PICK n \in ToSet(queue[f]) : n.type = "RECEIVED" /\ s \in n.items
        BY <3>1 DEF Holds, Carries
      <4>2. n \in ToSet(Tail(queue[f])) /\ Follows(m, n)
        BY <1>4, <1>7, <4>1 DEF Follows
      <4> QED
        BY <1>4, <4>2
    <3>2. CASE Holds(sent[Dest[u]], "RECEIVED", u, s)
      <4>1. PICK n \in ToSet(sent[Dest[u]]) : n.type = "RECEIVED" /\ s \in n.items
        BY <3>2 DEF Holds, Carries
      <4>2. ~At(Dest[u], s)
        BY <1>2, <1>6, <2>2 DEF OnePlace
      <4>3. PICK v \in Transfers : Holds(sent[Dest[u]], "DISPATCHED", v, s)
        BY <1>2, <4>1, <4>2 DEF ReceiptsComeFirst
      <4>4. PICK k \in ToSet(sent[Dest[u]]) : k.type = "DISPATCHED" /\ k.transfer = v /\ s \in k.items
        BY <4>3 DEF Holds, Carries
      <4>5. k \in OnTheirWay
        BY <1>2, <1>3, <4>4
      <4>6. Carried(v, s)
        BY <1>1, <4>4, <4>5, MessageCarries
      <4>7. v = t
        BY <1>6, <2>2, <4>6 DEF OnePlace
      <4>8. Repeats(k, m)
        BY <1>7, <4>4, <4>7 DEF Repeats, t
      <4> QED
        BY <1>2, <1>5, <4>4, <4>8 DEF NoRepeats
    <3> QED
      BY <2>6, <3>1, <3>2 DEF Receipted
  <2> QED
    BY <1>2, <2>2, <2>3, <2>4, <2>5, <2>6 DEF SerialsAreKnown, Known, Unsettled
<1>8. CASE m.type = "RECEIVED"
  <2>1. m.items \subseteq inReceived[t] /\ inReceived[t] \subseteq inItems[t]
    BY <1>2, <1>5, <1>6, <1>8 DEF ReceiptsAreTrue, InStages, t
  <2>2. in[t] # "NONE" /\ Dispatched(t) /\ inItems[t] = outItems[t]
    BY <1>2, <1>6, <2>1 DEF InStages, ManifestIsKept
  <2>3. CanSettle(m)
    BY <2>1, <2>2 DEF CanSettle, Dispatched, t
  <2> QED
    BY <1>8, <2>3 DEF m
<1> QED
  BY <1>6, <1>7, <1>8

\* What source and destination agree on, while at most one commit overtakes a
\* request, about every transfer that is not raced.
THEOREM AgreementInductive == OneOvertakes => (Spec => []AgreementInv)
<1> SUFFICES ASSUME OneOvertakes PROVE Spec => []AgreementInv
  OBVIOUS
<1>1. AgreementInv /\ [Next]_vars => AgreementInv'
  BY AgreementStep
<1> QED
  BY <1>1, AgreementInit, PTL DEF Spec

\* A transfer is RECEIVED at the source only when the destination has received
\* all of it (apply_transfer_receipt_command, finalize_inbound_receipt), unless it
\* was edited after its dispatch or dispatched with other items than it had by then
\* (add_outbound_serial, remove_outbound_serial, dispatch_outbound_transfer).
THEOREM CompletenessAgrees == OneOvertakes => (Spec => []CompleteAgrees)
<1>1. AgreementInv => CompleteAgrees
  BY DEF AgreementInv
<1> QED
  BY <1>1, AgreementInductive, PTL

\* While no transfer is raced, a franchise refuses a command only for the way it
\* describes the product (_reactivate_returning_serial, _materialize_product,
\* apply_transfer_receipt_command).
THEOREM QueuesAreNeverBlocked == OneOvertakes => (Spec => []NeverBlocked)
<1> QED
  BY AgreementBlocksNone, AgreementInductive, PTL
=============================================================================
