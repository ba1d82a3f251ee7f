-------------------------- MODULE WarehouseProofs --------------------------
(***************************************************************************)
(* Proofs about Warehouse, for any serials, locations, clerks and items of *)
(* a move, in either mode, and any number of requests that overtake each   *)
(* other.                                                                  *)
(***************************************************************************)
EXTENDS Warehouse, TLAPS

MoveRequests ==
    [op : {"move"}, dest : Locations, first : Items, second : Items \cup {None},
     set : SUBSET Serials, overtaken : 0..MaxOvertaken]
DeleteRequests == [op : {"delete"}, overtaken : 0..MaxOvertaken]
ShelfRequests ==
    [op : {"shelf"}, old : Serials, dest : Locations, loc : Places,
     changed : BOOLEAN, overtaken : 0..MaxOvertaken]
ReplaceRequests ==
    [op : {"replace"}, old : Serials, new : Serials, expected : Replaceable,
     loc : Places, changed : BOOLEAN, overtaken : 0..MaxOvertaken]

LEMMA RequestKinds ==
    Requests = {NoRequest} \cup MoveRequests \cup DeleteRequests
               \cup ShelfRequests \cup ReplaceRequests
BY DEF Requests, MoveRequests, DeleteRequests, ShelfRequests, ReplaceRequests

\* The operation of a request tells its kind.
LEMMA KindOfRequest ==
    ASSUME NEW r \in Requests
    PROVE  /\ r # NoRequest => r.op # "none"
           /\ r.op = "none" => r = NoRequest
           /\ r.op = "move" => r \in MoveRequests
           /\ r.op = "delete" => r \in DeleteRequests
           /\ r.op = "shelf" => r \in ShelfRequests
           /\ r.op = "replace" => r \in ReplaceRequests
           /\ r.op \in {"none", "move", "delete", "shelf", "replace"}
<1>1. CASE r = NoRequest
  BY <1>1 DEF NoRequest
<1>2. CASE r \in MoveRequests
  BY <1>2 DEF MoveRequests
<1>3. CASE r \in DeleteRequests
  BY <1>3 DEF DeleteRequests
<1>4. CASE r \in ShelfRequests
  BY <1>4 DEF ShelfRequests
<1>5. CASE r \in ReplaceRequests
  BY <1>5 DEF ReplaceRequests
<1> QED
  BY <1>1, <1>2, <1>3, <1>4, <1>5, RequestKinds

\* A request that another one has overtaken is still the same request; one that
\* writes a row notes when the row has changed.
LEMMA OvertakenTyped ==
    ASSUME NEW r \in Requests, r # NoRequest, r.overtaken < MaxOvertaken
    PROVE  /\ Overtaken(r) \in Requests
           /\ Overtaken(r).op = r.op
           /\ r.op \in {"shelf", "replace"} =>
                 /\ Overtaken(r).old = r.old /\ Overtaken(r).loc = r.loc
                 /\ ~Overtaken(r).changed =>
                       ~r.changed /\ serial'[r.old] = serial[r.old]
           /\ r.op = "replace" =>
                 Overtaken(r).new = r.new /\ Overtaken(r).expected = r.expected
           /\ r.op = "move" =>
                 Overtaken(r) = [r EXCEPT !.overtaken = @ + 1]
<1>1. CASE r \in MoveRequests
  <2>1. r.overtaken + 1 \in 0..MaxOvertaken
    BY <1>1, WarehouseBoundsAssumption DEF MoveRequests
  <2>2. Overtaken(r) = [r EXCEPT !.overtaken = @ + 1] /\ r.op = "move"
    BY <1>1 DEF MoveRequests, Overtaken
  <2>3. Overtaken(r) \in MoveRequests /\ Overtaken(r).op = r.op
    BY <1>1, <2>1, <2>2 DEF MoveRequests
  <2> QED
    BY <2>2, <2>3, RequestKinds
<1>2. CASE r \in DeleteRequests
  <2>1. r.overtaken + 1 \in 0..MaxOvertaken
    BY <1>2, WarehouseBoundsAssumption DEF DeleteRequests
  <2>2. Overtaken(r) = [r EXCEPT !.overtaken = @ + 1] /\ r.op = "delete"
    BY <1>2 DEF DeleteRequests, Overtaken
  <2>3. Overtaken(r) \in DeleteRequests /\ Overtaken(r).op = r.op
    BY <1>2, <2>1, <2>2 DEF DeleteRequests
  <2> QED
    BY <2>2, <2>3, RequestKinds
<1>3. CASE r \in ShelfRequests \cup ReplaceRequests
  <2> DEFINE late == r.overtaken + 1
             dirty == r.changed \/ serial'[r.old] # serial[r.old]
             next == [r EXCEPT !.overtaken = late, !.changed = dirty]
  <2>1. late \in 0..MaxOvertaken
    BY <1>3, WarehouseBoundsAssumption DEF ShelfRequests, ReplaceRequests
  <2>2. dirty \in BOOLEAN
    BY Zenon
  <2>3. Overtaken(r) = next
    BY <1>3 DEF ShelfRequests, ReplaceRequests, Overtaken
  <2>4. next.changed = dirty
    BY <1>3 DEF ShelfRequests, ReplaceRequests
  <2> HIDE DEF late, dirty
  <2>5. CASE r \in ShelfRequests
    <3>1. next \in ShelfRequests /\ next.op = "shelf" /\ r.op = "shelf"
          /\ next.old = r.old /\ next.loc = r.loc
      BY <2>1, <2>2, <2>5 DEF ShelfRequests
    <3> HIDE DEF next
    <3>2. ~next.changed => ~r.changed /\ serial'[r.old] = serial[r.old]
      BY <2>4 DEF dirty
    <3> QED
      BY <2>3, <3>1, <3>2, RequestKinds
  <2>6. CASE r \in ReplaceRequests
    <3>1. /\ next \in ReplaceRequests /\ next.op = "replace" /\ r.op = "replace"
          /\ next.old = r.old /\ next.loc = r.loc
          /\ next.new = r.new /\ next.expected = r.expected
      BY <2>1, <2>2, <2>6 DEF ReplaceRequests
    <3> HIDE DEF next
    <3>2. ~next.changed => ~r.changed /\ serial'[r.old] = serial[r.old]
      BY <2>4 DEF dirty
    <3> QED
      BY <2>3, <3>1, <3>2, RequestKinds
  <2> QED
    BY <1>3, <2>5, <2>6
<1> QED
  BY <1>1, <1>2, <1>3, RequestKinds

\* Whoever commits, the requests that go on waiting fit the rows they have loaded.
LEMMA CommitKeepsRequests ==
    ASSUME TypeOK, RequestsFit, NEW c, Commit(c),
           \A s \in Serials : Exists(s) => Exists(s)'
    PROVE  open' \in [Actors -> Requests] /\ RequestsFit'
<1>1. \A d \in Actors : open[d] \in Requests
  BY DEF TypeOK
<1>2. \A d \in Waiting(c) : d \in Actors /\ open[d] # NoRequest /\ open[d].overtaken < MaxOvertaken
  BY DEF Commit, Waiting
<1>3. \A d \in Actors :
         open'[d] = IF d \in Waiting(c) THEN Overtaken(open[d])
                    ELSE IF d = c THEN NoRequest ELSE open[d]
  BY DEF Commit
<1>4. \A d \in Actors : d \notin Waiting(c) => open'[d] = NoRequest
  BY <1>3 DEF Waiting
<1>5. NoRequest \in Requests /\ NoRequest.op = "none"
  BY RequestKinds DEF NoRequest
<1>6. open' \in [Actors -> Requests]
  <2>1. \A d \in Actors : open'[d] \in Requests
    BY <1>1, <1>2, <1>3, <1>4, <1>5, OvertakenTyped
  <2> QED
    BY <2>1 DEF Commit
<1>7. ASSUME NEW d \in Actors
      PROVE  LET r == open'[d]
             IN  /\ r.op \in {"shelf", "replace"} => serial'[r.old].status # "NONE"
                 /\ r.op \in {"shelf", "replace"} /\ ~r.changed => serial'[r.old].loc = r.loc
                 /\ r.op = "replace" /\ ~r.changed =>
                       serial'[r.old].active /\ serial'[r.old].status = r.expected
                 /\ r.op = "replace" => r.old # r.new
  <2>1. CASE d \notin Waiting(c)
    BY <1>4, <1>5, <2>1
  <2>2. CASE d \in Waiting(c)
    <3> DEFINE r == open[d]
    <3>1. r \in Requests /\ r # NoRequest /\ r.overtaken < MaxOvertaken
      BY <1>1, <1>2, <2>2
    <3>2. open'[d] = Overtaken(r)
      BY <1>3, <2>2
    <3>3. /\ r.op \in {"shelf", "replace"} => Exists(r.old)
          /\ r.op \in {"shelf", "replace"} /\ ~r.changed => serial[r.old].loc = r.loc
          /\ r.op = "replace" /\ ~r.changed => Matches(r.old, r.expected)
          /\ r.op = "replace" => r.old # r.new
      BY DEF RequestsFit
    <3>4. r.op \in {"shelf", "replace"} => r.old \in Serials
      BY <3>1, KindOfRequest DEF ShelfRequests, ReplaceRequests
    <3> HIDE DEF r
    <3>5. CASE r.op \in {"shelf", "replace"}
      BY <3>1, <3>2, <3>3, <3>4, <3>5, OvertakenTyped DEF Exists, Matches
    <3>6. CASE r.op \notin {"shelf", "replace"}
      BY <3>1, <3>2, <3>6, OvertakenTyped
    <3> QED
      BY <3>5, <3>6
  <2> QED
    BY <2>1, <2>2
<1> QED
  BY <1>6, <1>7 DEF RequestsFit, Exists, Matches

\* A request that starts to wait, or gives up, leaves the others as they are.
LEMMA OpenKeepsRequests ==
    ASSUME TypeOK, RequestsFit, NEW c \in Actors, NEW r \in Requests,
           open' = [open EXCEPT ![c] = r], serial' = serial,
           /\ r.op \in {"shelf", "replace"} => Exists(r.old)
           /\ r.op \in {"shelf", "replace"} /\ ~r.changed => serial[r.old].loc = r.loc
           /\ r.op = "replace" /\ ~r.changed => Matches(r.old, r.expected)
           /\ r.op = "replace" => r.old # r.new
    PROVE  open' \in [Actors -> Requests] /\ RequestsFit'
<1>1. open' \in [Actors -> Requests]
  BY DEF TypeOK
<1>2. \A d \in Actors : open'[d] = IF d = c THEN r ELSE open[d]
  BY DEF TypeOK
<1> QED
  BY <1>1, <1>2 DEF RequestsFit, Exists, Matches

-----------------------------------------------------------------------------
Typed ==
    /\ serial \in [Serials -> Rows]
    /\ trail \in [Serials -> Trails]
    /\ told \in [Serials -> Places \cup {Gone}]
    /\ unitOf \in [Serials -> Serials]
    /\ place \in [Serials -> Places \cup {Gone}]
    /\ raced \subseteq Serials

LEMMA TypedOK == TypeOK => Typed
BY DEF TypeOK, Typed

\* Steps that leave serials and their units alone.
LEMMA SameStock ==
    ASSUME IInv, UNCHANGED <<mode, stockVars>>
    PROVE  Typed' /\ StockInv'
BY DEF IInv, TypeOK, Typed, StockInv, TrailChains, StockIsWhereItSays, MasterKnowsPlace,
       UnusedIsBlank, UnitsExist, OneActiveLabel, LegacyIsSilent, stockVars, Unused, Exists

\* New labels are blank rows until now, each on a unit of its own.
LEMMA AddLabelsKeepsStock ==
    ASSUME IInv, mode' = mode, NEW set \in SUBSET Serials,
           NEW status \in Statuses \ {"NONE"}, AddLabels(set, status)
    PROVE  Typed' /\ StockInv' /\ \A s \in Serials : Exists(s) => Exists(s)'
<1> DEFINE row == NewRow(status, None)
<1>1. row \in Rows /\ row.status # "NONE" /\ row.loc = None /\ row.status = status
  BY DEF NewRow, Rows, Places
<1>2. /\ serial' = [s \in Serials |-> IF s \in set THEN row ELSE serial[s]]
      /\ place' = [s \in Serials |->
                     IF s \in set /\ status \in Stocked THEN None ELSE place[s]]
      /\ UNCHANGED <<trail, told, unitOf, raced>>
      /\ set \subseteq Serials
      /\ \A s \in set : serial[s] = NoRow /\ trail[s] = TrailFrom(None) /\ told[s] = Gone
                        /\ unitOf[s] = s
  BY DEF AddLabels, IInv, StockInv, UnusedIsBlank, Unused
<1>3. Typed /\ StockInv
  BY TypedOK DEF IInv
<1>4. NoRow.status = "NONE" /\ ~NoRow.active /\ TrailFrom(None).end = None
      /\ TrailFrom(None).whole
  BY DEF NoRow, TrailFrom
<1> HIDE DEF row
<1>5. Typed'
  BY <1>1, <1>2, <1>3 DEF Typed, Places
<1>6. \A s \in Serials : Exists(s) => Exists(s)'
  BY <1>1, <1>2, <1>3 DEF Exists, Typed
<1>7. TrailChains'
  BY <1>1, <1>2, <1>3, <1>4 DEF TrailChains, StockInv, Typed
<1>8. StockIsWhereItSays'
  <2>1. \A s \in Serials \ set : unitOf[s] \in set => ~serial[s].active
    BY <1>2, <1>3, <1>4 DEF StockInv, UnitsExist, UnusedIsBlank, Unused, Exists, Typed
  <2> QED
    BY <1>1, <1>2, <1>3, <2>1 DEF StockIsWhereItSays, StockInv, Typed
<1>9. MasterKnowsPlace'
  BY <1>1, <1>2, <1>3 DEF MasterKnowsPlace, StockInv, Typed
<1>10. UnusedIsBlank'
  BY <1>1, <1>2, <1>3 DEF UnusedIsBlank, StockInv, Typed, Unused, Exists
<1>11. UnitsExist'
  BY <1>1, <1>2, <1>3 DEF UnitsExist, StockInv, Typed, Exists
<1>12. OneActiveLabel'
  <2>1. \A s \in Serials \ set : unitOf[s] \in set => ~serial[s].active
    BY <1>2, <1>3, <1>4 DEF StockInv, UnitsExist, UnusedIsBlank, Unused, Exists, Typed
  <2> QED
    BY <1>1, <1>2, <1>3, <2>1 DEF OneActiveLabel, StockInv, Typed
<1>13. LegacyIsSilent'
  BY <1>2, <1>3 DEF LegacyIsSilent, StockInv
<1> QED
  BY <1>5, <1>6, <1>7, <1>8, <1>9, <1>10, <1>11, <1>12, <1>13 DEF StockInv

\* A batch moves an active label, which alone stands for its unit.
LEMMA SubmitKeepsStock ==
    ASSUME IInv, NEW s \in Serials, NEW t \in Transitions, SubmitBatch(s, t)
    PROVE  Typed' /\ StockInv' /\ \A x \in Serials : Exists(x) => Exists(x)'
<1>1. t[2] \in Statuses \ {"NONE"}
  BY DEF Transitions, Statuses
<1>2. Typed /\ StockInv
  BY TypedOK DEF IInv
<1> DEFINE row == [serial[s] EXCEPT !.status = t[2]]
           there == IF t[2] \in Stocked THEN serial[s].loc ELSE Gone
<1>3. row \in Rows /\ row.status = t[2] /\ row.active /\ row.loc = serial[s].loc
  BY <1>1, <1>2 DEF Typed, Rows, SubmitBatch
<1>4. serial[s].loc \in Places
  BY <1>2 DEF Typed, Rows
<1>5. /\ serial[s].active /\ serial[s].status = t[1] /\ Exists(s)
      /\ serial' = [serial EXCEPT ![s] = row]
      /\ place' = [place EXCEPT ![unitOf[s]] = there]
      /\ told' = IF mode = "lite" THEN [told EXCEPT ![s] = serial[s].loc] ELSE told
      /\ UNCHANGED <<mode, trail, unitOf, raced>>
  BY DEF SubmitBatch, Transitions, Exists
<1>6. there \in Places \cup {Gone}
  BY <1>4
<1> HIDE DEF row, there
<1>7. Typed'
  BY <1>2, <1>3, <1>4, <1>5, <1>6 DEF Typed
<1>8. \A x \in Serials : serial'[x] = IF x = s THEN row ELSE serial[x]
  BY <1>2, <1>5 DEF Typed
<1>9. \A x \in Serials : Exists(x)' <=> Exists(x)
  BY <1>1, <1>3, <1>5, <1>8 DEF Exists
<1>10. TrailChains'
  BY <1>2, <1>3, <1>5, <1>8 DEF TrailChains, StockInv, Typed
<1>11. StockIsWhereItSays'
  <2> SUFFICES ASSUME NEW x \in Serials, serial'[x].active, serial'[x].status \in Stocked,
                      unitOf[x] \notin raced
               PROVE  place'[unitOf[x]] = serial'[x].loc
    BY <1>5 DEF StockIsWhereItSays
  <2>1. unitOf[s] \in Serials /\ unitOf[x] \in Serials
    BY <1>2 DEF Typed
  <2>2. CASE x = s
    <3>1. there = serial[s].loc
      BY <1>3, <1>8, <2>2 DEF there
    <3> QED
      BY <1>2, <1>3, <1>5, <1>8, <2>1, <2>2, <3>1 DEF Typed
  <2>3. CASE x # s
    <3>1. serial[x].active /\ serial[x].status \in Stocked /\ serial'[x] = serial[x]
      BY <1>8, <2>3
    <3>2. unitOf[x] # unitOf[s]
      BY <1>2, <1>5, <2>3, <3>1 DEF StockInv, OneActiveLabel
    <3> QED
      BY <1>2, <1>5, <2>1, <3>1, <3>2 DEF StockInv, StockIsWhereItSays, Typed
  <2> QED
    BY <2>2, <2>3
<1>12. MasterKnowsPlace'
  BY <1>2, <1>3, <1>5, <1>8 DEF MasterKnowsPlace, StockInv, Typed
<1>13. UnusedIsBlank'
  BY <1>2, <1>5, <1>8, <1>9 DEF UnusedIsBlank, StockInv, Typed, Unused
<1>14. UnitsExist'
  BY <1>2, <1>5, <1>9 DEF UnitsExist, StockInv, Typed
<1>15. OneActiveLabel'
  BY <1>2, <1>3, <1>5, <1>8 DEF OneActiveLabel, StockInv
<1>16. LegacyIsSilent'
  BY <1>2, <1>5 DEF LegacyIsSilent, StockInv
<1> QED
  BY <1>7, <1>9, <1>10, <1>11, <1>12, <1>13, <1>14, <1>15, <1>16 DEF StockInv

\* A shelf scan places the unit of its label, and a unit it places under a row
\* that has changed or is retired is one of the raced ones.
LEMMA ShelfKeepsStock ==
    ASSUME IInv, NEW c \in Actors, VerifyOnShelf(c)
    PROVE  Typed' /\ StockInv' /\ \A x \in Serials : Exists(x) => Exists(x)'
<1> DEFINE r == open[c]
           s == r.old
           row == [serial[s] EXCEPT !.loc = r.dest]
           there == IF place[unitOf[s]] = Gone THEN Gone ELSE r.dest
<1>1. r \in ShelfRequests
  BY KindOfRequest DEF IInv, TypeOK, VerifyOnShelf
<1>2. s \in Serials /\ r.dest \in Places /\ r.loc \in Places /\ r.dest # Gone
  BY <1>1, WarehouseAssumption DEF ShelfRequests, Places
<1>3. Typed /\ StockInv
  BY TypedOK DEF IInv
<1>4. /\ Exists(s)
      /\ ~r.changed => serial[s].loc = r.loc
  BY DEF IInv, RequestsFit, VerifyOnShelf
<1>5. row \in Rows /\ row.status = serial[s].status /\ row.active = serial[s].active
      /\ row.loc = r.dest
  BY <1>2, <1>3 DEF Typed, Rows
<1>6. /\ serial' = [serial EXCEPT ![s].loc = IF r.loc = r.dest THEN @ ELSE r.dest]
      /\ trail' = [trail EXCEPT ![s] = Recorded(s, r.loc, r.dest)]
      /\ told' = [told EXCEPT ![s] = Gone]
      /\ place' = [place EXCEPT ![unitOf[s]] = there]
      /\ raced' = IF r.changed \/ ~serial[s].active THEN raced \cup {unitOf[s]} ELSE raced
      /\ UNCHANGED <<mode, unitOf>>
  BY DEF VerifyOnShelf
<1>7. serial' = IF r.loc = r.dest THEN serial ELSE [serial EXCEPT ![s] = row]
  <2>1. CASE r.loc = r.dest
    BY <1>2, <1>3, <1>6, <2>1 DEF Typed, Rows
  <2>2. CASE r.loc # r.dest
    BY <1>2, <1>3, <1>6, <2>2 DEF Typed, Rows
  <2> QED
    BY <2>1, <2>2
<1>8. /\ Recorded(s, r.loc, r.dest) \in Trails
      /\ Recorded(s, r.loc, r.dest).end = r.dest
      /\ Recorded(s, r.loc, r.dest).whole = (trail[s].whole /\ trail[s].end = r.loc)
  <2>1. (trail[s].whole /\ trail[s].end = r.loc) \in BOOLEAN
    BY Zenon
  <2> QED
    BY <1>2, <2>1 DEF Recorded, Trails
<1>9. there \in Places \cup {Gone}
  BY <1>2
<1> HIDE DEF row, there
<1>10. \A x \in Serials : serial'[x] = IF x = s /\ r.loc # r.dest THEN row ELSE serial[x]
  BY <1>2, <1>3, <1>7 DEF Typed
<1>11. Typed'
  BY <1>2, <1>3, <1>5, <1>6, <1>7, <1>8, <1>9 DEF Typed
<1>12. \A x \in Serials : Exists(x)' <=> Exists(x)
  BY <1>5, <1>10 DEF Exists
<1>13. unitOf[s] \notin raced' =>
          /\ serial[s].active /\ ~r.changed /\ unitOf[s] \notin raced
          /\ serial[s].loc = r.loc /\ serial'[s].loc = r.dest
  BY <1>2, <1>4, <1>5, <1>6, <1>10
<1>14. \A x \in Serials : unitOf[x] \notin raced' => unitOf[x] \notin raced
  BY <1>6
<1> HIDE DEF s
<1>15. TrailChains'
  <2> SUFFICES ASSUME NEW x \in Serials, unitOf[x] \notin raced'
               PROVE  trail'[x].whole /\ trail'[x].end = serial'[x].loc
    BY <1>6 DEF TrailChains
  <2>1. trail[x].whole /\ trail[x].end = serial[x].loc
    BY <1>3, <1>14 DEF StockInv, TrailChains
  <2>2. CASE x # s
    BY <1>3, <1>6, <1>10, <2>1, <2>2 DEF Typed
  <2>3. CASE x = s
    BY <1>3, <1>6, <1>8, <1>13, <2>1, <2>3 DEF Typed
  <2> QED
    BY <2>2, <2>3
<1>16. StockIsWhereItSays'
  <2> SUFFICES ASSUME NEW x \in Serials, serial'[x].active, serial'[x].status \in Stocked,
                      unitOf[x] \notin raced'
               PROVE  place'[unitOf[x]] = serial'[x].loc
    BY <1>6 DEF StockIsWhereItSays
  <2>1. /\ serial[x].active /\ serial[x].status \in Stocked /\ unitOf[x] \notin raced
        /\ unitOf[x] \in Serials /\ unitOf[s] \in Serials
    BY <1>2, <1>3, <1>5, <1>10, <1>14 DEF Typed
  <2>2. place[unitOf[x]] = serial[x].loc
    BY <1>3, <2>1 DEF StockInv, StockIsWhereItSays
  <2>3. CASE x = s
    <3>1. place[unitOf[s]] \in Places
      BY <1>2, <1>3, <2>2, <2>3 DEF Typed, Rows
    <3>2. there = r.dest
      BY <3>1, WarehouseAssumption DEF there
    <3> QED
      BY <1>3, <1>6, <1>13, <2>1, <2>3, <3>2 DEF Typed
  <2>4. CASE x # s
    <3>1. unitOf[x] # unitOf[s]
      BY <1>2, <1>3, <1>13, <2>1, <2>4 DEF StockInv, OneActiveLabel
    <3> QED
      BY <1>3, <1>6, <1>10, <2>1, <2>2, <2>4, <3>1 DEF Typed
  <2> QED
    BY <2>3, <2>4
<1>17. MasterKnowsPlace'
  BY <1>3, <1>6, <1>10 DEF MasterKnowsPlace, StockInv, Typed
<1>18. UnusedIsBlank'
  BY <1>3, <1>4, <1>6, <1>10, <1>12 DEF UnusedIsBlank, StockInv, Typed, Unused
<1>19. UnitsExist'
  BY <1>3, <1>6, <1>12 DEF UnitsExist, StockInv, Typed
<1>20. OneActiveLabel'
  BY <1>3, <1>5, <1>6, <1>10, <1>14 DEF OneActiveLabel, StockInv
<1>21. LegacyIsSilent'
  BY <1>3, <1>6 DEF LegacyIsSilent, StockInv, Typed
<1> QED
  BY <1>11, <1>12, <1>15, <1>16, <1>17, <1>18, <1>19, <1>20, <1>21 DEF StockInv

\* What a move picks for an item is stock at the place the item names.
LEMMA PicksAreThere ==
    ASSUME NEW rows, NEW item
    PROVE  \A s \in Picks(rows, item) :
              /\ s \in Serials /\ rows[s].active /\ rows[s].status \in Movable
              /\ rows[s].loc = item.from
BY DEF Picks, Candidates

\* A move takes active labels from where they are, one of each unit, and takes
\* their units along.
LEMMA MoveKeepsStock ==
    ASSUME IInv, NEW c \in Actors, RelocateStock(c)
    PROVE  Typed' /\ StockInv' /\ \A x \in Serials : Exists(x) <=> Exists(x)'
<1> DEFINE r == open[c]
           dest == r.dest
           rows == MovedTo(serial, r.set, dest)
           more == IF r.second = None THEN {} ELSE Picks(rows, r.second)
           moved == r.set \cup more
           source(s) == IF s \in r.set THEN r.first.from ELSE r.second.from
           row(s) == [serial[s] EXCEPT !.loc = dest]
<1>1. r \in MoveRequests
  BY KindOfRequest DEF IInv, TypeOK, RelocateStock
<1>2. r.set \subseteq Serials /\ dest \in Places
  BY <1>1 DEF MoveRequests, Places
<1>3. Typed /\ StockInv
  BY TypedOK DEF IInv
<1>4. /\ Claimed(r.set, r.first)
      /\ serial' = MovedTo(rows, more, dest)
      /\ trail' = [s \in Serials |->
                     IF s \in moved THEN Recorded(s, source(s), dest) ELSE trail[s]]
      /\ told' = [s \in Serials |->
                    IF mode = "lite" /\ s \in moved THEN Snapshot(s, dest) ELSE told[s]]
      /\ place' = [u \in Serials |->
                     IF \E s \in moved : unitOf[s] = u THEN dest ELSE place[u]]
      /\ UNCHANGED <<mode, unitOf, raced>>
  BY DEF RelocateStock
<1>5. \A s \in Serials : rows[s] = IF s \in r.set THEN row(s) ELSE serial[s]
  BY DEF MovedTo
<1>6. \A s \in more : s \in Serials /\ rows[s].active /\ rows[s].status \in Movable
                      /\ rows[s].loc = r.second.from
  BY PicksAreThere
<1>7. \A s \in Serials : row(s) \in Rows /\ row(s).loc = dest
                         /\ row(s).active = serial[s].active /\ row(s).status = serial[s].status
  BY <1>2, <1>3 DEF Typed, Rows
<1>8. \A s \in moved : /\ s \in Serials /\ serial[s].active /\ serial[s].status \in Movable
                       /\ serial[s].loc = source(s)
  <2> SUFFICES ASSUME NEW s \in moved
               PROVE  /\ s \in Serials /\ serial[s].active /\ serial[s].status \in Movable
                      /\ serial[s].loc = source(s)
    OBVIOUS
  <2> HIDE DEF row, rows, more, r
  <2>1. CASE s \in r.set
    BY <1>2, <1>4, <2>1 DEF Claimed
  <2>2. CASE s \notin r.set
    <3>1. s \in more
      BY <2>2
    <3> QED
      BY <1>5, <1>6, <2>2, <3>1
  <2> QED
    BY <2>1, <2>2
<1>9. \A s \in Serials : serial'[s] = IF s \in moved THEN row(s) ELSE serial[s]
  <2> SUFFICES ASSUME NEW s \in Serials
               PROVE  serial'[s] = IF s \in moved THEN row(s) ELSE serial[s]
    OBVIOUS
  <2>1. serial'[s] = IF s \in more THEN [rows[s] EXCEPT !.loc = dest] ELSE rows[s]
    BY <1>4 DEF MovedTo
  <2>2. [row(s) EXCEPT !.loc = dest] = row(s)
    BY <1>3 DEF Typed, Rows
  <2> HIDE DEF row, rows, more, r
  <2>3. CASE s \in more /\ s \in r.set
    BY <1>5, <2>1, <2>2, <2>3
  <2>4. CASE s \in more /\ s \notin r.set
    <3>1. rows[s] = serial[s]
      BY <1>5, <2>4
    <3> QED
      BY <2>1, <2>4, <3>1 DEF row
  <2>5. CASE s \notin more
    BY <1>5, <2>1, <2>5
  <2> QED
    BY <2>3, <2>4, <2>5
<1> HIDE DEF row, rows, more, moved, source, dest, r
<1>10. \A s \in moved : /\ Recorded(s, source(s), dest) \in Trails
                        /\ Recorded(s, source(s), dest).end = dest
                        /\ Recorded(s, source(s), dest).whole
                              = (trail[s].whole /\ trail[s].end = source(s))
  <2> SUFFICES ASSUME NEW s \in moved
               PROVE  /\ Recorded(s, source(s), dest) \in Trails
                      /\ Recorded(s, source(s), dest).end = dest
                      /\ Recorded(s, source(s), dest).whole
                            = (trail[s].whole /\ trail[s].end = source(s))
    OBVIOUS
  <2>1. (trail[s].whole /\ trail[s].end = source(s)) \in BOOLEAN
    BY Zenon
  <2> QED
    BY <1>2, <2>1 DEF Recorded, Trails
<1>11. Typed'
  <2>1. serial' \in [Serials -> Rows]
    <3>1. serial' = [s \in Serials |-> serial'[s]]
      BY <1>4 DEF MovedTo
    <3> QED
      BY <1>3, <1>7, <1>9, <3>1 DEF Typed
  <2>2. trail' \in [Serials -> Trails]
    BY <1>3, <1>4, <1>10 DEF Typed
  <2>3. told' \in [Serials -> Places \cup {Gone}]
    BY <1>2, <1>3, <1>4 DEF Typed, Snapshot
  <2>4. place' \in [Serials -> Places \cup {Gone}]
    BY <1>2, <1>3, <1>4 DEF Typed
  <2> QED
    BY <1>3, <1>4, <2>1, <2>2, <2>3, <2>4 DEF Typed
<1>12. \A x \in Serials : /\ serial'[x].active = serial[x].active
                          /\ serial'[x].status = serial[x].status
  BY <1>7, <1>9
<1>13. \A x \in Serials : Exists(x)' <=> Exists(x)
  BY <1>12 DEF Exists
<1>14. TrailChains'
  <2> SUFFICES ASSUME NEW x \in Serials, unitOf[x] \notin raced
               PROVE  trail'[x].whole /\ trail'[x].end = serial'[x].loc
    BY <1>4 DEF TrailChains
  <2>1. trail[x].whole /\ trail[x].end = serial[x].loc
    BY <1>3 DEF StockInv, TrailChains
  <2>2. CASE x \in moved
    BY <1>4, <1>7, <1>8, <1>9, <1>10, <2>1, <2>2
  <2>3. CASE x \notin moved
    BY <1>4, <1>9, <2>1, <2>3
  <2> QED
    BY <2>2, <2>3
<1>15. StockIsWhereItSays'
  <2> SUFFICES ASSUME NEW x \in Serials, serial'[x].active, serial'[x].status \in Stocked,
                      unitOf[x] \notin raced
               PROVE  place'[unitOf[x]] = serial'[x].loc
    BY <1>4 DEF StockIsWhereItSays
  <2>1. serial[x].active /\ serial[x].status \in Stocked /\ unitOf[x] \in Serials
    BY <1>3, <1>12 DEF Typed
  <2>2. CASE x \in moved
    BY <1>4, <1>7, <1>9, <2>1, <2>2
  <2>3. CASE x \notin moved
    <3>1. ~\E s \in moved : unitOf[s] = unitOf[x]
      BY <1>3, <1>8, <2>1, <2>3 DEF StockInv, OneActiveLabel
    <3> QED
      BY <1>3, <1>4, <1>9, <2>1, <2>3, <3>1 DEF StockInv, StockIsWhereItSays
  <2> QED
    BY <2>2, <2>3
<1>16. MasterKnowsPlace'
  <2> SUFFICES ASSUME NEW x \in Serials, told'[x] # Gone PROVE told'[x] = serial'[x].loc
    BY DEF MasterKnowsPlace
  <2>1. told[x] # Gone => told[x] = serial[x].loc /\ mode # "legacy"
    BY <1>3 DEF StockInv, MasterKnowsPlace, LegacyIsSilent
  <2>2. mode \in {"lite", "legacy"}
    BY DEF IInv, TypeOK
  <2> QED
    BY <1>4, <1>7, <1>9, <2>1, <2>2 DEF Snapshot
<1>17. UnusedIsBlank'
  <2>1. \A x \in Serials : ~Exists(x) => x \notin moved
    BY <1>8 DEF Movable, Exists
  <2> QED
    BY <1>3, <1>4, <1>9, <1>13, <2>1 DEF UnusedIsBlank, StockInv, Unused
<1>18. UnitsExist'
  BY <1>3, <1>4, <1>13 DEF UnitsExist, StockInv, Typed
<1>19. OneActiveLabel'
  BY <1>3, <1>4, <1>12 DEF OneActiveLabel, StockInv
<1>20. LegacyIsSilent'
  BY <1>3, <1>4 DEF LegacyIsSilent, StockInv
<1> QED
  BY <1>11, <1>13, <1>14, <1>15, <1>16, <1>17, <1>18, <1>19, <1>20 DEF StockInv

\* A replacement from a row that is as it was read takes the unit over from its
\* one active label.
LEMMA ReplaceKeepsStock ==
    ASSUME IInv, mode' = mode, NEW old \in Serials, NEW new \in Serials, old # new,
           NEW expected \in Replaceable, NEW loc \in Places, NEW changed \in BOOLEAN,
           Exists(old), ~Exists(new),
           ~changed => Matches(old, expected) /\ serial[old].loc = loc,
           Replace(old, new, expected, loc, changed)
    PROVE  Typed' /\ StockInv' /\ \A x \in Serials : Exists(x) => Exists(x)'
<1> DEFINE status == IF expected = "GENERATED" THEN expected ELSE "IN_STOCK"
           row == NewRow(status, loc)
           retired == [serial[old] EXCEPT !.status = "INVALID", !.active = FALSE,
                                          !.replacedBy = new]
<1>1. Typed /\ StockInv
  BY TypedOK DEF IInv
<1>2. row \in Rows /\ row.status = status /\ row.loc = loc /\ row.active
      /\ row.status # "NONE"
  BY DEF NewRow, Rows, Statuses
<1>3. retired \in Rows /\ ~retired.active /\ retired.loc = serial[old].loc
      /\ retired.status = "INVALID"
  <2>1. serial[old] \in Rows
    BY <1>1 DEF Typed
  <2> DEFINE first == [serial[old] EXCEPT !.status = "INVALID"]
             second == [first EXCEPT !.active = FALSE]
  <2>2. first \in Rows /\ first.status = "INVALID" /\ first.loc = serial[old].loc
    BY <2>1 DEF Rows, Statuses
  <2>3. retired = [second EXCEPT !.replacedBy = new]
    OBVIOUS
  <2> HIDE DEF first
  <2>4. second \in Rows /\ ~second.active /\ second.status = "INVALID"
        /\ second.loc = serial[old].loc
    BY <2>2 DEF Rows
  <2> HIDE DEF second, retired
  <2> QED
    BY <2>3, <2>4 DEF Rows
<1>4. serial' = [serial EXCEPT ![new] = row, ![old] = retired]
  BY <1>1 DEF Replace, Typed, Rows
<1>5. /\ unitOf' = [unitOf EXCEPT ![new] = unitOf[old]]
      /\ told' = IF mode = "lite"
                    THEN [told EXCEPT ![old] = serial[old].loc, ![new] = loc]
                    ELSE told
      /\ raced' = IF changed THEN raced \cup {unitOf[old]} ELSE raced
      /\ trail' = [trail EXCEPT ![new] = TrailFrom(loc)]
      /\ place' = place
  BY DEF Replace, Snapshot
<1>6. TrailFrom(loc) \in Trails /\ TrailFrom(loc).end = loc /\ TrailFrom(loc).whole
  BY DEF TrailFrom, Trails
<1>7. serial[old].loc \in Places /\ unitOf[old] \in Serials
  BY <1>1 DEF Typed, Rows
<1>8. status \in Stocked => expected \in Stocked
  BY DEF Replaceable, Stocked
<1> HIDE DEF row, retired, status
<1>9. \A x \in Serials : serial'[x] = IF x = new THEN row ELSE
                                      IF x = old THEN retired ELSE serial[x]
  BY <1>1, <1>4 DEF Typed
<1>10. Typed'
  BY <1>1, <1>2, <1>3, <1>4, <1>5, <1>6, <1>7 DEF Typed
<1>11. \A x \in Serials : Exists(x)' <=> Exists(x) \/ x = new
  BY <1>2, <1>3, <1>9 DEF Exists
<1>12. \A x \in Serials : unitOf'[x] = IF x = new THEN unitOf[old] ELSE unitOf[x]
  BY <1>1, <1>5 DEF Typed
<1>13. raced \subseteq raced' /\ (unitOf[old] \notin raced' => ~changed)
  BY <1>5
<1>14. unitOf[old] \notin raced' =>
          /\ unitOf[old] \notin raced /\ serial[old].active /\ serial[old].loc = loc
          /\ serial[old].status = expected
  BY <1>13 DEF Matches
<1>15. TrailChains'
  <2> SUFFICES ASSUME NEW x \in Serials, unitOf'[x] \notin raced'
               PROVE  trail'[x].whole /\ trail'[x].end = serial'[x].loc
    BY DEF TrailChains
  <2>1. CASE x = new
    BY <1>1, <1>2, <1>5, <1>6, <1>9, <2>1 DEF Typed
  <2>2. CASE x # new
    <3>1. trail[x].whole /\ trail[x].end = serial[x].loc
      BY <1>1, <1>12, <1>13, <2>2 DEF StockInv, TrailChains
    <3> QED
      BY <1>1, <1>3, <1>5, <1>9, <2>2, <3>1 DEF Typed
  <2> QED
    BY <2>1, <2>2
<1>16. StockIsWhereItSays'
  <2> SUFFICES ASSUME NEW x \in Serials, serial'[x].active, serial'[x].status \in Stocked,
                      unitOf'[x] \notin raced'
               PROVE  place'[unitOf'[x]] = serial'[x].loc
    BY DEF StockIsWhereItSays
  <2>1. CASE x = new
    <3>1. expected \in Stocked /\ unitOf[old] \notin raced'
      BY <1>2, <1>8, <1>9, <1>12, <2>1
    <3>2. place[unitOf[old]] = serial[old].loc
      BY <1>1, <1>14, <3>1 DEF StockInv, StockIsWhereItSays
    <3> QED
      BY <1>2, <1>5, <1>9, <1>12, <1>14, <2>1, <3>1, <3>2
  <2>2. CASE x # new
    <3>1. x # old
      BY <1>3, <1>9, <2>2
    <3>2. serial'[x] = serial[x] /\ unitOf'[x] = unitOf[x] /\ unitOf[x] \notin raced
      BY <1>9, <1>12, <1>13, <2>2, <3>1
    <3>3. place[unitOf[x]] = serial[x].loc
      BY <1>1, <3>2 DEF StockInv, StockIsWhereItSays
    <3> QED
      BY <1>5, <3>2, <3>3
  <2> QED
    BY <2>1, <2>2
<1>17. MasterKnowsPlace'
  BY <1>1, <1>2, <1>3, <1>5, <1>9 DEF MasterKnowsPlace, StockInv, Typed, UnusedIsBlank,
     Unused, LegacyIsSilent, IInv, TypeOK
<1>18. UnusedIsBlank'
  BY <1>1, <1>5, <1>9, <1>11, <1>12 DEF UnusedIsBlank, StockInv, Typed, Unused
<1>19. UnitsExist'
  BY <1>1, <1>11, <1>12 DEF UnitsExist, StockInv, Typed
<1>20. OneActiveLabel'
  <2> SUFFICES ASSUME NEW x \in Serials, NEW y \in Serials, serial'[x].active,
                      serial'[y].active, unitOf'[x] = unitOf'[y], unitOf'[x] \notin raced'
               PROVE  x = y
    BY DEF OneActiveLabel
  <2>1. x # old /\ y # old
    BY <1>3, <1>9
  <2>2. ASSUME NEW z \in Serials, z # old, z # new, serial'[z].active,
               unitOf'[z] = unitOf[old], unitOf[old] \notin raced'
        PROVE  FALSE
    <3>1. serial[z].active /\ unitOf[z] = unitOf[old]
      BY <1>9, <1>12, <2>2
    <3> QED
      BY <1>1, <1>14, <2>2, <3>1 DEF StockInv, OneActiveLabel
  <2>3. CASE x = new \/ y = new
    BY <1>12, <2>1, <2>2, <2>3
  <2>4. CASE x # new /\ y # new
    BY <1>1, <1>9, <1>12, <1>13, <2>1, <2>4 DEF StockInv, OneActiveLabel
  <2> QED
    BY <2>3, <2>4
<1>21. LegacyIsSilent'
  BY <1>1, <1>5 DEF LegacyIsSilent, StockInv
<1> QED
  BY <1>10, <1>11, <1>15, <1>16, <1>17, <1>18, <1>19, <1>20, <1>21 DEF StockInv

-----------------------------------------------------------------------------
Products == {"none", "same", "other", "inactive"}
Commands == [old : Serials, new : Serials, expected : Replaceable]

LEMMA TogetherIInv ==
    ASSUME Typed', StockInv', RequestsFit', LabelsHaveProduct',
           mode' \in {"lite", "legacy"}, product' \in Products, locations' \subseteq Locations,
           failed' \subseteq Commands, open' \in [Actors -> Requests]
    PROVE  IInv'
BY DEF IInv, TypeOK, Typed, Products, Commands

\* A commit that leaves the serials alone.
LEMMA QuietCommitIInv ==
    ASSUME IInv, NEW c, Commit(c), UNCHANGED <<mode, failed, stockVars>>,
           product' \in Products, locations' \subseteq Locations,
           product' = "none" => product = "none" \/ Unused = Serials
    PROVE  IInv'
<1>1. serial' = serial
  BY DEF stockVars
<1>2. \A s \in Serials : Exists(s) => Exists(s)'
  BY <1>1 DEF Exists
<1>3. open' \in [Actors -> Requests] /\ RequestsFit'
  BY <1>2, CommitKeepsRequests DEF IInv
<1>4. LabelsHaveProduct'
  BY <1>1 DEF LabelsHaveProduct, Unused, Exists, IInv
<1>5. Typed' /\ StockInv'
  BY SameStock
<1> QED
  BY <1>3, <1>4, <1>5, TogetherIInv DEF IInv, TypeOK, Commands

\* A request that starts to wait, or gives up.
LEMMA QuietOpenIInv ==
    ASSUME IInv, UNCHANGED <<mode, product, locations, failed, stockVars>>,
           open' \in [Actors -> Requests], RequestsFit'
    PROVE  IInv'
<1>1. serial' = serial
  BY DEF stockVars
<1>2. LabelsHaveProduct'
  BY <1>1 DEF LabelsHaveProduct, Unused, Exists, IInv
<1>3. Typed' /\ StockInv'
  BY SameStock
<1> QED
  BY <1>2, <1>3, TogetherIInv DEF IInv, TypeOK, Commands, Products

\* A commit that writes serials of a product that is there.
LEMMA StockCommitIInv ==
    ASSUME IInv, NEW c, Commit(c), mode' = mode, locations' = locations,
           failed' \subseteq Commands, product' \in Products,
           Typed', StockInv', \A x \in Serials : Exists(x) => Exists(x)',
           product' # "none"
    PROVE  IInv'
<1>1. open' \in [Actors -> Requests] /\ RequestsFit'
  BY CommitKeepsRequests DEF IInv
<1>2. LabelsHaveProduct'
  BY DEF LabelsHaveProduct
<1> QED
  BY <1>1, <1>2, TogetherIInv DEF IInv, TypeOK

\* A serial that is there has a product.
LEMMA ProductIsThere ==
    ASSUME IInv, NEW s \in Serials, Exists(s)
    PROVE  product # "none" /\ product \in Products
BY DEF IInv, LabelsHaveProduct, Unused, TypeOK, Products

LEMMA NoRequestFits ==
    ASSUME IInv, NEW c \in Actors, open' = [open EXCEPT ![c] = NoRequest],
           UNCHANGED <<mode, product, locations, failed, stockVars>>
    PROVE  IInv'
<1>1. NoRequest \in Requests /\ NoRequest.op = "none" /\ serial' = serial
  BY RequestKinds DEF NoRequest, stockVars
<1>2. open' \in [Actors -> Requests] /\ RequestsFit'
  BY <1>1, OpenKeepsRequests DEF IInv
<1> QED
  BY <1>2, QuietOpenIInv

\* Products.
LEMMA ProductIInv ==
    ASSUME IInv,
           \/ \E identity \in {"same", "other"} :
                 CreateProduct(identity) \/ UpdateProductPricing(identity)
           \/ \E active \in BOOLEAN : ApplyProductUpsert(active)
           \/ \E c \in Clerks : DeleteProduct(c)
    PROVE  IInv'
<1>1. product \in Products /\ locations \subseteq Locations
  BY DEF IInv, TypeOK, Products
<1>2. ASSUME NEW identity \in {"same", "other"}, CreateProduct(identity) PROVE IInv'
  BY <1>1, <1>2, QuietCommitIInv DEF CreateProduct, stockVars, Products
<1>3. ASSUME NEW identity \in {"same", "other"}, UpdateProductPricing(identity) PROVE IInv'
  BY <1>1, <1>3, QuietCommitIInv DEF UpdateProductPricing, stockVars, Products
<1>4. ASSUME NEW active \in BOOLEAN, ApplyProductUpsert(active) PROVE IInv'
  BY <1>1, <1>4, QuietCommitIInv DEF ApplyProductUpsert, stockVars, Products
<1>5. ASSUME NEW c \in Clerks, DeleteProduct(c) PROVE IInv'
  BY <1>1, <1>5, QuietCommitIInv DEF DeleteProduct, stockVars, Products
<1> QED
  BY <1>2, <1>3, <1>4, <1>5

\* Locations.
LEMMA LocationIInv ==
    ASSUME IInv, NEW l \in Locations, AddLocation(l) \/ ToggleLocation(l)
    PROVE  IInv'
<1>1. product \in Products /\ locations \subseteq Locations
  BY DEF IInv, TypeOK, Products
<1> QED
  BY <1>1, QuietCommitIInv DEF AddLocation, ToggleLocation, NewLocation, stockVars, Products

\* New labels.
LEMMA NewLabelsIInv ==
    ASSUME IInv, NEW set \in SUBSET Serials, NEW status \in Statuses \ {"NONE"},
           \/ ApplyQrAllocated(set) \/ BulkAssignment(set)
           \/ GenerateAssignment(set, status) \/ GenerateProductSerials(set, status)
    PROVE  IInv'
<1>1. product \in Products /\ failed \subseteq Commands
  BY DEF IInv, TypeOK, Products, Commands
<1>2. CASE ApplyQrAllocated(set)
  <2>1. /\ AddLabels(set, "GENERATED") /\ mode' = mode /\ locations' = locations
        /\ Commit(None) /\ product' = "same" /\ failed' \subseteq failed
    BY <1>2 DEF ApplyQrAllocated
  <2>2. Typed' /\ StockInv' /\ \A x \in Serials : Exists(x) => Exists(x)'
    BY <2>1, AddLabelsKeepsStock DEF Statuses
  <2> QED
    BY <1>1, <2>1, <2>2, StockCommitIInv DEF Products
<1>3. CASE BulkAssignment(set)
  <2>1. /\ AddLabels(set, "IN_STOCK") /\ mode' = mode /\ locations' = locations
        /\ Commit(None) /\ product' \in {"same", "other"} /\ failed' = failed
    BY <1>1, <1>3 DEF BulkAssignment, AssignBarcodes, ImportProduct, Products
  <2>2. Typed' /\ StockInv' /\ \A x \in Serials : Exists(x) => Exists(x)'
    BY <2>1, AddLabelsKeepsStock DEF Statuses
  <2> QED
    BY <1>1, <2>1, <2>2, StockCommitIInv DEF Products
<1>4. CASE GenerateAssignment(set, status) \/ GenerateProductSerials(set, status)
  <2>1. /\ AddLabels(set, status) /\ mode' = mode /\ locations' = locations
        /\ Commit(None) /\ product' = product /\ product # "none" /\ failed' = failed
    BY <1>4 DEF GenerateAssignment, GenerateProductSerials, AssignBarcodes
  <2>2. Typed' /\ StockInv' /\ \A x \in Serials : Exists(x) => Exists(x)'
    BY <2>1, AddLabelsKeepsStock
  <2> QED
    BY <1>1, <2>1, <2>2, StockCommitIInv
<1> QED
  BY <1>2, <1>3, <1>4

LEMMA SubmitIInv ==
    ASSUME IInv, NEW s \in Serials, NEW t \in Transitions, SubmitBatch(s, t)
    PROVE  IInv'
<1>1. /\ Commit(None) /\ UNCHANGED <<mode, product, locations, failed>> /\ Exists(s)
  BY DEF SubmitBatch, Exists, Transitions
<1>2. product # "none" /\ product \in Products /\ failed \subseteq Commands
  BY <1>1, ProductIsThere DEF IInv, TypeOK, Commands
<1> QED
  BY <1>1, <1>2, SubmitKeepsStock, StockCommitIInv

LEMMA ShelfIInv ==
    ASSUME IInv, NEW c \in Actors, VerifyOnShelf(c)
    PROVE  IInv'
<1>1. /\ Commit(c) /\ UNCHANGED <<mode, product, locations, failed>>
      /\ open[c].old \in Serials /\ Exists(open[c].old)
  BY KindOfRequest DEF VerifyOnShelf, IInv, TypeOK, RequestsFit, ShelfRequests
<1>2. product # "none" /\ product \in Products /\ failed \subseteq Commands
  BY <1>1, ProductIsThere DEF IInv, TypeOK, Commands
<1> QED
  BY <1>1, <1>2, ShelfKeepsStock, StockCommitIInv

\* A move keeps who exists, so it keeps the product even if it picks nothing.
LEMMA MoveIInv ==
    ASSUME IInv, NEW c \in Actors, RelocateStock(c)
    PROVE  IInv'
<1>1. Commit(c) /\ UNCHANGED <<mode, product, locations, failed>>
  BY DEF RelocateStock
<1>2. Typed' /\ StockInv' /\ \A x \in Serials : Exists(x) <=> Exists(x)'
  BY MoveKeepsStock
<1>3. open' \in [Actors -> Requests] /\ RequestsFit'
  BY <1>1, <1>2, CommitKeepsRequests DEF IInv
<1>4. LabelsHaveProduct'
  BY <1>1, <1>2 DEF LabelsHaveProduct, Unused, IInv
<1> QED
  BY <1>1, <1>2, <1>3, <1>4, TogetherIInv DEF IInv, TypeOK, Products, Commands

\* A replacement, by a command that has just arrived or from a waiting request.
LEMMA ReplaceIInv ==
    ASSUME IInv, NEW old \in Serials, NEW new \in Serials, NEW expected \in Replaceable,
           ApplyQrReplace(old, new, expected)
    PROVE  IInv'
<1>1. /\ Commit(None) /\ UNCHANGED <<mode, product, locations>> /\ old # new
      /\ failed \subseteq Commands /\ serial[old].loc \in Places
  BY DEF ApplyQrReplace, IInv, TypeOK, Commands, Rows
<1>2. CASE Matches(old, expected) /\ ~Exists(new)
  <2>1. /\ Replace(old, new, expected, serial[old].loc, FALSE)
        /\ failed' \subseteq Commands /\ Exists(old)
    BY <1>1, <1>2 DEF ApplyQrReplace, Matches, Exists, Replaceable
  <2>2. Typed' /\ StockInv' /\ \A x \in Serials : Exists(x) => Exists(x)'
    BY <1>1, <1>2, <2>1, ReplaceKeepsStock
  <2>3. product # "none" /\ product \in Products
    BY <2>1, ProductIsThere
  <2> QED
    BY <1>1, <2>1, <2>2, <2>3, StockCommitIInv
<1>3. CASE ~(Matches(old, expected) /\ ~Exists(new))
  <2>1. failed' = failed \cup {[old |-> old, new |-> new, expected |-> expected]}
        /\ UNCHANGED stockVars
    BY <1>3 DEF ApplyQrReplace
  <2>2. failed' \subseteq Commands /\ serial' = serial
    BY <1>1, <2>1 DEF Commands, stockVars
  <2>3. open' \in [Actors -> Requests] /\ RequestsFit'
    BY <1>1, <2>2, CommitKeepsRequests DEF IInv, Exists
  <2>4. LabelsHaveProduct'
    BY <1>1, <2>2 DEF LabelsHaveProduct, Unused, Exists, IInv
  <2>5. Typed' /\ StockInv'
    BY <1>1, <2>1, SameStock
  <2> QED
    BY <1>1, <2>2, <2>3, <2>4, <2>5, TogetherIInv DEF IInv, TypeOK, Products
<1> QED
  BY <1>2, <1>3

LEMMA ReplaceBarcodeIInv ==
    ASSUME IInv, NEW c \in Actors, ReplaceBarcodeSerial(c)
    PROVE  IInv'
<1> DEFINE r == open[c]
<1>1. r \in ReplaceRequests /\ r.op = "replace"
  BY KindOfRequest DEF IInv, TypeOK, ReplaceBarcodeSerial
<1>2. /\ r.old \in Serials /\ r.new \in Serials /\ r.expected \in Replaceable
      /\ r.loc \in Places /\ r.changed \in BOOLEAN
  BY <1>1 DEF ReplaceRequests
<1>3. /\ Exists(r.old) /\ r.old # r.new
      /\ ~r.changed => Matches(r.old, r.expected) /\ serial[r.old].loc = r.loc
  BY <1>1 DEF IInv, RequestsFit
<1>4. /\ ~Exists(r.new) /\ Replace(r.old, r.new, r.expected, r.loc, r.changed)
      /\ failed' \subseteq failed /\ Commit(c) /\ UNCHANGED <<mode, product, locations>>
  BY DEF ReplaceBarcodeSerial
<1> HIDE DEF r
<1>5. Typed' /\ StockInv' /\ \A x \in Serials : Exists(x) => Exists(x)'
  BY <1>2, <1>3, <1>4, ReplaceKeepsStock
<1>6. product # "none" /\ product \in Products /\ failed' \subseteq Commands
  BY <1>2, <1>3, <1>4, ProductIsThere DEF IInv, TypeOK, Commands
<1> QED
  BY <1>4, <1>5, <1>6, StockCommitIInv

\* Requests that start to wait have just read what they note.
LEMMA DeleteLooksIInv ==
    ASSUME IInv, NEW c \in Actors, DeleteProductLooks(c)
    PROVE  IInv'
<1> DEFINE r == [op |-> "delete", overtaken |-> 0]
<1>1. r \in Requests /\ r.op = "delete"
  BY WarehouseBoundsAssumption, RequestKinds DEF DeleteRequests
<1>2. open' = [open EXCEPT ![c] = r] /\ serial' = serial
      /\ UNCHANGED <<mode, product, locations, failed, stockVars>>
  BY DEF DeleteProductLooks, Open, stockVars
<1> HIDE DEF r
<1> QED
  BY <1>1, <1>2, OpenKeepsRequests, QuietOpenIInv DEF IInv

LEMMA ShelfLooksIInv ==
    ASSUME IInv, NEW c \in Actors, NEW s \in Serials, NEW l \in Locations,
           ShelfLooks(c, s, l)
    PROVE  IInv'
<1> DEFINE r == [op |-> "shelf", old |-> s, dest |-> l, loc |-> serial[s].loc,
                 changed |-> FALSE, overtaken |-> 0]
<1>1. r \in ShelfRequests
  BY WarehouseBoundsAssumption DEF ShelfRequests, IInv, TypeOK, Rows
<1>2. r \in Requests /\ r.op = "shelf" /\ r.old = s /\ r.loc = serial[s].loc
  BY <1>1, RequestKinds
<1>3. open' = [open EXCEPT ![c] = r] /\ serial' = serial /\ Exists(s)
      /\ UNCHANGED <<mode, product, locations, failed, stockVars>>
  BY DEF ShelfLooks, Open, stockVars
<1> HIDE DEF r
<1> QED
  BY <1>2, <1>3, OpenKeepsRequests, QuietOpenIInv DEF IInv

LEMMA RelocateLooksIInv ==
    ASSUME IInv, NEW c \in Actors, NEW dest \in Locations, NEW first \in Items,
           NEW second \in Items \cup {None}, RelocateLooks(c, dest, first, second)
    PROVE  IInv'
<1> DEFINE picked == Picks(serial, first)
           r == [op |-> "move", dest |-> dest, first |-> first, second |-> second,
                 set |-> picked, overtaken |-> 0]
<1>1. picked \in SUBSET Serials
  BY PicksAreThere
<1>2. open' = [open EXCEPT ![c] = r] /\ serial' = serial
      /\ UNCHANGED <<mode, product, locations, failed, stockVars>>
  BY DEF RelocateLooks, Open, stockVars
<1> HIDE DEF picked
<1>3. r \in MoveRequests
  BY <1>1, WarehouseBoundsAssumption DEF MoveRequests
<1>4. r \in Requests /\ r.op = "move"
  BY <1>3, RequestKinds
<1> HIDE DEF r
<1> QED
  BY <1>2, <1>4, OpenKeepsRequests, QuietOpenIInv DEF IInv

LEMMA ReplaceLooksIInv ==
    ASSUME IInv, NEW c \in Actors, NEW old \in Serials, NEW new \in Serials,
           NEW expected \in Replaceable, ReplaceLooks(c, old, new, expected)
    PROVE  IInv'
<1> DEFINE r == [op |-> "replace", old |-> old, new |-> new, expected |-> expected,
                 loc |-> serial[old].loc, changed |-> FALSE, overtaken |-> 0]
<1>1. r \in ReplaceRequests
  BY WarehouseBoundsAssumption DEF ReplaceRequests, IInv, TypeOK, Rows
<1>2. /\ r \in Requests /\ r.op = "replace" /\ r.old = old /\ r.loc = serial[old].loc
      /\ r.new = new /\ r.expected = expected
  BY <1>1, RequestKinds
<1>3. open' = [open EXCEPT ![c] = r] /\ serial' = serial /\ old # new
      /\ Matches(old, expected)
      /\ UNCHANGED <<mode, product, locations, failed, stockVars>>
  BY DEF ReplaceLooks, Open, stockVars
<1>4. Exists(old)
  BY <1>3 DEF Matches, Exists, Replaceable
<1> HIDE DEF r
<1> QED
  BY <1>2, <1>3, <1>4, OpenKeepsRequests, QuietOpenIInv DEF IInv

-----------------------------------------------------------------------------
LEMMA InitIInv == Init => IInv
<1> SUFFICES ASSUME Init PROVE IInv
  OBVIOUS
<1>1. NoRow \in Rows /\ NoRow.status = "NONE" /\ ~NoRow.active /\ NoRow.loc = None
  BY DEF NoRow, Rows, Statuses, Places
<1>2. TrailFrom(None) \in Trails /\ TrailFrom(None).end = None /\ TrailFrom(None).whole
  BY DEF TrailFrom, Trails, Places
<1>3. NoRequest \in Requests /\ NoRequest.op = "none"
  BY RequestKinds DEF NoRequest
<1>4. TypeOK
  BY <1>1, <1>2, <1>3, WarehouseAssumption DEF Init, TypeOK
<1>5. StockInv
  BY <1>1, <1>2 DEF Init, StockInv, TrailChains, StockIsWhereItSays, MasterKnowsPlace,
     UnusedIsBlank, UnitsExist, OneActiveLabel, LegacyIsSilent, Unused, Exists
<1>6. LabelsHaveProduct
  BY <1>1 DEF Init, LabelsHaveProduct, Unused, Exists
<1>7. RequestsFit
  BY <1>3 DEF Init, RequestsFit
<1> QED
  BY <1>4, <1>5, <1>6, <1>7 DEF IInv

LEMMA StepIInv == IInv /\ [Next]_vars => IInv'
<1> SUFFICES ASSUME IInv, [Next]_vars PROVE IInv'
  OBVIOUS
<1>1. CASE UNCHANGED vars
  <2>1. /\ UNCHANGED <<mode, product, locations, failed, stockVars>>
        /\ open' = open /\ serial' = serial
    BY <1>1 DEF vars, stockVars
  <2>2. open' \in [Actors -> Requests] /\ RequestsFit'
    BY <2>1 DEF IInv, TypeOK, RequestsFit, Exists, Matches
  <2> QED
    BY <2>1, <2>2, QuietOpenIInv
<1>2. ASSUME NEW identity \in {"same", "other"},
             CreateProduct(identity) \/ UpdateProductPricing(identity)
      PROVE  IInv'
  BY <1>2, ProductIInv
<1>3. ASSUME NEW active \in BOOLEAN, ApplyProductUpsert(active) PROVE IInv'
  BY <1>3, ProductIInv
<1>4. ASSUME NEW set \in SUBSET Serials, ApplyQrAllocated(set) \/ BulkAssignment(set)
      PROVE  IInv'
  BY <1>4, NewLabelsIInv DEF Statuses
<1>5. ASSUME NEW set \in SUBSET Serials, NEW status \in Statuses \ {"NONE"},
             GenerateAssignment(set, status) \/ GenerateProductSerials(set, status)
      PROVE  IInv'
  BY <1>5, NewLabelsIInv
<1>6. ASSUME NEW s \in Serials, NEW t \in Transitions, SubmitBatch(s, t) PROVE IInv'
  BY <1>6, SubmitIInv
<1>7. ASSUME NEW l \in Locations, AddLocation(l) \/ ToggleLocation(l) PROVE IInv'
  BY <1>7, LocationIInv
<1>8. ASSUME NEW old \in Serials, NEW new \in Serials, NEW expected \in Replaceable,
             ApplyQrReplace(old, new, expected)
      PROVE  IInv'
  BY <1>8, ReplaceIInv
<1>9. ASSUME NEW old \in Serials, NEW new \in Serials, NEW expected \in Replaceable,
             NEW c \in Actors, ReplaceLooks(c, old, new, expected)
      PROVE  IInv'
  BY <1>9, ReplaceLooksIInv
<1>10. ASSUME NEW c \in Actors, ReplaceBarcodeSerial(c) PROVE IInv'
  BY <1>10, ReplaceBarcodeIInv
<1>11. ASSUME NEW c \in Actors, ReplacementFails(c) PROVE IInv'
  BY <1>11, NoRequestFits DEF ReplacementFails
<1>12. ASSUME NEW c \in Clerks, NEW s \in Shelved, NEW l \in Locations, ShelfLooks(c, s, l)
       PROVE  IInv'
  BY <1>12, ShelfLooksIInv, WarehouseAssumption DEF Actors
<1>13. ASSUME NEW c \in Clerks, VerifyOnShelf(c) PROVE IInv'
  BY <1>13, ShelfIInv DEF Actors
<1>14. ASSUME NEW c \in Clerks, DeleteProductLooks(c) \/ DeleteProduct(c) PROVE IInv'
  BY <1>14, DeleteLooksIInv, ProductIInv DEF Actors
<1>15. ASSUME NEW c \in Clerks, NEW dest \in Locations, NEW first \in Items,
              NEW second \in Items \cup {None}, RelocateLooks(c, dest, first, second)
       PROVE  IInv'
  BY <1>15, RelocateLooksIInv DEF Actors
<1>16. ASSUME NEW c \in Clerks, RelocateStock(c) PROVE IInv'
  BY <1>16, MoveIInv DEF Actors
<1>17. ASSUME NEW c \in Clerks, RelocationFails(c) PROVE IInv'
  BY <1>17, NoRequestFits DEF RelocationFails, Actors
<1> QED
  BY <1>1, <1>2, <1>3, <1>4, <1>5, <1>6, <1>7, <1>8, <1>9, <1>10, <1>11, <1>12, <1>13,
     <1>14, <1>15, <1>16, <1>17 DEF Next

\* The inductive invariant: stock, labels, events and waiting requests fit each
\* other after every handler (app/services/relocation.py, replacement.py,
\* master_qr.py).
THEOREM Inductive == Spec => []IInv
BY InitIInv, StepIInv, PTL DEF Spec

\* Serials, locations, commands and waiting requests keep their types
\* (app/services/relocation.py, master_qr.py).
THEOREM TypeCorrect == Spec => []TypeOK
<1>1. IInv => TypeOK
  BY DEF IInv
<1> QED
  BY <1>1, Inductive, PTL

\* An active label in stock is at the place of its unit, through moves, sales,
\* returns, shelf scans and replacements, unless it was written from a stale row
\* (relocate_stock, apply_qr_replace_command, replace_barcode_serial).
THEOREM LabelsTellPlaces == Spec => []StockIsWhereItSays
<1>1. IInv => StockIsWhereItSays
  BY DEF IInv, StockInv
<1> QED
  BY <1>1, Inductive, PTL

\* relocate_stock claims a serial at the location it records as the previous one,
\* so the recorded moves of a serial are a path that ends where it is.
THEOREM MovesArePaths == Spec => []TrailChains
<1>1. IInv => TrailChains
  BY DEF IInv, StockInv
<1> QED
  BY <1>1, Inductive, PTL

\* The newest event of a serial tells Master where it is, unless a shelf scan has
\* placed it since (enqueue_outbox_event in relocate_stock and in submissions).
THEOREM EventsTellPlaces == Spec => []MasterKnowsPlace
<1>1. IInv => MasterKnowsPlace
  BY DEF IInv, StockInv
<1> QED
  BY <1>1, Inductive, PTL

\* A delete of a product that has counted no serials cannot leave labels without
\* their product: the foreign key of serials is checked at the write.
THEOREM ProductsOutliveLabels == Spec => []LabelsHaveProduct
<1>1. IInv => LabelsHaveProduct
  BY DEF IInv
<1> QED
  BY <1>1, Inductive, PTL

\* A unit has one active label, through replacements by commands of Master and by
\* the replacement form, unless a label was replaced from a stale row.
THEOREM UnitsHaveOneLabel == Spec => []OneActiveLabel
<1>1. IInv => OneActiveLabel
  BY DEF IInv, StockInv
<1> QED
  BY <1>1, Inductive, PTL
=============================================================================
