------------------------- MODULE TallyWorkerProofs -------------------------
(***************************************************************************)
(* Proofs about TallyWorker, for any batches, data jobs and answers of     *)
(* Tally, any number of crashes and of restarts of the worker, and any     *)
(* changes of the settings.                                                *)
(***************************************************************************)
EXTENDS TallyWorker, SequenceTheorems, FiniteSetTheorems, TLAPS

\* What is left of a plan.
LEMMA PlanProperties ==
    ASSUME NEW p \in Plans
    PROVE  /\ p # <<>>
           /\ Head(p) \in {"job", "batch"}
           /\ Len(p) # 1 => Tail(p) \in Plans
           /\ Len(p) # 1 /\ Tail(p) = <<"batch">> => Head(p) = "job"
           /\ Len(p) = 1 /\ Head(p) = "batch" => p = <<"batch">>
<1>1. CASE p = <<"job", "batch">>
  <2>1. Head(p) = "job" /\ Tail(p) = <<"batch">> /\ Len(p) = 2
    BY <1>1
  <2> QED
    BY <1>1, <2>1 DEF Plans
<1>2. CASE p = <<"batch", "job">>
  <2>1. Head(p) = "batch" /\ Tail(p) = <<"job">> /\ Len(p) = 2
    BY <1>2
  <2>2. Tail(p) # <<"batch">>
    BY <2>1
  <2> QED
    BY <1>2, <2>1, <2>2 DEF Plans
<1>3. CASE p = <<"job">>
  <2>1. Head(p) = "job" /\ Len(p) = 1
    BY <1>3
  <2> QED
    BY <1>3, <2>1 DEF Plans
<1>4. CASE p = <<"batch">>
  <2>1. Head(p) = "batch" /\ Len(p) = 1
    BY <1>4
  <2> QED
    BY <1>4, <2>1 DEF Plans
<1> QED
  BY <1>1, <1>2, <1>3, <1>4 DEF Plans

\* An element leaves a sequence that holds it once.
LEMMA RemoveAtProperties ==
    ASSUME NEW S, NEW seq \in Seq(S), IsInjective(seq), NEW i \in DOMAIN seq
    PROVE  /\ RemoveAt(seq, i) \in Seq(S)
           /\ IsInjective(RemoveAt(seq, i))
           /\ ToSet(RemoveAt(seq, i)) = ToSet(seq) \ {seq[i]}
<1> DEFINE n == Len(seq)
           left == SubSeq(seq, 1, i - 1)
           right == SubSeq(seq, i + 1, n)
           rest == RemoveAt(seq, i)
<1>1. n \in Nat /\ DOMAIN seq = 1..n /\ i \in 1..n /\ \A j \in 1..n : seq[j] \in S
  BY LenProperties, ElementOfSeq
<1>2. left \in Seq(S) /\ Len(left) = i - 1 /\ \A j \in 1..(i - 1) : left[j] = seq[j]
  <2>1. \A j \in 1..(i - 1) : seq[j] \in S
    BY <1>1
  <2>2. 1 \in Int /\ i - 1 \in Int
    BY <1>1
  <2>3. /\ left \in Seq(S)
        /\ Len(left) = IF 1 <= i - 1 THEN i - 1 - 1 + 1 ELSE 0
        /\ \A j \in 1..(i - 1 - 1 + 1) : left[j] = seq[1 + j - 1]
    BY <2>1, <2>2, SubSeqProperties
  <2> HIDE DEF left
  <2> QED
    BY <1>1, <2>3
<1>3. right \in Seq(S) /\ Len(right) = n - i /\ \A j \in 1..(n - i) : right[j] = seq[i + j]
  <2>1. \A j \in (i + 1)..n : seq[j] \in S
    BY <1>1
  <2>2. i + 1 \in Int /\ n \in Int
    BY <1>1
  <2>3. /\ right \in Seq(S)
        /\ Len(right) = IF i + 1 <= n THEN n - (i + 1) + 1 ELSE 0
        /\ \A j \in 1..(n - (i + 1) + 1) : right[j] = seq[i + 1 + j - 1]
    BY <2>1, <2>2, SubSeqProperties
  <2> HIDE DEF right
  <2>4. Len(right) = n - i /\ n - (i + 1) + 1 = n - i
    BY <1>1, <2>3
  <2>5. ASSUME NEW j \in 1..(n - i) PROVE right[j] = seq[i + j]
    <3>1. i + 1 + j - 1 = i + j
      BY <1>1
    <3> QED
      BY <2>3, <2>4, <3>1
  <2> QED
    BY <2>3, <2>4, <2>5
<1>4. rest = left \o right
  BY DEF RemoveAt
<1> HIDE DEF left, right, rest, n
<1>5. /\ rest \in Seq(S) /\ Len(rest) = n - 1
      /\ \A j \in 1..(n - 1) : rest[j] = IF j <= i - 1 THEN left[j] ELSE right[j - (i - 1)]
  <2>1. /\ rest \in Seq(S) /\ Len(rest) = Len(left) + Len(right)
        /\ \A j \in 1..(Len(left) + Len(right)) :
              rest[j] = IF j <= Len(left) THEN left[j] ELSE right[j - Len(left)]
    BY <1>2, <1>3, <1>4, ConcatProperties
  <2> QED
    BY <1>1, <1>2, <1>3, <2>1
<1>6. \A j \in 1..(n - 1) : rest[j] = IF j < i THEN seq[j] ELSE seq[j + 1]
  <2> SUFFICES ASSUME NEW j \in 1..(n - 1)
               PROVE  rest[j] = IF j < i THEN seq[j] ELSE seq[j + 1]
    OBVIOUS
  <2>1. CASE j < i
    BY <1>1, <1>2, <1>5, <2>1
  <2>2. CASE j >= i
    <3>1. j - (i - 1) \in 1..(n - i) /\ i + (j - (i - 1)) = j + 1
      BY <1>1, <2>2
    <3>2. rest[j] = right[j - (i - 1)]
      BY <1>1, <1>5, <2>2
    <3>3. right[j - (i - 1)] = seq[i + (j - (i - 1))]
      BY <1>3, <3>1
    <3>4. ~(j < i)
      BY <1>1, <2>2
    <3> QED
      BY <3>1, <3>2, <3>3, <3>4
  <2> QED
    BY <1>1, <2>1, <2>2
<1>7. DOMAIN rest = 1..(n - 1)
  BY <1>5, LenProperties
<1>8. IsInjective(rest)
  <2> SUFFICES ASSUME NEW a \in 1..(n - 1), NEW b \in 1..(n - 1), rest[a] = rest[b]
               PROVE  a = b
    BY <1>7 DEF IsInjective
  <2>1. \A j \in 1..(n - 1) : /\ (IF j < i THEN j ELSE j + 1) \in 1..n
                              /\ rest[j] = seq[IF j < i THEN j ELSE j + 1]
    BY <1>1, <1>6
  <2>2. (IF a < i THEN a ELSE a + 1) = (IF b < i THEN b ELSE b + 1)
    BY <1>1, <2>1 DEF IsInjective
  <2> QED
    BY <1>1, <2>2
<1>9. ToSet(rest) = ToSet(seq) \ {seq[i]}
  <2>1. ASSUME NEW x \in ToSet(rest) PROVE x \in ToSet(seq) \ {seq[i]}
    <3>1. PICK j \in 1..(n - 1) : x = rest[j]
      BY <1>7, <2>1 DEF ToSet
    <3>2. PICK m \in 1..n : m # i /\ x = seq[m]
      BY <1>1, <1>6, <3>1
    <3> QED
      BY <1>1, <3>2 DEF ToSet, IsInjective
  <2>2. ASSUME NEW x \in ToSet(seq) \ {seq[i]} PROVE x \in ToSet(rest)
    <3>1. PICK m \in 1..n : x = seq[m]
      BY <1>1, <2>2 DEF ToSet
    <3>2. m # i
      BY <2>2, <3>1
    <3>3. CASE m < i
      BY <1>1, <1>6, <1>7, <3>1, <3>3 DEF ToSet
    <3>4. CASE m > i
      <4>1. m - 1 \in 1..(n - 1) /\ m - 1 >= i /\ (m - 1) + 1 = m
        BY <1>1, <3>4
      <4>2. rest[m - 1] = x
        BY <1>1, <1>6, <3>1, <4>1
      <4> QED
        BY <1>7, <4>1, <4>2 DEF ToSet
    <3> QED
      BY <1>1, <3>2, <3>3, <3>4
  <2> QED
    BY <2>1, <2>2
<1> QED
  BY <1>5, <1>8, <1>9 DEF rest

LEMMA RemoveFirstProperties ==
    ASSUME NEW S, NEW seq \in Seq(S), IsInjective(seq), NEW e
    PROVE  /\ RemoveFirst(seq, e) \in Seq(S)
           /\ IsInjective(RemoveFirst(seq, e))
           /\ ToSet(RemoveFirst(seq, e)) = ToSet(seq) \ {e}
<1>1. DOMAIN seq = 1..Len(seq)
  BY LenProperties
<1>2. CASE ~\E i \in 1..Len(seq) : seq[i] = e
  <2>1. RemoveFirst(seq, e) = seq
    BY <1>2 DEF RemoveFirst
  <2>2. e \notin ToSet(seq)
    BY <1>1, <1>2 DEF ToSet
  <2> QED
    BY <2>1, <2>2
<1>3. CASE \E i \in 1..Len(seq) : seq[i] = e
  <2>1. PICK i \in 1..Len(seq) : seq[i] = e
    BY <1>3
  <2>2. {j \in 1..Len(seq) : seq[j] = e} = {i}
    BY <1>1, <2>1 DEF IsInjective
  <2>3. Min({i}) = i
    <3>1. i <= i
      BY <2>1
    <3> QED
      BY <3>1 DEF Min
  <2>4. SelectInSeq(seq, LAMBDA v : v = e) = i
    BY <2>2, <2>3 DEF SelectInSeq
  <2>5. RemoveFirst(seq, e) = RemoveAt(seq, i)
    BY <1>3, <2>4 DEF RemoveFirst
  <2> QED
    BY <1>1, <2>1, <2>5, RemoveAtProperties
<1> QED
  BY <1>2, <1>3

\* An element that is not there yet is appended.
LEMMA AppendNew ==
    ASSUME NEW S, NEW seq \in Seq(S), IsInjective(seq), NEW e \in S, e \notin ToSet(seq)
    PROVE  /\ Append(seq, e) \in Seq(S)
           /\ IsInjective(Append(seq, e))
           /\ ToSet(Append(seq, e)) = ToSet(seq) \cup {e}
<1> DEFINE n == Len(seq)
           more == Append(seq, e)
<1>1. n \in Nat /\ DOMAIN seq = 1..n
  BY LenProperties
<1>2. /\ more \in Seq(S) /\ Len(more) = n + 1 /\ more[n + 1] = e
      /\ \A i \in 1..n : more[i] = seq[i]
  BY AppendProperties
<1>3. DOMAIN more = 1..(n + 1)
  BY <1>2, LenProperties
<1> HIDE DEF more, n
<1>4. \A i \in 1..n : seq[i] # e
  BY <1>1 DEF ToSet
<1>5. IsInjective(more)
  BY <1>1, <1>2, <1>3, <1>4 DEF IsInjective
<1>6. ToSet(more) = ToSet(seq) \cup {e}
  BY <1>1, <1>2, <1>3 DEF ToSet
<1> QED
  BY <1>2, <1>5, <1>6 DEF more

LEMMA RetriedTyped ==
    ASSUME TypeOK, NEW b \in Batches, Retried(b)
    PROVE  line' \in Seq(Batches) /\ IsInjective(line')
<1>1. /\ RemoveFirst(line, b) \in Seq(Batches) /\ IsInjective(RemoveFirst(line, b))
      /\ b \notin ToSet(RemoveFirst(line, b))
  BY RemoveFirstProperties DEF TypeOK
<1> QED
  BY <1>1, AppendNew DEF Retried

-----------------------------------------------------------------------------
(* The passes. *)

Pcs == {"idle", "check", "test", "tested", "try", "claim", "fetch", "store", "finish",
        "finished", "sync", "post", "posted", "done", "empty"}

WholePass(p) ==
    /\ p.pc \in {"try", "claim"} => p.plan # <<>>
    /\ p.pc \in {"claim", "fetch", "store", "finish", "finished"} => p.key \in Keys
    /\ p.pc \in {"finish", "finished"} => p.reply \in {"succeeded", "failed"}
    /\ p.pc = "posted" => p.reply \in Answers
    /\ p.pc \in {"sync", "post", "posted"} => p.batch \in Batches

ThreadsOK == thread \in [Threads -> Passes] /\ PassesAreWhole

LEMMA ThreadFacts ==
    ASSUME ThreadsOK
    PROVE  \A t \in Threads : thread[t] \in Passes /\ WholePass(thread[t])
BY DEF ThreadsOK, PassesAreWhole, WholePass

LEMMA IdleTyped == Idle \in Passes /\ Idle.pc = "idle" /\ WholePass(Idle)
BY BoundsAssumption DEF Idle, Passes, WholePass, NoXml

LEMMA AtRest ==
    ASSUME NEW pc \in {"idle", "done", "empty"}
    PROVE  [Idle EXCEPT !.pc = pc] \in Passes /\ WholePass([Idle EXCEPT !.pc = pc])
           /\ [Idle EXCEPT !.pc = pc].pc = pc
<1> DEFINE p == [Idle EXCEPT !.pc = pc]
<1>1. p \in Passes /\ p.pc = pc
  BY IdleTyped DEF Passes
<1> HIDE DEF p
<1>2. WholePass(p)
  BY <1>1 DEF WholePass
<1> QED
  BY <1>1, <1>2 DEF p

\* One pass moves.
LEMMA OneMoves ==
    ASSUME ThreadsOK, NEW t \in Threads, NEW p \in Passes, WholePass(p),
           thread' = [thread EXCEPT ![t] = p]
    PROVE  ThreadsOK' /\ thread'[t] = p /\ \A u \in Threads \ {t} : thread'[u] = thread[u]
<1>1. thread' \in [Threads -> Passes]
  BY DEF ThreadsOK
<1>2. \A u \in Threads : thread'[u] = IF u = t THEN p ELSE thread[u]
  BY DEF ThreadsOK
<1>3. PassesAreWhole'
  BY <1>2 DEF ThreadsOK, PassesAreWhole, WholePass
<1> QED
  BY <1>1, <1>2, <1>3 DEF ThreadsOK

LEMMA StepMoves ==
    ASSUME ThreadsOK, NEW t \in Threads, NEW pc \in Pcs, Step(t, pc),
           WholePass([thread[t] EXCEPT !.pc = pc])
    PROVE  /\ ThreadsOK'
           /\ thread'[t] = [thread[t] EXCEPT !.pc = pc] /\ thread'[t].pc = pc
           /\ \A u \in Threads \ {t} : thread'[u] = thread[u]
<1> DEFINE p == [thread[t] EXCEPT !.pc = pc]
<1>1. p \in Passes /\ p.pc = pc
  BY ThreadFacts DEF Passes, Pcs
<1>2. thread' = [thread EXCEPT ![t] = p]
  BY DEF Step
<1> HIDE DEF p
<1>3. WholePass(p)
  BY DEF p
<1> QED
  BY <1>1, <1>2, <1>3, OneMoves DEF p

\* The pass of the loop ends "done" or "empty", an orphan is gone.
LEMMA EndsMoves ==
    ASSUME ThreadsOK, NEW t \in Threads, NEW processed \in BOOLEAN, Ends(t, processed)
    PROVE  /\ ThreadsOK'
           /\ thread'[t].pc = IF t = "orphan" THEN "idle"
                              ELSE IF processed THEN "done" ELSE "empty"
           /\ ~Running(t)'
           /\ \A u \in Threads \ {t} : thread'[u] = thread[u]
<1> DEFINE pc == IF t = "orphan" THEN "idle" ELSE IF processed THEN "done" ELSE "empty"
           p == [Idle EXCEPT !.pc = pc]
<1>1. pc \in {"idle", "done", "empty"}
  OBVIOUS
<1>2. thread' = [thread EXCEPT ![t] = p]
  BY DEF Ends
<1> HIDE DEF pc
<1>3. p \in Passes /\ WholePass(p) /\ p.pc = pc
  BY <1>1, AtRest
<1> HIDE DEF p
<1>4. /\ ThreadsOK' /\ thread'[t] = p
      /\ \A u \in Threads \ {t} : thread'[u] = thread[u]
  BY <1>2, <1>3, OneMoves
<1>5. thread'[t].pc = pc /\ pc \in {"idle", "done", "empty"}
  BY <1>1, <1>3, <1>4
<1> QED
  BY <1>4, <1>5 DEF pc, Running

\* A pass that finds nothing tries the next kind of work or ends empty.
LEMMA NextTryMoves ==
    ASSUME ThreadsOK, NEW t \in Threads, thread[t].plan # <<>>, NextTry(t)
    PROVE  /\ ThreadsOK'
           /\ \/ thread'[t].pc = "try" /\ Len(thread[t].plan) # 1
                 /\ thread'[t].plan = Tail(thread[t].plan)
              \/ t = "pass" /\ thread'[t].pc = "empty" /\ Len(thread[t].plan) = 1
              \/ t = "orphan" /\ thread'[t].pc = "idle"
           /\ \A u \in Threads \ {t} : thread'[u] = thread[u]
<1>0. thread[t].plan \in Plans
  BY ThreadFacts DEF Passes
<1>1. CASE Len(thread[t].plan) = 1
  BY <1>1, EndsMoves DEF NextTry, Threads
<1>2. CASE Len(thread[t].plan) # 1
  <2> DEFINE rest == Tail(thread[t].plan)
             p == [Idle EXCEPT !.pc = "try", !.plan = rest]
  <2>1. rest \in Plans /\ rest # <<>>
    BY <1>0, <1>2, PlanProperties
  <2>2. thread' = [thread EXCEPT ![t] = p]
    BY <1>2 DEF NextTry
  <2> HIDE DEF rest
  <2>3. p \in Passes /\ p.pc = "try" /\ p.plan = rest
    BY <2>1, IdleTyped DEF Passes
  <2> HIDE DEF p
  <2>4. WholePass(p)
    BY <2>1, <2>3 DEF WholePass
  <2>5. /\ ThreadsOK' /\ thread'[t] = p
        /\ \A u \in Threads \ {t} : thread'[u] = thread[u]
    BY <2>2, <2>3, <2>4, OneMoves
  <2> QED
    BY <1>2, <2>3, <2>5 DEF rest
<1> QED
  BY <1>1, <1>2

Others(t) == \A u \in Threads \ {t} : thread'[u] = thread[u]

LEMMA ClaimGatewayCheckMoves ==
    ASSUME TypeOK, ThreadsOK, NEW t \in Threads, ClaimGatewayCheck(t)
    PROVE  /\ ThreadsOK' /\ Others(t)
           /\ \/ Claimable(check) /\ thread'[t].pc = "test"
              \/ ~Claimable(check) /\ thread'[t].pc = "try" /\ Len(thread'[t].plan) = 2
<1>1. CASE Claimable(check)
  <2> DEFINE p == [thread[t] EXCEPT !.pc = "test", !.check = check.id]
  <2>0. check.id \in 0..MaxChecks /\ thread[t] \in Passes
    BY ThreadFacts DEF TypeOK
  <2>1. p \in Passes /\ p.pc = "test"
    BY <2>0 DEF Passes
  <2>2. thread' = [thread EXCEPT ![t] = p]
    BY <1>1, ThreadFacts DEF ClaimGatewayCheck, Passes, ThreadsOK
  <2> HIDE DEF p
  <2> QED
    BY <1>1, <2>1, <2>2, OneMoves DEF WholePass, Others
<1>2. CASE ~Claimable(check)
  <2> DEFINE plan == IF prefer THEN <<"job", "batch">> ELSE <<"batch", "job">>
             p == [thread[t] EXCEPT !.pc = "try", !.plan = plan]
  <2>1. plan \in Plans /\ plan # <<>> /\ Len(plan) = 2
    BY DEF Plans
  <2>2. thread' = [thread EXCEPT ![t] = p]
    BY <1>2, ThreadFacts DEF ClaimGatewayCheck, Passes, ThreadsOK
  <2> HIDE DEF plan
  <2>3. p \in Passes /\ p.pc = "try" /\ p.plan = plan
    <3>1. thread[t] \in Passes /\ plan \in Plans \cup {<<>>}
      BY <2>1, ThreadFacts
    <3> QED
      BY <3>1 DEF Passes
  <2> HIDE DEF p
  <2> QED
    BY <1>2, <2>1, <2>2, <2>3, OneMoves DEF WholePass, Others
<1> QED
  BY <1>1, <1>2

LEMMA TestTallyGatewayMoves ==
    ASSUME ThreadsOK, NEW t \in Threads, TestTallyGateway(t)
    PROVE  /\ ThreadsOK' /\ Others(t)
           /\ \/ thread'[t].pc = "tested"
                 /\ thread'[t] = [thread[t] EXCEPT !.pc = "tested"]
              \/ thread'[t].pc = IF t = "orphan" THEN "idle" ELSE "done"
<1>1. CASE check.id = thread[t].check
  <2>1. Step(t, "tested") /\ WholePass([thread[t] EXCEPT !.pc = "tested"])
    BY <1>1, ThreadFacts DEF TestTallyGateway, WholePass, Passes
  <2> QED
    BY <2>1, StepMoves DEF Pcs, Others
<1>2. CASE check.id # thread[t].check
  BY <1>2, EndsMoves DEF TestTallyGateway, Others
<1> QED
  BY <1>1, <1>2

LEMMA FinishGatewayCheckMoves ==
    ASSUME ThreadsOK, NEW t \in Threads, FinishGatewayCheck(t)
    PROVE  /\ ThreadsOK' /\ Others(t)
           /\ thread'[t].pc = IF t = "orphan" THEN "idle" ELSE "done"
BY EndsMoves DEF FinishGatewayCheck, Others

LEMMA SelectJobMoves ==
    ASSUME TypeOK, ThreadsOK, NEW t \in Threads, SelectJob(t)
    PROVE  /\ ThreadsOK' /\ Others(t)
           /\ \/ /\ Available = {}
                 /\ \/ thread'[t].pc = "try" /\ Len(thread[t].plan) # 1
                       /\ thread'[t].plan = Tail(thread[t].plan)
                    \/ t = "pass" /\ thread'[t].pc = "empty" /\ Len(thread[t].plan) = 1
                    \/ t = "orphan" /\ thread'[t].pc = "idle"
              \/ /\ thread'[t].pc = "claim" /\ thread'[t].row /\ thread'[t].key \in Available
<1>1. thread[t].plan # <<>>
  BY ThreadFacts DEF SelectJob, Trying, At, WholePass
<1>2. CASE Available = {}
  <2>1. NextTry(t)
    BY <1>2 DEF SelectJob
  <2> QED
    BY <1>1, <1>2, <2>1, NextTryMoves DEF Others
<1>3. CASE Available # {}
  <2>1. PICK i \in DOMAIN queue :
          /\ queue[i] \in Available
          /\ thread' = [thread EXCEPT ![t].pc = "claim", ![t].key = queue[i], ![t].row = TRUE]
    BY <1>3 DEF SelectJob
  <2> DEFINE p == [thread[t] EXCEPT !.pc = "claim", !.key = queue[i], !.row = TRUE]
  <2>2. thread' = [thread EXCEPT ![t] = p]
    BY <2>1 DEF ThreadsOK
  <2>3. queue[i] \in Keys
    BY <2>1 DEF Available
  <2>4. p \in Passes /\ p.pc = "claim" /\ p.key = queue[i] /\ p.row /\ p.plan = thread[t].plan
    BY <2>3, ThreadFacts DEF Passes
  <2> HIDE DEF p
  <2> QED
    BY <1>1, <2>1, <2>2, <2>3, <2>4, OneMoves DEF WholePass, Others
<1> QED
  BY <1>2, <1>3

LEMMA ClaimJobMoves ==
    ASSUME TypeOK, ThreadsOK, NEW t \in Threads, ClaimJob(t)
    PROVE  /\ ThreadsOK' /\ Others(t)
           /\ \/ /\ thread[t].row /\ Claimable(jobs[thread[t].key])
                 /\ thread'[t] = [thread[t] EXCEPT !.pc = "fetch"] /\ thread'[t].pc = "fetch"
              \/ /\ ~(thread[t].row /\ Claimable(jobs[thread[t].key]))
                 /\ thread'[t].pc \in {"try", "empty", "idle"}
<1>1. /\ thread[t].plan # <<>> /\ thread[t].key \in Keys
      /\ WholePass([thread[t] EXCEPT !.pc = "fetch"])
  BY ThreadFacts DEF ClaimJob, At, WholePass, Passes
<1>2. CASE thread[t].row /\ Claimable(jobs[thread[t].key])
  <2>1. Step(t, "fetch")
    BY <1>2 DEF ClaimJob
  <2> QED
    BY <1>1, <1>2, <2>1, StepMoves DEF Pcs, Others
<1>3. CASE ~(thread[t].row /\ Claimable(jobs[thread[t].key]))
  <2>1. NextTry(t)
    BY <1>3 DEF ClaimJob
  <2> QED
    BY <1>1, <1>3, <2>1, NextTryMoves DEF Others
<1> QED
  BY <1>2, <1>3

LEMMA FetchFromTallyMoves ==
    ASSUME TypeOK, ThreadsOK, NEW t \in Threads, FetchFromTally(t)
    PROVE  /\ ThreadsOK' /\ Others(t)
           /\ thread'[t] = [thread[t] EXCEPT !.pc = "store", !.got = book]
<1> DEFINE p == [thread[t] EXCEPT !.pc = "store", !.got = book]
<1>0. book \in 0..MaxBooks /\ thread[t] \in Passes
  BY ThreadFacts DEF TypeOK
<1>1. p \in Passes /\ p.pc = "store" /\ p.key = thread[t].key
  BY <1>0 DEF Passes
<1>2. thread' = [thread EXCEPT ![t] = p]
  BY DEF FetchFromTally, ThreadsOK
<1>3. p.key \in Keys
  BY <1>1, ThreadFacts DEF FetchFromTally, At, WholePass
<1> HIDE DEF p
<1> QED
  BY <1>1, <1>2, <1>3, OneMoves DEF WholePass, Others, p

\* The answer of Tally, or its failure, is there.
LEMMA JobDoneMoves ==
    ASSUME TypeOK, ThreadsOK, NEW t \in Threads, NEW reply \in {"succeeded", "failed"},
           thread[t].pc \in {"fetch", "store"},
           thread' = [thread EXCEPT ![t].pc = "finish", ![t].reply = reply]
    PROVE  /\ ThreadsOK' /\ Others(t)
           /\ thread'[t] = [thread[t] EXCEPT !.pc = "finish", !.reply = reply]
<1> DEFINE p == [thread[t] EXCEPT !.pc = "finish", !.reply = reply]
<1>1. p \in Passes /\ p.pc = "finish" /\ p.key = thread[t].key /\ p.reply = reply
  BY ThreadFacts DEF Passes
<1>2. thread' = [thread EXCEPT ![t] = p]
  BY DEF ThreadsOK
<1>3. p.key \in Keys
  BY <1>1, ThreadFacts DEF WholePass
<1> HIDE DEF p
<1> QED
  BY <1>1, <1>2, <1>3, OneMoves DEF WholePass, Others, p

LEMMA FinishJobLooksMoves ==
    ASSUME TypeOK, ThreadsOK, NEW t \in Threads, FinishJobLooks(t)
    PROVE  /\ ThreadsOK' /\ Others(t)
           /\ \/ thread'[t] = [thread[t] EXCEPT !.pc = "finished"] /\ thread'[t].pc = "finished"
              \/ /\ ~(thread[t].row /\ jobs[thread[t].key].status = "running")
                 /\ thread'[t].pc = IF t = "orphan" THEN "idle" ELSE "done"
<1>1. CASE thread[t].row /\ jobs[thread[t].key].status = "running"
  <2>1. Step(t, "finished") /\ WholePass([thread[t] EXCEPT !.pc = "finished"])
    BY <1>1, ThreadFacts DEF FinishJobLooks, At, WholePass, Passes
  <2> QED
    BY <2>1, StepMoves DEF Pcs, Others
<1>2. CASE ~(thread[t].row /\ jobs[thread[t].key].status = "running")
  <2>1. Ends(t, TRUE)
    BY <1>2 DEF FinishJobLooks
  <2> QED
    BY <1>2, <2>1, EndsMoves DEF Others
<1> QED
  BY <1>1, <1>2

LEMMA FinishJobMoves ==
    ASSUME ThreadsOK, NEW t \in Threads, FinishJob(t)
    PROVE  /\ ThreadsOK' /\ Others(t)
           /\ thread'[t].pc = IF t = "orphan" THEN "idle" ELSE "done"
BY EndsMoves DEF FinishJob, Others

LEMMA SelectBatchMoves ==
    ASSUME TypeOK, ThreadsOK, NEW t \in Threads, SelectBatch(t)
    PROVE  /\ ThreadsOK' /\ Others(t)
           /\ \/ thread'[t].pc = "try" /\ Len(thread[t].plan) # 1
                 /\ thread'[t].plan = Tail(thread[t].plan)
              \/ t = "pass" /\ thread'[t].pc = "empty" /\ Len(thread[t].plan) = 1
              \/ t = "orphan" /\ thread'[t].pc = "idle"
              \/ \E b \in Batches :
                    /\ Due(b) /\ thread'[t].pc = "sync" /\ thread'[t].batch = b
                    /\ thread'[t].seen = batch[b].xml /\ thread'[t].saw = batch[b].status
<1>1. thread[t].plan # <<>>
  BY ThreadFacts DEF SelectBatch, Trying, At, WholePass
<1>2. CASE ~(enabled /\ DueBatches # {})
  <2>1. NextTry(t)
    BY <1>2 DEF SelectBatch
  <2> QED
    BY <1>1, <2>1, NextTryMoves DEF Others
<1>3. CASE enabled /\ DueBatches # {}
  <2>1. PICK b \in DueBatches :
          thread' = [thread EXCEPT ![t].pc = "sync", ![t].batch = b, ![t].seen = batch[b].xml,
                                   ![t].saw = batch[b].status]
    BY <1>3 DEF SelectBatch
  <2> DEFINE p == [thread[t] EXCEPT !.pc = "sync", !.batch = b, !.seen = batch[b].xml,
                                    !.saw = batch[b].status]
  <2>2. thread' = [thread EXCEPT ![t] = p]
    BY <2>1 DEF ThreadsOK
  <2>3. b \in Batches /\ Due(b) /\ batch[b].xml \in Versions \cup {NoXml}
        /\ batch[b].status \in Statuses
    BY DEF DueBatches, TypeOK
  <2>4. p \in Passes /\ p.pc = "sync" /\ p.batch = b /\ p.seen = batch[b].xml
        /\ p.saw = batch[b].status
    BY <2>3, ThreadFacts DEF Passes
  <2> HIDE DEF p
  <2> QED
    BY <2>2, <2>3, <2>4, OneMoves DEF WholePass, Others
<1> QED
  BY <1>2, <1>3

-----------------------------------------------------------------------------
(* The batches. *)

BatchRows ==
    [status : Statuses, xml : Versions \cup {NoXml}, retry : {"null", "recent", "due"},
     stale : BOOLEAN]

LEMMA BatchFacts ==
    ASSUME TypeOK
    PROVE  /\ \A b \in Batches : batch[b] \in BatchRows
           /\ batch \in [Batches -> BatchRows]
           /\ line \in Seq(Batches) /\ IsInjective(line)
           /\ config \in Versions
BY DEF TypeOK, BatchRows

LEMMA OneBatch ==
    ASSUME TypeOK, NEW b \in Batches, NEW row \in BatchRows,
           batch' = [batch EXCEPT ![b] = row]
    PROVE  /\ batch' \in [Batches -> BatchRows]
           /\ batch'[b] = row /\ \A a \in Batches \ {b} : batch'[a] = batch[a]
BY BatchFacts

\* A payload that is posted has been built from some version of the settings.
LEMMA PayloadTyped ==
    ASSUME TypeOK, ThreadsOK, NEW t \in Threads, NEW b \in Batches
    PROVE  Payload(t, b) \in Versions
<1>1. thread[t].seen \in Versions \cup {NoXml}
  BY ThreadFacts DEF Passes
<1>2. batch[b].xml \in Versions \cup {NoXml} /\ config \in Versions
  BY BatchFacts DEF BatchRows
<1> QED
  BY <1>1, <1>2 DEF Payload, MustBuild, Stored

SyncReturns(t) ==
    /\ Returns(thread[t].batch) /\ thread'[t].pc = IF t = "orphan" THEN "idle" ELSE "done"
    /\ UNCHANGED <<batch, line, lock>>
SyncGivesUp(t) ==
    LET b == thread[t].batch
    IN  /\ ~Returns(b) /\ thread'[t].pc = IF t = "orphan" THEN "idle" ELSE "done"
        /\ batch'[b].status = "PENDING_SYNC" /\ batch'[b].xml \in {batch[b].xml, Payload(t, b)}
        /\ lock' = lock
SyncClaims(t) ==
    LET b == thread[t].batch
    IN  /\ ~Returns(b) /\ thread'[t].pc = "post" /\ thread'[t].batch = b
        /\ batch'[b].status = "SYNCING" /\ batch'[b].xml = Payload(t, b)
        /\ lock' = t

LEMMA SyncBatchMoves ==
    ASSUME TypeOK, ThreadsOK, NEW t \in Threads, SyncBatch(t)
    PROVE  /\ ThreadsOK' /\ Others(t) /\ thread[t].batch \in Batches
           /\ batch' \in [Batches -> BatchRows]
           /\ \A a \in Batches \ {thread[t].batch} : batch'[a] = batch[a]
           /\ line' \in Seq(Batches) /\ IsInjective(line') /\ lock' \in Threads \cup {"free"}
           /\ prefer' \in BOOLEAN
           /\ SyncReturns(t) \/ SyncGivesUp(t) \/ SyncClaims(t)
<1> DEFINE b == thread[t].batch
<1>1. b \in Batches /\ lock = "free"
  BY ThreadFacts DEF SyncBatch, At, WholePass
<1>2. Payload(t, b) \in Versions
  BY <1>1, PayloadTyped
<1>3. batch[b] \in BatchRows /\ batch \in [Batches -> BatchRows]
  BY <1>1, BatchFacts
<1>4. TurnsToJobs(t) => prefer' \in BOOLEAN
  BY Zenon DEF TurnsToJobs
<1>5. prefer \in BOOLEAN
  BY DEF TypeOK
<1>6. CASE Returns(b)
  <2>1. Ends(t, TRUE) /\ TurnsToJobs(t) /\ UNCHANGED <<batch, line, lock>>
    BY <1>6 DEF SyncBatch
  <2> QED
    BY <1>1, <1>4, <1>6, <2>1, EndsMoves, BatchFacts DEF SyncReturns, Others
<1>7. CASE ~Returns(b) /\ Unbuildable(t, b)
  <2>1. /\ batch' = [batch EXCEPT ![b].status = "PENDING_SYNC", ![b].retry = "recent"]
        /\ Retried(b) /\ Ends(t, TRUE) /\ TurnsToJobs(t) /\ UNCHANGED lock
    BY <1>7 DEF SyncBatch
  <2> DEFINE row == [batch[b] EXCEPT !.status = "PENDING_SYNC", !.retry = "recent"]
  <2>2. batch' = [batch EXCEPT ![b] = row]
    BY <1>1, <1>3, <2>1
  <2>3. row \in BatchRows /\ row.status = "PENDING_SYNC" /\ row.xml = batch[b].xml
    BY <1>3 DEF BatchRows, Statuses
  <2> HIDE DEF row
  <2>4. /\ batch' \in [Batches -> BatchRows]
        /\ batch'[b] = row /\ \A a \in Batches \ {b} : batch'[a] = batch[a]
    BY <1>1, <2>2, <2>3, OneBatch
  <2>5. line' \in Seq(Batches) /\ IsInjective(line')
    BY <1>1, <2>1, RetriedTyped
  <2> QED
    BY <1>1, <1>4, <1>7, <2>1, <2>3, <2>4, <2>5, EndsMoves DEF SyncGivesUp, Others
<1>8. CASE ~Returns(b) /\ ~Unbuildable(t, b) /\ ~enabled
  <2>1. /\ batch' = [batch EXCEPT ![b].status = "PENDING_SYNC", ![b].retry = "recent",
                                  ![b].xml = Payload(t, b)]
        /\ Retried(b) /\ Ends(t, TRUE) /\ TurnsToJobs(t) /\ UNCHANGED lock
    BY <1>8 DEF SyncBatch
  <2> DEFINE row == [batch[b] EXCEPT !.status = "PENDING_SYNC", !.retry = "recent",
                                     !.xml = Payload(t, b)]
  <2>2. batch' = [batch EXCEPT ![b] = row]
    BY <1>1, <1>3, <2>1
  <2>3. row \in BatchRows /\ row.status = "PENDING_SYNC" /\ row.xml = Payload(t, b)
    BY <1>2, <1>3 DEF BatchRows, Statuses
  <2> HIDE DEF row
  <2>4. /\ batch' \in [Batches -> BatchRows]
        /\ batch'[b] = row /\ \A a \in Batches \ {b} : batch'[a] = batch[a]
    BY <1>1, <2>2, <2>3, OneBatch
  <2>5. line' \in Seq(Batches) /\ IsInjective(line')
    BY <1>1, <2>1, RetriedTyped
  <2> QED
    BY <1>1, <1>4, <1>8, <2>1, <2>3, <2>4, <2>5, EndsMoves DEF SyncGivesUp, Others
<1>9. CASE ~Returns(b) /\ ~Unbuildable(t, b) /\ enabled
  <2> DEFINE row == [status |-> "SYNCING", xml |-> Payload(t, b), stale |-> FALSE,
                     retry |-> IF batch[b].status = "SUBMITTED" THEN batch[b].retry
                               ELSE "recent"]
  <2>1. /\ batch' = [batch EXCEPT ![b] = row]
        /\ IF batch[b].status = "SUBMITTED" THEN UNCHANGED line ELSE Retried(b)
        /\ lock' = t /\ Step(t, "post") /\ UNCHANGED prefer
    BY <1>1, <1>3, <1>9 DEF SyncBatch
  <2>2. row \in BatchRows /\ row.status = "SYNCING" /\ row.xml = Payload(t, b)
    BY <1>2, <1>3 DEF BatchRows, Statuses
  <2> HIDE DEF row
  <2>3. /\ batch' \in [Batches -> BatchRows]
        /\ batch'[b] = row /\ \A a \in Batches \ {b} : batch'[a] = batch[a]
    BY <1>1, <2>1, <2>2, OneBatch
  <2>4. line' \in Seq(Batches) /\ IsInjective(line')
    BY <1>1, <2>1, RetriedTyped, BatchFacts
  <2>5. WholePass([thread[t] EXCEPT !.pc = "post"]) /\ [thread[t] EXCEPT !.pc = "post"].batch = b
    BY <1>1, ThreadFacts DEF WholePass, Passes
  <2>6. ThreadsOK' /\ Others(t) /\ thread'[t].pc = "post" /\ thread'[t].batch = b
    BY <2>1, <2>5, StepMoves DEF Pcs, Others
  <2> QED
    BY <1>1, <1>5, <1>9, <2>1, <2>2, <2>3, <2>4, <2>6 DEF SyncClaims
<1> QED
  BY <1>6, <1>7, <1>8, <1>9

\* Tally takes the payload or not.
LEMMA PostToTallyMoves ==
    ASSUME TypeOK, ThreadsOK, NEW t \in Threads, PostToTally(t),
           batch[thread[t].batch].xml \in Versions
    PROVE  /\ ThreadsOK' /\ Others(t) /\ thread[t].batch \in Batches
           /\ accepted' \in [Batches -> SUBSET Versions] /\ disowned' \subseteq Batches
           /\ crashes' \in 0..MaxCrashes
           /\ thread'[t].pc = "posted" /\ thread'[t].batch = thread[t].batch
           /\ \A a \in Batches \ {thread[t].batch} : accepted'[a] = accepted[a]
           /\ disowned \subseteq disowned' /\ disowned' \subseteq disowned \cup {thread[t].batch}
           /\ LET b == thread[t].batch
                  x == batch[b].xml
              IN  /\ accepted'[b] \in {accepted[b], accepted[b] \cup {x}}
                  /\ thread'[t].reply = "imported" => accepted'[b] = accepted[b] \cup {x}
                  /\ thread'[t].reply \in {"unreadable", "rejected"} =>
                        accepted'[b] = {} \/ b \in disowned'
<1> DEFINE b == thread[t].batch
           x == batch[b].xml
<1>1. b \in Batches /\ At(t, "post")
  BY ThreadFacts DEF PostToTally, At, WholePass
<1>2. PICK r \in Replies :
        /\ r.answer = "cut" => crashes < MaxCrashes
        /\ crashes' = IF r.answer = "cut" THEN crashes + 1 ELSE crashes
        /\ accepted' = IF r.taken THEN [accepted EXCEPT ![b] = @ \cup {x}] ELSE accepted
        /\ disowned' = IF accepted'[b] # {} /\ r.answer \in {"unreadable", "rejected"}
                          THEN disowned \cup {b} ELSE disowned
        /\ thread' = [thread EXCEPT ![t].pc = "posted", ![t].reply = r.answer]
  BY DEF PostToTally
<1>3. r.answer \in Answers /\ (r.answer = "imported" => r.taken)
  BY DEF Replies
<1> DEFINE p == [thread[t] EXCEPT !.pc = "posted", !.reply = r.answer]
<1>4. p \in Passes /\ p.pc = "posted" /\ p.reply = r.answer /\ p.batch = b
  BY <1>3, ThreadFacts DEF Passes
<1>5. thread' = [thread EXCEPT ![t] = p]
  BY <1>2 DEF ThreadsOK
<1> HIDE DEF p
<1>6. ThreadsOK' /\ Others(t) /\ thread'[t] = p
  BY <1>1, <1>3, <1>4, <1>5, OneMoves DEF WholePass, Others
<1>7. accepted \in [Batches -> SUBSET Versions] /\ disowned \subseteq Batches
      /\ crashes \in 0..MaxCrashes
  BY DEF TypeOK
<1> HIDE DEF b, x
<1>8. /\ accepted' \in [Batches -> SUBSET Versions]
      /\ \A a \in Batches \ {b} : accepted'[a] = accepted[a]
      /\ accepted'[b] = IF r.taken THEN accepted[b] \cup {x} ELSE accepted[b]
  BY <1>1, <1>2, <1>7 DEF x, b
<1>9. crashes' \in 0..MaxCrashes
  BY <1>2, <1>7, BoundsAssumption
<1>10. /\ disowned' \subseteq Batches /\ disowned \subseteq disowned'
       /\ disowned' \subseteq disowned \cup {b}
       /\ r.answer \in {"unreadable", "rejected"} => accepted'[b] = {} \/ b \in disowned'
  BY <1>1, <1>2, <1>7
<1> QED
  BY <1>1, <1>3, <1>4, <1>6, <1>8, <1>9, <1>10 DEF b, x

\* The answer is recorded, unless it was cut off.
LEMMA FinishSyncMoves ==
    ASSUME TypeOK, ThreadsOK, NEW t \in Threads, FinishSync(t)
    PROVE  /\ ThreadsOK' /\ Others(t) /\ thread[t].batch \in Batches
           /\ thread'[t].pc = IF t = "orphan" THEN "idle" ELSE "done"
           /\ batch' \in [Batches -> BatchRows]
           /\ \A a \in Batches \ {thread[t].batch} : batch'[a] = batch[a]
           /\ line' \in Seq(Batches) /\ IsInjective(line')
           /\ prefer' \in BOOLEAN
           /\ LET b == thread[t].batch
              IN  \/ batch'[b] = batch[b]
                  \/ /\ thread[t].reply # "cut"
                     /\ batch'[b].xml = batch[b].xml
                     /\ batch'[b].status = Outcome(thread[t].reply)
<1> DEFINE b == thread[t].batch
           r == thread[t].reply
<1>1. b \in Batches /\ At(t, "posted")
  BY ThreadFacts DEF FinishSync, At, WholePass
<1>2. ThreadsOK' /\ Others(t) /\ thread'[t].pc = IF t = "orphan" THEN "idle" ELSE "done"
  BY EndsMoves DEF FinishSync, Others
<1>3. CASE r = "cut"
  <2>1. UNCHANGED <<batch, line, prefer>>
    BY <1>3 DEF FinishSync
  <2> QED
    BY <1>1, <1>2, <2>1, BatchFacts DEF TypeOK
<1>4. CASE r # "cut"
  <2> DEFINE row == [batch[b] EXCEPT !.stale = FALSE, !.status = Outcome(r),
                        !.retry = IF r = "imported" THEN @ ELSE "recent"]
  <2>1. /\ batch' = [batch EXCEPT ![b] = row]
        /\ IF r = "imported" THEN UNCHANGED line ELSE Retried(b)
        /\ TurnsToJobs(t)
    BY <1>1, <1>4, BatchFacts DEF FinishSync, BatchRows
  <2>2. Outcome(r) \in Statuses
    BY DEF Outcome, Statuses
  <2>3. row \in BatchRows /\ row.status = Outcome(r) /\ row.xml = batch[b].xml
    BY <1>1, <2>2, BatchFacts DEF BatchRows
  <2> HIDE DEF row
  <2>4. /\ batch' \in [Batches -> BatchRows]
        /\ batch'[b] = row /\ \A a \in Batches \ {b} : batch'[a] = batch[a]
    BY <1>1, <2>1, <2>3, OneBatch
  <2>5. line' \in Seq(Batches) /\ IsInjective(line')
    BY <1>1, <2>1, RetriedTyped, BatchFacts
  <2>6. prefer' \in BOOLEAN
    BY <2>1, Zenon DEF TurnsToJobs
  <2> QED
    BY <1>1, <1>2, <1>4, <2>3, <2>4, <2>5, <2>6
<1> QED
  BY <1>3, <1>4

-----------------------------------------------------------------------------
(* Type correctness, one kind of action after the other. *)

LEMMA TypeFromParts ==
    ASSUME /\ batch' \in [Batches -> BatchRows]
           /\ line' \in Seq(Batches) /\ IsInjective(line')
           /\ accepted' \in [Batches -> SUBSET Versions] /\ disowned' \subseteq Batches
           /\ config' \in Versions /\ enabled' \in BOOLEAN
           /\ jobs' \in [Keys -> [status : WorkStatuses, stale : BOOLEAN]]
           /\ queue' \in Seq(Keys) /\ IsInjective(queue')
           /\ ToSet(queue') = {k \in Keys : Pending(jobs'[k])}
           /\ ThreadsOK'
           /\ asked' \in [Keys -> 0..MaxBooks] /\ cache' \in [Keys -> 0..MaxBooks]
           /\ book' \in 0..MaxBooks
           /\ check' \in [id : 0..MaxChecks, status : WorkStatuses, stale : BOOLEAN]
           /\ lock' \in Threads \cup {"free"} /\ loop' \in {"scan", "rescan", "wait", "off"}
           /\ prefer' \in BOOLEAN /\ wake' \in BOOLEAN /\ ring' \in BOOLEAN /\ mixed' \in BOOLEAN
           /\ crashes' \in 0..MaxCrashes /\ stops' \in 0..MaxStops
    PROVE  TypeOK'
<1>1. {prefer', wake', ring', mixed'} \subseteq BOOLEAN
  OBVIOUS
<1> QED
  BY <1>1, Zenon DEF TypeOK, ThreadsOK, BatchRows

\* The types of the variables, one by one.
LEMMA Typed ==
    ASSUME TypeOK
    PROVE  /\ batch \in [Batches -> BatchRows]
           /\ line \in Seq(Batches) /\ IsInjective(line)
           /\ accepted \in [Batches -> SUBSET Versions] /\ disowned \subseteq Batches
           /\ config \in Versions /\ enabled \in BOOLEAN
           /\ jobs \in [Keys -> [status : WorkStatuses, stale : BOOLEAN]]
           /\ queue \in Seq(Keys) /\ IsInjective(queue)
           /\ ToSet(queue) = {k \in Keys : Pending(jobs[k])}
           /\ asked \in [Keys -> 0..MaxBooks] /\ cache \in [Keys -> 0..MaxBooks]
           /\ book \in 0..MaxBooks
           /\ check \in [id : 0..MaxChecks, status : WorkStatuses, stale : BOOLEAN]
           /\ lock \in Threads \cup {"free"} /\ loop \in {"scan", "rescan", "wait", "off"}
           /\ prefer \in BOOLEAN /\ wake \in BOOLEAN /\ ring \in BOOLEAN /\ mixed \in BOOLEAN
           /\ crashes \in 0..MaxCrashes /\ stops \in 0..MaxStops
<1>1. prefer \in BOOLEAN /\ wake \in BOOLEAN /\ ring \in BOOLEAN /\ mixed \in BOOLEAN
  BY Zenon DEF TypeOK
<1> QED
  BY <1>1, Zenon DEF TypeOK, BatchRows

\* A pass that leaves the data alone.
LEMMA PassOnlyTyped ==
    ASSUME TypeOK, ThreadsOK',
           UNCHANGED <<batchVars, settingVars, jobVars, book, lock, loop, wake, ring, faults>>,
           check' \in [id : 0..MaxChecks, status : WorkStatuses, stale : BOOLEAN],
           prefer' \in BOOLEAN
    PROVE  TypeOK'
<1>1. /\ UNCHANGED batch /\ UNCHANGED line /\ UNCHANGED accepted /\ UNCHANGED disowned
      /\ UNCHANGED config /\ UNCHANGED enabled /\ UNCHANGED jobs /\ UNCHANGED queue
      /\ UNCHANGED asked /\ UNCHANGED cache /\ UNCHANGED book /\ UNCHANGED lock
      /\ UNCHANGED loop /\ UNCHANGED wake /\ UNCHANGED ring /\ UNCHANGED mixed
      /\ UNCHANGED crashes /\ UNCHANGED stops
  BY DEF batchVars, settingVars, jobVars, faults
<1> QED
  BY <1>1, Typed, TypeFromParts

\* The pass that moves was running.
LEMMA PassRuns ==
    ASSUME NEW t \in Threads, Pass(t)
    PROVE  Running(t) /\ UNCHANGED <<loop, mixed, ring, wake, stops, settingVars, book, asked>>
<1>1. thread[t].pc \notin {"idle", "done", "empty"}
  BY DEF Pass, ClaimGatewayCheck, TestTallyGateway, FinishGatewayCheck, SelectJob, Trying,
         ClaimJob, FetchFromTally, JobFails, ReplaceCached, FinishJobLooks, FinishJob,
         SelectBatch, SyncBatch, PostToTally, FinishSync, At
<1>2. UNCHANGED <<loop, mixed, ring, wake, stops, settingVars, book, asked>>
  BY DEF Pass, ClaimGatewayCheck, TestTallyGateway, FinishGatewayCheck, SelectJob,
         ClaimJob, FetchFromTally, JobFails, ReplaceCached, FinishJobLooks, FinishJob,
         SelectBatch, SyncBatch, PostToTally, FinishSync, loopVars, faults, jobVars
<1> QED
  BY <1>1, <1>2 DEF Running

LEMMA ClaimJobTyped ==
    ASSUME TypeOK, ThreadsOK, NEW t \in Threads, ClaimJob(t)
    PROVE  /\ TypeOK'
           /\ \A k \in Keys : jobs'[k] # jobs[k] =>
                 /\ k = thread[t].key /\ thread[t].row /\ Claimable(jobs[k])
                 /\ jobs'[k].status = "running"
           /\ thread[t].row /\ Claimable(jobs[thread[t].key]) =>
                 jobs'[thread[t].key].status = "running"
<1> DEFINE k == thread[t].key
<1>1. k \in Keys /\ ThreadsOK'
  BY ThreadFacts, ClaimJobMoves DEF ClaimJob, At, WholePass
<1>2. /\ UNCHANGED batch /\ UNCHANGED line /\ UNCHANGED accepted /\ UNCHANGED disowned
      /\ UNCHANGED config /\ UNCHANGED enabled /\ UNCHANGED queue
      /\ UNCHANGED asked /\ UNCHANGED cache /\ UNCHANGED book /\ UNCHANGED lock
      /\ UNCHANGED loop /\ UNCHANGED wake /\ UNCHANGED ring /\ UNCHANGED mixed
      /\ UNCHANGED crashes /\ UNCHANGED stops /\ UNCHANGED prefer /\ UNCHANGED check
  BY DEF ClaimJob, batchVars, settingVars, jobVars, faults, loopVars
<1>3. jobs \in [Keys -> [status : WorkStatuses, stale : BOOLEAN]]
      /\ ToSet(queue) = {j \in Keys : Pending(jobs[j])}
  BY DEF TypeOK
<1>4. CASE thread[t].row /\ Claimable(jobs[k])
  <2> DEFINE row == [status |-> "running", stale |-> FALSE]
  <2>1. jobs' = [jobs EXCEPT ![k] = row]
    BY <1>4 DEF ClaimJob
  <2>2. row \in [status : WorkStatuses, stale : BOOLEAN] /\ row.status = "running"
    BY DEF WorkStatuses
  <2> HIDE DEF row, k
  <2>3. /\ jobs' \in [Keys -> [status : WorkStatuses, stale : BOOLEAN]]
        /\ jobs'[k] = row /\ \A j \in Keys \ {k} : jobs'[j] = jobs[j]
    BY <1>1, <1>3, <2>1, <2>2
  <2>4. {j \in Keys : Pending(jobs'[j])} = {j \in Keys : Pending(jobs[j])}
    BY <1>1, <1>4, <2>2, <2>3 DEF Pending, Claimable
  <2> QED
    BY <1>1, <1>2, <1>3, <1>4, <2>2, <2>3, <2>4, Typed, TypeFromParts DEF k
<1>5. CASE ~(thread[t].row /\ Claimable(jobs[k]))
  <2>1. UNCHANGED jobs
    BY <1>5 DEF ClaimJob
  <2> QED
    BY <1>1, <1>2, <1>3, <1>5, <2>1, Typed, TypeFromParts
<1> QED
  BY <1>4, <1>5

LEMMA ReplaceCachedTyped ==
    ASSUME TypeOK, ThreadsOK, NEW t \in Threads, ReplaceCached(t)
    PROVE  /\ TypeOK' /\ ThreadsOK' /\ Others(t) /\ UNCHANGED jobs
           /\ thread[t].key \in Keys /\ cache'[thread[t].key] = thread[t].got
           /\ \A k \in Keys \ {thread[t].key} : cache'[k] = cache[k]
           /\ thread'[t] = [thread[t] EXCEPT !.pc = "finish", !.reply = "succeeded"]
<1> DEFINE k == thread[t].key
<1>1. k \in Keys /\ thread[t].got \in 0..MaxBooks
  BY ThreadFacts DEF ReplaceCached, At, WholePass, Passes
<1>2. /\ ThreadsOK' /\ Others(t)
      /\ thread'[t] = [thread[t] EXCEPT !.pc = "finish", !.reply = "succeeded"]
  BY JobDoneMoves DEF ReplaceCached, At
<1>3. /\ UNCHANGED batch /\ UNCHANGED line /\ UNCHANGED accepted /\ UNCHANGED disowned
      /\ UNCHANGED config /\ UNCHANGED enabled /\ UNCHANGED queue /\ UNCHANGED jobs
      /\ UNCHANGED asked /\ UNCHANGED book /\ UNCHANGED lock
      /\ UNCHANGED loop /\ UNCHANGED wake /\ UNCHANGED ring /\ UNCHANGED mixed
      /\ UNCHANGED crashes /\ UNCHANGED stops /\ UNCHANGED prefer /\ UNCHANGED check
      /\ cache' = [cache EXCEPT ![k] = thread[t].got]
  BY DEF ReplaceCached, batchVars, settingVars, faults, loopVars
<1> HIDE DEF k
<1>4. cache' \in [Keys -> 0..MaxBooks] /\ cache'[k] = thread[t].got
      /\ \A j \in Keys \ {k} : cache'[j] = cache[j]
  BY <1>1, <1>3, Typed
<1> QED
  BY <1>1, <1>2, <1>3, <1>4, Typed, TypeFromParts DEF k

LEMMA FinishJobTyped ==
    ASSUME TypeOK, ThreadsOK, NEW t \in Threads, FinishJob(t)
    PROVE  /\ TypeOK'
           /\ \A k \in Keys : jobs'[k] # jobs[k] =>
                 /\ k = thread[t].key
                 /\ jobs'[k].status = thread[t].reply /\ thread[t].reply \in {"succeeded", "failed"}
<1> DEFINE k == thread[t].key
<1>1. k \in Keys /\ ThreadsOK' /\ thread[t].reply \in {"succeeded", "failed"}
  BY ThreadFacts, FinishJobMoves DEF FinishJob, At, WholePass
<1>2. /\ UNCHANGED batch /\ UNCHANGED line /\ UNCHANGED accepted /\ UNCHANGED disowned
      /\ UNCHANGED config /\ UNCHANGED enabled /\ prefer' = FALSE
      /\ UNCHANGED asked /\ UNCHANGED cache /\ UNCHANGED book /\ UNCHANGED lock
      /\ UNCHANGED loop /\ UNCHANGED wake /\ UNCHANGED ring /\ UNCHANGED mixed
      /\ UNCHANGED crashes /\ UNCHANGED stops /\ UNCHANGED check
  BY DEF FinishJob, TurnsToVouchers, batchVars, settingVars, faults
<1>3. /\ jobs \in [Keys -> [status : WorkStatuses, stale : BOOLEAN]]
      /\ queue \in Seq(Keys) /\ IsInjective(queue)
      /\ ToSet(queue) = {j \in Keys : Pending(jobs[j])}
  BY DEF TypeOK
<1>4. CASE thread[t].row
  <2> DEFINE row == [status |-> thread[t].reply, stale |-> FALSE]
  <2>1. jobs' = [jobs EXCEPT ![k] = row] /\ queue' = RemoveFirst(queue, k)
    BY <1>4 DEF FinishJob
  <2>2. /\ row \in [status : WorkStatuses, stale : BOOLEAN]
        /\ row.status = thread[t].reply /\ ~Pending(row)
    BY <1>1 DEF WorkStatuses, Pending
  <2> HIDE DEF row, k
  <2>3. /\ jobs' \in [Keys -> [status : WorkStatuses, stale : BOOLEAN]]
        /\ jobs'[k] = row /\ \A j \in Keys \ {k} : jobs'[j] = jobs[j]
    BY <1>1, <1>3, <2>1, <2>2
  <2>4. queue' \in Seq(Keys) /\ IsInjective(queue') /\ ToSet(queue') = ToSet(queue) \ {k}
    BY <1>3, <2>1, RemoveFirstProperties
  <2>5. ToSet(queue') = {j \in Keys : Pending(jobs'[j])}
    BY <1>1, <1>3, <2>2, <2>3, <2>4
  <2> QED
    BY <1>1, <1>2, <2>2, <2>3, <2>4, <2>5, Typed, TypeFromParts DEF k
<1>5. CASE ~thread[t].row
  <2>1. UNCHANGED jobs /\ UNCHANGED queue
    BY <1>5 DEF FinishJob
  <2> QED
    BY <1>1, <1>2, <1>3, <2>1, Typed, TypeFromParts
<1> QED
  BY <1>4, <1>5

LEMMA SyncTyped ==
    ASSUME TypeOK, ThreadsOK, NEW t \in Threads,
           SyncBatch(t) \/ FinishSync(t)
    PROVE  TypeOK' /\ ThreadsOK' /\ Others(t)
<1>1. /\ ThreadsOK' /\ Others(t) /\ batch' \in [Batches -> BatchRows]
      /\ line' \in Seq(Batches) /\ IsInjective(line') /\ prefer' \in BOOLEAN
      /\ lock' \in Threads \cup {"free"}
  <2>1. FinishSync(t) => lock' = "free"
    BY DEF FinishSync
  <2> QED
    BY <2>1, SyncBatchMoves, FinishSyncMoves
<1>2. /\ UNCHANGED accepted /\ UNCHANGED disowned /\ UNCHANGED jobs /\ UNCHANGED queue
      /\ UNCHANGED config /\ UNCHANGED enabled
      /\ UNCHANGED asked /\ UNCHANGED cache /\ UNCHANGED book
      /\ UNCHANGED loop /\ UNCHANGED wake /\ UNCHANGED ring /\ UNCHANGED mixed
      /\ UNCHANGED crashes /\ UNCHANGED stops /\ UNCHANGED check
  BY DEF SyncBatch, FinishSync, settingVars, jobVars, faults
<1> QED
  BY <1>1, <1>2, Typed, TypeFromParts

LEMMA PostToTallyTyped ==
    ASSUME TypeOK, ThreadsOK, PostsUnderLock, NEW t \in Threads, PostToTally(t)
    PROVE  TypeOK' /\ batch[thread[t].batch].xml \in Versions
<1>1. thread[t].batch \in Batches /\ thread[t].pc = "post"
  BY ThreadFacts DEF PostToTally, At, WholePass
<1>2. batch[thread[t].batch].xml \in Versions
  BY <1>1, BatchFacts DEF PostsUnderLock, BatchRows
<1>3. /\ ThreadsOK'
      /\ accepted' \in [Batches -> SUBSET Versions] /\ disowned' \subseteq Batches
      /\ crashes' \in 0..MaxCrashes
  BY <1>2, PostToTallyMoves
<1>4. /\ UNCHANGED batch /\ UNCHANGED line /\ UNCHANGED jobs /\ UNCHANGED queue
      /\ UNCHANGED config /\ UNCHANGED enabled /\ UNCHANGED lock
      /\ UNCHANGED asked /\ UNCHANGED cache /\ UNCHANGED book /\ UNCHANGED prefer
      /\ UNCHANGED loop /\ UNCHANGED wake /\ UNCHANGED ring /\ UNCHANGED mixed
      /\ UNCHANGED stops /\ UNCHANGED check
  BY DEF PostToTally, settingVars, jobVars, loopVars
<1> QED
  BY <1>2, <1>3, <1>4, Typed, TypeFromParts

\* The gateway check is claimed or answered.
LEMMA CheckTyped ==
    ASSUME TypeOK, ThreadsOK, NEW t \in Threads,
           ClaimGatewayCheck(t) \/ FinishGatewayCheck(t)
    PROVE  TypeOK' /\ (check'.status = "queued" => check.status = "queued" /\ ~Claimable(check))
<1>0. check \in [id : 0..MaxChecks, status : WorkStatuses, stale : BOOLEAN]
  BY DEF TypeOK
<1>1. CASE ClaimGatewayCheck(t) /\ Claimable(check)
  <2>1. /\ UNCHANGED <<batchVars, settingVars, jobVars, book, lock, loop, wake, ring, faults>>
        /\ UNCHANGED prefer
        /\ check' = [check EXCEPT !.status = "running", !.stale = FALSE]
    BY <1>1 DEF ClaimGatewayCheck, loopVars
  <2>2. check' \in [id : 0..MaxChecks, status : WorkStatuses, stale : BOOLEAN]
        /\ check'.status = "running"
    BY <1>0, <2>1 DEF WorkStatuses
  <2> QED
    BY <1>1, <2>1, <2>2, ClaimGatewayCheckMoves, PassOnlyTyped, Typed
<1>2. CASE ClaimGatewayCheck(t) /\ ~Claimable(check)
  <2>1. /\ UNCHANGED <<batchVars, settingVars, jobVars, book, lock, loop, wake, ring, faults>>
        /\ UNCHANGED prefer /\ UNCHANGED check
    BY <1>2 DEF ClaimGatewayCheck, loopVars
  <2> QED
    BY <1>0, <1>2, <2>1, ClaimGatewayCheckMoves, PassOnlyTyped, Typed
<1>3. CASE FinishGatewayCheck(t)
  <2>1. /\ UNCHANGED <<batchVars, settingVars, jobVars, book, lock, loop, wake, ring, faults>>
        /\ UNCHANGED prefer
    BY <1>3 DEF FinishGatewayCheck, loopVars
  <2>2. PICK status \in {"succeeded", "failed"} :
          check' = [id |-> thread[t].check, status |-> status, stale |-> FALSE]
    BY <1>3 DEF FinishGatewayCheck
  <2>3. thread[t].check \in 0..MaxChecks
    BY ThreadFacts DEF Passes
  <2>4. check' \in [id : 0..MaxChecks, status : WorkStatuses, stale : BOOLEAN]
        /\ check'.status # "queued"
    BY <2>2, <2>3 DEF WorkStatuses
  <2> QED
    BY <1>3, <2>1, <2>4, FinishGatewayCheckMoves, PassOnlyTyped, Typed
<1> QED
  BY <1>1, <1>2, <1>3

LEMMA PassTyped ==
    ASSUME TypeOK, ThreadsOK, PostsUnderLock, NEW t \in Threads, Pass(t)
    PROVE  TypeOK' /\ ThreadsOK' /\ Others(t)
<1>1. CASE ClaimGatewayCheck(t)
  BY <1>1, CheckTyped, ClaimGatewayCheckMoves
<1>2. CASE FinishGatewayCheck(t)
  BY <1>2, CheckTyped, FinishGatewayCheckMoves
<1>3. CASE TestTallyGateway(t) \/ SelectJob(t) \/ FetchFromTally(t) \/ JobFails(t)
           \/ FinishJobLooks(t) \/ SelectBatch(t)
  <2>1. /\ UNCHANGED <<batchVars, settingVars, jobVars, book, lock, loop, wake, ring, faults>>
        /\ UNCHANGED check
    BY <1>3 DEF TestTallyGateway, SelectJob, FetchFromTally, JobFails, FinishJobLooks,
                SelectBatch, loopVars
  <2>2. prefer' \in BOOLEAN
    <3>1. CASE FinishJobLooks(t)
      BY <3>1, Typed DEF FinishJobLooks, TurnsToVouchers
    <3>2. CASE ~FinishJobLooks(t)
      BY <1>3, <3>2, Typed DEF TestTallyGateway, SelectJob, FetchFromTally, JobFails,
                               SelectBatch, loopVars
    <3> QED
      BY <3>1, <3>2
  <2>3. JobFails(t) => ThreadsOK' /\ Others(t)
    BY JobDoneMoves DEF JobFails, At
  <2>4. ThreadsOK' /\ Others(t)
    BY <1>3, <2>3, TestTallyGatewayMoves, SelectJobMoves, FetchFromTallyMoves,
       FinishJobLooksMoves, SelectBatchMoves
  <2> QED
    BY <2>1, <2>2, <2>4, PassOnlyTyped, Typed
<1>4. CASE ClaimJob(t)
  BY <1>4, ClaimJobTyped, ClaimJobMoves
<1>5. CASE ReplaceCached(t)
  BY <1>5, ReplaceCachedTyped
<1>6. CASE FinishJob(t)
  BY <1>6, FinishJobTyped, FinishJobMoves
<1>7. CASE SyncBatch(t) \/ FinishSync(t)
  BY <1>7, SyncTyped
<1>8. CASE PostToTally(t)
  BY <1>8, PostToTallyTyped, PostToTallyMoves
<1> QED
  BY <1>1, <1>2, <1>3, <1>4, <1>5, <1>6, <1>7, <1>8 DEF Pass

\* An action that leaves the passes, the jobs and what the loop does alone.
LEMMA BatchesTyped ==
    ASSUME TypeOK, ThreadsOK, batch' \in [Batches -> BatchRows], ring' \in BOOLEAN,
           UNCHANGED <<line, accepted, disowned, settingVars, jobVars, book, check, thread,
                       lock, loopVars, faults>>
    PROVE  TypeOK' /\ ThreadsOK'
<1>1. /\ UNCHANGED line /\ UNCHANGED accepted /\ UNCHANGED disowned
      /\ UNCHANGED jobs /\ UNCHANGED queue /\ UNCHANGED config /\ UNCHANGED enabled
      /\ UNCHANGED asked /\ UNCHANGED cache /\ UNCHANGED book /\ UNCHANGED lock
      /\ UNCHANGED loop /\ UNCHANGED wake /\ UNCHANGED mixed /\ UNCHANGED prefer
      /\ UNCHANGED crashes /\ UNCHANGED stops /\ UNCHANGED check /\ UNCHANGED thread
  BY DEF settingVars, jobVars, loopVars, faults
<1>2. ThreadsOK'
  BY <1>1 DEF ThreadsOK, PassesAreWhole
<1> QED
  BY <1>1, <1>2, Typed, TypeFromParts

\* Whatever happens to one batch, apart from the pass.
LEMMA BatchRequests ==
    ASSUME TypeOK, ThreadsOK, NEW b \in Batches,
           SubmitBatch(b) \/ RetryBatch(b) \/ CooldownEnds(b) \/ SyncLeaseEnds(b)
    PROVE  /\ TypeOK' /\ ThreadsOK'
           /\ UNCHANGED <<line, accepted, disowned, settingVars, jobVars, book, check, thread,
                          lock, loopVars, faults>>
           /\ ring' \in {TRUE, ring}
           /\ \A a \in Batches \ {b} : batch'[a] = batch[a]
           /\ \/ batch[b].status = "DRAFT" /\ batch'[b].status = "SUBMITTED"
                 /\ batch'[b].xml = batch[b].xml
              \/ batch[b].status = "FAILED" /\ batch'[b].status = "PENDING_SYNC"
              \/ batch'[b].status = batch[b].status /\ batch'[b].xml = batch[b].xml
<1>1. batch[b] \in BatchRows
  BY BatchFacts
<1>2. /\ UNCHANGED <<line, accepted, disowned, settingVars, jobVars, book, check, thread,
                     lock, loopVars, faults>>
      /\ ring' \in {TRUE, ring}
  BY DEF SubmitBatch, RetryBatch, CooldownEnds, SyncLeaseEnds
<1>3. \E row \in BatchRows :
         /\ batch' = [batch EXCEPT ![b] = row]
         /\ \/ batch[b].status = "DRAFT" /\ row.status = "SUBMITTED" /\ row.xml = batch[b].xml
            \/ batch[b].status = "FAILED" /\ row.status = "PENDING_SYNC"
            \/ row.status = batch[b].status /\ row.xml = batch[b].xml
  <2>1. CASE SubmitBatch(b)
    <3> DEFINE row == [batch[b] EXCEPT !.status = "SUBMITTED"]
    <3>1. batch' = [batch EXCEPT ![b] = row]
      BY <2>1, BatchFacts DEF SubmitBatch
    <3>2. row \in BatchRows /\ row.status = "SUBMITTED" /\ row.xml = batch[b].xml
      BY <1>1 DEF BatchRows, Statuses
    <3> QED
      BY <2>1, <3>1, <3>2 DEF SubmitBatch
  <2>2. CASE RetryBatch(b)
    <3> DEFINE row == Requeued(batch[b])
    <3>1. batch' = [batch EXCEPT ![b] = row]
      BY <2>2 DEF RetryBatch
    <3>2. row \in BatchRows
      BY <1>1 DEF BatchRows, Statuses, Requeued
    <3>3. \/ batch[b].status = "FAILED" /\ row.status = "PENDING_SYNC"
          \/ row.status = batch[b].status /\ row.xml = batch[b].xml
      BY DEF Requeued
    <3> QED
      BY <3>1, <3>2, <3>3
  <2>3. CASE CooldownEnds(b)
    <3> DEFINE row == [batch[b] EXCEPT !.retry = "due"]
    <3>1. batch' = [batch EXCEPT ![b] = row]
      BY <2>3, BatchFacts DEF CooldownEnds
    <3>2. row \in BatchRows /\ row.status = batch[b].status /\ row.xml = batch[b].xml
      BY <1>1 DEF BatchRows
    <3> QED
      BY <3>1, <3>2
  <2>4. CASE SyncLeaseEnds(b)
    <3> DEFINE row == [batch[b] EXCEPT !.stale = TRUE]
    <3>1. batch' = [batch EXCEPT ![b] = row]
      BY <2>4, BatchFacts DEF SyncLeaseEnds
    <3>2. row \in BatchRows /\ row.status = batch[b].status /\ row.xml = batch[b].xml
      BY <1>1 DEF BatchRows
    <3> QED
      BY <3>1, <3>2
  <2> QED
    BY <2>1, <2>2, <2>3, <2>4
<1>4. PICK row \in BatchRows :
         /\ batch' = [batch EXCEPT ![b] = row]
         /\ \/ batch[b].status = "DRAFT" /\ row.status = "SUBMITTED" /\ row.xml = batch[b].xml
            \/ batch[b].status = "FAILED" /\ row.status = "PENDING_SYNC"
            \/ row.status = batch[b].status /\ row.xml = batch[b].xml
  BY <1>3
<1>5. /\ batch' \in [Batches -> BatchRows]
      /\ batch'[b] = row /\ \A a \in Batches \ {b} : batch'[a] = batch[a]
  BY <1>4, OneBatch
<1>6. ring' \in BOOLEAN
  BY <1>2, Typed
<1> QED
  BY <1>2, <1>4, <1>5, <1>6, BatchesTyped

\* A job is requested: a new row, unless an active one answers.
LEMMA QueueTallyDataJobTyped ==
    ASSUME TypeOK, ThreadsOK, NEW k \in Keys, QueueTallyDataJob(k)
    PROVE  /\ TypeOK' /\ ThreadsOK' /\ ring' = TRUE
           /\ UNCHANGED <<batchVars, settingVars, cache, book, check, lock, loopVars, faults>>
           /\ \/ UNCHANGED <<jobs, asked, thread>>
              \/ /\ ~Pending(jobs[k]) /\ jobs'[k].status = "queued"
                 /\ asked'[k] = book
                 /\ \A j \in Keys \ {k} : jobs'[j] = jobs[j] /\ asked'[j] = asked[j]
                 /\ \A t \in Threads :
                       \/ thread'[t] = thread[t]
                       \/ thread[t].key = k /\ thread'[t] = [thread[t] EXCEPT !.row = FALSE]
<1>1. /\ UNCHANGED batch /\ UNCHANGED line /\ UNCHANGED accepted /\ UNCHANGED disowned
      /\ UNCHANGED config /\ UNCHANGED enabled /\ UNCHANGED cache /\ UNCHANGED book
      /\ UNCHANGED lock /\ UNCHANGED loop /\ UNCHANGED wake /\ UNCHANGED mixed
      /\ UNCHANGED prefer /\ UNCHANGED crashes /\ UNCHANGED stops /\ UNCHANGED check
      /\ ring' = TRUE
      /\ UNCHANGED <<batchVars, settingVars, cache, book, check, lock, loopVars, faults>>
  BY DEF QueueTallyDataJob, batchVars, settingVars, loopVars, faults
<1>2. CASE k \in ToSet(queue)
  <2>1. /\ UNCHANGED jobs /\ UNCHANGED queue /\ UNCHANGED asked /\ UNCHANGED thread
        /\ UNCHANGED <<jobs, asked, thread>>
    BY <1>2 DEF QueueTallyDataJob
  <2>2. ThreadsOK'
    BY <2>1 DEF ThreadsOK, PassesAreWhole
  <2> QED
    BY <1>1, <2>1, <2>2, Typed, TypeFromParts
<1>3. CASE k \notin ToSet(queue)
  <2> DEFINE row == [status |-> "queued", stale |-> FALSE]
  <2>1. /\ jobs' = [jobs EXCEPT ![k] = row] /\ queue' = Append(queue, k)
        /\ asked' = [asked EXCEPT ![k] = book]
        /\ thread' = [t \in Threads |-> IF thread[t].key = k THEN [thread[t] EXCEPT !.row = FALSE]
                                        ELSE thread[t]]
    BY <1>3 DEF QueueTallyDataJob
  <2>2. row \in [status : WorkStatuses, stale : BOOLEAN] /\ row.status = "queued"
    BY DEF WorkStatuses
  <2> HIDE DEF row
  <2>3. /\ jobs' \in [Keys -> [status : WorkStatuses, stale : BOOLEAN]]
        /\ jobs'[k] = row /\ \A j \in Keys \ {k} : jobs'[j] = jobs[j]
    BY <2>1, <2>2, Typed
  <2>4. queue' \in Seq(Keys) /\ IsInjective(queue') /\ ToSet(queue') = ToSet(queue) \cup {k}
    BY <1>3, <2>1, Typed, AppendNew
  <2>5. ToSet(queue) = {j \in Keys : Pending(jobs[j])}
    BY Typed
  <2>6. ToSet(queue') = {j \in Keys : Pending(jobs'[j])}
    BY <2>2, <2>3, <2>4, <2>5 DEF Pending
  <2>7. asked' \in [Keys -> 0..MaxBooks] /\ asked'[k] = book
        /\ \A j \in Keys \ {k} : asked'[j] = asked[j]
    BY <2>1, Typed
  <2>8. ASSUME NEW t \in Threads
        PROVE  /\ thread'[t] \in Passes /\ WholePass(thread'[t])
               /\ \/ thread'[t] = thread[t]
                  \/ thread[t].key = k /\ thread'[t] = [thread[t] EXCEPT !.row = FALSE]
    <3> DEFINE p == [thread[t] EXCEPT !.row = FALSE]
    <3>1. thread[t] \in Passes /\ WholePass(thread[t])
      BY ThreadFacts
    <3>2. p \in Passes /\ p.pc = thread[t].pc /\ p.plan = thread[t].plan
          /\ p.batch = thread[t].batch /\ p.key = thread[t].key /\ p.reply = thread[t].reply
      BY <3>1 DEF Passes
    <3>3. thread'[t] = thread[t] \/ (thread[t].key = k /\ thread'[t] = p)
      BY <2>1
    <3> HIDE DEF p
    <3>4. WholePass(p)
      BY <3>1, <3>2 DEF WholePass
    <3> QED
      BY <3>1, <3>2, <3>3, <3>4 DEF p
  <2>9. ThreadsOK'
    <3>1. thread' \in [Threads -> Passes]
      BY <2>1, <2>8
    <3> QED
      BY <2>8, <3>1 DEF ThreadsOK, PassesAreWhole, WholePass
  <2> QED
    BY <1>1, <1>3, <2>2, <2>3, <2>4, <2>5, <2>6, <2>7, <2>8, <2>9, Typed, TypeFromParts
<1> QED
  BY <1>2, <1>3

LEMMA JobLeaseEndsTyped ==
    ASSUME TypeOK, ThreadsOK, NEW k \in Keys, JobLeaseEnds(k)
    PROVE  /\ TypeOK' /\ ThreadsOK'
           /\ \A j \in Keys : /\ jobs'[j].status = jobs[j].status
                              /\ Claimable(jobs[j]) => Claimable(jobs'[j])
<1>1. /\ UNCHANGED batch /\ UNCHANGED line /\ UNCHANGED accepted /\ UNCHANGED disowned
      /\ UNCHANGED config /\ UNCHANGED enabled /\ UNCHANGED queue /\ UNCHANGED ring
      /\ UNCHANGED asked /\ UNCHANGED cache /\ UNCHANGED book /\ UNCHANGED lock
      /\ UNCHANGED loop /\ UNCHANGED wake /\ UNCHANGED mixed /\ UNCHANGED prefer
      /\ UNCHANGED crashes /\ UNCHANGED stops /\ UNCHANGED check /\ UNCHANGED thread
  BY DEF JobLeaseEnds, batchVars, settingVars, loopVars, faults
<1>2. ThreadsOK'
  BY <1>1 DEF ThreadsOK, PassesAreWhole
<1> DEFINE row == [jobs[k] EXCEPT !.stale = TRUE]
<1>3. jobs' = [jobs EXCEPT ![k] = row] /\ jobs[k].status = "running"
  BY Typed DEF JobLeaseEnds
<1>4. row \in [status : WorkStatuses, stale : BOOLEAN] /\ row.status = "running" /\ row.stale
  BY <1>3, Typed
<1> HIDE DEF row
<1>5. /\ jobs' \in [Keys -> [status : WorkStatuses, stale : BOOLEAN]]
      /\ jobs'[k] = row /\ \A j \in Keys \ {k} : jobs'[j] = jobs[j]
  BY <1>3, <1>4, Typed
<1>6. \A j \in Keys : /\ jobs'[j].status = jobs[j].status
                      /\ Claimable(jobs[j]) => Claimable(jobs'[j])
  BY <1>3, <1>4, <1>5 DEF Claimable
<1>7. ToSet(queue) = {j \in Keys : Pending(jobs'[j])}
  BY <1>6, Typed DEF Pending
<1> QED
  BY <1>1, <1>2, <1>5, <1>6, <1>7, Typed, TypeFromParts

\* What the clock, the requests and the loop do apart from the batches, the jobs
\* and the passes.
LEMMA RestTyped ==
    ASSUME TypeOK, ThreadsOK,
           \/ QueueTallyGatewayCheck \/ NotifyRetryWorker \/ SettingsChange \/ TallyChanges
           \/ WakeUp \/ StartRetryWorker \/ CheckLeaseEnds
    PROVE  TypeOK' /\ ThreadsOK' /\ UNCHANGED <<batchVars, jobVars, thread, lock>>
<1>1. UNCHANGED <<batchVars, jobVars, thread, lock>>
  BY DEF QueueTallyGatewayCheck, NotifyRetryWorker, SettingsChange, SaveSettings,
         AutosaveSettings, SaveCompany, ActivateCompany, ApplySettings, TallyChanges, WakeUp,
         StartRetryWorker, CheckLeaseEnds
<1>2. /\ UNCHANGED batch /\ UNCHANGED line /\ UNCHANGED accepted /\ UNCHANGED disowned
      /\ UNCHANGED jobs /\ UNCHANGED queue /\ UNCHANGED asked /\ UNCHANGED cache
      /\ UNCHANGED thread /\ UNCHANGED lock
  BY <1>1 DEF batchVars, jobVars
<1>3. ThreadsOK'
  BY <1>2 DEF ThreadsOK, PassesAreWhole
<1>4. check' \in [id : 0..MaxChecks, status : WorkStatuses, stale : BOOLEAN]
  <2>0. check \in [id : 0..MaxChecks, status : WorkStatuses, stale : BOOLEAN]
    BY Typed
  <2>1. CASE QueueTallyGatewayCheck /\ ~Pending(check)
    <3>1. check' = [id |-> check.id + 1, status |-> "queued", stale |-> FALSE]
          /\ check.id < MaxChecks
      BY <2>1 DEF QueueTallyGatewayCheck
    <3>2. check.id \in 0..MaxChecks
      BY <2>0
    <3>3. check.id + 1 \in 0..MaxChecks
      BY <3>1, <3>2, BoundsAssumption
    <3> QED
      BY <3>1, <3>3 DEF WorkStatuses
  <2>2. CASE CheckLeaseEnds
    <3>1. check' = [check EXCEPT !.stale = TRUE]
      BY <2>2 DEF CheckLeaseEnds
    <3> QED
      BY <2>0, <3>1
  <2>3. CASE ~CheckLeaseEnds /\ ~(QueueTallyGatewayCheck /\ ~Pending(check))
    <3>1. UNCHANGED check
      BY <2>3 DEF QueueTallyGatewayCheck, NotifyRetryWorker, SettingsChange, SaveSettings,
                  AutosaveSettings, SaveCompany, ActivateCompany, ApplySettings, TallyChanges,
                  WakeUp, StartRetryWorker
    <3> QED
      BY <2>0, <3>1
  <2> QED
    BY <2>1, <2>2, <2>3
<1>5. config' \in Versions /\ enabled' \in BOOLEAN
  <2>0. config \in Versions /\ enabled \in BOOLEAN
    BY Typed
  <2>1. CASE SettingsChange
    <3>1. config < MaxSettings /\ config' = config + 1 /\ enabled' \in {TRUE, FALSE, enabled}
      BY <2>1 DEF SettingsChange, SaveSettings, AutosaveSettings, SaveCompany,
                  ActivateCompany, ApplySettings
    <3>2. config' \in Versions
      BY <2>0, <3>1, BoundsAssumption DEF Versions
    <3> QED
      BY <2>0, <3>1, <3>2
  <2>2. CASE ~SettingsChange
    <3>1. UNCHANGED <<config, enabled>>
      BY <2>2 DEF QueueTallyGatewayCheck, NotifyRetryWorker, TallyChanges, WakeUp,
                  StartRetryWorker, CheckLeaseEnds, settingVars
    <3> QED
      BY <2>0, <3>1
  <2> QED
    BY <2>1, <2>2
<1>6. book' \in 0..MaxBooks
  <2>0. book \in 0..MaxBooks
    BY Typed
  <2>1. CASE TallyChanges
    BY <2>0, <2>1, BoundsAssumption DEF TallyChanges
  <2>2. CASE ~TallyChanges
    <3>1. UNCHANGED book
      BY <2>2 DEF QueueTallyGatewayCheck, NotifyRetryWorker, SettingsChange, SaveSettings,
                  AutosaveSettings, SaveCompany, ActivateCompany, ApplySettings, WakeUp,
                  StartRetryWorker, CheckLeaseEnds
    <3> QED
      BY <2>0, <3>1
  <2> QED
    BY <2>1, <2>2
<1>7. UNCHANGED <<crashes, stops, prefer>>
  BY DEF QueueTallyGatewayCheck, NotifyRetryWorker, SettingsChange, SaveSettings,
         AutosaveSettings, SaveCompany, ActivateCompany, ApplySettings, TallyChanges, WakeUp,
         StartRetryWorker, CheckLeaseEnds, loopVars, faults
<1>8. loop' \in {"scan", loop} /\ wake' \in {TRUE, wake} /\ ring' \in {TRUE, FALSE, ring}
  BY DEF QueueTallyGatewayCheck, NotifyRetryWorker, SettingsChange, SaveSettings,
         AutosaveSettings, SaveCompany, ActivateCompany, ApplySettings, TallyChanges, WakeUp,
         StartRetryWorker, CheckLeaseEnds, loopVars
<1>9. mixed' \in BOOLEAN
  <2>1. CASE StartRetryWorker
    <3>1. mixed' = (mixed \/ Running("orphan"))
      BY <2>1 DEF StartRetryWorker
    <3>2. (mixed \/ Running("orphan")) \in BOOLEAN
      BY Zenon
    <3> QED
      BY <3>1, <3>2
  <2>2. CASE ~StartRetryWorker
    <3>1. UNCHANGED mixed
      BY <2>2 DEF QueueTallyGatewayCheck, NotifyRetryWorker, SettingsChange, SaveSettings,
                  AutosaveSettings, SaveCompany, ActivateCompany, ApplySettings, TallyChanges,
                  WakeUp, CheckLeaseEnds, faults
    <3> QED
      BY <3>1, Typed
  <2> QED
    BY <2>1, <2>2
<1>10. /\ loop' \in {"scan", "rescan", "wait", "off"} /\ wake' \in BOOLEAN /\ ring' \in BOOLEAN
       /\ prefer' \in BOOLEAN /\ crashes' \in 0..MaxCrashes /\ stops' \in 0..MaxStops
  BY <1>7, <1>8, Typed
<1>11. /\ batch' \in [Batches -> BatchRows] /\ line' \in Seq(Batches) /\ IsInjective(line')
       /\ accepted' \in [Batches -> SUBSET Versions] /\ disowned' \subseteq Batches
       /\ jobs' \in [Keys -> [status : WorkStatuses, stale : BOOLEAN]]
       /\ queue' \in Seq(Keys) /\ IsInjective(queue')
       /\ ToSet(queue') = {k \in Keys : Pending(jobs'[k])}
       /\ asked' \in [Keys -> 0..MaxBooks] /\ cache' \in [Keys -> 0..MaxBooks]
       /\ lock' \in Threads \cup {"free"}
  BY <1>2, Typed
<1>12. TypeOK'
  BY <1>3, <1>4, <1>5, <1>6, <1>9, <1>10, <1>11, TypeFromParts
<1> QED
  BY <1>1, <1>3, <1>12

LEMMA LoopTyped ==
    ASSUME TypeOK, ThreadsOK', lock' \in Threads \cup {"free"},
           loop' \in {"scan", "rescan", "wait", "off"},
           prefer' \in BOOLEAN, wake' \in BOOLEAN, ring' \in BOOLEAN,
           crashes' \in 0..MaxCrashes, stops' \in 0..MaxStops,
           UNCHANGED <<batchVars, settingVars, jobVars, book, check, mixed>>
    PROVE  TypeOK'
<1>1. /\ UNCHANGED batch /\ UNCHANGED line /\ UNCHANGED accepted /\ UNCHANGED disowned
      /\ UNCHANGED config /\ UNCHANGED enabled /\ UNCHANGED jobs /\ UNCHANGED queue
      /\ UNCHANGED asked /\ UNCHANGED cache /\ UNCHANGED book /\ UNCHANGED check
      /\ UNCHANGED mixed
  BY DEF batchVars, settingVars, jobVars
<1> QED
  BY <1>1, Typed, TypeFromParts

LEMMA StartPassTyped ==
    ASSUME TypeOK, ThreadsOK, StartPass
    PROVE  /\ TypeOK' /\ ThreadsOK' /\ Others("pass")
           /\ thread'["pass"].pc = "check" /\ loop \in {"scan", "rescan"}
<1>1. Step("pass", "check") /\ "pass" \in Threads
      /\ WholePass([thread["pass"] EXCEPT !.pc = "check"])
  BY ThreadFacts DEF StartPass, Threads, WholePass, Passes
<1>2. ThreadsOK' /\ Others("pass") /\ thread'["pass"].pc = "check"
  BY <1>1, StepMoves DEF Pcs, Others
<1>3. /\ UNCHANGED <<batchVars, settingVars, jobVars, book, check, mixed>>
      /\ UNCHANGED lock /\ UNCHANGED loop /\ UNCHANGED prefer /\ UNCHANGED wake
      /\ UNCHANGED ring /\ UNCHANGED crashes /\ UNCHANGED stops
  BY DEF StartPass, loopVars, faults
<1> QED
  BY <1>2, <1>3, Typed, LoopTyped DEF StartPass

LEMMA EndPassTyped ==
    ASSUME TypeOK, ThreadsOK, EndPass
    PROVE  TypeOK' /\ ThreadsOK' /\ Others("pass") /\ thread'["pass"] = Idle
<1>1. thread' = [thread EXCEPT !["pass"] = Idle] /\ "pass" \in Threads
  BY DEF EndPass, Threads
<1>2. ThreadsOK' /\ Others("pass") /\ thread'["pass"] = Idle
  BY <1>1, IdleTyped, OneMoves DEF Others
<1>3. /\ UNCHANGED <<batchVars, settingVars, jobVars, book, check, mixed>>
      /\ UNCHANGED lock /\ UNCHANGED prefer
      /\ UNCHANGED ring /\ UNCHANGED crashes /\ UNCHANGED stops
      /\ loop' \in {"scan", "rescan", "wait"} /\ wake' \in {FALSE, wake}
  BY DEF EndPass, faults
<1> QED
  BY <1>2, <1>3, Typed, LoopTyped

\* Every pass is idle after a crash.
LEMMA CrashTyped ==
    ASSUME TypeOK, ThreadsOK, Crash
    PROVE  TypeOK' /\ ThreadsOK' /\ \A t \in Threads : thread'[t] = Idle
<1>1. thread' = [t \in Threads |-> Idle]
  BY DEF Crash
<1>2. ThreadsOK' /\ \A t \in Threads : thread'[t] = Idle
  BY <1>1, IdleTyped DEF ThreadsOK, PassesAreWhole, WholePass
<1>3. /\ UNCHANGED <<batchVars, settingVars, jobVars, book, check, mixed>>
      /\ UNCHANGED stops /\ lock' = "free" /\ loop' = "scan" /\ prefer' = TRUE
      /\ wake' = FALSE /\ ring' = FALSE /\ crashes < MaxCrashes /\ crashes' = crashes + 1
  BY DEF Crash
<1>4. crashes' \in 0..MaxCrashes
  BY <1>3, Typed, BoundsAssumption
<1> QED
  BY <1>2, <1>3, <1>4, Typed, LoopTyped

\* The pass of the loop becomes the orphan.
LEMMA StopTyped ==
    ASSUME TypeOK, ThreadsOK, StopRetryWorker
    PROVE  /\ TypeOK' /\ ThreadsOK'
           /\ thread["orphan"] = Idle /\ thread'["pass"] = Idle
           /\ thread'["orphan"] = IF Running("pass") THEN thread["pass"] ELSE Idle
<1>1. thread' = [pass |-> Idle, orphan |-> IF Running("pass") THEN thread["pass"] ELSE Idle]
      /\ thread["orphan"] = Idle
  BY DEF StopRetryWorker
<1>2. /\ thread'["pass"] = Idle /\ DOMAIN thread' = Threads
      /\ thread'["orphan"] = IF Running("pass") THEN thread["pass"] ELSE Idle
  BY <1>1 DEF Threads
<1>3. \A t \in Threads : thread'[t] \in Passes /\ WholePass(thread'[t])
  BY <1>2, ThreadFacts, IdleTyped DEF Threads
<1>4. thread' \in [Threads -> Passes]
  <2>1. thread' = [t \in Threads |-> thread'[t]]
    BY <1>1, <1>2 DEF Threads
  <2> QED
    BY <1>3, <2>1
<1>5. ThreadsOK'
  BY <1>3, <1>4 DEF ThreadsOK, PassesAreWhole, WholePass
<1>6. /\ UNCHANGED <<batchVars, settingVars, jobVars, book, check, mixed>>
      /\ lock' \in {"orphan", lock} /\ UNCHANGED prefer /\ loop' = "off" /\ wake' = FALSE
      /\ UNCHANGED ring /\ UNCHANGED crashes /\ stops < MaxStops /\ stops' = stops + 1
  BY DEF StopRetryWorker
<1>7. stops' \in 0..MaxStops
  BY <1>6, Typed, BoundsAssumption
<1>8. lock' \in Threads \cup {"free"}
  BY <1>6, Typed DEF Threads
<1> QED
  BY <1>1, <1>2, <1>5, <1>6, <1>7, <1>8, Typed, LoopTyped

\* The kinds of steps.
LEMMA StepKinds ==
    ASSUME [Next]_vars
    PROVE  \/ \E t \in Threads : Pass(t)
           \/ \E b \in Batches : SubmitBatch(b) \/ RetryBatch(b) \/ CooldownEnds(b)
                                 \/ SyncLeaseEnds(b)
           \/ \E k \in Keys : QueueTallyDataJob(k)
           \/ \E k \in Keys : JobLeaseEnds(k)
           \/ QueueTallyGatewayCheck \/ NotifyRetryWorker \/ SettingsChange \/ TallyChanges
              \/ WakeUp \/ StartRetryWorker \/ CheckLeaseEnds
           \/ StartPass \/ EndPass \/ StopRetryWorker \/ Crash
           \/ UNCHANGED vars
BY Zenon DEF Next, Requests, Loop, Clock

LEMMA StutterFacts ==
    ASSUME UNCHANGED vars
    PROVE  UNCHANGED <<batch, line, accepted, disowned, config, enabled, jobs, queue, asked,
                       book, cache, check, thread, lock, loop, prefer, wake, ring, mixed,
                       crashes, stops>>
BY DEF vars, batchVars, settingVars, jobVars, loopVars, faults

LEMMA TypeStep ==
    ASSUME TypeOK, PassesAreWhole, PostsUnderLock, [Next]_vars
    PROVE  TypeOK' /\ PassesAreWhole'
<1>0. ThreadsOK
  BY DEF ThreadsOK, TypeOK
<1>1. CASE \E t \in Threads : Pass(t)
  BY <1>0, <1>1, PassTyped DEF ThreadsOK
<1>2. CASE \E b \in Batches : SubmitBatch(b) \/ RetryBatch(b) \/ CooldownEnds(b)
                              \/ SyncLeaseEnds(b)
  BY <1>0, <1>2, BatchRequests DEF ThreadsOK
<1>3. CASE \E k \in Keys : QueueTallyDataJob(k)
  BY <1>0, <1>3, QueueTallyDataJobTyped DEF ThreadsOK
<1>4. CASE \E k \in Keys : JobLeaseEnds(k)
  BY <1>0, <1>4, JobLeaseEndsTyped DEF ThreadsOK
<1>5. CASE \/ QueueTallyGatewayCheck \/ NotifyRetryWorker \/ SettingsChange \/ TallyChanges
           \/ WakeUp \/ StartRetryWorker \/ CheckLeaseEnds
  BY <1>0, <1>5, RestTyped DEF ThreadsOK
<1>6. CASE StartPass \/ EndPass \/ StopRetryWorker \/ Crash
  BY <1>0, <1>6, StartPassTyped, EndPassTyped, StopTyped, CrashTyped DEF ThreadsOK
<1>7. CASE UNCHANGED vars
  <2>1. ThreadsOK'
    BY <1>0, <1>7, StutterFacts DEF ThreadsOK, PassesAreWhole
  <2>2. TypeOK'
    BY <1>7, <2>1, StutterFacts, Typed, TypeFromParts
  <2> QED
    BY <2>1, <2>2 DEF ThreadsOK
<1> QED
  BY <1>1, <1>2, <1>3, <1>4, <1>5, <1>6, <1>7, StepKinds

-----------------------------------------------------------------------------
(* Who runs beside whom. *)

\* A pass that has not met another loop is alone.
LEMMA Alone ==
    ASSUME OneAtATime, ~mixed, NEW t \in Threads, Running(t), NEW u \in Threads \ {t}
    PROVE  ~Running(u)
BY DEF OneAtATime, Threads, Running, At

\* Whatever an orphan does, no loop runs that waits for it.
LEMMA OrphanAlone ==
    ASSUME OneAtATime, ~mixed, Running("orphan")
    PROVE  loop = "off"
BY DEF OneAtATime

LEMMA OneAtATimeStep ==
    ASSUME TypeOK, PassesAreWhole, PostsUnderLock, OneAtATime, [Next]_vars
    PROVE  OneAtATime'
<1>0. ThreadsOK
  BY DEF ThreadsOK, TypeOK
<1> USE DEF Threads
<1>1. ASSUME NEW t \in Threads, Pass(t) PROVE OneAtATime'
  <2>1. Running(t) /\ UNCHANGED <<loop, mixed>> /\ Others(t)
    BY <1>0, <1>1, PassRuns, PassTyped
  <2>2. CASE t = "pass"
    BY <2>1, <2>2 DEF OneAtATime, Others, Running, At
  <2>3. CASE t = "orphan"
    BY <2>1, <2>3 DEF OneAtATime, Others, Running, At
  <2> QED
    BY <2>2, <2>3
<1>2. ASSUME NEW b \in Batches,
             SubmitBatch(b) \/ RetryBatch(b) \/ CooldownEnds(b) \/ SyncLeaseEnds(b)
      PROVE  OneAtATime'
  <2>1. UNCHANGED <<thread, loop, mixed>>
    BY <1>0, <1>2, BatchRequests DEF loopVars, faults
  <2> QED
    BY <2>1 DEF OneAtATime, Running, At
<1>3. ASSUME NEW k \in Keys, QueueTallyDataJob(k) PROVE OneAtATime'
  <2>1. UNCHANGED <<loop, mixed>>
    BY <1>0, <1>3, QueueTallyDataJobTyped DEF loopVars, faults
  <2>2. \A t \in Threads : thread'[t].pc = thread[t].pc
    <3> SUFFICES ASSUME NEW t \in Threads PROVE thread'[t].pc = thread[t].pc
      OBVIOUS
    <3>1. thread'[t] = thread[t] \/ thread'[t] = [thread[t] EXCEPT !.row = FALSE]
      BY <1>0, <1>3, QueueTallyDataJobTyped
    <3>2. [thread[t] EXCEPT !.row = FALSE].pc = thread[t].pc
      BY <1>0, ThreadFacts DEF Passes
    <3> QED
      BY <3>1, <3>2
  <2> QED
    BY <2>1, <2>2 DEF OneAtATime, Running, At
<1>4. ASSUME NEW k \in Keys, JobLeaseEnds(k) PROVE OneAtATime'
  <2>1. UNCHANGED <<thread, loop, mixed>>
    BY <1>4 DEF JobLeaseEnds, loopVars, faults
  <2> QED
    BY <2>1 DEF OneAtATime, Running, At
<1>5. CASE QueueTallyGatewayCheck \/ NotifyRetryWorker \/ SettingsChange \/ TallyChanges
           \/ CheckLeaseEnds
  <2>1. UNCHANGED <<thread, loop, mixed>>
    BY <1>5 DEF QueueTallyGatewayCheck, NotifyRetryWorker, SettingsChange, SaveSettings,
       AutosaveSettings, SaveCompany, ActivateCompany, ApplySettings, TallyChanges,
       CheckLeaseEnds, loopVars, faults
  <2> QED
    BY <2>1 DEF OneAtATime, Running, At
<1>6. CASE WakeUp
  <2>1. UNCHANGED <<thread, mixed>> /\ loop = "wait" /\ loop' = "scan"
    BY <1>6 DEF WakeUp, faults
  <2> QED
    BY <2>1 DEF OneAtATime, Running, At
<1>7. CASE StartRetryWorker
  <2>1. UNCHANGED thread /\ loop' = "scan" /\ mixed' = (mixed \/ Running("orphan"))
    BY <1>7 DEF StartRetryWorker
  <2>2. Running("orphan")' => mixed'
    BY <2>1, Zenon DEF Running
  <2> QED
    BY <2>1, <2>2 DEF OneAtATime
<1>8. CASE StartPass
  <2>1. UNCHANGED <<loop, mixed>> /\ Others("pass") /\ loop \in {"scan", "rescan"}
    BY <1>0, <1>8, StartPassTyped DEF StartPass, loopVars, faults
  <2> QED
    BY <2>1 DEF OneAtATime, Running, At, Others
<1>9. CASE EndPass
  <2>1. UNCHANGED mixed /\ Others("pass") /\ thread'["pass"] = Idle
        /\ thread["pass"].pc \in {"done", "empty"}
    BY <1>0, <1>9, EndPassTyped DEF EndPass, faults
  <2>2. loop \notin {"wait", "off"}
    BY <2>1 DEF OneAtATime, At
  <2> QED
    BY <2>1, <2>2, IdleTyped DEF OneAtATime, Running, At, Others
<1>10. CASE StopRetryWorker
  BY <1>0, <1>10, StopTyped, IdleTyped DEF StopRetryWorker, OneAtATime, At
<1>11. CASE Crash
  <2>1. loop' = "scan" /\ \A t \in Threads : thread'[t] = Idle
    BY <1>0, <1>11, CrashTyped DEF Crash
  <2> QED
    BY <2>1, IdleTyped DEF OneAtATime, At, Running
<1>12. CASE UNCHANGED vars
  BY <1>12, StutterFacts DEF OneAtATime, At, Running
<1> QED
  BY <1>1, <1>2, <1>3, <1>4, <1>5, <1>6, <1>7, <1>8, <1>9, <1>10, <1>11, <1>12, StepKinds

-----------------------------------------------------------------------------
(* The vouchers. *)

\* What a pass knows of its batch.
SameVoucher(p, q) ==
    p.pc = q.pc /\ p.batch = q.batch /\ p.seen = q.seen /\ p.saw = q.saw /\ p.reply = q.reply

\* A step apart from the batches, their vouchers and the lock.
LEMMA VoucherFrame ==
    ASSUME VoucherInv, UNCHANGED <<batch, accepted, disowned, lock>>, mixed => mixed',
           \A u \in Threads : thread'[u].pc \in {"sync", "post", "posted"} =>
               SameVoucher(thread'[u], thread[u])
    PROVE  VoucherInv'
<1>1. PostsUnderLock'
  <2> SUFFICES ASSUME NEW t \in Threads
               PROVE  LET b == thread'[t].batch
                      IN  /\ thread'[t].pc \in {"post", "posted"} =>
                                lock' = t /\ batch'[b].status = "SYNCING" /\ batch'[b].xml # NoXml
                          /\ thread'[t].pc = "posted" /\ thread'[t].reply = "imported" =>
                                batch'[b].xml \in accepted'[b]
                          /\ thread'[t].pc = "posted"
                                /\ thread'[t].reply \in {"unreadable", "rejected"} =>
                                accepted'[b] = {} \/ b \in disowned'
    BY DEF PostsUnderLock
  <2>1. CASE thread'[t].pc \in {"post", "posted"}
    <3>1. SameVoucher(thread'[t], thread[t])
      BY <2>1
    <3> QED
      BY <2>1, <3>1 DEF SameVoucher, VoucherInv, PostsUnderLock
  <2>2. CASE thread'[t].pc \notin {"post", "posted"}
    BY <2>2
  <2> QED
    BY <2>1, <2>2
<1>2. SyncedIsInTally' /\ PayloadIsFrozen'
  BY DEF VoucherInv, SyncedIsInTally, PayloadIsFrozen
<1>3. LoadedIsCurrent'
  BY DEF VoucherInv, LoadedIsCurrent, SameVoucher
<1> QED
  BY <1>1, <1>2, <1>3 DEF VoucherInv

\* Nobody posts without the lock.
LEMMA NobodyPosts ==
    ASSUME PostsUnderLock, NEW t \in Threads, lock # t
    PROVE  thread[t].pc \notin {"post", "posted"}
BY DEF PostsUnderLock

LEMMA SelectBatchVouchers ==
    ASSUME IInv, NEW t \in Threads, SelectBatch(t)
    PROVE  VoucherInv'
<1>0. ThreadsOK /\ TypeOK /\ VoucherInv
  BY DEF IInv, ThreadsOK, TypeOK
<1>1. Others(t) /\ ThreadsOK'
  BY <1>0, SelectBatchMoves
<1>2. UNCHANGED <<batch, accepted, disowned, lock, mixed>>
  BY DEF SelectBatch, batchVars, faults
<1>3. CASE thread'[t].pc \notin {"sync", "post", "posted"}
  BY <1>0, <1>1, <1>2, <1>3, VoucherFrame DEF Others, SameVoucher
<1>4. CASE thread'[t].pc \in {"sync", "post", "posted"}
  <2>1. PICK b \in Batches :
           /\ Due(b) /\ thread'[t].pc = "sync" /\ thread'[t].batch = b
           /\ thread'[t].seen = batch[b].xml /\ thread'[t].saw = batch[b].status
    BY <1>0, <1>4, SelectBatchMoves
  <2>2. PostsUnderLock'
    BY <1>0, <1>1, <1>2, <2>1 DEF VoucherInv, PostsUnderLock, Others
  <2>3. SyncedIsInTally' /\ PayloadIsFrozen'
    BY <1>0, <1>2 DEF VoucherInv, SyncedIsInTally, PayloadIsFrozen
  <2>4. LoadedIsCurrent'
    BY <1>0, <1>1, <1>2, <2>1 DEF VoucherInv, LoadedIsCurrent, Others, Due
  <2> QED
    BY <2>2, <2>3, <2>4 DEF VoucherInv
<1> QED
  BY <1>3, <1>4

\* A batch that Tally holds is not built anew by a pass that is alone.
LEMMA PayloadKept ==
    ASSUME IInv, NEW t \in Threads, thread[t].pc = "sync", ~mixed, NEW b \in Batches,
           b = thread[t].batch, accepted[b] # {}, b \notin disowned
    PROVE  Payload(t, b) = batch[b].xml
<1>1. batch[b].status = thread[t].saw /\ batch[b].xml = thread[t].seen
  BY DEF IInv, VoucherInv, LoadedIsCurrent
<1>2. batch[b].status \in {"PENDING_SYNC", "SYNCING", "SYNCED"} /\ batch[b].xml # NoXml
  BY DEF IInv, VoucherInv, PayloadIsFrozen
<1> QED
  BY <1>1, <1>2 DEF Payload, MustBuild, Stored

LEMMA SyncBatchVouchers ==
    ASSUME IInv, NEW t \in Threads, SyncBatch(t)
    PROVE  VoucherInv'
<1> DEFINE b == thread[t].batch
<1>0. ThreadsOK /\ TypeOK /\ VoucherInv /\ OneAtATime
  BY DEF IInv, ThreadsOK, TypeOK
<1>1. /\ Others(t) /\ b \in Batches /\ \A a \in Batches \ {b} : batch'[a] = batch[a]
      /\ SyncReturns(t) \/ SyncGivesUp(t) \/ SyncClaims(t)
  BY <1>0, SyncBatchMoves
<1>2. /\ UNCHANGED <<accepted, disowned, mixed>> /\ lock = "free"
      /\ thread[t].pc = "sync"
  BY DEF SyncBatch, faults, At
<1>3. \A u \in Threads : thread[u].pc \notin {"post", "posted"}
  BY <1>0, <1>2, NobodyPosts DEF VoucherInv, Threads
<1>4. ~mixed => \A u \in Threads \ {t} : thread[u].pc # "sync"
  BY <1>0, <1>2, Alone DEF Running
<1>5. Payload(t, b) \in Versions /\ Payload(t, b) # NoXml
  BY <1>0, <1>1, PayloadTyped DEF Versions, NoXml
<1>6. thread'[t].pc # "sync"
  BY <1>1 DEF SyncReturns, SyncGivesUp, SyncClaims
<1>7. \A u \in Threads \ {t} : thread'[u] = thread[u]
  BY <1>1 DEF Others
<1>8. PostsUnderLock'
  <2>1. CASE SyncClaims(t)
    BY <1>3, <1>5, <1>7, <2>1 DEF PostsUnderLock, SyncClaims
  <2>2. CASE SyncReturns(t) \/ SyncGivesUp(t)
    <3>1. thread'[t].pc \notin {"post", "posted"}
      BY <2>2 DEF SyncReturns, SyncGivesUp
    <3> QED
      BY <1>3, <1>7, <3>1 DEF PostsUnderLock
  <2> QED
    BY <1>1, <2>1, <2>2
<1>9. LoadedIsCurrent'
  BY <1>2, <1>4, <1>6, <1>7 DEF LoadedIsCurrent
<1>10. SyncedIsInTally'
  <2>1. batch'[b].status = "SYNCED" => batch'[b] = batch[b]
    BY <1>1 DEF SyncReturns, SyncGivesUp, SyncClaims
  <2> QED
    BY <1>0, <1>1, <1>2, <2>1 DEF VoucherInv, SyncedIsInTally
<1>11. PayloadIsFrozen'
  <2> SUFFICES ASSUME ~mixed, accepted[b] # {}, b \notin disowned
               PROVE  /\ batch'[b].status \in {"PENDING_SYNC", "SYNCING", "SYNCED"}
                      /\ batch'[b].xml # NoXml /\ accepted[b] = {batch'[b].xml}
    BY <1>0, <1>1, <1>2 DEF VoucherInv, PayloadIsFrozen
  <2>1. /\ batch[b].status \in {"PENDING_SYNC", "SYNCING", "SYNCED"}
        /\ batch[b].xml # NoXml /\ accepted[b] = {batch[b].xml}
    BY <1>0, <1>1 DEF VoucherInv, PayloadIsFrozen
  <2>2. Payload(t, b) = batch[b].xml
    BY <1>1, <1>2, PayloadKept
  <2> QED
    BY <1>1, <2>1, <2>2 DEF SyncReturns, SyncGivesUp, SyncClaims
<1> QED
  BY <1>8, <1>9, <1>10, <1>11 DEF VoucherInv

LEMMA PostToTallyVouchers ==
    ASSUME IInv, NEW t \in Threads, PostToTally(t)
    PROVE  VoucherInv'
<1> DEFINE b == thread[t].batch
           x == batch[b].xml
<1>0. ThreadsOK /\ TypeOK /\ VoucherInv /\ OneAtATime
  BY DEF IInv, ThreadsOK, TypeOK
<1>1. x \in Versions
  BY <1>0, PostToTallyTyped DEF VoucherInv
<1>2. /\ Others(t) /\ b \in Batches
      /\ thread'[t].pc = "posted" /\ thread'[t].batch = b
      /\ \A a \in Batches \ {b} : accepted'[a] = accepted[a]
      /\ disowned \subseteq disowned' /\ disowned' \subseteq disowned \cup {b}
      /\ accepted'[b] \in {accepted[b], accepted[b] \cup {x}}
      /\ thread'[t].reply = "imported" => accepted'[b] = accepted[b] \cup {x}
      /\ thread'[t].reply \in {"unreadable", "rejected"} => accepted'[b] = {} \/ b \in disowned'
  BY <1>0, <1>1, PostToTallyMoves
<1>3. UNCHANGED <<batch, lock, mixed>> /\ thread[t].pc = "post"
  BY DEF PostToTally, At
<1>4. lock = t /\ batch[b].status = "SYNCING" /\ x # NoXml
  BY <1>0, <1>3 DEF VoucherInv, PostsUnderLock
<1>5. \A u \in Threads \ {t} : thread'[u] = thread[u] /\ thread[u].pc \notin {"post", "posted"}
  BY <1>0, <1>2, <1>4, NobodyPosts DEF Others, VoucherInv
<1> HIDE DEF b
<1>6. PostsUnderLock'
  BY <1>2, <1>3, <1>4, <1>5 DEF PostsUnderLock, b
<1>7. LoadedIsCurrent'
  BY <1>0, <1>2, <1>3, <1>5 DEF VoucherInv, LoadedIsCurrent
<1>8. SyncedIsInTally'
  BY <1>0, <1>2, <1>3, <1>4 DEF VoucherInv, SyncedIsInTally
<1>9. PayloadIsFrozen'
  <2> SUFFICES ASSUME ~mixed, NEW a \in Batches, accepted'[a] # {}, a \notin disowned'
               PROVE  /\ batch[a].status \in {"PENDING_SYNC", "SYNCING", "SYNCED"}
                      /\ batch[a].xml # NoXml /\ accepted'[a] = {batch[a].xml}
    BY <1>3 DEF PayloadIsFrozen
  <2>1. CASE a = b
    <3>1. b \notin disowned /\ (accepted[b] = {} \/ accepted[b] = {x})
      BY <1>0, <1>2, <2>1 DEF VoucherInv, PayloadIsFrozen
    <3> QED
      BY <1>2, <1>4, <2>1, <3>1
  <2>2. CASE a # b
    BY <1>0, <1>2, <2>2 DEF VoucherInv, PayloadIsFrozen
  <2> QED
    BY <2>1, <2>2
<1> QED
  BY <1>6, <1>7, <1>8, <1>9 DEF VoucherInv

LEMMA FinishSyncVouchers ==
    ASSUME IInv, NEW t \in Threads, FinishSync(t)
    PROVE  VoucherInv'
<1> DEFINE b == thread[t].batch
           r == thread[t].reply
<1>0. ThreadsOK /\ TypeOK /\ VoucherInv /\ OneAtATime
  BY DEF IInv, ThreadsOK, TypeOK
<1>1. /\ Others(t) /\ b \in Batches
      /\ thread'[t].pc \notin {"sync", "post", "posted"}
      /\ \A a \in Batches \ {b} : batch'[a] = batch[a]
      /\ \/ batch'[b] = batch[b]
         \/ r # "cut" /\ batch'[b].xml = batch[b].xml /\ batch'[b].status = Outcome(r)
  BY <1>0, FinishSyncMoves
<1>2. /\ UNCHANGED <<accepted, disowned, mixed>> /\ lock' = "free" /\ thread[t].pc = "posted"
  BY DEF FinishSync, faults, At
<1>3. /\ lock = t /\ batch[b].status = "SYNCING" /\ batch[b].xml # NoXml
      /\ r = "imported" => batch[b].xml \in accepted[b]
      /\ r \in {"unreadable", "rejected"} => accepted[b] = {} \/ b \in disowned
  BY <1>0, <1>2 DEF VoucherInv, PostsUnderLock
<1>4. \A u \in Threads \ {t} : thread'[u] = thread[u] /\ thread[u].pc \notin {"post", "posted"}
  BY <1>0, <1>1, <1>3, NobodyPosts DEF Others, VoucherInv
<1>5. r \in {"imported", "rejected", "lost", "unreadable", "cut"}
  BY <1>0, <1>2, ThreadFacts, AnswersAssumption DEF WholePass
<1>6. \/ batch'[b] = batch[b]
      \/ /\ batch'[b].xml = batch[b].xml
         /\ \/ batch'[b].status = "SYNCED" /\ batch[b].xml \in accepted[b]
            \/ batch'[b].status = "PENDING_SYNC"
            \/ batch'[b].status = "FAILED" /\ (accepted[b] = {} \/ b \in disowned)
  BY <1>1, <1>3, <1>5 DEF Outcome
<1> HIDE DEF b, r
<1>7. PostsUnderLock'
  BY <1>1, <1>4 DEF PostsUnderLock
<1>8. LoadedIsCurrent'
  <2>1. ~mixed => \A u \in Threads \ {t} : thread[u].pc # "sync"
    BY <1>0, <1>2, Alone DEF Running
  <2> QED
    BY <1>1, <1>2, <1>4, <2>1 DEF LoadedIsCurrent
<1>9. SyncedIsInTally'
  BY <1>0, <1>1, <1>2, <1>3, <1>6 DEF VoucherInv, SyncedIsInTally
<1>10. PayloadIsFrozen'
  <2> SUFFICES ASSUME ~mixed, NEW a \in Batches, accepted[a] # {}, a \notin disowned
               PROVE  /\ batch'[a].status \in {"PENDING_SYNC", "SYNCING", "SYNCED"}
                      /\ batch'[a].xml # NoXml /\ accepted[a] = {batch'[a].xml}
    BY <1>2 DEF PayloadIsFrozen
  <2>1. /\ batch[a].status \in {"PENDING_SYNC", "SYNCING", "SYNCED"}
        /\ batch[a].xml # NoXml /\ accepted[a] = {batch[a].xml}
    BY <1>0 DEF VoucherInv, PayloadIsFrozen
  <2> QED
    BY <1>1, <1>6, <2>1
<1> QED
  BY <1>7, <1>8, <1>9, <1>10 DEF VoucherInv

\* Requests and the clock: only a rejected batch loses its payload.
LEMMA BatchRequestVouchers ==
    ASSUME IInv, NEW b \in Batches,
           SubmitBatch(b) \/ RetryBatch(b) \/ CooldownEnds(b) \/ SyncLeaseEnds(b)
    PROVE  VoucherInv'
<1>0. ThreadsOK /\ TypeOK /\ VoucherInv
  BY DEF IInv, ThreadsOK, TypeOK
<1>1. /\ UNCHANGED <<accepted, disowned, thread, lock, mixed>>
      /\ \A a \in Batches \ {b} : batch'[a] = batch[a]
      /\ \/ batch[b].status = "DRAFT" /\ batch'[b].status = "SUBMITTED"
            /\ batch'[b].xml = batch[b].xml
         \/ batch[b].status = "FAILED" /\ batch'[b].status = "PENDING_SYNC"
         \/ batch'[b].status = batch[b].status /\ batch'[b].xml = batch[b].xml
  BY <1>0, BatchRequests DEF faults
<1>2. PostsUnderLock'
  <2> SUFFICES ASSUME NEW t \in Threads, thread[t].pc \in {"post", "posted"}
               PROVE  LET a == thread[t].batch
                      IN  /\ lock = t /\ batch'[a].status = "SYNCING" /\ batch'[a].xml # NoXml
                          /\ thread[t].pc = "posted" /\ thread[t].reply = "imported" =>
                                batch'[a].xml \in accepted[a]
                          /\ thread[t].pc = "posted"
                                /\ thread[t].reply \in {"unreadable", "rejected"} =>
                                accepted[a] = {} \/ a \in disowned
    BY <1>1 DEF PostsUnderLock
  <2>1. batch[thread[t].batch].status = "SYNCING" /\ thread[t].batch \in Batches
    BY <1>0, ThreadFacts DEF VoucherInv, PostsUnderLock, WholePass
  <2>2. /\ batch'[thread[t].batch].status = "SYNCING"
        /\ batch'[thread[t].batch].xml = batch[thread[t].batch].xml
    BY <1>1, <2>1
  <2> QED
    BY <1>0, <2>2 DEF VoucherInv, PostsUnderLock
<1>3. LoadedIsCurrent'
  <2> SUFFICES ASSUME ~mixed, NEW t \in Threads, thread[t].pc = "sync"
               PROVE  LET a == thread[t].batch
                      IN  /\ batch'[a].status = thread[t].saw /\ batch'[a].xml = thread[t].seen
                          /\ batch'[a].status \in {"SUBMITTED", "PENDING_SYNC", "SYNCING"}
    BY <1>1 DEF LoadedIsCurrent
  <2>1. /\ thread[t].batch \in Batches
        /\ batch[thread[t].batch].status \in {"SUBMITTED", "PENDING_SYNC", "SYNCING"}
    BY <1>0, ThreadFacts DEF VoucherInv, LoadedIsCurrent, WholePass
  <2>2. /\ batch'[thread[t].batch].status = batch[thread[t].batch].status
        /\ batch'[thread[t].batch].xml = batch[thread[t].batch].xml
    BY <1>1, <2>1
  <2> QED
    BY <1>0, <2>1, <2>2 DEF VoucherInv, LoadedIsCurrent
<1>4. SyncedIsInTally'
  BY <1>0, <1>1 DEF VoucherInv, SyncedIsInTally
<1>5. PayloadIsFrozen'
  <2> SUFFICES ASSUME ~mixed, NEW a \in Batches, accepted[a] # {}, a \notin disowned
               PROVE  /\ batch'[a].status \in {"PENDING_SYNC", "SYNCING", "SYNCED"}
                      /\ batch'[a].xml # NoXml /\ accepted[a] = {batch'[a].xml}
    BY <1>1 DEF PayloadIsFrozen
  <2>1. /\ batch[a].status \in {"PENDING_SYNC", "SYNCING", "SYNCED"}
        /\ batch[a].xml # NoXml /\ accepted[a] = {batch[a].xml}
    BY <1>0 DEF VoucherInv, PayloadIsFrozen
  <2> QED
    BY <1>1, <2>1
<1> QED
  BY <1>2, <1>3, <1>4, <1>5 DEF VoucherInv

\* The orphan takes the lock, and what it knows, with it.
LEMMA StopVouchers ==
    ASSUME IInv, StopRetryWorker
    PROVE  VoucherInv'
<1> DEFINE p == thread["pass"]
<1>0. ThreadsOK /\ TypeOK /\ VoucherInv /\ "pass" \in Threads
  BY DEF IInv, ThreadsOK, TypeOK, Threads
<1>1. /\ thread'["pass"] = Idle
      /\ thread'["orphan"] = IF Running("pass") THEN p ELSE Idle
      /\ UNCHANGED <<batch, accepted, disowned, mixed>>
      /\ lock' = IF lock = "pass" THEN "orphan" ELSE lock
  BY <1>0, StopTyped DEF StopRetryWorker, batchVars
<1>2. PostsUnderLock'
  <2> SUFFICES ASSUME thread'["orphan"].pc \in {"post", "posted"}
               PROVE  LET b == thread'["orphan"].batch
                      IN  /\ lock' = "orphan" /\ batch[b].status = "SYNCING"
                          /\ batch[b].xml # NoXml
                          /\ thread'["orphan"].pc = "posted"
                                /\ thread'["orphan"].reply = "imported" =>
                                batch[b].xml \in accepted[b]
                          /\ thread'["orphan"].pc = "posted"
                                /\ thread'["orphan"].reply \in {"unreadable", "rejected"} =>
                                accepted[b] = {} \/ b \in disowned
    BY <1>1, IdleTyped DEF PostsUnderLock, Threads
  <2>1. thread'["orphan"] = p
    BY <1>1, IdleTyped
  <2> QED
    BY <1>0, <1>1, <2>1 DEF VoucherInv, PostsUnderLock
<1>3. LoadedIsCurrent'
  <2> SUFFICES ASSUME ~mixed, thread'["orphan"].pc = "sync"
               PROVE  LET b == thread'["orphan"].batch
                      IN  /\ batch[b].status = thread'["orphan"].saw
                          /\ batch[b].xml = thread'["orphan"].seen
                          /\ batch[b].status \in {"SUBMITTED", "PENDING_SYNC", "SYNCING"}
    BY <1>1, IdleTyped DEF LoadedIsCurrent, Threads
  <2>1. thread'["orphan"] = p
    BY <1>1, IdleTyped
  <2> QED
    BY <1>0, <2>1 DEF VoucherInv, LoadedIsCurrent
<1>4. SyncedIsInTally' /\ PayloadIsFrozen'
  BY <1>0, <1>1 DEF VoucherInv, SyncedIsInTally, PayloadIsFrozen
<1> QED
  BY <1>2, <1>3, <1>4 DEF VoucherInv

LEMMA CrashVouchers ==
    ASSUME IInv, Crash
    PROVE  VoucherInv'
<1>0. ThreadsOK /\ TypeOK /\ VoucherInv
  BY DEF IInv, ThreadsOK, TypeOK
<1>1. \A t \in Threads : thread'[t].pc = "idle"
  BY <1>0, CrashTyped, IdleTyped
<1>2. UNCHANGED <<batch, accepted, disowned, mixed>>
  BY DEF Crash, batchVars
<1>3. PostsUnderLock' /\ LoadedIsCurrent'
  BY <1>1 DEF PostsUnderLock, LoadedIsCurrent
<1>4. SyncedIsInTally' /\ PayloadIsFrozen'
  BY <1>0, <1>2 DEF VoucherInv, SyncedIsInTally, PayloadIsFrozen
<1> QED
  BY <1>3, <1>4 DEF VoucherInv

LEMMA VoucherStep ==
    ASSUME IInv, [Next]_vars
    PROVE  VoucherInv'
<1>0. ThreadsOK /\ TypeOK /\ VoucherInv
  BY DEF IInv, ThreadsOK, TypeOK
<1>1. ASSUME NEW t \in Threads, Pass(t),
             ~(SelectBatch(t) \/ SyncBatch(t) \/ PostToTally(t) \/ FinishSync(t))
      PROVE  VoucherInv'
  <2>1. Others(t) /\ UNCHANGED mixed
    BY <1>0, <1>1, PassTyped, PassRuns DEF VoucherInv
  <2>2. UNCHANGED <<batch, accepted, disowned, lock>>
    BY <1>1 DEF Pass, ClaimGatewayCheck, TestTallyGateway, FinishGatewayCheck, SelectJob,
       ClaimJob, FetchFromTally, JobFails, ReplaceCached, FinishJobLooks, FinishJob, batchVars
  <2>3. thread'[t].pc \notin {"sync", "post", "posted"}
    <3>1. CASE JobFails(t) \/ ReplaceCached(t) \/ FetchFromTally(t)
      <4>1. \/ thread'[t] = [thread[t] EXCEPT !.pc = "finish", !.reply = "failed"]
            \/ thread'[t] = [thread[t] EXCEPT !.pc = "finish", !.reply = "succeeded"]
            \/ thread'[t] = [thread[t] EXCEPT !.pc = "store", !.got = book]
        BY <1>0, <3>1, JobDoneMoves, FetchFromTallyMoves DEF JobFails, ReplaceCached, At
      <4> QED
        BY <1>0, <4>1, ThreadFacts DEF Passes
    <3>2. CASE ClaimGatewayCheck(t) \/ TestTallyGateway(t) \/ FinishGatewayCheck(t)
      BY <1>0, <3>2, ClaimGatewayCheckMoves, TestTallyGatewayMoves, FinishGatewayCheckMoves
    <3>3. CASE SelectJob(t) \/ ClaimJob(t)
      BY <1>0, <3>3, SelectJobMoves, ClaimJobMoves
    <3>4. CASE FinishJobLooks(t) \/ FinishJob(t)
      BY <1>0, <3>4, FinishJobLooksMoves, FinishJobMoves
    <3> QED
      BY <1>1, <3>1, <3>2, <3>3, <3>4 DEF Pass
  <2> QED
    BY <1>0, <2>1, <2>2, <2>3, VoucherFrame DEF Others, SameVoucher
<1>2. ASSUME NEW k \in Keys, QueueTallyDataJob(k) PROVE VoucherInv'
  <2>1. UNCHANGED <<batch, accepted, disowned, lock, mixed>>
    BY <1>0, <1>2, QueueTallyDataJobTyped DEF batchVars, faults
  <2>2. ASSUME NEW t \in Threads PROVE SameVoucher(thread'[t], thread[t])
    <3>1. thread'[t] = thread[t] \/ thread'[t] = [thread[t] EXCEPT !.row = FALSE]
      BY <1>0, <1>2, QueueTallyDataJobTyped
    <3> QED
      BY <1>0, <3>1, ThreadFacts DEF SameVoucher, Passes
  <2> QED
    BY <1>0, <2>1, <2>2, VoucherFrame
<1>3. ASSUME NEW k \in Keys, JobLeaseEnds(k) PROVE VoucherInv'
  <2>1. UNCHANGED <<batch, accepted, disowned, lock, mixed, thread>>
    BY <1>3 DEF JobLeaseEnds, batchVars, faults
  <2> QED
    BY <1>0, <2>1, VoucherFrame DEF SameVoucher
<1>4. CASE \/ QueueTallyGatewayCheck \/ NotifyRetryWorker \/ SettingsChange \/ TallyChanges
           \/ WakeUp \/ StartRetryWorker \/ CheckLeaseEnds
  <2>1. UNCHANGED <<batch, accepted, disowned, lock, thread>>
    BY <1>0, <1>4, RestTyped DEF batchVars
  <2>2. mixed => mixed'
    BY <1>4 DEF QueueTallyGatewayCheck, NotifyRetryWorker, SettingsChange, SaveSettings,
       AutosaveSettings, SaveCompany, ActivateCompany, ApplySettings, TallyChanges, WakeUp,
       StartRetryWorker, CheckLeaseEnds, faults
  <2> QED
    BY <1>0, <2>1, <2>2, VoucherFrame DEF SameVoucher
<1>5. CASE StartPass \/ EndPass
  <2>1. UNCHANGED <<batch, accepted, disowned, lock, mixed>>
    BY <1>5 DEF StartPass, EndPass, batchVars, faults
  <2>2. Others("pass") /\ thread'["pass"].pc \notin {"sync", "post", "posted"}
    BY <1>0, <1>5, StartPassTyped, EndPassTyped, IdleTyped
  <2> QED
    BY <1>0, <2>1, <2>2, VoucherFrame DEF Others, SameVoucher
<1>6. CASE UNCHANGED vars
  <2>1. UNCHANGED <<batch, accepted, disowned, lock, mixed, thread>>
    BY <1>6, StutterFacts
  <2> QED
    BY <1>0, <2>1, VoucherFrame DEF SameVoucher
<1> QED
  BY <1>1, <1>2, <1>3, <1>4, <1>5, <1>6, SelectBatchVouchers, SyncBatchVouchers,
     PostToTallyVouchers, FinishSyncVouchers, BatchRequestVouchers, StopVouchers,
     CrashVouchers, StepKinds

-----------------------------------------------------------------------------
(* The data jobs. *)

JobPcs == {"claim", "fetch", "store", "finish", "finished"}

\* What a pass knows of its job.
SameJob(p, q) ==
    p.pc = q.pc /\ p.key = q.key /\ p.row = q.row /\ p.got = q.got /\ p.reply = q.reply

\* A step apart from the jobs and their data.
LEMMA JobFrame ==
    ASSUME TypeOK, ThreadsOK, JobInv, UNCHANGED <<asked, cache>>, mixed => mixed',
           book' \in Int, book <= book',
           \A k \in Keys : jobs'[k].status = jobs[k].status
                           /\ (Claimable(jobs[k]) => Claimable(jobs'[k])),
           \A u \in Threads : thread'[u].pc \in JobPcs => SameJob(thread'[u], thread[u])
    PROVE  JobInv'
<1>1. AskedInPast'
  BY Typed DEF JobInv, AskedInPast
<1>2. FreshAnswer'
  BY DEF JobInv, FreshAnswer
<1>3. JobsInHand'
  <2> SUFFICES ASSUME ~mixed, NEW t \in Threads, thread'[t].pc \in JobPcs
               PROVE  LET k == thread'[t].key
                      IN  /\ thread'[t].pc = "claim" => thread'[t].row /\ Claimable(jobs'[k])
                          /\ thread'[t].pc \in {"fetch", "store", "finish", "finished"} =>
                                thread'[t].row /\ jobs'[k].status = "running"
                          /\ thread'[t].pc = "store" => thread'[t].got >= asked[k]
                          /\ thread'[t].pc \in {"finish", "finished"}
                                /\ thread'[t].reply = "succeeded" => cache[k] >= asked[k]
    BY DEF JobsInHand, JobPcs
  <2>1. SameJob(thread'[t], thread[t])
    OBVIOUS
  <2>2. thread[t].key \in Keys
    BY <2>1, ThreadFacts DEF WholePass, JobPcs, SameJob
  <2> DEFINE k == thread[t].key
  <2>3. jobs'[k].status = jobs[k].status /\ (Claimable(jobs[k]) => Claimable(jobs'[k]))
    BY <2>2
  <2> HIDE DEF k
  <2> QED
    BY <2>1, <2>3 DEF JobInv, JobsInHand, JobPcs, SameJob, k
<1> QED
  BY <1>1, <1>2, <1>3 DEF JobInv

\* What a pass that is alone has in hand.
LEMMA InHand ==
    ASSUME IInv, ~mixed, NEW t \in Threads
    PROVE  LET k == thread[t].key
           IN  /\ thread[t].pc = "claim" => thread[t].row /\ Claimable(jobs[k])
               /\ thread[t].pc \in {"fetch", "store", "finish", "finished"} =>
                     thread[t].row /\ jobs[k].status = "running"
               /\ thread[t].pc = "store" => thread[t].got >= asked[k]
               /\ thread[t].pc \in {"finish", "finished"} /\ thread[t].reply = "succeeded" =>
                     cache[k] >= asked[k]
BY DEF IInv, JobInv, JobsInHand

\* Nobody else is at a job.
LEMMA OnlyJob ==
    ASSUME IInv, ~mixed, NEW t \in Threads, Running(t), Others(t)
    PROVE  \A u \in Threads \ {t} : thread'[u].pc \notin JobPcs
<1> SUFFICES ASSUME NEW u \in Threads \ {t} PROVE thread'[u].pc \notin JobPcs
  OBVIOUS
<1>1. ~Running(u) /\ thread'[u] = thread[u]
  BY Alone DEF IInv, Others
<1> QED
  BY <1>1 DEF Running, JobPcs

LEMMA SelectJobJobs ==
    ASSUME IInv, NEW t \in Threads, SelectJob(t)
    PROVE  JobInv'
<1>0. ThreadsOK /\ TypeOK /\ JobInv
  BY DEF IInv, ThreadsOK, TypeOK
<1>1. Others(t) /\ Running(t) /\ UNCHANGED <<jobs, asked, cache, mixed, book>>
  BY <1>0, SelectJobMoves DEF SelectJob, Trying, At, Running, jobVars, faults
<1>2. \/ thread'[t].pc \notin JobPcs
      \/ thread'[t].pc = "claim" /\ thread'[t].row /\ thread'[t].key \in Available
  BY <1>0, SelectJobMoves DEF JobPcs
<1>3. AskedInPast' /\ FreshAnswer'
  BY <1>0, <1>1 DEF JobInv, AskedInPast, FreshAnswer
<1>4. JobsInHand'
  <2> SUFFICES ASSUME ~mixed PROVE JobsInHand'
    BY <1>1 DEF JobsInHand
  <2>1. \A u \in Threads \ {t} : thread'[u].pc \notin JobPcs
    BY <1>1, OnlyJob
  <2> QED
    BY <1>1, <1>2, <2>1 DEF JobsInHand, JobPcs, Available
<1> QED
  BY <1>3, <1>4 DEF JobInv

LEMMA ClaimJobJobs ==
    ASSUME IInv, NEW t \in Threads, ClaimJob(t)
    PROVE  JobInv'
<1> DEFINE k == thread[t].key
<1>0. ThreadsOK /\ TypeOK /\ JobInv
  BY DEF IInv, ThreadsOK, TypeOK
<1>1. Others(t) /\ Running(t) /\ UNCHANGED <<asked, cache, mixed, book>>
  BY <1>0, ClaimJobMoves DEF ClaimJob, At, Running, faults
<1>2. thread[t].pc = "claim" /\ k \in Keys
  BY <1>0, ThreadFacts DEF ClaimJob, At, WholePass
<1>3. \A j \in Keys : jobs'[j] # jobs[j] => jobs'[j].status = "running"
  BY <1>0, ClaimJobTyped
<1>4. AskedInPast'
  BY <1>0, <1>1 DEF JobInv, AskedInPast
<1>5. FreshAnswer'
  BY <1>0, <1>1, <1>3 DEF JobInv, FreshAnswer
<1>6. JobsInHand'
  <2> SUFFICES ASSUME ~mixed PROVE JobsInHand'
    BY <1>1 DEF JobsInHand
  <2>1. \A u \in Threads \ {t} : thread'[u].pc \notin JobPcs
    BY <1>1, OnlyJob
  <2>2. thread[t].row /\ Claimable(jobs[k])
    BY <1>2, InHand
  <2>3. jobs'[k].status = "running"
    BY <1>0, <2>2, ClaimJobTyped
  <2>4. thread'[t] = [thread[t] EXCEPT !.pc = "fetch"]
    BY <1>0, <2>2, ClaimJobMoves
  <2>5. thread'[t].pc = "fetch" /\ thread'[t].row = thread[t].row /\ thread'[t].key = k
    BY <1>0, <2>4, ThreadFacts DEF Passes
  <2> QED
    BY <2>1, <2>2, <2>3, <2>5 DEF JobsInHand, JobPcs
<1> QED
  BY <1>4, <1>5, <1>6 DEF JobInv

LEMMA FetchFromTallyJobs ==
    ASSUME IInv, NEW t \in Threads, FetchFromTally(t)
    PROVE  JobInv'
<1> DEFINE k == thread[t].key
<1>0. ThreadsOK /\ TypeOK /\ JobInv
  BY DEF IInv, ThreadsOK, TypeOK
<1>1. Others(t) /\ Running(t) /\ UNCHANGED <<jobs, asked, cache, mixed, book>>
  BY <1>0, FetchFromTallyMoves DEF FetchFromTally, At, Running, faults, jobVars
<1>2. thread[t].pc = "fetch" /\ k \in Keys
  BY <1>0, ThreadFacts DEF FetchFromTally, At, WholePass
<1>3. thread'[t].pc = "store" /\ thread'[t].row = thread[t].row /\ thread'[t].key = k
      /\ thread'[t].got = book
  BY <1>0, ThreadFacts, FetchFromTallyMoves DEF Passes
<1>4. AskedInPast' /\ FreshAnswer'
  BY <1>0, <1>1 DEF JobInv, AskedInPast, FreshAnswer
<1>5. JobsInHand'
  <2> SUFFICES ASSUME ~mixed PROVE JobsInHand'
    BY <1>1 DEF JobsInHand
  <2>1. \A u \in Threads \ {t} : thread'[u].pc \notin JobPcs
    BY <1>1, OnlyJob
  <2>2. thread[t].row /\ jobs[k].status = "running"
    BY <1>2, InHand
  <2>3. book >= asked[k]
    BY <1>0, <1>2, Typed DEF JobInv, AskedInPast
  <2> QED
    BY <1>1, <1>3, <2>1, <2>2, <2>3 DEF JobsInHand, JobPcs
<1> QED
  BY <1>4, <1>5 DEF JobInv

LEMMA JobDoneJobs ==
    ASSUME IInv, NEW t \in Threads, JobFails(t) \/ ReplaceCached(t)
    PROVE  JobInv'
<1> DEFINE k == thread[t].key
           bad == [thread[t] EXCEPT !.pc = "finish", !.reply = "failed"]
           good == [thread[t] EXCEPT !.pc = "finish", !.reply = "succeeded"]
<1>0. ThreadsOK /\ TypeOK /\ JobInv
  BY DEF IInv, ThreadsOK, TypeOK
<1>1. thread[t].pc \in {"fetch", "store"} /\ k \in Keys /\ Running(t)
  BY <1>0, ThreadFacts DEF JobFails, ReplaceCached, At, WholePass, Running
<1>2. /\ Others(t) /\ UNCHANGED <<jobs, asked, mixed, book>>
      /\ \A j \in Keys \ {k} : cache'[j] = cache[j]
      /\ \/ cache'[k] = cache[k] /\ thread'[t] = bad
         \/ thread[t].pc = "store" /\ cache'[k] = thread[t].got /\ thread'[t] = good
  <2>1. CASE JobFails(t)
    BY <1>0, <2>1, JobDoneMoves DEF JobFails, At, jobVars, faults
  <2>2. CASE ReplaceCached(t)
    BY <1>0, <2>2, ReplaceCachedTyped DEF ReplaceCached, At, faults
  <2> QED
    BY <2>1, <2>2
<1>a. thread[t] \in Passes
  BY <1>0, ThreadFacts
<1>b. /\ bad.pc = "finish" /\ bad.row = thread[t].row /\ bad.key = k /\ bad.reply = "failed"
      /\ good.pc = "finish" /\ good.row = thread[t].row /\ good.key = k
      /\ good.reply = "succeeded"
  BY <1>a DEF Passes
<1> HIDE DEF bad, good
<1>3. thread'[t].pc = "finish" /\ thread'[t].row = thread[t].row /\ thread'[t].key = k
  BY <1>2, <1>b
<1>4. thread'[t].reply = "succeeded" => thread[t].pc = "store" /\ cache'[k] = thread[t].got
  BY <1>2, <1>b
<1>5. AskedInPast'
  BY <1>0, <1>2 DEF JobInv, AskedInPast
<1> HIDE DEF k
<1>6. ~mixed => thread[t].row /\ jobs[k].status = "running"
                /\ (thread[t].pc = "store" => thread[t].got >= asked[k])
  BY <1>1, InHand DEF k
<1>7. FreshAnswer'
  <2> SUFFICES ASSUME NEW j \in Keys, jobs[j].status = "succeeded", ~mixed
               PROVE  cache'[j] >= asked[j]
    BY <1>2 DEF FreshAnswer
  <2>1. j # k
    BY <1>6
  <2> QED
    BY <1>0, <1>2, <2>1 DEF JobInv, FreshAnswer
<1>8. JobsInHand'
  <2> SUFFICES ASSUME ~mixed PROVE JobsInHand'
    BY <1>2 DEF JobsInHand
  <2>1. \A u \in Threads \ {t} : thread'[u].pc \notin JobPcs
    BY <1>1, <1>2, OnlyJob
  <2> QED
    BY <1>2, <1>3, <1>4, <1>6, <2>1 DEF JobsInHand, JobPcs
<1> QED
  BY <1>5, <1>7, <1>8 DEF JobInv

LEMMA FinishJobJobs ==
    ASSUME IInv, NEW t \in Threads, FinishJob(t)
    PROVE  JobInv'
<1> DEFINE k == thread[t].key
<1>0. ThreadsOK /\ TypeOK /\ JobInv
  BY DEF IInv, ThreadsOK, TypeOK
<1>1. /\ Others(t) /\ Running(t) /\ UNCHANGED <<asked, cache, mixed, book>>
      /\ thread[t].pc = "finished" /\ thread'[t].pc \notin JobPcs
  BY <1>0, FinishJobMoves DEF FinishJob, At, Running, faults, JobPcs
<1>2. \A j \in Keys : jobs'[j] # jobs[j] => j = k /\ jobs'[j].status = thread[t].reply
  BY <1>0, FinishJobTyped
<1>3. AskedInPast'
  BY <1>0, <1>1 DEF JobInv, AskedInPast
<1>4. FreshAnswer'
  <2> SUFFICES ASSUME NEW j \in Keys, jobs'[j].status = "succeeded", ~mixed
               PROVE  cache[j] >= asked[j]
    BY <1>1 DEF FreshAnswer
  <2>1. CASE jobs'[j] = jobs[j]
    BY <1>0, <2>1 DEF JobInv, FreshAnswer
  <2>2. CASE jobs'[j] # jobs[j]
    BY <1>1, <1>2, <2>2, InHand
  <2> QED
    BY <2>1, <2>2
<1>5. JobsInHand'
  <2> SUFFICES ASSUME ~mixed PROVE JobsInHand'
    BY <1>1 DEF JobsInHand
  <2>1. \A u \in Threads \ {t} : thread'[u].pc \notin JobPcs
    BY <1>1, OnlyJob
  <2> QED
    BY <1>1, <2>1 DEF JobsInHand, JobPcs
<1> QED
  BY <1>3, <1>4, <1>5 DEF JobInv

\* A new row is new to every pass: the old one was not active.
LEMMA QueueTallyDataJobJobs ==
    ASSUME IInv, NEW k \in Keys, QueueTallyDataJob(k)
    PROVE  JobInv'
<1>0. ThreadsOK /\ TypeOK /\ JobInv
  BY DEF IInv, ThreadsOK, TypeOK
<1>1. UNCHANGED <<cache, book, mixed>>
  BY <1>0, QueueTallyDataJobTyped DEF faults
<1>2. book \in Int
  BY <1>0, Typed
<1>3. CASE UNCHANGED <<jobs, asked, thread>>
  BY <1>0, <1>1, <1>2, <1>3, JobFrame DEF SameJob
<1>4. CASE ~UNCHANGED <<jobs, asked, thread>>
  <2>1. /\ ~Pending(jobs[k]) /\ jobs'[k].status = "queued" /\ asked'[k] = book
        /\ \A j \in Keys \ {k} : jobs'[j] = jobs[j] /\ asked'[j] = asked[j]
        /\ \A t \in Threads :
              \/ thread'[t] = thread[t]
              \/ thread[t].key = k /\ thread'[t] = [thread[t] EXCEPT !.row = FALSE]
    BY <1>0, <1>4, QueueTallyDataJobTyped
  <2>2. AskedInPast'
    BY <1>0, <1>1, <1>2, <2>1 DEF JobInv, AskedInPast
  <2>3. FreshAnswer'
    BY <1>0, <1>1, <2>1 DEF JobInv, FreshAnswer
  <2>4. ASSUME ~mixed, NEW t \in Threads, thread[t].pc \in JobPcs
        PROVE  thread[t].key \in Keys \ {k} /\ thread'[t] = thread[t]
    <3>1. thread[t].key \in Keys
      BY <1>0, <2>4, ThreadFacts DEF WholePass, JobPcs
    <3>2. Pending(jobs[thread[t].key])
      BY <2>4, InHand DEF JobPcs, Pending, Claimable
    <3> QED
      BY <2>1, <3>1, <3>2
  <2>5. JobsInHand'
    <3> SUFFICES ASSUME ~mixed, NEW t \in Threads, thread'[t].pc \in JobPcs
                 PROVE  LET j == thread'[t].key
                        IN  /\ thread'[t].pc = "claim" => thread'[t].row /\ Claimable(jobs'[j])
                            /\ thread'[t].pc \in {"fetch", "store", "finish", "finished"} =>
                                  thread'[t].row /\ jobs'[j].status = "running"
                            /\ thread'[t].pc = "store" => thread'[t].got >= asked'[j]
                            /\ thread'[t].pc \in {"finish", "finished"}
                                  /\ thread'[t].reply = "succeeded" => cache[j] >= asked'[j]
      BY <1>1 DEF JobsInHand, JobPcs
    <3>1. thread'[t].pc = thread[t].pc
      <4>1. [thread[t] EXCEPT !.row = FALSE].pc = thread[t].pc
        BY <1>0, ThreadFacts DEF Passes
      <4> QED
        BY <2>1, <4>1
    <3>2. thread[t].key \in Keys \ {k} /\ thread'[t] = thread[t]
      BY <2>4, <3>1
    <3>3. jobs'[thread[t].key] = jobs[thread[t].key] /\ asked'[thread[t].key] = asked[thread[t].key]
      BY <2>1, <3>2
    <3> QED
      BY <3>2, <3>3, InHand
  <2> QED
    BY <2>2, <2>3, <2>5 DEF JobInv
<1> QED
  BY <1>3, <1>4

LEMMA StopJobs ==
    ASSUME IInv, StopRetryWorker
    PROVE  JobInv'
<1> DEFINE p == thread["pass"]
<1>0. ThreadsOK /\ TypeOK /\ JobInv /\ "pass" \in Threads
  BY DEF IInv, ThreadsOK, TypeOK, Threads
<1>1. /\ thread'["pass"] = Idle
      /\ thread'["orphan"] = IF Running("pass") THEN p ELSE Idle
      /\ UNCHANGED <<jobs, asked, cache, book, mixed>>
  BY <1>0, StopTyped DEF StopRetryWorker, jobVars
<1>2. AskedInPast' /\ FreshAnswer'
  BY <1>0, <1>1 DEF JobInv, AskedInPast, FreshAnswer
<1>3. JobsInHand'
  <2> SUFFICES ASSUME ~mixed, thread'["orphan"].pc \in JobPcs PROVE JobsInHand'
    BY <1>1, IdleTyped DEF JobsInHand, Threads, JobPcs
  <2>1. thread'["orphan"] = p
    BY <1>1, IdleTyped DEF JobPcs
  <2> QED
    BY <1>0, <1>1, <2>1, InHand, IdleTyped DEF JobsInHand, Threads
<1> QED
  BY <1>2, <1>3 DEF JobInv

LEMMA JobStep ==
    ASSUME IInv, [Next]_vars
    PROVE  JobInv'
<1>0. ThreadsOK /\ TypeOK /\ JobInv /\ PostsUnderLock /\ book \in Int
  BY Typed DEF IInv, ThreadsOK, TypeOK, VoucherInv
<1>1. ASSUME NEW t \in Threads, Pass(t),
             ~(SelectJob(t) \/ ClaimJob(t) \/ FetchFromTally(t) \/ JobFails(t)
               \/ ReplaceCached(t) \/ FinishJob(t))
      PROVE  JobInv'
  <2>1. Others(t) /\ UNCHANGED <<asked, mixed, book>>
    BY <1>0, <1>1, PassTyped, PassRuns
  <2>2. UNCHANGED <<jobs, cache>>
    BY <1>1 DEF Pass, ClaimGatewayCheck, TestTallyGateway, FinishGatewayCheck,
       FinishJobLooks, SelectBatch, SyncBatch, PostToTally, FinishSync, jobVars
  <2>3. CASE FinishJobLooks(t)
    <3>1. CASE thread'[t] = [thread[t] EXCEPT !.pc = "finished"]
      <4>1. /\ thread'[t].pc = "finished" /\ thread'[t].key = thread[t].key
            /\ thread'[t].row = thread[t].row /\ thread'[t].reply = thread[t].reply
        BY <1>0, <3>1, ThreadFacts DEF Passes
      <4>2. thread[t].pc = "finish"
        BY <2>3 DEF FinishJobLooks, At
      <4>3. ~mixed => \A u \in Threads \ {t} : thread'[u].pc \notin JobPcs
        BY <2>1, <4>2, OnlyJob DEF Running
      <4>4. AskedInPast' /\ FreshAnswer'
        BY <1>0, <2>1, <2>2 DEF JobInv, AskedInPast, FreshAnswer
      <4>5. JobsInHand'
        <5> SUFFICES ASSUME ~mixed PROVE JobsInHand'
          BY <2>1 DEF JobsInHand
        <5>1. /\ thread[t].row /\ jobs[thread[t].key].status = "running"
              /\ thread[t].reply = "succeeded" => cache[thread[t].key] >= asked[thread[t].key]
          BY <4>2, InHand
        <5> QED
          BY <2>1, <2>2, <4>1, <4>3, <5>1 DEF JobsInHand, JobPcs
      <4> QED
        BY <4>4, <4>5 DEF JobInv
    <3>2. CASE thread'[t].pc \notin JobPcs
      BY <1>0, <2>1, <2>2, <3>2, JobFrame DEF Others, SameJob
    <3> QED
      BY <1>0, <2>3, <3>1, <3>2, FinishJobLooksMoves DEF JobPcs
  <2>4. CASE ~FinishJobLooks(t)
    <3>1. CASE ClaimGatewayCheck(t) \/ TestTallyGateway(t) \/ FinishGatewayCheck(t)
      <4>1. thread'[t].pc \notin JobPcs
        BY <1>0, <3>1, ClaimGatewayCheckMoves, TestTallyGatewayMoves, FinishGatewayCheckMoves
           DEF JobPcs
      <4> QED
        BY <1>0, <2>1, <2>2, <4>1, JobFrame DEF Others, SameJob
    <3>2. CASE SelectBatch(t) \/ FinishSync(t)
      <4>1. thread'[t].pc \notin JobPcs
        BY <1>0, <3>2, SelectBatchMoves, FinishSyncMoves DEF JobPcs
      <4> QED
        BY <1>0, <2>1, <2>2, <4>1, JobFrame DEF Others, SameJob
    <3>3. CASE SyncBatch(t)
      <4>1. thread'[t].pc \notin JobPcs
        BY <1>0, <3>3, SyncBatchMoves DEF JobPcs, SyncReturns, SyncGivesUp, SyncClaims
      <4> QED
        BY <1>0, <2>1, <2>2, <4>1, JobFrame DEF Others, SameJob
    <3>4. CASE PostToTally(t)
      <4>1. thread'[t].pc \notin JobPcs
        BY <1>0, <3>4, PostToTallyTyped, PostToTallyMoves DEF JobPcs
      <4> QED
        BY <1>0, <2>1, <2>2, <4>1, JobFrame DEF Others, SameJob
    <3> QED
      BY <1>1, <2>4, <3>1, <3>2, <3>3, <3>4 DEF Pass
  <2> QED
    BY <2>3, <2>4
<1>2. ASSUME NEW b \in Batches,
             SubmitBatch(b) \/ RetryBatch(b) \/ CooldownEnds(b) \/ SyncLeaseEnds(b)
      PROVE  JobInv'
  <2>1. UNCHANGED <<jobs, asked, cache, book, thread, mixed>>
    BY <1>0, <1>2, BatchRequests DEF jobVars, faults
  <2> QED
    BY <1>0, <2>1, JobFrame DEF SameJob
<1>3. ASSUME NEW k \in Keys, JobLeaseEnds(k) PROVE JobInv'
  <2>1. UNCHANGED <<asked, cache, book, thread, mixed>>
    BY <1>3 DEF JobLeaseEnds, faults
  <2>2. \A j \in Keys : jobs'[j].status = jobs[j].status
                        /\ (Claimable(jobs[j]) => Claimable(jobs'[j]))
    BY <1>0, <1>3, JobLeaseEndsTyped
  <2> QED
    BY <1>0, <2>1, <2>2, JobFrame DEF SameJob
<1>4. CASE \/ QueueTallyGatewayCheck \/ NotifyRetryWorker \/ SettingsChange \/ TallyChanges
           \/ WakeUp \/ StartRetryWorker \/ CheckLeaseEnds
  <2>1. UNCHANGED <<jobs, asked, cache, thread>>
    BY <1>0, <1>4, RestTyped DEF jobVars
  <2>2. mixed => mixed'
    BY <1>4 DEF QueueTallyGatewayCheck, NotifyRetryWorker, SettingsChange, SaveSettings,
       AutosaveSettings, SaveCompany, ActivateCompany, ApplySettings, TallyChanges, WakeUp,
       StartRetryWorker, CheckLeaseEnds, faults
  <2>3. book' = book \/ book' = book + 1
    BY <1>4 DEF QueueTallyGatewayCheck, NotifyRetryWorker, SettingsChange, SaveSettings,
       AutosaveSettings, SaveCompany, ActivateCompany, ApplySettings, TallyChanges, WakeUp,
       StartRetryWorker, CheckLeaseEnds
  <2>4. book' \in Int /\ book <= book'
    BY <1>0, <2>3
  <2> QED
    BY <1>0, <2>1, <2>2, <2>4, JobFrame DEF SameJob
<1>5. CASE StartPass \/ EndPass
  <2>1. UNCHANGED <<jobs, asked, cache, book, mixed>>
    BY <1>5 DEF StartPass, EndPass, jobVars, faults
  <2>2. Others("pass") /\ thread'["pass"].pc \notin JobPcs
    BY <1>0, <1>5, StartPassTyped, EndPassTyped, IdleTyped DEF JobPcs
  <2> QED
    BY <1>0, <2>1, <2>2, JobFrame DEF Others, SameJob
<1>6. CASE Crash
  <2>1. UNCHANGED <<jobs, asked, cache, book, mixed>>
    BY <1>6 DEF Crash, jobVars
  <2>2. \A t \in Threads : thread'[t].pc \notin JobPcs
    BY <1>0, <1>6, CrashTyped, IdleTyped DEF JobPcs
  <2> QED
    BY <1>0, <2>1, <2>2, JobFrame
<1>7. CASE UNCHANGED vars
  <2>1. UNCHANGED <<jobs, asked, cache, book, thread, mixed>>
    BY <1>7, StutterFacts
  <2> QED
    BY <1>0, <2>1, JobFrame DEF SameJob
<1> QED
  BY <1>1, <1>2, <1>3, <1>4, <1>5, <1>6, <1>7, SelectJobJobs, ClaimJobJobs,
     FetchFromTallyJobs, JobDoneJobs, FinishJobJobs, QueueTallyDataJobJobs, StopJobs, StepKinds

-----------------------------------------------------------------------------
(* The wake-ups. *)

Scanned == {"try", "claim", "fetch", "store", "finish", "finished", "sync", "post", "posted",
            "empty"}

\* The pass has found no queued job.
JobsScanned(p) == p.pc = "empty" \/ (p.pc = "try" /\ p.plan = <<"batch">>)

\* A step that neither queues anything nor moves the pass.
LEMMA WakeFrame ==
    ASSUME WakeInv, loop' = loop,
           ~wake' /\ ~ring' /\ ~mixed' => ~wake /\ ~ring /\ ~mixed,
           check'.status = "queued" => check.status = "queued",
           \A k \in Keys : jobs'[k].status = "queued" => jobs[k].status = "queued",
           thread'["pass"].pc = thread["pass"].pc, thread'["pass"].plan = thread["pass"].plan
    PROVE  WakeInv'
BY DEF WakeInv, NothingMissed, NoLostWakeup

\* A step of the pass: the loop does not wait, and what it scans for the last time
\* is not queued.
LEMMA PassWakes ==
    ASSUME IInv, NEW t \in Threads, Pass(t),
           check'.status = "queued" => check.status = "queued",
           \A k \in Keys : jobs'[k].status = "queued" => jobs[k].status = "queued",
           t = "pass" /\ thread'[t].pc \in Scanned =>
               thread[t].pc \in Scanned \/ ~Claimable(check),
           t = "pass" /\ ~mixed /\ JobsScanned(thread'[t]) =>
               \/ thread[t].pc = "try" /\ thread[t].plan = <<"batch">>
               \/ \A k \in Keys : jobs[k].status # "queued"
    PROVE  WakeInv'
<1>1. Running(t) /\ UNCHANGED <<loop, mixed, ring, wake>>
  BY PassRuns
<1>2. CASE t = "orphan"
  BY <1>1, <1>2, OrphanAlone DEF IInv, WakeInv, NothingMissed, NoLostWakeup
<1>3. CASE t = "pass"
  <2>1. loop \notin {"wait", "off"}
    BY <1>1, <1>3 DEF IInv, OneAtATime, Running, At
  <2>2. NoLostWakeup'
    BY <1>1, <2>1 DEF NoLostWakeup
  <2>3. NothingMissed'
    <3> SUFFICES ASSUME loop = "rescan", ~wake, ~ring, ~mixed
                 PROVE  /\ thread'["pass"].pc \in Scanned => check'.status # "queued"
                        /\ JobsScanned(thread'["pass"]) =>
                              \A k \in Keys : jobs'[k].status # "queued"
      BY <1>1 DEF NothingMissed, Scanned, JobsScanned
    <3>1. /\ thread["pass"].pc \in Scanned => check.status # "queued"
          /\ JobsScanned(thread["pass"]) => \A k \in Keys : jobs[k].status # "queued"
      BY DEF IInv, WakeInv, NothingMissed, Scanned, JobsScanned
    <3>2. ~Claimable(check) => check.status # "queued"
      BY DEF Claimable
    <3> QED
      BY <1>3, <3>1, <3>2 DEF JobsScanned
  <2> QED
    BY <2>2, <2>3 DEF WakeInv
<1> QED
  BY <1>2, <1>3 DEF Threads

LEMMA PassWakeStep ==
    ASSUME IInv, NEW t \in Threads, Pass(t)
    PROVE  WakeInv'
<1>0. ThreadsOK /\ TypeOK /\ PostsUnderLock
  BY DEF IInv, ThreadsOK, TypeOK, VoucherInv
<1>a. thread[t].pc \in {"try", "claim"} => thread[t].plan \in Plans
  BY <1>0, ThreadFacts DEF WholePass, Passes
<1>1. CASE ClaimGatewayCheck(t) \/ FinishGatewayCheck(t)
  <2>1. check'.status = "queued" => check.status = "queued" /\ ~Claimable(check)
    BY <1>0, <1>1, CheckTyped
  <2>2. UNCHANGED jobs
    BY <1>1 DEF ClaimGatewayCheck, FinishGatewayCheck, jobVars
  <2>3. /\ thread'[t].pc \in Scanned => ~Claimable(check) \/ t # "pass"
        /\ ~JobsScanned(thread'[t]) \/ t # "pass"
    <3>1. CASE ClaimGatewayCheck(t)
      <4>1. \/ Claimable(check) /\ thread'[t].pc = "test"
            \/ ~Claimable(check) /\ thread'[t].pc = "try" /\ Len(thread'[t].plan) = 2
        BY <1>0, <3>1, ClaimGatewayCheckMoves
      <4>2. Len(<<"batch">>) = 1
        OBVIOUS
      <4> QED
        BY <4>1, <4>2 DEF Scanned, JobsScanned
    <3>2. CASE FinishGatewayCheck(t)
      BY <1>0, <3>2, FinishGatewayCheckMoves DEF Scanned, JobsScanned
    <3> QED
      BY <1>1, <3>1, <3>2
  <2> QED
    BY <2>1, <2>2, <2>3, PassWakes
<1>2. CASE ~(ClaimGatewayCheck(t) \/ FinishGatewayCheck(t))
  <2>1. UNCHANGED check
    BY <1>2 DEF Pass, TestTallyGateway, SelectJob, ClaimJob, FetchFromTally, JobFails,
       ReplaceCached, FinishJobLooks, FinishJob, SelectBatch, SyncBatch, PostToTally, FinishSync
  <2>2. \A k \in Keys : jobs'[k].status = "queued" => jobs[k].status = "queued"
    <3>1. CASE ClaimJob(t)
      BY <1>0, <3>1, ClaimJobTyped
    <3>2. CASE FinishJob(t)
      BY <1>0, <3>2, FinishJobTyped
    <3>3. CASE ~(ClaimJob(t) \/ FinishJob(t))
      <4>1. UNCHANGED jobs
        BY <1>2, <3>3 DEF Pass, TestTallyGateway, SelectJob, FetchFromTally, JobFails,
           ReplaceCached, FinishJobLooks, SelectBatch, SyncBatch, PostToTally, FinishSync, jobVars
      <4> QED
        BY <4>1
    <3> QED
      BY <3>1, <3>2, <3>3
  <2>3. \/ thread[t].pc \in Scanned
        \/ TestTallyGateway(t)
    BY <1>2 DEF Pass, SelectJob, ClaimJob, FetchFromTally, JobFails, Trying, Scanned, At,
       ReplaceCached, FinishJobLooks, FinishJob, SelectBatch, SyncBatch, PostToTally, FinishSync
  <2>4. TestTallyGateway(t) => t # "pass" \/ thread'[t].pc \notin Scanned
    BY <1>0, TestTallyGatewayMoves DEF Scanned
  <2>5. t = "pass" /\ thread'[t].pc \in Scanned => thread[t].pc \in Scanned
    BY <2>3, <2>4
  <2>6. ASSUME t = "pass", ~mixed, JobsScanned(thread'[t])
        PROVE  \/ thread[t].pc = "try" /\ thread[t].plan = <<"batch">>
               \/ \A k \in Keys : jobs[k].status # "queued"
    <3>1. CASE SelectJob(t)
      <4>1. Available = {}
        BY <1>0, <2>6, <3>1, SelectJobMoves DEF JobsScanned
      <4> QED
        BY <1>0, <4>1, Typed DEF Available, Claimable, Pending
    <3>2. CASE SelectBatch(t)
      <4>1. thread[t].pc = "try" /\ Head(thread[t].plan) = "batch" /\ thread[t].plan \in Plans
        BY <1>a, <3>2 DEF SelectBatch, Trying, At
      <4>2. \/ Len(thread[t].plan) = 1
            \/ Len(thread[t].plan) # 1 /\ Tail(thread[t].plan) = <<"batch">>
        BY <1>0, <2>6, <3>2, SelectBatchMoves DEF JobsScanned
      <4> QED
        BY <4>1, <4>2, PlanProperties
    <3>3. CASE ClaimJob(t)
      <4>1. thread[t].row /\ Claimable(jobs[thread[t].key])
        BY <2>6, <3>3, InHand DEF ClaimJob, At
      <4>2. thread'[t].pc = "fetch"
        BY <1>0, <3>3, <4>1, ClaimJobMoves
      <4> QED
        BY <2>6, <4>2 DEF JobsScanned
    <3>4. CASE FetchFromTally(t) \/ JobFails(t) \/ ReplaceCached(t)
      <4>1. \/ thread'[t] = [thread[t] EXCEPT !.pc = "finish", !.reply = "failed"]
            \/ thread'[t] = [thread[t] EXCEPT !.pc = "finish", !.reply = "succeeded"]
            \/ thread'[t] = [thread[t] EXCEPT !.pc = "store", !.got = book]
        BY <1>0, <3>4, JobDoneMoves, FetchFromTallyMoves DEF JobFails, ReplaceCached, At
      <4>2. thread'[t].pc \in {"finish", "store"}
        BY <1>0, <4>1, ThreadFacts DEF Passes
      <4> QED
        BY <2>6, <4>2 DEF JobsScanned
    <3>5. CASE TestTallyGateway(t) \/ FinishJobLooks(t) \/ FinishJob(t) \/ FinishSync(t)
      BY <1>0, <2>6, <3>5, TestTallyGatewayMoves, FinishJobLooksMoves, FinishJobMoves,
         FinishSyncMoves DEF JobsScanned
    <3>6. CASE SyncBatch(t)
      <4>1. thread'[t].pc \in {"done", "post"}
        BY <1>0, <2>6, <3>6, SyncBatchMoves DEF SyncReturns, SyncGivesUp, SyncClaims
      <4> QED
        BY <2>6, <4>1 DEF JobsScanned
    <3>7. CASE PostToTally(t)
      BY <1>0, <2>6, <3>7, PostToTallyTyped, PostToTallyMoves DEF JobsScanned
    <3> QED
      BY <1>2, <3>1, <3>2, <3>3, <3>4, <3>5, <3>6, <3>7 DEF Pass
  <2>7. check'.status = "queued" => check.status = "queued"
    BY <2>1
  <2> QED
    BY <2>2, <2>5, <2>6, <2>7, PassWakes
<1> QED
  BY <1>1, <1>2

LEMMA WakeStep ==
    ASSUME IInv, [Next]_vars
    PROVE  WakeInv'
<1>0. ThreadsOK /\ TypeOK /\ PostsUnderLock /\ WakeInv
  BY DEF IInv, ThreadsOK, TypeOK, VoucherInv
<1>1. ASSUME NEW b \in Batches,
             SubmitBatch(b) \/ RetryBatch(b) \/ CooldownEnds(b) \/ SyncLeaseEnds(b)
      PROVE  WakeInv'
  <2>1. UNCHANGED <<check, jobs, thread, loop, wake, mixed>> /\ ring' \in {TRUE, ring}
    BY <1>0, <1>1, BatchRequests DEF jobVars, loopVars, faults
  <2>2. ~ring' => ~ring
    BY <2>1, Zenon
  <2>3. ~wake' /\ ~ring' /\ ~mixed' => ~wake /\ ~ring /\ ~mixed
    BY <2>1, <2>2, Zenon
  <2> QED
    BY <1>0, <2>1, <2>3, WakeFrame
<1>2. ASSUME NEW k \in Keys, QueueTallyDataJob(k) PROVE WakeInv'
  BY <1>0, <1>2, QueueTallyDataJobTyped DEF WakeInv, NothingMissed, NoLostWakeup
<1>3. ASSUME NEW k \in Keys, JobLeaseEnds(k) PROVE WakeInv'
  <2>1. UNCHANGED <<check, thread, loop, wake, mixed, ring>>
    BY <1>3 DEF JobLeaseEnds, loopVars, faults
  <2> QED
    BY <1>0, <1>3, <2>1, JobLeaseEndsTyped, WakeFrame
<1>4. CASE QueueTallyGatewayCheck
  BY <1>4 DEF QueueTallyGatewayCheck, WakeInv, NothingMissed, NoLostWakeup
<1>5. CASE NotifyRetryWorker
  <2>1. UNCHANGED loop /\ (loop # "off" => wake')
    BY <1>5 DEF NotifyRetryWorker
  <2> QED
    BY <2>1 DEF WakeInv, NothingMissed, NoLostWakeup
<1>6. CASE SettingsChange \/ TallyChanges \/ CheckLeaseEnds
  <2>1. UNCHANGED <<jobs, thread, loop, wake, mixed, ring>>
    BY <1>6 DEF SettingsChange, SaveSettings, AutosaveSettings, SaveCompany, ActivateCompany,
       ApplySettings, TallyChanges, CheckLeaseEnds, jobVars, loopVars, faults
  <2>2. check'.status = "queued" => check.status = "queued"
    <3>1. CASE CheckLeaseEnds
      <4>1. check' = [check EXCEPT !.stale = TRUE]
        BY <3>1 DEF CheckLeaseEnds
      <4> QED
        BY <1>0, <4>1, Typed
    <3>2. CASE ~CheckLeaseEnds
      <4>1. UNCHANGED check
        BY <1>6, <3>2 DEF SettingsChange, SaveSettings, AutosaveSettings, SaveCompany,
           ActivateCompany, ApplySettings, TallyChanges
      <4> QED
        BY <4>1
    <3> QED
      BY <3>1, <3>2
  <2> QED
    BY <1>0, <2>1, <2>2, WakeFrame
<1>7. CASE WakeUp \/ StartRetryWorker \/ StopRetryWorker \/ Crash
  <2>1. loop' \in {"scan", "off"}
    BY <1>7 DEF WakeUp, StartRetryWorker, StopRetryWorker, Crash
  <2> QED
    BY <2>1 DEF WakeInv, NothingMissed, NoLostWakeup
<1>8. CASE StartPass
  <2>1. UNCHANGED loop /\ loop \in {"scan", "rescan"} /\ thread'["pass"].pc = "check"
    BY <1>0, <1>8, StartPassTyped DEF StartPass, loopVars
  <2> QED
    BY <2>1 DEF WakeInv, NothingMissed, NoLostWakeup
<1>9. CASE EndPass
  <2>1. thread'["pass"].pc = "idle"
    BY <1>0, <1>9, EndPassTyped, IdleTyped
  <2>2. NothingMissed'
    BY <2>1 DEF NothingMissed
  <2>3. NoLostWakeup'
    <3> SUFFICES ASSUME loop' = "wait", ~wake', ~ring', ~mixed'
                 PROVE  /\ check'.status # "queued"
                        /\ \A k \in Keys : jobs'[k].status # "queued"
      BY DEF NoLostWakeup
    <3>1. UNCHANGED <<check, jobs, ring, mixed>> /\ thread["pass"].pc = "empty" /\ loop # "scan"
      BY <1>9 DEF EndPass, At, jobVars, faults
    <3>2. loop = "rescan" /\ ~wake
      BY <1>0, <1>9, <3>1, Typed DEF IInv, OneAtATime, At, EndPass
    <3> QED
      BY <1>0, <3>1, <3>2 DEF WakeInv, NothingMissed
  <2> QED
    BY <2>2, <2>3 DEF WakeInv
<1>10. CASE UNCHANGED vars
  <2>1. UNCHANGED <<check, jobs, thread, loop, wake, mixed, ring>>
    BY <1>10, StutterFacts
  <2> QED
    BY <1>0, <2>1, WakeFrame
<1> QED
  BY <1>1, <1>2, <1>3, <1>4, <1>5, <1>6, <1>7, <1>8, <1>9, <1>10, PassWakeStep, StepKinds

-----------------------------------------------------------------------------
(* The theorems. *)

LEMMA InitIInv ==
    ASSUME Init
    PROVE  IInv
<1>1. /\ batch \in [Batches -> BatchRows]
      /\ \A b \in Batches : batch[b].status = "DRAFT"
  BY BoundsAssumption DEF Init, BatchRows, Statuses, NoXml
<1>2. jobs \in [Keys -> [status : WorkStatuses, stale : BOOLEAN]]
      /\ \A k \in Keys : jobs[k].status = "none"
  BY DEF Init, WorkStatuses
<1>3. thread \in [Threads -> Passes] /\ \A t \in Threads : thread[t] = Idle
  BY IdleTyped DEF Init
<1>4. \A t \in Threads : thread[t].pc = "idle"
  BY <1>3, IdleTyped
<1>5. TypeOK
  <2>1. line \in Seq(Batches) /\ IsInjective(line)
        /\ queue \in Seq(Keys) /\ IsInjective(queue) /\ ToSet(queue) = {}
    BY DEF Init, IsInjective, ToSet
  <2>2. {k \in Keys : Pending(jobs[k])} = {}
    BY <1>2 DEF Pending
  <2>3. /\ accepted \in [Batches -> SUBSET Versions] /\ disowned \subseteq Batches
        /\ config \in Versions /\ enabled \in BOOLEAN
    BY BoundsAssumption DEF Init, Versions
  <2>4. /\ asked \in [Keys -> 0..MaxBooks] /\ cache \in [Keys -> 0..MaxBooks]
        /\ book \in 0..MaxBooks /\ crashes \in 0..MaxCrashes /\ stops \in 0..MaxStops
    BY BoundsAssumption DEF Init
  <2>5. check \in [id : 0..MaxChecks, status : WorkStatuses, stale : BOOLEAN]
    BY BoundsAssumption DEF Init, NoCheck, WorkStatuses
  <2>6. /\ lock \in Threads \cup {"free"} /\ loop \in {"scan", "rescan", "wait", "off"}
        /\ {prefer, wake, ring, mixed} \subseteq BOOLEAN
    BY DEF Init
  <2> QED
    BY <1>1, <1>2, <1>3, <2>1, <2>2, <2>3, <2>4, <2>5, <2>6, Zenon DEF TypeOK, BatchRows
<1>6. PassesAreWhole /\ OneAtATime
  BY <1>4 DEF PassesAreWhole, OneAtATime, Running, At, Threads
<1>7. VoucherInv
  <2>1. \A b \in Batches : accepted[b] = {}
    BY DEF Init
  <2> QED
    BY <1>1, <1>4, <2>1 DEF VoucherInv, PostsUnderLock, SyncedIsInTally, PayloadIsFrozen,
       LoadedIsCurrent
<1>8. JobInv
  <2>1. book = 0 /\ \A k \in Keys : asked[k] = 0
    BY DEF Init
  <2> QED
    BY <1>2, <1>4, <2>1 DEF JobInv, AskedInPast, JobsInHand, FreshAnswer
<1>9. WakeInv
  BY DEF Init, WakeInv, NothingMissed, NoLostWakeup
<1> QED
  BY <1>5, <1>6, <1>7, <1>8, <1>9 DEF IInv

\* The inductive invariant of the worker.
THEOREM Inductive == Spec => []IInv
<1>1. ASSUME IInv, [Next]_vars PROVE IInv'
  <2>1. TypeOK' /\ PassesAreWhole'
    BY <1>1, TypeStep DEF IInv, VoucherInv
  <2>2. OneAtATime'
    BY <1>1, OneAtATimeStep DEF IInv, VoucherInv
  <2>3. VoucherInv' /\ JobInv' /\ WakeInv'
    BY <1>1, VoucherStep, JobStep, WakeStep
  <2> QED
    BY <2>1, <2>2, <2>3 DEF IInv
<1> QED
  BY <1>1, InitIInv, PTL DEF Spec

\* Every variable keeps its type, and the active rows of tally_data_jobs are the
\* queue, whatever stops, crashes and races with whom.
THEOREM TypeCorrect == Spec => []TypeOK
<1>1. IInv => TypeOK
  BY DEF IInv
<1> QED
  BY <1>1, Inductive, PTL

\* Tally takes one voucher of a batch, but for an answer that is read as a
\* rejection and for an orphan beside the loop (the frozen payload of
\* sync_worker.py).
THEOREM OneVoucherPerBatch == Spec => []OneVoucher
<1>1. IInv => OneVoucher
  <2> SUFFICES ASSUME IInv, NEW b \in Batches, ~(b \in disowned \/ mixed)
               PROVE  ~(Cardinality(accepted[b]) > 1)
    BY DEF OneVoucher
  <2>1. accepted[b] = {} \/ accepted[b] = {batch[b].xml}
    BY DEF IInv, VoucherInv, PayloadIsFrozen
  <2>2. Cardinality(accepted[b]) \in {0, 1}
    BY <2>1, FS_EmptySet, FS_Singleton
  <2> QED
    BY <2>2
<1> QED
  BY <1>1, Inductive, PTL

\* A batch that sync_batch has marked SYNCED is in Tally with the payload it
\* stores, for every interleaving of the loop, the orphan and the requests.
THEOREM SyncedBatchesAreInTally == Spec => []SyncedIsInTally
<1>1. IInv => SyncedIsInTally
  BY DEF IInv, VoucherInv
<1> QED
  BY <1>1, Inductive, PTL

\* retry_worker_loop clears its event before its last scan: no request it was
\* notified of waits while it sleeps.
THEOREM WakeupsAreKept == Spec => []NoLostWakeup
<1>1. IInv => NoLostWakeup
  BY DEF IInv, WakeInv
<1> QED
  BY <1>1, Inductive, PTL

\* A data job that has succeeded has replaced the cache with data of Tally no
\* older than the request.
THEOREM AnswersAreFresh == Spec => []FreshAnswer
<1>1. IInv => FreshAnswer
  BY DEF IInv, JobInv
<1> QED
  BY <1>1, Inductive, PTL
=============================================================================
