------------------------- MODULE VerifyQueueProofs -------------------------
(***************************************************************************)
(* Proofs about VerifyQueue for any number of shares, workers, pool        *)
(* connections, failing statements and restarts.  That no share has two    *)
(* verifiers rests on the one SQL connection: ClaimInv ties the open       *)
(* transaction to the worker inside it and says that the row it has read   *)
(* is still pending when it is marked.  That ExecuteWithRetry tries every  *)
(* connection rests on the round robin: TriedLast says that the latest     *)
(* connections handed out, as many as there were attempts, were tried.     *)
(***************************************************************************)
EXTENDS VerifyQueue, FiniteSetTheorems, TLAPS

\* At most one transaction is open, and it belongs to the worker that claims.
TxExclusive ==
    /\ \A v, w \in tx : v = w
    /\ \A w \in Workers : pc[w] = "claim" => w \in tx

\* The row a worker has read in its transaction is still pending.
ClaimedIsPending ==
    \A w \in Workers : pc[w] = "claim" => item[w] \in Shares /\ row[item[w]] = "pending"

\* A worker that verifies has a row.
VerifierHasItem == \A w \in Verifying : item[w] \in Shares

\* What a worker is about to write is what the daemon said of its row.
AboutToTell ==
    \A w \in Workers :
        /\ pc[w] = "verified" => item[w] \in Honest
        /\ pc[w] = "invalid_pow" => item[w] \notin Honest

\* A worker whose call is under way may still count one more failure.
AttemptsLeft == \A w \in Workers : pc[w] = "call" => attempts[w] < MaxAttempts

ClaimInv ==
    /\ TxExclusive
    /\ ClaimedIsPending
    /\ VerifierHasItem
    /\ OneVerifierPerShare

\* How many calls of Get ago connection c was handed out, if they went round robin.
Ago(c) == IF c <= current THEN current - c ELSE current - c + PoolSize

\* A call that nobody else's Get has interfered with has tried the connections
\* handed out last, one for each attempt.
TriedLast ==
    \A w \in Workers :
        /\ pc[w] \notin {"get", "call"} => attempts[w] = 0
        /\ w \notin crowded => \A c \in Slots :
              /\ pc[w] = "get" /\ Ago(c) < attempts[w] => c \in tried[w]
              /\ pc[w] = "call" /\ Ago(c) <= attempts[w] => c \in tried[w]

RetryInv == TriedLast /\ ExhaustedMeansAllTried

IInv == TypeOK /\ AttemptsLeft /\ ClaimInv /\ AboutToTell /\ VerdictIsRight /\ RetryInv

-----------------------------------------------------------------------------
\* The round-robin index stays inside the slice of connections.
LEMMA FollowingInRange ==
    ASSUME NEW i \in Slots
    PROVE  Following(i) \in Slots
BY QueueAssumption DEF Following, Slots

\* The initial state satisfies the inductive invariant.
LEMMA InitIInv == Init => IInv
BY QueueAssumption DEF Init, IInv, TypeOK, AttemptsLeft, ClaimInv, TxExclusive, ClaimedIsPending,
   VerifierHasItem, OneVerifierPerShare, Verifying, AboutToTell, VerdictIsRight, Slots,
   MaxAttempts, RetryInv, TriedLast, ExhaustedMeansAllTried, Ago

\* What monitorLoop reads is a number.
LEMMA CountIsNumber == Cardinality(Pending) \in Nat
<1>1. Pending \subseteq Shares
  BY DEF Pending
<1>2. IsFiniteSet(Pending)
  BY <1>1, QueueAssumption, FS_Subset
<1> QED
  BY <1>2, FS_CardinalityType

-----------------------------------------------------------------------------
\* Every step preserves the types.
LEMMA NextTypeOK == TypeOK /\ AttemptsLeft /\ [Next]_vars => TypeOK'
<1> SUFFICES ASSUME TypeOK, AttemptsLeft, [Next]_vars
             PROVE  TypeOK'
  OBVIOUS
<1> USE QueueAssumption, FollowingInRange
    DEF TypeOK, Fails, queueVars, workerVars, poolVars, monitorVars
<1>1. ASSUME NEW s \in Shares, NEW bad \in BOOLEAN, Submit(s, bad) PROVE TypeOK'
  BY <1>1 DEF Submit, DbFree
<1>2. ASSUME NEW old \in SUBSET Shares, Cleanup(old) PROVE TypeOK'
  BY <1>2 DEF Cleanup
<1>3. ASSUME NEW w \in Workers, NoRow(w) PROVE TypeOK'
  BY <1>3 DEF NoRow, vars
<1>4. ASSUME NEW w \in Workers, NEW s \in Shares, SelectNext(w, s) PROVE TypeOK'
  BY <1>4 DEF SelectNext
<1>5. ASSUME NEW w \in Workers, ClaimFails(w) PROVE TypeOK'
  BY <1>5 DEF ClaimFails
<1>5a. ASSUME NEW w \in Workers, Claim(w) PROVE TypeOK'
  BY <1>5a DEF Claim
<1>6. ASSUME NEW w \in Workers, NEW fresh \in BOOLEAN, Get(w, fresh) PROVE TypeOK'
  BY <1>6 DEF Get
<1>7. ASSUME NEW w \in Workers, CallAnswered(w) PROVE TypeOK'
  BY <1>7 DEF CallAnswered, Return, MaxAttempts
<1>7a. ASSUME NEW w \in Workers, CallFails(w) PROVE TypeOK'
  BY <1>7a DEF CallFails, Return, MaxAttempts
<1>7b. ASSUME NEW w \in Workers, Exhausted(w) PROVE TypeOK'
  BY <1>7b DEF Exhausted, Return, MaxAttempts
<1>8. ASSUME NEW w \in Workers, CallDropped(w) PROVE TypeOK'
  BY <1>8 DEF CallDropped, MaxAttempts, AttemptsLeft
<1>9. ASSUME NEW w \in Workers, NEW bad \in BOOLEAN, MarkVerified(w, bad) PROVE TypeOK'
  <2>1. CASE bad
    BY <1>9, <2>1 DEF MarkVerified, Done
  <2>2. CASE ~bad
    BY <1>9, <2>2 DEF MarkVerified, Done
  <2> QED
    BY <2>1, <2>2
<1>10. ASSUME NEW w \in Workers, NEW bad \in BOOLEAN, MarkFailed(w, bad) PROVE TypeOK'
  <2>1. CASE bad
    BY <1>10, <2>1 DEF MarkFailed, Done
  <2>2. CASE ~bad
    BY <1>10, <2>2 DEF MarkFailed, Done
  <2> QED
    BY <2>1, <2>2
<1>11. ASSUME NEW fresh \in BOOLEAN, RecycleLoop(fresh) PROVE TypeOK'
  BY <1>11 DEF RecycleLoop
<1>12. ASSUME NEW c \in Slots, Drop(c) PROVE TypeOK'
  BY <1>12 DEF Drop
<1>13. ASSUME NEW bad \in BOOLEAN, MonitorLoop(bad) PROVE TypeOK'
  BY <1>13, CountIsNumber DEF MonitorLoop, Pending, Processing
<1>14. CASE Restart
  BY <1>14 DEF Restart, Slots, MaxAttempts
<1>15. CASE UNCHANGED vars
  BY <1>15 DEF vars
<1> QED
  BY ZenonT(40), <1>1, <1>2, <1>3, <1>4, <1>5, <1>5a, <1>6, <1>7, <1>7a, <1>7b, <1>8, <1>9,
     <1>10, <1>11, <1>12, <1>13, <1>14, <1>15 DEF Next, MetricsLoop, ProcessNext, Disturbance

-----------------------------------------------------------------------------
\* Only Get starts a call, and only with an attempt left.
LEMMA NextAttemptsLeft == TypeOK /\ AttemptsLeft /\ [Next]_vars => AttemptsLeft'
<1> SUFFICES ASSUME TypeOK, AttemptsLeft, [Next]_vars
             PROVE  AttemptsLeft'
  OBVIOUS
<1> USE DEF TypeOK, AttemptsLeft, queueVars, workerVars, poolVars, monitorVars, MaxAttempts
<1>1. ASSUME NEW w \in Workers, NEW s \in Shares, SelectNext(w, s) PROVE AttemptsLeft'
  BY <1>1 DEF SelectNext
<1>2. ASSUME NEW w \in Workers, ClaimFails(w) \/ Claim(w) PROVE AttemptsLeft'
  BY ZenonT(40), <1>2 DEF ClaimFails, Claim
<1>3. ASSUME NEW w \in Workers, NEW fresh \in BOOLEAN, Get(w, fresh) PROVE AttemptsLeft'
  BY <1>3 DEF Get
<1>4. ASSUME NEW w \in Workers, CallDropped(w) PROVE AttemptsLeft'
  BY <1>4 DEF CallDropped
<1>5. ASSUME NEW w \in Workers, CallAnswered(w) \/ CallFails(w) \/ Exhausted(w)
      PROVE AttemptsLeft'
  BY <1>5 DEF CallAnswered, CallFails, Exhausted, Return
<1>6. ASSUME NEW w \in Workers, NEW bad \in BOOLEAN, MarkVerified(w, bad) \/ MarkFailed(w, bad)
      PROVE AttemptsLeft'
  BY <1>6 DEF MarkVerified, MarkFailed, Done
<1>7. CASE Restart
  BY <1>7 DEF Restart
<1>8. CASE UNCHANGED <<pc, attempts>>
  BY <1>8
<1> QED
  BY <1>1, <1>2, <1>3, <1>4, <1>5, <1>6, <1>7, <1>8 DEF Next, MetricsLoop, ProcessNext, Disturbance,
     NoRow, Submit, Cleanup, RecycleLoop, Drop, MonitorLoop, vars

-----------------------------------------------------------------------------
\* Every step leaves at most one worker inside a transaction and each row with
\* at most one verifier.
LEMMA NextClaimInv == TypeOK /\ ClaimInv /\ [Next]_vars => ClaimInv'
<1> SUFFICES ASSUME TypeOK, ClaimInv, [Next]_vars
             PROVE  ClaimInv'
  OBVIOUS
<1> USE DEF TypeOK, ClaimInv, TxExclusive, ClaimedIsPending, VerifierHasItem,
        OneVerifierPerShare, Verifying, DbFree
<1>1. ASSUME NEW s \in Shares, NEW bad \in BOOLEAN, Submit(s, bad) PROVE ClaimInv'
  BY <1>1 DEF Submit, workerVars
<1>2. ASSUME NEW old \in SUBSET Shares, Cleanup(old) PROVE ClaimInv'
  BY <1>2 DEF Cleanup, Decided, workerVars
<1>3. ASSUME NEW w \in Workers, NEW s \in Shares, SelectNext(w, s) PROVE ClaimInv'
  BY <1>3 DEF SelectNext, Pending, queueVars
<1>4. ASSUME NEW w \in Workers, ClaimFails(w) PROVE ClaimInv'
  BY <1>4 DEF ClaimFails, queueVars
<1>5. ASSUME NEW w \in Workers, Claim(w) PROVE ClaimInv'
  BY <1>5 DEF Claim
<1>6. ASSUME NEW w \in Workers, NEW fresh \in BOOLEAN, Get(w, fresh) PROVE ClaimInv'
  BY <1>6 DEF Get, queueVars
<1>7. ASSUME NEW w \in Workers,
             CallDropped(w) \/ CallAnswered(w) \/ CallFails(w) \/ Exhausted(w)
      PROVE ClaimInv'
  BY <1>7 DEF CallDropped, CallAnswered, CallFails, Exhausted, Return, queueVars
<1>8. ASSUME NEW w \in Workers, NEW bad \in BOOLEAN, MarkVerified(w, bad) PROVE ClaimInv'
  BY <1>8 DEF MarkVerified, Done
<1>9. ASSUME NEW w \in Workers, NEW bad \in BOOLEAN, MarkFailed(w, bad) PROVE ClaimInv'
  BY <1>9 DEF MarkFailed, Done
<1>10. CASE Restart
  BY <1>10 DEF Restart, queueVars
<1>11. CASE UNCHANGED <<row, tx, pc, item>>
  BY <1>11
<1> HIDE DEF TypeOK, ClaimInv, TxExclusive, ClaimedIsPending, VerifierHasItem,
         OneVerifierPerShare, Verifying, DbFree
<1> QED
  BY <1>1, <1>2, <1>3, <1>4, <1>5, <1>6, <1>7, <1>8, <1>9, <1>10, <1>11
  DEF Next, MetricsLoop, ProcessNext, Disturbance, NoRow, RecycleLoop, Drop, MonitorLoop, vars, queueVars,
      workerVars

-----------------------------------------------------------------------------
\* Every step writes only verdicts the daemon has given on that row.
LEMMA NextVerdicts ==
    IInv /\ [Next]_vars => (AboutToTell /\ VerdictIsRight)'
<1> SUFFICES ASSUME IInv, [Next]_vars
             PROVE  (AboutToTell /\ VerdictIsRight)'
  OBVIOUS
<1> USE DEF IInv, TypeOK, AboutToTell, VerdictIsRight
<1>1. ASSUME NEW s \in Shares, NEW bad \in BOOLEAN, Submit(s, bad)
      PROVE (AboutToTell /\ VerdictIsRight)'
  BY <1>1 DEF Submit, workerVars
<1>2. ASSUME NEW old \in SUBSET Shares, Cleanup(old) PROVE (AboutToTell /\ VerdictIsRight)'
  BY <1>2 DEF Cleanup, workerVars
<1>3. ASSUME NEW w \in Workers, NEW s \in Shares, SelectNext(w, s)
      PROVE (AboutToTell /\ VerdictIsRight)'
  BY <1>3 DEF SelectNext, queueVars
<1>4. ASSUME NEW w \in Workers, ClaimFails(w) \/ Claim(w)
      PROVE (AboutToTell /\ VerdictIsRight)'
  BY ZenonT(40), <1>4 DEF ClaimFails, Claim, queueVars
<1>5. ASSUME NEW w \in Workers, NEW fresh \in BOOLEAN, Get(w, fresh)
      PROVE (AboutToTell /\ VerdictIsRight)'
  BY <1>5 DEF Get, queueVars
<1>6. ASSUME NEW w \in Workers,
             CallDropped(w) \/ CallAnswered(w) \/ CallFails(w) \/ Exhausted(w)
      PROVE (AboutToTell /\ VerdictIsRight)'
  BY <1>6 DEF CallDropped, CallAnswered, CallFails, Exhausted, Return, queueVars
<1>7. ASSUME NEW w \in Workers, NEW bad \in BOOLEAN, MarkVerified(w, bad)
      PROVE (AboutToTell /\ VerdictIsRight)'
  BY <1>7 DEF MarkVerified, Done
<1>8. ASSUME NEW w \in Workers, NEW bad \in BOOLEAN, MarkFailed(w, bad)
      PROVE (AboutToTell /\ VerdictIsRight)'
  BY <1>8 DEF MarkFailed, Done
<1>9. CASE Restart
  BY <1>9 DEF Restart, queueVars
<1>10. CASE UNCHANGED <<row, reason, pc, item>>
  BY <1>10
<1> QED
  BY <1>1, <1>2, <1>3, <1>4, <1>5, <1>6, <1>7, <1>8, <1>9, <1>10
  DEF Next, MetricsLoop, ProcessNext, Disturbance, NoRow, RecycleLoop, Drop, MonitorLoop, vars, queueVars,
      workerVars

-----------------------------------------------------------------------------
\* A call of Get makes every other connection one call older.
LEMMA OneCallAgo ==
    ASSUME NEW i \in Slots, NEW c \in Slots, current = i, current' = Following(i), c # current'
    PROVE  Ago(c)' = Ago(c) + 1
<1>1. PoolSize \in Nat \ {0} /\ i \in Int /\ c \in Int /\ 0 <= i /\ i < PoolSize
      /\ 0 <= c /\ c < PoolSize
  BY QueueAssumption DEF Slots
<1>2. current' = IF i + 1 = PoolSize THEN 0 ELSE i + 1
  BY <1>1 DEF Following
<1> QED
  BY <1>1, <1>2 DEF Ago

\* A connection was handed out less than a round of the pool ago.
LEMMA AgoInRange ==
    ASSUME TypeOK, NEW c \in Slots
    PROVE  Ago(c) \in 0..(PoolSize - 1)
BY QueueAssumption DEF TypeOK, Slots, Ago

\* Every step of a call that is left alone takes it to the next connection of the
\* pool, so that MaxAttempts of them are all.
LEMMA NextRetryInv == TypeOK /\ RetryInv /\ [Next]_vars => RetryInv'
<1> SUFFICES ASSUME TypeOK, RetryInv, [Next]_vars
             PROVE  RetryInv'
  OBVIOUS
<1> USE DEF RetryInv, TriedLast, ExhaustedMeansAllTried
<1>1. ASSUME NEW w \in Workers, NEW s \in Shares, SelectNext(w, s) PROVE RetryInv'
  BY <1>1 DEF SelectNext, poolVars, TypeOK, Ago
<1>2. ASSUME NEW w \in Workers, ClaimFails(w) PROVE RetryInv'
  BY <1>2 DEF ClaimFails, poolVars, TypeOK, Ago
<1>3. ASSUME NEW w \in Workers, Claim(w) PROVE RetryInv'
  <2>1. attempts[w] = 0 /\ \A c \in Slots : ~(Ago(c) < 0)
    BY <1>3, AgoInRange DEF Claim
  <2> QED
    BY <1>3, <2>1 DEF Claim, poolVars, TypeOK, Ago
<1>4. ASSUME NEW w \in Workers, NEW fresh \in BOOLEAN, Get(w, fresh) PROVE RetryInv'
  <2>1. /\ pc[w] = "get" /\ pc' = [pc EXCEPT ![w] = "call"] /\ current' = Following(current)
        /\ tried' = [tried EXCEPT ![w] = @ \cup {current'}] /\ UNCHANGED attempts
        /\ crowded' = crowded \cup {v \in Workers \ {w} : pc[v] \in {"get", "call"}}
    BY <1>4 DEF Get
  <2>2. ASSUME w \notin crowded, NEW c \in Slots, Ago(c)' <= attempts[w]
        PROVE  c \in tried'[w]
    <3>1. CASE c = current'
      BY <2>1, <3>1 DEF TypeOK
    <3>2. CASE c # current'
      <4>1. Ago(c)' = Ago(c) + 1
        BY <2>1, <3>2, OneCallAgo DEF TypeOK
      <4>2. Ago(c) < attempts[w]
        BY <2>2, <4>1, AgoInRange, QueueAssumption DEF TypeOK, MaxAttempts
      <4> QED
        BY <2>1, <2>2, <4>2 DEF TypeOK
    <3> QED
      BY <3>1, <3>2
  <2>3. TriedLast'
    BY <2>1, <2>2 DEF TypeOK
  <2>4. ExhaustedMeansAllTried'
    BY <2>1 DEF TypeOK
  <2> QED
    BY <2>3, <2>4
<1>5. ASSUME NEW w \in Workers, CallDropped(w) PROVE RetryInv'
  <2>1. \A c \in Slots : Ago(c) < attempts[w] + 1 => Ago(c) <= attempts[w]
    BY AgoInRange, QueueAssumption DEF TypeOK, MaxAttempts
  <2> QED
    BY <1>5, <2>1 DEF CallDropped, poolVars, TypeOK, Ago
<1>6. ASSUME NEW w \in Workers, CallAnswered(w) \/ CallFails(w) PROVE RetryInv'
  BY <1>6 DEF CallAnswered, CallFails, Return, poolVars, TypeOK, Ago
<1>7. ASSUME NEW w \in Workers, Exhausted(w) PROVE RetryInv'
  <2>1. \A c \in Slots : Ago(c) < attempts[w]
    BY <1>7, AgoInRange, QueueAssumption DEF Exhausted, TypeOK, MaxAttempts
  <2>2. w \notin crowded => tried[w] = Slots
    BY <1>7, <2>1 DEF Exhausted, TypeOK
  <2> QED
    BY <1>7, <2>2 DEF Exhausted, Return, poolVars, TypeOK, Ago
<1>8. ASSUME NEW w \in Workers, NEW bad \in BOOLEAN, MarkVerified(w, bad) \/ MarkFailed(w, bad)
      PROVE RetryInv'
  BY <1>8 DEF MarkVerified, MarkFailed, Done, poolVars, TypeOK, Ago
<1>9. CASE Restart
  BY <1>9 DEF Restart
<1>10. CASE UNCHANGED <<pc, attempts, tried, crowded, current>>
  BY <1>10 DEF Ago
<1> HIDE DEF RetryInv, TriedLast, ExhaustedMeansAllTried
<1> QED
  BY <1>1, <1>2, <1>3, <1>4, <1>5, <1>6, <1>7, <1>8, <1>9, <1>10
  DEF Next, MetricsLoop, ProcessNext, Disturbance, NoRow, Submit, Cleanup, RecycleLoop, Drop,
      MonitorLoop, vars, workerVars, poolVars

-----------------------------------------------------------------------------
\* The inductive invariant holds in every reachable state.
LEMMA Invariance == Spec => []IInv
<1>1. IInv /\ [Next]_vars => IInv'
  BY NextTypeOK, NextAttemptsLeft, NextClaimInv, NextVerdicts, NextRetryInv DEF IInv
<1> QED
  BY <1>1, InitIInv, PTL DEF Spec

\* The state of the queue, its workers and the pool keeps its types; current
\* and recycleIndex always name a connection of the pool.
THEOREM TypeCorrect == Spec => []TypeOK
<1>1. IInv => TypeOK
  BY DEF IInv
<1> QED
  BY <1>1, Invariance, PTL

\* processNext never gives a share to two workers (verify_queue.go 166-214).
THEOREM ClaimsAreExclusive == Spec => []OneVerifierPerShare
<1>1. IInv => OneVerifierPerShare
  BY DEF IInv, ClaimInv
<1> QED
  BY <1>1, Invariance, PTL

\* What processNext writes is the daemon's verdict on that share
\* (verify_queue.go 224-261), whatever the pool's connections do.
THEOREM VerdictsAreSound == Spec => []VerdictIsRight
<1>1. IInv => VerdictIsRight
  BY DEF IInv
<1> QED
  BY <1>1, Invariance, PTL

\* ExecuteWithRetry gives up only after every connection of the pool, unless another
\* worker's Get came in between (daemon_pool.go; see ExhaustedMeansAllTried).
THEOREM FailoverIsComplete == Spec => []ExhaustedMeansAllTried
<1>1. IInv => ExhaustedMeansAllTried
  BY DEF IInv, RetryInv
<1> QED
  BY <1>1, Invariance, PTL
=============================================================================
