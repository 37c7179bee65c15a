---------------------------- MODULE VerifyQueue ----------------------------
(***************************************************************************)
(* The asynchronous verification of shares (cmd/slave/verify_queue.go) and *)
(* the pool of daemon connections its workers share (daemon_pool.go).      *)
(*                                                                         *)
(* The table verify_queue lives in an SQLite file behind a pool of one     *)
(* connection: a transaction keeps it, every other statement waits, and    *)
(* between two statements of a worker anybody else's may run.  The table   *)
(* survives a restart of the slave; the workers, the counters and the pool *)
(* do not.  Stop and Close are not actions: they are deferred by a main    *)
(* that never returns.                                                     *)
(*                                                                         *)
(* Abstractions.  A share is a number that grows with submitted_at.  A     *)
(* connection is "up" or "down", the backend it was balanced to being      *)
(* reachable or not; ages are left open, any connection may be found too   *)
(* old and any verdict to be more than an hour old.  QueueStats, alerts    *)
(* and the table verify_metrics are only shown to people; of them the      *)
(* model keeps the numbers monitorLoop is about to publish.  Unmarshal     *)
(* reads what Submit marshalled and does not fail.                         *)
(***************************************************************************)
EXTENDS Integers, FiniteSets

CONSTANTS
    Shares,         \* ids of rows, in order of submitted_at
    Honest,         \* the shares whose claimed result is the daemon's
    Workers,        \* verification workers
    PoolSize,       \* connections NewDaemonPool could create
    MaxFaults       \* bound on failing SQL statements and restarts of the slave

ASSUME QueueAssumption ==
    /\ Shares \subseteq Nat \ {0} /\ IsFiniteSet(Shares)
    /\ Honest \subseteq Shares
    /\ PoolSize \in Nat \ {0}
    /\ MaxFaults \in Nat

Slots == 0 .. (PoolSize - 1)

VARIABLES
    row,        \* status of each share's row; "absent" before Submit, "lost"
                \* when the INSERT failed
    reason,     \* node_used of a failed row
    tx,         \* the workers with an open transaction
    pc,         \* where each worker is in processNext
    item,       \* the row each worker has read, 0 for none
    attempts,   \* failed attempts of the running ExecuteWithRetry
    client,     \* what Get handed to each worker: a connection that is up or down
    tried,      \* connections the running ExecuteWithRetry has used
    crowded,    \* workers during whose ExecuteWithRetry another one called Get
    health,     \* "up" or "down", for each connection of the pool
    current,    \* DaemonPool.current
    recycle,    \* recycleIndex of recycleLoop
    monitor,    \* where monitorLoop is
    counted,    \* the number of pending rows monitorLoop has read
    faults      \* failed statements and restarts so far

queueVars == <<row, reason>>
workerVars == <<tx, pc, item, attempts, client, tried, crowded>>
poolVars == <<health, current, recycle>>
monitorVars == <<monitor, counted>>
vars == <<queueVars, workerVars, poolVars, monitorVars, faults>>

Pending == {s \in Shares : row[s] = "pending"}
Processing == {s \in Shares : row[s] = "processing"}
Decided == {s \in Shares : row[s] \in {"verified", "failed"}}

Init ==
    /\ row = [s \in Shares |-> "absent"]
    /\ reason = [s \in Shares |-> "none"]
    /\ tx = {}
    /\ pc = [w \in Workers |-> "idle"]
    /\ item = [w \in Workers |-> 0]
    /\ attempts = [w \in Workers |-> 0]
    /\ client = [w \in Workers |-> "up"]
    /\ tried = [w \in Workers |-> {}]
    /\ crowded = {}
    /\ health = [c \in Slots |-> "up"]
    /\ current = 0
    /\ recycle = 0
    /\ monitor = "idle"
    /\ counted = 0
    /\ faults = 0

\* A statement outside a transaction needs the one connection.
DbFree == tx = {}

\* Does this execution of a statement fail?
Fails(bad) ==
    /\ bad => faults < MaxFaults
    /\ faults' = IF bad THEN faults + 1 ELSE faults

-----------------------------------------------------------------------------
(* The table.                                                              *)

\* Submit, called by the connection handlers under CurInfo's lock, so in
\* order.  A failed INSERT is logged; the miner's share is accepted anyway.
Submit(s, bad) ==
    /\ DbFree
    /\ row[s] = "absent"
    /\ \A t \in Shares : t < s => row[t] # "absent"
    /\ Fails(bad)
    /\ row' = [row EXCEPT ![s] = IF bad THEN "lost" ELSE "pending"]
    /\ UNCHANGED <<reason, workerVars, poolVars, monitorVars>>

\* Verdicts of more than an hour ago are deleted.
Cleanup(old) ==
    /\ DbFree
    /\ old # {} /\ old \subseteq Decided
    /\ row' = [s \in Shares |-> IF s \in old THEN "deleted" ELSE row[s]]
    /\ UNCHANGED <<reason, workerVars, poolVars, monitorVars, faults>>

\* metricsLoop starts a cleanup every minute.
MetricsLoop == \E old \in SUBSET Shares : Cleanup(old)

-----------------------------------------------------------------------------
(* A worker: processNext.                                                  *)

NoRowKeepsTx(w) ==
    /\ pc[w] = "idle"
    /\ DbFree
    /\ Pending = {}
    /\ tx' = {w}
    /\ UNCHANGED <<queueVars, pc, item, attempts, client, tried, crowded, poolVars,
                   monitorVars, faults>>

\* Begin and sql.ErrNoRows: the deferred Rollback gives the connection back.
NoRow(w) ==
    /\ pc[w] = "idle"
    /\ DbFree
    /\ Pending = {}
    /\ UNCHANGED vars

SelectWithoutTx(w, s) ==
    /\ pc[w] = "idle"
    /\ s \in Pending
    /\ \A t \in Pending : s <= t
    /\ tx' = tx \cup {w}
    /\ item' = [item EXCEPT ![w] = s]
    /\ pc' = [pc EXCEPT ![w] = "claim"]
    /\ UNCHANGED <<queueVars, attempts, client, tried, crowded, poolVars,
                   monitorVars, faults>>

\* Begin waits for the one connection and keeps it; SELECT ... WHERE status =
\* 'pending' ORDER BY submitted_at LIMIT 1.
SelectNext(w, s) ==
    /\ pc[w] = "idle"
    /\ DbFree
    /\ s \in Pending
    /\ \A t \in Pending : s <= t
    /\ tx' = tx \cup {w}
    /\ item' = [item EXCEPT ![w] = s]
    /\ pc' = [pc EXCEPT ![w] = "claim"]
    /\ UNCHANGED <<queueVars, attempts, client, tried, crowded, poolVars,
                   monitorVars, faults>>

\* The UPDATE or the commit fails and the transaction is rolled back: the row
\* stays pending.  (A SELECT that fails is over like one that finds no row.)
ClaimFails(w) ==
    /\ pc[w] = "claim"
    /\ Fails(TRUE)
    /\ tx' = tx \ {w}
    /\ pc' = [pc EXCEPT ![w] = "idle"]
    /\ item' = [item EXCEPT ![w] = 0]
    /\ UNCHANGED <<queueVars, attempts, client, tried, crowded, poolVars,
                   monitorVars>>

\* UPDATE ... SET status = 'processing', and the commit.
Claim(w) ==
    /\ pc[w] = "claim"
    /\ row' = [row EXCEPT ![item[w]] = "processing"]
    /\ tx' = tx \ {w}
    /\ pc' = [pc EXCEPT ![w] = "get"]
    /\ UNCHANGED <<reason, item, attempts, client, tried, crowded, poolVars,
                   monitorVars, faults>>

-----------------------------------------------------------------------------
(* The daemon pool.                                                        *)

FollowingUnwrapped(i) == i + 1

\* Both indices walk around the slice of connections.
Following(i) == (i + 1) % PoolSize

TooFewAttempts == PoolSize - 1

\* ExecuteWithRetry gives up after this many connection errors.
MaxAttempts == PoolSize + 1

\* DaemonPool.Get: round robin; a connection found too old is replaced, unless
\* that fails.
Get(w, fresh) ==
    LET c == Following(current) IN
    /\ pc[w] = "get"
    /\ attempts[w] < MaxAttempts
    /\ current' = c
    /\ health' = IF fresh THEN [health EXCEPT ![c] = "up"] ELSE health
    /\ client' = [client EXCEPT ![w] = health'[c]]
    /\ tried' = [tried EXCEPT ![w] = @ \cup {c}]
    /\ crowded' = crowded \cup {v \in Workers \ {w} : pc[v] \in {"get", "call"}}
    /\ pc' = [pc EXCEPT ![w] = "call"]
    /\ UNCHANGED <<queueVars, tx, item, attempts, recycle, monitorVars, faults>>

\* isConnectionError: CalcPow's backend is gone, or goes away during the call.
CallDropped(w) ==
    /\ pc[w] = "call"
    /\ attempts' = [attempts EXCEPT ![w] = @ + 1]
    /\ client' = [client EXCEPT ![w] = "up"]
    /\ pc' = [pc EXCEPT ![w] = "get"]
    /\ UNCHANGED <<queueVars, tx, item, tried, crowded, poolVars,
                   monitorVars, faults>>

\* ExecuteWithRetry returns: its local variables are gone.
Return(w) ==
    /\ attempts' = [attempts EXCEPT ![w] = 0]
    /\ client' = [client EXCEPT ![w] = "up"]
    /\ UNCHANGED <<queueVars, tx, item, poolVars, monitorVars, faults>>

\* The daemon's answer, compared with the share's claimed result.
CallAnswered(w) ==
    /\ pc[w] = "call"
    /\ client[w] = "up"
    /\ pc' = [pc EXCEPT ![w] = IF item[w] \in Honest THEN "verified" ELSE "invalid_pow"]
    /\ tried' = [tried EXCEPT ![w] = {}]
    /\ crowded' = crowded \ {w}
    /\ Return(w)

\* Any other error, "context deadline exceeded" among them, is not retried.
CallFails(w) ==
    /\ pc[w] = "call"
    /\ pc' = [pc EXCEPT ![w] = "calc_pow_error"]
    /\ tried' = [tried EXCEPT ![w] = {}]
    /\ crowded' = crowded \ {w}
    /\ Return(w)

\* "all connections failed".
Exhausted(w) ==
    /\ pc[w] = "get"
    /\ attempts[w] >= MaxAttempts
    /\ pc' = [pc EXCEPT ![w] = "exhausted"]
    /\ UNCHANGED <<tried, crowded>>
    /\ Return(w)

\* The ticker of recycleLoop: replace one connection, or fail to, and move on.
RecycleLoop(fresh) ==
    /\ health' = IF fresh THEN [health EXCEPT ![recycle] = "up"] ELSE health
    /\ recycle' = Following(recycle)
    /\ UNCHANGED <<queueVars, workerVars, current, monitorVars, faults>>

\* A backend goes away behind an open connection.
Drop(c) ==
    /\ health[c] = "up"
    /\ health' = [health EXCEPT ![c] = "down"]
    /\ UNCHANGED <<queueVars, workerVars, current, recycle, monitorVars, faults>>

-----------------------------------------------------------------------------
(* Verdicts.                                                               *)

\* The worker goes back to its loop.
Done(w) ==
    /\ pc' = [pc EXCEPT ![w] = "idle"]
    /\ item' = [item EXCEPT ![w] = 0]
    /\ tried' = [tried EXCEPT ![w] = {}]
    /\ crowded' = crowded \ {w}
    /\ UNCHANGED <<tx, attempts, client, poolVars, monitorVars>>

\* UPDATE ... SET status = 'verified'; an error is only logged.
MarkVerified(w, bad) ==
    /\ pc[w] = "verified"
    /\ DbFree
    /\ Fails(bad)
    /\ row' = IF bad THEN row ELSE [row EXCEPT ![item[w]] = "verified"]
    /\ Done(w)
    /\ UNCHANGED reason

MarkFailedWithoutReturn(w, bad) ==
    /\ pc[w] \in {"invalid_pow", "calc_pow_error", "exhausted"}
    /\ DbFree
    /\ Fails(bad)
    /\ row' = IF bad THEN row ELSE [row EXCEPT ![item[w]] = "failed"]
    /\ reason' = IF bad THEN reason ELSE [reason EXCEPT ![item[w]] = "invalid_pow"]
    /\ Done(w)

\* markFailed, with its reason.
MarkFailed(w, bad) ==
    /\ pc[w] \in {"invalid_pow", "calc_pow_error", "exhausted"}
    /\ DbFree
    /\ Fails(bad)
    /\ row' = IF bad THEN row ELSE [row EXCEPT ![item[w]] = "failed"]
    /\ reason' = IF bad THEN reason
                 ELSE [reason EXCEPT ![item[w]] =
                          IF pc[w] = "invalid_pow" THEN "invalid_pow" ELSE "calc_pow_error"]
    /\ Done(w)

-----------------------------------------------------------------------------
(* monitorLoop, and restarts.                                              *)

\* A tick counts the pending and then the processing rows, with anything in
\* between; a number whose query fails is 0.  Both are published and forgotten.
MonitorLoop(bad) ==
    /\ DbFree
    /\ Fails(bad)
    /\ \/ /\ monitor = "idle"
          /\ monitor' = "half"
          /\ counted' = IF bad THEN 0 ELSE Cardinality(Pending)
       \/ /\ monitor = "half"
          /\ monitor' = "idle"
          /\ counted' = 0
    /\ UNCHANGED <<queueVars, workerVars, poolVars>>

\* The slave dies and is started again: NewDaemonPool, NewVerifyQueue.
Restart ==
    /\ faults < MaxFaults
    /\ faults' = faults + 1
    /\ tx' = {}
    /\ pc' = [w \in Workers |-> "idle"]
    /\ item' = [w \in Workers |-> 0]
    /\ attempts' = [w \in Workers |-> 0]
    /\ client' = [w \in Workers |-> "up"]
    /\ tried' = [w \in Workers |-> {}]
    /\ crowded' = {}
    /\ health' = [c \in Slots |-> "up"]
    /\ current' = 0
    /\ recycle' = 0
    /\ monitor' = "idle"
    /\ counted' = 0
    /\ UNCHANGED queueVars

ProcessNext(w) ==
    \/ NoRow(w)
    \/ \E s \in Shares : SelectNext(w, s)
    \/ Claim(w)
    \/ \E fresh \in BOOLEAN : Get(w, fresh)
    \/ CallDropped(w) \/ CallAnswered(w) \/ Exhausted(w)
    \/ MarkVerified(w, FALSE) \/ MarkFailed(w, FALSE)

Disturbance(w) ==
    \/ ClaimFails(w) \/ CallFails(w)
    \/ MarkVerified(w, TRUE) \/ MarkFailed(w, TRUE)

Next ==
    \/ \E s \in Shares, bad \in BOOLEAN : Submit(s, bad)
    \/ MetricsLoop
    \/ \E w \in Workers : ProcessNext(w) \/ Disturbance(w)
    \/ \E fresh \in BOOLEAN : RecycleLoop(fresh)
    \/ \E c \in Slots : Drop(c)
    \/ \E bad \in BOOLEAN : MonitorLoop(bad)
    \/ Restart

\* Workers keep running, and database/sql serves those that wait for the
\* connection in turn, so a worker that is let in again and again gets in.
Fairness == \A w \in Workers : SF_vars(ProcessNext(w))

Spec == Init /\ [][Next]_vars
FairSpec == Spec /\ Fairness

-----------------------------------------------------------------------------
(* Properties.                                                             *)

\* The workers that are past the commit of processNext.
Verifying == {w \in Workers : pc[w] \notin {"idle", "claim"}}

TypeOK ==
    /\ row \in [Shares -> {"absent", "lost", "pending", "processing",
                           "verified", "failed", "deleted"}]
    /\ reason \in [Shares -> {"none", "invalid_pow", "calc_pow_error"}]
    /\ tx \subseteq Workers
    /\ pc \in [Workers -> {"idle", "claim", "get", "call", "exhausted",
                           "verified", "invalid_pow", "calc_pow_error"}]
    /\ item \in [Workers -> Shares \cup {0}]
    /\ attempts \in [Workers -> 0..MaxAttempts]
    /\ client \in [Workers -> {"up", "down"}]
    /\ tried \in [Workers -> SUBSET Slots]
    /\ crowded \subseteq Workers
    /\ health \in [Slots -> {"up", "down"}]
    /\ current \in Slots /\ recycle \in Slots
    /\ monitor \in {"idle", "half"}
    /\ counted \in Nat
    /\ faults \in 0..MaxFaults

\* processNext's transaction hands a row to one worker: whatever the workers'
\* statements, failed commits and restarts, two workers never verify the same
\* share, and a share being verified is not pending.
OneVerifierPerShare ==
    \A v \in Verifying :
        /\ row[item[v]] = "processing"
        /\ \A w \in Verifying : item[v] = item[w] => v = w

\* A verdict is the daemon's on that very share: "verified" only what the
\* daemon computed too, "invalid_pow" only what it computed differently, and
\* never because connections failed or the worker was at another share before.
VerdictIsRight ==
    \A s \in Shares :
        /\ row[s] = "verified" => s \in Honest
        /\ reason[s] = "invalid_pow" => s \notin Honest

\* ExecuteWithRetry ("automatic failover") gives up only when it has tried
\* every connection, unless other workers moved the shared round-robin index
\* in between: then it may have tried the same dead connection each time.
ExhaustedMeansAllTried ==
    \A w \in Workers : pc[w] = "exhausted" => tried[w] = Slots \/ w \in crowded

\* The queue is drained again and again, so every queued share gets its
\* verdict, whichever connections are down, unless a statement failed or the
\* slave was restarted: nobody takes up a row that was left in processing.
QueueIsDrained ==
    []<>(Pending \cup Processing = {} \/ faults > 0)
=============================================================================
