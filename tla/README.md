# go-pool in TLA+

TLA+ models of go-pool, a mining pool for Salvium: what its servers do to their
shared state, checked by TLC on small instances and, for part of it, proved with
TLAPS for every size. `src/` below is the repository; `PROJECT.json` says for each
definition which lines it models.

## 1. The system

Two programs. A **slave** speaks stratum with miners, verifies their shares with a
daemon and relays accepted shares to the **master**, which keeps the ledger, divides
rewards and pays through wallet-rpc.

| Component (source) | State | Operations | What makes it hard | What makes it correct |
|---|---|---|---|---|
| Penalty box (`cmd/slave/penalty.go`) | bans per address, share window per connection, connections per address | RecordShare, CheckBanned, CleanupConnection, cleanup ticker | called by all connection goroutines between which the maps change | a ban hits its address, all of it and for its whole time; nothing is left behind |
| Connection handler (`cmd/slave/conn.go`, `stratum/server.go`) | a lock, a job and a nonce list per connection, `srv.Connections` | login, submit, block submission, Kick | two locks held across RPCs and a channel send, many exits | locks are given back, in one order; requests are answered |
| Refresher and jobs (`cmd/slave/slave.go`, `nicehash.go`) | `CurInfo`, the channel `sigc`, the shared Nicehash job | polling, block-notify signal, OnNewBlock and a goroutine per connection | reads and writes of the same height by two loops, stale shared jobs | a new block reaches every listed miner |
| Verification queue (`cmd/slave/verify_queue.go`) | an SQLite table, one SQL connection | Submit, processNext in several workers, monitor, cleanup | claims race, restarts, partial failure | one verifier per share, verdicts are the daemon's, the queue drains |
| Daemon pool (`cmd/slave/daemon_pool.go`) | connections, round-robin index | Get, recycle loop, ExecuteWithRetry | the index is shared by concurrent calls | a call gives up only after trying everything |
| Slave client and cache (`slave/`) | share cache, global `conn` | cache, flush, sendToConn, reconnect | three unlocked writers on one TCP stream, clear-after-send | shares are neither invented, duplicated nor lost |
| Master's slave handler (`cmd/master/handler.go`) | `numConns`, shares table | HandleSlave, OnMessage, OnShareFound | framing, restarts in mid-batch | the same, at the other end |
| Reward distribution (`cmd/master/master.go`) | blocks, distributions, fees, balances | BlockFound, DistributeBlockRewardPPLNS | unsynchronised read-modify-write of balances in goroutines | never more credit than reward |
| Transfer processing (`cmd/master/updater.go`) | processed transfers, saved height, `minHeight` | UpdatePendingBals, processTransfer | overlapping runs, crashes between marks, a transaction on a pool of one | each transfer processed, none marked early |
| Withdrawals (`cmd/master/withdraw.go`) | payments | Withdraw, sendPayment | wallet answers late, runs overlap, one transfer for several rows | sent means paid; a row is paid once |
| Ledger (`pkg/ledger`) | the SQLite file behind one connection | the statements the above use | constraints of the schema | statements are atomic, transactions end |
| PPLNS window (`cmd/master/pplns.go`) | `currentN`, luck history; the row `blockchain_info` | GetPPLNSWindow, GetSharesForPPLNS, OnBlockFoundPPLNS; Updater, UpdateReward | no lock on `currentN`, read-modify-write of the row, ordering, division by zero | the window is within its bounds, the selection fills it, no height is overlooked |
| Variable difficulty (`conn.go`, `slave.go`, `template/template.go`) | `CurInfo.Difficulty`, CurrentJob, LastJob and NextDiff of a connection | login, OnNewBlock's clamp, GetJob, judging a share, retarget | fields written one by one with and without the lock, a difficulty read twice | honest shares are accepted, blocks are submitted, and only verified ones |
| P2Pool client (`p2pool/`, the branch in `conn.go`) | a `Client` with a mutex, a socket and two channels per login, `Jobs` | Connect, SubmitWork, dispatchJobs, Start, Stop, the loop that passes jobs on | unbuffered channels between four goroutines, a Client overwritten in use | answers go to their submits, submits return, Kick comes to its end |
| Wire format and crypto, statistics, HTTP API, addresses, configuration, the old BoltDB store | | | | *see section 6* |

Interactions: handlers call the penalty box, the queue (`Submit`, under CurInfo's
lock), `slave.SendShareWithWorker` (the cache) and `SendBlockFound`; the flush loop,
the stats loop and block announcements share one TCP connection to the master;
`OnMessage` calls OnShareFound and BlockFound; BlockFound's goroutine,
UpdatePendingBals and Withdraw are independent goroutines that meet in the ledger,
whose pool has a single connection. BlockFound's goroutine and API requests share the
PPLNS window. In P2Pool mode each connection has a client of its own, which Kick stops.

## 2. The modules

| Module | Models | State and actions in brief |
|---|---|---|
| `PenaltyBox` | the penalty box and the connections that use it | each method runs under `pb.mu` and is one action; `RecordShare` has three outcomes (refused, ban, counted); time is a tick counter |
| `ShareRelay` | the way of a share from a slave to the shares table | every read of the global `conn` and every Write is a step; frames are on the wire one by one; the master reads length and body separately and stores row by row (`added` counts the calls of AddShare, `rows` what the schema lets into the table); links break, either side restarts |
| `Withdraw` | paying | each run has its own snapshot; the wallet is a separate process that may act after its caller has given up or died |
| `Payouts`, `Rewards` | the arithmetic of a reward; its distribution, and transfer processing | each SQL statement is a step that needs the ledger's one connection, and may fail; an open transaction keeps it; whether there are shares to distribute to, and rows for the transaction, is a free choice |
| `PayOnce` | what Withdraw promises | abstract: rows are credited, paid by a transfer and settled with it; `Slip` is the only way to a second payment |
| `Pplns` | the PPLNS window, and `blockchain_info` behind it | each comparison, assignment and read of `currentN` is a step, each statement one; shares arrive in order and have a difficulty; +Inf and the conversion of a negative float are explicit |
| `SlaveServer` | handlers, Refresher, signal goroutine, OnNewBlock, Kick, Nicehash job | locks held across a wait are state, the others are part of their step; a job is the height of its template; a write to a miner's socket may fail and nobody learns of it, as `Connection.Send` drops the error |
| `Vardiff` | one connection's difficulty and jobs | every assignment to a field of CurrentJob is a step of its own; a template has the number of the job made from it; the network and other connections move CurInfo.Difficulty and SeedHash, with which a share is hashed; the Refresher learns the major version |
| `P2Pool` | one connection in P2Pool mode | a channel send and its receive are one step; the mutex is a field of the Client that `Client{}` resets; lines from p2pool are jobs or answers, in order |
| `VerifyQueue` | the queue's workers, monitor and cleanup, composed with the daemon pool | a statement is a step that needs the SQL connection, processNext's transaction keeps it; every call to the daemon may break |
| `VerifyQueueProofs`, `ShareRelayProofs`, `WithdrawProofs`, `RewardsProofs`, `PplnsProofs`, `VardiffProofs`, `P2PoolProofs` | | theorems about the modules they are named after, with the laws of finite sums and folds they rest on |
| `SlaveProofs` | | theorems about `PenaltyBox` and about `SlaveServer`, the two components HandleConnection drives; it extends both, which is why the names of `PenaltyBox` that every module has carry the prefix `Penalty` |
| `MC*` | | instances for TLC |

Operators whose name says what is wrong with them (`FinishKeepsLock`,
`SelectWithoutTx`, ...) are plausible bugs: replacing the definition after them by such
an operator must make TLC find a violation of the property `PROJECT.json` pairs it with.
They are not used by any specification.

Conventions common to all modules. The SQL tables survive a crash, everything else does
not. Ghost variables (`anomalies`, `slipped`, `crossed`, `missed`, `dropped`, `seen`) only record what
properties speak about. A free choice (a share's validity, an RPC's outcome, the moment a
timer fires) is an existential quantifier. Every bound is a constant called `Max...`.

## 3. The runs

Passing runs:

| Run | Instance | What it shows |
|---|---|---|
| `penalty_box` | 3 connections, 2 behind one address, clock to 4, limits scaled down to 2 | a banned address has no window, whichever connection was banned and whatever the ticker dropped; ended connections leave nothing; bans last their whole time |
| `share_relay` | one wallet with two workers, one of whose names contains the cache key's separator; 2 accepted shares, 2 dials, one stats or block packet, one fault | shares are neither invented nor duplicated whatever is interleaved, restarted or broken; while the first link is in use each accepted share is somewhere on its way, and in the end in the table unless that link was closed or the slave died |
| `withdraw` | 3 rows of 2 recipients, 2 runs, a refusal, one overlap, late answer or crash | `Withdraw` implements `PayOnce` (below); a backlog at the threshold is paid down |
| `rewards` | 2 heights, 2 miners whose parts do not come out even and for one height round to zero, 2 distributions and 2 updates of which 2 run at once, one failing statement or crash | a processed transfer has a completed block; saved and in-memory heights never pass an unprocessed transfer; balances stay within distributions, balances and fees within rewards; found blocks are completed and transfers processed, unless the distribution found no shares or gave up, a statement failed, the master died or the ledger froze |
| `pplns` | 2 callers (block or API request), an UpdateReward, shares of different difficulty, heights with different network difficulties, one error or crash | the window a reward is divided by is within the bounds of a difficulty the network had; the selection fills the window and has no share too many; a stored height has been handed to UpdatePendingBals, or a crash fell between the two statements |
| `slave_server` | one Nicehash connection, heights to 2, one ban, nonce byte to 2 | exits give back their locks except where the penalty box throws a miner out; one lock order; a request is answered and a block reaches the listed miner unless a lock is lost for good or the write of a job failed unnoticed |
| `vardiff` | network difficulties 2 and 5, MinDiff 1, a short target of 4, a request beyond 2^53, 2 templates, 2 seed hashes, 3 events | shares that meet the target they were sent are accepted; a share that solves its template is submitted; what is submitted was verified; a job's difficulty is in range. Each up to the races it names |
| `p2pool` | 2 logins, 3 jobs, 2 submits, one failure of p2pool | an answer belongs to its submit; the slave dies only after a failure of p2pool; a submit returns and a departed miner is taken off the list, except in the deadlocks the properties name |
| `verify_queue` | 2 shares (one honest), 2 workers, 2 connections that break at any time, one failing statement or restart | one verifier per share; verdicts are the daemon's; giving up means having tried all connections unless workers moved the shared index under each other; the queue drains |

Violation runs, one disagreement each between the code and what the repository says
(`findings` quotes the lines):

| Run | What happens |
|---|---|
| `rewards_freeze` | `processTransfer` uses the pool inside its transaction; the pool has one connection, so the transaction waits for itself and the ledger is frozen |
| `pay_twice` | one transfer covers two rows, `txid` is UNIQUE, the second row stays pending and is paid again (with the embedded schema even the first row cannot be marked, section 7) |
| `pplns_oldest` | the shares come newest first and are walked from the last index down: the oldest shares are paid |

**Exceptions.** Several properties of the form "unless" name the states the code does not
come back from, so that the rest can be stated without qualification: `Wedged`
(SlaveServer: a lock taken along by a banned miner's handler, or `sigc` full while its
only reader waits for the sender), `Overtaken`, `Unserved`, `NilUnreceived` (P2Pool),
`crossed` (Vardiff: OnNewBlock has met a login), `slipped` and `missed` (Pplns), `Frozen`
and `dropped` (Rewards: a transaction waits for its own connection; a distribution gave up
its block), `sent[c] = 0` (SlaveServer: the last job written to the miner was lost). In
Vardiff a share may be refused when it was hashed with another seed hash than its job's.
The mutants show that the properties are not empty beside them.

**Refinement.** `Withdraw` has runs, snapshots, requests, answers and crashes; `PayOnce`
has only rows, transfers and settlements. The mapping takes a row as credited when it
exists, as a transfer what the wallet has carried out, as settled what is marked `sent`
with its txid, and as a slip that one of four events has happened: overlapping runs, an
answer after the 30 seconds, a crash, a row that could not be marked. Up to a slip no row
is paid or settled twice; at all times transfers go to the owner of their rows, for
exactly their total less the fee, and only what was paid is settled.

**Bounds.** Each is large enough for the case its property is about: two runs, workers
or senders for every race; a recipient with two rows, one below the threshold alone;
two heights, so that one can overtake the other; one fault at every point; a second
dial, so that shares can be lost between links; rewards that do not divide evenly; a
ratio and a rate that are reached within the counted shares. `slave_server` has one
connection, because its handler, two refresh loops, and job goroutines already
interleave in 263 000 states and two exceed 14 million; that locks are given back and taken in one order is
proved for any number of connections. `rewards` lets two of its four goroutines run at a
time (`MaxActive`), in every combination, and numbers the slots instead of using symmetry,
which liveness would forbid. In `pplns` one luck value is kept instead of ten, so that the
history overflows; the callers are symmetric. In `vardiff` `Huge` stands for 2^53
and everything above, which any login may request (`conn.go:208`), and of two templates
each can be made before or after a change of the seed hash; the theorems hold for any
number. `CHECK_DEADLOCK FALSE` appears where the system
may stop: a slave whose miners are gone and whose locks are lost, a P2Pool connection
that has ended, bounded events that are used up (`vardiff`, `pplns`), and the ledger
that its own transaction has frozen, which `rewards` reaches.

**Fairness.** Goroutines that can run do (WF; the signal goroutine and ClearNicehashJob
need no more). Go's mutexes are starvation free and
`database/sql` serves waiters in turn, so whoever is let at a lock or at the one
connection again and again gets it (SF on handlers, job goroutines, queue workers). The
Refresher polls for ever and asks for a template when the old one times out, hence SF of
`RefreshUpdate(TRUE)`. The interval loop of the master keeps starting Withdraw and
UpdatePendingBals, wallet-rpc answers. The flush loop and the sender it runs, the dialler
and the master's handlers run (`share_relay`); p2pool answers the submits it has read, and
a handler whose miner has gone notices at the next read, which has a deadline. Nothing is
assumed of miners, new blocks, jobs, payments or faults.

## 4. What is proved

The theorems are of the form `Spec => []Inv` or `Spec => [][A]_vars`, and one is a
refinement, for **every** value of the constants the modules' assumptions allow: any number
of connections, miners, payments, goroutines, logins, faults.

**Assumptions.** Limits are numbers; a ratio's denominator, the samples a rate is taken
over and a pool's size are positive; an address belongs to a connection; the tables, the
wallets and cache keys ever used, and the goroutines that were ever started, are finite.
Five say more:

- `Withdraw`: the total of any set of payments fits a `uint64` (the model sums modulo
  `Word`, as the code does; without this a total could wrap around and the transfer be too
  small), and the fee is at most the minimum (else `total - fee` wraps around).
- `Pplns`: every network difficulty is positive, as any daemon's is, and the window's
  factors are ordered, as MinWindow and MaxWindow in the code are.
- `ShareRelay`: a share's difficulty is positive, as every job's is, and no wallet is the
  bare separator of a cache key.
- `Vardiff`: a login may request anything; the difficulties of the network and of hashes,
  and twice `MinDiff`, are below 2^53, where a float64 still holds every integer.
- `NothingOverpaid` has the hypothesis `MaxPerHeight = 1`, a block is announced once. A
  second BlockFound for a height does distribute it again (section 7), so the statement
  is false without it; the run `rewards` has the same bound.

`NothingLost` has no hypothesis on the schema and says nothing about it: it follows a share
up to the call of AddShare, for either schema. That the embedded schema refuses every
insert (section 7) belongs to `rows` and to `AcceptedSharesRecorded`, which the run
`share_relay` checks for a table that takes a NULL height.

| Module | Theorems | The inductive invariant, and why the property alone is not enough |
|---|---|---|
| `SlaveProofs`, penalty box | `PenaltyTypeCorrect`, `BanWipesTheAddress`, `NothingLeftBehind`, `SurvivorsJudged`, `BansRunTheirCourse`, `BansStayLocal` | A ban finds windows only through `ipConns`: every window is registered under its address, and an address lists only its own live connections |
| `SlaveProofs`, server | `ServerTypeCorrect`, `LocksAreGivenBack`, `OneLockOrder` | "Who has ended holds no lock" says nothing about those still running: `LockInv` ties each lock to the place of its holder (handler inside its region, job goroutine running, or a connection thrown out); types need that the signal goroutine was told a height before it waits with it |
| `VerifyQueueProofs` | `TypeCorrect`, `ClaimsAreExclusive`, `VerdictsAreSound`, `FailoverIsComplete` | The row a worker has read in its transaction is still pending when it marks it, because nobody else has the connection (`ClaimInv`); `AboutToTell` carries the daemon's answer to the write; `RetryInv` says that a call has tried the connections Get handed out last, one for each attempt, for as long as no other Get came between |
| `ShareRelayProofs` | `TypeCorrect`, `NothingInvented`, `NothingLost` | Bookkeeping: `Held` counts what is or will be credited to a set of wallets wherever it is (cache not yet flushed, sender's hands, frames of every link, calls of AddShare still to come, calls made), `Given` what miners were told was accepted. `NothingGained`: Held never exceeds Given, for every set of wallets credited only with its own shares; `AllHeld`: while the first link is in use they are equal. Both need (`TypeInv`) that a sender holds a message of its kind exactly while it sends, that OnShareFound stores shares only, that a link not dialled yet is empty and that the slave sends nothing before its first dial |
| `WithdrawProofs` | `TypeCorrect`, `PaidOnceUnlessSlip`, `ImplementsPayOnce` | `RequestsAreRight` and `SnapshotIsRight`: a request names rows of one recipient and their exact total; `MarksWhatWasSent`: what a run marks was covered by the transfer it marks with. Until a slip (`NoSlipInv`): one run at a time, live requests cover disjoint rows, a paid row is marked or its run is still waiting for the answer or marking it, the recipients a run has left are untouched |
| `RewardsProofs` | `TypeCorrect`, `NoTransferLost`, `NothingOverpaid` | `TransferInv`: an arrived transfer that is not processed lies above the saved height and not below `minHeight`, nor below what any run is about to query from, and any run whose highest height has reached it still has it in its list. `PayInv`: a height has one goroutine, whose rows are the miners' parts and are written once; a balance, and every value of it a goroutine has read and not yet written back, is covered by the distributions already added, so that a lost update only lowers it |
| `PplnsProofs` | `TypeCorrect`, `WindowIsClamped`, `HeightsAreProcessed`, `SelectionIsMinimal` | `DifficultiesKnown`: every difficulty a caller or an UpdateReward carries, and the stored one, is one the network had, or 1; `ReturnsWithinBounds`: at the return `currentN` is within bounds unless an adjustment slipped in since the clamp. `HeightsStarted`: not only the stored height but every height an UpdateReward is about to write back was started, is about to be, or was missed in a crash. The selection needs no invariant but the types: see *Folds* |
| `VardiffProofs` | `TypeCorrect`, `HonestAccepted`, `SolvedIsSubmitted`, `VerifiedUnlessMoved`, `JobDiffClamped` | `BaseInv` ties the lock to the place of its users, each template to the job made from it and each comparison to a difficulty the network had. `CleanInv`, as long as OnNewBlock has not met the login: the id, blob and difficulty of CurrentJob, LastJob, and of the jobs being made or under judgement belong together and are in range |
| `P2PoolProofs` | `TypeCorrect`, `AnswersAreOwn`, `OnlyFaultsCrash` | `NoLeftOver`: on each login either nobody will read on, or the handler will never wait on its channel again, or no answer is outstanding, or exactly the one the handler waits for. `NoFaultInv`: as long as p2pool has not failed nothing is closed and Start does not start over before the handler's Kick, who unlocks the mutex has it and who closes a connection finds one |

**Sums.** `MapThenSumSet` and `SumFunction` fold over a set in an order nobody knows.
`RewardsProofs` and `ShareRelayProofs` prove that the fold exists, that its order does not
matter, and from that the laws their proofs use (a member taken out, one entry changed,
monotonicity, disjoint unions, the sum of a table by rows and by columns); `WithdrawProofs`
needs only sums of no rows and of one row, and what the assumption says of a total. The
induction is the least element of a set of counterexamples under the strict subset
order, which needs no operator as a parameter.

**Folds.** GetSharesForPPLNS walks the shares and stops when they fill the window. In
`PplnsProofs` an invariant of that walk is proved in the same way, over the sets of
positions visited: what is picked fills the window or is all that was visited, and without
the last pick the window was not full (`SelectionFolds`). With the end of the walk this gives
`SelectionFillsWindow` for every table and window (`SelectionFills`).

**Refinement.** `ImplementsPayOnce` shows that initial states map to initial states and
that each action of `Withdraw` is one of `PayOnce` or a stutter: creation is a credit, the
wallet's transfer a payment, a mark a settlement, and an action that adds to
`anomalies` a slip. The steps need the invariant for the amount of a payment (the total of its
rows less the fee) and, until a slip, for the row being neither paid nor settled before.

Each inductive invariant was first checked by TLC on the bounds of its run (that of P2Pool
also with three logins and two faults). A proof has a lemma per part of its invariant or
per action, with one step per action or per conjunct that the action can disturb.

## 5. What is only model-checked

- All liveness properties: the prover has no fairness and no ENABLED.
  These are `AcceptedSharesRecorded` of the relay and the promises of `withdraw`, `rewards`, `slave_server`,
  `p2pool` and `verify_queue` that something happens in the end.
- The arithmetic of `Payouts` beyond what `NothingOverpaid` needs of it (the parts of a
  reward together do not exceed it).

## 6. What is not modelled, and why

- In `Rewards` the selected shares are a constant weight per miner, or none: `Pplns` says
  which shares count and when, and the two are not composed, because what is written does
  not depend on how the window moved.
- In `P2Pool` SubmitWork keeps the connection it had at its lock, where the code reads
  `cl.conn` again for its deadline and its write (`client.go:224`, `227`). They differ only when Start has
  overwritten the Client in between; then the slave dies in any case, as the mutex of the new
  Client is unlocked once more than it was locked.
- `calc_pow`'s height (`conn.go:622`): RandomX hashes do not depend on it.
- HashToDiff and the 8-byte targets (`template/template.go`): 256-bit arithmetic of which
  the models need only the order of difficulties. The clamp to P2Pool's job difficulty.
- Encryption and serialisation: abstracted to which frame decrypts and decodes to what.
- Statistics, HTTP API: read-only or written to tables nothing reads. The one effect of a
  request, the clamp in GetPPLNSWindow, is in `Pplns`.
- Addresses, configuration, logging, utilities: pure functions or set once. The BoltDB
  store and the migration are not used by either server, nor is `cmd/master/pplns_diff.go`. Tools are one-off
  scripts.
- `DaemonPool.Close`, `VerifyQueue.Stop`: deferred in a `main` that never returns.
- External and modelled from its use: wallet-rpc (the `min_height` of `get_transfers` is
  taken as inclusive), the daemon, TCP, the clock, crashes.
- float64 products in the reward arithmetic are exact in `Payouts`, which is what
  float64 gives below 2^53.

`schema.sql` calls itself a "Minimal working schema for testing"; it lacks tables and a
column the code writes. `CREATE TABLE IF NOT EXISTS` leaves an existing fuller database
alone, and that is what the passing runs assume (`FullSchema`, `HasUpdatedAt` and
`NullableBlockHeight` are the constants that say so). With `NullableBlockHeight = FALSE` TLC refutes `AcceptedSharesRecorded`
without any fault.

## 7. Observations without a run

Seen while modelling, each a consequence of the lines named:

- With the shipped schema: `shares.block_height` is NOT NULL (`schema.sql:35`) though
  `models.go:23` has it nullable, so every share is refused;
  UpdatePaymentStatus sets a column that does not exist (`ledger.go:354`), so no payment is
  ever marked and every run of Withdraw pays all of them again; distributions and pool_fees are missing.
- A failed statement loses its transfer: `continue` skips it but the height of the whole
  list is saved (`updater.go:228-241`); WithTransaction loses a commit error.
- A block whose distribution finds no shares, or fails at GetSharesForPPLNS or at the final
  mark (`master.go:186-194`, `205`, `278`), stays pending until its transfer is processed, which completes it
  without distributing it; nothing tries again. A miner whose CreateDistribution, GetBalance or balance write
  fails is not credited (`master.go:234-259`).
- Double payment also follows from a late wallet answer, a crash between answer and
  mark, and overlapping runs; balances lose updates when two distributions interleave,
  and a second BlockFound for a height distributes it again.
- OnShareFound stores a batch of n shares n times with the total difficulty
  (`master.go:117`, `slaveQueue.go:84`). A worker name with a colon makes an invalid
  wallet, credited to the pool (`slaveQueue.go:72-82`).
- `conn` may become nil between its check and its use (`slaveClient.go:142-151`).
- The penalty box's two exits keep locks: conn.go:654-659 both, conn.go:696-700 the
  connection's. A valid share can be refused there although a comment says it should not
  happen, namely when another connection of the address was banned. `PenaltyEnabled`
  (`config.go:130`) is never read, and the ticker drops windows after 10 minutes whatever
  `ShareWindowMinutes` says (`penalty.go:177`).
- `Connection.Send` returns nil whatever `SendBytes` returned (`server.go:79`): the Kick that
  OnNewBlock has for a job it could not send (`slave.go:217-220`, `242-245`) is never reached.
  The miner stays listed without the job until its handler's next read fails.
- ClearNicehashJob runs a second after OnNewBlock: the first jobs after a block are made
  from the old template. A login may overwrite a newer CurrentJob. CurInfo.Height can go
  back when the Refresher and the signal goroutine cross. `CurInfo.Difficulty` is read
  again without its lock at conn.go:726, and `Difficulty - 1` underflows at 0
  (`slave.go:187-191`). Kick is called without ConnsMut (`server.go:169`).
- Rows a dead slave left in `processing` are never verified, nor deleted. A failed write
  of a verdict has the same effect. ExecuteWithRetry can report "all connections failed"
  after trying one dead connection several times; a call that runs into its 5 s deadline
  is not retried, because "context deadline exceeded" matches none of the strings of
  isConnectionError. recycleLoop does not replace "the oldest connection"
  (`daemon_pool.go:128`) once Get has replaced one out of turn. No verdict of the queue
  reaches the miner or the penalty box.
- A stats or block packet between the two unlocked Writes of a share packet
  (`slaveClient.go:149-150`) makes the master fail to decrypt and close the link; the flush
  ignores Write errors and clears the cache (`slaveQueue.go:87`), so accepted shares are
  lost. `AcceptedSharesRecorded` holds up to that: the link was closed.
- A handler that found a block sends on `sigc` (capacity 1) under CurInfo's lock, which the
  only receiver takes between two receives (`conn.go:736`, `slave.go:74-92`): with a signal
  pending, the slave stops for good. This is part of `Wedged`.
- PPLNS: the luck of a round counts only the shares after the block that ended it, because
  the block is marked completed first, and is +Inf when there were none (`pplns.go:77`);
  N is then 0 or 2^63 until the next clamp. An error of GetBlockchainInfo counts as
  difficulty 1 and shrinks N to it. An adjustment between another caller's clamp and return
  is returned unclamped. An UpdateReward that writes an old height back makes the Updater
  process the new one twice; after a crash between storing a height and
  `go UpdatePendingBals()` its transfers wait for the next height.
- Difficulty: the login writes CurrentJob field by field without the lock, so that a refresh
  that crosses it leaves the id of one job with the blob or the difficulty of another, and
  an honest share is refused. A refresh before the login's difficulty is set makes it
  MinDiff. The login's difficulty is never clamped to the network's. `Difficulty - 1` wraps
  around when OnNewBlock runs while the first login waits for its template. OnNewBlock
  clamps before it fetches. A share is hashed with the seed hash CurInfo has by then
  (`conn.go:620-625`), not its job's: after a change of seed an honest share of an older job
  that is checked at once is refused as a wrong hash. A failed template leaves the new difficulty with the old job
  id. When the network's difficulty falls between the two comparisons, a share that was
  only queued is submitted as a block (`conn.go:726`).
- P2Pool: Stop does not end Start, contrary to its comment (`p2client.go:52-53`): Start
  reconnects, and its goroutine, connection and jobs stay behind. A job line in front of
  an answer stops the connection for good (`Overtaken`). Stop on the nil connection after
  a failed dial panics (`p2client.go:39`); `Client{}` resets a mutex that SubmitWork may
  hold, whose Unlock is then fatal (`p2client.go:86`). A login result without a job leaves
  the client alive with a channel nobody serves (`client.go:195-200`). The consumer's Kick
  on a bad blob sends nil to itself with the lock held (`conn.go:358`), and the handler's
  second Stop after a nil first job has no receiver (`conn.go:257`). When dispatchJobs ends
  it leaves the socket open and the client alive, contrary to `client.go:277-278`. Connect's
  buffered reader can swallow jobs that follow the login response. The consumer decodes the
  target of the first job instead of the current one (`conn.go:369`).

## 8. Plan

Done: penalty box, relay, withdrawals with their abstract specification, rewards, PPLNS
window, slave server, variable difficulty, P2Pool client, verification queue with the
daemon pool; every safety property the runs check of these nine proved, the refinement of
`PayOnce` included.

Left: what the named parts of the invariants say of the code and no theorem states yet
(a wallet request's total is exact at all times, a departed P2Pool login leaves no answer
behind), and the action properties that follow from them; statistics and the HTTP API,
which nothing here depends on.
