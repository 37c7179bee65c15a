------------------------------ MODULE Rewards ------------------------------
(***************************************************************************)
(* How the master turns a found block into credit, twice over:             *)
(*                                                                         *)
(*  - BlockFound (cmd/master/master.go) records a block announced by a     *)
(*    slave and starts a goroutine that, 30 seconds later, adds each       *)
(*    miner's part to the balances table (DistributeBlockRewardPPLNS);     *)
(*  - UpdatePendingBals (cmd/master/updater.go) looks for incoming         *)
(*    transfers of the pool wallet and turns each into rows of the         *)
(*    payments table (processTransfer), tracking its progress by height.   *)
(*                                                                         *)
(* Both run in goroutines of their own and meet in the SQLite ledger.  The *)
(* ledger's pool has ONE connection (SetMaxOpenConns(1)), which serves one *)
(* statement at a time: every statement is a step that needs it free, and  *)
(* an open transaction keeps it.  The tables survive a crash, goroutines   *)
(* and minHeight do not.                                                   *)
(*                                                                         *)
(* Abstractions.  There is one wallet transfer per height and its height   *)
(* names it.  The shares PPLNS selects, when there are any, are a constant *)
(* weight per miner (module Payouts has the arithmetic); how the window    *)
(* moves is not part of this module.  Whether there are shares in the      *)
(* window, or in the last six hours, is a free choice at each look.  A     *)
(* block whose first INSERT fails is as if it had not been announced.      *)
(***************************************************************************)
EXTENDS Integers, FiniteSets, FiniteSetsExt, Functions, Payouts

CONSTANTS
    Heights,         \* block heights, positive numbers
    Miners,          \* miners with shares
    Weight,          \* difficulty of each miner's shares in the PPLNS window
    Reward,          \* reward of the block at each height
    FeePercent,      \* MasterConfig.FeePercent
    FullSchema,      \* has the schema the tables distributions and pool_fees?
    Finds,           \* BlockFound calls, numbered, each with its goroutine
    Updates,         \* numbered slots for UpdatePendingBals goroutines, which may overlap
    MaxPerHeight,    \* bound on BlockFound calls for one height
    MaxActive,       \* bound on goroutines that run at the same time
    MaxFaults        \* bound on failing statements and crashes of the master

ASSUME RewardsAssumption ==
    /\ Heights \subseteq Nat \ {0} /\ IsFiniteSet(Heights)
    /\ IsFiniteSet(Miners)
    /\ Weight \in [Miners -> Nat]
    /\ Reward \in [Heights -> Nat]
    /\ FeePercent \in 0..100
    /\ FullSchema \in BOOLEAN
    /\ Finds \subseteq Nat /\ Updates \subseteq Nat /\ IsFiniteSet(Finds)
    /\ {MaxPerHeight, MaxActive, MaxFaults} \subseteq Nat

VARIABLES
    \* tables
    blocks,         \* blocks_found: status of each height, "absent" if no row
    dist,           \* distributions: amount per height and miner, 0 if no row
    fees,           \* pool_fees: fee collected for each height, 0 if no row
    balance,        \* balances: balance_pending of each miner
    processed,      \* processed_transfers
    saved,          \* pool_config: last_processed_height
    \* the pool's only connection: {} or the goroutine whose transaction has it
    holder,
    \* DistributeBlockRewardPPLNS goroutines
    fpc, fheight, ftodo, fminer, fbal,
    \* UpdatePendingBals goroutines
    upc, ufrom, ulist, uhigh,
    minHeight,      \* the global of updater.go
    arrived,        \* transfers the pool wallet has received
    faults,         \* failed statements and crashes so far
    \* which distributions gave up: written for FoundBlockIsCompleted only
    dropped

tables == <<blocks, dist, fees, balance, processed, saved>>
findVars == <<fpc, fheight, ftodo, fminer, fbal>>
updateVars == <<upc, ufrom, ulist, uhigh>>
vars == <<tables, holder, findVars, updateVars, minHeight, arrived, faults,
          dropped>>

TypeOK ==
    /\ blocks \in [Heights -> {"absent", "pending", "processing", "completed"}]
    /\ dist \in [Heights -> [Miners -> Nat]]
    /\ fees \in [Heights -> Nat]
    /\ balance \in [Miners -> Nat]
    /\ processed \subseteq Heights
    /\ saved \in Heights \cup {0}
    /\ holder \subseteq Updates /\ Cardinality(holder) <= 1
    /\ fpc \in [Finds -> {"none", "sleep", "loop", "read", "write", "mark", "done"}]
    /\ fheight \in [Finds -> Heights \cup {0}]
    /\ ftodo \in [Finds -> SUBSET Miners]
    /\ fminer \in [Finds -> SUBSET Miners]
    /\ fbal \in [Finds -> Nat]
    /\ upc \in [Updates -> {"idle", "query", "next", "check", "create", "calc",
                            "begin", "beginRows", "inside", "insideRows", "complete",
                            "mark", "save", "bump"}]
    /\ ufrom \in [Updates -> Nat] /\ uhigh \in [Updates -> Heights \cup {0}]
    /\ ulist \in [Updates -> SUBSET Heights]
    /\ minHeight \in Nat
    /\ arrived \subseteq Heights
    /\ faults \in [errors: Nat, lost: Nat, crashes: Nat]
    /\ dropped \subseteq Heights

Init ==
    /\ blocks = [h \in Heights |-> "absent"]
    /\ dist = [h \in Heights |-> [m \in Miners |-> 0]]
    /\ fees = [h \in Heights |-> 0]
    /\ balance = [m \in Miners |-> 0]
    /\ processed = {}
    /\ saved = 0
    /\ holder = {}
    /\ fpc = [f \in Finds |-> "none"]
    /\ fheight = [f \in Finds |-> 0]
    /\ ftodo = [f \in Finds |-> {}]
    /\ fminer = [f \in Finds |-> {}]
    /\ fbal = [f \in Finds |-> 0]
    /\ upc = [u \in Updates |-> "idle"]
    /\ ufrom = [u \in Updates |-> 0]
    /\ ulist = [u \in Updates |-> {}]
    /\ uhigh = [u \in Updates |-> 0]
    /\ minHeight = 1
    /\ arrived = {}
    /\ faults = [errors |-> 0, lost |-> 0, crashes |-> 0]
    /\ dropped = {}

-----------------------------------------------------------------------------
(* Statements of the ledger.                                               *)

\* Every Exec and Query waits for the connection.
ConnFree == holder = {}

\* What a block is worth to each miner, after the fee.
Part == [h \in Heights |-> [m \in Miners |-> MinerReward(Reward[h], FeePercent, Weight, m)]]

IsBlockProcessed(h) == blocks[h] = "completed"

\* AddBlockFound and CreateBlock are INSERT OR IGNORE.
InsertBlock(h, status) ==
    blocks' = IF blocks[h] = "absent" THEN [blocks EXCEPT ![h] = status] ELSE blocks

MarkBlockProcessed(h) == blocks' = [blocks EXCEPT ![h] = "completed"]

\* CreateDistribution is INSERT OR REPLACE, and an error without the table.
CreateDistribution(h, m) ==
    dist' = [dist EXCEPT ![h][m] = Part[h][m]]

\* One more goroutine may start (see MaxActive); it takes the first free number.
MayStart ==
    Cardinality({f \in Finds : fpc[f] \notin {"none", "done"}})
        + Cardinality({u \in Updates : upc[u] # "idle"}) < MaxActive

\* A statement fails or the master dies: errors are failures of a transfer's
\* statements, lost those that are logged or end a distribution.
MayFail == faults.errors + faults.lost + faults.crashes < MaxFaults

-----------------------------------------------------------------------------
(* A block announced by a slave.                                           *)

\* BlockFound: insert the block, then `go` a goroutine that sleeps.
BlockFound(f, h) ==
    /\ fpc[f] = "none" /\ \A g \in Finds : g < f => fpc[g] # "none"
    /\ MayStart
    /\ ConnFree
    /\ Cardinality({g \in Finds : fheight[g] = h}) < MaxPerHeight
    /\ InsertBlock(h, "pending")
    /\ fpc' = [fpc EXCEPT ![f] = "sleep"]
    /\ fheight' = [fheight EXCEPT ![f] = h]
    /\ UNCHANGED <<dist, fees, balance, processed, saved, holder, ftodo, fminer, fbal,
                   updateVars, minHeight, arrived, faults, dropped>>

\* DistributeBlockRewardPPLNS reads the shares.  Miners whose part rounds to zero
\* are left out.
DistributeStart(f) ==
    /\ fpc[f] = "sleep"
    /\ ConnFree
    /\ TotalWeight(Weight) # 0
    /\ fpc' = [fpc EXCEPT ![f] = "loop"]
    /\ ftodo' = [ftodo EXCEPT ![f] = {m \in Miners : Part[fheight[f]][m] > 0}]
    /\ UNCHANGED <<tables, holder, fheight, fminer, fbal, updateVars, minHeight,
                   arrived, faults, dropped>>

\* There are none, or of no difficulty: it returns and the block stays as it is.
DistributeNothing(f) ==
    /\ fpc[f] = "sleep"
    /\ ConnFree
    /\ fpc' = [fpc EXCEPT ![f] = "done"]
    /\ dropped' = dropped \cup {fheight[f]}
    /\ UNCHANGED <<tables, holder, fheight, ftodo, fminer, fbal, updateVars, minHeight,
                   arrived, faults>>

\* One miner of the loop: CreateDistribution, whose failure skips the miner.
DistributeMiner(f, m) ==
    /\ fpc[f] = "loop"
    /\ ConnFree
    /\ m \in ftodo[f]
    /\ ftodo' = [ftodo EXCEPT ![f] = @ \ {m}]
    /\ IF FullSchema
       THEN /\ CreateDistribution(fheight[f], m)
            /\ fminer' = [fminer EXCEPT ![f] = {m}]
            /\ fpc' = [fpc EXCEPT ![f] = "read"]
       ELSE UNCHANGED <<dist, fminer, fpc>>
    /\ UNCHANGED <<blocks, fees, balance, processed, saved, holder, fheight, fbal,
                   updateVars, minHeight, arrived, faults, dropped>>

\* GetBalance.
ReadBalance(f) ==
    /\ fpc[f] = "read"
    /\ ConnFree
    /\ \E m \in fminer[f] : fbal' = [fbal EXCEPT ![f] = balance[m]]
    /\ fpc' = [fpc EXCEPT ![f] = "write"]
    /\ UNCHANGED <<tables, holder, fheight, ftodo, fminer, updateVars, minHeight,
                   arrived, faults, dropped>>

WriteGrossBalance(f) ==
    /\ fpc[f] = "write"
    /\ ConnFree
    /\ \E m \in fminer[f] :
          balance' = [balance EXCEPT ![m] = fbal[f] + MinerReward(Reward[fheight[f]], 0, Weight, m)]
    /\ fminer' = [fminer EXCEPT ![f] = {}]
    /\ fbal' = [fbal EXCEPT ![f] = 0]
    /\ fpc' = [fpc EXCEPT ![f] = "loop"]
    /\ UNCHANGED <<blocks, dist, fees, processed, saved, holder, fheight, ftodo,
                   updateVars, minHeight, arrived, faults, dropped>>

\* INSERT OR REPLACE INTO balances, with the value read before plus the reward.
WriteBalance(f) ==
    /\ fpc[f] = "write"
    /\ ConnFree
    /\ \E m \in fminer[f] :
          balance' = [balance EXCEPT ![m] = fbal[f] + Part[fheight[f]][m]]
    /\ fminer' = [fminer EXCEPT ![f] = {}]
    /\ fbal' = [fbal EXCEPT ![f] = 0]
    /\ fpc' = [fpc EXCEPT ![f] = "loop"]
    /\ UNCHANGED <<blocks, dist, fees, processed, saved, holder, fheight, ftodo,
                   updateVars, minHeight, arrived, faults, dropped>>

\* The loop over the miners is over: INSERT INTO pool_fees, errors are logged.
DistributeFee(f) ==
    LET h == fheight[f] IN
    /\ fpc[f] = "loop"
    /\ ConnFree
    /\ ftodo[f] = {}
    /\ fees' = IF FullSchema
               THEN [fees EXCEPT ![h] = @ + FeeAmount(Reward[h], FeePercent)] ELSE fees
    /\ fpc' = [fpc EXCEPT ![f] = "mark"]
    /\ UNCHANGED <<blocks, dist, balance, processed, saved, holder, fheight, ftodo,
                   fminer, fbal, updateVars, minHeight, arrived, faults, dropped>>

DistributeEndForgets(f) ==
    /\ fpc[f] = "mark"
    /\ ConnFree
    /\ fpc' = [fpc EXCEPT ![f] = "done"]
    /\ UNCHANGED <<tables, holder, fheight, ftodo, fminer, fbal, updateVars, minHeight,
                   arrived, faults, dropped>>

\* MarkBlockProcessed; the adjustment of the PPLNS window ends the goroutine.
DistributeEnd(f) ==
    /\ fpc[f] = "mark"
    /\ ConnFree
    /\ MarkBlockProcessed(fheight[f])
    /\ fpc' = [fpc EXCEPT ![f] = "done"]
    /\ UNCHANGED <<dist, fees, balance, processed, saved, holder, fheight, ftodo, fminer,
                   fbal, updateVars, minHeight, arrived, faults, dropped>>

\* GetSharesForPPLNS or MarkBlockProcessed fails: the block stays as it is.
GiveUpBlock(f) ==
    /\ fpc[f] \in {"sleep", "mark"}
    /\ fpc' = [fpc EXCEPT ![f] = "done"]
    /\ dropped' = dropped \cup {fheight[f]}
    /\ UNCHANGED <<ftodo, fminer, fbal>>

\* CreateDistribution fails: `continue` with the next miner.
SkipMiner(f, m) ==
    /\ fpc[f] = "loop" /\ m \in ftodo[f]
    /\ ftodo' = [ftodo EXCEPT ![f] = @ \ {m}]
    /\ UNCHANGED <<fpc, fminer, fbal, dropped>>

\* GetBalance or the INSERT into balances fails: so too, with the row in distributions.
SkipCredit(f) ==
    /\ fpc[f] \in {"read", "write"}
    /\ fpc' = [fpc EXCEPT ![f] = "loop"]
    /\ fminer' = [fminer EXCEPT ![f] = {}]
    /\ fbal' = [fbal EXCEPT ![f] = 0]
    /\ UNCHANGED <<ftodo, dropped>>

\* The INSERT into pool_fees fails: a log line.
SkipFee(f) ==
    /\ fpc[f] = "loop" /\ ftodo[f] = {}
    /\ fpc' = [fpc EXCEPT ![f] = "mark"]
    /\ UNCHANGED <<ftodo, fminer, fbal, dropped>>

\* A statement of the distribution fails.
DistributionFails(f) ==
    /\ ConnFree
    /\ MayFail
    /\ faults' = [faults EXCEPT !.lost = @ + 1]
    /\ \/ GiveUpBlock(f)
       \/ \E m \in Miners : SkipMiner(f, m)
       \/ SkipCredit(f)
       \/ SkipFee(f)
    /\ UNCHANGED <<tables, holder, fheight, updateVars, minHeight, arrived>>

-----------------------------------------------------------------------------
(* A transfer to the pool wallet.                                          *)

\* External: the wallet sees the reward of a block, in order of height.
TransferArrives(h) ==
    /\ h \notin arrived
    /\ \A g \in arrived : g < h
    /\ arrived' = arrived \cup {h}
    /\ UNCHANGED <<tables, holder, findVars, updateVars, minHeight, faults, dropped>>

\* Updater starts UpdatePendingBals on a new height; it reads minHeight.
UpdateStart(u) ==
    /\ upc[u] = "idle" /\ \A v \in Updates : v < u => upc[v] # "idle"
    /\ MayStart
    /\ ufrom' = [ufrom EXCEPT ![u] = minHeight]
    /\ upc' = [upc EXCEPT ![u] = "query"]
    /\ UNCHANGED <<tables, holder, findVars, ulist, uhigh, minHeight, arrived, faults,
                   dropped>>

GetTransfersAbove(u) ==
    LET found == {h \in arrived : h > ufrom[u]} IN
    /\ upc[u] = "query"
    /\ ufrom' = [ufrom EXCEPT ![u] = 0]
    /\ IF found = {}
       THEN /\ upc' = [upc EXCEPT ![u] = "idle"]
            /\ UNCHANGED <<ulist, uhigh>>
       ELSE /\ upc' = [upc EXCEPT ![u] = "next"]
            /\ ulist' = [ulist EXCEPT ![u] = found]
            /\ uhigh' = [uhigh EXCEPT ![u] = Max(found)]
    /\ UNCHANGED <<tables, holder, findVars, minHeight, arrived, faults, dropped>>

\* GetTransfers from that height on; an empty list ends the run (an error does too:
\* such a run is like one that was not started).
GetTransfers(u) ==
    LET found == {h \in arrived : h >= ufrom[u]} IN
    /\ upc[u] = "query"
    /\ ufrom' = [ufrom EXCEPT ![u] = 0]
    /\ IF found = {}
       THEN /\ upc' = [upc EXCEPT ![u] = "idle"]
            /\ UNCHANGED <<ulist, uhigh>>
       ELSE /\ upc' = [upc EXCEPT ![u] = "next"]
            /\ ulist' = [ulist EXCEPT ![u] = found]
            /\ uhigh' = [uhigh EXCEPT ![u] = Max(found)]
    /\ UNCHANGED <<tables, holder, findVars, minHeight, arrived, faults, dropped>>

\* The transfer the loop is at: the list is sorted by height.
Current(u) == Min(ulist[u])

\* if vt.Height >= minHeight { minHeight = vt.Height + 1 }
Raise(h) == minHeight' = IF h >= minHeight THEN h + 1 ELSE minHeight

AdvanceNext(u) ==
    /\ ulist' = [ulist EXCEPT ![u] = @ \ {Current(u)}]
    /\ upc' = [upc EXCEPT ![u] = IF ulist[u] = {Current(u)} THEN "save" ELSE "next"]

\* IsTransferProcessed: a transfer done before only raises minHeight.
CheckTransfer(u) ==
    /\ upc[u] = "next"
    /\ ConnFree
    /\ IF Current(u) \in processed
       THEN Raise(Current(u)) /\ AdvanceNext(u)
       ELSE upc' = [upc EXCEPT ![u] = "check"] /\ UNCHANGED <<minHeight, ulist>>
    /\ UNCHANGED <<tables, holder, findVars, ufrom, uhigh, arrived, faults, dropped>>

CheckBlockExists(u) ==
    /\ upc[u] = "check"
    /\ ConnFree
    /\ upc' = [upc EXCEPT ![u] = IF blocks[Current(u)] # "absent" THEN "mark" ELSE "create"]
    /\ UNCHANGED <<tables, holder, findVars, ufrom, ulist, uhigh, minHeight, arrived,
                   faults, dropped>>

\* processTransfer: IsBlockProcessed, in which case nothing is left to do.
CheckBlock(u) ==
    /\ upc[u] = "check"
    /\ ConnFree
    /\ upc' = [upc EXCEPT ![u] = IF IsBlockProcessed(Current(u)) THEN "mark" ELSE "create"]
    /\ UNCHANGED <<tables, holder, findVars, ufrom, ulist, uhigh, minHeight, arrived,
                   faults, dropped>>

\* processTransfer: CreateBlock with status "processing".
CreateBlock(u) ==
    /\ upc[u] = "create"
    /\ ConnFree
    /\ InsertBlock(Current(u), "processing")
    /\ upc' = [upc EXCEPT ![u] = "calc"]
    /\ UNCHANGED <<dist, fees, balance, processed, saved, holder, findVars, ufrom, ulist,
                   uhigh, minHeight, arrived, faults, dropped>>

\* calculateDistributions: rows for each miner with shares in the last six hours, or
\* none.
Calculate(u) ==
    /\ upc[u] = "calc"
    /\ ConnFree
    /\ \E found \in {"begin", "beginRows"} : upc' = [upc EXCEPT ![u] = found]
    /\ UNCHANGED <<tables, holder, findVars, ufrom, ulist, uhigh, minHeight, arrived,
                   faults, dropped>>

\* WithTransaction: Begin takes the connection out of the pool.
BeginTransaction(u) ==
    /\ upc[u] \in {"begin", "beginRows"}
    /\ ConnFree
    /\ holder' = {u}
    /\ upc' = [upc EXCEPT ![u] = IF @ = "begin" THEN "inside" ELSE "insideRows"]
    /\ UNCHANGED <<tables, findVars, ufrom, ulist, uhigh, minHeight, arrived, faults, dropped>>

\* The function run inside: without rows it returns at once and the transaction is
\* committed; the CreateDistribution of a first row does not use tx but asks the
\* pool for a connection, and the only one is the transaction's.
InsideTransaction(u) ==
    /\ upc[u] \in {"inside", "insideRows"}
    /\ upc[u] = "insideRows" => ConnFree
    /\ holder' = {}
    /\ upc' = [upc EXCEPT ![u] = "complete"]
    /\ UNCHANGED <<tables, findVars, ufrom, ulist, uhigh, minHeight, arrived, faults, dropped>>

\* processTransfer: MarkBlockProcessed.
CompleteBlock(u) ==
    /\ upc[u] = "complete"
    /\ ConnFree
    /\ MarkBlockProcessed(Current(u))
    /\ upc' = [upc EXCEPT ![u] = "mark"]
    /\ UNCHANGED <<dist, fees, balance, processed, saved, holder, findVars, ufrom, ulist,
                   uhigh, minHeight, arrived, faults, dropped>>

\* MarkTransferProcessed, "WILL NEVER REPROCESS!".
MarkTransfer(u) ==
    /\ upc[u] = "mark"
    /\ ConnFree
    /\ processed' = processed \cup {Current(u)}
    /\ Raise(Current(u))
    /\ AdvanceNext(u)
    /\ UNCHANGED <<blocks, dist, fees, balance, saved, holder, findVars, ufrom, uhigh,
                   arrived, faults, dropped>>

\* A statement of the loop, or the commit, fails: the transfer is skipped.
StatementFails(u) ==
    /\ \/ upc[u] \in {"next", "check", "create", "calc", "begin", "beginRows", "complete",
                      "mark"} /\ ConnFree
       \/ upc[u] = "inside"
    /\ MayFail
    /\ faults' = [faults EXCEPT !.errors = @ + 1]
    /\ holder' = {}
    /\ AdvanceNext(u)
    /\ UNCHANGED <<tables, findVars, ufrom, uhigh, minHeight, arrived, dropped>>

\* UpdateLastProcessedHeight fails: a log line.
SaveFails(u) ==
    /\ upc[u] = "save"
    /\ ConnFree
    /\ MayFail
    /\ faults' = [faults EXCEPT !.lost = @ + 1]
    /\ upc' = [upc EXCEPT ![u] = "bump"]
    /\ UNCHANGED <<tables, holder, findVars, ufrom, ulist, uhigh, minHeight, arrived,
                   dropped>>

SaveHeightPlusOne(u) ==
    /\ upc[u] = "save"
    /\ ConnFree
    /\ saved' = uhigh[u] + 1
    /\ upc' = [upc EXCEPT ![u] = "bump"]
    /\ UNCHANGED <<blocks, dist, fees, balance, processed, holder, findVars, ufrom, ulist,
                   uhigh, minHeight, arrived, faults, dropped>>

\* UpdateLastProcessedHeight with the highest height of the list.
SaveHeight(u) ==
    /\ upc[u] = "save"
    /\ ConnFree
    /\ saved' = uhigh[u]
    /\ upc' = [upc EXCEPT ![u] = "bump"]
    /\ UNCHANGED <<blocks, dist, fees, balance, processed, holder, findVars, ufrom, ulist,
                   uhigh, minHeight, arrived, faults, dropped>>

\* The unconditional minHeight = highestHeight + 1 at the end.
BumpHeight(u) ==
    /\ upc[u] = "bump"
    /\ minHeight' = uhigh[u] + 1
    /\ uhigh' = [uhigh EXCEPT ![u] = 0]
    /\ upc' = [upc EXCEPT ![u] = "idle"]
    /\ UNCHANGED <<tables, holder, findVars, ufrom, ulist, arrived, faults, dropped>>

\* The master dies and starts again: a transaction is rolled back, goroutines
\* are gone, initTransferTracking derives minHeight from the saved height.
Crash ==
    /\ MayFail
    /\ faults' = [faults EXCEPT !.crashes = @ + 1]
    /\ holder' = {}
    /\ fpc' = [f \in Finds |-> IF fpc[f] = "none" THEN "none" ELSE "done"]
    /\ ftodo' = [f \in Finds |-> {}]
    /\ fminer' = [f \in Finds |-> {}]
    /\ fbal' = [f \in Finds |-> 0]
    /\ upc' = [u \in Updates |-> "idle"]
    /\ ufrom' = [u \in Updates |-> 0]
    /\ ulist' = [u \in Updates |-> {}]
    /\ uhigh' = [u \in Updates |-> 0]
    /\ minHeight' = saved + 1
    /\ UNCHANGED <<tables, fheight, arrived, dropped>>

Distribute(f) ==
    \/ DistributeStart(f) \/ DistributeNothing(f)
    \/ \E m \in Miners : DistributeMiner(f, m)
    \/ ReadBalance(f) \/ WriteBalance(f)
    \/ DistributeFee(f) \/ DistributeEnd(f)

UpdatePendingBals(u) ==
    \/ UpdateStart(u) \/ GetTransfers(u)
    \/ CheckTransfer(u) \/ CheckBlock(u) \/ CreateBlock(u) \/ Calculate(u)
    \/ BeginTransaction(u) \/ InsideTransaction(u) \/ CompleteBlock(u) \/ MarkTransfer(u)
    \/ SaveHeight(u) \/ BumpHeight(u)

Next ==
    \/ \E f \in Finds : \/ Distribute(f) \/ DistributionFails(f)
                       \/ \E h \in Heights : BlockFound(f, h)
    \/ \E h \in Heights : TransferArrives(h)
    \/ \E u \in Updates : UpdatePendingBals(u) \/ StatementFails(u) \/ SaveFails(u)
    \/ Crash

\* Goroutines that can run do.  Nothing forces blocks, transfers or faults.
Fairness ==
    /\ \A f \in Finds : WF_vars(Distribute(f))
    /\ \A u \in Updates : WF_vars(UpdatePendingBals(u))

Spec == Init /\ [][Next]_vars
FairSpec == Spec /\ Fairness

-----------------------------------------------------------------------------
(* Properties.                                                             *)

\* A transfer that will never be looked at again belongs to a completed block, and
\* as long as no statement failed every transfer below the height a query starts
\* from, in memory or saved for the next start, is one of those: whatever the
\* unordered height updates of overlapping runs and a crash between two marks do,
\* no transfer is stepped over.  (A failed statement does leave its transfer behind
\* for good: the height of the whole list is saved all the same.)
SavedHeightIsProcessed ==
    /\ \A h \in processed : blocks[h] = "completed"
    /\ faults.errors = 0 =>
          \A h \in arrived : (h <= saved \/ h < minHeight) => h \in processed

\* A miner's balance never exceeds the distributions recorded for it, and balances
\* and collected fees together never exceed the rewards of the blocks found,
\* however the distributions of different blocks interleave and wherever a crash
\* falls.  (A block announced twice is distributed twice: MaxPerHeight = 1.)
NoOverpayment ==
    /\ \A m \in Miners : balance[m] <= SumFunction([h \in Heights |-> dist[h][m]])
    /\ SumFunction(balance) + SumFunction(fees) <=
           SumFunctionOnSet(Reward, {fheight[f] : f \in Finds} \ {0})

\* The transaction of a run waits for the connection it holds (see InsideTransaction
\* and TransactionEnds): nothing uses the ledger again until the master is restarted.
Frozen == \E u \in Updates : upc[u] = "insideRows"

\* A block announced by a slave ends up completed: again and again, no block is left
\* open but those whose distribution gave up (dropped: no shares in the window, or a
\* failure of GetSharesForPPLNS or MarkBlockProcessed), unless the master dies (the
\* goroutine that would do it is not started again) or the ledger is frozen.
FoundBlockIsCompleted ==
    []<>(\/ faults.crashes > 0
         \/ Frozen
         \/ \A h \in Heights : blocks[h] = "pending" => h \in dropped)

\* Every transfer that arrives is processed some day, also by a restarted master,
\* unless a statement of a transfer fails or the ledger is frozen, as the first
\* transfer with shares in the last six hours leaves it.
TransferIsProcessed ==
    []<>(\/ faults.errors > 0
         \/ Frozen
         \/ arrived \subseteq processed)

\* "Only ONE writer to prevent SQLITE_BUSY" (ledger.go 37): a transaction that
\* has begun ends and gives the connection back.
TransactionEnds == (holder # {}) ~> (holder = {})
=============================================================================
