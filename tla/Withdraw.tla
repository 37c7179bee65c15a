------------------------------ MODULE Withdraw ------------------------------
(***************************************************************************)
(* Paying miners (cmd/master/withdraw.go): Withdraw reads the pending rows *)
(* of the payments table, asks wallet-rpc for one transfer per recipient   *)
(* and marks the rows it covers as sent.                                   *)
(*                                                                         *)
(* Updater starts `go Withdraw()` every WithdrawInterval without waiting   *)
(* for the one before, so several runs may be under way; each statement on *)
(* the ledger is atomic and each run keeps its own snapshot.  The wallet   *)
(* is a separate process: a request whose caller has given up after 30     *)
(* seconds, or has died, may still be carried out.  Payment rows and the   *)
(* wallet survive a crash of the master, the runs do not.                  *)
(***************************************************************************)
EXTENDS Integers, Sequences, FiniteSets, FiniteSetsExt

CONSTANTS
    Payments,       \* ids of rows of the payments table, in order of creation
    Recipients,     \* recipient addresses
    Owner,          \* recipient_address of each row
    Amount,         \* amount of each row
    MinWithdrawal,  \* minimum total for a transfer
    WithdrawalFee,  \* subtracted from the total
    Word,           \* 2^64: amounts are uint64
    HasUpdatedAt,   \* has the payments table the column updated_at?
    Runs,           \* slots for concurrent Withdraw goroutines
    MaxRequests,    \* bound on requests to the wallet
    MaxRejects,     \* bound on requests the wallet refuses
    MaxSlips        \* bound on overlapping runs, late answers and crashes, together

ASSUME WithdrawAssumption ==
    /\ Payments \subseteq Nat /\ IsFiniteSet(Payments)
    /\ Owner \in [Payments -> Recipients]
    /\ Amount \in [Payments -> Nat]
    \* Whichever rows are paid together, their total fits a uint64.
    /\ \A S \in SUBSET Payments : MapThenSumSet(LAMBDA p : Amount[p], S) \in 0..(Word - 1)
    /\ MinWithdrawal \in Nat /\ WithdrawalFee \in Nat /\ Word \in Nat
    /\ WithdrawalFee <= MinWithdrawal
    /\ HasUpdatedAt \in BOOLEAN
    /\ {MaxRequests, MaxRejects, MaxSlips} \subseteq Nat

VARIABLES
    status,     \* status column of each row; "absent" before CreatePayment
    txid,       \* txid column of each row, 0 for NULL
    pc,         \* where each run is
    snapshot,   \* rows each run read with GetPendingPayments
    left,       \* recipients each run has still to consider
    req,        \* the request each run waits for or has had answered
    marking,    \* rows each run has still to mark as sent
    wallet,     \* every request made to wallet-rpc; its index is its txid
    faults,     \* rejects and slips so far
    anomalies   \* what has happened that the code does not guard against

runVars == <<pc, snapshot, left, req, marking>>
vars == <<status, txid, runVars, wallet, faults, anomalies>>

Request == [to: Recipients, covers: SUBSET Payments, amount: Nat,
            state: {"queued", "sent", "rejected"}]

TypeOK ==
    /\ status \in [Payments -> {"absent", "pending", "sent"}]
    /\ txid \in [Payments -> Nat]
    /\ pc \in [Runs -> {"idle", "loop", "wait", "mark"}]
    /\ snapshot \in [Runs -> SUBSET Payments]
    /\ left \in [Runs -> SUBSET Recipients]
    /\ req \in [Runs -> Nat]
    /\ marking \in [Runs -> SUBSET Payments]
    /\ wallet \in Seq(Request)
    /\ faults \in [rejects: 0..MaxRejects, slips: 0..MaxSlips]
    /\ anomalies \subseteq {"overlap", "timeout", "crash", "unmarked"}

Init ==
    /\ status = [p \in Payments |-> "absent"]
    /\ txid = [p \in Payments |-> 0]
    /\ pc = [r \in Runs |-> "idle"]
    /\ snapshot = [r \in Runs |-> {}]
    /\ left = [r \in Runs |-> {}]
    /\ req = [r \in Runs |-> 0]
    /\ marking = [r \in Runs |-> {}]
    /\ wallet = <<>>
    /\ faults = [rejects |-> 0, slips |-> 0]
    /\ anomalies = {}

SumOf(S) == MapThenSumSet(LAMBDA p : Amount[p], S)

\* recipientPayments[rec]: the rows of one recipient among those of a snapshot.
Group(S, rec) == {p \in S : Owner[p] = rec}

Pending == {p \in Payments : status[p] = "pending"}

\* Something happens that the code does not guard against.
Slips(what) ==
    /\ faults.slips < MaxSlips
    /\ faults' = [faults EXCEPT !.slips = @ + 1]
    /\ anomalies' = anomalies \cup {what}

-----------------------------------------------------------------------------
(* The ledger.                                                             *)

\* CreatePayment, called while a reward is distributed: the id is the next one.
CreatePayment(p) ==
    /\ status[p] = "absent"
    /\ \A q \in Payments : q < p => status[q] # "absent"
    /\ status' = [status EXCEPT ![p] = "pending"]
    /\ UNCHANGED <<txid, runVars, wallet, faults, anomalies>>

\* UpdatePaymentStatus fails without the column it sets, and when the UNIQUE
\* txid is already that of another row.
MarkFails(p, id) == ~HasUpdatedAt \/ \E q \in Payments \ {p} : txid[q] = id

-----------------------------------------------------------------------------
(* A run of Withdraw.                                                      *)

\* GetPendingPayments fails or finds nothing: the run is over at once.
WithdrawNothing(r) ==
    /\ pc[r] = "idle"
    /\ UNCHANGED vars

\* GetPendingPayments, and the grouping by recipient.
StartWithdraw(r) ==
    /\ pc[r] = "idle"
    /\ Pending # {}
    /\ pc' = [pc EXCEPT ![r] = "loop"]
    /\ snapshot' = [snapshot EXCEPT ![r] = Pending]
    /\ left' = [left EXCEPT ![r] = {Owner[p] : p \in Pending}]
    /\ IF \A q \in Runs : pc[q] = "idle"
       THEN UNCHANGED <<faults, anomalies>> ELSE Slips("overlap")
    /\ UNCHANGED <<status, txid, req, marking, wallet>>

SkipAtThreshold(r, rec) ==
    /\ pc[r] = "loop"
    /\ rec \in left[r]
    /\ SumOf(Group(snapshot[r], rec)) <= MinWithdrawal
    /\ left' = [left EXCEPT ![r] = @ \ {rec}]
    /\ UNCHANGED <<status, txid, pc, snapshot, req, marking, wallet, faults, anomalies>>

\* A recipient below the threshold is skipped.
BelowThreshold(r, rec) ==
    /\ pc[r] = "loop"
    /\ rec \in left[r]
    /\ SumOf(Group(snapshot[r], rec)) < MinWithdrawal
    /\ left' = [left EXCEPT ![r] = @ \ {rec}]
    /\ UNCHANGED <<status, txid, pc, snapshot, req, marking, wallet, faults, anomalies>>

SendSigned(r, rec) ==
    /\ pc[r] = "loop"
    /\ rec \in left[r]
    /\ Len(wallet) < MaxRequests
    /\ wallet' = Append(wallet, [to |-> rec, covers |-> Group(snapshot[r], rec),
                                 amount |-> SumOf(Group(snapshot[r], rec)) - WithdrawalFee,
                                 state |-> "queued"])
    /\ left' = [left EXCEPT ![r] = @ \ {rec}]
    /\ req' = [req EXCEPT ![r] = Len(wallet) + 1]
    /\ pc' = [pc EXCEPT ![r] = "wait"]
    /\ UNCHANGED <<status, txid, snapshot, marking, faults, anomalies>>

\* sendPayment up to the RPC: the amount is total - fee in uint64.
SendPayment(r, rec) ==
    LET total == SumOf(Group(snapshot[r], rec)) IN
    /\ pc[r] = "loop"
    /\ rec \in left[r]
    /\ total >= MinWithdrawal
    /\ Len(wallet) < MaxRequests
    /\ wallet' = Append(wallet, [to |-> rec, covers |-> Group(snapshot[r], rec),
                                 amount |-> (total - WithdrawalFee) % Word,
                                 state |-> "queued"])
    /\ left' = [left EXCEPT ![r] = @ \ {rec}]
    /\ req' = [req EXCEPT ![r] = Len(wallet) + 1]
    /\ pc' = [pc EXCEPT ![r] = "wait"]
    /\ UNCHANGED <<status, txid, snapshot, marking, faults, anomalies>>

\* The transfer succeeded and its hash has arrived in time.
TransferOk(r) ==
    /\ pc[r] = "wait"
    /\ wallet[req[r]].state = "sent"
    /\ marking' = [marking EXCEPT ![r] = wallet[req[r]].covers]
    /\ pc' = [pc EXCEPT ![r] = "mark"]
    /\ UNCHANGED <<status, txid, snapshot, left, req, wallet, faults, anomalies>>

\* The wallet refused: log and go on with the next recipient.
TransferError(r) ==
    /\ pc[r] = "wait"
    /\ wallet[req[r]].state = "rejected"
    /\ pc' = [pc EXCEPT ![r] = "loop"]
    /\ UNCHANGED <<status, txid, snapshot, left, req, marking, wallet, faults, anomalies>>

\* The context's 30 seconds are over before the answer is there.
TransferTimeout(r) ==
    /\ pc[r] = "wait"
    /\ wallet[req[r]].state # "rejected"
    /\ Slips("timeout")
    /\ pc' = [pc EXCEPT ![r] = "loop"]
    /\ UNCHANGED <<status, txid, snapshot, left, req, marking, wallet>>

MarkSentForgetsRow(r, p) ==
    /\ pc[r] = "mark"
    /\ marking[r] # {}
    /\ p = Min(marking[r])
    /\ marking' = [marking EXCEPT ![r] = @ \ {p}]
    /\ UNCHANGED <<status, txid, pc, snapshot, left, req, wallet, faults, anomalies>>

\* UpdatePaymentStatus(payment.ID, "sent", &txid); an error is only logged.
MarkSent(r, p) ==
    /\ pc[r] = "mark"
    /\ marking[r] # {}
    /\ p = Min(marking[r])
    /\ marking' = [marking EXCEPT ![r] = @ \ {p}]
    /\ IF MarkFails(p, req[r])
       THEN /\ anomalies' = anomalies \cup {"unmarked"}
            /\ UNCHANGED <<status, txid>>
       ELSE /\ status' = [status EXCEPT ![p] = "sent"]
            /\ txid' = [txid EXCEPT ![p] = req[r]]
            /\ UNCHANGED anomalies
    /\ UNCHANGED <<pc, snapshot, left, req, wallet, faults>>

\* All rows of the recipient have been tried.
MarkingDone(r) ==
    /\ pc[r] = "mark"
    /\ marking[r] = {}
    /\ pc' = [pc EXCEPT ![r] = "loop"]
    /\ UNCHANGED <<status, txid, snapshot, left, req, marking, wallet, faults, anomalies>>

\* The loop over the recipients ends.
WithdrawDone(r) ==
    /\ pc[r] = "loop"
    /\ left[r] = {}
    /\ pc' = [pc EXCEPT ![r] = "idle"]
    /\ snapshot' = [snapshot EXCEPT ![r] = {}]
    /\ req' = [req EXCEPT ![r] = 0]
    /\ UNCHANGED <<status, txid, left, marking, wallet, faults, anomalies>>

-----------------------------------------------------------------------------
(* The wallet and crashes of the master.                                   *)

WalletSends(i) ==
    /\ wallet[i].state = "queued"
    /\ wallet' = [wallet EXCEPT ![i].state = "sent"]
    /\ UNCHANGED <<status, txid, runVars, faults, anomalies>>

WalletRejects(i) ==
    /\ wallet[i].state = "queued"
    /\ faults.rejects < MaxRejects
    /\ faults' = [faults EXCEPT !.rejects = @ + 1]
    /\ wallet' = [wallet EXCEPT ![i].state = "rejected"]
    /\ UNCHANGED <<status, txid, runVars, anomalies>>

Crash ==
    /\ \E r \in Runs : pc[r] # "idle"
    /\ Slips("crash")
    /\ pc' = [r \in Runs |-> "idle"]
    /\ snapshot' = [r \in Runs |-> {}]
    /\ left' = [r \in Runs |-> {}]
    /\ req' = [r \in Runs |-> 0]
    /\ marking' = [r \in Runs |-> {}]
    /\ UNCHANGED <<status, txid, wallet>>

Step(r) ==
    \/ \E rec \in Recipients : BelowThreshold(r, rec) \/ SendPayment(r, rec)
    \/ TransferOk(r) \/ TransferError(r) \/ TransferTimeout(r)
    \/ \E p \in Payments : MarkSent(r, p)
    \/ MarkingDone(r)
    \/ WithdrawDone(r)

Next ==
    \/ \E p \in Payments : CreatePayment(p)
    \/ \E r \in Runs : WithdrawNothing(r) \/ StartWithdraw(r) \/ Step(r)
    \/ \E i \in 1..Len(wallet) : WalletSends(i) \/ WalletRejects(i)
    \/ Crash

\* The interval loop keeps starting runs, a started run keeps going, and the
\* wallet answers every request one way or the other.
Fairness ==
    /\ \A r \in Runs : WF_vars(StartWithdraw(r)) /\ WF_vars(Step(r))
    /\ WF_vars(\E i \in 1..Len(wallet) : WalletSends(i))

Spec == Init /\ [][Next]_vars
FairSpec == Spec /\ Fairness

-----------------------------------------------------------------------------
(* Properties.                                                             *)

\* The transactions that have paid row p.
PaidBy(p) == {i \in 1..Len(wallet) : wallet[i].state = "sent" /\ p \in wallet[i].covers}

\* The transfers the wallet has carried out.
Sent == {i \in 1..Len(wallet) : wallet[i].state = "sent"}

Promise == INSTANCE PayOnce WITH
    Ids <- 1..MaxRequests,
    credited <- {p \in Payments : status[p] # "absent"},
    transfers <- [i \in Sent |-> [to |-> wallet[i].to, rows |-> wallet[i].covers,
                                  amount |-> wallet[i].amount]],
    settled <- [p \in Payments |-> IF status[p] = "sent" THEN txid[p] ELSE 0],
    slip <- anomalies # {}

\* Withdraw implements PayOnce.  A row is marked sent only with a broadcast
\* transaction to its recipient that includes it, and stays so; no transfer is
\* worth more than its rows or wraps around below zero; and a row is paid twice
\* only after one of the four events the code does not guard against: overlapping
\* runs, a late answer, a crash, or a row that could not be marked.  A plain
\* sequence of successful runs, refusals by the wallet and new payments arriving
\* in the middle of a run pays each row once.
PayOnceSpec == Promise!Spec

\* A backlog that reaches the threshold does not stay: whatever arrives while a
\* run is under way, the wallet's refusals and rows left unmarked because of
\* their txid, later runs bring every recipient below the threshold again.
BacklogIsPaid ==
    \A rec \in Recipients :
        (SumOf(Group(Pending, rec)) >= MinWithdrawal)
            ~> (SumOf(Group(Pending, rec)) < MinWithdrawal)

\* "Prevents double-processing" (schema_broken.sql 2): a row of the payments
\* table is paid at most once.
PaidAtMostOnce == \A p \in Payments : Cardinality(PaidBy(p)) <= 1
=============================================================================
