------------------------------ MODULE PayOnce ------------------------------
(***************************************************************************)
(* What paying miners promises, without runs, requests and answers: rows   *)
(* are credited, transfers of the wallet pay rows of one recipient whose   *)
(* total reaches the threshold, exactly that total less the fee, and a row *)
(* is settled with a transfer that paid it.  Until a slip (something that  *)
(* the program does not guard against) no row is paid or settled twice.    *)
(***************************************************************************)
EXTENDS Integers, FiniteSetsExt

CONSTANTS
    Payments,       \* rows
    Owner,          \* the recipient of each
    Amount,         \* the amount of each
    Ids,            \* names of transfers
    MinWithdrawal,  \* the least total of a transfer
    WithdrawalFee   \* kept back from each transfer

VARIABLES
    credited,   \* rows that exist
    transfers,  \* transfers that were carried out: recipient, rows and amount
    settled,    \* the transfer each row was settled with, 0 for none
    slip        \* has a slip happened?

vars == <<credited, transfers, settled, slip>>

Total(S) == MapThenSumSet(LAMBDA p : Amount[p], S)

PaidRows == UNION {transfers[id].rows : id \in DOMAIN transfers}

Init ==
    /\ credited = {}
    /\ transfers = [id \in {} |-> {}]
    /\ settled = [p \in Payments |-> 0]
    /\ slip = FALSE

Credit(p) ==
    /\ p \notin credited
    /\ credited' = credited \cup {p}
    /\ UNCHANGED <<transfers, settled, slip>>

Pay(id, S) ==
    /\ id \notin DOMAIN transfers
    /\ \E rec \in {Owner[p] : p \in S} :
          /\ \A p \in S : Owner[p] = rec
          /\ transfers' = [i \in DOMAIN transfers \cup {id} |->
                              IF i = id
                              THEN [to |-> rec, rows |-> S,
                                    amount |-> Total(S) - WithdrawalFee]
                              ELSE transfers[i]]
    /\ S \subseteq credited
    /\ Total(S) >= MinWithdrawal
    /\ slip \/ S \cap PaidRows = {}
    /\ UNCHANGED <<credited, settled, slip>>

Settle(p, id) ==
    /\ p \in transfers[id].rows
    /\ slip \/ settled[p] = 0
    /\ settled' = [settled EXCEPT ![p] = id]
    /\ UNCHANGED <<credited, transfers, slip>>

Slip ==
    /\ slip' = TRUE
    /\ UNCHANGED <<credited, transfers, settled>>

Next ==
    \/ \E p \in Payments : Credit(p)
    \/ \E id \in Ids, S \in SUBSET Payments : Pay(id, S)
    \/ \E p \in Payments, id \in DOMAIN transfers : Settle(p, id)
    \/ Slip

Spec == Init /\ [][Next]_vars
=============================================================================
