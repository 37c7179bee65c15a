--------------------------- MODULE WithdrawProofs ---------------------------
(***************************************************************************)
(* Proofs about Withdraw for any rows, amounts, recipients, numbers of     *)
(* runs, refusals and slips: type correctness, and that Withdraw           *)
(* implements PayOnce.  The inductive invariant has a part that holds      *)
(* whatever happens (every request is for existing rows of one recipient   *)
(* that reach the threshold, and rows are marked for transfers that were   *)
(* carried out) and a part that holds until something slips (one run at a  *)
(* time, no row in two requests, every open request has a run that waits   *)
(* for it, every row of a transfer is marked or about to be).              *)
(***************************************************************************)
EXTENDS Withdraw, FiniteSetTheorems, WellFoundedInduction, TLAPS

\* Requests that may pay or have paid.
Live == {i \in 1..Len(wallet) : wallet[i].state # "rejected"}

\* Payments that the ledger has credited.
Credited == {p \in Payments : status[p] # "absent"}

-----------------------------------------------------------------------------
(* What holds whatever happens.                                            *)

\* A request is for rows of one recipient that exist, that reach the threshold
\* together, and for their total less the fee.
RequestsAreRight ==
    \A i \in 1..Len(wallet) :
        /\ wallet[i].covers # {}
        /\ wallet[i].covers \subseteq Credited
        /\ \A p \in wallet[i].covers : Owner[p] = wallet[i].to
        /\ SumOf(wallet[i].covers) >= MinWithdrawal
        /\ wallet[i].amount = SumOf(wallet[i].covers) - WithdrawalFee

\* What a run works on: rows that exist, and recipients that have some of them.
SnapshotIsRight ==
    \A r \in Runs :
        /\ snapshot[r] \subseteq Credited
        /\ \A rec \in left[r] : Group(snapshot[r], rec) # {}

\* A run marks rows of a transfer that was carried out.
MarksWhatWasSent ==
    \A r \in Runs :
        /\ pc[r] \in {"wait", "mark"} => req[r] \in 1..Len(wallet)
        /\ pc[r] = "mark" => /\ wallet[req[r]].state = "sent"
                             /\ marking[r] \subseteq wallet[req[r]].covers

\* The requests are numbered within their bound.
WithinBound == Len(wallet) <= MaxRequests

-----------------------------------------------------------------------------
(* What holds as long as nothing slips.                                    *)

\* Only one run of the withdrawals is under way.
OneRun == \A q, r \in Runs : pc[q] # "idle" /\ pc[r] # "idle" => q = r

\* No row is in two requests, unless one was refused.
CoversDisjoint ==
    \A i, j \in Live : i # j => wallet[i].covers \cap wallet[j].covers = {}

\* A request without an answer has a run that waits for it.
SomeoneWaits ==
    \A i \in Live : wallet[i].state = "queued" => \E r \in Runs : pc[r] = "wait" /\ req[r] = i

\* A row of a transfer is marked, or its run is about to mark it.
PaidIsMarked ==
    \A i \in Live : wallet[i].state = "sent" =>
        \A p \in wallet[i].covers :
            \/ status[p] = "sent"
            \/ \E r \in Runs : /\ req[r] = i
                               /\ \/ pc[r] = "wait"
                                  \/ pc[r] = "mark" /\ p \in marking[r]

\* The rows of the recipients a run has yet to consider are pending, in no request.
LeftIsUntouched ==
    \A r \in Runs : \A p \in snapshot[r] :
        pc[r] # "idle" /\ Owner[p] \in left[r] =>
            status[p] = "pending" /\ \A i \in Live : p \notin wallet[i].covers

\* The rows a run is about to mark are pending.
UnmarkedIsPending ==
    \A r \in Runs :
        /\ pc[r] = "wait" => \A p \in wallet[req[r]].covers : status[p] = "pending"
        /\ pc[r] = "mark" => \A p \in marking[r] : status[p] = "pending"

\* All of it, for as long as anomalies is empty.
NoSlipInv ==
    /\ OneRun
    /\ CoversDisjoint
    /\ SomeoneWaits
    /\ PaidIsMarked
    /\ LeftIsUntouched
    /\ UnmarkedIsPending

\* The inductive invariant.
IInv ==
    /\ TypeOK
    /\ RequestsAreRight
    /\ SnapshotIsRight
    /\ MarksWhatWasSent
    /\ WithinBound
    /\ anomalies = {} => NoSlipInv

-----------------------------------------------------------------------------
(* The operators.                                                          *)

\* Sums of rows are numbers, and fit a word.
LEMMA SumOfType ==
    ASSUME NEW S \in SUBSET Payments
    PROVE  SumOf(S) \in Nat /\ SumOf(S) < Word
<1>1. SumOf(S) \in 0..(Word - 1)
  BY WithdrawAssumption DEF SumOf
<1> QED
  BY <1>1, WithdrawAssumption

\* sendPayment's subtraction neither wraps around below zero nor above 2^64.
LEMMA AmountIsExact ==
    ASSUME NEW S \in SUBSET Payments, SumOf(S) >= MinWithdrawal
    PROVE  /\ (SumOf(S) - WithdrawalFee) % Word = SumOf(S) - WithdrawalFee
           /\ SumOf(S) - WithdrawalFee \in Nat
BY SumOfType, WithdrawAssumption

\* The first row of a list to mark is one of its rows.
LEMMA MinIsMember ==
    ASSUME NEW S \in SUBSET Payments, NEW p \in Payments, p = Min(S), S # {}
    PROVE  p \in S
<1>1. S \subseteq Nat
  BY WithdrawAssumption
<1>2. PICK x \in S : \A y \in S : ~(<<y, x>> \in OpToRel(<, Nat))
  BY <1>1, NatLessThanWellFounded, WFMin
<1>3. ASSUME NEW y \in S, y < x PROVE FALSE
  <2>1. <<y, x>> \in OpToRel(<, Nat)
    BY <1>1, <1>3 DEF OpToRel
  <2> QED
    BY <1>2, <2>1
<1>4. \A y \in S : x <= y
  BY <1>1, <1>3
<1> QED
  BY <1>4 DEF Min

\* A slip is counted and recorded.
LEMMA SlipsType ==
    ASSUME TypeOK, NEW what \in {"overlap", "timeout", "crash"}, Slips(what)
    PROVE  /\ faults' \in [rejects: 0..MaxRejects, slips: 0..MaxSlips]
           /\ anomalies' \subseteq {"overlap", "timeout", "crash", "unmarked"}
           /\ anomalies' # {}
<1>1. MaxSlips \in Nat /\ MaxRejects \in Nat
  BY WithdrawAssumption
<1>2. faults \in [rejects: 0..MaxRejects, slips: 0..MaxSlips]
  BY DEF TypeOK
<1>3. faults.slips + 1 \in 0..MaxSlips
  BY <1>1, <1>2 DEF Slips
<1>4. faults' \in [rejects: 0..MaxRejects, slips: 0..MaxSlips]
  BY <1>2, <1>3 DEF Slips
<1> QED
  BY <1>4 DEF Slips, TypeOK

\* The wallet's answer changes the state of one request and nothing else.
LEMMA AnswerChangesState ==
    ASSUME TypeOK, NEW i \in 1..Len(wallet), NEW s \in {"sent", "rejected"},
           wallet' = [wallet EXCEPT ![i].state = s]
    PROVE  /\ wallet' \in Seq(Request)
           /\ Len(wallet') = Len(wallet)
           /\ \A j \in 1..Len(wallet) :
                 /\ wallet'[j].to = wallet[j].to
                 /\ wallet'[j].covers = wallet[j].covers
                 /\ wallet'[j].amount = wallet[j].amount
                 /\ wallet'[j].state = IF j = i THEN s ELSE wallet[j].state
<1> DEFINE w == [wallet[i] EXCEPT !.state = s]
<1>1. wallet \in Seq(Request) /\ wallet[i] \in Request
  BY DEF TypeOK
<1>2. w \in Request /\ w.to = wallet[i].to /\ w.covers = wallet[i].covers
        /\ w.amount = wallet[i].amount /\ w.state = s
  BY <1>1 DEF Request
<1>3. wallet' = [wallet EXCEPT ![i] = w]
  BY <1>1
<1> HIDE DEF w
<1> QED
  BY <1>1, <1>2, <1>3

-----------------------------------------------------------------------------
(* The steps.                                                              *)

\* A new row is in no snapshot and in no request.
LEMMA CreatePaymentStep ==
    ASSUME IInv, NEW p \in Payments, CreatePayment(p)
    PROVE  IInv'
<1> USE DEF IInv, runVars
<1>1. TypeOK'
  BY DEF CreatePayment, TypeOK
<1>2. RequestsAreRight'
  BY DEF CreatePayment, RequestsAreRight, Credited
<1>3. SnapshotIsRight'
  BY DEF CreatePayment, SnapshotIsRight, Credited
<1>4. MarksWhatWasSent'
  BY DEF CreatePayment, MarksWhatWasSent
<1>5. WithinBound'
  BY DEF CreatePayment, WithinBound
<1>6. ASSUME anomalies' = {} PROVE NoSlipInv'
  <2> USE <1>6 DEF NoSlipInv
  <2>1. OneRun'
    BY DEF CreatePayment, OneRun
  <2>2. CoversDisjoint'
    BY DEF CreatePayment, CoversDisjoint, Live
  <2>3. SomeoneWaits'
    BY DEF CreatePayment, SomeoneWaits, Live
  <2>4. PaidIsMarked'
    BY DEF CreatePayment, PaidIsMarked, Live
  <2>5. LeftIsUntouched'
    BY DEF CreatePayment, LeftIsUntouched, Live
  <2>6. UnmarkedIsPending'
    BY DEF CreatePayment, UnmarkedIsPending
  <2> QED
    BY <2>1, <2>2, <2>3, <2>4, <2>5, <2>6
<1> QED
  BY <1>1, <1>2, <1>3, <1>4, <1>5, <1>6

\* A recipient is skipped.
LEMMA BelowThresholdStep ==
    ASSUME IInv, NEW r \in Runs, NEW rec \in Recipients, BelowThreshold(r, rec)
    PROVE  IInv'
<1> USE DEF IInv, runVars
<1>1. TypeOK'
  BY DEF BelowThreshold, TypeOK
<1>2. RequestsAreRight'
  BY DEF BelowThreshold, RequestsAreRight, Credited
<1>3. SnapshotIsRight'
  BY DEF BelowThreshold, SnapshotIsRight, Credited
<1>4. MarksWhatWasSent'
  BY DEF BelowThreshold, MarksWhatWasSent
<1>5. WithinBound'
  BY DEF BelowThreshold, WithinBound
<1>6. ASSUME anomalies' = {} PROVE NoSlipInv'
  <2> USE <1>6 DEF NoSlipInv
  <2>1. OneRun'
    BY DEF BelowThreshold, OneRun
  <2>2. CoversDisjoint'
    BY DEF BelowThreshold, CoversDisjoint, Live
  <2>3. SomeoneWaits'
    BY DEF BelowThreshold, SomeoneWaits, Live
  <2>4. PaidIsMarked'
    BY DEF BelowThreshold, PaidIsMarked, Live
  <2>5. LeftIsUntouched'
    BY DEF BelowThreshold, LeftIsUntouched, Live
  <2>6. UnmarkedIsPending'
    BY DEF BelowThreshold, UnmarkedIsPending
  <2> QED
    BY <2>1, <2>2, <2>3, <2>4, <2>5, <2>6
<1> QED
  BY <1>1, <1>2, <1>3, <1>4, <1>5, <1>6

\* The new request covers rows of a recipient not considered before: existing ones, enough
\* of them, and as long as nothing slipped none that another request covers.
LEMMA SendPaymentStep ==
    ASSUME IInv, NEW r \in Runs, NEW rec \in Recipients, SendPayment(r, rec)
    PROVE  IInv'
<1> USE DEF IInv, runVars
<1> DEFINE S == Group(snapshot[r], rec)
           w == [to |-> rec, covers |-> S, amount |-> SumOf(S) - WithdrawalFee,
                 state |-> "queued"]
<1>a. /\ S \in SUBSET Payments
      /\ S # {}
      /\ S \subseteq Credited
      /\ \A p \in S : p \in snapshot[r] /\ Owner[p] = rec
      /\ SumOf(S) >= MinWithdrawal
  BY DEF SendPayment, TypeOK, SnapshotIsRight, Group
<1>b. w \in Request
  BY <1>a, AmountIsExact DEF Request
<1>c. wallet' = Append(wallet, w)
  BY <1>a, AmountIsExact DEF SendPayment
<1>d. /\ wallet' \in Seq(Request)
      /\ Len(wallet) \in Nat
      /\ Len(wallet') = Len(wallet) + 1
      /\ \A j \in 1..Len(wallet) : wallet'[j] = wallet[j]
      /\ wallet'[Len(wallet) + 1] = w
  BY <1>b, <1>c DEF TypeOK
<1>e. w.to = rec /\ w.covers = S /\ w.amount = SumOf(S) - WithdrawalFee /\ w.state = "queued"
  OBVIOUS
<1> HIDE DEF S, w
<1>1. TypeOK'
  BY <1>d DEF SendPayment, TypeOK
<1>2. RequestsAreRight'
  <2> SUFFICES ASSUME NEW i \in 1..Len(wallet')
               PROVE  RequestsAreRight!(i)'
    BY DEF RequestsAreRight
  <2>1. CASE i \in 1..Len(wallet)
    BY <2>1 DEF SendPayment, RequestsAreRight, Credited
  <2>2. CASE i = Len(wallet) + 1
    BY <1>a, <1>d, <1>e, <2>2 DEF SendPayment, Credited
  <2> QED
    BY <1>d, <2>1, <2>2
<1>3. SnapshotIsRight'
  BY DEF SendPayment, SnapshotIsRight, Credited
<1>4. MarksWhatWasSent'
  BY DEF SendPayment, TypeOK, MarksWhatWasSent
<1>5. WithinBound'
  <2>1. MaxRequests \in Nat /\ Len(wallet) < MaxRequests
    BY WithdrawAssumption DEF SendPayment
  <2> QED
    BY <1>d, <2>1 DEF WithinBound
<1>6. ASSUME anomalies' = {} PROVE NoSlipInv'
  <2> USE <1>6 DEF NoSlipInv
  <2>1. OneRun'
    BY DEF SendPayment, TypeOK, OneRun
  <2>a. Live' = Live \cup {Len(wallet) + 1}
    BY <1>d, <1>e DEF Live
  <2>b. \A i \in Live : S \cap wallet[i].covers = {}
    <3>1. pc[r] # "idle" /\ rec \in left[r]
      BY DEF SendPayment
    <3>2. LeftIsUntouched
      BY DEF SendPayment
    <3> QED
      BY <1>a, <3>1, <3>2 DEF LeftIsUntouched
  <2>2. CoversDisjoint'
    <3> SUFFICES ASSUME NEW i \in Live', NEW j \in Live', i # j
                 PROVE  wallet'[i].covers \cap wallet'[j].covers = {}
      BY DEF CoversDisjoint
    <3>1. CoversDisjoint /\ \A k \in Live : k \in 1..Len(wallet)
      BY DEF SendPayment, Live
    <3>2. CASE i \in Live /\ j \in Live
      BY <1>d, <3>1, <3>2 DEF CoversDisjoint
    <3>3. CASE i = Len(wallet) + 1 \/ j = Len(wallet) + 1
      BY <1>d, <1>e, <2>a, <2>b, <3>1, <3>3
    <3> QED
      BY <2>a, <3>2, <3>3
  <2>3. SomeoneWaits'
    <3> SUFFICES ASSUME NEW i \in Live', wallet'[i].state = "queued"
                 PROVE  \E q \in Runs : pc'[q] = "wait" /\ req'[q] = i
      BY DEF SomeoneWaits
    <3>1. CASE i = Len(wallet) + 1
      BY <3>1 DEF SendPayment, TypeOK
    <3>2. CASE i \in Live
      <4>1. wallet[i].state = "queued" /\ SomeoneWaits
        BY <1>d, <3>2 DEF Live, SendPayment
      <4>2. PICK q \in Runs : pc[q] = "wait" /\ req[q] = i
        BY <3>2, <4>1 DEF SomeoneWaits
      <4> QED
        BY <4>2 DEF SendPayment, TypeOK
    <3> QED
      BY <2>a, <3>1, <3>2
  <2>4. PaidIsMarked'
    <3> SUFFICES ASSUME NEW i \in Live', wallet'[i].state = "sent", NEW p \in wallet'[i].covers
                 PROVE  \/ status'[p] = "sent"
                        \/ \E q \in Runs : /\ req'[q] = i
                                           /\ \/ pc'[q] = "wait"
                                              \/ pc'[q] = "mark" /\ p \in marking'[q]
      BY DEF PaidIsMarked
    <3>1. i \in Live /\ wallet'[i] = wallet[i] /\ PaidIsMarked
      BY <1>d, <1>e, <2>a DEF Live, SendPayment
    <3>2. ASSUME NEW q \in Runs, pc[q] # "loop"
          PROVE  req'[q] = req[q] /\ pc'[q] = pc[q] /\ marking'[q] = marking[q]
      BY <3>2 DEF SendPayment, TypeOK
    <3>3. \/ status[p] = "sent"
          \/ \E q \in Runs : /\ req[q] = i
                             /\ \/ pc[q] = "wait"
                                \/ pc[q] = "mark" /\ p \in marking[q]
      BY <3>1 DEF PaidIsMarked
    <3>4. status' = status
      BY DEF SendPayment
    <3> QED
      BY <3>2, <3>3, <3>4
  <2>5. LeftIsUntouched'
    BY <1>a, <1>d, <1>e DEF SendPayment, TypeOK, LeftIsUntouched, Live, OneRun
  <2>6. UnmarkedIsPending'
    BY <1>a, <1>d, <1>e, <2>1 DEF SendPayment, TypeOK, UnmarkedIsPending, LeftIsUntouched,
       OneRun, MarksWhatWasSent
  <2> QED
    BY <2>1, <2>2, <2>3, <2>4, <2>5, <2>6
<1> QED
  BY <1>1, <1>2, <1>3, <1>4, <1>5, <1>6

\* The rows of the transfer become those to mark.
LEMMA TransferOkStep ==
    ASSUME IInv, NEW r \in Runs, TransferOk(r)
    PROVE  IInv'
<1> USE DEF IInv, runVars
<1>1. TypeOK'
  <2>1. wallet[req[r]] \in Request
    BY DEF TransferOk, TypeOK, MarksWhatWasSent
  <2> QED
    BY <2>1 DEF TransferOk, TypeOK, Request
<1>2. RequestsAreRight'
  BY DEF TransferOk, RequestsAreRight, Credited
<1>3. SnapshotIsRight'
  BY DEF TransferOk, SnapshotIsRight, Credited
<1>4. MarksWhatWasSent'
  BY DEF TransferOk, TypeOK, MarksWhatWasSent
<1>5. WithinBound'
  BY DEF TransferOk, WithinBound
<1>6. ASSUME anomalies' = {} PROVE NoSlipInv'
  <2> USE <1>6 DEF NoSlipInv
  <2>1. OneRun'
    BY DEF TransferOk, OneRun
  <2>2. CoversDisjoint'
    BY DEF TransferOk, CoversDisjoint, Live
  <2>3. SomeoneWaits'
    BY DEF TransferOk, SomeoneWaits, Live
  <2>4. PaidIsMarked'
    BY DEF TransferOk, TypeOK, PaidIsMarked, Live
  <2>5. LeftIsUntouched'
    BY DEF TransferOk, LeftIsUntouched, Live
  <2>6. UnmarkedIsPending'
    BY DEF TransferOk, TypeOK, UnmarkedIsPending
  <2> QED
    BY <2>1, <2>2, <2>3, <2>4, <2>5, <2>6
<1> QED
  BY <1>1, <1>2, <1>3, <1>4, <1>5, <1>6

\* A refused request covers nothing any more.
LEMMA TransferErrorStep ==
    ASSUME IInv, NEW r \in Runs, TransferError(r)
    PROVE  IInv'
<1> USE DEF IInv, runVars
<1>1. TypeOK'
  BY DEF TransferError, TypeOK
<1>2. RequestsAreRight'
  BY DEF TransferError, RequestsAreRight, Credited
<1>3. SnapshotIsRight'
  BY DEF TransferError, SnapshotIsRight, Credited
<1>4. MarksWhatWasSent'
  BY DEF TransferError, MarksWhatWasSent
<1>5. WithinBound'
  BY DEF TransferError, WithinBound
<1>6. ASSUME anomalies' = {} PROVE NoSlipInv'
  <2> USE <1>6 DEF NoSlipInv
  <2>1. OneRun'
    BY DEF TransferError, OneRun
  <2>2. CoversDisjoint'
    BY DEF TransferError, CoversDisjoint, Live
  <2>3. SomeoneWaits'
    BY DEF TransferError, SomeoneWaits, Live
  <2>4. PaidIsMarked'
    BY DEF TransferError, PaidIsMarked, Live
  <2>5. LeftIsUntouched'
    BY DEF TransferError, LeftIsUntouched, Live
  <2>6. UnmarkedIsPending'
    BY DEF TransferError, UnmarkedIsPending
  <2> QED
    BY <2>1, <2>2, <2>3, <2>4, <2>5, <2>6
<1> QED
  BY <1>1, <1>2, <1>3, <1>4, <1>5, <1>6

\* An answer that comes too late is a slip.
LEMMA TransferTimeoutStep ==
    ASSUME IInv, NEW r \in Runs, TransferTimeout(r)
    PROVE  IInv'
<1> USE DEF IInv, runVars
<1>1. TypeOK'
  BY SlipsType DEF TransferTimeout, TypeOK
<1>2. RequestsAreRight'
  BY DEF TransferTimeout, RequestsAreRight, Credited
<1>3. SnapshotIsRight'
  BY DEF TransferTimeout, SnapshotIsRight, Credited
<1>4. MarksWhatWasSent'
  BY DEF TransferTimeout, MarksWhatWasSent
<1>5. WithinBound'
  BY DEF TransferTimeout, WithinBound
<1>6. ASSUME anomalies' = {} PROVE NoSlipInv'
  <2> USE <1>6 DEF NoSlipInv
  <2>1. OneRun'
    BY DEF TransferTimeout, Slips
  <2>2. CoversDisjoint'
    BY DEF TransferTimeout, Slips
  <2>3. SomeoneWaits'
    BY DEF TransferTimeout, Slips
  <2>4. PaidIsMarked'
    BY DEF TransferTimeout, Slips
  <2>5. LeftIsUntouched'
    BY DEF TransferTimeout, Slips
  <2>6. UnmarkedIsPending'
    BY DEF TransferTimeout, Slips
  <2> QED
    BY <2>1, <2>2, <2>3, <2>4, <2>5, <2>6
<1> QED
  BY <1>1, <1>2, <1>3, <1>4, <1>5, <1>6

\* A row is marked, or could not be, which is a slip.
LEMMA MarkSentStep ==
    ASSUME IInv, NEW r \in Runs, NEW p \in Payments, MarkSent(r, p)
    PROVE  IInv'
<1> USE DEF IInv, runVars
<1>1. TypeOK'
  <2>1. status' \in [Payments -> {"absent", "pending", "sent"}]
    BY DEF MarkSent, TypeOK
  <2>2. txid' \in [Payments -> Nat]
    BY DEF MarkSent, TypeOK
  <2> QED
    BY <2>1, <2>2 DEF MarkSent, TypeOK
<1>2. RequestsAreRight'
  BY DEF MarkSent, TypeOK, RequestsAreRight, Credited
<1>3. SnapshotIsRight'
  BY DEF MarkSent, TypeOK, SnapshotIsRight, Credited
<1>4. MarksWhatWasSent'
  BY DEF MarkSent, MarksWhatWasSent
<1>5. WithinBound'
  BY DEF MarkSent, WithinBound
<1>6. ASSUME anomalies' = {} PROVE NoSlipInv'
  <2> USE <1>6 DEF NoSlipInv
  <2>a. /\ NoSlipInv
        /\ p \in marking[r]
        /\ req[r] \in Live /\ wallet[req[r]].state = "sent"
        /\ p \in wallet[req[r]].covers
    <3>1. marking[r] \in SUBSET Payments /\ marking[r] # {} /\ p = Min(marking[r])
      BY DEF MarkSent, TypeOK
    <3>2. p \in marking[r]
      BY <3>1, MinIsMember
    <3> QED
      BY <3>2 DEF MarkSent, MarksWhatWasSent, Live
  <2>b. /\ status' = [status EXCEPT ![p] = "sent"]
        /\ marking' = [marking EXCEPT ![r] = @ \ {p}]
        /\ UNCHANGED <<pc, snapshot, left, req, wallet>>
        /\ pc[r] = "mark"
    BY DEF MarkSent
  <2>1. OneRun'
    BY DEF MarkSent, OneRun
  <2>2. CoversDisjoint'
    BY DEF MarkSent, CoversDisjoint, Live
  <2>3. SomeoneWaits'
    BY DEF MarkSent, SomeoneWaits, Live
  <2>4. PaidIsMarked'
    BY <2>a, <2>b DEF TypeOK, PaidIsMarked, Live
  <2>5. LeftIsUntouched'
    BY <2>a, <2>b DEF LeftIsUntouched, Live
  <2>6. UnmarkedIsPending'
    <3>1. \A q \in Runs : pc[q] # "idle" => q = r
      <4>1. OneRun /\ pc[r] # "idle"
        BY <2>a, <2>b
      <4> QED
        BY ONLY <4>1 DEF OneRun
    <3>2. /\ marking'[r] = marking[r] \ {p} /\ marking[r] \subseteq Payments
          /\ \A x \in Payments \ {p} : status'[x] = status[x]
      BY <2>b DEF TypeOK
    <3>3. \A x \in marking'[r] : status'[x] = "pending"
      BY <2>a, <2>b, <3>2 DEF UnmarkedIsPending
    <3>4. \A q \in Runs : pc[q] # "wait" /\ (pc[q] = "mark" => q = r)
      BY <2>b, <3>1
    <3> QED
      BY ONLY <2>b, <3>3, <3>4 DEF UnmarkedIsPending
  <2> QED
    BY <2>1, <2>2, <2>3, <2>4, <2>5, <2>6
<1> QED
  BY <1>1, <1>2, <1>3, <1>4, <1>5, <1>6

\* All rows of the transfer are marked.
LEMMA MarkingDoneStep ==
    ASSUME IInv, NEW r \in Runs, MarkingDone(r)
    PROVE  IInv'
<1> USE DEF IInv, runVars
<1>1. TypeOK'
  BY DEF MarkingDone, TypeOK
<1>2. RequestsAreRight'
  BY DEF MarkingDone, RequestsAreRight, Credited
<1>3. SnapshotIsRight'
  BY DEF MarkingDone, SnapshotIsRight, Credited
<1>4. MarksWhatWasSent'
  BY DEF MarkingDone, MarksWhatWasSent
<1>5. WithinBound'
  BY DEF MarkingDone, WithinBound
<1>6. ASSUME anomalies' = {} PROVE NoSlipInv'
  <2> USE <1>6 DEF NoSlipInv
  <2>1. OneRun'
    BY DEF MarkingDone, OneRun
  <2>2. CoversDisjoint'
    BY DEF MarkingDone, CoversDisjoint, Live
  <2>3. SomeoneWaits'
    BY DEF MarkingDone, SomeoneWaits, Live
  <2>4. PaidIsMarked'
    BY DEF MarkingDone, PaidIsMarked, Live
  <2>5. LeftIsUntouched'
    BY DEF MarkingDone, LeftIsUntouched, Live
  <2>6. UnmarkedIsPending'
    BY DEF MarkingDone, UnmarkedIsPending
  <2> QED
    BY <2>1, <2>2, <2>3, <2>4, <2>5, <2>6
<1> QED
  BY <1>1, <1>2, <1>3, <1>4, <1>5, <1>6

\* A run ends with no recipient left.
LEMMA WithdrawDoneStep ==
    ASSUME IInv, NEW r \in Runs, WithdrawDone(r)
    PROVE  IInv'
<1> USE DEF IInv, runVars
<1>1. TypeOK'
  BY DEF WithdrawDone, TypeOK
<1>2. RequestsAreRight'
  BY DEF WithdrawDone, RequestsAreRight, Credited
<1>3. SnapshotIsRight'
  BY DEF WithdrawDone, SnapshotIsRight, Credited
<1>4. MarksWhatWasSent'
  BY DEF WithdrawDone, MarksWhatWasSent
<1>5. WithinBound'
  BY DEF WithdrawDone, WithinBound
<1>6. ASSUME anomalies' = {} PROVE NoSlipInv'
  <2> USE <1>6 DEF NoSlipInv
  <2>1. OneRun'
    BY DEF WithdrawDone, OneRun
  <2>2. CoversDisjoint'
    BY DEF WithdrawDone, CoversDisjoint, Live
  <2>3. SomeoneWaits'
    BY DEF WithdrawDone, SomeoneWaits, Live
  <2>4. PaidIsMarked'
    BY DEF WithdrawDone, PaidIsMarked, Live
  <2>5. LeftIsUntouched'
    BY DEF WithdrawDone, LeftIsUntouched, Live
  <2>6. UnmarkedIsPending'
    BY DEF WithdrawDone, UnmarkedIsPending
  <2> QED
    BY <2>1, <2>2, <2>3, <2>4, <2>5, <2>6
<1> QED
  BY <1>1, <1>2, <1>3, <1>4, <1>5, <1>6

\* A run starts: alone, and then every row of a transfer is marked, or it is a slip.
LEMMA StartWithdrawStep ==
    ASSUME IInv, NEW r \in Runs, StartWithdraw(r)
    PROVE  IInv'
<1> USE DEF IInv, runVars
<1>1. TypeOK'
  <2>1. {Owner[p] : p \in Pending} \in SUBSET Recipients /\ Pending \in SUBSET Payments
    BY WithdrawAssumption DEF Pending
  <2>2. /\ faults' \in [rejects: 0..MaxRejects, slips: 0..MaxSlips]
        /\ anomalies' \subseteq {"overlap", "timeout", "crash", "unmarked"}
    BY SlipsType DEF StartWithdraw, TypeOK
  <2> QED
    BY <2>1, <2>2 DEF StartWithdraw, TypeOK
<1>2. RequestsAreRight'
  BY DEF StartWithdraw, RequestsAreRight, Credited
<1>3. SnapshotIsRight'
  BY DEF StartWithdraw, Pending, TypeOK, SnapshotIsRight, Credited, Group
<1>4. MarksWhatWasSent'
  BY DEF StartWithdraw, MarksWhatWasSent
<1>5. WithinBound'
  BY DEF StartWithdraw, WithinBound
<1>6. ASSUME anomalies' = {} PROVE NoSlipInv'
  <2> USE <1>6 DEF NoSlipInv
  <2>a. (\A q \in Runs : pc[q] = "idle") /\ NoSlipInv
    BY SlipsType DEF StartWithdraw
  <2>b. \A i \in Live : \A p \in wallet[i].covers : wallet[i].state = "sent" /\ status[p] = "sent"
    <3>1. \A i \in Live : i \in 1..Len(wallet) /\ wallet[i].state \in {"queued", "sent"}
      <4>1. \A i \in 1..Len(wallet) : wallet[i] \in Request
        BY DEF TypeOK
      <4> QED
        BY <4>1 DEF Live, Request
    <3>2. \A i \in Live : wallet[i].state = "sent"
      BY <2>a, <3>1 DEF SomeoneWaits
    <3> QED
      BY <2>a, <3>2 DEF PaidIsMarked
  <2>1. OneRun'
    BY DEF StartWithdraw, Slips, OneRun
  <2>2. CoversDisjoint'
    BY DEF StartWithdraw, Slips, CoversDisjoint, Live
  <2>3. SomeoneWaits'
    BY DEF StartWithdraw, Slips, SomeoneWaits, Live
  <2>4. PaidIsMarked'
    BY <2>b DEF StartWithdraw, PaidIsMarked, Live
  <2>5. LeftIsUntouched'
    <3> SUFFICES ASSUME NEW q \in Runs, NEW p \in snapshot'[q], pc'[q] # "idle"
                 PROVE  status[p] = "pending" /\ \A i \in Live : p \notin wallet[i].covers
      BY DEF StartWithdraw, LeftIsUntouched, Live
    <3>1. q = r
      BY <2>a DEF StartWithdraw, TypeOK
    <3>2. p \in Payments /\ status[p] = "pending"
      BY <3>1 DEF StartWithdraw, TypeOK, Pending
    <3> QED
      BY <2>b, <3>2
  <2>6. UnmarkedIsPending'
    BY DEF StartWithdraw, Slips, UnmarkedIsPending
  <2> QED
    BY <2>1, <2>2, <2>3, <2>4, <2>5, <2>6
<1> QED
  BY <1>1, <1>2, <1>3, <1>4, <1>5, <1>6

\* The wallet carries out a request somebody waits for.
LEMMA WalletSendsStep ==
    ASSUME IInv, NEW i \in 1..Len(wallet), WalletSends(i)
    PROVE  IInv'
<1> USE DEF IInv, runVars
<1>a. /\ wallet' \in Seq(Request)
      /\ Len(wallet') = Len(wallet)
      /\ \A j \in 1..Len(wallet) :
            /\ wallet'[j].to = wallet[j].to
            /\ wallet'[j].covers = wallet[j].covers
            /\ wallet'[j].amount = wallet[j].amount
            /\ wallet'[j].state = IF j = i THEN "sent" ELSE wallet[j].state
  BY AnswerChangesState DEF WalletSends
<1>1. TypeOK'
  BY <1>a DEF WalletSends, TypeOK
<1>2. RequestsAreRight'
  BY DEF WalletSends, RequestsAreRight, Credited
<1>3. SnapshotIsRight'
  BY DEF WalletSends, SnapshotIsRight, Credited
<1>4. MarksWhatWasSent'
  BY DEF WalletSends, MarksWhatWasSent
<1>5. WithinBound'
  BY DEF WalletSends, WithinBound
<1>6. ASSUME anomalies' = {} PROVE NoSlipInv'
  <2> USE <1>6 DEF NoSlipInv
  <2>1. OneRun'
    BY DEF WalletSends, OneRun
  <2>2. CoversDisjoint'
    <3>1. CoversDisjoint /\ Live' = Live
      BY <1>a DEF WalletSends, Live
    <3> QED
      BY <1>a, <3>1 DEF CoversDisjoint, Live
  <2>3. SomeoneWaits'
    BY DEF WalletSends, SomeoneWaits, Live
  <2>4. PaidIsMarked'
    BY DEF WalletSends, PaidIsMarked, SomeoneWaits, Live
  <2>5. LeftIsUntouched'
    BY DEF WalletSends, LeftIsUntouched, Live
  <2>6. UnmarkedIsPending'
    BY DEF WalletSends, UnmarkedIsPending
  <2> QED
    BY <2>1, <2>2, <2>3, <2>4, <2>5, <2>6
<1> QED
  BY <1>1, <1>2, <1>3, <1>4, <1>5, <1>6

\* The wallet refuses a request.
LEMMA WalletRejectsStep ==
    ASSUME IInv, NEW i \in 1..Len(wallet), WalletRejects(i)
    PROVE  IInv'
<1> USE DEF IInv, runVars
<1>a. /\ wallet' \in Seq(Request)
      /\ Len(wallet') = Len(wallet)
      /\ \A j \in 1..Len(wallet) :
            /\ wallet'[j].to = wallet[j].to
            /\ wallet'[j].covers = wallet[j].covers
            /\ wallet'[j].amount = wallet[j].amount
            /\ wallet'[j].state = IF j = i THEN "rejected" ELSE wallet[j].state
  BY AnswerChangesState DEF WalletRejects
<1>1. TypeOK'
  <2>1. faults' \in [rejects: 0..MaxRejects, slips: 0..MaxSlips]
    <3>1. faults \in [rejects: 0..MaxRejects, slips: 0..MaxSlips] /\ MaxRejects \in Nat
      BY WithdrawAssumption DEF TypeOK
    <3>2. faults.rejects + 1 \in 0..MaxRejects
      BY <3>1 DEF WalletRejects
    <3> QED
      BY <3>1, <3>2 DEF WalletRejects
  <2> QED
    BY <1>a, <2>1 DEF WalletRejects, TypeOK
<1>2. RequestsAreRight'
  BY DEF WalletRejects, RequestsAreRight, Credited
<1>3. SnapshotIsRight'
  BY DEF WalletRejects, SnapshotIsRight, Credited
<1>4. MarksWhatWasSent'
  BY DEF WalletRejects, MarksWhatWasSent
<1>5. WithinBound'
  BY DEF WalletRejects, WithinBound
<1>6. ASSUME anomalies' = {} PROVE NoSlipInv'
  <2> USE <1>6 DEF NoSlipInv
  <2>1. OneRun'
    BY DEF WalletRejects, OneRun
  <2>2. CoversDisjoint'
    BY DEF WalletRejects, CoversDisjoint, Live
  <2>3. SomeoneWaits'
    BY DEF WalletRejects, SomeoneWaits, Live
  <2>4. PaidIsMarked'
    BY DEF WalletRejects, PaidIsMarked, Live
  <2>5. LeftIsUntouched'
    BY DEF WalletRejects, LeftIsUntouched, Live
  <2>6. UnmarkedIsPending'
    BY DEF WalletRejects, UnmarkedIsPending
  <2> QED
    BY <2>1, <2>2, <2>3, <2>4, <2>5, <2>6
<1> QED
  BY <1>1, <1>2, <1>3, <1>4, <1>5, <1>6

\* A crash is a slip; the requests stay.
LEMMA CrashStep ==
    ASSUME IInv, Crash
    PROVE  IInv'
<1> USE DEF IInv, runVars
<1>1. TypeOK'
  BY SlipsType DEF Crash, TypeOK
<1>2. RequestsAreRight'
  BY DEF Crash, RequestsAreRight, Credited
<1>3. SnapshotIsRight'
  BY DEF Crash, SnapshotIsRight
<1>4. MarksWhatWasSent'
  BY DEF Crash, MarksWhatWasSent
<1>5. WithinBound'
  BY DEF Crash, WithinBound
<1>6. ASSUME anomalies' = {} PROVE NoSlipInv'
  <2> USE <1>6 DEF NoSlipInv
  <2>1. OneRun'
    BY DEF Crash, OneRun
  <2>2. CoversDisjoint'
    BY DEF Crash, Slips
  <2>3. SomeoneWaits'
    BY DEF Crash, Slips
  <2>4. PaidIsMarked'
    BY DEF Crash, Slips
  <2>5. LeftIsUntouched'
    BY DEF Crash, LeftIsUntouched
  <2>6. UnmarkedIsPending'
    BY DEF Crash, UnmarkedIsPending
  <2> QED
    BY <2>1, <2>2, <2>3, <2>4, <2>5, <2>6
<1> QED
  BY <1>1, <1>2, <1>3, <1>4, <1>5, <1>6

-----------------------------------------------------------------------------
(* The invariant.                                                          *)

\* The initial state satisfies the inductive invariant.
LEMMA InitIInv == Init => IInv
<1> SUFFICES ASSUME Init PROVE IInv
  OBVIOUS
<1>1. TypeOK
  BY WithdrawAssumption DEF Init, TypeOK
<1>2. Len(wallet) = 0
  BY DEF Init
<1>3. WithinBound
  BY <1>2, WithdrawAssumption DEF WithinBound
<1>4. Live = {}
  BY <1>2 DEF Live
<1> QED
  BY <1>1, <1>2, <1>3, <1>4 DEF IInv, Init, RequestsAreRight, SnapshotIsRight, MarksWhatWasSent,
     NoSlipInv, OneRun, CoversDisjoint, SomeoneWaits, PaidIsMarked, LeftIsUntouched,
     UnmarkedIsPending

\* Every step preserves the inductive invariant.
LEMMA StepIInv == IInv /\ [Next]_vars => IInv'
<1> SUFFICES ASSUME IInv, [Next]_vars PROVE IInv'
  OBVIOUS
<1>1. CASE UNCHANGED vars
  BY <1>1 DEF vars, runVars, IInv, TypeOK, RequestsAreRight, SnapshotIsRight, MarksWhatWasSent,
     WithinBound, NoSlipInv, OneRun, CoversDisjoint, SomeoneWaits, PaidIsMarked,
     LeftIsUntouched, UnmarkedIsPending, Live, Credited
<1>2. ASSUME NEW p \in Payments, CreatePayment(p) PROVE IInv'
  BY <1>2, CreatePaymentStep
<1>3. ASSUME NEW r \in Runs, Step(r) PROVE IInv'
  BY <1>3, BelowThresholdStep, SendPaymentStep, TransferOkStep, TransferErrorStep,
     TransferTimeoutStep, MarkSentStep, MarkingDoneStep, WithdrawDoneStep DEF Step
<1>4. ASSUME NEW r \in Runs, StartWithdraw(r) PROVE IInv'
  BY <1>4, StartWithdrawStep
<1>5. ASSUME NEW i \in 1..Len(wallet), WalletSends(i) \/ WalletRejects(i) PROVE IInv'
  BY <1>5, WalletSendsStep, WalletRejectsStep
<1>6. CASE Crash
  BY <1>6, CrashStep
<1> QED
  BY <1>1, <1>2, <1>3, <1>4, <1>5, <1>6 DEF Next, WithdrawNothing

\* The inductive invariant always holds.
LEMMA Invariant == Spec => []IInv
BY InitIInv, StepIInv, PTL DEF Spec

\* Withdraw is type correct.
THEOREM TypeCorrect == Spec => []TypeOK
<1>1. IInv => TypeOK
  BY DEF IInv
<1> QED
  BY <1>1, Invariant, PTL

\* As long as nothing slipped a row of the payments table is paid at most once (the claim
\* of schema_broken.sql line 2, with the condition under which it is true).
THEOREM PaidOnceUnlessSlip == Spec => [](anomalies = {} => PaidAtMostOnce)
<1>1. ASSUME IInv, anomalies = {}, NEW p \in Payments
      PROVE  Cardinality(PaidBy(p)) <= 1
  <2>1. CoversDisjoint /\ PaidBy(p) \subseteq Live
    BY <1>1 DEF IInv, NoSlipInv, PaidBy, Live
  <2>2. \A i, j \in PaidBy(p) : i = j
    BY <2>1 DEF CoversDisjoint, PaidBy
  <2>3. CASE PaidBy(p) = {}
    BY <2>3, FS_EmptySet
  <2>4. CASE PaidBy(p) # {}
    <3>1. PICK i : PaidBy(p) = {i}
      BY <2>2, <2>4
    <3> QED
      BY <3>1, FS_Singleton
  <2> QED
    BY <2>3, <2>4
<1>2. IInv => (anomalies = {} => PaidAtMostOnce)
  BY <1>1 DEF PaidAtMostOnce
<1> QED
  BY <1>2, Invariant, PTL

-----------------------------------------------------------------------------
(* The refinement.                                                         *)

\* The initial state is one of PayOnce.
LEMMA InitRefines == Init => Promise!Init
<1> SUFFICES ASSUME Init PROVE Promise!Init
  OBVIOUS
<1>1. Sent = {}
  BY DEF Init, Sent
<1> QED
  BY <1>1 DEF Init, Promise!Init

\* What PayOnce calls a total is what Withdraw adds up.
LEMMA SameTotal == \A S : Promise!Total(S) = SumOf(S)
BY DEF Promise!Total, Promise!MapThenSumSet, Promise!MapThenFoldSet, SumOf, MapThenSumSet,
   MapThenFoldSet

\* CreatePayment credits a row.
LEMMA CreatePaymentRefines ==
    ASSUME IInv, NEW p \in Payments, CreatePayment(p)
    PROVE  Promise!Credit(p)
<1>1. UNCHANGED wallet /\ Sent' = Sent /\ anomalies' = anomalies
  BY DEF CreatePayment, Sent
<1>2. {q \in Payments : status'[q] # "absent"} = {q \in Payments : status[q] # "absent"} \cup {p}
  BY DEF CreatePayment, IInv, TypeOK
<1>3. [q \in Payments |-> IF status'[q] = "sent" THEN txid'[q] ELSE 0]
        = [q \in Payments |-> IF status[q] = "sent" THEN txid[q] ELSE 0]
  BY DEF CreatePayment, IInv, TypeOK
<1>4. status[p] = "absent"
  BY DEF CreatePayment
<1> QED
  BY <1>1, <1>2, <1>3, <1>4 DEF Promise!Credit

\* The wallet that carries out a request pays its rows: the total less the fee, to their
\* owner, and as long as nothing slipped none of them for the second time.
LEMMA WalletSendsRefines ==
    ASSUME IInv, NEW i \in 1..Len(wallet), WalletSends(i), NEW S, S = wallet[i].covers
    PROVE  Promise!Pay(i, S)
<1> DEFINE old == [k \in Sent |-> [to |-> wallet[k].to, rows |-> wallet[k].covers,
                                   amount |-> wallet[k].amount]]
           new == [k \in Sent' |-> [to |-> wallet'[k].to, rows |-> wallet'[k].covers,
                                    amount |-> wallet'[k].amount]]
<1>1. /\ Len(wallet') = Len(wallet)
      /\ \A j \in 1..Len(wallet) :
            /\ wallet'[j].to = wallet[j].to
            /\ wallet'[j].covers = wallet[j].covers
            /\ wallet'[j].amount = wallet[j].amount
            /\ wallet'[j].state = IF j = i THEN "sent" ELSE wallet[j].state
  BY AnswerChangesState DEF WalletSends, IInv
<1>2. Sent' = Sent \cup {i} /\ i \notin Sent
  BY <1>1 DEF Sent, WalletSends
<1>3. new = [k \in Sent \cup {i} |->
                IF k = i THEN [to |-> wallet[i].to, rows |-> S,
                               amount |-> SumOf(S) - WithdrawalFee]
                ELSE old[k]]
  BY <1>1, <1>2 DEF Sent, IInv, RequestsAreRight
<1>4. /\ wallet[i].to \in {Owner[p] : p \in S}
      /\ \A p \in S : Owner[p] = wallet[i].to
      /\ SumOf(S) >= MinWithdrawal
      /\ S \subseteq {p \in Payments : status[p] # "absent"}
  BY DEF IInv, RequestsAreRight, Credited
<1>5. anomalies # {} \/ S \cap UNION {old[k].rows : k \in Sent} = {}
  <2> SUFFICES ASSUME anomalies = {}, NEW k \in Sent, NEW p \in S, p \in old[k].rows
               PROVE  FALSE
    OBVIOUS
  <2>1. CoversDisjoint
    BY DEF IInv, NoSlipInv
  <2>2. i \in Live /\ k \in Live /\ i # k
    BY <1>2 DEF Live, Sent, WalletSends
  <2> QED
    BY <2>1, <2>2 DEF CoversDisjoint
<1>6. UNCHANGED <<status, txid, anomalies>>
  BY DEF WalletSends
<1>7. DOMAIN old = Sent
  OBVIOUS
<1>8. new = [k \in DOMAIN old \cup {i} |->
                IF k = i THEN [to |-> wallet[i].to, rows |-> S,
                               amount |-> Promise!Total(S) - WithdrawalFee]
                ELSE old[k]]
  BY <1>3, <1>7, SameTotal
<1>9. Promise!Total(S) >= MinWithdrawal
  BY <1>4, SameTotal
<1>10. anomalies # {} \/ S \cap Promise!PaidRows = {}
  BY <1>5, <1>7 DEF Promise!PaidRows
<1> QED
  BY <1>2, <1>4, <1>6, <1>7, <1>8, <1>9, <1>10, Zenon DEF Promise!Pay

\* MarkSent settles a row with a transfer that paid it, the first time unless something
\* slipped; a row that cannot be marked is a slip.
LEMMA MarkSentRefines ==
    ASSUME IInv, NEW r \in Runs, NEW p \in Payments, MarkSent(r, p), NEW id, id = req[r]
    PROVE  Promise!Settle(p, id) \/ Promise!Slip
<1>1. UNCHANGED wallet /\ Sent' = Sent
  BY DEF MarkSent, Sent
<1>2. CASE MarkFails(p, req[r])
  <2>1. UNCHANGED <<status, txid>> /\ anomalies' # {}
    BY <1>2 DEF MarkSent
  <2> QED
    BY <1>1, <2>1 DEF Promise!Slip
<1>3. CASE ~MarkFails(p, req[r])
  <2>1. /\ status' = [status EXCEPT ![p] = "sent"]
        /\ txid' = [txid EXCEPT ![p] = req[r]]
        /\ anomalies' = anomalies
    BY <1>3 DEF MarkSent
  <2>2. p \in marking[r]
    <3>1. marking[r] \in SUBSET Payments /\ marking[r] # {} /\ p = Min(marking[r])
      BY DEF MarkSent, IInv, TypeOK
    <3> QED
      BY <3>1, MinIsMember
  <2>3. pc[r] = "mark" /\ req[r] \in Sent /\ p \in wallet[req[r]].covers
    BY <2>2 DEF MarkSent, Sent, IInv, MarksWhatWasSent
  <2>4. status[p] # "absent" /\ (anomalies # {} \/ status[p] = "pending")
    BY <2>2, <2>3 DEF IInv, RequestsAreRight, Credited, NoSlipInv, UnmarkedIsPending, Sent
  <2>5. {q \in Payments : status'[q] # "absent"} = {q \in Payments : status[q] # "absent"}
    BY <2>1, <2>4 DEF IInv, TypeOK
  <2>6. [q \in Payments |-> IF status'[q] = "sent" THEN txid'[q] ELSE 0]
          = [[q \in Payments |-> IF status[q] = "sent" THEN txid[q] ELSE 0] EXCEPT ![p] = req[r]]
    BY <2>1 DEF IInv, TypeOK
  <2> QED
    BY <1>1, <2>1, <2>3, <2>4, <2>5, <2>6 DEF Promise!Settle
<1> QED
  BY <1>2, <1>3

\* The other steps of Withdraw leave what PayOnce is about alone, or slip.
LEMMA OtherRefines ==
    ASSUME IInv, UNCHANGED <<status, txid>>, Sent' = Sent,
           \A i \in Sent : wallet'[i] = wallet[i],
           anomalies' = anomalies \/ anomalies' # {}
    PROVE  Promise!Slip \/ UNCHANGED Promise!vars
BY DEF Promise!Slip, Promise!vars

\* A new request and a refusal are no transfers.
LEMMA RequestIsNoTransfer ==
    ASSUME IInv,
           \/ \E r \in Runs, rec \in Recipients : SendPayment(r, rec)
           \/ \E i \in 1..Len(wallet) : WalletRejects(i)
    PROVE  Sent' = Sent /\ \A i \in Sent : wallet'[i] = wallet[i]
<1>1. ASSUME NEW r \in Runs, NEW rec \in Recipients, SendPayment(r, rec)
      PROVE  Sent' = Sent /\ \A i \in Sent : wallet'[i] = wallet[i]
  <2>1. PICK w : wallet' = Append(wallet, w) /\ w.state = "queued"
    BY <1>1 DEF SendPayment
  <2>2. /\ Len(wallet) \in Nat
        /\ Len(wallet') = Len(wallet) + 1
        /\ \A j \in 1..Len(wallet) : wallet'[j] = wallet[j]
        /\ wallet'[Len(wallet) + 1] = w
    BY <2>1 DEF IInv, TypeOK
  <2> QED
    BY <2>1, <2>2 DEF Sent
<1>2. ASSUME NEW i \in 1..Len(wallet), WalletRejects(i)
      PROVE  Sent' = Sent /\ \A k \in Sent : wallet'[k] = wallet[k]
  <2>1. /\ Len(wallet') = Len(wallet)
        /\ \A j \in 1..Len(wallet) :
              wallet'[j].state = IF j = i THEN "rejected" ELSE wallet[j].state
    BY <1>2, AnswerChangesState DEF WalletRejects, IInv
  <2>2. \A j \in 1..Len(wallet) : j # i => wallet'[j] = wallet[j]
    BY <1>2 DEF WalletRejects, IInv, TypeOK
  <2>3. wallet[i].state = "queued"
    BY <1>2 DEF WalletRejects
  <2> QED
    BY <2>1, <2>2, <2>3 DEF Sent
<1> QED
  BY <1>1, <1>2

\* Every step of Withdraw is a step of PayOnce or leaves its state alone.
LEMMA StepRefines == IInv /\ [Next]_vars => [Promise!Next]_(Promise!vars)
<1> SUFFICES ASSUME IInv, [Next]_vars PROVE [Promise!Next]_(Promise!vars)
  OBVIOUS
<1>1. ASSUME NEW p \in Payments, CreatePayment(p) PROVE Promise!Next
  BY <1>1, CreatePaymentRefines DEF Promise!Next
<1>2. ASSUME NEW i \in 1..Len(wallet), WalletSends(i) PROVE Promise!Next
  <2>1. PICK S \in SUBSET Payments : S = wallet[i].covers
    BY DEF IInv, RequestsAreRight, Credited
  <2>2. Promise!Pay(i, S)
    BY <1>2, <2>1, WalletSendsRefines
  <2>3. Len(wallet) \in Nat /\ MaxRequests \in Nat
    BY WithdrawAssumption DEF IInv, TypeOK
  <2>4. i \in 1..MaxRequests
    BY <2>3 DEF IInv, WithinBound
  <2> QED
    BY <2>1, <2>2, <2>4, Zenon DEF Promise!Next
<1>3. ASSUME NEW r \in Runs, NEW p \in Payments, MarkSent(r, p) PROVE Promise!Next
  <2>1. req[r] \in Sent
    BY <1>3 DEF MarkSent, Sent, IInv, MarksWhatWasSent
  <2>2. PICK id \in DOMAIN [i \in Sent |-> [to |-> wallet[i].to, rows |-> wallet[i].covers,
                                            amount |-> wallet[i].amount]] : id = req[r]
    BY <2>1
  <2>3. Promise!Settle(p, id) \/ Promise!Slip
    BY <1>3, <2>2, MarkSentRefines
  <2> QED
    BY <2>2, <2>3, Zenon DEF Promise!Next
<1>4. ASSUME UNCHANGED <<status, txid>>, Sent' = Sent, \A i \in Sent : wallet'[i] = wallet[i],
             anomalies' = anomalies \/ anomalies' # {}
      PROVE  [Promise!Next]_(Promise!vars)
  BY <1>4, OtherRefines DEF Promise!Next
<1>5. CASE \/ \E r \in Runs, rec \in Recipients : SendPayment(r, rec)
           \/ \E i \in 1..Len(wallet) : WalletRejects(i)
  <2>1. UNCHANGED <<status, txid, anomalies>>
    BY <1>5 DEF SendPayment, WalletRejects
  <2> QED
    BY <1>4, <1>5, <2>1, RequestIsNoTransfer
<1>6. CASE UNCHANGED <<status, txid, wallet>> /\ (anomalies' = anomalies \/ anomalies' # {})
  BY <1>4, <1>6 DEF Sent
<1>7. CASE UNCHANGED vars
  BY <1>6, <1>7 DEF vars
<1>8. ASSUME NEW r \in Runs,
             \/ WithdrawNothing(r) \/ StartWithdraw(r)
             \/ \E rec \in Recipients : BelowThreshold(r, rec)
             \/ TransferOk(r) \/ TransferError(r) \/ TransferTimeout(r)
             \/ MarkingDone(r) \/ WithdrawDone(r)
      PROVE  [Promise!Next]_(Promise!vars)
  <2>1. UNCHANGED <<status, txid, wallet>> /\ (anomalies' = anomalies \/ anomalies' # {})
    BY <1>8 DEF WithdrawNothing, StartWithdraw, BelowThreshold, TransferOk, TransferError,
       TransferTimeout, MarkingDone, WithdrawDone, Slips, vars
  <2> QED
    BY <1>6, <2>1
<1>9. CASE Crash
  <2>1. UNCHANGED <<status, txid, wallet>> /\ anomalies' # {}
    BY <1>9 DEF Crash, Slips
  <2> QED
    BY <1>6, <2>1
<1> QED
  BY <1>1, <1>2, <1>3, <1>5, <1>7, <1>8, <1>9 DEF Next, Step

\* Withdraw implements PayOnce: whatever runs overlap, answers come late and crashes fall
\* between the transfer and the marks, each transfer pays exactly the total of rows of one
\* recipient less the fee, a row is marked sent only with a transfer that paid it, and
\* no row is paid or settled twice before one of the four slips.
THEOREM ImplementsPayOnce == Spec => PayOnceSpec
<1>1. Spec => Promise!Init
  BY InitRefines DEF Spec
<1>2. Spec => [][Promise!Next]_(Promise!vars)
  BY Invariant, StepRefines, PTL DEF Spec
<1> QED
  BY <1>1, <1>2 DEF PayOnceSpec, Promise!Spec
=============================================================================
