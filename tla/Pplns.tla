------------------------------- MODULE Pplns -------------------------------
(***************************************************************************)
(* The PPLNS window (cmd/master/pplns.go) and the row blockchain_info it   *)
(* is derived from (cmd/master/updater.go, pkg/ledger/ledger.go).          *)
(*                                                                         *)
(* GetPPLNSWindow reads the network difficulty, clamps currentN, a field   *)
(* no lock protects, and returns it.  It is called by the goroutine of     *)
(* each found block (DistributeBlockRewardPPLNS) and by requests to the    *)
(* HTTP API; at its end the goroutine of a block also changes currentN by  *)
(* the pool's luck (OnBlockFoundPPLNS).  blockchain_info is written by the *)
(* Updater loop and, read-modify-write, by the UpdateReward goroutines the *)
(* loop starts and does not wait for.                                      *)
(*                                                                         *)
(* Abstractions.  The shares table is a sequence in order of arrival with  *)
(* the difficulty of each share; a time is the number of shares before it. *)
(* Quotients are integers with a factor Scale, +Inf is Infinite, and a     *)
(* negative float64 converted to uint64 is 0 or Huge, as the machine       *)
(* decides.  What a distribution writes is module Rewards.                 *)
(***************************************************************************)
EXTENDS Integers, Sequences, FiniteSets, SequencesExt, FiniteSetsExt

CONSTANTS
    ShareDiffs,     \* difficulty of the i-th share to arrive
    Difficulty,     \* network difficulty at height 0, 1, ... (as a sequence)
    Callers,        \* goroutines of found blocks and requests to the API
    Rewards,        \* UpdateReward goroutines that may be under way together
    TargetShares,   \* MasterConfig.PPLNSTargetShares, the first N
    MinWindow,      \* PPLNSMinWindow, a multiple of the network difficulty
    MaxWindow,      \* PPLNSMaxWindow, a multiple of the network difficulty
    LuckFactor,     \* PPLNSLuckFactor, in Scale-ths
    History,        \* how many luck values are kept, 10 in the code
    Scale,          \* 1.0
    Infinite,       \* +Inf
    Huge,           \* 2^63
    MaxFaults       \* bound on failing statements and RPCs and crashes of the master

ASSUME PplnsAssumption ==
    /\ ShareDiffs \in Seq(Nat) /\ Difficulty \in Seq(Nat \ {0}) /\ Difficulty # <<>>
    /\ {TargetShares, MinWindow, MaxWindow, LuckFactor, MaxFaults} \subseteq Nat
    /\ {History, Scale, Infinite, Huge} \subseteq Nat \ {0}
    /\ MinWindow <= MaxWindow

Heights == 0..(Len(Difficulty) - 1)

VARIABLES
    shares,     \* how many shares the table holds: the first ones of ShareDiffs
    block,      \* blocks_found: timestamp and status of each found block
    info,       \* the row blockchain_info; reward is the height it belongs to
    chain,      \* height of the daemon's chain
    currentN,   \* PPLNSManager.currentN
    history,    \* PPLNSManager.poolLuckHistory
    pc,         \* where each caller of GetPPLNSWindow is
    diff,       \* the difficulty it has read
    window,     \* the window it got
    picked,     \* the shares GetSharesForPPLNS returned
    luck,       \* the round's start, then its shares, then the average luck
    slipped,    \* has currentN been adjusted while it was between clamp and return?
    poll,       \* the Updater: where it is and what GetInfo answered
    rpc,        \* UpdateReward goroutines: where they are and what they have read
    triggered,  \* heights for which UpdatePendingBals was started
    missed,     \* heights stored just before a crash, and not started
    faults      \* errors and crashes so far

windowVars == <<currentN, history, pc, diff, window, picked, luck, slipped>>
infoVars == <<info, poll, rpc, triggered, missed>>
vars == <<shares, block, chain, windowVars, infoVars, faults>>

TypeOK ==
    /\ shares \in 0..Len(ShareDiffs)
    /\ block \in [Callers -> [t: 0..Len(ShareDiffs), status: {"absent", "pending", "completed"}]]
    /\ info \in [height: Heights, reward: Heights \cup {-1}, difficulty: Nat]
    /\ chain \in Heights
    /\ currentN \in Nat
    /\ history \in Seq(Nat) /\ Len(history) <= History
    /\ pc \in [Callers -> {"none", "ask", "test", "raise", "lower", "return", "shares",
                           "credit", "round", "sum", "luck", "adjust", "done"}]
    /\ diff \in [Callers -> Nat]
    /\ window \in [Callers -> Nat]
    /\ picked \in [Callers -> SUBSET (1..Len(ShareDiffs))]
    /\ luck \in [Callers -> Nat]
    /\ slipped \subseteq Callers
    /\ poll \in [pc: {"sleep", "compare", "start"}, height: Heights]
    /\ rpc \in [Rewards -> [pc: {"idle", "header", "read"}, reward: Heights \cup {-1},
                            height: Heights, difficulty: Nat]]
    /\ triggered \subseteq Heights /\ missed \subseteq Heights
    /\ faults \in [errors: Nat, crashes: Nat]

NoRpc == [pc |-> "idle", reward |-> -1, height |-> 0, difficulty |-> 0]

Init ==
    /\ shares = 0
    /\ block = [f \in Callers |-> [t |-> 0, status |-> "absent"]]
    /\ info = [height |-> 0, reward |-> -1, difficulty |-> 1]
    /\ chain = 0
    /\ currentN = TargetShares
    /\ history = <<>>
    /\ pc = [c \in Callers |-> "none"]
    /\ diff = [c \in Callers |-> 0]
    /\ window = [c \in Callers |-> 0]
    /\ picked = [f \in Callers |-> {}]
    /\ luck = [f \in Callers |-> 0]
    /\ slipped = {}
    /\ poll = [pc |-> "sleep", height |-> 0]
    /\ rpc = [r \in Rewards |-> NoRpc]
    /\ triggered = {}
    /\ missed = {}
    /\ faults = [errors |-> 0, crashes |-> 0]

Goto(c, from, to) == pc[c] = from /\ pc' = [pc EXCEPT ![c] = to]

MayFail == faults.errors + faults.crashes < MaxFaults

Error ==
    /\ MayFail
    /\ faults' = [faults EXCEPT !.errors = @ + 1]

-----------------------------------------------------------------------------
(* The ledger.                                                             *)

\* Total difficulty of a set of shares.
SumShares(S) == MapThenSumSet(LAMBDA i : ShareDiffs[i], S)

\* AddShare, from OnShareFound.
AddShare ==
    /\ shares < Len(ShareDiffs)
    /\ shares' = shares + 1
    /\ UNCHANGED <<block, chain, windowVars, infoVars, faults>>

\* MAX(timestamp) of the completed blocks, 0 if there is none.
RoundStart ==
    Max({0} \cup {block[f].t : f \in {g \in Callers : block[g].status = "completed"}})

-----------------------------------------------------------------------------
(* GetPPLNSWindow.                                                         *)

\* BlockFound stores the block; its goroutine begins 30 seconds later.
BlockFound(f) ==
    /\ Goto(f, "none", "ask")
    /\ block' = [block EXCEPT ![f] = [t |-> shares, status |-> "pending"]]
    /\ UNCHANGED <<shares, chain, currentN, history, diff, window, picked, luck, slipped,
                   infoVars, faults>>

\* GetPplnsWindow or GetEstPendingBalance, for a request to the API.
ApiCall(a) ==
    /\ Goto(a, "none", "ask")
    /\ UNCHANGED <<shares, block, chain, currentN, history, diff, window, picked, luck,
                   slipped, infoVars, faults>>

\* GetBlockchainInfo, or 1 if it fails.
AskDifficulty(c) ==
    /\ Goto(c, "ask", "test")
    /\ \/ diff' = [diff EXCEPT ![c] = info.difficulty] /\ UNCHANGED faults
       \/ diff' = [diff EXCEPT ![c] = 1] /\ Error
    /\ UNCHANGED <<shares, block, chain, currentN, history, window, picked, luck, slipped,
                   infoVars>>

TestLowerBound(c) ==
    /\ pc[c] = "test"
    /\ pc' = [pc EXCEPT ![c] = IF currentN < diff[c] * MinWindow THEN "raise" ELSE "return"]
    /\ slipped' = slipped \ {c}
    /\ UNCHANGED <<shares, block, chain, currentN, history, diff, window, picked, luck,
                   infoVars, faults>>

\* The two comparisons, and which assignment follows them.
TestWindow(c) ==
    /\ pc[c] = "test"
    /\ pc' = [pc EXCEPT ![c] = IF currentN < diff[c] * MinWindow THEN "raise"
                               ELSE IF currentN > diff[c] * MaxWindow THEN "lower"
                               ELSE "return"]
    /\ slipped' = slipped \ {c}
    /\ UNCHANGED <<shares, block, chain, currentN, history, diff, window, picked, luck,
                   infoVars, faults>>

ClampWindow(c) ==
    /\ pc[c] \in {"raise", "lower"}
    /\ currentN' = diff[c] * (IF pc[c] = "raise" THEN MinWindow ELSE MaxWindow)
    /\ pc' = [pc EXCEPT ![c] = "return"]
    /\ slipped' = slipped \ {c}
    /\ UNCHANGED <<shares, block, chain, history, diff, window, picked, luck, infoVars,
                   faults>>

\* return p.currentN, a second read; a request to the API ends here.
ReturnWindow(c) ==
    /\ pc[c] = "return"
    /\ diff' = [diff EXCEPT ![c] = 0]
    /\ IF block[c].status = "absent"
       THEN /\ pc' = [pc EXCEPT ![c] = "done"]
            /\ slipped' = slipped \ {c}
            /\ UNCHANGED window
       ELSE /\ pc' = [pc EXCEPT ![c] = "shares"]
            /\ window' = [window EXCEPT ![c] = currentN]
            /\ UNCHANGED slipped
    /\ UNCHANGED <<shares, block, chain, currentN, history, picked, luck, infoVars, faults>>

-----------------------------------------------------------------------------
(* DistributeBlockRewardPPLNS: which shares, and what comes after.         *)

PplnsSharesWithoutLast(n, w) ==
    LET allShares == Reverse([i \in 1..n |-> i])
        take(i, acc) == IF acc # {} /\ SumShares(acc \cup {i}) >= w THEN acc ELSE acc \cup {i}
    IN  FoldRight(take, allShares, {})

\* The loop of GetSharesForPPLNS: allShares comes newest first (ORDER BY timestamp
\* DESC) and is walked from its last index down, up to the break.
PplnsShares(n, w) ==
    LET allShares == Reverse([i \in 1..n |-> i])
        take(i, acc) == IF acc # {} /\ SumShares(acc) >= w THEN acc ELSE acc \cup {i}
    IN  FoldRight(take, allShares, {})

\* GetSharesForPPLNS; without shares, or after an error, the block stays as it is.
PickShares(f) ==
    /\ pc[f] = "shares"
    /\ \/ /\ shares > 0
          /\ picked' = [picked EXCEPT ![f] = PplnsShares(shares, window[f])]
          /\ pc' = [pc EXCEPT ![f] = "credit"]
          /\ UNCHANGED <<window, faults>>
       \/ /\ IF shares = 0 THEN UNCHANGED faults ELSE Error
          /\ pc' = [pc EXCEPT ![f] = "done"]
          /\ window' = [window EXCEPT ![f] = 0]
          /\ UNCHANGED picked
    /\ UNCHANGED <<shares, block, chain, currentN, history, diff, luck, slipped, infoVars>>

\* The rewards are written (module Rewards) and the block is marked; a failure is
\* only logged.
MarkBlockProcessed(f) ==
    /\ Goto(f, "credit", "round")
    /\ \/ block' = [block EXCEPT ![f].status = "completed"] /\ UNCHANGED faults
       \/ UNCHANGED block /\ Error
    /\ window' = [window EXCEPT ![f] = 0]
    /\ picked' = [picked EXCEPT ![f] = {}]
    /\ slipped' = slipped \ {f}
    /\ UNCHANGED <<shares, chain, currentN, history, diff, luck, infoVars>>

\* OnBlockFoundPPLNS: the first query of GetRoundShares; after an error it
\* goes on as if there were no block, and counts all shares.
ReadRoundStart(f) ==
    /\ Goto(f, "round", "sum")
    /\ \/ luck' = [luck EXCEPT ![f] = RoundStart] /\ UNCHANGED faults
       \/ luck' = [luck EXCEPT ![f] = 0] /\ Error
    /\ UNCHANGED <<shares, block, chain, currentN, history, diff, window, picked, slipped,
                   infoVars>>

\* The second query of GetRoundShares; an error ends OnBlockFoundPPLNS.
ReadRound(f) ==
    /\ pc[f] = "sum"
    /\ \/ /\ pc' = [pc EXCEPT ![f] = "luck"]
          /\ luck' = [luck EXCEPT ![f] = SumShares((luck[f] + 1)..shares)]
          /\ UNCHANGED faults
       \/ /\ pc' = [pc EXCEPT ![f] = "done"]
          /\ Error
          /\ UNCHANGED luck
    /\ UNCHANGED <<shares, block, chain, currentN, history, diff, window, picked, slipped,
                   infoVars>>

\* luck := expected / actual, +Inf when there were no shares.
Luck(expected, round) == IF round = 0 THEN Infinite ELSE (expected * Scale) \div round

Average(lucks) ==
    IF Infinite \in Range(lucks) THEN Infinite
    ELSE FoldLeft(+, 0, lucks) \div Len(lucks)

RecordLuckForever(f) ==
    /\ Goto(f, "luck", "adjust")
    /\ history' = Append(history, Luck(info.difficulty, luck[f]))
    /\ luck' = [luck EXCEPT ![f] = Average(history')]
    /\ UNCHANGED <<shares, block, chain, currentN, diff, window, picked, slipped, infoVars,
                   faults>>

\* GetBlockchainInfo (1 if it fails), the new entry of the history, which keeps at
\* most History of them, and the average.
RecordLuck(f) ==
    /\ Goto(f, "luck", "adjust")
    /\ \E expected \in {info.difficulty, 1} :
          LET all == Append(history, Luck(expected, luck[f])) IN
          /\ history' = IF Len(all) > History THEN Tail(all) ELSE all
          /\ IF expected = info.difficulty THEN UNCHANGED faults ELSE Error
    /\ luck' = [luck EXCEPT ![f] = Average(history')]
    /\ UNCHANGED <<shares, block, chain, currentN, diff, window, picked, slipped, infoVars>>

\* uint64(float64(n) * (1.0 + (1.0 - avg) * LuckFactor)), all the values it may be.
Adjusted(n, avg) ==
    LET product == n * (Scale * Scale + (Scale - avg) * LuckFactor)
    IN  IF avg = Infinite THEN {0, Huge}
        ELSE IF product >= 0 THEN {product \div (Scale * Scale)}
        ELSE IF -product < Scale * Scale THEN {0}
        ELSE {0, Huge}

\* p.currentN is read and written; nobody's clamp is in between or it is lost.
AdjustWindow(f) ==
    /\ Goto(f, "adjust", "done")
    /\ currentN' \in Adjusted(currentN, luck[f])
    /\ slipped' = slipped \cup {c \in Callers : pc[c] = "return"}
    /\ luck' = [luck EXCEPT ![f] = 0]
    /\ UNCHANGED <<shares, block, chain, history, diff, window, picked, infoVars, faults>>

-----------------------------------------------------------------------------
(* blockchain_info.                                                        *)

\* External: the daemon's chain grows.
ChainGrows ==
    /\ chain + 1 \in Heights
    /\ chain' = chain + 1
    /\ UNCHANGED <<shares, block, windowVars, infoVars, faults>>

\* Updater: GetInfo, which may fail.
PollDaemon ==
    /\ poll.pc = "sleep"
    /\ poll' = [pc |-> "compare", height |-> chain]
    /\ UNCHANGED <<shares, block, chain, windowVars, info, rpc, triggered, missed, faults>>

\* Updater: compares with GetBlockchainInfo (0 if it fails); on a new height
\* UpdateBlockchainInfo, with reward 0 (-1 here) and the difficulty of the
\* same answer of the daemon.
StoreHeight ==
    LET answer == [height |-> poll.height, reward |-> -1,
                   difficulty |-> Difficulty[poll.height + 1]]
        changed == poll.height # info.height
    IN  /\ poll.pc = "compare"
        /\ \/ changed /\ info' = answer /\ UNCHANGED faults
           \/ ~changed /\ UNCHANGED <<info, faults>>
           \/ changed /\ UNCHANGED info /\ Error
           \/ poll.height # 0 /\ info' = answer /\ Error
        /\ poll' = IF changed \/ faults' # faults THEN [poll EXCEPT !.pc = "start"]
                   ELSE [pc |-> "sleep", height |-> 0]
        /\ UNCHANGED <<shares, block, chain, windowVars, rpc, triggered, missed>>

\* Updater: go UpdatePendingBals().
StartProcessing ==
    /\ poll.pc = "start"
    /\ triggered' = triggered \cup {poll.height}
    /\ poll' = [pc |-> "sleep", height |-> 0]
    /\ UNCHANGED <<shares, block, chain, windowVars, info, rpc, missed, faults>>

\* UpdateReward, started every 5 seconds: GetLastBlockHeader.
AskReward(r) ==
    /\ rpc[r].pc = "idle"
    /\ rpc' = [rpc EXCEPT ![r].pc = "header", ![r].reward = chain]
    /\ UNCHANGED <<shares, block, chain, windowVars, info, poll, triggered, missed, faults>>

\* UpdateReward: GetBlockchainInfo.
ReadInfo(r) ==
    /\ rpc[r].pc = "header"
    /\ rpc' = [rpc EXCEPT ![r].pc = "read", ![r].height = info.height,
                          ![r].difficulty = info.difficulty]
    /\ UNCHANGED <<shares, block, chain, windowVars, info, poll, triggered, missed, faults>>

WriteHeaderHeight(r) ==
    /\ rpc[r].pc = "read"
    /\ info' = [height |-> rpc[r].reward, reward |-> rpc[r].reward,
                difficulty |-> Difficulty[rpc[r].reward + 1]]
    /\ rpc' = [rpc EXCEPT ![r] = NoRpc]
    /\ UNCHANGED <<shares, block, chain, windowVars, poll, triggered, missed, faults>>

\* UpdateReward: UpdateBlockchainInfo with what was read before.
WriteInfo(r) ==
    /\ rpc[r].pc = "read"
    /\ info' = [height |-> rpc[r].height, reward |-> rpc[r].reward,
                difficulty |-> rpc[r].difficulty]
    /\ rpc' = [rpc EXCEPT ![r] = NoRpc]
    /\ UNCHANGED <<shares, block, chain, windowVars, poll, triggered, missed, faults>>

\* A failed RPC or statement ends it.
RewardFails(r) ==
    /\ rpc[r].pc # "idle"
    /\ Error
    /\ rpc' = [rpc EXCEPT ![r] = NoRpc]
    /\ UNCHANGED <<shares, block, chain, windowVars, info, poll, triggered, missed>>

\* The master dies and starts again: tables stay, InitPPLNS starts over, and
\* nothing starts UpdatePendingBals for a height that is already stored.
Crash ==
    /\ MayFail
    /\ faults' = [faults EXCEPT !.crashes = @ + 1]
    /\ missed' = IF poll.pc = "start" THEN missed \cup {poll.height} ELSE missed
    /\ currentN' = TargetShares
    /\ history' = <<>>
    /\ pc' = [c \in Callers |-> IF pc[c] = "none" THEN "none" ELSE "done"]
    /\ diff' = [c \in Callers |-> 0]
    /\ window' = [c \in Callers |-> 0]
    /\ picked' = [c \in Callers |-> {}]
    /\ luck' = [c \in Callers |-> 0]
    /\ slipped' = {}
    /\ poll' = [pc |-> "sleep", height |-> 0]
    /\ rpc' = [r \in Rewards |-> NoRpc]
    /\ UNCHANGED <<shares, block, chain, info, triggered>>

GetPPLNSWindow(c) ==
    AskDifficulty(c) \/ TestWindow(c) \/ ClampWindow(c) \/ ReturnWindow(c)

Distribute(f) ==
    \/ PickShares(f) \/ MarkBlockProcessed(f) \/ ReadRoundStart(f) \/ ReadRound(f)
    \/ RecordLuck(f) \/ AdjustWindow(f)

Updater == PollDaemon \/ StoreHeight \/ StartProcessing

UpdateReward(r) == AskReward(r) \/ ReadInfo(r) \/ WriteInfo(r)

Next ==
    \/ AddShare \/ ChainGrows \/ Crash
    \/ \E c \in Callers : BlockFound(c) \/ ApiCall(c) \/ GetPPLNSWindow(c) \/ Distribute(c)
    \/ Updater
    \/ \E r \in Rewards : UpdateReward(r) \/ RewardFails(r)

Spec == Init /\ [][Next]_vars

-----------------------------------------------------------------------------
(* Properties.                                                             *)

Difficulties == {1} \cup Range(Difficulty)

\* The window a block's reward is divided by lies within the bounds of a
\* difficulty the network had, although currentN has no lock, other callers
\* clamp it with other difficulties, the adjustment by luck can make it 0 or
\* 2^63, and a failed read counts as difficulty 1.  The one exception is an
\* adjustment that falls between the clamp and the return.
WindowWithinBounds ==
    \A c \in Callers : (pc[c] \in {"shares", "credit"} /\ c \notin slipped) =>
        /\ window[c] >= Min(Difficulties) * MinWindow
        /\ window[c] <= Max(Difficulties) * MaxWindow

Picking(c) == pc[c] = "shares" /\ pc'[c] = "credit"

\* GetSharesForPPLNS returns shares that fill the window it was given, or all
\* there are, and not one more than it takes.
SelectionFillsWindow ==
    [][\A c \in Callers : Picking(c) =>
          LET S == picked'[c] IN
          /\ SumShares(S) >= window[c] \/ S = 1..shares
          /\ Cardinality(S) = 1 \/ \E i \in S : SumShares(S \ {i}) < window[c]]_vars

\* A height that is stored has had its transfers processing started, or is just
\* about to: an UpdateReward that writes an old height back, or a failed
\* statement, may start it twice but never hides a new height from the
\* Updater's comparison.  Only a crash between the two statements does.
HeightIsProcessed ==
    (info.height > 0 /\ poll # [pc |-> "start", height |-> info.height])
        => info.height \in triggered \cup missed

\* "Sort by timestamp descending (newest first)", "Count backwards until we reach
\* our window" (pplns.go 114): the newest share counts.
NewestSharesCount ==
    [][\A c \in Callers : Picking(c) => shares \in picked'[c]]_vars
=============================================================================
