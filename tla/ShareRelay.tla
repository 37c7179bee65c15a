----------------------------- MODULE ShareRelay -----------------------------
(***************************************************************************)
(* How shares travel from a slave to the master's shares table: the share  *)
(* cache and its flush loop (slave/slaveQueue.go), the one TCP connection  *)
(* and its unlocked writers (slave/slaveClient.go), and the master's       *)
(* HandleSlave / OnMessage / OnShareFound (cmd/master/handler.go,          *)
(* master.go).                                                             *)
(*                                                                         *)
(* The global variable conn of the slave is assigned by StartSlaveClient   *)
(* without connMut, and sendToConn reads it three times without a lock: at *)
(* the nil check and at each of its two Writes.  Each read is a step.  One *)
(* Write is atomic (net.Conn serialises them), the pair is not.            *)
(*                                                                         *)
(* Abstractions.  An encrypted frame is its plaintext size and what it     *)
(* decodes to; Decrypt succeeds exactly when the reader asks for the size  *)
(* of the frame at the head of the stream.  Sizes of bodies are symbolic,  *)
(* except that a stats body has the two bytes of a length frame.  Worker   *)
(* names travel with a share but credit nobody and are dropped after the   *)
(* wallet has been cut out of the cache key.                               *)
(***************************************************************************)
EXTENDS Integers, Sequences, FiniteSets, FiniteSetsExt, Functions

CONSTANTS
    Wallets,             \* valid wallet addresses, FeeAddress among them
    FeeAddress,          \* the pool's own address
    Symbols,             \* what worker names are made of
    Keys,                \* wallet and worker name of each miner
    Diffs,               \* difficulties a share may have
    Miners,              \* the number of connections SendStats reports
    NullableBlockHeight, \* does the shares table accept a NULL block_height?
    MaxAccepted,         \* bound on accepted shares
    MaxDials,            \* bound on successful dials
    MaxPackets,          \* bound on stats and block packets together
    MaxFaults            \* bound on broken connections and master restarts

ASSUME RelayAssumption ==
    /\ FeeAddress \in Wallets
    /\ ":" \notin Wallets
    /\ Keys \subseteq Wallets \X Seq(Symbols)
    /\ IsFiniteSet(Wallets) /\ IsFiniteSet(Keys)
    /\ {Miners, MaxAccepted, MaxDials, MaxPackets, MaxFaults} \subseteq Nat
    /\ Diffs \subseteq Nat \ {0}
    /\ NullableBlockHeight \in BOOLEAN

Links == 1..MaxDials
Senders == {"flush", "stats", "block"}
ZeroCount == [n |-> 0, diff |-> 0]

VARIABLES
    alive,      \* is the slave process running?
    cache,      \* slaveCache.Shares: NumShares and TotalDiff per key
    conn,       \* the slave's global conn: 0 for nil, else a link
    client,     \* StartSlaveClient: "dial" or "read"
    dials,      \* links dialled so far
    pc,         \* where each sender is in sendToConn
    cur,        \* the message each sender is sending
    todo,       \* keys the running flush has not sent yet
    up,         \* is the link still open at the slave's end and unbroken?
    wire,       \* frames in flight on each link
    handler,    \* HandleSlave of each link
    need,       \* size of the body the handler waits for
    job,        \* shares OnShareFound has still to hand to AddShare
    numConns,   \* the master's numConns entry of each link
    added,      \* calls of AddShare: number and difficulty per wallet
    blocks,     \* block packets found by the slave and handled by the master
    accepted,   \* shares accepted from miners, per wallet
    budget      \* stats packets and faults so far

slaveVars == <<alive, cache, conn, client, dials, pc, cur, todo>>
masterVars == <<handler, need, job, numConns, added>>
vars == <<slaveVars, up, wire, masterVars, blocks, accepted, budget>>

\* The shares table.  AddShare inserts a row with block_height NULL, which a
\* table whose block_height is NOT NULL refuses every time.
rows == IF NullableBlockHeight THEN added ELSE [w \in Wallets |-> ZeroCount]

-----------------------------------------------------------------------------
(* Messages and frames.                                                    *)

Share(key, c) == [type |-> "share", wallet |-> key, n |-> c.n, diff |-> c.diff]
Stats == [type |-> "stats", wallet |-> <<>>, n |-> Miners, diff |-> 0]
Block == [type |-> "block", wallet |-> <<>>, n |-> 1, diff |-> 0]
NoMessage == [type |-> "none", wallet |-> <<>>, n |-> 0, diff |-> 0]

\* Plaintext sizes.  A stats body is a packet byte and a one-byte count.
Size(m) == CASE m.type = "stats" -> 2
             [] m.type = "block" -> 3
             [] m.type = "share" -> 4

\* Encrypt(dataLenBin): two bytes holding the size of the body to come.
LenFrame(m) == [size |-> 2, len |-> Size(m), msg |-> NoMessage]

\* Encrypt(data).  len is what the frame means to a reader that takes it for
\* a length: only a stats body has the size for that (2 | miners << 8).
BodyFrame(m) == [size |-> Size(m), len |-> 2 + 256 * Miners, msg |-> m]

\* The flush loop rebuilds "wallet:workerID" and cuts it at the LAST colon.
WalletOfKey(key) ==
    LET s == <<key[1], ":">> \o key[2]
        last == Max({i \in 1..Len(s) : s[i] = ":"})
    IN  SubSeq(s, 1, last - 1)

\* OnShareFound: an address that is not valid is replaced by the fee address.
Credited(wallet) ==
    IF Len(wallet) = 1 /\ wallet[1] \in Wallets THEN wallet[1] ELSE FeeAddress

Init ==
    /\ alive = TRUE
    /\ cache = [k \in Keys |-> ZeroCount]
    /\ conn = 0
    /\ client = "dial"
    /\ dials = 0
    /\ pc = [s \in Senders |-> "idle"]
    /\ cur = [s \in Senders |-> NoMessage]
    /\ todo = {}
    /\ up = [e \in Links |-> FALSE]
    /\ wire = [e \in Links |-> <<>>]
    /\ handler = [e \in Links |-> "off"]
    /\ need = [e \in Links |-> 0]
    /\ job = [e \in Links |-> NoMessage]
    /\ numConns = [e \in Links |-> 0]
    /\ added = [w \in Wallets |-> ZeroCount]
    /\ blocks = [found |-> 0, handled |-> 0]
    /\ accepted = [w \in Wallets |-> ZeroCount]
    /\ budget = [stats |-> 0, faults |-> 0]

-----------------------------------------------------------------------------
(* The slave: accepting and caching shares.                                *)

SendShareDuringFlush(key, d) ==
    /\ alive
    /\ SumFunction([x \in Wallets |-> accepted[x].n]) < MaxAccepted
    /\ cache' = [cache EXCEPT ![key] = [n |-> @.n + 1, diff |-> @.diff + d]]
    /\ accepted' = [accepted EXCEPT ![key[1]] = [n |-> @.n + 1, diff |-> @.diff + d]]
    /\ UNCHANGED <<alive, conn, client, dials, pc, cur, todo, up, wire,
                   masterVars, blocks, budget>>

\* SendShareWithWorker, cacheShareWithWorker: the flush loop holds connMut and
\* the cache's lock until it has sent and cleared everything.
SendShareWithWorker(key, d) ==
    /\ alive
    /\ pc["flush"] = "idle"
    /\ SumFunction([x \in Wallets |-> accepted[x].n]) < MaxAccepted
    /\ cache' = [cache EXCEPT ![key] = [n |-> @.n + 1, diff |-> @.diff + d]]
    /\ accepted' = [accepted EXCEPT ![key[1]] = [n |-> @.n + 1, diff |-> @.diff + d]]
    /\ UNCHANGED <<alive, conn, client, dials, pc, cur, todo, up, wire,
                   masterVars, blocks, budget>>

\* The flush loop wakes while conn is nil and goes back to sleep.
FlushSkip ==
    /\ alive
    /\ pc["flush"] = "idle"
    /\ conn = 0
    /\ UNCHANGED vars

\* The flush loop wakes with a connection and locks the cache.
FlushBegin ==
    /\ alive
    /\ pc["flush"] = "idle"
    /\ conn # 0
    /\ pc' = [pc EXCEPT !["flush"] = "next"]
    /\ todo' = {k \in Keys : cache[k].n > 0}
    /\ UNCHANGED <<alive, cache, conn, client, dials, cur, up, wire,
                   masterVars, blocks, accepted, budget>>

\* One iteration over the map, in any order: sendCachedShareWithWorker.
FlushNext(k) ==
    /\ pc["flush"] = "next"
    /\ k \in todo
    /\ todo' = todo \ {k}
    /\ cur' = [cur EXCEPT !["flush"] = Share(WalletOfKey(k), cache[k])]
    /\ pc' = [pc EXCEPT !["flush"] = "check"]
    /\ UNCHANGED <<alive, cache, conn, client, dials, up, wire,
                   masterVars, blocks, accepted, budget>>

FlushEndKeepsCache ==
    /\ pc["flush"] = "next"
    /\ todo = {}
    /\ pc' = [pc EXCEPT !["flush"] = "idle"]
    /\ UNCHANGED <<alive, cache, conn, client, dials, cur, todo, up, wire,
                   masterVars, blocks, accepted, budget>>

\* The end of the flush: a fresh map, whatever became of the writes.
FlushEnd ==
    /\ pc["flush"] = "next"
    /\ todo = {}
    /\ cache' = [k \in Keys |-> ZeroCount]
    /\ pc' = [pc EXCEPT !["flush"] = "idle"]
    /\ UNCHANGED <<alive, conn, client, dials, cur, todo, up, wire,
                   masterVars, blocks, accepted, budget>>

\* SendStats, from the stats goroutine.
SendStats ==
    /\ alive
    /\ pc["stats"] = "idle"
    /\ budget.stats + blocks.found < MaxPackets
    /\ budget' = [budget EXCEPT !.stats = @ + 1]
    /\ pc' = [pc EXCEPT !["stats"] = "check"]
    /\ cur' = [cur EXCEPT !["stats"] = Stats]
    /\ UNCHANGED <<alive, cache, conn, client, dials, todo, up, wire,
                   masterVars, blocks, accepted>>

\* SendBlockFound, from a connection that holds CurInfo's lock.
SendBlockFound ==
    /\ alive
    /\ pc["block"] = "idle"
    /\ budget.stats + blocks.found < MaxPackets
    /\ blocks' = [blocks EXCEPT !.found = @ + 1]
    /\ pc' = [pc EXCEPT !["block"] = "check"]
    /\ cur' = [cur EXCEPT !["block"] = Block]
    /\ UNCHANGED <<alive, cache, conn, client, dials, todo, up, wire,
                   masterVars, accepted, budget>>

-----------------------------------------------------------------------------
(* The slave: sendToConn, one step per read of conn.                       *)

Return(s) ==
    /\ pc' = [pc EXCEPT ![s] = IF s = "flush" THEN "next" ELSE "idle"]
    /\ cur' = [cur EXCEPT ![s] = NoMessage]

\* The nil check: a nil connection drops the message.
CheckConn(s) ==
    /\ pc[s] = "check"
    /\ IF conn = 0 THEN Return(s) ELSE pc' = [pc EXCEPT ![s] = "len"] /\ UNCHANGED cur
    /\ UNCHANGED <<alive, cache, conn, client, dials, todo, up, wire,
                   masterVars, blocks, accepted, budget>>

\* conn.Write: errors are ignored, a frame for a dead link disappears.
Written(frame) ==
    IF up[conn] /\ handler[conn] # "closed"
    THEN [wire EXCEPT ![conn] = Append(@, frame)]
    ELSE wire

WriteLen(s) ==
    /\ pc[s] = "len"
    /\ conn # 0
    /\ wire' = Written(LenFrame(cur[s]))
    /\ pc' = [pc EXCEPT ![s] = "body"]
    /\ UNCHANGED <<alive, cache, conn, client, dials, cur, todo, up,
                   masterVars, blocks, accepted, budget>>

WriteBody(s) ==
    /\ pc[s] = "body"
    /\ conn # 0
    /\ wire' = Written(BodyFrame(cur[s]))
    /\ Return(s)
    /\ UNCHANGED <<alive, cache, conn, client, dials, todo, up,
                   masterVars, blocks, accepted, budget>>

\* A Write through conn after a failed dial has set it to nil: the slave panics
\* and everything it has cached dies with it.
NilWrite(s) ==
    /\ pc[s] \in {"len", "body"}
    /\ conn = 0
    /\ alive' = FALSE
    /\ cache' = [k \in Keys |-> ZeroCount]
    /\ pc' = [t \in Senders |-> "idle"]
    /\ cur' = [t \in Senders |-> NoMessage]
    /\ todo' = {}
    /\ up' = [e \in Links |-> FALSE]
    /\ UNCHANGED <<conn, client, dials, wire, masterVars, blocks, accepted, budget>>

\* The slave is started again.
SlaveRestart ==
    /\ ~alive
    /\ alive' = TRUE
    /\ conn' = 0
    /\ client' = "dial"
    /\ UNCHANGED <<cache, dials, pc, cur, todo, up, wire, masterVars, blocks,
                   accepted, budget>>

-----------------------------------------------------------------------------
(* The slave: StartSlaveClient.                                            *)

\* conn, err = net.Dial(...) succeeds; the master starts a HandleSlave.
DialOk ==
    /\ alive
    /\ client = "dial"
    /\ dials < MaxDials
    /\ dials' = dials + 1
    /\ conn' = dials + 1
    /\ up' = [up EXCEPT ![dials + 1] = TRUE]
    /\ handler' = [handler EXCEPT ![dials + 1] = "len"]
    /\ client' = "read"
    /\ UNCHANGED <<alive, cache, pc, cur, todo, wire, need, job, numConns, added,
                   blocks, accepted, budget>>

\* net.Dial fails and overwrites conn with nil, without connMut.
DialFail ==
    /\ alive
    /\ client = "dial"
    /\ conn' = 0
    /\ UNCHANGED <<alive, cache, client, dials, pc, cur, todo, up, wire,
                   masterVars, blocks, accepted, budget>>

\* io.ReadFull fails: the master has closed the link, or the network has.
\* The variable keeps pointing at the closed connection.
ReadError ==
    /\ alive
    /\ client = "read"
    /\ ~up[conn] \/ handler[conn] = "closed"
    /\ up' = [up EXCEPT ![conn] = FALSE]
    /\ client' = "dial"
    /\ UNCHANGED <<alive, cache, conn, dials, pc, cur, todo, wire,
                   masterVars, blocks, accepted, budget>>

\* The network breaks a link; any suffix of what is in flight is lost.
NetBreak(e) ==
    /\ up[e]
    /\ budget.faults < MaxFaults
    /\ budget' = [budget EXCEPT !.faults = @ + 1]
    /\ up' = [up EXCEPT ![e] = FALSE]
    /\ \E n \in 0..Len(wire[e]) : wire' = [wire EXCEPT ![e] = SubSeq(@, 1, n)]
    /\ UNCHANGED <<slaveVars, masterVars, blocks, accepted>>

-----------------------------------------------------------------------------
(* The master: HandleSlave, OnMessage, OnShareFound.                       *)

\* cleanup: close the link and forget its connection count.
Cleanup(e) ==
    /\ handler' = [handler EXCEPT ![e] = "closed"]
    /\ numConns' = [numConns EXCEPT ![e] = 0]
    /\ wire' = [wire EXCEPT ![e] = <<>>]
    /\ UNCHANGED <<slaveVars, up, need, job, added, blocks, accepted, budget>>

\* A length frame, or a stats body in its place, decrypts.
ReadLen(e) ==
    /\ handler[e] = "len"
    /\ wire[e] # <<>>
    /\ Head(wire[e]).size = 2
    /\ need' = [need EXCEPT ![e] = Head(wire[e]).len]
    /\ wire' = [wire EXCEPT ![e] = Tail(@)]
    /\ handler' = [handler EXCEPT ![e] = "body"]
    /\ UNCHANGED <<slaveVars, up, job, numConns, added, blocks, accepted, budget>>

\* A body of the announced size decrypts: OnMessage.  A length frame in its
\* place has an unknown packet type and is ignored.
ReadBody(e) ==
    LET m == Head(wire[e]).msg IN
    /\ handler[e] = "body"
    /\ wire[e] # <<>>
    /\ Head(wire[e]).size = need[e]
    /\ wire' = [wire EXCEPT ![e] = Tail(@)]
    /\ handler' = [handler EXCEPT ![e] = IF m.type = "share" THEN "store" ELSE "len"]
    /\ need' = [need EXCEPT ![e] = 0]
    /\ job' = IF m.type = "share" THEN [job EXCEPT ![e] = m] ELSE job
    /\ numConns' = IF m.type = "stats" THEN [numConns EXCEPT ![e] = m.n] ELSE numConns
    /\ blocks' = IF m.type = "block" THEN [blocks EXCEPT !.handled = @ + 1] ELSE blocks
    /\ UNCHANGED <<slaveVars, up, added, accepted, budget>>

StoreRowOffByOne(e) ==
    LET w == Credited(job[e].wallet) IN
    /\ handler[e] = "store"
    /\ added' = [added EXCEPT ![w] = [n |-> @.n + 1, diff |-> @.diff + job[e].diff]]
    /\ job' = [job EXCEPT ![e].n = @ - 1]
    /\ handler' = [handler EXCEPT ![e] = IF job[e].n = 0 THEN "len" ELSE "store"]
    /\ UNCHANGED <<slaveVars, up, wire, need, numConns, blocks, accepted, budget>>

StoreRowOnce(e) ==
    LET w == Credited(job[e].wallet) IN
    /\ handler[e] = "store"
    /\ added' = [added EXCEPT ![w] = [n |-> @.n + 1, diff |-> @.diff + job[e].diff]]
    /\ job' = [job EXCEPT ![e] = NoMessage]
    /\ handler' = [handler EXCEPT ![e] = "len"]
    /\ UNCHANGED <<slaveVars, up, wire, need, numConns, blocks, accepted, budget>>

\* One iteration of OnShareFound: AddShare is called with the difficulty of the
\* whole packet; its error is only logged.
StoreRow(e) ==
    LET w == Credited(job[e].wallet) IN
    /\ handler[e] = "store"
    /\ added' = [added EXCEPT ![w] = [n |-> @.n + 1, diff |-> @.diff + job[e].diff]]
    /\ job' = IF job[e].n = 1 THEN [job EXCEPT ![e] = NoMessage] ELSE [job EXCEPT ![e].n = @ - 1]
    /\ handler' = [handler EXCEPT ![e] = IF job[e].n = 1 THEN "len" ELSE "store"]
    /\ UNCHANGED <<slaveVars, up, wire, need, numConns, blocks, accepted, budget>>

\* The frame at the head is not of the size asked for: Decrypt fails.
Desync(e) ==
    /\ handler[e] \in {"len", "body"}
    /\ wire[e] # <<>>
    /\ Head(wire[e]).size # (IF handler[e] = "len" THEN 2 ELSE need[e])
    /\ Cleanup(e)

\* io.ReadFull meets the end of a link that is down.
Eof(e) ==
    /\ handler[e] \in {"len", "body"}
    /\ wire[e] = <<>>
    /\ ~up[e]
    /\ Cleanup(e)

\* The master process dies and is started again: every handler is gone, rows
\* that were inserted stay.
MasterRestart ==
    /\ \E e \in Links : handler[e] \in {"len", "body", "store"}
    /\ budget.faults < MaxFaults
    /\ budget' = [budget EXCEPT !.faults = @ + 1]
    /\ handler' = [e \in Links |-> IF handler[e] = "off" THEN "off" ELSE "closed"]
    /\ wire' = [e \in Links |-> <<>>]
    /\ numConns' = [e \in Links |-> 0]
    /\ UNCHANGED <<slaveVars, up, need, job, added, blocks, accepted>>

Flush == FlushSkip \/ FlushBegin \/ (\E k \in Keys : FlushNext(k)) \/ FlushEnd
Send(s) == CheckConn(s) \/ WriteLen(s) \/ WriteBody(s) \/ NilWrite(s)
HandleSlave(e) == ReadLen(e) \/ ReadBody(e) \/ StoreRow(e) \/ Desync(e) \/ Eof(e)

Next ==
    \/ \E key \in Keys, d \in Diffs : SendShareWithWorker(key, d)
    \/ Flush
    \/ SendStats
    \/ SendBlockFound
    \/ \E s \in Senders : Send(s)
    \/ SlaveRestart
    \/ DialOk \/ DialFail \/ ReadError
    \/ \E e \in Links : NetBreak(e) \/ HandleSlave(e)
    \/ MasterRestart

\* The goroutines of both processes run; a dial that may succeed does so some
\* day.  Nothing is assumed of miners, of stats, of blocks or of faults.
Fairness ==
    /\ WF_vars(Flush)
    /\ \A s \in Senders : WF_vars(Send(s))
    /\ WF_vars(DialOk)
    /\ WF_vars(ReadError)
    /\ \A e \in Links : WF_vars(HandleSlave(e))

Spec == Init /\ [][Next]_vars
FairSpec == Spec /\ Fairness

-----------------------------------------------------------------------------
(* Properties.                                                             *)

Count == [n: Nat, diff: Nat]

\* A share message announces at least one share, a block message one block.
Message == {m \in [type: {"share", "stats", "block", "none"},
                   wallet: {<<>>} \cup {WalletOfKey(k) : k \in Keys},
                   n: Nat, diff: Nat] :
               /\ m.type = "share" => m.n > 0
               /\ m.type = "block" => m.n = 1}

\* A frame that carries a message has its size.
Frame == {f \in [size: Nat, len: Nat, msg: Message] :
             f.msg.type # "none" => f.size = Size(f.msg)}

TypeOK ==
    /\ alive \in BOOLEAN
    /\ cache \in [Keys -> Count]
    /\ conn \in 0..MaxDials
    /\ client \in {"dial", "read"}
    /\ dials \in 0..MaxDials
    /\ pc \in [Senders -> {"idle", "next", "check", "len", "body"}]
    /\ cur \in [Senders -> Message]
    /\ todo \subseteq Keys
    /\ up \in [Links -> BOOLEAN]
    /\ wire \in [Links -> Seq(Frame)]
    /\ handler \in [Links -> {"off", "len", "body", "store", "closed"}]
    /\ need \in [Links -> Nat]
    /\ job \in [Links -> Message]
    /\ numConns \in [Links -> Nat]
    /\ added \in [Wallets -> Count]
    /\ blocks \in [found: Nat, handled: Nat]
    /\ accepted \in [Wallets -> Count]
    /\ budget \in [stats: 0..MaxPackets, faults: 0..MaxFaults]

Total(f) == SumFunction([w \in Wallets |-> f[w].n])

\* Shares announced in frames of link e that the master has not read yet.
InFlight(e) ==
    SumFunction([i \in DOMAIN wire[e] |->
                    IF wire[e][i].msg.type = "share" THEN wire[e][i].msg.n ELSE 0])

\* Shares still at the slave: what the flush has not written yet.
AtSlave ==
    SumFunction([k \in Keys |-> IF pc["flush"] = "idle" \/ k \in todo THEN cache[k].n ELSE 0])
        + (IF pc["flush"] \in {"check", "len", "body"} THEN cur["flush"].n ELSE 0)

BeingStored == SumFunction([e \in Links |-> IF handler[e] = "store" THEN job[e].n ELSE 0])

\* AddShare is never called for more shares of a miner than it was told were accepted,
\* nor for all wallets together (what a badly cut key takes from a miner goes to the
\* pool), nor is a block handled twice: through flushes, interleaved frames,
\* reconnects, restarts of the master in the middle of OnShareFound and crashes of
\* the slave.
NoShareInvented ==
    /\ \A w \in Wallets \ {FeeAddress} : added[w].n <= accepted[w].n
    /\ Total(added) <= Total(accepted)
    /\ blocks.handled <= blocks.found

\* As long as the slave's first link stays in use no share disappears: each
\* accepted one is in the cache, on the wire, with OnShareFound or handed to
\* AddShare, even while the frames of several senders are interleaved.
NothingLostOnFirstLink ==
    (alive /\ dials = 1 /\ conn = 1 /\ up[1] /\ handler[1] # "closed")
        => Total(accepted) = AtSlave + InFlight(1) + BeingStored + Total(added)

\* "verifies shares, and, if they are valid, broadcasts them to the master server",
\* which "stores shares" (README.md 22, 19): every accepted share ends up in the shares table, however the
\* flush, stats and block packets take turns, unless the master closed the first
\* link (which is what frames that got mixed up make it do), the network broke it
\* or the slave died.
AcceptedSharesRecorded ==
    []<>(\/ Total(rows) = Total(accepted)
         \/ dials > 1 \/ ~alive
         \/ \E e \in Links : dials = e /\ (~up[e] \/ handler[e] = "closed"))
=============================================================================
