---------------------------- MODULE SlaveServer ----------------------------
(***************************************************************************)
(* The stratum side of a slave: HandleConnection (cmd/slave/conn.go), the  *)
(* Refresher with its signal goroutine and OnNewBlock (cmd/slave/slave.go),*)
(* the job shared by Nicehash miners (cmd/slave/nicehash.go) and the list  *)
(* of connections of the server (stratum/server.go).                       *)
(*                                                                         *)
(* What they share is the state here: the lock of CurInfo, one lock per    *)
(* connection, NicehashMutex, the channel sigc of capacity 1, and          *)
(* srv.Connections, which handleConnection and OnNewBlock use under        *)
(* ConnsMut and Kick without it.                                           *)
(* A lock that is taken and released around statements that cannot block   *)
(* is one step that needs the lock free; a lock held across a wait (an RPC *)
(* without deadline, a channel send, another lock) is state.               *)
(*                                                                         *)
(* Abstractions.  A job is the height of its template.  Whether a share is *)
(* malformed, meets the network difficulty, has the right hash, meets the  *)
(* job's difficulty or is refused by the penalty box is a free choice at   *)
(* the statement that finds out; the network difficulty is read twice, and *)
(* it may have changed in between.  P2Pool mode is left out.               *)
(***************************************************************************)
EXTENDS Integers, FiniteSets

CONSTANTS
    Conns,      \* connections, each accepted once
    Nicehash,   \* those whose miner is an XMRig or asks for Nicehash support
    MaxNonce,   \* the last nonce byte of a shared job (255 in the code)
    MaxHeight,  \* bound on the daemon's chain height
    MaxJobs,    \* bound on goroutines counted as waiting for the same lock
    MaxBans     \* bound on shares refused by the penalty box

ASSUME ServerAssumption ==
    /\ "free" \notin Conns
    /\ Nicehash \subseteq Conns
    /\ MaxNonce \in Nat \ {0}
    /\ MaxHeight \in Nat \ {0} /\ MaxJobs \in Nat \ {0} /\ MaxBans \in Nat

VARIABLES
    chain,      \* height of the daemon's chain
    height,     \* CurInfo.Height
    curLock,    \* the handler that holds CurInfo's lock across a wait, or "free"
    connLock,   \* who holds each connection's lock: "free", "handler" or "job"
    list,       \* srv.Connections
    hcopy,      \* connectionsNew of each handler inside Kick
    jcopy,      \* connectionsNew of each goroutine of OnNewBlock inside Kick
    open,       \* connections whose socket is open
    pc,         \* where each HandleConnection is
    sent,       \* height of the job last sent to each miner, 0 when it was not written
    htmpl,      \* height of the template each handler has fetched but not stored
    jtmpl,      \* the same for the goroutines of OnNewBlock
    nhLock,     \* NicehashMutex: "held" while a goroutine makes a shared job, or "free"
    nhHeight,   \* height of the template of CurrentNicehashJob
    nhNonce,    \* its LastNonce
    clears,     \* goroutines that wait to call ClearNicehashJob
    sigc,       \* signals in the channel
    sigpc,      \* the signal goroutine: "wait", "height" or "lock"
    sigh,       \* the height it was told
    refh,       \* the height the Refresher was told, 0 when it sleeps
    news,       \* OnNewBlock goroutines that wait for ConnsMut
    jobs,       \* goroutines of OnNewBlock that wait for each connection's lock
    jobpc,      \* the goroutine of OnNewBlock that has it
    thrown      \* connections thrown out by the penalty box in mid-share

info == <<chain, height, sigc, sigpc, sigh, refh, news>>
table == <<list, hcopy, jcopy, open>>
tmpls == <<htmpl, jtmpl>>
nicehash == <<nhLock, nhHeight, nhNonce, clears>>
work == <<sent, tmpls, nicehash>>
vars == <<info, curLock, connLock, table, pc, work, jobs, jobpc,
          thrown>>

Heights == 0..MaxHeight

TypeOK ==
    /\ chain \in 1..MaxHeight /\ height \in 1..MaxHeight
    /\ curLock \in Conns \cup {"free"}
    /\ connLock \in [Conns -> {"free", "handler", "job"}]
    /\ list \subseteq Conns /\ open \subseteq Conns /\ thrown \subseteq Conns
    /\ hcopy \in [Conns -> SUBSET Conns] /\ jcopy \in [Conns -> SUBSET Conns]
    /\ pc \in [Conns -> {"new", "login", "fetched", "ready", "got", "locked", "verify",
                         "judge", "submit", "signal", "announce", "kick",
                         "kicked", "gone"}]
    /\ sent \in [Conns -> Heights]
    /\ htmpl \in [Conns -> Heights] /\ jtmpl \in [Conns -> Heights]
    /\ nhLock \in {"free", "held"}
    /\ nhHeight \in Heights /\ nhNonce \in 0..MaxNonce /\ clears \in 0..MaxJobs
    /\ sigc \in 0..1
    /\ sigpc \in {"wait", "height", "lock"}
    /\ sigh \in Heights /\ refh \in Heights
    /\ news \in 0..MaxJobs
    /\ jobs \in [Conns -> 0..MaxJobs]
    /\ jobpc \in [Conns -> {"none", "clamp", "fetch", "store", "kick", "kicked"}]

Init ==
    /\ chain = 1 /\ height = 1
    /\ curLock = "free"
    /\ connLock = [c \in Conns |-> "free"]
    /\ list = {} /\ open = {} /\ thrown = {}
    /\ hcopy = [c \in Conns |-> {}] /\ jcopy = [c \in Conns |-> {}]
    /\ pc = [c \in Conns |-> "new"]
    /\ sent = [c \in Conns |-> 0]
    /\ htmpl = [c \in Conns |-> 0] /\ jtmpl = [c \in Conns |-> 0]
    /\ nhLock = "free" /\ nhHeight = 0 /\ nhNonce = 0 /\ clears = 0
    /\ sigc = 0 /\ sigpc = "wait" /\ sigh = 0 /\ refh = 0
    /\ news = 0
    /\ jobs = [c \in Conns |-> 0]
    /\ jobpc = [c \in Conns |-> "none"]

\* One more goroutine that waits; beyond MaxJobs they all do the same.
More(n) == IF n < MaxJobs THEN n + 1 ELSE n

Goto(c, label) == pc' = [pc EXCEPT ![c] = label]
FreeConn(c) == connLock' = [connLock EXCEPT ![c] = "free"]
InfoFree == curLock = "free"

\* GetNicehashJob: NicehashMutex is free and the shared job has a nonce left.
Reusable(c) == c \in Nicehash /\ nhLock = "free" /\ nhNonce \notin {0, MaxNonce}

\* GetJob, or GetNicehashJob with no shared job to reuse: a template is fetched.
Fetches(c) ==
    \/ c \notin Nicehash /\ UNCHANGED nhLock
    \/ c \in Nicehash /\ nhLock = "free" /\ nhNonce \in {0, MaxNonce} /\ nhLock' = "held"

\* Its template is in: a Nicehash job becomes the shared one.
Shares(c, h) ==
    IF c \in Nicehash
    THEN nhLock' = "free" /\ nhHeight' = h /\ nhNonce' = 1
    ELSE UNCHANGED <<nhLock, nhHeight, nhNonce>>

\* Connection.Send of a job of height h: an error of the socket ends in SendBytes,
\* Send returns nil.
Send(c, h) ==
    \/ c \in open /\ sent' = [sent EXCEPT ![c] = h]
    \/ sent' = [sent EXCEPT ![c] = 0]

-----------------------------------------------------------------------------
(* Kick: the list is read and written without ConnsMut.                    *)

\* The loop over srv.Connections: the connections that stay are collected, the
\* socket of the one kicked is closed if it is among them.
Others(c) == list \ {c}
CloseListed(c) == open' = IF c \in list THEN open \ {c} ELSE open

-----------------------------------------------------------------------------
(* HandleConnection.                                                       *)

\* handleConnection: append to srv.Connections under ConnsMut.
Accept(c) ==
    /\ pc[c] = "new"
    /\ list' = list \cup {c}
    /\ open' = open \cup {c}
    /\ Goto(c, "login")
    /\ UNCHANGED <<info, curLock, connLock, hcopy, jcopy, work, jobs, jobpc, thrown>>

\* The login request is good and GetBlockTemplate answers.
Login(c) ==
    /\ pc[c] = "login"
    /\ Fetches(c)
    /\ htmpl' = [htmpl EXCEPT ![c] = chain]
    /\ Goto(c, "fetched")
    /\ UNCHANGED <<info, curLock, connLock, table, sent, jtmpl, nhHeight,
                   nhNonce, clears, jobs, jobpc, thrown>>

\* The miner gets the shared job, with a nonce byte of its own.
LoginReuse(c) ==
    /\ pc[c] = "login"
    /\ Reusable(c)
    /\ nhNonce' = nhNonce + 1
    /\ Send(c, nhHeight)
    /\ Goto(c, "ready")
    /\ UNCHANGED <<info, curLock, connLock, table, tmpls, nhLock, nhHeight, clears,
                   jobs, jobpc, thrown>>

\* The template is stored in CurInfo; the job becomes CurrentJob and is sent,
\* without the connection's lock.
LoginJob(c) ==
    /\ pc[c] = "fetched"
    /\ InfoFree
    /\ Send(c, htmpl[c])
    /\ htmpl' = [htmpl EXCEPT ![c] = 0]
    /\ Shares(c, htmpl[c])
    /\ Goto(c, "ready")
    /\ UNCHANGED <<info, curLock, connLock, table, jtmpl, clears, jobs, jobpc, thrown>>

\* A banned address, a bad login, a failing daemon, a read error or timeout.
GiveUp(c) ==
    /\ pc[c] \in {"login", "ready"}
    /\ Goto(c, "kick")
    /\ UNCHANGED <<info, curLock, connLock, table, work, jobs, jobpc, thrown>>

\* A submit request has been read.
Receive(c) ==
    /\ pc[c] = "ready"
    /\ c \in open
    /\ Goto(c, "got")
    /\ UNCHANGED <<info, curLock, connLock, table, work, jobs, jobpc, thrown>>

\* conn.Lock; a malformed share, a wrong job id or a wrong nicehash nonce is
\* answered and the lock released.
LockConn(c) ==
    /\ pc[c] = "got"
    /\ connLock[c] = "free"
    /\ \/ Goto(c, "ready") /\ UNCHANGED connLock
       \/ Goto(c, "locked") /\ connLock' = [connLock EXCEPT ![c] = "handler"]
    /\ UNCHANGED <<info, curLock, table, work, jobs, jobpc, thrown>>

\* CurInfo.Lock, and the first comparison with the network difficulty: a share
\* below it is put in the verification queue and the lock released, one that may
\* be a block is verified under the lock.
LockInfo(c) ==
    /\ pc[c] = "locked"
    /\ InfoFree
    /\ \/ Goto(c, "judge") /\ UNCHANGED curLock
       \/ Goto(c, "verify") /\ curLock' = c
    /\ UNCHANGED <<info, connLock, table, work, jobs, jobpc, thrown>>

VerifyKeepsInfo(c) ==
    /\ pc[c] = "verify"
    /\ Goto(c, "ready")
    /\ FreeConn(c)
    /\ UNCHANGED <<info, curLock, table, work, jobs, jobpc, thrown>>

\* CalcPow fails, or the hash is wrong and the penalty box lets the miner stay:
\* both locks are released.
VerifyRejects(c) ==
    /\ pc[c] = "verify"
    /\ curLock' = "free"
    /\ FreeConn(c)
    /\ Goto(c, "ready")
    /\ UNCHANGED <<info, table, work, jobs, jobpc, thrown>>

\* The hash is wrong and RecordShare returns false: Kick and return, with both
\* locks held.
VerifyBans(c) ==
    /\ pc[c] = "verify"
    /\ Cardinality(thrown) < MaxBans
    /\ thrown' = thrown \cup {c}
    /\ Goto(c, "kick")
    /\ UNCHANGED <<info, curLock, connLock, table, work, jobs, jobpc>>

\* The hash is right: CurInfo.Unlock.
UnlockInfo(c) ==
    /\ pc[c] = "verify"
    /\ curLock' = "free"
    /\ Goto(c, "judge")
    /\ UNCHANGED <<info, connLock, table, work, jobs, jobpc, thrown>>

FinishKeepsLock(c) ==
    /\ pc[c] = "judge"
    /\ Goto(c, "ready")
    /\ UNCHANGED <<info, curLock, connLock, table, work, jobs, jobpc, thrown>>

\* The share does not meet the job's difficulty, or it is accepted, relayed and
\* not a block (second comparison with the network difficulty).
Finish(c) ==
    /\ pc[c] = "judge"
    /\ FreeConn(c)
    /\ Goto(c, "ready")
    /\ UNCHANGED <<info, curLock, table, work, jobs, jobpc, thrown>>

\* RecordShare returns false for the valid share: Kick and return, with the
\* connection's lock held.
JudgeBans(c) ==
    /\ pc[c] = "judge"
    /\ Cardinality(thrown) < MaxBans
    /\ thrown' = thrown \cup {c}
    /\ Goto(c, "kick")
    /\ UNCHANGED <<info, curLock, connLock, table, work, jobs, jobpc>>

\* The share is accepted and relayed, and it is a block.
FindBlock(c) ==
    /\ pc[c] = "judge"
    /\ Goto(c, "submit")
    /\ UNCHANGED <<info, curLock, connLock, table, work, jobs, jobpc, thrown>>

\* CurInfo.Lock and SubmitBlock: the daemon takes the block or does not.
SubmitBlock(c) ==
    /\ pc[c] = "submit"
    /\ InfoFree
    /\ curLock' = c
    /\ chain' = chain \/ (chain < MaxHeight /\ chain' = chain + 1)
    /\ Goto(c, "signal")
    /\ UNCHANGED <<height, sigc, sigpc, sigh, refh, news, connLock, table, work,
                   jobs, jobpc, thrown>>

SendSignalUnbounded(c) ==
    /\ pc[c] = "signal"
    /\ sigc' = sigc + 1
    /\ Goto(c, "announce")
    /\ UNCHANGED <<chain, height, sigpc, sigh, refh, news, curLock, connLock, table,
                   work, jobs, jobpc, thrown>>

\* sigc <- SIGUSR1: waits for room in the channel, under both locks.
SendSignal(c) ==
    /\ pc[c] = "signal"
    /\ sigc = 0
    /\ sigc' = 1
    /\ Goto(c, "announce")
    /\ UNCHANGED <<chain, height, sigpc, sigh, refh, news, curLock, connLock, table,
                   work, jobs, jobpc, thrown>>

\* SendBlockFound, or an error on the way to it; all paths release both locks.
Announce(c) ==
    /\ pc[c] = "announce"
    /\ curLock' = "free"
    /\ FreeConn(c)
    /\ Goto(c, "ready")
    /\ UNCHANGED <<info, table, work, jobs, jobpc, thrown>>

\* Kick of the handler, and its end with the deferred cleanups.
HandlerKick(c) ==
    /\ pc[c] = "kick"
    /\ hcopy' = [hcopy EXCEPT ![c] = Others(c)]
    /\ CloseListed(c)
    /\ Goto(c, "kicked")
    /\ UNCHANGED <<info, curLock, connLock, list, jcopy, work, jobs, jobpc, thrown>>

HandlerEnd(c) ==
    /\ pc[c] = "kicked"
    /\ list' = hcopy[c]
    /\ hcopy' = [hcopy EXCEPT ![c] = {}]
    /\ Goto(c, "gone")
    /\ UNCHANGED <<info, curLock, connLock, open, jcopy, work, jobs, jobpc, thrown>>

-----------------------------------------------------------------------------
(* Refresher, its signal goroutine and OnNewBlock.                         *)

\* External: a block arrives and the daemon runs its --block-notify command; a
\* signal that finds the channel full is dropped by os/signal.
NewBlock ==
    /\ chain < MaxHeight
    /\ chain' = chain + 1
    /\ sigc' = 1
    /\ UNCHANGED <<height, sigpc, sigh, refh, news, curLock, connLock, table, pc,
                   work, jobs, jobpc, thrown>>

SigReceive ==
    /\ sigpc = "wait"
    /\ sigc = 1
    /\ sigc' = 0
    /\ sigpc' = "height"
    /\ UNCHANGED <<chain, height, sigh, refh, news, curLock, connLock, table, pc,
                   work, jobs, jobpc, thrown>>

\* GetHeight, or its failure, which drops the signal.
SigHeight ==
    /\ sigpc = "height"
    /\ \/ sigpc' = "lock" /\ sigh' = chain
       \/ sigpc' = "wait" /\ UNCHANGED sigh
    /\ UNCHANGED <<chain, height, sigc, refh, news, curLock, connLock, table, pc,
                   work, jobs, jobpc, thrown>>

\* CurInfo.Lock, compare, store, go OnNewBlock, Unlock.
SigUpdate ==
    /\ sigpc = "lock"
    /\ InfoFree
    /\ sigpc' = "wait"
    /\ sigh' = 0
    /\ height' = sigh
    /\ news' = IF sigh # height THEN More(news) ELSE news
    /\ UNCHANGED <<chain, sigc, refh, curLock, connLock, table, pc, work, jobs,
                   jobpc, thrown>>

\* The polling loop: RLock of CurInfo, the sleep, and a GetHeight that answers.
RefreshHeight ==
    /\ refh = 0
    /\ InfoFree
    /\ refh' = chain
    /\ UNCHANGED <<chain, height, sigc, sigpc, sigh, news, curLock, connLock, table, pc,
                   work, jobs, jobpc, thrown>>

RefreshUpdateOnHeightOnly(old) ==
    /\ refh # 0
    /\ InfoFree
    /\ refh' = 0
    /\ height' = refh
    /\ news' = IF refh # height THEN More(news) ELSE news
    /\ UNCHANGED <<chain, sigc, sigpc, sigh, curLock, connLock, table, pc, work,
                   jobs, jobpc, thrown>>

\* CurInfo.Lock; a new height or an old template starts OnNewBlock.
RefreshUpdate(old) ==
    /\ refh # 0
    /\ InfoFree
    /\ refh' = 0
    /\ height' = refh
    /\ news' = IF refh # height \/ old THEN More(news) ELSE news
    /\ UNCHANGED <<chain, sigc, sigpc, sigh, curLock, connLock, table, pc, work,
                   jobs, jobpc, thrown>>

\* OnNewBlock: under ConnsMut, one goroutine for every connection in the list,
\* and one that calls ClearNicehashJob a second later.
OnNewBlock ==
    /\ news > 0
    /\ news' = news - 1
    /\ jobs' = [c \in Conns |-> IF c \in list THEN More(jobs[c]) ELSE jobs[c]]
    /\ clears' = More(clears)
    /\ UNCHANGED <<chain, height, sigc, sigpc, sigh, refh, curLock, connLock, table, pc,
                   sent, tmpls, nhLock, nhHeight, nhNonce, jobpc, thrown>>

ClearNicehashJob ==
    /\ clears > 0
    /\ nhLock = "free"
    /\ clears' = clears - 1
    /\ nhNonce' = 0
    /\ UNCHANGED <<info, curLock, connLock, table, pc, sent, tmpls, nhLock, nhHeight,
                   jobs, jobpc, thrown>>

\* Its goroutine: c.Lock.
JobLock(c) ==
    /\ jobs[c] > 0
    /\ jobpc[c] = "none"
    /\ connLock[c] = "free"
    /\ connLock' = [connLock EXCEPT ![c] = "job"]
    /\ jobs' = [jobs EXCEPT ![c] = @ - 1]
    /\ jobpc' = [jobpc EXCEPT ![c] = "clamp"]
    /\ UNCHANGED <<info, curLock, table, pc, work, thrown>>

\* CurInfo.RLock around the new difficulty.
JobClamp(c) ==
    /\ jobpc[c] = "clamp"
    /\ InfoFree
    /\ jobpc' = [jobpc EXCEPT ![c] = "fetch"]
    /\ UNCHANGED <<info, curLock, connLock, table, pc, work, jobs, thrown>>

\* GetBlockTemplate answers.
JobFetch(c) ==
    /\ jobpc[c] = "fetch"
    /\ Fetches(c)
    /\ jobpc' = [jobpc EXCEPT ![c] = "store"]
    /\ jtmpl' = [jtmpl EXCEPT ![c] = chain]
    /\ UNCHANGED <<info, curLock, connLock, table, pc, sent, htmpl, nhHeight,
                   nhNonce, clears, jobs, thrown>>

\* GetBlockTemplate fails: Kick.
JobFails(c) ==
    /\ jobpc[c] = "fetch"
    /\ c \in Nicehash => nhLock = "free" /\ ~Reusable(c)
    /\ jobpc' = [jobpc EXCEPT ![c] = "kick"]
    /\ UNCHANGED <<info, curLock, connLock, table, pc, work, jobs, thrown>>

\* The job is sent and the deferred c.Unlock ends the goroutine; Send has returned
\* nil, whatever became of the job, so that the Kick for its error is never reached.
JobSent(c, h) ==
    /\ Send(c, h)
    /\ jobpc' = [jobpc EXCEPT ![c] = "none"]
    /\ FreeConn(c)

\* The template is stored in CurInfo, and the job made from it is sent.
JobStore(c) ==
    /\ jobpc[c] = "store"
    /\ InfoFree
    /\ jtmpl' = [jtmpl EXCEPT ![c] = 0]
    /\ Shares(c, jtmpl[c])
    /\ JobSent(c, jtmpl[c])
    /\ UNCHANGED <<info, curLock, table, pc, htmpl, clears, jobs, thrown>>

\* The shared job is sent, of whatever height its template is.
JobReuse(c) ==
    /\ jobpc[c] = "fetch"
    /\ Reusable(c)
    /\ nhNonce' = nhNonce + 1
    /\ JobSent(c, nhHeight)
    /\ UNCHANGED <<info, curLock, table, pc, tmpls, nhLock, nhHeight, clears, jobs,
                   thrown>>

\* Kick by the goroutine that could not make the job.
JobKick(c) ==
    /\ jobpc[c] = "kick"
    /\ jcopy' = [jcopy EXCEPT ![c] = Others(c)]
    /\ CloseListed(c)
    /\ jobpc' = [jobpc EXCEPT ![c] = "kicked"]
    /\ UNCHANGED <<info, curLock, connLock, list, hcopy, pc, work, jobs, thrown>>

JobEndKeepsLock(c) ==
    /\ jobpc[c] = "kicked"
    /\ list' = jcopy[c]
    /\ jcopy' = [jcopy EXCEPT ![c] = {}]
    /\ jobpc' = [jobpc EXCEPT ![c] = "none"]
    /\ UNCHANGED <<info, curLock, connLock, open, hcopy, pc, work, jobs, thrown>>

\* The rest of Kick; the deferred c.Unlock.
JobEnd(c) ==
    /\ jobpc[c] = "kicked"
    /\ list' = jcopy[c]
    /\ jcopy' = [jcopy EXCEPT ![c] = {}]
    /\ FreeConn(c)
    /\ jobpc' = [jobpc EXCEPT ![c] = "none"]
    /\ UNCHANGED <<info, curLock, open, hcopy, pc, work, jobs, thrown>>

-----------------------------------------------------------------------------
\* What HandleConnection does by itself once a request is there.
Handler(c) ==
    \/ Login(c) \/ LoginReuse(c) \/ LoginJob(c)
    \/ LockConn(c) \/ LockInfo(c) \/ VerifyRejects(c) \/ VerifyBans(c) \/ UnlockInfo(c)
    \/ Finish(c) \/ JudgeBans(c) \/ FindBlock(c) \/ SubmitBlock(c) \/ SendSignal(c)
    \/ Announce(c) \/ HandlerKick(c) \/ HandlerEnd(c)

Signals == SigReceive \/ SigHeight \/ SigUpdate

Refresher == RefreshHeight \/ \E old \in BOOLEAN : RefreshUpdate(old)

Job(c) ==
    \/ JobLock(c) \/ JobClamp(c)
    \/ JobFetch(c) \/ JobFails(c) \/ JobReuse(c) \/ JobStore(c)
    \/ JobKick(c) \/ JobEnd(c)

Next ==
    \/ \E c \in Conns : Accept(c) \/ GiveUp(c) \/ Receive(c) \/ Handler(c) \/ Job(c)
    \/ NewBlock
    \/ Signals \/ Refresher \/ OnNewBlock \/ ClearNicehashJob

\* A goroutine that can run does, and one that waits for a lock that becomes free
\* again and again gets it: Go's mutexes hand the lock to a waiter that has
\* starved for a millisecond (the signal goroutine and ClearNicehashJob do not even
\* need that).  The Refresher polls, and now and then it finds the template older
\* than TemplateTimeout.  Nothing forces blocks, connections or requests.
Fairness ==
    /\ \A c \in Conns : SF_vars(Handler(c)) /\ SF_vars(Job(c))
    /\ WF_vars(Signals) /\ SF_vars(RefreshHeight) /\ SF_vars(RefreshUpdate(TRUE))
    /\ WF_vars(OnNewBlock) /\ WF_vars(ClearNicehashJob)

Spec == Init /\ [][Next]_vars
FairSpec == Spec /\ Fairness

-----------------------------------------------------------------------------
(* Properties.                                                             *)

\* A connection whose miner has logged in and whose handler runs.
Served(c) == pc[c] \in {"ready", "got", "locked", "verify", "judge", "submit",
                        "signal", "announce"}

\* Everyone waits: the handler that submitted a block holds CurInfo and waits
\* for room in sigc, the signal goroutine, which would make room, for CurInfo.
Wedged == \E c \in Conns : curLock = c /\ pc[c] = "signal" /\ sigc = 1 /\ sigpc = "lock"

\* A handler that has ended holds no lock, on whatever path it left its loop,
\* unless the penalty box threw the miner out in the middle of a share.
EndedHoldsNoLock ==
    \A c \in Conns \ thrown : pc[c] \in {"kick", "kicked", "gone"} =>
        curLock # c /\ connLock[c] # "handler"

\* The two kinds of locks are taken in one order: who holds CurInfo across a
\* wait holds its connection's lock too, so that no goroutine of OnNewBlock,
\* which takes them in that order, can meet it the other way round.
InfoHolderOwnsConn == \A c \in Conns : curLock = c => connLock[c] = "handler"

\* A new block reaches every miner on the list: again and again every miner has been
\* written a job at least as high as a block the daemon has, unless it leaves, is
\* dropped from the list, the write of a job fails (sent[c] = 0: nobody notices, the
\* miner stays on the list with the old job), or a lock is gone for good.
NewBlockReachesListedMiners ==
    \A c \in Conns, h \in 2..MaxHeight :
        []<>(\/ chain < h \/ sent[c] >= h
             \/ ~Served(c) \/ c \notin list
             \/ sent[c] = 0 \/ Wedged \/ thrown # {})

\* Every request is carried to its end: no handler stays in the middle of one for
\* ever, unless a lock is gone for good.
EveryRequestAnswered ==
    \A c \in Conns : []<>(pc[c] = "ready" \/ ~Served(c) \/ Wedged \/ thrown # {})
=============================================================================
