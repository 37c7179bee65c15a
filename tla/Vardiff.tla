------------------------------ MODULE Vardiff ------------------------------
(***************************************************************************)
(* The difficulty of one connection of a slave, from the login to the      *)
(* submitted block: HandleConnection and GetJob (cmd/slave/conn.go), the   *)
(* goroutines of OnNewBlock (cmd/slave/slave.go) and the short target of   *)
(* template/template.go.                                                   *)
(*                                                                         *)
(* CurInfo.Difficulty is written by every GetJob of every connection; the  *)
(* handler compares a share with it twice, the second time without a lock. *)
(* The handler writes CurrentJob and NextDiff at login without the lock    *)
(* under which OnNewBlock's goroutines write them.                         *)
(*                                                                         *)
(* Abstractions.  Template k is the k-th that GetBlockTemplate answers     *)
(* with for this connection; the job made from it has the same number.     *)
(* NextDiff is a float of which only the integer part is ever used.  Huge  *)
(* is the first difficulty beyond which a float64 no longer holds every    *)
(* integer, 2^53, and stands for itself and everything above, up to what   *)
(* uint64(float64(2^64 - 1)) is on the machine at hand.  Seed hashes are   *)
(* numbered in the order the network comes to them.  Of CurInfo.Height and *)
(* CurInfo.MajorVersion, which calc_pow is given too, RandomX needs no     *)
(* height, and of the version only that it is one of RandomX's, which it   *)
(* is from the first block header that the Refresher has read.  The        *)
(* connection is neither a Nicehash nor a P2Pool one; malformed shares and *)
(* bans are in SlaveServer.                                                *)
(***************************************************************************)
EXTENDS Integers, Sequences

CONSTANTS
    MinDiff,      \* config.Cfg.SlaveConfig.MinDiff
    NetDiffs,     \* difficulties of the network
    Requests,     \* difficulties a login may ask for, any uint64
    ShareDiffs,   \* difficulties of hashes
    ShortMax,     \* 0xffffffff, the range of a short target
    Huge,         \* 2^53 and every difficulty above it
    MaxSeeds,     \* bound on changes of the seed hash
    MaxTemplates, \* bound on the templates of this connection
    MaxEvents     \* bound on moves of the network, templates of other connections
                  \* and shares submitted, together

\* No hash has a difficulty of 2^53, nor has the network.
ASSUME VardiffAssumption ==
    /\ MinDiff \in Nat \ {0} /\ 2 * MinDiff < Huge
    /\ ShortMax \in Nat \ {0} /\ Huge \in Nat /\ ShortMax < Huge
    /\ NetDiffs # {} /\ NetDiffs \subseteq 1..Huge - 1
    /\ Requests \subseteq 1..Huge
    /\ ShareDiffs \subseteq 1..Huge - 1
    /\ MaxSeeds \in Nat /\ MaxTemplates \in Nat /\ MaxEvents \in Nat

VARIABLES
    net,        \* the network's difficulty
    seen,       \* difficulties it has had
    seed,       \* its seed hash
    difficulty, \* CurInfo.Difficulty
    seedHash,   \* CurInfo.SeedHash
    majorVersion, \* CurInfo.MajorVersion is the network's, not yet 0
    tmpl,       \* the network's difficulty in each template fetched
    tmplSeed,   \* its seed hash in each
    target,     \* the target sent with each job, -1 before it is sent
    current,    \* conn.CurrentJob
    last,       \* conn.LastJob
    nextDiff,   \* conn.NextDiff
    lock,       \* who has conn's lock: "free", "handler" or "job"
    hpc,        \* HandleConnection
    hjob,       \* the job it is making: difficulty of the argument, template
    jpc,        \* the goroutine of OnNewBlock that has the lock
    jjob,       \* the job it is making: difficulty it was clamped to, template
    news,       \* goroutines of OnNewBlock that wait for the lock
    share,      \* the share in the handler's hands
    theJob,     \* the job it is judged by
    checks,     \* CurInfo.Difficulty at the two comparisons, and its seed hash and
                \* version when the share was hashed
    outcome,    \* what has become of the share
    open,       \* the socket is open
    crossed,    \* a goroutine of OnNewBlock has run during the login
    events      \* how many of those there have been

network == <<net, seen, seed>>
curInfo == <<difficulty, seedHash, majorVersion>>
fetched == <<tmpl, tmplSeed>>
daemon == <<network, fetched, events>>
handling == <<share, theJob, checks, outcome>>

vars == <<daemon, curInfo, target, current, last, nextDiff, lock, hpc, hjob, jpc, jjob,
          news, handling, open, crossed>>

Templates == 1..MaxTemplates

\* A job: its id, the templates its two blobs are of, the difficulty its shares
\* are judged by, and the network's difficulty that was clamped to (0 before any
\* template, -1 at login, where there is no clamp).
Jobs == [id : 0..MaxTemplates, blob : 0..MaxTemplates, hashing : 0..MaxTemplates,
         diff : 0..Huge, clamp : {-1, 0} \cup NetDiffs]
NoJob == [id |-> 0, blob |-> 0, hashing |-> 0, diff |-> 0, clamp |-> -1]
Making == [diff : 0..Huge, clamp : {-1, 0} \cup NetDiffs, tmpl : 0..MaxTemplates]
NotMaking == [diff |-> 0, clamp |-> -1, tmpl |-> 0]

Shares == [id : Templates, diff : ShareDiffs, right : BOOLEAN]
NoShare == [id |-> 0, diff |-> 0, right |-> FALSE]
NoChecks == [first |-> 0, second |-> 0, seed |-> 0, version |-> FALSE]

LoginSteps == {"nextdiff", "call", "fetch", "store", "blob", "hashing", "send"}

TypeOK ==
    /\ net \in seen /\ seen \subseteq NetDiffs
    /\ seed \in 0..MaxSeeds /\ seedHash \in 0..seed /\ majorVersion \in BOOLEAN
    /\ difficulty \in seen \cup {0}
    /\ tmpl \in Seq(seen) /\ Len(tmpl) <= MaxTemplates
    /\ tmplSeed \in [Templates -> 0..seed]
    /\ target \in [Templates -> -1..ShortMax]
    /\ current \in Jobs /\ last \in Jobs
    /\ nextDiff \in 0..Huge
    /\ lock \in {"free", "handler", "job"}
    /\ hpc \in LoginSteps \cup {"login", "ready", "got", "verify", "judge", "compare",
                                "submit", "retarget", "answer", "gone"}
    /\ jpc \in {"none", "clamp", "diff", "fetch", "store", "blob", "hashing", "send"}
    /\ hjob \in Making /\ jjob \in Making
    /\ news \in 0..MaxTemplates
    /\ share \in Shares \cup {NoShare} /\ theJob \in Jobs
    /\ checks \in [first : {0} \cup NetDiffs, second : {0} \cup NetDiffs, seed : 0..MaxSeeds,
                   version : BOOLEAN]
    /\ outcome \in {"none", "queued", "verified", "wrong hash", "error", "low", "submitted",
                    "unverified", "accepted"}
    /\ open \in BOOLEAN /\ crossed \in BOOLEAN
    /\ events \in 0..MaxEvents
    /\ lock = "job" <=> jpc # "none"
    /\ lock = "handler" <=> hpc \in {"verify", "judge", "compare", "submit", "retarget"}

Init ==
    /\ net \in NetDiffs /\ seen = {net}
    /\ seed = 0
    /\ difficulty = 0 /\ seedHash = 0 /\ majorVersion \in BOOLEAN
    /\ tmpl = <<>> /\ tmplSeed = [k \in Templates |-> 0]
    /\ target = [k \in Templates |-> -1]
    /\ current = NoJob /\ last = NoJob /\ nextDiff = 0
    /\ lock = "free"
    /\ hpc = "login" /\ hjob = NotMaking
    /\ jpc = "none" /\ jjob = NotMaking /\ news = 0
    /\ share = NoShare /\ theJob = NoJob /\ checks = NoChecks /\ outcome = "none"
    /\ open = TRUE /\ crossed = FALSE
    /\ events = 0

-----------------------------------------------------------------------------
(* The short target.                                                       *)

\* The target sent to the miner: 0xffffffff divided by the difficulty, 0 for one
\* above 0xffffffff.
DiffToShortTarget(d) == IF d = 0 THEN ShortMax ELSE ShortMax \div d

\* External: the difficulty a miner reads from a target (the miner's inverse of
\* it, as ShortDiffToDiff is the pool's); no hash meets target 0.
MeetsTarget(d, t) == t # 0 /\ d >= ShortMax \div t

-----------------------------------------------------------------------------
(* The network.                                                            *)

Happens == events < MaxEvents /\ events' = events + 1

\* One more goroutine that waits; beyond MaxTemplates they find no template.
More(n) == IF n < MaxTemplates THEN n + 1 ELSE n

\* External: a block arrives; the difficulty and the seed hash may change, and the
\* Refresher calls OnNewBlock, which starts a goroutine for the connection.
NetworkMoves ==
    /\ open
    /\ Happens
    /\ net' \in NetDiffs
    /\ seen' = seen \cup {net'}
    /\ seed' \in {seed, seed + 1} \cap (0..MaxSeeds)
    /\ news' = More(news)
    /\ UNCHANGED <<curInfo, fetched, target, current, last, nextDiff, lock, hpc, hjob,
                   jpc, jjob, handling, open, crossed>>

\* GetJob of another connection: its template, of now or of a while ago, is
\* stored in CurInfo.
OtherStores ==
    /\ open
    /\ Happens
    /\ difficulty' \in seen /\ seedHash' \in 0..seed
    /\ UNCHANGED <<network, majorVersion, fetched, target, current, last, nextDiff, lock,
                   hpc, hjob, jpc, jjob, news, handling, open, crossed>>

\* The Refresher reads its first block header.
RefreshVersion ==
    /\ open /\ ~majorVersion
    /\ majorVersion' = TRUE
    /\ UNCHANGED <<daemon, difficulty, seedHash, target, current, last, nextDiff, lock,
                   hpc,
                   hjob, jpc, jjob, news, handling, open, crossed>>

\* GetJob: GetBlockTemplate answers with one more template.
Fetch ==
    /\ Len(tmpl) < MaxTemplates
    /\ tmpl' = Append(tmpl, net)
    /\ tmplSeed' = [tmplSeed EXCEPT ![Len(tmpl) + 1] = seed]

\* GetJob stores template k in CurInfo.
StoreTemplate(k) ==
    /\ difficulty' = tmpl[k]
    /\ seedHash' = tmplSeed[k]
    /\ UNCHANGED majorVersion

-----------------------------------------------------------------------------
(* HandleConnection: the login.  None of it is done under conn's lock.     *)

\* The handler has gone one login step further.
LoginTo(label) ==
    /\ hpc' = label
    /\ crossed' = (crossed \/ jpc # "none")
    /\ UNCHANGED <<network, events, last, lock, jpc, jjob, news, handling>>

\* A requested difficulty is raised to MinDiff; without one, and with no job yet,
\* it is twice that.
LoginDiff(request) ==
    /\ hpc = "login"
    /\ current' =
          IF request > 0
          THEN [current EXCEPT !.diff = IF request < MinDiff THEN MinDiff ELSE request,
                               !.clamp = -1]
          ELSE IF current.diff = 0
          THEN [current EXCEPT !.diff = 2 * MinDiff, !.clamp = -1]
          ELSE current
    /\ LoginTo("nextdiff")
    /\ UNCHANGED <<curInfo, fetched, target, nextDiff, hjob, open>>

LoginNextDiff ==
    /\ hpc = "nextdiff"
    /\ nextDiff' = current.diff
    /\ LoginTo("call")
    /\ UNCHANGED <<curInfo, fetched, target, current, hjob, open>>

\* GetJob(conn.CurrentJob.Diff) is called.
LoginCall ==
    /\ hpc = "call"
    /\ hjob' = [hjob EXCEPT !.diff = current.diff]
    /\ LoginTo("fetch")
    /\ UNCHANGED <<curInfo, fetched, target, current, nextDiff, open>>

LoginFetch ==
    /\ hpc = "fetch"
    /\ Fetch
    /\ hjob' = [hjob EXCEPT !.tmpl = Len(tmpl')]
    /\ LoginTo("store")
    /\ UNCHANGED <<curInfo, target, current, nextDiff, open>>

\* GetBlockTemplate fails, or its blob is no hexadecimal: Kick.
LoginFails ==
    /\ hpc = "fetch"
    /\ open' = FALSE
    /\ LoginTo("gone")
    /\ UNCHANGED <<curInfo, fetched, target, current, nextDiff, hjob>>

LoginStore ==
    /\ hpc = "store"
    /\ StoreTemplate(hjob.tmpl)
    /\ LoginTo("blob")
    /\ UNCHANGED <<fetched, target, current, nextDiff, hjob, open>>

LoginBlob ==
    /\ hpc = "blob"
    /\ current' = [current EXCEPT !.blob = hjob.tmpl]
    /\ LoginTo("hashing")
    /\ UNCHANGED <<curInfo, fetched, target, nextDiff, hjob, open>>

LoginHashingBlob ==
    /\ hpc = "hashing"
    /\ current' = [current EXCEPT !.hashing = hjob.tmpl]
    /\ LoginTo("send")
    /\ UNCHANGED <<curInfo, fetched, target, nextDiff, hjob, open>>

\* The job id is stored and the job sent with the target of the argument.
LoginSend ==
    /\ hpc = "send"
    /\ current' = [current EXCEPT !.id = hjob.tmpl]
    /\ target' = [target EXCEPT ![hjob.tmpl] = DiffToShortTarget(hjob.diff)]
    /\ hjob' = NotMaking
    /\ LoginTo("ready")
    /\ UNCHANGED <<curInfo, fetched, nextDiff, open>>

-----------------------------------------------------------------------------
(* OnNewBlock: the goroutine of the connection, under conn's lock.         *)

JobTo(label) ==
    /\ jpc' = label
    /\ crossed' = (crossed \/ hpc \in LoginSteps)
    /\ UNCHANGED <<network, events, hpc, hjob, handling, open>>

JobLock ==
    /\ news > 0 /\ lock = "free"
    /\ news' = news - 1
    /\ lock' = "job"
    /\ last' = current
    /\ JobTo("clamp")
    /\ UNCHANGED <<curInfo, fetched, target, current, nextDiff, jjob>>

JobClampAtMost ==
    /\ jpc = "clamp"
    /\ nextDiff' = IF nextDiff < MinDiff THEN MinDiff
                   ELSE IF nextDiff > difficulty
                   THEN IF difficulty = 0 THEN Huge ELSE difficulty - 1
                   ELSE nextDiff
    /\ jjob' = [jjob EXCEPT !.clamp = difficulty]
    /\ JobTo("diff")
    /\ UNCHANGED <<curInfo, fetched, target, current, last, lock, news>>

\* Under CurInfo's read lock: NextDiff is put between MinDiff and the network's
\* difficulty; Difficulty - 1 wraps around while no template has been stored.
JobClamp ==
    /\ jpc = "clamp"
    /\ nextDiff' = IF nextDiff < MinDiff THEN MinDiff
                   ELSE IF nextDiff >= difficulty
                   THEN IF difficulty = 0 THEN Huge ELSE difficulty - 1
                   ELSE nextDiff
    /\ jjob' = [jjob EXCEPT !.clamp = difficulty]
    /\ JobTo("diff")
    /\ UNCHANGED <<curInfo, fetched, target, current, last, lock, news>>

JobDiffOfBoth ==
    /\ jpc = "diff"
    /\ current' = [current EXCEPT !.diff = nextDiff, !.clamp = jjob.clamp]
    /\ last' = current'
    /\ jjob' = [jjob EXCEPT !.diff = nextDiff]
    /\ JobTo("fetch")
    /\ UNCHANGED <<curInfo, fetched, target, nextDiff, lock, news>>

\* CurrentJob.Diff is set, and GetJob called with it.
JobDiff ==
    /\ jpc = "diff"
    /\ current' = [current EXCEPT !.diff = nextDiff, !.clamp = jjob.clamp]
    /\ jjob' = [jjob EXCEPT !.diff = nextDiff]
    /\ JobTo("fetch")
    /\ UNCHANGED <<curInfo, fetched, target, last, nextDiff, lock, news>>

JobFetch ==
    /\ jpc = "fetch"
    /\ Fetch
    /\ jjob' = [jjob EXCEPT !.tmpl = Len(tmpl')]
    /\ JobTo("store")
    /\ UNCHANGED <<curInfo, target, current, last, nextDiff, lock, news>>

\* GetBlockTemplate fails: Kick, which closes the socket; the handler's next
\* read fails.
JobFails ==
    /\ jpc = "fetch"
    /\ jjob' = NotMaking
    /\ jpc' = "none" /\ lock' = "free"
    /\ open' = FALSE
    /\ UNCHANGED <<daemon, curInfo, target, current, last, nextDiff, hpc, hjob, news,
                   handling, crossed>>

JobStore ==
    /\ jpc = "store"
    /\ StoreTemplate(jjob.tmpl)
    /\ JobTo("blob")
    /\ UNCHANGED <<fetched, target, current, last, nextDiff, lock, jjob, news>>

JobBlob ==
    /\ jpc = "blob"
    /\ current' = [current EXCEPT !.blob = jjob.tmpl]
    /\ JobTo("hashing")
    /\ UNCHANGED <<curInfo, fetched, target, last, nextDiff, lock, jjob, news>>

JobHashingBlob ==
    /\ jpc = "hashing"
    /\ current' = [current EXCEPT !.hashing = jjob.tmpl]
    /\ JobTo("send")
    /\ UNCHANGED <<curInfo, fetched, target, last, nextDiff, lock, jjob, news>>

\* The job id is stored, the job sent and the lock released.
JobSend ==
    /\ jpc = "send"
    /\ current' = [current EXCEPT !.id = jjob.tmpl]
    /\ target' = [target EXCEPT ![jjob.tmpl] = DiffToShortTarget(jjob.diff)]
    /\ jjob' = NotMaking
    /\ lock' = "free"
    /\ JobTo("none")
    /\ UNCHANGED <<curInfo, fetched, last, nextDiff, news>>

-----------------------------------------------------------------------------
(* HandleConnection: a share.                                              *)

\* External: the miner submits a share of a job it has been sent.
MinerSubmits(s) ==
    /\ hpc = "ready" /\ open
    /\ target[s.id] # -1
    /\ Happens
    /\ share' = s
    /\ hpc' = "got"
    /\ UNCHANGED <<theJob, checks, outcome, network, fetched, curInfo, target, current,
                   last, nextDiff, lock, hjob, jpc, jjob, news, open, crossed>>

HandlerTo(label) ==
    /\ hpc' = label
    /\ UNCHANGED <<daemon, curInfo, target, current, last, hjob, jpc, jjob, share, open,
                   crossed>>

\* The read fails, or times out: Kick.
ReadFails ==
    /\ hpc = "ready"
    /\ hpc' = "gone" /\ open' = FALSE
    /\ UNCHANGED <<daemon, curInfo, target, current, last, nextDiff, lock, hjob, jpc,
                   jjob, news, handling, crossed>>

LockConnShared ==
    /\ hpc = "got"
    /\ share.id \in {last.id, current.id}
    /\ theJob' = IF share.id = last.id THEN last ELSE current
    /\ lock' = "handler"
    /\ HandlerTo("verify")
    /\ UNCHANGED <<nextDiff, news, checks, outcome>>

\* conn.Lock, and the job the share is for: the last one, the current one, or
\* none ("wrong job id").
LockConn ==
    /\ hpc = "got" /\ lock = "free"
    /\ IF share.id \in {last.id, current.id}
       THEN /\ theJob' = IF share.id = last.id THEN last ELSE current
            /\ lock' = "handler"
            /\ HandlerTo("verify")
       ELSE UNCHANGED <<theJob, lock>> /\ HandlerTo("answer")
    /\ UNCHANGED <<nextDiff, news, checks, outcome>>

\* The share is refused, and the lock released.
Refuse(why) ==
    /\ outcome' = why
    /\ lock' = "free"
    /\ HandlerTo("answer")
    /\ UNCHANGED <<nextDiff, news, theJob>>

\* CurInfo.Lock, and the first comparison with the network's difficulty.  A share
\* that may be a block is hashed at once, with the hashing blob of the job, but
\* with the seed hash that CurInfo has by now.
PotentialBlock ==
    /\ hpc = "verify"
    /\ share.diff >= difficulty
    /\ checks' = [checks EXCEPT !.first = difficulty, !.seed = seedHash,
                                !.version = majorVersion]
    /\ IF /\ share.right /\ theJob.hashing = share.id
          /\ seedHash = tmplSeed[share.id] /\ majorVersion
       THEN /\ outcome' = "verified"
            /\ HandlerTo("judge")
            /\ UNCHANGED <<lock, nextDiff, news, theJob>>
       ELSE Refuse("wrong hash")

\* CalcPow fails: "internal server error".
CalcPowFails ==
    /\ hpc = "verify"
    /\ share.diff >= difficulty
    /\ Refuse("error")
    /\ UNCHANGED checks

QueueShareAtDifficulty ==
    /\ hpc = "verify"
    /\ share.diff <= difficulty
    /\ checks' = [checks EXCEPT !.first = difficulty]
    /\ outcome' = "queued"
    /\ HandlerTo("judge")
    /\ UNCHANGED <<lock, nextDiff, news, theJob>>

\* A regular share is put in the verification queue.
QueueShare ==
    /\ hpc = "verify"
    /\ share.diff < difficulty
    /\ checks' = [checks EXCEPT !.first = difficulty]
    /\ outcome' = "queued"
    /\ HandlerTo("judge")
    /\ UNCHANGED <<lock, nextDiff, news, theJob>>

\* The share is compared with the job's difficulty.
Judge ==
    /\ hpc = "judge"
    /\ IF share.diff < theJob.diff
       THEN Refuse("low")
       ELSE HandlerTo("compare") /\ UNCHANGED <<lock, nextDiff, news, theJob, outcome>>
    /\ UNCHANGED checks

CompareStrictly ==
    /\ hpc = "compare"
    /\ checks' = [checks EXCEPT !.second = difficulty]
    /\ HandlerTo(IF share.diff > difficulty THEN "submit" ELSE "retarget")
    /\ UNCHANGED <<lock, nextDiff, news, theJob, outcome>>

\* The second comparison with the network's difficulty, without CurInfo's lock.
CompareAgain ==
    /\ hpc = "compare"
    /\ checks' = [checks EXCEPT !.second = difficulty]
    /\ HandlerTo(IF share.diff >= difficulty THEN "submit" ELSE "retarget")
    /\ UNCHANGED <<lock, nextDiff, news, theJob, outcome>>

\* SubmitBlock, with the block blob of the job, and the signal that has the
\* Refresher start OnNewBlock.  When the daemon's answer has no block id that can
\* be had or decoded, the share is left without an answer and NextDiff as it is.
SubmitBlock ==
    /\ hpc = "submit"
    /\ news' = IF open THEN More(news) ELSE news
    /\ outcome' = IF outcome = "queued" THEN "unverified" ELSE "submitted"
    /\ \/ HandlerTo("retarget") /\ UNCHANGED lock
       \/ HandlerTo("answer") /\ lock' = "free"
    /\ UNCHANGED <<nextDiff, theJob, checks>>

\* The next difficulty: a seventh of what would have made the share take the
\* target time, at most four times more or less than the job's, and six sevenths
\* of the last one.
NextDiffs(d) ==
    {n \in 0..Huge : /\ 28 * (n + 1) > d + 24 * nextDiff
                     /\ 7 * n < 4 * d + 6 * (nextDiff + 1) \/ Huge \in {d, nextDiff}}

Retarget ==
    /\ hpc = "retarget"
    /\ nextDiff' \in NextDiffs(theJob.diff)
    /\ outcome' = IF outcome \in {"submitted", "unverified"} THEN outcome ELSE "accepted"
    /\ lock' = "free"
    /\ HandlerTo("answer")
    /\ UNCHANGED <<news, theJob, checks>>

\* The answer, if there is one, is sent, and the next request is read.
Answer ==
    /\ hpc = "answer"
    /\ hpc' = "ready"
    /\ share' = NoShare /\ theJob' = NoJob /\ checks' = NoChecks /\ outcome' = "none"
    /\ UNCHANGED <<daemon, curInfo, target, current, last, nextDiff, lock, hjob, jpc,
                   jjob, news, open, crossed>>

-----------------------------------------------------------------------------
Login ==
    \/ \E request \in Requests \cup {0} : LoginDiff(request)
    \/ LoginNextDiff \/ LoginCall \/ LoginFetch \/ LoginFails \/ LoginStore
    \/ LoginBlob \/ LoginHashingBlob \/ LoginSend

Job ==
    \/ JobLock \/ JobClamp \/ JobDiff \/ JobFetch \/ JobFails \/ JobStore
    \/ JobBlob \/ JobHashingBlob \/ JobSend

Share ==
    \/ \E s \in Shares : MinerSubmits(s)
    \/ ReadFails \/ LockConn \/ PotentialBlock \/ CalcPowFails \/ QueueShare \/ Judge
    \/ CompareAgain \/ SubmitBlock \/ Retarget \/ Answer

Next == NetworkMoves \/ RefreshVersion \/ OtherStores \/ Login \/ Job \/ Share

Spec == Init /\ [][Next]_vars

-----------------------------------------------------------------------------
(* Properties.                                                             *)

\* A share with the right hash that meets the target sent with its job is never
\* refused for its hash or its difficulty: the blobs and the difficulty a job id
\* is judged by are those it was sent with, in CurrentJob and, when OnNewBlock has
\* moved on, in LastJob, and the rounding of the short target never asks for less
\* than the judge.  Not so when OnNewBlock met the login, which writes CurrentJob
\* without the lock, or when a failed template has closed the connection.  Nor for
\* a share that may be a block: it is hashed with CurInfo's seed hash and version,
\* which need not be those of the template its job was made from.
HonestShareAccepted ==
    /\ share.right /\ MeetsTarget(share.diff, target[share.id])
    /\ outcome \in {"wrong hash", "low"}
    => \/ crossed \/ ~open
       \/ outcome = "wrong hash" /\ (checks.seed # tmplSeed[share.id] \/ ~checks.version)

\* No share reaches SubmitBlock on the word of the miner alone, although it is
\* compared with CurInfo.Difficulty twice and only the first comparison, under the
\* lock, has it verified: as long as the network's difficulty stays the same, the
\* two agree, before the first template too.
BlockWasVerified == outcome = "unverified" => \E d \in seen : d # net

\* A share that solves its own template is submitted as a block once a job has been
\* found for it.  The handler compares it with the job's difficulty and with
\* CurInfo.Difficulty, never with the template's: it is lost only if the job's
\* difficulty was not clamped to that template's (the login's is never clamped, and
\* OnNewBlock clamps before it fetches), if MinDiff is above it, or if CurInfo has
\* another by then; and if it was hashed with the seed hash of another template or
\* before the version is known, or the daemon could not be asked for the hash.
BlockIsSubmitted ==
    /\ share.right /\ share.diff >= tmpl[share.id]
    /\ outcome \in {"wrong hash", "error", "low", "accepted"}
    => \/ crossed \/ ~open
       \/ theJob.clamp # tmpl[share.id]
       \/ MinDiff > tmpl[share.id]
       \/ outcome = "wrong hash" /\ (checks.seed # tmplSeed[share.id] \/ ~checks.version)
       \/ outcome = "error"
       \/ outcome = "accepted" /\ checks.second # tmpl[share.id]

\* Whatever the shares and the request make of NextDiff, a job's difficulty is at
\* least MinDiff and, once OnNewBlock has made it, below the network's as CurInfo
\* had it; the login's own may be anything from MinDiff up, since a request is
\* never clamped.  In particular Difficulty - 1 never wraps around, unless
\* OnNewBlock runs while the first login waits for its template, or after that has
\* failed; below MinDiff the network's wins.
JobDiffInRange ==
    open /\ ~crossed => \A job \in {current, last} \ {NoJob} :
        \/ job.clamp \in 1..MinDiff
        \/ /\ job.diff >= MinDiff
           /\ job.clamp > 0 => job.diff < job.clamp
           /\ job.clamp = 0 => job.diff # Huge
=============================================================================
