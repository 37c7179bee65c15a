------------------------------- MODULE P2Pool -------------------------------
(***************************************************************************)
(* One miner's connection to the slave in P2Pool mode: its own stratum     *)
(* client to p2pool (p2pool/client.go, p2pool/p2client.go) and the parts   *)
(* of HandleConnection and Kick that use it.                               *)
(*                                                                         *)
(* Four kinds of goroutines work on one connection: HandleConnection       *)
(* ("handler"), P2PoolClient.Start with the Kick behind it ("start"), the  *)
(* loop that passes jobs to the miner ("consumer"), and one dispatchJobs   *)
(* for every login to p2pool.  They meet on unbuffered channels (a send    *)
(* and its receive are one step): jobChan and responseChannel of each      *)
(* login, and P2PoolClient.Jobs, on which Stop sends nil.  They share the  *)
(* lock of the connection and the Client value, which Start overwrites as  *)
(* a whole, its mutex included, without taking that mutex.                 *)
(*                                                                         *)
(* Logins are numbered; login g has a socket, a stream of lines from       *)
(* p2pool and the two channels.  Jobs and submits are numbered, so that a  *)
(* line is a job or the answer to a submit.  CurInfo, whose lock is taken  *)
(* for a moment on the way, is part of SlaveServer.  Time is not: whether  *)
(* TOTAL_TIMEOUT has passed is a free choice.                              *)
(***************************************************************************)
EXTENDS Naturals, Sequences, FiniteSets

CONSTANTS
    MaxLogins,      \* bound on dials that reach p2pool
    MaxJobs,        \* bound on jobs p2pool sends besides the first of each login
    MaxSubmits,     \* bound on shares for p2pool
    MaxFaults       \* bound on failures of p2pool

ASSUME P2PoolAssumption == {MaxLogins, MaxJobs, MaxSubmits, MaxFaults} \subseteq Nat

Logins == 1..MaxLogins
Actors == {"handler", "start", "consumer"}

VARIABLES
    pc,         \* where each actor is
    dpc,        \* where the dispatchJobs of each login is
    sock,       \* the socket of each login
    pipe,       \* lines on their way from p2pool, per login
    unanswered, \* submits p2pool has read and not answered, per login
    cl,         \* the Client value: conn, responseChannel, alive and its mutex
    lock,       \* who holds the connection's lock
    jobChan,    \* Start's jobChan: the login it belongs to, 0 for none
    inHand,     \* the job start and consumer have received and not passed on
    call,       \* the handler's SubmitWork: its number, conn, channel and answer
    miner,      \* is the miner connected, is it in srv.Connections, its CurrentJob
    again,      \* must the handler call Stop once more after its Kick?
    used,       \* logins, jobs, submits and faults so far
    crashed     \* has the whole slave died?

vars == <<pc, dpc, sock, pipe, unanswered, cl, lock, jobChan, inHand, call, miner,
          again, used, crashed>>

Job(n) == [kind |-> "job", n |-> n]
Answer(n) == [kind |-> "answer", n |-> n]
Line == [kind: {"job", "answer"}, n: Nat]

TypeOK ==
    /\ pc \in [Actors -> {"none", "first", "read", "lock", "judge", "mutex", "write",
                          "unlock", "await", "report", "connect", "dial", "login",
                          "recv", "alive", "push", "redo", "pass", "kick", "nil",
                          "delist", "stop", "ended"}]
    /\ dpc \in [Logins -> {"none", "first", "read", "job", "answer", "closing", "ended"}]
    /\ sock \in [Logins -> {"none", "open", "broken", "closed"}]
    /\ pipe \in [Logins -> Seq(Line)]
    /\ unanswered \in [Logins -> SUBSET Nat]
    /\ cl \in [conn: Logins \cup {0}, resp: Logins \cup {0}, alive: BOOLEAN, locked: BOOLEAN]
    /\ lock \subseteq {"handler", "consumer"} /\ Cardinality(lock) <= 1
    /\ jobChan \in Logins \cup {0}
    /\ inHand \in [{"start", "consumer"} -> 0..(MaxJobs + MaxLogins)]
    /\ call \in [n: 0..MaxSubmits, conn: Logins \cup {0}, resp: Logins \cup {0}, got: Nat]
    /\ miner \in [open: BOOLEAN, listed: BOOLEAN, job: 0..(MaxJobs + MaxLogins)]
    /\ used \in [logins: 0..MaxLogins, jobs: 0..MaxJobs, submits: 0..MaxSubmits,
                 faults: 0..MaxFaults]
    /\ again \in BOOLEAN /\ crashed \in BOOLEAN

\* The number of the latest job: logins and pushes each bring one.
LastJob == used.jobs + used.logins

\* Client{}: no connection, not alive, and a mutex nobody holds.
NewClient == [conn |-> 0, resp |-> 0, alive |-> FALSE, locked |-> FALSE]

NoCall == [n |-> 0, conn |-> 0, resp |-> 0, got |-> 0]

\* The handler has made the P2PoolClient, started Start and waits for a job.
Init ==
    /\ pc = [handler |-> "first", start |-> "connect", consumer |-> "none"]
    /\ dpc = [g \in Logins |-> "none"]
    /\ sock = [g \in Logins |-> "none"]
    /\ pipe = [g \in Logins |-> <<>>]
    /\ unanswered = [g \in Logins |-> {}]
    /\ cl = NewClient
    /\ lock = {}
    /\ jobChan = 0
    /\ inHand = [start |-> 0, consumer |-> 0]
    /\ call = NoCall
    /\ miner = [open |-> TRUE, listed |-> TRUE, job |-> 0]
    /\ again = FALSE
    /\ used = [logins |-> 0, jobs |-> 0, submits |-> 0, faults |-> 0]
    /\ crashed = FALSE

netVars == <<dpc, sock, pipe, unanswered>>

Goto(a, from, to) == pc[a] = from /\ pc' = [pc EXCEPT ![a] = to]

Fault ==
    /\ used.faults < MaxFaults
    /\ used' = [used EXCEPT !.faults = @ + 1]

\* cl.mutex.Unlock(): fatal for the process when the mutex is not locked,
\* whoever locked it.
Unlock(client) ==
    /\ cl' = [client EXCEPT !.locked = FALSE]
    /\ crashed' = ~cl.locked

-----------------------------------------------------------------------------
(* Start and Connect.                                                      *)

\* Connect: Close on a client that is not alive, then the mutex for the rest.
ConnectLock ==
    /\ Goto("start", "connect", "dial")
    /\ ~cl.locked
    /\ cl' = [cl EXCEPT !.locked = TRUE]
    /\ UNCHANGED <<netVars, lock, jobChan, inHand, call, miner, again, used, crashed>>

DialOk ==
    /\ Goto("start", "dial", "login")
    /\ used.logins < MaxLogins
    /\ used' = [used EXCEPT !.logins = @ + 1]
    /\ sock' = [sock EXCEPT ![used.logins + 1] = "open"]
    /\ cl' = [cl EXCEPT !.conn = used.logins + 1]
    /\ UNCHANGED <<dpc, pipe, unanswered, lock, jobChan, inHand, call, miner, again, crashed>>

\* The dial fails and stores a nil connection.
DialFails ==
    /\ Goto("start", "dial", "redo")
    /\ Fault
    /\ Unlock([cl EXCEPT !.conn = 0])
    /\ UNCHANGED <<netVars, lock, jobChan, inHand, call, miner, again>>

\* A login response with a job: new channels, alive, and a dispatchJobs that
\* starts with that job.
LoginOk ==
    LET g == used.logins IN
    /\ Goto("start", "login", "recv")
    /\ sock[g] = "open"
    /\ pipe' = [pipe EXCEPT ![g] = <<Job(LastJob)>>]
    /\ dpc' = [dpc EXCEPT ![g] = "first"]
    /\ jobChan' = g
    /\ Unlock([cl EXCEPT !.resp = g, !.alive = TRUE])
    /\ UNCHANGED <<sock, unanswered, lock, inHand, call, miner, again, used>>

\* Any other outcome: an error, or (malformed) a result without a job, which
\* leaves the client alive with a responseChannel nobody serves.
LoginFails(malformed) ==
    /\ Goto("start", "login", "redo")
    /\ IF sock[used.logins] # "open" THEN ~malformed /\ UNCHANGED used ELSE Fault
    /\ Unlock(IF malformed THEN [cl EXCEPT !.resp = used.logins, !.alive = TRUE] ELSE cl)
    /\ UNCHANGED <<netVars, lock, jobChan, inHand, call, miner, again>>

\* curJob := <-jobChan meets dispatchJobs' send.
ReceiveJob ==
    /\ pc["start"] = "recv"
    /\ dpc[jobChan] \in {"first", "job"}
    /\ pc' = [pc EXCEPT !["start"] = "alive"]
    /\ dpc' = [dpc EXCEPT ![jobChan] = "read"]
    /\ inHand' = [inHand EXCEPT !["start"] = Head(pipe[jobChan]).n]
    /\ pipe' = [pipe EXCEPT ![jobChan] = Tail(@)]
    /\ UNCHANGED <<sock, unanswered, cl, lock, jobChan, call, miner, again, used, crashed>>

\* The channel is closed.
JobChanClosed ==
    /\ Goto("start", "recv", "redo")
    /\ dpc[jobChan] \in {"closing", "ended"}
    /\ UNCHANGED <<netVars, cl, lock, jobChan, inHand, call, miner, again, used, crashed>>

\* IsAlive waits for the mutex.
CheckAlive ==
    /\ pc["start"] = "alive"
    /\ ~cl.locked
    /\ pc' = [pc EXCEPT !["start"] = IF cl.alive THEN "push" ELSE "redo"]
    /\ inHand' = IF cl.alive THEN inHand ELSE [inHand EXCEPT !["start"] = 0]
    /\ UNCHANGED <<netVars, cl, lock, jobChan, call, miner, again, used, crashed>>

\* redo: within TOTAL_TIMEOUT of the last job, a new Client and a new attempt ...
Redo ==
    /\ Goto("start", "redo", "connect")
    /\ used.logins < MaxLogins
    /\ cl' = NewClient
    /\ jobChan' = 0
    /\ UNCHANGED <<netVars, lock, inHand, call, miner, again, used, crashed>>

\* ... after it, Start returns and its goroutine kicks the miner.
StartReturns ==
    /\ Goto("start", "redo", "kick")
    /\ jobChan' = 0
    /\ UNCHANGED <<netVars, cl, lock, inHand, call, miner, again, used, crashed>>

-----------------------------------------------------------------------------
(* dispatchJobs.                                                           *)

DispatchRead(g) ==
    /\ dpc[g] = "read"
    /\ pipe[g] # <<>>
    /\ dpc' = [dpc EXCEPT ![g] = Head(pipe[g]).kind]
    /\ UNCHANGED <<pc, sock, pipe, unanswered, cl, lock, jobChan, inHand, call, miner,
                   again, used, crashed>>

\* readJSON fails, or a job line has no job; the socket is left as it is.
DispatchFails(g) ==
    /\ dpc[g] = "read"
    /\ \/ sock[g] # "open" /\ UNCHANGED used
       \/ sock[g] = "open" /\ Fault
    /\ dpc' = [dpc EXCEPT ![g] = "closing"]
    /\ UNCHANGED <<pc, sock, pipe, unanswered, cl, lock, jobChan, inHand, call, miner,
                   again, crashed>>

DispatchKeepsAnswers(g) ==
    /\ dpc[g] = "closing"
    /\ UNCHANGED vars

\* The deferred function closes jobChan, then responseChan.
DispatchEnds(g) ==
    /\ dpc[g] = "closing"
    /\ dpc' = [dpc EXCEPT ![g] = "ended"]
    /\ UNCHANGED <<pc, sock, pipe, unanswered, cl, lock, jobChan, inHand, call, miner,
                   again, used, crashed>>

-----------------------------------------------------------------------------
(* HandleConnection.                                                       *)

\* jobData := <-conn.P2Pool.Jobs meets Start's send.
FirstJob ==
    /\ pc["handler"] = "first" /\ pc["start"] = "push"
    /\ pc' = [handler |-> "read", start |-> "recv", consumer |-> "recv"]
    /\ miner' = [miner EXCEPT !.job = inHand["start"]]
    /\ inHand' = [inHand EXCEPT !["start"] = 0]
    /\ UNCHANGED <<netVars, cl, lock, jobChan, call, again, used, crashed>>

\* A first job whose blob or target is of no use: Kick and return.
BadFirstJob ==
    /\ pc["handler"] = "first" /\ pc["start"] = "push"
    /\ Fault
    /\ pc' = [pc EXCEPT !["handler"] = "kick", !["start"] = "recv"]
    /\ inHand' = [inHand EXCEPT !["start"] = 0]
    /\ UNCHANGED <<netVars, cl, lock, jobChan, call, miner, again, crashed>>

\* The next "submit" of the miner, who works on the current job.
ReadSubmit ==
    /\ Goto("handler", "read", "lock")
    /\ miner.open
    /\ used.submits < MaxSubmits
    /\ used' = [used EXCEPT !.submits = @ + 1]
    /\ UNCHANGED <<netVars, cl, lock, jobChan, inHand, call, miner, again, crashed>>

LockConnShared ==
    /\ Goto("handler", "lock", "judge")
    /\ lock' = lock \cup {"handler"}
    /\ UNCHANGED <<netVars, cl, jobChan, inHand, call, miner, again, used, crashed>>

LockConn ==
    /\ Goto("handler", "lock", "judge")
    /\ lock = {}
    /\ lock' = {"handler"}
    /\ UNCHANGED <<netVars, cl, jobChan, inHand, call, miner, again, used, crashed>>

\* A share that is refused, or that p2pool would not take.
Judged ==
    /\ Goto("handler", "judge", "read")
    /\ lock' = {}
    /\ UNCHANGED <<netVars, cl, jobChan, inHand, call, miner, again, used, crashed>>

\* The penalty box throws the miner out: Kick with the lock held, and return.
Banned ==
    /\ Goto("handler", "judge", "kick")
    /\ UNCHANGED <<netVars, cl, lock, jobChan, inHand, call, miner, again, used, crashed>>

\* shareDiff > JobDiff: SubmitShare.
SubmitShare ==
    /\ Goto("handler", "judge", "mutex")
    /\ call' = [NoCall EXCEPT !.n = used.submits]
    /\ UNCHANGED <<netVars, cl, lock, jobChan, inHand, miner, again, used, crashed>>

SubmitWithoutLock ==
    /\ pc["handler"] = "mutex"
    /\ ~cl.locked
    /\ pc' = [pc EXCEPT !["handler"] = IF cl.alive THEN "write" ELSE "report"]
    /\ call' = IF cl.alive THEN [call EXCEPT !.conn = cl.conn] ELSE call
    /\ UNCHANGED <<netVars, cl, lock, jobChan, inHand, miner, again, used, crashed>>

\* submitRequest: the mutex, and an error at once if the client is not alive.  The
\* call keeps the connection it has here; the code reads cl.conn again for the
\* write, which makes a difference only after Start has overwritten the Client,
\* when an Unlock is about to be fatal anyway.
SubmitLock ==
    /\ pc["handler"] = "mutex"
    /\ ~cl.locked
    /\ IF cl.alive
       THEN /\ pc' = [pc EXCEPT !["handler"] = "write"]
            /\ cl' = [cl EXCEPT !.locked = TRUE]
            /\ call' = [call EXCEPT !.conn = cl.conn]
       ELSE /\ pc' = [pc EXCEPT !["handler"] = "report"]
            /\ UNCHANGED <<cl, call>>
    /\ UNCHANGED <<netVars, lock, jobChan, inHand, miner, again, used, crashed>>

\* The Write succeeds, into a broken socket too; responseChannel is read before the Unlock.
WriteOk ==
    /\ pc["handler"] = "write"
    /\ sock[call.conn] # "closed"
    /\ unanswered' = [unanswered EXCEPT ![call.conn] = @ \cup {call.n}]
    /\ call' = [call EXCEPT !.resp = cl.resp]
    /\ pc' = [pc EXCEPT !["handler"] = "await"]
    /\ Unlock(cl)
    /\ UNCHANGED <<dpc, sock, pipe, lock, jobChan, inHand, miner, again, used>>

WriteFails ==
    /\ Goto("handler", "write", "report")
    /\ \/ sock[call.conn] # "open" /\ UNCHANGED used
       \/ sock[call.conn] = "open" /\ Fault
    /\ Unlock(cl)
    /\ UNCHANGED <<netVars, lock, jobChan, inHand, call, miner, again>>

\* response := <-respChan meets dispatchJobs' send; a nil channel never does.
ReceiveAnswer(g) ==
    /\ Goto("handler", "await", "report")
    /\ call.resp = g /\ dpc[g] = "answer"
    /\ call' = [call EXCEPT !.got = Head(pipe[g]).n]
    /\ pipe' = [pipe EXCEPT ![g] = Tail(@)]
    /\ dpc' = [dpc EXCEPT ![g] = "read"]
    /\ UNCHANGED <<sock, unanswered, cl, lock, jobChan, inHand, miner, again, used, crashed>>

AnswerTimesOut ==
    /\ Goto("handler", "await", "report")
    /\ UNCHANGED <<netVars, cl, lock, jobChan, inHand, call, miner, again, used, crashed>>

\* The channel is closed: "nil response".
AnswerChanClosed ==
    /\ Goto("handler", "await", "report")
    /\ call.resp # 0 /\ dpc[call.resp] = "ended"
    /\ UNCHANGED <<netVars, cl, lock, jobChan, inHand, call, miner, again, used, crashed>>

\* SendShareFound whatever the outcome, then the rest of the loop's body.
ReportShare ==
    /\ Goto("handler", "report", "read")
    /\ lock' = {}
    /\ call' = NoCall
    /\ UNCHANGED <<netVars, cl, jobChan, inHand, miner, again, used, crashed>>

\* The miner is gone, silent for too long, or has been disconnected.
ReadFails ==
    /\ Goto("handler", "read", "kick")
    /\ UNCHANGED <<netVars, cl, lock, jobChan, inHand, call, miner, again, used, crashed>>

-----------------------------------------------------------------------------
(* The loop that passes jobs on.                                           *)

\* curJob := <-conn.P2Pool.Jobs meets Start's send.
ConsumerReceives ==
    /\ pc["consumer"] = "recv" /\ pc["start"] = "push"
    /\ pc' = [pc EXCEPT !["consumer"] = "lock", !["start"] = "recv"]
    /\ inHand' = [start |-> 0, consumer |-> inHand["start"]]
    /\ UNCHANGED <<netVars, cl, lock, jobChan, call, miner, again, used, crashed>>

ConsumerLocks ==
    /\ Goto("consumer", "lock", "pass")
    /\ lock = {}
    /\ lock' = {"consumer"}
    /\ UNCHANGED <<netVars, cl, jobChan, inHand, call, miner, again, used, crashed>>

PassJobKeepsLock ==
    /\ Goto("consumer", "pass", "recv")
    /\ miner' = [miner EXCEPT !.job = inHand["consumer"]]
    /\ inHand' = [inHand EXCEPT !["consumer"] = 0]
    /\ UNCHANGED <<netVars, cl, lock, jobChan, call, again, used, crashed>>

\* The job becomes the connection's and is sent; Send reports no error.
PassJob ==
    /\ Goto("consumer", "pass", "recv")
    /\ miner' = [miner EXCEPT !.job = inHand["consumer"]]
    /\ inHand' = [inHand EXCEPT !["consumer"] = 0]
    /\ lock' = {}
    /\ UNCHANGED <<netVars, cl, jobChan, call, again, used, crashed>>

\* A blob that does not decode: Kick under the lock.
BadJob ==
    /\ Goto("consumer", "pass", "kick")
    /\ Fault
    /\ inHand' = [inHand EXCEPT !["consumer"] = 0]
    /\ UNCHANGED <<netVars, cl, lock, jobChan, call, miner, again, crashed>>

-----------------------------------------------------------------------------
(* Kick, and Stop inside it.                                               *)

\* Stop: p.client.conn.Close(), which panics on a nil connection.
CloseClient ==
    /\ crashed' = (cl.conn = 0)
    /\ sock' = IF cl.conn = 0 THEN sock ELSE [sock EXCEPT ![cl.conn] = "closed"]

\* Kick does nothing for a connection that is not listed any more.
KickNothing(a) ==
    /\ Goto(a, "kick", "delist")
    /\ ~miner.listed
    /\ UNCHANGED <<netVars, cl, lock, jobChan, inHand, call, miner, again, used, crashed>>

KickListed(a) ==
    /\ Goto(a, "kick", "nil")
    /\ miner.listed
    /\ miner' = [miner EXCEPT !.open = FALSE]
    /\ CloseClient
    /\ UNCHANGED <<dpc, pipe, unanswered, cl, lock, jobChan, inHand, call, again, used>>

\* Stop: p.Jobs <- nil meets the consumer, which returns ...
NilToConsumer(a) ==
    /\ pc[a] = "nil" /\ pc["consumer"] = "recv"
    /\ pc' = [pc EXCEPT ![a] = "delist", !["consumer"] = "ended"]
    /\ UNCHANGED <<netVars, cl, lock, jobChan, inHand, call, miner, again, used, crashed>>

\* ... or the handler still waiting for its first job, which kicks and stops.
NilToHandler(a) ==
    /\ pc[a] = "nil" /\ pc["handler"] = "first"
    /\ pc' = [pc EXCEPT ![a] = "delist", !["handler"] = "kick"]
    /\ again' = TRUE
    /\ UNCHANGED <<netVars, cl, lock, jobChan, inHand, call, miner, used, crashed>>

\* srv.Connections is replaced after Stop; the handler that got nil for its
\* first job stops once more, the consumer gives the lock back.
KickDone(a) ==
    /\ pc[a] = "delist"
    /\ miner' = [miner EXCEPT !.listed = FALSE]
    /\ pc' = [pc EXCEPT ![a] = IF a = "handler" /\ again THEN "stop" ELSE "ended"]
    /\ lock' = IF a = "consumer" THEN {} ELSE lock
    /\ UNCHANGED <<netVars, cl, jobChan, inHand, call, again, used, crashed>>

\* conn.P2Pool.Stop() after a nil first job: nobody is left to receive its nil.
StopAgain ==
    /\ pc["handler"] = "stop"
    /\ pc' = [pc EXCEPT !["handler"] = "nil"]
    /\ CloseClient
    /\ UNCHANGED <<dpc, pipe, unanswered, cl, lock, jobChan, inHand, call, miner, again, used>>

-----------------------------------------------------------------------------
(* p2pool and the miner, external.                                         *)

P2PoolSendsJob(g) ==
    /\ sock[g] = "open" /\ dpc[g] \notin {"none", "closing", "ended"}
    /\ used.jobs < MaxJobs
    /\ used' = [used EXCEPT !.jobs = @ + 1]
    /\ pipe' = [pipe EXCEPT ![g] = Append(@, Job(LastJob + 1))]
    /\ UNCHANGED <<pc, dpc, sock, unanswered, cl, lock, jobChan, inHand, call, miner,
                   again, crashed>>

P2PoolAnswers(g, n) ==
    /\ sock[g] = "open"
    /\ n \in unanswered[g]
    /\ unanswered' = [unanswered EXCEPT ![g] = @ \ {n}]
    /\ pipe' = [pipe EXCEPT ![g] = Append(@, Answer(n))]
    /\ UNCHANGED <<pc, dpc, sock, cl, lock, jobChan, inHand, call, miner, again, used, crashed>>

P2PoolBreaks(g) ==
    /\ sock[g] = "open"
    /\ Fault
    /\ sock' = [sock EXCEPT ![g] = "broken"]
    /\ UNCHANGED <<pc, dpc, pipe, unanswered, cl, lock, jobChan, inHand, call, miner,
                   again, crashed>>

MinerLeaves ==
    /\ miner.open
    /\ miner' = [miner EXCEPT !.open = FALSE]
    /\ UNCHANGED <<pc, netVars, cl, lock, jobChan, inHand, call, again, used, crashed>>

-----------------------------------------------------------------------------

Start == \/ ConnectLock \/ DialOk \/ DialFails \/ LoginOk
         \/ \E malformed \in BOOLEAN : LoginFails(malformed)
         \/ ReceiveJob \/ JobChanClosed \/ CheckAlive \/ Redo \/ StartReturns

DispatchJobs(g) == DispatchRead(g) \/ DispatchFails(g) \/ DispatchEnds(g)

SubmitWork == \/ SubmitShare \/ SubmitLock \/ WriteOk \/ WriteFails
              \/ \E g \in Logins : ReceiveAnswer(g)
              \/ AnswerChanClosed \/ ReportShare

Handler == \/ FirstJob \/ BadFirstJob \/ ReadSubmit \/ LockConn \/ Judged \/ Banned
           \/ SubmitWork \/ ReadFails

Consumer == ConsumerReceives \/ ConsumerLocks \/ PassJob \/ BadJob

Kick(a) == \/ KickNothing(a) \/ KickListed(a) \/ NilToConsumer(a) \/ NilToHandler(a)
           \/ KickDone(a)

P2PoolServer == \E g \in Logins :
                   \/ P2PoolSendsJob(g) \/ P2PoolBreaks(g)
                   \/ \E n \in unanswered[g] : P2PoolAnswers(g, n)

Next ==
    /\ ~crashed
    /\ \/ Start \/ Handler \/ Consumer \/ StopAgain
       \/ \E g \in Logins : DispatchJobs(g)
       \/ \E a \in Actors : Kick(a)
       \/ P2PoolServer \/ MinerLeaves

\* Goroutines run, p2pool answers what it has read, and the handler of a miner
\* that is gone notices.  Nothing forces jobs, submits or failures.
Fairness ==
    /\ WF_vars(~crashed /\ Start)
    /\ WF_vars(~crashed /\ (FirstJob \/ LockConn \/ Judged \/ SubmitWork \/ StopAgain))
    /\ WF_vars(~crashed /\ ~miner.open /\ ReadFails)
    /\ WF_vars(~crashed /\ Consumer)
    /\ \A a \in Actors : WF_vars(~crashed /\ Kick(a))
    /\ \A g \in Logins : WF_vars(~crashed /\ DispatchJobs(g))
    /\ WF_vars(~crashed /\ (\E g \in Logins, n \in 1..MaxSubmits : P2PoolAnswers(g, n)))

Spec == Init /\ [][Next]_vars
FairSpec == Spec /\ Fairness

-----------------------------------------------------------------------------
(* Properties.                                                             *)

\* What SubmitWork returns is the answer to its own submit, although every submit
\* has the id 541 and the response channel no request to match: a call leaves with
\* its answer or when the channel is closed, so that no answer is ever left over
\* for the next call, across reconnects too.
AnswerIsOwn == call.got \in {0, call.n}

\* While p2pool works, nothing kills the slave: Stop finds a connection to close and
\* nobody unlocks a mutex that is not locked, although Start may overwrite the
\* Client under its users.  (With a failure it does: Stop on the nil connection
\* after a failed dial, or an Unlock of the mutex that Client{} has replaced.)
CrashNeedsFault == crashed => used.faults > 0

\* Everybody waits: the handler, with the connection's lock, for an answer that is
\* behind a job in the stream; dispatchJobs for Start, Start for the loop that
\* passes jobs on, and that for the lock.
Overtaken ==
    /\ pc["handler"] = "await" /\ pc["consumer"] = "lock" /\ pc["start"] = "push"
    /\ \E g \in Logins : dpc[g] = "job"

\* The response channel has no dispatchJobs: none was made, or the login response
\* had no job.
Unserved == pc["handler"] = "await" /\ (call.resp = 0 \/ dpc[call.resp] = "none")

\* A submit to p2pool comes to an end, with the answer or with an error, also when
\* p2pool breaks off or the client reconnects: submitRequest has no timeout and
\* relies on dispatchJobs to close the response channel.  The two ways in which it
\* waits for ever are named above.
SubmitReturns ==
    pc["handler"] \in {"mutex", "write", "await"} ~>
        (pc["handler"] = "report" \/ Overtaken \/ Unserved \/ crashed)

\* Stop waits for somebody to take its nil, and the loop that passes jobs on
\* never started, is the one that called Stop, or waits for the lock a
\* banned miner's handler took along.
NilUnreceived ==
    \E a \in Actors :
        /\ pc[a] = "nil"
        /\ \/ pc["consumer"] \in {"none", "nil", "ended"} /\ pc["handler"] # "first"
           \/ pc["consumer"] = "lock" /\ a = "handler" /\ lock = {"handler"}

\* A miner that has gone is taken from srv.Connections: Kick does that only after
\* Stop, whose send of nil on the unbuffered Jobs has to meet a receiver while
\* Start sends jobs on it too, and two goroutines may kick the same miner.
DepartureIsCleanedUp ==
    ~miner.open ~> (~miner.listed \/ Overtaken \/ Unserved \/ NilUnreceived \/ crashed)
=============================================================================
