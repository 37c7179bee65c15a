--------------------------- MODULE P2PoolProofs ---------------------------
(***************************************************************************)
(* Proofs about P2Pool for any number of logins, jobs, submits and faults. *)
(*                                                                         *)
(* That an answer is the call's own cannot be seen from the answer, whose  *)
(* id is always 541: it follows from what is left in the streams.          *)
(* NoLeftOver says that a response channel that a call may still wait on   *)
(* has no answer to an earlier call, in p2pool or on its way; it needs     *)
(* Stale, because a write and the channel waited on may be of different    *)
(* logins when Start replaces the Client between them.  That only a fault  *)
(* kills the slave is NoFaultInv: as long as there is none, Start is past  *)
(* its login whenever the handler uses the Client, and starts over only    *)
(* after the handler's own Kick.                                           *)
(***************************************************************************)
EXTENDS P2Pool, FiniteSetTheorems, TLAPS

-----------------------------------------------------------------------------
(* The Client value.                                                       *)

\* Login g will never again be the one a call finds in the Client.
Stale(g) == cl.resp # g /\ ~(pc["start"] = "login" /\ used.logins = g)

\* What is in the Client at each step of Start.
ClientInv ==
    /\ cl.conn <= used.logins
    /\ cl.alive => cl.resp = cl.conn /\ cl.conn # 0
    /\ ~cl.alive => cl.resp = 0
    /\ pc["start"] \in {"connect", "dial"} => cl.conn = 0 /\ ~cl.alive
    /\ pc["start"] = "login" => cl.conn = used.logins /\ used.logins # 0 /\ ~cl.alive
    /\ pc["start"] \in {"recv", "alive", "push"} => cl.alive /\ jobChan # 0

\* A call was made with a login that has been; between the lock and the write the
\* Client may have been replaced, and then that login is stale.
CallInv ==
    /\ call.conn <= used.logins /\ call.resp <= used.logins
    /\ pc["start"] = "login" => call.conn # used.logins /\ call.resp # used.logins
    /\ pc["handler"] = "write" =>
          call.conn # 0 /\ (cl.resp = call.conn \/ Stale(call.conn))

-----------------------------------------------------------------------------
(* The streams of p2pool.                                                  *)

\* Nothing has happened yet on a login that is still to come.
Untouched ==
    \A g \in Logins :
        g > used.logins \/ (g = used.logins /\ pc["start"] = "login") =>
            dpc[g] = "none" /\ unanswered[g] = {} /\ pipe[g] = <<>>

\* A dial that reached p2pool has a socket.
SocketsOpened == \A g \in Logins : g <= used.logins => sock[g] # "none"

\* dispatchJobs holds the line at the head of its stream.
HeadInHand ==
    \A g \in Logins :
        /\ dpc[g] \in {"first", "job"} => pipe[g] # <<>> /\ Head(pipe[g]).kind = "job"
        /\ dpc[g] = "answer" => pipe[g] # <<>> /\ Head(pipe[g]).kind = "answer"

\* Jobs are numbered as they are sent.
JobsNumbered ==
    \A g \in Logins : \A i \in 1..Len(pipe[g]) :
        pipe[g][i].kind = "job" => pipe[g][i].n <= LastJob

\* The places of the answers in a stream.
AnswersIn(s) == {i \in 1..Len(s) : s[i].kind = "answer"}

\* No answer of login g is outstanding.
Clean(g) == unanswered[g] = {} /\ AnswersIn(pipe[g]) = {}

\* The only answer outstanding is the running call's, and it is so once.
Own(g) ==
    /\ unanswered[g] \subseteq {call.n}
    /\ \A i \in AnswersIn(pipe[g]) : pipe[g][i].n = call.n /\ unanswered[g] = {}
    /\ \A i, j \in AnswersIn(pipe[g]) : i = j

\* The handler waits on the response channel of login g.
Awaited(g) == pc["handler"] = "await" /\ call.resp = g

\* Nothing is left over on login g for a later call to receive.
Tidy(g) ==
    \/ dpc[g] = "ended"
    \/ Stale(g) /\ ~Awaited(g)
    \/ Clean(g)
    \/ Awaited(g) /\ Own(g)

\* No answer is left over for a later call.
NoLeftOver == \A g \in Logins : Tidy(g)

-----------------------------------------------------------------------------
(* While p2pool works.                                                     *)

\* The steps of the handler before its Kick.
Early == {"first", "read", "lock", "judge", "mutex", "write", "await", "report", "kick"}

\* The steps of Start with a login.
LoggedIn == {"recv", "alive", "push"}

\* Before the handler's Kick nothing is closed and Start does not start over.
NothingClosed ==
    pc["handler"] \in Early =>
        /\ pc["start"] \in {"connect", "dial", "login"} \cup LoggedIn
        /\ pc["handler"] # "first" => pc["start"] \in LoggedIn
        /\ \A g \in Logins : sock[g] \notin {"broken", "closed"}
                             /\ dpc[g] \notin {"closing", "ended"}

\* Who unlocks the mutex has it, who closes a connection finds one, and nobody else
\* kicks.
Guarded ==
    /\ pc["consumer"] \notin {"kick", "nil", "delist"}
    /\ pc["handler"] # "stop" /\ ~again
    /\ pc["handler"] = "write" \/ pc["start"] \in {"dial", "login"} => cl.locked
    /\ pc["start"] \in {"redo", "kick"} => cl.conn # 0
    /\ ~crashed

\* Without a fault.
NoFaultInv == used.faults = 0 => NothingClosed /\ Guarded

\* The inductive invariant.
IInv ==
    /\ TypeOK /\ ClientInv /\ CallInv
    /\ Untouched /\ SocketsOpened /\ HeadInHand /\ JobsNumbered
    /\ NoLeftOver /\ AnswerIsOwn
    /\ NoFaultInv

-----------------------------------------------------------------------------
(* Types.                                                                  *)

\* The bounds are numbers.
LEMMA Bounds ==
    /\ MaxLogins \in Nat /\ MaxJobs \in Nat /\ MaxSubmits \in Nat /\ MaxFaults \in Nat
    /\ Logins \subseteq Nat /\ 0 \notin Logins
BY P2PoolAssumption DEF Logins

\* The type invariant in parts, each about variables that change together: where
\* everybody is,
PlaceTypes ==
    /\ pc \in [Actors -> {"none", "first", "read", "lock", "judge", "mutex", "write",
                          "unlock", "await", "report", "connect", "dial", "login",
                          "recv", "alive", "push", "redo", "pass", "kick", "nil",
                          "delist", "stop", "ended"}]
    /\ dpc \in [Logins -> {"none", "first", "read", "job", "answer", "closing", "ended"}]

\* the connection's lock and the two flags,
LockTypes ==
    /\ lock \subseteq {"handler", "consumer"} /\ Cardinality(lock) <= 1
    /\ again \in BOOLEAN /\ crashed \in BOOLEAN

\* sockets and streams,
NetTypes ==
    /\ sock \in [Logins -> {"none", "open", "broken", "closed"}]
    /\ pipe \in [Logins -> Seq(Line)]
    /\ unanswered \in [Logins -> SUBSET Nat]

\* the Client and what is done with it,
ClientTypes ==
    /\ cl \in [conn: Logins \cup {0}, resp: Logins \cup {0}, alive: BOOLEAN, locked: BOOLEAN]
    /\ jobChan \in Logins \cup {0}
    /\ call \in [n: 0..MaxSubmits, conn: Logins \cup {0}, resp: Logins \cup {0}, got: Nat]

\* the jobs on their way to the miner,
JobTypes ==
    /\ inHand \in [{"start", "consumer"} -> 0..(MaxJobs + MaxLogins)]
    /\ miner \in [open: BOOLEAN, listed: BOOLEAN, job: 0..(MaxJobs + MaxLogins)]

\* and the counters.
CountTypes ==
    used \in [logins: 0..MaxLogins, jobs: 0..MaxJobs, submits: 0..MaxSubmits,
              faults: 0..MaxFaults]

\* The parts are the type invariant.
LEMMA TypeParts ==
    TypeOK <=> PlaceTypes /\ LockTypes /\ NetTypes /\ ClientTypes /\ JobTypes /\ CountTypes
BY DEF TypeOK, PlaceTypes, LockTypes, NetTypes, ClientTypes, JobTypes, CountTypes

\* A stream's first line and the rest of it.
LEMMA Streams ==
    ASSUME NEW s \in Seq(Line)
    PROVE  /\ \A i \in 1..Len(s) : s[i] \in Line /\ s[i].n \in Nat
           /\ s # <<>> => /\ Head(s) = s[1] /\ 1 \in 1..Len(s)
                          /\ Tail(s) \in Seq(Line) /\ Len(Tail(s)) = Len(s) - 1
                          /\ \A i \in 1..Len(Tail(s)) :
                                Tail(s)[i] = s[i + 1] /\ i + 1 \in 1..Len(s)
           /\ \A l \in Line : /\ Append(s, l) \in Seq(Line) /\ Len(Append(s, l)) = Len(s) + 1
                              /\ \A i \in 1..Len(s) : Append(s, l)[i] = s[i]
                              /\ Append(s, l)[Len(s) + 1] = l
                              /\ Append(s, l) # <<>>
                              /\ s # <<>> => Head(Append(s, l)) = Head(s)
<1>1. ASSUME NEW i \in 1..Len(s) PROVE s[i] \in Line /\ s[i].n \in Nat
  <2>1. s[i] \in Line
    OBVIOUS
  <2> QED
    BY <2>1 DEF Line
<1>2. ASSUME s # <<>>
      PROVE  /\ Head(s) = s[1] /\ 1 \in 1..Len(s)
             /\ Tail(s) \in Seq(Line) /\ Len(Tail(s)) = Len(s) - 1
             /\ \A i \in 1..Len(Tail(s)) : Tail(s)[i] = s[i + 1] /\ i + 1 \in 1..Len(s)
  BY <1>2
<1>3. ASSUME NEW l \in Line
      PROVE  /\ Append(s, l) \in Seq(Line) /\ Len(Append(s, l)) = Len(s) + 1
             /\ \A i \in 1..Len(s) : Append(s, l)[i] = s[i]
             /\ Append(s, l)[Len(s) + 1] = l
             /\ Append(s, l) # <<>>
             /\ s # <<>> => Head(Append(s, l)) = Head(s)
  BY SMTT(20)
<1> QED
  BY <1>1, <1>2, <1>3

\* Every step keeps within the bounds.
LEMMA StepCountTypes ==
    ASSUME CountTypes, [Next]_vars
    PROVE  CountTypes'
<1> USE DEF netVars, Actors
<1>1. CASE DialOk
  BY <1>1, Bounds DEF DialOk, Goto, CountTypes
<1>2. CASE DialFails
  BY <1>2, Bounds DEF DialFails, Goto, Fault, Unlock, CountTypes
<1>3. ASSUME NEW malformed \in BOOLEAN, LoginFails(malformed) PROVE CountTypes'
  BY <1>3, Bounds DEF LoginFails, Goto, Fault, Unlock, CountTypes
<1>4. ASSUME NEW g \in Logins, DispatchFails(g) PROVE CountTypes'
  BY <1>4, Bounds DEF DispatchFails, Fault, CountTypes
<1>5. CASE BadFirstJob
  BY <1>5, Bounds DEF BadFirstJob, Fault, CountTypes
<1>6. CASE ReadSubmit
  BY <1>6, Bounds DEF ReadSubmit, Goto, CountTypes
<1>7. CASE WriteFails
  BY <1>7, Bounds DEF WriteFails, Goto, Fault, Unlock, CountTypes
<1>8. CASE BadJob
  BY <1>8, Bounds DEF BadJob, Goto, Fault, CountTypes
<1>9. ASSUME NEW g \in Logins, P2PoolSendsJob(g) PROVE CountTypes'
  BY <1>9, Bounds DEF P2PoolSendsJob, CountTypes
<1>10. ASSUME NEW g \in Logins, P2PoolBreaks(g) PROVE CountTypes'
  BY <1>10, Bounds DEF P2PoolBreaks, Fault, CountTypes
<1>11. ASSUME ConnectLock \/ LoginOk \/ ReceiveJob \/ JobChanClosed \/ CheckAlive \/ Redo \/
      StartReturns \/ (\E g \in Logins : DispatchRead(g)) \/ (\E g \in Logins : DispatchEnds(g))
      \/ FirstJob \/ LockConn \/ Judged \/ Banned \/ SubmitShare \/ SubmitLock \/ WriteOk \/ (\E
      g \in Logins : ReceiveAnswer(g)) \/ AnswerChanClosed \/ ReportShare \/ ReadFails \/
      ConsumerReceives \/ ConsumerLocks \/ PassJob \/ (\E a \in Actors : KickNothing(a)) \/ (\E a
      \in Actors : KickListed(a)) \/ (\E a \in Actors : NilToConsumer(a)) \/ (\E a \in Actors :
      NilToHandler(a)) \/ (\E a \in Actors : KickDone(a)) \/ StopAgain \/ (\E g \in Logins : \E n
      \in unanswered[g] : P2PoolAnswers(g, n)) \/ MinerLeaves \/ UNCHANGED vars
      PROVE  UNCHANGED <<used>>
  BY <1>11 DEF vars, ConnectLock, LoginOk, ReceiveJob, JobChanClosed, CheckAlive, Redo,
     StartReturns, DispatchRead, DispatchEnds, FirstJob, LockConn, Judged, Banned,
     SubmitShare, SubmitLock, WriteOk, ReceiveAnswer, AnswerChanClosed, ReportShare,
     ReadFails, ConsumerReceives, ConsumerLocks, PassJob, KickNothing, KickListed,
     NilToConsumer, NilToHandler, KickDone, StopAgain, P2PoolAnswers, MinerLeaves, Goto,
     Unlock, CloseClient
<1>12. UNCHANGED <<used>> => CountTypes'
  BY DEF CountTypes
<1> QED
  BY <1>1, <1>2, <1>3, <1>4, <1>5, <1>6, <1>7, <1>8, <1>9, <1>10, <1>11, <1>12 DEF Next,
     Start, Handler, SubmitWork, Consumer, DispatchJobs, Kick, P2PoolServer

\* Every step leads to a step.
LEMMA StepPlaceTypes ==
    ASSUME PlaceTypes, NetTypes, HeadInHand, Untouched, [Next]_vars
    PROVE  PlaceTypes'
<1> USE DEF netVars, Actors
<1>1. CASE ConnectLock
  BY <1>1, Bounds DEF ConnectLock, Goto, PlaceTypes
<1>2. CASE DialOk
  BY <1>2, Bounds DEF DialOk, Goto, PlaceTypes
<1>3. CASE DialFails
  BY <1>3, Bounds DEF DialFails, Goto, Fault, Unlock, PlaceTypes
<1>4. CASE LoginOk
  BY <1>4, Bounds DEF LoginOk, Goto, Unlock, PlaceTypes
<1>5. ASSUME NEW malformed \in BOOLEAN, LoginFails(malformed) PROVE PlaceTypes'
  BY <1>5, Bounds DEF LoginFails, Goto, Fault, Unlock, PlaceTypes
<1>6. CASE ReceiveJob
  BY <1>6, Bounds DEF ReceiveJob, PlaceTypes
<1>7. CASE JobChanClosed
  BY <1>7, Bounds DEF JobChanClosed, Goto, PlaceTypes
<1>8. CASE CheckAlive
  BY <1>8, Bounds DEF CheckAlive, PlaceTypes
<1>9. CASE Redo
  BY <1>9, Bounds DEF Redo, Goto, PlaceTypes
<1>10. CASE StartReturns
  BY <1>10, Bounds DEF StartReturns, Goto, PlaceTypes
<1>11. ASSUME NEW g \in Logins, DispatchRead(g) PROVE PlaceTypes'
  BY <1>11, Streams, Bounds DEF DispatchRead, PlaceTypes, NetTypes, Line
<1>12. ASSUME NEW g \in Logins, DispatchFails(g) PROVE PlaceTypes'
  BY <1>12, Bounds DEF DispatchFails, Fault, PlaceTypes
<1>13. ASSUME NEW g \in Logins, DispatchEnds(g) PROVE PlaceTypes'
  BY <1>13, Bounds DEF DispatchEnds, PlaceTypes
<1>14. CASE FirstJob
  BY <1>14, Bounds DEF FirstJob, PlaceTypes
<1>15. CASE BadFirstJob
  BY <1>15, Bounds DEF BadFirstJob, Fault, PlaceTypes
<1>16. CASE ReadSubmit
  BY <1>16, Bounds DEF ReadSubmit, Goto, PlaceTypes
<1>17. CASE LockConn
  BY <1>17, Bounds DEF LockConn, Goto, PlaceTypes
<1>18. CASE Judged
  BY <1>18, Bounds DEF Judged, Goto, PlaceTypes
<1>19. CASE Banned
  BY <1>19, Bounds DEF Banned, Goto, PlaceTypes
<1>20. CASE SubmitShare
  BY <1>20, Bounds DEF SubmitShare, Goto, PlaceTypes
<1>21. CASE SubmitLock
  BY <1>21, Bounds DEF SubmitLock, PlaceTypes
<1>22. CASE WriteOk
  BY <1>22, Bounds DEF WriteOk, Unlock, PlaceTypes
<1>23. CASE WriteFails
  BY <1>23, Bounds DEF WriteFails, Goto, Fault, Unlock, PlaceTypes
<1>24. ASSUME NEW g \in Logins, ReceiveAnswer(g) PROVE PlaceTypes'
  BY <1>24, Bounds DEF ReceiveAnswer, Goto, PlaceTypes
<1>25. CASE AnswerChanClosed
  BY <1>25, Bounds DEF AnswerChanClosed, Goto, PlaceTypes
<1>26. CASE ReportShare
  BY <1>26, Bounds DEF ReportShare, Goto, PlaceTypes
<1>27. CASE ReadFails
  BY <1>27, Bounds DEF ReadFails, Goto, PlaceTypes
<1>28. CASE ConsumerReceives
  BY <1>28, Bounds DEF ConsumerReceives, PlaceTypes
<1>29. CASE ConsumerLocks
  BY <1>29, Bounds DEF ConsumerLocks, Goto, PlaceTypes
<1>30. CASE PassJob
  BY <1>30, Bounds DEF PassJob, Goto, PlaceTypes
<1>31. CASE BadJob
  BY <1>31, Bounds DEF BadJob, Goto, Fault, PlaceTypes
<1>32. ASSUME NEW a \in Actors, KickNothing(a) PROVE PlaceTypes'
  BY <1>32, Bounds DEF KickNothing, Goto, PlaceTypes
<1>33. ASSUME NEW a \in Actors, KickListed(a) PROVE PlaceTypes'
  BY <1>33, Bounds DEF KickListed, Goto, CloseClient, PlaceTypes
<1>34. ASSUME NEW a \in Actors, NilToConsumer(a) PROVE PlaceTypes'
  BY <1>34, Bounds DEF NilToConsumer, PlaceTypes
<1>35. ASSUME NEW a \in Actors, NilToHandler(a) PROVE PlaceTypes'
  BY <1>35, Bounds DEF NilToHandler, PlaceTypes
<1>36. ASSUME NEW a \in Actors, KickDone(a) PROVE PlaceTypes'
  BY <1>36, Bounds DEF KickDone, PlaceTypes
<1>37. CASE StopAgain
  BY <1>37, Bounds DEF StopAgain, CloseClient, PlaceTypes
<1>38. ASSUME (\E g \in Logins : P2PoolSendsJob(g)) \/ (\E g \in Logins : \E n \in
      unanswered[g] : P2PoolAnswers(g, n)) \/ (\E g \in Logins : P2PoolBreaks(g)) \/ MinerLeaves
      \/ UNCHANGED vars
      PROVE  UNCHANGED <<pc, dpc>>
  BY <1>38 DEF vars, P2PoolSendsJob, P2PoolAnswers, P2PoolBreaks, MinerLeaves, Fault
<1>39. UNCHANGED <<pc, dpc>> => PlaceTypes'
  BY DEF PlaceTypes
<1> QED
  BY <1>1, <1>2, <1>3, <1>4, <1>5, <1>6, <1>7, <1>8, <1>9, <1>10, <1>11, <1>12, <1>13, <1>14,
     <1>15, <1>16, <1>17, <1>18, <1>19, <1>20, <1>21, <1>22, <1>23, <1>24, <1>25, <1>26,
     <1>27, <1>28, <1>29, <1>30, <1>31, <1>32, <1>33, <1>34, <1>35, <1>36, <1>37, <1>38, <1>39
     DEF Next, Start, Handler, SubmitWork, Consumer, DispatchJobs, Kick, P2PoolServer

\* Every step leaves the lock to one at most.
LEMMA StepLockTypes ==
    ASSUME LockTypes, [Next]_vars
    PROVE  LockTypes'
<1> USE DEF netVars, Actors
<1>1. CASE DialFails
  BY <1>1, FS_EmptySet, FS_Singleton DEF DialFails, Goto, Fault, Unlock, LockTypes
<1>2. CASE LoginOk
  BY <1>2, FS_EmptySet, FS_Singleton DEF LoginOk, Goto, Unlock, LockTypes
<1>3. ASSUME NEW malformed \in BOOLEAN, LoginFails(malformed) PROVE LockTypes'
  BY <1>3, FS_EmptySet, FS_Singleton DEF LoginFails, Goto, Fault, Unlock, LockTypes
<1>4. CASE LockConn
  BY <1>4, FS_EmptySet, FS_Singleton DEF LockConn, Goto, LockTypes
<1>5. CASE Judged
  BY <1>5, FS_EmptySet, FS_Singleton DEF Judged, Goto, LockTypes
<1>6. CASE WriteOk
  BY <1>6, FS_EmptySet, FS_Singleton DEF WriteOk, Unlock, LockTypes
<1>7. CASE WriteFails
  BY <1>7, FS_EmptySet, FS_Singleton DEF WriteFails, Goto, Fault, Unlock, LockTypes
<1>8. CASE ReportShare
  BY <1>8, FS_EmptySet, FS_Singleton DEF ReportShare, Goto, LockTypes
<1>9. CASE ConsumerLocks
  BY <1>9, FS_EmptySet, FS_Singleton DEF ConsumerLocks, Goto, LockTypes
<1>10. CASE PassJob
  BY <1>10, FS_EmptySet, FS_Singleton DEF PassJob, Goto, LockTypes
<1>11. ASSUME NEW a \in Actors, KickListed(a) PROVE LockTypes'
  BY <1>11, FS_EmptySet, FS_Singleton DEF KickListed, Goto, CloseClient, LockTypes
<1>12. ASSUME NEW a \in Actors, NilToHandler(a) PROVE LockTypes'
  BY <1>12, FS_EmptySet, FS_Singleton DEF NilToHandler, LockTypes
<1>13. ASSUME NEW a \in Actors, KickDone(a) PROVE LockTypes'
  BY <1>13, FS_EmptySet, FS_Singleton DEF KickDone, LockTypes
<1>14. CASE StopAgain
  BY <1>14, FS_EmptySet, FS_Singleton DEF StopAgain, CloseClient, LockTypes
<1>15. ASSUME ConnectLock \/ DialOk \/ ReceiveJob \/ JobChanClosed \/ CheckAlive \/ Redo \/
      StartReturns \/ (\E g \in Logins : DispatchRead(g)) \/ (\E g \in Logins : DispatchFails(g))
      \/ (\E g \in Logins : DispatchEnds(g)) \/ FirstJob \/ BadFirstJob \/ ReadSubmit \/ Banned
      \/ SubmitShare \/ SubmitLock \/ (\E g \in Logins : ReceiveAnswer(g)) \/ AnswerChanClosed \/
      ReadFails \/ ConsumerReceives \/ BadJob \/ (\E a \in Actors : KickNothing(a)) \/ (\E a \in
      Actors : NilToConsumer(a)) \/ (\E g \in Logins : P2PoolSendsJob(g)) \/ (\E g \in Logins :
      \E n \in unanswered[g] : P2PoolAnswers(g, n)) \/ (\E g \in Logins : P2PoolBreaks(g)) \/
      MinerLeaves \/ UNCHANGED vars
      PROVE  UNCHANGED <<lock, again, crashed>>
  BY <1>15 DEF vars, ConnectLock, DialOk, ReceiveJob, JobChanClosed, CheckAlive, Redo,
     StartReturns, DispatchRead, DispatchFails, DispatchEnds, FirstJob, BadFirstJob,
     ReadSubmit, Banned, SubmitShare, SubmitLock, ReceiveAnswer, AnswerChanClosed, ReadFails,
     ConsumerReceives, BadJob, KickNothing, NilToConsumer, P2PoolSendsJob, P2PoolAnswers,
     P2PoolBreaks, MinerLeaves, Goto, Fault
<1>16. UNCHANGED <<lock, again, crashed>> => LockTypes'
  BY DEF LockTypes
<1> QED
  BY <1>1, <1>2, <1>3, <1>4, <1>5, <1>6, <1>7, <1>8, <1>9, <1>10, <1>11, <1>12, <1>13, <1>14,
     <1>15, <1>16 DEF Next, Start, Handler, SubmitWork, Consumer, DispatchJobs, Kick,
     P2PoolServer

\* The lines p2pool sends are lines, and their numbers are those of jobs and submits.
LEMMA LineTypes ==
    ASSUME CountTypes
    PROVE  /\ used.logins \in 0..MaxLogins /\ used.jobs \in 0..MaxJobs
           /\ LastJob \in Nat /\ LastJob <= MaxJobs + MaxLogins
           /\ Job(LastJob) \in Line /\ Job(LastJob + 1) \in Line
           /\ \A n \in Nat : Answer(n) \in Line
<1>1. used.logins \in 0..MaxLogins /\ used.jobs \in 0..MaxJobs
  BY DEF CountTypes
<1>2. LastJob \in Nat /\ LastJob <= MaxJobs + MaxLogins
  BY <1>1, Bounds DEF LastJob
<1> QED
  BY <1>1, <1>2 DEF Job, Answer, Line

\* Every step keeps the streams' types.
LEMMA StepNetTypes ==
    ASSUME NetTypes, ClientTypes, CountTypes, HeadInHand, ClientInv, [Next]_vars
    PROVE  NetTypes'
<1> USE DEF netVars, Actors
<1>1. CASE DialOk
  BY <1>1, Bounds DEF DialOk, Goto, NetTypes
<1>2. CASE LoginOk
  <2>1. <<Job(LastJob)>> \in Seq(Line)
    BY LineTypes
  <2> QED
    BY <1>2, <2>1 DEF LoginOk, NetTypes
<1>3. CASE ReceiveJob
  <2>1. jobChan \in Logins
    BY <1>3 DEF ReceiveJob, ClientInv, ClientTypes
  <2>2. pipe[jobChan] # <<>> /\ pipe[jobChan] \in Seq(Line)
    BY <1>3, <2>1 DEF ReceiveJob, HeadInHand, NetTypes
  <2>3. Tail(pipe[jobChan]) \in Seq(Line)
    BY <2>2, Streams
  <2> QED
    BY <1>3, <2>1, <2>3 DEF ReceiveJob, NetTypes
<1>4. CASE WriteOk
  <2>1. call.n \in Nat
    BY Bounds DEF ClientTypes
  <2> QED
    BY <1>4, <2>1 DEF WriteOk, NetTypes
<1>5. ASSUME NEW g \in Logins, ReceiveAnswer(g) PROVE NetTypes'
  <2>1. pipe[g] # <<>> /\ pipe[g] \in Seq(Line)
    BY <1>5 DEF ReceiveAnswer, HeadInHand, NetTypes
  <2>2. Tail(pipe[g]) \in Seq(Line)
    BY <2>1, Streams
  <2> QED
    BY <1>5, <2>2 DEF ReceiveAnswer, NetTypes
<1>6. ASSUME NEW a \in Actors, KickListed(a) PROVE NetTypes'
  BY <1>6, Bounds DEF KickListed, Goto, CloseClient, NetTypes
<1>7. CASE StopAgain
  BY <1>7, Bounds DEF StopAgain, CloseClient, NetTypes
<1>8. ASSUME NEW g \in Logins, P2PoolSendsJob(g) PROVE NetTypes'
  <2>1. Append(pipe[g], Job(LastJob + 1)) \in Seq(Line)
    BY LineTypes, Streams DEF NetTypes
  <2> QED
    BY <1>8, <2>1 DEF P2PoolSendsJob, NetTypes
<1>9. ASSUME NEW g \in Logins, NEW n \in unanswered[g], P2PoolAnswers(g, n) PROVE NetTypes'
  <2>1. n \in Nat
    BY <1>9 DEF NetTypes
  <2>2. Append(pipe[g], Answer(n)) \in Seq(Line)
    BY <2>1, LineTypes, Streams DEF NetTypes
  <2> QED
    BY <1>9, <2>2 DEF P2PoolAnswers, NetTypes
<1>10. ASSUME NEW g \in Logins, P2PoolBreaks(g) PROVE NetTypes'
  BY <1>10, Bounds DEF P2PoolBreaks, Fault, NetTypes
<1>11. ASSUME ConnectLock \/ DialFails \/ (\E malformed \in BOOLEAN : LoginFails(malformed))
      \/ JobChanClosed \/ CheckAlive \/ Redo \/ StartReturns \/ (\E g \in Logins :
      DispatchRead(g)) \/ (\E g \in Logins : DispatchFails(g)) \/ (\E g \in Logins :
      DispatchEnds(g)) \/ FirstJob \/ BadFirstJob \/ ReadSubmit \/ LockConn \/ Judged \/ Banned
      \/ SubmitShare \/ SubmitLock \/ WriteFails \/ AnswerChanClosed \/ ReportShare \/ ReadFails
      \/ ConsumerReceives \/ ConsumerLocks \/ PassJob \/ BadJob \/ (\E a \in Actors :
      KickNothing(a)) \/ (\E a \in Actors : NilToConsumer(a)) \/ (\E a \in Actors :
      NilToHandler(a)) \/ (\E a \in Actors : KickDone(a)) \/ MinerLeaves \/ UNCHANGED vars
      PROVE  UNCHANGED <<sock, pipe, unanswered>>
  BY <1>11 DEF vars, ConnectLock, DialFails, LoginFails, JobChanClosed, CheckAlive, Redo,
     StartReturns, DispatchRead, DispatchFails, DispatchEnds, FirstJob, BadFirstJob,
     ReadSubmit, LockConn, Judged, Banned, SubmitShare, SubmitLock, WriteFails,
     AnswerChanClosed, ReportShare, ReadFails, ConsumerReceives, ConsumerLocks, PassJob,
     BadJob, KickNothing, NilToConsumer, NilToHandler, KickDone, MinerLeaves, Goto, Fault,
     Unlock
<1>12. UNCHANGED <<sock, pipe, unanswered>> => NetTypes'
  BY DEF NetTypes
<1> QED
  BY <1>1, <1>2, <1>3, <1>4, <1>5, <1>6, <1>7, <1>8, <1>9, <1>10, <1>11, <1>12 DEF Next,
     Start, Handler, SubmitWork, Consumer, DispatchJobs, Kick, P2PoolServer

\* Every step keeps the Client's type.
LEMMA StepClientTypes ==
    ASSUME NetTypes, ClientTypes, CountTypes, HeadInHand, ClientInv, CallInv, [Next]_vars
    PROVE  ClientTypes'
<1> USE DEF netVars, Actors
<1>1. CASE ConnectLock
  BY <1>1, Bounds DEF ConnectLock, Goto, ClientTypes
<1>2. CASE DialOk
  BY <1>2, Bounds DEF DialOk, Goto, ClientTypes, CountTypes, Logins
<1>3. CASE DialFails
  BY <1>3, Bounds DEF DialFails, Goto, Fault, Unlock, ClientTypes
<1>4. CASE LoginOk
  <2>1. used.logins \in Logins
    BY <1>4 DEF LoginOk, Goto, ClientInv, ClientTypes
  <2> QED
    BY <1>4, <2>1 DEF LoginOk, Unlock, ClientTypes
<1>5. ASSUME NEW malformed \in BOOLEAN, LoginFails(malformed) PROVE ClientTypes'
  <2>1. used.logins \in Logins
    BY <1>5 DEF LoginFails, Goto, ClientInv, ClientTypes
  <2> QED
    BY <1>5, <2>1 DEF LoginFails, Unlock, ClientTypes
<1>6. CASE Redo
  BY <1>6, Bounds DEF Redo, Goto, ClientTypes, NewClient
<1>7. CASE StartReturns
  BY <1>7, Bounds DEF StartReturns, Goto, ClientTypes
<1>8. CASE SubmitShare
  BY <1>8, Bounds DEF SubmitShare, Goto, ClientTypes, NoCall, CountTypes
<1>9. CASE SubmitLock
  BY ZenonT(40), <1>9, Bounds DEF SubmitLock, ClientTypes
<1>10. CASE WriteOk
  BY <1>10, Bounds DEF WriteOk, Unlock, ClientTypes
<1>11. CASE WriteFails
  BY <1>11, Bounds DEF WriteFails, Goto, Fault, Unlock, ClientTypes
<1>12. ASSUME NEW g \in Logins, ReceiveAnswer(g) PROVE ClientTypes'
  <2>1. Head(pipe[g]).n \in Nat
    BY ZenonT(40), <1>12, Streams DEF ReceiveAnswer, HeadInHand, NetTypes
  <2> QED
    BY <1>12, <2>1 DEF ReceiveAnswer, ClientTypes
<1>13. CASE ReportShare
  BY <1>13, Bounds DEF ReportShare, Goto, ClientTypes, NoCall
<1>14. ASSUME ReceiveJob \/ JobChanClosed \/ CheckAlive \/ (\E g \in Logins : DispatchRead(g))
      \/ (\E g \in Logins : DispatchFails(g)) \/ (\E g \in Logins : DispatchEnds(g)) \/ FirstJob
      \/ BadFirstJob \/ ReadSubmit \/ LockConn \/ Judged \/ Banned \/ AnswerChanClosed \/
      ReadFails \/ ConsumerReceives \/ ConsumerLocks \/ PassJob \/ BadJob \/ (\E a \in Actors :
      KickNothing(a)) \/ (\E a \in Actors : KickListed(a)) \/ (\E a \in Actors :
      NilToConsumer(a)) \/ (\E a \in Actors : NilToHandler(a)) \/ (\E a \in Actors : KickDone(a))
      \/ StopAgain \/ (\E g \in Logins : P2PoolSendsJob(g)) \/ (\E g \in Logins : \E n \in
      unanswered[g] : P2PoolAnswers(g, n)) \/ (\E g \in Logins : P2PoolBreaks(g)) \/ MinerLeaves
      \/ UNCHANGED vars
      PROVE  UNCHANGED <<cl, jobChan, call>>
  BY <1>14 DEF vars, ReceiveJob, JobChanClosed, CheckAlive, DispatchRead, DispatchFails,
     DispatchEnds, FirstJob, BadFirstJob, ReadSubmit, LockConn, Judged, Banned,
     AnswerChanClosed, ReadFails, ConsumerReceives, ConsumerLocks, PassJob, BadJob,
     KickNothing, KickListed, NilToConsumer, NilToHandler, KickDone, StopAgain,
     P2PoolSendsJob, P2PoolAnswers, P2PoolBreaks, MinerLeaves, Goto, Fault, CloseClient
<1>15. UNCHANGED <<cl, jobChan, call>> => ClientTypes'
  BY DEF ClientTypes
<1> QED
  BY <1>1, <1>2, <1>3, <1>4, <1>5, <1>6, <1>7, <1>8, <1>9, <1>10, <1>11, <1>12, <1>13, <1>14,
     <1>15 DEF Next, Start, Handler, SubmitWork, Consumer, DispatchJobs, Kick, P2PoolServer

\* Every step passes on jobs that were sent.
LEMMA StepJobTypes ==
    ASSUME NetTypes, ClientTypes, CountTypes, JobTypes, HeadInHand, ClientInv, JobsNumbered,
       [Next]_vars
    PROVE  JobTypes'
<1> USE DEF netVars, Actors
<1>1. CASE ReceiveJob
  <2>1. jobChan \in Logins
    BY <1>1 DEF ReceiveJob, ClientInv, ClientTypes
  <2>2. pipe[jobChan] # <<>> /\ pipe[jobChan] \in Seq(Line) /\ Head(pipe[jobChan]).kind = "job"
    BY <1>1, <2>1 DEF ReceiveJob, HeadInHand, NetTypes
  <2>3. Head(pipe[jobChan]).n \in Nat /\ Head(pipe[jobChan]).n <= LastJob
    BY <2>1, <2>2, Streams DEF JobsNumbered
  <2>4. Head(pipe[jobChan]).n \in 0..(MaxJobs + MaxLogins)
    BY <2>3, LineTypes, Bounds
  <2> QED
    BY <1>1, <2>4 DEF ReceiveJob, JobTypes
<1>2. CASE CheckAlive
  BY <1>2, Bounds DEF CheckAlive, JobTypes
<1>3. CASE FirstJob
  BY <1>3, Bounds DEF FirstJob, JobTypes
<1>4. CASE BadFirstJob
  BY <1>4, Bounds DEF BadFirstJob, Fault, JobTypes
<1>5. CASE ConsumerReceives
  BY <1>5, Bounds DEF ConsumerReceives, JobTypes
<1>6. CASE PassJob
  BY <1>6, Bounds DEF PassJob, Goto, JobTypes
<1>7. CASE BadJob
  BY <1>7, Bounds DEF BadJob, Goto, Fault, JobTypes
<1>8. ASSUME NEW a \in Actors, KickListed(a) PROVE JobTypes'
  BY <1>8, Bounds DEF KickListed, Goto, CloseClient, JobTypes
<1>9. ASSUME NEW a \in Actors, KickDone(a) PROVE JobTypes'
  BY <1>9, Bounds DEF KickDone, JobTypes
<1>10. CASE MinerLeaves
  BY <1>10, Bounds DEF MinerLeaves, JobTypes
<1>11. ASSUME ConnectLock \/ DialOk \/ DialFails \/ LoginOk \/ (\E malformed \in BOOLEAN :
      LoginFails(malformed)) \/ JobChanClosed \/ Redo \/ StartReturns \/ (\E g \in Logins :
      DispatchRead(g)) \/ (\E g \in Logins : DispatchFails(g)) \/ (\E g \in Logins :
      DispatchEnds(g)) \/ ReadSubmit \/ LockConn \/ Judged \/ Banned \/ SubmitShare \/ SubmitLock
      \/ WriteOk \/ WriteFails \/ (\E g \in Logins : ReceiveAnswer(g)) \/ AnswerChanClosed \/
      ReportShare \/ ReadFails \/ ConsumerLocks \/ (\E a \in Actors : KickNothing(a)) \/ (\E a
      \in Actors : NilToConsumer(a)) \/ (\E a \in Actors : NilToHandler(a)) \/ StopAgain \/ (\E g
      \in Logins : P2PoolSendsJob(g)) \/ (\E g \in Logins : \E n \in unanswered[g] :
      P2PoolAnswers(g, n)) \/ (\E g \in Logins : P2PoolBreaks(g)) \/ UNCHANGED vars
      PROVE  UNCHANGED <<inHand, miner>>
  BY <1>11 DEF vars, ConnectLock, DialOk, DialFails, LoginOk, LoginFails, JobChanClosed, Redo,
     StartReturns, DispatchRead, DispatchFails, DispatchEnds, ReadSubmit, LockConn, Judged,
     Banned, SubmitShare, SubmitLock, WriteOk, WriteFails, ReceiveAnswer, AnswerChanClosed,
     ReportShare, ReadFails, ConsumerLocks, KickNothing, NilToConsumer, NilToHandler,
     StopAgain, P2PoolSendsJob, P2PoolAnswers, P2PoolBreaks, Goto, Fault, Unlock, CloseClient
<1>12. UNCHANGED <<inHand, miner>> => JobTypes'
  BY DEF JobTypes
<1> QED
  BY <1>1, <1>2, <1>3, <1>4, <1>5, <1>6, <1>7, <1>8, <1>9, <1>10, <1>11, <1>12 DEF Next,
     Start, Handler, SubmitWork, Consumer, DispatchJobs, Kick, P2PoolServer

-----------------------------------------------------------------------------
(* The Client and the calls.                                               *)

\* Every step of Start leaves the Client as its next step expects it.
LEMMA StepClient ==
    ASSUME PlaceTypes, ClientTypes, CountTypes, ClientInv, [Next]_vars
    PROVE  ClientInv'
<1> USE DEF netVars, Actors
<1>1. CASE ConnectLock
  BY <1>1, Bounds DEF ConnectLock, Goto, ClientInv, PlaceTypes, ClientTypes, CountTypes
<1>2. CASE DialOk
  BY <1>2, Bounds DEF DialOk, Goto, ClientInv, PlaceTypes, ClientTypes, CountTypes
<1>3. CASE DialFails
  BY <1>3, Bounds DEF DialFails, Goto, Fault, Unlock, ClientInv, PlaceTypes, ClientTypes,
     CountTypes
<1>4. CASE LoginOk
  BY <1>4, Bounds DEF LoginOk, Goto, Unlock, ClientInv, PlaceTypes, ClientTypes, CountTypes
<1>5. ASSUME NEW malformed \in BOOLEAN, LoginFails(malformed) PROVE ClientInv'
  BY <1>5, Bounds DEF LoginFails, Goto, Fault, Unlock, ClientInv, PlaceTypes, ClientTypes,
     CountTypes
<1>6. CASE ReceiveJob
  BY <1>6, Bounds DEF ReceiveJob, ClientInv, PlaceTypes, ClientTypes, CountTypes
<1>7. CASE JobChanClosed
  BY <1>7, Bounds DEF JobChanClosed, Goto, ClientInv, PlaceTypes, ClientTypes, CountTypes
<1>8. CASE CheckAlive
  BY <1>8, Bounds DEF CheckAlive, ClientInv, PlaceTypes, ClientTypes, CountTypes
<1>9. CASE Redo
  BY <1>9, Bounds DEF Redo, Goto, ClientInv, PlaceTypes, ClientTypes, CountTypes, NewClient
<1>10. CASE StartReturns
  BY <1>10, Bounds DEF StartReturns, Goto, ClientInv, PlaceTypes, ClientTypes, CountTypes
<1>11. CASE FirstJob
  BY <1>11, Bounds DEF FirstJob, ClientInv, PlaceTypes, ClientTypes, CountTypes
<1>12. CASE BadFirstJob
  BY <1>12, Bounds DEF BadFirstJob, Fault, ClientInv, PlaceTypes, ClientTypes, CountTypes
<1>13. CASE ConsumerReceives
  BY <1>13, Bounds DEF ConsumerReceives, ClientInv, PlaceTypes, ClientTypes, CountTypes
<1>14. ASSUME NEW a \in Actors, KickNothing(a) PROVE ClientInv'
  BY <1>14, Bounds DEF KickNothing, Goto, ClientInv, PlaceTypes, ClientTypes, CountTypes
<1>15. ASSUME NEW a \in Actors, KickListed(a) PROVE ClientInv'
  BY <1>15, Bounds DEF KickListed, Goto, CloseClient, ClientInv, PlaceTypes, ClientTypes,
     CountTypes
<1>16. ASSUME NEW a \in Actors, NilToConsumer(a) PROVE ClientInv'
  BY <1>16, Bounds DEF NilToConsumer, ClientInv, PlaceTypes, ClientTypes, CountTypes
<1>17. ASSUME NEW a \in Actors, NilToHandler(a) PROVE ClientInv'
  BY <1>17, Bounds DEF NilToHandler, ClientInv, PlaceTypes, ClientTypes, CountTypes
<1>18. ASSUME NEW a \in Actors, KickDone(a) PROVE ClientInv'
  BY <1>18, Bounds DEF KickDone, ClientInv, PlaceTypes, ClientTypes, CountTypes
<1>19. ASSUME (\E g \in Logins : DispatchRead(g)) \/ (\E g \in Logins : DispatchFails(g)) \/
      (\E g \in Logins : DispatchEnds(g)) \/ ReadSubmit \/ LockConn \/ Judged \/ Banned \/
      SubmitShare \/ SubmitLock \/ WriteOk \/ WriteFails \/ (\E g \in Logins : ReceiveAnswer(g))
      \/ AnswerChanClosed \/ ReportShare \/ ReadFails \/ ConsumerLocks \/ PassJob \/ BadJob \/
      StopAgain \/ (\E g \in Logins : P2PoolSendsJob(g)) \/ (\E g \in Logins : \E n \in
      unanswered[g] : P2PoolAnswers(g, n)) \/ (\E g \in Logins : P2PoolBreaks(g)) \/ MinerLeaves
      \/ UNCHANGED vars
      PROVE  UNCHANGED <<pc["start"], cl.conn, cl.resp, cl.alive, used.logins, jobChan>>
  BY <1>19 DEF vars, PlaceTypes, ClientTypes, CountTypes, DispatchRead, DispatchFails,
     DispatchEnds, ReadSubmit, LockConn, Judged, Banned, SubmitShare, SubmitLock, WriteOk,
     WriteFails, ReceiveAnswer, AnswerChanClosed, ReportShare, ReadFails, ConsumerLocks,
     PassJob, BadJob, StopAgain, P2PoolSendsJob, P2PoolAnswers, P2PoolBreaks, MinerLeaves,
     Fault, Goto, Unlock, CloseClient
<1>20. UNCHANGED <<pc["start"], cl.conn, cl.resp, cl.alive, used.logins, jobChan>> =>
      ClientInv'
  BY DEF ClientInv, PlaceTypes, ClientTypes, CountTypes
<1> QED
  BY <1>1, <1>2, <1>3, <1>4, <1>5, <1>6, <1>7, <1>8, <1>9, <1>10, <1>11, <1>12, <1>13, <1>14,
     <1>15, <1>16, <1>17, <1>18, <1>19, <1>20 DEF Next, Start, Handler, SubmitWork, Consumer,
     DispatchJobs, Kick, P2PoolServer

\* Every step leaves a call with the login it was made with.
LEMMA StepCall ==
    ASSUME PlaceTypes, ClientTypes, CountTypes, ClientInv, CallInv, [Next]_vars
    PROVE  CallInv'
<1> USE DEF netVars, Actors
<1>1. CASE ConnectLock
  BY <1>1, Bounds DEF ConnectLock, Goto, CallInv, Stale, PlaceTypes, ClientTypes, CountTypes
<1>2. CASE DialOk
  BY <1>2, Bounds DEF DialOk, Goto, CallInv, Stale, PlaceTypes, ClientTypes, CountTypes,
     ClientInv
<1>3. CASE DialFails
  BY <1>3, Bounds DEF DialFails, Goto, Fault, Unlock, CallInv, Stale, PlaceTypes, ClientTypes,
     CountTypes
<1>4. CASE LoginOk
  BY <1>4, Bounds DEF LoginOk, Goto, Unlock, CallInv, Stale, PlaceTypes, ClientTypes,
     CountTypes, ClientInv
<1>5. ASSUME NEW malformed \in BOOLEAN, LoginFails(malformed) PROVE CallInv'
  BY <1>5, Bounds DEF LoginFails, Goto, Fault, Unlock, CallInv, Stale, PlaceTypes,
     ClientTypes, CountTypes, ClientInv
<1>6. CASE ReceiveJob
  BY <1>6, Bounds DEF ReceiveJob, CallInv, Stale, PlaceTypes, ClientTypes, CountTypes
<1>7. CASE JobChanClosed
  BY <1>7, Bounds DEF JobChanClosed, Goto, CallInv, Stale, PlaceTypes, ClientTypes, CountTypes
<1>8. CASE CheckAlive
  BY <1>8, Bounds DEF CheckAlive, CallInv, Stale, PlaceTypes, ClientTypes, CountTypes
<1>9. CASE Redo
  BY <1>9, Bounds DEF Redo, Goto, CallInv, Stale, PlaceTypes, ClientTypes, CountTypes,
     NewClient, ClientInv
<1>10. CASE StartReturns
  BY <1>10, Bounds DEF StartReturns, Goto, CallInv, Stale, PlaceTypes, ClientTypes, CountTypes
<1>11. CASE FirstJob
  BY <1>11, Bounds DEF FirstJob, CallInv, Stale, PlaceTypes, ClientTypes, CountTypes
<1>12. CASE BadFirstJob
  BY <1>12, Bounds DEF BadFirstJob, Fault, CallInv, Stale, PlaceTypes, ClientTypes, CountTypes
<1>13. CASE ReadSubmit
  BY <1>13, Bounds DEF ReadSubmit, Goto, CallInv, Stale, PlaceTypes, ClientTypes, CountTypes
<1>14. CASE LockConn
  BY <1>14, Bounds DEF LockConn, Goto, CallInv, Stale, PlaceTypes, ClientTypes, CountTypes
<1>15. CASE Judged
  BY <1>15, Bounds DEF Judged, Goto, CallInv, Stale, PlaceTypes, ClientTypes, CountTypes
<1>16. CASE Banned
  BY <1>16, Bounds DEF Banned, Goto, CallInv, Stale, PlaceTypes, ClientTypes, CountTypes
<1>17. CASE SubmitShare
  BY <1>17, Bounds DEF SubmitShare, Goto, CallInv, Stale, PlaceTypes, ClientTypes, CountTypes,
     NoCall, ClientInv
<1>18. CASE SubmitLock
  BY <1>18, Bounds DEF SubmitLock, CallInv, Stale, PlaceTypes, ClientTypes, CountTypes,
     ClientInv
<1>19. CASE WriteOk
  BY <1>19, Bounds DEF WriteOk, Unlock, CallInv, Stale, PlaceTypes, ClientTypes, CountTypes,
     ClientInv
<1>20. CASE WriteFails
  BY <1>20, Bounds DEF WriteFails, Goto, Fault, Unlock, CallInv, Stale, PlaceTypes,
     ClientTypes, CountTypes
<1>21. ASSUME NEW g \in Logins, ReceiveAnswer(g) PROVE CallInv'
  BY <1>21, Bounds DEF ReceiveAnswer, Goto, CallInv, Stale, PlaceTypes, ClientTypes,
     CountTypes
<1>22. CASE AnswerChanClosed
  BY <1>22, Bounds DEF AnswerChanClosed, Goto, CallInv, Stale, PlaceTypes, ClientTypes,
     CountTypes
<1>23. CASE ReportShare
  BY <1>23, Bounds DEF ReportShare, Goto, CallInv, Stale, PlaceTypes, ClientTypes, CountTypes,
     NoCall, ClientInv
<1>24. CASE ReadFails
  BY <1>24, Bounds DEF ReadFails, Goto, CallInv, Stale, PlaceTypes, ClientTypes, CountTypes
<1>25. CASE ConsumerReceives
  BY <1>25, Bounds DEF ConsumerReceives, CallInv, Stale, PlaceTypes, ClientTypes, CountTypes
<1>26. ASSUME NEW a \in Actors, KickNothing(a) PROVE CallInv'
  BY <1>26, Bounds DEF KickNothing, Goto, CallInv, Stale, PlaceTypes, ClientTypes, CountTypes
<1>27. ASSUME NEW a \in Actors, KickListed(a) PROVE CallInv'
  BY <1>27, Bounds DEF KickListed, Goto, CloseClient, CallInv, Stale, PlaceTypes, ClientTypes,
     CountTypes
<1>28. ASSUME NEW a \in Actors, NilToConsumer(a) PROVE CallInv'
  BY <1>28, Bounds DEF NilToConsumer, CallInv, Stale, PlaceTypes, ClientTypes, CountTypes
<1>29. ASSUME NEW a \in Actors, NilToHandler(a) PROVE CallInv'
  BY <1>29, Bounds DEF NilToHandler, CallInv, Stale, PlaceTypes, ClientTypes, CountTypes
<1>30. ASSUME NEW a \in Actors, KickDone(a) PROVE CallInv'
  BY <1>30, Bounds DEF KickDone, CallInv, Stale, PlaceTypes, ClientTypes, CountTypes
<1>31. CASE StopAgain
  BY <1>31, Bounds DEF StopAgain, CloseClient, CallInv, Stale, PlaceTypes, ClientTypes,
     CountTypes
<1>32. ASSUME (\E g \in Logins : DispatchRead(g)) \/ (\E g \in Logins : DispatchFails(g)) \/
      (\E g \in Logins : DispatchEnds(g)) \/ ConsumerLocks \/ PassJob \/ BadJob \/ (\E g \in
      Logins : P2PoolSendsJob(g)) \/ (\E g \in Logins : \E n \in unanswered[g] : P2PoolAnswers(g,
      n)) \/ (\E g \in Logins : P2PoolBreaks(g)) \/ MinerLeaves \/ UNCHANGED vars
      PROVE  UNCHANGED <<pc["start"], pc["handler"], call, used.logins, cl.resp>>
  BY <1>32 DEF vars, PlaceTypes, ClientTypes, CountTypes, DispatchRead, DispatchFails,
     DispatchEnds, ConsumerLocks, PassJob, BadJob, P2PoolSendsJob, P2PoolAnswers,
     P2PoolBreaks, MinerLeaves, Fault, Goto
<1>33. UNCHANGED <<pc["start"], pc["handler"], call, used.logins, cl.resp>> => CallInv'
  BY DEF CallInv, Stale, PlaceTypes, ClientTypes, CountTypes
<1> QED
  BY <1>1, <1>2, <1>3, <1>4, <1>5, <1>6, <1>7, <1>8, <1>9, <1>10, <1>11, <1>12, <1>13, <1>14,
     <1>15, <1>16, <1>17, <1>18, <1>19, <1>20, <1>21, <1>22, <1>23, <1>24, <1>25, <1>26,
     <1>27, <1>28, <1>29, <1>30, <1>31, <1>32, <1>33 DEF Next, Start, Handler, SubmitWork,
     Consumer, DispatchJobs, Kick, P2PoolServer

-----------------------------------------------------------------------------
(* The streams.                                                            *)

\* Every step leaves later logins alone.
LEMMA StepUntouched ==
    ASSUME PlaceTypes, ClientTypes, CountTypes, NetTypes, ClientInv, CallInv, Untouched,
       [Next]_vars
    PROVE  Untouched'
<1> USE DEF netVars, Actors
<1>1. CASE ConnectLock
  BY <1>1, Bounds DEF ConnectLock, Goto, Untouched, PlaceTypes, CountTypes
<1>2. CASE DialOk
  BY <1>2, Bounds DEF DialOk, Goto, Untouched, PlaceTypes, CountTypes
<1>3. CASE DialFails
  BY <1>3, Bounds DEF DialFails, Goto, Fault, Unlock, Untouched, PlaceTypes, CountTypes
<1>4. CASE LoginOk
  BY <1>4, Bounds DEF LoginOk, Goto, Unlock, Untouched, PlaceTypes, CountTypes, NetTypes
<1>5. ASSUME NEW malformed \in BOOLEAN, LoginFails(malformed) PROVE Untouched'
  BY <1>5, Bounds DEF LoginFails, Goto, Fault, Unlock, Untouched, PlaceTypes, CountTypes
<1>6. CASE ReceiveJob
  BY <1>6, Bounds DEF ReceiveJob, Untouched, PlaceTypes, CountTypes, ClientTypes, ClientInv,
     NetTypes
<1>7. CASE JobChanClosed
  BY <1>7, Bounds DEF JobChanClosed, Goto, Untouched, PlaceTypes, CountTypes
<1>8. CASE CheckAlive
  BY <1>8, Bounds DEF CheckAlive, Untouched, PlaceTypes, CountTypes
<1>9. CASE Redo
  BY <1>9, Bounds DEF Redo, Goto, Untouched, PlaceTypes, CountTypes
<1>10. CASE StartReturns
  BY <1>10, Bounds DEF StartReturns, Goto, Untouched, PlaceTypes, CountTypes
<1>11. ASSUME NEW g \in Logins, DispatchRead(g) PROVE Untouched'
  BY <1>11, Bounds DEF DispatchRead, Untouched, PlaceTypes, CountTypes
<1>12. ASSUME NEW g \in Logins, DispatchFails(g) PROVE Untouched'
  BY <1>12, Bounds DEF DispatchFails, Fault, Untouched, PlaceTypes, CountTypes
<1>13. ASSUME NEW g \in Logins, DispatchEnds(g) PROVE Untouched'
  BY <1>13, Bounds DEF DispatchEnds, Untouched, PlaceTypes, CountTypes
<1>14. CASE FirstJob
  BY <1>14, Bounds DEF FirstJob, Untouched, PlaceTypes, CountTypes
<1>15. CASE BadFirstJob
  BY <1>15, Bounds DEF BadFirstJob, Fault, Untouched, PlaceTypes, CountTypes
<1>16. CASE WriteOk
  BY SMTT(20), <1>16, Bounds DEF WriteOk, Unlock, Untouched, PlaceTypes, CountTypes, CallInv,
     ClientTypes, NetTypes
<1>17. ASSUME NEW g \in Logins, ReceiveAnswer(g) PROVE Untouched'
  BY <1>17, Bounds DEF ReceiveAnswer, Goto, Untouched, PlaceTypes, CountTypes, NetTypes
<1>18. CASE ConsumerReceives
  BY <1>18, Bounds DEF ConsumerReceives, Untouched, PlaceTypes, CountTypes
<1>19. ASSUME NEW a \in Actors, KickNothing(a) PROVE Untouched'
  BY <1>19, Bounds DEF KickNothing, Goto, Untouched, PlaceTypes, CountTypes
<1>20. ASSUME NEW a \in Actors, KickListed(a) PROVE Untouched'
  BY <1>20, Bounds DEF KickListed, Goto, CloseClient, Untouched, PlaceTypes, CountTypes
<1>21. ASSUME NEW a \in Actors, NilToConsumer(a) PROVE Untouched'
  BY <1>21, Bounds DEF NilToConsumer, Untouched, PlaceTypes, CountTypes
<1>22. ASSUME NEW a \in Actors, NilToHandler(a) PROVE Untouched'
  BY <1>22, Bounds DEF NilToHandler, Untouched, PlaceTypes, CountTypes
<1>23. ASSUME NEW a \in Actors, KickDone(a) PROVE Untouched'
  BY <1>23, Bounds DEF KickDone, Untouched, PlaceTypes, CountTypes
<1>24. ASSUME NEW g \in Logins, P2PoolSendsJob(g) PROVE Untouched'
  BY <1>24, Bounds DEF P2PoolSendsJob, Untouched, PlaceTypes, CountTypes, NetTypes
<1>25. ASSUME NEW g \in Logins, NEW n \in unanswered[g], P2PoolAnswers(g, n) PROVE Untouched'
  BY <1>25, Bounds DEF P2PoolAnswers, Untouched, PlaceTypes, CountTypes, NetTypes
<1>26. ASSUME ReadSubmit \/ LockConn \/ Judged \/ Banned \/ SubmitShare \/ SubmitLock \/
      WriteFails \/ AnswerChanClosed \/ ReportShare \/ ReadFails \/ ConsumerLocks \/ PassJob \/
      BadJob \/ StopAgain \/ (\E g \in Logins : P2PoolBreaks(g)) \/ MinerLeaves \/ UNCHANGED vars
      PROVE  UNCHANGED <<pc["start"], used.logins, dpc, unanswered, pipe>>
  BY <1>26 DEF vars, PlaceTypes, ClientTypes, CountTypes, ReadSubmit, LockConn, Judged,
     Banned, SubmitShare, SubmitLock, WriteFails, AnswerChanClosed, ReportShare, ReadFails,
     ConsumerLocks, PassJob, BadJob, StopAgain, P2PoolBreaks, MinerLeaves, Goto, Fault,
     Unlock, CloseClient
<1>27. UNCHANGED <<pc["start"], used.logins, dpc, unanswered, pipe>> => Untouched'
  BY DEF Untouched, PlaceTypes, CountTypes
<1> QED
  BY <1>1, <1>2, <1>3, <1>4, <1>5, <1>6, <1>7, <1>8, <1>9, <1>10, <1>11, <1>12, <1>13, <1>14,
     <1>15, <1>16, <1>17, <1>18, <1>19, <1>20, <1>21, <1>22, <1>23, <1>24, <1>25, <1>26, <1>27
     DEF Next, Start, Handler, SubmitWork, Consumer, DispatchJobs, Kick, P2PoolServer

\* Every step of dispatchJobs takes the line at the head.
LEMMA StepHead ==
    ASSUME PlaceTypes, ClientTypes, CountTypes, NetTypes, ClientInv, HeadInHand, [Next]_vars
    PROVE  HeadInHand'
<1> USE DEF netVars, Actors
<1>1. CASE LoginOk
  BY <1>1, Bounds DEF LoginOk, Goto, Unlock, HeadInHand, PlaceTypes, NetTypes, Job
<1>2. CASE ReceiveJob
  BY <1>2, Streams, Bounds DEF ReceiveJob, HeadInHand, PlaceTypes, NetTypes, ClientTypes,
     ClientInv
<1>3. ASSUME NEW g \in Logins, DispatchRead(g) PROVE HeadInHand'
  <2>1. Head(pipe[g]).kind \in {"job", "answer"}
    <3>1. Head(pipe[g]) \in Line
      BY <1>3, Streams DEF DispatchRead, NetTypes
    <3> QED
      BY <3>1 DEF Line
  <2> QED
    BY <1>3, <2>1 DEF DispatchRead, HeadInHand, PlaceTypes
<1>4. ASSUME NEW g \in Logins, DispatchFails(g) PROVE HeadInHand'
  BY <1>4, Bounds DEF DispatchFails, Fault, HeadInHand, PlaceTypes, NetTypes
<1>5. ASSUME NEW g \in Logins, DispatchEnds(g) PROVE HeadInHand'
  BY <1>5, Bounds DEF DispatchEnds, HeadInHand, PlaceTypes, NetTypes
<1>6. ASSUME NEW g \in Logins, ReceiveAnswer(g) PROVE HeadInHand'
  BY <1>6, Streams, Bounds DEF ReceiveAnswer, Goto, HeadInHand, PlaceTypes, NetTypes
<1>7. ASSUME NEW g \in Logins, P2PoolSendsJob(g) PROVE HeadInHand'
  <2>1. /\ pipe[g] \in Seq(Line) /\ Job(LastJob + 1) \in Line /\ UNCHANGED dpc
        /\ pipe' = [pipe EXCEPT ![g] = Append(pipe[g], Job(LastJob + 1))]
    BY <1>7, LineTypes DEF P2PoolSendsJob, NetTypes
  <2>2. /\ pipe'[g] = Append(pipe[g], Job(LastJob + 1))
        /\ \A h \in Logins \ {g} : pipe'[h] = pipe[h]
    BY <2>1 DEF NetTypes
  <2>3. pipe'[g] # <<>> /\ (pipe[g] # <<>> => Head(pipe'[g]) = Head(pipe[g]))
    BY <2>1, <2>2, Streams
  <2> QED
    BY <2>1, <2>2, <2>3 DEF HeadInHand
<1>8. ASSUME NEW g \in Logins, NEW n \in unanswered[g], P2PoolAnswers(g, n) PROVE HeadInHand'
  BY SMTT(20), <1>8, Streams, LineTypes, Bounds DEF P2PoolAnswers, HeadInHand, PlaceTypes, NetTypes
<1>9. ASSUME ConnectLock \/ DialOk \/ DialFails \/ (\E malformed \in BOOLEAN :
      LoginFails(malformed)) \/ JobChanClosed \/ CheckAlive \/ Redo \/ StartReturns \/ FirstJob
      \/ BadFirstJob \/ ReadSubmit \/ LockConn \/ Judged \/ Banned \/ SubmitShare \/ SubmitLock
      \/ WriteOk \/ WriteFails \/ AnswerChanClosed \/ ReportShare \/ ReadFails \/
      ConsumerReceives \/ ConsumerLocks \/ PassJob \/ BadJob \/ (\E a \in Actors :
      KickNothing(a)) \/ (\E a \in Actors : KickListed(a)) \/ (\E a \in Actors :
      NilToConsumer(a)) \/ (\E a \in Actors : NilToHandler(a)) \/ (\E a \in Actors : KickDone(a))
      \/ StopAgain \/ (\E g \in Logins : P2PoolBreaks(g)) \/ MinerLeaves \/ UNCHANGED vars
      PROVE  UNCHANGED <<dpc, pipe>>
  BY <1>9 DEF vars, PlaceTypes, ConnectLock, DialOk, DialFails, LoginFails, JobChanClosed,
     CheckAlive, Redo, StartReturns, FirstJob, BadFirstJob, ReadSubmit, LockConn, Judged,
     Banned, SubmitShare, SubmitLock, WriteOk, WriteFails, AnswerChanClosed, ReportShare,
     ReadFails, ConsumerReceives, ConsumerLocks, PassJob, BadJob, KickNothing, KickListed,
     NilToConsumer, NilToHandler, KickDone, StopAgain, P2PoolBreaks, MinerLeaves, Goto, Fault,
     Unlock, CloseClient
<1>10. UNCHANGED <<dpc, pipe>> => HeadInHand'
  BY DEF HeadInHand, PlaceTypes, NetTypes
<1> QED
  BY <1>1, <1>2, <1>3, <1>4, <1>5, <1>6, <1>7, <1>8, <1>9, <1>10 DEF Next, Start, Handler,
     SubmitWork, Consumer, DispatchJobs, Kick, P2PoolServer

\* Every step numbers the jobs.
LEMMA StepNumbered ==
    ASSUME PlaceTypes, ClientTypes, CountTypes, NetTypes, ClientInv, HeadInHand, JobsNumbered,
       [Next]_vars
    PROVE  JobsNumbered'
<1> USE DEF netVars, Actors
<1>1. CASE DialOk
  <2>1. LastJob' = LastJob + 1 /\ LastJob \in Nat /\ UNCHANGED pipe
    BY <1>1, LineTypes DEF DialOk, LastJob, CountTypes
  <2>2. \A g \in Logins : \A i \in 1..Len(pipe[g]) : pipe[g][i].n \in Nat
    BY Streams DEF NetTypes
  <2> QED
    BY <2>1, <2>2 DEF JobsNumbered
<1>2. CASE LoginOk
  <2>1. /\ used.logins \in Logins /\ LastJob' = LastJob /\ LastJob \in Nat
        /\ pipe' = [pipe EXCEPT ![used.logins] = <<Job(LastJob)>>]
    BY <1>2, LineTypes DEF LoginOk, Goto, LastJob, ClientInv, ClientTypes
  <2> QED
    BY <2>1 DEF JobsNumbered, NetTypes, Job
<1>3. CASE ReceiveJob
  <2>1. jobChan \in Logins /\ LastJob' = LastJob
    BY <1>3 DEF ReceiveJob, ClientInv, ClientTypes, LastJob
  <2>2. pipe[jobChan] # <<>> /\ pipe[jobChan] \in Seq(Line)
    BY <1>3, <2>1 DEF ReceiveJob, HeadInHand, NetTypes
  <2>3. pipe' = [pipe EXCEPT ![jobChan] = Tail(pipe[jobChan])]
    BY <1>3 DEF ReceiveJob
  <2> QED
    BY <2>1, <2>2, <2>3, Streams DEF JobsNumbered, NetTypes
<1>4. ASSUME NEW g \in Logins, ReceiveAnswer(g) PROVE JobsNumbered'
  <2>1. LastJob' = LastJob /\ pipe' = [pipe EXCEPT ![g] = Tail(pipe[g])]
    BY <1>4 DEF ReceiveAnswer, LastJob
  <2>2. pipe[g] # <<>> /\ pipe[g] \in Seq(Line)
    BY <1>4 DEF ReceiveAnswer, HeadInHand, NetTypes
  <2> QED
    BY <2>1, <2>2, Streams DEF JobsNumbered, NetTypes
<1>5. ASSUME NEW g \in Logins, P2PoolSendsJob(g) PROVE JobsNumbered'
  <2>1. LastJob' = LastJob + 1 /\ LastJob \in Nat
    BY <1>5, LineTypes DEF P2PoolSendsJob, LastJob, CountTypes
  <2>2. /\ pipe[g] \in Seq(Line) /\ Job(LastJob + 1) \in Line
        /\ pipe' = [pipe EXCEPT ![g] = Append(pipe[g], Job(LastJob + 1))]
    BY <1>5, LineTypes DEF P2PoolSendsJob, NetTypes
  <2>3. \A h \in Logins : \A i \in 1..Len(pipe[h]) : pipe[h][i].n \in Nat
    BY Streams DEF NetTypes
  <2>4. ASSUME NEW h \in Logins, NEW i \in 1..Len(pipe'[h]), pipe'[h][i].kind = "job"
        PROVE  pipe'[h][i].n <= LastJob'
    <3>1. CASE h # g \/ i \in 1..Len(pipe[g])
      BY <2>1, <2>2, <2>3, <2>4, <3>1, Streams DEF JobsNumbered, NetTypes
    <3>2. CASE h = g /\ i = Len(pipe[g]) + 1
      BY <2>1, <2>2, <3>2, Streams DEF NetTypes, Job
    <3> QED
      BY <2>2, <3>1, <3>2, Streams DEF NetTypes
  <2> QED
    BY <2>4 DEF JobsNumbered
<1>6. ASSUME NEW g \in Logins, NEW n \in unanswered[g], P2PoolAnswers(g, n) PROVE JobsNumbered'
  <2>1. LastJob' = LastJob /\ n \in Nat
    BY <1>6 DEF P2PoolAnswers, LastJob, NetTypes
  <2>2. /\ pipe[g] \in Seq(Line) /\ Answer(n) \in Line
        /\ pipe' = [pipe EXCEPT ![g] = Append(pipe[g], Answer(n))]
    BY <1>6, <2>1, LineTypes DEF P2PoolAnswers, NetTypes
  <2>3. ASSUME NEW h \in Logins, NEW i \in 1..Len(pipe'[h]), pipe'[h][i].kind = "job"
        PROVE  pipe'[h][i].n <= LastJob'
    <3>1. CASE h # g \/ i \in 1..Len(pipe[g])
      BY <2>1, <2>2, <2>3, <3>1, Streams DEF JobsNumbered, NetTypes
    <3>2. CASE h = g /\ i = Len(pipe[g]) + 1
      BY <2>2, <2>3, <3>2, Streams DEF NetTypes, Answer
    <3> QED
      BY <2>2, <3>1, <3>2, Streams DEF NetTypes
  <2> QED
    BY <2>3 DEF JobsNumbered
<1>7. ASSUME ConnectLock \/ DialFails \/ (\E malformed \in BOOLEAN : LoginFails(malformed)) \/
      JobChanClosed \/ CheckAlive \/ Redo \/ StartReturns \/ (\E g \in Logins : DispatchRead(g))
      \/ (\E g \in Logins : DispatchFails(g)) \/ (\E g \in Logins : DispatchEnds(g)) \/ FirstJob
      \/ BadFirstJob \/ ReadSubmit \/ LockConn \/ Judged \/ Banned \/ SubmitShare \/ SubmitLock
      \/ WriteOk \/ WriteFails \/ AnswerChanClosed \/ ReportShare \/ ReadFails \/
      ConsumerReceives \/ ConsumerLocks \/ PassJob \/ BadJob \/ (\E a \in Actors :
      KickNothing(a)) \/ (\E a \in Actors : KickListed(a)) \/ (\E a \in Actors :
      NilToConsumer(a)) \/ (\E a \in Actors : NilToHandler(a)) \/ (\E a \in Actors : KickDone(a))
      \/ StopAgain \/ (\E g \in Logins : P2PoolBreaks(g)) \/ MinerLeaves \/ UNCHANGED vars
      PROVE  UNCHANGED <<pipe, used.logins, used.jobs>>
  BY <1>7 DEF vars, PlaceTypes, ClientTypes, CountTypes, ConnectLock, DialFails, LoginFails,
     JobChanClosed, CheckAlive, Redo, StartReturns, DispatchRead, DispatchFails, DispatchEnds,
     FirstJob, BadFirstJob, ReadSubmit, LockConn, Judged, Banned, SubmitShare, SubmitLock,
     WriteOk, WriteFails, AnswerChanClosed, ReportShare, ReadFails, ConsumerReceives,
     ConsumerLocks, PassJob, BadJob, KickNothing, KickListed, NilToConsumer, NilToHandler,
     KickDone, StopAgain, P2PoolBreaks, MinerLeaves, Goto, Fault, Unlock, CloseClient
<1>8. UNCHANGED <<pipe, used.logins, used.jobs>> => JobsNumbered'
  BY DEF JobsNumbered, LastJob
<1> QED
  BY <1>1, <1>2, <1>3, <1>4, <1>5, <1>6, <1>7, <1>8 DEF Next, Start, Handler, SubmitWork,
     Consumer, DispatchJobs, Kick, P2PoolServer

-----------------------------------------------------------------------------
(* The answers.                                                            *)

\* What is left when the first line has been taken.
LEMMA AnswersInTail ==
    ASSUME NEW s \in Seq(Line), s # <<>>
    PROVE  /\ \A i \in AnswersIn(Tail(s)) : i + 1 \in AnswersIn(s) /\ Tail(s)[i] = s[i + 1]
           /\ AnswersIn(s) = {} => AnswersIn(Tail(s)) = {}
           /\ Head(s).kind = "answer" => 1 \in AnswersIn(s)
<1>1. ASSUME NEW i \in AnswersIn(Tail(s))
      PROVE  i + 1 \in AnswersIn(s) /\ Tail(s)[i] = s[i + 1]
  <2>1. i \in 1..Len(Tail(s)) /\ Tail(s)[i].kind = "answer"
    BY DEF AnswersIn
  <2>2. Tail(s)[i] = s[i + 1] /\ i + 1 \in 1..Len(s)
    BY <2>1, Streams
  <2> QED
    BY <2>1, <2>2 DEF AnswersIn
<1>2. Head(s).kind = "answer" => 1 \in AnswersIn(s)
  BY Streams DEF AnswersIn
<1> QED
  BY <1>1, <1>2

\* What there is when a line has been added.
LEMMA AnswersInAppend ==
    ASSUME NEW s \in Seq(Line), NEW l \in Line
    PROVE  /\ l.kind = "job" => AnswersIn(Append(s, l)) = AnswersIn(s)
           /\ l.kind = "answer" => AnswersIn(Append(s, l)) = AnswersIn(s) \cup {Len(s) + 1}
           /\ \A i \in AnswersIn(s) : Append(s, l)[i] = s[i]
           /\ Append(s, l)[Len(s) + 1] = l
<1>1. Len(s) \in Nat /\ 1..(Len(s) + 1) = 1..Len(s) \cup {Len(s) + 1}
  OBVIOUS
<1>2. /\ Len(Append(s, l)) = Len(s) + 1 /\ Append(s, l)[Len(s) + 1] = l
      /\ \A i \in 1..Len(s) : Append(s, l)[i] = s[i]
  BY Streams
<1>3. \A i \in 1..Len(s) : i \in AnswersIn(Append(s, l)) <=> i \in AnswersIn(s)
  BY <1>1, <1>2 DEF AnswersIn
<1>4. Len(s) + 1 \in AnswersIn(Append(s, l)) <=> l.kind = "answer"
  BY <1>1, <1>2 DEF AnswersIn
<1>5. /\ AnswersIn(s) \subseteq 1..Len(s)
      /\ AnswersIn(Append(s, l)) \subseteq 1..Len(s) \cup {Len(s) + 1}
  BY <1>1, <1>2 DEF AnswersIn
<1> QED
  BY <1>2, <1>3, <1>4, <1>5

\* A stale login stays stale, unless it is still to come and nothing was sent on it.
StaleKept == \A h \in Logins : Stale(h) => Stale(h)' \/ Clean(h)

\* Every step keeps stale logins stale.
LEMMA StaleStays ==
    ASSUME PlaceTypes, ClientTypes, CountTypes, NetTypes, ClientInv, Untouched, [Next]_vars
    PROVE  StaleKept
<1> USE DEF netVars, Actors
<1>1. CASE ConnectLock
  BY <1>1, Bounds DEF ConnectLock, Goto, StaleKept, Stale, PlaceTypes, ClientTypes, CountTypes
<1>2. CASE DialOk
  BY SMTT(20), <1>2, Bounds DEF DialOk, Goto, StaleKept, Stale, PlaceTypes, ClientTypes, CountTypes,
     Untouched, AnswersIn, Clean
<1>3. CASE DialFails
  BY <1>3, Bounds DEF DialFails, Goto, Fault, Unlock, StaleKept, Stale, PlaceTypes,
     ClientTypes, CountTypes
<1>4. CASE LoginOk
  BY <1>4, Bounds DEF LoginOk, Goto, Unlock, StaleKept, Stale, PlaceTypes, ClientTypes,
     CountTypes
<1>5. ASSUME NEW malformed \in BOOLEAN, LoginFails(malformed) PROVE StaleKept
  BY <1>5, Bounds DEF LoginFails, Goto, Fault, Unlock, StaleKept, Stale, PlaceTypes,
     ClientTypes, CountTypes
<1>6. CASE ReceiveJob
  BY <1>6, Bounds DEF ReceiveJob, StaleKept, Stale, PlaceTypes, ClientTypes, CountTypes
<1>7. CASE JobChanClosed
  BY <1>7, Bounds DEF JobChanClosed, Goto, StaleKept, Stale, PlaceTypes, ClientTypes,
     CountTypes
<1>8. CASE CheckAlive
  BY <1>8, Bounds DEF CheckAlive, StaleKept, Stale, PlaceTypes, ClientTypes, CountTypes
<1>9. CASE Redo
  BY <1>9, Bounds DEF Redo, Goto, StaleKept, Stale, PlaceTypes, ClientTypes, CountTypes,
     NewClient
<1>10. CASE StartReturns
  BY <1>10, Bounds DEF StartReturns, Goto, StaleKept, Stale, PlaceTypes, ClientTypes,
     CountTypes
<1>11. CASE FirstJob
  BY <1>11, Bounds DEF FirstJob, StaleKept, Stale, PlaceTypes, ClientTypes, CountTypes
<1>12. CASE BadFirstJob
  BY <1>12, Bounds DEF BadFirstJob, Fault, StaleKept, Stale, PlaceTypes, ClientTypes,
     CountTypes
<1>13. CASE ConsumerReceives
  BY <1>13, Bounds DEF ConsumerReceives, StaleKept, Stale, PlaceTypes, ClientTypes, CountTypes
<1>14. ASSUME NEW a \in Actors, KickNothing(a) PROVE StaleKept
  BY <1>14, Bounds DEF KickNothing, Goto, StaleKept, Stale, PlaceTypes, ClientTypes,
     CountTypes
<1>15. ASSUME NEW a \in Actors, KickListed(a) PROVE StaleKept
  BY <1>15, Bounds DEF KickListed, Goto, CloseClient, StaleKept, Stale, PlaceTypes,
     ClientTypes, CountTypes
<1>16. ASSUME NEW a \in Actors, NilToConsumer(a) PROVE StaleKept
  BY <1>16, Bounds DEF NilToConsumer, StaleKept, Stale, PlaceTypes, ClientTypes, CountTypes
<1>17. ASSUME NEW a \in Actors, NilToHandler(a) PROVE StaleKept
  BY <1>17, Bounds DEF NilToHandler, StaleKept, Stale, PlaceTypes, ClientTypes, CountTypes
<1>18. ASSUME NEW a \in Actors, KickDone(a) PROVE StaleKept
  BY <1>18, Bounds DEF KickDone, StaleKept, Stale, PlaceTypes, ClientTypes, CountTypes
<1>19. ASSUME (\E g \in Logins : DispatchRead(g)) \/ (\E g \in Logins : DispatchFails(g)) \/
      (\E g \in Logins : DispatchEnds(g)) \/ ReadSubmit \/ LockConn \/ Judged \/ Banned \/
      SubmitShare \/ SubmitLock \/ WriteOk \/ WriteFails \/ (\E g \in Logins : ReceiveAnswer(g))
      \/ AnswerChanClosed \/ ReportShare \/ ReadFails \/ ConsumerLocks \/ PassJob \/ BadJob \/
      StopAgain \/ (\E g \in Logins : P2PoolSendsJob(g)) \/ (\E g \in Logins : \E n \in
      unanswered[g] : P2PoolAnswers(g, n)) \/ (\E g \in Logins : P2PoolBreaks(g)) \/ MinerLeaves
      \/ UNCHANGED vars
      PROVE  UNCHANGED <<pc["start"], cl.resp, used.logins>>
  BY <1>19 DEF vars, PlaceTypes, ClientTypes, CountTypes, DispatchRead, DispatchFails,
     DispatchEnds, ReadSubmit, LockConn, Judged, Banned, SubmitShare, SubmitLock, WriteOk,
     WriteFails, ReceiveAnswer, AnswerChanClosed, ReportShare, ReadFails, ConsumerLocks,
     PassJob, BadJob, StopAgain, P2PoolSendsJob, P2PoolAnswers, P2PoolBreaks, MinerLeaves,
     Fault, Goto, Unlock, CloseClient
<1>20. UNCHANGED <<pc["start"], cl.resp, used.logins>> => StaleKept
  BY DEF StaleKept, Stale, PlaceTypes, ClientTypes, CountTypes
<1> QED
  BY <1>1, <1>2, <1>3, <1>4, <1>5, <1>6, <1>7, <1>8, <1>9, <1>10, <1>11, <1>12, <1>13, <1>14,
     <1>15, <1>16, <1>17, <1>18, <1>19, <1>20 DEF Next, Start, Handler, SubmitWork, Consumer,
     DispatchJobs, Kick, P2PoolServer

\* A step that leaves the streams and the call alone leaves nothing over.
LEMMA SameStreams ==
    ASSUME NoLeftOver, UNCHANGED <<unanswered, pipe, call>>,
           \A h \in Logins : dpc[h] = "ended" => dpc'[h] = "ended",
           pc["handler"] = "await" <=> pc'["handler"] = "await",
           StaleKept
    PROVE  NoLeftOver'
<1> SUFFICES ASSUME NEW h \in Logins
             PROVE  Tidy(h)'
  BY DEF NoLeftOver
<1>1. Clean(h) <=> Clean(h)'
  BY DEF Clean
<1>2. Own(h) <=> Own(h)'
  BY DEF Own
<1>3. Awaited(h) <=> Awaited(h)'
  BY DEF Awaited
<1>4. Tidy(h)
  BY DEF NoLeftOver
<1>5. (dpc[h] = "ended" => dpc'[h] = "ended") /\ (Stale(h) => Stale(h)' \/ Clean(h))
  BY DEF StaleKept
<1> QED
  BY <1>1, <1>2, <1>3, <1>4, <1>5 DEF Tidy

\* Taking the first line leaves the call's own answer its own.
LEMMA OwnTail ==
    ASSUME NEW g \in Logins, pipe[g] \in Seq(Line), pipe[g] # <<>>, pipe'[g] = Tail(pipe[g]),
           UNCHANGED <<unanswered, call>>, Own(g)
    PROVE  Own(g)'
<1>1. \A i \in AnswersIn(pipe'[g]) :
          i \in Nat /\ i + 1 \in AnswersIn(pipe[g]) /\ pipe'[g][i] = pipe[g][i + 1]
  BY AnswersInTail DEF AnswersIn
<1>2. ASSUME NEW i \in AnswersIn(pipe'[g]), NEW j \in AnswersIn(pipe'[g]) PROVE i = j
  <2>1. i + 1 = j + 1 /\ i \in Nat /\ j \in Nat
    BY <1>1 DEF Own
  <2> QED
    BY <2>1
<1>3. \A i \in AnswersIn(pipe'[g]) : pipe'[g][i].n = call.n /\ unanswered[g] = {}
  BY <1>1 DEF Own
<1> QED
  BY <1>2, <1>3 DEF Own

\* Every step leaves no answer to a call that is over.
LEMMA StepLeftOver ==
    ASSUME PlaceTypes, ClientTypes, CountTypes, NetTypes, ClientInv, CallInv, Untouched,
       HeadInHand, NoLeftOver, [Next]_vars
    PROVE  NoLeftOver'
<1> USE DEF netVars, Actors
<1>0. StaleKept
  BY StaleStays
<1>1. CASE LoginOk
  <2>0. PICK k \in Logins : k = used.logins
    BY <1>1 DEF LoginOk, Goto, WriteOk, ReceiveJob, ClientInv, CallInv, ClientTypes
  <2>1. /\ pc["start"] = "login" /\ call.resp # k
        /\ pipe' = [pipe EXCEPT ![k] = <<Job(LastJob)>>] /\ dpc' = [dpc EXCEPT ![k] = "first"]
        /\ UNCHANGED <<unanswered, call>> /\ pc'["handler"] = pc["handler"]
    BY <1>1, <2>0 DEF LoginOk, Goto, ClientInv, ClientTypes, CallInv, PlaceTypes
  <2>2. Clean(k)'
    BY <2>0, <2>1 DEF Clean, AnswersIn, Untouched, NetTypes, Job
  <2>3. \A h \in Logins \ {k} : pipe'[h] = pipe[h] /\ dpc'[h] = dpc[h]
    BY <2>1 DEF NetTypes, PlaceTypes
  <2>4. \A h \in Logins \ {k} : /\ Clean(h) => Clean(h)'
                                /\ Awaited(h) <=> Awaited(h)'
                                /\ Own(h) => Own(h)'
    BY <2>1, <2>3 DEF Clean, Awaited, Own
  <2> QED
    BY <1>0, <2>2, <2>3, <2>4 DEF StaleKept, NoLeftOver, Tidy
<1>2. CASE ReceiveJob
  <2>0. PICK k \in Logins : k = jobChan
    BY <1>2 DEF LoginOk, Goto, WriteOk, ReceiveJob, ClientInv, CallInv, ClientTypes
  <2>1. /\ pipe' = [pipe EXCEPT ![k] = Tail(pipe[k])]
        /\ dpc[k] # "ended" /\ dpc' = [dpc EXCEPT ![k] = "read"]
        /\ UNCHANGED <<unanswered, call>> /\ pc'["handler"] = pc["handler"]
        /\ pipe[k] # <<>> /\ pipe[k] \in Seq(Line)
    BY <1>2, <2>0 DEF ReceiveJob, PlaceTypes, HeadInHand, NetTypes
  <2>2. pipe'[k] = Tail(pipe[k]) /\ \A h \in Logins \ {k} : pipe'[h] = pipe[h] /\ dpc'[h] = dpc[h]
    BY <2>1 DEF NetTypes, PlaceTypes
  <2>3. \A h \in Logins : Awaited(h) <=> Awaited(h)'
    BY <2>1 DEF Awaited
  <2>4. \A h \in Logins \ {k} : (Clean(h) => Clean(h)') /\ (Own(h) => Own(h)')
    BY <2>1, <2>2 DEF Clean, Own
  <2>5. Clean(k) => Clean(k)'
    BY <2>1, <2>2, AnswersInTail DEF Clean
  <2>6. Own(k) => Own(k)'
    BY <2>1, <2>2, AnswersInTail, OwnTail
  <2> QED
    BY <1>0, <2>1, <2>2, <2>3, <2>4, <2>5, <2>6 DEF StaleKept, NoLeftOver, Tidy
<1>3. ASSUME NEW g \in Logins, DispatchRead(g) PROVE NoLeftOver'
  <2>1. /\ UNCHANGED <<unanswered, pipe, call>>
        /\ \A h \in Logins : dpc[h] = "ended" => dpc'[h] = "ended"
        /\ pc["handler"] = "await" <=> pc'["handler"] = "await"
    BY <1>3 DEF DispatchRead, PlaceTypes
  <2> QED
    BY <1>0, <2>1, SameStreams
<1>4. ASSUME NEW g \in Logins, DispatchFails(g) PROVE NoLeftOver'
  <2>1. /\ UNCHANGED <<unanswered, pipe, call>>
        /\ \A h \in Logins : dpc[h] = "ended" => dpc'[h] = "ended"
        /\ pc["handler"] = "await" <=> pc'["handler"] = "await"
    BY <1>4 DEF DispatchFails, Fault, PlaceTypes
  <2> QED
    BY <1>0, <2>1, SameStreams
<1>5. ASSUME NEW g \in Logins, DispatchEnds(g) PROVE NoLeftOver'
  <2>1. /\ UNCHANGED <<unanswered, pipe, call>>
        /\ \A h \in Logins : dpc[h] = "ended" => dpc'[h] = "ended"
        /\ pc["handler"] = "await" <=> pc'["handler"] = "await"
    BY <1>5 DEF DispatchEnds, PlaceTypes
  <2> QED
    BY <1>0, <2>1, SameStreams
<1>6. CASE FirstJob
  <2>1. /\ UNCHANGED <<unanswered, pipe, call>>
        /\ \A h \in Logins : dpc[h] = "ended" => dpc'[h] = "ended"
        /\ pc["handler"] = "await" <=> pc'["handler"] = "await"
    BY <1>6 DEF FirstJob, PlaceTypes
  <2> QED
    BY <1>0, <2>1, SameStreams
<1>7. CASE BadFirstJob
  <2>1. /\ UNCHANGED <<unanswered, pipe, call>>
        /\ \A h \in Logins : dpc[h] = "ended" => dpc'[h] = "ended"
        /\ pc["handler"] = "await" <=> pc'["handler"] = "await"
    BY <1>7 DEF BadFirstJob, Fault, PlaceTypes
  <2> QED
    BY <1>0, <2>1, SameStreams
<1>8. CASE ReadSubmit
  <2>1. /\ UNCHANGED <<unanswered, pipe, call>>
        /\ \A h \in Logins : dpc[h] = "ended" => dpc'[h] = "ended"
        /\ pc["handler"] = "await" <=> pc'["handler"] = "await"
    BY <1>8 DEF ReadSubmit, Goto, PlaceTypes
  <2> QED
    BY <1>0, <2>1, SameStreams
<1>9. CASE LockConn
  <2>1. /\ UNCHANGED <<unanswered, pipe, call>>
        /\ \A h \in Logins : dpc[h] = "ended" => dpc'[h] = "ended"
        /\ pc["handler"] = "await" <=> pc'["handler"] = "await"
    BY <1>9 DEF LockConn, Goto, PlaceTypes
  <2> QED
    BY <1>0, <2>1, SameStreams
<1>10. CASE Judged
  <2>1. /\ UNCHANGED <<unanswered, pipe, call>>
        /\ \A h \in Logins : dpc[h] = "ended" => dpc'[h] = "ended"
        /\ pc["handler"] = "await" <=> pc'["handler"] = "await"
    BY <1>10 DEF Judged, Goto, PlaceTypes
  <2> QED
    BY <1>0, <2>1, SameStreams
<1>11. CASE Banned
  <2>1. /\ UNCHANGED <<unanswered, pipe, call>>
        /\ \A h \in Logins : dpc[h] = "ended" => dpc'[h] = "ended"
        /\ pc["handler"] = "await" <=> pc'["handler"] = "await"
    BY <1>11 DEF Banned, Goto, PlaceTypes
  <2> QED
    BY <1>0, <2>1, SameStreams
<1>12. CASE SubmitShare
  <2>1. /\ pc["handler"] # "await" /\ pc'["handler"] # "await"
        /\ UNCHANGED <<unanswered, pipe, dpc>>
    BY <1>12 DEF SubmitShare, Goto, PlaceTypes
  <2> QED
    BY <1>0, <2>1 DEF StaleKept, NoLeftOver, Tidy, Awaited, Clean
<1>13. CASE SubmitLock
  <2>1. /\ pc["handler"] # "await" /\ pc'["handler"] # "await"
        /\ UNCHANGED <<unanswered, pipe, dpc>>
    BY <1>13 DEF SubmitLock, PlaceTypes
  <2> QED
    BY <1>0, <2>1 DEF StaleKept, NoLeftOver, Tidy, Awaited, Clean
<1>14. CASE WriteOk
  <2>0. PICK k \in Logins : k = call.conn
    BY <1>14 DEF LoginOk, Goto, WriteOk, ReceiveJob, ClientInv, CallInv, ClientTypes
  <2>1. /\ pc["handler"] = "write" /\ pc'["handler"] = "await"
        /\ unanswered' = [unanswered EXCEPT ![k] = @ \cup {call.n}]
        /\ call'.n = call.n /\ call'.resp = cl.resp /\ UNCHANGED <<pipe, dpc>>
        /\ cl.resp = k \/ Stale(k)
    BY <1>14, <2>0 DEF WriteOk, CallInv, ClientTypes, PlaceTypes
  <2>2. /\ unanswered'[k] = unanswered[k] \cup {call.n}
        /\ \A h \in Logins \ {k} : unanswered'[h] = unanswered[h]
    BY <2>1 DEF NetTypes
  <2>3. \A h \in Logins : (Awaited(h)' <=> cl.resp = h) /\ (Stale(h) => cl.resp # h)
    BY <2>1 DEF Awaited, Stale
  <2>4. \A h \in Logins : dpc[h] = "ended" \/ Stale(h) \/ Clean(h)
    BY <2>1 DEF NoLeftOver, Tidy, Awaited
  <2>5. \A h \in Logins \ {k} : Clean(h) => Clean(h)'
    BY <2>1, <2>2 DEF Clean
  <2>6. Clean(k) => Own(k)'
    BY <2>1, <2>2 DEF Clean, Own
  <2>7. \A h \in Logins : Stale(h) => Stale(h)'
    BY <1>14 DEF WriteOk, Unlock, Stale, PlaceTypes, ClientTypes
  <2>8. ASSUME NEW h \in Logins
        PROVE  Tidy(h)'
    <3>1. CASE dpc[h] = "ended"
      BY <2>1, <3>1 DEF Tidy
    <3>2. CASE Stale(h)
      BY <2>3, <2>7, <3>2 DEF Tidy
    <3>3. CASE Clean(h)
      BY <2>1, <2>3, <2>5, <2>6, <2>7, <3>3 DEF Tidy
    <3> QED
      BY <2>4, <3>1, <3>2, <3>3
  <2> QED
    BY <2>8 DEF NoLeftOver
<1>15. CASE WriteFails
  <2>1. /\ UNCHANGED <<unanswered, pipe, call>>
        /\ \A h \in Logins : dpc[h] = "ended" => dpc'[h] = "ended"
        /\ pc["handler"] = "await" <=> pc'["handler"] = "await"
    BY <1>15 DEF WriteFails, Goto, Fault, Unlock, PlaceTypes
  <2> QED
    BY <1>0, <2>1, SameStreams
<1>16. ASSUME NEW g \in Logins, ReceiveAnswer(g) PROVE NoLeftOver'
  <2>1. /\ pc["handler"] = "await" /\ pc'["handler"] = "report" /\ call.resp = g
        /\ pipe' = [pipe EXCEPT ![g] = Tail(pipe[g])] /\ UNCHANGED unanswered
        /\ dpc[g] = "answer" /\ dpc' = [dpc EXCEPT ![g] = "read"]
        /\ pipe[g] # <<>> /\ pipe[g] \in Seq(Line) /\ Head(pipe[g]).kind = "answer"
    BY <1>16 DEF ReceiveAnswer, Goto, PlaceTypes, HeadInHand, NetTypes
  <2>2. pipe'[g] = Tail(pipe[g]) /\ \A h \in Logins \ {g} : pipe'[h] = pipe[h] /\ dpc'[h] = dpc[h]
    BY <2>1 DEF NetTypes, PlaceTypes
  <2>3. \A h \in Logins : ~Awaited(h)' /\ (Awaited(h) <=> h = g)
    BY <2>1 DEF Awaited
  <2>4. 1 \in AnswersIn(pipe[g])
    BY <2>1, AnswersInTail
  <2>5. Own(g)
    BY <2>1, <2>3, <2>4 DEF NoLeftOver, Tidy, Clean
  <2>6. Clean(g)'
    <3>1. unanswered'[g] = {}
      BY <2>1, <2>4, <2>5 DEF Own
    <3>2. ASSUME NEW i \in AnswersIn(Tail(pipe[g])) PROVE FALSE
      <4>1. i \in Nat \ {0} /\ i + 1 \in AnswersIn(pipe[g])
        BY <2>1, AnswersInTail DEF AnswersIn
      <4>2. i + 1 = 1
        BY <2>4, <2>5, <4>1 DEF Own
      <4> QED
        BY <4>1, <4>2
    <3> QED
      BY <2>2, <3>1, <3>2 DEF Clean
  <2>7. \A h \in Logins \ {g} : Clean(h) => Clean(h)'
    BY <2>1, <2>2 DEF Clean
  <2> QED
    BY <1>0, <2>2, <2>3, <2>6, <2>7 DEF StaleKept, NoLeftOver, Tidy
<1>17. CASE AnswerChanClosed
  <2>1. /\ pc'["handler"] # "await" /\ UNCHANGED <<unanswered, pipe, dpc, call>>
        /\ call.resp \in Logins /\ dpc[call.resp] = "ended"
    BY <1>17 DEF AnswerChanClosed, Goto, PlaceTypes, ClientTypes
  <2> QED
    BY <1>0, <2>1 DEF StaleKept, NoLeftOver, Tidy, Awaited, Clean
<1>18. CASE ReportShare
  <2>1. /\ pc["handler"] # "await" /\ pc'["handler"] # "await"
        /\ UNCHANGED <<unanswered, pipe, dpc>>
    BY <1>18 DEF ReportShare, Goto, PlaceTypes
  <2> QED
    BY <1>0, <2>1 DEF StaleKept, NoLeftOver, Tidy, Awaited, Clean
<1>19. CASE ReadFails
  <2>1. /\ UNCHANGED <<unanswered, pipe, call>>
        /\ \A h \in Logins : dpc[h] = "ended" => dpc'[h] = "ended"
        /\ pc["handler"] = "await" <=> pc'["handler"] = "await"
    BY <1>19 DEF ReadFails, Goto, PlaceTypes
  <2> QED
    BY <1>0, <2>1, SameStreams
<1>20. ASSUME NEW a \in Actors, KickNothing(a) PROVE NoLeftOver'
  <2>1. /\ UNCHANGED <<unanswered, pipe, call>>
        /\ \A h \in Logins : dpc[h] = "ended" => dpc'[h] = "ended"
        /\ pc["handler"] = "await" <=> pc'["handler"] = "await"
    BY <1>20 DEF KickNothing, Goto, PlaceTypes
  <2> QED
    BY <1>0, <2>1, SameStreams
<1>21. ASSUME NEW a \in Actors, KickListed(a) PROVE NoLeftOver'
  <2>1. /\ UNCHANGED <<unanswered, pipe, call>>
        /\ \A h \in Logins : dpc[h] = "ended" => dpc'[h] = "ended"
        /\ pc["handler"] = "await" <=> pc'["handler"] = "await"
    BY <1>21 DEF KickListed, Goto, CloseClient, PlaceTypes
  <2> QED
    BY <1>0, <2>1, SameStreams
<1>22. ASSUME NEW a \in Actors, NilToConsumer(a) PROVE NoLeftOver'
  <2>1. /\ UNCHANGED <<unanswered, pipe, call>>
        /\ \A h \in Logins : dpc[h] = "ended" => dpc'[h] = "ended"
        /\ pc["handler"] = "await" <=> pc'["handler"] = "await"
    BY <1>22 DEF NilToConsumer, PlaceTypes
  <2> QED
    BY <1>0, <2>1, SameStreams
<1>23. ASSUME NEW a \in Actors, NilToHandler(a) PROVE NoLeftOver'
  <2>1. /\ UNCHANGED <<unanswered, pipe, call>>
        /\ \A h \in Logins : dpc[h] = "ended" => dpc'[h] = "ended"
        /\ pc["handler"] = "await" <=> pc'["handler"] = "await"
    BY <1>23 DEF NilToHandler, PlaceTypes
  <2> QED
    BY <1>0, <2>1, SameStreams
<1>24. ASSUME NEW a \in Actors, KickDone(a) PROVE NoLeftOver'
  <2>1. /\ UNCHANGED <<unanswered, pipe, call>>
        /\ \A h \in Logins : dpc[h] = "ended" => dpc'[h] = "ended"
        /\ pc["handler"] = "await" <=> pc'["handler"] = "await"
    BY <1>24 DEF KickDone, PlaceTypes
  <2> QED
    BY <1>0, <2>1, SameStreams
<1>25. CASE StopAgain
  <2>1. /\ UNCHANGED <<unanswered, pipe, call>>
        /\ \A h \in Logins : dpc[h] = "ended" => dpc'[h] = "ended"
        /\ pc["handler"] = "await" <=> pc'["handler"] = "await"
    BY <1>25 DEF StopAgain, CloseClient, PlaceTypes
  <2> QED
    BY <1>0, <2>1, SameStreams
<1>26. ASSUME NEW g \in Logins, P2PoolSendsJob(g) PROVE NoLeftOver'
  <2>0. PICK l \in Line : l = Job(LastJob + 1)
    BY LineTypes DEF NetTypes
  <2>1. /\ pipe[g] \in Seq(Line) /\ l.kind = "job"
        /\ pipe' = [pipe EXCEPT ![g] = Append(pipe[g], l)]
        /\ UNCHANGED <<unanswered, call, pc, dpc>>
    BY <1>26, <2>0, LineTypes DEF P2PoolSendsJob, NetTypes, Job
  <2>2. pipe'[g] = Append(pipe[g], l) /\ \A h \in Logins \ {g} : pipe'[h] = pipe[h]
    BY <2>1 DEF NetTypes
  <2>3. \A h \in Logins : Awaited(h) <=> Awaited(h)'
    BY <2>1 DEF Awaited
  <2>4. \A h \in Logins \ {g} : (Clean(h) => Clean(h)') /\ (Own(h) => Own(h)')
    BY <2>1, <2>2 DEF Clean, Own
  <2>5. /\ AnswersIn(pipe'[g]) = AnswersIn(pipe[g])
        /\ \A i \in AnswersIn(pipe[g]) : pipe'[g][i] = pipe[g][i]
    <3>1. /\ AnswersIn(Append(pipe[g], l)) = AnswersIn(pipe[g])
          /\ \A i \in AnswersIn(pipe[g]) : Append(pipe[g], l)[i] = pipe[g][i]
      BY <2>1, AnswersInAppend
    <3> QED
      BY <2>2, <3>1
  <2>6. (Clean(g) => Clean(g)') /\ (Own(g) => Own(g)')
    BY <2>1, <2>5 DEF Clean, Own
  <2> QED
    BY <1>0, <2>1, <2>3, <2>4, <2>6 DEF StaleKept, NoLeftOver, Tidy
<1>27. ASSUME NEW g \in Logins, NEW n \in unanswered[g], P2PoolAnswers(g, n) PROVE NoLeftOver'
  <2>0. PICK l \in Line : l = Answer(n)
    BY LineTypes DEF NetTypes
  <2>1. /\ pipe[g] \in Seq(Line) /\ l.kind = "answer" /\ l.n = n
        /\ pipe' = [pipe EXCEPT ![g] = Append(pipe[g], l)]
        /\ unanswered' = [unanswered EXCEPT ![g] = @ \ {n}]
        /\ UNCHANGED <<call, pc, dpc>>
    BY <1>27, <2>0, LineTypes DEF P2PoolAnswers, NetTypes, Answer
  <2>2. /\ pipe'[g] = Append(pipe[g], l) /\ unanswered'[g] = unanswered[g] \ {n}
        /\ \A h \in Logins \ {g} : pipe'[h] = pipe[h] /\ unanswered'[h] = unanswered[h]
    BY <2>1 DEF NetTypes
  <2>3. \A h \in Logins : Awaited(h) <=> Awaited(h)'
    BY <2>1 DEF Awaited
  <2>4. \A h \in Logins \ {g} : (Clean(h) => Clean(h)') /\ (Own(h) => Own(h)')
    BY <2>1, <2>2 DEF Clean, Own
  <2>5. ~Clean(g)
    BY <1>27 DEF Clean
  <2>6. Own(g) => Own(g)'
    <3> SUFFICES ASSUME Own(g) PROVE Own(g)'
      OBVIOUS
    <3>1. n = call.n /\ unanswered'[g] = {} /\ AnswersIn(pipe[g]) = {}
      BY <1>27, <2>2 DEF Own
    <3>2. AnswersIn(pipe'[g]) = {Len(pipe[g]) + 1} /\ pipe'[g][Len(pipe[g]) + 1] = l
      <4>1. /\ AnswersIn(Append(pipe[g], l)) = AnswersIn(pipe[g]) \cup {Len(pipe[g]) + 1}
            /\ Append(pipe[g], l)[Len(pipe[g]) + 1] = l
        BY <2>1, AnswersInAppend
      <4> QED
        BY <2>2, <3>1, <4>1
    <3> QED
      BY <2>1, <3>1, <3>2 DEF Own
  <2> QED
    BY <1>0, <2>1, <2>3, <2>4, <2>5, <2>6 DEF StaleKept, NoLeftOver, Tidy
<1>28. ASSUME ConnectLock \/ DialOk \/ DialFails \/ (\E malformed \in BOOLEAN :
      LoginFails(malformed)) \/ JobChanClosed \/ CheckAlive \/ Redo \/ StartReturns \/
      ConsumerReceives \/ ConsumerLocks \/ PassJob \/ BadJob \/ (\E g \in Logins :
      P2PoolBreaks(g)) \/ MinerLeaves \/ UNCHANGED vars
      PROVE  UNCHANGED <<pc["handler"], call, dpc, unanswered, pipe>>
  BY <1>28 DEF vars, PlaceTypes, ConnectLock, DialOk, DialFails, LoginFails, JobChanClosed,
     CheckAlive, Redo, StartReturns, ConsumerReceives, ConsumerLocks, PassJob, BadJob,
     P2PoolBreaks, MinerLeaves, Goto, Fault, Unlock
<1>29. UNCHANGED <<pc["handler"], call, dpc, unanswered, pipe>> => NoLeftOver'
  BY <1>0, SameStreams
<1> QED
  BY <1>1, <1>2, <1>3, <1>4, <1>5, <1>6, <1>7, <1>8, <1>9, <1>10, <1>11, <1>12, <1>13, <1>14,
     <1>15, <1>16, <1>17, <1>18, <1>19, <1>20, <1>21, <1>22, <1>23, <1>24, <1>25, <1>26,
     <1>27, <1>28, <1>29 DEF Next, Start, Handler, SubmitWork, Consumer, DispatchJobs, Kick,
     P2PoolServer

\* Every answer a call receives is its own.
LEMMA StepOwn ==
    ASSUME PlaceTypes, ClientTypes, CountTypes, NetTypes, HeadInHand, NoLeftOver, AnswerIsOwn,
       [Next]_vars
    PROVE  AnswerIsOwn'
<1> USE DEF netVars, Actors
<1>1. CASE SubmitShare
  BY <1>1 DEF SubmitShare, Goto, AnswerIsOwn, ClientTypes, NoCall
<1>2. CASE SubmitLock
  BY <1>2 DEF SubmitLock, AnswerIsOwn, ClientTypes
<1>3. CASE WriteOk
  BY <1>3 DEF WriteOk, Unlock, AnswerIsOwn, ClientTypes
<1>4. ASSUME NEW g \in Logins, ReceiveAnswer(g) PROVE AnswerIsOwn'
  <2>1. /\ pc["handler"] = "await" /\ call.resp = g /\ dpc[g] = "answer"
        /\ pipe[g] # <<>> /\ pipe[g] \in Seq(Line) /\ Head(pipe[g]).kind = "answer"
        /\ call' = [call EXCEPT !.got = Head(pipe[g]).n]
    BY <1>4 DEF ReceiveAnswer, Goto, HeadInHand, NetTypes
  <2>2. 1 \in AnswersIn(pipe[g]) /\ Head(pipe[g]) = pipe[g][1]
    BY <2>1, AnswersInTail, Streams
  <2>3. Own(g)
    BY <2>1, <2>2 DEF NoLeftOver, Tidy, Awaited, Clean
  <2>4. Head(pipe[g]).n = call.n
    BY <2>2, <2>3 DEF Own
  <2> QED
    BY <2>1, <2>4 DEF AnswerIsOwn, ClientTypes
<1>5. CASE ReportShare
  BY <1>5 DEF ReportShare, Goto, AnswerIsOwn, ClientTypes, NoCall
<1>6. ASSUME ConnectLock \/ DialOk \/ DialFails \/ LoginOk \/ (\E malformed \in BOOLEAN :
      LoginFails(malformed)) \/ ReceiveJob \/ JobChanClosed \/ CheckAlive \/ Redo \/ StartReturns
      \/ (\E g \in Logins : DispatchRead(g)) \/ (\E g \in Logins : DispatchFails(g)) \/ (\E g \in
      Logins : DispatchEnds(g)) \/ FirstJob \/ BadFirstJob \/ ReadSubmit \/ LockConn \/ Judged \/
      Banned \/ WriteFails \/ AnswerChanClosed \/ ReadFails \/ ConsumerReceives \/ ConsumerLocks
      \/ PassJob \/ BadJob \/ (\E a \in Actors : KickNothing(a)) \/ (\E a \in Actors :
      KickListed(a)) \/ (\E a \in Actors : NilToConsumer(a)) \/ (\E a \in Actors :
      NilToHandler(a)) \/ (\E a \in Actors : KickDone(a)) \/ StopAgain \/ (\E g \in Logins :
      P2PoolSendsJob(g)) \/ (\E g \in Logins : \E n \in unanswered[g] : P2PoolAnswers(g, n)) \/
      (\E g \in Logins : P2PoolBreaks(g)) \/ MinerLeaves \/ UNCHANGED vars
      PROVE  UNCHANGED <<call>>
  BY <1>6 DEF vars, ConnectLock, DialOk, DialFails, LoginOk, LoginFails, ReceiveJob,
     JobChanClosed, CheckAlive, Redo, StartReturns, DispatchRead, DispatchFails, DispatchEnds,
     FirstJob, BadFirstJob, ReadSubmit, LockConn, Judged, Banned, WriteFails,
     AnswerChanClosed, ReadFails, ConsumerReceives, ConsumerLocks, PassJob, BadJob,
     KickNothing, KickListed, NilToConsumer, NilToHandler, KickDone, StopAgain,
     P2PoolSendsJob, P2PoolAnswers, P2PoolBreaks, MinerLeaves, Goto, Fault, Unlock,
     CloseClient
<1>7. UNCHANGED <<call>> => AnswerIsOwn'
  BY DEF AnswerIsOwn, ClientTypes
<1> QED
  BY <1>1, <1>2, <1>3, <1>4, <1>5, <1>6, <1>7 DEF Next, Start, Handler, SubmitWork, Consumer,
     DispatchJobs, Kick, P2PoolServer

\* Every login has a socket.
LEMMA StepSockets ==
    ASSUME PlaceTypes, ClientTypes, CountTypes, NetTypes, SocketsOpened, [Next]_vars
    PROVE  SocketsOpened'
<1> USE DEF netVars, Actors
<1>1. CASE DialOk
  BY <1>1, Bounds DEF DialOk, Goto, SocketsOpened, CountTypes, NetTypes
<1>2. ASSUME NEW a \in Actors, KickListed(a) PROVE SocketsOpened'
  BY <1>2, Bounds DEF KickListed, Goto, CloseClient, SocketsOpened, CountTypes, NetTypes
<1>3. CASE StopAgain
  BY <1>3, Bounds DEF StopAgain, CloseClient, SocketsOpened, CountTypes, NetTypes
<1>4. ASSUME NEW g \in Logins, P2PoolBreaks(g) PROVE SocketsOpened'
  BY <1>4, Bounds DEF P2PoolBreaks, Fault, SocketsOpened, CountTypes, NetTypes
<1>5. ASSUME ConnectLock \/ DialFails \/ LoginOk \/ (\E malformed \in BOOLEAN :
      LoginFails(malformed)) \/ ReceiveJob \/ JobChanClosed \/ CheckAlive \/ Redo \/ StartReturns
      \/ (\E g \in Logins : DispatchRead(g)) \/ (\E g \in Logins : DispatchFails(g)) \/ (\E g \in
      Logins : DispatchEnds(g)) \/ FirstJob \/ BadFirstJob \/ ReadSubmit \/ LockConn \/ Judged \/
      Banned \/ SubmitShare \/ SubmitLock \/ WriteOk \/ WriteFails \/ (\E g \in Logins :
      ReceiveAnswer(g)) \/ AnswerChanClosed \/ ReportShare \/ ReadFails \/ ConsumerReceives \/
      ConsumerLocks \/ PassJob \/ BadJob \/ (\E a \in Actors : KickNothing(a)) \/ (\E a \in
      Actors : NilToConsumer(a)) \/ (\E a \in Actors : NilToHandler(a)) \/ (\E a \in Actors :
      KickDone(a)) \/ (\E g \in Logins : P2PoolSendsJob(g)) \/ (\E g \in Logins : \E n \in
      unanswered[g] : P2PoolAnswers(g, n)) \/ MinerLeaves \/ UNCHANGED vars
      PROVE  UNCHANGED <<sock, used.logins>>
  BY <1>5 DEF vars, PlaceTypes, ClientTypes, CountTypes, ConnectLock, DialFails, LoginOk,
     LoginFails, ReceiveJob, JobChanClosed, CheckAlive, Redo, StartReturns, DispatchRead,
     DispatchFails, DispatchEnds, FirstJob, BadFirstJob, ReadSubmit, LockConn, Judged, Banned,
     SubmitShare, SubmitLock, WriteOk, WriteFails, ReceiveAnswer, AnswerChanClosed,
     ReportShare, ReadFails, ConsumerReceives, ConsumerLocks, PassJob, BadJob, KickNothing,
     NilToConsumer, NilToHandler, KickDone, P2PoolSendsJob, P2PoolAnswers, MinerLeaves, Goto,
     Fault, Unlock
<1>6. UNCHANGED <<sock, used.logins>> => SocketsOpened'
  BY DEF SocketsOpened, CountTypes, NetTypes
<1> QED
  BY <1>1, <1>2, <1>3, <1>4, <1>5, <1>6 DEF Next, Start, Handler, SubmitWork, Consumer,
     DispatchJobs, Kick, P2PoolServer

-----------------------------------------------------------------------------
(* Without faults.                                                         *)

\* A fault is counted.
LEMMA FaultsCounted ==
    ASSUME CountTypes, Fault
    PROVE  used'.faults # 0
BY Bounds DEF CountTypes, Fault

\* Without a fault no step closes or unlocks what is not there.
LEMMA StepNoFault ==
    ASSUME PlaceTypes, ClientTypes, CountTypes, NetTypes, LockTypes, ClientInv, Untouched,
       SocketsOpened, NoFaultInv, [Next]_vars
    PROVE  NoFaultInv'
<1> USE DEF netVars, Actors
<1>1. CASE ConnectLock
  BY <1>1, Bounds DEF ConnectLock, Goto, NoFaultInv, NothingClosed, Guarded, Early, LoggedIn,
     PlaceTypes, ClientTypes, CountTypes, ClientInv
<1>2. CASE DialOk
  BY <1>2, Bounds DEF DialOk, Goto, NoFaultInv, NothingClosed, Guarded, Early, LoggedIn,
     PlaceTypes, ClientTypes, CountTypes, ClientInv
<1>3. CASE DialFails
  BY <1>3, FaultsCounted DEF DialFails, NoFaultInv
<1>4. CASE LoginOk
  BY <1>4, Bounds DEF LoginOk, Goto, Unlock, NoFaultInv, NothingClosed, Guarded, Early,
     LoggedIn, PlaceTypes, ClientTypes, CountTypes, ClientInv
<1>5. ASSUME NEW malformed \in BOOLEAN, LoginFails(malformed) PROVE NoFaultInv'
  <2>1. used.logins \in Logins /\ cl.conn = used.logins /\ 0 \notin Logins
    BY <1>5, Bounds DEF LoginFails, Goto, ClientInv, ClientTypes
  <2>2. CASE sock[used.logins] = "open"
    BY <1>5, <2>2, FaultsCounted DEF LoginFails, NoFaultInv
  <2>3. CASE sock[used.logins] # "open"
    <3>1. used.faults = 0 => pc["handler"] \notin Early
      BY <2>1, <2>3, Bounds DEF NoFaultInv, NothingClosed, NetTypes, SocketsOpened
    <3>2. /\ pc["start"] = "login" /\ pc' = [pc EXCEPT !["start"] = "redo"]
          /\ cl' = [cl EXCEPT !.locked = FALSE] /\ (crashed' <=> ~cl.locked)
          /\ UNCHANGED <<sock, dpc, again, used>>
      BY <1>5, <2>3 DEF LoginFails, Goto, Unlock
    <3> QED
      BY <2>1, <3>1, <3>2 DEF NoFaultInv, NothingClosed, Guarded, Early, PlaceTypes, ClientTypes
  <2> QED
    BY <2>2, <2>3
<1>6. CASE ReceiveJob
  BY <1>6, Bounds DEF ReceiveJob, NoFaultInv, NothingClosed, Guarded, Early, LoggedIn,
     PlaceTypes, ClientTypes, CountTypes
<1>7. CASE JobChanClosed
  <2>1. jobChan \in Logins /\ cl.conn # 0 /\ dpc[jobChan] \in {"closing", "ended"}
    BY <1>7 DEF JobChanClosed, Goto, ClientInv, ClientTypes
  <2>2. used.faults = 0 => pc["handler"] \notin Early
    BY <2>1 DEF NoFaultInv, NothingClosed
  <2> QED
    BY <1>7, <2>1, <2>2 DEF JobChanClosed, Goto, NoFaultInv, NothingClosed, Guarded, PlaceTypes
<1>8. CASE CheckAlive
  BY <1>8, Bounds DEF CheckAlive, NoFaultInv, NothingClosed, Guarded, Early, LoggedIn,
     PlaceTypes, ClientTypes, CountTypes, ClientInv
<1>9. CASE Redo
  BY <1>9, Bounds DEF Redo, Goto, NoFaultInv, NothingClosed, Guarded, Early, LoggedIn,
     PlaceTypes, ClientTypes, CountTypes, ClientInv, NewClient
<1>10. CASE StartReturns
  BY <1>10, Bounds DEF StartReturns, Goto, NoFaultInv, NothingClosed, Guarded, Early,
     LoggedIn, PlaceTypes, ClientTypes, CountTypes
<1>11. ASSUME NEW g \in Logins, DispatchRead(g) PROVE NoFaultInv'
  <2>1. Head(pipe[g]).kind \in {"job", "answer"}
    <3>1. Head(pipe[g]) \in Line
      BY <1>11, Streams DEF DispatchRead, NetTypes
    <3> QED
      BY <3>1 DEF Line
  <2> QED
    BY <1>11, <2>1 DEF DispatchRead, NoFaultInv, NothingClosed, Guarded, PlaceTypes
<1>12. ASSUME NEW g \in Logins, DispatchFails(g) PROVE NoFaultInv'
  <2>1. CASE sock[g] = "open"
    BY <1>12, <2>1, FaultsCounted DEF DispatchFails, NoFaultInv
  <2>2. CASE sock[g] # "open"
    <3>1. /\ UNCHANGED <<pc, sock, cl, again, crashed, used>>
          /\ dpc[g] = "read" /\ dpc' = [dpc EXCEPT ![g] = "closing"]
      BY <1>12, <2>2 DEF DispatchFails
    <3>2. sock[g] # "none"
      BY <3>1, LineTypes, Bounds DEF Untouched, SocketsOpened
    <3>3. used.faults = 0 => pc["handler"] \notin Early
      BY <2>2, <3>2 DEF NoFaultInv, NothingClosed, NetTypes
    <3> QED
      BY <3>1, <3>3 DEF NoFaultInv, NothingClosed, Guarded
  <2> QED
    BY <2>1, <2>2
<1>13. ASSUME NEW g \in Logins, DispatchEnds(g) PROVE NoFaultInv'
  BY <1>13, Bounds DEF DispatchEnds, NoFaultInv, NothingClosed, Guarded, Early, LoggedIn,
     PlaceTypes, ClientTypes, CountTypes
<1>14. CASE FirstJob
  BY <1>14, Bounds DEF FirstJob, NoFaultInv, NothingClosed, Guarded, Early, LoggedIn,
     PlaceTypes, ClientTypes, CountTypes, ClientInv
<1>15. CASE BadFirstJob
  BY <1>15, FaultsCounted DEF BadFirstJob, NoFaultInv
<1>16. CASE ReadSubmit
  BY <1>16, Bounds DEF ReadSubmit, Goto, NoFaultInv, NothingClosed, Guarded, Early, LoggedIn,
     PlaceTypes, ClientTypes, CountTypes
<1>17. CASE LockConn
  BY <1>17, Bounds DEF LockConn, Goto, NoFaultInv, NothingClosed, Guarded, Early, LoggedIn,
     PlaceTypes, ClientTypes, CountTypes
<1>18. CASE Judged
  BY <1>18, Bounds DEF Judged, Goto, NoFaultInv, NothingClosed, Guarded, Early, LoggedIn,
     PlaceTypes, ClientTypes, CountTypes
<1>19. CASE Banned
  BY <1>19, Bounds DEF Banned, Goto, NoFaultInv, NothingClosed, Guarded, Early, LoggedIn,
     PlaceTypes, ClientTypes, CountTypes
<1>20. CASE SubmitShare
  BY <1>20, Bounds DEF SubmitShare, Goto, NoFaultInv, NothingClosed, Guarded, Early, LoggedIn,
     PlaceTypes, ClientTypes, CountTypes
<1>21. CASE SubmitLock
  BY <1>21, Bounds DEF SubmitLock, NoFaultInv, NothingClosed, Guarded, Early, LoggedIn,
     PlaceTypes, ClientTypes, CountTypes
<1>22. CASE WriteOk
  BY <1>22, Bounds DEF WriteOk, Unlock, NoFaultInv, NothingClosed, Guarded, Early, LoggedIn,
     PlaceTypes, ClientTypes, CountTypes
<1>23. CASE WriteFails
  BY <1>23, FaultsCounted, Bounds DEF WriteFails, Goto, Fault, Unlock, NoFaultInv,
     NothingClosed, Guarded, Early, LoggedIn, PlaceTypes, ClientTypes, CountTypes
<1>24. ASSUME NEW g \in Logins, ReceiveAnswer(g) PROVE NoFaultInv'
  BY <1>24, Bounds DEF ReceiveAnswer, Goto, NoFaultInv, NothingClosed, Guarded, Early,
     LoggedIn, PlaceTypes, ClientTypes, CountTypes
<1>25. CASE AnswerChanClosed
  BY <1>25, Bounds DEF AnswerChanClosed, Goto, NoFaultInv, NothingClosed, Guarded, Early,
     LoggedIn, PlaceTypes, ClientTypes, CountTypes
<1>26. CASE ReportShare
  BY <1>26, Bounds DEF ReportShare, Goto, NoFaultInv, NothingClosed, Guarded, Early, LoggedIn,
     PlaceTypes, ClientTypes, CountTypes
<1>27. CASE ReadFails
  BY <1>27, Bounds DEF ReadFails, Goto, NoFaultInv, NothingClosed, Guarded, Early, LoggedIn,
     PlaceTypes, ClientTypes, CountTypes
<1>28. CASE ConsumerReceives
  BY <1>28, Bounds DEF ConsumerReceives, NoFaultInv, NothingClosed, Guarded, Early, LoggedIn,
     PlaceTypes, ClientTypes, CountTypes
<1>29. CASE ConsumerLocks
  BY <1>29, Bounds DEF ConsumerLocks, Goto, NoFaultInv, NothingClosed, Guarded, Early,
     LoggedIn, PlaceTypes, ClientTypes, CountTypes
<1>30. CASE PassJob
  BY <1>30, Bounds DEF PassJob, Goto, NoFaultInv, NothingClosed, Guarded, Early, LoggedIn,
     PlaceTypes, ClientTypes, CountTypes
<1>31. CASE BadJob
  BY <1>31, FaultsCounted DEF BadJob, NoFaultInv
<1>32. ASSUME NEW a \in Actors, KickNothing(a) PROVE NoFaultInv'
  BY <1>32, Bounds DEF KickNothing, Goto, NoFaultInv, NothingClosed, Guarded, Early, LoggedIn,
     PlaceTypes, ClientTypes, CountTypes
<1>33. ASSUME NEW a \in Actors, KickListed(a) PROVE NoFaultInv'
  BY <1>33, Bounds DEF KickListed, Goto, CloseClient, NoFaultInv, NothingClosed, Guarded,
     Early, LoggedIn, PlaceTypes, ClientTypes, CountTypes, ClientInv
<1>34. ASSUME NEW a \in Actors, NilToConsumer(a) PROVE NoFaultInv'
  BY <1>34, Bounds DEF NilToConsumer, NoFaultInv, NothingClosed, Guarded, Early, LoggedIn,
     PlaceTypes, ClientTypes, CountTypes
<1>35. ASSUME NEW a \in Actors, NilToHandler(a) PROVE NoFaultInv'
  BY <1>35, Bounds DEF NilToHandler, NoFaultInv, NothingClosed, Guarded, Early, LoggedIn,
     PlaceTypes, ClientTypes, CountTypes
<1>36. ASSUME NEW a \in Actors, KickDone(a) PROVE NoFaultInv'
  BY <1>36, Bounds DEF KickDone, NoFaultInv, NothingClosed, Guarded, Early, LoggedIn,
     PlaceTypes, ClientTypes, CountTypes
<1>37. CASE StopAgain
  BY <1>37, Bounds DEF StopAgain, CloseClient, NoFaultInv, NothingClosed, Guarded, Early,
     LoggedIn, PlaceTypes, ClientTypes, CountTypes
<1>38. ASSUME NEW g \in Logins, P2PoolBreaks(g) PROVE NoFaultInv'
  BY <1>38, FaultsCounted DEF P2PoolBreaks, NoFaultInv
<1>39. ASSUME (\E g \in Logins : P2PoolSendsJob(g)) \/ (\E g \in Logins : \E n \in
      unanswered[g] : P2PoolAnswers(g, n)) \/ MinerLeaves \/ UNCHANGED vars
      PROVE  UNCHANGED <<pc, sock, dpc, cl.locked, cl.conn, again, crashed, used.faults>>
  BY <1>39 DEF vars, PlaceTypes, ClientTypes, CountTypes, P2PoolSendsJob, P2PoolAnswers,
     MinerLeaves
<1>40. UNCHANGED <<pc, sock, dpc, cl.locked, cl.conn, again, crashed, used.faults>> =>
      NoFaultInv'
  BY DEF NoFaultInv, NothingClosed, Guarded, Early, LoggedIn, PlaceTypes, ClientTypes,
     CountTypes
<1> QED
  BY <1>1, <1>2, <1>3, <1>4, <1>5, <1>6, <1>7, <1>8, <1>9, <1>10, <1>11, <1>12, <1>13, <1>14,
     <1>15, <1>16, <1>17, <1>18, <1>19, <1>20, <1>21, <1>22, <1>23, <1>24, <1>25, <1>26,
     <1>27, <1>28, <1>29, <1>30, <1>31, <1>32, <1>33, <1>34, <1>35, <1>36, <1>37, <1>38,
     <1>39, <1>40 DEF Next, Start, Handler, SubmitWork, Consumer, DispatchJobs, Kick,
     P2PoolServer

-----------------------------------------------------------------------------
(* Theorems.                                                               *)

\* The initial state.
LEMMA InitIInv == Init => IInv
<1> SUFFICES ASSUME Init PROVE IInv
  OBVIOUS
<1> USE Bounds DEF Init, NewClient, NoCall
<1>1. PlaceTypes
  BY DEF PlaceTypes, Actors
<1>2. LockTypes
  <2>1. Cardinality({}) = 0
    BY FS_EmptySet
  <2>2. lock \subseteq {"handler", "consumer"} /\ Cardinality(lock) <= 1
    BY <2>1
  <2>3. again \in BOOLEAN /\ crashed \in BOOLEAN
    OBVIOUS
  <2> QED
    BY <2>2, <2>3 DEF LockTypes
<1>3. NetTypes
  BY DEF NetTypes
<1>4. ClientTypes
  BY DEF ClientTypes
<1>5. JobTypes
  BY DEF JobTypes
<1>6. CountTypes
  BY DEF CountTypes
<1>7. ClientInv /\ CallInv
  BY DEF ClientInv, CallInv
<1>8. Untouched /\ SocketsOpened /\ HeadInHand /\ JobsNumbered
  BY DEF Untouched, SocketsOpened, HeadInHand, JobsNumbered
<1>9. NoLeftOver /\ AnswerIsOwn
  BY DEF NoLeftOver, Tidy, Clean, AnswersIn, AnswerIsOwn
<1>10. NoFaultInv
  BY DEF NoFaultInv, NothingClosed, Guarded, Early, LoggedIn
<1> QED
  BY <1>1, <1>2, <1>3, <1>4, <1>5, <1>6, <1>7, <1>8, <1>9, <1>10, TypeParts DEF IInv

\* Every step.
LEMMA StepIInv == IInv /\ [Next]_vars => IInv'
<1> SUFFICES ASSUME IInv, [Next]_vars PROVE IInv'
  OBVIOUS
<1>1. /\ PlaceTypes /\ LockTypes /\ NetTypes /\ ClientTypes /\ JobTypes /\ CountTypes
      /\ ClientInv /\ CallInv /\ Untouched /\ SocketsOpened /\ HeadInHand /\ JobsNumbered
      /\ NoLeftOver /\ AnswerIsOwn /\ NoFaultInv
  BY TypeParts DEF IInv
<1>2. PlaceTypes' /\ LockTypes' /\ NetTypes'
  BY <1>1, StepPlaceTypes, StepLockTypes, StepNetTypes
<1>3. ClientTypes' /\ JobTypes' /\ CountTypes'
  BY <1>1, StepClientTypes, StepJobTypes, StepCountTypes
<1>4. TypeOK'
  BY <1>2, <1>3 DEF TypeOK, PlaceTypes, LockTypes, NetTypes, ClientTypes, JobTypes, CountTypes
<1>5. ClientInv' /\ CallInv' /\ Untouched' /\ SocketsOpened'
  BY <1>1, StepClient, StepCall, StepUntouched, StepSockets
<1>6. HeadInHand' /\ JobsNumbered'
  BY <1>1, StepHead, StepNumbered
<1>7. NoLeftOver' /\ AnswerIsOwn'
  BY <1>1, StepLeftOver, StepOwn
<1>8. NoFaultInv'
  BY <1>1, StepNoFault
<1> QED
  BY <1>4, <1>5, <1>6, <1>7, <1>8 DEF IInv

\* The invariant holds in every reachable state.
LEMMA AlwaysIInv == Spec => []IInv
  BY InitIInv, StepIInv, PTL DEF Spec

\* The connection's lock has one holder at most and every channel, socket and job in
\* use is one that was made, for any number of logins and jobs (see TypeOK).
THEOREM TypeCorrect == Spec => []TypeOK
<1>1. IInv => TypeOK
  BY DEF IInv
<1> QED
  BY <1>1, AlwaysIInv, PTL

\* SubmitWork (p2client.go) returns the answer to its own submit, through any number of
\* reconnects between the write and the wait (see AnswerIsOwn).
THEOREM AnswersAreOwn == Spec => []AnswerIsOwn
<1>1. IInv => AnswerIsOwn
  BY DEF IInv
<1> QED
  BY <1>1, AlwaysIInv, PTL

\* Without a failure of p2pool neither Stop nor Unlock kills the slave, whatever the
\* miner does and however the goroutines interleave (see CrashNeedsFault).
THEOREM OnlyFaultsCrash == Spec => []CrashNeedsFault
<1>1. IInv => CrashNeedsFault
  BY Bounds DEF IInv, NoFaultInv, Guarded, CrashNeedsFault, TypeOK
<1> QED
  BY <1>1, AlwaysIInv, PTL
=============================================================================
