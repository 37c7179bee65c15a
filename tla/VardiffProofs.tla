--------------------------- MODULE VardiffProofs ---------------------------
(***************************************************************************)
(* Proofs about Vardiff for any minimum, any difficulties of the network   *)
(* and of hashes below 2^53, any request, range of the short target and    *)
(* bounds.                                                                 *)
(*                                                                         *)
(* What the properties say of an answered share was decided when the job   *)
(* was made, by two writers of which only one takes the lock.  The         *)
(* invariant follows a job from the clamp to the judgement: Makers and     *)
(* SentOnce (every template is sent once, by the one who fetched it),      *)
(* TemplateStored and InRange (how the clamp meets CurInfo), JobsComplete  *)
(* (what is stored agrees with what was sent), and the shares' part of it. *)
(* JobDiffInRange and what is said of complete jobs hold only while no     *)
(* goroutine of OnNewBlock has met the login and the socket is open.       *)
(***************************************************************************)
EXTENDS Vardiff, SequenceTheorems, TLAPS

-----------------------------------------------------------------------------
(* The makers of jobs.                                                     *)

\* Steps of GetJob with a template in hand, and with the difficulty chosen.
Holding == {"store", "blob", "hashing", "send"}
Preparing == {"fetch"} \cup Holding

\* The handler and the goroutine of OnNewBlock have templates of their own.
Makers ==
    /\ hpc \in Holding => hjob.tmpl \in 1..Len(tmpl)
    /\ jpc \in Holding => jjob.tmpl \in 1..Len(tmpl)
    /\ hpc \in Holding /\ jpc \in Holding => hjob.tmpl # jjob.tmpl

\* What has been sent is in nobody's hands any more.
SentOnce ==
    \A k \in Templates : target[k] # -1 =>
        /\ k <= Len(tmpl)
        /\ hpc \in Holding => k # hjob.tmpl
        /\ jpc \in Holding => k # jjob.tmpl

-----------------------------------------------------------------------------
(* The share in the handler's hands.                                       *)

\* Steps of the handler at which a verdict on the share is being found.
Judging == {"judge", "compare", "submit", "retarget"}

\* Which share it is, and what has been decided about it.
Handling ==
    /\ hpc \in Judging \cup {"got", "verify"} => share # NoShare
    /\ share # NoShare => share \in Shares /\ target[share.id] # -1
    /\ hpc \in Judging \ {"retarget"} => outcome \in {"verified", "queued"}
    /\ hpc = "retarget" => outcome \in {"verified", "queued", "submitted", "unverified"}
    /\ hpc \notin Judging \cup {"answer"} => outcome = "none"

\* The handler reads shares only after its own template is in CurInfo.
TemplateStored ==
    hpc \notin {"login", "nextdiff", "call", "fetch", "store", "gone"} => difficulty # 0

\* What the two comparisons with CurInfo.Difficulty have said.
Compared ==
    /\ hpc \in Judging /\ outcome = "queued" => checks.first \in seen /\ share.diff < checks.first
    /\ hpc = "submit" => checks.second \in seen /\ share.diff >= checks.second
    /\ hpc = "retarget" /\ outcome \in {"verified", "queued"} => share.diff < checks.second
    /\ outcome = "unverified" => \E d, e \in seen : d # e

\* What holds whoever met whom.
BaseInv == TypeOK /\ Makers /\ SentOnce /\ Handling /\ TemplateStored /\ Compared

-----------------------------------------------------------------------------
(* The difficulty of jobs.                                                 *)

\* No goroutine of OnNewBlock has met the login, and the socket is open.
Undisturbed == open /\ ~crossed

\* A difficulty d that was put below c, the network's, or is a login's (c = -1), which
\* may be as large as was asked for.
InRange(d, c) ==
    /\ c # -1 => d # Huge
    /\ c \in 1..MinDiff \/ d >= MinDiff
    /\ c > 0 => d < c \/ d <= MinDiff

\* The clamp never sees an empty CurInfo with a NextDiff it does not raise, so
\* that every job made is in range.
RangeInv ==
    /\ hpc # "gone"
    /\ hpc \in LoginSteps => jpc = "none"
    /\ hpc = "login" /\ difficulty = 0 =>
          nextDiff = 0 \/ (nextDiff = MinDiff /\ jpc \in {"diff", "fetch", "store"})
    /\ jpc = "diff" => InRange(nextDiff, jjob.clamp)
    /\ current = NoJob \/ InRange(current.diff, current.clamp)
    /\ last = NoJob \/ InRange(last.diff, last.clamp)
    /\ hpc # "login" \/ jpc \in Preparing => InRange(current.diff, current.clamp)

-----------------------------------------------------------------------------
(* What a job is made of.                                                  *)

\* Both blobs are of the template of its id, which was sent with its difficulty.
Complete(job) ==
    job.id # 0 => /\ job.blob = job.id /\ job.hashing = job.id
                  /\ target[job.id] = DiffToShortTarget(job.diff)

\* LastJob is complete, and so is CurrentJob when nobody is writing it; who is has
\* written the parts he is through with.
JobsComplete ==
    /\ Complete(last)
    /\ hpc \notin LoginSteps /\ jpc \notin Preparing => Complete(current)
    /\ hpc \in Preparing => current.diff = hjob.diff
    /\ hpc \in {"hashing", "send"} => current.blob = hjob.tmpl
    /\ hpc = "send" => current.hashing = hjob.tmpl
    /\ jpc \in Preparing => current.diff = jjob.diff
    /\ jpc \in {"hashing", "send"} => current.blob = jjob.tmpl
    /\ jpc = "send" => current.hashing = jjob.tmpl

\* The job a share is judged by is the one it was sent with.
JudgedByItsJob ==
    hpc \in Judging \cup {"verify"} =>
        /\ theJob.id = share.id
        /\ Complete(theJob)
        /\ InRange(theJob.diff, theJob.clamp)

\* What holds of the difficulties and parts of jobs while nothing has disturbed them.
CleanInv == Undisturbed => RangeInv /\ JobsComplete /\ JudgedByItsJob

\* The inductive invariant.
IInv == BaseInv /\ CleanInv /\ HonestShareAccepted /\ BlockIsSubmitted

-----------------------------------------------------------------------------
(* The operators.                                                          *)

\* The constants are numbers in the order the code has them in.
LEMMA Numbers ==
    /\ MinDiff \in Nat \ {0} /\ 2 * MinDiff < Huge
    /\ ShortMax \in Nat \ {0} /\ Huge \in Nat /\ ShortMax < Huge
    /\ NetDiffs \subseteq 1..Huge - 1 /\ Requests \subseteq 1..Huge
    /\ ShareDiffs \subseteq 1..Huge - 1
    /\ MaxSeeds \in Nat /\ MaxTemplates \in Nat /\ MaxEvents \in Nat
BY VardiffAssumption

\* A quotient times the divisor is the dividend less than the divisor away.
LEMMA Quotient ==
    ASSUME NEW a \in Nat, NEW b \in Nat \ {0}
    PROVE  a \div b \in 0..a /\ (a \div b) * b <= a
OBVIOUS

\* Rounding twice never asks for less than the difficulty.
LEMMA RoundedTwice ==
    ASSUME NEW a \in Nat, NEW d \in Nat \ {0}, a \div d # 0
    PROVE  d <= a \div (a \div d)
<1> DEFINE q == a \div d
<1>1. q \in Nat \ {0} /\ d * q <= a
  BY Quotient
<1> HIDE DEF q
<1>2. d <= a \div q
  BY <1>1
<1> QED
  BY <1>2 DEF q

\* A target is in range, and a share that meets it has the difficulty.
LEMMA TargetFacts ==
    ASSUME NEW d \in Nat
    PROVE  /\ DiffToShortTarget(d) \in 0..ShortMax
           /\ \A x \in Nat : MeetsTarget(x, DiffToShortTarget(d)) => x >= d
<1>1. CASE d = 0
  BY <1>1, Numbers DEF DiffToShortTarget
<1>2. CASE d # 0
  <2>1. DiffToShortTarget(d) = ShortMax \div d /\ ShortMax \div d \in 0..ShortMax
    BY <1>2, Numbers, Quotient DEF DiffToShortTarget
  <2>2. ASSUME NEW x \in Nat, MeetsTarget(x, DiffToShortTarget(d)) PROVE x >= d
    <3> DEFINE q == ShortMax \div d
    <3>1. q # 0 /\ q \in Nat /\ x >= ShortMax \div q
      BY <2>1, <2>2 DEF MeetsTarget
    <3>2. d <= ShortMax \div q
      BY <1>2, <3>1, Numbers, RoundedTwice
    <3> HIDE DEF q
    <3>3. ShortMax \div q \in Nat
      BY <3>1, Numbers, Quotient
    <3> QED
      BY <3>1, <3>2, <3>3
  <2> QED
    BY <2>1, <2>2
<1> QED
  BY <1>1, <1>2

\* The next difficulty is a difficulty.
LEMMA NextDiffsType == \A d \in Nat : NextDiffs(d) \subseteq 0..Huge
BY Numbers DEF NextDiffs

\* One goroutine more, up to the bound.
LEMMA MoreType == \A n \in 0..MaxTemplates : More(n) \in 0..MaxTemplates
BY Numbers DEF More

\* Templates stay templates when the network moves.
LEMMA TemplatesOf ==
    ASSUME NEW S, NEW R, S \subseteq R, NEW s \in Seq(S)
    PROVE  /\ s \in Seq(R) /\ Len(s) \in Nat
           /\ \A k \in 1..Len(s) : s[k] \in S
           /\ \A x \in S : /\ Append(s, x) \in Seq(S) /\ Len(Append(s, x)) = Len(s) + 1
                           /\ \A k \in 1..Len(s) : Append(s, x)[k] = s[k]
OBVIOUS

\* Parts of jobs.
LEMMA JobsType ==
    ASSUME NEW job \in Jobs
    PROVE  /\ job.id \in 0..MaxTemplates /\ job.diff \in 0..Huge /\ job.clamp \in {-1, 0} \cup NetDiffs
           /\ \A d \in 0..Huge, c \in {-1, 0} \cup NetDiffs :
                 [job EXCEPT !.diff = d, !.clamp = c] \in Jobs
           /\ \A k \in 0..MaxTemplates : /\ [job EXCEPT !.blob = k] \in Jobs
                                         /\ [job EXCEPT !.hashing = k] \in Jobs
                                         /\ [job EXCEPT !.id = k] \in Jobs
BY DEF Jobs

\* A job that is being made stays one when its difficulty or template is set.
LEMMA MakingType ==
    ASSUME NEW making \in Making
    PROVE  /\ making.diff \in 0..Huge /\ making.clamp \in {-1, 0} \cup NetDiffs
           /\ making.tmpl \in 0..MaxTemplates
           /\ \A d \in 0..Huge : [making EXCEPT !.diff = d] \in Making
           /\ \A c \in {-1, 0} \cup NetDiffs : [making EXCEPT !.clamp = c] \in Making
           /\ \A k \in 0..MaxTemplates : [making EXCEPT !.tmpl = k] \in Making
           /\ NotMaking \in Making
BY Numbers DEF Making, NotMaking

-----------------------------------------------------------------------------
(* Types, and who has which template.                                      *)

\* The type invariant in four parts, each about variables that change together:
\* the network and CurInfo,
NetTypes ==
    /\ net \in seen /\ seen \subseteq NetDiffs
    /\ seed \in 0..MaxSeeds /\ seedHash \in 0..seed /\ majorVersion \in BOOLEAN
    /\ difficulty \in seen \cup {0}
    /\ tmpl \in Seq(seen) /\ Len(tmpl) <= MaxTemplates
    /\ tmplSeed \in [Templates -> 0..seed]

\* the jobs and their makers,
JobTypes ==
    /\ target \in [Templates -> -1..ShortMax]
    /\ current \in Jobs /\ last \in Jobs
    /\ nextDiff \in 0..Huge
    /\ hjob \in Making /\ jjob \in Making

\* the share and what it is judged by,
ShareTypes ==
    /\ share \in Shares \cup {NoShare} /\ theJob \in Jobs
    /\ checks \in [first : {0} \cup NetDiffs, second : {0} \cup NetDiffs, seed : 0..MaxSeeds,
                   version : BOOLEAN]
    /\ outcome \in {"none", "queued", "verified", "wrong hash", "error", "low", "submitted",
                    "unverified", "accepted"}

\* the lock, the places of the two, and the counters.
PlaceTypes ==
    /\ lock \in {"free", "handler", "job"}
    /\ hpc \in LoginSteps \cup {"login", "ready", "got", "verify", "judge", "compare",
                                "submit", "retarget", "answer", "gone"}
    /\ jpc \in {"none", "clamp", "diff", "fetch", "store", "blob", "hashing", "send"}
    /\ news \in 0..MaxTemplates
    /\ open \in BOOLEAN /\ crossed \in BOOLEAN
    /\ events \in 0..MaxEvents
    /\ lock = "job" <=> jpc # "none"
    /\ lock = "handler" <=> hpc \in {"verify", "judge", "compare", "submit", "retarget"}

\* The four parts are the type invariant.
LEMMA TypeParts == TypeOK <=> NetTypes /\ JobTypes /\ ShareTypes /\ PlaceTypes
BY DEF TypeOK, NetTypes, JobTypes, ShareTypes, PlaceTypes

\* A fetched template is a new one.
LEMMA FetchFacts ==
    ASSUME NetTypes, Fetch
    PROVE  /\ Len(tmpl) \in Nat /\ Len(tmpl') = Len(tmpl) + 1 /\ Len(tmpl') \in 1..MaxTemplates
           /\ \A k \in 1..Len(tmpl) : tmpl'[k] = tmpl[k]
<1>1. Len(tmpl) < MaxTemplates /\ tmpl' = Append(tmpl, net) /\ net \in seen /\ tmpl \in Seq(seen)
  BY DEF Fetch, NetTypes
<1>2. /\ Len(tmpl) \in Nat /\ Len(Append(tmpl, net)) = Len(tmpl) + 1
      /\ \A k \in 1..Len(tmpl) : Append(tmpl, net)[k] = tmpl[k]
  BY <1>1, TemplatesOf
<1> QED
  BY <1>1, <1>2, Numbers

\* Who has a fetched template has a template.
LEMMA FetchedTemplates ==
    ASSUME NetTypes, NEW k \in 1..Len(tmpl)
    PROVE  k \in Templates /\ tmpl[k] \in seen /\ tmplSeed[k] \in 0..seed
<1>1. tmpl \in Seq(seen) /\ Len(tmpl) <= MaxTemplates /\ tmplSeed \in [Templates -> 0..seed]
  BY DEF NetTypes
<1>2. Len(tmpl) \in Nat /\ tmpl[k] \in seen
  BY <1>1, TemplatesOf
<1>3. k \in Templates
  BY <1>1, <1>2, Numbers DEF Templates
<1> QED
  BY <1>1, <1>2, <1>3

\* Fetching a template and storing one in CurInfo.
LEMMA FetchTypes ==
    ASSUME NetTypes, Fetch, UNCHANGED <<net, seen, seed, difficulty, seedHash, majorVersion>>
    PROVE  NetTypes'
<1>1. Len(tmpl') \in 1..MaxTemplates /\ Len(tmpl') = Len(tmpl) + 1
  BY FetchFacts
<1>2. tmpl' \in Seq(seen)
  BY TemplatesOf DEF Fetch, NetTypes
<1>3. tmplSeed' \in [Templates -> 0..seed]
  <2>1. seed \in 0..seed
    BY Numbers DEF NetTypes
  <2> QED
    BY <2>1 DEF Fetch, NetTypes
<1>4. Len(tmpl') <= MaxTemplates
  BY <1>1
<1> QED
  BY <1>2, <1>3, <1>4 DEF NetTypes

LEMMA StoreTypes ==
    ASSUME NetTypes, NEW k \in 1..Len(tmpl), StoreTemplate(k), UNCHANGED <<net, seen, seed, tmpl, tmplSeed>>
    PROVE  NetTypes' /\ difficulty' \in Nat \ {0}
<1>1. difficulty' \in seen /\ seedHash' \in 0..seed /\ UNCHANGED majorVersion
  BY FetchedTemplates DEF StoreTemplate
<1>2. NetTypes'
  <2>1. /\ majorVersion \in BOOLEAN /\ tmpl \in Seq(seen) /\ Len(tmpl) <= MaxTemplates
        /\ tmplSeed \in [Templates -> 0..seed] /\ seed \in 0..MaxSeeds
        /\ net \in seen /\ seen \subseteq NetDiffs
    BY DEF NetTypes
  <2> QED
    BY <1>1, <2>1 DEF NetTypes
<1>3. difficulty' \in Nat \ {0}
  BY <1>1, Numbers DEF NetTypes
<1> QED
  BY <1>2, <1>3

\* The difficulty and the job of a share.
LEMMA SharesType ==
    ASSUME NEW s \in Shares
    PROVE  s.id \in Templates /\ s.id # 0 /\ s.diff \in Nat
<1>1. s.id \in Templates /\ s.diff \in ShareDiffs
  BY DEF Shares
<1>2. s.diff \in 1..Huge - 1
  BY <1>1, Numbers
<1> QED
  BY <1>1, <1>2, Numbers DEF Templates

\* No job is a job.
LEMMA NoJobType == NoJob \in Jobs
BY Numbers DEF NoJob, Jobs

\* The network and its templates.
LEMMA StepNetTypes ==
    ASSUME NetTypes, Makers, [Next]_vars
    PROVE  NetTypes'
<1> USE DEF daemon, network, curInfo, fetched, handling
<1>1. CASE NetworkMoves
  BY <1>1, Numbers, TemplatesOf DEF NetworkMoves, Happens, NetTypes, Makers, Holding
<1>2. CASE OtherStores
  BY <1>2, Numbers, TemplatesOf DEF OtherStores, Happens, NetTypes, Makers, Holding
<1>3. CASE LoginFetch
  BY <1>3, FetchTypes DEF LoginFetch, LoginTo
<1>4. CASE LoginStore
  <2>1. hjob.tmpl \in 1..Len(tmpl)
    BY <1>4 DEF LoginStore, Makers, Holding
  <2> QED
    BY <1>4, <2>1, StoreTypes DEF LoginStore, LoginTo
<1>5. CASE JobFetch
  BY <1>5, FetchTypes DEF JobFetch, JobTo
<1>6. CASE JobStore
  <2>1. jjob.tmpl \in 1..Len(tmpl)
    BY <1>6 DEF JobStore, Makers, Holding
  <2> QED
    BY <1>6, <2>1, StoreTypes DEF JobStore, JobTo
<1>7. CASE RefreshVersion
  BY <1>7 DEF RefreshVersion, NetTypes
<1>8. ASSUME (\E request \in Requests \cup {0} : LoginDiff(request)) \/ LoginNextDiff \/
      LoginCall \/ LoginFails \/ LoginBlob \/ LoginHashingBlob \/ LoginSend \/ JobLock \/ JobClamp
      \/ JobDiff \/ JobFails \/ JobBlob \/ JobHashingBlob \/ JobSend \/ (\E s \in Shares :
      MinerSubmits(s)) \/ ReadFails \/ LockConn \/ PotentialBlock \/ CalcPowFails \/ QueueShare \/
      Judge \/ CompareAgain \/ SubmitBlock \/ Retarget \/ Answer \/ UNCHANGED vars PROVE UNCHANGED
      <<network, curInfo, fetched>>
  BY <1>8 DEF vars, LoginDiff, LoginNextDiff, LoginCall, LoginFails, LoginBlob,
     LoginHashingBlob, LoginSend, JobLock, JobClamp, JobDiff, JobFails, JobBlob, JobHashingBlob,
     JobSend, MinerSubmits, ReadFails, LockConn, PotentialBlock, CalcPowFails, QueueShare,
     Judge, CompareAgain, SubmitBlock, Retarget, Answer, LoginTo, JobTo, Happens, HandlerTo,
     Refuse
<1>9. UNCHANGED <<network, curInfo, fetched>> => NetTypes'
  BY DEF NetTypes, Makers, Holding
<1> QED
  BY <1>1, <1>2, <1>3, <1>4, <1>5, <1>6, <1>7, <1>8, <1>9 DEF Next, Login, Job, Share

\* The jobs.
LEMMA StepJobTypes ==
    ASSUME NetTypes, JobTypes, ShareTypes, Makers, [Next]_vars
    PROVE  JobTypes'
<1> USE DEF daemon, network, curInfo, fetched, handling
<1>1. ASSUME NEW request \in Requests \cup {0}, LoginDiff(request) PROVE JobTypes'
  <2> DEFINE d == IF request > 0 THEN IF request < MinDiff THEN MinDiff ELSE request ELSE 2 * MinDiff
  <2>1. d \in 0..Huge /\ -1 \in {-1, 0} \cup NetDiffs
    BY Numbers
  <2>2. current' = current \/ current' = [current EXCEPT !.diff = d, !.clamp = -1]
    BY <1>1 DEF LoginDiff
  <2> HIDE DEF d
  <2>3. current' \in Jobs
    BY <2>1, <2>2 DEF JobTypes, Jobs
  <2> QED
    BY <1>1, <2>3 DEF LoginDiff, LoginTo, JobTypes
<1>2. CASE LoginNextDiff
  BY <1>2, Numbers, JobsType, MakingType DEF LoginNextDiff, LoginTo, JobTypes
<1>3. CASE LoginCall
  BY <1>3, Numbers, JobsType, MakingType DEF LoginCall, LoginTo, JobTypes
<1>4. CASE LoginFetch
  <2>1. Len(tmpl') \in 0..MaxTemplates
    BY <1>4, FetchFacts, Numbers DEF LoginFetch
  <2> QED
    BY <1>4, <2>1, MakingType DEF LoginFetch, LoginTo, JobTypes
<1>5. CASE LoginBlob
  BY <1>5, Numbers, JobsType, MakingType DEF LoginBlob, LoginTo, JobTypes
<1>6. CASE LoginHashingBlob
  BY <1>6, Numbers, JobsType, MakingType DEF LoginHashingBlob, LoginTo, JobTypes
<1>7. CASE LoginSend
  <2>1. hjob.tmpl \in Templates /\ hjob.diff \in Nat
    <3>1. hjob.tmpl \in 1..Len(tmpl) /\ hjob.diff \in 0..Huge
      BY <1>7, MakingType DEF LoginSend, JobTypes, Makers, Holding
    <3> QED
      BY <3>1, FetchedTemplates, Numbers
  <2>2. DiffToShortTarget(hjob.diff) \in -1..ShortMax
    BY <2>1, TargetFacts, Numbers
  <2>3. hjob.tmpl \in 0..MaxTemplates
    BY <2>1 DEF Templates
  <2> QED
    BY <1>7, <2>1, <2>2, <2>3, JobsType, MakingType DEF LoginSend, LoginTo, JobTypes
<1>8. CASE JobLock
  BY <1>8, Numbers, JobsType, MakingType DEF JobLock, JobTo, JobTypes
<1>9. CASE JobClamp
  <2>1. difficulty \in {0} \cup NetDiffs /\ NetDiffs \subseteq 1..Huge - 1
    BY Numbers DEF NetTypes
  <2>2. nextDiff' \in 0..Huge
    BY <1>9, <2>1, Numbers DEF JobClamp, JobTypes
  <2>3. jjob' = [jjob EXCEPT !.clamp = difficulty] /\ jjob' \in Making
    BY <1>9, <2>1, MakingType DEF JobClamp, JobTypes
  <2> QED
    BY <1>9, <2>2, <2>3 DEF JobClamp, JobTo, JobTypes
<1>10. CASE JobDiff
  BY <1>10, Numbers, JobsType, MakingType DEF JobDiff, JobTo, JobTypes
<1>11. CASE JobFetch
  <2>1. Len(tmpl') \in 0..MaxTemplates
    BY <1>11, FetchFacts, Numbers DEF JobFetch
  <2> QED
    BY <1>11, <2>1, MakingType DEF JobFetch, JobTo, JobTypes
<1>12. CASE JobFails
  BY <1>12, Numbers, JobsType, MakingType DEF JobFails, JobTypes
<1>13. CASE JobBlob
  BY <1>13, Numbers, JobsType, MakingType DEF JobBlob, JobTo, JobTypes
<1>14. CASE JobHashingBlob
  BY <1>14, Numbers, JobsType, MakingType DEF JobHashingBlob, JobTo, JobTypes
<1>15. CASE JobSend
  <2>1. jjob.tmpl \in Templates /\ jjob.diff \in Nat
    <3>1. jjob.tmpl \in 1..Len(tmpl) /\ jjob.diff \in 0..Huge
      BY <1>15, MakingType DEF JobSend, JobTypes, Makers, Holding
    <3> QED
      BY <3>1, FetchedTemplates, Numbers
  <2>2. DiffToShortTarget(jjob.diff) \in -1..ShortMax
    BY <2>1, TargetFacts, Numbers
  <2>3. jjob.tmpl \in 0..MaxTemplates
    BY <2>1 DEF Templates
  <2> QED
    BY <1>15, <2>1, <2>2, <2>3, JobsType, MakingType DEF JobSend, JobTo, JobTypes
<1>16. CASE Retarget
  <2>1. theJob.diff \in Nat
    <3>1. theJob.diff \in 0..Huge
      BY JobsType DEF ShareTypes
    <3> QED
      BY <3>1, Numbers
  <2>2. nextDiff' \in 0..Huge
    BY <1>16, <2>1, NextDiffsType DEF Retarget
  <2> QED
    BY <1>16, <2>2 DEF Retarget, HandlerTo, JobTypes
<1>17. ASSUME NetworkMoves \/ RefreshVersion \/ OtherStores \/ LoginFails \/ LoginStore \/ JobStore \/ (\E s \in
      Shares : MinerSubmits(s)) \/ ReadFails \/ LockConn \/ PotentialBlock \/ CalcPowFails \/
      QueueShare \/ Judge \/ CompareAgain \/ SubmitBlock \/ Answer \/ UNCHANGED vars PROVE
      UNCHANGED <<target, current, last, nextDiff, hjob, jjob>>
  BY <1>17 DEF vars, NetworkMoves, RefreshVersion, OtherStores, LoginFails, LoginStore, JobStore, MinerSubmits,
     ReadFails, LockConn, PotentialBlock, CalcPowFails, QueueShare, Judge, CompareAgain,
     SubmitBlock, Answer, Happens, LoginTo, JobTo, HandlerTo, Refuse
<1>18. UNCHANGED <<target, current, last, nextDiff, hjob, jjob>> => JobTypes'
  BY DEF JobTypes
<1> QED
  BY <1>1, <1>2, <1>3, <1>4, <1>5, <1>6, <1>7, <1>8, <1>9, <1>10, <1>11, <1>12, <1>13, <1>14,
     <1>15, <1>16, <1>17, <1>18 DEF Next, Login, Job, Share

\* The share.
LEMMA StepShareTypes ==
    ASSUME NetTypes, JobTypes, ShareTypes, [Next]_vars
    PROVE  ShareTypes'
<1> USE DEF daemon, network, curInfo, fetched, handling
<1>1. ASSUME NEW s \in Shares, MinerSubmits(s) PROVE ShareTypes'
  BY <1>1, Numbers DEF MinerSubmits, Happens, ShareTypes
<1>2. CASE LockConn
  BY <1>2, Numbers DEF LockConn, HandlerTo, ShareTypes, JobTypes
<1>3. CASE PotentialBlock
  <2>1. difficulty \in {0} \cup NetDiffs /\ seedHash \in 0..MaxSeeds /\ majorVersion \in BOOLEAN
    BY Numbers DEF NetTypes
  <2>2. checks' \in [first : {0} \cup NetDiffs, second : {0} \cup NetDiffs, seed : 0..MaxSeeds,
                     version : BOOLEAN]
    BY <1>3, <2>1 DEF PotentialBlock, ShareTypes
  <2> QED
    BY <1>3, <2>2 DEF PotentialBlock, HandlerTo, Refuse, ShareTypes
<1>4. CASE CalcPowFails
  BY <1>4, Numbers DEF CalcPowFails, HandlerTo, Refuse, ShareTypes
<1>5. CASE QueueShare
  BY <1>5, Numbers DEF QueueShare, HandlerTo, ShareTypes, NetTypes
<1>6. CASE Judge
  BY <1>6, Numbers DEF Judge, HandlerTo, Refuse, ShareTypes
<1>7. CASE CompareAgain
  BY <1>7, Numbers DEF CompareAgain, HandlerTo, ShareTypes, NetTypes
<1>8. CASE SubmitBlock
  BY <1>8, Numbers DEF SubmitBlock, HandlerTo, ShareTypes
<1>9. CASE Retarget
  BY <1>9, Numbers DEF Retarget, HandlerTo, ShareTypes
<1>10. CASE Answer
  <2>1. NoChecks \in [first : {0} \cup NetDiffs, second : {0} \cup NetDiffs, seed : 0..MaxSeeds,
                     version : BOOLEAN]
    BY Numbers DEF NoChecks
  <2> QED
    BY <1>10, <2>1, NoJobType DEF Answer, ShareTypes
<1>11. ASSUME NetworkMoves \/ RefreshVersion \/ OtherStores \/ (\E request \in Requests \cup {0} :
      LoginDiff(request)) \/ LoginNextDiff \/ LoginCall \/ LoginFetch \/ LoginFails \/ LoginStore
      \/ LoginBlob \/ LoginHashingBlob \/ LoginSend \/ JobLock \/ JobClamp \/ JobDiff \/ JobFetch
      \/ JobFails \/ JobStore \/ JobBlob \/ JobHashingBlob \/ JobSend \/ ReadFails \/ UNCHANGED
      vars PROVE UNCHANGED <<share, theJob, checks, outcome>>
  BY <1>11 DEF vars, NetworkMoves, RefreshVersion, OtherStores, LoginDiff, LoginNextDiff, LoginCall, LoginFetch,
     LoginFails, LoginStore, LoginBlob, LoginHashingBlob, LoginSend, JobLock, JobClamp, JobDiff,
     JobFetch, JobFails, JobStore, JobBlob, JobHashingBlob, JobSend, ReadFails, Happens,
     LoginTo, Fetch, JobTo
<1>12. UNCHANGED <<share, theJob, checks, outcome>> => ShareTypes'
  BY DEF ShareTypes
<1> QED
  BY <1>1, <1>2, <1>3, <1>4, <1>5, <1>6, <1>7, <1>8, <1>9, <1>10, <1>11, <1>12 DEF Next, Login,
     Job, Share

\* The lock.
LEMMA StepPlaceTypes ==
    ASSUME PlaceTypes, [Next]_vars
    PROVE  PlaceTypes'
<1> USE DEF daemon, network, curInfo, fetched, handling
<1>1. CASE NetworkMoves
  BY <1>1, Numbers, MoreType DEF NetworkMoves, Happens, PlaceTypes, LoginSteps
<1>2. CASE OtherStores
  BY <1>2, Numbers, MoreType DEF OtherStores, Happens, PlaceTypes, LoginSteps
<1>3. ASSUME NEW request \in Requests \cup {0}, LoginDiff(request) PROVE PlaceTypes'
  BY <1>3, Numbers, MoreType DEF LoginDiff, LoginTo, PlaceTypes, LoginSteps
<1>4. CASE LoginNextDiff
  BY <1>4, Numbers, MoreType DEF LoginNextDiff, LoginTo, PlaceTypes, LoginSteps
<1>5. CASE LoginCall
  BY <1>5, Numbers, MoreType DEF LoginCall, LoginTo, PlaceTypes, LoginSteps
<1>6. CASE LoginFetch
  BY <1>6, Numbers, MoreType DEF LoginFetch, LoginTo, Fetch, PlaceTypes, LoginSteps
<1>7. CASE LoginFails
  BY <1>7, Numbers, MoreType DEF LoginFails, LoginTo, PlaceTypes, LoginSteps
<1>8. CASE LoginStore
  BY <1>8, Numbers, MoreType DEF LoginStore, LoginTo, PlaceTypes, LoginSteps
<1>9. CASE LoginBlob
  BY <1>9, Numbers, MoreType DEF LoginBlob, LoginTo, PlaceTypes, LoginSteps
<1>10. CASE LoginHashingBlob
  BY <1>10, Numbers, MoreType DEF LoginHashingBlob, LoginTo, PlaceTypes, LoginSteps
<1>11. CASE LoginSend
  BY <1>11, Numbers, MoreType DEF LoginSend, LoginTo, PlaceTypes, LoginSteps
<1>12. CASE JobLock
  BY <1>12, Numbers, MoreType DEF JobLock, JobTo, PlaceTypes, LoginSteps
<1>13. CASE JobClamp
  BY <1>13, Numbers, MoreType DEF JobClamp, JobTo, PlaceTypes, LoginSteps
<1>14. CASE JobDiff
  BY <1>14, Numbers, MoreType DEF JobDiff, JobTo, PlaceTypes, LoginSteps
<1>15. CASE JobFetch
  BY <1>15, Numbers, MoreType DEF JobFetch, JobTo, Fetch, PlaceTypes, LoginSteps
<1>16. CASE JobFails
  BY <1>16, Numbers, MoreType DEF JobFails, PlaceTypes, LoginSteps
<1>17. CASE JobStore
  BY <1>17, Numbers, MoreType DEF JobStore, JobTo, PlaceTypes, LoginSteps
<1>18. CASE JobBlob
  BY <1>18, Numbers, MoreType DEF JobBlob, JobTo, PlaceTypes, LoginSteps
<1>19. CASE JobHashingBlob
  BY <1>19, Numbers, MoreType DEF JobHashingBlob, JobTo, PlaceTypes, LoginSteps
<1>20. CASE JobSend
  BY <1>20, Numbers, MoreType DEF JobSend, JobTo, PlaceTypes, LoginSteps
<1>21. ASSUME NEW s \in Shares, MinerSubmits(s) PROVE PlaceTypes'
  BY <1>21, Numbers, MoreType DEF MinerSubmits, Happens, PlaceTypes, LoginSteps
<1>22. CASE ReadFails
  BY <1>22, Numbers, MoreType DEF ReadFails, PlaceTypes, LoginSteps
<1>23. CASE LockConn
  BY <1>23, Numbers, MoreType DEF LockConn, HandlerTo, PlaceTypes, LoginSteps
<1>24. CASE PotentialBlock
  BY <1>24, Numbers, MoreType DEF PotentialBlock, HandlerTo, Refuse, PlaceTypes, LoginSteps
<1>25. CASE CalcPowFails
  BY <1>25, Numbers, MoreType DEF CalcPowFails, HandlerTo, Refuse, PlaceTypes, LoginSteps
<1>26. CASE QueueShare
  BY <1>26, Numbers, MoreType DEF QueueShare, HandlerTo, PlaceTypes, LoginSteps
<1>27. CASE Judge
  BY <1>27, Numbers, MoreType DEF Judge, HandlerTo, Refuse, PlaceTypes, LoginSteps
<1>28. CASE CompareAgain
  BY <1>28, Numbers, MoreType DEF CompareAgain, HandlerTo, PlaceTypes, LoginSteps
<1>29. CASE SubmitBlock
  BY <1>29, Numbers, MoreType DEF SubmitBlock, HandlerTo, PlaceTypes, LoginSteps
<1>30. CASE Retarget
  BY <1>30, Numbers, MoreType DEF Retarget, HandlerTo, PlaceTypes, LoginSteps
<1>31. CASE Answer
  BY <1>31, Numbers, MoreType DEF Answer, PlaceTypes, LoginSteps
<1>32. ASSUME RefreshVersion \/ UNCHANGED vars PROVE UNCHANGED <<lock, hpc, jpc, news, open, crossed, events>>
  BY <1>32 DEF vars, RefreshVersion
<1>33. UNCHANGED <<lock, hpc, jpc, news, open, crossed, events>> => PlaceTypes'
  BY DEF PlaceTypes, LoginSteps
<1> QED
  BY <1>1, <1>2, <1>3, <1>4, <1>5, <1>6, <1>7, <1>8, <1>9, <1>10, <1>11, <1>12, <1>13, <1>14,
     <1>15, <1>16, <1>17, <1>18, <1>19, <1>20, <1>21, <1>22, <1>23, <1>24, <1>25, <1>26, <1>27,
     <1>28, <1>29, <1>30, <1>31, <1>32, <1>33 DEF Next, Login, Job, Share

\* Every step leaves each maker its own template.
LEMMA StepMakers ==
    ASSUME NetTypes, JobTypes, PlaceTypes, Makers, [Next]_vars
    PROVE  Makers'
<1> USE DEF daemon, network, curInfo, fetched, handling
<1>1. ASSUME NEW request \in Requests \cup {0}, LoginDiff(request) PROVE Makers'
  BY <1>1, Numbers DEF LoginDiff, LoginTo, Makers, Holding, PlaceTypes, LoginSteps
<1>2. CASE LoginNextDiff
  BY <1>2, Numbers DEF LoginNextDiff, LoginTo, Makers, Holding, PlaceTypes, LoginSteps
<1>3. CASE LoginCall
  BY <1>3, Numbers DEF LoginCall, LoginTo, Makers, Holding, PlaceTypes, LoginSteps
<1>4. CASE LoginFetch
  BY SMTT(20), <1>4, FetchFacts, Numbers DEF LoginFetch, LoginTo, Fetch, Makers, Holding,
     PlaceTypes, LoginSteps, JobTypes, Making
<1>5. CASE LoginFails
  BY <1>5, Numbers DEF LoginFails, LoginTo, Makers, Holding, PlaceTypes, LoginSteps
<1>6. CASE LoginStore
  BY <1>6, Numbers DEF LoginStore, LoginTo, Makers, Holding, PlaceTypes, LoginSteps
<1>7. CASE LoginBlob
  BY <1>7, Numbers DEF LoginBlob, LoginTo, Makers, Holding, PlaceTypes, LoginSteps
<1>8. CASE LoginHashingBlob
  BY <1>8, Numbers DEF LoginHashingBlob, LoginTo, Makers, Holding, PlaceTypes, LoginSteps
<1>9. CASE LoginSend
  BY <1>9, Numbers DEF LoginSend, LoginTo, Makers, Holding, PlaceTypes, LoginSteps
<1>10. CASE JobLock
  BY <1>10, Numbers DEF JobLock, JobTo, Makers, Holding, PlaceTypes, LoginSteps
<1>11. CASE JobClamp
  BY <1>11, Numbers DEF JobClamp, JobTo, Makers, Holding, PlaceTypes, LoginSteps
<1>12. CASE JobDiff
  BY <1>12, Numbers DEF JobDiff, JobTo, Makers, Holding, PlaceTypes, LoginSteps
<1>13. CASE JobFetch
  BY SMTT(20), <1>13, FetchFacts, Numbers DEF JobFetch, JobTo, Fetch, Makers, Holding, PlaceTypes,
     LoginSteps, JobTypes, Making
<1>14. CASE JobFails
  BY <1>14, Numbers DEF JobFails, Makers, Holding, PlaceTypes, LoginSteps
<1>15. CASE JobStore
  BY <1>15, Numbers DEF JobStore, JobTo, Makers, Holding, PlaceTypes, LoginSteps
<1>16. CASE JobBlob
  BY <1>16, Numbers DEF JobBlob, JobTo, Makers, Holding, PlaceTypes, LoginSteps
<1>17. CASE JobHashingBlob
  BY <1>17, Numbers DEF JobHashingBlob, JobTo, Makers, Holding, PlaceTypes, LoginSteps
<1>18. CASE JobSend
  BY <1>18, Numbers DEF JobSend, JobTo, Makers, Holding, PlaceTypes, LoginSteps
<1>19. ASSUME NEW s \in Shares, MinerSubmits(s) PROVE Makers'
  BY <1>19, Numbers DEF MinerSubmits, Happens, Makers, Holding, PlaceTypes, LoginSteps
<1>20. CASE ReadFails
  BY <1>20, Numbers DEF ReadFails, Makers, Holding, PlaceTypes, LoginSteps
<1>21. CASE LockConn
  BY <1>21, Numbers DEF LockConn, HandlerTo, Makers, Holding, PlaceTypes, LoginSteps
<1>22. CASE PotentialBlock
  BY <1>22, Numbers DEF PotentialBlock, HandlerTo, Refuse, Makers, Holding, PlaceTypes,
     LoginSteps
<1>23. CASE CalcPowFails
  BY <1>23, Numbers DEF CalcPowFails, HandlerTo, Refuse, Makers, Holding, PlaceTypes, LoginSteps
<1>24. CASE QueueShare
  BY <1>24, Numbers DEF QueueShare, HandlerTo, Makers, Holding, PlaceTypes, LoginSteps
<1>25. CASE Judge
  BY <1>25, Numbers DEF Judge, HandlerTo, Refuse, Makers, Holding, PlaceTypes, LoginSteps
<1>26. CASE CompareAgain
  BY <1>26, Numbers DEF CompareAgain, HandlerTo, Makers, Holding, PlaceTypes, LoginSteps
<1>27. CASE SubmitBlock
  BY <1>27, Numbers DEF SubmitBlock, HandlerTo, Makers, Holding, PlaceTypes, LoginSteps
<1>28. CASE Retarget
  BY <1>28, Numbers DEF Retarget, HandlerTo, Makers, Holding, PlaceTypes, LoginSteps
<1>29. CASE Answer
  BY <1>29, Numbers DEF Answer, Makers, Holding, PlaceTypes, LoginSteps
<1>30. ASSUME NetworkMoves \/ RefreshVersion \/ OtherStores \/ UNCHANGED vars PROVE UNCHANGED <<tmpl, hpc, hjob,
      jpc, jjob>>
  BY <1>30 DEF vars, NetworkMoves, RefreshVersion, OtherStores, Happens
<1>31. UNCHANGED <<tmpl, hpc, hjob, jpc, jjob>> => Makers'
  BY DEF Makers, Holding, PlaceTypes, LoginSteps
<1> QED
  BY <1>1, <1>2, <1>3, <1>4, <1>5, <1>6, <1>7, <1>8, <1>9, <1>10, <1>11, <1>12, <1>13, <1>14,
     <1>15, <1>16, <1>17, <1>18, <1>19, <1>20, <1>21, <1>22, <1>23, <1>24, <1>25, <1>26, <1>27,
     <1>28, <1>29, <1>30, <1>31 DEF Next, Login, Job, Share

\* Every step sends what has not been sent.
LEMMA StepSentOnce ==
    ASSUME NetTypes, JobTypes, PlaceTypes, Makers, SentOnce, [Next]_vars
    PROVE  SentOnce'
<1> USE DEF daemon, network, curInfo, fetched, handling
<1>1. ASSUME NEW request \in Requests \cup {0}, LoginDiff(request) PROVE SentOnce'
  BY <1>1, Numbers DEF LoginDiff, LoginTo, SentOnce, Makers, Holding
<1>2. CASE LoginNextDiff
  BY <1>2, Numbers DEF LoginNextDiff, LoginTo, SentOnce, Makers, Holding
<1>3. CASE LoginCall
  BY <1>3, Numbers DEF LoginCall, LoginTo, SentOnce, Makers, Holding
<1>4. CASE LoginFetch
  BY SMTT(20), <1>4, FetchFacts, Numbers DEF LoginFetch, LoginTo, Fetch, SentOnce, Makers, Holding,
     JobTypes, Making, Templates
<1>5. CASE LoginFails
  BY <1>5, Numbers DEF LoginFails, LoginTo, SentOnce, Makers, Holding
<1>6. CASE LoginStore
  BY <1>6, Numbers DEF LoginStore, LoginTo, SentOnce, Makers, Holding
<1>7. CASE LoginBlob
  BY <1>7, Numbers DEF LoginBlob, LoginTo, SentOnce, Makers, Holding
<1>8. CASE LoginHashingBlob
  BY <1>8, Numbers DEF LoginHashingBlob, LoginTo, SentOnce, Makers, Holding
<1>9. CASE LoginSend
  BY <1>9, TargetFacts, Numbers DEF LoginSend, LoginTo, SentOnce, Makers, Holding, JobTypes
<1>10. CASE JobLock
  BY <1>10, Numbers DEF JobLock, JobTo, SentOnce, Makers, Holding
<1>11. CASE JobClamp
  BY <1>11, Numbers DEF JobClamp, JobTo, SentOnce, Makers, Holding
<1>12. CASE JobDiff
  BY <1>12, Numbers DEF JobDiff, JobTo, SentOnce, Makers, Holding
<1>13. CASE JobFetch
  BY SMTT(20), <1>13, FetchFacts, Numbers DEF JobFetch, JobTo, Fetch, SentOnce, Makers, Holding,
     JobTypes, Making, Templates
<1>14. CASE JobFails
  BY <1>14, Numbers DEF JobFails, SentOnce, Makers, Holding
<1>15. CASE JobStore
  BY <1>15, Numbers DEF JobStore, JobTo, SentOnce, Makers, Holding
<1>16. CASE JobBlob
  BY <1>16, Numbers DEF JobBlob, JobTo, SentOnce, Makers, Holding
<1>17. CASE JobHashingBlob
  BY <1>17, Numbers DEF JobHashingBlob, JobTo, SentOnce, Makers, Holding
<1>18. CASE JobSend
  BY <1>18, TargetFacts, Numbers DEF JobSend, JobTo, SentOnce, Makers, Holding, JobTypes
<1>19. ASSUME NEW s \in Shares, MinerSubmits(s) PROVE SentOnce'
  BY <1>19, Numbers DEF MinerSubmits, Happens, SentOnce, Makers, Holding
<1>20. CASE ReadFails
  BY <1>20, Numbers DEF ReadFails, SentOnce, Makers, Holding
<1>21. CASE LockConn
  BY <1>21, Numbers DEF LockConn, HandlerTo, SentOnce, Makers, Holding
<1>22. CASE PotentialBlock
  BY <1>22, Numbers DEF PotentialBlock, HandlerTo, Refuse, SentOnce, Makers, Holding
<1>23. CASE CalcPowFails
  BY <1>23, Numbers DEF CalcPowFails, HandlerTo, Refuse, SentOnce, Makers, Holding
<1>24. CASE QueueShare
  BY <1>24, Numbers DEF QueueShare, HandlerTo, SentOnce, Makers, Holding
<1>25. CASE Judge
  BY <1>25, Numbers DEF Judge, HandlerTo, Refuse, SentOnce, Makers, Holding
<1>26. CASE CompareAgain
  BY <1>26, Numbers DEF CompareAgain, HandlerTo, SentOnce, Makers, Holding
<1>27. CASE SubmitBlock
  BY <1>27, Numbers DEF SubmitBlock, HandlerTo, SentOnce, Makers, Holding
<1>28. CASE Retarget
  BY <1>28, Numbers DEF Retarget, HandlerTo, SentOnce, Makers, Holding
<1>29. CASE Answer
  BY <1>29, Numbers DEF Answer, SentOnce, Makers, Holding
<1>30. ASSUME NetworkMoves \/ RefreshVersion \/ OtherStores \/ UNCHANGED vars PROVE UNCHANGED <<target, tmpl, hpc,
      hjob, jpc, jjob>>
  BY <1>30 DEF vars, NetworkMoves, RefreshVersion, OtherStores, Happens
<1>31. UNCHANGED <<target, tmpl, hpc, hjob, jpc, jjob>> => SentOnce'
  BY DEF SentOnce, Makers, Holding
<1> QED
  BY <1>1, <1>2, <1>3, <1>4, <1>5, <1>6, <1>7, <1>8, <1>9, <1>10, <1>11, <1>12, <1>13, <1>14,
     <1>15, <1>16, <1>17, <1>18, <1>19, <1>20, <1>21, <1>22, <1>23, <1>24, <1>25, <1>26, <1>27,
     <1>28, <1>29, <1>30, <1>31 DEF Next, Login, Job, Share

-----------------------------------------------------------------------------
(* The share in the handler's hands.                                       *)

\* Every step knows which share it is at.
LEMMA StepHandling ==
    ASSUME ShareTypes, JobTypes, PlaceTypes, Handling, NetTypes, Makers, [Next]_vars
    PROVE  Handling'
<1> USE DEF daemon, network, curInfo, fetched, handling
<1>1. ASSUME NEW request \in Requests \cup {0}, LoginDiff(request) PROVE Handling'
  BY <1>1, Numbers DEF LoginDiff, LoginTo, Handling, Judging, LoginSteps
<1>2. CASE LoginNextDiff
  BY <1>2, Numbers DEF LoginNextDiff, LoginTo, Handling, Judging, LoginSteps
<1>3. CASE LoginCall
  BY <1>3, Numbers DEF LoginCall, LoginTo, Handling, Judging, LoginSteps
<1>4. CASE LoginFetch
  BY <1>4, Numbers DEF LoginFetch, LoginTo, Fetch, Handling, Judging, LoginSteps
<1>5. CASE LoginFails
  BY <1>5, Numbers DEF LoginFails, LoginTo, Handling, Judging, LoginSteps
<1>6. CASE LoginStore
  BY <1>6, Numbers DEF LoginStore, LoginTo, Handling, Judging, LoginSteps
<1>7. CASE LoginBlob
  BY <1>7, Numbers DEF LoginBlob, LoginTo, Handling, Judging, LoginSteps
<1>8. CASE LoginHashingBlob
  BY <1>8, Numbers DEF LoginHashingBlob, LoginTo, Handling, Judging, LoginSteps
<1>9. CASE LoginSend
  <2>1. hjob.tmpl \in Templates /\ DiffToShortTarget(hjob.diff) # -1
    <3>0. hpc = "send" /\ hjob \in Making
      BY <1>9 DEF LoginSend, JobTypes
    <3>1. hjob.tmpl \in 1..Len(tmpl) /\ hjob.diff \in 0..Huge
      BY <3>0, MakingType DEF Makers, Holding
    <3>2. hjob.diff \in Nat
      BY <3>1, Numbers
    <3>3. DiffToShortTarget(hjob.diff) \in 0..ShortMax
      BY <3>2, TargetFacts
    <3> QED
      BY <3>1, <3>3, FetchedTemplates, Numbers
  <2>2. share # NoShare => target'[share.id] # -1
    BY <1>9, <2>1, SharesType DEF LoginSend, Handling, JobTypes
  <2> QED
    BY <1>9, <2>2 DEF LoginSend, LoginTo, Handling, Judging, LoginSteps
<1>10. CASE JobSend
  BY SMTT(20), <1>10, TargetFacts, MakingType, Numbers DEF JobSend, JobTo, Handling, Judging,
     LoginSteps, JobTypes, Shares, Templates
<1>11. ASSUME NEW s \in Shares, MinerSubmits(s) PROVE Handling'
  BY <1>11, Numbers DEF MinerSubmits, Happens, Handling, Judging, LoginSteps, Shares, NoShare
<1>12. CASE ReadFails
  BY <1>12, Numbers DEF ReadFails, Handling, Judging, LoginSteps
<1>13. CASE LockConn
  BY <1>13, Numbers DEF LockConn, HandlerTo, Handling, Judging, LoginSteps
<1>14. CASE PotentialBlock
  BY <1>14, Numbers DEF PotentialBlock, HandlerTo, Refuse, Handling, Judging, LoginSteps
<1>15. CASE CalcPowFails
  BY <1>15, Numbers DEF CalcPowFails, HandlerTo, Refuse, Handling, Judging, LoginSteps
<1>16. CASE QueueShare
  BY <1>16, Numbers DEF QueueShare, HandlerTo, Handling, Judging, LoginSteps
<1>17. CASE Judge
  BY <1>17, Numbers DEF Judge, HandlerTo, Refuse, Handling, Judging, LoginSteps, ShareTypes
<1>18. CASE CompareAgain
  BY <1>18, Numbers DEF CompareAgain, HandlerTo, Handling, Judging, LoginSteps
<1>19. CASE SubmitBlock
  BY <1>19, Numbers DEF SubmitBlock, HandlerTo, Handling, Judging, LoginSteps, ShareTypes
<1>20. CASE Retarget
  BY <1>20, Numbers DEF Retarget, HandlerTo, Handling, Judging, LoginSteps
<1>21. CASE Answer
  BY <1>21, Numbers DEF Answer, Handling, Judging, LoginSteps, NoShare
<1>22. ASSUME NetworkMoves \/ RefreshVersion \/ OtherStores \/ JobLock \/ JobClamp \/ JobDiff \/ JobFetch \/
      JobFails \/ JobStore \/ JobBlob \/ JobHashingBlob \/ UNCHANGED vars PROVE UNCHANGED <<target,
      hpc, share, outcome>>
  BY <1>22 DEF vars, NetworkMoves, RefreshVersion, OtherStores, JobLock, JobClamp, JobDiff, JobFetch, JobFails,
     JobStore, JobBlob, JobHashingBlob, Happens, JobTo, Fetch
<1>23. UNCHANGED <<target, hpc, share, outcome>> => Handling'
  BY DEF Handling, Judging, LoginSteps
<1> QED
  BY <1>1, <1>2, <1>3, <1>4, <1>5, <1>6, <1>7, <1>8, <1>9, <1>10, <1>11, <1>12, <1>13, <1>14,
     <1>15, <1>16, <1>17, <1>18, <1>19, <1>20, <1>21, <1>22, <1>23 DEF Next, Login, Job, Share

\* Every step keeps what CurInfo has.
LEMMA StepTemplateStored ==
    ASSUME NetTypes, PlaceTypes, Makers, TemplateStored, [Next]_vars
    PROVE  TemplateStored'
<1> USE DEF daemon, network, curInfo, fetched, handling
<1>1. CASE OtherStores
  BY <1>1, Numbers DEF OtherStores, Happens, TemplateStored, NetTypes
<1>2. ASSUME NEW request \in Requests \cup {0}, LoginDiff(request) PROVE TemplateStored'
  BY <1>2, Numbers DEF LoginDiff, LoginTo, TemplateStored
<1>3. CASE LoginNextDiff
  BY <1>3, Numbers DEF LoginNextDiff, LoginTo, TemplateStored
<1>4. CASE LoginCall
  BY <1>4, Numbers DEF LoginCall, LoginTo, TemplateStored
<1>5. CASE LoginFetch
  BY <1>5, Numbers DEF LoginFetch, LoginTo, Fetch, TemplateStored
<1>6. CASE LoginFails
  BY <1>6, Numbers DEF LoginFails, LoginTo, TemplateStored
<1>7. CASE LoginStore
  BY <1>7, TemplatesOf, Numbers DEF LoginStore, LoginTo, StoreTemplate, TemplateStored, NetTypes, Makers,
     Holding
<1>8. CASE LoginBlob
  BY <1>8, Numbers DEF LoginBlob, LoginTo, TemplateStored
<1>9. CASE LoginHashingBlob
  BY <1>9, Numbers DEF LoginHashingBlob, LoginTo, TemplateStored
<1>10. CASE LoginSend
  BY <1>10, Numbers DEF LoginSend, LoginTo, TemplateStored
<1>11. CASE JobStore
  BY <1>11, TemplatesOf, Numbers DEF JobStore, JobTo, StoreTemplate, TemplateStored, NetTypes, Makers, Holding
<1>12. ASSUME NEW s \in Shares, MinerSubmits(s) PROVE TemplateStored'
  BY <1>12, Numbers DEF MinerSubmits, Happens, TemplateStored
<1>13. CASE ReadFails
  BY <1>13, Numbers DEF ReadFails, TemplateStored
<1>14. CASE LockConn
  BY <1>14, Numbers DEF LockConn, HandlerTo, TemplateStored
<1>15. CASE PotentialBlock
  BY <1>15, Numbers DEF PotentialBlock, HandlerTo, Refuse, TemplateStored
<1>16. CASE CalcPowFails
  BY <1>16, Numbers DEF CalcPowFails, HandlerTo, Refuse, TemplateStored
<1>17. CASE QueueShare
  BY <1>17, Numbers DEF QueueShare, HandlerTo, TemplateStored
<1>18. CASE Judge
  BY <1>18, Numbers DEF Judge, HandlerTo, Refuse, TemplateStored
<1>19. CASE CompareAgain
  BY <1>19, Numbers DEF CompareAgain, HandlerTo, TemplateStored
<1>20. CASE SubmitBlock
  BY <1>20, Numbers DEF SubmitBlock, HandlerTo, TemplateStored
<1>21. CASE Retarget
  BY <1>21, Numbers DEF Retarget, HandlerTo, TemplateStored
<1>22. CASE Answer
  BY <1>22, Numbers DEF Answer, TemplateStored
<1>23. ASSUME NetworkMoves \/ RefreshVersion \/ JobLock \/ JobClamp \/ JobDiff \/ JobFetch \/ JobFails \/ JobBlob
      \/ JobHashingBlob \/ JobSend \/ UNCHANGED vars PROVE UNCHANGED <<difficulty, hpc>>
  BY <1>23 DEF vars, NetworkMoves, RefreshVersion, JobLock, JobClamp, JobDiff, JobFetch, JobFails, JobBlob,
     JobHashingBlob, JobSend, Happens, JobTo, Fetch
<1>24. UNCHANGED <<difficulty, hpc>> => TemplateStored'
  BY DEF TemplateStored
<1> QED
  BY <1>1, <1>2, <1>3, <1>4, <1>5, <1>6, <1>7, <1>8, <1>9, <1>10, <1>11, <1>12, <1>13, <1>14,
     <1>15, <1>16, <1>17, <1>18, <1>19, <1>20, <1>21, <1>22, <1>23, <1>24 DEF Next, Login, Job,
     Share

\* Every step keeps what has been compared.
LEMMA StepCompared ==
    ASSUME NetTypes, ShareTypes, PlaceTypes, Handling, TemplateStored, Compared, [Next]_vars
    PROVE  Compared'
<1> USE DEF daemon, network, curInfo, fetched, handling
<1>1. CASE NetworkMoves
  BY <1>1, Numbers DEF NetworkMoves, Happens, Compared, Judging, Handling, LoginSteps
<1>2. ASSUME NEW request \in Requests \cup {0}, LoginDiff(request) PROVE Compared'
  BY <1>2, Numbers DEF LoginDiff, LoginTo, Compared, Judging, Handling, LoginSteps
<1>3. CASE LoginNextDiff
  BY <1>3, Numbers DEF LoginNextDiff, LoginTo, Compared, Judging, Handling, LoginSteps
<1>4. CASE LoginCall
  BY <1>4, Numbers DEF LoginCall, LoginTo, Compared, Judging, Handling, LoginSteps
<1>5. CASE LoginFetch
  BY <1>5, Numbers DEF LoginFetch, LoginTo, Fetch, Compared, Judging, Handling, LoginSteps
<1>6. CASE LoginFails
  BY <1>6, Numbers DEF LoginFails, LoginTo, Compared, Judging, Handling, LoginSteps
<1>7. CASE LoginStore
  BY <1>7, Numbers DEF LoginStore, LoginTo, Compared, Judging, Handling, LoginSteps
<1>8. CASE LoginBlob
  BY <1>8, Numbers DEF LoginBlob, LoginTo, Compared, Judging, Handling, LoginSteps
<1>9. CASE LoginHashingBlob
  BY <1>9, Numbers DEF LoginHashingBlob, LoginTo, Compared, Judging, Handling, LoginSteps
<1>10. CASE LoginSend
  BY <1>10, Numbers DEF LoginSend, LoginTo, Compared, Judging, Handling, LoginSteps
<1>11. ASSUME NEW s \in Shares, MinerSubmits(s) PROVE Compared'
  BY <1>11, Numbers DEF MinerSubmits, Happens, Compared, Judging, Handling, LoginSteps
<1>12. CASE ReadFails
  BY <1>12, Numbers DEF ReadFails, Compared, Judging, Handling, LoginSteps
<1>13. CASE LockConn
  BY <1>13, Numbers DEF LockConn, HandlerTo, Compared, Judging, Handling, LoginSteps
<1>14. CASE PotentialBlock
  BY <1>14, Numbers DEF PotentialBlock, HandlerTo, Refuse, Compared, Judging, Handling,
     LoginSteps, ShareTypes
<1>15. CASE CalcPowFails
  BY <1>15, Numbers DEF CalcPowFails, HandlerTo, Refuse, Compared, Judging, Handling, LoginSteps
<1>16. CASE QueueShare
  BY <1>16, Numbers DEF QueueShare, HandlerTo, Compared, Judging, Handling, LoginSteps,
     NetTypes, TemplateStored, ShareTypes
<1>17. CASE Judge
  BY <1>17, Numbers DEF Judge, HandlerTo, Refuse, Compared, Judging, Handling, LoginSteps,
     ShareTypes
<1>18. CASE CompareAgain
  <2>1. difficulty \in seen /\ difficulty \in Nat /\ share.diff \in Nat
    BY <1>18, Numbers, SharesType DEF CompareAgain, TemplateStored, NetTypes, Handling, Judging
  <2>2. checks'.first = checks.first /\ checks'.second = difficulty
    BY <1>18 DEF CompareAgain, ShareTypes
  <2>3. /\ hpc = "compare" /\ UNCHANGED <<share, outcome, seen>>
        /\ hpc' = IF share.diff >= difficulty THEN "submit" ELSE "retarget"
    BY <1>18 DEF CompareAgain, HandlerTo
  <2> QED
    BY <2>1, <2>2, <2>3 DEF Compared, Judging
<1>19. CASE SubmitBlock
  <2>1. hpc = "submit" /\ hpc' \in {"retarget", "answer"} /\ UNCHANGED <<share, checks, seen>>
    BY <1>19 DEF SubmitBlock, HandlerTo
  <2>2. outcome' \in {"submitted", "unverified"} /\ (outcome' = "unverified" => outcome = "queued")
    BY <1>19 DEF SubmitBlock
  <2>3. share.diff \in Nat /\ seen \subseteq Nat
    BY <2>1, Numbers, SharesType DEF NetTypes, Handling, Judging
  <2>4. outcome = "queued" => \E d, e \in seen : d # e
    <3> SUFFICES ASSUME outcome = "queued" PROVE \E d, e \in seen : d # e
      OBVIOUS
    <3>1. /\ checks.first \in seen /\ share.diff < checks.first
          /\ checks.second \in seen /\ share.diff >= checks.second
      BY <2>1 DEF Compared, Judging
    <3>2. \A a, b, d \in Nat : d < a /\ d >= b => a # b
      OBVIOUS
    <3>3. checks.first # checks.second
      BY <2>3, <3>1, <3>2
    <3> QED
      BY <3>1, <3>3
  <2> QED
    BY <2>1, <2>2, <2>4 DEF Compared, Judging
<1>20. CASE Retarget
  BY <1>20, Numbers DEF Retarget, HandlerTo, Compared, Judging, Handling, LoginSteps, ShareTypes
<1>21. CASE Answer
  BY <1>21, Numbers DEF Answer, Compared, Judging, Handling, LoginSteps
<1>22. ASSUME RefreshVersion \/ OtherStores \/ JobLock \/ JobClamp \/ JobDiff \/ JobFetch \/ JobFails \/ JobStore
      \/ JobBlob \/ JobHashingBlob \/ JobSend \/ UNCHANGED vars PROVE UNCHANGED <<seen, hpc, share,
      checks, outcome>>
  BY <1>22 DEF vars, RefreshVersion, OtherStores, JobLock, JobClamp, JobDiff, JobFetch, JobFails, JobStore,
     JobBlob, JobHashingBlob, JobSend, Happens, JobTo, Fetch
<1>23. UNCHANGED <<seen, hpc, share, checks, outcome>> => Compared'
  BY DEF Compared, Judging, Handling, LoginSteps
<1> QED
  BY <1>1, <1>2, <1>3, <1>4, <1>5, <1>6, <1>7, <1>8, <1>9, <1>10, <1>11, <1>12, <1>13, <1>14,
     <1>15, <1>16, <1>17, <1>18, <1>19, <1>20, <1>21, <1>22, <1>23 DEF Next, Login, Job, Share

-----------------------------------------------------------------------------
(* The difficulty of jobs, while nothing has disturbed the login.          *)

\* What was disturbed stays so.
LEMMA StaysDisturbed ==
    ASSUME PlaceTypes, Undisturbed', [Next]_vars
    PROVE  Undisturbed
<1> USE DEF daemon, network, curInfo, fetched, handling
<1>1. ASSUME NEW request \in Requests \cup {0}, LoginDiff(request) PROVE Undisturbed
  BY <1>1 DEF LoginDiff, LoginTo, Undisturbed, PlaceTypes
<1>2. CASE LoginNextDiff
  BY <1>2 DEF LoginNextDiff, LoginTo, Undisturbed, PlaceTypes
<1>3. CASE LoginCall
  BY <1>3 DEF LoginCall, LoginTo, Undisturbed, PlaceTypes
<1>4. CASE LoginFetch
  BY <1>4 DEF LoginFetch, LoginTo, Fetch, Undisturbed, PlaceTypes
<1>5. CASE LoginFails
  BY <1>5 DEF LoginFails, LoginTo, Undisturbed, PlaceTypes
<1>6. CASE LoginStore
  BY <1>6 DEF LoginStore, LoginTo, Undisturbed, PlaceTypes
<1>7. CASE LoginBlob
  BY <1>7 DEF LoginBlob, LoginTo, Undisturbed, PlaceTypes
<1>8. CASE LoginHashingBlob
  BY <1>8 DEF LoginHashingBlob, LoginTo, Undisturbed, PlaceTypes
<1>9. CASE LoginSend
  BY <1>9 DEF LoginSend, LoginTo, Undisturbed, PlaceTypes
<1>10. CASE JobLock
  BY <1>10 DEF JobLock, JobTo, Undisturbed, PlaceTypes
<1>11. CASE JobClamp
  BY <1>11 DEF JobClamp, JobTo, Undisturbed, PlaceTypes
<1>12. CASE JobDiff
  BY <1>12 DEF JobDiff, JobTo, Undisturbed, PlaceTypes
<1>13. CASE JobFetch
  BY <1>13 DEF JobFetch, JobTo, Fetch, Undisturbed, PlaceTypes
<1>14. CASE JobFails
  BY <1>14 DEF JobFails, Undisturbed, PlaceTypes
<1>15. CASE JobStore
  BY <1>15 DEF JobStore, JobTo, Undisturbed, PlaceTypes
<1>16. CASE JobBlob
  BY <1>16 DEF JobBlob, JobTo, Undisturbed, PlaceTypes
<1>17. CASE JobHashingBlob
  BY <1>17 DEF JobHashingBlob, JobTo, Undisturbed, PlaceTypes
<1>18. CASE JobSend
  BY <1>18 DEF JobSend, JobTo, Undisturbed, PlaceTypes
<1>19. CASE ReadFails
  BY <1>19 DEF ReadFails, Undisturbed, PlaceTypes
<1>20. ASSUME NetworkMoves \/ RefreshVersion \/ OtherStores \/ (\E s \in Shares : MinerSubmits(s)) \/ LockConn \/
      PotentialBlock \/ CalcPowFails \/ QueueShare \/ Judge \/ CompareAgain \/ SubmitBlock \/
      Retarget \/ Answer \/ UNCHANGED vars PROVE UNCHANGED <<open, crossed>>
  BY <1>20 DEF vars, NetworkMoves, RefreshVersion, OtherStores, MinerSubmits, LockConn, PotentialBlock,
     CalcPowFails, QueueShare, Judge, CompareAgain, SubmitBlock, Retarget, Answer, Happens,
     HandlerTo, Refuse
<1>21. UNCHANGED <<open, crossed>> => Undisturbed
  BY DEF Undisturbed, PlaceTypes
<1> QED
  BY <1>1, <1>2, <1>3, <1>4, <1>5, <1>6, <1>7, <1>8, <1>9, <1>10, <1>11, <1>12, <1>13, <1>14,
     <1>15, <1>16, <1>17, <1>18, <1>19, <1>20, <1>21 DEF Next, Login, Job, Share

\* Every step keeps the difficulties in range.
LEMMA StepRange ==
    ASSUME NetTypes, JobTypes, ShareTypes, PlaceTypes, PlaceTypes', Makers, TemplateStored,
       Undisturbed, Undisturbed', RangeInv, [Next]_vars
    PROVE  RangeInv'
<1> USE DEF daemon, network, curInfo, fetched, handling
<1>1. CASE OtherStores
  BY <1>1, Numbers DEF OtherStores, Happens, RangeInv, Undisturbed, LoginSteps, Preparing,
     Holding, NetTypes
<1>2. ASSUME NEW request \in Requests \cup {0}, LoginDiff(request) PROVE RangeInv'
  <2> DEFINE d == IF request > 0 THEN IF request < MinDiff THEN MinDiff ELSE request ELSE 2 * MinDiff
  <2>1. /\ hpc = "login" /\ hpc' = "nextdiff" /\ UNCHANGED <<jpc, difficulty, nextDiff, jjob, last>>
        /\ jpc = "none"
    BY <1>2 DEF LoginDiff, LoginTo, Undisturbed
  <2>2. InRange(d, -1)
    BY Numbers DEF InRange
  <2>3. current' = [current EXCEPT !.diff = d, !.clamp = -1] \/ (current' = current /\ current.diff # 0)
    BY <1>2 DEF LoginDiff
  <2> HIDE DEF d
  <2>4. InRange(current'.diff, current'.clamp)
    <3>1. CASE current' = [current EXCEPT !.diff = d, !.clamp = -1]
      <4>1. current'.diff = d /\ current'.clamp = -1
        BY <3>1 DEF JobTypes, Jobs
      <4> QED
        BY <2>2, <4>1
    <3>2. CASE current' = current /\ current.diff # 0
      <4>1. NoJob.diff = 0
        BY DEF NoJob
      <4> QED
        BY <3>2, <4>1 DEF RangeInv
    <3> QED
      BY <2>3, <3>1, <3>2
  <2> QED
    BY <2>1, <2>4 DEF RangeInv, LoginSteps, Preparing, Holding
<1>3. CASE LoginNextDiff
  BY <1>3, Numbers DEF LoginNextDiff, LoginTo, RangeInv, Undisturbed, LoginSteps, Preparing,
     Holding
<1>4. CASE LoginCall
  BY <1>4, Numbers DEF LoginCall, LoginTo, RangeInv, Undisturbed, LoginSteps, Preparing, Holding
<1>5. CASE LoginFetch
  BY <1>5, Numbers DEF LoginFetch, LoginTo, Fetch, RangeInv, Undisturbed, LoginSteps, Preparing,
     Holding
<1>6. CASE LoginFails
  BY <1>6, Numbers DEF LoginFails, LoginTo, RangeInv, Undisturbed, LoginSteps, Preparing,
     Holding
<1>7. CASE LoginStore
  BY <1>7, TemplatesOf, Numbers DEF LoginStore, LoginTo, StoreTemplate, RangeInv, Undisturbed, LoginSteps,
     Preparing, Holding, NetTypes, Makers
<1>8. CASE LoginBlob
  <2>1. InRange(current.diff, current.clamp) /\ current'.diff = current.diff /\ current'.clamp = current.clamp
    BY <1>8 DEF LoginBlob, RangeInv, LoginSteps, Preparing, Holding, JobTypes, Jobs
  <2> QED
    BY <1>8, <2>1 DEF LoginBlob, LoginTo, RangeInv, LoginSteps, Preparing, Holding,
       PlaceTypes, Undisturbed
<1>9. CASE LoginHashingBlob
  <2>1. InRange(current.diff, current.clamp) /\ current'.diff = current.diff /\ current'.clamp = current.clamp
    BY <1>9 DEF LoginHashingBlob, RangeInv, LoginSteps, Preparing, Holding, JobTypes, Jobs
  <2> QED
    BY <1>9, <2>1 DEF LoginHashingBlob, LoginTo, RangeInv, LoginSteps, Preparing, Holding,
       PlaceTypes, Undisturbed
<1>10. CASE LoginSend
  <2>1. InRange(current.diff, current.clamp) /\ current'.diff = current.diff /\ current'.clamp = current.clamp
    BY <1>10 DEF LoginSend, RangeInv, LoginSteps, Preparing, Holding, JobTypes, Jobs
  <2> QED
    BY <1>10, <2>1 DEF LoginSend, LoginTo, RangeInv, LoginSteps, Preparing, Holding,
       PlaceTypes, Undisturbed
<1>11. CASE JobLock
  <2>1. /\ jpc' = "clamp" /\ last' = current /\ UNCHANGED <<hpc, difficulty, nextDiff, jjob, current>>
        /\ jpc = "none"
    BY <1>11 DEF JobLock, JobTo, PlaceTypes
  <2>2. hpc \notin LoginSteps
    BY <1>11 DEF JobLock, JobTo, Undisturbed
  <2> QED
    BY <2>1, <2>2 DEF RangeInv, Preparing, Holding
<1>12. CASE JobClamp
  <2>1. /\ jpc = "clamp" /\ jpc' = "diff" /\ UNCHANGED <<hpc, difficulty, current, last>>
        /\ jjob'.clamp = difficulty
    BY <1>12 DEF JobClamp, JobTo, JobTypes, Making
  <2>2. difficulty = 0 => nextDiff = 0 /\ hpc = "login"
    BY <2>1 DEF RangeInv, TemplateStored, LoginSteps
  <2>3. difficulty \in Nat /\ difficulty < Huge /\ nextDiff \in Nat
    BY Numbers DEF NetTypes, JobTypes
  <2>4. InRange(nextDiff', difficulty) /\ (difficulty = 0 => nextDiff' = MinDiff)
    BY <1>12, <2>2, <2>3, Numbers DEF JobClamp, InRange
  <2> QED
    BY <2>1, <2>2, <2>4 DEF RangeInv, Preparing, Holding, LoginSteps
<1>13. CASE JobDiff
  <2>1. /\ jpc = "diff" /\ jpc' = "fetch" /\ UNCHANGED <<hpc, difficulty, nextDiff, last>>
        /\ current'.diff = nextDiff /\ current'.clamp = jjob.clamp
    BY <1>13 DEF JobDiff, JobTo, JobTypes, Jobs
  <2> QED
    BY <2>1 DEF RangeInv, Preparing, Holding, LoginSteps
<1>14. CASE JobFetch
  BY <1>14, Numbers DEF JobFetch, JobTo, Fetch, RangeInv, Undisturbed, LoginSteps, Preparing,
     Holding
<1>15. CASE JobFails
  BY <1>15, Numbers DEF JobFails, RangeInv, Undisturbed, LoginSteps, Preparing, Holding
<1>16. CASE JobStore
  BY <1>16, TemplatesOf, Numbers DEF JobStore, JobTo, StoreTemplate, RangeInv, Undisturbed, LoginSteps,
     Preparing, Holding, NetTypes, Makers
<1>17. CASE JobBlob
  <2>1. InRange(current.diff, current.clamp) /\ current'.diff = current.diff /\ current'.clamp = current.clamp
    BY <1>17 DEF JobBlob, RangeInv, LoginSteps, Preparing, Holding, JobTypes, Jobs
  <2> QED
    BY <1>17, <2>1 DEF JobBlob, JobTo, RangeInv, LoginSteps, Preparing, Holding,
       PlaceTypes, Undisturbed
<1>18. CASE JobHashingBlob
  <2>1. InRange(current.diff, current.clamp) /\ current'.diff = current.diff /\ current'.clamp = current.clamp
    BY <1>18 DEF JobHashingBlob, RangeInv, LoginSteps, Preparing, Holding, JobTypes, Jobs
  <2> QED
    BY <1>18, <2>1 DEF JobHashingBlob, JobTo, RangeInv, LoginSteps, Preparing, Holding,
       PlaceTypes, Undisturbed
<1>19. CASE JobSend
  <2>1. InRange(current.diff, current.clamp) /\ current'.diff = current.diff /\ current'.clamp = current.clamp
    BY <1>19 DEF JobSend, RangeInv, LoginSteps, Preparing, Holding, JobTypes, Jobs
  <2> QED
    BY <1>19, <2>1 DEF JobSend, JobTo, RangeInv, LoginSteps, Preparing, Holding,
       PlaceTypes, Undisturbed
<1>20. ASSUME NEW s \in Shares, MinerSubmits(s) PROVE RangeInv'
  BY <1>20, Numbers DEF MinerSubmits, Happens, RangeInv, Undisturbed, LoginSteps, Preparing,
     Holding
<1>21. CASE ReadFails
  BY <1>21, Numbers DEF ReadFails, RangeInv, Undisturbed, LoginSteps, Preparing, Holding
<1>22. CASE LockConn
  BY <1>22, Numbers DEF LockConn, HandlerTo, RangeInv, Undisturbed, LoginSteps, Preparing,
     Holding
<1>23. CASE PotentialBlock
  BY <1>23, Numbers DEF PotentialBlock, HandlerTo, Refuse, RangeInv, Undisturbed, LoginSteps,
     Preparing, Holding
<1>24. CASE CalcPowFails
  BY <1>24, Numbers DEF CalcPowFails, HandlerTo, Refuse, RangeInv, Undisturbed, LoginSteps,
     Preparing, Holding
<1>25. CASE QueueShare
  BY <1>25, Numbers DEF QueueShare, HandlerTo, RangeInv, Undisturbed, LoginSteps, Preparing,
     Holding
<1>26. CASE Judge
  BY <1>26, Numbers DEF Judge, HandlerTo, Refuse, RangeInv, Undisturbed, LoginSteps, Preparing,
     Holding
<1>27. CASE CompareAgain
  BY <1>27, Numbers DEF CompareAgain, HandlerTo, RangeInv, Undisturbed, LoginSteps, Preparing,
     Holding
<1>28. CASE SubmitBlock
  BY <1>28, Numbers DEF SubmitBlock, HandlerTo, RangeInv, Undisturbed, LoginSteps, Preparing,
     Holding
<1>29. CASE Retarget
  BY <1>29, Numbers DEF Retarget, HandlerTo, RangeInv, Undisturbed, LoginSteps, Preparing,
     Holding, PlaceTypes
<1>30. CASE Answer
  BY <1>30, Numbers DEF Answer, RangeInv, Undisturbed, LoginSteps, Preparing, Holding
<1>31. ASSUME NetworkMoves \/ RefreshVersion \/ UNCHANGED vars PROVE UNCHANGED <<hpc, jpc, difficulty, nextDiff,
      jjob, current, last>>
  BY <1>31 DEF vars, NetworkMoves, RefreshVersion, Happens
<1>32. UNCHANGED <<hpc, jpc, difficulty, nextDiff, jjob, current, last>> => RangeInv'
  BY DEF RangeInv, Undisturbed, LoginSteps, Preparing, Holding
<1> QED
  BY <1>1, <1>2, <1>3, <1>4, <1>5, <1>6, <1>7, <1>8, <1>9, <1>10, <1>11, <1>12, <1>13, <1>14,
     <1>15, <1>16, <1>17, <1>18, <1>19, <1>20, <1>21, <1>22, <1>23, <1>24, <1>25, <1>26, <1>27,
     <1>28, <1>29, <1>30, <1>31, <1>32 DEF Next, Login, Job, Share

-----------------------------------------------------------------------------
(* What a job is made of.                                                  *)

\* A complete job has been sent, and stays complete whatever else is sent.
LEMMA CompleteStays ==
    ASSUME JobTypes, NEW job \in Jobs, Complete(job), NEW k,
           job.id # 0 /\ target[job.id] # -1 => job.id # k,
           target' = target \/ target' = [target EXCEPT ![k] = target'[k]]
    PROVE  Complete(job)'
<1>1. job.id # 0 => job.id \in Templates /\ DiffToShortTarget(job.diff) # -1
  <2>1. job.id \in 0..MaxTemplates /\ job.diff \in 0..Huge
    BY JobsType
  <2>2. DiffToShortTarget(job.diff) \in 0..ShortMax
    BY <2>1, TargetFacts, Numbers
  <2> QED
    BY <2>1, <2>2, Numbers DEF Templates
<1>2. job.id # 0 => target'[job.id] = target[job.id]
  BY <1>1 DEF Complete, JobTypes
<1> QED
  BY <1>2 DEF Complete

\* Every step stores what it sends.
LEMMA StepComplete ==
    ASSUME NetTypes, JobTypes, ShareTypes, PlaceTypes, PlaceTypes', Makers, SentOnce,
       Undisturbed, Undisturbed', RangeInv, JobsComplete, [Next]_vars
    PROVE  JobsComplete'
<1> USE DEF daemon, network, curInfo, fetched, handling
<1>1. ASSUME NEW request \in Requests \cup {0}, LoginDiff(request) PROVE JobsComplete'
  BY <1>1, Numbers DEF LoginDiff, LoginTo, JobsComplete, Complete, RangeInv, LoginSteps,
     Preparing, Holding, JobTypes, Undisturbed
<1>2. CASE LoginNextDiff
  BY <1>2, Numbers DEF LoginNextDiff, LoginTo, JobsComplete, Complete, RangeInv, LoginSteps,
     Preparing, Holding, JobTypes
<1>3. CASE LoginCall
  BY <1>3, Numbers DEF LoginCall, LoginTo, JobsComplete, Complete, RangeInv, LoginSteps,
     Preparing, Holding, JobTypes, Making
<1>4. CASE LoginFetch
  BY <1>4, Numbers DEF LoginFetch, LoginTo, Fetch, JobsComplete, Complete, RangeInv, LoginSteps,
     Preparing, Holding, JobTypes, Making
<1>5. CASE LoginFails
  BY <1>5, Numbers DEF LoginFails, LoginTo, JobsComplete, Complete, RangeInv, LoginSteps,
     Preparing, Holding, JobTypes, Undisturbed
<1>6. CASE LoginStore
  BY <1>6, Numbers DEF LoginStore, LoginTo, JobsComplete, Complete, RangeInv, LoginSteps,
     Preparing, Holding, JobTypes
<1>7. CASE LoginBlob
  BY <1>7, Numbers DEF LoginBlob, LoginTo, JobsComplete, Complete, RangeInv, LoginSteps,
     Preparing, Holding, JobTypes, Jobs
<1>8. CASE LoginHashingBlob
  BY <1>8, Numbers DEF LoginHashingBlob, LoginTo, JobsComplete, Complete, RangeInv, LoginSteps,
     Preparing, Holding, JobTypes, Jobs
<1>9. CASE LoginSend
  <2> DEFINE k == hjob.tmpl
  <2>1. hpc = "send" /\ jpc = "none" /\ hpc' = "ready" /\ UNCHANGED jpc
    BY <1>9 DEF LoginSend, LoginTo, RangeInv, LoginSteps
  <2>2. /\ current' = [current EXCEPT !.id = k] /\ UNCHANGED last
        /\ target' = [target EXCEPT ![k] = DiffToShortTarget(hjob.diff)]
    BY <1>9 DEF LoginSend, LoginTo
  <2>3. k \in Templates
    BY <2>1, TemplatesOf, Numbers DEF Makers, Holding, NetTypes, Templates
  <2>4. /\ current'.id = k /\ current'.blob = k /\ current'.hashing = k
        /\ current'.diff = hjob.diff /\ target'[k] = DiffToShortTarget(hjob.diff)
    BY <2>1, <2>2, <2>3 DEF JobsComplete, Preparing, Holding, JobTypes, Jobs
  <2>5. last.id # 0 /\ target[last.id] # -1 => last.id # k
    <3>1. last.id \in 0..MaxTemplates
      BY JobsType DEF JobTypes
    <3> QED
      BY <2>1, <3>1, Numbers DEF SentOnce, Holding, Templates
  <2>6. target' = [target EXCEPT ![k] = target'[k]]
    BY <2>2, <2>4
  <2> HIDE DEF k
  <2>7. Complete(last)'
    BY <2>2, <2>5, <2>6, CompleteStays DEF JobsComplete, JobTypes, Complete
  <2>8. Complete(current)'
    BY <2>4 DEF Complete
  <2> QED
    BY <2>1, <2>7, <2>8 DEF JobsComplete, LoginSteps, Preparing, Holding
<1>10. CASE JobLock
  BY <1>10, Numbers DEF JobLock, JobTo, JobsComplete, Complete, RangeInv, LoginSteps, Preparing,
     Holding, JobTypes, PlaceTypes, Undisturbed
<1>11. CASE JobClamp
  BY <1>11, Numbers DEF JobClamp, JobTo, JobsComplete, Complete, RangeInv, LoginSteps,
     Preparing, Holding, JobTypes, Making
<1>12. CASE JobDiff
  BY <1>12, Numbers DEF JobDiff, JobTo, JobsComplete, Complete, RangeInv, LoginSteps, Preparing,
     Holding, JobTypes, Making, Jobs
<1>13. CASE JobFetch
  BY <1>13, Numbers DEF JobFetch, JobTo, Fetch, JobsComplete, Complete, RangeInv, LoginSteps,
     Preparing, Holding, JobTypes, Making
<1>14. CASE JobFails
  BY <1>14, Numbers DEF JobFails, JobsComplete, Complete, RangeInv, LoginSteps, Preparing,
     Holding, JobTypes, Undisturbed
<1>15. CASE JobStore
  BY <1>15, Numbers DEF JobStore, JobTo, JobsComplete, Complete, RangeInv, LoginSteps,
     Preparing, Holding, JobTypes
<1>16. CASE JobBlob
  BY <1>16, Numbers DEF JobBlob, JobTo, JobsComplete, Complete, RangeInv, LoginSteps, Preparing,
     Holding, JobTypes, Jobs
<1>17. CASE JobHashingBlob
  BY <1>17, Numbers DEF JobHashingBlob, JobTo, JobsComplete, Complete, RangeInv, LoginSteps,
     Preparing, Holding, JobTypes, Jobs
<1>18. CASE JobSend
  <2> DEFINE k == jjob.tmpl
  <2>1. jpc = "send" /\ hpc \notin LoginSteps /\ jpc' = "none" /\ UNCHANGED hpc
    BY <1>18 DEF JobSend, JobTo, RangeInv, LoginSteps
  <2>2. /\ current' = [current EXCEPT !.id = k] /\ UNCHANGED last
        /\ target' = [target EXCEPT ![k] = DiffToShortTarget(jjob.diff)]
    BY <1>18 DEF JobSend, JobTo
  <2>3. k \in Templates
    BY <2>1, TemplatesOf, Numbers DEF Makers, Holding, NetTypes, Templates
  <2>4. /\ current'.id = k /\ current'.blob = k /\ current'.hashing = k
        /\ current'.diff = jjob.diff /\ target'[k] = DiffToShortTarget(jjob.diff)
    BY <2>1, <2>2, <2>3 DEF JobsComplete, Preparing, Holding, JobTypes, Jobs
  <2>5. last.id # 0 /\ target[last.id] # -1 => last.id # k
    <3>1. last.id \in 0..MaxTemplates
      BY JobsType DEF JobTypes
    <3> QED
      BY <2>1, <3>1, Numbers DEF SentOnce, Holding, Templates
  <2>6. target' = [target EXCEPT ![k] = target'[k]]
    BY <2>2, <2>4
  <2> HIDE DEF k
  <2>7. Complete(last)'
    BY <2>2, <2>5, <2>6, CompleteStays DEF JobsComplete, JobTypes, Complete
  <2>8. Complete(current)'
    BY <2>4 DEF Complete
  <2> QED
    BY <2>1, <2>7, <2>8 DEF JobsComplete, LoginSteps, Preparing, Holding
<1>19. ASSUME NEW s \in Shares, MinerSubmits(s) PROVE JobsComplete'
  BY <1>19, Numbers DEF MinerSubmits, Happens, JobsComplete, Complete, RangeInv, LoginSteps,
     Preparing, Holding, JobTypes
<1>20. CASE ReadFails
  BY <1>20, Numbers DEF ReadFails, JobsComplete, Complete, RangeInv, LoginSteps, Preparing,
     Holding, JobTypes
<1>21. CASE LockConn
  BY <1>21, Numbers DEF LockConn, HandlerTo, JobsComplete, Complete, RangeInv, LoginSteps,
     Preparing, Holding, JobTypes
<1>22. CASE PotentialBlock
  BY <1>22, Numbers DEF PotentialBlock, HandlerTo, Refuse, JobsComplete, Complete, RangeInv,
     LoginSteps, Preparing, Holding, JobTypes
<1>23. CASE CalcPowFails
  BY <1>23, Numbers DEF CalcPowFails, HandlerTo, Refuse, JobsComplete, Complete, RangeInv,
     LoginSteps, Preparing, Holding, JobTypes
<1>24. CASE QueueShare
  BY <1>24, Numbers DEF QueueShare, HandlerTo, JobsComplete, Complete, RangeInv, LoginSteps,
     Preparing, Holding, JobTypes
<1>25. CASE Judge
  BY <1>25, Numbers DEF Judge, HandlerTo, Refuse, JobsComplete, Complete, RangeInv, LoginSteps,
     Preparing, Holding, JobTypes
<1>26. CASE CompareAgain
  BY <1>26, Numbers DEF CompareAgain, HandlerTo, JobsComplete, Complete, RangeInv, LoginSteps,
     Preparing, Holding, JobTypes
<1>27. CASE SubmitBlock
  BY <1>27, Numbers DEF SubmitBlock, HandlerTo, JobsComplete, Complete, RangeInv, LoginSteps,
     Preparing, Holding, JobTypes
<1>28. CASE Retarget
  BY <1>28, Numbers DEF Retarget, HandlerTo, JobsComplete, Complete, RangeInv, LoginSteps,
     Preparing, Holding, JobTypes
<1>29. CASE Answer
  BY <1>29, Numbers DEF Answer, JobsComplete, Complete, RangeInv, LoginSteps, Preparing,
     Holding, JobTypes
<1>30. ASSUME NetworkMoves \/ RefreshVersion \/ OtherStores \/ UNCHANGED vars PROVE UNCHANGED <<target, current,
      last, hpc, hjob, jpc, jjob>>
  BY <1>30 DEF vars, NetworkMoves, RefreshVersion, OtherStores, Happens
<1>31. UNCHANGED <<target, current, last, hpc, hjob, jpc, jjob>> => JobsComplete'
  BY DEF JobsComplete, Complete, RangeInv, LoginSteps, Preparing, Holding, JobTypes
<1> QED
  BY <1>1, <1>2, <1>3, <1>4, <1>5, <1>6, <1>7, <1>8, <1>9, <1>10, <1>11, <1>12, <1>13, <1>14,
     <1>15, <1>16, <1>17, <1>18, <1>19, <1>20, <1>21, <1>22, <1>23, <1>24, <1>25, <1>26, <1>27,
     <1>28, <1>29, <1>30, <1>31 DEF Next, Login, Job, Share

\* Every step judges a share by the job it was sent with.
LEMMA StepJudged ==
    ASSUME NetTypes, JobTypes, ShareTypes, PlaceTypes, PlaceTypes', Makers, SentOnce, Handling,
       Undisturbed, Undisturbed', RangeInv, JobsComplete, JudgedByItsJob, [Next]_vars
    PROVE  JudgedByItsJob'
<1> USE DEF daemon, network, curInfo, fetched, handling
<1>1. ASSUME NEW request \in Requests \cup {0}, LoginDiff(request) PROVE JudgedByItsJob'
  BY <1>1, Numbers DEF LoginDiff, LoginTo, JudgedByItsJob, Judging
<1>2. CASE LoginNextDiff
  BY <1>2, Numbers DEF LoginNextDiff, LoginTo, JudgedByItsJob, Judging
<1>3. CASE LoginCall
  BY <1>3, Numbers DEF LoginCall, LoginTo, JudgedByItsJob, Judging
<1>4. CASE LoginFetch
  BY <1>4, Numbers DEF LoginFetch, LoginTo, Fetch, JudgedByItsJob, Judging
<1>5. CASE LoginFails
  BY <1>5, Numbers DEF LoginFails, LoginTo, JudgedByItsJob, Judging
<1>6. CASE LoginStore
  BY <1>6, Numbers DEF LoginStore, LoginTo, JudgedByItsJob, Judging
<1>7. CASE LoginBlob
  BY <1>7, Numbers DEF LoginBlob, LoginTo, JudgedByItsJob, Judging
<1>8. CASE LoginHashingBlob
  BY <1>8, Numbers DEF LoginHashingBlob, LoginTo, JudgedByItsJob, Judging
<1>9. CASE LoginSend
  <2> DEFINE k == hjob.tmpl
  <2>1. hpc = "send" /\ UNCHANGED <<theJob, share>> /\ hpc' \in {"ready", hpc}
        /\ target' = [target EXCEPT ![k] = DiffToShortTarget(hjob.diff)]
    BY <1>9 DEF LoginSend, LoginTo
  <2>2. ASSUME hpc' \in Judging \cup {"verify"} PROVE Complete(theJob)'
    <3>1. hpc \in Judging \cup {"verify"} /\ k \in Templates
      BY <2>1, <2>2, TemplatesOf, Numbers DEF Judging, Makers, Holding, NetTypes, Templates
    <3>2. theJob.id # 0 /\ target[theJob.id] # -1 => theJob.id # k
      <4>1. theJob.id \in 0..MaxTemplates
        BY JobsType DEF ShareTypes
      <4> QED
        BY <2>1, <4>1, Numbers DEF SentOnce, Holding, Templates
    <3>3. target' = [target EXCEPT ![k] = target'[k]]
      BY <2>1, <3>1 DEF JobTypes
    <3> HIDE DEF k
    <3> QED
      BY <2>1, <3>1, <3>2, <3>3, CompleteStays DEF JudgedByItsJob, ShareTypes, Complete
  <2> QED
    BY <2>1, <2>2 DEF JudgedByItsJob, Judging
<1>10. CASE JobSend
  <2> DEFINE k == jjob.tmpl
  <2>1. jpc = "send" /\ UNCHANGED <<theJob, share>> /\ hpc' \in {"ready", hpc}
        /\ target' = [target EXCEPT ![k] = DiffToShortTarget(jjob.diff)]
    BY <1>10 DEF JobSend, JobTo
  <2>2. ASSUME hpc' \in Judging \cup {"verify"} PROVE Complete(theJob)'
    <3>1. hpc \in Judging \cup {"verify"} /\ k \in Templates
      BY <2>1, <2>2, TemplatesOf, Numbers DEF Judging, Makers, Holding, NetTypes, Templates
    <3>2. theJob.id # 0 /\ target[theJob.id] # -1 => theJob.id # k
      <4>1. theJob.id \in 0..MaxTemplates
        BY JobsType DEF ShareTypes
      <4> QED
        BY <2>1, <4>1, Numbers DEF SentOnce, Holding, Templates
    <3>3. target' = [target EXCEPT ![k] = target'[k]]
      BY <2>1, <3>1 DEF JobTypes
    <3> HIDE DEF k
    <3> QED
      BY <2>1, <3>1, <3>2, <3>3, CompleteStays DEF JudgedByItsJob, ShareTypes, Complete
  <2> QED
    BY <2>1, <2>2 DEF JudgedByItsJob, Judging
<1>11. ASSUME NEW s \in Shares, MinerSubmits(s) PROVE JudgedByItsJob'
  BY <1>11, Numbers DEF MinerSubmits, Happens, JudgedByItsJob, Judging
<1>12. CASE ReadFails
  BY <1>12, Numbers DEF ReadFails, JudgedByItsJob, Judging
<1>13. CASE LockConn
  <2>1. CASE share.id \in {last.id, current.id}
    <3>1. /\ hpc = "got" /\ jpc = "none" /\ UNCHANGED <<share, target>>
          /\ theJob' = IF share.id = last.id THEN last ELSE current
      BY <1>13, <2>1 DEF LockConn, HandlerTo, PlaceTypes
    <3>2. share.id # 0 /\ NoJob.id = 0
      BY <3>1 DEF Handling, Shares, Templates, NoJob
    <3>3. Complete(current) /\ Complete(last)
      BY <3>1 DEF JobsComplete, LoginSteps, Preparing, Holding
    <3>4. theJob' \in {last, current} /\ theJob'.id = share.id
      BY <2>1, <3>1
    <3>5. InRange(theJob'.diff, theJob'.clamp)
      BY <3>2, <3>4 DEF RangeInv
    <3>6. Complete(theJob)'
      BY <3>1, <3>3, <3>4 DEF Complete
    <3> QED
      BY <3>1, <3>4, <3>5, <3>6 DEF JudgedByItsJob
  <2>2. CASE share.id \notin {last.id, current.id}
    BY <1>13, <2>2 DEF LockConn, HandlerTo, JudgedByItsJob, Judging
  <2> QED
    BY <2>1, <2>2
<1>14. CASE PotentialBlock
  BY <1>14, Numbers DEF PotentialBlock, HandlerTo, Refuse, JudgedByItsJob, Judging, Complete
<1>15. CASE CalcPowFails
  BY <1>15, Numbers DEF CalcPowFails, HandlerTo, Refuse, JudgedByItsJob, Judging, Complete
<1>16. CASE QueueShare
  BY <1>16, Numbers DEF QueueShare, HandlerTo, JudgedByItsJob, Judging, Complete
<1>17. CASE Judge
  BY <1>17, Numbers DEF Judge, HandlerTo, Refuse, JudgedByItsJob, Judging, Complete
<1>18. CASE CompareAgain
  BY <1>18, Numbers DEF CompareAgain, HandlerTo, JudgedByItsJob, Judging, Complete
<1>19. CASE SubmitBlock
  BY <1>19, Numbers DEF SubmitBlock, HandlerTo, JudgedByItsJob, Judging, Complete
<1>20. CASE Retarget
  BY <1>20, Numbers DEF Retarget, HandlerTo, JudgedByItsJob, Judging, Complete
<1>21. CASE Answer
  BY <1>21, Numbers DEF Answer, JudgedByItsJob, Judging
<1>22. ASSUME NetworkMoves \/ RefreshVersion \/ OtherStores \/ JobLock \/ JobClamp \/ JobDiff \/ JobFetch \/
      JobFails \/ JobStore \/ JobBlob \/ JobHashingBlob \/ UNCHANGED vars PROVE UNCHANGED <<target,
      hpc, share, theJob>>
  BY <1>22 DEF vars, NetworkMoves, RefreshVersion, OtherStores, JobLock, JobClamp, JobDiff, JobFetch, JobFails,
     JobStore, JobBlob, JobHashingBlob, Happens, JobTo, Fetch
<1>23. UNCHANGED <<target, hpc, share, theJob>> => JudgedByItsJob'
  BY DEF JudgedByItsJob, Judging, Complete
<1> QED
  BY <1>1, <1>2, <1>3, <1>4, <1>5, <1>6, <1>7, <1>8, <1>9, <1>10, <1>11, <1>12, <1>13, <1>14,
     <1>15, <1>16, <1>17, <1>18, <1>19, <1>20, <1>21, <1>22, <1>23 DEF Next, Login, Job, Share

-----------------------------------------------------------------------------
(* What becomes of the share.                                              *)

\* A share that is being judged: its id is a template's and so is the job's.
LEMMA JudgedFacts ==
    ASSUME NetTypes, ShareTypes, Handling, JudgedByItsJob, hpc \in Judging \cup {"verify"}
    PROVE  /\ share \in Shares /\ share.diff \in Nat /\ theJob.diff \in Nat
           /\ theJob.hashing = share.id /\ target[share.id] = DiffToShortTarget(theJob.diff)
           /\ InRange(theJob.diff, theJob.clamp)
<1>1. share \in Shares /\ share.diff \in Nat /\ share.id # 0
  BY SharesType DEF Handling
<1>2. theJob.diff \in 0..Huge
  BY JobsType DEF ShareTypes
<1> QED
  BY <1>1, <1>2, Numbers DEF JudgedByItsJob, Complete

\* Its template is one of those fetched.
LEMMA ShareTemplate ==
    ASSUME NetTypes, SentOnce, Handling, share # NoShare
    PROVE  /\ share.id \in Templates /\ share.id \in 1..Len(tmpl)
           /\ tmpl[share.id] \in Nat /\ share.diff \in Nat
           /\ Fetch => tmplSeed'[share.id] = tmplSeed[share.id]
<1>1. share.id \in Templates /\ target[share.id] # -1 /\ share.diff \in Nat
  BY SharesType DEF Handling
<1>2. share.id \in 1..Len(tmpl)
  BY <1>1, TemplatesOf DEF SentOnce, NetTypes, Templates
<1>3. tmpl[share.id] \in seen /\ seen \subseteq Nat
  BY <1>2, TemplatesOf, Numbers DEF NetTypes
<1>4. Fetch => tmplSeed'[share.id] = tmplSeed[share.id]
  <2>1. Len(tmpl) \in Nat /\ share.id # Len(tmpl) + 1
    BY <1>2, TemplatesOf DEF NetTypes
  <2> QED
    BY <1>1, <2>1 DEF Fetch, NetTypes
<1> QED
  BY <1>1, <1>2, <1>3, <1>4

\* Every step accepts what meets its target.
LEMMA StepHonest ==
    ASSUME NetTypes, JobTypes, ShareTypes, PlaceTypes, PlaceTypes', Makers, SentOnce, Handling,
       Compared, Undisturbed, Undisturbed', JudgedByItsJob, HonestShareAccepted, [Next]_vars
    PROVE  HonestShareAccepted'
<1> USE DEF daemon, network, curInfo, fetched, handling
<1>1. ASSUME NEW request \in Requests \cup {0}, LoginDiff(request) PROVE HonestShareAccepted'
  BY <1>1, Numbers DEF LoginDiff, LoginTo, HonestShareAccepted, Undisturbed
<1>2. CASE LoginNextDiff
  BY <1>2, Numbers DEF LoginNextDiff, LoginTo, HonestShareAccepted, Undisturbed
<1>3. CASE LoginCall
  BY <1>3, Numbers DEF LoginCall, LoginTo, HonestShareAccepted, Undisturbed
<1>4. CASE LoginFetch
  <2>1. UNCHANGED <<share, target, checks, outcome, open>> /\ crossed' = (crossed \/ crossed') /\ Fetch
    BY <1>4 DEF LoginFetch, LoginTo
  <2>2. CASE share = NoShare
    BY <2>1, <2>2 DEF HonestShareAccepted, NoShare
  <2>3. CASE share # NoShare
    BY <2>1, <2>3, ShareTemplate DEF HonestShareAccepted, Undisturbed
  <2> QED
    BY <2>2, <2>3
<1>5. CASE LoginFails
  BY <1>5, Numbers DEF LoginFails, LoginTo, HonestShareAccepted, Undisturbed
<1>6. CASE LoginStore
  BY <1>6, Numbers DEF LoginStore, LoginTo, HonestShareAccepted, Undisturbed
<1>7. CASE LoginBlob
  BY <1>7, Numbers DEF LoginBlob, LoginTo, HonestShareAccepted, Undisturbed
<1>8. CASE LoginHashingBlob
  BY <1>8, Numbers DEF LoginHashingBlob, LoginTo, HonestShareAccepted, Undisturbed
<1>9. CASE LoginSend
  <2>1. hpc = "send" /\ UNCHANGED <<share, checks, outcome, tmplSeed>>
        /\ target' = [target EXCEPT ![hjob.tmpl] = DiffToShortTarget(hjob.diff)]
    BY <1>9 DEF LoginSend, LoginTo
  <2>2. CASE share = NoShare
    BY <2>1, <2>2 DEF HonestShareAccepted, NoShare
  <2>3. CASE share # NoShare
    <3>1. share.id \in Templates /\ target[share.id] # -1
      BY <2>3, ShareTemplate DEF Handling
    <3>2. target'[share.id] = target[share.id]
      BY <2>1, <3>1 DEF SentOnce, Holding, JobTypes
    <3> QED
      BY <2>1, <3>2 DEF HonestShareAccepted, Undisturbed
  <2> QED
    BY <2>2, <2>3
<1>10. CASE JobLock
  BY <1>10, Numbers DEF JobLock, JobTo, HonestShareAccepted, Undisturbed
<1>11. CASE JobClamp
  BY <1>11, Numbers DEF JobClamp, JobTo, HonestShareAccepted, Undisturbed
<1>12. CASE JobDiff
  BY <1>12, Numbers DEF JobDiff, JobTo, HonestShareAccepted, Undisturbed
<1>13. CASE JobFetch
  <2>1. UNCHANGED <<share, target, checks, outcome, open>> /\ crossed' = (crossed \/ crossed') /\ Fetch
    BY <1>13 DEF JobFetch, JobTo
  <2>2. CASE share = NoShare
    BY <2>1, <2>2 DEF HonestShareAccepted, NoShare
  <2>3. CASE share # NoShare
    BY <2>1, <2>3, ShareTemplate DEF HonestShareAccepted, Undisturbed
  <2> QED
    BY <2>2, <2>3
<1>14. CASE JobFails
  BY <1>14, Numbers DEF JobFails, HonestShareAccepted, Undisturbed
<1>15. CASE JobStore
  BY <1>15, Numbers DEF JobStore, JobTo, HonestShareAccepted, Undisturbed
<1>16. CASE JobBlob
  BY <1>16, Numbers DEF JobBlob, JobTo, HonestShareAccepted, Undisturbed
<1>17. CASE JobHashingBlob
  BY <1>17, Numbers DEF JobHashingBlob, JobTo, HonestShareAccepted, Undisturbed
<1>18. CASE JobSend
  <2>1. jpc = "send" /\ UNCHANGED <<share, checks, outcome, tmplSeed>>
        /\ target' = [target EXCEPT ![jjob.tmpl] = DiffToShortTarget(jjob.diff)]
    BY <1>18 DEF JobSend, JobTo
  <2>2. CASE share = NoShare
    BY <2>1, <2>2 DEF HonestShareAccepted, NoShare
  <2>3. CASE share # NoShare
    <3>1. share.id \in Templates /\ target[share.id] # -1
      BY <2>3, ShareTemplate DEF Handling
    <3>2. target'[share.id] = target[share.id]
      BY <2>1, <3>1 DEF SentOnce, Holding, JobTypes
    <3> QED
      BY <2>1, <3>2 DEF HonestShareAccepted, Undisturbed
  <2> QED
    BY <2>2, <2>3
<1>19. ASSUME NEW s \in Shares, MinerSubmits(s) PROVE HonestShareAccepted'
  BY <1>19, Numbers DEF MinerSubmits, Happens, HonestShareAccepted, Undisturbed, Handling,
     Judging
<1>20. CASE ReadFails
  BY <1>20, Numbers DEF ReadFails, HonestShareAccepted, Undisturbed
<1>21. CASE PotentialBlock
  <2>1. theJob.hashing = share.id
    BY <1>21, JudgedFacts DEF PotentialBlock
  <2>2. checks'.seed = seedHash /\ checks'.version = majorVersion
    BY <1>21 DEF PotentialBlock, ShareTypes
  <2>3. UNCHANGED <<share, tmplSeed, target, tmpl>>
    BY <1>21 DEF PotentialBlock, Refuse, HandlerTo
  <2>4. \/ outcome' = "verified"
        \/ outcome' = "wrong hash" /\ (~share.right \/ seedHash # tmplSeed[share.id] \/ ~majorVersion)
    BY <1>21, <2>1 DEF PotentialBlock, Refuse
  <2> QED
    BY <2>2, <2>3, <2>4 DEF HonestShareAccepted
<1>22. CASE CalcPowFails
  BY <1>22, Numbers DEF CalcPowFails, HandlerTo, Refuse, HonestShareAccepted, Undisturbed,
     Refuse
<1>23. CASE QueueShare
  BY <1>23, Numbers DEF QueueShare, HandlerTo, HonestShareAccepted, Undisturbed
<1>24. CASE Judge
  <2>1. /\ share.diff \in Nat /\ theJob.diff \in Nat
        /\ target[share.id] = DiffToShortTarget(theJob.diff)
    BY <1>24, JudgedFacts DEF Judge, Judging
  <2>2. MeetsTarget(share.diff, target[share.id]) => share.diff >= theJob.diff
    BY <2>1, TargetFacts
  <2>3. outcome \in {"verified", "queued"} /\ UNCHANGED <<share, target>>
    BY <1>24 DEF Judge, Refuse, HandlerTo, Handling, Judging
  <2>4. outcome' = outcome \/ (outcome' = "low" /\ share.diff < theJob.diff)
    BY <1>24 DEF Judge, Refuse
  <2>5. /\ outcome' = "low" => ~(share.diff >= theJob.diff)
        /\ outcome' # "wrong hash"
    <3>1. outcome' = "low" => ~(share.diff >= theJob.diff)
      BY <2>1, <2>3, <2>4
    <3>2. outcome' # "wrong hash"
      BY <2>3, <2>4
    <3> QED
      BY <3>1, <3>2
  <2>6. ~(MeetsTarget(share'.diff, target'[share'.id]) /\ outcome' \in {"wrong hash", "low"})
    BY <2>2, <2>3, <2>5
  <2> QED
    BY <2>6 DEF HonestShareAccepted
<1>25. CASE SubmitBlock
  BY <1>25, Numbers DEF SubmitBlock, HandlerTo, HonestShareAccepted, Undisturbed, Handling,
     Judging
<1>26. CASE Retarget
  BY <1>26, Numbers DEF Retarget, HandlerTo, HonestShareAccepted, Undisturbed, Handling, Judging
<1>27. CASE Answer
  BY <1>27, Numbers DEF Answer, HonestShareAccepted, Undisturbed
<1>28. CASE CompareAgain
  <2>1. outcome \in {"verified", "queued"} /\ UNCHANGED outcome
    BY <1>28 DEF CompareAgain, Handling, Judging
  <2> QED
    BY <2>1 DEF HonestShareAccepted
<1>29. ASSUME NetworkMoves \/ RefreshVersion \/ OtherStores \/ LockConn \/ UNCHANGED vars PROVE
      UNCHANGED <<share, tmplSeed, target, checks, outcome, open, crossed>>
  BY <1>29 DEF vars, NetworkMoves, RefreshVersion, OtherStores, LockConn, Happens, HandlerTo
<1>30. UNCHANGED <<share, tmplSeed, target, checks, outcome, open, crossed>> => HonestShareAccepted'
  BY DEF HonestShareAccepted, Undisturbed
<1> QED
  BY <1>1, <1>2, <1>3, <1>4, <1>5, <1>6, <1>7, <1>8, <1>9, <1>10, <1>11, <1>12, <1>13, <1>14,
     <1>15, <1>16, <1>17, <1>18, <1>19, <1>20, <1>21, <1>22, <1>23, <1>24, <1>25, <1>26, <1>27,
     <1>28, <1>29, <1>30 DEF Next, Login, Job, Share

\* Every step submits what solves its template.
LEMMA StepBlock ==
    ASSUME NetTypes, JobTypes, ShareTypes, PlaceTypes, PlaceTypes', Makers, SentOnce, Handling,
       Compared, Undisturbed, Undisturbed', JudgedByItsJob, BlockIsSubmitted, [Next]_vars
    PROVE  BlockIsSubmitted'
<1> USE DEF daemon, network, curInfo, fetched, handling
<1>1. ASSUME NEW request \in Requests \cup {0}, LoginDiff(request) PROVE BlockIsSubmitted'
  BY <1>1, Numbers DEF LoginDiff, LoginTo, BlockIsSubmitted, Undisturbed
<1>2. CASE LoginNextDiff
  BY <1>2, Numbers DEF LoginNextDiff, LoginTo, BlockIsSubmitted, Undisturbed
<1>3. CASE LoginCall
  BY <1>3, Numbers DEF LoginCall, LoginTo, BlockIsSubmitted, Undisturbed
<1>4. CASE LoginFetch
  <2>1. UNCHANGED <<share, theJob, checks, outcome>> /\ Fetch
    BY <1>4 DEF LoginFetch, LoginTo
  <2>2. CASE share = NoShare
    BY <2>1, <2>2 DEF BlockIsSubmitted, NoShare
  <2>3. CASE share # NoShare
    <3>1. tmpl'[share.id] = tmpl[share.id] /\ tmplSeed'[share.id] = tmplSeed[share.id]
      BY <2>1, <2>3, ShareTemplate, FetchFacts
    <3> QED
      BY <2>1, <3>1 DEF BlockIsSubmitted, Undisturbed
  <2> QED
    BY <2>2, <2>3
<1>5. CASE LoginFails
  BY <1>5, Numbers DEF LoginFails, LoginTo, BlockIsSubmitted, Undisturbed
<1>6. CASE LoginStore
  BY <1>6, Numbers DEF LoginStore, LoginTo, BlockIsSubmitted, Undisturbed
<1>7. CASE LoginBlob
  BY <1>7, Numbers DEF LoginBlob, LoginTo, BlockIsSubmitted, Undisturbed
<1>8. CASE LoginHashingBlob
  BY <1>8, Numbers DEF LoginHashingBlob, LoginTo, BlockIsSubmitted, Undisturbed
<1>9. CASE LoginSend
  BY <1>9, Numbers DEF LoginSend, LoginTo, BlockIsSubmitted, Undisturbed
<1>10. CASE JobLock
  BY <1>10, Numbers DEF JobLock, JobTo, BlockIsSubmitted, Undisturbed
<1>11. CASE JobClamp
  BY <1>11, Numbers DEF JobClamp, JobTo, BlockIsSubmitted, Undisturbed
<1>12. CASE JobDiff
  BY <1>12, Numbers DEF JobDiff, JobTo, BlockIsSubmitted, Undisturbed
<1>13. CASE JobFetch
  <2>1. UNCHANGED <<share, theJob, checks, outcome>> /\ Fetch
    BY <1>13 DEF JobFetch, JobTo
  <2>2. CASE share = NoShare
    BY <2>1, <2>2 DEF BlockIsSubmitted, NoShare
  <2>3. CASE share # NoShare
    <3>1. tmpl'[share.id] = tmpl[share.id] /\ tmplSeed'[share.id] = tmplSeed[share.id]
      BY <2>1, <2>3, ShareTemplate, FetchFacts
    <3> QED
      BY <2>1, <3>1 DEF BlockIsSubmitted, Undisturbed
  <2> QED
    BY <2>2, <2>3
<1>14. CASE JobFails
  BY <1>14, Numbers DEF JobFails, BlockIsSubmitted, Undisturbed
<1>15. CASE JobStore
  BY <1>15, Numbers DEF JobStore, JobTo, BlockIsSubmitted, Undisturbed
<1>16. CASE JobBlob
  BY <1>16, Numbers DEF JobBlob, JobTo, BlockIsSubmitted, Undisturbed
<1>17. CASE JobHashingBlob
  BY <1>17, Numbers DEF JobHashingBlob, JobTo, BlockIsSubmitted, Undisturbed
<1>18. CASE JobSend
  BY <1>18, Numbers DEF JobSend, JobTo, BlockIsSubmitted, Undisturbed
<1>19. ASSUME NEW s \in Shares, MinerSubmits(s) PROVE BlockIsSubmitted'
  BY <1>19, Numbers DEF MinerSubmits, Happens, BlockIsSubmitted, Undisturbed, Handling, Judging
<1>20. CASE ReadFails
  BY <1>20, Numbers DEF ReadFails, BlockIsSubmitted, Undisturbed
<1>21. CASE LockConn
  BY <1>21, Numbers DEF LockConn, HandlerTo, BlockIsSubmitted, Undisturbed, Handling, Judging
<1>22. CASE PotentialBlock
  <2>1. theJob.hashing = share.id
    BY <1>22, JudgedFacts DEF PotentialBlock
  <2>2. checks'.seed = seedHash /\ checks'.version = majorVersion
    BY <1>22 DEF PotentialBlock, ShareTypes
  <2>3. UNCHANGED <<share, tmplSeed, target, tmpl>>
    BY <1>22 DEF PotentialBlock, Refuse, HandlerTo
  <2>4. \/ outcome' = "verified"
        \/ outcome' = "wrong hash" /\ (~share.right \/ seedHash # tmplSeed[share.id] \/ ~majorVersion)
    BY <1>22, <2>1 DEF PotentialBlock, Refuse
  <2> QED
    BY <2>2, <2>3, <2>4 DEF BlockIsSubmitted
<1>23. CASE CalcPowFails
  BY <1>23, Numbers DEF CalcPowFails, HandlerTo, Refuse, BlockIsSubmitted, Undisturbed
<1>24. CASE QueueShare
  BY <1>24, Numbers DEF QueueShare, HandlerTo, BlockIsSubmitted, Undisturbed
<1>25. CASE Judge
  <2>1. share.diff \in Nat /\ theJob.diff \in Nat /\ InRange(theJob.diff, theJob.clamp)
    BY <1>25, JudgedFacts DEF Judge, Judging
  <2>2. tmpl[share.id] \in Nat
    BY <1>25, ShareTemplate DEF Judge, Handling, Judging
  <2>3. outcome \in {"verified", "queued"} /\ UNCHANGED <<share, tmpl, theJob>>
    BY <1>25 DEF Judge, Refuse, HandlerTo, Handling, Judging
  <2>4. outcome' = outcome \/ (outcome' = "low" /\ share.diff < theJob.diff)
    BY <1>25 DEF Judge, Refuse
  <2>5. share.diff >= tmpl[share.id] /\ theJob.clamp = tmpl[share.id] /\ ~(MinDiff > tmpl[share.id])
           => share.diff >= theJob.diff
    BY <2>1, <2>2, Numbers DEF InRange
  <2>6. outcome' = "low" => ~(share.diff >= theJob.diff)
    BY <2>1, <2>3, <2>4
  <2>7. outcome' \notin {"wrong hash", "error", "accepted"}
    BY <2>3, <2>4
  <2> QED
    BY <2>3, <2>5, <2>6, <2>7 DEF BlockIsSubmitted
<1>26. CASE CompareAgain
  <2>1. outcome \in {"verified", "queued"} /\ UNCHANGED outcome
    BY <1>26 DEF CompareAgain, Handling, Judging
  <2> QED
    BY <2>1 DEF BlockIsSubmitted
<1>27. CASE SubmitBlock
  BY <1>27, Numbers DEF SubmitBlock, HandlerTo, BlockIsSubmitted, Undisturbed, Handling, Judging
<1>28. CASE Retarget
  <2>1. /\ UNCHANGED <<share, tmpl, theJob, checks>>
        /\ outcome' \in {"submitted", "unverified", "accepted"}
        /\ outcome' = "accepted" => outcome \in {"verified", "queued"}
    BY <1>28 DEF Retarget, HandlerTo, Handling
  <2>2. share.diff \in Nat /\ tmpl[share.id] \in Nat
    BY <1>28, ShareTemplate DEF Retarget, Handling, Judging
  <2>3. outcome' = "accepted" => share.diff < checks.second
    BY <1>28, <2>1 DEF Retarget, Compared
  <2>4. outcome' = "accepted" /\ share.diff >= tmpl[share.id] => checks.second # tmpl[share.id]
    BY <2>2, <2>3
  <2> QED
    BY <2>1, <2>4 DEF BlockIsSubmitted
<1>29. CASE Answer
  BY <1>29, Numbers DEF Answer, BlockIsSubmitted, Undisturbed
<1>30. ASSUME NetworkMoves \/ RefreshVersion \/ OtherStores \/ UNCHANGED vars PROVE UNCHANGED <<share, fetched,
      outcome, theJob, checks, open, crossed>>
  BY <1>30 DEF vars, NetworkMoves, RefreshVersion, OtherStores, Happens
<1>31. UNCHANGED <<share, fetched, outcome, theJob, checks, open, crossed>> => BlockIsSubmitted'
  BY DEF BlockIsSubmitted, Undisturbed
<1> QED
  BY <1>1, <1>2, <1>3, <1>4, <1>5, <1>6, <1>7, <1>8, <1>9, <1>10, <1>11, <1>12, <1>13, <1>14,
     <1>15, <1>16, <1>17, <1>18, <1>19, <1>20, <1>21, <1>22, <1>23, <1>24, <1>25, <1>26, <1>27,
     <1>28, <1>29, <1>30, <1>31 DEF Next, Login, Job, Share

-----------------------------------------------------------------------------
(* Theorems.                                                               *)

\* The initial states.
LEMMA InitIInv == Init => IInv
<1> SUFFICES ASSUME Init PROVE IInv
  OBVIOUS
<1>1. NetTypes
  BY Numbers DEF Init, NetTypes
<1>2. JobTypes /\ ShareTypes
  <2>1. NotMaking \in Making /\ 0 \in 0..Huge /\ -1 \in -1..ShortMax
    BY Numbers DEF NotMaking, Making
  <2>2. NoChecks \in [first : {0} \cup NetDiffs, second : {0} \cup NetDiffs, seed : 0..MaxSeeds,
                     version : BOOLEAN]
    BY Numbers DEF NoChecks
  <2> QED
    BY <2>1, <2>2, NoJobType DEF Init, JobTypes, ShareTypes
<1>3. PlaceTypes
  <2>1. 0 \in 0..MaxTemplates /\ 0 \in 0..MaxEvents
    BY Numbers
  <2> QED
    BY <2>1 DEF Init, PlaceTypes, LoginSteps
<1>4. Makers /\ SentOnce /\ Handling /\ TemplateStored /\ Compared
  BY DEF Init, Makers, SentOnce, Handling, TemplateStored, Compared, Holding, Judging
<1>5. RangeInv /\ JobsComplete /\ JudgedByItsJob
  BY DEF Init, RangeInv, JobsComplete, JudgedByItsJob, Complete, NoJob, LoginSteps, Preparing,
     Holding, Judging
<1>6. HonestShareAccepted /\ BlockIsSubmitted
  BY DEF Init, HonestShareAccepted, BlockIsSubmitted
<1> QED
  BY <1>1, <1>2, <1>3, <1>4, <1>5, <1>6, TypeParts DEF IInv, BaseInv, CleanInv

\* Every step.
LEMMA StepIInv == IInv /\ [Next]_vars => IInv'
<1> SUFFICES ASSUME IInv, [Next]_vars PROVE IInv'
  OBVIOUS
<1>1. /\ NetTypes /\ JobTypes /\ ShareTypes /\ PlaceTypes
      /\ Makers /\ SentOnce /\ Handling /\ TemplateStored /\ Compared
  BY TypeParts DEF IInv, BaseInv
<1>2. NetTypes' /\ JobTypes' /\ ShareTypes' /\ PlaceTypes'
  BY <1>1, StepNetTypes, StepJobTypes, StepShareTypes, StepPlaceTypes
<1>3. TypeOK'
  BY <1>2 DEF TypeOK, NetTypes, JobTypes, ShareTypes, PlaceTypes
<1>4. Makers' /\ SentOnce' /\ Handling' /\ TemplateStored' /\ Compared'
  BY <1>1, StepMakers, StepSentOnce, StepHandling, StepTemplateStored, StepCompared
<1>5. ASSUME Undisturbed'
      PROVE  /\ RangeInv' /\ JobsComplete' /\ JudgedByItsJob'
             /\ HonestShareAccepted' /\ BlockIsSubmitted'
  <2>1. Undisturbed /\ RangeInv /\ JobsComplete /\ JudgedByItsJob
    BY <1>1, <1>5, StaysDisturbed DEF IInv, CleanInv
  <2> QED
    BY <1>1, <1>2, <1>5, <2>1, StepRange, StepComplete, StepJudged, StepHonest, StepBlock DEF IInv
<1>6. ~Undisturbed' => HonestShareAccepted' /\ BlockIsSubmitted'
  BY DEF Undisturbed, HonestShareAccepted, BlockIsSubmitted
<1> QED
  BY <1>3, <1>4, <1>5, <1>6 DEF IInv, BaseInv, CleanInv

\* The invariant holds in every reachable state.
LEMMA AlwaysIInv == Spec => []IInv
  BY InitIInv, StepIInv, PTL DEF Spec

\* The lock belongs to the one who is at a step under it, every difficulty and
\* template number stays in its range, and a target in that of a uint32 (see TypeOK).
THEOREM TypeCorrect == Spec => []TypeOK
<1>1. IInv => TypeOK
  BY DEF IInv, BaseInv
<1> QED
  BY <1>1, AlwaysIInv, PTL

\* A share that meets the target sent with its job is not refused for its hash or its
\* difficulty, for every target and rounding, as long as it is hashed under the seed
\* hash and version of its job's template (see HonestShareAccepted).
THEOREM HonestAccepted == Spec => []HonestShareAccepted
<1>1. IInv => HonestShareAccepted
  BY DEF IInv
<1> QED
  BY <1>1, AlwaysIInv, PTL

\* A share that solves its template is submitted, with the exceptions that
\* BlockIsSubmitted names: nothing else in the interleaving loses a block.
THEOREM SolvedIsSubmitted == Spec => []BlockIsSubmitted
<1>1. IInv => BlockIsSubmitted
  BY DEF IInv
<1> QED
  BY <1>1, AlwaysIInv, PTL

\* Only a move of the network's difficulty between the two comparisons lets a share
\* reach SubmitBlock unverified (see BlockWasVerified).
THEOREM VerifiedUnlessMoved == Spec => []BlockWasVerified
<1>1. IInv => BlockWasVerified
  <2> SUFFICES ASSUME IInv, outcome = "unverified" PROVE \E d \in seen : d # net
    BY DEF BlockWasVerified
  <2>1. \E d, e \in seen : d # e
    BY DEF IInv, BaseInv, Compared
  <2> QED
    BY <2>1
<1> QED
  BY <1>1, AlwaysIInv, PTL

\* The difficulty of a job that OnNewBlock has made lies between MinDiff and the
\* network's, and that of the login's job is at least MinDiff, whatever was asked for
\* and whatever NextDiff has become (see JobDiffInRange).
THEOREM JobDiffClamped == Spec => []JobDiffInRange
<1>1. ASSUME IInv PROVE JobDiffInRange
  <2> SUFFICES ASSUME Undisturbed, NEW job \in {current, last} \ {NoJob}
               PROVE  \/ job.clamp \in 1..MinDiff
                      \/ /\ job.diff >= MinDiff
                         /\ job.clamp > 0 => job.diff < job.clamp
                         /\ job.clamp = 0 => job.diff # Huge
    BY DEF Undisturbed, JobDiffInRange
  <2>1. InRange(job.diff, job.clamp)
    BY <1>1 DEF IInv, CleanInv, RangeInv
  <2>2. job.diff \in Nat /\ job.clamp \in Int
    <3>1. job \in Jobs
      BY <1>1 DEF IInv, BaseInv, TypeOK
    <3>2. job.diff \in 0..Huge /\ job.clamp \in {-1, 0} \cup NetDiffs
      BY <3>1, JobsType
    <3>3. NetDiffs \subseteq Nat /\ 0..Huge \subseteq Nat
      BY Numbers
    <3>4. \A c \in {-1, 0} \cup NetDiffs : c \in Int
      BY <3>3
    <3> QED
      BY <3>2, <3>3, <3>4
  <2> QED
    BY <2>1, <2>2, Numbers DEF InRange
<1> QED
  BY <1>1, AlwaysIInv, PTL
=============================================================================
