----------------------------- MODULE PenaltyBox -----------------------------
(***************************************************************************)
(* The penalty box of a slave (cmd/slave/penalty.go) together with the     *)
(* connection goroutines that use it (cmd/slave/conn.go, HandleConnection).*)
(*                                                                         *)
(* Every method of PenaltyBox runs under pb.mu, so each is one action.     *)
(* HandleConnection does not hold the mutex between its calls: CheckBanned,*)
(* each RecordShare and the deferred CleanupConnection are separate steps, *)
(* between which other connections, the cleanup ticker and the clock move. *)
(*                                                                         *)
(* Abstractions.  Time is a count of ticks starting at 1, so 0 stands for  *)
(* "no entry" in the maps.  ipConns[ip] is a set: RecordShare appends only *)
(* what contains() does not find.  LastShareTime is written, never read,   *)
(* and left out.  The literals of the code (6 shares before the ratio      *)
(* counts, 10 before the rate does, 10 minutes in StartCleanup) are        *)
(* constants, so that small instances reach them.                          *)
(*                                                                         *)
(* The names every module has carry the prefix Penalty here, and the       *)
(* connections are the connIDs of the code, so that SlaveProofs can extend *)
(* this module beside SlaveServer.                                         *)
(***************************************************************************)
EXTENDS Integers, Sequences

CONSTANTS
    ConnIds,        \* connection identifiers (random 63-bit numbers, never reused)
    IPs,            \* client addresses
    IpOf,           \* the address each connection comes from
    WindowSpan,     \* ShareWindowMinutes
    BanDuration,    \* BanDurationMinutes
    TimingSize,     \* ShareTimingWindowSize
    MaxRate,        \* MaxSharesPerSecond, in shares per tick
    RatioNum,       \* BadShareRatio = RatioNum / RatioDen
    RatioDen,
    RateSamples,    \* timings needed before the rate is judged (10 in the code)
    RatioSamples,   \* shares needed before the ratio is judged (6 in the code)
    CleanupAge,     \* age at which StartCleanup drops a window (10 minutes)
    MaxTime,        \* bound on the clock
    MaxShares       \* bound on the shares counted in one window

ASSUME PenaltyAssumption ==
    /\ IpOf \in [ConnIds -> IPs]
    /\ {WindowSpan, BanDuration, TimingSize, MaxRate, RatioNum, RatioDen,
        RateSamples, RatioSamples, CleanupAge, MaxTime, MaxShares} \subseteq Nat
    /\ RatioDen > 0
    /\ RateSamples > 0

VARIABLES
    now,        \* the clock
    phase,      \* where each connection's goroutine is
    banned,     \* pb.banned: expiry of the ban of each address, 0 if none
    windows,    \* pb.windows: share window of each connection
    ipConns     \* pb.ipConns: connections recorded for each address

penaltyVars == <<now, phase, banned, windows, ipConns>>

Phase == {"new", "open", "leaving", "closed"}

Window == [good: Nat, bad: Nat, start: Nat, timings: Seq(Nat)]

NewWindow(t) == [good |-> 0, bad |-> 0, start |-> t, timings |-> <<>>]

\* No entry in pb.windows: windows are created at a time of at least 1.
NoWindow == NewWindow(0)

HasWindow(c) == windows[c].start # 0

PenaltyTypeOK ==
    /\ now \in Nat \ {0}
    /\ phase \in [ConnIds -> Phase]
    /\ banned \in [IPs -> Nat]
    /\ windows \in [ConnIds -> Window]
    /\ \A c \in ConnIds : Len(windows[c].timings) <= TimingSize
    /\ ipConns \in [IPs -> SUBSET ConnIds]

PenaltyInit ==
    /\ now = 1
    /\ phase = [c \in ConnIds |-> "new"]
    /\ banned = [ip \in IPs |-> 0]
    /\ windows = [c \in ConnIds |-> NoWindow]
    /\ ipConns = [ip \in IPs |-> {}]

-----------------------------------------------------------------------------
(* Reading the box.                                                        *)

\* CheckBanned, and the first test of RecordShare: now.Before(banTime).
IsBanned(ip) == now < banned[ip]

\* RecordShare starts a window when there is none or the old one has expired.
NeedsWindow(c) == ~HasWindow(c) \/ now - windows[c].start > WindowSpan

TimedWithoutCut(c) ==
    LET w == IF NeedsWindow(c) THEN NewWindow(now) ELSE windows[c]
    IN  [w EXCEPT !.timings = Append(@, now)]

\* The window with this share's timestamp appended, cut to the last TimingSize.
Timed(c) ==
    LET w == IF NeedsWindow(c) THEN NewWindow(now) ELSE windows[c]
        t == Append(w.timings, now)
    IN  [w EXCEPT !.timings = IF Len(t) > TimingSize THEN Tail(t) ELSE t]

\* The window once the share is counted as good or bad.
Counted(c, isValid) ==
    LET w == Timed(c)
    IN  IF isValid THEN [w EXCEPT !.good = @ + 1] ELSE [w EXCEPT !.bad = @ + 1]

\* Share spam: enough timings, over a positive duration, at too high a rate.
RateExceeded(w) ==
    /\ Len(w.timings) >= RateSamples
    /\ now > w.timings[1]
    /\ Len(w.timings) > MaxRate * (now - w.timings[1])

\* Too many bad shares among enough shares.
RatioExceeded(w) ==
    /\ w.good + w.bad >= RatioSamples
    /\ w.bad > 0
    /\ w.bad * RatioDen > RatioNum * (w.good + w.bad)

Offends(c, isValid) == RateExceeded(Timed(c)) \/ RatioExceeded(Counted(c, isValid))

\* The connections of c's address once RecordShare has registered c.
Registered(c) ==
    IF NeedsWindow(c) THEN [ipConns EXCEPT ![IpOf[c]] = @ \cup {c}] ELSE ipConns

-----------------------------------------------------------------------------
(* The clock and the goroutines.                                           *)

Tick ==
    /\ now < MaxTime
    /\ now' = now + 1
    /\ UNCHANGED <<phase, banned, windows, ipConns>>

\* HandleConnection's first step: a banned address is kicked before the
\* cleanup is deferred, any other one goes on to log in and submit.
Connect(c) ==
    /\ phase[c] = "new"
    /\ phase' = [phase EXCEPT ![c] = IF IsBanned(IpOf[c]) THEN "closed" ELSE "open"]
    /\ UNCHANGED <<now, banned, windows, ipConns>>

\* What HandleConnection does when RecordShare returns false: Kick and return,
\* which leaves the deferred CleanupConnection to run.
ThrowOut(c) == phase' = [phase EXCEPT ![c] = "leaving"]

\* RecordShare, returning early because the address is banned.
RecordWhileBanned(c) ==
    /\ phase[c] = "open"
    /\ IsBanned(IpOf[c])
    /\ ThrowOut(c)
    /\ UNCHANGED <<now, banned, windows, ipConns>>

RecordAndBanKeepsWindows(c, isValid) ==
    /\ phase[c] = "open"
    /\ ~IsBanned(IpOf[c])
    /\ Offends(c, isValid)
    /\ banned' = [banned EXCEPT ![IpOf[c]] = now + BanDuration]
    /\ ipConns' = Registered(c)
    /\ windows' = [windows EXCEPT ![c] = NoWindow]
    /\ ThrowOut(c)
    /\ UNCHANGED now

\* RecordShare, banning the address for spam or for its bad shares: the windows
\* of every connection recorded for the address are dropped.
RecordAndBan(c, isValid) ==
    /\ phase[c] = "open"
    /\ ~IsBanned(IpOf[c])
    /\ Offends(c, isValid)
    /\ banned' = [banned EXCEPT ![IpOf[c]] = now + BanDuration]
    /\ ipConns' = Registered(c)
    /\ windows' = [d \in ConnIds |->
                      IF d \in Registered(c)[IpOf[c]] THEN NoWindow ELSE windows[d]]
    /\ ThrowOut(c)
    /\ UNCHANGED now

\* RecordShare, returning true: an expired ban is forgotten and the share counted.
RecordAccepted(c, isValid) ==
    /\ phase[c] = "open"
    /\ ~IsBanned(IpOf[c])
    /\ ~Offends(c, isValid)
    /\ Timed(c).good + Timed(c).bad < MaxShares
    /\ banned' = [banned EXCEPT ![IpOf[c]] = 0]
    /\ ipConns' = Registered(c)
    /\ windows' = [windows EXCEPT ![c] = Counted(c, isValid)]
    /\ UNCHANGED <<now, phase>>

RecordShare(c, isValid) ==
    \/ RecordWhileBanned(c)
    \/ RecordAndBan(c, isValid)
    \/ RecordAccepted(c, isValid)

\* The miner disconnects, times out or sends a request that cannot be read.
Leave(c) ==
    /\ phase[c] = "open"
    /\ phase' = [phase EXCEPT ![c] = "leaving"]
    /\ UNCHANGED <<now, banned, windows, ipConns>>

CleanupWindowOnly(c) ==
    /\ phase[c] = "leaving"
    /\ windows' = [windows EXCEPT ![c] = NoWindow]
    /\ phase' = [phase EXCEPT ![c] = "closed"]
    /\ UNCHANGED <<now, banned, ipConns>>

\* CleanupConnection, deferred by HandleConnection.
CleanupConnection(c) ==
    /\ phase[c] = "leaving"
    /\ windows' = [windows EXCEPT ![c] = NoWindow]
    /\ ipConns' = [ipConns EXCEPT ![IpOf[c]] = @ \ {c}]
    /\ phase' = [phase EXCEPT ![c] = "closed"]
    /\ UNCHANGED <<now, banned>>

PeriodicCleanupLiftsBans ==
    /\ windows' = [c \in ConnIds |->
                      IF now - windows[c].start > CleanupAge THEN NoWindow ELSE windows[c]]
    /\ banned' = [ip \in IPs |-> 0]
    /\ UNCHANGED <<now, phase, ipConns>>

\* One round of the ticker in StartCleanup: old windows and expired bans go,
\* ipConns stays.
PeriodicCleanup ==
    /\ windows' = [c \in ConnIds |->
                      IF now - windows[c].start > CleanupAge THEN NoWindow ELSE windows[c]]
    /\ banned' = [ip \in IPs |-> IF now > banned[ip] THEN 0 ELSE banned[ip]]
    /\ UNCHANGED <<now, phase, ipConns>>

PenaltyNext ==
    \/ Tick
    \/ PeriodicCleanup
    \/ \E c \in ConnIds :
          \/ Connect(c)
          \/ \E isValid \in BOOLEAN : RecordShare(c, isValid)
          \/ Leave(c)
          \/ CleanupConnection(c)

PenaltySpec == PenaltyInit /\ [][PenaltyNext]_penaltyVars

-----------------------------------------------------------------------------
(* Properties.                                                             *)

\* While an address is banned none of its connections has a share window: the
\* ban of one connection wipes the counters of all the others (penalty.go
\* 89-92, 116-119), and no share recorded during the ban starts a new one.
BannedIpHasNoWindow ==
    \A c \in ConnIds : IsBanned(IpOf[c]) => ~HasWindow(c)

\* A window can be found from its address, so the next ban will reach it: the
\* cleanup ticker, expiry and reconnects never separate the two maps.
WindowIsRegistered ==
    \A c \in ConnIds : HasWindow(c) => c \in ipConns[IpOf[c]]

\* The strengthening that makes the invariants above inductive: an address
\* only lists its own connections, and only those whose goroutine is between
\* its CheckBanned and its CleanupConnection.
OnlyLiveConnsListed ==
    \A ip \in IPs : \A c \in ipConns[ip] :
        IpOf[c] = ip /\ phase[c] \in {"open", "leaving"}

\* A connection whose goroutine has ended leaves nothing behind in either map,
\* in whatever order its last share, the ticker and other bans came.
ClosedConnUntracked ==
    \A c \in ConnIds : phase[c] = "closed" =>
        /\ ~HasWindow(c)
        /\ \A ip \in IPs : c \notin ipConns[ip]

\* No surviving window exceeds the bad-share ratio: a miner that is still being
\* served has been judged on every share counted in its window.
SurvivorsWithinRatio ==
    \A c \in ConnIds : ~RatioExceeded(windows[c])

\* A ban runs its full length: nothing lifts, shortens or prolongs it while it
\* is in force, neither a share, nor a reconnect, nor the cleanup ticker.
BanServedInFull ==
    [][\A ip \in IPs : IsBanned(ip) => banned'[ip] = banned[ip]]_penaltyVars

\* A new ban touches only connections of the banned address: the windows of
\* miners at other addresses keep their counters.
OtherAddressesUntouched ==
    [][\A c \in ConnIds :
          (\E ip \in IPs \ {IpOf[c]} : banned'[ip] > banned[ip])
              => windows'[c] = windows[c]]_penaltyVars
=============================================================================
