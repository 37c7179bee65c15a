---------------------------- MODULE SlaveProofs ----------------------------
(***************************************************************************)
(* Proofs about the two components of the slave that HandleConnection      *)
(* drives: the penalty box (PenaltyBox) and the locks of the server and    *)
(* its job distribution (SlaveServer).                                     *)
(*                                                                         *)
(* The penalty box: any number of connections and addresses, any sharing   *)
(* of addresses and any configuration of the limits.  The invariants lean  *)
(* on each other.  A ban reaches a window only through ipConns, so         *)
(* BannedIpHasNoWindow needs WindowIsRegistered; that a ban at one address *)
(* spares the others needs OnlyLiveConnsListed.  Their conjunction with    *)
(* PenaltyTypeOK is inductive and is called PenaltyIInv.                   *)
(*                                                                         *)
(* The server: any number of connections.  The invariants about locks are  *)
(* not inductive: who holds a lock has to be tied to where the holder is   *)
(* in its code.  LockInv does that, for the handlers, for the goroutines   *)
(* of OnNewBlock and for the connections thrown out.                       *)
(***************************************************************************)
EXTENDS PenaltyBox, SlaveServer, SequenceTheorems, TLAPS

PenaltyIInv ==
    /\ PenaltyTypeOK
    /\ WindowIsRegistered
    /\ OnlyLiveConnsListed
    /\ BannedIpHasNoWindow

-----------------------------------------------------------------------------
(* Facts about the constants and the operators on windows.                 *)

\* The limits that appear in types are numbers.
LEMMA LimitTypes ==
    TimingSize \in Nat /\ BanDuration \in Nat /\ IpOf \in [ConnIds -> IPs]
  BY PenaltyAssumption

\* RecordShare starts from a well-formed window that exists (penalty.go 56-63).
LEMMA StartedWindow ==
    ASSUME PenaltyTypeOK, NEW c \in ConnIds
    PROVE  LET w == IF NeedsWindow(c) THEN NewWindow(now) ELSE windows[c]
           IN  /\ w \in Window
               /\ w.start # 0
               /\ Len(w.timings) <= TimingSize
<1>1. NewWindow(now) \in Window /\ NewWindow(now).start # 0
      /\ Len(NewWindow(now).timings) <= TimingSize
  BY LimitTypes DEF PenaltyTypeOK, NewWindow, Window
<1>2. ~NeedsWindow(c) => windows[c] \in Window /\ windows[c].start # 0
                         /\ Len(windows[c].timings) <= TimingSize
  BY DEF PenaltyTypeOK, NeedsWindow, HasWindow
<1> QED
  BY <1>1, <1>2

\* Appending a timestamp and cutting the oldest one keeps the window
\* well-formed and within ShareTimingWindowSize (penalty.go 72-76).
LEMMA TimedIsWindow ==
    ASSUME PenaltyTypeOK, NEW c \in ConnIds
    PROVE  /\ Timed(c) \in Window
           /\ Timed(c).start # 0
           /\ Len(Timed(c).timings) <= TimingSize
<1> DEFINE w == IF NeedsWindow(c) THEN NewWindow(now) ELSE windows[c]
           t == Append(w.timings, now)
<1>1. w \in Window /\ w.start # 0 /\ Len(w.timings) <= TimingSize
  BY StartedWindow
<1>2. w.timings \in Seq(Nat) /\ now \in Nat
  BY <1>1 DEF Window, PenaltyTypeOK
<1> HIDE DEF w
<1>3. t \in Seq(Nat) /\ Len(t) = Len(w.timings) + 1
  BY <1>2, AppendProperties
<1>4. Tail(t) \in Seq(Nat) /\ Len(Tail(t)) = Len(t) - 1
  <2>1. t # <<>>
    BY <1>2, AppendProperties
  <2> HIDE DEF t
  <2> QED
    BY <1>3, <2>1, HeadTailProperties
<1>5. Len(w.timings) \in Nat
  BY <1>2, LenProperties
<1> DEFINE cut == IF Len(t) > TimingSize THEN Tail(t) ELSE t
<1> HIDE DEF t
<1>6. cut \in Seq(Nat) /\ Len(cut) <= TimingSize
  BY <1>1, <1>3, <1>4, <1>5, LimitTypes
<1>7. Timed(c) = [w EXCEPT !.timings = cut]
  BY DEF Timed, w, t
<1> HIDE DEF cut
<1> QED
  BY <1>1, <1>6, <1>7 DEF Window

\* Counting the share changes neither the start nor the timings
\* (penalty.go 100-105).
LEMMA CountedIsWindow ==
    ASSUME PenaltyTypeOK, NEW c \in ConnIds, NEW isValid \in BOOLEAN
    PROVE  /\ Counted(c, isValid) \in Window
           /\ Counted(c, isValid).start # 0
           /\ Len(Counted(c, isValid).timings) <= TimingSize
<1> DEFINE w == Timed(c)
<1>1. w \in Window /\ w.start # 0 /\ Len(w.timings) <= TimingSize
  BY TimedIsWindow
<1>2. Counted(c, isValid) \in {[w EXCEPT !.good = @ + 1], [w EXCEPT !.bad = @ + 1]}
  BY Zenon DEF Counted
<1> HIDE DEF w
<1>3. /\ [w EXCEPT !.good = @ + 1] \in Window
      /\ [w EXCEPT !.good = @ + 1].start = w.start
      /\ [w EXCEPT !.good = @ + 1].timings = w.timings
  BY <1>1 DEF Window
<1>4. /\ [w EXCEPT !.bad = @ + 1] \in Window
      /\ [w EXCEPT !.bad = @ + 1].start = w.start
      /\ [w EXCEPT !.bad = @ + 1].timings = w.timings
  BY <1>1 DEF Window
<1> QED
  BY <1>1, <1>2, <1>3, <1>4

\* An absent window is a window without shares.
LEMMA NoWindowIsWindow ==
    /\ NoWindow \in Window
    /\ NoWindow.start = 0
    /\ Len(NoWindow.timings) <= TimingSize
    /\ NoWindow.bad = 0
  BY LimitTypes DEF NoWindow, NewWindow, Window

\* Registering a connection adds it to the list of its own address and leaves
\* the lists of the others alone (penalty.go 65-69).
LEMMA RegisteredLists ==
    ASSUME PenaltyTypeOK, NEW c \in ConnIds
    PROVE  /\ Registered(c) \in [IPs -> SUBSET ConnIds]
           /\ \A ip \in IPs : ipConns[ip] \subseteq Registered(c)[ip]
           /\ \A ip \in IPs : Registered(c)[ip] \subseteq ipConns[ip] \cup {c}
           /\ \A ip \in IPs \ {IpOf[c]} : Registered(c)[ip] = ipConns[ip]
           /\ NeedsWindow(c) => c \in Registered(c)[IpOf[c]]
  BY LimitTypes DEF Registered, PenaltyTypeOK

-----------------------------------------------------------------------------
(* The inductive invariant.                                                *)

LEMMA InitPenaltyIInv == PenaltyInit => PenaltyIInv
<1> SUFFICES ASSUME PenaltyInit PROVE PenaltyIInv
  OBVIOUS
<1> USE DEF PenaltyInit
<1>1. PenaltyTypeOK
  BY NoWindowIsWindow, LimitTypes DEF PenaltyTypeOK, Phase
<1>2. \A c \in ConnIds : ~HasWindow(c)
  BY NoWindowIsWindow DEF HasWindow
<1> QED
  BY <1>1, <1>2 DEF PenaltyIInv, WindowIsRegistered, OnlyLiveConnsListed, BannedIpHasNoWindow

LEMMA NextPenaltyTypeOK == PenaltyTypeOK /\ [PenaltyNext]_penaltyVars => PenaltyTypeOK'
<1> SUFFICES ASSUME PenaltyTypeOK, [PenaltyNext]_penaltyVars PROVE PenaltyTypeOK'
  OBVIOUS
<1> USE LimitTypes
<1>1. CASE Tick
  BY <1>1 DEF Tick, PenaltyTypeOK
<1>2. CASE PeriodicCleanup
  BY <1>2, NoWindowIsWindow DEF PeriodicCleanup, PenaltyTypeOK
<1>3. ASSUME NEW c \in ConnIds, Connect(c) PROVE PenaltyTypeOK'
  BY <1>3 DEF Connect, PenaltyTypeOK, Phase
<1>4. ASSUME NEW c \in ConnIds, RecordWhileBanned(c) PROVE PenaltyTypeOK'
  BY <1>4 DEF RecordWhileBanned, ThrowOut, PenaltyTypeOK, Phase
<1>5. ASSUME NEW c \in ConnIds, NEW isValid \in BOOLEAN, RecordAndBan(c, isValid)
      PROVE PenaltyTypeOK'
  <2>1. ipConns' \in [IPs -> SUBSET ConnIds]
    BY <1>5, RegisteredLists DEF RecordAndBan
  <2>2. windows' \in [ConnIds -> Window]
        /\ \A d \in ConnIds : Len(windows'[d].timings) <= TimingSize
    BY <1>5, NoWindowIsWindow DEF RecordAndBan, PenaltyTypeOK
  <2>3. banned' \in [IPs -> Nat] /\ now' \in Nat \ {0}
    BY <1>5 DEF RecordAndBan, PenaltyTypeOK
  <2>4. phase' \in [ConnIds -> Phase]
    BY <1>5 DEF RecordAndBan, ThrowOut, PenaltyTypeOK, Phase
  <2> QED
    BY <2>1, <2>2, <2>3, <2>4 DEF PenaltyTypeOK
<1>6. ASSUME NEW c \in ConnIds, NEW isValid \in BOOLEAN, RecordAccepted(c, isValid)
      PROVE PenaltyTypeOK'
  <2>1. ipConns' \in [IPs -> SUBSET ConnIds]
    BY <1>6, RegisteredLists DEF RecordAccepted
  <2>2. windows' \in [ConnIds -> Window]
        /\ \A d \in ConnIds : Len(windows'[d].timings) <= TimingSize
    BY <1>6, CountedIsWindow DEF RecordAccepted, PenaltyTypeOK
  <2> QED
    BY <1>6, <2>1, <2>2 DEF RecordAccepted, PenaltyTypeOK, Phase
<1>7. ASSUME NEW c \in ConnIds, Leave(c) PROVE PenaltyTypeOK'
  BY <1>7 DEF Leave, PenaltyTypeOK, Phase
<1>8. ASSUME NEW c \in ConnIds, CleanupConnection(c) PROVE PenaltyTypeOK'
  BY <1>8, NoWindowIsWindow DEF CleanupConnection, PenaltyTypeOK, Phase
<1>9. CASE UNCHANGED penaltyVars
  BY <1>9 DEF penaltyVars, PenaltyTypeOK
<1> QED
  BY <1>1, <1>2, <1>3, <1>4, <1>5, <1>6, <1>7, <1>8, <1>9 DEF PenaltyNext, RecordShare

\* A window is registered: only RecordShare creates one, and registers it.
LEMMA NextWindowIsRegistered == PenaltyIInv /\ [PenaltyNext]_penaltyVars => WindowIsRegistered'
<1> SUFFICES ASSUME PenaltyIInv, [PenaltyNext]_penaltyVars, NEW d \in ConnIds, HasWindow(d)'
             PROVE  d \in ipConns'[IpOf[d]]
  BY DEF WindowIsRegistered
<1> USE LimitTypes DEF PenaltyIInv
<1>1. HasWindow(d) => d \in ipConns[IpOf[d]]
  BY DEF WindowIsRegistered
<1>2. CASE PeriodicCleanup
  BY <1>1, <1>2, NoWindowIsWindow DEF PeriodicCleanup, PenaltyTypeOK, HasWindow
<1>3. ASSUME NEW c \in ConnIds, NEW isValid \in BOOLEAN, RecordAndBan(c, isValid)
      PROVE d \in ipConns'[IpOf[d]]
  <2>1. HasWindow(d)
    BY <1>3, NoWindowIsWindow DEF RecordAndBan, HasWindow
  <2> QED
    BY <1>1, <1>3, <2>1, RegisteredLists DEF RecordAndBan
<1>4. ASSUME NEW c \in ConnIds, NEW isValid \in BOOLEAN, RecordAccepted(c, isValid)
      PROVE d \in ipConns'[IpOf[d]]
  <2>1. CASE d = c
    <3>1. ~NeedsWindow(c) => HasWindow(c)
      BY DEF NeedsWindow
    <3> QED
      BY <1>1, <1>4, <2>1, <3>1, RegisteredLists DEF RecordAccepted
  <2>2. CASE d # c
    <3>1. HasWindow(d)
      BY <1>4, <2>2 DEF RecordAccepted, HasWindow, PenaltyTypeOK
    <3> QED
      BY <1>1, <1>4, <3>1, RegisteredLists DEF RecordAccepted
  <2> QED
    BY <2>1, <2>2
<1>5. ASSUME NEW c \in ConnIds, CleanupConnection(c) PROVE d \in ipConns'[IpOf[d]]
  <2>1. d # c /\ HasWindow(d)
    BY <1>5, NoWindowIsWindow DEF CleanupConnection, HasWindow, PenaltyTypeOK
  <2> QED
    BY <1>1, <1>5, <2>1 DEF CleanupConnection, PenaltyTypeOK
<1>6. CASE UNCHANGED <<windows, ipConns>>
  BY <1>1, <1>6 DEF HasWindow
<1> QED
  BY <1>2, <1>3, <1>4, <1>5, <1>6
  DEF PenaltyNext, penaltyVars, Tick, Connect, RecordShare, RecordWhileBanned, Leave

\* An address lists its own connections, as long as their goroutines live.
LEMMA NextOnlyLiveConnsListed == PenaltyIInv /\ [PenaltyNext]_penaltyVars => OnlyLiveConnsListed'
<1> SUFFICES ASSUME PenaltyIInv, [PenaltyNext]_penaltyVars, NEW ip \in IPs, NEW d \in ipConns'[ip]
             PROVE  IpOf[d] = ip /\ phase'[d] \in {"open", "leaving"}
  BY DEF OnlyLiveConnsListed
<1> DEFINE Goal == IpOf[d] = ip /\ phase'[d] \in {"open", "leaving"}
<1> USE LimitTypes DEF PenaltyIInv
<1>1. d \in ipConns[ip] =>
          d \in ConnIds /\ IpOf[d] = ip /\ phase[d] \in {"open", "leaving"}
  BY DEF OnlyLiveConnsListed, PenaltyTypeOK
<1>2. ASSUME NEW c \in ConnIds, NEW isValid \in BOOLEAN, RecordShare(c, isValid)
      PROVE Goal
  <2>1. d \in ipConns[ip] \/ (d = c /\ ip = IpOf[c])
    BY <1>2, RegisteredLists
    DEF RecordShare, RecordWhileBanned, RecordAndBan, RecordAccepted
  <2>2. phase[c] = "open" /\ (phase' = phase \/ phase' = [phase EXCEPT ![c] = "leaving"])
    BY <1>2
    DEF RecordShare, RecordWhileBanned, RecordAndBan, RecordAccepted, ThrowOut
  <2> QED
    BY <1>1, <2>1, <2>2 DEF PenaltyTypeOK
<1>3. ASSUME NEW c \in ConnIds, Connect(c) PROVE Goal
  BY <1>1, <1>3 DEF Connect, PenaltyTypeOK
<1>4. ASSUME NEW c \in ConnIds, Leave(c) PROVE Goal
  BY <1>1, <1>4 DEF Leave, PenaltyTypeOK
<1>5. ASSUME NEW c \in ConnIds, CleanupConnection(c) PROVE Goal
  <2>1. d \in ipConns[ip] /\ d # c
    BY <1>1, <1>5 DEF CleanupConnection, PenaltyTypeOK
  <2> QED
    BY <1>1, <1>5, <2>1 DEF CleanupConnection, PenaltyTypeOK
<1>6. CASE UNCHANGED <<phase, ipConns>>
  BY <1>1, <1>6
<1> QED
  BY <1>2, <1>3, <1>4, <1>5, <1>6 DEF PenaltyNext, penaltyVars, Tick, PeriodicCleanup

\* A ban wipes every window of its address, and none starts while it lasts.
LEMMA NextBannedIpHasNoWindow == PenaltyIInv /\ [PenaltyNext]_penaltyVars => BannedIpHasNoWindow'
<1> SUFFICES ASSUME PenaltyIInv, [PenaltyNext]_penaltyVars, NEW d \in ConnIds, IsBanned(IpOf[d])'
             PROVE  ~HasWindow(d)'
  BY DEF BannedIpHasNoWindow
<1> USE LimitTypes DEF PenaltyIInv
<1>1. IsBanned(IpOf[d]) => ~HasWindow(d)
  BY DEF BannedIpHasNoWindow
<1>2. CASE Tick
  <2>1. IsBanned(IpOf[d])
    BY <1>2 DEF Tick, IsBanned, PenaltyTypeOK
  <2> QED
    BY <1>1, <1>2, <2>1 DEF Tick, HasWindow
<1>3. CASE PeriodicCleanup
  <2>1. IsBanned(IpOf[d])
    BY <1>3 DEF PeriodicCleanup, IsBanned, PenaltyTypeOK
  <2> QED
    BY <1>1, <1>3, <2>1, NoWindowIsWindow DEF PeriodicCleanup, HasWindow
<1>4. ASSUME NEW c \in ConnIds, NEW isValid \in BOOLEAN, RecordAndBan(c, isValid)
      PROVE ~HasWindow(d)'
  <2>1. CASE IpOf[d] = IpOf[c]
    <3>1. HasWindow(d) => d \in Registered(c)[IpOf[c]]
      BY <2>1, RegisteredLists DEF WindowIsRegistered
    <3> QED
      BY <1>4, <3>1, NoWindowIsWindow DEF RecordAndBan, HasWindow
  <2>2. CASE IpOf[d] # IpOf[c]
    <3>1. IsBanned(IpOf[d])
      BY <1>4, <2>2 DEF RecordAndBan, IsBanned, PenaltyTypeOK
    <3> QED
      BY <1>1, <1>4, <3>1, NoWindowIsWindow DEF RecordAndBan, HasWindow
  <2> QED
    BY <2>1, <2>2
<1>5. ASSUME NEW c \in ConnIds, NEW isValid \in BOOLEAN, RecordAccepted(c, isValid)
      PROVE ~HasWindow(d)'
  <2>1. IpOf[d] # IpOf[c] /\ IsBanned(IpOf[d])
    BY <1>5 DEF RecordAccepted, IsBanned, PenaltyTypeOK
  <2> QED
    BY <1>1, <1>5, <2>1 DEF RecordAccepted, HasWindow, PenaltyTypeOK
<1>6. ASSUME NEW c \in ConnIds, CleanupConnection(c) PROVE ~HasWindow(d)'
  <2>1. IsBanned(IpOf[d])
    BY <1>6 DEF CleanupConnection, IsBanned
  <2> QED
    BY <1>1, <1>6, <2>1, NoWindowIsWindow DEF CleanupConnection, HasWindow, PenaltyTypeOK
<1>7. CASE UNCHANGED <<now, banned, windows>>
  BY <1>1, <1>7 DEF HasWindow, IsBanned
<1> QED
  BY <1>2, <1>3, <1>4, <1>5, <1>6, <1>7
  DEF PenaltyNext, penaltyVars, Connect, RecordShare, RecordWhileBanned, Leave

LEMMA PenaltyInvariance == PenaltySpec => []PenaltyIInv
<1>1. PenaltyIInv /\ [PenaltyNext]_penaltyVars => PenaltyIInv'
  BY NextPenaltyTypeOK, NextWindowIsRegistered, NextOnlyLiveConnsListed, NextBannedIpHasNoWindow
  DEF PenaltyIInv
<1> QED
  BY <1>1, InitPenaltyIInv, PTL DEF PenaltySpec

-----------------------------------------------------------------------------
(* The theorems.                                                           *)

\* Every state of a slave's penalty box is well-formed; in particular no
\* window ever holds more than ShareTimingWindowSize timestamps.
THEOREM PenaltyTypeCorrect == PenaltySpec => []PenaltyTypeOK
  BY PenaltyInvariance, PTL DEF PenaltyIInv

\* While an address is banned no connection of it has a share window, whatever
\* the number of its connections and however they interleave.
THEOREM BanWipesTheAddress == PenaltySpec => []BannedIpHasNoWindow
  BY PenaltyInvariance, PTL DEF PenaltyIInv

\* A connection whose goroutine has ended is in neither map of the box.
THEOREM NothingLeftBehind == PenaltySpec => []ClosedConnUntracked
<1>1. PenaltyIInv => ClosedConnUntracked
  BY LimitTypes
  DEF PenaltyIInv, PenaltyTypeOK, WindowIsRegistered, OnlyLiveConnsListed, ClosedConnUntracked
<1> QED
  BY <1>1, PenaltyInvariance, PTL

\* No window of a connection that is still served exceeds the bad-share ratio:
\* RecordShare has judged it on every share (penalty.go 107-123).
THEOREM SurvivorsJudged == PenaltySpec => []SurvivorsWithinRatio
<1>1. PenaltyInit => SurvivorsWithinRatio
  <2>1. ~RatioExceeded(NoWindow)
    BY NoWindowIsWindow DEF RatioExceeded
  <2> QED
    BY <2>1 DEF PenaltyInit, SurvivorsWithinRatio
<1>2. PenaltyIInv /\ SurvivorsWithinRatio /\ [PenaltyNext]_penaltyVars => SurvivorsWithinRatio'
  <2> SUFFICES ASSUME PenaltyIInv, SurvivorsWithinRatio, [PenaltyNext]_penaltyVars,
                      NEW d \in ConnIds
               PROVE  ~RatioExceeded(windows'[d])
    BY DEF SurvivorsWithinRatio, RatioExceeded
  <2>1. ~RatioExceeded(windows[d])
    BY DEF SurvivorsWithinRatio
  <2>2. ~RatioExceeded(NoWindow)
    BY NoWindowIsWindow DEF RatioExceeded
  <2>3. ASSUME NEW c \in ConnIds, NEW isValid \in BOOLEAN, RecordAccepted(c, isValid)
        PROVE ~RatioExceeded(windows'[d])
    BY <2>1, <2>3 DEF RecordAccepted, Offends, PenaltyIInv, PenaltyTypeOK
  <2>4. windows'[d] \in {windows[d], NoWindow}
        \/ \E c \in ConnIds, isValid \in BOOLEAN : RecordAccepted(c, isValid)
    BY DEF PenaltyNext, penaltyVars, Tick, PeriodicCleanup, Connect, RecordShare, RecordWhileBanned,
           RecordAndBan, Leave, CleanupConnection, PenaltyIInv, PenaltyTypeOK
  <2> QED
    BY <2>1, <2>2, <2>3, <2>4
<1> QED
  BY <1>1, <1>2, PenaltyInvariance, PTL DEF PenaltySpec

\* A ban in force is never lifted, shortened or prolonged.
THEOREM BansRunTheirCourse == PenaltySpec => BanServedInFull
<1>1. PenaltyIInv /\ [PenaltyNext]_penaltyVars =>
        [\A ip \in IPs : IsBanned(ip) => banned'[ip] = banned[ip]]_penaltyVars
  <2> SUFFICES ASSUME PenaltyIInv, [PenaltyNext]_penaltyVars, NEW ip \in IPs, IsBanned(ip)
               PROVE  banned'[ip] = banned[ip]
    OBVIOUS
  <2>1. CASE PeriodicCleanup
    BY <2>1 DEF PeriodicCleanup, IsBanned, PenaltyIInv, PenaltyTypeOK
  <2>2. ASSUME NEW c \in ConnIds, NEW isValid \in BOOLEAN, RecordShare(c, isValid)
        PROVE banned'[ip] = banned[ip]
    BY <2>2 DEF RecordShare, RecordWhileBanned, RecordAndBan, RecordAccepted, PenaltyIInv,
       PenaltyTypeOK
  <2>3. CASE UNCHANGED banned
    BY <2>3
  <2> QED
    BY <2>1, <2>2, <2>3 DEF PenaltyNext, penaltyVars, Tick, Connect, Leave, CleanupConnection
<1> QED
  BY <1>1, PenaltyInvariance, PTL DEF PenaltySpec, BanServedInFull

\* A new ban leaves the windows of connections from other addresses alone.
THEOREM BansStayLocal == PenaltySpec => OtherAddressesUntouched
<1>1. PenaltyIInv /\ [PenaltyNext]_penaltyVars =>
        [\A c \in ConnIds :
            (\E ip \in IPs \ {IpOf[c]} : banned'[ip] > banned[ip])
                => windows'[c] = windows[c]]_penaltyVars
  <2> SUFFICES ASSUME PenaltyIInv, [PenaltyNext]_penaltyVars, NEW d \in ConnIds,
                      NEW ip \in IPs \ {IpOf[d]}, banned'[ip] > banned[ip]
               PROVE  windows'[d] = windows[d]
    OBVIOUS
  <2> USE LimitTypes DEF PenaltyIInv
  <2>1. CASE PeriodicCleanup
    BY <2>1 DEF PeriodicCleanup, PenaltyTypeOK
  <2>2. ASSUME NEW c \in ConnIds, NEW isValid \in BOOLEAN, RecordAndBan(c, isValid)
        PROVE windows'[d] = windows[d]
    <3>1. ip = IpOf[c]
      BY <2>2 DEF RecordAndBan, PenaltyTypeOK
    <3>2. d \notin Registered(c)[ip]
      BY <3>1, RegisteredLists DEF OnlyLiveConnsListed
    <3> QED
      BY <2>2, <3>1, <3>2 DEF RecordAndBan
  <2>3. ASSUME NEW c \in ConnIds, NEW isValid \in BOOLEAN, RecordAccepted(c, isValid)
        PROVE FALSE
    BY <2>3 DEF RecordAccepted, PenaltyTypeOK
  <2>4. ASSUME banned' = banned PROVE FALSE
    BY <2>4 DEF PenaltyTypeOK
  <2> QED
    BY <2>1, <2>2, <2>3, <2>4
    DEF PenaltyNext, penaltyVars, Tick, Connect, RecordShare, RecordWhileBanned, Leave, CleanupConnection
<1> QED
  BY <1>1, PenaltyInvariance, PTL DEF PenaltySpec, OtherAddressesUntouched

-----------------------------------------------------------------------------
(* The locks of the server.                                                *)


\* Between conn.Lock and conn.Unlock of HandleConnection.
Inside == {"locked", "verify", "judge", "submit", "signal", "announce"}

\* Between CurInfo.Lock and CurInfo.Unlock.
InsideInfo == {"verify", "signal", "announce"}

Ended == {"kick", "kicked", "gone"}

\* The signal goroutine that waits for CurInfo has been told a height.
SignalTold == sigpc = "lock" => sigh # 0

\* Only a handler that has ended can have been thrown out.
ThrownHasEnded == \A c \in thrown : pc[c] \in Ended

\* A connection's lock is with the handler when, and except for those thrown out
\* only when, the handler is in its locked region.
ConnLockFollowsHandler ==
    \A c \in Conns :
        /\ pc[c] \in Inside => connLock[c] = "handler"
        /\ connLock[c] = "handler" => pc[c] \in Inside \/ c \in thrown

\* It is with a goroutine of OnNewBlock exactly while that goroutine runs.
ConnLockFollowsJob ==
    \A c \in Conns : jobpc[c] # "none" <=> connLock[c] = "job"

\* CurInfo is with a handler in the region where it holds it, or with one that
\* was thrown out there and never gave the connection's lock back either.
InfoFollowsHandler ==
    \A c \in Conns : curLock = c =>
        /\ connLock[c] = "handler"
        /\ pc[c] \in InsideInfo \/ c \in thrown

LockInv ==
    /\ ThrownHasEnded
    /\ ConnLockFollowsHandler
    /\ ConnLockFollowsJob
    /\ InfoFollowsHandler

ServerIInv == TypeOK /\ SignalTold /\ LockInv

-----------------------------------------------------------------------------
\* More stays within the bound on waiting goroutines.
LEMMA MoreIsBounded ==
    ASSUME NEW n \in 0..MaxJobs
    PROVE  More(n) \in 0..MaxJobs
BY ServerAssumption DEF More

\* The initial state satisfies the inductive invariant.
LEMMA InitServerIInv == Init => ServerIInv
BY ServerAssumption DEF Init, ServerIInv, TypeOK, SignalTold, LockInv, ThrownHasEnded,
   ConnLockFollowsHandler, ConnLockFollowsJob, InfoFollowsHandler, Inside, InsideInfo,
   Ended, Heights

\* Every step preserves the types, given what the signal goroutine was told.
LEMMA NextServerTypeOK == TypeOK /\ SignalTold /\ [Next]_vars => TypeOK'
<1> SUFFICES ASSUME TypeOK, SignalTold, [Next]_vars
             PROVE  TypeOK'
  OBVIOUS
<1> USE ServerAssumption DEF TypeOK, Heights, Goto, FreeConn, InfoFree, info, table, tmpls,
        nicehash, work, Reusable, Fetches, Shares, Send, JobSent
<1>1. ASSUME NEW c \in Conns, Accept(c) PROVE TypeOK'
  BY <1>1 DEF Accept
<1>2. ASSUME NEW c \in Conns, GiveUp(c) \/ Receive(c) PROVE TypeOK'
  BY <1>2 DEF GiveUp, Receive
<1>3. ASSUME NEW c \in Conns, Login(c) \/ LoginReuse(c) \/ LoginJob(c) PROVE TypeOK'
  BY <1>3 DEF Login, LoginReuse, LoginJob
<1>4. ASSUME NEW c \in Conns, LockConn(c) \/ LockInfo(c) PROVE TypeOK'
  BY <1>4 DEF LockConn, LockInfo
<1>5. ASSUME NEW c \in Conns, VerifyRejects(c) \/ VerifyBans(c) \/ UnlockInfo(c) PROVE TypeOK'
  BY <1>5 DEF VerifyRejects, VerifyBans, UnlockInfo
<1>6. ASSUME NEW c \in Conns, Finish(c) \/ JudgeBans(c) \/ FindBlock(c) PROVE TypeOK'
  BY <1>6 DEF Finish, JudgeBans, FindBlock
<1>7. ASSUME NEW c \in Conns, SubmitBlock(c) \/ SendSignal(c) \/ Announce(c) PROVE TypeOK'
  BY <1>7 DEF SubmitBlock, SendSignal, Announce
<1>8. ASSUME NEW c \in Conns, HandlerKick(c) \/ HandlerEnd(c) PROVE TypeOK'
  BY <1>8 DEF HandlerKick, HandlerEnd, Others, CloseListed
<1>9. CASE NewBlock
  BY <1>9 DEF NewBlock
<1>10. CASE Signals
  BY <1>10, MoreIsBounded DEF Signals, SigReceive, SigHeight, SigUpdate, SignalTold
<1>11. CASE Refresher
  BY <1>11, MoreIsBounded DEF Refresher, RefreshHeight, RefreshUpdate
<1>12. CASE OnNewBlock
  BY <1>12, MoreIsBounded DEF OnNewBlock
<1>13. CASE ClearNicehashJob
  BY <1>13 DEF ClearNicehashJob
<1>14. ASSUME NEW c \in Conns, JobLock(c) \/ JobClamp(c) \/ JobFetch(c) \/ JobFails(c)
      PROVE TypeOK'
  BY <1>14 DEF JobLock, JobClamp, JobFetch, JobFails
<1>15. ASSUME NEW c \in Conns, JobStore(c) \/ JobReuse(c) PROVE TypeOK'
  BY <1>15 DEF JobStore, JobReuse
<1>16. ASSUME NEW c \in Conns, JobKick(c) \/ JobEnd(c) PROVE TypeOK'
  BY <1>16 DEF JobKick, JobEnd, Others, CloseListed
<1>17. CASE UNCHANGED vars
  BY <1>17 DEF vars
<1> QED
  BY <1>1, <1>2, <1>3, <1>4, <1>5, <1>6, <1>7, <1>8, <1>9, <1>10, <1>11, <1>12, <1>13,
     <1>14, <1>15, <1>16, <1>17 DEF Next, Handler, Job

-----------------------------------------------------------------------------
\* What the signal goroutine waits with is a height the daemon has told it.
LEMMA NextSignalTold == TypeOK /\ SignalTold /\ [Next]_vars => SignalTold'
<1> SUFFICES ASSUME TypeOK, SignalTold, [Next]_vars
             PROVE  SignalTold'
  OBVIOUS
<1>1. CASE SigHeight
  BY <1>1 DEF SigHeight, SignalTold, TypeOK
<1>2. CASE SigReceive \/ SigUpdate
  BY <1>2 DEF SigReceive, SigUpdate, SignalTold
<1>3. CASE UNCHANGED <<sigpc, sigh>>
  BY <1>3 DEF SignalTold
<1>4. SigHeight \/ SigReceive \/ SigUpdate \/ UNCHANGED <<sigpc, sigh>>
  BY DEF Next, vars, info, Signals, Refresher, Handler, Job, Accept, GiveUp, Receive, Login,
     LoginReuse, LoginJob, LockConn, LockInfo, VerifyRejects, VerifyBans, UnlockInfo, Finish, JudgeBans,
     FindBlock, SubmitBlock, SendSignal, Announce, HandlerKick, HandlerEnd, NewBlock,
     RefreshHeight, RefreshUpdate, OnNewBlock, ClearNicehashJob, JobLock, JobClamp,
     JobFetch, JobFails, JobReuse, JobStore, JobKick, JobEnd
<1> QED
  BY <1>1, <1>2, <1>3, <1>4

\* Locks stay tied to the code of their holders.  Steps of the daemon, the
\* signal goroutine, the Refresher and OnNewBlock touch no lock and no handler.
LEMMA NextLockInv == TypeOK /\ LockInv /\ [Next]_vars => LockInv'
<1> SUFFICES ASSUME TypeOK, LockInv, [Next]_vars
             PROVE  LockInv'
  OBVIOUS
<1> USE ServerAssumption DEF TypeOK, LockInv, ThrownHasEnded, ConnLockFollowsHandler,
        ConnLockFollowsJob, InfoFollowsHandler, Inside, InsideInfo, Ended, Goto, FreeConn,
        InfoFree
<1>1. ASSUME NEW c \in Conns, Accept(c) PROVE LockInv'
  BY <1>1 DEF Accept
<1>2. ASSUME NEW c \in Conns, GiveUp(c) \/ Receive(c) PROVE LockInv'
  BY <1>2 DEF GiveUp, Receive
<1>3. ASSUME NEW c \in Conns, Login(c) \/ LoginReuse(c) \/ LoginJob(c) PROVE LockInv'
  BY <1>3 DEF Login, LoginReuse, LoginJob
<1>4. ASSUME NEW c \in Conns, LockConn(c) \/ LockInfo(c) PROVE LockInv'
  BY <1>4 DEF LockConn, LockInfo
<1>5. ASSUME NEW c \in Conns, VerifyRejects(c) PROVE LockInv'
  BY <1>5 DEF VerifyRejects
<1>6. ASSUME NEW c \in Conns, VerifyBans(c) \/ JudgeBans(c) PROVE LockInv'
  BY <1>6 DEF VerifyBans, JudgeBans
<1>7. ASSUME NEW c \in Conns, UnlockInfo(c) PROVE LockInv'
  BY <1>7 DEF UnlockInfo
<1>8. ASSUME NEW c \in Conns, Finish(c) \/ FindBlock(c) PROVE LockInv'
  BY <1>8 DEF Finish, FindBlock
<1>9. ASSUME NEW c \in Conns, SubmitBlock(c) PROVE LockInv'
  BY <1>9 DEF SubmitBlock
<1>10. ASSUME NEW c \in Conns, SendSignal(c) PROVE LockInv'
  BY <1>10 DEF SendSignal
<1>11. ASSUME NEW c \in Conns, Announce(c) PROVE LockInv'
  BY <1>11 DEF Announce
<1>12. ASSUME NEW c \in Conns, HandlerKick(c) \/ HandlerEnd(c) PROVE LockInv'
  BY <1>12 DEF HandlerKick, HandlerEnd
<1>13. ASSUME NEW c \in Conns, JobLock(c) PROVE LockInv'
  BY <1>13 DEF JobLock
<1>14. ASSUME NEW c \in Conns, JobClamp(c) \/ JobFetch(c) \/ JobFails(c) PROVE LockInv'
  BY <1>14 DEF JobClamp, JobFetch, JobFails
<1>15. ASSUME NEW c \in Conns, JobStore(c) \/ JobReuse(c) PROVE LockInv'
  BY <1>15 DEF JobStore, JobReuse, JobSent
<1>16. ASSUME NEW c \in Conns, JobKick(c) \/ JobEnd(c) PROVE LockInv'
  BY <1>16 DEF JobKick, JobEnd
<1>17. CASE UNCHANGED <<curLock, connLock, pc, jobpc, thrown>>
  BY <1>17
<1>18. CASE NewBlock \/ Signals \/ Refresher \/ OnNewBlock \/ ClearNicehashJob
  BY <1>17, <1>18 DEF NewBlock, Signals, SigReceive, SigHeight, SigUpdate, Refresher,
     RefreshHeight, RefreshUpdate, OnNewBlock, ClearNicehashJob
<1>19. CASE UNCHANGED vars
  BY <1>17, <1>19 DEF vars
<1> QED
  BY <1>1, <1>2, <1>3, <1>4, <1>5, <1>6, <1>7, <1>8, <1>9, <1>10, <1>11, <1>12, <1>13,
     <1>14, <1>15, <1>16, <1>18, <1>19 DEF Next, Handler, Job

\* The inductive invariant holds in every reachable state.
LEMMA ServerInvariance == Spec => []ServerIInv
<1>1. ServerIInv /\ [Next]_vars => ServerIInv'
  BY NextServerTypeOK, NextSignalTold, NextLockInv DEF ServerIInv
<1> QED
  BY InitServerIInv, <1>1, PTL DEF Spec

-----------------------------------------------------------------------------
\* The types of HandleConnection's, the Refresher's and OnNewBlock's state; in
\* particular sigc never holds more than its capacity of one signal.
THEOREM ServerTypeCorrect == Spec => []TypeOK
<1>1. ServerIInv => TypeOK
  BY DEF ServerIInv
<1> QED
  BY ServerInvariance, <1>1, PTL

\* However many connections there are and however their shares interleave, only
\* the penalty box's way out of HandleConnection leaves a lock behind.
THEOREM LocksAreGivenBack == Spec => []EndedHoldsNoLock
<1>1. ServerIInv => EndedHoldsNoLock
  BY DEF ServerIInv, LockInv, TypeOK, ConnLockFollowsHandler, InfoFollowsHandler, Inside,
     InsideInfo, EndedHoldsNoLock
<1> QED
  BY ServerInvariance, <1>1, PTL

\* Whoever holds CurInfo across a wait holds its connection's lock: handlers and
\* the goroutines of OnNewBlock agree on the order of the two locks.
THEOREM OneLockOrder == Spec => []InfoHolderOwnsConn
<1>1. ServerIInv => InfoHolderOwnsConn
  BY DEF ServerIInv, LockInv, InfoFollowsHandler, InfoHolderOwnsConn
<1> QED
  BY ServerInvariance, <1>1, PTL
=============================================================================
