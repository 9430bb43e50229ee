---------------------------- MODULE BoardProofs ----------------------------
(***************************************************************************)
(* Proofs about two parts of the gateway that work beside the radio: its   *)
(* keys (AppTask) and the store of its serial number (SnStore).            *)
(*                                                                         *)
(*   1. Keys, for every length of the holds and the timers, any number of  *)
(*      keys and of late rounds: a press switches one lamp once, the count *)
(*      of the scans keeps up with the time but for the late rounds, the   *)
(*      full reset is armed for a key that was down that long, the reset   *)
(*      of the WiFi settings fires for shorter holds alone unless the      *)
(*      rounds are late by the time between the two resets, and the        *)
(*      watchdog waits for its time off line.                              *)
(*   2. The store: its invariant for any number of harms, and that it is a *)
(*      register when at most one harm falls between two writes that came  *)
(*      to their end.                                                      *)
(***************************************************************************)
EXTENDS AppTask, SnStore, FiniteSetTheorems, TLAPS

---------------------------------------------------------------------------
(* 1. The keys *)

Message == {"keyscan", "wifi", "all", "watch"}

\* The scan of the keys stands first in the queue and is not done yet.
Pending == msgs # <<>> /\ Head(msgs) = "keyscan"

\* Only the first message is a scan.
Queue ==
  /\ msgs \in Seq(Message)
  /\ \A i \in DOMAIN msgs : msgs[i] = "keyscan" => i = 1

\* Between two scans there is no edge of a key that nobody has looked at, and
\* keep says that the last scan saw a key.
Edges ==
  /\ ~button.up /\ ~button.down
  /\ button.keep <=> scanned

\* The count of the scans and the time since the key was seen first.
Counts ==
  /\ button.runtime \in 0 .. HoldAll + 1 /\ held \in Nat /\ stalls \in Nat
  /\ button.keep => IF Pending THEN button.runtime + 1 <= held \/ held > HoldAll
                               ELSE button.runtime <= held
  /\ ~button.keep => button.runtime = 0 /\ held <= stalls + 1
  /\ ~button.keep /\ ~Pending => held = 0
  /\ held <= HoldAll => held <= button.runtime + stalls + (IF Pending /\ button.keep THEN 2 ELSE 1)

ButtonType ==
  [key : SUBSET Key, up : BOOLEAN, down : BOOLEAN, keep : BOOLEAN, runtime : Nat]

\* The inductive invariant.
KeyInv ==
  /\ pressed \subseteq Key /\ button \in ButtonType /\ lamp \in [Key -> BOOLEAN]
  /\ timer \in [Timers -> Nat]
  /\ Queue /\ Edges /\ Counts

\* Messages are taken off the front: what is left holds no scan.
LEMMA TakeOne ==
  ASSUME Queue, NEW m, Take(m)
  PROVE  Queue' /\ ~Pending' /\ (Pending <=> m = "keyscan")
<1>1. msgs' \in Seq(Message)
  BY DEF Take, Queue
<1>2. Len(msgs') = Len(msgs) - 1 /\ \A i \in 1 .. Len(msgs') : msgs'[i] = msgs[i + 1]
  BY DEF Take, Queue
<1>3. \A i \in DOMAIN msgs' : msgs'[i] # "keyscan"
  BY <1>1, <1>2 DEF Queue
<1>4. ~Pending'
  BY <1>1, <1>3 DEF Pending
<1>5. QED BY <1>1, <1>3, <1>4 DEF Queue, Pending, Take

\* There are finitely many timers, so finitely many run out in a round.
LEMMA RoundCount == ASSUME NEW d PROVE Cardinality(Expired(d)) \in Nat
<1>1. IsFiniteSet(Timers)
  <2>1. IsFiniteSet({"wifi"}) /\ IsFiniteSet({"all"}) /\ IsFiniteSet({"chip"}) /\ IsFiniteSet({"watch"})
    BY FS_Singleton
  <2>2. Timers = {"wifi"} \cup {"all"} \cup {"chip"} \cup {"watch"}
    BY DEF Timers
  <2>3. QED BY <2>1, <2>2, FS_Union
<1>2. IsFiniteSet(Expired(d))
  BY <1>1, FS_Subset DEF Expired
<1>3. QED BY <1>2, FS_CardinalityType

\* A round takes a tick at least.
LEMMA TickType == Ticks \subseteq Nat \ {0}
  BY AppAssumption DEF Ticks

\* A round of the timers puts the scan first and no other scan behind it.
LEMMA RoundFills ==
  ASSUME NEW d \in Ticks, Round(d)
  PROVE  Queue' /\ Pending'
<1> DEFINE n == Cardinality(Expired(d))
<1>1. n \in Nat
  BY RoundCount
<1>2. PICK order \in [1 .. n -> Expired(d)] : msgs' = <<"keyscan">> \o order
  BY DEF Round
<1> HIDE DEF n
<1>3. Expired(d) \subseteq Message \ {"keyscan"}
  BY DEF Expired, Timers, Message
<1>4. order \in Seq(Message) /\ Len(order) = n /\ \A i \in 1 .. n : order[i] # "keyscan"
  BY <1>1, <1>3
<1>5. msgs' \in Seq(Message) /\ Len(msgs') = n + 1 /\ msgs'[1] = "keyscan"
  BY <1>1, <1>2, <1>4 DEF Message
<1>6. \A i \in 2 .. n + 1 : msgs'[i] = order[i - 1]
  BY <1>1, <1>2, <1>4
<1>7. \A i \in DOMAIN msgs' : msgs'[i] = "keyscan" => i = 1
  BY <1>1, <1>4, <1>5, <1>6
<1>8. QED BY <1>1, <1>5, <1>7 DEF Queue, Pending

\* What hal_key_scan makes of the button.
LEMMA ScanType ==
  ASSUME button \in ButtonType, pressed \subseteq Key
  PROVE  Scan \in ButtonType
<1>1. CASE pressed # {} /\ ~button.keep
  BY <1>1 DEF ButtonType, Scan
<1>2. CASE pressed # {} /\ button.keep
  <2> DEFINE r == IF button.runtime <= HoldAll THEN button.runtime + 1 ELSE button.runtime
  <2>1. r \in Nat
    BY DEF ButtonType
  <2>2. Scan = [button EXCEPT !.runtime = r]
    BY <1>2 DEF Scan
  <2>3. QED BY <2>1, <2>2, Zenon DEF ButtonType
<1>3. CASE pressed = {}
  BY <1>3 DEF ButtonType, Scan
<1>4. QED BY <1>1, <1>2, <1>3, Zenon DEF ButtonType

\* ... and of the four fields that tell what hal_get_key returns.
LEMMA ScanFacts ==
  ASSUME button \in ButtonType, pressed \subseteq Key, Edges
  PROVE  /\ Scan.keep <=> pressed # {}
         /\ Scan.down <=> pressed # {} /\ ~button.keep
         /\ Scan.up <=> pressed = {} /\ button.keep
         /\ Scan.runtime = IF pressed # {} /\ button.keep
                           THEN IF button.runtime <= HoldAll THEN button.runtime + 1 ELSE button.runtime
                           ELSE IF button.keep \/ pressed # {} THEN 0 ELSE button.runtime
BY DEF ButtonType, Scan, Edges

\* No key is down at power-on.
LEMMA KeyInitInv == ASSUME AtInit PROVE KeyInv
<1>1. Queue /\ ~Pending
  BY DEF AtInit, Queue, Pending
<1>2. button \in ButtonType /\ Edges
  BY DEF AtInit, ButtonType, Edges, Idle
<1>3. Counts
  BY <1>1, AppAssumption DEF AtInit, Counts, Idle
<1>4. pressed \subseteq Key /\ timer \in [Timers -> Nat]
  BY DEF AtInit
<1>5. lamp \in [Key -> BOOLEAN]
  BY Zenon DEF AtInit
<1>6. QED BY <1>5, <1>1, <1>2, <1>3, <1>4 DEF KeyInv

\* One round of the timers: the time goes on, the scan is to come.
LEMMA RoundStep ==
  ASSUME KeyInv, NEW d \in Ticks, Round(d)
  PROVE  KeyInv'
<1>1. Queue' /\ Pending' /\ ~Pending
  BY RoundFills DEF Round, Pending
<1>2. pressed' \subseteq Key /\ button' \in ButtonType /\ Edges'
  BY DEF KeyInv, Round, Edges
<1>2a. lamp' \in [Key -> BOOLEAN]
  BY Zenon DEF KeyInv, Round
<1>3. timer' \in [Timers -> Nat]
  BY TickType, AppAssumption DEF KeyInv, Round
<1>4. Counts'
  <2>0. d \in Nat /\ d >= 1
    BY TickType
  <2>1. held' \in Nat /\ (held' = held + d \/ held' > HoldAll) /\ held' <= held + d
    BY <2>0, AppAssumption DEF KeyInv, Counts, Round, UpTo
  <2>2. stalls' \in Nat /\ stalls' = stalls + d - 1
    BY <2>0 DEF KeyInv, Counts, Round
  <2>3. button' = button
    BY DEF Round
  <2>4. CASE button.keep
    <3>1. /\ button.runtime \in 0 .. HoldAll + 1 /\ held \in Nat /\ stalls \in Nat
          /\ button.runtime <= held
          /\ held <= HoldAll => held <= button.runtime + stalls + 1
      BY <1>1, <2>4 DEF KeyInv, Counts
    <3>2. button.runtime + 1 <= held' \/ held' > HoldAll
      BY <2>0, <2>1, <3>1, AppAssumption
    <3>3. held' <= HoldAll => held' <= button.runtime + stalls' + 2
      BY <2>0, <2>1, <2>2, <3>1, AppAssumption
    <3>4. QED BY <1>1, <2>1, <2>2, <2>3, <2>4, <3>1, <3>2, <3>3 DEF Counts
  <2>5. CASE ~button.keep
    <3>1. held = 0 /\ button.runtime = 0 /\ stalls \in Nat
      BY <1>1, <2>5 DEF KeyInv, Counts
    <3>2. held' <= d /\ d <= stalls' + 1
      BY <2>0, <2>1, <2>2, <3>1, AppAssumption
    <3>3. QED BY <1>1, <2>0, <2>1, <2>2, <2>3, <2>5, <3>1, <3>2, AppAssumption DEF Counts
  <2>6. QED BY <2>4, <2>5
<1>5. QED BY <1>2a, <1>1, <1>2, <1>3, <1>4 DEF KeyInv

\* The scan of the keys.
LEMMA ScanStep ==
  ASSUME KeyInv, KeyScan
  PROVE  KeyInv'
<1> DEFINE b == Scan
<1>1. Queue' /\ ~Pending' /\ Pending
  BY TakeOne DEF KeyInv, KeyScan
<1>2. b \in ButtonType
  BY ScanType DEF KeyInv
<1>3. /\ b.keep <=> pressed # {}
      /\ b.down <=> pressed # {} /\ ~button.keep
      /\ b.up <=> pressed = {} /\ button.keep
      /\ b.runtime = IF pressed # {} /\ button.keep
                     THEN IF button.runtime <= HoldAll THEN button.runtime + 1 ELSE button.runtime
                     ELSE IF button.keep \/ pressed # {} THEN 0 ELSE button.runtime
  BY ScanFacts DEF KeyInv
<1>4. button' = [b EXCEPT !.up = FALSE, !.down = IF Shift(b) = "down" THEN FALSE ELSE @]
  BY DEF KeyScan
<1> HIDE DEF b
<1>5. Shift(b) = "down" <=> b.down
  BY <1>2, <1>3 DEF Shift, ButtonType
<1>6. /\ button' \in ButtonType
      /\ ~button'.up /\ ~button'.down
      /\ button'.keep <=> b.keep
      /\ button'.runtime = b.runtime
  BY <1>2, <1>4, <1>5 DEF ButtonType
<1>7. Edges'
  BY <1>3, <1>6 DEF KeyScan, Edges
<1>8. Counts'
  <2>1. CASE pressed = {}
    <3>1. held' = 0 /\ stalls' = 0
      BY <2>1 DEF KeyScan
    <3>2. ~button'.keep /\ button'.runtime = 0
      BY <2>1, <1>3, <1>6 DEF KeyInv, Counts
    <3>3. QED BY <1>1, <3>1, <3>2, AppAssumption DEF Counts
  <2>2. CASE pressed # {}
    <3>1. held' = held /\ stalls' = stalls
      BY <2>2 DEF KeyScan
    <3>2. button'.keep
      BY <2>2, <1>3, <1>6
    <3>3. button'.runtime = IF button.keep
                            THEN IF button.runtime <= HoldAll THEN button.runtime + 1 ELSE button.runtime
                            ELSE 0
      BY <2>2, <1>3, <1>6
    <3>4. QED BY <1>1, <3>1, <3>2, <3>3, AppAssumption DEF KeyInv, Counts
  <2>3. QED BY <2>1, <2>2
<1>9. timer' \in [Timers -> Nat] /\ pressed' \subseteq Key
  BY AppAssumption DEF KeyInv, KeyScan, ArmAll
<1>10. lamp' \in [Key -> BOOLEAN]
  <2>1. \A k \in Key : (~lamp[k]) \in BOOLEAN /\ lamp[k] \in BOOLEAN
    <3>1. lamp \in [Key -> BOOLEAN]
      BY DEF KeyInv
    <3>2. QED BY <3>1
  <2>2. PICK c \in [Key -> BOOLEAN] : lamp' = [k \in Key |-> IF c[k] THEN ~lamp[k] ELSE lamp[k]]
    <3> DEFINE c == [k \in Key |-> Shift(Scan) = "down" /\ Scan.key = {k}]
    <3>1. c \in [Key -> BOOLEAN]
      BY Zenon
    <3>2. lamp' = [k \in Key |-> IF c[k] THEN ~lamp[k] ELSE lamp[k]]
      BY DEF KeyScan
    <3>3. QED BY <3>1, <3>2
  <2>3. QED BY <2>1, <2>2, Zenon
<1>11. QED BY <1>10, <1>1, <1>6, <1>7, <1>8, <1>9 DEF KeyInv

\* The steps that leave the button and the times alone.
LEMMA OtherStep ==
  ASSUME KeyInv,
         \/ \E K \in SUBSET Key : Press(K)
         \/ \E on \in BOOLEAN : Login(on)
         \/ ResetWifi \/ ResetAll \/ ResetChip
         \/ UNCHANGED atVars
  PROVE  KeyInv'
<1>1. UNCHANGED <<button, held, stalls, scanned>> /\ pressed' \subseteq Key
  BY DEF KeyInv, Press, Login, ResetWifi, ResetAll, ResetChip, atVars
<1>2. timer' \in [Timers -> Nat]
  BY AppAssumption DEF KeyInv, Press, Login, ResetWifi, ResetAll, ResetChip, atVars
<1>3. Queue' /\ (Pending' <=> Pending)
  <2>1. ASSUME NEW m \in {"wifi", "all", "watch"}, Take(m) PROVE Queue' /\ (Pending' <=> Pending)
    BY <2>1, TakeOne DEF KeyInv
  <2>2. CASE UNCHANGED msgs
    BY <2>2 DEF KeyInv, Queue, Pending
  <2>3. QED BY <2>1, <2>2 DEF Press, Login, ResetWifi, ResetAll, ResetChip, atVars
<1>4. Edges' /\ Counts'
  BY <1>1, <1>3 DEF KeyInv, Edges, Counts
<1>5. lamp' \in [Key -> BOOLEAN]
  BY Zenon DEF KeyInv, Press, Login, ResetWifi, ResetAll, ResetChip, atVars
<1>6. QED BY <1>5, <1>1, <1>2, <1>3, <1>4 DEF KeyInv

\* The chip starts again, with the keys as they are.
LEMMA RestartStep ==
  ASSUME KeyInv, Restart
  PROVE  KeyInv'
<1>1. Queue' /\ ~Pending'
  BY DEF Restart, Queue, Pending
<1>2. button' \in ButtonType /\ Edges'
  BY DEF Restart, ButtonType, Edges, Idle
<1>3. Counts'
  BY <1>1, AppAssumption DEF Restart, Counts, Idle
<1>4. pressed' \subseteq Key /\ timer' \in [Timers -> Nat]
  BY DEF KeyInv, Restart
<1>5. lamp' \in [Key -> BOOLEAN]
  BY Zenon DEF Restart
<1>6. QED BY <1>5, <1>1, <1>2, <1>3, <1>4 DEF KeyInv

\* The inductive invariant holds in every reachable state.
THEOREM KeyInvariant == AtSpec => []KeyInv
<1>1. AtInit => KeyInv
  BY KeyInitInv
<1>2. KeyInv /\ [AtNext]_atVars => KeyInv'
  BY RoundStep, ScanStep, OtherStep, RestartStep DEF AtNext, Handle
<1>3. QED BY <1>1, <1>2, PTL DEF AtSpec

\* The rest of the type invariant: the bounds of the timers, the counts and
\* the flags.
TimerBounds ==
  /\ timer["wifi"] <= WifiDelay /\ timer["all"] <= AllDelay
  /\ timer["chip"] <= ChipDelay /\ timer["watch"] <= Watch

Bounds ==
  /\ flag \in 0 .. 2
  /\ stalls \in 0 .. Stalls /\ reports \in 0 .. Reports
  /\ held \in 0 .. HoldAll + Stalls + 1 /\ away \in 0 .. Watch

Flags ==
  /\ online \in BOOLEAN /\ on_line \in BOOLEAN /\ wifi \in BOOLEAN /\ store \in BOOLEAN
  /\ scanned \in BOOLEAN

TypeParts == TimerBounds /\ Bounds /\ Flags

\* Nothing sets a timer to more than its delay.
LEMMA TimerBoundsStep ==
  ASSUME KeyInv, TimerBounds, AtNext
  PROVE  TimerBounds'
<1> USE AppAssumption DEF KeyInv, TimerBounds, Timers
<1>1. CASE (\E K \in SUBSET Key : Press(K)) \/ Restart
  BY <1>1 DEF Press, Restart
<1>2. ASSUME NEW d \in Ticks, Round(d) PROVE TimerBounds'
  <2>0. d \in Nat /\ d >= 1
    BY TickType
  <2>1. \A t \in Timers : timer'[t] = IF timer[t] > d THEN timer[t] - d
                                    ELSE IF t = "watch" /\ timer[t] > 0 THEN Watch ELSE 0
    BY <1>2 DEF Round
  <2>2. \A t \in Timers : timer[t] \in Nat
    OBVIOUS
  <2>3. \A t \in Timers : timer'[t] <= timer[t] \/ (t = "watch" /\ timer'[t] = Watch) \/ timer'[t] = 0
    BY <2>0, <2>1, <2>2
  <2>4. \A t \in Timers : timer'[t] \in Nat
    BY <2>0, <2>1, <2>2
  <2>5. QED BY <2>2, <2>3, <2>4
<1>3. ASSUME NEW on \in BOOLEAN, Login(on) PROVE TimerBounds'
  BY <1>3 DEF Login
<1>4. CASE KeyScan
  BY <1>4 DEF KeyScan, ArmAll
<1>5. CASE ResetWifi \/ ResetAll \/ ResetChip
  BY <1>5 DEF ResetWifi, ResetAll, ResetChip
<1>6. QED BY <1>1, <1>2, <1>3, <1>4, <1>5 DEF AtNext, Handle

\* The counters stay in their bounds.
LEMMA BoundsStep ==
  ASSUME KeyInv, Bounds, AtNext
  PROVE  Bounds'
<1> USE AppAssumption DEF KeyInv, Bounds
<1>1. CASE (\E K \in SUBSET Key : Press(K)) \/ Restart
  BY <1>1 DEF Press, Restart
<1>2. ASSUME NEW d \in Ticks, Round(d) PROVE Bounds'
  BY <1>2, TickType DEF Round, UpTo
<1>3. ASSUME NEW on \in BOOLEAN, Login(on) PROVE Bounds'
  BY <1>3 DEF Login
<1>4. CASE KeyScan
  BY <1>4 DEF KeyScan
<1>5. CASE ResetWifi \/ ResetAll \/ ResetChip
  BY <1>5 DEF ResetWifi, ResetAll, ResetChip
<1>6. QED BY <1>1, <1>2, <1>3, <1>4, <1>5 DEF AtNext, Handle

\* The flags stay flags.
LEMMA FlagsStep ==
  ASSUME Flags, AtNext
  PROVE  Flags'
<1> USE DEF Flags
<1>1. CASE \E K \in SUBSET Key : Press(K)
  BY <1>1, Zenon DEF Press
<1>2. CASE \E d \in Ticks : Round(d)
  BY <1>2, Zenon DEF Round
<1>3. CASE \E on \in BOOLEAN : Login(on)
  <2>1. \A p, q \in BOOLEAN : (p \/ q) \in BOOLEAN
    OBVIOUS
  <2>2. QED BY <1>3, <2>1, Zenon DEF Login
<1>4. CASE KeyScan
  BY <1>4, Zenon DEF KeyScan
<1>5. CASE ResetWifi \/ ResetAll \/ ResetChip \/ Restart
  BY <1>5, Zenon DEF ResetWifi, ResetAll, ResetChip, Restart
<1>6. QED BY <1>1, <1>2, <1>3, <1>4, <1>5 DEF AtNext, Handle

\* These parts hold in every reachable state.
LEMMA TypePartsAlways == AtSpec => []TypeParts
<1>1. AtInit => TypeParts
  <2> SUFFICES ASSUME AtInit PROVE TypeParts
    OBVIOUS
  <2>1. TimerBounds /\ Bounds
    BY AppAssumption DEF AtInit, TimerBounds, Timers, Bounds
  <2>2. Flags
    BY Zenon DEF AtInit, Flags
  <2>3. QED BY <2>1, <2>2 DEF TypeParts
<1>2. KeyInv /\ TypeParts /\ [AtNext]_atVars => TypeParts'
  <2> SUFFICES ASSUME KeyInv, TypeParts, [AtNext]_atVars PROVE TypeParts'
    OBVIOUS
  <2>1. CASE AtNext
    BY <2>1, TimerBoundsStep, BoundsStep, FlagsStep DEF TypeParts
  <2>2. CASE UNCHANGED atVars
    BY <2>2, Zenon DEF TypeParts, TimerBounds, Bounds, Flags, atVars
  <2>3. QED BY <2>1, <2>2
<1>3. QED BY <1>1, <1>2, KeyInvariant, PTL DEF AtSpec

\* Every field of the keys, the lamps, the timers and the queue keeps its type.
THEOREM AppTypeCorrect == AtSpec => []AtTypeOK
<1>1. KeyInv /\ TypeParts => AtTypeOK
  <2> SUFFICES ASSUME KeyInv, TypeParts PROVE AtTypeOK
    OBVIOUS
  <2>1. button \in [key : SUBSET Key, up : BOOLEAN, down : BOOLEAN, keep : BOOLEAN,
                    runtime : 0 .. HoldAll + 1]
    BY DEF KeyInv, ButtonType, Counts
  <2>2. QED BY <2>1, Zenon DEF KeyInv, TypeParts, TimerBounds, Bounds, Flags, Queue, Message, AtTypeOK
<1>2. QED BY <1>1, TypePartsAlways, KeyInvariant, PTL

\* The scans lag behind the time by the late rounds only (hal_key.c:46).
THEOREM ScansKeepUp == AtSpec => []ScansLag
<1>1. KeyInv => ScansLag
  BY AppAssumption DEF KeyInv, Counts, Pending, ScansLag
<1>2. QED BY <1>1, KeyInvariant, PTL

\* A press of a key switches a lamp once (hal_key.c:36, app_task.c:128-151).
THEOREM LampSwitchedOnce == AtSpec => OneTogglePerPress
<1>1. KeyInv /\ [AtNext]_atVars => [KeyScan /\ lamp' # lamp => ~scanned]_atVars
  <2> SUFFICES ASSUME KeyInv, KeyScan, lamp' # lamp PROVE ~scanned
    OBVIOUS
  <2>1. CASE Shift(Scan) # "down"
    <3>1. lamp' = [k \in Key |-> lamp[k]]
      BY <2>1 DEF KeyScan
    <3>2. lamp' = lamp
      BY <3>1, Zenon DEF KeyInv
    <3>3. QED BY <3>2
  <2>2. CASE Shift(Scan) = "down"
    <3>1. Scan.down
      BY <2>2, ScanType DEF Shift, ButtonType, KeyInv
    <3>2. ~button.keep
      BY <3>1, ScanFacts DEF KeyInv
    <3>3. QED BY <3>2 DEF KeyInv, Edges
  <2>3. QED BY <2>1, <2>2
<1>2. QED BY <1>1, KeyInvariant, PTL DEF AtSpec, OneTogglePerPress

\* The full reset is armed only for a key that was down longer than
\* HoldAll (app_task.c:157-166).
THEOREM WipeOnlyAfterLongHold == AtSpec => WipeNeedsLongHold
<1>1. KeyInv /\ [AtNext]_atVars => [timer'["all"] > timer["all"] => held > HoldAll]_atVars
  <2> SUFFICES ASSUME KeyInv, AtNext, timer'["all"] > timer["all"] PROVE held > HoldAll
    OBVIOUS
  <2>1. KeyScan
    BY TickType, AppAssumption DEF KeyInv, AtNext, Handle, Press, Round, Login, ResetWifi, ResetAll,
       ResetChip, Restart, Timers
  <2>2. Pending
    BY <2>1, TakeOne DEF KeyInv, KeyScan
  <2>3. Shift(Scan) = "keep" /\ Scan.runtime > HoldAll
    BY <2>1, AppAssumption DEF KeyInv, KeyScan, Timers
  <2>4. Scan.keep /\ ~Scan.down
    BY <2>3, ScanType DEF Shift, ButtonType, KeyInv
  <2>5. button.keep /\ (Scan.runtime = button.runtime + 1 \/ Scan.runtime = button.runtime)
    BY <2>4, ScanFacts DEF KeyInv
  <2>6. QED BY <2>2, <2>3, <2>5, AppAssumption DEF KeyInv, Counts
<1>2. QED BY <1>1, KeyInvariant, PTL DEF AtSpec, WipeNeedsLongHold

---------------------------------------------------------------------------
\* The two resets and the watchdog.

\* How far the WiFi reset of this hold is away: scans and late rounds since it
\* was armed make up for the ticks its timer has lost.
ThisHold ==
  /\ button.keep /\ flag = 1
  /\ button.runtime + stalls + timer["wifi"] + (IF Pending THEN 1 ELSE 0)
       > HoldWifi + WifiDelay

\* ... and that of an earlier hold: the key pressed since is younger.
EarlierHold == held + timer["wifi"] < WifiDelay

\* A WiFi reset that is armed belongs to this hold or to an earlier one; the
\* message of one that fired finds no key held for the full reset, or rounds
\* that were late by the margin.
WifiInv ==
  /\ Pending => timer["wifi"] < WifiDelay
  /\ timer["wifi"] > 0 => ThisHold \/ EarlierHold
  /\ button.keep /\ flag = 1 => button.runtime <= HoldAll
  /\ (\E i \in DOMAIN msgs : msgs[i] = "wifi") => held <= HoldAll \/ stalls >= Margin

\* The watchdog runs no faster than the time since the gateway was online.
WatchInv == timer["watch"] > 0 => away + timer["watch"] >= Watch

WaitingIn(queue, m) == \E i \in DOMAIN queue : queue[i] = m

\* The messages behind the scan are those of timers that ran out.
LEMMA RoundMessages ==
  ASSUME NEW d \in Ticks, Round(d), NEW m, m # "keyscan", WaitingIn(msgs', m)
  PROVE  m \in Expired(d)
<1> DEFINE n == Cardinality(Expired(d))
<1>1. n \in Nat
  BY RoundCount
<1>2. PICK order \in [1 .. n -> Expired(d)] : msgs' = <<"keyscan">> \o order
  BY DEF Round
<1> HIDE DEF n
<1>3. order \in Seq(Expired(d)) /\ Len(order) = n
  BY <1>1, <1>2
<1>4. Expired(d) \subseteq Message
  BY DEF Expired, Timers, Message
<1>5. msgs' \in Seq(Message) /\ Len(msgs') = n + 1 /\ msgs'[1] = "keyscan"
  BY <1>1, <1>2, <1>3, <1>4 DEF Message
<1>6. \A i \in 2 .. n + 1 : msgs'[i] = order[i - 1]
  BY <1>1, <1>2, <1>3, <1>4
<1>7. PICK i \in 1 .. n + 1 : msgs'[i] = m
  BY <1>1, <1>5 DEF WaitingIn
<1>8. i \in 2 .. n + 1
  BY <1>1, <1>5, <1>7
<1>9. i - 1 \in 1 .. n
  BY <1>1, <1>8
<1> QED BY <1>2, <1>6, <1>7, <1>8, <1>9

\* Taking a message adds none.
LEMMA TakeMessages ==
  ASSUME Queue, NEW m, Take(m), NEW k, WaitingIn(msgs', k)
  PROVE  WaitingIn(msgs, k)
<1>1. msgs \in Seq(Message) /\ msgs # <<>> /\ msgs' = Tail(msgs)
  BY DEF Queue, Take
<1>2. /\ msgs' \in Seq(Message) /\ Len(msgs') = Len(msgs) - 1 /\ Len(msgs) \in Nat
      /\ \A i \in 1 .. Len(msgs') : msgs'[i] = msgs[i + 1]
  BY <1>1
<1>3. PICK i \in 1 .. Len(msgs') : msgs'[i] = k
  BY <1>2 DEF WaitingIn
<1>4. i + 1 \in DOMAIN msgs
  BY <1>1, <1>2, <1>3
<1> QED BY <1>2, <1>3, <1>4 DEF WaitingIn

\* The keys in a scan that finds one held: the count, and what it arms.
LEMMA HeldScan ==
  ASSUME KeyInv, KeyScan, button'.keep
  PROVE  /\ pressed # {} /\ held' = held /\ stalls' = stalls
         /\ ~button.keep => flag' = 0 /\ timer' = timer /\ button'.runtime = 0
         /\ button.keep =>
              /\ button'.runtime = IF button.runtime <= HoldAll THEN button.runtime + 1
                                                               ELSE button.runtime
              /\ \/ button'.runtime > HoldAll /\ flag # 2 /\ flag' = 2 /\ timer' = ArmAll(timer)
                 \/ /\ button'.runtime > HoldWifi /\ button'.runtime <= HoldAll /\ flag # 1
                    /\ flag' = 1 /\ timer' = [timer EXCEPT !["wifi"] = WifiDelay]
                 \/ /\ ~(button'.runtime > HoldAll /\ flag # 2)
                    /\ ~(button'.runtime > HoldWifi /\ button'.runtime <= HoldAll /\ flag # 1)
                    /\ flag' = flag /\ timer' = timer
<1> DEFINE b == Scan
<1>1. b \in ButtonType
  BY ScanType DEF KeyInv
<1>2. /\ b.keep <=> pressed # {}
      /\ b.down <=> pressed # {} /\ ~button.keep
      /\ b.up <=> pressed = {} /\ button.keep
      /\ b.runtime = IF pressed # {} /\ button.keep
                     THEN IF button.runtime <= HoldAll THEN button.runtime + 1 ELSE button.runtime
                     ELSE IF button.keep \/ pressed # {} THEN 0 ELSE button.runtime
  BY ScanFacts DEF KeyInv
<1>3. button' = [b EXCEPT !.up = FALSE, !.down = IF Shift(b) = "down" THEN FALSE ELSE @]
  BY DEF KeyScan
<1>4. /\ flag' = IF Shift(b) = "down" THEN 0
                 ELSE IF Shift(b) = "keep" /\ b.runtime > HoldAll /\ flag # 2 THEN 2
                 ELSE IF Shift(b) = "keep" /\ b.runtime > HoldWifi /\ b.runtime <= HoldAll /\ flag # 1
                 THEN 1 ELSE flag
      /\ timer' = IF Shift(b) = "keep" /\ b.runtime > HoldAll /\ flag # 2 THEN ArmAll(timer)
                  ELSE IF Shift(b) = "keep" /\ b.runtime > HoldWifi /\ b.runtime <= HoldAll /\ flag # 1
                  THEN [timer EXCEPT !["wifi"] = WifiDelay] ELSE timer
  BY DEF KeyScan
<1>5. IF pressed = {} THEN held' = 0 /\ stalls' = 0 ELSE held' = held /\ stalls' = stalls
  BY DEF KeyScan
<1> HIDE DEF b
<1>6. b.keep /\ button'.runtime = b.runtime
  BY <1>1, <1>3 DEF ButtonType
<1>7. Shift(b) = IF button.keep THEN "keep" ELSE "down"
  BY <1>1, <1>2, <1>6 DEF Shift, ButtonType
<1>8. CASE ~button.keep
  BY <1>2, <1>4, <1>5, <1>6, <1>7, <1>8
<1>9. CASE button.keep
  BY <1>2, <1>4, <1>5, <1>6, <1>7, <1>9
<1> QED BY <1>8, <1>9

\* ... and in one that finds none.
LEMMA FreeScan ==
  ASSUME KeyInv, KeyScan, ~button'.keep
  PROVE  held' = 0 /\ timer' = timer
<1> DEFINE b == Scan
<1>1. b \in ButtonType
  BY ScanType DEF KeyInv
<1>2. /\ b.keep <=> pressed # {}
      /\ b.down <=> pressed # {} /\ ~button.keep
      /\ b.up <=> pressed = {} /\ button.keep
  BY ScanFacts DEF KeyInv
<1>3. button' = [b EXCEPT !.up = FALSE, !.down = IF Shift(b) = "down" THEN FALSE ELSE @]
  BY DEF KeyScan
<1>4. timer' = IF Shift(b) = "keep" /\ b.runtime > HoldAll /\ flag # 2 THEN ArmAll(timer)
                  ELSE IF Shift(b) = "keep" /\ b.runtime > HoldWifi /\ b.runtime <= HoldAll /\ flag # 1
                  THEN [timer EXCEPT !["wifi"] = WifiDelay] ELSE timer
  BY DEF KeyScan
<1>5. pressed = {} => held' = 0
  BY DEF KeyScan
<1> HIDE DEF b
<1>6. ~b.keep
  BY <1>1, <1>3 DEF ButtonType
<1>7. Shift(b) # "keep"
  BY <1>1, <1>2, <1>6 DEF Shift, ButtonType
<1> QED BY <1>2, <1>4, <1>5, <1>6, <1>7

\* A scan: it may arm the reset of this hold, take its place with the full
\* one, or find that the hold is over, which makes it an earlier hold's.
LEMMA WifiScanStep == ASSUME KeyInv, TypeParts, WifiInv, KeyScan PROVE WifiInv'
<1>1. Pending /\ ~Pending' /\ (WaitingIn(msgs', "wifi") => WaitingIn(msgs, "wifi"))
  BY TakeOne, TakeMessages DEF KeyInv, KeyScan
<1>2. timer["wifi"] \in Nat /\ timer["wifi"] < WifiDelay /\ timer \in [Timers -> Nat]
  BY <1>1 DEF WifiInv, KeyInv, Timers
<1>3. held \in Nat /\ stalls \in Nat /\ button.runtime \in Nat
  BY DEF KeyInv, Counts
<1>4. WaitingIn(msgs, "wifi") => held <= HoldAll \/ stalls >= Margin
  BY DEF WifiInv, WaitingIn
<1>5. CASE ~button'.keep
  <2>1. held' = 0 /\ timer' = timer
    BY <1>5, FreeScan
  <2> QED BY <1>1, <1>2, <1>5, <2>1, AppAssumption DEF WifiInv, EarlierHold
<1>6. CASE button'.keep
  <2> DEFINE r == button'.runtime
  <2>1. held' = held /\ stalls' = stalls
    BY <1>6, HeldScan
  <2>2. CASE ~button.keep
    <3>1. flag' = 0 /\ timer' = timer
      BY <1>6, <2>2, HeldScan
    <3>2. timer["wifi"] > 0 => EarlierHold
      BY <2>2 DEF WifiInv, ThisHold
    <3> QED BY <1>1, <1>2, <1>4, <2>1, <3>1, <3>2 DEF WifiInv, EarlierHold, WaitingIn
  <2>3. CASE button.keep
    <3>1. r = IF button.runtime <= HoldAll THEN button.runtime + 1 ELSE button.runtime
      BY <1>6, <2>3, HeldScan
    <3>2. CASE r > HoldAll /\ flag # 2 /\ flag' = 2 /\ timer' = ArmAll(timer)
      <4>1. timer'["wifi"] = 0
        BY <1>2, <3>2 DEF ArmAll, Timers
      <4> QED BY <1>1, <1>4, <2>1, <3>2, <4>1 DEF WifiInv, WaitingIn
    <3>3. CASE /\ r > HoldWifi /\ r <= HoldAll /\ flag # 1
               /\ flag' = 1 /\ timer' = [timer EXCEPT !["wifi"] = WifiDelay]
      <4>1. timer'["wifi"] = WifiDelay
        BY <1>2, <3>3 DEF Timers
      <4>2. ThisHold'
        BY <1>1, <1>3, <1>6, <2>1, <3>1, <3>3, <4>1, AppAssumption DEF ThisHold
      <4> QED BY <1>1, <1>4, <2>1, <3>3, <4>2 DEF WifiInv, WaitingIn
    <3>4. CASE /\ ~(r > HoldAll /\ flag # 2) /\ ~(r > HoldWifi /\ r <= HoldAll /\ flag # 1)
               /\ flag' = flag /\ timer' = timer
      <4>1. flag = 1 => r <= HoldAll /\ r = button.runtime + 1
        BY <1>3, <3>1, <3>4, AppAssumption
      <4>2. timer["wifi"] > 0 => ThisHold \/ EarlierHold
        BY DEF WifiInv
      <4>3. ThisHold => ThisHold'
        BY <1>1, <1>2, <1>3, <1>6, <2>1, <3>4, <4>1, AppAssumption DEF ThisHold
      <4>4. EarlierHold => EarlierHold'
        BY <2>1, <3>4 DEF EarlierHold
      <4> QED BY <1>1, <1>4, <2>1, <3>4, <4>1, <4>2, <4>3, <4>4 DEF WifiInv, WaitingIn
    <3> QED BY <1>6, <2>3, <3>2, <3>3, <3>4, HeldScan
  <2> QED BY <2>2, <2>3
<1> QED BY <1>5, <1>6

\* A round: the reset of this hold cannot fire, the count of the scans would
\* be past the full reset but for the late rounds; that of an earlier hold
\* fires in time.
LEMMA WifiRoundStep ==
  ASSUME KeyInv, TypeParts, WifiInv, NEW d \in Ticks, Round(d)
  PROVE  WifiInv'
<1>1. Pending' /\ ~Pending /\ button' = button /\ flag' = flag
  BY RoundFills DEF Round, Pending
<1>2. d \in Nat /\ d >= 1 /\ Margin \in Int
  BY TickType, AppAssumption DEF Margin
<1>3. /\ held \in Nat /\ stalls \in Nat /\ button.runtime \in Nat
      /\ timer["wifi"] \in Nat /\ timer["wifi"] <= WifiDelay
  BY DEF KeyInv, Counts, TypeParts, TimerBounds, Timers
<1>4. /\ stalls' = stalls + d - 1 /\ stalls' <= Stalls
      /\ timer'["wifi"] = IF timer["wifi"] > d THEN timer["wifi"] - d ELSE 0
  BY DEF Round, Timers
<1>5. held' \in Nat /\ held' <= held + d
  BY <1>2, <1>3, AppAssumption DEF Round, UpTo
<1>6. timer'["wifi"] < WifiDelay
  BY <1>2, <1>3, <1>4, AppAssumption
<1>7. ASSUME timer'["wifi"] > 0 PROVE ThisHold' \/ EarlierHold'
  <2>1. timer["wifi"] > d /\ timer'["wifi"] = timer["wifi"] - d
    BY <1>3, <1>4, <1>7
  <2>2. ThisHold \/ EarlierHold
    BY <1>2, <1>3, <2>1 DEF WifiInv
  <2>3. CASE ThisHold
    BY <1>1, <1>2, <1>3, <1>4, <2>1, <2>3, AppAssumption DEF ThisHold
  <2>4. CASE EarlierHold
    BY <1>2, <1>3, <1>5, <2>1, <2>4, AppAssumption DEF EarlierHold
  <2> QED BY <2>2, <2>3, <2>4
<1>8. ASSUME WaitingIn(msgs', "wifi") PROVE held' <= HoldAll \/ stalls' >= Margin
  <2>1. timer["wifi"] >= 1 /\ timer["wifi"] <= d
    BY <1>2, <1>3, <1>8, RoundMessages DEF Expired
  <2>2. ThisHold \/ EarlierHold
    BY <1>3, <2>1 DEF WifiInv
  <2>3. CASE ThisHold
    <3>1. button.runtime <= HoldAll
      BY <2>3 DEF WifiInv, ThisHold
    <3>2. button.runtime + stalls + timer["wifi"] > HoldWifi + WifiDelay
      BY <1>1, <1>3, <2>3 DEF ThisHold
    <3> QED BY <1>2, <1>3, <1>4, <2>1, <3>1, <3>2, AppAssumption DEF Margin
  <2>4. CASE EarlierHold
    <3>1. held' < WifiDelay + d - 1
      BY <1>2, <1>3, <1>5, <2>1, <2>4, AppAssumption DEF EarlierHold
    <3>2. d <= Margin => held' <= HoldAll
      BY <1>2, <1>5, <3>1, AppAssumption, EarlierAssumption
    <3>3. d > Margin => stalls' >= Margin
      BY <1>2, <1>3, <1>4
    <3> QED BY <1>2, <3>2, <3>3
  <2> QED BY <2>2, <2>3, <2>4
<1> QED BY <1>1, <1>6, <1>7, <1>8 DEF WifiInv, WaitingIn

\* The other steps.
LEMMA WifiOtherStep ==
  ASSUME KeyInv, TypeParts, WifiInv,
         \/ \E K \in SUBSET Key : Press(K)
         \/ \E on \in BOOLEAN : Login(on)
         \/ ResetWifi \/ ResetAll \/ ResetChip
         \/ UNCHANGED atVars
  PROVE  WifiInv'
<1>1. UNCHANGED <<button, held, stalls, flag>>
  BY DEF Press, Login, ResetWifi, ResetAll, ResetChip, atVars
<1>2. timer'["wifi"] = timer["wifi"]
  BY DEF KeyInv, Press, Login, ResetWifi, ResetAll, ResetChip, atVars, Timers
<1>3. (Pending' <=> Pending) /\ (WaitingIn(msgs', "wifi") => WaitingIn(msgs, "wifi"))
  <2>1. ASSUME NEW m \in {"wifi", "all", "watch"}, Take(m)
        PROVE (Pending' <=> Pending) /\ (WaitingIn(msgs', "wifi") => WaitingIn(msgs, "wifi"))
    BY <2>1, TakeOne, TakeMessages DEF KeyInv
  <2>2. CASE UNCHANGED msgs
    BY <2>2 DEF Pending
  <2> QED BY <2>1, <2>2 DEF Press, Login, ResetWifi, ResetAll, ResetChip, atVars
<1> QED BY <1>1, <1>2, <1>3 DEF WifiInv, WaitingIn, ThisHold, EarlierHold

\* Taken together, at the start and after a restart as well.
LEMMA WifiInvStep == KeyInv /\ TypeParts /\ WifiInv /\ [AtNext]_atVars => WifiInv'
<1> SUFFICES ASSUME KeyInv, TypeParts, WifiInv, [AtNext]_atVars PROVE WifiInv'
  OBVIOUS
<1>1. CASE Restart
  BY <1>1, AppAssumption DEF Restart, WifiInv, Timers, Idle, Pending
<1> QED BY <1>1, WifiScanStep, WifiRoundStep, WifiOtherStep DEF AtNext, Handle

\* Only a hold shorter than the full reset's gets the reset of the WiFi
\* settings, unless the rounds of the timers were late by the whole margin
\* between the two resets in that hold (app_task.c:157-173, hal_key.c:46).
THEOREM WifiResetAfterShortHold == AtSpec => WifiResetIsShort
<1>1. AtInit => WifiInv
  BY AppAssumption DEF AtInit, WifiInv, Timers, Idle, Pending
<1>2. KeyInv /\ WifiInv /\ [AtNext]_atVars => [ResetWifi => held <= HoldAll \/ stalls >= Margin]_atVars
  <2> SUFFICES ASSUME KeyInv, WifiInv, ResetWifi PROVE held <= HoldAll \/ stalls >= Margin
    OBVIOUS
  <2>1. msgs \in Seq(Message) /\ msgs # <<>> /\ Head(msgs) = "wifi"
    BY DEF KeyInv, Queue, ResetWifi, Take
  <2>2. 1 \in DOMAIN msgs /\ msgs[1] = "wifi"
    BY <2>1
  <2> QED BY <2>2 DEF WifiInv
<1> QED
  BY <1>1, <1>2, WifiInvStep, KeyInvariant, TypePartsAlways, PTL DEF AtSpec, WifiResetIsShort

\* The watchdog: it counts no faster than the time off line.
LEMMA WatchInvStep ==
  ASSUME KeyInv, TypeParts, WatchInv, AtNext
  PROVE  WatchInv'
<1> USE AppAssumption DEF WatchInv
<1>1. timer \in [Timers -> Nat] /\ timer["watch"] \in Nat /\ timer["watch"] <= Watch /\ away \in 0 .. Watch
  BY DEF KeyInv, Timers, TypeParts, TimerBounds, Bounds
<1>2. CASE (\E K \in SUBSET Key : Press(K)) \/ Restart
  BY <1>2 DEF Press, Restart, Timers
<1>3. ASSUME NEW d \in Ticks, Round(d) PROVE WatchInv'
  <2>1. d \in Nat /\ d >= 1
    BY TickType
  <2>2. /\ timer'["watch"] = IF timer["watch"] > d THEN timer["watch"] - d
                              ELSE IF timer["watch"] > 0 THEN Watch ELSE 0
        /\ away' = UpTo(Watch, away + d)
    BY <1>3 DEF Round, Timers
  <2> QED BY <1>1, <2>1, <2>2 DEF UpTo
<1>4. ASSUME NEW on \in BOOLEAN, Login(on) PROVE WatchInv'
  <2>1. CASE on
    BY <1>1, <1>4, <2>1 DEF Login, Timers
  <2>2. CASE ~on /\ on_line
    <3>1. timer'["watch"] = Watch /\ away' = away
      BY <1>1, <1>4, <2>2 DEF Login, Timers
    <3> QED BY <1>1, <3>1
  <2>3. CASE ~on /\ ~on_line
    <3>1. timer'["watch"] = timer["watch"] /\ away' = away
      BY <1>1, <1>4, <2>3 DEF Login, Timers
    <3> QED BY <3>1
  <2> QED BY <2>1, <2>2, <2>3
<1>5. CASE KeyScan
  <2>1. timer'["watch"] = timer["watch"] /\ away' = away
    BY <1>1, <1>5 DEF KeyScan, ArmAll, Timers
  <2> QED BY <2>1
<1>6. CASE ResetWifi \/ ResetAll \/ ResetChip
  BY <1>1, <1>6 DEF ResetWifi, ResetAll, ResetChip, Timers
<1> QED BY <1>2, <1>3, <1>4, <1>5, <1>6 DEF AtNext, Handle

\* The gateway restarts itself only after Watch ticks without the cloud,
\* whatever it reported in between (app_task.c:204-212).
THEOREM WatchdogNeverEarly == AtSpec => WatchdogWaits
<1>1. AtInit => WatchInv
  BY AppAssumption DEF AtInit, WatchInv, Timers
<1>2. KeyInv /\ TypeParts /\ WatchInv /\ [AtNext]_atVars => WatchInv'
  BY WatchInvStep DEF WatchInv, atVars
<1>3. KeyInv /\ TypeParts /\ WatchInv /\ [AtNext]_atVars
        => [(\E i \in DOMAIN msgs' : msgs'[i] = "watch") /\ msgs = <<>> => away' >= Watch]_atVars
  <2> SUFFICES ASSUME KeyInv, TypeParts, WatchInv, AtNext, msgs = <<>>,
                      WaitingIn(msgs', "watch")
               PROVE  away' >= Watch
    BY DEF WaitingIn
  <2>1. ~Handle
    BY DEF Handle, KeyScan, ResetWifi, ResetAll, ResetChip, Take
  <2>2. ASSUME msgs' = msgs \/ msgs' = <<>> PROVE FALSE
    BY <2>2 DEF WaitingIn
  <2>3. PICK d \in Ticks : Round(d)
    BY <2>1, <2>2 DEF AtNext, Press, Login, Restart
  <2>4. timer["watch"] >= 1 /\ timer["watch"] <= d
    BY <2>3, RoundMessages DEF Expired
  <2>5. timer["watch"] \in Nat /\ away \in Nat /\ away' = UpTo(Watch, away + d)
    BY <2>3 DEF KeyInv, TypeParts, Bounds, Timers, Round
  <2>6. d \in Nat
    BY TickType
  <2> QED BY <2>4, <2>5, <2>6, AppAssumption DEF WatchInv, UpTo
<1> QED
  BY <1>1, <1>2, <1>3, KeyInvariant, TypePartsAlways, PTL DEF AtSpec, WatchdogWaits

---------------------------------------------------------------------------
(* 2. The store of the serial number *)

USE DEF Copies

\* The inductive invariant holds in the initial state.
LEMMA SnInitInv == SnInit => SnInv
<1> SUFFICES ASSUME SnInit PROVE SnInv
  OBVIOUS
<1>1. SnTypeOK
  <2>1. copy \in [Copies -> Sn \cup {NoSn}] /\ psn \in Sn \cup {NoSn}
    BY DEF SnInit
  <2>2. next \in 0 .. 3 /\ harm \in 0 .. MaxHarm
    BY SnAssumption DEF SnInit
  <2>3. dirty \in BOOLEAN /\ opens \in BOOLEAN
    BY DEF SnInit
  <2>4. skipped \subseteq Copies
    BY DEF SnInit
  <2> QED BY <2>1, <2>2, <2>3, <2>4 DEF SnTypeOK
<1>2. CopiesAgree
  BY DEF SnInit, CopiesAgree
<1> QED BY <1>1, <1>2 DEF SnInit, SnInv

\* Every step keeps the inductive invariant; WriteReturns is the step that
\* makes the copies agree again after a harm.
LEMMA SnStepInv == SnInv /\ [SnNext]_snVars => SnInv'
<1> SUFFICES ASSUME SnInv, [SnNext]_snVars PROVE SnInv'
  OBVIOUS
<1> USE SnAssumption DEF SnInv, SnTypeOK, CopiesAgree
<1>1. ASSUME NEW v \in Sn, WriteSn(v) PROVE SnInv'
  BY <1>1 DEF WriteSn
<1>2. CASE SetBlob
  BY <1>2 DEF SetBlob
<1>3. CASE Commit
  <2>1. SnTypeOK'
    <3>1. next \in Copies /\ next' \in 0 .. 3
      BY <1>3 DEF Commit
    <3>2. copy' \in [Copies -> Sn \cup {NoSn}]
      BY <1>3, <3>1 DEF Commit
    <3> QED BY <1>3, <3>1, <3>2 DEF Commit
  <2>2. \A i \in Copies \ skipped' : i < next' => copy'[i] = psn'
    BY <1>3 DEF Commit
  <2>3. \A i, j \in Copies : harm' = 0 /\ i >= next' /\ j >= next' => copy'[i] = copy'[j]
    BY <1>3 DEF Commit
  <2> QED BY <1>3, <2>1, <2>2, <2>3 DEF Commit
<1>4. CASE WriteReturns
  BY <1>4 DEF WriteReturns
<1>5. CASE Interrupted
  <2>1. psn' = NoSn /\ next' = 0 /\ dirty' = FALSE /\ skipped' = {} /\ opens' = opens
    BY <1>5 DEF Interrupted
  <2>2. harm' \in 1 .. MaxHarm
    BY <1>5 DEF Interrupted
  <2>3. copy' \in [Copies -> Sn \cup {NoSn}]
    BY <1>5 DEF Interrupted
  <2>4. SnTypeOK'
    <3>1. next' \in 0 .. 3 /\ harm' \in 0 .. MaxHarm /\ psn' \in Sn \cup {NoSn}
      BY <2>1, <2>2
    <3>2. dirty' \in BOOLEAN /\ opens' \in BOOLEAN
      BY <2>1
    <3>3. skipped' \subseteq Copies
      BY <2>1
    <3> QED BY <3>1, <3>2, <3>3, <2>3
  <2>5. CopiesAgree'
    BY <2>1, <2>2
  <2> QED BY <2>1, <2>4, <2>5
<1>6. ASSUME NEW i \in Copies, Damaged(i) PROVE SnInv'
  <2>1. psn = NoSn /\ next = 0 /\ UNCHANGED <<opens, psn, next, dirty, skipped>>
    BY <1>6 DEF Damaged
  <2>2. copy' \in [Copies -> Sn \cup {NoSn}] /\ harm' \in 1 .. MaxHarm
    BY <1>6 DEF Damaged
  <2>3. SnTypeOK'
    BY <2>1, <2>2
  <2> QED BY <2>1, <2>2, <2>3
<1>7. CASE OpenFails
  <2>1. next' \in 0 .. 3 /\ harm' \in 1 .. MaxHarm /\ skipped' \subseteq Copies
    BY <1>7 DEF OpenFails
  <2>2. UNCHANGED <<opens, copy, psn, dirty>> /\ ~dirty /\ psn # NoSn /\ ~opens
    BY <1>7 DEF OpenFails
  <2>3. SnTypeOK'
    BY <2>1, <2>2
  <2>4. \A i \in Copies \ skipped' : i < next' => copy'[i] = psn'
    BY <1>7 DEF OpenFails
  <2> QED BY <2>1, <2>2, <2>3, <2>4
<1>8. CASE UNCHANGED snVars
  BY <1>8 DEF snVars
<1> QED BY <1>1, <1>2, <1>3, <1>4, <1>5, <1>6, <1>7, <1>8 DEF SnNext

\* Whatever is harmed and however often, the copies in front of the one being
\* written hold the new number, and copies that were not harmed since the
\* last whole write agree.
THEOREM SerialNumberInvariant == SnSpec => []SnInv
  BY SnInitInv, SnStepInv, PTL DEF SnSpec

\* A step that stores one copy moves what a read returns only when no sound
\* copy stands in front of it: that is where the write takes effect.
LEMMA CommitTakesEffect ==
  ASSUME SnInv, Commit
  PROVE  Register!TakeEffect \/ UNCHANGED <<opens, pluto_read_sn, psn>>
<1>1. psn # NoSn /\ UNCHANGED <<opens, psn>>
  BY DEF Commit, SnInv
<1>2. next \in Copies /\ \A i \in Copies : copy'[i] = IF i = next THEN psn ELSE copy[i]
  BY DEF Commit, SnInv, SnTypeOK
<1>3. pluto_read_sn' = psn \/ UNCHANGED pluto_read_sn
  BY <1>1, <1>2 DEF pluto_read_sn
<1> QED BY <1>1, <1>3 DEF Register!TakeEffect

\* A write that is cut short has taken effect or not: nothing else is read.
LEMMA InterruptedCuts ==
  ASSUME MaxHarm <= 1, SnInv, Interrupted
  PROVE  Register!Cut
<1> USE SnAssumption DEF SnInv, SnTypeOK, CopiesAgree
<1>1. harm = 0 /\ psn # NoSn /\ psn' = NoSn /\ opens' = opens
  BY DEF Interrupted
<1>2. CASE next = 0
  <2>1. copy[0] = copy[1] /\ copy[1] = copy[2]
    BY <1>1, <1>2
  <2>2. copy'[1] = copy[1] /\ copy'[2] = copy[2]
    BY <1>2 DEF Interrupted
  <2>3. copy'[0] \in {copy[0], psn, NoSn}
    BY <1>2 DEF Interrupted
  <2> QED BY <1>1, <2>1, <2>2, <2>3 DEF Register!Cut, pluto_read_sn
<1>3. CASE next # 0
  <2>1. copy[0] = psn /\ copy'[0] = psn
    BY <1>3 DEF Interrupted
  <2> QED BY <1>1, <2>1 DEF Register!Cut, pluto_read_sn
<1> QED BY <1>2, <1>3

\* One damaged copy changes nothing that is read.
LEMMA DamagedCuts ==
  ASSUME MaxHarm <= 1, SnInv, NEW i \in Copies, Damaged(i)
  PROVE  Register!Cut
<1> USE SnAssumption DEF SnInv, SnTypeOK, CopiesAgree
<1>1. harm = 0 /\ psn = NoSn /\ psn' = NoSn /\ next = 0 /\ opens' = opens
  BY DEF Damaged
<1>2. copy[0] = copy[1] /\ copy[1] = copy[2]
  BY <1>1
<1>3. \A j \in Copies : copy'[j] = IF j = i THEN NoSn ELSE copy[j]
  BY DEF Damaged
<1> QED BY <1>1, <1>2, <1>3 DEF Register!Cut, pluto_read_sn

\* Every step of the store is a step of the register or changes nothing of it.
LEMMA SnStepRefines ==
  ASSUME MaxHarm <= 1, SnInv, [SnNext]_snVars
  PROVE  [Register!RegNext]_(Register!regVars)
<1> USE SnAssumption DEF Register!regVars
<1>1. ASSUME NEW v \in Sn, WriteSn(v) PROVE Register!Begin(v)
  BY <1>1 DEF WriteSn, Register!Begin, pluto_read_sn
<1>2. CASE SetBlob
  BY <1>2 DEF SetBlob, pluto_read_sn
<1>3. CASE Commit
  BY <1>3, CommitTakesEffect DEF Register!RegNext
<1>4. CASE WriteReturns
  <2>1. (opens => copy[0] = psn) /\ psn # NoSn /\ UNCHANGED <<opens, copy>>
    BY <1>4 DEF WriteReturns, SnInv, SnTypeOK, CopiesAgree
  <2>2. Register!Done
    BY <1>4, <2>1 DEF WriteReturns, Register!Done, pluto_read_sn
  <2> QED BY <2>2 DEF Register!RegNext
<1>5. CASE Interrupted
  BY <1>5, InterruptedCuts DEF Register!RegNext
<1>6. ASSUME NEW i \in Copies, Damaged(i) PROVE Register!Cut
  BY <1>6, DamagedCuts
<1>7. CASE OpenFails
  BY <1>7 DEF OpenFails, pluto_read_sn
<1>8. CASE UNCHANGED snVars
  BY <1>8 DEF snVars, pluto_read_sn
<1> QED
  BY <1>1, <1>2, <1>3, <1>4, <1>5, <1>6, <1>7, <1>8 DEF SnNext, Register!RegNext

\* With at most one harm between two whole writes the three copies behave as
\* a register: pluto_read_sn gives the last number written, or, when its
\* write was cut short or nvs_open failed, that one or the one before; never
\* none or an older.
THEOREM SerialNumberKept == MaxHarm <= 1 /\ SnSpec => ImplementsRegister
<1> SUFFICES ASSUME MaxHarm <= 1 PROVE SnSpec => ImplementsRegister
  OBVIOUS
<1>1. SnInit => Register!RegInit
  BY DEF SnInit, Register!RegInit, pluto_read_sn
<1>2. SnInv /\ [SnNext]_snVars => [Register!RegNext]_(Register!regVars)
  BY SnStepRefines
<1> QED
  BY <1>1, <1>2, SerialNumberInvariant, PTL
  DEF SnSpec, ImplementsRegister, Register!RegSpec
============================================================================
