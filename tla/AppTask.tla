------------------------------ MODULE AppTask ------------------------------
(***************************************************************************)
(* Keys, lamps and resets of the gateway (app/app_task.c,                  *)
(* hal_driver/hal_key.c, hal_driver/hal_lamp.c): a reload timer scans the  *)
(* keys, a press switches a lamp, holding a key arms the reset of the WiFi *)
(* settings and after a longer time the reset of everything, and a         *)
(* watchdog restarts a gateway that lost the cloud.                        *)
(*                                                                         *)
(* Time goes in ticks.  A timer that expires queues a message, and the     *)
(* thread of the Pluto operating layer takes them in order.  That thread   *)
(* also waits for the serial link (zb_uart_read), so a round of the timers *)
(* may come late: every timer has moved on, but the keys are scanned once. *)
(* hal_key_keeptime counts scans, not time.                                *)
(***************************************************************************)
EXTENDS Naturals, Sequences, FiniteSets

CONSTANTS
  Key,         \* KEY1 .. KEY3, each with its lamp
  HoldWifi,    \* ticks a key is kept until the WiFi reset is armed: 4 s
  HoldAll,     \* ... until the full reset is armed: 8 s
  WifiDelay,   \* from there to the reset of the WiFi settings: 5 s
  AllDelay,    \* from there to the full reset: 100 ms
  ChipDelay,   \* pluto_reset_system(1000)
  Watch,       \* the watchdog: 5 minutes
  Stalls,      \* ticks the rounds of the timers are late by, between two
               \* scans that saw no key
  Reports      \* login states the cloud client reports after it was online

ASSUME AppAssumption ==
  /\ HoldWifi \in Nat /\ HoldAll \in Nat /\ HoldWifi < HoldAll
  /\ WifiDelay \in Nat \ {0} /\ AllDelay \in Nat \ {0} /\ ChipDelay \in Nat \ {0}
  /\ Watch \in Nat \ {0} /\ Stalls \in Nat /\ Reports \in Nat

\* The time from the full reset being armed to the other firing: 1 s, 4 + 5 - 8.
Margin == HoldWifi + WifiDelay - HoldAll

\* The reset of the WiFi settings that an earlier hold armed comes before a key
\* pressed since can have been held for the full one, by more than the margin:
\* 8 s - 5 s.
ASSUME EarlierAssumption == Margin <= HoldAll - WifiDelay

VARIABLES
  pressed,   \* the keys that are down
  button,    \* Button: [key, up, down, keep, runtime]
  flag,      \* the static of app_task
  lamp,      \* lamp_state
  timer,     \* name of a one-shot or reload timer -> ticks left, 0: not set
  msgs,      \* messages for app_task and factory_reset, in order
  online,    \* the gateway is logged in
  on_line,   \* the static of app_login_state_cb
  wifi,      \* the WiFi settings are stored
  store,     \* the Zigbee network and the files are stored
  stalls,    \* history: ticks the rounds were late by since a scan saw no key
  reports,   \* states reported since the gateway was online
  held,      \* history: ticks since a scan saw no key
  away,      \* history: ticks since the gateway was online
  scanned    \* history: the scan before saw a key

atVars == <<pressed, button, flag, lamp, timer, msgs, online, on_line, wifi, store,
            stalls, reports, held, away, scanned>>

Timers == {"wifi", "all", "chip", "watch"}
\* Ticks from one round of the timers to the next, 1 when it is not late.
Ticks == 1 .. Stalls + 1
Idle == [key |-> {}, up |-> FALSE, down |-> FALSE, keep |-> FALSE, runtime |-> 0]
\* The histories need not count on behind what is compared with.
UpTo(top, n) == IF n <= top THEN n ELSE top

AtInit ==
  /\ pressed = {} /\ button = Idle /\ flag = 0
  /\ lamp = [k \in Key |-> FALSE]
  /\ timer = [t \in Timers |-> 0] /\ msgs = <<>>
  /\ online = FALSE /\ on_line = FALSE
  /\ wifi = TRUE /\ store = TRUE
  /\ stalls = 0 /\ reports = 0
  /\ held = 0 /\ away = 0 /\ scanned = FALSE

---------------------------------------------------------------------------
\* Surroundings: the keys, time and the cloud client.

Press(K) ==
  /\ K # pressed
  /\ pressed' = K
  /\ UNCHANGED <<button, flag, lamp, timer, msgs, online, on_line, wifi, store,
                 stalls, reports, held, away, scanned>>

\* The timers that run out in d ticks, but the one that restarts the chip.
Expired(d) == {t \in Timers \ {"chip"} : timer[t] \in 1 .. d}

\* One round of the timers, d ticks after the last.  The scan of the keys
\* stands first in the list, the others in any order behind it.
Round(d) ==
  /\ msgs = <<>>
  /\ timer["chip"] = 0 \/ timer["chip"] > d
  /\ \E order \in [1 .. Cardinality(Expired(d)) -> Expired(d)] :
       /\ \A t \in Expired(d) : \E i \in DOMAIN order : order[i] = t
       /\ msgs' = <<"keyscan">> \o order
  /\ timer' = [t \in Timers |->
                 IF timer[t] > d THEN timer[t] - d
                 ELSE IF t = "watch" /\ timer[t] > 0 THEN Watch ELSE 0]
  /\ stalls' = stalls + d - 1 /\ stalls' <= Stalls
  /\ held' = UpTo(HoldAll + Stalls + 1, held + d) /\ away' = UpTo(Watch, away + d)
  /\ UNCHANGED <<pressed, button, flag, lamp, online, on_line, wifi, store,
                 reports, scanned>>

\* pluto_reset_system has waited: the chip starts again.
Restart ==
  /\ msgs = <<>> /\ timer["chip"] = 1
  /\ button' = Idle /\ flag' = 0 /\ lamp' = [k \in Key |-> FALSE]
  /\ timer' = [t \in Timers |-> 0] /\ msgs' = <<>>
  /\ online' = FALSE /\ on_line' = FALSE
  /\ wifi' = TRUE /\ store' = TRUE        \* the user sets it up again
  /\ stalls' = 0 /\ reports' = 0 /\ held' = 0 /\ away' = 0 /\ scanned' = FALSE
  /\ UNCHANGED pressed

\* Mutant: the watchdog stays on.
LoginKept(on) ==
  /\ online' = on /\ on_line' = (on_line \/ on)
  /\ timer' = [timer EXCEPT !["watch"] = IF ~on /\ on_line THEN Watch ELSE @]
  /\ reports' = IF on THEN 0 ELSE reports + 1
  /\ reports' <= Reports
  /\ away' = IF on THEN 0 ELSE away
  /\ UNCHANGED <<pressed, button, flag, lamp, msgs, wifi, store, stalls, held, scanned>>

\* Mutant: the branches of the test are exchanged.
LoginSwapped(on) ==
  /\ online' = on /\ on_line' = (on_line \/ on)
  /\ timer' = [timer EXCEPT !["watch"] = IF on THEN Watch ELSE 0]
  /\ reports' = IF on THEN 0 ELSE reports + 1
  /\ reports' <= Reports
  /\ away' = IF on THEN 0 ELSE away
  /\ UNCHANGED <<pressed, button, flag, lamp, msgs, wifi, store, stalls, held, scanned>>

\* app_login_state_cb: every state but online starts the watchdog anew.
Login(on) ==
  /\ online' = on /\ on_line' = (on_line \/ on)
  /\ timer' = [timer EXCEPT !["watch"] = IF on THEN 0 ELSE IF on_line THEN Watch ELSE @]
  /\ reports' = IF on THEN 0 ELSE reports + 1
  /\ reports' <= Reports
  /\ away' = IF on THEN 0 ELSE away
  /\ UNCHANGED <<pressed, button, flag, lamp, msgs, wifi, store, stalls, held, scanned>>

---------------------------------------------------------------------------
\* The messages.

Take(m) == msgs # <<>> /\ Head(msgs) = m /\ msgs' = Tail(msgs)

\* Mutant: a key that is held counts as pressed at every scan.
ScanAgain ==
  IF pressed # {} THEN [Idle EXCEPT !.key = pressed, !.down = TRUE, !.keep = TRUE,
                                    !.runtime = button.runtime + 1]
  ELSE IF button.keep THEN [button EXCEPT !.keep = FALSE, !.up = TRUE, !.runtime = 0]
  ELSE button

\* Mutant: the release is reported and forgotten.
ScanKeeps ==
  IF pressed # {} /\ ~button.keep
  THEN [key |-> pressed, up |-> FALSE, down |-> TRUE, keep |-> TRUE, runtime |-> 0]
  ELSE IF pressed # {}
  THEN [button EXCEPT !.runtime = IF @ <= HoldAll THEN @ + 1 ELSE @]
  ELSE IF button.keep THEN [button EXCEPT !.up = TRUE]
  ELSE button

\* hal_key_scan, every 20 ms with a tick of 20; what lies behind the longest
\* hold is not told apart.
Scan ==
  IF pressed # {} /\ ~button.keep
  THEN [key |-> pressed, up |-> FALSE, down |-> TRUE, keep |-> TRUE, runtime |-> 0]
  ELSE IF pressed # {}
  THEN [button EXCEPT !.runtime = IF @ <= HoldAll THEN @ + 1 ELSE @]
  ELSE IF button.keep THEN [button EXCEPT !.keep = FALSE, !.up = TRUE, !.runtime = 0]
  ELSE button

\* What hal_get_key returns after the scan.
Shift(b) == IF b.up THEN "up" ELSE IF b.down THEN "down" ELSE IF b.keep THEN "keep" ELSE "none"

\* Mutant: the WiFi reset is left armed.
ArmBoth(t) == [t EXCEPT !["all"] = AllDelay]

\* A key held for eight seconds: the full reset instead of the other.
ArmAll(t) == [t EXCEPT !["all"] = AllDelay, !["wifi"] = 0]

\* app_task, app_sig_keyscan
KeyScan ==
  /\ Take("keyscan")
  /\ LET b == Scan
         shift == Shift(b)
         full == shift = "keep" /\ b.runtime > HoldAll /\ flag # 2
         part == shift = "keep" /\ b.runtime > HoldWifi /\ b.runtime <= HoldAll /\ flag # 1
     IN  /\ button' = [b EXCEPT !.up = FALSE,
                                !.down = IF shift = "down" THEN FALSE ELSE @]
         /\ lamp' = [k \in Key |-> IF shift = "down" /\ b.key = {k} THEN ~lamp[k] ELSE lamp[k]]
         /\ flag' = IF shift = "down" THEN 0 ELSE IF full THEN 2 ELSE IF part THEN 1 ELSE flag
         /\ timer' = IF full THEN ArmAll(timer)
                     ELSE IF part THEN [timer EXCEPT !["wifi"] = WifiDelay]
                     ELSE timer
  /\ scanned' = (pressed # {})
  /\ IF pressed = {} THEN held' = 0 /\ stalls' = 0 ELSE UNCHANGED <<held, stalls>>
  /\ UNCHANGED <<pressed, online, on_line, wifi, store, reports, away>>

\* factory_reset, RESET_WIFI_CONFIG
ResetWifi ==
  /\ Take("wifi")
  /\ wifi' = FALSE
  /\ timer' = [timer EXCEPT !["chip"] = ChipDelay]
  /\ UNCHANGED <<pressed, button, flag, lamp, online, on_line, store, stalls, reports,
                 held, away, scanned>>

\* Mutant: the files are forgotten.
ResetShort ==
  /\ Take("all")
  /\ wifi' = FALSE
  /\ timer' = [timer EXCEPT !["chip"] = ChipDelay]
  /\ UNCHANGED <<pressed, button, flag, lamp, online, on_line, store, stalls, reports,
                 held, away, scanned>>

\* factory_reset, RESET_ALL_CONFIG: the Zigbee network and the files as well
ResetAll ==
  /\ Take("all")
  /\ wifi' = FALSE /\ store' = FALSE
  /\ timer' = [timer EXCEPT !["chip"] = ChipDelay]
  /\ UNCHANGED <<pressed, button, flag, lamp, online, on_line, stalls, reports,
                 held, away, scanned>>

\* app_task, app_sig_reset: the watchdog
ResetChip ==
  /\ Take("watch")
  /\ timer' = [timer EXCEPT !["chip"] = ChipDelay]
  /\ UNCHANGED <<pressed, button, flag, lamp, online, on_line, wifi, store, stalls,
                 reports, held, away, scanned>>

Handle == KeyScan \/ ResetWifi \/ ResetAll \/ ResetChip

AtNext ==
  \/ \E K \in SUBSET Key : Press(K)
  \/ \E d \in Ticks : Round(d)
  \/ \E on \in BOOLEAN : Login(on)
  \/ Handle \/ Restart

AtSpec == AtInit /\ [][AtNext]_atVars

\* Time goes on and the thread takes its messages.
AtFairSpec ==
  AtSpec /\ WF_atVars(Handle) /\ WF_atVars(Restart) /\ WF_atVars(\E d \in Ticks : Round(d))

---------------------------------------------------------------------------

AtTypeOK ==
  /\ pressed \subseteq Key /\ scanned \in BOOLEAN
  /\ button \in [key : SUBSET Key, up : BOOLEAN, down : BOOLEAN, keep : BOOLEAN,
                  runtime : 0 .. HoldAll + 1]
  /\ flag \in 0 .. 2 /\ lamp \in [Key -> BOOLEAN]
  /\ timer \in [Timers -> Nat]
  /\ timer["wifi"] <= WifiDelay /\ timer["all"] <= AllDelay
  /\ timer["chip"] <= ChipDelay /\ timer["watch"] <= Watch
  /\ msgs \in Seq({"keyscan", "wifi", "all", "watch"})
  /\ online \in BOOLEAN /\ on_line \in BOOLEAN /\ wifi \in BOOLEAN /\ store \in BOOLEAN
  /\ stalls \in 0 .. Stalls /\ reports \in 0 .. Reports
  /\ held \in 0 .. HoldAll + Stalls + 1 /\ away \in 0 .. Watch

\* What the scans know of the time a key has been held: never more than the
\* time itself, and less by the late rounds only (hal_key.c:46).
ScansLag ==
  /\ button.keep => button.runtime <= held
  /\ msgs = <<>> => (held <= HoldAll => button.runtime + stalls >= held - 1)

\* A key that is still held when the WiFi reset would fire has been held long
\* enough for the full reset, which takes the other's place
\* (app_task.c:164-165).  The scan that sees to it must come within the margin
\* of one second: a WiFi reset in a longer hold is due to rounds of the timers
\* that were late by the whole margin in that hold.
WifiResetIsShort == [][ResetWifi => held <= HoldAll \/ stalls >= Margin]_atVars

\* The full reset is armed only for a key that has really been down so long.
WipeNeedsLongHold == [][timer'["all"] > timer["all"] => held > HoldAll]_atVars

\* And whoever goes on holding a key gets it, across a restart for another
\* reason as well.
LongHoldWipes == [](pressed # {} => <>(~store \/ pressed = {}))

\* However long a key is held and however many others join it, it switches its
\* lamp once: in the scan before, no key was down (hal_key.c:36).
OneTogglePerPress == [][KeyScan /\ lamp' # lamp => ~scanned]_atVars

\* The watchdog queues its reset only when the gateway has not been online
\* for the whole time, whatever states came in between (app_task.c:204-212).
\* A reset that is queued is not taken back when the cloud answers then.
WatchdogWaits ==
  [][(\E i \in DOMAIN msgs' : msgs'[i] = "watch") /\ msgs = <<>> => away' >= Watch]_atVars

\* A gateway that was online and is not any more is online again or restarted
\* in the end, if the cloud client does not report other states for ever: each
\* of them puts the restart off (app_task.c:211).
OfflineRestarts == [](on_line /\ ~online => <>(online \/ ~on_line))
============================================================================
