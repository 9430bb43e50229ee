---------------------------- MODULE WifiStation ----------------------------
(***************************************************************************)
(* How a Pluto device gets into the WiFi network and its client to the     *)
(* server: the gateway (gwzb-esp32-v2.0/main/main.c, wifi_station.c) and   *)
(* the three-gang switches (pluto-switch3-v0x/main/smartconfig.c) with     *)
(* pluto_task of both (pluto/pluto_entry.c).  The event loop of the SDK,   *)
(* the smartconfig service, smartconfig_example_task and the operating     *)
(* layer are threads that share an event group and airkiss_state.          *)
(*                                                                         *)
(* The WiFi driver, the event loop, the smartconfig service and the phone  *)
(* are external.                                                           *)
(***************************************************************************)
EXTENDS Naturals, Sequences

CONSTANTS
  MaxLosses,   \* bound: times the access point is lost or refuses
  MaxEvents    \* bound: events that wait for the event loop

ASSUME WifiAssumption ==
  MaxLosses \in Nat /\ MaxEvents \in Nat \ {0, 1}

VARIABLES
  gateway,        \* TRUE: the gateway, FALSE: a switch; chosen once
  conf,           \* the stored settings: "none", "right", "wrong"
  link,           \* the driver: "off", "joining", "up"
  ip,             \* the station has an address
  events,         \* events for the event loop, in order
  wifi_event_group,
  airkiss_state,
  smart,          \* smartconfig: "off", or the status it reported last
  at, uxBits,     \* the task: where it is, the bits it took
  runtime,        \* ... and how long it waits: "max" or a minute
  got_ip_flag,
  polling,        \* the timer of pluto_task runs
  server,         \* pluto_start_server was called
  losses

taskVars == <<at, uxBits, runtime, got_ip_flag>>
plutoVars == <<polling, server>>
wifiVars == <<conf, link, ip, events, wifi_event_group, airkiss_state, smart, taskVars,
              plutoVars, losses, gateway>>

Settings == {"none", "right", "wrong"}
Bits == {"CONNECTED", "ESPTOUCH_DONE", "START_PROCESS"}
Searching == {"WAIT", "FIND_CHANNEL", "GETTING_SSID_PSWD"}
Status == Searching \cup {"LINK", "LINK_OVER"}

\* esp_event_loop_init of the SDK: a loop that runs keeps its callback, and
\* the call returns ESP_FAIL.
LoopInit(loop, cb) == IF loop = "none" THEN cb ELSE loop

\* Mutant: the switch initialises the loop twice as well.
UserCallbackTwice == LoopInit(LoopInit("none", "NULL"), "event_handler")

\* The gateway's init_task initialises the loop with NULL before
\* initialise_wifi does with event_handler, and nobody looks at the result.
UserCallback ==
  IF gateway THEN LoopInit(LoopInit("none", "NULL"), "event_handler")
             ELSE LoopInit("none", "event_handler")

\* initialise_wifi: without settings the phone is asked for them.  A switch
\* starts its task with the first event.
WifiInit ==
  /\ gateway \in BOOLEAN /\ conf \in Settings
  /\ link = (IF conf = "none" THEN "off" ELSE "joining")
  /\ smart = (IF conf = "none" THEN "started" ELSE "off")
  /\ ip = FALSE /\ events = <<"start">> /\ wifi_event_group = {}
  /\ airkiss_state = "LINK_OVER"
  /\ at = (IF gateway THEN "wait" ELSE "none")
  /\ uxBits = {} /\ runtime = "max" /\ got_ip_flag = FALSE
  /\ polling = TRUE /\ server = FALSE /\ losses = 0

---------------------------------------------------------------------------
\* The driver.

\* esp_wifi_connect, which does nothing for a station that has joined
Connected == IF link = "off" THEN "joining" ELSE link

Room == Len(events) < MaxEvents

Join ==
  /\ link = "joining" /\ conf = "right" /\ Room
  /\ link' = "up" /\ ip' = TRUE /\ events' = Append(events, "got_ip")
  /\ UNCHANGED <<conf, wifi_event_group, airkiss_state, smart, taskVars, plutoVars,
                 losses, gateway>>

\* The access point refuses the station or goes away.
Leave ==
  /\ link # "off" /\ Room
  /\ \/ conf = "wrong" /\ UNCHANGED losses
     \/ losses < MaxLosses /\ losses' = losses + 1
  /\ link' = "off" /\ ip' = FALSE /\ events' = Append(events, "disconnected")
  /\ UNCHANGED <<conf, wifi_event_group, airkiss_state, smart, taskVars, plutoVars,
                 gateway>>

---------------------------------------------------------------------------
\* The event loop and event_handler.

Event(e) == events # <<>> /\ Head(events) = e /\ events' = Tail(events)

\* No callback: the event is only taken out of the queue.
NoCallback ==
  /\ UserCallback = "NULL"
  /\ \E e \in {"start", "got_ip", "disconnected"} : Event(e)
  /\ UNCHANGED <<conf, link, ip, wifi_event_group, airkiss_state, smart, taskVars,
                 plutoVars, losses, gateway>>

Start ==
  /\ UserCallback = "event_handler" /\ Event("start")
  /\ at' = "wait"
  /\ UNCHANGED <<conf, link, ip, wifi_event_group, airkiss_state, smart, uxBits, runtime,
                 got_ip_flag, plutoVars, losses, gateway>>

GotIp ==
  /\ UserCallback = "event_handler" /\ Event("got_ip")
  /\ wifi_event_group' = wifi_event_group \cup {"CONNECTED"}
  /\ UNCHANGED <<conf, link, ip, airkiss_state, smart, taskVars, plutoVars,
                 losses, gateway>>

\* esp_wifi_connect again, at once and without end
Disconnected ==
  /\ UserCallback = "event_handler" /\ Event("disconnected")
  /\ link' = Connected
  /\ wifi_event_group' = wifi_event_group \ {"CONNECTED"}
  /\ UNCHANGED <<conf, ip, airkiss_state, smart, taskVars, plutoVars, losses, gateway>>

---------------------------------------------------------------------------
\* sc_callback, with the status smartconfig goes through.  The search begins
\* anew when a packet is missed.  Only the gateway keeps the status.

Kept(status) == airkiss_state' = IF gateway THEN status ELSE airkiss_state
StartBit == IF gateway THEN {"START_PROCESS"} ELSE {}

Search(status) ==
  /\ \/ smart = "started" /\ status = "WAIT"
     \/ smart \in {"WAIT", "GETTING_SSID_PSWD"} /\ status = "FIND_CHANNEL"
     \/ smart = "FIND_CHANNEL" /\ status = "GETTING_SSID_PSWD"
  /\ smart' = status /\ Kept(status)
  /\ wifi_event_group' =
       wifi_event_group \cup (IF status = "FIND_CHANNEL" THEN StartBit ELSE {})
  /\ UNCHANGED <<conf, link, ip, events, taskVars, plutoVars, losses, gateway>>

\* The phone has sent settings: disconnect, store, connect.
Link(new) ==
  /\ smart = "GETTING_SSID_PSWD" /\ Room
  /\ smart' = "LINK" /\ Kept("LINK")
  /\ conf' = new /\ link' = "joining" /\ ip' = FALSE
  /\ events' \in {events, Append(events, "disconnected")}
  /\ wifi_event_group' = wifi_event_group \cup StartBit
  /\ UNCHANGED <<taskVars, plutoVars, losses, gateway>>

\* The phone has heard that the station joined.
LinkOver ==
  /\ smart = "LINK" /\ ip
  /\ smart' = "LINK_OVER" /\ Kept("LINK_OVER")
  /\ wifi_event_group' = wifi_event_group \cup {"ESPTOUCH_DONE"}
  /\ UNCHANGED <<conf, link, ip, events, taskVars, plutoVars, losses, gateway>>

---------------------------------------------------------------------------
\* smartconfig_example_task

\* Mutant: the start of the search wakes the task as well.
WaitForAll == Bits

\* Mutant: the end of smartconfig does not wake the task.
WaitForAddress == {"CONNECTED"}

\* What xEventGroupWaitBits waits for, and clears when it returns.
WaitFor == {"CONNECTED", "ESPTOUCH_DONE"}

\* It returns all the bits that are set, at once or when a minute is over.
TaskWait ==
  /\ at = "wait"
  /\ wifi_event_group \cap WaitFor # {} \/ runtime # "max"
  /\ at' = "mark" /\ uxBits' = wifi_event_group
  /\ wifi_event_group' = wifi_event_group \ WaitFor
  /\ UNCHANGED <<conf, link, ip, events, airkiss_state, smart, runtime, got_ip_flag,
                 plutoVars, losses, gateway>>

TaskMark ==
  /\ at = "mark" /\ at' = "act"
  /\ airkiss_state' = IF gateway /\ "CONNECTED" \in uxBits THEN "CONNECTED"
                      ELSE airkiss_state
  /\ UNCHANGED <<conf, link, ip, events, wifi_event_group, smart, uxBits, runtime,
                 got_ip_flag, plutoVars, losses, gateway>>

\* Smartconfig is over and is stopped.  The task of a switch ends.
TaskDone ==
  /\ at = "act" /\ "ESPTOUCH_DONE" \in uxBits
  /\ smart' = "off"
  /\ IF gateway THEN at' = "wait" /\ runtime' = "minute"
                ELSE at' = "ended" /\ UNCHANGED runtime
  /\ UNCHANGED <<conf, link, ip, events, wifi_event_group, airkiss_state, uxBits,
                 got_ip_flag, plutoVars, losses, gateway>>

\* Otherwise the gateway starts a search that takes long anew, and connects a
\* station that has lost its address.
TaskChecks ==
  /\ at = "act" /\ "ESPTOUCH_DONE" \notin uxBits
  /\ at' = "wait" /\ runtime' = IF gateway THEN "minute" ELSE "max"
  /\ smart' = IF gateway /\ airkiss_state \in Searching THEN "started" ELSE smart
  /\ got_ip_flag' = (got_ip_flag \/ (airkiss_state = "CONNECTED" /\ ip))
  /\ link' = IF airkiss_state = "CONNECTED" /\ ~ip /\ got_ip_flag THEN Connected ELSE link
  /\ UNCHANGED <<conf, ip, events, wifi_event_group, airkiss_state, uxBits, plutoVars,
                 losses, gateway>>

---------------------------------------------------------------------------

\* pluto_task: with an address the client is started and the timer stopped.
Poll ==
  /\ polling /\ ip
  /\ polling' = FALSE /\ server' = TRUE
  /\ UNCHANGED <<conf, link, ip, events, wifi_event_group, airkiss_state, smart,
                 taskVars, losses, gateway>>

Loop == NoCallback \/ Start \/ GotIp \/ Disconnected
Callback ==
  \/ \E s \in Searching : Search(s)
  \/ \E new \in Settings \ {"none"} : Link(new)
  \/ LinkOver
Task == TaskWait \/ TaskMark \/ TaskDone \/ TaskChecks

WifiNext == Join \/ Leave \/ Loop \/ Callback \/ Task \/ Poll

WifiSpec == WifiInit /\ [][WifiNext]_wifiVars

\* The threads run, the driver ends an attempt to join, and the timer of
\* pluto_task finds an address that is there.
WifiFairSpec ==
  WifiSpec /\ WF_wifiVars(Join) /\ WF_wifiVars(Loop) /\ WF_wifiVars(Task) /\ WF_wifiVars(Poll)

---------------------------------------------------------------------------

WifiTypeOK ==
  /\ gateway \in BOOLEAN
  /\ conf \in Settings /\ link \in {"off", "joining", "up"}
  /\ ip \in BOOLEAN /\ (ip <=> link = "up") /\ Len(events) <= MaxEvents
  /\ wifi_event_group \subseteq Bits /\ uxBits \subseteq Bits
  /\ airkiss_state \in Status \cup {"CONNECTED"}
  /\ smart \in Status \cup {"off", "started"}
  /\ at \in {"none", "wait", "mark", "act", "ended"} /\ runtime \in {"max", "minute"}
  /\ got_ip_flag \in BOOLEAN /\ polling \in BOOLEAN
  /\ (server <=> ~polling) /\ losses \in 0 .. MaxLosses

\* A switch with the right settings is in the network in the end, whenever it
\* got them and however often the access point was lost: the event of each
\* failure starts the next attempt (smartconfig.c:47), and events that are
\* still queued when the settings change do no harm.
StationJoins == ~gateway => (<>[](conf = "right") => <>[]ip)

\* wifi_station.c:27 "FreeRTOS event group to signal when we are connected &
\* ready to make a request": a station that keeps its address has had
\* CONNECTED_BIT set for it.
ConnectedIsSignalled == <>[]ip => <>("CONNECTED" \in wifi_event_group)

\* Smartconfig is stopped once the phone has been told, though the address and
\* the end of it come from two threads in any order and the task may take both
\* bits at once (wifi_station.c:136-151, smartconfig.c:135-143).
SmartconfigStops == smart = "LINK_OVER" ~> smart = "off"

\* A search that is under way is not disturbed: the restart after a minute
\* (wifi_station.c:158-163) never happens, because the first wait has no limit
\* and the bit the search sets is not among those waited for
\* (wifi_station.c:133-136).  The price is that a search is never repeated.
SearchUndisturbed == [][Task => smart' \in {smart, "off"}]_wifiVars
============================================================================
