--------------------------- MODULE NetStartProofs ---------------------------
(***************************************************************************)
(* Proofs about the start of a device (NetStart) and its two parts, for    *)
(* any number of descriptors, events, losses and failed calls:             *)
(*                                                                         *)
(*   1. the UDP socket is never leaked and never used after it was closed; *)
(*   2. smartconfig_example_task never starts a search anew;               *)
(*   3. the types of the station;                                          *)
(*   4. all of it also holds of the two together, with restarts of the     *)
(*      chip: the composition implements UdpSocket.                        *)
(***************************************************************************)
EXTENDS NetStart, SequenceTheorems, TLAPS

---------------------------------------------------------------------------
(* 1. The UDP socket *)

\* Who is where when udp_socket_fd names no socket: the client alone may be
\* about to create one, since the thread goes there with a socket only and
\* nothing takes it away.
Turns ==
  /\ pc["thread"] # "socket"
  /\ pc["thread"] \in {"recv", "create", "bind"} => udp_socket_fd # NoSocket
  /\ pc["client"] = "socket" => udp_socket_fd = NoSocket

Places == FieldsOK /\ OneUdpSocket /\ Turns

UdpInv == FlagsOK /\ Places

\* No socket and nobody on the way to one at the start.
LEMMA UdpInitInv == ASSUME UdpInit PROVE UdpInv
<1>1. FlagsOK
  BY Zenon DEF UdpInit, FlagsOK
<1>2. Places
  BY UdpAssumption DEF UdpInit, Places, FieldsOK, OneUdpSocket, Turns, Actor
<1>3. QED BY <1>1, <1>2 DEF UdpInv

\* The flags keep their types.
LEMMA FlagsStep ==
  ASSUME FlagsOK, UdpNext
  PROVE  FlagsOK'
<1> USE DEF FlagsOK
<1>1. CASE Open
  BY <1>1, Zenon DEF Open
<1>2. ASSUME NEW len \in Length, Send(len) PROVE FlagsOK'
  BY <1>2, Zenon DEF Send
<1>3. CASE UdpRestart
  BY <1>3, Zenon DEF UdpRestart
<1>4. ASSUME NEW a \in Actor, Create(a) PROVE FlagsOK'
  BY <1>4, Zenon DEF Create, CreateKeeps, CreateStarts, CreateGets, CreateResets, CreateBinds
<1>5. CASE ThreadReceives \/ ThreadGets \/ ThreadRecovers
  BY <1>5, Zenon DEF ThreadReceives, ThreadGets, ThreadRecovers
<1>6. QED BY <1>1, <1>2, <1>3, <1>4, <1>5 DEF UdpNext

\* The steps of the client and the restart.
LEMMA ClientStep ==
  ASSUME Places, Open \/ (\E len \in Length : Send(len)) \/ UdpRestart
  PROVE  Places'
<1> USE UdpAssumption DEF Places, FieldsOK, OneUdpSocket, Turns, Actor
<1>1. CASE Open
  BY <1>1 DEF Open
<1>2. ASSUME NEW len \in Length, Send(len) PROVE Places'
  BY <1>2 DEF Send
<1>3. CASE UdpRestart
  BY <1>3 DEF UdpRestart
<1>4. QED BY <1>1, <1>2, <1>3

\* The steps of udp_create_socket, on either thread.
LEMMA CreateStep ==
  ASSUME Places, NEW a \in Actor, Create(a)
  PROVE  Places'
<1> USE UdpAssumption DEF Places, FieldsOK, OneUdpSocket, Turns, Actor, Goes, Back
<1>1. CASE CreateKeeps(a)
  BY <1>1 DEF CreateKeeps
<1>2. CASE CreateStarts(a)
  BY <1>2 DEF CreateStarts
<1>3. CASE CreateGets(a)
  BY <1>3 DEF CreateGets
<1>4. CASE CreateResets(a)
  BY <1>4 DEF CreateResets, Fails
<1>5. CASE CreateBinds(a)
  BY <1>5 DEF CreateBinds, Fails, Deinit
<1>6. QED BY <1>1, <1>2, <1>3, <1>4, <1>5 DEF Create

\* The steps of the receiving thread.
LEMMA UdpThreadStep ==
  ASSUME Places, ThreadReceives \/ ThreadGets \/ ThreadRecovers
  PROVE  Places'
<1> USE UdpAssumption DEF Places, FieldsOK, OneUdpSocket, Turns, Actor, Goes
<1>1. CASE ThreadReceives
  BY <1>1 DEF ThreadReceives
<1>2. CASE ThreadGets
  BY <1>2 DEF ThreadGets
<1>3. CASE ThreadRecovers
  BY <1>3 DEF ThreadRecovers, Fails, Deinit
<1>4. QED BY <1>1, <1>2, <1>3

\* The inductive invariant holds in every reachable state.
THEOREM UdpInvariant == UdpSpec => []UdpInv
<1>1. UdpInit => UdpInv
  BY UdpInitInv
<1>2. UdpInv /\ [UdpNext]_udpVars => UdpInv'
  <2> SUFFICES ASSUME UdpInv, [UdpNext]_udpVars PROVE UdpInv'
    OBVIOUS
  <2>1. CASE UNCHANGED udpVars
    BY <2>1 DEF udpVars, UdpInv, FlagsOK, Places, FieldsOK, OneUdpSocket, Turns
  <2>2. CASE UdpNext
    BY <2>2, FlagsStep, ClientStep, CreateStep, UdpThreadStep DEF UdpNext, UdpInv
  <2>3. QED BY <2>1, <2>2
<1>3. QED BY <1>1, <1>2, PTL DEF UdpSpec

\* The fields of the UDP socket always have their types (udp_socket.c:14-17).
THEOREM UdpTypeCorrect == UdpSpec => []UdpTypeOK
<1>1. UdpInv => UdpTypeOK
  BY DEF UdpInv, Places, UdpTypeOK
<1>2. QED BY <1>1, UdpInvariant, PTL

\* Nothing leaks and nothing is used after it was closed (udp_socket.c:55-80).
THEOREM UdpNeverLeaks == UdpSpec => []OneUdpSocket
<1>1. UdpInv => OneUdpSocket
  BY DEF UdpInv, Places
<1>2. QED BY <1>1, UdpInvariant, PTL
---------------------------------------------------------------------------
(* 2. The task of the station *)

\* The phone has not been told yet that the station joined.
Untold == Searching \cup {"started", "LINK"}

\* Why it holds for the gateway: without a callback nobody sets
\* CONNECTED_BIT, so until the phone has been told the task is in its first
\* wait, and once it has been told the status is not one of a search.
SearchInv ==
  gateway =>
    /\ "CONNECTED" \notin wifi_event_group
    /\ smart \in Untold => /\ at = "wait" /\ runtime = "max"
                           /\ "ESPTOUCH_DONE" \notin wifi_event_group
    /\ airkiss_state \in Searching => smart \in Searching

\* The task starts with no bits and without a limit to its wait.
LEMMA SearchInvInit == WifiInit => SearchInv
BY DEF WifiInit, SearchInv, Untold, Searching

\* The event loop of the gateway has no callback.
LEMMA NoHandler == gateway => UserCallback = "NULL"
BY DEF UserCallback, LoopInit

\* The driver and the event loop change neither smartconfig nor the task.
LEMMA LoopKeeps == ASSUME SearchInv, Join \/ Leave \/ Loop \/ Poll PROVE SearchInv'
<1>1. CASE Join
  BY <1>1 DEF Join, taskVars, plutoVars, SearchInv, Untold
<1>2. CASE Leave
  BY <1>2 DEF Leave, taskVars, plutoVars, SearchInv, Untold
<1>3. CASE NoCallback
  BY <1>3 DEF NoCallback, taskVars, plutoVars, SearchInv, Untold
<1>4. CASE Start \/ GotIp \/ Disconnected
  <2>1. ~gateway
    BY <1>4, NoHandler DEF Start, GotIp, Disconnected
  <2> QED BY <1>4, <2>1 DEF Start, GotIp, Disconnected, SearchInv
<1>5. CASE Poll
  BY <1>5 DEF Poll, taskVars, SearchInv, Untold
<1> QED BY <1>1, <1>2, <1>3, <1>4, <1>5 DEF Loop

\* Each status of smartconfig follows the one before.
LEMMA CallbackKeeps == ASSUME SearchInv, Callback PROVE SearchInv'
<1>1. CASE ~gateway
  BY <1>1 DEF Callback, Search, Link, LinkOver, SearchInv
<1>2. ASSUME gateway, NEW s \in Searching, Search(s) PROVE SearchInv'
  BY <1>2 DEF Search, Kept, StartBit, Searching, taskVars, SearchInv, Untold
<1>3. ASSUME gateway, NEW new \in Settings \ {"none"}, Link(new) PROVE SearchInv'
  BY <1>3 DEF Link, Kept, StartBit, Searching, taskVars, SearchInv, Untold
<1>4. ASSUME gateway, LinkOver PROVE SearchInv'
  BY <1>4 DEF LinkOver, Kept, Searching, taskVars, SearchInv, Untold
<1> QED BY <1>1, <1>2, <1>3, <1>4 DEF Callback

\* A task that has left its first wait was told, and finds no search.
LEMMA TaskKeeps == ASSUME SearchInv, Task PROVE SearchInv' /\ smart' \in {smart, "off"}
<1>1. CASE TaskWait
  <2>1. smart' = smart
    BY <1>1 DEF TaskWait
  <2>2. gateway => smart \notin Untold
    BY <1>1 DEF TaskWait, SearchInv, WaitFor
  <2> QED BY <1>1, <2>1, <2>2 DEF TaskWait, SearchInv, Untold
<1>2. CASE TaskMark
  BY <1>2 DEF TaskMark, SearchInv, Untold, Searching
<1>3. CASE TaskDone
  BY <1>3 DEF TaskDone, SearchInv, Untold, Searching
<1>4. CASE TaskChecks
  <2>1. gateway => smart \notin Untold /\ airkiss_state \notin Searching
    BY <1>4 DEF TaskChecks, SearchInv, Untold
  <2>2. smart' = smart
    BY <1>4, <2>1 DEF TaskChecks
  <2> QED BY <1>4, <2>1, <2>2 DEF TaskChecks, SearchInv
<1> QED BY <1>1, <1>2, <1>3, <1>4 DEF Task

\* Every step keeps it.
LEMMA StepKeeps == ASSUME SearchInv, [WifiNext]_wifiVars PROVE SearchInv'
<1>1. CASE UNCHANGED wifiVars
  BY <1>1 DEF wifiVars, taskVars, SearchInv
<1> QED BY <1>1, LoopKeeps, CallbackKeeps, TaskKeeps DEF WifiNext

\* The inductive invariant, for both products.
THEOREM SearchInvariant == WifiSpec => []SearchInv
BY SearchInvInit, StepKeeps, PTL DEF WifiSpec

\* The task never starts a search anew: the branch that would is dead code.
THEOREM SearchNeverRestarted == WifiSpec => SearchUndisturbed
<1>1. SearchInv => [Task => smart' \in {smart, "off"}]_wifiVars
  BY TaskKeeps
<1> QED BY <1>1, SearchInvariant, PTL DEF SearchUndisturbed
---------------------------------------------------------------------------
(* 3. The types of the station *)

Events == {"start", "got_ip", "disconnected"}

\* The queue of the event loop, within its bound.
EventsOK == events \in Seq(Events) /\ Len(events) <= MaxEvents

\* The parts of WifiTypeOK: the flags, and the fields the flags are about.
WifiFlags ==
  /\ gateway \in BOOLEAN /\ got_ip_flag \in BOOLEAN /\ polling \in BOOLEAN
  /\ (server <=> ~polling)

AddressOK ==
  /\ link \in {"off", "joining", "up"}
  /\ ip \in BOOLEAN /\ (ip <=> link = "up")

WifiFields ==
  /\ conf \in Settings
  /\ wifi_event_group \subseteq Bits /\ uxBits \subseteq Bits
  /\ airkiss_state \in Status \cup {"CONNECTED"}
  /\ smart \in Status \cup {"off", "started"}
  /\ at \in {"none", "wait", "mark", "act", "ended"} /\ runtime \in {"max", "minute"}
  /\ losses \in 0 .. MaxLosses

WifiInv == EventsOK /\ WifiFlags /\ AddressOK /\ WifiFields

\* Taking the first event, or one more when there is room, keeps the queue.
LEMMA QueueSteps ==
  ASSUME EventsOK
  PROVE  /\ UNCHANGED events => EventsOK'
         /\ \A e \in Events : Event(e) => EventsOK'
         /\ \A e \in Events : Room /\ events' = Append(events, e) => EventsOK'
<1>1. events \in Seq(Events) /\ Len(events) \in Nat /\ MaxEvents \in Nat
  BY WifiAssumption DEF EventsOK
<1>2. ASSUME NEW e \in Events, Event(e) PROVE EventsOK'
  <2>1. events' \in Seq(Events) /\ Len(events') = Len(events) - 1
    BY <1>1, <1>2, HeadTailProperties DEF Event
  <2> QED BY <1>1, <2>1 DEF EventsOK
<1>3. ASSUME NEW e \in Events, Room, events' = Append(events, e) PROVE EventsOK'
  <2>1. events' \in Seq(Events) /\ Len(events') = Len(events) + 1
    BY <1>1, <1>3, AppendProperties
  <2> QED BY <1>1, <1>3, <2>1 DEF EventsOK, Room
<1> QED BY <1>2, <1>3 DEF EventsOK

\* The queue after every step of the station.
LEMMA QueueStep == ASSUME EventsOK, WifiNext PROVE EventsOK'
<1>1. CASE Join \/ Leave
  BY <1>1, QueueSteps DEF Join, Leave, Events
<1>2. CASE Loop
  BY <1>2, QueueSteps DEF Loop, NoCallback, Start, GotIp, Disconnected, Events
<1>3. CASE Callback
  BY <1>3, QueueSteps DEF Callback, Search, Link, LinkOver, Events
<1>4. CASE Task \/ Poll
  BY <1>4, QueueSteps DEF Task, TaskWait, TaskMark, TaskDone, TaskChecks, Poll
<1> QED BY <1>1, <1>2, <1>3, <1>4 DEF WifiNext

\* The flags, without the station's address.  Only the task, when it has an
\* address, and the timer that starts the client change one.
LEMMA WifiFlagsStep == ASSUME WifiFlags, WifiNext PROVE WifiFlags'
<1> DEFINE Same == /\ gateway' = gateway /\ got_ip_flag' = got_ip_flag
                   /\ polling' = polling /\ server' = server
<1>1. ASSUME Same PROVE WifiFlags'
  <2>1. gateway' \in BOOLEAN /\ got_ip_flag' \in BOOLEAN /\ polling' \in BOOLEAN
    BY <1>1, Zenon DEF WifiFlags
  <2>2. server' <=> ~polling'
    BY <1>1, Zenon DEF WifiFlags
  <2> QED BY <2>1, <2>2, Zenon DEF WifiFlags
<1>2. CASE Join \/ Leave
  <2>1. Same
    BY <1>2 DEF Join, Leave, taskVars, plutoVars
  <2> QED BY <1>1, <2>1
<1>3. CASE Loop
  <2>1. Same
    BY <1>3 DEF Loop, NoCallback, Start, GotIp, Disconnected, taskVars, plutoVars
  <2> QED BY <1>1, <2>1
<1>4. CASE Callback
  <2>1. Same
    BY <1>4 DEF Callback, Search, Link, LinkOver, taskVars, plutoVars
  <2> QED BY <1>1, <2>1
<1>5. CASE TaskWait \/ TaskMark \/ TaskDone
  <2>1. Same
    BY <1>5 DEF TaskWait, TaskMark, TaskDone, plutoVars
  <2> QED BY <1>1, <2>1
<1>6. CASE TaskChecks
  <2>1. gateway' = gateway /\ polling' = polling /\ server' = server
    BY <1>6 DEF TaskChecks, plutoVars
  <2>2. got_ip_flag' = (got_ip_flag \/ (airkiss_state = "CONNECTED" /\ ip))
    BY <1>6, Zenon DEF TaskChecks
  <2>3. got_ip_flag' \in BOOLEAN
    BY <2>2, Zenon
  <2> QED BY <2>1, <2>3, Zenon DEF WifiFlags
<1>7. CASE Poll
  <2>1. gateway' = gateway /\ got_ip_flag' = got_ip_flag
    BY <1>7 DEF Poll, taskVars
  <2>2. polling' = FALSE /\ server' = TRUE
    BY <1>7, Zenon DEF Poll
  <2> QED BY <2>1, <2>2, Zenon DEF WifiFlags
<1> QED BY <1>2, <1>3, <1>4, <1>5, <1>6, <1>7, Zenon DEF WifiNext, Task

\* The station has an address exactly while the driver is up: whatever takes
\* the driver down clears the address in the same step.
LEMMA AddressStep == ASSUME AddressOK, WifiNext PROVE AddressOK'
<1> USE DEF AddressOK
<1>1. CASE Join
  BY <1>1 DEF Join
<1>2. CASE Leave
  BY <1>2 DEF Leave
<1>3. CASE NoCallback \/ Start \/ GotIp
  BY <1>3 DEF NoCallback, Start, GotIp
<1>4. CASE Disconnected
  BY <1>4 DEF Disconnected, Connected
<1>5. ASSUME NEW s \in Searching, Search(s) PROVE AddressOK'
  BY <1>5 DEF Search
<1>6. ASSUME NEW new \in Settings \ {"none"}, Link(new) PROVE AddressOK'
  BY <1>6 DEF Link
<1>7. CASE LinkOver
  BY <1>7 DEF LinkOver
<1>8. CASE TaskWait \/ TaskMark \/ TaskDone
  BY <1>8 DEF TaskWait, TaskMark, TaskDone
<1>9. CASE TaskChecks
  BY <1>9 DEF TaskChecks, Connected
<1>10. CASE Poll
  BY <1>10 DEF Poll
<1> QED
  BY <1>1, <1>2, <1>3, <1>4, <1>5, <1>6, <1>7, <1>8, <1>9, <1>10
  DEF WifiNext, Loop, Callback, Task

\* The other fields.
LEMMA WifiFieldsStep == ASSUME WifiFields, WifiNext PROVE WifiFields'
<1> USE DEF WifiFields
<1>1. CASE Join
  BY <1>1 DEF Join, taskVars
<1>2. CASE Leave
  BY <1>2, WifiAssumption DEF Leave, taskVars
<1>3. CASE NoCallback \/ Start
  BY <1>3 DEF NoCallback, Start, taskVars
<1>4. CASE GotIp
  BY <1>4 DEF GotIp, Bits, taskVars
<1>5. CASE Disconnected
  BY <1>5 DEF Disconnected, Connected, taskVars
<1>6. CASE Callback
  <2> USE DEF Kept, StartBit, Bits, Status, Searching, Settings, taskVars
  <2>1. ASSUME NEW s \in Searching, Search(s) PROVE WifiFields'
    BY <2>1 DEF Search
  <2>2. ASSUME NEW new \in Settings \ {"none"}, Link(new) PROVE WifiFields'
    BY <2>2 DEF Link
  <2>3. CASE LinkOver
    BY <2>3 DEF LinkOver
  <2> QED BY <1>6, <2>1, <2>2, <2>3 DEF Callback
<1>7. CASE TaskWait \/ TaskMark
  BY <1>7 DEF TaskWait, TaskMark
<1>8. CASE TaskDone \/ TaskChecks
  BY <1>8 DEF TaskDone, TaskChecks, Connected
<1>9. CASE Poll
  BY <1>9 DEF Poll, taskVars
<1> QED
  BY <1>1, <1>2, <1>3, <1>4, <1>5, <1>6, <1>7, <1>8, <1>9 DEF WifiNext, Loop, Task

\* The station starts with the right types, at power-on and after a restart.
LEMMA WifiInitTypes == WifiInit => WifiInv
<1> SUFFICES ASSUME WifiInit PROVE WifiInv
  OBVIOUS
<1>1. EventsOK
  BY WifiAssumption DEF WifiInit, EventsOK, Events
<1>2. WifiFlags
  BY Zenon DEF WifiInit, WifiFlags
<1>3. AddressOK
  BY DEF WifiInit, AddressOK
<1>4. WifiFields
  BY WifiAssumption DEF WifiInit, WifiFields, Settings, Status
<1> QED BY <1>1, <1>2, <1>3, <1>4 DEF WifiInv

\* The parts together say what WifiTypeOK says.
LEMMA WifiTypes == WifiInv => WifiTypeOK
BY DEF WifiInv, EventsOK, WifiFlags, AddressOK, WifiFields, WifiTypeOK

\* Every step of the station keeps the types.
LEMMA WifiStep == WifiInv /\ [WifiNext]_wifiVars => WifiInv'
<1>1. WifiInv /\ WifiNext => WifiInv'
  BY QueueStep, WifiFlagsStep, AddressStep, WifiFieldsStep DEF WifiInv
<1>2. WifiInv /\ UNCHANGED wifiVars => WifiInv'
  <2>1. EventsOK /\ UNCHANGED wifiVars => EventsOK'
    BY DEF wifiVars, EventsOK
  <2>2. ASSUME WifiFlags, UNCHANGED wifiVars PROVE WifiFlags'
    <3>1. /\ gateway' = gateway /\ got_ip_flag' = got_ip_flag
          /\ polling' = polling /\ server' = server
      BY <2>2 DEF wifiVars, taskVars, plutoVars
    <3> QED BY <2>2, <3>1, Zenon DEF WifiFlags
  <2>3. AddressOK /\ UNCHANGED wifiVars => AddressOK'
    BY DEF wifiVars, AddressOK
  <2>4. WifiFields /\ UNCHANGED wifiVars => WifiFields'
    BY DEF wifiVars, taskVars, WifiFields
  <2> QED BY <2>1, <2>2, <2>3, <2>4 DEF WifiInv
<1> QED BY <1>1, <1>2

\* The fields of the station keep their types, and it has an address exactly
\* while it is joined, for the gateway and for a switch.
THEOREM WifiTypeCorrect == WifiSpec => []WifiTypeOK
BY WifiInitTypes, WifiStep, WifiTypes, PTL DEF WifiSpec
---------------------------------------------------------------------------
(* 4. The two together *)

\* A restart of the chip puts the station where it was at power-on, with the
\* settings it has now.
LEMMA RestartKeeps == WifiInv /\ NetRestart => WifiInv' /\ SearchInv'
<1> SUFFICES ASSUME WifiInv, NetRestart PROVE WifiInv' /\ SearchInv'
  OBVIOUS
<1>1. EventsOK'
  BY WifiAssumption DEF NetRestart, EventsOK, Events
<1>2. WifiFlags'
  BY Zenon DEF NetRestart, WifiInv, WifiFlags
<1>3. AddressOK'
  BY DEF NetRestart, AddressOK
<1>4. WifiFields'
  BY DEF NetRestart, WifiInv, WifiFields, Settings, Status
<1>5. SearchInv'
  BY DEF NetRestart, SearchInv, Untold, Searching
<1> QED BY <1>1, <1>2, <1>3, <1>4, <1>5 DEF WifiInv

\* A step of the two is a step of the socket, or leaves it alone.
LEMMA SocketsStep == [NetNext]_netVars => [UdpNext]_udpVars
<1>1. Sockets => UdpNext
  BY DEF Sockets, ClientOpens, UdpNext
<1>2. NetRestart => UdpNext
  BY DEF NetRestart, UdpNext
<1>3. UNCHANGED netVars => UNCHANGED udpVars
  BY DEF netVars
<1> QED BY <1>1, <1>2, <1>3 DEF NetNext

\* A step of the two is a step of the station, leaves it alone, or restarts it.
LEMMA StationStep == [NetNext]_netVars => [WifiNext]_wifiVars \/ NetRestart
BY DEF NetNext, netVars

\* What the composition promises is what UdpSocket promises: the client and
\* the receiving thread do nothing that the socket alone would not allow,
\* whatever the station does and however often the chip restarts.
THEOREM NetImplementsUdp == NetSpec => UdpSpec
<1>1. NetInit => UdpInit
  BY DEF NetInit
<1> QED BY <1>1, SocketsStep, PTL DEF NetSpec, UdpSpec

\* Nothing leaks in the two together (udp_socket.c:55-80).
THEOREM NetNeverLeaks == NetSpec => []OneUdpSocket
BY NetImplementsUdp, UdpNeverLeaks, PTL

\* The station keeps its types through restarts of the chip.
THEOREM NetTypeCorrect == NetSpec => []WifiTypeOK
<1>1. NetInit => WifiInv
  BY WifiInitTypes DEF NetInit
<1>2. WifiInv /\ [NetNext]_netVars => WifiInv'
  BY StationStep, WifiStep, RestartKeeps
<1> QED BY <1>1, <1>2, WifiTypes, PTL DEF NetSpec

\* The task starts no search anew in the two together either: a restart of
\* the chip is no step of the task.
THEOREM NetSearchNeverRestarted == NetSpec => SearchUndisturbed
<1>1. NetInit => WifiInv /\ SearchInv
  BY WifiInitTypes, SearchInvInit DEF NetInit
<1>2. WifiInv /\ SearchInv /\ [NetNext]_netVars => WifiInv' /\ SearchInv'
  BY StationStep, WifiStep, RestartKeeps, StepKeeps
<1>3. SearchInv => [Task => smart' \in {smart, "off"}]_wifiVars
  BY TaskKeeps
<1> QED BY <1>1, <1>2, <1>3, PTL DEF NetSpec, SearchUndisturbed
=============================================================================
