------------------------------- MODULE ZbZdo -------------------------------
(***************************************************************************)
(* The interview of new devices (gwzb-esp32-v2.0/app/zb_zdo.c).  A device  *)
(* that announces itself is put on a list; a task asks the one at the head *)
(* for its active endpoints, an answer makes the gateway ask for the       *)
(* descriptor of each, and each descriptor becomes a port of the table     *)
(* (ZbMap).  A device leaves the list when as many descriptors came as it  *)
(* has endpoints, or when it was asked DEVICE_TRY times.                   *)
(*                                                                         *)
(* All handlers run on the thread of the Pluto operating layer.  The send  *)
(* list, the serial link and the radio are one bag of questions the        *)
(* devices may answer, in any order, late, twice or never.                 *)
(***************************************************************************)
EXTENDS ZbMap, Sequences

CONSTANTS
  DEVICE_TRY,     \* stry of a new device (5 in the code)
  Calm,           \* TRUE: a network that behaves well, see below
  Reannounce,     \* TRUE: a device may announce itself while it is listed
  MaxDevices,     \* bound of the model: length of the list
  MaxZdoMsgs,     \* bound of the model: zdo_task messages queued at a time
  MaxAsked,       \* bound of the model: equal questions that are counted
  MaxCount        \* bound of the model: finish_count of a device

ASSUME ZdoConstants ==
  /\ DEVICE_TRY \in Nat \ {0} /\ {Calm, Reannounce} \subseteq BOOLEAN
  /\ MaxDevices \in Nat /\ MaxZdoMsgs \in Nat /\ MaxAsked \in Nat
  /\ MaxCount \in 0 .. 254
  /\ Ep \subseteq 1 .. 254
  /\ "none" \notin Addr

VARIABLES
  pNewDevice,   \* the list of Device_t
  zdo_timer,    \* the reload timer (zdo_task, 1) is in the timer list
  zdo_msgs,     \* zdo_task messages that wait in the message queue
  ports,        \* the port table
  asked,        \* questions the devices may still answer: how many of each
  nwk           \* environment: device -> its short address, or "none"

zdoVars == <<pNewDevice, zdo_timer, zdo_msgs, ports, asked, nwk>>

\* point_num before the endpoints are known
NOT_KNOWN == 255

Device == [exAddr : Dev, addr : Addr, stry : 0 .. DEVICE_TRY,
           point_num : {NOT_KNOWN, Cardinality(Ep)},
           finish_count : 0 .. MaxCount + 1]

\* The questions: the active endpoints of an address, kept under the endpoint
\* number 0, which no application has, or the descriptor of one endpoint.
ActiveEp(addr) == [addr |-> addr, ep |-> 0]
SimpleDesc(addr, ep) == [addr |-> addr, ep |-> ep]
Question == [addr : Addr, ep : Ep \cup {0}]

\* Ask the questions of Q; MaxAsked stands for itself and every number above.
Ask(bag, Q) ==
  [q \in Question |-> IF q \in Q /\ bag[q] < MaxAsked THEN bag[q] + 1 ELSE bag[q]]

\* In a calm network every question to a device that is there is answered
\* once, and answered and handled before the 5 s of the timer are over, and an
\* address is not given to another device while the first is on the list.
\* Answers find no zdo_task message in front of them, for they are queued
\* behind those that waited when the question was sent, and the timer queues
\* none before they are handled.  Announcements come at any time.
Quiet == \A q \in Question : asked[q] = 0

\* Mutant: the address is not compared.
FirstAtHead(addr) == DOMAIN pNewDevice \cap {1}

\* The first device of the list with an address, as get_exaddr_by_addr,
\* set_point_num and set_point_count find it: a set of one index or none.
FirstAt(addr) ==
  {i \in DOMAIN pNewDevice :
     /\ pNewDevice[i].addr = addr
     /\ \A j \in 1 .. i - 1 : pNewDevice[j].addr # addr}

ZdoInit ==
  /\ pNewDevice = <<>>
  /\ zdo_timer = FALSE
  /\ zdo_msgs = 0
  /\ ports = NoPorts
  /\ asked = [q \in Question |-> 0]
  /\ nwk = [d \in Dev |-> "none"]

---------------------------------------------------------------------------

Listed(d) == \E i \in DOMAIN pNewDevice : pNewDevice[i].exAddr = d
Present(a) == \E d \in Dev : nwk[d] = a

\* Mutant: only the message is sent, the timer is not started.
AskSoon ==
  /\ zdo_msgs' = zdo_msgs + (IF pNewDevice = <<>> THEN 1 ELSE 0)
  /\ UNCHANGED zdo_timer

\* The first device of a list starts the timer and a message for the task.
StartTask ==
  IF pNewDevice = <<>>
  THEN zdo_timer' = TRUE /\ zdo_msgs' = zdo_msgs + 1
  ELSE UNCHANGED <<zdo_timer, zdo_msgs>>

\* device_indication_process and zdo_add_new_device: device d announces that
\* it has address a.  Its old ports go and it is appended to the list.
Announce(d, a) ==
  /\ \A e \in Dev \ {d} : nwk[e] # a
  /\ Len(pNewDevice) < MaxDevices
  /\ pNewDevice = <<>> => zdo_msgs < MaxZdoMsgs
  /\ Reannounce \/ ~Listed(d)
  /\ Calm => FirstAt(a) = {}
  /\ nwk' = [nwk EXCEPT ![d] = a]
  /\ ports' = IF PortsOf(ports, d) # {}
              THEN zb_delete_device_by_exaddr(ports, d) ELSE ports
  /\ pNewDevice' = Append(pNewDevice,
       [exAddr |-> d, addr |-> a, stry |-> DEVICE_TRY,
        point_num |-> NOT_KNOWN, finish_count |-> 0])
  /\ StartTask
  /\ UNCHANGED asked

\* The same when malloc has no block left: the old ports are gone, the device
\* is not put on the list.
AnnounceNoMemory(d, a) ==
  /\ ~Calm
  /\ \A e \in Dev \ {d} : nwk[e] # a
  /\ nwk' = [nwk EXCEPT ![d] = a]
  /\ ports' = zb_delete_device_by_exaddr(ports, d)
  /\ UNCHANGED <<pNewDevice, zdo_timer, zdo_msgs, asked>>

\* device_leave_process: the ports go, the list is left alone.
Leave(d) ==
  /\ nwk[d] # "none"
  /\ Calm => Quiet
  /\ nwk' = [nwk EXCEPT ![d] = "none"]
  /\ ports' = zb_delete_device(ports, nwk[d])
  /\ UNCHANGED <<pNewDevice, zdo_timer, zdo_msgs, asked>>

\* The questions left when one of them is answered; a network that is not
\* calm may deliver the same answer again.
Answer(q) == {[asked EXCEPT ![q] = @ - 1]} \cup (IF Calm THEN {} ELSE {asked})

CanAnswer(q) == asked[q] > 0 /\ (Calm => Present(q.addr) /\ zdo_msgs = 0)

\* set_point_num: the first device with this address has so many endpoints.
set_point_num(a) ==
  /\ pNewDevice' = [i \in DOMAIN pNewDevice |->
       IF i \in FirstAt(a)
       THEN [pNewDevice[i] EXCEPT !.point_num = Cardinality(Ep)]
       ELSE pNewDevice[i]]
  /\ UNCHANGED <<zdo_timer, zdo_msgs, ports, nwk>>

\* active_ep_process: note the number of endpoints, ask for each descriptor.
ActiveEpRsp(a) ==
  /\ CanAnswer(ActiveEp(a))
  /\ \E left \in Answer(ActiveEp(a)) :
       asked' = Ask(left, {SimpleDesc(a, ep) : ep \in Ep})
  /\ set_point_num(a)

\* ep_describe_process: a port for the device on the list with this address,
\* which is not looked for elsewhere, and one more descriptor counted.  A
\* zb_create_port without memory makes no port, and is counted all the same.
ep_describe_process(a, ep) ==
  /\ \A i \in FirstAt(a) : pNewDevice[i].finish_count <= MaxCount
  /\ \/ ports' = IF FirstAt(a) = {} THEN ports
                 ELSE LET p == CHOOSE i \in FirstAt(a) : TRUE
                      IN  zb_create_port(ports, pNewDevice[p].exAddr, a, ep)
     \/ ~Calm /\ ports' = ports
  /\ pNewDevice' = [i \in DOMAIN pNewDevice |->
       IF i \in FirstAt(a)
       THEN [pNewDevice[i] EXCEPT !.finish_count = (@ + 1) % 256]
       ELSE pNewDevice[i]]
  /\ UNCHANGED <<zdo_timer, zdo_msgs, nwk>>

SimpleDescRsp(a, ep) ==
  /\ CanAnswer(SimpleDesc(a, ep))
  /\ asked' \in Answer(SimpleDesc(a, ep))
  /\ ep_describe_process(a, ep)

\* The bag with one of each question of Q taken out.
TakeOut(bag, Q) == [q \in Question |-> IF q \in Q THEN bag[q] - 1 ELSE bag[q]]

\* Questions that will not be answered: lost on the way there or back, or
\* taken off the send list together.
Lose(Q) ==
  /\ Q # {} /\ \A q \in Q : asked[q] > 0 /\ (Calm => ~Present(q.addr))
  /\ asked' = TakeOut(asked, Q)
  /\ UNCHANGED <<pNewDevice, zdo_timer, zdo_msgs, ports, nwk>>

ZdoTimerFires ==
  /\ zdo_timer
  /\ zdo_msgs < MaxZdoMsgs
  /\ Calm => Quiet /\ zdo_msgs = 0
  /\ zdo_msgs' = zdo_msgs + 1
  /\ UNCHANGED <<pNewDevice, zdo_timer, ports, asked, nwk>>

\* Mutant: the tries are not looked at.
HeadFinishedPorts == Head(pNewDevice).point_num = Head(pNewDevice).finish_count

\* Mutant: >= in place of ==.
HeadFinishedLoose ==
  \/ Head(pNewDevice).stry = 0
  \/ Head(pNewDevice).point_num >= Head(pNewDevice).finish_count

\* The device at the head has no tries left or all its descriptors came.
HeadFinished ==
  \/ Head(pNewDevice).stry = 0
  \/ Head(pNewDevice).point_num = Head(pNewDevice).finish_count

\* Mutant: the timer is stopped with each device that is done.
ZdoTaskPopStops ==
  /\ pNewDevice # <<>> /\ HeadFinished
  /\ pNewDevice' = Tail(pNewDevice)
  /\ zdo_timer' = FALSE
  /\ UNCHANGED <<zdo_msgs, ports, asked, nwk>>

\* zdo_task with a finished head: take it off, send the task another message.
ZdoTaskPop ==
  /\ pNewDevice # <<>> /\ HeadFinished
  /\ pNewDevice' = Tail(pNewDevice)
  /\ zdo_msgs' = zdo_msgs
  /\ UNCHANGED <<zdo_timer, ports, asked, nwk>>

\* Mutant: stry is not counted down.
UseNoTry ==
  /\ pNewDevice # <<>> /\ ~HeadFinished
  /\ zdo_msgs' = zdo_msgs - 1
  /\ UNCHANGED <<pNewDevice, zdo_timer, ports, nwk>>

\* zdo_task with a head that is not finished takes one of its tries ...
UseTry ==
  /\ pNewDevice # <<>> /\ ~HeadFinished
  /\ pNewDevice' = [pNewDevice EXCEPT ![1].stry = @ - 1]
  /\ zdo_msgs' = zdo_msgs - 1
  /\ UNCHANGED <<zdo_timer, ports, nwk>>

\* ... and asks it for its endpoints.
ZdoTaskAsk == UseTry /\ asked' = Ask(asked, {ActiveEp(Head(pNewDevice).addr)})

\* zdo_task with an empty list: stop the timer.
ZdoTaskEnd ==
  /\ pNewDevice = <<>>
  /\ zdo_timer' = FALSE
  /\ zdo_msgs' = zdo_msgs - 1
  /\ UNCHANGED <<pNewDevice, ports, asked, nwk>>

zdo_task == zdo_msgs > 0 /\ (ZdoTaskPop \/ ZdoTaskAsk \/ ZdoTaskEnd)

\* The gateway restarts: the list, the timer, the messages and the questions
\* that were not sent yet are lost, the ports are read back from the flash.
Restart ==
  /\ ~Calm
  /\ pNewDevice' = <<>> /\ zdo_timer' = FALSE /\ zdo_msgs' = 0
  /\ \E Q \in SUBSET {q \in Question : asked[q] > 0} : asked' = TakeOut(asked, Q)
  /\ UNCHANGED <<ports, nwk>>

ZdoNext ==
  \/ \E d \in Dev, a \in Addr : Announce(d, a) \/ AnnounceNoMemory(d, a)
  \/ \E d \in Dev : Leave(d)
  \/ \E a \in Addr : ActiveEpRsp(a)
  \/ \E a \in Addr, ep \in Ep : SimpleDescRsp(a, ep)
  \/ \E Q \in SUBSET {q \in Question : asked[q] > 0} : Lose(Q)
  \/ ZdoTimerFires
  \/ zdo_task
  \/ Restart

ZdoSpec == ZdoInit /\ [][ZdoNext]_zdoVars

\* The thread runs its messages and its timers; devices and radio owe nothing.
ZdoFairSpec == ZdoSpec /\ WF_zdoVars(zdo_task) /\ WF_zdoVars(ZdoTimerFires)

\* In a calm network every question is answered, or lost with its device.
CalmSpec ==
  /\ ZdoFairSpec
  /\ \A a \in Addr : WF_zdoVars(ActiveEpRsp(a) \/ Lose({ActiveEp(a)}))
  /\ \A a \in Addr, ep \in Ep :
       WF_zdoVars(SimpleDescRsp(a, ep) \/ Lose({SimpleDesc(a, ep)}))

---------------------------------------------------------------------------

ZdoTypeOK ==
  /\ pNewDevice \in Seq(Device) /\ Len(pNewDevice) <= MaxDevices
  /\ zdo_timer \in BOOLEAN
  /\ zdo_msgs \in 0 .. MaxZdoMsgs
  /\ \E P \in SUBSET PortNum : ports \in [P -> Port]
  /\ asked \in [Question -> 0 .. MaxAsked]
  /\ nwk \in [Dev -> Addr \cup {"none"}]

\* A device on the list will be asked: the timer runs while the list is not
\* empty, although the task stops it by a message that was queued earlier,
\* when the list may have been filled again since.
DeviceServed == pNewDevice # <<>> => zdo_timer

\* When a device leaves, all ports under the short address it has go, one that
\* announces itself starts without ports under any address, and a port that
\* stays is changed by nothing.  (A port that a late descriptor made for the
\* device under an address it had before stays when it leaves: zb_delete_device
\* looks for the address, not for the device.)
OldPortsGo ==
  [][/\ \A d \in Dev : nwk[d] # "none" /\ nwk'[d] = "none" =>
           PortsAt(ports', nwk[d]) = {}
     /\ Len(pNewDevice') > Len(pNewDevice) =>
           PortsOf(ports', pNewDevice'[Len(pNewDevice')].exAddr) = {}
     /\ \A p \in DOMAIN ports \cap DOMAIN ports' : ports'[p] = ports[p]]_zdoVars

\* A port is made for a device on the list only, with the names the list has:
\* an answer that comes after the interview was closed makes none.
PortsFromTheList ==
  [][\A p \in DOMAIN ports' \ DOMAIN ports :
       \E i \in DOMAIN pNewDevice :
         /\ pNewDevice[i].exAddr = ports'[p].exaddr
         /\ pNewDevice[i].addr = ports'[p].addr]_zdoVars

\* How many ports of a table endpoint ep of device d has.
PortCount(table, d, ep) == Cardinality({p \in PortsOf(table, d) : table[p].ep = ep})

\* An endpoint has no more ports than its device was asked for its endpoints.
\* One is not promised: a device that is put on an empty list while a zdo_task
\* message still waits is asked twice in a row and gets each port twice, though
\* every question is answered once and in time.
OnePortPerTry ==
  \A d \in Dev, ep \in Ep :
    /\ PortCount(ports, d, ep) <= DEVICE_TRY
    /\ \A i \in DOMAIN pNewDevice :
         pNewDevice[i].exAddr = d =>
           PortCount(ports, d, ep) <= DEVICE_TRY - pNewDevice[i].stry

\* A device that stays is taken off the list with a port for each endpoint.
InterviewComplete ==
  [][\A d \in Dev :
       /\ Listed(d) /\ ~(Listed(d))'
       /\ nwk[d] # "none"
       => \A ep \in Ep : \E p \in PortsOf(ports, d) :
            ports[p].ep = ep /\ ports[p].addr = nwk[d]]_zdoVars

\* Every interview ends, answered or not.
InterviewEnds == \A d \in Dev : Listed(d) ~> ~Listed(d)

\* A device that announces itself gets a port for each endpoint or leaves again.
DeviceGetsPorts ==
  \A d \in Dev : Listed(d) ~>
    (nwk[d] = "none" \/ \A ep \in Ep : PortCount(ports, d, ep) > 0)
===========================================================================
