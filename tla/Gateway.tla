------------------------------ MODULE Gateway ------------------------------
(***************************************************************************)
(* The send list and the interview of devices on the one thread of the     *)
(* gateway (zb_io_buffer.c, zb_zdo.c, zb_zcl.c of gwzb-esp32-v2.0/app).    *)
(* The questions of the interview wait on the list between the commands of *)
(* the application, each is on the wire once, and a report with its number *)
(* or a lamp that does not answer may take it off the list unsent.         *)
(*                                                                         *)
(* ZbZdo has one bag of questions in place of all this; Zdo says what is   *)
(* in that bag, and that each step here is a step there.  Sequence numbers *)
(* come from a counter the application takes from as well: here a number   *)
(* is any.                                                                 *)
(***************************************************************************)
EXTENDS ZbIoBuffer, Sequences

CONSTANTS Dev, Ep, PortNum, DEVICE_TRY, Reannounce,   \* as in ZbZdo and ZbMap
          MaxDevices, MaxZdoMsgs, MaxCount

ASSUME GatewayAssumption ==
  /\ PortNum \subseteq Nat /\ DEVICE_TRY \in Nat \ {0} /\ Reannounce \in BOOLEAN
  /\ MaxDevices \in Nat /\ MaxZdoMsgs \in Nat /\ MaxCount \in 0 .. 254
  /\ Ep \subseteq 1 .. 254 /\ "none" \notin Addr

VARIABLES
  pNewDevice, zdo_timer, zdo_msgs, ports, nwk,   \* as in ZbZdo
  todo,   \* questions the running handler has yet to put on the list
  what,   \* block on the list -> the endpoint it asks for, or COMMAND
  air     \* questions on the wire or with a device that may answer

zdoPart == <<pNewDevice, zdo_timer, zdo_msgs, ports, nwk>>
wirePart == <<ioVars, todo, what, air>>
gwVars == <<zdoPart, wirePart>>

\* A command of the application (zcl_SendCommand): no endpoint of a question.
COMMAND == 255

Question == [addr : Addr, ep : Ep \cup {0}]
QuestionOf(b) == [addr |-> out[b].addr, ep |-> what[b]]

\* The questions that may still be answered.
Unsent == {b \in pSend : what[b] # COMMAND /\ sent[b] = 0}
UnderWay == {todo[i] : i \in DOMAIN todo} \cup {QuestionOf(b) : b \in Unsent} \cup air

Zdo == INSTANCE ZbZdo WITH
         asked <- [q \in Question |-> IF q \in UnderWay THEN 1 ELSE 0],
         MaxAsked <- 1, Calm <- FALSE

GwInit ==
  /\ IoInit
  /\ pNewDevice = <<>> /\ zdo_timer = FALSE /\ zdo_msgs = 0
  /\ ports = Zdo!NoPorts /\ nwk = [d \in Dev |-> "none"]
  /\ todo = <<>> /\ what = [b \in {} |-> 0] /\ air = {}

\* A handler has returned, the next message is taken.
Returned == todo = <<>>

---------------------------------------------------------------------------
\* The send list.

\* req_read_active_ep and req_ep_describe: the question goes on the list and
\* does not ask for an acknowledgement, so it is sent once.
PutQuestion(b, seq) ==
  /\ ~Returned
  /\ ReqSend(b, Head(todo).addr, seq, FALSE)
  /\ what' = With(what, b, Head(todo).ep)
  /\ todo' = Tail(todo)
  /\ UNCHANGED <<zdoPart, air>>

\* malloc returns nothing, and nobody looks at the result.
NoBlock ==
  /\ ~Returned
  /\ todo' = Tail(todo)
  /\ UNCHANGED <<zdoPart, ioVars, what, air>>

\* zcl_SendCommand for a port.
SendCommand(b, a, seq) ==
  /\ Returned /\ Zdo!PortsAt(ports, a) # {}
  /\ ReqSend(b, a, seq, TRUE)
  /\ what' = With(what, b, COMMAND)
  /\ UNCHANGED <<zdoPart, todo, air>>

\* What is left of a function on the list.
Rest(f) == [b \in pSend' |-> f[b]]

\* zb_zcl_message_process: an answer or a report of a registered device, with
\* a number that may be that of a question.
ZclFrame(a, seq) ==
  /\ Returned /\ Zdo!PortsAt(ports, a) # {}
  /\ RemoveSend(a, seq)
  /\ what' = Rest(what)
  /\ UNCHANGED <<zdoPart, todo, air>>

IoTimer ==
  /\ Returned
  /\ IoTimerFires
  /\ UNCHANGED <<zdoPart, todo, what, air>>

\* io_task.
Transmit(b) ==
  /\ b \in pSend /\ IoTaskSend(b)
  /\ air' = IF what[b] = COMMAND THEN air ELSE air \cup {QuestionOf(b)}
  /\ UNCHANGED <<zdoPart, todo, what>>

GiveUp(b) ==
  /\ b \in pSend /\ IoTaskGiveUp(b)
  /\ what' = Rest(what)
  /\ UNCHANGED <<zdoPart, todo, air>>

GwIoTask ==
  /\ Returned /\ io_msgs > 0
  /\ io_msgs' = io_msgs - 1
  /\ \/ \E b \in Block : Transmit(b) \/ GiveUp(b)
     \/ IoTaskEnd /\ UNCHANGED <<zdoPart, todo, what, air>>

---------------------------------------------------------------------------
\* The interview.

\* Devices come and go.
Arrive(d, a) ==
  /\ Returned /\ UNCHANGED wirePart
  /\ Zdo!Announce(d, a) \/ Zdo!AnnounceNoMemory(d, a)

GoAway(d) == Returned /\ UNCHANGED wirePart /\ Zdo!Leave(d)

\* An answer is taken in; it may come again.
Answered(q) == q \in air /\ air' \in {air, air \ {q}}

\* The endpoints in the order the device lists them.
EpList == {s \in [1 .. Cardinality(Ep) -> Ep] : \A ep \in Ep : \E i \in DOMAIN s : s[i] = ep}

active_ep_process(a) ==
  /\ Returned /\ Answered(Zdo!ActiveEp(a))
  /\ \E s \in EpList : todo' = [i \in DOMAIN s |-> Zdo!SimpleDesc(a, s[i])]
  /\ Zdo!set_point_num(a)
  /\ UNCHANGED <<ioVars, what>>

ep_describe_process(a, ep) ==
  /\ Returned /\ Answered(Zdo!SimpleDesc(a, ep))
  /\ Zdo!ep_describe_process(a, ep)
  /\ UNCHANGED <<ioVars, todo, what>>

ZdoTimer == Returned /\ UNCHANGED wirePart /\ Zdo!ZdoTimerFires

\* zdo_task asks the head for its endpoints.
AskHead ==
  /\ Zdo!UseTry
  /\ todo' = <<Zdo!ActiveEp(Head(pNewDevice).addr)>>
  /\ UNCHANGED <<ioVars, what, air>>

zdo_task ==
  /\ Returned /\ zdo_msgs > 0
  /\ AskHead \/ (UNCHANGED wirePart /\ (Zdo!ZdoTaskPop \/ Zdo!ZdoTaskEnd))

---------------------------------------------------------------------------

\* A question or its answer is lost on the wire or the radio.
AirLoses(q) ==
  /\ q \in air /\ air' = air \ {q}
  /\ UNCHANGED <<zdoPart, ioVars, todo, what>>

\* The gateway restarts: everything in its memory is gone.
GwRestart ==
  /\ pSend' = {} /\ ahead' = [b \in {} |-> {}] /\ out' = [b \in {} |-> {}]
  /\ active_task' = FALSE /\ io_timer' = FALSE /\ io_msgs' = 0 /\ sent' = [b \in {} |-> 0]
  /\ pNewDevice' = <<>> /\ zdo_timer' = FALSE /\ zdo_msgs' = 0
  /\ todo' = <<>> /\ what' = [b \in {} |-> 0]
  /\ UNCHANGED <<ports, nwk, air>>

GwNext ==
  \/ \E b \in Block, seq \in SeqNum : PutQuestion(b, seq)
  \/ NoBlock
  \/ \E b \in Block, a \in Addr, seq \in SeqNum : SendCommand(b, a, seq)
  \/ \E a \in Addr, seq \in SeqNum : ZclFrame(a, seq)
  \/ IoTimer \/ GwIoTask
  \/ \E d \in Dev, a \in Addr : Arrive(d, a)
  \/ \E d \in Dev : GoAway(d)
  \/ \E a \in Addr : active_ep_process(a)
  \/ \E a \in Addr, ep \in Ep : ep_describe_process(a, ep)
  \/ ZdoTimer \/ zdo_task
  \/ \E q \in Question : AirLoses(q)
  \/ GwRestart

GwSpec == GwInit /\ [][GwNext]_gwVars

\* The thread finishes the handler it runs, and takes the messages of the
\* queue in their order: none is passed for ever by frames that come in.
GwFairSpec ==
  /\ GwSpec
  /\ WF_gwVars((\E b \in Block, seq \in SeqNum : PutQuestion(b, seq)) \/ NoBlock)
  /\ SF_gwVars(ZdoTimer) /\ SF_gwVars(zdo_task)

---------------------------------------------------------------------------

\* The send list, the link and the radio are to the interview the bag of
\* questions ZbZdo assumes: a question is answered only if it was asked and
\* not lost since, whatever the application sends and is sent meanwhile.
ImplementsZdo == Zdo!ZdoSpec

\* Every interview ends, with the list full, the commands of the application
\* in front of it and answers that never come.
GwInterviewEnds == Zdo!InterviewEnds
============================================================================
