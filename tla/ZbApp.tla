------------------------------- MODULE ZbApp -------------------------------
(***************************************************************************)
(* What a command of the cloud does to a device and what the cloud is told *)
(* (app/zb_app.c, zcl_SendCommand and zb_zcl_message_process in zb_zcl.c,  *)
(* zb_get_seq): a write stores the new value of the port and puts ZCL      *)
(* commands on the send list; every answer and every report of the device  *)
(* takes commands off that list and reports a value to the cloud.  The     *)
(* value reported for the success of a write is the one stored now, not    *)
(* the one that was written.                                               *)
(*                                                                         *)
(* This is the send list (ZbIoBuffer) with its two neighbours: the command *)
(* of each block, the radio link and the devices, which are external.  The *)
(* radio keeps the order of the frames; it answers in its own time, so an  *)
(* answer may come after the next transmission of its command, or after    *)
(* the command was given up, and any frame may be lost.                    *)
(* Ports with a switch or a level are modelled, all of registered devices. *)
(***************************************************************************)
EXTENDS ZbIoBuffer, Sequences

CONSTANTS
  Port,       \* ports of Zigbee devices
  AddrOf,     \* port -> address of its device
  Val,        \* 0: off, more: on, or a level
  Payload,    \* first byte of the payload of a read
  SeqMod,     \* 2^8, the range of localSeq
  DevSeq,     \* sequence numbers a device gives its reports
  Reporting,  \* ports whose devices report every change; the cloud sends to
              \* the others with care: see Settled and Read
  MaxCmds,    \* bound: commands of the cloud
  MaxLocal,   \* bound: changes made at the devices themselves
  MaxLoss,    \* bound: frames lost on the radio
  MaxAir      \* bound: frames on their way when the cloud or a user acts

ASSUME AppFlowAssumption ==
  /\ AddrOf \in [Port -> Addr] /\ 0 \in Val /\ Payload \subseteq Val
  /\ SeqMod \in Nat /\ SeqMod > 1 /\ SeqNum = 0 .. SeqMod - 1 /\ DevSeq \subseteq SeqNum
  /\ Reporting \subseteq Port /\ MaxCmds \in Nat /\ MaxLocal \in Nat /\ MaxLoss \in Nat
  /\ MaxAir \in Nat

VARIABLES
  value,      \* the "value" of each port, pdo_port_set_value
  told,       \* the last value reported to the cloud
  localSeq,   \* the counter behind zb_get_seq
  todo,       \* ZCL commands the running handler has yet to send
  do,         \* block on the send list -> its ZCL command, with its history
  dev,        \* the state of the device behind each port
  down,       \* frames on their way to the devices
  up,         \* frames on their way back
  cmds, local, loss,  \* counted for the bounds
  made,       \* history: ZCL commands put on the list, each one's id
  failed      \* history: ports with a command that left the list without
              \* effect, or whose report was lost, since a frame showed the
              \* device to have the value

appVars ==
  <<value, told, localSeq, todo, do, dev, down, up, cmds, local, loss, made, failed>>
zaVars == <<ioVars, appVars>>

On(p, v) == [port |-> p, kind |-> "onoff", val |-> v]
Move(p, v) == [port |-> p, kind |-> "level", val |-> v]
Ask(p) == [port |-> p, kind |-> "read", val |-> 0]
Command == [port : Port, kind : {"onoff", "level", "read"}, val : Val]
\* History, in no frame of the code: id tells commands apart whose numbers are
\* the same, try the transmissions of one command; a report has 0 for both.
\* lost: the transmissions of a command that were lost, they or their answer.
Sending == [cmd : Command, id : Nat, lost : SUBSET (0 .. IO_SEND_TRY)]
DownFrame == [cmd : Command, seq : SeqNum, id : Nat, try : 0 .. IO_SEND_TRY]
\* kind "ok": default response with success, "no": with another status
UpFrame == [port : Port, seq : SeqNum, kind : {"ok", "no", "value", "report"}, val : Val,
            id : Nat, try : 0 .. IO_SEND_TRY]

ZaInit ==
  /\ IoInit
  /\ value = [p \in Port |-> 0] /\ told = value /\ dev = value
  /\ localSeq = 0 /\ todo = <<>> /\ do = [b \in {} |-> 0]
  /\ down = <<>> /\ up = <<>>
  /\ cmds = 0 /\ local = 0 /\ loss = 0 /\ made = 0 /\ failed = {}

---------------------------------------------------------------------------
\* pluto_recieve_message_cb.

\* The bound MaxAir.
FewFrames == Len(down) + Len(up) <= MaxAir

\* Nothing about port p is under way.
Settled(p) ==
  /\ \A b \in pSend : do[b].cmd.port # p
  /\ \A i \in DOMAIN down : down[i].cmd.port # p
  /\ \A i \in DOMAIN up : up[i].port # p

\* A write of a switch or of a level: the value is stored at once.  A level of
\* zero switches the lamp off as well.
Write(p, level, v) ==
  /\ todo = <<>> /\ cmds < MaxCmds /\ FewFrames /\ (p \in Reporting \/ Settled(p))
  /\ todo' = IF ~level THEN <<On(p, v)>>
             ELSE IF v = 0 THEN <<Move(p, v), On(p, 0)>> ELSE <<Move(p, v)>>
  /\ value' = [value EXCEPT ![p] = v]
  /\ cmds' = cmds + 1
  /\ UNCHANGED <<ioVars, told, localSeq, do, dev, down, up, local, loss, made, failed>>

\* A read.  The test of pdata[0] stands behind the branches for a level, so a
\* read of a level with a zero there switches the lamp off, and the value
\* stored stays: only a report tells, so the cloud does not put a zero there
\* when the device reports nothing.
Read(p, level, v) ==
  /\ todo = <<>> /\ cmds < MaxCmds /\ FewFrames /\ (p \in Reporting \/ (Settled(p) /\ v # 0))
  /\ todo' = IF level /\ v = 0 THEN <<Ask(p), On(p, 0)>> ELSE <<Ask(p)>>
  /\ cmds' = cmds + 1
  /\ UNCHANGED <<ioVars, value, told, localSeq, do, dev, down, up, local, loss, made, failed>>

\* The caller of zcl_SendCommand takes a sequence number, zcl_SendCommand
\* ignores it and takes the next.
Seq2(n) == (n + 1) % SeqMod

\* The block malloc returns.  Which one makes no difference here: nothing
\* remembers a block that was freed.
FreeBlock == CHOOSE b \in Block : b \notin pSend

\* zcl_SendCommand: the command goes on the send list and asks for an answer.
SendCommand(b) ==
  /\ todo # <<>> /\ pSend # Block /\ b = FreeBlock
  /\ ReqSend(b, AddrOf[Head(todo).port], Seq2(localSeq), TRUE)
  /\ made' = made + 1
  /\ do' = With(do, b, [cmd |-> Head(todo), id |-> made', lost |-> {}])
  /\ localSeq' = (Seq2(localSeq) + 1) % SeqMod
  /\ todo' = Tail(todo)
  /\ UNCHANGED <<value, told, dev, down, up, cmds, local, loss, failed>>

\* zb_io_req_send gets no memory: the command is gone and nobody is told.
SendFails ==
  /\ todo # <<>> /\ pSend = Block
  /\ localSeq' = (localSeq + 2) % SeqMod
  /\ failed' = failed \cup {Head(todo).port}
  /\ todo' = Tail(todo)
  /\ UNCHANGED <<ioVars, value, told, do, dev, down, up, cmds, local, loss, made>>

---------------------------------------------------------------------------
\* The timer of the send list.

TimerFires ==
  /\ todo = <<>>
  /\ IoTimerFires
  /\ UNCHANGED appVars

\* io_task, whatever is still on its way.
Transmit(b) ==
  /\ todo = <<>> /\ io_msgs > 0
  /\ io_msgs' = io_msgs - 1
  /\ b \in pSend /\ IoTaskSend(b)
  /\ down' = Append(down, [cmd |-> do[b].cmd, seq |-> out[b].seq,
                            id |-> do[b].id, try |-> sent[b] + 1])
  /\ UNCHANGED <<value, told, localSeq, todo, do, dev, up, cmds, local, loss, made, failed>>

PortsOf(S) == {do[b].cmd.port : b \in S}

GivesUp(b) ==
  /\ todo = <<>> /\ io_msgs > 0
  /\ io_msgs' = io_msgs - 1
  /\ b \in pSend /\ IoTaskGiveUp(b)
  /\ do' = [x \in pSend' |-> do[x]]
  /\ failed' = failed \cup PortsOf(Dropped)
  /\ UNCHANGED <<value, told, localSeq, todo, dev, down, up, cmds, local, loss, made>>

TimerEnds ==
  /\ todo = <<>> /\ io_msgs > 0
  /\ io_msgs' = io_msgs - 1
  /\ IoTaskEnd
  /\ UNCHANGED appVars

---------------------------------------------------------------------------
\* zb_zcl_message_process: the frame takes every command to the address with
\* its sequence number off the list, an answer and a report alike.

\* Mutant: what a report carries is not stored.
ValueKept(f) == value

\* A report and the answer to a read are stored.
Stored(f) ==
  IF f.kind \in {"value", "report"} THEN [value EXCEPT ![f.port] = f.val] ELSE value

\* A response with another status than success is not reported.
IsTold(f) == f.kind # "no"

\* The commands that leave the list though this frame does not answer them.
Unanswered(f) == {b \in Removed(AddrOf[f.port], f.seq, FALSE) : do[b].id # f.id}

\* History: a refusal leaves a command without effect; a frame that shows the
\* device to have the value that is stored settles what failed before.
Outcome(f) ==
  IF f.kind = "no" THEN failed \cup {f.port}
  ELSE IF Stored(f)[f.port] = f.val THEN failed \ {f.port} ELSE failed

Receive ==
  /\ todo = <<>> /\ up # <<>>
  /\ LET f == Head(up) IN
     /\ RemoveSend(AddrOf[f.port], f.seq)
     /\ do' = [x \in pSend' |-> do[x]]
     /\ value' = Stored(f)
     /\ told' = IF IsTold(f) THEN [told EXCEPT ![f.port] = Stored(f)[f.port]] ELSE told
     /\ failed' = Outcome(f) \cup PortsOf(Unanswered(f))
     /\ up' = Tail(up)
  /\ UNCHANGED <<localSeq, todo, dev, down, cmds, local, loss, made>>

---------------------------------------------------------------------------
\* The devices and the radio.

\* The answer of a device to frame g.
Answer(g, k, v) ==
  [port |-> g.cmd.port, seq |-> g.seq, kind |-> k, val |-> v, id |-> g.id, try |-> g.try]

Report(p, s, v) == [port |-> p, seq |-> s, kind |-> "report", val |-> v, id |-> 0, try |-> 0]

\* A report of a change, when the device makes reports.
ReportOf(p, v) ==
  IF p \in Reporting /\ v # dev[p]
  THEN {<<Report(p, s, v)>> : s \in DevSeq} ELSE {<<>>}

DeviceActs ==
  /\ todo = <<>> /\ down # <<>>
  /\ LET g == Head(down)
         c == g.cmd
     IN  \/ /\ c.kind = "read"
            /\ up' = up \o <<Answer(g, "value", dev[c.port])>>
            /\ UNCHANGED dev
         \/ /\ c.kind # "read"
            /\ \E r \in ReportOf(c.port, c.val) :
                 LET a == <<Answer(g, "ok", c.val)>>
                 IN  up' = up \o r \o a \/ up' = up \o a \o r
            /\ dev' = [dev EXCEPT ![c.port] = c.val]
         \/ /\ c.kind # "read"
            /\ up' = up \o <<Answer(g, "no", 0)>>
            /\ UNCHANGED dev
  /\ down' = Tail(down)
  /\ UNCHANGED <<ioVars, value, told, localSeq, todo, do, cmds, local, loss, made, failed>>

\* Somebody switches the lamp by hand.
LocalChange(p, v) ==
  /\ todo = <<>> /\ p \in Reporting /\ local < MaxLocal /\ FewFrames /\ v # dev[p]
  /\ \E r \in ReportOf(p, v) : up' = up \o r
  /\ dev' = [dev EXCEPT ![p] = v]
  /\ local' = local + 1
  /\ UNCHANGED <<ioVars, value, told, localSeq, todo, do, down, cmds, loss, made, failed>>

\* History: the transmission of frame f is lost for its command, if that is
\* still on the list.
Missed(f) ==
  [b \in pSend |->
     IF do[b].id = f.id THEN [do[b] EXCEPT !.lost = @ \cup {f.try}] ELSE do[b]]

LoseDown ==
  /\ todo = <<>> /\ down # <<>> /\ loss < MaxLoss
  /\ down' = Tail(down) /\ loss' = loss + 1
  /\ do' = Missed(Head(down))
  /\ UNCHANGED <<ioVars, value, told, localSeq, todo, dev, up, cmds, local, made, failed>>

LoseUp ==
  /\ todo = <<>> /\ up # <<>> /\ loss < MaxLoss
  /\ up' = Tail(up) /\ loss' = loss + 1
  /\ do' = Missed(Head(up))
  /\ failed' = IF Head(up).kind = "report" THEN failed \cup {Head(up).port} ELSE failed
  /\ UNCHANGED <<ioVars, value, told, localSeq, todo, dev, down, cmds, local, made>>

Env ==
  \/ \E p \in Port, level \in BOOLEAN, v \in Val : Write(p, level, v)
  \/ \E p \in Port, level \in BOOLEAN, v \in Payload : Read(p, level, v)
  \/ \E p \in Port, v \in Val : LocalChange(p, v)
  \/ LoseDown \/ LoseUp

System ==
  \/ (\E b \in Block : SendCommand(b)) \/ SendFails
  \/ TimerFires
  \/ (\E b \in Block : Transmit(b) \/ GivesUp(b)) \/ TimerEnds
  \/ Receive
  \/ DeviceActs

ZaNext == Env \/ System

ZaSpec == ZaInit /\ [][ZaNext]_zaVars

\* The thread runs, and a frame on the radio is answered or lost.
ZaFairSpec == ZaSpec /\ WF_zaVars(System)

---------------------------------------------------------------------------

ZaTypeOK ==
  /\ TypeOK
  /\ value \in [Port -> Val] /\ told \in [Port -> Val] /\ dev \in [Port -> Val]
  /\ localSeq \in SeqNum /\ todo \in Seq(Command) /\ do \in [pSend -> Sending]
  /\ down \in Seq(DownFrame) /\ up \in Seq(UpFrame)
  /\ cmds \in 0 .. MaxCmds /\ local \in 0 .. MaxLocal /\ loss \in 0 .. MaxLoss
  /\ made \in Nat /\ failed \subseteq Port

AllSettled == todo = <<>> /\ pSend = {} /\ down = <<>> /\ up = <<>>

\* When everything has come to rest, the gateway, the cloud and the device
\* agree on every port but those with a command that left the list without
\* effect or whose report was lost.  Values are stored before they are sent
\* (zb_app.c:160), the success of one write is reported with the value of the
\* next (:420), and a command that is sent again may undo a later one, so this
\* needs devices that report their changes, or a cloud that waits.
Agreement ==
  AllSettled => \A p \in Port \ failed : value[p] = dev[p] /\ told[p] = dev[p]

\* Transmission k of the command in block b, or its answer, is on its way.
UnderWay(b, k) ==
  \/ \E i \in DOMAIN down : down[i].id = do[b].id /\ down[i].try = k
  \/ \E i \in DOMAIN up : up[i].id = do[b].id /\ up[i].try = k

\* The command at the head has used all its tries, and each one was lost or
\* is not answered yet.
TriesUsed(b) ==
  /\ sent[b] = IO_SEND_TRY
  /\ \A k \in 1 .. IO_SEND_TRY : k \in do[b].lost \/ UnderWay(b, k)

\* Frame f takes a command for port p off the list that it does not answer.
TakenByNumber(f, p) ==
  \E b \in Dropped : do[b].cmd.port = p /\ out[b].seq = f.seq /\ do[b].id # f.id

\* Why port p has failed in this step.
Cause(p) ==
  \/ \* io_task gave up, and the radio had lost or kept back every try
     /\ up' = up
     /\ \E b \in Dropped : out[b].addr = AddrOf[p] /\ TriesUsed(b)
  \/ \* there was no memory for the command
     todo # <<>> /\ pSend = Block /\ Head(todo).port = p
  \/ \* the first frame was a refusal, a report that was lost, or carried the
     \* number of a command it does not answer (zb_zcl.c:52)
     /\ up # <<>> /\ up' = Tail(up)
     /\ LET f == Head(up)
        IN  \/ f.port = p /\ f.kind = "no"
            \/ f.port = p /\ f.kind = "report" /\ loss' > loss
            \/ TakenByNumber(f, p)

\* A port fails only for a reason the code accepts.  In particular a command
\* is never given up while one of its answers has come back, and no answer
\* takes a command off the list that it does not answer but through a number
\* that came round again, whatever was removed, sent again or answered late.
FailuresHaveCauses == [][\A p \in failed' \ failed : Cause(p)]_zaVars

\* Once the cloud and the people at the switches are silent, every command
\* has left the list and nothing is under way.
ComesToRest == []<>AllSettled
============================================================================
