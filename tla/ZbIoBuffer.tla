---------------------------- MODULE ZbIoBuffer ----------------------------
(***************************************************************************)
(* The send list of the gateway (gwzb-esp32-v2.0/app/zb_io_buffer.c): the  *)
(* commands the gateway wants on the serial link to the Zigbee             *)
(* coordinator wait in a linked list, a reload timer sends the one at the  *)
(* head, again until its tries are used up, and a frame that comes back    *)
(* from a device takes the command it answers off the list.                *)
(*                                                                         *)
(* Every function here runs on the one thread of the Pluto operating layer *)
(* (osRun takes one message at a time), so each handler is one action.     *)
(*                                                                         *)
(* The linked list is kept as the set of the blocks on it and, for each of *)
(* them, the set of the blocks linked in front of it; a block that is not  *)
(* on the list is free and has no fields.                                  *)
(***************************************************************************)
EXTENDS Naturals, FiniteSets

CONSTANTS
  Block,         \* the heap blocks malloc may return for an output_t
  Addr,          \* the short network addresses of the devices
  SeqNum,        \* the sequence numbers in use, a part of uint8
  IO_SEND_TRY,   \* transmissions of a command that asks for an answer
  MaxIoMsgs      \* bound of the model: io_task messages queued at a time

ASSUME IoTryAssumption == IO_SEND_TRY \in Nat \ {0}
ASSUME IoMsgsAssumption == MaxIoMsgs \in Nat \ {0}

VARIABLES
  pSend,         \* the blocks on the send list
  ahead,         \* block on the list -> the blocks in front of it
  out,           \* block on the list -> the fields of its output_t
  active_task,   \* the flag of that name
  io_timer,      \* the reload timer (io_task, 1) is in the timer list
  io_msgs,       \* io_task messages that wait in the message queue
  sent           \* history: block on the list -> transmissions so far

ioVars == <<pSend, ahead, out, active_task, io_timer, io_msgs, sent>>

Output == [addr : Addr, seq : SeqNum, ack : BOOLEAN, stry : 0 .. IO_SEND_TRY]

\* Mutant: the first transmission is not counted as one of the tries.
BudgetShort(ack) == IF ack THEN IO_SEND_TRY - 1 ELSE 1

\* Mutant: req_ack is not looked at.
BudgetEqual(ack) == IO_SEND_TRY

\* The transmissions zb_io_req_send grants a command.
Budget(ack) == IF ack THEN IO_SEND_TRY ELSE 1

\* The first block of the list.
IsHead(b) == ahead[b] = {}

---------------------------------------------------------------------------

IoInit ==
  /\ pSend = {}
  /\ ahead = [b \in {} |-> {}]
  /\ out = [b \in {} |-> {}]
  /\ active_task = FALSE
  /\ io_timer = FALSE
  /\ io_msgs = 0
  /\ sent = [b \in {} |-> 0]

\* A function on the list with a value for one more block.
With(f, b, val) == [x \in pSend \cup {b} |-> IF x = b THEN val ELSE f[x]]

\* add_to_send_list: link the block at the tail and wake a sleeping timer.
AddToSendList(b) ==
  /\ pSend' = pSend \cup {b}
  /\ ahead' = With(ahead, b, pSend)
  /\ active_task' = TRUE
  /\ io_timer' = (io_timer \/ ~active_task)

\* zb_io_req_send: malloc returns a block that is not on the list.  When it
\* returns none the call fails and changes nothing.
ReqSend(b, addr, seq, ack) ==
  /\ b \notin pSend
  /\ out' = With(out, b, [addr |-> addr, seq |-> seq, ack |-> ack,
                           stry |-> Budget(ack)])
  /\ sent' = With(sent, b, 0)
  /\ AddToSendList(b)
  /\ UNCHANGED io_msgs

\* The commands zb_io_remove_send(addr, seq, same_addr) takes off the list.
Removed(addr, seq, same_addr) ==
  {b \in pSend : out[b].addr = addr /\ (same_addr \/ out[b].seq = seq)}

\* Unlink the blocks of S and free them.
Unlink(S) ==
  /\ pSend' = pSend \ S
  /\ ahead' = [b \in pSend \ S |-> ahead[b] \ S]
  /\ out' = [b \in pSend \ S |-> out[b]]
  /\ sent' = [b \in pSend \ S |-> sent[b]]

\* zb_io_remove_send as a frame from a device calls it: what matches leaves,
\* and if anything did the timer is restarted.
RemoveSend(addr, seq) ==
  LET gone == Removed(addr, seq, FALSE)
  IN  /\ Unlink(gone)
      /\ io_timer' = (io_timer \/ gone # {})
      /\ UNCHANGED <<active_task, io_msgs>>

\* The timer expires: a message for io_task is queued, the timer reloads.
IoTimerFires ==
  /\ io_timer
  /\ io_msgs < MaxIoMsgs
  /\ io_msgs' = io_msgs + 1
  /\ UNCHANGED <<pSend, ahead, out, active_task, io_timer, sent>>

\* Mutant: the test of stry is left out.
IoTaskSendAlways(b) ==
  /\ IsHead(b)
  /\ out' = [out EXCEPT ![b].stry = @ - 1]
  /\ sent' = [sent EXCEPT ![b] = @ + 1]
  /\ io_timer' = TRUE
  /\ UNCHANGED <<pSend, ahead, active_task>>

\* Mutant: stry is not counted down.
IoTaskSendFree(b) ==
  /\ IsHead(b)
  /\ out[b].stry > 0
  /\ sent' = [sent EXCEPT ![b] = @ + 1]
  /\ io_timer' = TRUE
  /\ UNCHANGED <<pSend, ahead, active_task, out>>

\* io_task with tries left for the head of the list: send it once more.
IoTaskSend(b) ==
  /\ IsHead(b)
  /\ out[b].stry > 0
  /\ out' = [out EXCEPT ![b].stry = @ - 1]
  /\ sent' = [sent EXCEPT ![b] = @ + 1]
  /\ io_timer' = TRUE
  /\ UNCHANGED <<pSend, ahead, active_task>>

\* Mutant: the ack of the command is not looked at.
IoTaskGiveUpAddr(b) ==
  /\ IsHead(b)
  /\ out[b].stry = 0
  /\ Unlink(Removed(out[b].addr, out[b].seq, TRUE))
  /\ io_timer' = TRUE
  /\ UNCHANGED active_task

\* io_task with the tries of the head used up: give the command up, and when
\* it asked for an answer every other command to the same address with it.
IoTaskGiveUp(b) ==
  /\ IsHead(b)
  /\ out[b].stry = 0
  /\ Unlink(Removed(out[b].addr, out[b].seq, out[b].ack))
  /\ io_timer' = TRUE
  /\ UNCHANGED active_task

\* Mutant: active_task stays set.
IoTaskEndFlagged ==
  /\ pSend = {}
  /\ io_timer' = FALSE
  /\ UNCHANGED <<pSend, ahead, out, active_task, sent>>

\* io_task with an empty list: stop the timer.
IoTaskEnd ==
  /\ pSend = {}
  /\ io_timer' = FALSE
  /\ active_task' = FALSE
  /\ UNCHANGED <<pSend, ahead, out, sent>>

\* io_task: one message of the timer is taken from the queue and handled.
IoTask ==
  /\ io_msgs > 0
  /\ io_msgs' = io_msgs - 1
  /\ \/ \E b \in pSend : IoTaskSend(b) \/ IoTaskGiveUp(b)
     \/ IoTaskEnd

IoNext ==
  \/ \E b \in Block, addr \in Addr, seq \in SeqNum, ack \in BOOLEAN :
       ReqSend(b, addr, seq, ack)
  \/ \E addr \in Addr, seq \in SeqNum : RemoveSend(addr, seq)
  \/ IoTimerFires
  \/ IoTask

IoSpec == IoInit /\ [][IoNext]_ioVars

\* The timer list is served on every tick and the message queue is emptied by
\* the thread's loop; nothing makes a caller send or a device answer.
IoFairSpec == IoSpec /\ WF_ioVars(IoTimerFires) /\ WF_ioVars(IoTask)

---------------------------------------------------------------------------

TypeOK ==
  /\ pSend \subseteq Block
  /\ ahead \in [pSend -> SUBSET Block]
  /\ out \in [pSend -> Output]
  /\ active_task \in BOOLEAN
  /\ io_timer \in BOOLEAN
  /\ io_msgs \in 0 .. MaxIoMsgs
  /\ sent \in [pSend -> 0 .. IO_SEND_TRY]

\* Whatever is on the list will be looked at: active_task says exactly that
\* the timer is in the timer list, and it says so while a command waits.  A
\* flag left set beside a stopped timer would block the list for good, since
\* add_to_send_list starts the timer only when the flag is clear.
NoLostWakeup ==
  /\ active_task = io_timer
  /\ pSend # {} => io_timer

\* The transmissions of a command and the tries it has left always make up
\* what zb_io_req_send granted it, whatever was removed or restarted between.
BudgetKept ==
  \A b \in pSend : sent[b] + out[b].stry = Budget(out[b].ack)

\* Stop and wait: of all the commands on the list at most one has been on the
\* wire, so an answer can be matched to one transmission.
OneInFlight ==
  \A a, b \in pSend : sent[a] > 0 /\ sent[b] > 0 => a = b

\* The order of the list is a strict total order of the blocks on it.
ListOrder ==
  /\ \A b \in pSend : ahead[b] \subseteq pSend \ {b}
  /\ \A a, b \in pSend : a # b => (a \in ahead[b] <=> b \notin ahead[a])
  /\ \A a, b \in pSend : a \in ahead[b] => ahead[a] \subseteq ahead[b]

\* Only the first command of the list has been on the wire.
OnlyHeadSent == \A b \in pSend : ahead[b] # {} => sent[b] = 0

\* The inductive invariant.
IoInv == TypeOK /\ NoLostWakeup /\ BudgetKept /\ ListOrder /\ OnlyHeadSent

\* What a step drops, and the two reasons it may drop a command that was
\* never on the wire: everything dropped with it carries its address and its
\* sequence number, or the command in front, to the same address and asking
\* for an answer, was given up after all its tries.
Dropped == pSend \ pSend'

MayDropUnsent(b) ==
  \/ \A c \in Dropped : out[c].addr = out[b].addr /\ out[c].seq = out[b].seq
  \/ \E h \in Dropped : /\ IsHead(h) /\ out[h].ack
                        /\ out[h].addr = out[b].addr
                        /\ sent[h] = IO_SEND_TRY

\* A command is dropped without ever having been on the wire for these two
\* reasons only.
UnsentDropped ==
  [][\A b \in Dropped : sent[b] = 0 => MayDropUnsent(b)]_ioVars

\* No step reorders the commands that stay on the list.
OrderKept ==
  [][\A a, b \in pSend \cap pSend' :
       a \in ahead[b] => a \in ahead'[b]]_ioVars

\* The list seen as a stop-and-wait link: the command being sent is the one
\* that has been on the wire.
InFlight == {b \in pSend : sent[b] > 0}
Attempts == IF InFlight = {} THEN 0 ELSE sent[CHOOSE b \in InFlight : TRUE]

Link == INSTANCE StopAndWait WITH
          MaxTry <- IO_SEND_TRY, waiting <- pSend \ InFlight,
          current <- InFlight, tries <- Attempts

\* The send list implements the stop-and-wait link: one command at a time,
\* IO_SEND_TRY transmissions at most, and none after it was dropped.
ImplementsStopAndWait == Link!SWSpec

\* Every command leaves the list: answered, or given up.
EveryCommandLeaves == \A b \in Block : (b \in pSend) ~> (b \notin pSend)
===========================================================================
