------------------------- MODULE ZbIoBufferProofs -------------------------
(***************************************************************************)
(* Proofs about the send list, for every set of blocks, addresses and      *)
(* sequence numbers and every number of tries.                             *)
(***************************************************************************)
EXTENDS ZbIoBuffer, TLAPS

(***************************************************************************)
(* The budget of a command is a number of tries its fields can hold.       *)
(***************************************************************************)
LEMMA BudgetType == \A ack \in BOOLEAN : Budget(ack) \in 1 .. IO_SEND_TRY
BY IoTryAssumption DEF Budget

(***************************************************************************)
(* Unlinking blocks keeps the typing, the order and the accounts of the    *)
(* rest of the list.                                                       *)
(***************************************************************************)
LEMMA UnlinkKeeps ==
  ASSUME NEW S \in SUBSET pSend, IoInv, Unlink(S)
  PROVE  /\ pSend' \subseteq pSend
         /\ ahead' \in [pSend' -> SUBSET Block]
         /\ out' \in [pSend' -> Output]
         /\ sent' \in [pSend' -> 0 .. IO_SEND_TRY]
         /\ BudgetKept' /\ ListOrder' /\ OnlyHeadSent'
<1>1. /\ pSend' = pSend \ S
      /\ \A b \in pSend' : /\ ahead'[b] = ahead[b] \ S
                           /\ out'[b] = out[b]
                           /\ sent'[b] = sent[b]
  BY DEF Unlink
<1>2. /\ ahead' \in [pSend' -> SUBSET Block]
      /\ out' \in [pSend' -> Output]
      /\ sent' \in [pSend' -> 0 .. IO_SEND_TRY]
  BY DEF Unlink, IoInv, TypeOK
<1>3. BudgetKept'
  BY <1>1 DEF IoInv, BudgetKept
<1>4. ListOrder'
  BY <1>1 DEF IoInv, ListOrder
<1>5. OnlyHeadSent'
  BY <1>1 DEF IoInv, OnlyHeadSent
<1> QED
  BY <1>1, <1>2, <1>3, <1>4, <1>5

\* The list is empty at the start, and nothing is under way.
LEMMA InitInv == IoInit => IoInv
<1> SUFFICES ASSUME IoInit PROVE IoInv
  OBVIOUS
<1>1. /\ ahead \in [pSend -> SUBSET Block]
      /\ out \in [pSend -> Output]
      /\ sent \in [pSend -> 0 .. IO_SEND_TRY]
  BY DEF IoInit
<1>2. /\ pSend \subseteq Block
      /\ active_task \in BOOLEAN /\ io_timer \in BOOLEAN
      /\ io_msgs \in 0 .. MaxIoMsgs
  <2>1. pSend = {} /\ ~active_task /\ ~io_timer /\ io_msgs = 0
    BY DEF IoInit
  <2>2. active_task \in BOOLEAN /\ io_timer \in BOOLEAN
    BY DEF IoInit
  <2> QED
    BY <2>1, <2>2, IoMsgsAssumption
<1>3. TypeOK
  BY <1>1, <1>2 DEF TypeOK
<1>4. NoLostWakeup /\ BudgetKept /\ ListOrder /\ OnlyHeadSent
  BY DEF IoInit, NoLostWakeup, BudgetKept, ListOrder, OnlyHeadSent
<1> QED
  BY <1>3, <1>4 DEF IoInv

(***************************************************************************)
(* zb_io_req_send keeps the invariant: the new block is linked behind all  *)
(* the others, unsent and with its whole budget.                           *)
(***************************************************************************)
LEMMA ReqSendInv ==
  ASSUME NEW b \in Block, NEW addr \in Addr, NEW seq \in SeqNum,
         NEW ack \in BOOLEAN, IoInv, ReqSend(b, addr, seq, ack)
  PROVE  IoInv'
<1> DEFINE o == [addr |-> addr, seq |-> seq, ack |-> ack, stry |-> Budget(ack)]
<1>1. /\ b \notin pSend
      /\ pSend' = pSend \cup {b}
      /\ ahead' = With(ahead, b, pSend)
      /\ out' = With(out, b, o)
      /\ sent' = With(sent, b, 0)
      /\ active_task' = TRUE
      /\ io_timer' = (io_timer \/ ~active_task)
      /\ io_msgs' = io_msgs
  BY DEF ReqSend, AddToSendList
<1>2. o \in Output
  BY BudgetType, IoTryAssumption DEF Output
<1>3. TypeOK'
  BY <1>1, <1>2, IoTryAssumption DEF IoInv, TypeOK, With
<1>4. /\ ahead'[b] = pSend /\ out'[b] = o /\ sent'[b] = 0
      /\ \A x \in pSend : /\ ahead'[x] = ahead[x]
                          /\ out'[x] = out[x]
                          /\ sent'[x] = sent[x]
  BY <1>1 DEF With
<1>5. NoLostWakeup'
  BY <1>1 DEF IoInv, TypeOK, NoLostWakeup
<1>6. BudgetKept'
  <2>1. sent'[b] + out'[b].stry = Budget(out'[b].ack)
    BY <1>4, BudgetType
  <2>2. \A x \in pSend : sent'[x] + out'[x].stry = Budget(out'[x].ack)
    BY <1>4 DEF IoInv, BudgetKept
  <2> QED
    BY <1>1, <2>1, <2>2 DEF BudgetKept
<1>7. ListOrder'
  BY <1>1, <1>4 DEF IoInv, ListOrder
<1>8. OnlyHeadSent'
  BY <1>1, <1>4 DEF IoInv, OnlyHeadSent
<1> QED
  BY <1>3, <1>5, <1>6, <1>7, <1>8 DEF IoInv

(***************************************************************************)
(* A frame from a device keeps the invariant: what it removes leaves the   *)
(* rest as it was, and the timer it restarts was running.                  *)
(***************************************************************************)
LEMMA RemoveSendInv ==
  ASSUME NEW addr \in Addr, NEW seq \in SeqNum, IoInv, RemoveSend(addr, seq)
  PROVE  IoInv'
<1> DEFINE gone == Removed(addr, seq, FALSE)
<1>1. gone \in SUBSET pSend
  BY DEF Removed
<1>2. /\ Unlink(gone)
      /\ io_timer' = (io_timer \/ gone # {})
      /\ active_task' = active_task /\ io_msgs' = io_msgs
  BY DEF RemoveSend
<1> HIDE DEF gone
<1>3. /\ pSend' \subseteq pSend
      /\ ahead' \in [pSend' -> SUBSET Block]
      /\ out' \in [pSend' -> Output]
      /\ sent' \in [pSend' -> 0 .. IO_SEND_TRY]
      /\ BudgetKept' /\ ListOrder' /\ OnlyHeadSent'
  BY <1>1, <1>2, UnlinkKeeps
<1>4. io_timer' = io_timer
  BY <1>1, <1>2 DEF IoInv, NoLostWakeup, TypeOK
<1>5. TypeOK'
  BY <1>2, <1>3, <1>4 DEF IoInv, TypeOK
<1>6. NoLostWakeup'
  BY <1>2, <1>3, <1>4 DEF IoInv, NoLostWakeup
<1> QED
  BY <1>3, <1>5, <1>6 DEF IoInv

\* The timer puts one message into the queue of the task and leaves the list alone.
LEMMA IoTimerFiresInv ==
  ASSUME IoInv, IoTimerFires
  PROVE  IoInv'
BY IoMsgsAssumption
   DEF IoInv, IoTimerFires, TypeOK, NoLostWakeup, BudgetKept, ListOrder,
       OnlyHeadSent

(***************************************************************************)
(* io_task keeps the invariant when it sends: the head is the only block   *)
(* nothing is in front of, and it pays for the transmission with a try.    *)
(***************************************************************************)
LEMMA IoTaskSendInv ==
  ASSUME NEW b \in pSend, IoInv, IoTaskSend(b), io_msgs' \in 0 .. MaxIoMsgs
  PROVE  IoInv'
<1>1. /\ ahead[b] = {}
      /\ out[b].stry > 0
      /\ out' = [out EXCEPT ![b].stry = @ - 1]
      /\ sent' = [sent EXCEPT ![b] = @ + 1]
      /\ io_timer' = TRUE
      /\ pSend' = pSend /\ ahead' = ahead /\ active_task' = active_task
  BY DEF IoTaskSend, IsHead
<1>2. /\ out[b] \in Output
      /\ sent[b] \in 0 .. IO_SEND_TRY
      /\ sent[b] + out[b].stry = Budget(out[b].ack)
      /\ Budget(out[b].ack) \in 1 .. IO_SEND_TRY
  BY BudgetType DEF IoInv, TypeOK, BudgetKept, Output
<1>3. /\ out'[b] = [out[b] EXCEPT !.stry = @ - 1]
      /\ sent'[b] = sent[b] + 1
      /\ \A x \in pSend \ {b} : out'[x] = out[x] /\ sent'[x] = sent[x]
  BY <1>1 DEF IoInv, TypeOK
<1>4. /\ out'[b] \in Output
      /\ out'[b].stry = out[b].stry - 1
      /\ out'[b].ack = out[b].ack
      /\ sent'[b] \in 0 .. IO_SEND_TRY
  BY <1>1, <1>2, <1>3, IoTryAssumption DEF Output
<1>5. TypeOK'
  <2>1. out' \in [pSend -> Output]
    BY <1>1, <1>3, <1>4 DEF IoInv, TypeOK
  <2>2. sent' \in [pSend -> 0 .. IO_SEND_TRY]
    BY <1>1, <1>3, <1>4 DEF IoInv, TypeOK
  <2> QED
    BY <1>1, <2>1, <2>2 DEF IoInv, TypeOK
<1>6. NoLostWakeup'
  BY <1>1 DEF IoInv, NoLostWakeup
<1>7. BudgetKept'
  <2>1. sent'[b] + out'[b].stry = Budget(out'[b].ack)
    BY <1>2, <1>3, <1>4 DEF Output
  <2>2. \A x \in pSend \ {b} : sent'[x] + out'[x].stry = Budget(out'[x].ack)
    BY <1>3 DEF IoInv, BudgetKept
  <2> QED
    BY <1>1, <2>1, <2>2 DEF BudgetKept
<1>8. ListOrder'
  BY <1>1 DEF IoInv, ListOrder
<1>9. OnlyHeadSent'
  BY <1>1, <1>3 DEF IoInv, OnlyHeadSent
<1> QED
  BY <1>5, <1>6, <1>7, <1>8, <1>9 DEF IoInv

(***************************************************************************)
(* io_task keeps the invariant when it gives a command up.                 *)
(***************************************************************************)
LEMMA IoTaskGiveUpInv ==
  ASSUME NEW b \in pSend, IoInv, IoTaskGiveUp(b), io_msgs' \in 0 .. MaxIoMsgs
  PROVE  IoInv'
<1> DEFINE gone == Removed(out[b].addr, out[b].seq, out[b].ack)
<1>1. gone \in SUBSET pSend
  BY DEF Removed
<1>2. Unlink(gone) /\ io_timer' = TRUE /\ active_task' = active_task
  BY DEF IoTaskGiveUp
<1> HIDE DEF gone
<1>3. /\ pSend' \subseteq pSend
      /\ ahead' \in [pSend' -> SUBSET Block]
      /\ out' \in [pSend' -> Output]
      /\ sent' \in [pSend' -> 0 .. IO_SEND_TRY]
      /\ BudgetKept' /\ ListOrder' /\ OnlyHeadSent'
  BY <1>1, <1>2, UnlinkKeeps
<1>4. TypeOK'
  BY <1>2, <1>3 DEF IoInv, TypeOK
<1>5. NoLostWakeup'
  BY <1>2 DEF IoInv, NoLostWakeup
<1> QED
  BY <1>3, <1>4, <1>5 DEF IoInv

\* With the list empty the task stops the timer and may lower its flag.
LEMMA IoTaskEndInv ==
  ASSUME IoInv, IoTaskEnd, io_msgs' \in 0 .. MaxIoMsgs
  PROVE  IoInv'
BY DEF IoInv, IoTaskEnd, TypeOK, NoLostWakeup, BudgetKept, ListOrder,
       OnlyHeadSent

\* Every step of the list preserves the invariant.
LEMMA NextInv == IoInv /\ [IoNext]_ioVars => IoInv'
<1> SUFFICES ASSUME IoInv, [IoNext]_ioVars PROVE IoInv'
  OBVIOUS
<1>1. ASSUME NEW b \in Block, NEW addr \in Addr, NEW seq \in SeqNum,
             NEW ack \in BOOLEAN, ReqSend(b, addr, seq, ack)
      PROVE  IoInv'
  BY <1>1, ReqSendInv
<1>2. ASSUME NEW addr \in Addr, NEW seq \in SeqNum, RemoveSend(addr, seq)
      PROVE  IoInv'
  BY <1>2, RemoveSendInv
<1>3. CASE IoTimerFires
  BY <1>3, IoTimerFiresInv
<1>4. CASE IoTask
  <2>1. io_msgs' \in 0 .. MaxIoMsgs
    BY <1>4, IoMsgsAssumption DEF IoTask, IoInv, TypeOK
  <2>2. ASSUME NEW b \in pSend, IoTaskSend(b) PROVE IoInv'
    BY <2>1, <2>2, IoTaskSendInv
  <2>3. ASSUME NEW b \in pSend, IoTaskGiveUp(b) PROVE IoInv'
    BY <2>1, <2>3, IoTaskGiveUpInv
  <2>4. CASE IoTaskEnd
    BY <2>1, <2>4, IoTaskEndInv
  <2> QED
    BY <1>4, <2>2, <2>3, <2>4 DEF IoTask
<1>5. CASE UNCHANGED ioVars
  BY <1>5 DEF ioVars, IoInv, TypeOK, NoLostWakeup, BudgetKept, ListOrder,
              OnlyHeadSent
<1> QED
  BY <1>1, <1>2, <1>3, <1>4, <1>5 DEF IoNext

(***************************************************************************)
(* The inductive invariant holds in every state of the send list.          *)
(***************************************************************************)
THEOREM SendListInvariant == IoSpec => []IoInv
BY InitInv, NextInv, PTL DEF IoSpec

(***************************************************************************)
(* The variables of the send list keep their types.                        *)
(***************************************************************************)
THEOREM TypeCorrect == IoSpec => []TypeOK
<1>1. IoInv => TypeOK
  BY DEF IoInv
<1> QED
  BY <1>1, SendListInvariant, PTL

(***************************************************************************)
(* A waiting command always has a running timer (io_task will be called).  *)
(***************************************************************************)
THEOREM WakeupNeverLost == IoSpec => []NoLostWakeup
<1>1. IoInv => NoLostWakeup
  BY DEF IoInv
<1> QED
  BY <1>1, SendListInvariant, PTL

(***************************************************************************)
(* Transmissions and tries left add up to what zb_io_req_send granted.     *)
(***************************************************************************)
THEOREM BudgetAlwaysKept == IoSpec => []BudgetKept
<1>1. IoInv => BudgetKept
  BY DEF IoInv
<1> QED
  BY <1>1, SendListInvariant, PTL

(***************************************************************************)
(* Only the head has been sent and a list has one head.                    *)
(***************************************************************************)
LEMMA InvOneInFlight == IoInv => OneInFlight
<1> SUFFICES ASSUME IoInv, NEW a \in pSend, NEW b \in pSend,
                    sent[a] > 0, sent[b] > 0, a # b
             PROVE  FALSE
  BY DEF OneInFlight
<1>1. ahead[a] = {} /\ ahead[b] = {}
  BY DEF IoInv, OnlyHeadSent
<1> QED
  BY <1>1 DEF IoInv, ListOrder

(***************************************************************************)
(* At most one command on the list has been on the wire.                   *)
(***************************************************************************)
THEOREM StopAndWaitHolds == IoSpec => []OneInFlight
BY InvOneInFlight, SendListInvariant, PTL

---------------------------------------------------------------------------
(***************************************************************************)
(* Refinement.  The command in flight is unique, so its transmissions are  *)
(* the attempts of the stop-and-wait link.                                 *)
(***************************************************************************)
LEMMA InFlightUnique ==
  ASSUME IoInv, NEW b \in InFlight
  PROVE  InFlight = {b} /\ Attempts = sent[b]
<1>1. InFlight = {b}
  BY InvOneInFlight DEF OneInFlight, InFlight
<1>2. (CHOOSE x \in InFlight : TRUE) = b
  BY <1>1
<1> QED
  BY <1>1, <1>2 DEF Attempts

(***************************************************************************)
(* Unlinking blocks is dropping them.                                      *)
(***************************************************************************)
LEMMA UnlinkDrops ==
  ASSUME NEW S \in SUBSET pSend, IoInv, IoInv', Unlink(S)
  PROVE  Link!Drop(S)
<1>1. /\ pSend' = pSend \ S
      /\ \A b \in pSend' : sent'[b] = sent[b]
  BY DEF Unlink
<1>2. InFlight' = InFlight \ S
  BY <1>1 DEF InFlight
<1>3. (pSend \ InFlight)' = (pSend \ InFlight) \ S
  BY <1>1, <1>2
<1>4. Attempts' = IF InFlight \subseteq S THEN 0 ELSE Attempts
  <2>1. CASE InFlight \subseteq S
    <3>1. InFlight' = {}
      BY <1>2, <2>1
    <3> QED
      BY <3>1, <2>1 DEF Attempts
  <2>2. CASE ~(InFlight \subseteq S)
    <3>1. PICK b \in InFlight : b \notin S
      BY <2>2
    <3>2. InFlight = {b} /\ Attempts = sent[b]
      BY <3>1, InFlightUnique
    <3>3. InFlight' = {b}
      BY <1>2, <3>1, <3>2
    <3>4. (CHOOSE x \in InFlight : TRUE)' = b
      BY <3>3
    <3>5. Attempts' = sent'[b]
      BY <3>3, <3>4 DEF Attempts
    <3>6. b \in pSend'
      BY <1>1, <3>1 DEF InFlight
    <3> QED
      BY <1>1, <2>2, <3>2, <3>5, <3>6
  <2> QED
    BY <2>1, <2>2
<1> QED
  BY <1>2, <1>3, <1>4 DEF Link!Drop

(***************************************************************************)
(* A new command is one that waits.                                        *)
(***************************************************************************)
LEMMA ReqSendSubmits ==
  ASSUME NEW b \in Block, NEW addr \in Addr, NEW seq \in SeqNum,
         NEW ack \in BOOLEAN, IoInv, ReqSend(b, addr, seq, ack)
  PROVE  Link!Submit(b)
<1>1. /\ b \notin pSend
      /\ pSend' = pSend \cup {b}
      /\ sent' = With(sent, b, 0)
  BY DEF ReqSend, AddToSendList
<1>2. /\ sent'[b] = 0
      /\ \A x \in pSend : sent'[x] = sent[x]
  BY <1>1 DEF With
<1>3. InFlight' = InFlight
  BY <1>1, <1>2 DEF InFlight
<1>4. b \notin InFlight
  BY <1>1 DEF InFlight
<1>5. Attempts' = Attempts
  <2>1. CASE InFlight = {}
    BY <1>3, <2>1 DEF Attempts
  <2>2. CASE InFlight # {}
    <3> DEFINE h == CHOOSE x \in InFlight : TRUE
    <3>1. h \in InFlight /\ h \in pSend
      BY <2>2 DEF InFlight
    <3>2. h' = h
      BY <1>3
    <3>3. Attempts = sent[h] /\ Attempts' = sent'[h]
      BY <1>3, <2>2, <3>2 DEF Attempts
    <3> QED
      BY <1>2, <3>1, <3>3
  <2> QED
    BY <2>1, <2>2
<1> QED
  BY <1>1, <1>3, <1>4, <1>5 DEF Link!Submit

(***************************************************************************)
(* io_task begins with a command or sends it again.                        *)
(***************************************************************************)
LEMMA IoTaskSends ==
  ASSUME NEW b \in pSend, IoInv, IoInv', IoTaskSend(b)
  PROVE  Link!Begin(b) \/ Link!Again(b)
<1>1. /\ ahead[b] = {} /\ out[b].stry > 0
      /\ sent' = [sent EXCEPT ![b] = @ + 1]
      /\ pSend' = pSend
  BY DEF IoTaskSend, IsHead
<1>2. /\ sent[b] \in 0 .. IO_SEND_TRY
      /\ out[b].stry \in 0 .. IO_SEND_TRY
      /\ sent[b] + out[b].stry <= IO_SEND_TRY
  <2>1. out[b] \in Output /\ sent[b] \in 0 .. IO_SEND_TRY
    BY DEF IoInv, TypeOK
  <2>2. out[b].stry \in 0 .. IO_SEND_TRY /\ Budget(out[b].ack) \in 1 .. IO_SEND_TRY
    BY <2>1, BudgetType DEF Output
  <2> QED
    BY <2>1, <2>2, IoTryAssumption DEF IoInv, BudgetKept
<1>3. /\ sent'[b] = sent[b] + 1
      /\ \A x \in pSend \ {b} : sent'[x] = sent[x]
  BY <1>1 DEF IoInv, TypeOK
<1>4. \A x \in pSend \ {b} : sent[x] = 0
  BY <1>1 DEF IoInv, ListOrder, OnlyHeadSent
<1>5. b \in InFlight'
  BY <1>1, <1>2, <1>3 DEF InFlight
<1>6. InFlight' = {b} /\ Attempts' = sent'[b]
  <2>1. ASSUME NEW x \in InFlight' PROVE x = b
    BY <1>1, <1>3, <1>4 DEF InFlight
  <2>2. InFlight' = {b}
    BY <1>5, <2>1
  <2>3. (CHOOSE x \in InFlight : TRUE)' = b
    BY <2>2
  <2> QED
    BY <2>2, <2>3 DEF Attempts
<1>7. CASE sent[b] = 0
  <2>1. InFlight = {}
    BY <1>4, <1>7 DEF InFlight
  <2> QED
    BY <1>1, <1>3, <1>6, <1>7, <2>1 DEF Link!Begin
<1>8. CASE sent[b] > 0
  <2>1. b \in InFlight
    BY <1>8 DEF InFlight
  <2>2. InFlight = {b} /\ Attempts = sent[b]
    BY <2>1, InFlightUnique
  <2>3. Attempts < IO_SEND_TRY
    BY <1>1, <1>2, <2>2, IoTryAssumption
  <2> QED
    BY <1>1, <1>3, <1>6, <2>2, <2>3 DEF Link!Again
<1> QED
  BY <1>2, <1>7, <1>8

(***************************************************************************)
(* Every step of the send list is a step of the link or changes nothing    *)
(* the link knows of.                                                      *)
(***************************************************************************)
LEMMA StepRefines ==
  ASSUME IoInv, IoInv', [IoNext]_ioVars
  PROVE  [Link!SWNext]_(Link!swVars)
<1>1. ASSUME NEW S \in SUBSET pSend, Unlink(S)
      PROVE  Link!SWNext
  <2>1. S \in SUBSET Block
    BY DEF IoInv, TypeOK
  <2> QED
    BY <1>1, <2>1, UnlinkDrops DEF Link!SWNext
<1>2. ASSUME pSend' = pSend, sent' = sent
      PROVE  UNCHANGED Link!swVars
  BY <1>2 DEF Link!swVars, InFlight, Attempts
<1>3. ASSUME NEW b \in Block, NEW addr \in Addr, NEW seq \in SeqNum,
             NEW ack \in BOOLEAN, ReqSend(b, addr, seq, ack)
      PROVE  Link!SWNext
  BY <1>3, ReqSendSubmits DEF Link!SWNext
<1>4. ASSUME NEW addr \in Addr, NEW seq \in SeqNum, RemoveSend(addr, seq)
      PROVE  Link!SWNext
  <2>1. Removed(addr, seq, FALSE) \in SUBSET pSend
    BY DEF Removed
  <2>2. Unlink(Removed(addr, seq, FALSE))
    BY <1>4 DEF RemoveSend
  <2> QED
    BY <1>1, <2>1, <2>2
<1>5. CASE IoTimerFires
  BY <1>2, <1>5 DEF IoTimerFires
<1>6. CASE IoTask
  <2>1. ASSUME NEW b \in pSend, IoTaskSend(b) PROVE Link!SWNext
    <3>1. b \in Block
      BY DEF IoInv, TypeOK
    <3> QED
      BY <2>1, <3>1, IoTaskSends DEF Link!SWNext
  <2>2. ASSUME NEW b \in pSend, IoTaskGiveUp(b) PROVE Link!SWNext
    <3>1. Removed(out[b].addr, out[b].seq, out[b].ack) \in SUBSET pSend
      BY DEF Removed
    <3>2. Unlink(Removed(out[b].addr, out[b].seq, out[b].ack))
      BY <2>2 DEF IoTaskGiveUp
    <3> QED
      BY <1>1, <3>1, <3>2
  <2>3. CASE IoTaskEnd
    BY <1>2, <2>3 DEF IoTaskEnd
  <2> QED
    BY <1>6, <2>1, <2>2, <2>3 DEF IoTask
<1>7. CASE UNCHANGED ioVars
  BY <1>2, <1>7 DEF ioVars
<1> QED
  BY <1>3, <1>4, <1>5, <1>6, <1>7 DEF IoNext

(***************************************************************************)
(* The send list implements the stop-and-wait link.                        *)
(***************************************************************************)
THEOREM Refinement == IoSpec => ImplementsStopAndWait
<1>1. IoInit => Link!SWInit
  <2> SUFFICES ASSUME IoInit PROVE Link!SWInit
    OBVIOUS
  <2>1. pSend = {}
    BY DEF IoInit
  <2>2. InFlight = {}
    BY <2>1 DEF InFlight
  <2> QED
    BY <2>1, <2>2 DEF Link!SWInit, Attempts
<1>2. IoInv /\ IoInv' /\ [IoNext]_ioVars => [Link!SWNext]_(Link!swVars)
  BY StepRefines
<1> QED
  BY <1>1, <1>2, SendListInvariant, PTL
     DEF IoSpec, ImplementsStopAndWait, Link!SWSpec

(***************************************************************************)
(* What a removal that looks at the sequence number takes off the list     *)
(* carries one address and one sequence number.                            *)
(***************************************************************************)
LEMMA SameCommandGone ==
  ASSUME NEW addr, NEW seq, Unlink(Removed(addr, seq, FALSE))
  PROVE  \A b, c \in pSend \ pSend' :
           out[c].addr = out[b].addr /\ out[c].seq = out[b].seq
  BY DEF Unlink, Removed

(***************************************************************************)
(* A command that is given up and asked for an answer was sent             *)
(* IO_SEND_TRY times, and all that leaves with it goes to its device.      *)
(***************************************************************************)
LEMMA GivenUpAfterTries ==
  ASSUME IoInv, NEW h \in pSend, IoTaskGiveUp(h), out[h].ack
  PROVE  /\ h \in pSend \ pSend' /\ IsHead(h) /\ sent[h] = IO_SEND_TRY
         /\ \A b \in pSend \ pSend' : out[h].addr = out[b].addr
<1>1. IsHead(h) /\ out[h].stry = 0
      /\ Unlink(Removed(out[h].addr, out[h].seq, out[h].ack))
  BY DEF IoTaskGiveUp
<1>2. pSend \ pSend' = {b \in pSend : out[b].addr = out[h].addr}
  BY <1>1 DEF Unlink, Removed
<1>3. sent[h] = IO_SEND_TRY
  <2>1. sent[h] + out[h].stry = IO_SEND_TRY
    BY DEF IoInv, BudgetKept, Budget
  <2>2. sent[h] \in Nat /\ IO_SEND_TRY \in Nat
    BY IoTryAssumption DEF IoInv, TypeOK
  <2> QED BY <1>1, <2>1, <2>2
<1> QED BY <1>1, <1>2, <1>3

(***************************************************************************)
(* A command is dropped unsent only with others of its address and         *)
(* sequence number, or behind a command to its device that was given up    *)
(* after all its tries.                                                    *)
(***************************************************************************)
THEOREM UnsentDroppedHolds == IoSpec => UnsentDropped
<1>1. IoInv /\ IoNext => \A b \in Dropped : sent[b] = 0 => MayDropUnsent(b)
  <2> SUFFICES ASSUME IoInv, IoNext, NEW b \in Dropped PROVE MayDropUnsent(b)
    OBVIOUS
  <2>1. ASSUME NEW addr \in Addr, NEW seq \in SeqNum, RemoveSend(addr, seq)
        PROVE  MayDropUnsent(b)
    <3>1. Unlink(Removed(addr, seq, FALSE))
      BY <2>1 DEF RemoveSend
    <3>2. \A c \in Dropped : out[c].addr = out[b].addr /\ out[c].seq = out[b].seq
      BY <3>1, SameCommandGone DEF Dropped
    <3> QED BY <3>2 DEF MayDropUnsent
  <2>2. ASSUME NEW h \in pSend, IoTaskGiveUp(h) PROVE MayDropUnsent(b)
    <3>1. CASE out[h].ack
      BY <2>2, <3>1, GivenUpAfterTries DEF Dropped, MayDropUnsent
    <3>2. CASE ~out[h].ack
      <4>1. out[h].ack = FALSE
        BY <3>2 DEF IoInv, TypeOK, Output
      <4>2. Unlink(Removed(out[h].addr, out[h].seq, FALSE))
        BY <2>2, <4>1 DEF IoTaskGiveUp
      <4>3. \A c \in Dropped : out[c].addr = out[b].addr /\ out[c].seq = out[b].seq
        BY <4>2, SameCommandGone DEF Dropped
      <4> QED BY <4>3 DEF MayDropUnsent
    <3> QED BY <3>1, <3>2
  <2>3. ASSUME pSend \subseteq pSend' PROVE MayDropUnsent(b)
    BY <2>3 DEF Dropped
  <2>4. ASSUME NEW c \in Block, NEW addr \in Addr, NEW seq \in SeqNum,
               NEW ack \in BOOLEAN, ReqSend(c, addr, seq, ack)
        PROVE  MayDropUnsent(b)
    BY <2>3, <2>4 DEF ReqSend, AddToSendList
  <2>5. CASE IoTimerFires
    BY <2>3, <2>5 DEF IoTimerFires
  <2>6. CASE IoTask
    <3>1. ASSUME NEW h \in pSend, IoTaskSend(h) PROVE MayDropUnsent(b)
      BY <2>3, <3>1 DEF IoTaskSend
    <3>2. CASE IoTaskEnd
      BY <2>3, <3>2 DEF IoTaskEnd
    <3> QED BY <2>2, <2>6, <3>1, <3>2 DEF IoTask
  <2> QED BY <2>1, <2>4, <2>5, <2>6 DEF IoNext
<1>2. IoInv /\ [IoNext]_ioVars =>
        [\A b \in Dropped : sent[b] = 0 => MayDropUnsent(b)]_ioVars
  BY <1>1
<1> QED BY <1>2, SendListInvariant, PTL DEF IoSpec, UnsentDropped

(***************************************************************************)
(* No step reorders the commands that stay on the list.                    *)
(***************************************************************************)
THEOREM OrderAlwaysKept == IoSpec => OrderKept
<1> DEFINE Kept == \A a, b \in pSend \cap pSend' : a \in ahead[b] => a \in ahead'[b]
<1>1. IoNext => Kept
  <2> SUFFICES ASSUME IoNext PROVE Kept
    OBVIOUS
  <2>1. ASSUME NEW S, Unlink(S) PROVE Kept
    BY <2>1 DEF Unlink
  <2>2. ASSUME UNCHANGED ahead PROVE Kept
    BY <2>2
  <2>3. ASSUME NEW c \in Block, NEW addr \in Addr, NEW seq \in SeqNum,
               NEW ack \in BOOLEAN, ReqSend(c, addr, seq, ack)
        PROVE  Kept
    BY <2>3 DEF ReqSend, AddToSendList, With
  <2>4. ASSUME NEW addr \in Addr, NEW seq \in SeqNum, RemoveSend(addr, seq)
        PROVE  Kept
    BY <2>1, <2>4 DEF RemoveSend
  <2>5. CASE IoTimerFires
    BY <2>2, <2>5 DEF IoTimerFires
  <2>6. CASE IoTask
    BY <2>1, <2>2, <2>6 DEF IoTask, IoTaskSend, IoTaskGiveUp, IoTaskEnd
  <2> QED BY <2>3, <2>4, <2>5, <2>6 DEF IoNext
<1>2. [IoNext]_ioVars => [Kept]_ioVars
  BY <1>1
<1> QED BY <1>2, PTL DEF IoSpec, OrderKept
===========================================================================
