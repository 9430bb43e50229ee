--------------------------- MODULE GatewayProofs ---------------------------
(***************************************************************************)
(* Proofs about the gateway (Gateway): the send list and the interview of  *)
(* devices on one thread, for all sets of blocks, addresses, devices,      *)
(* endpoints and port numbers.                                             *)
(*                                                                         *)
(*   1. in the gateway the send list is the one of ZbIoBuffer, restarts    *)
(*      included, so that what was proved of it holds here;                *)
(*   2. list, link and radio together are the bag of questions of ZbZdo;   *)
(*   3. what was proved of the interview holds in the gateway.             *)
(***************************************************************************)
EXTENDS Gateway, ZbIoBufferProofs, FiniteSetTheorems, SequenceTheorems

\* The interview of the gateway and what is proved of it.
Z == INSTANCE ZbZdoProofs WITH
       asked <- [q \in Question |-> IF q \in UnderWay THEN 1 ELSE 0],
       MaxAsked <- 1, Calm <- FALSE

\* The questions of a handler wait in order; a block on the list holds a
\* question, which is granted one transmission, or a command.
WireTypes ==
  /\ todo \in Seq(Question)
  /\ what \in [pSend -> Ep \cup {0, COMMAND}]
  /\ \A b \in pSend : what[b] # COMMAND => out[b].ack = FALSE
  /\ air \subseteq Question

\* The inductive invariant.
GwInv == IoInv /\ WireTypes /\ Z!ZdoInv

---------------------------------------------------------------------------
(* 1. The send list *)

\* A restart leaves the list as it was at the start.
ListEmptied == IoInit'

\* The steps of the gateway are steps of the list, restarts of it, or leave
\* it alone.
LEMMA ListSteps == WireTypes /\ [GwNext]_gwVars => IoNext \/ ListEmptied \/ UNCHANGED ioVars
<1> SUFFICES ASSUME WireTypes, [GwNext]_gwVars
             PROVE  IoNext \/ ListEmptied \/ UNCHANGED ioVars
  OBVIOUS
<1>1. ASSUME NEW b \in Block, NEW seq \in SeqNum, PutQuestion(b, seq) PROVE IoNext
  <2>1. Head(todo) \in Question
    <3>1. todo \in Seq(Question) /\ todo # <<>>
      BY <1>1 DEF WireTypes, PutQuestion, Returned
    <3> HIDE DEF Question
    <3> QED BY <3>1
  <2>2. Head(todo).addr \in Addr
    BY <2>1 DEF Question
  <2> QED BY <1>1, <2>2 DEF PutQuestion, IoNext
<1>2. ASSUME NEW b \in Block, NEW a \in Addr, NEW seq \in SeqNum, SendCommand(b, a, seq)
      PROVE  IoNext
  BY <1>2 DEF SendCommand, IoNext
<1>3. ASSUME NEW a \in Addr, NEW seq \in SeqNum, ZclFrame(a, seq) PROVE IoNext
  BY <1>3 DEF ZclFrame, IoNext
<1>4. CASE IoTimer
  BY <1>4 DEF IoTimer, IoNext
<1>5. CASE GwIoTask
  BY <1>5 DEF GwIoTask, Transmit, GiveUp, IoNext, IoTask
<1>6. CASE GwRestart
  BY <1>6 DEF GwRestart, ListEmptied, IoInit
<1>7. CASE \/ NoBlock \/ ZdoTimer \/ zdo_task
           \/ \E d \in Dev, a \in Addr : Arrive(d, a)
           \/ \E d \in Dev : GoAway(d)
           \/ \E a \in Addr : active_ep_process(a)
           \/ \E a \in Addr, ep \in Ep : ep_describe_process(a, ep)
           \/ \E q \in Question : AirLoses(q)
  BY <1>7 DEF NoBlock, ZdoTimer, zdo_task, AskHead, Arrive, GoAway, active_ep_process,
              ep_describe_process, AirLoses, wirePart
<1>8. CASE UNCHANGED gwVars
  BY <1>8 DEF gwVars, wirePart
<1> QED BY <1>1, <1>2, <1>3, <1>4, <1>5, <1>6, <1>7, <1>8 DEF GwNext

\* The invariant of the list holds after a restart.
LEMMA EmptiedInv == ListEmptied => IoInv'
BY InitInv, PTL DEF ListEmptied

\* Every step of the gateway keeps the invariant of the list.
LEMMA ListInvStep == IoInv /\ WireTypes /\ [GwNext]_gwVars => IoInv'
BY ListSteps, EmptiedInv, NextInv

\* The constants of the gateway are some the interview may have.
LEMMA InterviewConstants ==
  /\ DEVICE_TRY \in Nat \ {0} /\ {FALSE, Reannounce} \subseteq BOOLEAN
  /\ MaxDevices \in Nat /\ MaxZdoMsgs \in Nat /\ 1 \in Nat /\ MaxCount \in 0 .. 254
  /\ Ep \subseteq 1 .. 254 /\ "none" \notin Addr /\ PortNum \subseteq Nat
BY GatewayAssumption

\* There are finitely many endpoints.
LEMMA EpNumber == Cardinality(Ep) \in Nat
<1>1. IsFiniteSet(Ep)
  <2>1. IsFiniteSet(1 .. 254)
    <3>1. 1 \in Int /\ 254 \in Int
      OBVIOUS
    <3> QED BY <3>1, FS_Interval, Zenon
  <2> QED BY <2>1, InterviewConstants, FS_Subset
<1> QED BY <1>1, FS_CardinalityType

\* The questions for the descriptors in the order of a list of the endpoints.
LEMMA DescQuestions ==
  ASSUME NEW a \in Addr, NEW s \in EpList
  PROVE  /\ [i \in DOMAIN s |-> Zdo!SimpleDesc(a, s[i])] \in Seq(Question)
         /\ \A i \in DOMAIN s : s[i] \in Ep
         /\ \A ep \in Ep : \E i \in DOMAIN s : s[i] = ep
<1>1. s \in [1 .. Cardinality(Ep) -> Ep] /\ \A ep \in Ep : \E i \in DOMAIN s : s[i] = ep
  BY DEF EpList
<1>2. [i \in 1 .. Cardinality(Ep) |-> Zdo!SimpleDesc(a, s[i])]
        \in [1 .. Cardinality(Ep) -> Question]
  BY <1>1 DEF Zdo!SimpleDesc, Question
<1> HIDE DEF Question
<1> QED BY <1>1, <1>2, EpNumber

\* The head of the list of new devices has an address.
LEMMA HeadHasAddr ==
  ASSUME Z!ZdoInv, pNewDevice # <<>>
  PROVE  Head(pNewDevice).addr \in Addr
<1>1. Head(pNewDevice) \in Z!Device
  BY InterviewConstants, Z!ListType
<1> QED BY <1>1, InterviewConstants, Z!DeviceFields

\* Every step of the gateway keeps the types of the questions.
LEMMA WireTypesStep ==
  ASSUME IoInv, Z!ZdoInv, WireTypes, [GwNext]_gwVars
  PROVE  WireTypes'
<1>0. /\ todo \in Seq(Question) /\ air \subseteq Question
      /\ what \in [pSend -> Ep \cup {0, COMMAND}]
      /\ \A b \in pSend : what[b] # COMMAND => out[b].ack = FALSE
      /\ out \in [pSend -> Output]
  BY DEF WireTypes, IoInv, TypeOK
<1>a. ASSUME todo # <<>> PROVE Head(todo) \in Question /\ Tail(todo) \in Seq(Question)
  <2> HIDE DEF Question
  <2> QED BY <1>0, <1>a
<1>b. <<>> \in Seq(Question)
  <2> HIDE DEF Question
  <2> QED OBVIOUS
<1>1. ASSUME NEW b \in Block, NEW seq \in SeqNum, PutQuestion(b, seq) PROVE WireTypes'
  <2>1. Head(todo).ep \in Ep \cup {0} /\ todo' = Tail(todo) /\ Tail(todo) \in Seq(Question)
    BY <1>1, <1>a DEF PutQuestion, Returned, Question
  <2>2. /\ pSend' = pSend \cup {b} /\ b \notin pSend
        /\ what' = With(what, b, Head(todo).ep) /\ air' = air
        /\ out'[b].ack = FALSE /\ \A x \in pSend : out'[x] = out[x]
    BY <1>1 DEF PutQuestion, ReqSend, AddToSendList, With
  <2>3. what' \in [pSend' -> Ep \cup {0, COMMAND}] /\ \A x \in pSend : what'[x] = what[x]
    BY <1>0, <2>1, <2>2 DEF With
  <2> QED BY <1>0, <2>1, <2>2, <2>3 DEF WireTypes
<1>2. ASSUME NEW b \in Block, NEW a \in Addr, NEW seq \in SeqNum, SendCommand(b, a, seq)
      PROVE  WireTypes'
  <2>1. /\ pSend' = pSend \cup {b} /\ b \notin pSend /\ todo' = todo
        /\ what' = With(what, b, COMMAND) /\ air' = air
        /\ \A x \in pSend : out'[x] = out[x]
    BY <1>2 DEF SendCommand, ReqSend, AddToSendList, With
  <2>2. /\ what' \in [pSend' -> Ep \cup {0, COMMAND}]
        /\ what'[b] = COMMAND /\ \A x \in pSend : what'[x] = what[x]
    BY <1>0, <2>1 DEF With
  <2> QED BY <1>0, <2>1, <2>2 DEF WireTypes
<1>3. ASSUME NEW S, Unlink(S), what' = Rest(what), todo' = todo, air' = air
      PROVE  WireTypes'
  <2>1. /\ pSend' \subseteq pSend /\ \A x \in pSend' : out'[x] = out[x]
        /\ what' \in [pSend' -> Ep \cup {0, COMMAND}]
        /\ \A x \in pSend' : what'[x] = what[x]
    BY <1>0, <1>3 DEF Unlink, Rest
  <2> QED BY <1>0, <1>3, <2>1 DEF WireTypes
<1>4. ASSUME UNCHANGED <<pSend, out, what>>, todo' \in Seq(Question), air' \subseteq Question
      PROVE  WireTypes'
  BY <1>0, <1>4 DEF WireTypes
<1>5. ASSUME NEW a \in Addr, NEW seq \in SeqNum, ZclFrame(a, seq) PROVE WireTypes'
  BY <1>3, <1>5 DEF ZclFrame, RemoveSend
<1>6. CASE IoTimer
  BY <1>0, <1>4, <1>6 DEF IoTimer, IoTimerFires
<1>7. CASE GwIoTask
  <2>1. ASSUME NEW b \in pSend, Transmit(b) PROVE WireTypes'
    <3>1. /\ pSend' = pSend /\ what' = what /\ todo' = todo
          /\ out' = [out EXCEPT ![b].stry = @ - 1]
      BY <2>1 DEF Transmit, IoTaskSend
    <3>2. \A x \in pSend : out'[x].ack = out[x].ack
      BY <1>0, <3>1 DEF Output
    <3>3. air' \subseteq Question
      <4>1. what[b] # COMMAND => QuestionOf(b) \in Question
        BY <1>0 DEF QuestionOf, Question, Output
      <4> QED BY <1>0, <2>1, <4>1 DEF Transmit
    <3> QED BY <1>0, <3>1, <3>2, <3>3 DEF WireTypes
  <2>2. ASSUME NEW b \in pSend, GiveUp(b) PROVE WireTypes'
    BY <1>3, <2>2 DEF GiveUp, IoTaskGiveUp
  <2>3. CASE IoTaskEnd /\ UNCHANGED <<zdoPart, todo, what, air>>
    BY <1>0, <1>4, <2>3 DEF IoTaskEnd
  <2> QED BY <1>7, <2>1, <2>2, <2>3 DEF GwIoTask, Transmit, GiveUp
<1>8. CASE NoBlock
  BY <1>0, <1>4, <1>8, <1>a DEF NoBlock, Returned, ioVars
<1>9. ASSUME NEW a \in Addr, active_ep_process(a) PROVE WireTypes'
  <2>1. todo' \in Seq(Question)
    BY <1>9, DescQuestions DEF active_ep_process
  <2> QED BY <1>0, <1>4, <1>9, <2>1 DEF active_ep_process, Answered, ioVars
<1>10. ASSUME NEW a \in Addr, NEW ep \in Ep, ep_describe_process(a, ep) PROVE WireTypes'
  BY <1>0, <1>4, <1>10 DEF ep_describe_process, Answered, ioVars
<1>11. CASE AskHead
  <2>1. Zdo!ActiveEp(Head(pNewDevice).addr) \in Question
    <3>1. Head(pNewDevice).addr \in Addr
      BY <1>11, HeadHasAddr DEF AskHead, Zdo!UseTry
    <3> QED BY <3>1 DEF Zdo!ActiveEp, Question
  <2>2. todo' \in Seq(Question)
    <3> HIDE DEF Question
    <3> QED BY <1>11, <2>1 DEF AskHead
  <2> QED BY <1>0, <1>4, <1>11, <2>2 DEF AskHead, ioVars
<1>12. CASE UNCHANGED wirePart
  BY <1>0, <1>4, <1>12 DEF wirePart, ioVars
<1>13. ASSUME NEW q \in Question, AirLoses(q) PROVE WireTypes'
  BY <1>0, <1>4, <1>13 DEF AirLoses, ioVars
<1>14. CASE GwRestart
  <2>1. pSend' = {} /\ todo' = <<>> /\ what' = [b \in {} |-> 0] /\ air' = air
    BY <1>14 DEF GwRestart
  <2>2. what' \in [pSend' -> Ep \cup {0, COMMAND}]
    BY <2>1
  <2> QED BY <1>0, <1>b, <2>1, <2>2 DEF WireTypes
<1>15. CASE zdo_task
  BY <1>11, <1>12, <1>15 DEF zdo_task
<1>16. ASSUME NEW d \in Dev, NEW a \in Addr, Arrive(d, a) PROVE WireTypes'
  BY <1>12, <1>16 DEF Arrive
<1>17. ASSUME NEW d \in Dev, GoAway(d) PROVE WireTypes'
  BY <1>12, <1>17 DEF GoAway
<1>18. CASE ZdoTimer
  BY <1>12, <1>18 DEF ZdoTimer
<1>19. CASE UNCHANGED gwVars
  BY <1>12, <1>19 DEF gwVars
<1> QED
  BY <1>1, <1>2, <1>5, <1>6, <1>7, <1>8, <1>9, <1>10, <1>13, <1>14, <1>15, <1>16,
     <1>17, <1>18, <1>19
  DEF GwNext

---------------------------------------------------------------------------
(* 2. The bag of questions *)

\* A step after which no other questions are under way, with the rest of the
\* interview as it was, loses questions in ZbZdo or is none of its steps.
LEMMA FewerUnderWay ==
  ASSUME UNCHANGED zdoPart, air' \subseteq UnderWay,
         \A i \in DOMAIN todo' : todo'[i] \in UnderWay,
         \A b \in Unsent' : QuestionOf(b)' \in UnderWay
  PROVE  [Zdo!ZdoNext]_(Zdo!zdoVars)
<1>1. UnderWay' \subseteq UnderWay
  BY DEF UnderWay
<1> DEFINE Gone == {q \in Question : q \in UnderWay /\ q \notin UnderWay'}
           Bag == [q \in Question |-> IF q \in UnderWay THEN 1 ELSE 0]
<1>2. CASE Gone = {}
  <2>1. \A q \in Question : q \in UnderWay <=> q \in UnderWay'
    BY <1>1, <1>2
  <2>2. Bag' = Bag
    BY <2>1
  <2> QED BY <2>2 DEF Zdo!zdoVars, zdoPart
<1>3. CASE Gone # {}
  <2>1. PICK Q \in SUBSET Question : Q = Gone
    OBVIOUS
  <2>2. \A q \in Q : q \in Question /\ Bag[q] = 1
    BY <2>1
  <2>3. Bag' = [q \in Question |-> IF q \in Q THEN Bag[q] - 1 ELSE Bag[q]]
    BY <1>1, <2>1
  <2>4. Q # {} /\ Q \in SUBSET {q \in Zdo!Question : Bag[q] > 0}
    BY <1>3, <2>1, <2>2 DEF Zdo!Question, Question
  <2>5. Zdo!Lose(Q)
    BY <2>2, <2>3, <2>4 DEF Zdo!Lose, Zdo!TakeOut, Zdo!Question, Question, zdoPart
  <2> QED BY <2>4, <2>5 DEF Zdo!ZdoNext
<1> QED BY <1>2, <1>3

\* Asking in ZbZdo, when the questions under way are those of Q and the rest.
LEMMA AskedUnderWay ==
  ASSUME NEW Q \in SUBSET Question, NEW rest \in SUBSET Question, NEW left,
         left = [q \in Question |-> IF q \in rest THEN 1 ELSE 0],
         \A q \in Question : q \in UnderWay' <=> q \in Q \cup rest
  PROVE  [q \in Question |-> IF q \in UnderWay THEN 1 ELSE 0]' = Zdo!Ask(left, Q)
  BY DEF Zdo!Ask, Zdo!Question, Question

\* What is under way when an answer is taken in: the rest, and perhaps the
\* question, which may be answered again.
LEMMA AnswerUnderWay ==
  ASSUME NEW q \in Question, q \in UnderWay, NEW rest \in SUBSET Question,
         \A r \in Question : r # q => (r \in rest <=> r \in UnderWay)
  PROVE  /\ Zdo!CanAnswer(q)
         /\ [r \in Question |-> IF r \in rest THEN 1 ELSE 0] \in Zdo!Answer(q)
<1> DEFINE Bag == [r \in Question |-> IF r \in UnderWay THEN 1 ELSE 0]
           Left == [r \in Question |-> IF r \in rest THEN 1 ELSE 0]
<1>1. Bag[q] = 1
  OBVIOUS
<1>2. CASE q \in rest
  <2>1. Left = Bag
    BY <1>2
  <2> QED BY <1>1, <2>1 DEF Zdo!CanAnswer, Zdo!Answer
<1>3. CASE q \notin rest
  <2>1. Left[q] = Bag[q] - 1
    BY <1>1, <1>3
  <2>2. \A r \in Question : r # q => Left[r] = Bag[r]
    OBVIOUS
  <2>3. Left = [Bag EXCEPT ![q] = @ - 1]
    BY <2>1, <2>2
  <2> QED BY <1>1, <2>3 DEF Zdo!CanAnswer, Zdo!Answer
<1> QED BY <1>2, <1>3

\* What the list holds after blocks were taken off it was under way.
LEMMA UnlinkedUnderWay ==
  ASSUME NEW S, Unlink(S), what' = Rest(what), UNCHANGED <<zdoPart, todo, air>>
  PROVE  [Zdo!ZdoNext]_(Zdo!zdoVars)
<1>1. ASSUME NEW b \in Unsent' PROVE QuestionOf(b)' \in UnderWay
  <2>1. b \in Unsent /\ QuestionOf(b)' = QuestionOf(b)
    BY DEF Unlink, Rest, Unsent, QuestionOf
  <2> QED BY <2>1 DEF UnderWay
<1> QED BY <1>1, FewerUnderWay DEF UnderWay

\* A question that goes on the list was under way in the handler.
LEMMA PutImplements ==
  ASSUME WireTypes, NEW b \in Block, NEW seq \in SeqNum, PutQuestion(b, seq)
  PROVE  [Zdo!ZdoNext]_(Zdo!zdoVars)
<1>1. /\ Head(todo) = todo[1] /\ 1 \in DOMAIN todo /\ todo[1] \in Question
      /\ \A i \in DOMAIN Tail(todo) : i + 1 \in DOMAIN todo /\ Tail(todo)[i] = todo[i + 1]
  <2>1. todo \in Seq(Question) /\ todo # <<>>
    BY DEF WireTypes, PutQuestion, Returned
  <2> HIDE DEF Question
  <2> QED BY <2>1
<1>2. \A i \in DOMAIN todo' : todo'[i] \in UnderWay
  BY <1>1 DEF PutQuestion, UnderWay
<1>3. ASSUME NEW x \in Unsent' PROVE QuestionOf(x)' \in UnderWay
  <2>1. CASE x = b
    <3>1. QuestionOf(x)' = [addr |-> todo[1].addr, ep |-> todo[1].ep]
      BY <1>1, <2>1 DEF PutQuestion, ReqSend, With, QuestionOf
    <3>2. QuestionOf(x)' = todo[1]
      BY <1>1, <3>1 DEF Question
    <3> QED BY <1>1, <3>2 DEF UnderWay
  <2>2. CASE x # b
    <3>1. x \in Unsent /\ QuestionOf(x)' = QuestionOf(x)
      BY <2>2 DEF PutQuestion, ReqSend, AddToSendList, With, Unsent, QuestionOf
    <3> QED BY <3>1 DEF UnderWay
  <2> QED BY <2>1, <2>2
<1> QED BY <1>2, <1>3, FewerUnderWay DEF PutQuestion, UnderWay

\* A command of the application is no question.
LEMMA CommandImplements ==
  ASSUME NEW b \in Block, NEW a \in Addr, NEW seq \in SeqNum, SendCommand(b, a, seq)
  PROVE  [Zdo!ZdoNext]_(Zdo!zdoVars)
<1>1. ASSUME NEW x \in Unsent' PROVE QuestionOf(x)' \in UnderWay
  <2>1. x \in Unsent /\ QuestionOf(x)' = QuestionOf(x)
    BY DEF SendCommand, ReqSend, AddToSendList, With, Unsent, QuestionOf
  <2> QED BY <2>1 DEF UnderWay
<1> QED BY <1>1, FewerUnderWay DEF SendCommand, UnderWay

\* io_task puts a question on the wire that was not there yet: a question has
\* one transmission, and the list keeps the account of it.
LEMMA TransmitImplements ==
  ASSUME IoInv, WireTypes, NEW b \in pSend, Transmit(b)
  PROVE  [Zdo!ZdoNext]_(Zdo!zdoVars)
<1>0. /\ out \in [pSend -> Output] /\ sent \in [pSend -> 0 .. IO_SEND_TRY]
      /\ pSend' = pSend /\ what' = what /\ out[b].stry > 0
      /\ out' = [out EXCEPT ![b].stry = @ - 1] /\ sent' = [sent EXCEPT ![b] = @ + 1]
  BY DEF IoInv, TypeOK, Transmit, IoTaskSend
<1>1. \A x \in pSend : out'[x].addr = out[x].addr /\ (sent'[x] = 0 => sent[x] = 0)
  BY <1>0, IoTryAssumption DEF Output
<1>2. what[b] # COMMAND => QuestionOf(b) \in UnderWay
  <2> SUFFICES ASSUME what[b] # COMMAND PROVE b \in Unsent
    BY DEF UnderWay
  <2>1. sent[b] + out[b].stry = 1
    BY DEF IoInv, BudgetKept, Budget, WireTypes
  <2>2. sent[b] \in Nat /\ out[b].stry \in Nat
    BY <1>0, IoTryAssumption DEF Output
  <2> QED BY <1>0, <2>1, <2>2 DEF Unsent
<1>3. ASSUME NEW x \in Unsent' PROVE QuestionOf(x)' \in UnderWay
  <2>1. x \in Unsent /\ QuestionOf(x)' = QuestionOf(x)
    BY <1>0, <1>1 DEF Unsent, QuestionOf
  <2> QED BY <2>1 DEF UnderWay
<1>4. air' \subseteq UnderWay
  BY <1>2 DEF Transmit, UnderWay
<1> QED BY <1>3, <1>4, FewerUnderWay DEF Transmit, UnderWay

\* An answer with the endpoints is taken in: the question may be answered
\* again, and the descriptors of all the endpoints are asked for.
LEMMA ActiveEpImplements ==
  ASSUME WireTypes, NEW a \in Addr, active_ep_process(a)
  PROVE  Zdo!ActiveEpRsp(a)
<1> DEFINE q == Zdo!ActiveEp(a)
           descs == {Zdo!SimpleDesc(a, ep) : ep \in Ep}
           rest == ({QuestionOf(b) : b \in Unsent} \cup air') \cap Question
<1>1. q \in Question /\ descs \subseteq Question
  BY DEF Zdo!ActiveEp, Zdo!SimpleDesc, Question
<1>2. q \in air /\ air' \in {air, air \ {q}} /\ todo = <<>> /\ UNCHANGED <<ioVars, what>>
  BY DEF active_ep_process, Answered, Returned
<1>3. PICK s \in EpList : todo' = [i \in DOMAIN s |-> Zdo!SimpleDesc(a, s[i])]
  BY DEF active_ep_process
<1>4. {todo'[i] : i \in DOMAIN todo'} = descs
  BY <1>3, DescQuestions
<1>5. {QuestionOf(b)' : b \in Unsent'} = {QuestionOf(b) : b \in Unsent}
  BY <1>2 DEF Unsent, QuestionOf, ioVars
<1>6. \A r \in Question : r \in UnderWay' <=> r \in descs \cup rest
  BY <1>4, <1>5 DEF UnderWay
<1>7. \A r \in Question : r # q => (r \in rest <=> r \in UnderWay)
  BY <1>2 DEF UnderWay
<1>8. q \in UnderWay
  BY <1>2 DEF UnderWay
<1> HIDE DEF q, descs, rest
<1>9. PICK left : left = [r \in Question |-> IF r \in rest THEN 1 ELSE 0]
  OBVIOUS
<1>10. rest \subseteq Question
  BY DEF rest
<1>11. Zdo!CanAnswer(q) /\ left \in Zdo!Answer(q)
  BY <1>1, <1>7, <1>8, <1>9, <1>10, AnswerUnderWay
<1>12. [r \in Question |-> IF r \in UnderWay THEN 1 ELSE 0]' = Zdo!Ask(left, descs)
  BY <1>1, <1>6, <1>9, <1>10, AskedUnderWay
<1> QED BY <1>11, <1>12 DEF Zdo!ActiveEpRsp, active_ep_process, q, descs

\* A descriptor is taken in, and may come again.
LEMMA DescImplements ==
  ASSUME WireTypes, NEW a \in Addr, NEW ep \in Ep, ep_describe_process(a, ep)
  PROVE  Zdo!SimpleDescRsp(a, ep)
<1> DEFINE q == Zdo!SimpleDesc(a, ep)
           rest == UnderWay' \cap Question
<1>1. q \in Question
  BY DEF Zdo!SimpleDesc, Question
<1>2. /\ q \in air /\ air' \in {air, air \ {q}}
      /\ UNCHANGED <<ioVars, todo, what>>
  BY DEF ep_describe_process, Answered
<1>3. {QuestionOf(b)' : b \in Unsent'} = {QuestionOf(b) : b \in Unsent}
  BY <1>2 DEF Unsent, QuestionOf, ioVars
<1>4. \A r \in Question : r # q => (r \in rest <=> r \in UnderWay)
  BY <1>2, <1>3 DEF UnderWay
<1>5. q \in UnderWay
  BY <1>2 DEF UnderWay
<1> HIDE DEF q
<1>6. PICK R \in SUBSET Question : R = rest
  OBVIOUS
<1>7. [r \in Question |-> IF r \in UnderWay THEN 1 ELSE 0]'
        = [r \in Question |-> IF r \in R THEN 1 ELSE 0]
  BY <1>6
<1> HIDE DEF rest
<1>8. /\ Zdo!CanAnswer(q)
      /\ [r \in Question |-> IF r \in R THEN 1 ELSE 0] \in Zdo!Answer(q)
  BY <1>1, <1>4, <1>5, <1>6, AnswerUnderWay
<1> QED BY <1>7, <1>8 DEF Zdo!SimpleDescRsp, ep_describe_process, q

\* The task asks the head of the list: one question more is under way.
LEMMA AskHeadImplements ==
  ASSUME Z!ZdoInv, Returned, AskHead
  PROVE  Zdo!ZdoTaskAsk
<1> DEFINE q == Zdo!ActiveEp(Head(pNewDevice).addr)
           rest == UnderWay \cap Question
           Bag == [r \in Question |-> IF r \in UnderWay THEN 1 ELSE 0]
<1>1. q \in Question
  <2>1. Head(pNewDevice).addr \in Addr
    BY HeadHasAddr DEF AskHead, Zdo!UseTry
  <2> QED BY <2>1 DEF Zdo!ActiveEp, Question
<1>2. todo = <<>> /\ todo' = <<q>> /\ UNCHANGED <<ioVars, what, air>>
  BY DEF AskHead, Returned
<1>3. {QuestionOf(b)' : b \in Unsent'} = {QuestionOf(b) : b \in Unsent}
  BY <1>2 DEF Unsent, QuestionOf, ioVars
<1>4. {todo'[i] : i \in DOMAIN todo'} = {q} /\ DOMAIN todo = {}
  BY <1>2
<1>5. \A r \in Question : r \in UnderWay' <=> r \in {q} \cup rest
  BY <1>2, <1>3, <1>4 DEF UnderWay
<1>6. Bag = [r \in Question |-> IF r \in rest THEN 1 ELSE 0]
  OBVIOUS
<1> HIDE DEF q
<1>7. {q} \in SUBSET Question /\ rest \in SUBSET Question
  BY <1>1
<1>8. Bag' = Zdo!Ask(Bag, {q})
  <2> HIDE DEF rest
  <2> QED BY <1>5, <1>6, <1>7, AskedUnderWay
<1> QED BY <1>8 DEF Zdo!ZdoTaskAsk, AskHead, q

\* A restart loses what the gateway held, questions on the wire may still be
\* answered.
LEMMA RestartImplements ==
  ASSUME GwRestart
  PROVE  Zdo!Restart
<1> DEFINE Gone == {q \in Question : q \in UnderWay /\ q \notin UnderWay'}
           Bag == [q \in Question |-> IF q \in UnderWay THEN 1 ELSE 0]
<1>1. UnderWay' = air /\ air \subseteq UnderWay
  <2>1. pSend' = {} /\ DOMAIN todo' = {} /\ air' = air
    BY DEF GwRestart
  <2>2. Unsent' = {}
    BY <2>1 DEF Unsent
  <2> QED BY <2>1, <2>2 DEF UnderWay
<1>2. PICK Q \in SUBSET Question : Q = Gone
  OBVIOUS
<1>3. Bag' = [q \in Question |-> IF q \in Q THEN Bag[q] - 1 ELSE Bag[q]]
  BY <1>1, <1>2
<1>4. Q \in SUBSET {q \in Zdo!Question : Bag[q] > 0}
  BY <1>2 DEF Zdo!Question, Question
<1>5. Bag' = Zdo!TakeOut(Bag, Q)
  BY <1>3 DEF Zdo!TakeOut, Zdo!Question, Question
<1> QED BY <1>4, <1>5 DEF Zdo!Restart, GwRestart

\* Every step of the gateway is a step of ZbZdo or changes nothing there.
LEMMA StepImplements ==
  ASSUME GwInv, [GwNext]_gwVars
  PROVE  [Zdo!ZdoNext]_(Zdo!zdoVars)
<1>0. IoInv /\ WireTypes /\ Z!ZdoInv
  BY DEF GwInv
<1>1. ASSUME NEW b \in Block, NEW seq \in SeqNum, PutQuestion(b, seq)
      PROVE  [Zdo!ZdoNext]_(Zdo!zdoVars)
  BY <1>0, <1>1, PutImplements
<1>2. CASE NoBlock
  <2>1. \A i \in DOMAIN Tail(todo) : i + 1 \in DOMAIN todo /\ Tail(todo)[i] = todo[i + 1]
    <3>1. todo \in Seq(Question) /\ todo # <<>>
      BY <1>0, <1>2 DEF WireTypes, NoBlock, Returned
    <3> HIDE DEF Question
    <3> QED BY <3>1
  <2>2. \A i \in DOMAIN todo' : todo'[i] \in UnderWay
    BY <1>2, <2>1 DEF NoBlock, UnderWay
  <2>3. \A b \in Unsent' : QuestionOf(b)' \in UnderWay
    BY <1>2 DEF NoBlock, Unsent, QuestionOf, ioVars, UnderWay
  <2> QED BY <1>2, <2>2, <2>3, FewerUnderWay DEF NoBlock, UnderWay
<1>3. ASSUME NEW b \in Block, NEW a \in Addr, NEW seq \in SeqNum, SendCommand(b, a, seq)
      PROVE  [Zdo!ZdoNext]_(Zdo!zdoVars)
  BY <1>3, CommandImplements
<1>4. ASSUME NEW a \in Addr, NEW seq \in SeqNum, ZclFrame(a, seq)
      PROVE  [Zdo!ZdoNext]_(Zdo!zdoVars)
  BY <1>4, UnlinkedUnderWay DEF ZclFrame, RemoveSend
<1>5. ASSUME UNCHANGED <<zdoPart, pSend, out, sent, todo, what>>, air' \subseteq air
      PROVE  [Zdo!ZdoNext]_(Zdo!zdoVars)
  <2>1. \A b \in Unsent' : QuestionOf(b)' \in UnderWay
    BY <1>5 DEF Unsent, QuestionOf, UnderWay
  <2> QED BY <1>5, <2>1, FewerUnderWay DEF UnderWay
<1>6. CASE IoTimer
  BY <1>5, <1>6 DEF IoTimer, IoTimerFires
<1>7. CASE GwIoTask
  <2>1. ASSUME NEW b \in pSend, Transmit(b) PROVE [Zdo!ZdoNext]_(Zdo!zdoVars)
    BY <1>0, <2>1, TransmitImplements
  <2>2. ASSUME NEW b \in pSend, GiveUp(b) PROVE [Zdo!ZdoNext]_(Zdo!zdoVars)
    BY <2>2, UnlinkedUnderWay DEF GiveUp, IoTaskGiveUp
  <2>3. CASE IoTaskEnd /\ UNCHANGED <<zdoPart, todo, what, air>>
    BY <1>5, <2>3 DEF IoTaskEnd
  <2> QED BY <1>7, <2>1, <2>2, <2>3 DEF GwIoTask, Transmit, GiveUp
<1>8. ASSUME NEW q \in Question, AirLoses(q)
      PROVE  [Zdo!ZdoNext]_(Zdo!zdoVars)
  BY <1>5, <1>8 DEF AirLoses, ioVars
<1>9. CASE UNCHANGED gwVars
  BY <1>5, <1>9 DEF gwVars, wirePart, ioVars
<1>10. ASSUME NEW a \in Addr, active_ep_process(a) PROVE Zdo!ZdoNext
  BY <1>0, <1>10, ActiveEpImplements DEF Zdo!ZdoNext
<1>11. ASSUME NEW a \in Addr, NEW ep \in Ep, ep_describe_process(a, ep) PROVE Zdo!ZdoNext
  BY <1>0, <1>11, DescImplements DEF Zdo!ZdoNext
<1>12. CASE zdo_task
  BY <1>0, <1>12, AskHeadImplements DEF zdo_task, Zdo!ZdoNext, Zdo!zdo_task
<1>13. ASSUME NEW d \in Dev, NEW a \in Addr, Arrive(d, a) PROVE Zdo!ZdoNext
  BY <1>13 DEF Arrive, Zdo!ZdoNext
<1>14. ASSUME NEW d \in Dev, GoAway(d) PROVE Zdo!ZdoNext
  BY <1>14 DEF GoAway, Zdo!ZdoNext
<1>15. CASE ZdoTimer
  BY <1>15 DEF ZdoTimer, Zdo!ZdoNext
<1>16. CASE GwRestart
  BY <1>16, RestartImplements DEF Zdo!ZdoNext
<1> QED
  BY <1>1, <1>2, <1>3, <1>4, <1>6, <1>7, <1>8, <1>9, <1>10, <1>11, <1>12, <1>13,
     <1>14, <1>15, <1>16
  DEF GwNext

---------------------------------------------------------------------------
(* 3. The interview in the gateway *)

\* Zdo and Z are the same instance of ZbZdo, the second with its theorems.
LEMMA SameTables ==
  ASSUME NEW t, NEW v, NEW d, NEW a, NEW ep
  PROVE  /\ Zdo!zb_delete_device_by_exaddr(t, v) = Z!zb_delete_device_by_exaddr(t, v)
         /\ Zdo!zb_delete_device(t, v) = Z!zb_delete_device(t, v)
         /\ Zdo!zb_create_port(t, d, a, ep) = Z!zb_create_port(t, d, a, ep)
  BY DEF Zdo!zb_delete_device_by_exaddr, Z!zb_delete_device_by_exaddr,
         Zdo!zb_delete_device, Z!zb_delete_device, Zdo!zb_create_port,
         Z!zb_create_port, Zdo!DeleteMatching, Z!DeleteMatching,
         Zdo!DeletePort, Z!DeletePort, Zdo!PortByIndex, Z!PortByIndex,
         Zdo!PortsWith, Z!PortsWith, Zdo!Cardinality, Z!Cardinality

\* Devices come and go in the same way.
LEMMA SameArrivals ==
  ASSUME NEW d, NEW a
  PROVE  /\ Zdo!Announce(d, a) <=> Z!Announce(d, a)
         /\ Zdo!AnnounceNoMemory(d, a) <=> Z!AnnounceNoMemory(d, a)
         /\ Zdo!Leave(d) <=> Z!Leave(d)
  BY SameTables DEF Zdo!Announce, Z!Announce, Zdo!AnnounceNoMemory, Z!AnnounceNoMemory,
         Zdo!Leave, Z!Leave, Zdo!Listed, Z!Listed, Zdo!FirstAt,
         Z!FirstAt, Zdo!Quiet, Z!Quiet, Zdo!Question, Z!Question,
         Zdo!StartTask, Z!StartTask, Zdo!NOT_KNOWN, Z!NOT_KNOWN,
         Zdo!PortsOf, Z!PortsOf, Zdo!PortsWith, Z!PortsWith

\* Answers are taken in in the same way.
LEMMA SameAnswers ==
  ASSUME NEW a, NEW ep
  PROVE  /\ Zdo!ActiveEpRsp(a) <=> Z!ActiveEpRsp(a)
         /\ Zdo!SimpleDescRsp(a, ep) <=> Z!SimpleDescRsp(a, ep)
  BY SameTables DEF Zdo!ActiveEpRsp, Z!ActiveEpRsp, Zdo!SimpleDescRsp, Z!SimpleDescRsp,
         Zdo!set_point_num, Z!set_point_num, Zdo!ep_describe_process,
         Z!ep_describe_process, Zdo!CanAnswer, Z!CanAnswer,
         Zdo!Answer, Z!Answer, Zdo!Ask, Z!Ask, Zdo!ActiveEp,
         Z!ActiveEp, Zdo!SimpleDesc, Z!SimpleDesc, Zdo!Present,
         Z!Present, Zdo!FirstAt, Z!FirstAt, Zdo!Question, Z!Question,
         Zdo!Cardinality, Z!Cardinality

\* The task, the timer, losses and restarts are the same.
LEMMA SameTask ==
  /\ Zdo!zdo_task <=> Z!zdo_task
  /\ Zdo!ZdoTimerFires <=> Z!ZdoTimerFires
  /\ Zdo!Restart <=> Z!Restart
  /\ \A Q : Zdo!Lose(Q) <=> Z!Lose(Q)
  BY DEF Zdo!zdo_task, Z!zdo_task, Zdo!ZdoTaskPop, Z!ZdoTaskPop,
         Zdo!ZdoTaskAsk, Z!ZdoTaskAsk, Zdo!ZdoTaskEnd, Z!ZdoTaskEnd,
         Zdo!UseTry, Z!UseTry, Zdo!HeadFinished, Z!HeadFinished,
         Zdo!Ask, Z!Ask, Zdo!ActiveEp, Z!ActiveEp, Zdo!Question,
         Z!Question, Zdo!ZdoTimerFires, Z!ZdoTimerFires, Zdo!Quiet,
         Z!Quiet, Zdo!Restart, Z!Restart, Zdo!TakeOut, Z!TakeOut,
         Zdo!Lose, Z!Lose, Zdo!Present, Z!Present

\* One and the same next-state relation.
LEMMA SameNext == [Zdo!ZdoNext]_(Zdo!zdoVars) => [Z!ZdoNext]_(Z!zdoVars)
<1>1. Zdo!ZdoNext => Z!ZdoNext
  BY SameArrivals, SameAnswers, SameTask
  DEF Zdo!ZdoNext, Z!ZdoNext, Zdo!Question, Z!Question
<1> QED BY <1>1 DEF Zdo!zdoVars, Z!zdoVars

\* The interview starts in the gateway as it does in ZbZdo.
LEMMA InitImplements == GwInit => Zdo!ZdoInit /\ Z!ZdoInit
<1> SUFFICES ASSUME GwInit PROVE Zdo!ZdoInit /\ Z!ZdoInit
  OBVIOUS
<1>1. UnderWay = {}
  <2>1. pSend = {} /\ DOMAIN todo = {} /\ air = {}
    BY DEF GwInit, IoInit
  <2>2. Unsent = {}
    BY <2>1 DEF Unsent
  <2> QED BY <2>1, <2>2 DEF UnderWay
<1>2. [q \in Question |-> IF q \in UnderWay THEN 1 ELSE 0] = [q \in Question |-> 0]
  BY <1>1
<1> QED BY <1>2 DEF GwInit, Zdo!ZdoInit, Z!ZdoInit, Zdo!Question, Z!Question, Question,
                    Zdo!NoPorts, Z!NoPorts

\* The invariant holds at the start.
LEMMA GwInitInv == GwInit => GwInv
<1> SUFFICES ASSUME GwInit PROVE GwInv
  OBVIOUS
<1>1. IoInv
  BY InitInv DEF GwInit
<1>2. WireTypes
  <2>1. todo \in Seq(Question)
    <3> HIDE DEF Question
    <3> QED BY DEF GwInit
  <2>2. pSend = {} /\ what = [b \in {} |-> 0] /\ air = {}
    BY DEF GwInit, IoInit
  <2> QED BY <2>1, <2>2 DEF WireTypes
<1>3. Z!ZdoInv
  BY InitImplements, InterviewConstants, Z!InitTypes
<1> QED BY <1>1, <1>2, <1>3 DEF GwInv

\* A step is one of the interview Z, or changes nothing there.
LEMMA StepOfZ == GwInv /\ [GwNext]_gwVars => [Z!ZdoNext]_(Z!zdoVars)
BY StepImplements, SameNext

\* Every step of the gateway keeps the invariant: as a step of the list, with
\* the questions, and as a step of ZbZdo.
LEMMA GwInvStep == GwInv /\ [GwNext]_gwVars => GwInv'
<1> SUFFICES ASSUME GwInv, [GwNext]_gwVars PROVE GwInv'
  OBVIOUS
<1>0. IoInv /\ WireTypes /\ Z!ZdoInv
  BY DEF GwInv
<1>1. IoInv'
  BY <1>0, ListInvStep
<1>2. WireTypes'
  BY <1>0, WireTypesStep
<1>3. Z!ZdoInv'
  BY <1>0, StepOfZ, InterviewConstants, Z!TypeStep
<1> QED BY <1>1, <1>2, <1>3 DEF GwInv

\* The invariant of the gateway.
THEOREM GwInvariant == GwSpec => []GwInv
BY GwInitInv, GwInvStep, PTL DEF GwSpec

\* The send list, the link and the radio are to the interview the bag of
\* questions ZbZdo assumes: whatever the application sends between the
\* questions (zcl_SendCommand), whatever a report takes off the list with the
\* number of a question (zb_zcl_message_process) or a lamp that is given up
\* takes with it (io_task), a device answers only what it was asked.
THEOREM GwImplementsZdo == GwSpec => ImplementsZdo
<1>1. GwInit => Zdo!ZdoInit
  BY InitImplements
<1>2. GwInv /\ [GwNext]_gwVars => [Zdo!ZdoNext]_(Zdo!zdoVars)
  BY StepImplements
<1> QED BY <1>1, <1>2, GwInvariant, PTL DEF GwSpec, ImplementsZdo, Zdo!ZdoSpec

\* In the gateway the list keeps what it promises alone: the timer runs while
\* something waits, no tries are lost or won, one command is on the wire.
THEOREM GwKeepsTheList == GwSpec => [](NoLostWakeup /\ BudgetKept /\ OneInFlight)
<1>1. GwInv => NoLostWakeup /\ BudgetKept /\ OneInFlight
  BY InvOneInFlight DEF GwInv, IoInv
<1> QED BY <1>1, GwInvariant, PTL

\* A restart drops whatever is on the list.
LEMMA RestartDrops == ASSUME IoInv, IoInv', ListEmptied PROVE Link!SWNext
<1>1. pSend \in SUBSET Block
  BY DEF IoInv, TypeOK
<1>2. Unlink(pSend)
  BY DEF ListEmptied, IoInit, Unlink
<1>3. Link!Drop(pSend)
  BY <1>2, UnlinkDrops
<1> QED BY <1>1, <1>3 DEF Link!SWNext

\* With the questions and the restarts of the gateway the list is still a
\* stop-and-wait link (StopAndWait).
THEOREM GwStopAndWait == GwSpec => ImplementsStopAndWait
<1>1. IoInit => Link!SWInit
  <2> SUFFICES ASSUME IoInit PROVE Link!SWInit
    OBVIOUS
  <2>1. pSend = {} /\ InFlight = {}
    BY DEF IoInit, InFlight
  <2> QED BY <2>1 DEF Link!SWInit, Attempts
<1>2. GwInv /\ GwInv' /\ [GwNext]_gwVars => [Link!SWNext]_(Link!swVars)
  BY ListSteps, StepRefines, RestartDrops DEF GwInv
<1> QED
  BY <1>1, <1>2, GwInvariant, PTL DEF GwSpec, GwInit, ImplementsStopAndWait, Link!SWSpec

\* A device that waits for its interview is on a list the timer serves, in
\* the gateway as in ZbZdo.
THEOREM GwServesDevices == GwSpec => []Zdo!DeviceServed
<1>1. Zdo!DeviceServed <=> Z!DeviceServed
  BY DEF Zdo!DeviceServed, Z!DeviceServed
<1>2. GwInit => Z!DeviceServed
  BY DEF GwInit, Z!DeviceServed
<1>3. GwInv /\ Z!DeviceServed /\ [GwNext]_gwVars => Z!DeviceServed'
  BY StepOfZ, InterviewConstants, Z!StepKeepsServing
<1> QED BY <1>1, <1>2, <1>3, GwInvariant, PTL DEF GwSpec

\* No port outlives its device and none is made after the interview, in the
\* gateway as in ZbZdo.
THEOREM GwPortsOfTheList == GwSpec => Zdo!OldPortsGo /\ Zdo!PortsFromTheList
<1>1. GwInv /\ [GwNext]_gwVars => Z!OldPortsGoStep /\ Z!PortsFromTheListStep
  BY StepOfZ, InterviewConstants, Z!OldPortsGoes, Z!NewPortsFromTheList DEF GwInv
<1>2. Z!OldPortsGoStep =>
        [/\ \A d \in Dev : nwk[d] # "none" /\ nwk'[d] = "none" =>
               Zdo!PortsAt(ports', nwk[d]) = {}
         /\ Len(pNewDevice') > Len(pNewDevice) =>
               Zdo!PortsOf(ports', pNewDevice'[Len(pNewDevice')].exAddr) = {}
         /\ \A p \in DOMAIN ports \cap DOMAIN ports' : ports'[p] = ports[p]]_(Zdo!zdoVars)
  BY DEF Z!OldPortsGoStep, Zdo!PortsAt, Z!PortsAt, Zdo!PortsOf, Z!PortsOf,
         Zdo!PortsWith, Z!PortsWith
<1>3. Z!PortsFromTheListStep =>
        [\A p \in DOMAIN ports' \ DOMAIN ports :
           \E i \in DOMAIN pNewDevice :
             /\ pNewDevice[i].exAddr = ports'[p].exaddr
             /\ pNewDevice[i].addr = ports'[p].addr]_(Zdo!zdoVars)
  BY DEF Z!PortsFromTheListStep
<1> QED BY <1>1, <1>2, <1>3, GwInvariant, PTL
     DEF GwSpec, Zdo!OldPortsGo, Zdo!PortsFromTheList
============================================================================
