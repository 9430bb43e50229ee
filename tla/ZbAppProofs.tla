---------------------------- MODULE ZbAppProofs ----------------------------
(***************************************************************************)
(* Proofs about the way of a command from the cloud to a device and back   *)
(* (ZbApp): it uses the send list as the list is made to be used, a        *)
(* command is without effect only for a reason the code accepts, and when  *)
(* all has come to rest the gateway, the cloud and the devices agree.      *)
(***************************************************************************)
EXTENDS ZbApp, ZbIoBufferProofs, SequenceTheorems

(***************************************************************************)
(* The first element of a sequence and the others.                         *)
(***************************************************************************)
LEMMA HeadAndTail ==
  ASSUME NEW S, NEW s \in Seq(S), s # <<>>
  PROVE  /\ Head(s) \in S /\ Head(s) = s[1] /\ 1 \in DOMAIN s
         /\ Tail(s) \in Seq(S) /\ Len(s) = Len(Tail(s)) + 1 /\ Len(Tail(s)) \in Nat
         /\ \A i \in 1 .. Len(Tail(s)) : Tail(s)[i] = s[i + 1]
OBVIOUS

(***************************************************************************)
(* The elements of a sequence.                                             *)
(***************************************************************************)
Elems(s) == {s[i] : i \in DOMAIN s}

(***************************************************************************)
(* A sequence and one put behind it.                                       *)
(***************************************************************************)
LEMMA BehindIt ==
  ASSUME NEW S, NEW s \in Seq(S), NEW x \in Seq(S)
  PROVE  /\ s \o x \in Seq(S) /\ Len(s) \in Nat /\ Len(x) \in Nat
         /\ Len(s \o x) = Len(s) + Len(x)
         /\ \A i \in 1 .. Len(s) : (s \o x)[i] = s[i]
         /\ \A i \in 1 .. Len(x) : (s \o x)[Len(s) + i] = x[i]
         /\ \A i \in 1 .. Len(s) + Len(x) :
              i \in 1 .. Len(s) \/ (i - Len(s) \in 1 .. Len(x) /\ i = Len(s) + (i - Len(s)))
<1>1. Len(s) \in Nat /\ Len(x) \in Nat
  BY LenProperties
<1>2. /\ s \o x \in Seq(S) /\ Len(s \o x) = Len(s) + Len(x)
      /\ \A i \in 1 .. Len(s) + Len(x) :
           (s \o x)[i] = IF i <= Len(s) THEN s[i] ELSE x[i - Len(s)]
  BY ConcatProperties
<1> QED BY <1>1, <1>2

---------------------------------------------------------------------------
(***************************************************************************)
(* Types.                                                                  *)
(***************************************************************************)

AppTypes ==
  /\ value \in [Port -> Val] /\ told \in [Port -> Val] /\ dev \in [Port -> Val]
  /\ localSeq \in SeqNum /\ todo \in Seq(Command) /\ do \in [pSend -> Sending]
  /\ down \in Seq(DownFrame) /\ up \in Seq(UpFrame)
  /\ cmds \in 0 .. MaxCmds /\ local \in 0 .. MaxLocal /\ loss \in 0 .. MaxLoss
  /\ made \in Nat /\ failed \subseteq Port

(***************************************************************************)
(* The numbers the counter takes.                                          *)
(***************************************************************************)
LEMMA SeqTypes ==
  ASSUME NEW n \in SeqNum
  PROVE  /\ Seq2(n) \in SeqNum /\ (Seq2(n) + 1) % SeqMod \in SeqNum
         /\ (n + 2) % SeqMod \in SeqNum
<1>1. \A k \in Nat : k % SeqMod \in SeqNum
  BY AppFlowAssumption
<1>2. n \in Nat /\ n + 1 \in Nat /\ n + 2 \in Nat
  BY AppFlowAssumption
<1>3. Seq2(n) \in SeqNum
  BY <1>1, <1>2 DEF Seq2
<1>4. Seq2(n) + 1 \in Nat
  BY <1>3, AppFlowAssumption
<1> QED BY <1>1, <1>2, <1>3, <1>4

(***************************************************************************)
(* Commands and frames.                                                    *)
(***************************************************************************)
LEMMA CommandTypes ==
  ASSUME NEW p \in Port, NEW v \in Val
  PROVE  On(p, v) \in Command /\ Move(p, v) \in Command /\ Ask(p) \in Command
BY AppFlowAssumption DEF On, Move, Ask, Command

(***************************************************************************)
(* Frames of a device: an answer, a report.                                *)
(***************************************************************************)
LEMMA FrameType ==
  ASSUME NEW v \in Val
  PROVE  /\ \A g \in DownFrame, k \in {"ok", "no", "value"} : Answer(g, k, v) \in UpFrame
         /\ \A p \in Port, s \in SeqNum : Report(p, s, v) \in UpFrame
<1>1. ASSUME NEW g \in DownFrame, NEW k \in {"ok", "no", "value"}
      PROVE  Answer(g, k, v) \in UpFrame
  BY DEF Answer, DownFrame, Command, UpFrame
<1>2. ASSUME NEW p \in Port, NEW s \in SeqNum PROVE Report(p, s, v) \in UpFrame
  <2>1. 0 \in 0 .. IO_SEND_TRY
    BY IoTryAssumption
  <2> QED BY <2>1 DEF Report, UpFrame
<1> QED BY <1>1, <1>2

(***************************************************************************)
(* Short sequences.                                                        *)
(***************************************************************************)
LEMMA ShortSeq ==
  ASSUME NEW S, NEW a \in S, NEW b \in S
  PROVE  /\ <<>> \in Seq(S) /\ <<a>> \in Seq(S) /\ <<a, b>> \in Seq(S)
         /\ Len(<<>>) = 0 /\ Len(<<a>>) = 1 /\ Len(<<a, b>>) = 2
OBVIOUS

---------------------------------------------------------------------------
(***************************************************************************)
(* What a device does with a frame.                                        *)
(***************************************************************************)

IsWrite(c) == c.kind # "read"
IsReport(f) == f.kind = "report"

\* Frame f is an answer to command c.
Answers(f, c) ==
  /\ f.port = c.port
  /\ f.kind = "value" => ~IsWrite(c)
  /\ f.kind = "ok" => IsWrite(c) /\ f.val = c.val

\* Frame f is one that a device sends for frame g and that shows value v.
ReplyFrame(f, g, v) ==
  /\ f.port = g.cmd.port
  /\ IsReport(f) => g.cmd.port \in Reporting /\ f.id = 0
  /\ ~IsReport(f) => /\ f.seq = g.seq /\ f.id = g.id /\ f.try = g.try
                     /\ Answers(f, g.cmd)
  /\ f.kind # "no" => f.val = v

\* The frames of x are what a device sends for frame g that has value v then.
Reply(x, g, v) == \A i \in DOMAIN x : ReplyFrame(x[i], g, v)

\* There is an answer among them, there is a report.
HasAnswer(x) == \E i \in DOMAIN x : ~IsReport(x[i])
HasReport(x) == \E i \in DOMAIN x : IsReport(x[i])

(***************************************************************************)
(* One frame is a sequence of frames.                                      *)
(***************************************************************************)
LEMMA OneFrame ==
  ASSUME NEW f \in UpFrame
  PROVE  /\ <<f>> \in Seq(UpFrame) /\ DOMAIN <<f>> = {1} /\ <<f>>[1] = f
         /\ <<>> \in Seq(UpFrame) /\ DOMAIN <<>> = {}
OBVIOUS

(***************************************************************************)
(* A reply behind a reply.                                                 *)
(***************************************************************************)
LEMMA ReplyJoin ==
  ASSUME NEW g, NEW v, NEW a \in Seq(UpFrame), NEW b \in Seq(UpFrame),
         Reply(a, g, v), Reply(b, g, v)
  PROVE  /\ a \o b \in Seq(UpFrame) /\ Reply(a \o b, g, v)
         /\ HasAnswer(a) \/ HasAnswer(b) => HasAnswer(a \o b)
         /\ HasReport(a) \/ HasReport(b) => HasReport(a \o b)
<1>1. PICK x : x = a \o b
  OBVIOUS
<1>2. /\ x \in Seq(UpFrame) /\ Len(a) \in Nat /\ Len(b) \in Nat /\ Len(x) = Len(a) + Len(b)
      /\ \A i \in 1 .. Len(a) : x[i] = a[i]
      /\ \A i \in 1 .. Len(b) : x[Len(a) + i] = b[i]
      /\ \A i \in 1 .. Len(a) + Len(b) :
           i \in 1 .. Len(a) \/ (i - Len(a) \in 1 .. Len(b) /\ i = Len(a) + (i - Len(a)))
  BY <1>1, BehindIt
<1>3. /\ DOMAIN a = 1 .. Len(a) /\ DOMAIN b = 1 .. Len(b) /\ DOMAIN x = 1 .. Len(x)
  BY <1>2
<1>4. ASSUME NEW i \in DOMAIN x
      PROVE  (\E j \in DOMAIN a : x[i] = a[j]) \/ (\E j \in DOMAIN b : x[i] = b[j])
  <2>1. CASE i \in 1 .. Len(a)
    BY <1>2, <1>3, <2>1, Zenon
  <2>2. CASE i - Len(a) \in 1 .. Len(b) /\ i = Len(a) + (i - Len(a))
    BY <1>2, <1>3, <2>2, Zenon
  <2> QED BY <1>2, <1>3, <2>1, <2>2
<1>5. /\ \A j \in DOMAIN a : \E i \in DOMAIN x : x[i] = a[j]
      /\ \A j \in DOMAIN b : \E i \in DOMAIN x : x[i] = b[j]
  <2>1. \A j \in 1 .. Len(a) : j \in 1 .. Len(x)
    BY <1>2
  <2>2. \A j \in 1 .. Len(b) : Len(a) + j \in 1 .. Len(x)
    BY <1>2
  <2> QED BY <1>2, <1>3, <2>1, <2>2, Zenon
<1>6. Reply(x, g, v)
  BY <1>4 DEF Reply
<1>7. /\ HasAnswer(a) \/ HasAnswer(b) => HasAnswer(x)
      /\ HasReport(a) \/ HasReport(b) => HasReport(x)
  BY <1>5, Zenon DEF HasAnswer, HasReport
<1> QED BY <1>1, <1>2, <1>6, <1>7, Zenon

(***************************************************************************)
(* The device acts on the first frame: what it sends, and what it is then. *)
(***************************************************************************)
LEMMA DeviceReplies ==
  ASSUME AppTypes, DeviceActs, NEW g, g = Head(down), NEW p, p = g.cmd.port
  PROVE  \E x \in Seq(UpFrame), v \in Val :
           /\ up' = up \o x /\ dev' = [dev EXCEPT ![p] = v]
           /\ Reply(x, g, v) /\ HasAnswer(x)
           /\ v # dev[p] => /\ IsWrite(g.cmd) /\ v = g.cmd.val
                            /\ p \in Reporting => HasReport(x)
<1>1. g \in DownFrame /\ down # <<>>
  BY HeadAndTail DEF AppTypes, DeviceActs
<1>2. g.cmd \in Command /\ g.seq \in SeqNum
  BY <1>1 DEF DownFrame
<1>3. p \in Port /\ g.cmd.val \in Val /\ dev[p] \in Val /\ dev \in [Port -> Val] /\ 0 \in Val
  BY <1>2, AppFlowAssumption DEF Command, AppTypes
<1>4. CASE /\ g.cmd.kind = "read"
           /\ up' = up \o <<Answer(g, "value", dev[p])>>
           /\ UNCHANGED dev
  <2>1. PICK f \in UpFrame : f = Answer(g, "value", dev[p])
    BY <1>1, <1>3, FrameType
  <2>2. f.port = p /\ f.kind = "value" /\ f.val = dev[p] /\ f.seq = g.seq /\ f.id = g.id /\ f.try = g.try
    BY <2>1 DEF Answer
  <2>3. Answers(f, g.cmd) /\ ~IsReport(f)
    BY <1>4, <2>2 DEF Answers, IsReport, IsWrite
  <2>4. Reply(<<f>>, g, dev[p]) /\ HasAnswer(<<f>>)
    BY <2>2, <2>3, OneFrame DEF Reply, ReplyFrame, HasAnswer
  <2>5. dev' = [dev EXCEPT ![p] = dev[p]]
    BY <1>3, <1>4
  <2> QED BY <1>3, <1>4, <2>1, <2>4, <2>5, OneFrame
<1>5. CASE /\ g.cmd.kind # "read"
           /\ up' = up \o <<Answer(g, "no", 0)>>
           /\ UNCHANGED dev
  <2>1. PICK f \in UpFrame : f = Answer(g, "no", 0)
    BY <1>1, <1>3, FrameType
  <2>2. f.port = p /\ f.kind = "no" /\ f.seq = g.seq /\ f.id = g.id /\ f.try = g.try
    BY <2>1 DEF Answer
  <2>3. Answers(f, g.cmd) /\ ~IsReport(f)
    BY <1>5, <2>2 DEF Answers, IsReport, IsWrite
  <2>4. Reply(<<f>>, g, dev[p]) /\ HasAnswer(<<f>>)
    BY <2>2, <2>3, OneFrame DEF Reply, ReplyFrame, HasAnswer
  <2>5. dev' = [dev EXCEPT ![p] = dev[p]]
    BY <1>3, <1>5
  <2> QED BY <1>3, <1>5, <2>1, <2>4, <2>5, OneFrame
<1>6. CASE /\ g.cmd.kind # "read"
           /\ \E r \in ReportOf(p, g.cmd.val) :
                \/ up' = up \o r \o <<Answer(g, "ok", g.cmd.val)>>
                \/ up' = up \o <<Answer(g, "ok", g.cmd.val)>> \o r
           /\ dev' = [dev EXCEPT ![p] = g.cmd.val]
  <2>1. PICK f \in UpFrame : f = Answer(g, "ok", g.cmd.val)
    BY <1>1, <1>3, FrameType
  <2>2. PICK r \in ReportOf(p, g.cmd.val) : up' = up \o r \o <<f>> \/ up' = up \o <<f>> \o r
    BY <1>6, <2>1
  <2>3. f.port = p /\ f.kind = "ok" /\ f.val = g.cmd.val /\ f.seq = g.seq /\ f.id = g.id /\ f.try = g.try
    BY <2>1 DEF Answer
  <2>4. Answers(f, g.cmd) /\ ~IsReport(f)
    BY <1>6, <2>3 DEF Answers, IsReport, IsWrite
  <2>5. <<f>> \in Seq(UpFrame) /\ Reply(<<f>>, g, g.cmd.val) /\ HasAnswer(<<f>>)
    BY <2>3, <2>4, OneFrame DEF Reply, ReplyFrame, HasAnswer
  <2>6. /\ r \in Seq(UpFrame) /\ Reply(r, g, g.cmd.val)
        /\ g.cmd.val # dev[p] /\ p \in Reporting => HasReport(r)
    <3>1. CASE p \in Reporting /\ g.cmd.val # dev[p]
      <4>1. PICK s \in DevSeq : r = <<Report(p, s, g.cmd.val)>>
        BY <2>2, <3>1 DEF ReportOf
      <4>2. s \in SeqNum
        BY AppFlowAssumption
      <4>3. PICK e \in UpFrame : e = Report(p, s, g.cmd.val)
        BY <1>3, <4>2, FrameType
      <4>4. e.port = p /\ e.kind = "report" /\ e.val = g.cmd.val /\ e.id = 0
        BY <4>3 DEF Report
      <4>5. IsReport(e)
        BY <4>4 DEF IsReport
      <4>6. r = <<e>>
        BY <4>1, <4>3
      <4>7. Reply(<<e>>, g, g.cmd.val) /\ HasReport(<<e>>)
        BY <3>1, <4>4, <4>5, OneFrame DEF Reply, ReplyFrame, HasReport
      <4> QED BY <4>6, <4>7, OneFrame
    <3>2. CASE ~(p \in Reporting /\ g.cmd.val # dev[p])
      <4>1. r = <<>>
        BY <2>2, <3>2 DEF ReportOf
      <4>2. r \in Seq(UpFrame) /\ DOMAIN r = {}
        BY <4>1, OneFrame
      <4> QED BY <3>2, <4>2 DEF Reply
    <3> QED BY <3>1, <3>2
  <2>7. up \in Seq(UpFrame)
    BY DEF AppTypes
  <2>8. (up \o r) \o <<f>> = up \o (r \o <<f>>) /\ (up \o <<f>>) \o r = up \o (<<f>> \o r)
    BY SMTT(30), <2>5, <2>6, <2>7, ConcatAssociative
  <2>9. PICK x : (x = r \o <<f>> \/ x = <<f>> \o r) /\ up' = up \o x
    BY <2>2, <2>8, Zenon
  <2>10. /\ x \in Seq(UpFrame) /\ Reply(x, g, g.cmd.val) /\ HasAnswer(x)
         /\ HasReport(r) => HasReport(x)
    <3>1. CASE x = r \o <<f>>
      BY <2>5, <2>6, <3>1, ReplyJoin
    <3>2. CASE x = <<f>> \o r
      BY <2>5, <2>6, <3>2, ReplyJoin
    <3> QED BY <2>9, <3>1, <3>2
  <2>11. IsWrite(g.cmd)
    BY <1>6 DEF IsWrite
  <2> QED BY <1>3, <1>6, <2>6, <2>9, <2>10, <2>11, Zenon
<1> QED BY <1>4, <1>5, <1>6 DEF DeviceActs

(***************************************************************************)
(* Every step is a step of the send list or leaves the list alone.         *)
(***************************************************************************)
LEMMA StepIsIo == ASSUME IoInv, AppTypes, ZaNext PROVE [IoNext]_ioVars
<1>1. CASE Env
  BY <1>1 DEF Env, Write, Read, LocalChange, LoseDown, LoseUp
<1>2. ASSUME NEW b \in Block, SendCommand(b) PROVE IoNext
  <2>1. Head(todo) \in Command
    BY <1>2, HeadAndTail DEF SendCommand, AppTypes
  <2>2. AddrOf[Head(todo).port] \in Addr
    BY <2>1, AppFlowAssumption DEF Command
  <2>3. Seq2(localSeq) \in SeqNum
    BY SeqTypes DEF AppTypes
  <2>4. ReqSend(b, AddrOf[Head(todo).port], Seq2(localSeq), TRUE)
    BY <1>2 DEF SendCommand
  <2> QED BY <2>2, <2>3, <2>4 DEF IoNext
<1>3. CASE SendFails \/ DeviceActs
  BY <1>3 DEF SendFails, DeviceActs
<1>4. CASE TimerFires
  BY <1>4 DEF TimerFires, IoNext
<1>5. ASSUME NEW b \in Block, Transmit(b) \/ GivesUp(b) PROVE IoNext
  BY <1>5 DEF Transmit, GivesUp, IoNext, IoTask
<1>6. CASE TimerEnds
  BY <1>6 DEF TimerEnds, IoNext, IoTask
<1>7. CASE Receive
  <2>1. Head(up) \in UpFrame
    BY <1>7, HeadAndTail DEF Receive, AppTypes
  <2>2. AddrOf[Head(up).port] \in Addr /\ Head(up).seq \in SeqNum
    BY <2>1, AppFlowAssumption DEF UpFrame
  <2>3. RemoveSend(AddrOf[Head(up).port], Head(up).seq)
    BY <1>7 DEF Receive
  <2> QED BY <2>2, <2>3 DEF IoNext
<1> QED BY <1>1, <1>2, <1>3, <1>4, <1>5, <1>6, <1>7 DEF ZaNext, System

(***************************************************************************)
(* A transmission that is lost is noted for its command.                   *)
(***************************************************************************)
LEMMA MissedType ==
  ASSUME AppTypes, NEW f, f.try \in 0 .. IO_SEND_TRY
  PROVE  Missed(f) \in [pSend -> Sending]
<1> SUFFICES ASSUME NEW b \in pSend
             PROVE  /\ do[b] \in Sending
                    /\ [do[b] EXCEPT !.lost = @ \cup {f.try}] \in Sending
  BY DEF Missed
<1>1. do[b] \in Sending
  BY DEF AppTypes
<1> QED BY <1>1 DEF Sending

(***************************************************************************)
(* The variables of the flow keep their types.                             *)
(***************************************************************************)
LEMMA AppTypesStep == ASSUME IoInv, IoInv', AppTypes, ZaNext PROVE AppTypes'
<1>0. pSend' \subseteq Block /\ \A b \in pSend : out[b].seq \in SeqNum
  BY DEF IoInv, TypeOK, Output
<1>1. ASSUME NEW p \in Port, NEW level \in BOOLEAN, NEW v \in Val, Write(p, level, v)
      PROVE  AppTypes'
  <2>1. todo' \in Seq(Command)
    BY <1>1, CommandTypes, AppFlowAssumption DEF Write
  <2>2. cmds' \in 0 .. MaxCmds
    BY <1>1, AppFlowAssumption DEF Write, AppTypes
  <2>3. value' \in [Port -> Val]
    BY <1>1 DEF Write, AppTypes
  <2>4. UNCHANGED <<pSend, told, localSeq, do, dev, down, up, local, loss, made, failed>>
    BY <1>1 DEF Write, ioVars
  <2> QED BY <2>1, <2>2, <2>3, <2>4 DEF AppTypes
<1>2. ASSUME NEW p \in Port, NEW level \in BOOLEAN, NEW v \in Payload, Read(p, level, v)
      PROVE  AppTypes'
  <2>1. todo' \in Seq(Command)
    BY <1>2, CommandTypes, AppFlowAssumption DEF Read
  <2>2. cmds' \in 0 .. MaxCmds
    BY <1>2, AppFlowAssumption DEF Read, AppTypes
  <2>4. UNCHANGED <<pSend, value, told, localSeq, do, dev, down, up, local, loss, made, failed>>
    BY <1>2 DEF Read, ioVars
  <2> QED BY <2>1, <2>2, <2>4 DEF AppTypes
<1>3. ASSUME NEW p \in Port, NEW v \in Val, LocalChange(p, v) PROVE AppTypes'
  <2>1. PICK r \in ReportOf(p, v) : up' = up \o r
    BY <1>3 DEF LocalChange
  <2>2. r \in Seq(UpFrame)
    <3>1. \A s \in DevSeq : Report(p, s, v) \in UpFrame
      BY FrameType, AppFlowAssumption
    <3>2. r = <<>> \/ \E s \in DevSeq : r = <<Report(p, s, v)>>
      BY <2>1 DEF ReportOf
    <3>3. r = <<>> \/ \E f \in UpFrame : r = <<f>>
      BY <3>1, <3>2, Zenon
    <3>4. CASE r = <<>>
      BY <3>4
    <3>5. CASE \E f \in UpFrame : r = <<f>>
      BY <3>5
    <3> QED BY <3>3, <3>4, <3>5
  <2>3. up' \in Seq(UpFrame)
    <3>1. up \in Seq(UpFrame)
      BY DEF AppTypes
    <3> QED BY <2>1, <2>2, <3>1, BehindIt
  <2>4. local' \in 0 .. MaxLocal /\ dev' \in [Port -> Val]
    BY <1>3, AppFlowAssumption DEF LocalChange, AppTypes
  <2>5. UNCHANGED <<pSend, value, told, localSeq, todo, do, down, cmds, loss, made, failed>>
    BY <1>3 DEF LocalChange, ioVars
  <2> QED BY <2>3, <2>4, <2>5 DEF AppTypes
<1>4. CASE LoseDown \/ LoseUp
  <2>1. down' \in Seq(DownFrame) /\ up' \in Seq(UpFrame)
    <3>1. down \in Seq(DownFrame) /\ up \in Seq(UpFrame)
      BY DEF AppTypes
    <3>2. /\ down' = down \/ (down # <<>> /\ down' = Tail(down))
          /\ up' = up \/ (up # <<>> /\ up' = Tail(up))
      BY <1>4 DEF LoseDown, LoseUp
    <3>3. down' \in Seq(DownFrame)
      BY <3>1, <3>2, HeadAndTail
    <3>4. up' \in Seq(UpFrame)
      BY <3>1, <3>2, HeadAndTail
    <3> QED BY <3>3, <3>4
  <2>2. loss' \in 0 .. MaxLoss
    BY SMTT(30), <1>4, AppFlowAssumption DEF LoseDown, LoseUp, AppTypes
  <2>3. /\ UNCHANGED <<pSend, value, told, localSeq, todo, dev, cmds, local, made>>
        /\ failed' \subseteq failed \cup {Head(up).port} /\ (failed' # failed => up # <<>>)
    BY <1>4 DEF LoseDown, LoseUp, ioVars
  <2>4. do' \in [pSend' -> Sending]
    <3>1. PICK f : do' = Missed(f) /\ f.try \in 0 .. IO_SEND_TRY
      <4>1. CASE LoseDown
        <5>1. PICK f : f = Head(down)
          OBVIOUS
        <5>2. down # <<>> /\ do' = Missed(f)
          BY <4>1, <5>1 DEF LoseDown
        <5>3. f \in DownFrame
          BY <5>1, <5>2, HeadAndTail DEF AppTypes
        <5> QED BY <5>2, <5>3 DEF DownFrame
      <4>2. CASE LoseUp
        <5>1. PICK f : f = Head(up)
          OBVIOUS
        <5>2. up # <<>> /\ do' = Missed(f)
          BY <4>2, <5>1 DEF LoseUp
        <5>3. f \in UpFrame
          BY <5>1, <5>2, HeadAndTail DEF AppTypes
        <5> QED BY <5>2, <5>3 DEF UpFrame
      <4> QED BY <1>4, <4>1, <4>2
    <3> QED BY <2>3, <3>1, MissedType
  <2>5. failed' \subseteq Port
    <3>1. up # <<>> => Head(up) \in UpFrame /\ Head(up).port \in Port
      <4>1. up # <<>> => Head(up) \in UpFrame
        BY HeadAndTail DEF AppTypes
      <4> QED BY <4>1 DEF UpFrame
    <3> QED BY <2>3, <3>1 DEF AppTypes
  <2> QED BY <2>1, <2>2, <2>3, <2>4, <2>5 DEF AppTypes
<1>5. ASSUME NEW b \in Block, SendCommand(b) PROVE AppTypes'
  <2>1. Head(todo) \in Command /\ todo' \in Seq(Command)
    BY <1>5, HeadAndTail DEF SendCommand, AppTypes
  <2>2. pSend' = pSend \cup {b}
    BY <1>5 DEF SendCommand, ReqSend, AddToSendList
  <2>3. do' \in [pSend' -> Sending] /\ made' \in Nat
    <3>1. PICK s : s = [cmd |-> Head(todo), id |-> made', lost |-> {}]
      OBVIOUS
    <3>2. made' \in Nat /\ do' = With(do, b, s)
      BY <1>5, <3>1 DEF SendCommand, AppTypes
    <3>3. s \in Sending
      BY <2>1, <3>1, <3>2 DEF Sending
    <3> QED BY <2>2, <3>2, <3>3 DEF AppTypes, With
  <2>4. localSeq' \in SeqNum
    BY <1>5, SeqTypes DEF SendCommand, AppTypes
  <2>5. UNCHANGED <<value, told, dev, down, up, cmds, local, loss, failed>>
    BY <1>5 DEF SendCommand
  <2> QED BY <2>1, <2>3, <2>4, <2>5 DEF AppTypes
<1>6. CASE SendFails
  <2>1. Head(todo) \in Command /\ todo' \in Seq(Command)
    BY <1>6, HeadAndTail DEF SendFails, AppTypes
  <2>2. failed' \subseteq Port
    BY <1>6, <2>1 DEF SendFails, AppTypes, Command
  <2>3. localSeq' \in SeqNum
    BY <1>6, SeqTypes DEF SendFails, AppTypes
  <2>4. UNCHANGED <<pSend, value, told, do, dev, down, up, cmds, local, loss, made>>
    BY <1>6 DEF SendFails, ioVars
  <2> QED BY <2>1, <2>2, <2>3, <2>4 DEF AppTypes
<1>7. CASE TimerFires \/ TimerEnds
  <2>1. UNCHANGED pSend /\ UNCHANGED appVars
    BY <1>7 DEF TimerFires, TimerEnds, IoTimerFires, IoTaskEnd
  <2> QED BY <2>1 DEF AppTypes, appVars
<1>8. ASSUME NEW b \in Block, Transmit(b) PROVE AppTypes'
  <2>1. PICK g : g = [cmd |-> do[b].cmd, seq |-> out[b].seq,
                      id |-> do[b].id, try |-> sent[b] + 1]
    OBVIOUS
  <2>2. b \in pSend /\ pSend' = pSend /\ down' = Append(down, g)
    BY <1>8, <2>1 DEF Transmit, IoTaskSend
  <2>3. g \in DownFrame
    <3>1. sent[b] + 1 \in 0 .. IO_SEND_TRY
      <4>1. sent' = [sent EXCEPT ![b] = @ + 1] /\ sent \in [pSend -> 0 .. IO_SEND_TRY]
        BY <1>8 DEF Transmit, IoTaskSend, IoInv, TypeOK
      <4>2. sent'[b] \in 0 .. IO_SEND_TRY
        BY <2>2 DEF IoInv, TypeOK
      <4> QED BY <2>2, <4>1, <4>2
    <3> QED BY <1>0, <2>1, <2>2, <3>1 DEF AppTypes, Sending, DownFrame
  <2>5. down' \in Seq(DownFrame)
    BY <2>2, <2>3 DEF AppTypes
  <2>4. UNCHANGED <<value, told, localSeq, todo, do, dev, up, cmds, local, loss, made, failed>>
    BY <1>8 DEF Transmit
  <2> QED BY <2>2, <2>4, <2>5 DEF AppTypes
<1>9. ASSUME NEW S \in SUBSET pSend, Unlink(S), do' = [x \in pSend' |-> do[x]]
      PROVE  do' \in [pSend' -> Sending] /\ PortsOf(S) \subseteq Port
  <2>1. pSend' \subseteq pSend
    BY <1>9 DEF Unlink
  <2>2. \A b \in pSend : do[b] \in Sending /\ do[b].cmd.port \in Port
    BY DEF AppTypes, Sending, Command
  <2> QED BY <1>9, <2>1, <2>2 DEF PortsOf
<1>10. ASSUME NEW b \in Block, GivesUp(b) PROVE AppTypes'
  <2>1. PICK S \in SUBSET pSend : Unlink(S)
    <3>1. Unlink(Removed(out[b].addr, out[b].seq, out[b].ack))
      BY <1>10 DEF GivesUp, IoTaskGiveUp
    <3> QED BY <3>1 DEF Removed
  <2>2. do' \in [pSend' -> Sending] /\ Dropped \subseteq pSend
    BY <1>9, <1>10, <2>1 DEF GivesUp, Dropped
  <2>3. failed' \subseteq Port
    <3>1. \A c \in pSend : do[c].cmd.port \in Port
      BY DEF AppTypes, Sending, Command
    <3> QED BY <1>10, <2>2, <3>1 DEF GivesUp, PortsOf, AppTypes
  <2>4. UNCHANGED <<value, told, localSeq, todo, dev, down, up, cmds, local, loss, made>>
    BY <1>10 DEF GivesUp
  <2> QED BY <2>2, <2>3, <2>4 DEF AppTypes
<1>11. CASE Receive
  <2>1. PICK f \in UpFrame : f = Head(up)
    BY <1>11, HeadAndTail DEF Receive, AppTypes
  <2>2. f.port \in Port /\ f.val \in Val
    BY <2>1 DEF UpFrame
  <2>3. Unlink(Removed(AddrOf[f.port], f.seq, FALSE))
    BY <1>11, <2>1 DEF Receive, RemoveSend
  <2>4. do' \in [pSend' -> Sending]
    <3>1. Removed(AddrOf[f.port], f.seq, FALSE) \in SUBSET pSend
      BY DEF Removed
    <3> QED BY <1>9, <1>11, <2>3, <3>1 DEF Receive
  <2>5. /\ value' = Stored(f)
        /\ told' = IF IsTold(f) THEN [told EXCEPT ![f.port] = Stored(f)[f.port]] ELSE told
        /\ failed' = Outcome(f) \cup PortsOf(Unanswered(f))
        /\ up' = Tail(up)
    BY <1>11, <2>1 DEF Receive
  <2>6. Stored(f) \in [Port -> Val]
    BY <2>2 DEF Stored, AppTypes
  <2>7. value' \in [Port -> Val] /\ told' \in [Port -> Val]
    BY <2>2, <2>5, <2>6 DEF AppTypes
  <2>8. failed' \subseteq Port
    <3>1. Outcome(f) \subseteq Port
      BY <2>2 DEF Outcome, AppTypes
    <3>2. \A b \in pSend : do[b].cmd.port \in Port
      BY DEF AppTypes, Sending, Command
    <3>3. Unanswered(f) \subseteq pSend
      BY DEF Unanswered, Removed
    <3> QED BY <2>5, <3>1, <3>2, <3>3 DEF PortsOf
  <2>9. up' \in Seq(UpFrame)
    BY <1>11, <2>5, HeadAndTail DEF Receive, AppTypes
  <2>10. UNCHANGED <<localSeq, todo, dev, down, cmds, local, loss, made>>
    BY <1>11 DEF Receive
  <2> QED BY <2>4, <2>7, <2>8, <2>9, <2>10 DEF AppTypes
<1>12. CASE DeviceActs
  <2>1. PICK g : g = Head(down)
    OBVIOUS
  <2>2. PICK p : p = g.cmd.port
    OBVIOUS
  <2>3. PICK x \in Seq(UpFrame), v \in Val : up' = up \o x /\ dev' = [dev EXCEPT ![p] = v]
    BY <1>12, <2>1, <2>2, DeviceReplies
  <2>4. up' \in Seq(UpFrame) /\ dev' \in [Port -> Val]
    <3>1. up \in Seq(UpFrame) /\ dev \in [Port -> Val]
      BY DEF AppTypes
    <3>2. up \o x \in Seq(UpFrame)
      BY <3>1, BehindIt
    <3>3. dev' \in [Port -> Val]
      BY <2>3, <3>1
    <3> QED BY <2>3, <3>2, <3>3
  <2>5. down' \in Seq(DownFrame)
    BY <1>12, HeadAndTail DEF DeviceActs, AppTypes
  <2>6. UNCHANGED <<pSend, value, told, localSeq, todo, do, cmds, local, loss, made, failed>>
    BY <1>12 DEF DeviceActs, ioVars
  <2> QED BY <2>4, <2>5, <2>6 DEF AppTypes
<1> QED
  BY <1>1, <1>2, <1>3, <1>4, <1>5, <1>6, <1>7, <1>8, <1>10, <1>11, <1>12
     DEF ZaNext, Env, System

(***************************************************************************)
(* The first states.                                                       *)
(***************************************************************************)
LEMMA ZaInitTypes == ZaInit => IoInv /\ AppTypes
<1> SUFFICES ASSUME ZaInit PROVE IoInv /\ AppTypes
  OBVIOUS
<1>1. IoInv /\ pSend = {}
  BY InitInv DEF ZaInit, IoInit
<1>2. /\ value \in [Port -> Val] /\ told \in [Port -> Val] /\ dev \in [Port -> Val]
      /\ localSeq \in SeqNum /\ cmds \in 0 .. MaxCmds /\ local \in 0 .. MaxLocal
      /\ loss \in 0 .. MaxLoss /\ made \in Nat /\ failed \subseteq Port
  BY AppFlowAssumption DEF ZaInit
<1>3. todo \in Seq(Command) /\ down \in Seq(DownFrame) /\ up \in Seq(UpFrame)
  BY DEF ZaInit
<1>4. do \in [pSend -> Sending]
  BY <1>1 DEF ZaInit
<1> QED BY <1>1, <1>2, <1>3, <1>4 DEF AppTypes

ZaInv == IoInv /\ AppTypes

(***************************************************************************)
(* A step keeps all of this and is a step of the list, or none.            *)
(***************************************************************************)
LEMMA ZaStep == ZaInv /\ [ZaNext]_zaVars => ZaInv' /\ [IoNext]_ioVars
<1> SUFFICES ASSUME ZaInv, [ZaNext]_zaVars PROVE ZaInv' /\ [IoNext]_ioVars
  OBVIOUS
<1>1. CASE ZaNext
  <2>1. [IoNext]_ioVars
    BY <1>1, StepIsIo DEF ZaInv
  <2>2. IoInv'
    BY <2>1, NextInv DEF ZaInv
  <2> QED BY <1>1, <2>1, <2>2, AppTypesStep DEF ZaInv
<1>2. CASE UNCHANGED zaVars
  <2>1. UNCHANGED ioVars /\ UNCHANGED appVars
    BY <1>2 DEF zaVars
  <2>2. IoInv'
    BY <2>1, NextInv DEF ZaInv
  <2>3. AppTypes'
    BY <2>1 DEF ZaInv, AppTypes, appVars, ioVars
  <2> QED BY <2>1, <2>2, <2>3 DEF ZaInv
<1> QED BY <1>1, <1>2

(***************************************************************************)
(* So they are in every state.                                             *)
(***************************************************************************)
LEMMA ZaInvariant == ZaSpec => []ZaInv
<1>1. ZaInit => ZaInv
  BY ZaInitTypes DEF ZaInv
<1> QED BY <1>1, ZaStep, PTL DEF ZaSpec

(***************************************************************************)
(* The variables of the flow and of the list under it keep their types.    *)
(***************************************************************************)
THEOREM ZaTypeCorrect == ZaSpec => []ZaTypeOK
<1>1. ZaInv => ZaTypeOK
  BY DEF ZaInv, AppTypes, IoInv, ZaTypeOK
<1> QED BY <1>1, ZaInvariant, PTL

(***************************************************************************)
(* Commands of the cloud, answers and reports use the send list as its     *)
(* specification lets anybody use it: what holds of the list holds here.   *)
(***************************************************************************)
THEOREM ZaImplementsList == ZaSpec => IoSpec
<1>1. ZaInit => IoInit
  BY DEF ZaInit
<1> QED BY <1>1, ZaStep, ZaInvariant, PTL DEF ZaSpec, IoSpec

(***************************************************************************)
(* In particular a device gets one command at a time.                      *)
(***************************************************************************)
THEOREM ZaStopAndWait == ZaSpec => ImplementsStopAndWait
BY ZaImplementsList, Refinement, PTL

---------------------------------------------------------------------------
(***************************************************************************)
(* Frames on the radio.                                                    *)
(***************************************************************************)

(***************************************************************************)
(* The elements of what is left, and of two sequences in one.              *)
(***************************************************************************)
LEMMA ElemsOfTail ==
  ASSUME NEW S, NEW s \in Seq(S), s # <<>>
  PROVE  Elems(s) = {Head(s)} \cup Elems(Tail(s))
<1>1. /\ Head(s) = s[1] /\ Tail(s) \in Seq(S) /\ Len(s) = Len(Tail(s)) + 1
      /\ Len(Tail(s)) \in Nat
      /\ \A i \in 1 .. Len(Tail(s)) : Tail(s)[i] = s[i + 1]
  BY HeadAndTail
<1>2. PICK t : t = Tail(s)
  OBVIOUS
<1>3. DOMAIN s = 1 .. Len(t) + 1 /\ DOMAIN t = 1 .. Len(t) /\ Len(t) \in Nat
  BY <1>1, <1>2
<1>4. ASSUME NEW i \in DOMAIN s PROVE s[i] \in {Head(s)} \cup Elems(t)
  <2>1. CASE i = 1
    BY <1>1, <2>1
  <2>2. CASE i # 1
    <3>1. i - 1 \in 1 .. Len(t) /\ (i - 1) + 1 = i
      BY <1>3, <2>2
    <3>2. s[i] = t[i - 1]
      BY <1>1, <1>2, <3>1
    <3> QED BY <1>3, <3>1, <3>2 DEF Elems
  <2> QED BY <2>1, <2>2
<1>5. ASSUME NEW i \in DOMAIN t PROVE t[i] \in Elems(s)
  <2>1. i + 1 \in DOMAIN s /\ t[i] = s[i + 1]
    BY <1>1, <1>2, <1>3
  <2> QED BY <2>1 DEF Elems
<1>6. Head(s) \in Elems(s)
  BY <1>1, <1>3 DEF Elems
<1> QED BY <1>2, <1>4, <1>5, <1>6 DEF Elems

(***************************************************************************)
(* The elements of a sequence with another one behind it.                  *)
(***************************************************************************)
LEMMA ElemsOfJoin ==
  ASSUME NEW S, NEW s \in Seq(S), NEW x \in Seq(S)
  PROVE  Elems(s \o x) = Elems(s) \cup Elems(x)
<1>1. PICK t : t = s \o x
  OBVIOUS
<1>2. /\ t \in Seq(S) /\ Len(s) \in Nat /\ Len(x) \in Nat /\ Len(t) = Len(s) + Len(x)
      /\ \A i \in 1 .. Len(s) : t[i] = s[i]
      /\ \A i \in 1 .. Len(x) : t[Len(s) + i] = x[i]
      /\ \A i \in 1 .. Len(s) + Len(x) :
           i \in 1 .. Len(s) \/ (i - Len(s) \in 1 .. Len(x) /\ i = Len(s) + (i - Len(s)))
  BY <1>1, BehindIt
<1>3. DOMAIN s = 1 .. Len(s) /\ DOMAIN x = 1 .. Len(x) /\ DOMAIN t = 1 .. Len(s) + Len(x)
  BY <1>2
<1>4. ASSUME NEW i \in DOMAIN t PROVE t[i] \in Elems(s) \cup Elems(x)
  <2>1. CASE i \in 1 .. Len(s)
    BY <1>2, <1>3, <2>1 DEF Elems
  <2>2. CASE i - Len(s) \in 1 .. Len(x) /\ i = Len(s) + (i - Len(s))
    <3>1. PICK j \in DOMAIN x : i = Len(s) + j
      BY <1>3, <2>2, Zenon
    <3>2. t[i] = x[j]
      BY <1>2, <1>3, <3>1
    <3> QED BY <3>2 DEF Elems
  <2> QED BY <1>2, <1>3, <2>1, <2>2
<1>5. ASSUME NEW i \in DOMAIN s PROVE s[i] \in Elems(t)
  <2>1. i \in DOMAIN t /\ t[i] = s[i]
    BY <1>2, <1>3
  <2> QED BY <2>1 DEF Elems
<1>6. ASSUME NEW i \in DOMAIN x PROVE x[i] \in Elems(t)
  <2>1. Len(s) + i \in DOMAIN t /\ t[Len(s) + i] = x[i]
    BY <1>2, <1>3
  <2> QED BY <2>1 DEF Elems
<1>7. Elems(t) \subseteq Elems(s) \cup Elems(x)
  <2>1. \A e \in Elems(t) : \E i \in DOMAIN t : e = t[i]
    BY DEF Elems
  <2> QED BY <1>4, <2>1
<1>8. Elems(s) \subseteq Elems(t)
  <2>1. \A e \in Elems(s) : \E i \in DOMAIN s : e = s[i]
    BY DEF Elems
  <2> QED BY <1>5, <2>1
<1>9. Elems(x) \subseteq Elems(t)
  <2>1. \A e \in Elems(x) : \E i \in DOMAIN x : e = x[i]
    BY DEF Elems
  <2> QED BY <1>6, <2>1
<1> QED BY <1>1, <1>7, <1>8, <1>9, Zenon

(***************************************************************************)
(* One frame more on its way.                                              *)
(***************************************************************************)
LEMMA ElemsOfAppend ==
  ASSUME NEW S, NEW s \in Seq(S), NEW e PROVE Elems(Append(s, e)) = Elems(s) \cup {e}
<1>1. PICK t : t = Append(s, e)
  OBVIOUS
<1>0. s \in Seq(S \cup {e}) /\ e \in S \cup {e}
  OBVIOUS
<1>2. /\ Len(s) \in Nat /\ DOMAIN s = 1 .. Len(s) /\ DOMAIN t = 1 .. Len(s) + 1
      /\ t[Len(s) + 1] = e /\ \A i \in 1 .. Len(s) : t[i] = s[i]
  BY <1>0, <1>1, AppendProperties, LenProperties
<1>3. \A i \in 1 .. Len(s) + 1 : i \in 1 .. Len(s) \/ i = Len(s) + 1
  BY <1>2
<1>4. \A i \in 1 .. Len(s) : i \in DOMAIN t
  BY <1>2
<1>5. Len(s) + 1 \in DOMAIN t
  BY <1>2
<1>6. Elems(t) = Elems(s) \cup {e}
  BY <1>2, <1>3, <1>4, <1>5 DEF Elems
<1> QED BY <1>1, <1>6

(***************************************************************************)
(* Nothing on its way, and one frame on its way.                           *)
(***************************************************************************)
LEMMA ElemsOfFew ==
  /\ Elems(<<>>) = {}
  /\ \A e : Elems(<<e>>) = {e} /\ Len(<<e>>) = 1
BY DEF Elems

(***************************************************************************)
(* Commands leave the list; every one that stays keeps its fields.         *)
(***************************************************************************)
LEMMA UnlinkLeaves ==
  ASSUME NEW S \in SUBSET pSend, Unlink(S), do' = [x \in pSend' |-> do[x]]
  PROVE  /\ pSend' = pSend \ S /\ pSend' \subseteq pSend /\ pSend \ pSend' = S
         /\ \A b \in pSend' : out'[b] = out[b] /\ do'[b] = do[b] /\ sent'[b] = sent[b]
BY DEF Unlink

---------------------------------------------------------------------------
(***************************************************************************)
(* Each frame belongs to one command, however often numbers come round, and *)
(* each transmission of a command on the list is on its way, or is noted   *)
(* as lost.                                                                *)
(***************************************************************************)

IdInv ==
  /\ \A b \in pSend : do[b].id \in 1 .. made
  /\ \A a, b \in pSend : do[a].id = do[b].id => a = b
  /\ \A g \in Elems(down) : g.id \in 1 .. made
  /\ \A f \in Elems(up) : IF IsReport(f) THEN f.id = 0 ELSE f.id \in 1 .. made

\* A frame carries, or answers, the command whose id it has.
MatchInv ==
  /\ \A b \in pSend : out[b].addr = AddrOf[do[b].cmd.port] /\ out[b].ack
  /\ \A g \in Elems(down), b \in pSend :
       g.id = do[b].id => g.cmd = do[b].cmd /\ g.seq = out[b].seq
  /\ \A f \in Elems(up), b \in pSend :
       f.id = do[b].id => f.seq = out[b].seq /\ Answers(f, do[b].cmd)

OnItsWay == Elems(down) \cup Elems(up)

TriesInv ==
  \A b \in pSend : \A k \in 1 .. sent[b] :
    k \in do[b].lost \/ \E x \in OnItsWay : x.id = do[b].id /\ x.try = k

WireInv == IdInv /\ MatchInv /\ TriesInv

(***************************************************************************)
(* Commands leave the list, and a frame that leaves the radio is noted or  *)
(* belongs to none of those that stay.                                     *)
(***************************************************************************)
LEMMA WireFewer ==
  ASSUME WireInv, made' = made, pSend' \subseteq pSend,
         \A b \in pSend' : /\ do'[b].cmd = do[b].cmd /\ do'[b].id = do[b].id
                           /\ do[b].lost \subseteq do'[b].lost
                           /\ out'[b].addr = out[b].addr /\ out'[b].seq = out[b].seq
                           /\ out'[b].ack = out[b].ack /\ sent'[b] = sent[b],
         Elems(down') \subseteq Elems(down), Elems(up') \subseteq Elems(up),
         \A x \in OnItsWay, b \in pSend' :
           x.id = do[b].id => x.try \in do'[b].lost \/ x \in OnItsWay'
  PROVE  WireInv'
<1>1. IdInv'
  BY DEF WireInv, IdInv
<1>2. MatchInv'
  <2>1. \A b \in pSend' : out'[b].addr = AddrOf[do'[b].cmd.port] /\ out'[b].ack
    BY DEF WireInv, MatchInv
  <2>2. ASSUME NEW g \in Elems(down'), NEW b \in pSend', g.id = do'[b].id
        PROVE  g.cmd = do'[b].cmd /\ g.seq = out'[b].seq
    <3>1. g \in Elems(down) /\ b \in pSend /\ g.id = do[b].id
      BY <2>2
    <3>2. g.cmd = do[b].cmd /\ g.seq = out[b].seq
      BY <3>1 DEF WireInv, MatchInv
    <3> QED BY <3>2
  <2>3. ASSUME NEW f \in Elems(up'), NEW b \in pSend', f.id = do'[b].id
        PROVE  f.seq = out'[b].seq /\ Answers(f, do'[b].cmd)
    BY <2>3 DEF WireInv, MatchInv
  <2> QED BY <2>1, <2>2, <2>3 DEF MatchInv
<1>3. TriesInv'
  <2> SUFFICES ASSUME NEW b \in pSend', NEW k \in 1 .. sent'[b]
               PROVE  \/ k \in do'[b].lost
                      \/ \E x \in OnItsWay' : x.id = do'[b].id /\ x.try = k
    BY DEF TriesInv
  <2>1. \/ k \in do[b].lost
        \/ \E x \in OnItsWay : x.id = do[b].id /\ x.try = k
    BY DEF WireInv, TriesInv
  <2> QED BY <2>1
<1> QED BY <1>1, <1>2, <1>3 DEF WireInv

(***************************************************************************)
(* Frames X come from the devices: reports, and answers to frames on their *)
(* way, of which every one is still there or is answered.                  *)
(***************************************************************************)
LEMMA WireUp ==
  ASSUME WireInv, UNCHANGED <<made, pSend, do, out, sent>>, NEW X,
         Elems(down') \subseteq Elems(down), Elems(up') = Elems(up) \cup X,
         \A f \in X :
           \/ IsReport(f) /\ f.id = 0
           \/ ~IsReport(f) /\ \E g \in Elems(down) :
                f.id = g.id /\ f.seq = g.seq /\ Answers(f, g.cmd),
         \A g \in Elems(down) : g \in Elems(down') \/ \E f \in X : f.id = g.id /\ f.try = g.try
  PROVE  WireInv'
<1>1. IdInv'
  <2>1. \A f \in X : IF IsReport(f) THEN f.id = 0 ELSE f.id \in 1 .. made
    BY DEF WireInv, IdInv
  <2> QED BY <2>1 DEF WireInv, IdInv
<1>2. MatchInv'
  <2>1. ASSUME NEW f \in X, NEW b \in pSend, f.id = do[b].id
        PROVE  f.seq = out[b].seq /\ Answers(f, do[b].cmd)
    <3>1. f.id # 0
      BY <2>1 DEF WireInv, IdInv
    <3>2. PICK g \in Elems(down) : f.id = g.id /\ f.seq = g.seq /\ Answers(f, g.cmd)
      BY <3>1
    <3>3. g.id = do[b].id
      BY <2>1, <3>2
    <3>4. g.cmd = do[b].cmd /\ g.seq = out[b].seq
      BY <3>3 DEF WireInv, MatchInv
    <3> QED BY <3>2, <3>4
  <2> QED BY <2>1 DEF WireInv, MatchInv
<1>3. TriesInv'
  <2> SUFFICES ASSUME NEW b \in pSend, NEW k \in 1 .. sent[b]
               PROVE  \/ k \in do[b].lost
                      \/ \E x \in OnItsWay' : x.id = do[b].id /\ x.try = k
    BY DEF TriesInv
  <2>1. \/ k \in do[b].lost
        \/ \E x \in OnItsWay : x.id = do[b].id /\ x.try = k
    BY DEF WireInv, TriesInv
  <2>2. CASE \E x \in Elems(up) : x.id = do[b].id /\ x.try = k
    BY <2>2 DEF OnItsWay
  <2>3. ASSUME NEW g \in Elems(down), g.id = do[b].id, g.try = k
        PROVE  \E x \in OnItsWay' : x.id = do[b].id /\ x.try = k
    BY <2>3 DEF OnItsWay
  <2> QED BY <2>1, <2>2, <2>3 DEF OnItsWay
<1> QED BY <1>1, <1>2, <1>3 DEF WireInv

(***************************************************************************)
(* A command goes on the list: no frame has its id yet.                    *)
(***************************************************************************)
LEMMA WireSend ==
  ASSUME IoInv, AppTypes, WireInv, NEW b \in Block, SendCommand(b)
  PROVE  WireInv'
<1>1. PICK c : c = Head(todo)
  OBVIOUS
<1>2. /\ pSend' = pSend \cup {b} /\ b \notin pSend /\ made' = made + 1
      /\ UNCHANGED <<down, up>>
      /\ out' = With(out, b, [addr |-> AddrOf[c.port], seq |-> Seq2(localSeq),
                              ack |-> TRUE, stry |-> Budget(TRUE)])
      /\ sent' = With(sent, b, 0)
      /\ do' = With(do, b, [cmd |-> c, id |-> made', lost |-> {}])
  BY <1>1 DEF SendCommand, ReqSend, AddToSendList
<1>3. /\ \A a \in pSend : do'[a] = do[a] /\ out'[a] = out[a] /\ sent'[a] = sent[a]
      /\ do'[b].id = made + 1 /\ do'[b].cmd = c /\ sent'[b] = 0
      /\ out'[b].addr = AddrOf[c.port] /\ out'[b].ack
  BY <1>2 DEF With
<1>a. pSend' = pSend \cup {b} /\ b \notin pSend /\ made' = made + 1 /\ UNCHANGED <<down, up>>
  BY <1>2
<1>4. made \in Nat /\ \A i \in 1 .. made : i \in 1 .. made + 1 /\ i # made + 1
  BY DEF AppTypes
<1>5. IdInv'
  <2>1. \A a \in pSend' : do'[a].id \in 1 .. made'
    BY <1>a, <1>3, <1>4 DEF WireInv, IdInv
  <2>2. ASSUME NEW a \in pSend', NEW d \in pSend', do'[a].id = do'[d].id PROVE a = d
    BY <1>a, <1>3, <1>4, <2>2 DEF WireInv, IdInv
  <2>3. \A g \in Elems(down') : g.id \in 1 .. made'
    BY <1>a, <1>4 DEF WireInv, IdInv
  <2>4. \A f \in Elems(up') : IF IsReport(f) THEN f.id = 0 ELSE f.id \in 1 .. made'
    BY <1>a, <1>4 DEF WireInv, IdInv
  <2> QED BY <2>1, <2>2, <2>3, <2>4 DEF IdInv
<1>6. \A x \in OnItsWay : x.id # made + 1
  <2>1. 0 # made + 1
    BY <1>4
  <2> QED BY <1>4, <2>1 DEF OnItsWay, WireInv, IdInv
<1>7. MatchInv'
  <2>1. \A a \in pSend' : out'[a].addr = AddrOf[do'[a].cmd.port] /\ out'[a].ack
    BY <1>a, <1>3 DEF WireInv, MatchInv
  <2>2. ASSUME NEW g \in Elems(down'), NEW a \in pSend', g.id = do'[a].id
        PROVE  g.cmd = do'[a].cmd /\ g.seq = out'[a].seq
    BY <1>a, <1>3, <1>6, <2>2 DEF WireInv, MatchInv, OnItsWay
  <2>3. ASSUME NEW f \in Elems(up'), NEW a \in pSend', f.id = do'[a].id
        PROVE  f.seq = out'[a].seq /\ Answers(f, do'[a].cmd)
    BY <1>a, <1>3, <1>6, <2>3 DEF WireInv, MatchInv, OnItsWay
  <2> QED BY <2>1, <2>2, <2>3 DEF MatchInv
<1>8. TriesInv'
  <2>1. 1 .. 0 = {}
    OBVIOUS
  <2>2. OnItsWay' = OnItsWay
    BY <1>a DEF OnItsWay
  <2> QED BY <1>a, <1>3, <2>1, <2>2 DEF WireInv, TriesInv
<1> QED BY <1>5, <1>7, <1>8 DEF WireInv

(***************************************************************************)
(* A command is sent once more.                                            *)
(***************************************************************************)
LEMMA WireTransmit ==
  ASSUME IoInv, AppTypes, WireInv, NEW b \in Block, Transmit(b)
  PROVE  WireInv'
<1>1. PICK g : g = [cmd |-> do[b].cmd, seq |-> out[b].seq,
                    id |-> do[b].id, try |-> sent[b] + 1]
  OBVIOUS
<1>2. /\ b \in pSend /\ down' = Append(down, g)
      /\ out' = [out EXCEPT ![b].stry = @ - 1] /\ sent' = [sent EXCEPT ![b] = @ + 1]
      /\ UNCHANGED <<pSend, do, up, made>>
  BY <1>1 DEF Transmit, IoTaskSend
<1>3. Elems(down') = Elems(down) \cup {g}
  BY <1>2, ElemsOfAppend DEF AppTypes
<1>4. \A a \in pSend : /\ out'[a].addr = out[a].addr /\ out'[a].seq = out[a].seq
                      /\ out'[a].ack = out[a].ack
  BY <1>2 DEF IoInv, TypeOK, Output
<1>5. sent[b] \in Nat /\ sent'[b] = sent[b] + 1 /\ \A a \in pSend \ {b} : sent'[a] = sent[a]
  BY <1>2 DEF IoInv, TypeOK
<1>6. g.id = do[b].id /\ g.cmd = do[b].cmd /\ g.seq = out[b].seq /\ g.try = sent[b] + 1
  BY <1>1
<1>7. IdInv'
  <2>1. \A h \in Elems(down') : h.id \in 1 .. made
    BY <1>2, <1>3, <1>6 DEF WireInv, IdInv
  <2> QED BY <1>2, <2>1 DEF WireInv, IdInv
<1>8. MatchInv'
  <2>1. ASSUME NEW h \in Elems(down'), NEW a \in pSend, h.id = do[a].id
        PROVE  h.cmd = do[a].cmd /\ h.seq = out[a].seq
    <3>1. CASE h = g
      <4>1. a = b
        BY <1>2, <1>6, <2>1, <3>1 DEF WireInv, IdInv
      <4> QED BY <1>6, <3>1, <4>1
    <3>2. CASE h \in Elems(down)
      BY <2>1, <3>2 DEF WireInv, MatchInv
    <3> QED BY <1>3, <3>1, <3>2
  <2> QED BY <1>2, <1>4, <2>1 DEF WireInv, MatchInv
<1>9. TriesInv'
  <2> SUFFICES ASSUME NEW a \in pSend, NEW k \in 1 .. sent'[a]
               PROVE  \/ k \in do[a].lost
                      \/ \E x \in OnItsWay' : x.id = do[a].id /\ x.try = k
    BY <1>2 DEF TriesInv
  <2>1. OnItsWay \subseteq OnItsWay' /\ g \in OnItsWay'
    BY <1>2, <1>3 DEF OnItsWay
  <2>2. k \in 1 .. sent[a] \/ (a = b /\ k = sent[b] + 1)
    <3>1. CASE a = b
      BY <1>5, <3>1
    <3>2. CASE a # b
      BY <1>5, <3>2
    <3> QED BY <3>1, <3>2
  <2>3. CASE k \in 1 .. sent[a]
    BY <2>1, <2>3 DEF WireInv, TriesInv
  <2>4. CASE a = b /\ k = sent[b] + 1
    BY <1>6, <2>1, <2>4
  <2> QED BY <2>2, <2>3, <2>4
<1> QED BY <1>7, <1>8, <1>9 DEF WireInv

(***************************************************************************)
(* The radio loses a frame.                                                *)
(***************************************************************************)
LEMMA WireLose == ASSUME AppTypes, WireInv, LoseDown \/ LoseUp PROVE WireInv'
<1>1. UNCHANGED <<pSend, out, sent, made>>
  BY DEF LoseDown, LoseUp, ioVars
<1>2. PICK f : /\ do' = Missed(f)
               /\ \/ /\ f = Head(down) /\ down # <<>> /\ down' = Tail(down) /\ up' = up
                  \/ /\ f = Head(up) /\ up # <<>> /\ up' = Tail(up) /\ down' = down
  BY DEF LoseDown, LoseUp
<1>3. /\ Elems(down') \subseteq Elems(down) /\ Elems(up') \subseteq Elems(up)
      /\ \A x \in OnItsWay : x = f \/ x \in OnItsWay'
  BY <1>2, ElemsOfTail DEF AppTypes, OnItsWay
<1>4. ASSUME NEW b \in pSend
      PROVE  /\ do'[b].cmd = do[b].cmd /\ do'[b].id = do[b].id
             /\ do[b].lost \subseteq do'[b].lost
             /\ do[b].id = f.id => f.try \in do'[b].lost
  <2>1. do[b] \in Sending
    BY DEF AppTypes
  <2>2. do'[b] = IF do[b].id = f.id THEN [do[b] EXCEPT !.lost = @ \cup {f.try}] ELSE do[b]
    BY <1>2 DEF Missed
  <2> QED BY <2>1, <2>2 DEF Sending
<1> QED BY <1>1, <1>3, <1>4, WireFewer

(***************************************************************************)
(* A frame comes in: it takes the command with its id off the list.        *)
(***************************************************************************)
LEMMA WireReceive == ASSUME AppTypes, WireInv, Receive PROVE WireInv'
<1>1. PICK f : f = Head(up)
  OBVIOUS
<1>2. PICK S \in SUBSET pSend : S = Removed(AddrOf[f.port], f.seq, FALSE)
  BY DEF Removed
<1>3. /\ up # <<>> /\ up' = Tail(up) /\ Unlink(S) /\ do' = [x \in pSend' |-> do[x]]
      /\ UNCHANGED <<down, made>>
  BY <1>1, <1>2 DEF Receive, RemoveSend
<1>4. Elems(up) = {f} \cup Elems(up')
  BY <1>1, <1>3, ElemsOfTail DEF AppTypes
<1>5. /\ pSend' = pSend \ S /\ pSend' \subseteq pSend
      /\ \A b \in pSend' : out'[b] = out[b] /\ do'[b] = do[b] /\ sent'[b] = sent[b]
  BY <1>3, UnlinkLeaves
<1>6. ASSUME NEW b \in pSend, f.id = do[b].id PROVE b \in S
  <2>1. f.seq = out[b].seq /\ f.port = do[b].cmd.port /\ out[b].addr = AddrOf[do[b].cmd.port]
    BY <1>4, <1>6 DEF WireInv, MatchInv, Answers
  <2> QED BY <1>2, <2>1 DEF Removed
<1>7. ASSUME NEW x \in OnItsWay, NEW b \in pSend', x.id = do[b].id PROVE x \in OnItsWay'
  <2>1. x # f
    BY <1>5, <1>6, <1>7
  <2> QED BY <1>3, <1>4, <2>1 DEF OnItsWay
<1> QED BY <1>3, <1>4, <1>5, <1>7, WireFewer

(***************************************************************************)
(* A command is given up.                                                  *)
(***************************************************************************)
LEMMA WireGiveUp ==
  ASSUME AppTypes, WireInv, NEW b \in Block, GivesUp(b) PROVE WireInv'
<1>1. PICK S \in SUBSET pSend : Unlink(S)
  <2>1. Unlink(Removed(out[b].addr, out[b].seq, out[b].ack))
    BY DEF GivesUp, IoTaskGiveUp
  <2> QED BY <2>1 DEF Removed
<1>2. do' = [x \in pSend' |-> do[x]] /\ UNCHANGED <<down, up, made>>
  BY DEF GivesUp
<1>3. /\ pSend' = pSend \ S /\ pSend' \subseteq pSend
      /\ \A a \in pSend' : out'[a] = out[a] /\ do'[a] = do[a] /\ sent'[a] = sent[a]
  BY <1>1, <1>2, UnlinkLeaves
<1>4. OnItsWay' = OnItsWay
  BY <1>2 DEF OnItsWay
<1> QED BY <1>2, <1>3, <1>4, WireFewer

(***************************************************************************)
(* A device acts on the first frame.                                       *)
(***************************************************************************)
LEMMA WireDevice == ASSUME AppTypes, WireInv, DeviceActs PROVE WireInv'
<1>1. PICK g : g = Head(down)
  OBVIOUS
<1>2. PICK x \in Seq(UpFrame), v \in Val : up' = up \o x /\ Reply(x, g, v) /\ HasAnswer(x)
  BY <1>1, DeviceReplies
<1>3. down # <<>> /\ down' = Tail(down) /\ UNCHANGED <<made, pSend, do, out, sent>>
  BY DEF DeviceActs, ioVars
<1>4. Elems(down) = {g} \cup Elems(down') /\ Elems(up') = Elems(up) \cup Elems(x)
  BY <1>1, <1>2, <1>3, ElemsOfTail, ElemsOfJoin DEF AppTypes
<1>5. \A f \in Elems(x) : ReplyFrame(f, g, v)
  BY <1>2 DEF Reply, Elems
<1>6. \E f \in Elems(x) : ~IsReport(f)
  BY <1>2 DEF HasAnswer, Elems
<1>7. \A f \in Elems(x) : \/ IsReport(f) /\ f.id = 0
                         \/ /\ ~IsReport(f) /\ f.id = g.id /\ f.try = g.try
                            /\ f.seq = g.seq /\ Answers(f, g.cmd)
  BY <1>5 DEF ReplyFrame
<1> QED BY <1>3, <1>4, <1>6, <1>7, WireUp

(***************************************************************************)
(* Somebody switches a lamp by hand.                                       *)
(***************************************************************************)
LEMMA WireLocal ==
  ASSUME AppTypes, WireInv, NEW p \in Port, NEW v \in Val, LocalChange(p, v)
  PROVE  WireInv'
<1>1. UNCHANGED <<made, pSend, do, out, sent, down>>
  BY DEF LocalChange, ioVars
<1>2. PICK s \in DevSeq : up' = up \o <<Report(p, s, v)>>
  BY DEF LocalChange, ReportOf
<1>3. s \in SeqNum
  BY AppFlowAssumption
<1>4. PICK f \in UpFrame : f = Report(p, s, v)
  BY <1>3, FrameType
<1>5. IsReport(f) /\ f.id = 0
  BY <1>4 DEF Report, IsReport
<1>X. PICK X : X = {f}
  OBVIOUS
<1>6. Elems(up') = Elems(up) \cup X
  <2>1. <<f>> \in Seq(UpFrame) /\ Elems(<<f>>) = {f} /\ up' = up \o <<f>>
    BY <1>2, <1>4, OneFrame, ElemsOfFew
  <2>2. up \in Seq(UpFrame)
    BY DEF AppTypes
  <2>3. Elems(up \o <<f>>) = Elems(up) \cup Elems(<<f>>)
    BY <2>1, <2>2, ElemsOfJoin
  <2> QED BY <1>X, <2>1, <2>3
<1>7. \A x \in X :
        \/ IsReport(x) /\ x.id = 0
        \/ ~IsReport(x) /\ \E g \in Elems(down) :
             x.id = g.id /\ x.seq = g.seq /\ Answers(x, g.cmd)
  BY <1>5, <1>X
<1>8. UNCHANGED <<made, pSend, do, out, sent>> /\ Elems(down') \subseteq Elems(down)
      /\ \A g \in Elems(down) :
           g \in Elems(down') \/ \E x \in X : x.id = g.id /\ x.try = g.try
  BY <1>1
<1> QED BY <1>6, <1>7, <1>8, WireUp

(***************************************************************************)
(* The first states.                                                       *)
(***************************************************************************)
LEMMA WireInit == ZaInit => WireInv
<1> SUFFICES ASSUME ZaInit PROVE WireInv
  OBVIOUS
<1>1. pSend = {} /\ down = <<>> /\ up = <<>>
  BY DEF ZaInit, IoInit
<1>2. Elems(down) = {} /\ Elems(up) = {}
  BY <1>1, ElemsOfFew
<1> QED BY <1>1, <1>2 DEF WireInv, IdInv, MatchInv, TriesInv

(***************************************************************************)
(* Every step keeps them.                                                  *)
(***************************************************************************)
LEMMA WireStep ==
  ASSUME ZaInv, WireInv, [ZaNext]_zaVars PROVE WireInv'
<1>1. CASE UNCHANGED <<made, pSend, do, out, sent, down, up>>
  <2>1. OnItsWay' = OnItsWay
    BY <1>1 DEF OnItsWay
  <2> QED BY <1>1, <2>1, WireFewer
<1>2. CASE UNCHANGED zaVars \/ TimerFires \/ TimerEnds \/ SendFails
  <2>1. UNCHANGED <<made, pSend, do, out, sent, down, up>>
    BY <1>2 DEF zaVars, appVars, ioVars, TimerFires, TimerEnds, SendFails, IoTimerFires,
                IoTaskEnd
  <2> QED BY <1>1, <2>1
<1>3. ASSUME NEW p \in Port, NEW level \in BOOLEAN, NEW v \in Val \cup Payload,
             Write(p, level, v) \/ Read(p, level, v)
      PROVE  WireInv'
  <2>1. UNCHANGED <<made, pSend, do, out, sent, down, up>>
    BY <1>3 DEF Write, Read, ioVars
  <2> QED BY <1>1, <2>1
<1>4. CASE Env
  BY <1>3, <1>4, WireLocal, WireLose DEF Env, ZaInv
<1>5. CASE System
  BY <1>2, <1>5, WireSend, WireTransmit, WireGiveUp, WireReceive, WireDevice
     DEF System, ZaInv
<1> QED BY <1>2, <1>4, <1>5 DEF ZaNext

(***************************************************************************)
(* So they are in every state.                                             *)
(***************************************************************************)
LEMMA WireInvariant == ZaSpec => []WireInv
BY WireInit, WireStep, ZaInvariant, PTL DEF ZaSpec

---------------------------------------------------------------------------
(***************************************************************************)
(* Causes.                                                                 *)
(***************************************************************************)

(***************************************************************************)
(* What is given up has used all its tries, and none came back.            *)
(***************************************************************************)
LEMMA GiveUpCause ==
  ASSUME IoInv, AppTypes, WireInv, NEW b \in Block, GivesUp(b), NEW p \in failed' \ failed
  PROVE  Cause(p)
<1>1. /\ b \in pSend /\ IsHead(b) /\ out[b].stry = 0
      /\ Unlink(Removed(out[b].addr, out[b].seq, out[b].ack)) /\ up' = up
      /\ failed' = failed \cup PortsOf(Dropped)
  BY DEF GivesUp, IoTaskGiveUp
<1>2. Dropped = Removed(out[b].addr, out[b].seq, out[b].ack)
  BY <1>1 DEF Unlink, Dropped, Removed
<1>3. b \in Dropped
  BY <1>1, <1>2 DEF Removed
<1>4. out[b].addr = AddrOf[p]
  <2>1. PICK a \in Dropped : p = do[a].cmd.port
    BY <1>1 DEF PortsOf
  <2>2. a \in pSend /\ out[a].addr = out[b].addr
    BY <1>2, <2>1 DEF Removed
  <2> QED BY <2>1, <2>2 DEF WireInv, MatchInv
<1>5. TriesUsed(b)
  <2>1. sent[b] = IO_SEND_TRY
    <3>1. sent[b] + out[b].stry = Budget(out[b].ack) /\ out[b].ack
      BY <1>1 DEF IoInv, BudgetKept, WireInv, MatchInv
    <3> QED BY <1>1, <3>1, IoTryAssumption DEF Budget, IoInv, TypeOK
  <2>2. ASSUME NEW k \in 1 .. IO_SEND_TRY PROVE k \in do[b].lost \/ UnderWay(b, k)
    <3>1. k \in do[b].lost \/ \E x \in OnItsWay : x.id = do[b].id /\ x.try = k
      BY <1>1, <2>1 DEF WireInv, TriesInv
    <3> QED BY <3>1 DEF OnItsWay, Elems, UnderWay
  <2> QED BY <2>1, <2>2 DEF TriesUsed
<1> QED BY <1>1, <1>3, <1>4, <1>5 DEF Cause

(***************************************************************************)
(* The port of a command or of a report fails for one of the causes.       *)
(***************************************************************************)
LEMMA CauseStep ==
  ASSUME ZaInv, WireInv, [ZaNext]_zaVars, NEW p \in failed' \ failed PROVE Cause(p)
<1>1. CASE LoseUp
  <2>1. /\ up # <<>> /\ up' = Tail(up) /\ Head(up).kind = "report" /\ Head(up).port = p
        /\ loss' = loss + 1
    BY <1>1 DEF LoseUp
  <2>2. loss' > loss
    BY <2>1 DEF ZaInv, AppTypes
  <2> QED BY <2>1, <2>2 DEF Cause
<1>2. CASE Env
  BY <1>1, <1>2 DEF Env, Write, Read, LocalChange, LoseDown
<1>3. CASE SendFails
  BY <1>3 DEF SendFails, Cause
<1>4. ASSUME NEW b \in Block, GivesUp(b) PROVE Cause(p)
  BY <1>4, GiveUpCause DEF ZaInv
<1>5. CASE Receive
  <2>1. PICK f : f = Head(up)
    OBVIOUS
  <2>2. /\ up # <<>> /\ up' = Tail(up) /\ failed' = Outcome(f) \cup PortsOf(Unanswered(f))
        /\ Unlink(Removed(AddrOf[f.port], f.seq, FALSE))
    BY <1>5, <2>1 DEF Receive, RemoveSend
  <2>3. CASE p \in Outcome(f)
    BY <2>1, <2>2, <2>3 DEF Outcome, Cause
  <2>4. CASE p \in PortsOf(Unanswered(f))
    <3>1. PICK b \in Unanswered(f) : do[b].cmd.port = p
      BY <2>4 DEF PortsOf
    <3>2. b \in Dropped /\ out[b].seq = f.seq /\ do[b].id # f.id
      BY <2>2, <3>1 DEF Unanswered, Removed, Unlink, Dropped
    <3> QED BY <2>1, <2>2, <3>1, <3>2 DEF Cause, TakenByNumber
  <2> QED BY <2>2, <2>3, <2>4
<1>6. CASE \/ UNCHANGED zaVars \/ TimerFires \/ TimerEnds \/ DeviceActs
           \/ \E b \in Block : SendCommand(b) \/ Transmit(b)
  BY <1>6 DEF zaVars, appVars, TimerFires, TimerEnds, DeviceActs, SendCommand, Transmit
<1> QED BY <1>2, <1>3, <1>4, <1>5, <1>6 DEF ZaNext, System

(***************************************************************************)
(* A port fails only for a reason the code accepts, for any number of      *)
(* commands, however often the sequence numbers come round and however     *)
(* late the answers are.                                                   *)
(***************************************************************************)
THEOREM WithoutEffectForCause == ZaSpec => FailuresHaveCauses
<1>1. ZaInv /\ WireInv /\ [ZaNext]_zaVars =>
        [\A p \in failed' \ failed : Cause(p)]_zaVars
  BY CauseStep
<1>2. ZaSpec => [][\A p \in failed' \ failed : Cause(p)]_zaVars
  BY <1>1, ZaInvariant, WireInvariant, PTL DEF ZaSpec
<1> QED BY <1>2 DEF FailuresHaveCauses

---------------------------------------------------------------------------
(***************************************************************************)
(* What the gateway stores, what the cloud was told and what the devices   *)
(* are, while commands and frames are under way.                           *)
(***************************************************************************)

\* The commands that wait for an answer or are yet to be sent, and those on
\* their way to a device.
Waiting == Elems(todo) \cup {do[b].cmd : b \in pSend}
Carried == Waiting \cup {g.cmd : g \in Elems(down)}

\* Behind place i of the frames u comes a report of port p.
ReportAfter(u, i, p) == \E j \in DOMAIN u : j > i /\ u[j].port = p /\ IsReport(u[j])

\* The cloud knows what is stored, or an answer will tell it.
ToldInv ==
  \A p \in Port \ failed : told[p] = value[p] \/ \E c \in Waiting : c.port = p

\* A frame on its way back shows the device as it is, or a report follows.
ShownInv ==
  \A i \in DOMAIN up :
    /\ IsReport(up[i]) => up[i].port \in Reporting
    /\ up[i].kind # "no" =>
         up[i].val = dev[up[i].port] \/ ReportAfter(up, i, up[i].port)

\* What is stored is so, or a report will correct it, or a command will make
\* it so.
ValueInv ==
  \A p \in Port \ failed :
    \/ value[p] = dev[p]
    \/ ReportAfter(up, 0, p)
    \/ \E c \in Waiting : c.port = p /\ IsWrite(c) /\ c.val = value[p]

\* Of port p only reads are under way, only writes of the value stored.
OnlyReads(p) ==
  /\ \A c \in Carried : c.port = p => ~IsWrite(c)
  /\ \A f \in Elems(up) : f.port = p => f.kind # "ok"
OnlyWrites(p) ==
  /\ \A c \in Carried : c.port = p => IsWrite(c) /\ c.val = value[p]
  /\ \A f \in Elems(up) :
       f.port = p => f.kind # "value" /\ (f.kind = "ok" => f.val = value[p])

\* With a port that reports nothing the cloud is careful.
CareInv == \A p \in Port \ Reporting : OnlyReads(p) \/ OnlyWrites(p)

AgreeInv == ToldInv /\ ShownInv /\ ValueInv /\ CareInv

(***************************************************************************)
(* A report that follows still follows when frames are put behind, and     *)
(* when the first frame is taken.                                          *)
(***************************************************************************)
LEMMA ReportStays ==
  ASSUME NEW u \in Seq(UpFrame), NEW x \in Seq(UpFrame), NEW i, NEW p, ReportAfter(u, i, p)
  PROVE  ReportAfter(u \o x, i, p)
<1>1. PICK t : t = u \o x
  OBVIOUS
<1>2. /\ t \in Seq(UpFrame) /\ Len(u) \in Nat /\ Len(x) \in Nat /\ Len(t) = Len(u) + Len(x)
      /\ \A j \in 1 .. Len(u) : t[j] = u[j]
  BY <1>1, BehindIt
<1>3. PICK j \in DOMAIN u : j > i /\ u[j].port = p /\ IsReport(u[j])
  BY DEF ReportAfter
<1>4. j \in DOMAIN t /\ t[j] = u[j]
  BY <1>2, <1>3
<1>5. ReportAfter(t, i, p)
  BY <1>3, <1>4 DEF ReportAfter
<1> QED BY <1>1, <1>5

(***************************************************************************)
(* A report behind all the frames follows every one of them.               *)
(***************************************************************************)
LEMMA ReportAdded ==
  ASSUME NEW u \in Seq(UpFrame), NEW x \in Seq(UpFrame), NEW p, HasReport(x),
         \A j \in DOMAIN x : x[j].port = p, NEW i \in Nat, i <= Len(u)
  PROVE  ReportAfter(u \o x, i, p)
<1>1. PICK t : t = u \o x
  OBVIOUS
<1>2. /\ t \in Seq(UpFrame) /\ Len(u) \in Nat /\ Len(x) \in Nat /\ Len(t) = Len(u) + Len(x)
      /\ \A j \in 1 .. Len(x) : t[Len(u) + j] = x[j]
  BY <1>1, BehindIt
<1>3. PICK j \in DOMAIN x : IsReport(x[j])
  BY DEF HasReport
<1>4. j \in 1 .. Len(x) /\ DOMAIN t = 1 .. Len(t)
  BY <1>2
<1>5. PICK k : k = Len(u) + j
  OBVIOUS
<1>6. t[k] = x[j]
  BY <1>2, <1>4, <1>5
<1>7. k \in DOMAIN t /\ k > i
  BY <1>2, <1>4, <1>5
<1>8. ReportAfter(t, i, p)
  BY <1>3, <1>6, <1>7 DEF ReportAfter
<1> QED BY <1>1, <1>8

(***************************************************************************)
(* The first frame is taken: the places count from the next one.           *)
(***************************************************************************)
LEMMA ReportShift ==
  ASSUME NEW u \in Seq(UpFrame), u # <<>>, NEW i \in Nat, NEW p, ReportAfter(u, i + 1, p)
  PROVE  ReportAfter(Tail(u), i, p)
<1>1. PICK t : t = Tail(u)
  OBVIOUS
<1>2. /\ t \in Seq(UpFrame) /\ Len(u) = Len(t) + 1 /\ Len(t) \in Nat
      /\ \A j \in 1 .. Len(t) : t[j] = u[j + 1]
  BY <1>1, HeadAndTail
<1>3. PICK j \in DOMAIN u : j > i + 1 /\ u[j].port = p /\ IsReport(u[j])
  BY DEF ReportAfter
<1>4. PICK k \in Nat : j = k + 1
  <2>1. j \in Nat /\ j > 1
    BY <1>2, <1>3
  <2>2. j - 1 \in Nat /\ j = (j - 1) + 1
    BY <2>1
  <2> QED BY <2>2
<1>5. k \in DOMAIN t /\ k > i /\ k \in 1 .. Len(t)
  BY <1>2, <1>3, <1>4
<1>6. t[k] = u[j]
  BY <1>2, <1>4, <1>5
<1>7. ReportAfter(t, i, p)
  BY <1>3, <1>5, <1>6 DEF ReportAfter
<1> QED BY <1>1, <1>7

(***************************************************************************)
(* A report that is not the first frame is still there when that is taken. *)
(***************************************************************************)
LEMMA ReportFirst ==
  ASSUME NEW u \in Seq(UpFrame), u # <<>>, NEW p, ReportAfter(u, 0, p),
         Head(u).port # p \/ ~IsReport(Head(u))
  PROVE  ReportAfter(Tail(u), 0, p)
<1>1. PICK j \in DOMAIN u : u[j].port = p /\ IsReport(u[j])
  BY DEF ReportAfter
<1>2. Head(u) = u[1]
  BY HeadAndTail
<1>3. j # 1
  BY <1>1, <1>2
<1>4. j > 0 + 1
  BY <1>1, <1>3, LenProperties
<1>5. ReportAfter(u, 0 + 1, p)
  BY <1>1, <1>4 DEF ReportAfter
<1> QED BY <1>5, ReportShift

(***************************************************************************)
(* What waits when commands leave the list.                                *)
(***************************************************************************)
LEMMA WaitingLeaves ==
  ASSUME NEW S \in SUBSET pSend, Unlink(S), do' = [x \in pSend' |-> do[x]],
         UNCHANGED <<todo, down>>
  PROVE  /\ Waiting' \subseteq Waiting /\ Carried' \subseteq Carried
         /\ \A c \in Waiting : c \in Waiting' \/ \E b \in S : c = do[b].cmd
<1>1. /\ pSend' = pSend \ S /\ pSend' \subseteq pSend
      /\ \A b \in pSend' : do'[b] = do[b]
  BY UnlinkLeaves
<1>2. Waiting' \subseteq Waiting
  BY <1>1 DEF Waiting
<1>3. \A c \in Waiting : c \in Waiting' \/ \E b \in S : c = do[b].cmd
  BY <1>1 DEF Waiting
<1> QED BY <1>2, <1>3 DEF Carried

(***************************************************************************)
(* Commands go on, and those that are lost are of ports that failed.       *)
(***************************************************************************)
LEMMA AgreeFewer ==
  ASSUME AgreeInv, UNCHANGED <<value, told, dev, up>>, failed \subseteq failed',
         Waiting' \subseteq Waiting, Carried' \subseteq Carried,
         \A c \in Waiting : c.port \notin failed' => c \in Waiting'
  PROVE  AgreeInv'
<1>1. ToldInv'
  <2> SUFFICES ASSUME NEW p \in Port \ failed'
               PROVE  told[p] = value[p] \/ \E c \in Waiting' : c.port = p
    BY DEF ToldInv
  <2>1. told[p] = value[p] \/ \E c \in Waiting : c.port = p
    BY DEF AgreeInv, ToldInv
  <2> QED BY <2>1
<1>2. ShownInv'
  BY DEF AgreeInv, ShownInv
<1>3. ValueInv'
  <2> SUFFICES ASSUME NEW p \in Port \ failed'
               PROVE  \/ value[p] = dev[p] \/ ReportAfter(up, 0, p)
                      \/ \E c \in Waiting' : c.port = p /\ IsWrite(c) /\ c.val = value[p]
    BY DEF ValueInv
  <2>1. \/ value[p] = dev[p] \/ ReportAfter(up, 0, p)
        \/ \E c \in Waiting : c.port = p /\ IsWrite(c) /\ c.val = value[p]
    BY DEF AgreeInv, ValueInv
  <2> QED BY <2>1
<1>4. CareInv'
  BY DEF AgreeInv, CareInv, OnlyReads, OnlyWrites
<1> QED BY <1>1, <1>2, <1>3, <1>4 DEF AgreeInv

(***************************************************************************)
(* The cloud writes or reads: commands C of port p are put under way.      *)
(***************************************************************************)
LEMMA AgreeMore ==
  ASSUME AgreeInv, NEW p \in Port, NEW C, UNCHANGED <<told, dev, up, failed>>,
         Waiting' = Waiting \cup C, Carried' = Carried \cup C,
         \A c \in C : c.port = p,
         \A q \in Port \ {p} : value'[q] = value[q],
         value' = value \/ \E c \in C : IsWrite(c) /\ c.val = value'[p],
         p \notin Reporting =>
           (\A c \in Carried : c.port # p) /\ (\A f \in Elems(up) : f.port # p),
         p \notin Reporting =>
           \/ \A c \in C : ~IsWrite(c)
           \/ \A c \in C : IsWrite(c) /\ c.val = value'[p]
  PROVE  AgreeInv'
<1>1. ToldInv'
  <2> SUFFICES ASSUME NEW q \in Port \ failed
               PROVE  told[q] = value'[q] \/ \E c \in Waiting' : c.port = q
    BY DEF ToldInv
  <2>1. told[q] = value[q] \/ \E c \in Waiting : c.port = q
    BY DEF AgreeInv, ToldInv
  <2>2. value'[q] = value[q] \/ \E c \in C : c.port = q
    OBVIOUS
  <2> QED BY <2>1, <2>2
<1>2. ShownInv'
  BY DEF AgreeInv, ShownInv
<1>3. ValueInv'
  <2> SUFFICES ASSUME NEW q \in Port \ failed
               PROVE  \/ value'[q] = dev[q] \/ ReportAfter(up, 0, q)
                      \/ \E c \in Waiting' : c.port = q /\ IsWrite(c) /\ c.val = value'[q]
    BY DEF ValueInv
  <2>1. \/ value[q] = dev[q] \/ ReportAfter(up, 0, q)
        \/ \E c \in Waiting : c.port = q /\ IsWrite(c) /\ c.val = value[q]
    BY DEF AgreeInv, ValueInv
  <2>2. CASE value'[q] = value[q]
    BY <2>1, <2>2
  <2>3. CASE q = p /\ \E c \in C : IsWrite(c) /\ c.val = value'[p]
    BY <2>3
  <2> QED BY <2>2, <2>3
<1>4. CareInv'
  <2> SUFFICES ASSUME NEW q \in Port \ Reporting PROVE OnlyReads(q)' \/ OnlyWrites(q)'
    BY DEF CareInv
  <2>1. CASE q = p
    <3>1. \A c \in Carried' : c.port = q => c \in C
      BY <2>1
    <3> QED BY <2>1, <3>1 DEF OnlyReads, OnlyWrites
  <2>2. CASE q # p
    <3>1. \A c \in Carried' : c.port = q => c \in Carried
      BY <2>2
    <3>2. OnlyReads(q) \/ OnlyWrites(q)
      BY DEF AgreeInv, CareInv
    <3> QED BY <2>2, <3>1, <3>2 DEF OnlyReads, OnlyWrites
  <2> QED BY <2>1, <2>2
<1> QED BY <1>1, <1>2, <1>3, <1>4 DEF AgreeInv

(***************************************************************************)
(* A device changes to v, or stays as it is, and sends the frames x.       *)
(***************************************************************************)
LEMMA AgreeDevice ==
  ASSUME AppTypes, AgreeInv, NEW p \in Port, NEW v \in Val, NEW x \in Seq(UpFrame),
         up' = up \o x, dev' = [dev EXCEPT ![p] = v], UNCHANGED <<value, told, failed>>,
         Waiting' = Waiting, Carried' \subseteq Carried,
         \A i \in DOMAIN x : /\ x[i].port = p
                             /\ IsReport(x[i]) => p \in Reporting
                             /\ x[i].kind # "no" => x[i].val = v,
         v # dev[p] /\ p \in Reporting => HasReport(x),
         v # dev[p] /\ p \notin Reporting =>
           v = value[p] /\ \A f \in Elems(up) : f.port = p => f.kind = "no",
         p \notin Reporting =>
           \/ OnlyReads(p) /\ \A i \in DOMAIN x : x[i].kind # "ok"
           \/ OnlyWrites(p) /\ \A i \in DOMAIN x :
                x[i].kind # "value" /\ (x[i].kind = "ok" => x[i].val = value[p])
  PROVE  AgreeInv'
<1>1. /\ up \in Seq(UpFrame) /\ dev \in [Port -> Val] /\ Len(up) \in Nat
      /\ dev'[p] = v /\ \A q \in Port \ {p} : dev'[q] = dev[q]
  BY LenProperties DEF AppTypes
<1>2. ToldInv'
  BY DEF AgreeInv, ToldInv
<1>3. \A i, q : ReportAfter(up, i, q) => ReportAfter(up', i, q)
  BY <1>1, ReportStays
<1>4. v # dev[p] /\ p \in Reporting =>
        \A i \in Nat : i <= Len(up) => ReportAfter(up', i, p)
  BY <1>1, ReportAdded
<1>5. ValueInv'
  <2> SUFFICES ASSUME NEW q \in Port \ failed
               PROVE  \/ value[q] = dev'[q] \/ ReportAfter(up', 0, q)
                      \/ \E c \in Waiting : c.port = q /\ IsWrite(c) /\ c.val = value[q]
    BY DEF ValueInv
  <2>1. \/ value[q] = dev[q] \/ ReportAfter(up, 0, q)
        \/ \E c \in Waiting : c.port = q /\ IsWrite(c) /\ c.val = value[q]
    BY DEF AgreeInv, ValueInv
  <2>2. CASE value[q] = dev[q] /\ q = p /\ v # dev[p]
    <3>1. CASE p \in Reporting
      <4>1. 0 \in Nat /\ 0 <= Len(up)
        BY <1>1
      <4> QED BY <1>4, <2>2, <3>1, <4>1
    <3>2. CASE p \notin Reporting
      BY <1>1, <2>2, <3>2
    <3> QED BY <3>1, <3>2
  <2>3. CASE value[q] = dev[q] /\ ~(q = p /\ v # dev[p])
    BY <1>1, <2>3
  <2> QED BY <1>3, <2>1, <2>2, <2>3
<1>6. Elems(up') = Elems(up) \cup Elems(x)
  BY <1>1, ElemsOfJoin
<1>7. CareInv'
  <2> SUFFICES ASSUME NEW q \in Port \ Reporting PROVE OnlyReads(q)' \/ OnlyWrites(q)'
    BY DEF CareInv
  <2>1. \A f \in Elems(x) : \E i \in DOMAIN x : f = x[i] /\ f.port = p
    BY DEF Elems
  <2>2. CASE q = p
    <3>1. CASE OnlyReads(p) /\ \A i \in DOMAIN x : x[i].kind # "ok"
      BY <1>6, <2>1, <2>2, <3>1 DEF OnlyReads
    <3>2. CASE OnlyWrites(p) /\ \A i \in DOMAIN x :
                 x[i].kind # "value" /\ (x[i].kind = "ok" => x[i].val = value[p])
      BY <1>6, <2>1, <2>2, <3>2 DEF OnlyWrites
    <3> QED BY <2>2, <3>1, <3>2
  <2>3. CASE q # p
    <3>1. \A f \in Elems(up') : f.port = q => f \in Elems(up)
      BY <1>6, <2>1, <2>3
    <3>2. OnlyReads(q) \/ OnlyWrites(q)
      BY DEF AgreeInv, CareInv
    <3> QED BY <3>1, <3>2 DEF OnlyReads, OnlyWrites
  <2> QED BY <2>2, <2>3
<1>8. ShownInv'
  <2> SUFFICES ASSUME NEW i \in DOMAIN up'
               PROVE  /\ IsReport(up'[i]) => up'[i].port \in Reporting
                      /\ up'[i].kind # "no" =>
                           \/ up'[i].val = dev'[up'[i].port]
                           \/ ReportAfter(up', i, up'[i].port)
    BY DEF ShownInv
  <2>1. /\ up' \in Seq(UpFrame) /\ Len(x) \in Nat /\ Len(up') = Len(up) + Len(x)
        /\ \A j \in 1 .. Len(up) : up'[j] = up[j]
        /\ \A j \in 1 .. Len(x) : up'[Len(up) + j] = x[j]
        /\ \A j \in 1 .. Len(up) + Len(x) :
             j \in 1 .. Len(up) \/ (j - Len(up) \in 1 .. Len(x) /\ j = Len(up) + (j - Len(up)))
    BY <1>1, BehindIt
  <2>2. DOMAIN up = 1 .. Len(up) /\ DOMAIN x = 1 .. Len(x) /\ DOMAIN up' = 1 .. Len(up) + Len(x)
    BY <1>1, <2>1
  <2>3. CASE i \in 1 .. Len(up)
    <3>1. PICK f : f = up[i] /\ f = up'[i]
      BY <2>1, <2>3
    <3>2. f \in UpFrame /\ f \in Elems(up)
      BY <1>1, <2>2, <2>3, <3>1 DEF Elems
    <3>3. f.port \in Port
      BY <3>2 DEF UpFrame
    <3>4. /\ IsReport(f) => f.port \in Reporting
          /\ f.kind # "no" => f.val = dev[f.port] \/ ReportAfter(up, i, f.port)
      BY <2>2, <2>3, <3>1 DEF AgreeInv, ShownInv
    <3>5. f.kind # "no" /\ f.val = dev[f.port] =>
            f.val = dev'[f.port] \/ ReportAfter(up', i, f.port)
      <4>1. CASE f.kind # "no" /\ f.port = p /\ v # dev[p]
        <5>1. p \in Reporting
          BY <3>2, <4>1
        <5>2. i \in Nat /\ i <= Len(up)
          BY <1>1, <2>3
        <5> QED BY <1>4, <4>1, <5>1, <5>2
      <4>2. CASE ~(f.port = p /\ v # dev[p])
        BY <1>1, <3>3, <4>2
      <4> QED BY <4>1, <4>2
    <3>6. ReportAfter(up, i, f.port) => ReportAfter(up', i, f.port)
      BY <1>3
    <3> QED BY <3>1, <3>4, <3>5, <3>6
  <2>4. CASE i - Len(up) \in 1 .. Len(x) /\ i = Len(up) + (i - Len(up))
    <3>1. PICK j \in DOMAIN x : i = Len(up) + j
      BY <2>2, <2>4, Zenon
    <3>2. up'[i] = x[j]
      BY <2>1, <2>2, <3>1
    <3> QED BY <1>1, <3>2
  <2> QED BY <2>1, <2>2, <2>3, <2>4
<1> QED BY <1>2, <1>5, <1>7, <1>8 DEF AgreeInv

(***************************************************************************)
(* The first frame comes in or is lost: what is shown behind it stays so.  *)
(***************************************************************************)
LEMMA ShownBehind ==
  ASSUME AppTypes, ShownInv, up # <<>>, up' = Tail(up), UNCHANGED dev
  PROVE  ShownInv'
<1> SUFFICES ASSUME NEW i \in DOMAIN up'
             PROVE  /\ IsReport(up'[i]) => up'[i].port \in Reporting
                    /\ up'[i].kind # "no" =>
                         \/ up'[i].val = dev[up'[i].port]
                         \/ ReportAfter(up', i, up'[i].port)
  BY DEF ShownInv
<1>1. /\ up \in Seq(UpFrame) /\ up' \in Seq(UpFrame)
      /\ Len(up) = Len(up') + 1 /\ Len(up') \in Nat
      /\ \A j \in 1 .. Len(up') : up'[j] = up[j + 1]
  BY HeadAndTail DEF AppTypes
<1>2. i \in Nat /\ i + 1 \in DOMAIN up /\ i \in 1 .. Len(up')
  BY <1>1
<1>3. PICK f : f = up'[i] /\ f = up[i + 1]
  BY <1>1, <1>2
<1>4. /\ IsReport(f) => f.port \in Reporting
      /\ f.kind # "no" => f.val = dev[f.port] \/ ReportAfter(up, i + 1, f.port)
  BY <1>2, <1>3 DEF ShownInv
<1>5. ReportAfter(up, i + 1, f.port) => ReportAfter(up', i, f.port)
  BY <1>1, <1>2, ReportShift
<1> QED BY <1>3, <1>4, <1>5

(***************************************************************************)
(* What the first frame shows is so, or a report follows.                  *)
(***************************************************************************)
LEMMA FirstShown ==
  ASSUME AppTypes, ShownInv, up # <<>>, NEW f, f = Head(up)
  PROVE  /\ IsReport(f) => f.port \in Reporting
         /\ f.kind # "no" => f.val = dev[f.port] \/ ReportAfter(Tail(up), 0, f.port)
<1>1. up \in Seq(UpFrame) /\ f = up[1] /\ 1 \in DOMAIN up
  BY HeadAndTail DEF AppTypes
<1>2. /\ IsReport(f) => f.port \in Reporting
      /\ f.kind # "no" => f.val = dev[f.port] \/ ReportAfter(up, 1, f.port)
  BY <1>1 DEF ShownInv
<1>3. ReportAfter(up, 0 + 1, f.port) => ReportAfter(Tail(up), 0, f.port)
  BY <1>1, ReportShift
<1>4. 0 + 1 = 1
  OBVIOUS
<1> QED BY <1>2, <1>3, <1>4

(***************************************************************************)
(* The commands are the same when a transmission is noted as lost.         *)
(***************************************************************************)
LEMMA MissedWaits ==
  ASSUME AppTypes, NEW f, do' = Missed(f), UNCHANGED <<pSend, todo>>
  PROVE  Waiting' = Waiting
<1>1. ASSUME NEW b \in pSend PROVE do'[b].cmd = do[b].cmd
  <2>1. do[b] \in Sending
    BY DEF AppTypes
  <2>2. do'[b] = IF do[b].id = f.id THEN [do[b] EXCEPT !.lost = @ \cup {f.try}] ELSE do[b]
    BY DEF Missed
  <2> QED BY <2>1, <2>2 DEF Sending
<1> QED BY <1>1 DEF Waiting

(***************************************************************************)
(* The radio loses an answer or a report.                                  *)
(***************************************************************************)
LEMMA AgreeLoseUp == ASSUME AppTypes, AgreeInv, LoseUp PROVE AgreeInv'
<1>1. /\ up # <<>> /\ up' = Tail(up)
      /\ failed' = IF IsReport(Head(up)) THEN failed \cup {Head(up).port} ELSE failed
      /\ do' = Missed(Head(up)) /\ UNCHANGED <<value, told, dev, todo, down, pSend>>
  BY DEF LoseUp, IsReport, ioVars
<1>2. up \in Seq(UpFrame) /\ Elems(up') \subseteq Elems(up)
  BY <1>1, ElemsOfTail DEF AppTypes
<1>3. Waiting' = Waiting /\ Carried' = Carried
  BY <1>1, MissedWaits DEF Carried
<1>4. \A p \in Port \ failed' : ReportAfter(up, 0, p) => ReportAfter(up', 0, p)
  <2>1. \A p \in Port \ failed' : Head(up).port # p \/ ~IsReport(Head(up))
    BY <1>1
  <2> QED BY <1>1, <1>2, <2>1, ReportFirst
<1>5. Port \ failed' \subseteq Port \ failed
  BY <1>1
<1>6. ToldInv'
  BY <1>1, <1>3, <1>5 DEF AgreeInv, ToldInv
<1>7. ShownInv'
  BY <1>1, ShownBehind DEF AgreeInv
<1>8. ValueInv'
  BY <1>1, <1>3, <1>4, <1>5 DEF AgreeInv, ValueInv
<1>9. CareInv'
  BY <1>1, <1>2, <1>3 DEF AgreeInv, CareInv, OnlyReads, OnlyWrites
<1> QED BY <1>6, <1>7, <1>8, <1>9 DEF AgreeInv

(***************************************************************************)
(* A report or an answer comes in.                                         *)
(***************************************************************************)
LEMMA AgreeReceive == ASSUME AppTypes, WireInv, AgreeInv, Receive PROVE AgreeInv'
<1>1. PICK f \in UpFrame : f = Head(up)
  BY HeadAndTail DEF Receive, AppTypes
<1>2. PICK S \in SUBSET pSend : S = Removed(AddrOf[f.port], f.seq, FALSE)
  BY DEF Removed
<1>3. /\ up # <<>> /\ up' = Tail(up) /\ Unlink(S) /\ do' = [x \in pSend' |-> do[x]]
      /\ value' = Stored(f)
      /\ told' = IF IsTold(f) THEN [told EXCEPT ![f.port] = Stored(f)[f.port]] ELSE told
      /\ failed' = Outcome(f) \cup PortsOf(Unanswered(f))
      /\ UNCHANGED <<todo, down, dev>>
  BY <1>1, <1>2 DEF Receive, RemoveSend
<1>4. up \in Seq(UpFrame) /\ f \in Elems(up) /\ Elems(up') \subseteq Elems(up)
  BY <1>1, <1>3, ElemsOfTail DEF AppTypes
<1>5. /\ Waiting' \subseteq Waiting /\ Carried' \subseteq Carried
      /\ \A c \in Waiting : c \in Waiting' \/ \E b \in S : c = do[b].cmd
  BY <1>3, WaitingLeaves
<1>6. f.port \in Port /\ value \in [Port -> Val] /\ told \in [Port -> Val]
  BY DEF AppTypes, UpFrame
<1>7. CASE IsReport(f)
  <2>0. f.kind = "report"
    BY <1>7 DEF IsReport
  <2>1. /\ value' = [value EXCEPT ![f.port] = f.val]
        /\ value'[f.port] = f.val /\ \A q \in Port \ {f.port} : value'[q] = value[q]
    BY <1>3, <1>6, <2>0 DEF Stored
  <2>2. told'[f.port] = f.val /\ \A q \in Port \ {f.port} : told'[q] = told[q]
    BY <1>3, <1>6, <2>0, <2>1 DEF IsTold
  <2>3. \A q \in Port \ {f.port} : q \notin failed' => q \notin failed
    BY <1>3, <2>0 DEF Outcome
  <2>4. \A b \in S : do[b].cmd.port \in failed'
    <3>1. \A b \in S : do[b].id # f.id
      BY <1>4, <1>7 DEF WireInv, IdInv
    <3> QED BY <1>2, <1>3, <3>1 DEF Unanswered, PortsOf
  <2>5. \A c \in Waiting : c.port \notin failed' => c \in Waiting'
    BY <1>5, <2>4
  <2>6. f.port \in Reporting /\ (f.val = dev[f.port] \/ ReportAfter(up', 0, f.port))
    BY <1>1, <1>3, <1>7, <2>0, FirstShown DEF AgreeInv
  <2>7. \A q \in Port \ {f.port} : ReportAfter(up, 0, q) => ReportAfter(up', 0, q)
    BY <1>1, <1>3, <1>4, ReportFirst
  <2>8. ToldInv'
    <3> SUFFICES ASSUME NEW q \in Port \ failed'
                 PROVE  told'[q] = value'[q] \/ \E c \in Waiting' : c.port = q
      BY DEF ToldInv
    <3>1. CASE q = f.port
      BY <2>1, <2>2, <3>1
    <3>2. CASE q # f.port
      <4>1. told[q] = value[q] \/ \E c \in Waiting : c.port = q
        BY <2>3, <3>2 DEF AgreeInv, ToldInv
      <4> QED BY <2>1, <2>2, <2>5, <3>2, <4>1
    <3> QED BY <3>1, <3>2
  <2>9. ValueInv'
    <3> SUFFICES ASSUME NEW q \in Port \ failed'
                 PROVE  \/ value'[q] = dev[q] \/ ReportAfter(up', 0, q)
                        \/ \E c \in Waiting' : c.port = q /\ IsWrite(c) /\ c.val = value'[q]
      BY <1>3 DEF ValueInv
    <3>1. CASE q = f.port
      BY <2>1, <2>6, <3>1
    <3>2. CASE q # f.port
      <4>1. \/ value[q] = dev[q] \/ ReportAfter(up, 0, q)
            \/ \E c \in Waiting : c.port = q /\ IsWrite(c) /\ c.val = value[q]
        BY <2>3, <3>2 DEF AgreeInv, ValueInv
      <4> QED BY <2>1, <2>5, <2>7, <3>2, <4>1
    <3> QED BY <3>1, <3>2
  <2>10. CareInv'
    <3>1. \A q \in Port \ Reporting : value'[q] = value[q]
      BY <2>1, <2>6
    <3> QED BY <1>4, <1>5, <3>1 DEF AgreeInv, CareInv, OnlyReads, OnlyWrites
  <2>11. ShownInv'
    BY <1>3, ShownBehind DEF AgreeInv
  <2> QED BY <2>8, <2>9, <2>10, <2>11 DEF AgreeInv
<1>8. CASE ~IsReport(f)
  <2>1. \A b \in S : b \in Unanswered(f) \/ Answers(f, do[b].cmd)
    <3>1. \A b \in S : b \in Unanswered(f) \/ do[b].id = f.id
      BY <1>2 DEF Unanswered
    <3> QED BY <1>4, <3>1 DEF WireInv, MatchInv
  <2>2. Outcome(f) \subseteq failed' /\ \A b \in Unanswered(f) : do[b].cmd.port \in failed'
    BY <1>3 DEF PortsOf
  <2>3. /\ \A q \in Port \ {f.port} : q \notin failed' => q \notin failed
        /\ f.kind = "no" => f.port \in failed'
    BY <2>2 DEF Outcome
  <2>4. \A c \in Waiting : c.port \in failed' \/ c \in Waiting' \/ Answers(f, c)
    BY <1>5, <2>1, <2>2
  <2>5. \A c \in Waiting : c.port \notin failed' /\ c.port # f.port => c \in Waiting'
    BY <2>4 DEF Answers
  <2>6. \A q \in Port \ {f.port} : value'[q] = value[q] /\ told'[q] = told[q]
    BY <1>3, <1>6 DEF Stored
  <2>7. f.kind # "no" => told'[f.port] = value'[f.port]
    BY <1>3, <1>6 DEF IsTold
  <2>8. f.kind # "no" => f.val = dev[f.port] \/ ReportAfter(up', 0, f.port)
    BY <1>1, <1>3, FirstShown DEF AgreeInv
  <2>9. \A q : ReportAfter(up, 0, q) => ReportAfter(up', 0, q)
    BY <1>1, <1>3, <1>4, <1>8, ReportFirst
  <2>10. ToldInv'
    <3> SUFFICES ASSUME NEW q \in Port \ failed'
                 PROVE  told'[q] = value'[q] \/ \E c \in Waiting' : c.port = q
      BY DEF ToldInv
    <3>1. CASE q = f.port
      BY <2>3, <2>7, <3>1
    <3>2. CASE q # f.port
      <4>1. told[q] = value[q] \/ \E c \in Waiting : c.port = q
        BY <2>3, <3>2 DEF AgreeInv, ToldInv
      <4> QED BY <2>5, <2>6, <3>2, <4>1
    <3> QED BY <3>1, <3>2
  <2>11. ValueInv'
    <3> SUFFICES ASSUME NEW q \in Port \ failed'
                 PROVE  \/ value'[q] = dev[q] \/ ReportAfter(up', 0, q)
                        \/ \E c \in Waiting' : c.port = q /\ IsWrite(c) /\ c.val = value'[q]
      BY <1>3 DEF ValueInv
    <3>1. CASE q # f.port
      <4>1. \/ value[q] = dev[q] \/ ReportAfter(up, 0, q)
            \/ \E c \in Waiting : c.port = q /\ IsWrite(c) /\ c.val = value[q]
        BY <2>3, <3>1 DEF AgreeInv, ValueInv
      <4> QED BY <2>5, <2>6, <2>9, <3>1, <4>1
    <3>2. CASE q = f.port
      <4>0. f.kind # "no"
        BY <2>3, <3>2
      <4>1. CASE value'[q] = f.val
        BY <2>8, <3>2, <4>0, <4>1
      <4>2. CASE value'[q] # f.val
        <5>1. f.kind = "ok" /\ value' = value
          BY <1>3, <1>6, <1>8, <3>2, <4>0, <4>2 DEF Stored, IsReport, UpFrame
        <5>2. q \notin failed
          BY <1>3, <2>2, <3>2, <4>0, <4>2 DEF Outcome
        <5>3. \/ value[q] = dev[q] \/ ReportAfter(up, 0, q)
              \/ \E c \in Waiting : c.port = q /\ IsWrite(c) /\ c.val = value[q]
          BY <5>2 DEF AgreeInv, ValueInv
        <5>4. \A c \in Waiting : c.port \notin failed' /\ c.val # f.val => c \in Waiting'
          BY <2>4, <5>1 DEF Answers
        <5> QED BY <2>9, <4>2, <5>1, <5>3, <5>4
      <4> QED BY <4>1, <4>2
    <3> QED BY <3>1, <3>2
  <2>12. CareInv'
    <3> SUFFICES ASSUME NEW q \in Port \ Reporting PROVE OnlyReads(q)' \/ OnlyWrites(q)'
      BY DEF CareInv
    <3>1. OnlyReads(q) \/ OnlyWrites(q)
      BY DEF AgreeInv, CareInv
    <3>2. OnlyReads(q) => OnlyReads(q)'
      BY <1>4, <1>5 DEF OnlyReads
    <3>3. ASSUME OnlyWrites(q) PROVE OnlyWrites(q)'
      <4>1. ~(q = f.port /\ f.kind = "value")
        BY <1>4, <3>3 DEF OnlyWrites
      <4>2. value'[q] = value[q]
        BY <1>3, <1>8, <2>6, <4>1 DEF Stored, IsReport
      <4> QED BY <1>4, <1>5, <3>3, <4>2 DEF OnlyWrites
    <3> QED BY <3>1, <3>2, <3>3
  <2>13. ShownInv'
    BY <1>3, ShownBehind DEF AgreeInv
  <2> QED BY <2>10, <2>11, <2>12, <2>13 DEF AgreeInv
<1> QED BY <1>7, <1>8

(***************************************************************************)
(* The cloud writes a value, or asks for one.                              *)
(***************************************************************************)
LEMMA AgreeCloud ==
  ASSUME AppTypes, AgreeInv, NEW p \in Port, NEW level \in BOOLEAN, NEW v \in Val,
         Write(p, level, v) \/ (v \in Payload /\ Read(p, level, v))
  PROVE  AgreeInv'
<1>1. /\ todo = <<>> /\ UNCHANGED <<told, dev, up, failed, down, pSend, do>>
      /\ p \in Reporting \/ Settled(p)
  BY DEF Write, Read, ioVars
<1>2. PICK C : C = Elems(todo')
  OBVIOUS
<1>3. Elems(todo) = {}
  BY <1>1, ElemsOfFew
<1>4. Waiting' = Waiting \cup C /\ Carried' = Carried \cup C
  BY <1>1, <1>2, <1>3 DEF Waiting, Carried
<1>5. \A a, b : Elems(<<a, b>>) = {a, b}
  BY DEF Elems
<1>6. CASE Write(p, level, v)
  <2>1. C = {On(p, v)} \/ C = {Move(p, v), On(p, v)} \/ C = {Move(p, v)}
    BY <1>2, <1>5, <1>6, ElemsOfFew DEF Write
  <2>2. C # {} /\ \A c \in C : c.port = p /\ IsWrite(c) /\ c.val = v
    <3>1. /\ On(p, v).port = p /\ On(p, v).kind # "read" /\ On(p, v).val = v
          /\ Move(p, v).port = p /\ Move(p, v).kind # "read" /\ Move(p, v).val = v
      BY DEF On, Move
    <3>2. PICK a, b : a = On(p, v) /\ b = Move(p, v)
      OBVIOUS
    <3>3. C = {a} \/ C = {b, a} \/ C = {b}
      BY <2>1, <3>2
    <3> QED BY <3>1, <3>2, <3>3 DEF IsWrite
  <2>3. value'[p] = v /\ \A q \in Port \ {p} : value'[q] = value[q]
    BY <1>6 DEF Write, AppTypes
  <2>4. p \notin Reporting =>
          (\A c \in Carried : c.port # p) /\ (\A f \in Elems(up) : f.port # p)
    BY <1>1, <1>3 DEF Settled, Carried, Waiting, Elems
  <2> QED BY <1>1, <1>4, <2>2, <2>3, <2>4, AgreeMore
<1>7. CASE v \in Payload /\ Read(p, level, v)
  <2>1. C = {Ask(p)} \/ (v = 0 /\ C = {Ask(p), On(p, 0)})
    BY <1>2, <1>5, <1>7, ElemsOfFew DEF Read
  <2>2. \A c \in C : c.port = p /\ (v # 0 => ~IsWrite(c))
    BY <2>1 DEF Ask, On, IsWrite
  <2>3. value' = value /\ (p \in Reporting \/ v # 0)
    BY <1>7 DEF Read
  <2>4. p \notin Reporting =>
          (\A c \in Carried : c.port # p) /\ (\A f \in Elems(up) : f.port # p)
    BY <1>1, <1>3 DEF Settled, Carried, Waiting, Elems
  <2> QED BY <1>1, <1>4, <2>2, <2>3, <2>4, AgreeMore
<1> QED BY <1>6, <1>7

(***************************************************************************)
(* Every step keeps them.                                                  *)
(***************************************************************************)
LEMMA AgreeStep ==
  ASSUME IoInv, AppTypes, WireInv, AgreeInv, [ZaNext]_zaVars
  PROVE  AgreeInv'
<1>1. ASSUME NEW p \in Port, NEW level \in BOOLEAN, NEW v \in Val, Write(p, level, v)
      PROVE  AgreeInv'
  BY <1>1, AgreeCloud
<1>2. ASSUME NEW p \in Port, NEW level \in BOOLEAN, NEW v \in Payload, Read(p, level, v)
      PROVE  AgreeInv'
  BY <1>2, AgreeCloud, AppFlowAssumption
<1>3. ASSUME NEW p \in Port, NEW v \in Val, LocalChange(p, v) PROVE AgreeInv'
  <2>1. /\ p \in Reporting /\ v # dev[p] /\ dev' = [dev EXCEPT ![p] = v]
        /\ UNCHANGED <<value, told, failed, todo, do, down, pSend>>
    BY <1>3 DEF LocalChange, ioVars
  <2>2. PICK s \in DevSeq : up' = up \o <<Report(p, s, v)>>
    BY <1>3, <2>1 DEF LocalChange, ReportOf
  <2>3. PICK f \in UpFrame : f = Report(p, s, v)
    BY FrameType, AppFlowAssumption
  <2>4. f.port = p /\ f.kind = "report" /\ f.val = v /\ IsReport(f)
    BY <2>3 DEF Report, IsReport
  <2>5. PICK x \in Seq(UpFrame) : x = <<f>> /\ DOMAIN x = {1} /\ x[1] = f
    BY OneFrame
  <2>6. up' = up \o x
    BY <2>2, <2>3, <2>5
  <2>7. Waiting' = Waiting /\ Carried' = Carried
    BY <2>1 DEF Waiting, Carried
  <2>8. HasReport(x)
    BY <2>4, <2>5 DEF HasReport
  <2>9. \A i \in DOMAIN x : /\ x[i].port = p
                            /\ IsReport(x[i]) => p \in Reporting
                            /\ x[i].kind # "no" => x[i].val = v
    BY <2>1, <2>4, <2>5
  <2>10. UNCHANGED <<value, told, failed>>
    BY <2>1
  <2>11. Waiting' = Waiting /\ Carried' \subseteq Carried
    BY <2>7
  <2> QED BY <2>1, <2>6, <2>8, <2>9, <2>10, <2>11, AgreeDevice
<1>4. CASE LoseDown
  <2>1. /\ UNCHANGED <<value, told, dev, up, failed, todo, pSend>>
        /\ down # <<>> /\ down' = Tail(down) /\ do' = Missed(Head(down))
    BY <1>4 DEF LoseDown, ioVars
  <2>2. Elems(down') \subseteq Elems(down)
    BY <2>1, ElemsOfTail DEF AppTypes
  <2>3. Waiting' = Waiting /\ Carried' \subseteq Carried
    BY <2>1, <2>2, MissedWaits DEF Carried
  <2> QED BY <2>1, <2>3, AgreeFewer
<1>5. CASE LoseUp
  BY <1>5, AgreeLoseUp
<1>6. ASSUME NEW b \in Block, SendCommand(b) PROVE AgreeInv'
  <2>1. /\ UNCHANGED <<value, told, dev, up, failed, down>>
        /\ todo # <<>> /\ todo' = Tail(todo) /\ pSend' = pSend \cup {b} /\ b \notin pSend
        /\ do' = With(do, b, [cmd |-> Head(todo), id |-> made', lost |-> {}])
    BY <1>6 DEF SendCommand, ReqSend, AddToSendList
  <2>2. Elems(todo) = {Head(todo)} \cup Elems(todo')
    BY <2>1, ElemsOfTail DEF AppTypes
  <2>3. {do'[x].cmd : x \in pSend'} = {do[x].cmd : x \in pSend} \cup {Head(todo)}
    BY <2>1 DEF With
  <2>4. Waiting' = Waiting /\ Carried' = Carried
    BY <2>1, <2>2, <2>3 DEF Waiting, Carried
  <2> QED BY <2>1, <2>4, AgreeFewer
<1>7. CASE SendFails
  <2>1. /\ UNCHANGED <<value, told, dev, up, down, do, pSend>>
        /\ todo # <<>> /\ todo' = Tail(todo) /\ failed' = failed \cup {Head(todo).port}
    BY <1>7 DEF SendFails, ioVars
  <2>2. Elems(todo) = {Head(todo)} \cup Elems(todo')
    BY <2>1, ElemsOfTail DEF AppTypes
  <2>3. /\ Waiting' \subseteq Waiting /\ Carried' \subseteq Carried
        /\ \A c \in Waiting : c \in Waiting' \/ c = Head(todo)
    BY <2>1, <2>2 DEF Waiting, Carried
  <2> QED BY <2>1, <2>3, AgreeFewer
<1>8. CASE TimerFires \/ TimerEnds \/ UNCHANGED zaVars
  <2>1. UNCHANGED pSend /\ UNCHANGED appVars
    BY <1>8 DEF TimerFires, TimerEnds, IoTimerFires, IoTaskEnd, zaVars, ioVars
  <2>2. UNCHANGED <<value, told, dev, up, down, do, pSend, todo, failed>>
    BY <2>1 DEF appVars
  <2>3. Waiting' = Waiting /\ Carried' = Carried
    BY <2>2 DEF Waiting, Carried
  <2> QED BY <2>2, <2>3, AgreeFewer
<1>9. ASSUME NEW b \in Block, Transmit(b) PROVE AgreeInv'
  <2>1. PICK g : g = [cmd |-> do[b].cmd, seq |-> out[b].seq,
                      id |-> do[b].id, try |-> sent[b] + 1]
    OBVIOUS
  <2>2. /\ UNCHANGED <<value, told, dev, up, failed, todo, do>>
        /\ b \in pSend /\ pSend' = pSend /\ down' = Append(down, g)
    BY <1>9, <2>1 DEF Transmit, IoTaskSend
  <2>3. Elems(down') = Elems(down) \cup {g} /\ g.cmd = do[b].cmd
    BY <2>1, <2>2, ElemsOfAppend DEF AppTypes
  <2>4. Waiting' = Waiting /\ Carried' \subseteq Carried
    BY <2>2, <2>3 DEF Waiting, Carried
  <2> QED BY <2>2, <2>4, AgreeFewer
<1>10. ASSUME NEW b \in Block, GivesUp(b) PROVE AgreeInv'
  <2>1. PICK S \in SUBSET pSend : Unlink(S)
    <3>1. Unlink(Removed(out[b].addr, out[b].seq, out[b].ack))
      BY <1>10 DEF GivesUp, IoTaskGiveUp
    <3> QED BY <3>1 DEF Removed
  <2>2. /\ UNCHANGED <<value, told, dev, up, todo, down>>
        /\ do' = [x \in pSend' |-> do[x]] /\ failed' = failed \cup PortsOf(Dropped)
    BY <1>10 DEF GivesUp
  <2>3. /\ Waiting' \subseteq Waiting /\ Carried' \subseteq Carried
        /\ \A c \in Waiting : c \in Waiting' \/ \E a \in S : c = do[a].cmd
    BY <2>1, <2>2, WaitingLeaves
  <2>4. Dropped = S
    BY <2>1, <2>2, UnlinkLeaves DEF Dropped
  <2>5. \A a \in S : do[a].cmd.port \in failed'
    BY <2>2, <2>4 DEF PortsOf
  <2> QED BY <2>2, <2>3, <2>5, AgreeFewer
<1>11. CASE Receive
  BY <1>11, AgreeReceive
<1>12. CASE DeviceActs
  <2>1. /\ UNCHANGED <<value, told, failed, todo, do, pSend>>
        /\ down # <<>> /\ down' = Tail(down)
    BY <1>12 DEF DeviceActs, ioVars
  <2>2. PICK g \in DownFrame : g = Head(down)
    BY <2>1, HeadAndTail DEF AppTypes
  <2>3. PICK p \in Port : p = g.cmd.port
    BY DEF DownFrame, Command
  <2>4. PICK x \in Seq(UpFrame), v \in Val :
           /\ up' = up \o x /\ dev' = [dev EXCEPT ![p] = v]
           /\ Reply(x, g, v) /\ HasAnswer(x)
           /\ v # dev[p] => /\ IsWrite(g.cmd) /\ v = g.cmd.val
                            /\ p \in Reporting => HasReport(x)
    BY <1>12, <2>2, <2>3, DeviceReplies
  <2>5. Elems(down) = {g} \cup Elems(down')
    BY <2>1, <2>2, ElemsOfTail DEF AppTypes
  <2>6. Waiting' = Waiting /\ Carried' \subseteq Carried /\ g.cmd \in Carried
    BY <2>1, <2>5 DEF Waiting, Carried
  <2>7. \A i \in DOMAIN x : /\ x[i].port = p
                            /\ IsReport(x[i]) => p \in Reporting
                            /\ x[i].kind # "no" => x[i].val = v
    BY <2>3, <2>4 DEF Reply, ReplyFrame
  <2>8. \A i \in DOMAIN x : /\ x[i].kind = "value" => ~IsWrite(g.cmd)
                            /\ x[i].kind = "ok" => IsWrite(g.cmd) /\ x[i].val = g.cmd.val
    BY <2>4 DEF Reply, ReplyFrame, IsReport, Answers
  <2>9. p \notin Reporting =>
          \/ OnlyReads(p) /\ \A i \in DOMAIN x : x[i].kind # "ok"
          \/ OnlyWrites(p) /\ \A i \in DOMAIN x :
               x[i].kind # "value" /\ (x[i].kind = "ok" => x[i].val = value[p])
    <3> SUFFICES ASSUME p \notin Reporting
                 PROVE  \/ OnlyReads(p) /\ \A i \in DOMAIN x : x[i].kind # "ok"
                        \/ OnlyWrites(p) /\ \A i \in DOMAIN x :
                             x[i].kind # "value" /\ (x[i].kind = "ok" => x[i].val = value[p])
      OBVIOUS
    <3>1. OnlyReads(p) \/ OnlyWrites(p)
      BY DEF AgreeInv, CareInv
    <3>2. /\ OnlyReads(p) => ~IsWrite(g.cmd)
          /\ OnlyWrites(p) => IsWrite(g.cmd) /\ g.cmd.val = value[p]
      BY <2>3, <2>6 DEF OnlyReads, OnlyWrites
    <3> QED BY <2>8, <3>1, <3>2
  <2>10. v # dev[p] /\ p \notin Reporting =>
           v = value[p] /\ \A f \in Elems(up) : f.port = p => f.kind = "no"
    <3> SUFFICES ASSUME v # dev[p], p \notin Reporting
                 PROVE  v = value[p] /\ \A f \in Elems(up) : f.port = p => f.kind = "no"
      OBVIOUS
    <3>1. IsWrite(g.cmd) /\ v = g.cmd.val
      BY <2>4
    <3>2. OnlyWrites(p) /\ v = value[p]
      BY <2>3, <2>6, <3>1 DEF AgreeInv, CareInv, OnlyReads, OnlyWrites
    <3>3. ASSUME NEW f \in Elems(up), f.port = p PROVE f.kind = "no"
      <4>1. PICK i \in DOMAIN up : f = up[i]
        BY DEF Elems
      <4>2. f \in UpFrame
        BY <4>1 DEF AppTypes
      <4>3. \A j \in DOMAIN up : IsReport(up[j]) => up[j].port # p
        BY DEF AgreeInv, ShownInv
      <4>4. f.kind # "no" => f.val = dev[p]
        BY <3>3, <4>1, <4>3 DEF AgreeInv, ShownInv, ReportAfter
      <4>5. f.kind # "value" /\ (f.kind = "ok" => f.val = v)
        BY <3>2, <3>3 DEF OnlyWrites
      <4>6. f.kind # "report"
        BY <3>3, <4>1, <4>3 DEF IsReport
      <4> QED BY <4>2, <4>4, <4>5, <4>6 DEF UpFrame
    <3> QED BY <3>2, <3>3
  <2> QED BY <2>1, <2>4, <2>6, <2>7, <2>8, <2>9, <2>10, AgreeDevice
<1> QED
  BY <1>1, <1>2, <1>3, <1>4, <1>5, <1>6, <1>7, <1>8, <1>9, <1>10, <1>11, <1>12
     DEF ZaNext, Env, System

(***************************************************************************)
(* When everything has come to rest, the gateway, the cloud and the device *)
(* agree on every port but those with a command that was without effect or *)
(* a report that was lost, although values are stored before they are      *)
(* sent, the success of one write is reported with the value of the next,  *)
(* and answers come early, late or never.                                  *)
(***************************************************************************)
THEOREM AllAgreeAtRest == ZaSpec => []Agreement
<1>1. ZaInit => AgreeInv
  <2> SUFFICES ASSUME ZaInit PROVE AgreeInv
    OBVIOUS
  <2>1. /\ pSend = {} /\ todo = <<>> /\ down = <<>> /\ up = <<>>
        /\ told = value /\ dev = value
    BY DEF ZaInit, IoInit
  <2>2. Carried = {} /\ Elems(up) = {} /\ DOMAIN up = {}
    BY <2>1, ElemsOfFew, OneFrame DEF Carried, Waiting
  <2> QED BY <2>1, <2>2 DEF AgreeInv, ToldInv, ShownInv, ValueInv, CareInv, OnlyReads
<1>2. ZaInv /\ WireInv /\ AgreeInv /\ [ZaNext]_zaVars => AgreeInv'
  BY AgreeStep DEF ZaInv
<1>3. AgreeInv => Agreement
  <2> SUFFICES ASSUME AgreeInv, AllSettled, NEW p \in Port \ failed
               PROVE  value[p] = dev[p] /\ told[p] = dev[p]
    BY DEF Agreement
  <2>1. pSend = {} /\ todo = <<>> /\ up = <<>>
    BY DEF AllSettled
  <2>2. Waiting = {} /\ DOMAIN up = {}
    BY <2>1, ElemsOfFew, OneFrame DEF Waiting
  <2>3. value[p] = dev[p]
    BY <2>2 DEF AgreeInv, ValueInv, ReportAfter
  <2>4. told[p] = value[p]
    BY <2>2 DEF AgreeInv, ToldInv
  <2> QED BY <2>3, <2>4
<1>4. ZaSpec => []AgreeInv
  BY <1>1, <1>2, ZaInvariant, WireInvariant, PTL DEF ZaSpec
<1> QED BY <1>3, <1>4, PTL
=============================================================================
