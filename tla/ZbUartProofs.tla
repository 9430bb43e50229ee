---------------------------- MODULE ZbUartProofs ----------------------------
(***************************************************************************)
(* Proofs about the serial link (ZbUart): its buffers are never written    *)
(* past their ends, frames are handed over in the order in which they were *)
(* sent, and no burst is cut short by the timeout, whatever the sizes of   *)
(* the arrays and the chunks and the frames that are sent.                 *)
(***************************************************************************)
EXTENDS ZbUart, SequenceTheorems, TLAPS

\* Looking for the start byte gives bytes of the buffer, and no more of them.
LEMMA AlignedIsPart ==
  ASSUME NEW z \in Seq(Byte), NEW s \in Aligned(z)
  PROVE  s \in Seq(Byte) /\ Len(s) <= Len(z)
<1>1. CASE s = z
  BY <1>1
<1>2. CASE s # z
  <2>1. PICK i \in Heads(z) : s = SubSeq(z, i, Len(z))
    BY <1>2 DEF Aligned
  <2>2. i \in 1 .. Len(z) /\ Len(z) \in Nat
    BY DEF Heads
  <2> QED BY <2>1, <2>2, SubSeqProperties
<1> QED BY <1>1, <1>2

\* check_package never finds a frame that is longer than the bytes there are,
\* whatever their byte LEN says.
LEMMA CheckedLength ==
  ASSUME NEW s \in Seq(Byte), NEW slen \in check_package(s)
  PROVE  slen \in 0 .. Len(s)
<1>1. Len(s) \in Nat
  OBVIOUS
<1>2. CASE slen = 0
  BY <1>1, <1>2
<1>3. CASE slen # 0
  <2>1. Len(s) > 5 /\ slen = package_length(s) /\ ~(package_length(s) > Len(s))
    BY <1>3, <1>1 DEF check_package, ZB_MIN_PACKAGE_SIZE
  <2>2. s[2] \in Byte
    BY <2>1, <1>1
  <2>3. package_length(s) \in Nat
    BY <2>2, ByteAssumption DEF package_length, ZB_MIN_PACKAGE_SIZE, Byte
  <2> QED BY <2>1, <2>3, <1>1
<1> QED BY <1>2, <1>3

\* One turn of zb_uart_read keeps the type of what it waits for.
LEMMA TurnOverType ==
  ASSUME UartTypeOK, TurnOver
  PROVE  reader' \in [cmd : Asked \cup {<<>>}, stry : 0 .. READ_TRY]
<1>1. reader \in [cmd : Asked \cup {<<>>}, stry : 0 .. READ_TRY]
  BY DEF UartTypeOK
<1>2. CASE reader.stry > 1
  <2>1. reader.stry - 1 \in 0 .. READ_TRY
    BY <1>1, <1>2, UartAssumption
  <2> QED BY <1>1, <1>2, <2>1 DEF TurnOver
<1>3. CASE ~(reader.stry > 1)
  BY <1>3, UartAssumption DEF TurnOver, NoReader
<1> QED BY <1>2, <1>3

\* The buffers are empty at first.
LEMMA UartInitType == UartInit => UartTypeOK
<1> SUFFICES ASSUME UartInit PROVE UartTypeOK
  OBVIOUS
<1>1. NoReader \in [cmd : Asked \cup {<<>>}, stry : 0 .. READ_TRY]
  BY UartAssumption DEF NoReader
<1>2. <<>> \in Seq(Byte) /\ <<>> \in Seq(Frames) /\ Len(<<>>) = 0
  BY EmptySeq
<1>3. UART_BUFFER_SIZE > 0 /\ ZB_RX_BUFFER_SIZE >= 0 /\ MaxBurst >= 0
  BY UartAssumption
<1>4. timeout \in 0 .. RX_TIMEOUT
  BY UartAssumption DEF UartInit
<1>5. lost \in BOOLEAN /\ disturbed \in BOOLEAN
  BY DEF UartInit
<1> QED BY <1>1, <1>2, <1>3, <1>4, <1>5 DEF UartInit, UartTypeOK

\* uart_thread does not write past the end of RxBuffer.
LEMMA UartThreadType == ASSUME UartTypeOK, uart_thread PROVE UartTypeOK'
<1>1. PICK n \in 1 .. UART_CHUNK :
        /\ n <= Len(line)
        /\ PutDown(SubSeq(line, 1, n))
        /\ line' = SubSeq(line, n + 1, Len(line))
  BY DEF uart_thread
<1>2. /\ n \in Nat /\ n >= 1 /\ Len(line) \in Nat /\ line \in Seq(Byte)
      /\ RxBuffer \in Seq(Byte) /\ Len(RxBuffer) < UART_BUFFER_SIZE
      /\ UART_BUFFER_SIZE \in Nat \ {0} /\ Len(RxBuffer) \in Nat
  BY UartAssumption DEF UartTypeOK
<1>3. SubSeq(line, 1, n) \in Seq(Byte) /\ Len(SubSeq(line, 1, n)) = n
  BY <1>1, <1>2, SubSeqProperties
<1>4. line' \in Seq(Byte)
  BY <1>1, <1>2, SubSeqProperties
<1>5. RxBuffer' \in Seq(Byte) /\ Len(RxBuffer') < UART_BUFFER_SIZE
  <2>1. CASE Len(RxBuffer) + Len(SubSeq(line, 1, n)) < UART_BUFFER_SIZE
    <3> DEFINE c == SubSeq(line, 1, n)
    <3>1. RxBuffer' = RxBuffer \o c
      BY <2>1, <1>1 DEF PutDown
    <3> HIDE DEF c
    <3>2. RxBuffer \o c \in Seq(Byte) /\ Len(RxBuffer \o c) = Len(RxBuffer) + Len(c)
      BY <1>2, <1>3, ConcatProperties DEF c
    <3> QED BY <2>1, <3>1, <3>2 DEF c
  <2>2. CASE ~(Len(RxBuffer) + Len(SubSeq(line, 1, n)) < UART_BUFFER_SIZE)
    BY <2>2, <1>1, <1>2, EmptySeq DEF PutDown
  <2> QED BY <2>1, <2>2
<1>6. lost' \in BOOLEAN /\ disturbed' \in BOOLEAN
  BY <1>1 DEF PutDown, UartTypeOK
<1>7. UNCHANGED <<zb_rx, timeout, reader, sent>>
  BY DEF uart_thread
<1> QED BY <1>4, <1>5, <1>6, <1>7 DEF UartTypeOK

\* read_package does not write past the end of zb_rx.data.
LEMMA DrainType == ASSUME UartTypeOK, Drain PROVE UartTypeOK'
<1> DEFINE n == IF Len(RxBuffer) > UART_CHUNK THEN UART_CHUNK ELSE Len(RxBuffer)
           s == SubSeq(RxBuffer, 1, n)
<1>1. /\ RxBuffer \in Seq(Byte) /\ zb_rx \in Seq(Byte)
      /\ Len(RxBuffer) < UART_BUFFER_SIZE /\ Len(zb_rx) <= ZB_RX_BUFFER_SIZE
      /\ Len(RxBuffer) \in Nat /\ Len(zb_rx) \in Nat
  BY DEF UartTypeOK
<1>2. /\ UART_CHUNK \in Nat \ {0} /\ UART_BUFFER_SIZE \in Nat
      /\ ZB_RX_BUFFER_SIZE \in Nat /\ UART_CHUNK <= ZB_RX_BUFFER_SIZE
      /\ RX_TIMEOUT \in Nat
  BY UartAssumption
<1>3. n \in 0 .. Len(RxBuffer) /\ n <= ZB_RX_BUFFER_SIZE
  BY <1>1, <1>2
<1>4. s \in Seq(Byte) /\ Len(s) = n
  BY <1>1, <1>3, SubSeqProperties
<1>5. RxBuffer' \in Seq(Byte) /\ Len(RxBuffer') <= Len(RxBuffer)
  <2>1. RxBuffer' = SubSeq(RxBuffer, n + 1, Len(RxBuffer))
    BY DEF Drain
  <2> HIDE DEF n
  <2> QED BY <2>1, <1>1, <1>3, SubSeqProperties
<1>6. Collect(s)
  BY DEF Drain
<1>7. zb_rx' \in Seq(Byte) /\ Len(zb_rx') <= ZB_RX_BUFFER_SIZE
  <2> HIDE DEF n, s
  <2>1. CASE ZB_RX_BUFFER_SIZE < Len(zb_rx) + Len(s)
    BY <2>1, <1>3, <1>4, <1>6 DEF Collect
  <2>2. CASE ~(ZB_RX_BUFFER_SIZE < Len(zb_rx) + Len(s))
    <3>1. zb_rx' = zb_rx \o s
      BY <2>2, <1>6 DEF Collect
    <3> QED BY <3>1, <2>2, <1>1, <1>2, <1>3, <1>4, ConcatProperties
  <2> QED BY <2>1, <2>2
<1>8. lost' \in BOOLEAN /\ disturbed' \in BOOLEAN
  BY <1>6 DEF Collect, UartTypeOK
<1>9. timeout' \in 0 .. RX_TIMEOUT
  BY <1>2 DEF Drain
<1>10. UNCHANGED <<line, reader, sent>>
  BY DEF Drain
<1>11. Len(RxBuffer') \in Nat /\ Len(RxBuffer') < UART_BUFFER_SIZE
  BY <1>1, <1>2, <1>5
<1> QED BY <1>5, <1>7, <1>8, <1>9, <1>10, <1>11 DEF UartTypeOK

\* Cutting a frame out leaves a part of what was there.
LEMMA CutFrameType == ASSUME UartTypeOK, CutFrame PROVE UartTypeOK'
<1>1. PICK s \in Aligned(zb_rx) : \E slen \in check_package(s) :
        /\ zb_rx' = SubSeq(s, slen + 1, Len(s))
        /\ IF slen > 0 THEN FrameTaken(Unpacked(s, slen))
           ELSE /\ IF reader = NoReader THEN UNCHANGED reader ELSE TurnOver
                /\ UNCHANGED got
  BY DEF CutFrame
<1>2. PICK slen \in check_package(s) :
        /\ zb_rx' = SubSeq(s, slen + 1, Len(s))
        /\ IF slen > 0 THEN FrameTaken(Unpacked(s, slen))
           ELSE /\ IF reader = NoReader THEN UNCHANGED reader ELSE TurnOver
                /\ UNCHANGED got
  BY <1>1
<1>3. /\ zb_rx \in Seq(Byte) /\ Len(zb_rx) \in Nat
      /\ Len(zb_rx) <= ZB_RX_BUFFER_SIZE /\ ZB_RX_BUFFER_SIZE \in Nat
  BY UartAssumption DEF UartTypeOK
<1>4. s \in Seq(Byte) /\ Len(s) <= Len(zb_rx) /\ Len(s) \in Nat
  BY <1>3, AlignedIsPart
<1>5. slen \in 0 .. Len(s)
  BY <1>4, CheckedLength
<1>6. zb_rx' \in Seq(Byte) /\ Len(zb_rx') <= Len(s) /\ Len(zb_rx') \in Nat
  BY <1>2, <1>4, <1>5, SubSeqProperties
<1>7. reader' \in [cmd : Asked \cup {<<>>}, stry : 0 .. READ_TRY]
  <2>1. UNCHANGED reader \/ TurnOver \/ reader' = NoReader
    BY <1>2 DEF FrameTaken
  <2>2. NoReader \in [cmd : Asked \cup {<<>>}, stry : 0 .. READ_TRY]
    BY UartAssumption DEF NoReader
  <2> QED BY <2>1, <2>2, TurnOverType DEF UartTypeOK
<1>8. timeout' \in 0 .. RX_TIMEOUT
  BY UartAssumption DEF CutFrame, UartTypeOK
<1>9. UNCHANGED <<line, RxBuffer, sent, lost>> /\ disturbed' \in BOOLEAN
  BY DEF CutFrame, UartTypeOK
<1>10. Len(zb_rx') <= ZB_RX_BUFFER_SIZE
  BY <1>3, <1>4, <1>6
<1> QED BY <1>6, <1>7, <1>8, <1>9, <1>10 DEF UartTypeOK

\* Every step keeps the types and the bounds of the buffers.
LEMMA UartStepType == UartTypeOK /\ [UartNext]_uartVars => UartTypeOK'
<1> SUFFICES ASSUME UartTypeOK, [UartNext]_uartVars PROVE UartTypeOK'
  OBVIOUS
<1>1. ASSUME NEW f \in Frames, Send(f) PROVE UartTypeOK'
  <2>1. package(f) \in Seq(Byte) /\ MaxBurst \in Nat \ {0}
    BY UartAssumption
  <2>2. line' \in Seq(Byte)
    BY <1>1, <2>1, ConcatProperties DEF Send, UartTypeOK
  <2>3. sent' \in Seq(Frames) /\ Len(sent') <= MaxBurst /\ lost' \in BOOLEAN /\ disturbed' \in BOOLEAN
    <3>1. CASE Idle
      <4>1. sent' = <<f>> /\ lost' = FALSE /\ disturbed' = FALSE
        BY <1>1, <3>1 DEF Send
      <4>2. <<f>> \in Seq(Frames) /\ Len(<<f>>) = 1
        OBVIOUS
      <4>3. MaxBurst >= 1
        BY <2>1
      <4> QED BY <4>1, <4>2, <4>3
    <3>2. CASE ~Idle
      <4>1. sent' = Append(sent, f) /\ Len(sent) < MaxBurst /\ lost' = lost /\ disturbed' = disturbed
        BY <1>1, <3>2 DEF Send
      <4>2. sent \in Seq(Frames) /\ Len(sent) \in Nat /\ lost \in BOOLEAN /\ disturbed \in BOOLEAN
        BY DEF UartTypeOK
      <4>3. Append(sent, f) \in Seq(Frames) /\ Len(Append(sent, f)) = Len(sent) + 1
        BY <4>2, AppendProperties
      <4> QED BY <4>1, <4>2, <4>3, <2>1
    <3> QED BY <3>1, <3>2
  <2>4. UNCHANGED <<RxBuffer, zb_rx, timeout, reader>>
    BY <1>1 DEF Send
  <2> QED BY <2>2, <2>3, <2>4 DEF UartTypeOK
<1>2. CASE Garble
  <2>1. line' \in Seq(Byte)
    BY <1>2, HeadTailProperties DEF Garble, UartTypeOK
  <2> QED BY <1>2, <2>1 DEF Garble, UartTypeOK
<1>3. CASE uart_thread
  BY <1>3, UartThreadType
<1>4. CASE Drain
  BY <1>4, DrainType
<1>5. ASSUME NEW cmd \in Asked, ReadStart(cmd) PROVE UartTypeOK'
  <2>1. reader' \in [cmd : Asked \cup {<<>>}, stry : 0 .. READ_TRY]
    BY <1>5, UartAssumption DEF ReadStart
  <2> QED BY <1>5, <2>1 DEF ReadStart, UartTypeOK
<1>6. CASE CutTimeout
  <2>1. reader' \in [cmd : Asked \cup {<<>>}, stry : 0 .. READ_TRY]
    BY <1>6, TurnOverType DEF CutTimeout, UartTypeOK
  <2>2. zb_rx' \in Seq(Byte) /\ Len(zb_rx') <= ZB_RX_BUFFER_SIZE
    BY <1>6, EmptySeq, UartAssumption DEF CutTimeout
  <2>3. lost' \in BOOLEAN /\ disturbed' \in BOOLEAN
    BY <1>6 DEF CutTimeout, UartTypeOK
  <2> QED BY <1>6, <2>1, <2>2, <2>3 DEF CutTimeout, UartTypeOK
<1>7. CASE CutFrame
  BY <1>7, CutFrameType
<1>8. CASE UNCHANGED uartVars
  BY <1>8 DEF uartVars, UartTypeOK
<1> QED BY <1>1, <1>2, <1>3, <1>4, <1>5, <1>6, <1>7, <1>8 DEF UartNext

\* RxBuffer and zb_rx.data are never written past their ends and what they
\* hold is bytes, for arrays and chunks of every size in which a chunk fits.
THEOREM BuffersBounded == UartSpec => []UartTypeOK
  BY UartInitType, UartStepType, PTL DEF UartSpec

---------------------------------------------------------------------------
(***************************************************************************)
(* The bytes of a frame.                                                   *)
(***************************************************************************)

\* Frames whose length with the five bytes around the data fits in a byte.
ShortFrames == \A f \in Frames : Len(f.DATA) + ZB_MIN_PACKAGE_SIZE < ByteValues

Body(f) == <<Len(f.DATA), f.CMD0, f.CMD1>> \o f.DATA

\* A sequence and one put behind it.
LEMMA Behind ==
  ASSUME NEW S, NEW s \in Seq(S), NEW x \in Seq(S)
  PROVE  /\ s \o x \in Seq(S) /\ Len(s) \in Nat /\ Len(x) \in Nat
         /\ Len(s \o x) = Len(s) + Len(x)
         /\ \A i \in 1 .. Len(s) : (s \o x)[i] = s[i]
         /\ \A i \in 1 .. Len(x) : (s \o x)[Len(s) + i] = x[i]
<1>1. Len(s) \in Nat /\ Len(x) \in Nat
  BY LenProperties
<1>2. /\ s \o x \in Seq(S) /\ Len(s \o x) = Len(s) + Len(x)
      /\ \A i \in 1 .. Len(s) + Len(x) :
           (s \o x)[i] = IF i <= Len(s) THEN s[i] ELSE x[i - Len(s)]
  BY ConcatProperties
<1> QED BY <1>1, <1>2

\* What package puts where.
LEMMA PackageParts ==
  ASSUME NEW f \in Frames, NEW n, n = Len(f.DATA)
  PROVE  /\ n \in Nat /\ package(f) \in Seq(Byte) /\ Len(package(f)) = n + 5
         /\ package(f)[1] = ZB_SOF_FLAG /\ package(f)[2] = n
         /\ package(f)[3] = f.CMD0 /\ package(f)[4] = f.CMD1
         /\ \A k \in 1 .. n : package(f)[4 + k] = f.DATA[k]
         /\ package(f)[n + 5] = osGetXOR(Body(f))
         /\ Body(f) \in Seq(Nat) /\ Len(Body(f)) = n + 3
         /\ \A k \in 1 .. n + 3 : package(f)[1 + k] = Body(f)[k]
<1>1. /\ f.DATA \in Seq(Nat) /\ f.CMD0 \in Nat /\ f.CMD1 \in Nat /\ n \in Nat
      /\ package(f) \in Seq(Byte)
  <2>1. /\ f \in [CMD0 : Byte, CMD1 : Byte, DATA : Seq(Byte)]
        /\ package(f) \in Seq(Byte)
    BY UartAssumption
  <2>2. f.DATA \in Seq(Byte) /\ f.CMD0 \in Byte /\ f.CMD1 \in Byte
    BY <2>1
  <2>3. Byte \subseteq Nat
    BY ByteAssumption DEF Byte
  <2>4. f.DATA \in Seq(Nat)
    BY <2>2, <2>3, SeqMonotonic
  <2>5. Len(f.DATA) \in Nat
    BY <2>2, LenProperties
  <2>6. f.CMD0 \in Nat /\ f.CMD1 \in Nat
    BY <2>2, <2>3
  <2> QED BY <2>1, <2>4, <2>5, <2>6
<1>2. PICK h : h = <<n, f.CMD0, f.CMD1>>
  OBVIOUS
<1>3. h \in Seq(Nat) /\ Len(h) = 3 /\ h[1] = n /\ h[2] = f.CMD0 /\ h[3] = f.CMD1
  BY <1>1, <1>2
<1>4. PICK b : b = Body(f)
  OBVIOUS
<1>5. /\ b \in Seq(Nat) /\ Len(b) = n + 3
      /\ b[1] = n /\ b[2] = f.CMD0 /\ b[3] = f.CMD1
      /\ \A k \in 1 .. n : b[3 + k] = f.DATA[k]
  <2>1. b = h \o f.DATA
    BY <1>2, <1>4 DEF Body
  <2>2. /\ b \in Seq(Nat) /\ Len(b) = 3 + n
        /\ \A i \in 1 .. 3 : b[i] = h[i]
        /\ \A k \in 1 .. n : b[3 + k] = f.DATA[k]
    <3>1. /\ b \in Seq(Nat) /\ Len(b) = Len(h) + Len(f.DATA)
          /\ \A i \in 1 .. Len(h) : b[i] = h[i]
          /\ \A k \in 1 .. Len(f.DATA) : b[Len(h) + k] = f.DATA[k]
      <4>1. h \in Seq(Nat) /\ f.DATA \in Seq(Nat)
        BY <1>1, <1>3
      <4> QED BY <2>1, <4>1, Behind
    <3> QED BY <1>3, <3>1
  <2>3. b[1] = h[1] /\ b[2] = h[2] /\ b[3] = h[3]
    BY <2>2
  <2>4. 3 + n = n + 3
    BY <1>1
  <2> QED BY <1>3, <2>2, <2>3, <2>4
<1>7. PICK x : x = osGetXOR(b)
  OBVIOUS
<1>8. PICK T : T = Nat \cup {x, ZB_SOF_FLAG}
  OBVIOUS
<1>9. PICK d, e : d = <<ZB_SOF_FLAG>> /\ e = <<x>>
  OBVIOUS
<1>10. /\ b \in Seq(T) /\ d \in Seq(T) /\ e \in Seq(T) /\ Len(d) = 1 /\ Len(e) = 1
       /\ d[1] = ZB_SOF_FLAG /\ e[1] = x
  <2>1. b \in Seq(T)
    BY <1>5, <1>8, SeqMonotonic
  <2> QED BY <1>8, <1>9, <2>1
<1>11. PICK a : a = d \o b
  OBVIOUS
<1>12. /\ a \in Seq(T) /\ Len(a) = 1 + (n + 3)
       /\ a[1] = ZB_SOF_FLAG /\ \A k \in 1 .. n + 3 : a[1 + k] = b[k]
  <2>1. /\ a \in Seq(T) /\ Len(a) = 1 + (n + 3)
        /\ \A i \in 1 .. 1 : a[i] = d[i]
        /\ \A k \in 1 .. n + 3 : a[1 + k] = b[k]
    <3>1. /\ a \in Seq(T) /\ Len(a) = Len(d) + Len(b)
          /\ \A i \in 1 .. Len(d) : a[i] = d[i]
          /\ \A k \in 1 .. Len(b) : a[Len(d) + k] = b[k]
      <4>1. d \in Seq(T) /\ b \in Seq(T)
        BY <1>10
      <4> QED BY <1>11, <4>1, Behind
    <3> QED BY <1>5, <1>10, <3>1
  <2> QED BY <1>10, <2>1
<1>13. PICK p : p = package(f)
  OBVIOUS
<1>14. p = a \o e
  BY <1>4, <1>1, <1>7, <1>9, <1>11, <1>13 DEF package, Body
<1>15. /\ Len(p) = (1 + (n + 3)) + 1
       /\ \A i \in 1 .. 1 + (n + 3) : p[i] = a[i]
       /\ \A i \in 1 .. 1 : p[(1 + (n + 3)) + i] = e[i]
  <2>1. /\ Len(p) = Len(a) + Len(e)
        /\ \A i \in 1 .. Len(a) : p[i] = a[i]
        /\ \A i \in 1 .. Len(e) : p[Len(a) + i] = e[i]
    <3>1. a \in Seq(T) /\ e \in Seq(T)
      BY <1>10, <1>12
    <3> QED BY <1>14, <3>1, Behind
  <2> QED BY <1>10, <1>12, <2>1
<1>16. Len(p) = n + 5 /\ p[1] = ZB_SOF_FLAG
  BY <1>1, <1>12, <1>15
<1>17. p[n + 5] = x
  <2>1. n + 5 = (1 + (n + 3)) + 1
    BY <1>1
  <2> QED BY <1>10, <1>15, <2>1
<1>18. \A k \in 1 .. n + 3 : p[1 + k] = b[k]
  <2>1. \A k \in 1 .. n + 3 : 1 + k \in 1 .. 1 + (n + 3)
    BY <1>1
  <2> QED BY <1>12, <1>15, <2>1
<1>19. p[2] = n /\ p[3] = f.CMD0 /\ p[4] = f.CMD1
  <2>1. 1 \in 1 .. n + 3 /\ 2 \in 1 .. n + 3 /\ 3 \in 1 .. n + 3
    BY <1>1
  <2>2. p[1 + 1] = b[1] /\ p[1 + 2] = b[2] /\ p[1 + 3] = b[3]
    BY <1>18, <2>1
  <2> QED BY <1>5, <2>2
<1>20. \A k \in 1 .. n : p[4 + k] = f.DATA[k]
  <2> SUFFICES ASSUME NEW k \in 1 .. n PROVE p[4 + k] = f.DATA[k]
    OBVIOUS
  <2>1. 3 + k \in 1 .. n + 3 /\ 1 + (3 + k) = 4 + k
    BY <1>1
  <2>2. p[1 + (3 + k)] = b[3 + k]
    BY <1>18, <2>1
  <2> QED BY <1>5, <2>1, <2>2
<1> QED BY <1>1, <1>4, <1>5, <1>7, <1>13, <1>16, <1>17, <1>18, <1>19, <1>20

---------------------------------------------------------------------------
(***************************************************************************)
(* Bytes that are frames, one behind the other: frame i of r begins behind *)
(* the first c[i] bytes of p.                                              *)
(***************************************************************************)
Flat(p, r, c) ==
  /\ c[1] = 0 /\ c[Len(r) + 1] = Len(p)
  /\ \A i \in 1 .. Len(r) : c[i + 1] = c[i] + Len(package(r[i]))
  /\ \A i \in 1 .. Len(r) : \A k \in 1 .. Len(package(r[i])) :
       p[c[i] + k] = package(r[i])[k]
  /\ \A i, j \in 1 .. Len(r) + 1 : i <= j => c[i] <= c[j]

Places(r) == [1 .. Len(r) + 1 -> Nat]

\* A frame is longer than its data.
LEMMA PackageLength ==
  ASSUME NEW f \in Frames
  PROVE  Len(package(f)) \in Nat /\ Len(package(f)) >= 5
<1>1. PICK n : n = Len(f.DATA)
  OBVIOUS
<1>2. n \in Nat /\ Len(package(f)) = n + 5
  BY <1>1, PackageParts
<1> QED BY <1>2

\* One more frame behind them.
LEMMA FlatAppend ==
  ASSUME NEW p \in Seq(Byte), NEW r \in Seq(Frames), NEW c \in Places(r), Flat(p, r, c),
         NEW f \in Frames
  PROVE  \E d \in Places(Append(r, f)) :
           /\ Flat(p \o package(f), Append(r, f), d)
           /\ \A i \in 1 .. Len(r) + 1 : d[i] = c[i]
<1>1. PICK q \in Seq(Byte) : q = package(f)
  BY UartAssumption
<1>2. PICK u : u = p \o q
  OBVIOUS
<1>3. /\ u \in Seq(Byte) /\ Len(u) = Len(p) + Len(q)
      /\ \A i \in 1 .. Len(p) : u[i] = p[i]
      /\ \A i \in 1 .. Len(q) : u[Len(p) + i] = q[i]
  BY <1>2, Behind
<1>4. PICK m \in Nat, P \in Nat, L \in Nat : m = Len(r) /\ P = Len(p) /\ L = Len(q)
  BY LenProperties
<1>5. PICK t \in Seq(Frames) : t = Append(r, f)
  BY AppendProperties
<1>6. Len(t) = m + 1 /\ t[m + 1] = f /\ \A i \in 1 .. m : t[i] = r[i]
  BY <1>4, <1>5, AppendProperties
<1>7. /\ \A i \in 1 .. m + 1 : c[i] \in Nat
      /\ c[1] = 0 /\ c[m + 1] = P
      /\ \A i \in 1 .. m : c[i + 1] = c[i] + Len(package(r[i]))
      /\ \A i \in 1 .. m : \A k \in 1 .. Len(package(r[i])) : p[c[i] + k] = package(r[i])[k]
      /\ \A i, j \in 1 .. m + 1 : i <= j => c[i] <= c[j]
  BY <1>4 DEF Flat, Places
<1>8. PICK d : d = [i \in 1 .. m + 2 |-> IF i = m + 2 THEN P + L ELSE c[i]]
  OBVIOUS
<1>9. \A i \in 1 .. m + 1 : d[i] = c[i]
  BY <1>4, <1>8
<1>10. d[m + 2] = P + L /\ d \in [1 .. m + 2 -> Nat]
  BY <1>4, <1>7, <1>8
<1>11. d[1] = 0
  <2>1. 1 \in 1 .. m + 1
    BY <1>4
  <2> QED BY <1>7, <1>9, <2>1
<1>12. \A i \in 1 .. m + 1 : d[i + 1] = d[i] + Len(package(t[i]))
  <2> SUFFICES ASSUME NEW i \in 1 .. m + 1
               PROVE  d[i + 1] = d[i] + Len(package(t[i]))
    OBVIOUS
  <2>1. CASE i = m + 1
    <3>1. d[i] = P /\ Len(package(t[i])) = L
      BY <1>1, <1>4, <1>6, <1>7, <1>9, <2>1
    <3>2. d[i + 1] = P + L
      BY <1>4, <1>10, <2>1
    <3> QED BY <3>1, <3>2
  <2>2. CASE i # m + 1
    <3>1. i \in 1 .. m /\ i + 1 \in 1 .. m + 1
      BY <1>4, <2>2
    <3> QED BY <1>6, <1>7, <1>9, <3>1
  <2> QED BY <2>1, <2>2
<1>13. \A i \in 1 .. m + 1 : \A k \in 1 .. Len(package(t[i])) :
         u[d[i] + k] = package(t[i])[k]
  <2> SUFFICES ASSUME NEW i \in 1 .. m + 1, NEW k \in 1 .. Len(package(t[i]))
               PROVE  u[d[i] + k] = package(t[i])[k]
    OBVIOUS
  <2>1. CASE i = m + 1
    <3>1. package(t[i]) = q /\ d[i] = P /\ k \in 1 .. Len(q)
      BY <1>1, <1>4, <1>6, <1>7, <1>9, <2>1
    <3>2. u[Len(p) + k] = q[k]
      BY <1>3, <3>1
    <3> QED BY <1>4, <3>1, <3>2
  <2>2. CASE i # m + 1
    <3>1. i \in 1 .. m /\ i + 1 \in 1 .. m + 1
      BY <1>4, <2>2
    <3>2. t[i] = r[i] /\ d[i] = c[i] /\ r[i] \in Frames /\ c[i] \in Nat
      BY <1>4, <1>6, <1>7, <1>9, <3>1
    <3>3. p[c[i] + k] = package(r[i])[k]
      BY <1>7, <3>1, <3>2
    <3>4. c[i + 1] = c[i] + Len(package(r[i])) /\ c[i + 1] <= P
      <4>1. m + 1 \in 1 .. m + 1 /\ i + 1 <= m + 1
        BY <1>4, <3>1
      <4> QED BY <1>7, <3>1, <4>1
    <3>5. c[i] + k \in 1 .. P
      <4>1. Len(package(r[i])) \in Nat
        BY <3>2, PackageLength
      <4> QED BY SMTT(30), <1>4, <3>2, <3>4, <4>1
    <3>6. u[c[i] + k] = p[c[i] + k]
      BY <1>3, <1>4, <3>5
    <3> QED BY <3>2, <3>3, <3>6
  <2> QED BY <2>1, <2>2
<1>14. \A i, j \in 1 .. m + 2 : i <= j => d[i] <= d[j]
  <2> SUFFICES ASSUME NEW i \in 1 .. m + 2, NEW j \in 1 .. m + 2, i <= j
               PROVE  d[i] <= d[j]
    OBVIOUS
  <2>1. CASE j # m + 2
    <3>1. i \in 1 .. m + 1 /\ j \in 1 .. m + 1
      BY <1>4, <2>1
    <3> QED BY <1>7, <1>9, <3>1
  <2>2. CASE j = m + 2 /\ i # m + 2
    <3>1. i \in 1 .. m + 1 /\ m + 1 \in 1 .. m + 1 /\ i <= m + 1
      BY <1>4, <2>2
    <3>2. c[i] \in Nat /\ c[i] <= P
      BY <1>7, <3>1
    <3>3. d[i] = c[i] /\ d[j] = P + L
      BY <1>9, <1>10, <2>2, <3>1
    <3> QED BY <1>4, <3>2, <3>3
  <2>3. CASE j = m + 2 /\ i = m + 2
    BY <1>4, <1>10, <2>3
  <2> QED BY <2>1, <2>2, <2>3
<1>15. Len(t) + 1 = m + 2 /\ Len(u) = P + L
  BY <1>3, <1>4, <1>6
<1>16. Flat(u, t, d)
  <2>1. d[Len(t) + 1] = Len(u)
    BY <1>10, <1>15
  <2> QED BY <1>6, <1>11, <1>12, <1>13, <1>14, <1>15, <2>1 DEF Flat
<1>17. d \in Places(t)
  BY <1>10, <1>15 DEF Places
<1>18. \A i \in 1 .. Len(r) + 1 : d[i] = c[i]
  BY <1>4, <1>9
<1> QED BY <1>1, <1>2, <1>5, <1>16, <1>17, <1>18

\* The first of them is taken.
LEMMA FlatFirst ==
  ASSUME NEW p \in Seq(Byte), NEW r \in Seq(Frames), NEW c \in Places(r), Flat(p, r, c),
         r # <<>>
  PROVE  /\ c[2] = Len(package(r[1])) /\ c[2] \in 0 .. Len(p) /\ r[1] \in Frames
         /\ \A k \in 1 .. c[2] : p[k] = package(r[1])[k]
         /\ \E d \in Places(Tail(r)) :
              /\ Flat(SubSeq(p, c[2] + 1, Len(p)), Tail(r), d)
              /\ \A i \in 1 .. Len(r) : c[i + 1] = c[2] + d[i]
<1>1. PICK t \in Seq(Frames) : t = Tail(r)
  BY HeadTailProperties
<1>2. PICK m \in Nat, P \in Nat : m = Len(t) /\ P = Len(p)
  BY LenProperties
<1>3. Len(r) = m + 1 /\ \A i \in 1 .. m : t[i] = r[i + 1]
  <2>1. Len(t) = Len(r) - 1 /\ Len(r) \in Nat /\ \A i \in 1 .. Len(t) : t[i] = r[i + 1]
    BY <1>1, HeadTailProperties, LenProperties
  <2> QED BY <1>2, <2>1
<1>4. /\ \A i \in 1 .. m + 2 : c[i] \in Nat
      /\ c[1] = 0 /\ c[m + 2] = P
      /\ \A i \in 1 .. m + 1 : c[i + 1] = c[i] + Len(package(r[i]))
      /\ \A i \in 1 .. m + 1 : \A k \in 1 .. Len(package(r[i])) :
           p[c[i] + k] = package(r[i])[k]
      /\ \A i, j \in 1 .. m + 2 : i <= j => c[i] <= c[j]
  <2>1. Len(r) + 1 = m + 2
    BY <1>2, <1>3
  <2> QED BY <1>2, <1>3, <2>1 DEF Flat, Places
<1>5. 1 \in 1 .. m + 1 /\ 2 \in 1 .. m + 2 /\ m + 2 \in 1 .. m + 2 /\ 2 <= m + 2
  BY <1>2
<1>6. \A i \in 1 .. m + 1 : r[i] \in Frames /\ Len(package(r[i])) \in Nat
  <2>1. \A i \in 1 .. m + 1 : r[i] \in Frames
    BY <1>3, ElementOfSeq
  <2> QED BY <2>1, PackageLength
<1>7. PICK n \in Nat : n = c[2] /\ n = Len(package(r[1])) /\ n <= P
  <2>1. c[1 + 1] = c[1] + Len(package(r[1]))
    BY <1>4, <1>5
  <2>2. c[2] \in Nat /\ c[2] <= P
    BY <1>4, <1>5
  <2> QED BY <1>4, <1>5, <1>6, <2>1, <2>2
<1>8. \A k \in 1 .. n : p[k] = package(r[1])[k]
  <2>1. \A k \in 1 .. n : p[c[1] + k] = package(r[1])[k]
    BY <1>4, <1>5, <1>7
  <2>2. \A k \in 1 .. n : c[1] + k = k
    BY <1>4, <1>7
  <2> QED BY <2>1, <2>2
<1>9. PICK u : u = SubSeq(p, n + 1, P)
  OBVIOUS
<1>10. Len(u) = P - n /\ \A k \in 1 .. P - n : u[k] = p[n + k]
  <2>1. \A k \in n + 1 .. P : p[k] \in Byte
    BY <1>2, <1>7, ElementOfSeq
  <2>2. /\ Len(u) = IF n + 1 <= P THEN P - (n + 1) + 1 ELSE 0
        /\ \A k \in 1 .. P - (n + 1) + 1 : u[k] = p[(n + 1) + k - 1]
    <3>1. n + 1 \in Int /\ P \in Int
      BY <1>2, <1>7
    <3> QED BY <1>9, <2>1, <3>1, SubSeqProperties
  <2>3. Len(u) = P - n
    <3>1. CASE n + 1 <= P
      <4>1. Len(u) = P - (n + 1) + 1
        BY <2>2, <3>1
      <4> QED BY <1>2, <1>7, <4>1
    <3>2. CASE ~(n + 1 <= P)
      <4>1. Len(u) = 0
        BY <2>2, <3>2
      <4>2. P = n
        BY <1>2, <1>7, <3>2
      <4> QED BY <1>2, <4>1, <4>2
    <3> QED BY <3>1, <3>2
  <2>4. \A k \in 1 .. P - n : k \in 1 .. P - (n + 1) + 1 /\ (n + 1) + k - 1 = n + k
    BY <1>2, <1>7
  <2> QED BY <2>2, <2>3, <2>4
<1>11. \A i \in 1 .. m + 1 : c[i + 1] \in Nat /\ n <= c[i + 1]
  <2> SUFFICES ASSUME NEW i \in 1 .. m + 1 PROVE c[i + 1] \in Nat /\ n <= c[i + 1]
    OBVIOUS
  <2>1. i + 1 \in 1 .. m + 2 /\ 2 <= i + 1
    BY <1>2
  <2> QED BY <1>4, <1>5, <1>7, <2>1
<1>12. PICK d : d = [i \in 1 .. m + 1 |-> c[i + 1] - n]
  OBVIOUS
<1>13. d \in [1 .. m + 1 -> Nat] /\ \A i \in 1 .. m + 1 : c[i + 1] = n + d[i]
  BY SMTT(30), <1>11, <1>12
<1>14. d[1] = 0
  <2>1. c[1 + 1] = n + d[1] /\ d[1] \in Nat
    BY <1>5, <1>13
  <2>2. PICK x : x = d[1]
    OBVIOUS
  <2>3. c[2] = n + x /\ x \in Nat
    BY <2>1, <2>2
  <2>4. n = n + x
    BY <1>7, <2>3
  <2>5. x = 0
    BY ONLY <2>3, <2>4, n \in Nat
  <2> QED BY <2>2, <2>5
<1>15. d[m + 1] = P - n
  <2>1. m + 1 \in 1 .. m + 1 /\ (m + 1) + 1 = m + 2
    BY <1>2
  <2>2. c[m + 2] = n + d[m + 1] /\ d[m + 1] \in Nat
    BY <1>13, <2>1
  <2> QED BY <1>2, <1>4, <1>7, <2>2
<1>16. \A i \in 1 .. m : d[i + 1] = d[i] + Len(package(t[i]))
  <2> SUFFICES ASSUME NEW i \in 1 .. m PROVE d[i + 1] = d[i] + Len(package(t[i]))
    OBVIOUS
  <2>1. i \in 1 .. m + 1 /\ i + 1 \in 1 .. m + 1
    BY <1>2
  <2>2. c[(i + 1) + 1] = c[i + 1] + Len(package(r[i + 1]))
    BY <1>4, <2>1
  <2>3. c[(i + 1) + 1] = n + d[i + 1] /\ c[i + 1] = n + d[i]
    BY <1>13, <2>1
  <2>4. d[i] \in Nat /\ d[i + 1] \in Nat /\ Len(package(r[i + 1])) \in Nat
    BY <1>6, <1>13, <2>1
  <2>5. t[i] = r[i + 1]
    BY <1>3
  <2> QED BY SMTT(30), <1>7, <2>2, <2>3, <2>4, <2>5
<1>17. \A i, j \in 1 .. m + 1 : i <= j => d[i] <= d[j]
  <2> SUFFICES ASSUME NEW i \in 1 .. m + 1, NEW j \in 1 .. m + 1, i <= j
               PROVE  d[i] <= d[j]
    OBVIOUS
  <2>1. i + 1 \in 1 .. m + 2 /\ j + 1 \in 1 .. m + 2 /\ i + 1 <= j + 1
    BY <1>2
  <2>2. c[i + 1] <= c[j + 1]
    BY <1>4, <2>1
  <2>3. c[i + 1] = n + d[i] /\ c[j + 1] = n + d[j] /\ d[i] \in Nat /\ d[j] \in Nat
    BY <1>13
  <2> QED BY <1>7, <2>2, <2>3
<1>18. \A i \in 1 .. m : \A k \in 1 .. Len(package(t[i])) :
         u[d[i] + k] = package(t[i])[k]
  <2> SUFFICES ASSUME NEW i \in 1 .. m, NEW k \in 1 .. Len(package(t[i]))
               PROVE  u[d[i] + k] = package(t[i])[k]
    OBVIOUS
  <2>1. i \in 1 .. m + 1 /\ i + 1 \in 1 .. m + 1 /\ m + 1 \in 1 .. m + 1 /\ i + 1 <= m + 1
    BY <1>2
  <2>2. t[i] = r[i + 1] /\ Len(package(t[i])) \in Nat
    BY <1>3, <1>6, <2>1
  <2>3. p[c[i + 1] + k] = package(t[i])[k]
    BY SMTT(30), <1>4, <2>1, <2>2
  <2>4. d[i + 1] <= P - n /\ d[i] \in Nat /\ d[i + 1] \in Nat
    BY <1>13, <1>15, <1>17, <2>1
  <2>5. d[i] + k \in 1 .. P - n
    <3>1. d[i + 1] = d[i] + Len(package(t[i]))
      BY <1>16
    <3> QED BY SMTT(30), <1>2, <1>7, <2>2, <2>4, <3>1
  <2>6. u[d[i] + k] = p[n + (d[i] + k)]
    BY <1>10, <2>5
  <2>7. n + (d[i] + k) = c[i + 1] + k
    <3>1. c[i + 1] = n + d[i] /\ k \in Nat
      BY <1>13, <2>1, <2>2
    <3> QED BY <1>7, <2>4, <3>1
  <2> QED BY <2>3, <2>6, <2>7
<1>19. Flat(u, t, d)
  BY <1>2, <1>10, <1>14, <1>15, <1>16, <1>17, <1>18 DEF Flat
<1>20. d \in Places(t)
  BY <1>2, <1>13 DEF Places
<1>21. \A i \in 1 .. Len(r) : c[i + 1] = n + d[i]
  BY <1>3, <1>13
<1>22. r[1] \in Frames
  BY <1>5, <1>6
<1>23. c[2] \in 0 .. Len(p)
  BY <1>2, <1>7
<1> QED BY <1>1, <1>2, <1>7, <1>8, <1>9, <1>19, <1>20, <1>21, <1>22, <1>23

\* Where bytes are left, there is a frame they belong to.
LEMMA FlatSome ==
  ASSUME NEW p \in Seq(Byte), NEW r \in Seq(Frames), NEW c \in Places(r), Flat(p, r, c)
  PROVE  p # <<>> <=> r # <<>>
<1>1. PICK m \in Nat, P \in Nat : m = Len(r) /\ P = Len(p)
  BY LenProperties
<1>2. /\ c[1] = 0 /\ c[m + 1] = P
      /\ \A i \in 1 .. m : c[i + 1] = c[i] + Len(package(r[i]))
      /\ \A i, j \in 1 .. m + 1 : i <= j => c[i] <= c[j]
  BY <1>1 DEF Flat
<1>3. CASE r = <<>>
  <2>1. m = 0
    BY <1>1, <1>3
  <2>2. P = 0
    BY <1>2, <2>1
  <2> QED BY <1>1, <1>3, <2>2, EmptySeq
<1>4. CASE r # <<>>
  <2>1. m \in Nat \ {0}
    BY <1>1, <1>4, EmptySeq
  <2>2. 1 \in 1 .. m /\ 2 \in 1 .. m + 1 /\ m + 1 \in 1 .. m + 1 /\ 2 <= m + 1
    BY <2>1
  <2>3. r[1] \in Frames
    BY <1>1, <2>2, ElementOfSeq
  <2>4. c[1 + 1] = c[1] + Len(package(r[1])) /\ c[2] <= P
    BY <1>2, <2>2
  <2>5. Len(package(r[1])) \in Nat /\ Len(package(r[1])) >= 5
    BY <2>3, PackageLength
  <2>6. P >= 5
    BY <1>1, <1>2, <2>4, <2>5
  <2> QED BY <1>1, <1>4, <2>6, EmptySeq
<1> QED BY <1>3, <1>4

\* The length of a short frame does not wrap.
LEMMA SmallRest == ASSUME NEW a \in Nat, NEW b \in Nat, a < b PROVE a % b = a
  OBVIOUS

\* What lies between the first element and element e + 1.
LEMMA FromSecond ==
  ASSUME NEW S, NEW s, NEW e \in Int, \A i \in 2 .. e : s[i] \in S, NEW w, w = SubSeq(s, 2, e)
  PROVE  /\ w \in Seq(S) /\ Len(w) = IF 2 <= e THEN e - 2 + 1 ELSE 0
         /\ \A i \in 1 .. e - 2 + 1 : w[i] = s[2 + i - 1]
<1>1. 2 \in Int
  OBVIOUS
<1> QED BY <1>1, SubSeqProperties

\* The first bytes z of the frames are looked at: find_head stops at their
\* first byte, check_package finds the first frame when all of it is there and
\* it is not one without data at the very end, and what is cut out is the frame
\* that was sent.
LEMMA FirstCut ==
  ASSUME ShortFrames, NEW z \in Seq(Byte), NEW l \in Seq(Byte), z # <<>>,
         NEW r \in Seq(Frames), NEW c \in Places(r), Flat(z \o l, r, c)
  PROVE  /\ Aligned(z) = {z}
         /\ check_package(z) = IF c[2] <= Len(z) /\ Len(z) > 5 THEN {c[2]} ELSE {0}
         /\ c[2] <= Len(z) => Unpacked(z, c[2]) = r[1]
<1>1. PICK p \in Seq(Byte) : p = z \o l
  BY ConcatProperties
<1>2. PICK Z \in Nat, P \in Nat : Z = Len(z) /\ P = Len(p)
  BY LenProperties
<1>3. Z > 0 /\ Z <= P /\ \A k \in 1 .. Z : p[k] = z[k] /\ z[k] \in Byte
  <2>1. /\ Len(p) = Len(z) + Len(l) /\ Len(z) \in Nat /\ Len(l) \in Nat
        /\ \A i \in 1 .. Len(z) : p[i] = z[i]
    BY <1>1, Behind
  <2>2. Z # 0
    BY <1>2, EmptySeq
  <2> QED BY <1>2, <2>1, <2>2, ElementOfSeq
<1>4. r # <<>>
  <2>1. p # <<>>
    BY <1>2, <1>3, EmptySeq
  <2> QED BY <1>1, <2>1, FlatSome
<1>5. PICK f \in Frames, n \in Nat : f = r[1] /\ n = Len(f.DATA)
  <2>1. r[1] \in Frames
    BY <1>1, <1>4, FlatFirst
  <2> QED BY <2>1, PackageParts
<1>6. /\ c[2] = Len(package(f)) /\ c[2] \in 0 .. P
      /\ \A k \in 1 .. c[2] : p[k] = package(f)[k]
  <2>1. Flat(p, r, c)
    BY <1>1
  <2>2. /\ c[2] = Len(package(r[1])) /\ c[2] \in 0 .. Len(p)
        /\ \A k \in 1 .. c[2] : p[k] = package(r[1])[k]
    BY <1>4, <2>1, FlatFirst
  <2> QED BY <1>2, <1>5, <2>2
<1>7. /\ Len(package(f)) = n + 5
      /\ package(f)[1] = ZB_SOF_FLAG /\ package(f)[2] = n
      /\ package(f)[3] = f.CMD0 /\ package(f)[4] = f.CMD1
      /\ \A k \in 1 .. n : package(f)[4 + k] = f.DATA[k]
      /\ package(f)[n + 5] = osGetXOR(Body(f))
      /\ Body(f) \in Seq(Nat) /\ Len(Body(f)) = n + 3
      /\ \A k \in 1 .. n + 3 : package(f)[1 + k] = Body(f)[k]
  BY ZenonT(30), <1>5, PackageParts
<1>8. c[2] = n + 5 /\ \A k \in 1 .. n + 5 : k <= Z => z[k] = package(f)[k]
  <2>1. c[2] = n + 5
    BY <1>6, <1>7
  <2>2. ASSUME NEW k \in 1 .. n + 5, k <= Z PROVE z[k] = package(f)[k]
    <3>1. k \in 1 .. Z
      BY <1>2, <2>2
    <3>2. p[k] = package(f)[k]
      BY <1>6, <2>1
    <3> QED BY <1>3, <3>1, <3>2
  <2> QED BY <2>1, <2>2
<1>9. z[1] = ZB_SOF_FLAG
  <2>1. 1 \in 1 .. n + 5 /\ 1 <= Z
    BY <1>2, <1>3, <1>5
  <2> QED BY <1>7, <1>8, <2>1
<1>10. Aligned(z) = {z}
  <2>1. DOMAIN z = 1 .. Z
    BY <1>2, LenProperties
  <2>2. 1 \in Heads(z) /\ Heads(z) \subseteq 1 .. Z
    BY <1>2, <1>3, <1>9, <2>1 DEF Heads
  <2>3. {h \in Heads(z) : \A g \in Heads(z) : h <= g} = {1}
    <3>1. ASSUME NEW h \in Heads(z), \A g \in Heads(z) : h <= g PROVE h = 1
      <4>1. h <= 1 /\ h \in 1 .. Z
        BY <2>2, <3>1
      <4> QED BY <1>2, <4>1
    <3>2. \A g \in Heads(z) : 1 <= g
      BY <1>2, <2>2
    <3> QED BY <2>2, <3>1, <3>2
  <2>4. SubSeq(z, 1, Len(z)) = z
    BY SubSeqFull
  <2>5. Heads(z) # {}
    BY <2>2
  <2>6. Aligned(z) = {SubSeq(z, i, Len(z)) : i \in {1}}
    BY <2>3, <2>5 DEF Aligned
  <2> QED BY <2>4, <2>6
<1>11. Z > 5 => package_length(z) = n + 5
  <2> SUFFICES ASSUME Z > 5 PROVE package_length(z) = n + 5
    OBVIOUS
  <2>1. 2 \in 1 .. n + 5 /\ 2 <= Z
    BY <1>2, <1>5
  <2>2. z[2] = n
    BY <1>7, <1>8, <2>1
  <2>3. n + 5 < ByteValues /\ ByteValues \in Nat
    <3>1. Len(f.DATA) + 5 < ByteValues
      BY <1>5 DEF ShortFrames, ZB_MIN_PACKAGE_SIZE
    <3> QED BY <1>5, <3>1, ByteAssumption
  <2>4. PICK a \in Nat, b \in Nat : a = n + 5 /\ b = ByteValues
    BY <1>5, <2>3
  <2>5. a % b = a
    BY <2>3, <2>4, SmallRest
  <2> QED BY <2>2, <2>4, <2>5 DEF package_length, ZB_MIN_PACKAGE_SIZE
<1>12. n + 5 <= Z => osGetXOR(SubSeq(z, 2, (n + 5) - 1)) = z[n + 5]
  <2> SUFFICES ASSUME n + 5 <= Z PROVE osGetXOR(SubSeq(z, 2, (n + 5) - 1)) = z[n + 5]
    OBVIOUS
  <2>1. PICK b \in Seq(Nat) : b = Body(f)
    BY <1>7
  <2>2. Len(b) = n + 3 /\ \A k \in 1 .. n + 3 : z[1 + k] = b[k]
    <3>1. \A k \in 1 .. n + 3 : 1 + k \in 1 .. n + 5 /\ 1 + k <= Z
      BY <1>2, <1>5
    <3> QED BY <1>7, <1>8, <2>1, <3>1
  <2>3. PICK w : w = SubSeq(z, 2, (n + 5) - 1)
    OBVIOUS
  <2>4. PICK e \in Int : e = (n + 5) - 1
    BY <1>5
  <2>5. w \in Seq(Nat) /\ Len(w) = n + 3 /\ \A i \in 1 .. n + 3 : w[i] = z[1 + i]
    <3>1. \A i \in 2 .. e : z[i] \in Nat
      <4>1. \A i \in 2 .. e : i \in 1 .. Z
        BY <1>2, <1>5, <2>4
      <4>2. Byte \subseteq Nat
        BY ByteAssumption DEF Byte
      <4> QED BY <1>3, <4>1, <4>2
    <3>2. 2 \in Int /\ w = SubSeq(z, 2, e)
      BY <2>3, <2>4
    <3>3. /\ w \in Seq(Nat) /\ Len(w) = IF 2 <= e THEN e - 2 + 1 ELSE 0
          /\ \A i \in 1 .. e - 2 + 1 : w[i] = z[2 + i - 1]
      BY <3>1, <3>2, FromSecond
    <3>4. 2 <= e /\ e - 2 + 1 = n + 3 /\ \A i \in 1 .. n + 3 : 2 + i - 1 = 1 + i
      BY <1>5, <2>4
    <3> QED BY <3>3, <3>4
  <2>6. w = b
    BY <2>1, <2>2, <2>5, SeqEqual
  <2>7. n + 5 \in 1 .. n + 5
    BY <1>5
  <2>8. z[n + 5] = osGetXOR(b)
    BY <1>7, <1>8, <2>1, <2>7
  <2> QED BY <2>3, <2>6, <2>8
<1>13. check_package(z) = IF n + 5 <= Z /\ Z > 5 THEN {n + 5} ELSE {0}
  <2>1. CASE ~(Z > 5)
    <3>1. Z <= ZB_MIN_PACKAGE_SIZE
      BY <1>2, <2>1 DEF ZB_MIN_PACKAGE_SIZE
    <3> QED BY <1>2, <2>1, <3>1 DEF check_package
  <2>2. CASE Z > 5
    <3>1. ~(Len(z) <= ZB_MIN_PACKAGE_SIZE)
      BY <1>2, <2>2 DEF ZB_MIN_PACKAGE_SIZE
    <3>2. ~(n + 5 < ZB_MIN_PACKAGE_SIZE)
      BY <1>5 DEF ZB_MIN_PACKAGE_SIZE
    <3>3. z[1] # ZB_SOF_FLAG1
      BY <1>9, ByteAssumption DEF ZB_SOF_FLAG, ZB_SOF_FLAG1
    <3>4. CASE n + 5 <= Z
      <4>1. ~(n + 5 > Len(z))
        BY <1>2, <1>5, <3>4
      <4>2. check_package(z) = {n + 5}
        BY <1>9, <1>11, <1>12, <2>2, <3>1, <3>2, <3>3, <3>4, <4>1 DEF check_package
      <4> QED BY <2>2, <3>4, <4>2
    <3>5. CASE ~(n + 5 <= Z)
      <4>1. n + 5 > Len(z)
        BY <1>2, <1>5, <3>5
      <4>2. check_package(z) = {0}
        BY <1>11, <2>2, <3>1, <4>1 DEF check_package
      <4> QED BY <3>5, <4>2
    <3> QED BY <3>4, <3>5
  <2> QED BY <2>1, <2>2
<1>14. n + 5 <= Z => Unpacked(z, n + 5) = f
  <2> SUFFICES ASSUME n + 5 <= Z PROVE Unpacked(z, n + 5) = f
    OBVIOUS
  <2>1. z[3] = f.CMD0 /\ z[4] = f.CMD1
    <3>1. 3 \in 1 .. n + 5 /\ 4 \in 1 .. n + 5 /\ 3 <= Z /\ 4 <= Z
      BY SMTT(30), <1>2, <1>5
    <3> QED BY <1>7, <1>8, <3>1
  <2>2. f \in [CMD0 : Byte, CMD1 : Byte, DATA : Seq(Byte)]
    BY UartAssumption
  <2>3. PICK d \in Seq(Byte) : d = f.DATA
    BY <2>2
  <2>4. PICK w : w = SubSeq(z, 5, (n + 5) - 1)
    OBVIOUS
  <2>5. /\ w \in Seq(Byte)
        /\ Len(w) = IF 5 <= (n + 5) - 1 THEN (n + 5) - 1 - 5 + 1 ELSE 0
        /\ \A i \in 1 .. (n + 5) - 1 - 5 + 1 : w[i] = z[5 + i - 1]
    <3>1. 5 \in Int /\ (n + 5) - 1 \in Int
      BY <1>5
    <3>2. \A i \in 5 .. (n + 5) - 1 : z[i] \in Byte
      <4>1. \A i \in 5 .. (n + 5) - 1 : i \in 1 .. Z
        BY <1>2, <1>5
      <4> QED BY <1>3, <4>1
    <3> QED BY <2>4, <3>1, <3>2, SubSeqProperties
  <2>6. Len(w) = n
    <3>1. CASE 5 <= (n + 5) - 1
      BY <1>5, <2>5, <3>1
    <3>2. CASE ~(5 <= (n + 5) - 1)
      BY SMTT(30), <1>5, <2>5, <3>2
    <3> QED BY <3>1, <3>2
  <2>7. \A i \in 1 .. n : w[i] = d[i]
    <3> SUFFICES ASSUME NEW i \in 1 .. n PROVE w[i] = d[i]
      OBVIOUS
    <3>1. i \in 1 .. (n + 5) - 1 - 5 + 1 /\ 5 + i - 1 = 4 + i /\ 4 + i \in 1 .. n + 5 /\ 4 + i <= Z
      BY <1>2, <1>5
    <3>2. w[i] = z[4 + i]
      BY <2>5, <3>1
    <3>3. z[4 + i] = package(f)[4 + i]
      BY <1>8, <3>1
    <3> QED BY <1>7, <2>3, <3>2, <3>3
  <2>8. w = d
    BY <1>5, <2>3, <2>5, <2>6, <2>7, SeqEqual
  <2>9. ~(n + 5 < ZB_MIN_PACKAGE_SIZE)
    BY <1>5 DEF ZB_MIN_PACKAGE_SIZE
  <2>10. Unpacked(z, n + 5) = [CMD0 |-> f.CMD0, CMD1 |-> f.CMD1, DATA |-> f.DATA]
    BY <2>1, <2>3, <2>4, <2>8, <2>9 DEF Unpacked, Frame
  <2> QED BY <2>2, <2>10
<1> QED BY <1>2, <1>5, <1>8, <1>10, <1>13, <1>14

---------------------------------------------------------------------------
(***************************************************************************)
(* While nothing is lost, the frames that were sent are the ones handled   *)
(* and, byte after byte, the ones on their way: p are the bytes of the     *)
(* way, z those of them in zb_rx, t the timeout, g the frames handled and  *)
(* s the frames sent.  When a burst is no longer than the timeout, there   *)
(* are as many turns left as frames that are complete and can be cut out.  *)
(***************************************************************************)
Timely(z, r, c, t) ==
  \A i \in 1 .. Len(r) : c[i + 1] <= Len(z) /\ Len(z) > c[i] + 5 => i <= t

Stream(p, z, t, g, s) ==
  /\ g \in Seq(Frames)
  /\ \E r \in Seq(Frames) : \E c \in Places(r) :
       /\ s = g \o r /\ Flat(p, r, c)
       /\ MaxBurst <= RX_TIMEOUT => Timely(z, r, c, t)

\* The bytes without the first m of those in front.
LEMMA DropFront ==
  ASSUME NEW z \in Seq(Byte), NEW l \in Seq(Byte), NEW m \in 0 .. Len(z)
  PROVE  SubSeq(z \o l, m + 1, Len(z \o l)) = SubSeq(z, m + 1, Len(z)) \o l
<1>1. PICK Z \in Nat, L \in Nat : Z = Len(z) /\ L = Len(l)
  BY LenProperties
<1>2. m \in 0 .. Z
  BY <1>1
<1>3. PICK b : b = SubSeq(z, m + 1, Z)
  OBVIOUS
<1>4. b \in Seq(Byte) /\ Len(b) = Z - m /\ \A k \in 1 .. Z - m : b[k] = z[m + k]
  <2>1. \A k \in m + 1 .. Z : z[k] \in Byte
    BY <1>1, <1>2, ElementOfSeq
  <2>2. /\ b \in Seq(Byte)
        /\ Len(b) = IF m + 1 <= Z THEN Z - (m + 1) + 1 ELSE 0
        /\ \A k \in 1 .. Z - (m + 1) + 1 : b[k] = z[(m + 1) + k - 1]
    <3>1. m + 1 \in Int /\ Z \in Int
      BY <1>1, <1>2
    <3> QED BY <1>3, <2>1, <3>1, SubSeqProperties
  <2>3. Len(b) = Z - m
    BY <1>1, <1>2, <2>2
  <2>4. \A k \in 1 .. Z - m : k \in 1 .. Z - (m + 1) + 1 /\ (m + 1) + k - 1 = m + k
    BY <1>1, <1>2
  <2> QED BY <2>2, <2>3, <2>4
<1>5. PICK p : p = z \o l
  OBVIOUS
<1>6. /\ p \in Seq(Byte) /\ Len(p) = Z + L
      /\ \A k \in 1 .. Z : p[k] = z[k]
      /\ \A k \in 1 .. L : p[Z + k] = l[k]
  BY <1>1, <1>5, Behind
<1>7. PICK u : u = SubSeq(p, m + 1, Z + L)
  OBVIOUS
<1>8. /\ u \in Seq(Byte) /\ Len(u) = (Z - m) + L
      /\ \A k \in 1 .. (Z - m) + L : u[k] = p[m + k]
  <2>1. \A k \in m + 1 .. Z + L : p[k] \in Byte
    BY <1>1, <1>2, <1>6, ElementOfSeq
  <2>2. /\ u \in Seq(Byte)
        /\ Len(u) = IF m + 1 <= Z + L THEN Z + L - (m + 1) + 1 ELSE 0
        /\ \A k \in 1 .. Z + L - (m + 1) + 1 : u[k] = p[(m + 1) + k - 1]
    <3>1. m + 1 \in Int /\ Z + L \in Int
      BY <1>1, <1>2
    <3> QED BY <1>7, <2>1, <3>1, SubSeqProperties
  <2>3. Len(u) = (Z - m) + L
    BY <1>1, <1>2, <2>2
  <2>4. \A k \in 1 .. (Z - m) + L : k \in 1 .. Z + L - (m + 1) + 1 /\ (m + 1) + k - 1 = m + k
    BY <1>1, <1>2
  <2> QED BY <2>2, <2>3, <2>4
<1>9. PICK v : v = b \o l
  OBVIOUS
<1>10. /\ v \in Seq(Byte) /\ Len(v) = (Z - m) + L
       /\ \A k \in 1 .. Z - m : v[k] = b[k]
       /\ \A k \in 1 .. L : v[(Z - m) + k] = l[k]
  <2>1. /\ v \in Seq(Byte) /\ Len(v) = Len(b) + Len(l)
        /\ \A k \in 1 .. Len(b) : v[k] = b[k]
        /\ \A k \in 1 .. Len(l) : v[Len(b) + k] = l[k]
    <3>1. b \in Seq(Byte)
      BY <1>4
    <3> QED BY <1>9, <3>1, Behind
  <2> QED BY <1>1, <1>4, <2>1
<1>11. \A k \in 1 .. (Z - m) + L : u[k] = v[k]
  <2> SUFFICES ASSUME NEW k \in 1 .. (Z - m) + L PROVE u[k] = v[k]
    OBVIOUS
  <2>1. u[k] = p[m + k]
    BY <1>8
  <2>2. CASE k <= Z - m
    <3>1. k \in 1 .. Z - m /\ m + k \in 1 .. Z
      BY <1>1, <1>2, <2>2
    <3> QED BY <1>4, <1>6, <1>10, <2>1, <3>1
  <2>3. CASE ~(k <= Z - m)
    <3>1. PICK j : j = k - (Z - m)
      OBVIOUS
    <3>2. j \in 1 .. L /\ m + k = Z + j /\ k = (Z - m) + j
      BY <1>1, <1>2, <2>3, <3>1
    <3> QED BY <1>6, <1>10, <2>1, <3>2
  <2> QED BY <2>2, <2>3
<1>12. u = v
  BY <1>8, <1>10, <1>11, SeqEqual
<1> QED BY <1>1, <1>3, <1>5, <1>6, <1>7, <1>9, <1>12

\* A line that is idle.
LEMMA StreamIdle == ASSUME NEW t PROVE Stream(<<>>, <<>>, t, <<>>, <<>>)
<1>1. PICK e \in Seq(Frames) : e = <<>>
  BY EmptySeq
<1>2. PICK o : o = [i \in 1 .. 1 |-> 0]
  OBVIOUS
<1>3. Len(e) = 0 /\ o \in Places(e) /\ o[1] = 0
  BY <1>1, <1>2 DEF Places
<1>4. Flat(<<>>, e, o)
  BY <1>3 DEF Flat
<1>5. Timely(<<>>, e, o, t)
  BY <1>3 DEF Timely
<1>6. <<>> = e \o e /\ <<>> \in Seq(Frames)
  BY <1>1, ConcatEmptySeq
<1> QED BY <1>1, <1>3, <1>4, <1>5, <1>6 DEF Stream

\* A frame behind the others.
LEMMA StreamAppend ==
  ASSUME NEW p \in Seq(Byte), NEW z \in Seq(Byte), Len(z) <= Len(p), NEW t,
         NEW g, NEW s, NEW f \in Frames, Stream(p, z, t, g, s)
  PROVE  Stream(p \o package(f), z, t, g, Append(s, f))
<1>1. PICK r, c :
        /\ r \in Seq(Frames) /\ c \in Places(r)
        /\ s = g \o r /\ Flat(p, r, c)
        /\ MaxBurst <= RX_TIMEOUT => Timely(z, r, c, t)
  BY DEF Stream
<1>2. PICK d \in Places(Append(r, f)) :
        /\ Flat(p \o package(f), Append(r, f), d)
        /\ \A i \in 1 .. Len(r) + 1 : d[i] = c[i]
  BY <1>1, FlatAppend
<1>3. PICK q \in Seq(Frames) : q = Append(r, f)
  BY <1>1, AppendProperties
<1>4. PICK m \in Nat, P \in Nat, Z \in Nat : m = Len(r) /\ P = Len(p) /\ Z = Len(z)
  BY <1>1, LenProperties
<1>5. Len(q) = m + 1 /\ q[m + 1] = f
  BY <1>3, <1>4, AppendProperties
<1>6. g \in Seq(Frames) /\ Append(s, f) = g \o q
  <2>1. g \in Seq(Frames)
    BY DEF Stream
  <2>2. g \o r \in Seq(Frames) /\ <<f>> \in Seq(Frames)
    BY <1>1, <2>1, ConcatProperties
  <2>3. Append(s, f) = (g \o r) \o <<f>>
    BY <1>1, <2>2, AppendIsConcat
  <2>4. q = r \o <<f>>
    BY <1>3, AppendIsConcat
  <2> QED BY SMTT(30), <2>1, <2>2, <2>3, <2>4, ConcatAssociative
<1>7. ASSUME MaxBurst <= RX_TIMEOUT PROVE Timely(z, q, d, t)
  <2> SUFFICES ASSUME NEW i \in 1 .. m + 1, d[i + 1] <= Z, Z > d[i] + 5
               PROVE  i <= t
    BY <1>4, <1>5 DEF Timely
  <2>1. d[i] = c[i]
    BY <1>2, <1>4
  <2>2. CASE i = m + 1
    <3>1. c[m + 1] = P
      BY <1>1, <1>4 DEF Flat
    <3>2. Z <= P
      BY <1>4
    <3> QED BY <1>4, <2>1, <2>2, <3>1, <3>2
  <2>3. CASE i # m + 1
    <3>1. i \in 1 .. m /\ i + 1 \in 1 .. m + 1
      BY <1>4, <2>3
    <3>2. d[i + 1] = c[i + 1]
      BY <1>2, <1>4, <3>1
    <3> QED BY <1>1, <1>4, <1>7, <2>1, <3>1, <3>2 DEF Timely
  <2> QED BY <2>2, <2>3
<1> QED BY <1>2, <1>3, <1>6, <1>7 DEF Stream

\* A frame into an idle line.
LEMMA StreamBegin ==
  ASSUME NEW f \in Frames, NEW t
  PROVE  Stream(package(f), <<>>, t, <<>>, <<f>>)
<1>1. PICK e \in Seq(Byte) : e = <<>>
  BY EmptySeq
<1>2. Stream(e, e, t, <<>>, <<>>) /\ Len(e) <= Len(e)
  BY <1>1, StreamIdle
<1>3. Stream(e \o package(f), e, t, <<>>, Append(<<>>, f))
  BY <1>2, StreamAppend
<1>4. e \o package(f) = package(f)
  BY <1>1, UartAssumption, ConcatEmptySeq
<1>5. Append(<<>>, f) = <<f>>
  OBVIOUS
<1> QED BY <1>1, <1>3, <1>4, <1>5

\* Bytes have come into zb_rx: there are turns enough for a whole burst.
LEMMA StreamFilled ==
  ASSUME NEW p, NEW z, NEW y, NEW t, NEW g, NEW s, Stream(p, z, t, g, s),
         Len(s) <= MaxBurst
  PROVE  Stream(p, y, RX_TIMEOUT, g, s)
<1>1. g \in Seq(Frames)
  BY DEF Stream
<1>2. PICK r, c : r \in Seq(Frames) /\ c \in Places(r) /\ s = g \o r /\ Flat(p, r, c)
  BY DEF Stream
<1>3. ASSUME MaxBurst <= RX_TIMEOUT PROVE Timely(y, r, c, RX_TIMEOUT)
  <2>1. PICK m \in Nat, n \in Nat : m = Len(r) /\ n = Len(g)
    BY <1>1, LenProperties
  <2>2. n + m <= MaxBurst
    BY <1>1, <1>2, <2>1, Behind
  <2>3. MaxBurst \in Nat /\ RX_TIMEOUT \in Nat
    BY UartAssumption
  <2>4. \A i \in 1 .. m : i <= RX_TIMEOUT
    BY <1>3, <2>1, <2>2, <2>3
  <2> QED BY <2>1, <2>4 DEF Timely
<1> QED BY <1>1, <1>2, <1>3 DEF Stream

\* Nothing has come into zb_rx yet.
LEMMA StreamWaiting ==
  ASSUME NEW p, NEW t, NEW u, NEW g, NEW s, Stream(p, <<>>, t, g, s)
  PROVE  Stream(p, <<>>, u, g, s)
<1>1. g \in Seq(Frames)
  BY DEF Stream
<1>2. PICK r, c : r \in Seq(Frames) /\ c \in Places(r) /\ s = g \o r /\ Flat(p, r, c)
  BY DEF Stream
<1>3. Timely(<<>>, r, c, u)
  <2> SUFFICES ASSUME NEW i \in 1 .. Len(r), Len(<<>>) > c[i] + 5
               PROVE  FALSE
    BY DEF Timely
  <2>1. PICK m \in Nat : m = Len(r)
    BY LenProperties
  <2>2. i \in 1 .. m + 1
    BY <2>1
  <2>3. c \in [1 .. m + 1 -> Nat]
    BY <1>2, <2>1 DEF Places
  <2>4. c[i] \in Nat
    BY <2>2, <2>3
  <2> QED BY <2>4
<1> QED BY <1>1, <1>2, <1>3 DEF Stream

\* One turn of read_package with bytes in zb_rx: what is cut out is the next
\* frame, and a turn without one was not needed.
LEMMA StreamCut ==
  ASSUME ShortFrames, NEW z \in Seq(Byte), NEW l \in Seq(Byte), z # <<>>,
         NEW t \in Nat, NEW g, NEW s, Stream(z \o l, z, t, g, s),
         NEW slen \in check_package(z)
  PROVE  IF slen > 0
         THEN Stream(SubSeq(z, slen + 1, Len(z)) \o l, SubSeq(z, slen + 1, Len(z)),
                     t - 1, Append(g, Unpacked(z, slen)), s)
         ELSE slen = 0 /\ Stream(z \o l, z, t - 1, g, s)
<1>1. g \in Seq(Frames)
  BY DEF Stream
<1>2. PICK r, c :
        /\ r \in Seq(Frames) /\ c \in Places(r)
        /\ s = g \o r /\ Flat(z \o l, r, c)
        /\ MaxBurst <= RX_TIMEOUT => Timely(z, r, c, t)
  BY DEF Stream
<1>3. PICK p \in Seq(Byte) : p = z \o l
  BY ConcatProperties
<1>4. PICK Z \in Nat : Z = Len(z) /\ Z # 0
  BY LenProperties, EmptySeq
<1>5. r # <<>>
  <2>1. p # <<>>
    BY <1>3, ConcatEqualIffEmpty
  <2> QED BY <1>2, <1>3, <2>1, FlatSome
<1>6. PICK m \in Nat : Len(r) = m + 1
  <2>1. Len(r) \in Nat \ {0}
    BY <1>2, <1>5, EmptySeq
  <2>2. Len(r) - 1 \in Nat /\ Len(r) = (Len(r) - 1) + 1
    BY <2>1
  <2> QED BY <2>2
<1>7. /\ check_package(z) = IF c[2] <= Z /\ Z > 5 THEN {c[2]} ELSE {0}
      /\ c[2] <= Z => Unpacked(z, c[2]) = r[1]
  BY <1>2, <1>4, FirstCut
<1>8. c \in [1 .. m + 2 -> Nat] /\ c[1] = 0
  <2>1. Len(r) + 1 = m + 2
    BY <1>6
  <2> QED BY <1>2, <2>1 DEF Flat, Places
<1>9. PICK n \in Nat : n = c[2] /\ n >= 5
  <2>1. Flat(p, r, c)
    BY <1>2, <1>3
  <2>2. c[2] = Len(package(r[1])) /\ r[1] \in Frames
    BY <1>2, <1>5, <2>1, FlatFirst
  <2> QED BY <2>2, PackageLength
<1>10. CASE n <= Z /\ Z > 5
  <2>1. slen = n
    BY <1>7, <1>9, <1>10
  <2>2. PICK y : y = SubSeq(z, n + 1, Z)
    OBVIOUS
  <2>3. n \in 0 .. Len(z)
    BY <1>4, <1>9, <1>10
  <2>4. SubSeq(p, n + 1, Len(p)) = y \o l
    BY <1>3, <1>4, <2>2, <2>3, DropFront
  <2>5. y \in Seq(Byte) /\ Len(y) = Z - n
    <3>1. \A k \in n + 1 .. Z : z[k] \in Byte
      BY <1>4, <1>9, ElementOfSeq
    <3>2. /\ y \in Seq(Byte)
          /\ Len(y) = IF n + 1 <= Z THEN Z - (n + 1) + 1 ELSE 0
      <4>1. n + 1 \in Int /\ Z \in Int
        BY <1>4, <1>9
      <4> QED BY <2>2, <3>1, <4>1, SubSeqProperties
    <3> QED BY SMTT(30), <1>4, <1>9, <1>10, <3>2
  <2>6. PICK q \in Seq(Frames) : q = Tail(r)
    BY <1>2, <1>5, HeadTailProperties
  <2>7. Len(q) = m
    <3>1. Len(q) = Len(r) - 1
      BY <1>2, <1>5, <2>6, HeadTailProperties
    <3> QED BY <1>6, <3>1
  <2>8. PICK d : /\ d \in Places(q) /\ Flat(y \o l, q, d)
                 /\ \A i \in 1 .. m + 1 : c[i + 1] = n + d[i]
    <3>1. PICK d : /\ d \in Places(Tail(r))
                   /\ Flat(SubSeq(p, c[2] + 1, Len(p)), Tail(r), d)
                   /\ \A i \in 1 .. Len(r) : c[i + 1] = c[2] + d[i]
      <4>1. Flat(p, r, c)
        BY <1>2, <1>3
      <4> QED BY <1>2, <1>5, <4>1, FlatFirst
    <3> QED BY <1>6, <1>9, <2>4, <2>6, <3>1
  <2>9. r[1] \in Frames
    <3>1. 1 \in 1 .. Len(r)
      BY <1>6
    <3> QED BY <1>2, <3>1, ElementOfSeq
  <2>10. s = Append(g, r[1]) \o q /\ Append(g, r[1]) \in Seq(Frames)
    <3>1. PICK a : a = <<r[1]>> /\ a \in Seq(Frames)
      <4>1. PICK f \in Frames : f = r[1]
        BY <2>9
      <4>2. <<f>> \in Seq(Frames)
        OBVIOUS
      <4> QED BY <4>1, <4>2
    <3>2. r = a \o q
      <4>1. SubSeq(r, 1, Len(r)) = <<r[1]>> \o SubSeq(r, 1 + 1, Len(r))
        <5>1. 1 \in 1 .. Len(r) /\ Len(r) \in 1 .. Len(r)
          BY <1>6
        <5> QED BY <1>2, <5>1, SubSeqRecursiveFirst
      <4>2. SubSeq(r, 1, Len(r)) = r /\ Tail(r) = SubSeq(r, 2, Len(r))
        BY <1>2, <1>5, SubSeqFull, TailIsSubSeq
      <4>3. 1 + 1 = 2
        OBVIOUS
      <4> QED BY <2>6, <3>1, <4>1, <4>2, <4>3
    <3>3. Append(g, r[1]) = g \o a
      BY <1>1, <2>9, <3>1, AppendIsConcat
    <3>4. (g \o a) \o q = g \o (a \o q)
      BY SMTT(30), <1>1, <2>6, <3>1, ConcatAssociative
    <3>5. Append(g, r[1]) \in Seq(Frames)
      BY <1>1, <2>9, AppendProperties
    <3> QED BY <1>2, <3>2, <3>3, <3>4, <3>5
  <2>11. ASSUME MaxBurst <= RX_TIMEOUT PROVE Timely(y, q, d, t - 1)
    <3> SUFFICES ASSUME NEW i \in 1 .. m, d[i + 1] <= Z - n, Z - n > d[i] + 5
                 PROVE  i <= t - 1
      BY <2>5, <2>7 DEF Timely
    <3>1. i \in 1 .. m + 1 /\ i + 1 \in 1 .. m + 1
      BY <1>6
    <3>2. d \in [1 .. m + 1 -> Nat]
      BY <2>7, <2>8 DEF Places
    <3>3. d[i] \in Nat /\ d[i + 1] \in Nat
      BY <3>1, <3>2
    <3>4. c[i + 1] = n + d[i] /\ c[(i + 1) + 1] = n + d[i + 1]
      BY <2>8, <3>1
    <3>5. c[(i + 1) + 1] <= Z /\ Z > c[i + 1] + 5
      <4>1. PICK u \in Nat, v \in Nat : u = d[i] /\ v = d[i + 1]
        BY <3>3
      <4>2. v <= Z - n /\ Z - n > u + 5
        BY <4>1
      <4>3. n + v <= Z /\ Z > (n + u) + 5
        BY ONLY <4>2, n \in Nat, Z \in Nat, u \in Nat, v \in Nat
      <4> QED BY <3>4, <4>1, <4>3
    <3>6. \A j \in 1 .. m + 1 : c[j + 1] <= Z /\ Z > c[j] + 5 => j <= t
      BY <1>2, <1>4, <1>6, <2>11 DEF Timely
    <3>7. i + 1 <= t
      BY <3>1, <3>5, <3>6
    <3> QED BY <3>1, <3>7
  <2>12. Stream(y \o l, y, t - 1, Append(g, r[1]), s)
    BY <2>6, <2>8, <2>10, <2>11 DEF Stream
  <2>13. Unpacked(z, slen) = r[1]
    BY <1>7, <1>9, <1>10, <2>1
  <2>14. slen > 0
    BY <1>9, <2>1
  <2> QED BY <1>4, <2>1, <2>2, <2>12, <2>13, <2>14
<1>11. CASE ~(n <= Z /\ Z > 5)
  <2>1. slen = 0
    BY <1>7, <1>9, <1>11
  <2>2. Timely(z, r, c, t - 1)
    <3> SUFFICES ASSUME NEW i \in 1 .. m + 1, c[i + 1] <= Z, Z > c[i] + 5
                 PROVE  FALSE
      BY <1>4, <1>6 DEF Timely
    <3>1. 2 \in 1 .. m + 2 /\ i + 1 \in 1 .. m + 2 /\ i \in 1 .. m + 2 /\ 2 <= i + 1
      BY <1>6
    <3>2. c[2] <= c[i + 1] /\ c[i] \in Nat /\ c[i + 1] \in Nat
      <4>1. \A i_1, j \in 1 .. m + 2 : i_1 <= j => c[i_1] <= c[j]
        <5>1. Len(r) + 1 = m + 2
          BY <1>6
        <5> QED BY <1>2, <5>1 DEF Flat
      <4> QED BY <1>8, <3>1, <4>1
    <3> QED BY SMTT(30), <1>4, <1>9, <1>11, <3>2
  <2>3. Stream(z \o l, z, t - 1, g, s)
    BY <1>1, <1>2, <2>2 DEF Stream
  <2> QED BY <2>1, <2>3
<1> QED BY <1>10, <1>11

\* Where three parts are put together does not matter.
LEMMA Joined ==
  ASSUME NEW a \in Seq(Byte), NEW b \in Seq(Byte), NEW c \in Seq(Byte)
  PROVE  (a \o b) \o c = a \o (b \o c)
  BY ConcatAssociative

\* A sequence is its first n members and the others.
LEMMA Halves ==
  ASSUME NEW s \in Seq(Byte), NEW n \in 0 .. Len(s)
  PROVE  /\ SubSeq(s, 1, n) \in Seq(Byte) /\ SubSeq(s, n + 1, Len(s)) \in Seq(Byte)
         /\ SubSeq(s, 1, n) \o SubSeq(s, n + 1, Len(s)) = s
<1>1. PICK Z \in Nat : Z = Len(s)
  BY LenProperties
<1>2. n \in 0 .. Z /\ \A k \in 1 .. Z : s[k] \in Byte
  BY <1>1, ElementOfSeq
<1>3. SubSeq(s, 1, n) \in Seq(Byte)
  <2>1. 1 \in Int /\ n \in Int /\ \A k \in 1 .. n : s[k] \in Byte
    BY <1>1, <1>2
  <2> QED BY <2>1, SubSeqProperties
<1>4. SubSeq(s, n + 1, Z) \in Seq(Byte)
  <2>1. n + 1 \in Int /\ Z \in Int /\ \A k \in n + 1 .. Z : s[k] \in Byte
    BY <1>1, <1>2
  <2> QED BY <2>1, SubSeqProperties
<1>5. SubSeq(s, 1, n) \o SubSeq(s, n + 1, Z) = SubSeq(s, 1, Z)
  <2>1. /\ 1 \in 1 .. Len(s) + 1 /\ n \in 1 - 1 .. Len(s) /\ Len(s) \in n .. Len(s)
    BY <1>1, <1>2
  <2> QED BY <1>1, <2>1, ConcatAdjacentSubSeq
<1>6. SubSeq(s, 1, Z) = s
  BY <1>1, SubSeqFull
<1> QED BY <1>1, <1>3, <1>4, <1>5, <1>6

---------------------------------------------------------------------------
(***************************************************************************)
(* The steps of the serial link.                                           *)
(***************************************************************************)
Pipe == (zb_rx \o RxBuffer) \o line

StreamInv == ~lost => Stream(Pipe, zb_rx, timeout, got, sent)

UartInv == UartTypeOK /\ StreamInv

\* The bytes between the coordinator and read_package.
LEMMA PipeType ==
  ASSUME UartTypeOK
  PROVE  /\ zb_rx \in Seq(Byte) /\ RxBuffer \in Seq(Byte) /\ line \in Seq(Byte)
         /\ Pipe \in Seq(Byte) /\ Len(zb_rx) <= Len(Pipe)
<1>1. zb_rx \in Seq(Byte) /\ RxBuffer \in Seq(Byte) /\ line \in Seq(Byte)
  BY DEF UartTypeOK
<1>2. PICK a \in Seq(Byte) : a = zb_rx \o RxBuffer
  BY <1>1, ConcatProperties
<1>3. Pipe = a \o line
  BY <1>2 DEF Pipe
<1>4. /\ Len(a) = Len(zb_rx) + Len(RxBuffer) /\ Len(zb_rx) \in Nat
      /\ Len(RxBuffer) \in Nat
  BY <1>1, <1>2, Behind
<1>5. /\ Pipe \in Seq(Byte) /\ Len(Pipe) = Len(a) + Len(line) /\ Len(line) \in Nat
  BY <1>1, <1>2, <1>3, Behind
<1> QED BY <1>1, <1>4, <1>5

\* The coordinator sends a frame.
LEMMA SendStream ==
  ASSUME UartInv, NEW f \in Frames, Send(f) PROVE StreamInv'
<1>1. /\ zb_rx \in Seq(Byte) /\ RxBuffer \in Seq(Byte) /\ line \in Seq(Byte)
      /\ Pipe \in Seq(Byte) /\ Len(zb_rx) <= Len(Pipe)
  BY PipeType DEF UartInv
<1>2. /\ line' = line \o package(f) /\ package(f) \in Seq(Byte)
      /\ UNCHANGED <<RxBuffer, zb_rx, timeout>>
  BY UartAssumption DEF Send
<1>3. Pipe' = Pipe \o package(f)
  <2>1. PICK a \in Seq(Byte) : a = zb_rx \o RxBuffer
    BY <1>1, ConcatProperties
  <2>2. Pipe = a \o line /\ Pipe' = a \o (line \o package(f))
    BY <1>2, <2>1 DEF Pipe
  <2>3. (a \o line) \o package(f) = a \o (line \o package(f))
    BY SMTT(30), <1>1, <1>2, Joined
  <2> QED BY <2>2, <2>3
<1>4. CASE Idle
  <2>1. sent' = <<f>> /\ got' = <<>> /\ zb_rx' = <<>>
    BY <1>2, <1>4 DEF Send, Idle
  <2>2. Pipe = <<>>
    BY <1>4, ConcatEmptySeq, EmptySeq DEF Idle, Pipe
  <2>3. Pipe' = package(f)
    BY <1>2, <1>3, <2>2, ConcatEmptySeq
  <2> QED BY <2>1, <2>3, StreamBegin DEF StreamInv
<1>5. CASE ~Idle
  <2>1. sent' = Append(sent, f) /\ UNCHANGED <<got, lost>>
    BY <1>5 DEF Send
  <2>2. CASE lost
    BY <2>1, <2>2 DEF StreamInv
  <2>3. CASE ~lost
    <3>1. Stream(Pipe, zb_rx, timeout, got, sent)
      BY <2>3 DEF UartInv, StreamInv
    <3>2. Stream(Pipe \o package(f), zb_rx, timeout, got, Append(sent, f))
      BY <1>1, <3>1, StreamAppend
    <3> QED BY <1>2, <1>3, <2>1, <3>2 DEF StreamInv
  <2> QED BY <2>2, <2>3
<1> QED BY <1>4, <1>5

\* uart_thread takes bytes from the driver.
LEMMA UartThreadStream == ASSUME UartInv, uart_thread PROVE StreamInv'
<1>1. /\ zb_rx \in Seq(Byte) /\ RxBuffer \in Seq(Byte) /\ line \in Seq(Byte)
  BY PipeType DEF UartInv
<1>2. PICK n \in 1 .. UART_CHUNK :
        /\ n <= Len(line)
        /\ PutDown(SubSeq(line, 1, n))
        /\ line' = SubSeq(line, n + 1, Len(line))
  BY DEF uart_thread
<1>3. UNCHANGED <<zb_rx, timeout, sent, got>>
  BY DEF uart_thread
<1>4. PICK a, b : a = SubSeq(line, 1, n) /\ b = SubSeq(line, n + 1, Len(line))
  OBVIOUS
<1>5. n \in 0 .. Len(line)
  <2>1. n \in Nat /\ Len(line) \in Nat
    BY <1>1, UartAssumption, LenProperties
  <2> QED BY <1>2, <2>1
<1>6. a \in Seq(Byte) /\ b \in Seq(Byte) /\ a \o b = line
  BY <1>1, <1>4, <1>5, Halves
<1>7. CASE lost'
  BY <1>7 DEF StreamInv
<1>8. CASE ~lost'
  <2>1. RxBuffer' = RxBuffer \o a /\ UNCHANGED lost
    BY <1>2, <1>4, <1>8 DEF PutDown
  <2>2. Pipe' = Pipe
    <3>1. Pipe' = (zb_rx \o (RxBuffer \o a)) \o b
      BY <1>2, <1>3, <1>4, <2>1 DEF Pipe
    <3>2. zb_rx \o (RxBuffer \o a) = (zb_rx \o RxBuffer) \o a
      <4>1. zb_rx \in Seq(Byte) /\ RxBuffer \in Seq(Byte) /\ a \in Seq(Byte)
        BY <1>1, <1>6
      <4> QED BY <4>1, Joined
    <3>3. zb_rx \o RxBuffer \in Seq(Byte)
      BY <1>1, ConcatProperties
    <3>4. ((zb_rx \o RxBuffer) \o a) \o b = (zb_rx \o RxBuffer) \o (a \o b)
      BY <1>6, <3>3, Joined
    <3> QED BY <1>6, <3>1, <3>2, <3>4 DEF Pipe
  <2> QED BY <1>3, <1>8, <2>1, <2>2 DEF UartInv, StreamInv
<1> QED BY <1>7, <1>8

\* read_package takes bytes from RxBuffer.
LEMMA DrainStream == ASSUME UartInv, Drain PROVE StreamInv'
<1>1. /\ zb_rx \in Seq(Byte) /\ RxBuffer \in Seq(Byte) /\ line \in Seq(Byte)
  BY PipeType DEF UartInv
<1>2. PICK n : n = IF Len(RxBuffer) > UART_CHUNK THEN UART_CHUNK ELSE Len(RxBuffer)
  OBVIOUS
<1>3. /\ Collect(SubSeq(RxBuffer, 1, n))
      /\ RxBuffer' = SubSeq(RxBuffer, n + 1, Len(RxBuffer))
      /\ timeout' = RX_TIMEOUT /\ UNCHANGED <<line, sent, got>>
  BY <1>2 DEF Drain
<1>4. PICK a, b : a = SubSeq(RxBuffer, 1, n) /\ b = SubSeq(RxBuffer, n + 1, Len(RxBuffer))
  OBVIOUS
<1>5. n \in 0 .. Len(RxBuffer)
  <2>1. UART_CHUNK \in Nat /\ Len(RxBuffer) \in Nat
    BY <1>1, UartAssumption, LenProperties
  <2> QED BY <1>2, <2>1
<1>6. a \in Seq(Byte) /\ b \in Seq(Byte) /\ a \o b = RxBuffer
  BY <1>1, <1>4, <1>5, Halves
<1>7. CASE lost'
  BY <1>7 DEF StreamInv
<1>8. CASE ~lost'
  <2>1. zb_rx' = zb_rx \o a /\ UNCHANGED lost
    BY <1>3, <1>4, <1>8 DEF Collect
  <2>2. Pipe' = Pipe
    <3>1. Pipe' = ((zb_rx \o a) \o b) \o line
      BY <1>3, <1>4, <2>1 DEF Pipe
    <3>2. (zb_rx \o a) \o b = zb_rx \o (a \o b)
      <4>1. zb_rx \in Seq(Byte) /\ a \in Seq(Byte) /\ b \in Seq(Byte)
        BY <1>1, <1>6
      <4> QED BY <4>1, Joined
    <3> QED BY <1>6, <3>1, <3>2 DEF Pipe
  <2>3. Stream(Pipe, zb_rx, timeout, got, sent) /\ Len(sent) <= MaxBurst
    BY <1>8, <2>1 DEF UartInv, StreamInv, UartTypeOK
  <2>4. Stream(Pipe, zb_rx', RX_TIMEOUT, got, sent)
    BY <2>3, StreamFilled
  <2> QED BY <1>3, <2>2, <2>4 DEF StreamInv
<1> QED BY <1>7, <1>8

\* read_package gives up what there is.
LEMMA CutTimeoutStream == ASSUME UartInv, CutTimeout PROVE StreamInv'
<1>1. CASE lost'
  BY <1>1 DEF StreamInv
<1>2. CASE ~lost'
  <2>1. UNCHANGED <<line, RxBuffer, zb_rx, timeout, sent, got, lost>>
    BY <1>2 DEF CutTimeout, UartInv, UartTypeOK
  <2> QED BY <2>1 DEF UartInv, StreamInv, Pipe
<1> QED BY <1>1, <1>2

\* read_package with nothing in zb_rx.
LEMMA NothingToCut ==
  /\ Aligned(<<>>) = {<<>>} /\ check_package(<<>>) = {0}
  /\ SubSeq(<<>>, 0 + 1, Len(<<>>)) = <<>>
<1>1. Heads(<<>>) = {}
  BY DEF Heads
<1>2. Len(<<>>) = 0 /\ 0 <= ZB_MIN_PACKAGE_SIZE
  BY DEF ZB_MIN_PACKAGE_SIZE
<1>3. SubSeq(<<>>, 0 + 1, Len(<<>>)) = <<>>
  BY <1>2, SubSeqEmpty
<1> QED BY <1>1, <1>2, <1>3 DEF Aligned, check_package

\* read_package cuts the first frame out, if it can.
LEMMA CutFrameStream == ASSUME ShortFrames, UartInv, CutFrame PROVE StreamInv'
<1>1. /\ zb_rx \in Seq(Byte) /\ RxBuffer = <<>> /\ line \in Seq(Byte)
  BY PipeType DEF UartInv, CutFrame
<1>2. /\ timeout \in Nat /\ timeout' = timeout - 1
      /\ UNCHANGED <<line, RxBuffer, sent, lost>>
  BY UartAssumption DEF UartInv, UartTypeOK, CutFrame
<1>3. Pipe = zb_rx \o line /\ Pipe' = zb_rx' \o line
  <2>1. zb_rx' \in Seq(Byte)
    BY CutFrameType DEF UartInv, UartTypeOK
  <2>2. zb_rx \o <<>> = zb_rx /\ zb_rx' \o <<>> = zb_rx'
    BY <1>1, <2>1, ConcatEmptySeq
  <2> QED BY <1>1, <1>2, <2>2 DEF Pipe
<1>4. CASE lost
  BY <1>2, <1>4 DEF StreamInv
<1>5. CASE ~lost
  <2>1. Stream(zb_rx \o line, zb_rx, timeout, got, sent)
    BY <1>3, <1>5 DEF UartInv, StreamInv
  <2>2. PICK s \in Aligned(zb_rx) : \E slen \in check_package(s) :
          /\ zb_rx' = SubSeq(s, slen + 1, Len(s))
          /\ IF slen > 0 THEN FrameTaken(Unpacked(s, slen)) ELSE UNCHANGED got
    BY DEF CutFrame
  <2>3. PICK slen \in check_package(s) :
          /\ zb_rx' = SubSeq(s, slen + 1, Len(s))
          /\ IF slen > 0 THEN FrameTaken(Unpacked(s, slen)) ELSE UNCHANGED got
    BY <2>2
  <2>4. CASE zb_rx = <<>>
    <3>1. s = <<>> /\ slen = 0
      BY <2>2, <2>3, <2>4, NothingToCut
    <3>2. zb_rx' = <<>> /\ got' = got
      BY <2>3, <3>1, NothingToCut
    <3>3. Stream(zb_rx \o line, <<>>, timeout - 1, got, sent)
      BY <2>1, <2>4, StreamWaiting
    <3> QED BY <1>2, <1>3, <2>4, <3>2, <3>3 DEF StreamInv
  <2>5. CASE zb_rx # <<>>
    <3>1. s = zb_rx
      <4>1. PICK r, c : r \in Seq(Frames) /\ c \in Places(r) /\ Flat(zb_rx \o line, r, c)
        BY <2>1 DEF Stream
      <4>2. Aligned(zb_rx) = {zb_rx}
        BY <1>1, <2>5, <4>1, FirstCut
      <4> QED BY <2>2, <4>2
    <3>2. slen \in check_package(zb_rx)
      BY <3>1
    <3>3. IF slen > 0
          THEN Stream(SubSeq(zb_rx, slen + 1, Len(zb_rx)) \o line,
                      SubSeq(zb_rx, slen + 1, Len(zb_rx)),
                      timeout - 1, Append(got, Unpacked(zb_rx, slen)), sent)
          ELSE slen = 0 /\ Stream(zb_rx \o line, zb_rx, timeout - 1, got, sent)
      BY <1>1, <1>2, <2>1, <2>5, <3>2, StreamCut
    <3>4. CASE slen > 0
      <4>1. got' = Append(got, Unpacked(zb_rx, slen))
        BY <2>3, <3>1, <3>4 DEF FrameTaken
      <4> QED BY <1>2, <1>3, <2>3, <3>1, <3>3, <3>4, <4>1 DEF StreamInv
    <3>5. CASE ~(slen > 0)
      <4>1. slen = 0 /\ got' = got
        BY <2>3, <3>3, <3>5
      <4>2. zb_rx' = SubSeq(zb_rx, 1, Len(zb_rx))
        BY <2>3, <3>1, <4>1
      <4>3. zb_rx' = zb_rx
        BY <1>1, <4>2, SubSeqFull
      <4> QED BY <1>2, <1>3, <3>3, <3>5, <4>1, <4>3 DEF StreamInv
    <3> QED BY <3>4, <3>5
  <2> QED BY <2>4, <2>5
<1> QED BY <1>4, <1>5

\* Every step keeps the frames that were sent in the pipe.
LEMMA UartStep ==
  ASSUME ShortFrames PROVE UartInv /\ [UartNext]_uartVars => UartInv'
<1> SUFFICES ASSUME UartInv, [UartNext]_uartVars PROVE UartInv'
  OBVIOUS
<1>1. UartTypeOK'
  BY UartStepType DEF UartInv
<1>2. StreamInv'
  <2>1. ASSUME NEW f \in Frames, Send(f) PROVE StreamInv'
    BY <2>1, SendStream
  <2>2. CASE Garble
    BY <2>2 DEF Garble, StreamInv
  <2>3. CASE uart_thread
    BY <2>3, UartThreadStream
  <2>4. CASE Drain
    BY <2>4, DrainStream
  <2>5. ASSUME NEW cmd \in Asked, ReadStart(cmd) PROVE StreamInv'
    BY <2>5 DEF ReadStart, UartInv, StreamInv, Pipe
  <2>6. CASE CutTimeout
    BY <2>6, CutTimeoutStream
  <2>7. CASE CutFrame
    BY <2>7, CutFrameStream
  <2>8. CASE UNCHANGED uartVars
    BY <2>8 DEF uartVars, UartInv, StreamInv, Pipe
  <2> QED BY <2>1, <2>2, <2>3, <2>4, <2>5, <2>6, <2>7, <2>8 DEF UartNext
<1> QED BY <1>1, <1>2 DEF UartInv

\* Nothing is on its way at first.
LEMMA UartInitInv == UartInit => UartInv
<1> SUFFICES ASSUME UartInit PROVE UartInv
  OBVIOUS
<1>1. Pipe = <<>> /\ zb_rx = <<>> /\ got = <<>> /\ sent = <<>>
  BY ConcatEmptySeq, EmptySeq DEF UartInit, Pipe
<1>2. Stream(Pipe, zb_rx, timeout, got, sent)
  BY <1>1, StreamIdle
<1> QED BY <1>2, UartInitType DEF UartInv, StreamInv

\* What is a part in front of the frames sent was handed over in their order.
LEMMA StreamPrefix ==
  ASSUME NEW p, NEW z, NEW t, NEW g, NEW s, Stream(p, z, t, g, s)
  PROVE  IsPrefix(g, s)
<1>1. PICK r, c : g \in Seq(Frames) /\ r \in Seq(Frames) /\ c \in Places(r) /\ s = g \o r
  BY DEF Stream
<1>2. PICK n \in Nat : n = Len(g)
  BY <1>1, LenProperties
<1>3. Len(g) <= Len(s) /\ \A i \in 1 .. n : s[i] = g[i] /\ g[i] \in Frames
  <2>1. /\ Len(s) = Len(g) + Len(r) /\ Len(r) \in Nat
        /\ \A i \in 1 .. Len(g) : s[i] = g[i]
    BY <1>1, Behind
  <2> QED BY <1>1, <1>2, <2>1, ElementOfSeq
<1>4. SubSeq(g, 1, n) = g
  BY <1>1, <1>2, SubSeqFull
<1>5. SubSeq(s, 1, n) = g
  <2>1. PICK u : u = SubSeq(s, 1, n)
    OBVIOUS
  <2>2. /\ u \in Seq(Frames) /\ Len(u) = IF 1 <= n THEN n - 1 + 1 ELSE 0
        /\ \A i \in 1 .. n - 1 + 1 : u[i] = s[1 + i - 1]
    <3>1. 1 \in Int /\ n \in Int /\ \A i \in 1 .. n : s[i] \in Frames
      BY <1>2, <1>3
    <3> QED BY <2>1, <3>1, SubSeqProperties
  <2>3. Len(u) = n /\ \A i \in 1 .. n : u[i] = s[i]
    <3>1. Len(u) = n
      BY <1>2, <2>2
    <3>2. \A i \in 1 .. n : i \in 1 .. n - 1 + 1 /\ 1 + i - 1 = i
      BY <1>2
    <3> QED BY <2>2, <3>1, <3>2
  <2>4. u = g
    BY <1>1, <1>2, <1>3, <2>2, <2>3, SeqEqual
  <2> QED BY <2>1, <2>4
<1> QED BY <1>2, <1>3, <1>4, <1>5 DEF IsPrefix

\* However the bytes are cut into chunks, whatever start bytes there are in the
\* data and whoever reads, a line that lost nothing since it was idle hands over
\* the frames that were sent, in that order, none twice and none made up: for
\* arrays, chunks, timeouts and bursts of every size, if the length of every
\* frame fits in a byte.
THEOREM FramesHandedOver ==
  ASSUME ShortFrames PROVE UartSpec => []FramesInOrder
<1>1. UartInv => FramesInOrder
  BY StreamPrefix DEF UartInv, StreamInv, FramesInOrder
<1>2. UartInv /\ [UartNext]_uartVars => UartInv'
  BY UartStep
<1> QED BY <1>1, <1>2, UartInitInv, PTL DEF UartSpec

---------------------------------------------------------------------------
(***************************************************************************)
(* A line that was not disturbed lost nothing but an empty frame at the    *)
(* very end, which check_package does not take for one.                    *)
(***************************************************************************)
EndInv == lost /\ ~disturbed => Idle /\ sent # <<>> /\ Last(sent).DATA = <<>>

\* When the turns are used up, what there is of frames in zb_rx with nothing
\* behind it is one that cannot be cut out.
LEMMA OnlyEmptyLeft ==
  ASSUME NEW z \in Seq(Byte), z # <<>>, NEW g, NEW s, Stream(z, z, 0, g, s),
         MaxBurst <= RX_TIMEOUT
  PROVE  s # <<>> /\ Last(s).DATA = <<>>
<1>1. PICK r, c :
        /\ g \in Seq(Frames) /\ r \in Seq(Frames) /\ c \in Places(r)
        /\ s = g \o r /\ Flat(z, r, c) /\ Timely(z, r, c, 0)
  BY DEF Stream
<1>2. r # <<>>
  BY <1>1, FlatSome
<1>3. PICK m \in Nat \ {0} : m = Len(r)
  BY <1>1, <1>2, EmptySeq
<1>4. PICK Z \in Nat : Z = Len(z)
  BY LenProperties
<1>5. PICK f \in Frames : f = r[m]
  <2>1. m \in 1 .. Len(r)
    BY <1>3
  <2> QED BY <1>1, <2>1, ElementOfSeq
<1>6. PICK n \in Nat : n = Len(f.DATA) /\ Len(package(f)) = n + 5
  BY ZenonT(30), <1>5, PackageParts
<1>7. PICK y \in Nat : y = c[m] /\ Z = y + (n + 5)
  <2>1. c \in [1 .. m + 1 -> Nat]
    BY <1>1, <1>3 DEF Places
  <2>2. m \in 1 .. m + 1 /\ m \in 1 .. m
    BY <1>3
  <2>3. c[m] \in Nat
    BY <2>1, <2>2
  <2>4. c[m + 1] = c[m] + Len(package(r[m])) /\ c[m + 1] = Z
    BY <1>1, <1>3, <1>4, <2>2 DEF Flat
  <2> QED BY <1>5, <1>6, <2>3, <2>4
<1>8. ~(Z > y + 5)
  <2>1. m \in 1 .. Len(r) /\ ~(m <= 0)
    BY <1>3
  <2>2. c[m + 1] <= Len(z)
    BY <1>1, <1>3, <1>4 DEF Flat
  <2> QED BY <1>1, <1>4, <1>7, <2>1, <2>2 DEF Timely
<1>9. n = 0
  BY <1>6, <1>7, <1>8
<1>10. f.DATA = <<>>
  <2>1. f.DATA \in Seq(Byte)
    BY <1>5, UartAssumption
  <2> QED BY <1>6, <1>9, <2>1, EmptySeq
<1>11. s # <<>> /\ Last(s) = f
  <2>1. /\ s \in Seq(Frames) /\ Len(s) = Len(g) + Len(r) /\ Len(g) \in Nat
        /\ \A i \in 1 .. Len(r) : s[Len(g) + i] = r[i]
    BY <1>1, Behind
  <2>2. s[Len(s)] = r[m]
    BY <1>3, <2>1
  <2>3. Len(s) # 0
    BY <1>3, <2>1
  <2> QED BY <1>5, <2>1, <2>2, <2>3, EmptySeq DEF Last
<1> QED BY <1>10, <1>11

\* Nothing else is lost on a line that is not disturbed.
LEMMA EndStep ==
  ASSUME MaxBurst <= RX_TIMEOUT
  PROVE  UartInv /\ EndInv /\ [UartNext]_uartVars => EndInv'
<1> SUFFICES ASSUME UartInv, EndInv, [UartNext]_uartVars PROVE EndInv'
  OBVIOUS
<1>1. ASSUME NEW f \in Frames, Send(f) PROVE EndInv'
  <2>1. CASE Idle
    BY <1>1, <2>1 DEF Send, EndInv
  <2>2. CASE ~Idle
    BY <1>1, <2>2 DEF Send, EndInv
  <2> QED BY <2>1, <2>2
<1>2. CASE Garble
  BY <1>2 DEF Garble, EndInv
<1>3. CASE uart_thread
  <2>1. PICK n \in 1 .. UART_CHUNK : n <= Len(line) /\ PutDown(SubSeq(line, 1, n))
    BY <1>3 DEF uart_thread
  <2>2. ~Idle
    <3>1. n \in Nat \ {0} /\ n <= Len(line)
      BY <2>1, UartAssumption
    <3>2. CASE line = <<>>
      <4>1. Len(line) = 0
        BY <3>2, EmptySeq
      <4> QED BY <3>1, <4>1
    <3> QED BY <3>2 DEF Idle
  <2> QED BY <2>1, <2>2 DEF PutDown, EndInv
<1>4. CASE Drain
  <2>1. ~Idle
    BY <1>4 DEF Drain, Idle
  <2>2. UNCHANGED <<lost, disturbed>> \/ disturbed'
    BY <1>4 DEF Drain, Collect
  <2> QED BY <2>1, <2>2 DEF EndInv
<1>5. ASSUME NEW cmd \in Asked, ReadStart(cmd) PROVE EndInv'
  BY <1>5 DEF ReadStart, EndInv, Idle
<1>6. CASE CutTimeout
  <2> SUFFICES ASSUME lost', ~disturbed'
               PROVE  Idle' /\ sent # <<>> /\ Last(sent).DATA = <<>>
    BY <1>6 DEF EndInv, CutTimeout
  <2>1. /\ line = <<>> /\ RxBuffer = <<>> /\ timeout = 0 /\ ~disturbed
        /\ zb_rx' = <<>> /\ UNCHANGED <<line, RxBuffer>>
    BY <1>6 DEF CutTimeout
  <2>2. Idle'
    BY <2>1 DEF Idle
  <2>3. CASE lost
    BY <2>1, <2>2, <2>3 DEF EndInv
  <2>4. CASE ~lost
    <3>1. zb_rx # <<>> /\ zb_rx \in Seq(Byte)
      BY <1>6, <2>4 DEF CutTimeout, UartInv, UartTypeOK
    <3>2. Stream(Pipe, zb_rx, timeout, got, sent)
      BY <2>4 DEF UartInv, StreamInv
    <3>3. Pipe = zb_rx
      BY <2>1, <3>1, ConcatEmptySeq DEF Pipe
    <3> QED BY <2>1, <2>2, <3>1, <3>2, <3>3, OnlyEmptyLeft
  <2> QED BY <2>3, <2>4
<1>7. CASE CutFrame
  <2> SUFFICES ASSUME lost', ~disturbed'
               PROVE  Idle' /\ sent # <<>> /\ Last(sent).DATA = <<>>
    BY <1>7 DEF EndInv, CutFrame
  <2>1. lost /\ ~disturbed /\ UNCHANGED <<line, RxBuffer>>
    BY <1>7 DEF CutFrame
  <2>2. Idle /\ sent # <<>> /\ Last(sent).DATA = <<>>
    BY <2>1 DEF EndInv
  <2>3. zb_rx' = <<>>
    <3>1. PICK s \in Aligned(zb_rx) : \E slen \in check_package(s) :
            zb_rx' = SubSeq(s, slen + 1, Len(s))
      BY <1>7 DEF CutFrame
    <3>2. s = <<>>
      BY <2>2, <3>1, NothingToCut DEF Idle
    <3> QED BY <3>1, <3>2, NothingToCut
  <2> QED BY <2>1, <2>2, <2>3 DEF Idle
<1>8. CASE UNCHANGED uartVars
  BY <1>8 DEF uartVars, EndInv, Idle
<1> QED BY <1>1, <1>2, <1>3, <1>4, <1>5, <1>6, <1>7, <1>8 DEF UartNext

\* An idle line has no frame left to hand over.
LEMMA NothingLeft ==
  ASSUME UartInv, Idle, ~lost PROVE got = sent
<1>1. PICK b \in Seq(Byte) : b = <<>>
  BY EmptySeq
<1>2. Pipe = b
  BY <1>1, ConcatEmptySeq DEF Idle, Pipe
<1>3. PICK r, c :
        /\ got \in Seq(Frames) /\ r \in Seq(Frames) /\ c \in Places(r)
        /\ sent = got \o r /\ Flat(b, r, c)
  BY <1>2 DEF UartInv, StreamInv, Stream
<1>4. r = <<>>
  BY <1>1, <1>3, FlatSome
<1> QED BY <1>3, <1>4, ConcatEmptySeq

\* A line that was not disturbed is idle again only when every frame was handed
\* over, but for an empty one at the end: no burst of at most RX_TIMEOUT frames
\* is cut short by the timeout, for arrays and chunks of every size.
THEOREM BurstHandedOver ==
  ASSUME ShortFrames, MaxBurst <= RX_TIMEOUT PROVE UartSpec => []AllHandled
<1>1. UartInit => EndInv
  BY DEF UartInit, EndInv
<1>2. UartInv /\ EndInv /\ [UartNext]_uartVars => UartInv' /\ EndInv'
  BY UartStep, EndStep
<1>3. UartInv /\ EndInv => AllHandled
  <2> SUFFICES ASSUME UartInv, EndInv, Idle, ~disturbed,
                      sent # <<>> => Last(sent).DATA # <<>>
               PROVE  got = sent
    BY DEF AllHandled
  <2>1. ~lost
    BY DEF EndInv
  <2> QED BY <2>1, NothingLeft
<1> QED BY <1>1, <1>2, <1>3, UartInitInv, PTL DEF UartSpec
=============================================================================
