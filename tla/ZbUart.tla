------------------------------- MODULE ZbUart -------------------------------
(***************************************************************************)
(* The receiving side of the serial link (hal_driver/hal_uart.c and        *)
(* app/zb_uart.c of gwzb-esp32-v2.0).  Bytes of the coordinator are taken  *)
(* from the UART driver by a thread of their own (uart_thread) into        *)
(* RxBuffer; the thread of the Pluto operating layer collects them in      *)
(* zb_rx and cuts frames out of it, either by zb_uart_task every 20 ms or  *)
(* in zb_uart_read, which waits for one answer and blocks that thread.     *)
(*                                                                         *)
(* RxBuffer is shared under a lock, so one hal_uart_read is one step       *)
(* (Drain); the rest of read_package is one step of its own (Cut...), since*)
(* nothing else touches zb_rx.  zb_rx_lock is never seen set by            *)
(* zb_uart_task: both run on one thread.                                   *)
(***************************************************************************)
EXTENDS ZbFrame, SequencesExt

CONSTANTS
  Frames,              \* what the coordinator may send
  Asked,               \* the answers zb_uart_read is called for
  UART_BUFFER_SIZE,    \* RxBuffer, 1024 in the code
  UART_CHUNK,          \* bytes moved at a time, 128 in the code
  ZB_RX_BUFFER_SIZE,   \* zb_rx.data, 512 in the code
  RX_TIMEOUT,          \* timeout of zb_rx, 10 in the code
  READ_TRY,            \* stry of zb_uart_read, 60 in the code
  MaxBurst             \* bound of the model: frames until the line is idle

ASSUME UartAssumption ==
  /\ {UART_BUFFER_SIZE, UART_CHUNK, ZB_RX_BUFFER_SIZE} \subseteq Nat \ {0}
  /\ UART_CHUNK < UART_BUFFER_SIZE /\ UART_CHUNK <= ZB_RX_BUFFER_SIZE
  /\ RX_TIMEOUT \in Nat \ {0} /\ READ_TRY \in Nat \ {0}
  /\ MaxBurst \in Nat \ {0}
  /\ Frames \subseteq [CMD0 : Byte, CMD1 : Byte, DATA : Seq(Byte)]
  /\ \A f \in Frames : package(f) \in Seq(Byte)

VARIABLES
  line,       \* bytes on their way and in the driver
  RxBuffer,   \* bytes uart_thread put down for hal_uart_read
  zb_rx,      \* zb_rx.data[0 .. cnt - 1]
  timeout,    \* zb_rx.timeout
  reader,     \* the zb_uart_read that is running: what it waits for, stry
  sent, got,  \* history: frames sent and handled since the line was idle
  lost,       \* history: bytes were thrown away since the line was idle
  disturbed   \* history: since then the line lost a byte or paused until the
              \* timeout was over, or an array was full

uartVars == <<line, RxBuffer, zb_rx, timeout, reader, sent, got, lost, disturbed>>

NoReader == [cmd |-> <<>>, stry |-> 0]

UartInit ==
  /\ line = <<>> /\ RxBuffer = <<>> /\ zb_rx = <<>>
  /\ timeout = 0
  /\ reader = NoReader
  /\ sent = <<>> /\ got = <<>> /\ lost = FALSE /\ disturbed = FALSE

Idle == line = <<>> /\ RxBuffer = <<>> /\ zb_rx = <<>>

---------------------------------------------------------------------------

\* The coordinator sends a frame; a frame into an idle line begins a history.
Send(f) ==
  /\ line' = line \o package(f)
  /\ IF Idle THEN sent' = <<f>> /\ got' = <<>> /\ lost' = FALSE /\ disturbed' = FALSE
     ELSE /\ Len(sent) < MaxBurst
          /\ sent' = Append(sent, f) /\ UNCHANGED <<got, lost, disturbed>>
  /\ UNCHANGED <<RxBuffer, zb_rx, timeout, reader>>

\* The line loses a byte.
Garble ==
  /\ line # <<>>
  /\ line' = Tail(line) /\ lost' = TRUE /\ disturbed' = TRUE
  /\ UNCHANGED <<RxBuffer, zb_rx, timeout, reader, sent, got>>

\* uart_thread with the bytes s: they are put down behind the others; when
\* they do not fit they are dropped and the others with them.
PutDown(s) ==
  IF Len(RxBuffer) + Len(s) < UART_BUFFER_SIZE
  THEN RxBuffer' = RxBuffer \o s /\ UNCHANGED <<lost, disturbed>>
  ELSE RxBuffer' = <<>> /\ lost' = TRUE /\ disturbed' = TRUE

uart_thread ==
  /\ \E n \in 1 .. UART_CHUNK :
       /\ n <= Len(line)
       /\ PutDown(SubSeq(line, 1, n))
       /\ line' = SubSeq(line, n + 1, Len(line))
  /\ UNCHANGED <<zb_rx, timeout, reader, sent, got>>

\* Mutant: the size of zb_rx.data is not looked at.
CollectAll(s) == zb_rx' = zb_rx \o s /\ UNCHANGED <<lost, disturbed>>

\* Bytes s are added to zb_rx; when they do not fit the old ones are dropped.
Collect(s) ==
  IF ZB_RX_BUFFER_SIZE < Len(zb_rx) + Len(s)
  THEN zb_rx' = s /\ lost' = TRUE /\ disturbed' = TRUE
  ELSE zb_rx' = zb_rx \o s /\ UNCHANGED <<lost, disturbed>>

\* Mutant: the timeout is set by the first bytes of a frame only.
DrainTimed ==
  /\ RxBuffer # <<>>
  /\ LET n == IF Len(RxBuffer) > UART_CHUNK THEN UART_CHUNK ELSE Len(RxBuffer)
     IN  /\ Collect(SubSeq(RxBuffer, 1, n))
         /\ RxBuffer' = SubSeq(RxBuffer, n + 1, Len(RxBuffer))
  /\ timeout' = IF zb_rx = <<>> THEN RX_TIMEOUT ELSE timeout
  /\ UNCHANGED <<line, reader, sent, got>>

\* The loop of read_package: hal_uart_read takes what it can get.
Drain ==
  /\ RxBuffer # <<>>
  /\ LET n == IF Len(RxBuffer) > UART_CHUNK THEN UART_CHUNK ELSE Len(RxBuffer)
     IN  /\ Collect(SubSeq(RxBuffer, 1, n))
         /\ RxBuffer' = SubSeq(RxBuffer, n + 1, Len(RxBuffer))
  /\ timeout' = RX_TIMEOUT
  /\ UNCHANGED <<line, reader, sent, got>>

\* zb_uart_read(cmd[1], cmd[2], ...) begins to wait for its answer.
ReadStart(cmd) ==
  /\ reader = NoReader
  /\ reader' = [cmd |-> cmd, stry |-> READ_TRY]
  /\ UNCHANGED <<line, RxBuffer, zb_rx, timeout, sent, got, lost, disturbed>>

\* One turn of zb_uart_read that did not bring the answer.
TurnOver == reader' = IF reader.stry > 1 THEN [reader EXCEPT !.stry = @ - 1]
                      ELSE NoReader

\* Mutant: a frame that is not the answer does not count as a turn.
FrameTakenPatiently(f) ==
  /\ reader' = IF <<f.CMD0, f.CMD1>> = reader.cmd THEN NoReader ELSE reader
  /\ got' = Append(got, f)

\* Mutant: zb_uart_read drops the frames that are not its answer.
FrameTakenGreedy(f) ==
  /\ IF reader = NoReader THEN UNCHANGED reader
     ELSE IF <<f.CMD0, f.CMD1>> = reader.cmd THEN reader' = NoReader
     ELSE TurnOver
  /\ got' = IF reader = NoReader \/ <<f.CMD0, f.CMD1>> = reader.cmd
            THEN Append(got, f) ELSE got

\* A frame was cut out: it is the answer zb_uart_read waits for, or the
\* receive callback gets it, from zb_uart_read as from zb_uart_task.
FrameTaken(f) ==
  /\ IF reader = NoReader THEN UNCHANGED reader
     ELSE IF <<f.CMD0, f.CMD1>> = reader.cmd THEN reader' = NoReader
     ELSE TurnOver
  /\ got' = Append(got, f)

\* Mutant: cnt is not set back.
CutTimeoutKept ==
  /\ RxBuffer = <<>> /\ timeout = 0
  /\ IF reader = NoReader THEN UNCHANGED reader ELSE TurnOver
  /\ UNCHANGED <<line, RxBuffer, zb_rx, timeout, sent, got, lost, disturbed>>

\* read_package when hal_uart_read has no more bytes and the last ones came
\* too long ago: what there is of a frame is dropped.
CutTimeout ==
  /\ RxBuffer = <<>> /\ timeout = 0
  /\ zb_rx' = <<>> /\ lost' = (lost \/ zb_rx # <<>>)
  /\ disturbed' = (disturbed \/ line # <<>>)
  /\ IF reader = NoReader THEN UNCHANGED reader ELSE TurnOver
  /\ UNCHANGED <<line, RxBuffer, timeout, sent, got>>

\* read_package otherwise: cut the first frame out, if it is complete.
CutFrame ==
  /\ RxBuffer = <<>> /\ timeout > 0
  /\ timeout' = timeout - 1
  /\ disturbed' = (disturbed \/ (line # <<>> /\ timeout = 1))
  /\ \E s \in Aligned(zb_rx) : \E slen \in check_package(s) :
       /\ zb_rx' = SubSeq(s, slen + 1, Len(s))
       /\ IF slen > 0 THEN FrameTaken(Unpacked(s, slen))
          ELSE /\ IF reader = NoReader THEN UNCHANGED reader ELSE TurnOver
               /\ UNCHANGED got
  /\ UNCHANGED <<line, RxBuffer, sent, lost>>

UartNext ==
  \/ \E f \in Frames : Send(f)
  \/ Garble
  \/ uart_thread
  \/ Drain
  \/ \E cmd \in Asked : ReadStart(cmd)
  \/ CutTimeout
  \/ CutFrame

UartSpec == UartInit /\ [][UartNext]_uartVars

\* uart_thread and the timer of zb_uart_task go on for ever, and zb_uart_read
\* repeats its own loop.  The loop of read_package does not sleep and
\* uart_thread sleeps 20 ms after every chunk, so read_package comes to the
\* point where RxBuffer is empty however often bytes arrive: strong fairness.
UartFairSpec ==
  /\ UartSpec
  /\ WF_uartVars(uart_thread) /\ WF_uartVars(Drain)
  /\ SF_uartVars(CutTimeout \/ CutFrame)

---------------------------------------------------------------------------

\* The buffers hold bytes and never more of them than their arrays.
UartTypeOK ==
  /\ line \in Seq(Byte) /\ RxBuffer \in Seq(Byte) /\ zb_rx \in Seq(Byte)
  /\ Len(RxBuffer) < UART_BUFFER_SIZE
  /\ Len(zb_rx) <= ZB_RX_BUFFER_SIZE
  /\ timeout \in 0 .. RX_TIMEOUT
  /\ reader \in [cmd : Asked \cup {<<>>}, stry : 0 .. READ_TRY]
  /\ sent \in Seq(Frames) /\ Len(sent) <= MaxBurst
  /\ lost \in BOOLEAN /\ disturbed \in BOOLEAN

\* However the bytes are cut into chunks on the way, whatever start bytes
\* there are in the data and whoever reads, a line that lost nothing since it
\* was idle hands over the frames that were sent, in that order, none twice
\* and none made up; so a line that was disturbed is in step again with the
\* first frame after it was idle.
FramesInOrder == ~lost => IsPrefix(got, sent)

\* A line that was not disturbed is idle again only when every frame was
\* handed over: no burst of at most RX_TIMEOUT frames is cut short by the
\* timeout.  An empty frame at the end is not cut out (zb_uart.c:228).
AllHandled ==
  Idle /\ ~disturbed /\ (sent # <<>> => Last(sent).DATA # <<>>) => got = sent

\* What is left of a disturbed frame does not stay in front of the next ones:
\* the buffers become empty again.
LineSettles == []<>Idle

\* zb_uart_read, which blocks the thread of everything else, comes back.
ReadReturns == (reader # NoReader) ~> (reader = NoReader)
============================================================================
