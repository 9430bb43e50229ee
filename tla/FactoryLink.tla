---------------------------- MODULE FactoryLink ----------------------------
(***************************************************************************)
(* The link to the test fixture of the factory                             *)
(* (hal_driver/hal_factory.c, app/factory_settings.c): factory_thread      *)
(* takes bytes from the driver of UART 0 and puts them behind those in     *)
(* uart_rx, hal_factory_poll runs every 20 ms on the thread of the Pluto   *)
(* operating layer and takes one frame off the front.  Both change         *)
(* uart_rx.cnt and uart_rx.timeout; the critical section around it is      *)
(* commented out (hal_factory.c:151, :189), so every access to the two is  *)
(* a step of its own here and loads and stores of cnt are apart.           *)
(*                                                                         *)
(* A frame is its first cell (SOF, LEN, CMD0, CMD1), its data cells and    *)
(* the cell of the XOR sum, so MinPackage is 2.  No cell but a first one   *)
(* is a start byte, and cells that are not those of a frame have a wrong   *)
(* sum.                                                                    *)
(***************************************************************************)
EXTENDS Integers, Sequences

CONSTANTS
  Frames,    \* what the fixture sends, in this order: a sequence of records
             \* [cmd0, cmd1, len, sof1]; sof1: start byte 0xFF, no sum
  Size,      \* UART_BUFFER_SIZE and HAL_UART_RX_BUFFER_SIZE
  Wrap,      \* 2^16, the range of uart_rx.cnt
  Chunk,     \* bytes one uart_read_bytes returns at most
  Timeout,   \* polls without bytes before the buffer is dropped
  Window,    \* frames and bytes of noise before the line and the buffer have
             \* been empty again, when the fixture waits
  Raced,     \* bound: frames it sends when it does not wait
  Strays     \* bytes of noise on the line

ASSUME SizeAssumption ==
  /\ Size \in Nat \ {0} /\ Wrap \in Nat /\ Wrap > 2 * Size
  /\ Chunk \in 1 .. Wrap - 1 /\ Timeout \in 1 .. Wrap - 1
  /\ Window \in Nat /\ Raced \in Nat /\ Strays \in Nat
ASSUME FramesAssumption ==
  \A f \in DOMAIN Frames : Frames[f].len \in Nat /\ Frames[f].len >= 2

VARIABLES
  overlap,   \* polls run beside factory_thread, and the fixture does not wait;
             \* FALSE: neither.  Chosen once
  line,      \* cells in the driver of the UART
  next,      \* the frame the fixture sends next
  burst,     \* frames and noise since the line and the buffer were empty
  strays,    \* bytes of noise so far
  data,      \* uart_rx.data
  cnt,       \* uart_rx.cnt
  timeout,   \* uart_rx.timeout
  tpc,       \* where factory_thread is
  chunk,     \* its buf
  treg,      \* the count it has loaded
  ppc,       \* where hal_factory_poll is
  cut,       \* headID or slen: what it takes off the front
  turn,      \* itry
  preg,      \* the count or the timeout it has loaded
  pkg,       \* the frame in FactoryBuffer, 0: none
  ran,       \* history: the commands command_receive_cb carried out
  overrun,   \* history: the thread has emptied a full buffer (line 78)
  wild       \* history: something was written behind uart_rx.data

fixture == <<next, burst, strays, overlap>>
thread == <<tpc, chunk, treg>>
poll == <<ppc, cut, turn, preg, pkg>>
flVars == <<line, fixture, data, cnt, timeout, thread, poll, ran, overrun, wild>>

MinPackage == 2
Index == 0 .. Size - 1
Noise == <<0, 0>>                 \* a byte that belongs to no frame
CellsOf(f) == [i \in 1 .. Frames[f].len |-> <<f, i>>]
Cell == {Noise} \cup UNION {{<<f, i>> : i \in 1 .. Frames[f].len} : f \in DOMAIN Frames}

\* Addition and subtraction of a uint16.
Plus16(a, b) == IF a + b < Wrap THEN a + b ELSE a + b - Wrap
Minus16(a, b) == IF b <= a THEN a - b ELSE a + Wrap - b

\* What is read at index i; behind the array there is something else.
At(i) == IF i \in Index THEN data[i] ELSE Noise

FlInit ==
  /\ overlap \in BOOLEAN
  /\ line = <<>> /\ next = 1 /\ burst = 0 /\ strays = 0
  /\ data = [i \in Index |-> Noise] /\ cnt = 0 /\ timeout = 0
  /\ tpc = "read" /\ chunk = <<>> /\ treg = 0
  /\ ppc = "rest" /\ cut = 0 /\ turn = 0 /\ preg = 0 /\ pkg = 0
  /\ ran = <<>> /\ overrun = FALSE /\ wild = FALSE

---------------------------------------------------------------------------
\* The fixture.

Empty == line = <<>> /\ cnt = 0 /\ tpc = "read"

\* A fixture that waits sends no more than Window before all is empty again.
Within ==
  /\ Empty \/ overlap \/ burst < Window
  /\ burst' = IF Empty \/ overlap THEN 1 ELSE burst + 1

SendFrame ==
  /\ next \in DOMAIN Frames /\ (overlap => next <= Raced)
  /\ Within
  /\ line' = line \o CellsOf(next)
  /\ next' = next + 1
  /\ UNCHANGED <<overlap, strays, data, cnt, timeout, thread, poll, ran, overrun, wild>>

Stray ==
  /\ strays < Strays
  /\ Within
  /\ line' = Append(line, Noise)
  /\ strays' = strays + 1
  /\ UNCHANGED <<overlap, next, data, cnt, timeout, thread, poll, ran, overrun, wild>>

---------------------------------------------------------------------------
\* factory_thread.

\* uart_read_bytes returns what there is, a chunk at most.
ThreadReads ==
  /\ tpc = "read" /\ line # <<>>
  /\ overlap \/ ppc = "rest"
  /\ \E n \in 1 .. Chunk :
       /\ n <= Len(line)
       /\ chunk' = SubSeq(line, 1, n)
       /\ line' = SubSeq(line, n + 1, Len(line))
  /\ tpc' = "test"
  /\ UNCHANGED <<fixture, data, cnt, timeout, treg, poll, ran, overrun, wild>>

\* if((uart_rx.cnt+slen)<UART_BUFFER_SIZE)
ThreadTests ==
  /\ tpc = "test"
  /\ tpc' = IF cnt + Len(chunk) < Size THEN "copy" ELSE "reset"
  /\ UNCHANGED <<line, fixture, data, cnt, timeout, chunk, treg, poll, ran, overrun, wild>>

\* osMemcpy(&uart_rx.data[uart_rx.cnt],buf,slen)
ThreadCopies ==
  /\ tpc = "copy"
  /\ data' = [i \in Index |-> IF i >= cnt /\ i < cnt + Len(chunk)
                              THEN chunk[i - cnt + 1] ELSE data[i]]
  /\ wild' = (wild \/ cnt + Len(chunk) > Size)
  /\ tpc' = "load"
  /\ UNCHANGED <<line, fixture, cnt, timeout, chunk, treg, poll, ran, overrun>>

\* uart_rx.cnt += slen, in two steps ...
ThreadLoads ==
  /\ tpc = "load"
  /\ treg' = cnt /\ tpc' = "store"
  /\ UNCHANGED <<line, fixture, data, cnt, timeout, chunk, poll, ran, overrun, wild>>

\* Mutant: the count moves on by the size of buf.
StoreMore ==
  /\ tpc = "store"
  /\ cnt' = Plus16(treg, Chunk) /\ tpc' = "arm"
  /\ treg' = 0 /\ chunk' = <<>>
  /\ UNCHANGED <<line, fixture, data, timeout, poll, ran, overrun, wild>>

ThreadStores ==
  /\ tpc = "store"
  /\ cnt' = Plus16(treg, Len(chunk)) /\ tpc' = "arm"
  /\ treg' = 0 /\ chunk' = <<>>
  /\ UNCHANGED <<line, fixture, data, timeout, poll, ran, overrun, wild>>

\* Mutant: the timeout is set to one poll less.
ArmLess ==
  /\ tpc = "arm"
  /\ timeout' = Timeout - 1 /\ tpc' = "read"
  /\ UNCHANGED <<line, fixture, data, cnt, chunk, treg, poll, ran, overrun, wild>>

\* ... uart_rx.timeout = 3
ThreadArms ==
  /\ tpc = "arm"
  /\ timeout' = Timeout /\ tpc' = "read"
  /\ UNCHANGED <<line, fixture, data, cnt, chunk, treg, poll, ran, overrun, wild>>

\* else uart_rx.cnt = 0: the chunk and all in the buffer are lost.
ThreadResets ==
  /\ tpc = "reset"
  /\ cnt' = 0 /\ tpc' = "read" /\ overrun' = TRUE
  /\ chunk' = <<>>
  /\ UNCHANGED <<line, fixture, data, timeout, treg, poll, ran, wild>>

Thread ==
  \/ ThreadReads \/ ThreadTests \/ ThreadCopies \/ ThreadLoads
  \/ ThreadStores \/ ThreadArms \/ ThreadResets

---------------------------------------------------------------------------
\* hal_factory_poll and read_package.

\* if(uart_rx.timeout) uart_rx.timeout--, in two steps ...
PollStarts ==
  /\ ppc = "rest"
  /\ overlap \/ tpc = "read"
  /\ preg' = timeout
  /\ ppc' = IF timeout # 0 THEN "tick" ELSE "expired"
  /\ UNCHANGED <<line, fixture, data, cnt, timeout, thread, cut, turn, pkg, ran, overrun, wild>>

PollTicks ==
  /\ ppc = "tick"
  /\ timeout' = preg - 1 /\ ppc' = "look" /\ preg' = 0
  /\ UNCHANGED <<line, fixture, data, cnt, thread, cut, turn, pkg, ran, overrun, wild>>

\* Mutant: the buffer is kept when its time is over.
NeverExpires ==
  /\ ppc = "expired"
  /\ ppc' = "look"
  /\ UNCHANGED <<line, fixture, data, cnt, timeout, thread, cut, turn, preg, pkg, ran, overrun, wild>>

\* ... else if(uart_rx.cnt) ...
PollExpires ==
  /\ ppc = "expired"
  /\ ppc' = IF cnt # 0 THEN "drop" ELSE "look"
  /\ UNCHANGED <<line, fixture, data, cnt, timeout, thread, cut, turn, preg, pkg, ran, overrun, wild>>

\* ... uart_rx.cnt = 0
PollDrops ==
  /\ ppc = "drop"
  /\ cnt' = 0 /\ ppc' = "look"
  /\ UNCHANGED <<line, fixture, data, timeout, thread, cut, turn, preg, pkg, ran, overrun, wild>>

PollLooks ==
  /\ ppc = "look"
  /\ IF cnt > 0 THEN ppc' = "find" /\ turn' = 3
     ELSE ppc' = "rest" /\ turn' = 0
  /\ UNCHANGED <<line, fixture, data, cnt, timeout, thread, cut, preg, pkg, ran, overrun, wild>>

\* The indices find_head(uart_rx.data, uart_rx.cnt, 0) may return: that of the
\* first start byte, and when the count reaches behind the array any start
\* byte found there.
Heads ==
  LET inside == {i \in Index : i < cnt /\ data[i][2] = 1}
  IN  IF inside # {} THEN {i \in inside : \A j \in inside : i <= j}
      ELSE Size .. cnt - 1

PollFinds ==
  /\ ppc = "find"
  /\ \/ /\ turn # 0
        /\ \E h \in Heads :
             /\ cut' = h /\ ppc' = IF h = 0 THEN "check" ELSE "cutload"
             /\ turn' = IF h = 0 THEN 0 ELSE turn - 1
     \/ /\ turn = 0 \/ Heads = {} \/ cnt > Size
        /\ ppc' = "rest" /\ cut' = 0 /\ turn' = 0
  /\ UNCHANGED <<line, fixture, data, cnt, timeout, thread, preg, pkg, ran, overrun, wild>>

\* uart_rx.cnt -= headID and uart_rx.cnt -= slen, in two steps
PollLoads(from, to) ==
  /\ ppc = from
  /\ preg' = cnt /\ ppc' = to
  /\ UNCHANGED <<line, fixture, data, cnt, timeout, thread, cut, turn, pkg, ran, overrun, wild>>

PollStores(from, to) ==
  /\ ppc = from
  /\ cnt' = Minus16(preg, cut) /\ ppc' = to
  /\ preg' = 0
  /\ UNCHANGED <<line, fixture, data, timeout, thread, cut, turn, pkg, ran, overrun, wild>>

\* Mutant: what is left stays where it is.
ShiftsNothing(from, to) ==
  /\ ppc = from
  /\ ppc' = to
  /\ UNCHANGED <<line, fixture, data, cnt, timeout, thread, cut, turn, preg, pkg, ran, overrun, wild>>

\* osMemcpy(uart_rx.data,&uart_rx.data[cut],uart_rx.cnt)
PollShifts(from, to) ==
  /\ ppc = from
  /\ data' = [i \in Index |-> IF i < cnt THEN At(i + cut) ELSE data[i]]
  /\ wild' = (wild \/ cnt > Size)
  /\ ppc' = to
  /\ UNCHANGED <<line, fixture, cnt, timeout, thread, cut, turn, preg, pkg, ran, overrun>>

\* check_package: a frame with start byte 0xFF carries no sum to test.
Sound(f) == Frames[f].sof1 \/ \A i \in 1 .. Frames[f].len : At(i - 1) = <<f, i>>

PollChecks ==
  /\ ppc = "check"
  /\ LET f == data[0][1] IN
     IF /\ cnt >= MinPackage /\ data[0][2] = 1
        /\ Frames[f].len <= cnt /\ Sound(f)
     THEN pkg' = f /\ cut' = Frames[f].len /\ ppc' = "takeload"
     ELSE pkg' = 0 /\ cut' = 0 /\ ppc' = "rest"
  /\ UNCHANGED <<line, fixture, data, cnt, timeout, thread, turn, preg, ran, overrun, wild>>

\* command_receive_cb: the two masks in front of the switch.
Passes(f) ==
  /\ (Frames[f].cmd0 \div 32) % 2 = 1      \* FA_RPC_CMD_SREQ = 0x20
  /\ Frames[f].cmd0 % 2 = 1                \* FA_RPC_SYS_SYS = 1

\* The command is carried out; FA_SYS_RESET restarts the chip.
PollRuns ==
  /\ ppc = "run"
  /\ ran' = IF Passes(pkg) THEN Append(ran, pkg) ELSE ran
  /\ pkg' = 0 /\ ppc' = "rest" /\ cut' = 0
  /\ IF Passes(pkg) /\ Frames[pkg].cmd1 = "reset"
     THEN /\ line' = <<>> /\ cnt' = 0 /\ timeout' = 0
          /\ data' = [i \in Index |-> Noise]
          /\ tpc' = "read" /\ chunk' = <<>> /\ treg' = 0
     ELSE UNCHANGED <<line, data, cnt, timeout, thread>>
  /\ UNCHANGED <<fixture, turn, preg, overrun, wild>>

Poll ==
  \/ PollStarts \/ PollTicks \/ PollExpires \/ PollDrops \/ PollLooks \/ PollFinds
  \/ PollLoads("cutload", "cutstore") \/ PollStores("cutstore", "shift")
  \/ PollShifts("shift", "find")
  \/ PollChecks
  \/ PollLoads("takeload", "takestore") \/ PollStores("takestore", "move")
  \/ PollShifts("move", "run")
  \/ PollRuns

\* Once something is overwritten behind the array nothing more is said.
FlNext == ~wild /\ (SendFrame \/ Stray \/ Thread \/ Poll)

FlSpec == FlInit /\ [][FlNext]_flVars

\* The thread is scheduled (the two threads share two cores), and the reload
\* timer starts a poll again and again.
FlFairSpec == FlSpec /\ WF_flVars(~wild /\ Thread) /\ WF_flVars(~wild /\ Poll)

---------------------------------------------------------------------------

ThreadAt == {"read", "test", "copy", "load", "store", "arm", "reset"}
PollAt == {"rest", "tick", "expired", "drop", "look", "find", "cutload", "cutstore",
           "shift", "check", "takeload", "takestore", "move", "run"}

FlTypeOK ==
  /\ overlap \in BOOLEAN
  /\ line \in Seq(Cell) /\ next \in Nat /\ burst \in Nat /\ strays \in 0 .. Strays
  /\ data \in [Index -> Cell] /\ cnt \in 0 .. Wrap - 1 /\ timeout \in 0 .. Timeout
  /\ tpc \in ThreadAt /\ chunk \in Seq(Cell) /\ Len(chunk) <= Chunk
  /\ treg \in 0 .. Wrap - 1
  /\ ppc \in PollAt /\ cut \in 0 .. Wrap - 1 /\ turn \in 0 .. 3
  /\ preg \in 0 .. Wrap - 1 /\ pkg \in {0} \cup DOMAIN Frames
  /\ ran \in Seq(DOMAIN Frames) /\ overrun \in BOOLEAN /\ wild \in BOOLEAN

\* Nothing is written behind uart_rx.data and uart_rx.cnt does not wrap, however
\* the steps of factory_thread and hal_factory_poll fall (hal_factory.c:72,
\* :170, :183), as long as the buffer has not run full: only the reset at
\* line 78 can take the count away from under a poll that subtracts from it.
WritesInside == ~overrun => ~wild /\ cnt < Size

\* What the two threads hold in their registers between a load and a store of
\* uart_rx.cnt, which is why WritesInside survives the races.
RegistersOK ==
  ~overrun =>
    /\ ~wild /\ cnt < Size
    /\ tpc \in {"copy", "load"} => cnt + Len(chunk) < Size
    /\ tpc = "store" => cnt <= treg /\ treg + Len(chunk) < Size
    /\ ppc \in {"cutload", "takeload"} => cut <= cnt
    /\ ppc \in {"cutstore", "takestore"} => cut <= preg /\ preg <= cnt

\* Frame f lies in the buffer from its first cell to its last.
Whole(f) ==
  \E o \in Index : \A i \in 1 .. Frames[f].len :
    o + i - 1 < cnt /\ At(o + i - 1) = <<f, i>>

\* The inductive invariant.
FlInv ==
  /\ FlTypeOK /\ RegistersOK
  /\ ppc = "tick" => preg \in 1 .. Timeout
  /\ ppc \in {"takeload", "takestore", "move", "run"} => pkg \in DOMAIN Frames

\* With no more than Window frames at a time and polls that do not cut into
\* factory_thread, no frame that is there in full is thrown away, neither by
\* the timeout of three polls, each of which takes one frame
\* (hal_factory.c:152-159), nor because the buffer is full (:78).
DropsNoFrame ==
  [][ \/ ppc = "drop" /\ ppc' # "drop"
      \/ tpc = "reset" /\ tpc' # "reset"
      => overlap \/ \A f \in DOMAIN Frames : ~Whole(f) ]_flVars

\* Where polls do not cut into factory_thread, the commands are carried out in
\* the order the fixture sent them and none of them twice, though chunks end
\* anywhere and bytes are dropped.  Of runs with overlap it says nothing: an
\* old count brings consumed bytes back there.
RanInOrder == ~overlap => \A i, j \in DOMAIN ran : i < j => ran[i] < ran[j]

\* A fixture that has fallen silent finds an empty buffer in the end, whatever
\* the races left in uart_rx.cnt: no byte stays in front of a later frame.
BufferEmpties == [](cnt # 0 => <>(cnt = 0 \/ wild))
============================================================================
