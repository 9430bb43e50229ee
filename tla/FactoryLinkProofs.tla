------------------------- MODULE FactoryLinkProofs -------------------------
(***************************************************************************)
(* Proofs about the link to the factory fixture (FactoryLink): whatever    *)
(* the order of the accesses to uart_rx.cnt on the two threads, nothing is *)
(* written behind uart_rx.data as long as the buffer has not run full; and *)
(* when the two threads take turns, the commands are carried out in the    *)
(* order they were sent, whatever is dropped, and no frame that is there   *)
(* in full is dropped if the fixture waits in time.                        *)
(***************************************************************************)
EXTENDS FactoryLink, SequenceTheorems, WellFoundedInduction, TLAPS

\* What is read from the array, or behind it, is a cell.
LEMMA CellAt == ASSUME data \in [Index -> Cell], NEW i PROVE At(i) \in Cell
BY DEF At, Cell

\* The cells of a frame are cells.
LEMMA CellsOfType ==
  ASSUME NEW f \in DOMAIN Frames PROVE CellsOf(f) \in Seq(Cell)
<1>1. Frames[f].len \in Nat
  BY FramesAssumption
<1>2. \A i \in 1 .. Frames[f].len : <<f, i>> \in Cell
  BY DEF Cell
<1> QED BY <1>1, <1>2 DEF CellsOf

\* The sum of two uint16 values is one.
LEMMA Plus16Type ==
  ASSUME NEW a \in 0 .. Wrap - 1, NEW b \in 0 .. Wrap - 1
  PROVE  Plus16(a, b) \in 0 .. Wrap - 1
BY SizeAssumption DEF Plus16

\* So is their difference.
LEMMA Minus16Type ==
  ASSUME NEW a \in 0 .. Wrap - 1, NEW b \in 0 .. Wrap - 1
  PROVE  Minus16(a, b) \in 0 .. Wrap - 1
BY SizeAssumption DEF Minus16

\* The inductive invariant holds in the initial state.
LEMMA FlInitInv == FlInit => FlInv
<1> SUFFICES ASSUME FlInit PROVE FlInv
  OBVIOUS
<1>1. Noise \in Cell
  BY DEF Cell
<1>2. line \in Seq(Cell) /\ chunk \in Seq(Cell) /\ ran \in Seq(DOMAIN Frames)
  BY DEF FlInit
<1>3. Len(chunk) <= Chunk
  BY SizeAssumption DEF FlInit
<1>4. FlTypeOK
  <2>1. /\ data \in [Index -> Cell] /\ overrun \in BOOLEAN /\ wild \in BOOLEAN
        /\ overlap \in BOOLEAN
    BY <1>1 DEF FlInit
  <2>2. /\ next \in Nat /\ burst \in Nat /\ strays \in 0 .. Strays
        /\ cnt \in 0 .. Wrap - 1 /\ timeout \in 0 .. Timeout /\ treg \in 0 .. Wrap - 1
        /\ cut \in 0 .. Wrap - 1 /\ preg \in 0 .. Wrap - 1 /\ turn \in 0 .. 3
    BY SizeAssumption DEF FlInit
  <2>3. tpc \in ThreadAt /\ ppc \in PollAt /\ pkg = 0
    BY DEF FlInit, ThreadAt, PollAt
  <2> QED BY <1>2, <1>3, <2>1, <2>2, <2>3 DEF FlTypeOK
<1>5. RegistersOK
  <2>1. ~wild /\ cnt < Size
    BY SizeAssumption DEF FlInit
  <2>2. tpc = "read" /\ ppc = "rest"
    BY DEF FlInit
  <2> QED BY <2>1, <2>2 DEF RegistersOK
<1> QED BY <1>4, <1>5 DEF FlInit, FlInv

\* The fixture puts cells on the line and leaves the buffer alone.
LEMMA FixtureStep == FlInv /\ (SendFrame \/ Stray) => FlInv'
<1> USE DEF FlInv, FlTypeOK, RegistersOK, fixture, thread, poll
<1>1. ASSUME FlInv, SendFrame PROVE FlInv'
  <2>1. CellsOf(next) \in Seq(Cell)
    BY <1>1, CellsOfType DEF SendFrame
  <2>2. line' \in Seq(Cell) /\ next' \in Nat /\ burst' \in Nat
    BY <1>1, <2>1 DEF SendFrame, Within
  <2> QED BY <1>1, <2>2 DEF SendFrame
<1>2. ASSUME FlInv, Stray PROVE FlInv'
  <2>1. Noise \in Cell
    BY DEF Cell
  <2>2. line' \in Seq(Cell) /\ strays' \in 0 .. Strays /\ burst' \in Nat
    BY <1>2, <2>1, SizeAssumption DEF Stray, Within
  <2> QED BY <1>2, <2>2 DEF Stray
<1> QED BY <1>1, <1>2

\* Every step of factory_thread keeps the invariant.
LEMMA ThreadStep == FlInv /\ Thread => FlInv'
<1> USE SizeAssumption DEF FlInv, FlTypeOK, RegistersOK, fixture, poll, ThreadAt
<1>1. ASSUME FlInv, ThreadReads PROVE FlInv'
  <2>1. PICK n \in 1 .. Chunk : /\ n <= Len(line)
                               /\ chunk' = SubSeq(line, 1, n)
                               /\ line' = SubSeq(line, n + 1, Len(line))
    BY <1>1 DEF ThreadReads
  <2>2. chunk' \in Seq(Cell) /\ Len(chunk') = n
    BY <1>1, <2>1
  <2>3. line' \in Seq(Cell)
    BY <1>1, <2>1
  <2> QED BY <1>1, <2>2, <2>3 DEF ThreadReads
<1>2. ASSUME FlInv, ThreadTests PROVE FlInv'
  BY <1>2 DEF ThreadTests
<1>3. ASSUME FlInv, ThreadCopies PROVE FlInv'
  <2>1. data' \in [Index -> Cell]
    <3>1. \A i \in Index : i >= cnt /\ i < cnt + Len(chunk) => chunk[i - cnt + 1] \in Cell
      BY <1>3 DEF Index
    <3> QED BY <1>3, <3>1 DEF ThreadCopies
  <2>2. ~overrun => wild' = FALSE
    BY <1>3 DEF ThreadCopies
  <2>3. wild' \in BOOLEAN
    BY <1>3 DEF ThreadCopies
  <2> QED BY <1>3, <2>1, <2>2, <2>3 DEF ThreadCopies
<1>4. ASSUME FlInv, ThreadLoads PROVE FlInv'
  BY <1>4 DEF ThreadLoads
<1>5. ASSUME FlInv, ThreadStores PROVE FlInv'
  <2>1. cnt' \in 0 .. Wrap - 1
    <3>1. Len(chunk) \in 0 .. Wrap - 1 /\ treg \in 0 .. Wrap - 1
      BY <1>5
    <3>2. cnt' = Plus16(treg, Len(chunk))
      BY <1>5 DEF ThreadStores
    <3> HIDE DEF FlInv, FlTypeOK, RegistersOK
    <3> QED BY <3>1, <3>2, Plus16Type
  <2>2. ~overrun => cnt' = treg + Len(chunk)
    BY <1>5 DEF ThreadStores, Plus16
  <2>3. chunk' \in Seq(Cell) /\ Len(chunk') = 0
    BY <1>5 DEF ThreadStores
  <2> QED BY <1>5, <2>1, <2>2, <2>3 DEF ThreadStores
<1>6. ASSUME FlInv, ThreadArms PROVE FlInv'
  BY <1>6 DEF ThreadArms
<1>7. ASSUME FlInv, ThreadResets PROVE FlInv'
  <2>1. chunk' \in Seq(Cell) /\ Len(chunk') = 0
    BY <1>7 DEF ThreadResets
  <2>2. cnt' \in 0 .. Wrap - 1
    <3>1. cnt' = 0
      BY <1>7 DEF ThreadResets
    <3>2. Wrap - 1 >= 0 /\ Wrap \in Nat
      OBVIOUS
    <3> HIDE DEF FlInv, FlTypeOK, RegistersOK
    <3> QED BY <3>1, <3>2
  <2>8. overrun'
    BY <1>7 DEF ThreadResets
  <2>3. Len(chunk') <= Chunk
    BY <2>1
  <2>4. RegistersOK'
    BY <2>8
  <2>5. overrun' \in BOOLEAN /\ tpc' \in ThreadAt
    BY <1>7 DEF ThreadResets
  <2>6. UNCHANGED <<line, fixture, data, timeout, treg, poll, ran, wild>>
    BY <1>7 DEF ThreadResets
  <2>7. FlTypeOK'
    BY <1>7, <2>1, <2>2, <2>3, <2>5, <2>6
  <2> HIDE DEF FlTypeOK, RegistersOK
  <2> QED BY <1>7, <2>4, <2>6, <2>7
<1> QED BY <1>1, <1>2, <1>3, <1>4, <1>5, <1>6, <1>7 DEF Thread

\* find_head returns an index below the count.
LEMMA HeadsBelow == ASSUME FlTypeOK, NEW h \in Heads PROVE h \in Nat /\ h < cnt
BY SizeAssumption DEF FlTypeOK, Heads, Index

\* uart_rx.cnt -= cut, in two steps.
LEMMA PollSubtracts ==
  ASSUME FlInv, NEW from, NEW to,
         \/ from = "cutload" /\ to = "cutstore" /\ PollLoads(from, to)
         \/ from = "takeload" /\ to = "takestore" /\ PollLoads(from, to)
         \/ from = "cutstore" /\ to = "shift" /\ PollStores(from, to)
         \/ from = "takestore" /\ to = "move" /\ PollStores(from, to)
  PROVE  FlInv'
<1> USE SizeAssumption DEF FlInv, FlTypeOK, RegistersOK, fixture, thread, PollAt
<1>1. ASSUME PollLoads(from, to), to \in {"cutstore", "takestore"}, from \in {"cutload", "takeload"}
      PROVE  FlInv'
  BY <1>1 DEF PollLoads
<1>2. ASSUME PollStores(from, to), to \in {"shift", "move"}, from \in {"cutstore", "takestore"}
      PROVE  FlInv'
  <2>1. cnt' \in 0 .. Wrap - 1
    BY <1>2, Minus16Type DEF PollStores
  <2>2. ~overrun => cnt' = preg - cut
    BY <1>2 DEF PollStores, Minus16
  <2> QED BY SMTT(30), <1>2, <2>1, <2>2 DEF PollStores
<1> QED BY <1>1, <1>2

\* What is left moves to the front of the array.
LEMMA PollMoves ==
  ASSUME FlInv, NEW from, NEW to,
         \/ from = "shift" /\ to = "find" /\ PollShifts(from, to)
         \/ from = "move" /\ to = "run" /\ PollShifts(from, to)
  PROVE  FlInv'
<1> USE SizeAssumption DEF FlInv, FlTypeOK, RegistersOK, fixture, thread, PollAt
<1>1. data' \in [Index -> Cell]
  BY CellAt DEF PollShifts
<1>2. ~overrun => wild' = FALSE
  BY DEF PollShifts
<1>3. wild' \in BOOLEAN
  BY DEF PollShifts
<1>4. UNCHANGED <<line, fixture, cnt, timeout, thread, cut, turn, preg, pkg, ran, overrun>>
  BY DEF PollShifts
<1>5. ppc = from /\ ppc' = to
  BY DEF PollShifts
<1>6. FlTypeOK'
  BY <1>1, <1>3, <1>4, <1>5
<1>7. RegistersOK'
  BY <1>2, <1>4, <1>5
<1>8. ppc' = "run" => pkg' \in DOMAIN Frames
  BY <1>4, <1>5
<1> QED BY <1>5, <1>6, <1>7, <1>8

\* Every step of hal_factory_poll keeps the invariant.
LEMMA PollStep == FlInv /\ Poll => FlInv'
<1> USE SizeAssumption DEF FlInv, FlTypeOK, RegistersOK, fixture, thread, PollAt
<1>1. ASSUME FlInv, PollStarts PROVE FlInv'
  BY <1>1 DEF PollStarts
<1>2. ASSUME FlInv, PollTicks PROVE FlInv'
  BY <1>2 DEF PollTicks
<1>3. ASSUME FlInv, PollExpires PROVE FlInv'
  BY <1>3 DEF PollExpires
<1>4. ASSUME FlInv, PollDrops PROVE FlInv'
  BY <1>4 DEF PollDrops
<1>5. ASSUME FlInv, PollLooks PROVE FlInv'
  BY <1>5 DEF PollLooks
<1>6. ASSUME FlInv, PollFinds PROVE FlInv'
  <2>1. CASE turn # 0 /\ \E h \in Heads :
              /\ cut' = h /\ ppc' = IF h = 0 THEN "check" ELSE "cutload"
              /\ turn' = IF h = 0 THEN 0 ELSE turn - 1
    <3>1. PICK h \in Heads : /\ cut' = h /\ ppc' = IF h = 0 THEN "check" ELSE "cutload"
                             /\ turn' = IF h = 0 THEN 0 ELSE turn - 1
      BY <2>1
    <3>2. h \in Nat /\ h < cnt
      BY <1>6, HeadsBelow
    <3>3. cut' \in 0 .. Wrap - 1 /\ turn' \in 0 .. 3
      BY <1>6, <2>1, <3>1, <3>2
    <3> QED BY <1>6, <3>1, <3>2, <3>3 DEF PollFinds
  <2>2. CASE ppc' = "rest" /\ cut' = 0 /\ turn' = 0
    BY <1>6, <2>2 DEF PollFinds
  <2> QED BY <1>6, <2>1, <2>2 DEF PollFinds
<1>7. ASSUME FlInv, PollChecks PROVE FlInv'
  <2> DEFINE f == data[0][1]
  <2>1. CASE /\ cnt >= MinPackage /\ data[0][2] = 1
             /\ Frames[f].len <= cnt /\ Sound(f)
    <3>1. data[0] \in Cell
      BY <1>7 DEF Index
    <3>2. f \in DOMAIN Frames
      BY <2>1, <3>1 DEF Cell, Noise
    <3>3. Frames[f].len \in Nat
      BY <3>2, FramesAssumption
    <3>4. pkg' = f /\ cut' = Frames[f].len /\ ppc' = "takeload"
      BY <1>7, <2>1 DEF PollChecks
    <3>5. cut' \in 0 .. Wrap - 1
      BY SMTT(30), <1>7, <2>1, <3>3, <3>4
    <3> HIDE DEF f
    <3> QED BY <1>7, <2>1, <3>2, <3>4, <3>5 DEF PollChecks
  <2>2. CASE ~(/\ cnt >= MinPackage /\ data[0][2] = 1
               /\ Frames[f].len <= cnt /\ Sound(f))
    <3>1. pkg' = 0 /\ cut' = 0 /\ ppc' = "rest"
      BY <1>7, <2>2 DEF PollChecks
    <3> HIDE DEF f
    <3> QED BY <1>7, <3>1 DEF PollChecks
  <2> QED BY <2>1, <2>2
<1>8. ASSUME FlInv, PollRuns PROVE FlInv'
  <2>1. CASE Passes(pkg) /\ Frames[pkg].cmd1 = "reset"
    <3>1. chunk' \in Seq(Cell) /\ Len(chunk') = 0 /\ line' \in Seq(Cell)
      BY <1>8, <2>1 DEF PollRuns
    <3>2. data' \in [Index -> Cell]
      BY <1>8, <2>1 DEF PollRuns, Cell
    <3>3. ran' \in Seq(DOMAIN Frames)
      <4>1. ran' = Append(ran, pkg)
        BY <1>8, <2>1 DEF PollRuns
      <4>2. pkg \in DOMAIN Frames /\ ran \in Seq(DOMAIN Frames)
        BY <1>8 DEF PollRuns
      <4> QED BY <4>1, <4>2
    <3>4. cnt' = 0 /\ timeout' = 0 /\ tpc' = "read" /\ treg' = 0
      BY <1>8, <2>1 DEF PollRuns
    <3>5. pkg' = 0 /\ ppc' = "rest" /\ cut' = 0
      BY <1>8 DEF PollRuns
    <3>6. UNCHANGED <<fixture, turn, preg, overrun, wild>>
      BY <1>8 DEF PollRuns
    <3>7. FlTypeOK'
      BY <1>8, <3>1, <3>2, <3>3, <3>4, <3>5, <3>6 DEF ThreadAt
    <3>8. RegistersOK'
      BY <1>8, <3>1, <3>4, <3>5, <3>6
    <3> HIDE DEF FlTypeOK, RegistersOK
    <3> QED BY <3>5, <3>7, <3>8
  <2>2. CASE ~(Passes(pkg) /\ Frames[pkg].cmd1 = "reset")
    <3>1. ran' \in Seq(DOMAIN Frames)
      <4>1. ran' = Append(ran, pkg) \/ ran' = ran
        BY <1>8 DEF PollRuns
      <4>2. pkg \in DOMAIN Frames /\ ran \in Seq(DOMAIN Frames)
        BY <1>8 DEF PollRuns
      <4> QED BY <4>1, <4>2
    <3>2. UNCHANGED <<line, data, cnt, timeout, thread, fixture, turn, preg, overrun, wild>>
      BY <1>8, <2>2 DEF PollRuns
    <3>3. pkg' = 0 /\ ppc' = "rest" /\ cut' = 0
      BY <1>8 DEF PollRuns
    <3>4. FlTypeOK'
      BY <1>8, <3>1, <3>2, <3>3
    <3>5. RegistersOK'
      BY <1>8, <3>2, <3>3
    <3> HIDE DEF FlTypeOK, RegistersOK
    <3> QED BY <3>3, <3>4, <3>5
  <2> QED BY <2>1, <2>2
<1>9. ASSUME FlInv,
             \/ PollLoads("cutload", "cutstore") \/ PollStores("cutstore", "shift")
             \/ PollLoads("takeload", "takestore") \/ PollStores("takestore", "move")
      PROVE  FlInv'
  <2> HIDE DEF FlInv, FlTypeOK, RegistersOK
  <2> QED BY <1>9, PollSubtracts
<1>10. ASSUME FlInv, PollShifts("shift", "find") \/ PollShifts("move", "run")
       PROVE  FlInv'
  <2> HIDE DEF FlInv, FlTypeOK, RegistersOK
  <2> QED BY <1>10, PollMoves
<1> HIDE DEF FlInv, FlTypeOK, RegistersOK
<1> QED BY <1>1, <1>2, <1>3, <1>4, <1>5, <1>6, <1>7, <1>8, <1>9, <1>10 DEF Poll

\* The types and what the threads hold between a load and a store of the
\* count, for any buffer, any frames and any order of the steps.
THEOREM FlInvariant == FlSpec => []FlInv
<1>1. FlInv /\ UNCHANGED flVars => FlInv'
  BY DEF FlInv, FlTypeOK, RegistersOK, flVars, fixture, thread, poll
<1>2. FlInv /\ [FlNext]_flVars => FlInv'
  BY <1>1, FixtureStep, ThreadStep, PollStep DEF FlNext
<1> QED BY FlInitInv, <1>2, PTL DEF FlSpec

\* uart_rx has the types of its declaration.
THEOREM FlTypeCorrect == FlSpec => []FlTypeOK
<1>1. FlInv => FlTypeOK
  BY DEF FlInv
<1> QED BY <1>1, FlInvariant, PTL

\* What the registers of the two threads may hold.
THEOREM FlRegisters == FlSpec => []RegistersOK
<1>1. FlInv => RegistersOK
  BY DEF FlInv
<1> QED BY <1>1, FlInvariant, PTL

\* No order of the unprotected accesses writes outside the buffer before it
\* has run full.
THEOREM FlWritesInside == FlSpec => []WritesInside
<1>1. FlInv => WritesInside
  BY DEF FlInv, RegistersOK, WritesInside
<1> QED BY <1>1, FlInvariant, PTL

---------------------------------------------------------------------------
\* The order of the commands, when polls do not cut into factory_thread.

\* The first cells of frames in a sequence of cells: in the order of the
\* frames, of frames before n, of frames behind f.
Rising(s) ==
  \A i, j \in DOMAIN s : i < j /\ s[i][2] = 1 /\ s[j][2] = 1 => s[i][1] < s[j][1]
Numbered(s, n) == \A i \in DOMAIN s : s[i][2] = 1 => s[i][1] \in 1 .. n - 1
Behind(s, f) == \A i \in DOMAIN s : s[i][2] = 1 => f < s[i][1]

\* t is what is left of s when its first cells are gone.
Rest(t, s) ==
  \E k \in 0 .. Len(s) : /\ Len(t) = Len(s) - k
                         /\ \A i \in 1 .. Len(t) : t[i] = s[i + k]

\* What the fixture sent and nobody has taken or dropped yet: the cells of d
\* that count, those that factory_thread holds and those in the driver.
Cells(d, n, shift, held, rest) == [i \in 1 .. n |-> d[i - 1 + shift]] \o held \o rest

\* Where cell j of them comes from.
Place(d, n, shift, held, rest, j) ==
  IF j <= n THEN d[j - 1 + shift]
  ELSE IF j <= n + Len(held) THEN held[j - n] ELSE rest[j - n - Len(held)]

Laid(s, d, n, shift, held, rest) ==
  /\ s \in Seq(Cell) /\ Len(s) = n + Len(held) + Len(rest)
  /\ \A j \in 1 .. Len(s) : s[j] = Place(d, n, shift, held, rest, j)

Shifted == IF ppc \in {"shift", "move"} THEN cut ELSE 0
Pipe == Cells(data, cnt, Shifted, chunk, line)

\* The two threads take turns, so each finds the count it has loaded.
InTurn ==
  /\ tpc = "read" \/ ppc = "rest"
  /\ tpc \in {"read", "arm"} => chunk = <<>>
  /\ cnt < Size
  /\ tpc \in {"copy", "load", "store"} => cnt + Len(chunk) < Size
  /\ tpc = "store" => treg = cnt
  /\ tpc \in {"load", "store"} => \A k \in 1 .. Len(chunk) : data[cnt + k - 1] = chunk[k]
  /\ ppc \in {"cutload", "takeload"} => cut <= cnt
  /\ ppc \in {"cutstore", "takestore"} => preg = cnt /\ cut <= cnt
  /\ ppc \in {"shift", "move"} => cut + cnt < Size

\* The frames carried out, in order, and the frames on their way behind them.
FirstsInOrder == next \in Nat \ {0} /\ Rising(Pipe) /\ Numbered(Pipe, next)

RanBefore ==
  /\ \A n \in DOMAIN ran : ran[n] \in 1 .. next - 1 /\ Behind(Pipe, ran[n])
  /\ \A m, n \in DOMAIN ran : m < n => ran[m] < ran[n]

\* The frame in FactoryBuffer is the first of the buffer until it is cut off.
Taken ==
  /\ ppc \in {"takeload", "takestore"} =>
       cut \in 1 .. cnt /\ data[0][2] = 1 /\ data[0][1] = pkg
  /\ ppc \in {"move", "run"} =>
       /\ pkg \in 1 .. next - 1 /\ Behind(Pipe, pkg)
       /\ \A n \in DOMAIN ran : ran[n] < pkg

OrderInv == ~overlap => InTurn /\ FirstsInOrder /\ RanBefore /\ Taken

\* The types of what the cells on their way lie in.
LEMMA PipeTypes ==
  ASSUME FlInv
  PROVE  /\ cnt \in Nat /\ cut \in Nat /\ chunk \in Seq(Cell) /\ line \in Seq(Cell)
         /\ Len(chunk) \in Nat /\ Len(line) \in Nat /\ data \in [Index -> Cell]
<1>1. cnt \in 0 .. Wrap - 1 /\ cut \in 0 .. Wrap - 1 /\ Wrap \in Nat
  BY SizeAssumption DEF FlInv, FlTypeOK
<1>2. chunk \in Seq(Cell) /\ line \in Seq(Cell) /\ data \in [Index -> Cell]
  BY DEF FlInv, FlTypeOK
<1>3. Len(chunk) \in Nat /\ Len(line) \in Nat
  BY <1>2, LenProperties
<1>4. cnt \in Nat /\ cut \in Nat
  BY <1>1
<1> QED BY <1>2, <1>3, <1>4

\* Two sequences behind each other, index by index.
LEMMA JoinFacts ==
  ASSUME NEW S, NEW a \in Seq(S), NEW b \in Seq(S)
  PROVE  /\ a \o b \in Seq(S) /\ Len(a \o b) = Len(a) + Len(b)
         /\ \A i \in 1 .. Len(a) : (a \o b)[i] = a[i]
         /\ \A i \in 1 .. Len(b) : (a \o b)[Len(a) + i] = b[i]
<1>1. Len(a) \in Nat /\ Len(b) \in Nat
  BY LenProperties
<1>2. /\ a \o b \in Seq(S) /\ Len(a \o b) = Len(a) + Len(b)
      /\ \A i \in 1 .. Len(a) + Len(b) :
           (a \o b)[i] = IF i <= Len(a) THEN a[i] ELSE b[i - Len(a)]
  BY ConcatProperties
<1> QED BY <1>1, <1>2

\* ... and three.
LEMMA JoinThree ==
  ASSUME NEW S, NEW a \in Seq(S), NEW b \in Seq(S), NEW c \in Seq(S),
         NEW s, s = a \o b \o c
  PROVE  /\ s \in Seq(S) /\ Len(s) = Len(a) + Len(b) + Len(c)
         /\ \A i \in 1 .. Len(a) : s[i] = a[i]
         /\ \A i \in 1 .. Len(b) : s[Len(a) + i] = b[i]
         /\ \A i \in 1 .. Len(c) : s[Len(a) + Len(b) + i] = c[i]
<1>1. PICK ab \in Seq(S) : ab = a \o b
  BY JoinFacts
<1>2. /\ Len(ab) = Len(a) + Len(b)
      /\ \A i \in 1 .. Len(a) : ab[i] = a[i]
      /\ \A i \in 1 .. Len(b) : ab[Len(a) + i] = b[i]
  BY <1>1, JoinFacts
<1>3. s \in Seq(S) /\ s = ab \o c
  BY <1>1, JoinFacts
<1>4. /\ Len(s) = Len(ab) + Len(c)
      /\ \A i \in 1 .. Len(ab) : s[i] = ab[i]
      /\ \A i \in 1 .. Len(c) : s[Len(ab) + i] = c[i]
  BY <1>3, JoinFacts
<1>5. Len(a) \in Nat /\ Len(b) \in Nat /\ Len(c) \in Nat
  BY LenProperties
<1>6. \A i \in 1 .. Len(a) : i \in 1 .. Len(ab)
  BY <1>2, <1>5
<1>7. \A i \in 1 .. Len(b) : Len(a) + i \in 1 .. Len(ab)
  BY <1>2, <1>5
<1>8. \A i \in 1 .. Len(a) : s[i] = a[i]
  BY <1>2, <1>4, <1>6, Zenon
<1>9. \A i \in 1 .. Len(b) : s[Len(a) + i] = b[i]
  BY <1>2, <1>4, <1>7, Zenon
<1>10. \A i \in 1 .. Len(c) : s[Len(a) + Len(b) + i] = c[i]
  BY <1>2, <1>4, Zenon
<1>11. Len(s) = Len(a) + Len(b) + Len(c)
  BY <1>2, <1>4
<1> QED BY <1>3, <1>8, <1>9, <1>10, <1>11

\* A function on the first n numbers is a sequence.
LEMMA FunctionIsSequence ==
  ASSUME NEW S, NEW n \in Nat, NEW f \in [1 .. n -> S]
  PROVE  f \in Seq(S) /\ Len(f) = n
OBVIOUS

\* The cells on their way, one by one.
LEMMA CellsFacts ==
  ASSUME NEW d \in [Index -> Cell], NEW n \in Nat, NEW shift \in Nat, n + shift <= Size,
         NEW held \in Seq(Cell), NEW rest \in Seq(Cell)
  PROVE  Laid(Cells(d, n, shift, held, rest), d, n, shift, held, rest)
<1>1. \A i \in 1 .. n : i - 1 + shift \in Index
  BY SizeAssumption DEF Index
<1>2. [i \in 1 .. n |-> d[i - 1 + shift]] \in [1 .. n -> Cell]
  BY <1>1
<1>3. PICK b \in Seq(Cell) : b = [i \in 1 .. n |-> d[i - 1 + shift]] /\ Len(b) = n
  BY <1>2, FunctionIsSequence, Zenon
<1>4. \A i \in 1 .. n : b[i] = d[i - 1 + shift]
  BY <1>3
<1>5. Cells(d, n, shift, held, rest) = b \o held \o rest
  BY <1>3, Zenon DEF Cells
<1>6. PICK s : s = b \o held \o rest
  OBVIOUS
<1>7. /\ s \in Seq(Cell) /\ Len(s) = Len(b) + Len(held) + Len(rest)
      /\ \A i \in 1 .. Len(b) : s[i] = b[i]
      /\ \A i \in 1 .. Len(held) : s[Len(b) + i] = held[i]
      /\ \A i \in 1 .. Len(rest) : s[Len(b) + Len(held) + i] = rest[i]
  BY <1>6, JoinThree
<1>8. Len(held) \in Nat /\ Len(rest) \in Nat
  BY LenProperties
<1>9. ASSUME NEW j \in 1 .. Len(s) PROVE s[j] = Place(d, n, shift, held, rest, j)
  <2>1. CASE j <= n
    BY <1>3, <1>4, <1>7, <2>1 DEF Place
  <2>2. CASE j > n /\ j <= n + Len(held)
    <3>1. j - n \in 1 .. Len(held) /\ n + (j - n) = j
      BY <1>8, <2>2
    <3> QED BY <1>3, <1>7, <2>2, <3>1 DEF Place
  <2>3. CASE j > n + Len(held)
    <3>0. j - n - Len(held) \in 1 .. Len(rest) /\ j = Len(b) + Len(held) + (j - n - Len(held))
      BY <1>3, <1>7, <1>8, <2>3
    <3>1. PICK i \in 1 .. Len(rest) : i = j - n - Len(held) /\ j = Len(b) + Len(held) + i
      BY <3>0, Zenon
    <3>2. ~(j <= n) /\ ~(j <= n + Len(held))
      BY <1>3, <1>8, <2>3
    <3>3. s[j] = rest[i]
      BY <1>7, <3>1
    <3> QED BY <3>1, <3>2, <3>3, Zenon DEF Place
  <2> QED BY <1>8, <2>1, <2>2, <2>3
<1>10. Laid(s, d, n, shift, held, rest)
  BY <1>3, <1>7, <1>9, Zenon DEF Laid
<1> QED BY <1>5, <1>6, <1>10, Zenon

\* What is left of cells in order is in order.
LEMMA RestKeeps ==
  ASSUME NEW s \in Seq(Cell), NEW t \in Seq(Cell), Rest(t, s)
  PROVE  /\ Rising(s) => Rising(t)
         /\ \A n : Numbered(s, n) => Numbered(t, n)
         /\ \A f : Behind(s, f) => Behind(t, f)
<1>1. PICK k \in 0 .. Len(s) : /\ Len(t) = Len(s) - k
                               /\ \A i \in 1 .. Len(t) : t[i] = s[i + k]
  BY DEF Rest
<1>2. \A i \in DOMAIN t : i \in Nat /\ i + k \in DOMAIN s /\ t[i] = s[i + k]
  BY <1>1
<1>3. \A i, j \in DOMAIN t : i < j => i + k < j + k
  BY <1>1
<1> QED BY <1>2, <1>3 DEF Rising, Numbered, Behind

\* The next frame behind the others, and noise anywhere.
LEMMA MoreKeeps ==
  ASSUME NEW s \in Seq(Cell), NEW n \in DOMAIN Frames, n \in Nat \ {0},
         Rising(s), Numbered(s, n)
  PROVE  /\ Rising(s \o CellsOf(n)) /\ Numbered(s \o CellsOf(n), n + 1)
         /\ \A f \in 1 .. n - 1 : Behind(s, f) => Behind(s \o CellsOf(n), f)
<1> DEFINE c == CellsOf(n)  t == s \o c
<1>1. c \in Seq(Cell)
  BY CellsOfType
<1>2. \A i \in DOMAIN c : c[i] = <<n, i>> /\ i \in Nat
  <2>1. Frames[n].len \in Nat
    BY FramesAssumption
  <2>2. DOMAIN c = 1 .. Frames[n].len /\ \A i \in 1 .. Frames[n].len : c[i] = <<n, i>>
    BY Zenon DEF CellsOf
  <2> HIDE DEF c
  <2> QED BY <2>1, <2>2
<1> HIDE DEF c
<1>3. /\ t \in Seq(Cell) /\ Len(t) = Len(s) + Len(c) /\ Len(s) \in Nat /\ Len(c) \in Nat
      /\ \A i \in 1 .. Len(s) : t[i] = s[i]
      /\ \A i \in Len(s) + 1 .. Len(t) : t[i] = c[i - Len(s)] /\ i - Len(s) \in DOMAIN c
  BY <1>1
<1>4. \A i \in DOMAIN t : \/ i \in DOMAIN s /\ t[i] = s[i]
                          \/ i > Len(s) /\ t[i] = <<n, i - Len(s)>>
  BY <1>2, <1>3
<1> HIDE DEF t
<1>5. \A i \in DOMAIN t : t[i][2] = 1 =>
        \/ i \in DOMAIN s /\ t[i] = s[i] /\ t[i][1] \in 1 .. n - 1
        \/ i = Len(s) + 1 /\ t[i][1] = n
  <2> SUFFICES ASSUME NEW i \in DOMAIN t, t[i][2] = 1
               PROVE  \/ i \in DOMAIN s /\ t[i] = s[i] /\ t[i][1] \in 1 .. n - 1
                      \/ i = Len(s) + 1 /\ t[i][1] = n
    OBVIOUS
  <2>1. CASE i \in DOMAIN s /\ t[i] = s[i]
    BY <2>1 DEF Numbered
  <2>2. CASE i > Len(s) /\ t[i] = <<n, i - Len(s)>>
    <3>1. i \in Nat /\ i - Len(s) = 1
      BY <1>3, <2>2
    <3> QED BY <1>3, <2>2, <3>1
  <2> QED BY <1>4, <2>1, <2>2
<1>6. Rising(t)
  <2> SUFFICES ASSUME NEW i \in DOMAIN t, NEW j \in DOMAIN t, i < j, t[i][2] = 1, t[j][2] = 1
               PROVE  t[i][1] < t[j][1]
    BY DEF Rising
  <2>1. i \in Nat /\ j \in Nat
    BY <1>3
  <2>2. CASE j \in DOMAIN s /\ t[j] = s[j]
    <3>1. i \in DOMAIN s /\ t[i] = s[i]
      BY <1>3, <1>5, <2>1, <2>2
    <3> QED BY <2>2, <3>1 DEF Rising
  <2>3. CASE j = Len(s) + 1 /\ t[j][1] = n
    <3>1. t[i][1] \in 1 .. n - 1
      BY <1>3, <1>5, <2>1, <2>3
    <3> QED BY <2>3, <3>1
  <2> QED BY <1>5, <2>2, <2>3
<1>7. Numbered(t, n + 1)
  BY <1>5 DEF Numbered
<1>8. \A f \in 1 .. n - 1 : Behind(s, f) => Behind(t, f)
  BY <1>5 DEF Behind
<1> QED BY <1>6, <1>7, <1>8 DEF t, c

\* Noise starts no frame.
LEMMA NoiseKeeps ==
  ASSUME NEW s \in Seq(Cell), Rising(s), NEW n, Numbered(s, n)
  PROVE  /\ Rising(Append(s, Noise)) /\ Numbered(Append(s, Noise), n)
         /\ \A f : Behind(s, f) => Behind(Append(s, Noise), f)
<1> DEFINE t == Append(s, Noise)
<1>1. Noise \in Cell /\ Noise[2] = 0
  BY DEF Cell, Noise
<1>2. /\ Len(t) = Len(s) + 1 /\ t[Len(t)] = Noise /\ t \in Seq(Cell) /\ Len(s) \in Nat
      /\ \A i \in 1 .. Len(s) : t[i] = s[i]
  BY <1>1, AppendProperties
<1> HIDE DEF t
<1>3. \A i \in DOMAIN t : t[i][2] = 1 => i \in DOMAIN s /\ t[i] = s[i]
  BY <1>1, <1>2
<1>4. Rising(t) /\ Numbered(t, n) /\ \A f : Behind(s, f) => Behind(t, f)
  BY <1>3 DEF Rising, Numbered, Behind
<1> QED BY <1>4 DEF t

\* Cells that are to be moved lie in the array.
LEMMA ShiftFits ==
  ASSUME NEW n \in 0 .. Wrap - 1, NEW c \in 0 .. Wrap - 1, NEW p, NEW shift,
         n < Size, p \in {"shift", "move"} => c + n < Size,
         shift = IF p \in {"shift", "move"} THEN c ELSE 0
  PROVE  n \in Nat /\ shift \in Nat /\ n + shift <= Size
BY SizeAssumption

\* What is on its way before a step, cell by cell ...
LEMMA PipeNow ==
  ASSUME FlTypeOK, InTurn PROVE Laid(Pipe, data, cnt, Shifted, chunk, line)
<1>1. cnt \in Nat /\ Shifted \in Nat /\ cnt + Shifted <= Size
  BY SizeAssumption DEF FlTypeOK, InTurn, Shifted
<1> QED BY <1>1, CellsFacts DEF FlTypeOK, Pipe

\* ... and after it.
LEMMA PipeThen ==
  ASSUME FlTypeOK', InTurn' PROVE Laid(Pipe', data', cnt', Shifted', chunk', line')
<1>1. cnt' \in 0 .. Wrap - 1 /\ cut' \in 0 .. Wrap - 1
  BY DEF FlTypeOK
<1>2. cnt' < Size /\ (ppc' \in {"shift", "move"} => cut' + cnt' < Size)
  BY DEF InTurn
<1>3. Shifted' = IF ppc' \in {"shift", "move"} THEN cut' ELSE 0
  BY DEF Shifted
<1>4. cnt' \in Nat /\ Shifted' \in Nat /\ cnt' + Shifted' <= Size
  BY <1>1, <1>2, <1>3, ShiftFits
<1> QED BY <1>4, CellsFacts DEF FlTypeOK, Pipe

\* The first k cells are gone, when the rest stands where it should.
LEMMA RestBy ==
  ASSUME NEW s, NEW d, NEW n, NEW shift, NEW held, NEW rest, Laid(s, d, n, shift, held, rest),
         NEW t, NEW d2, NEW n2, NEW shift2, NEW held2, NEW rest2,
         Laid(t, d2, n2, shift2, held2, rest2),
         NEW k \in 0 .. Len(s), Len(t) = Len(s) - k,
         \A j \in 1 .. Len(t) :
           Place(d2, n2, shift2, held2, rest2, j) = Place(d, n, shift, held, rest, j + k)
  PROVE  Rest(t, s)
<1>1. Len(s) \in Nat /\ Len(t) \in Nat
  BY DEF Laid
<1>2. \A j \in 1 .. Len(t) : j + k \in 1 .. Len(s)
  BY <1>1
<1>3. \A j \in 1 .. Len(t) : t[j] = s[j + k]
  BY <1>2, Zenon DEF Laid
<1> QED BY <1>3 DEF Rest

\* The buffer and the chunk are gone, the line is left.
LEMMA LineLeft ==
  ASSUME NEW s, NEW d, NEW n \in Nat, NEW shift, NEW held \in Seq(Cell),
         NEW rest \in Seq(Cell), Laid(s, d, n, shift, held, rest),
         NEW t, NEW d2, NEW n2, NEW shift2, NEW held2, n2 = 0, Len(held2) = 0,
         Laid(t, d2, n2, shift2, held2, rest)
  PROVE  Rest(t, s)
<1>1. Len(held) \in Nat /\ Len(rest) \in Nat
  BY LenProperties
<1>2. Len(s) = n + Len(held) + Len(rest) /\ Len(t) = n2 + Len(held2) + Len(rest)
  BY DEF Laid
<1>3. n + Len(held) \in 0 .. Len(s) /\ Len(t) = Len(s) - (n + Len(held)) /\ Len(t) = Len(rest)
  BY <1>1, <1>2
<1>4. ASSUME NEW j \in 1 .. Len(t)
      PROVE  Place(d2, n2, shift2, held2, rest, j) = Place(d, n, shift, held, rest, j + (n + Len(held)))
  <2>1. /\ j \in Nat /\ ~(j <= 0) /\ ~(j <= 0 + 0) /\ j - 0 - 0 = j
        /\ ~(j + (n + Len(held)) <= n) /\ ~(j + (n + Len(held)) <= n + Len(held))
        /\ j + (n + Len(held)) - n - Len(held) = j
    BY <1>1, <1>3
  <2> QED BY <2>1 DEF Place
<1> QED BY <1>3, <1>4, RestBy

\* Nothing is gone.
LEMMA AllLeft == ASSUME NEW s \in Seq(Cell) PROVE Rest(s, s)
<1>1. Len(s) \in Nat
  BY LenProperties
<1>2. 0 \in 0 .. Len(s) /\ Len(s) = Len(s) - 0 /\ \A i \in 1 .. Len(s) : i + 0 = i
  BY <1>1
<1> QED BY <1>2 DEF Rest

\* A sequence and what is left of it.
LEMMA CutInTwo ==
  ASSUME NEW S, NEW s \in Seq(S), NEW n \in 0 .. Len(s)
  PROVE  /\ Len(SubSeq(s, 1, n)) = n /\ Len(SubSeq(s, n + 1, Len(s))) = Len(s) - n
         /\ \A j \in 1 .. n : SubSeq(s, 1, n)[j] = s[j]
         /\ \A j \in 1 .. Len(s) - n : SubSeq(s, n + 1, Len(s))[j] = s[n + j]
<1>1. Len(s) \in Nat /\ \A i \in 1 .. Len(s) : s[i] \in S
  BY LenProperties, ElementOfSeq
<1>2. /\ Len(SubSeq(s, 1, n)) = IF 1 <= n THEN n - 1 + 1 ELSE 0
      /\ \A j \in 1 .. n - 1 + 1 : SubSeq(s, 1, n)[j] = s[1 + j - 1]
  BY <1>1, SubSeqProperties
<1>3. /\ Len(SubSeq(s, n + 1, Len(s))) = IF n + 1 <= Len(s) THEN Len(s) - (n + 1) + 1 ELSE 0
      /\ \A j \in 1 .. Len(s) - (n + 1) + 1 : SubSeq(s, n + 1, Len(s))[j] = s[n + 1 + j - 1]
  BY <1>1, SubSeqProperties
<1>4. \A j \in 1 .. n : j \in 1 .. n - 1 + 1 /\ 1 + j - 1 = j
  BY <1>1
<1>5. \A j \in 1 .. Len(s) - n : j \in 1 .. Len(s) - (n + 1) + 1 /\ n + 1 + j - 1 = n + j
  BY <1>1
<1> QED BY <1>1, <1>2, <1>3, <1>4, <1>5

\* The threads keep taking turns.
LEMMA TurnStep == ASSUME FlInv, ~overlap, InTurn, FlNext PROVE InTurn'
<1> USE SizeAssumption DEF InTurn
<1>0. /\ cnt \in Nat /\ cut \in Nat /\ chunk \in Seq(Cell) /\ line \in Seq(Cell)
      /\ Len(chunk) \in Nat /\ data \in [Index -> Cell]
  BY PipeTypes
<1>1. CASE SendFrame
  BY <1>1 DEF SendFrame, thread, poll
<1>2. CASE Stray
  BY <1>2 DEF Stray, thread, poll
<1>3. CASE ThreadReads
  BY <1>3 DEF ThreadReads, poll
<1>4. CASE ThreadTests
  BY <1>4 DEF ThreadTests, poll
<1>5. CASE ThreadCopies
  <2>1. ASSUME NEW k \in 1 .. Len(chunk) PROVE data'[cnt + k - 1] = chunk[k]
    <3>1. cnt + k - 1 \in Index
      BY <1>0, <1>5 DEF ThreadCopies, Index
    <3>2. PICK i \in Index : i = cnt + k - 1
      BY <3>1
    <3>3. i >= cnt /\ i < cnt + Len(chunk) /\ i - cnt + 1 = k
      BY <1>0, <3>2
    <3>4. data'[i] = chunk[i - cnt + 1]
      BY <1>5, <3>3 DEF ThreadCopies
    <3> QED BY <3>2, <3>3, <3>4
  <2> QED BY <1>5, <2>1 DEF ThreadCopies, poll
<1>6. CASE ThreadLoads
  BY <1>6 DEF ThreadLoads, poll
<1>7. CASE ThreadStores
  BY <1>0, <1>7 DEF ThreadStores, Plus16, poll
<1>8. CASE ThreadArms
  BY <1>8 DEF ThreadArms, poll
<1>9. CASE ThreadResets
  BY <1>9 DEF ThreadResets, poll
<1>10. CASE PollStarts \/ PollTicks \/ PollExpires \/ PollLooks
  BY <1>10 DEF PollStarts, PollTicks, PollExpires, PollLooks, thread
<1>11. CASE PollDrops
  BY <1>11 DEF PollDrops, thread
<1>12. CASE PollFinds
  <2>1. UNCHANGED <<cnt, tpc, chunk, treg, data, preg>> /\ ppc = "find"
    BY <1>12 DEF PollFinds, thread
  <2>2. ppc' \in {"rest", "check"} \/ (ppc' = "cutload" /\ cut' \in Heads)
    BY <1>12 DEF PollFinds
  <2>3. cut' \in Heads => cut' <= cnt
    BY <1>0, HeadsBelow DEF FlInv
  <2> QED BY <1>0, <2>1, <2>2, <2>3
<1>13. CASE PollLoads("cutload", "cutstore") \/ PollLoads("takeload", "takestore")
  BY <1>13 DEF PollLoads, thread
<1>14. CASE PollStores("cutstore", "shift") \/ PollStores("takestore", "move")
  BY <1>0, <1>14 DEF PollStores, Minus16, thread
<1>15. CASE PollShifts("shift", "find") \/ PollShifts("move", "run")
  BY <1>15 DEF PollShifts, thread
<1>16. CASE PollChecks
  BY <1>16 DEF PollChecks, thread
<1>17. CASE PollRuns
  BY <1>17 DEF PollRuns, thread
<1> QED
  BY <1>1, <1>2, <1>3, <1>4, <1>5, <1>6, <1>7, <1>8, <1>9, <1>10, <1>11, <1>12, <1>13,
     <1>14, <1>15, <1>16, <1>17 DEF FlNext, Thread, Poll

\* factory_thread passes the cells on or, when the buffer is full, drops those
\* in front.
LEMMA ThreadLeavesRest ==
  ASSUME FlInv, FlInv', InTurn, InTurn', ~overlap, Thread
  PROVE  Rest(Pipe', Pipe)
<1> DEFINE k == IF tpc = "reset" THEN cnt + Len(chunk) ELSE 0
<1>1. /\ Laid(Pipe, data, cnt, Shifted, chunk, line)
      /\ Laid(Pipe', data', cnt', Shifted', chunk', line')
  BY PipeNow, PipeThen DEF FlInv
<1>2. /\ cnt \in Nat /\ chunk \in Seq(Cell) /\ line \in Seq(Cell)
      /\ Len(chunk) \in Nat /\ Len(line) \in Nat /\ data \in [Index -> Cell]
  BY PipeTypes
<1>3. Len(Pipe) = cnt + Len(chunk) + Len(line) /\ Len(Pipe') = cnt' + Len(chunk') + Len(line')
  BY <1>1 DEF Laid
<1>4. /\ tpc # "read" => Shifted = 0 /\ Shifted' = 0
      /\ tpc = "read" => Shifted = Shifted'
  BY DEF Thread, ThreadReads, ThreadTests, ThreadCopies, ThreadLoads, ThreadStores,
         ThreadArms, ThreadResets, poll, InTurn, Shifted
<1>5. CASE ThreadReads
  <2>1. PICK n \in 1 .. Chunk : /\ n <= Len(line)
                               /\ chunk' = SubSeq(line, 1, n)
                               /\ line' = SubSeq(line, n + 1, Len(line))
    BY <1>5 DEF ThreadReads
  <2>2. chunk = <<>> /\ data' = data /\ cnt' = cnt /\ Shifted' = Shifted
    BY <1>4, <1>5 DEF ThreadReads, InTurn
  <2>3. /\ Len(chunk) = 0 /\ Len(chunk') = n /\ Len(line') = Len(line) - n
        /\ \A j \in 1 .. n : chunk'[j] = line[j]
        /\ \A j \in 1 .. Len(line) - n : line'[j] = line[n + j]
    BY <1>2, <2>1, <2>2, CutInTwo
  <2>4. Len(Pipe') = Len(Pipe)
    BY <1>2, <1>3, <2>2, <2>3
  <2>5. ASSUME NEW j \in 1 .. Len(Pipe')
        PROVE  Place(data', cnt', Shifted', chunk', line', j)
                 = Place(data, cnt, Shifted, chunk, line, j + 0)
    <3>1. j \in Nat /\ j + 0 = j /\ j <= cnt + Len(line)
      BY <1>2, <1>3, <2>3, <2>4
    <3>2. CASE j <= cnt
      BY <2>2, <3>1, <3>2 DEF Place
    <3>3. CASE j > cnt /\ j <= cnt + n
      <4>1. j - cnt \in 1 .. n /\ j - cnt - 0 = j - cnt /\ ~(j <= cnt) /\ ~(j <= cnt + 0)
        BY <1>2, <3>1, <3>3
      <4> QED BY <2>2, <2>3, <3>1, <3>3, <4>1 DEF Place
    <3>4. CASE j > cnt + n
      <4>1. /\ j - cnt - n \in 1 .. Len(line) - n /\ n + (j - cnt - n) = j - cnt
            /\ j - cnt - 0 = j - cnt /\ ~(j <= cnt) /\ ~(j <= cnt + 0) /\ ~(j <= cnt + n)
        BY <1>2, <2>1, <3>1, <3>4
      <4>2. line'[j - cnt - n] = line[j - cnt]
        BY <2>3, <4>1
      <4> QED BY <2>2, <2>3, <3>1, <4>1, <4>2 DEF Place
    <3> QED BY <1>2, <3>1, <3>2, <3>3, <3>4
  <2>6. 0 \in 0 .. Len(Pipe) /\ Len(Pipe') = Len(Pipe) - 0
    BY <1>2, <1>3, <2>4
  <2> QED BY <1>1, <2>5, <2>6, RestBy
<1>6. CASE ThreadTests \/ ThreadLoads \/ ThreadArms
  <2>1. Pipe' = Pipe
    BY <1>4, <1>6 DEF ThreadTests, ThreadLoads, ThreadArms, Pipe
  <2>2. Pipe \in Seq(Cell)
    BY <1>1 DEF Laid
  <2> QED BY <2>1, <2>2, AllLeft
<1>7. CASE ThreadCopies
  <2>1. /\ cnt' = cnt /\ chunk' = chunk /\ line' = line /\ Shifted = 0 /\ Shifted' = 0
        /\ cnt < Size /\ \A i \in Index : i < cnt => data'[i] = data[i]
    BY <1>2, <1>4, <1>7 DEF ThreadCopies, InTurn, Index
  <2>2. ASSUME NEW j \in 1 .. Len(Pipe')
        PROVE  Place(data', cnt', Shifted', chunk', line', j)
                 = Place(data, cnt, Shifted, chunk, line, j + 0)
    <3>1. j \in Nat /\ j >= 1 /\ j + 0 = j
      BY <1>2, <1>3, <2>1
    <3>2. CASE j <= cnt
      <4>1. j - 1 + 0 \in Index /\ j - 1 + 0 < cnt
        BY <1>2, <2>1, <3>1, <3>2, SizeAssumption DEF Index
      <4> QED BY <2>1, <3>1, <3>2, <4>1 DEF Place
    <3>3. CASE ~(j <= cnt)
      BY <2>1, <3>1, <3>3 DEF Place
    <3> QED BY <3>2, <3>3
  <2>3. 0 \in 0 .. Len(Pipe) /\ Len(Pipe') = Len(Pipe) - 0
    BY <1>2, <1>3, <2>1
  <2> QED BY <1>1, <2>2, <2>3, RestBy
<1>8. CASE ThreadStores
  <2>1. /\ cnt' = cnt + Len(chunk) /\ Len(chunk') = 0 /\ line' = line /\ data' = data
        /\ Shifted = 0 /\ Shifted' = 0
        /\ \A i \in 1 .. Len(chunk) : data[cnt + i - 1] = chunk[i]
    BY <1>2, <1>4, <1>8, SizeAssumption DEF ThreadStores, InTurn, Plus16
  <2>2. ASSUME NEW j \in 1 .. Len(Pipe')
        PROVE  Place(data', cnt', Shifted', chunk', line', j)
                 = Place(data, cnt, Shifted, chunk, line, j + 0)
    <3>1. j \in Nat /\ j >= 1 /\ j + 0 = j
      BY <1>2, <1>3, <2>1
    <3>2. CASE j <= cnt
      <4>1. j <= cnt + Len(chunk)
        BY <1>2, <3>1, <3>2
      <4> QED BY <2>1, <3>1, <3>2, <4>1 DEF Place
    <3>3. CASE ~(j <= cnt) /\ j <= cnt + Len(chunk)
      <4>1. PICK i \in 1 .. Len(chunk) : i = j - cnt /\ cnt + i - 1 = j - 1 + 0
        <5>1. j - cnt \in 1 .. Len(chunk) /\ cnt + (j - cnt) - 1 = j - 1 + 0
          BY <1>2, <3>1, <3>3
        <5> QED BY <5>1, Zenon
      <4> QED BY <2>1, <3>1, <3>3, <4>1 DEF Place
    <3>4. CASE ~(j <= cnt) /\ ~(j <= cnt + Len(chunk))
      <4>1. ~(j <= cnt + Len(chunk) + 0) /\ j - (cnt + Len(chunk)) - 0 = j - cnt - Len(chunk)
        BY <1>2, <3>1, <3>4
      <4> QED BY <2>1, <3>1, <3>4, <4>1 DEF Place
    <3> QED BY <3>2, <3>3, <3>4
  <2>3. Len(Pipe') = cnt + Len(chunk) + 0 + Len(line)
    BY <1>3, <2>1
  <2>4. 0 \in 0 .. Len(Pipe) /\ Len(Pipe') = Len(Pipe) - 0
    BY <1>2, <1>3, <2>3
  <2> QED BY <1>1, <2>2, <2>4, RestBy
<1>9. CASE ThreadResets
  <2>1. cnt' = 0 /\ Len(chunk') = 0 /\ line' = line
    BY <1>9 DEF ThreadResets
  <2>2. Laid(Pipe', data', cnt', Shifted', chunk', line)
    BY <1>1, <2>1
  <2> QED BY <1>1, <1>2, <2>1, <2>2, LineLeft
<1> QED BY <1>5, <1>6, <1>7, <1>8, <1>9 DEF Thread

\* When the first k cells of the buffer are cut off, the others come from
\* where they came from.
LEMMA PlaceCut ==
  ASSUME NEW d, NEW m \in Nat, NEW k \in Nat, NEW held \in Seq(Cell), NEW rest,
         NEW j \in Nat
  PROVE  Place(d, m, k, held, rest, j) = Place(d, m + k, 0, held, rest, j + k)
<1>0. Len(held) \in Nat
  BY LenProperties
<1>1. /\ (j + k) - 1 + 0 = j - 1 + k
      /\ (j + k) - (m + k) = j - m
      /\ (j + k) - (m + k) - Len(held) = j - m - Len(held)
  BY <1>0
<1>2. CASE j <= m
  <2>1. j + k <= m + k
    BY <1>2
  <2>2. Place(d, m, k, held, rest, j) = d[j - 1 + k]
    BY <1>2, Zenon DEF Place
  <2>3. Place(d, m + k, 0, held, rest, j + k) = d[(j + k) - 1 + 0]
    BY <2>1, Zenon DEF Place
  <2> QED BY <1>1, <2>2, <2>3, Zenon
<1>3. CASE ~(j <= m) /\ j <= m + Len(held)
  <2>1. ~(j + k <= m + k) /\ j + k <= (m + k) + Len(held)
    BY <1>0, <1>3
  <2>2. Place(d, m, k, held, rest, j) = held[j - m]
    BY <1>3, Zenon DEF Place
  <2>3. Place(d, m + k, 0, held, rest, j + k) = held[(j + k) - (m + k)]
    BY <2>1, Zenon DEF Place
  <2> QED BY <1>1, <2>2, <2>3, Zenon
<1>4. CASE ~(j <= m) /\ ~(j <= m + Len(held))
  <2>1. ~(j + k <= m + k) /\ ~(j + k <= (m + k) + Len(held))
    BY <1>0, <1>4
  <2>2. Place(d, m, k, held, rest, j) = rest[j - m - Len(held)]
    BY <1>4, Zenon DEF Place
  <2>3. Place(d, m + k, 0, held, rest, j + k) = rest[(j + k) - (m + k) - Len(held)]
    BY <2>1, Zenon DEF Place
  <2> QED BY <1>1, <2>2, <2>3, Zenon
<1> QED BY <1>2, <1>3, <1>4

\* ... and stand where they stood.
LEMMA CutAway ==
  ASSUME NEW d, NEW n \in Nat, NEW k \in Nat, k <= n, NEW held \in Seq(Cell),
         NEW rest \in Seq(Cell), NEW m, m = n - k,
         NEW s, Laid(s, d, n, 0, held, rest), NEW t, Laid(t, d, m, k, held, rest)
  PROVE  /\ k \in 0 .. Len(s) /\ Len(t) = Len(s) - k
         /\ \A j \in 1 .. Len(t) : j \in Nat /\ j + k \in 1 .. Len(s) /\ t[j] = s[j + k]
<1>0. Len(held) \in Nat /\ Len(rest) \in Nat
  BY LenProperties
<1>1. Len(s) = n + Len(held) + Len(rest) /\ Len(t) = m + Len(held) + Len(rest)
  BY DEF Laid
<1>2. k \in 0 .. Len(s) /\ Len(t) = Len(s) - k
  BY <1>0, <1>1
<1>3. ASSUME NEW j \in 1 .. Len(t) PROVE j \in Nat /\ j + k \in 1 .. Len(s) /\ t[j] = s[j + k]
  <2>1. j \in Nat /\ j + k \in 1 .. Len(s)
    BY <1>0, <1>1
  <2>2. Place(d, m, k, held, rest, j) = Place(d, n, 0, held, rest, j + k)
    <3>1. n = m + k /\ m \in Nat
      OBVIOUS
    <3>2. Place(d, m, k, held, rest, j) = Place(d, m + k, 0, held, rest, j + k)
      BY <2>1, <3>1, PlaceCut
    <3> QED BY <3>1, <3>2
  <2>3. t[j] = Place(d, m, k, held, rest, j) /\ s[j + k] = Place(d, n, 0, held, rest, j + k)
    BY <2>1, Zenon DEF Laid
  <2> QED BY <2>1, <2>2, <2>3, Zenon
<1> QED BY <1>2, <1>3

\* hal_factory_poll takes cells off the front and drops all, nothing else.
LEMMA PollLeavesRest ==
  ASSUME FlInv, FlInv', InTurn, InTurn', ~overlap, Poll
  PROVE  Rest(Pipe', Pipe)
<1>1. /\ Laid(Pipe, data, cnt, Shifted, chunk, line)
      /\ Laid(Pipe', data', cnt', Shifted', chunk', line')
  BY PipeNow, PipeThen DEF FlInv
<1>2. /\ cnt \in Nat /\ cut \in Nat /\ chunk \in Seq(Cell) /\ line \in Seq(Cell)
      /\ Len(chunk) \in Nat /\ Len(line) \in Nat /\ data \in [Index -> Cell]
  BY PipeTypes
<1>3. Len(Pipe) = cnt + Len(chunk) + Len(line) /\ Len(Pipe') = cnt' + Len(chunk') + Len(line')
  BY <1>1 DEF Laid
<1>4. Pipe \in Seq(Cell)
  BY <1>1 DEF Laid
<1>5. ASSUME UNCHANGED <<data, cnt, chunk, line>>, Shifted = 0, Shifted' = 0
      PROVE  Rest(Pipe', Pipe)
  <2>1. Pipe' = Pipe
    BY <1>5 DEF Pipe
  <2> QED BY <1>4, <2>1, AllLeft
<1>6. CASE PollStarts \/ PollTicks \/ PollExpires \/ PollLooks
  <2>1. UNCHANGED <<data, cnt, chunk, line>> /\ Shifted = 0 /\ Shifted' = 0
    BY <1>6 DEF PollStarts, PollTicks, PollExpires, PollLooks, thread, Shifted
  <2> QED BY <1>5, <2>1
<1>7. CASE PollFinds \/ PollChecks
  <2>1. UNCHANGED <<data, cnt, chunk, line>> /\ Shifted = 0
    BY <1>7 DEF PollFinds, PollChecks, thread, Shifted
  <2>2. ppc' \in {"rest", "check", "cutload", "takeload"}
    BY <1>7 DEF PollFinds, PollChecks
  <2>3. Shifted' = 0
    BY <2>2 DEF Shifted
  <2> QED BY <1>5, <2>1, <2>3
<1>8. CASE PollLoads("cutload", "cutstore") \/ PollLoads("takeload", "takestore")
  <2>1. UNCHANGED <<data, cnt, chunk, line>> /\ Shifted = 0 /\ Shifted' = 0
    BY <1>8 DEF PollLoads, thread, Shifted
  <2> QED BY <1>5, <2>1
<1>9. CASE PollDrops
  <2>1. cnt' = 0 /\ chunk' = chunk /\ line' = line /\ chunk = <<>>
    BY <1>9 DEF PollDrops, thread, InTurn
  <2>2. Len(chunk') = 0
    BY <2>1
  <2>3. Laid(Pipe', data', cnt', Shifted', chunk', line)
    BY <1>1, <2>1
  <2> QED BY <1>1, <1>2, <2>1, <2>2, <2>3, LineLeft
<1>10. CASE PollStores("cutstore", "shift") \/ PollStores("takestore", "move")
  <2>1. /\ data' = data /\ chunk' = chunk /\ line' = line /\ Shifted = 0 /\ Shifted' = cut
        /\ cut <= cnt /\ preg = cnt
    BY <1>10 DEF PollStores, thread, Shifted, InTurn
  <2>2. PICK m : m = cnt' /\ m = cnt - cut
    BY <1>2, <1>10, <2>1 DEF PollStores, Minus16
  <2>3. Laid(Pipe, data, cnt, 0, chunk, line) /\ Laid(Pipe', data, m, cut, chunk, line)
    BY <1>1, <2>1, <2>2, Zenon
  <2>4. /\ m = cnt - cut /\ cut <= cnt /\ cnt \in Nat /\ cut \in Nat
        /\ chunk \in Seq(Cell) /\ line \in Seq(Cell)
    BY <1>2, <2>1, <2>2
  <2>5. \A j \in 1 .. Len(Pipe') :
          j \in Nat /\ j + cut \in 1 .. Len(Pipe) /\ Pipe'[j] = Pipe[j + cut]
    <3>1. m = cnt - cut
      BY <2>2
    <3> QED BY <2>3, <2>4, <3>1, CutAway
  <2>6. Len(Pipe) = cnt + Len(chunk) + Len(line) /\ Len(Pipe') = m + Len(chunk) + Len(line)
    BY <2>3 DEF Laid
  <2>7. cut \in 0 .. Len(Pipe) /\ Len(Pipe') = Len(Pipe) - cut
    BY <1>2, <2>4, <2>6
  <2> QED BY <2>5, <2>7, Zenon DEF Rest
<1>11. CASE PollShifts("shift", "find") \/ PollShifts("move", "run")
  <2>1. /\ cnt' = cnt /\ chunk' = chunk /\ line' = line /\ Shifted = cut /\ Shifted' = 0
        /\ cut + cnt < Size
        /\ data' = [i \in Index |-> IF i < cnt THEN At(i + cut) ELSE data[i]]
    BY <1>11 DEF PollShifts, thread, Shifted, InTurn
  <2>2. 0 \in 0 .. Len(Pipe) /\ Len(Pipe') = Len(Pipe) - 0
    <3>1. Len(Pipe') = cnt + Len(chunk) + Len(line)
      BY <1>3, <2>1
    <3> QED BY SMTT(30), <1>2, <1>3, <3>1
  <2>3. ASSUME NEW j \in 1 .. Len(Pipe')
        PROVE  Place(data', cnt', Shifted', chunk', line', j)
                 = Place(data, cnt, Shifted, chunk, line, j + 0)
    <3>1. j \in Nat /\ j >= 1 /\ j + 0 = j
      BY <1>2, <1>3, <2>1
    <3>2. CASE j <= cnt
      <4>1. PICK i \in Index : i = j - 1 + 0
        <5>1. j - 1 + 0 \in Index
          BY <1>2, <2>1, <3>1, <3>2, SizeAssumption DEF Index
        <5> QED BY <5>1
      <4>2. i < cnt /\ i + cut \in Index /\ i + cut = j - 1 + cut
        BY <1>2, <2>1, <3>1, <3>2, <4>1, SizeAssumption DEF Index
      <4>3. data'[i] = data[i + cut]
        BY <2>1, <4>2 DEF At
      <4> QED BY <2>1, <3>1, <3>2, <4>1, <4>2, <4>3, Zenon DEF Place
    <3>3. CASE ~(j <= cnt)
      BY <2>1, <3>1, <3>3, Zenon DEF Place
    <3> QED BY <3>2, <3>3
  <2> QED BY <1>1, <2>2, <2>3, RestBy
<1>12. CASE PollRuns
  <2>1. CASE Passes(pkg) /\ Frames[pkg].cmd1 = "reset"
    <3>1. cnt' = 0 /\ line' = <<>> /\ chunk' = <<>>
      BY <1>12, <2>1 DEF PollRuns
    <3>2. Len(Pipe') = 0 + 0 + 0
      BY <1>3, <3>1
    <3>3. /\ Len(Pipe) \in 0 .. Len(Pipe) /\ Len(Pipe') = Len(Pipe) - Len(Pipe)
          /\ ~(\E j \in 1 .. Len(Pipe') : TRUE)
      BY <1>2, <1>3, <3>2
    <3> QED BY <3>3 DEF Rest
  <2>2. CASE ~(Passes(pkg) /\ Frames[pkg].cmd1 = "reset")
    <3>1. UNCHANGED <<data, cnt, chunk, line>> /\ Shifted = 0 /\ Shifted' = 0
      BY <1>12, <2>2 DEF PollRuns, thread, Shifted
    <3> QED BY <1>5, <3>1
  <2> QED BY <2>1, <2>2
<1> QED
  BY <1>6, <1>7, <1>8, <1>9, <1>10, <1>11, <1>12 DEF Poll

\* Nothing is out of order behind a step of either thread, and what was
\* carried out stays before all of it.
LEMMA OrderLeft ==
  ASSUME FlInv, FlInv', InTurn, InTurn', ~overlap, FirstsInOrder, Thread \/ Poll
  PROVE  /\ FirstsInOrder'
         /\ \A f : Behind(Pipe, f) => Behind(Pipe', f)
<1>1. Rest(Pipe', Pipe)
  BY ThreadLeavesRest, PollLeavesRest
<1>2. Pipe \in Seq(Cell) /\ Pipe' \in Seq(Cell)
  BY PipeNow, PipeThen DEF FlInv, Laid
<1>3. next' = next
  BY DEF Thread, ThreadReads, ThreadTests, ThreadCopies, ThreadLoads, ThreadStores, ThreadArms,
         ThreadResets, Poll, PollStarts, PollTicks, PollExpires, PollDrops, PollLooks, PollFinds,
         PollLoads, PollStores, PollShifts, PollChecks, PollRuns, fixture
<1>4. /\ Rising(Pipe) => Rising(Pipe')
      /\ Numbered(Pipe, next) => Numbered(Pipe', next)
      /\ \A f : Behind(Pipe, f) => Behind(Pipe', f)
  BY <1>1, <1>2, RestKeeps, Zenon
<1> QED BY <1>3, <1>4, Zenon DEF FirstsInOrder

\* What the fixture sends comes last on its way, ...
LEMMA FixtureExtends ==
  ASSUME FlInv, InTurn
  PROVE  /\ SendFrame => Pipe' = Pipe \o CellsOf(next)
         /\ Stray => Pipe' = Append(Pipe, Noise)
<1>1. /\ cnt \in Nat /\ Shifted \in Nat /\ cnt + Shifted <= Size
      /\ data \in [Index -> Cell] /\ chunk \in Seq(Cell) /\ line \in Seq(Cell)
  BY SizeAssumption DEF FlInv, FlTypeOK, InTurn, Shifted
<1>2. PICK b \in Seq(Cell) : b = [i \in 1 .. cnt |-> data[i - 1 + Shifted]]
  <2>1. \A i \in 1 .. cnt : i - 1 + Shifted \in Index
    BY <1>1, SizeAssumption DEF Index
  <2>2. [i \in 1 .. cnt |-> data[i - 1 + Shifted]] \in [1 .. cnt -> Cell]
    BY <1>1, <2>1
  <2> QED BY <1>1, <2>2, FunctionIsSequence, Zenon
<1>3. Pipe = b \o chunk \o line
  BY <1>2 DEF Pipe, Cells
<1>4. PICK x \in Seq(Cell) : x = b \o chunk
  BY <1>1, JoinFacts
<1>5. Pipe = x \o line
  BY <1>3, <1>4
<1>6. ASSUME SendFrame \/ Stray PROVE Pipe' = x \o line'
  <2>1. UNCHANGED <<cnt, data, chunk, Shifted>>
    BY <1>6 DEF SendFrame, Stray, thread, poll, Shifted
  <2> QED BY <1>2, <1>4, <2>1 DEF Pipe, Cells
<1>7. ASSUME SendFrame PROVE Pipe' = Pipe \o CellsOf(next)
  <2>1. next \in DOMAIN Frames /\ line' = line \o CellsOf(next)
    BY <1>7 DEF SendFrame
  <2>2. PICK c \in Seq(Cell) : c = CellsOf(next)
    BY <2>1, CellsOfType
  <2>3. x \in Seq(Cell) /\ line \in Seq(Cell) /\ c \in Seq(Cell)
    BY <1>1
  <2>4. (x \o line) \o c = x \o (line \o c)
    BY SMTT(30), <2>3, ConcatAssociative
  <2> QED BY <1>5, <1>6, <1>7, <2>1, <2>2, <2>4, Zenon
<1>8. ASSUME Stray PROVE Pipe' = Append(Pipe, Noise)
  <2>1. line' = Append(line, Noise) /\ Noise \in Cell
    BY <1>8 DEF Stray, Cell
  <2>2. x \o Append(line, Noise) = Append(x \o line, Noise)
    BY <1>1, <2>1
  <2> QED BY <1>5, <1>6, <1>8, <2>1, <2>2, Zenon
<1> QED BY <1>7, <1>8

\* ... behind the frames there are.
LEMMA FixtureAdds ==
  ASSUME FlInv, InTurn, FirstsInOrder, SendFrame \/ Stray
  PROVE  /\ FirstsInOrder' /\ next' >= next
         /\ \A f \in 1 .. next - 1 : Behind(Pipe, f) => Behind(Pipe', f)
<1>1. Pipe \in Seq(Cell)
  BY PipeNow DEF FlInv, Laid
<1>2. next \in Nat \ {0} /\ Rising(Pipe) /\ Numbered(Pipe, next)
  BY DEF FirstsInOrder
<1>3. CASE SendFrame
  <2>1. next \in DOMAIN Frames /\ next' = next + 1 /\ Pipe' = Pipe \o CellsOf(next)
    BY <1>3, FixtureExtends DEF SendFrame
  <2>2. /\ Rising(Pipe \o CellsOf(next)) /\ Numbered(Pipe \o CellsOf(next), next + 1)
        /\ \A f \in 1 .. next - 1 : Behind(Pipe, f) => Behind(Pipe \o CellsOf(next), f)
    BY <1>1, <1>2, <2>1, MoreKeeps, Zenon
  <2>3. next' \in Nat \ {0} /\ next' >= next
    BY <1>2, <2>1
  <2> QED BY <2>1, <2>2, <2>3, Zenon DEF FirstsInOrder
<1>4. CASE Stray
  <2>1. next' = next /\ Pipe' = Append(Pipe, Noise)
    BY <1>4, FixtureExtends DEF Stray
  <2>2. /\ Rising(Append(Pipe, Noise)) /\ Numbered(Append(Pipe, Noise), next)
        /\ \A f : Behind(Pipe, f) => Behind(Append(Pipe, Noise), f)
    BY <1>1, <1>2, NoiseKeeps, Zenon
  <2>3. next' >= next
    BY <1>2, <2>1
  <2> QED BY <1>2, <2>1, <2>2, <2>3, Zenon DEF FirstsInOrder
<1> QED BY <1>3, <1>4

\* Numbers below a bound are below a greater one.
LEMMA BelowGreater ==
  ASSUME NEW a \in Nat, NEW b \in Nat, a <= b PROVE 1 .. a - 1 \subseteq 1 .. b - 1
OBVIOUS

\* A step that leaves the history alone leaves it before what is on its way.
LEMMA HistoryKept ==
  ASSUME RanBefore, UNCHANGED ran, next \in Nat, next' \in Nat, next' >= next,
         \A f \in 1 .. next - 1 : Behind(Pipe, f) => Behind(Pipe', f)
  PROVE  RanBefore'
<1>1. \A n \in DOMAIN ran : ran[n] \in 1 .. next - 1 /\ Behind(Pipe', ran[n])
  BY Zenon DEF RanBefore
<1>2. 1 .. next - 1 \subseteq 1 .. next' - 1
  BY BelowGreater
<1> QED BY <1>1, <1>2, Zenon DEF RanBefore

\* A frame that is taken off the front of the buffer stands before all others.
LEMMA FirstTaken ==
  ASSUME FlInv, FlInv', InTurn, InTurn', ~overlap, FirstsInOrder, RanBefore, Taken,
         PollStores("takestore", "move")
  PROVE  Taken'
<1>1. /\ ppc = "takestore" /\ ppc' = "move" /\ UNCHANGED <<cut, pkg, ran, next>>
  BY DEF PollStores, fixture
<1>2. cut \in 1 .. cnt /\ data[0][2] = 1 /\ data[0][1] = pkg
  BY <1>1 DEF Taken
<1>3. /\ Laid(Pipe, data, cnt, Shifted, chunk, line) /\ Shifted = 0
  BY <1>1, PipeNow DEF FlInv, Shifted
<1>4. cnt \in Nat /\ Len(chunk) \in Nat /\ Len(line) \in Nat
  BY PipeTypes
<1>5. Pipe \in Seq(Cell) /\ Len(Pipe) = cnt + Len(chunk) + Len(line)
  BY <1>3 DEF Laid
<1>6. 1 \in 1 .. Len(Pipe) /\ 1 <= cnt /\ 1 - 1 + 0 = 0
  BY <1>2, <1>4, <1>5
<1>7. Pipe[1] = data[0]
  <2>1. Pipe[1] = Place(data, cnt, 0, chunk, line, 1)
    BY <1>3, <1>6 DEF Laid
  <2> QED BY <1>6, <2>1 DEF Place
<1>8. 1 \in DOMAIN Pipe /\ Pipe[1][2] = 1 /\ Pipe[1][1] = pkg
  BY <1>2, <1>5, <1>6, <1>7
<1>9. pkg \in 1 .. next - 1
  BY <1>8 DEF FirstsInOrder, Numbered
<1>10. \A n \in DOMAIN ran : ran[n] < pkg
  BY <1>8 DEF RanBefore, Behind
<1>11. Behind(Pipe', pkg)
  <2>1. Laid(Pipe', data', cnt', Shifted', chunk', line')
    BY PipeThen DEF FlInv
  <2>2. /\ data' = data /\ chunk' = chunk /\ line' = line /\ Shifted' = cut
        /\ cut <= cnt /\ preg = cnt
    BY <1>1, <1>2, <1>4 DEF PollStores, thread, Shifted, InTurn
  <2>3. PICK m : m = cnt' /\ m = cnt - cut
    BY <1>2, <1>4, <2>2 DEF PollStores, Minus16
  <2>4. Pipe' \in Seq(Cell) /\ Laid(Pipe', data, m, cut, chunk, line)
    BY <2>1, <2>2, <2>3, Zenon DEF Laid
  <2>5. \A j \in 1 .. Len(Pipe') :
          j \in Nat /\ j + cut \in 1 .. Len(Pipe) /\ Pipe'[j] = Pipe[j + cut]
    <3>1. cnt \in Nat /\ cut \in Nat /\ cut <= cnt /\ chunk \in Seq(Cell) /\ line \in Seq(Cell)
      BY <1>2, <1>4, <2>2 DEF FlInv, FlTypeOK
    <3>2. m = cnt - cut
      BY <2>3
    <3>3. Laid(Pipe, data, cnt, 0, chunk, line)
      BY <1>3
    <3> QED BY <2>4, <3>1, <3>2, <3>3, CutAway
  <2>6. DOMAIN Pipe' = 1 .. Len(Pipe')
    BY <2>4
  <2>7. ASSUME NEW i \in DOMAIN Pipe', Pipe'[i][2] = 1 PROVE pkg < Pipe'[i][1]
    <3>1. PICK j \in DOMAIN Pipe : 1 < j /\ Pipe'[i] = Pipe[j]
      <4>1. i \in Nat /\ i >= 1 /\ i + cut \in DOMAIN Pipe /\ Pipe'[i] = Pipe[i + cut]
        BY <1>5, <2>5, <2>6
      <4>2. 1 < i + cut
        BY <1>2, <1>4, <4>1
      <4> QED BY <4>1, <4>2, Zenon
    <3> QED BY <1>8, <2>7, <3>1, Zenon DEF FirstsInOrder, Rising
  <2> QED BY <2>7, Zenon DEF Behind
<1> QED BY <1>1, <1>9, <1>10, <1>11 DEF Taken

\* A step of hal_factory_poll keeps the frame in FactoryBuffer before the others.
LEMMA TakenStep ==
  ASSUME FlInv, FlInv', InTurn, InTurn', ~overlap, FirstsInOrder, RanBefore, Taken, Poll
  PROVE  Taken'
<1>1. CASE ppc' \notin {"takeload", "takestore", "move", "run"}
  BY <1>1 DEF Taken
<1>2. CASE PollChecks /\ ppc' = "takeload"
  <2> DEFINE f == data[0][1]
  <2>1. /\ data[0][2] = 1 /\ Frames[f].len <= cnt
        /\ pkg' = f /\ cut' = Frames[f].len /\ UNCHANGED <<data, cnt>>
    BY <1>2 DEF PollChecks
  <2>2. data[0] \in Cell
    BY SizeAssumption DEF FlInv, FlTypeOK, Index
  <2>3. f \in DOMAIN Frames
    BY <2>1, <2>2 DEF Cell, Noise
  <2>4. Frames[f].len \in Nat /\ Frames[f].len >= 2
    BY <2>3, FramesAssumption
  <2>5. cnt \in Nat
    BY DEF FlInv, FlTypeOK
  <2>6. cut' \in 1 .. cnt
    BY <2>1, <2>4, <2>5
  <2> HIDE DEF f
  <2>7. data'[0][2] = 1 /\ data'[0][1] = pkg'
    BY <2>1 DEF f
  <2>8. cut' \in 1 .. cnt'
    BY <2>1, <2>6
  <2> QED BY <1>2, <2>7, <2>8 DEF Taken
<1>3. CASE PollLoads("takeload", "takestore")
  BY <1>3 DEF PollLoads, Taken
<1>4. CASE PollStores("takestore", "move")
  BY <1>4, FirstTaken
<1>5. CASE PollShifts("move", "run")
  <2>1. ppc = "move" /\ ppc' = "run" /\ UNCHANGED <<pkg, ran, next>>
    BY <1>5 DEF PollShifts, fixture
  <2>2. Behind(Pipe, pkg) => Behind(Pipe', pkg)
    BY OrderLeft
  <2> QED BY <2>1, <2>2 DEF Taken
<1>6. Poll => \/ ppc' \notin {"takeload", "takestore", "move", "run"}
              \/ PollChecks /\ ppc' = "takeload"
              \/ PollLoads("takeload", "takestore")
              \/ PollStores("takestore", "move") \/ PollShifts("move", "run")
  BY DEF Poll, PollStarts, PollTicks, PollExpires, PollDrops, PollLooks, PollFinds,
         PollLoads, PollStores, PollShifts, PollChecks, PollRuns
<1> QED BY <1>1, <1>2, <1>3, <1>4, <1>5, <1>6

\* The command carried out last is the greatest, and before all on its way.
LEMMA RunKeepsOrder ==
  ASSUME FlInv, FlInv', InTurn, InTurn', ~overlap, FirstsInOrder, RanBefore, Taken, PollRuns
  PROVE  RanBefore'
<1>1. next' = next /\ next \in Nat /\ ran \in Seq(DOMAIN Frames)
  BY DEF PollRuns, fixture, FlInv, FlTypeOK
<1>2. \A f : Behind(Pipe, f) => Behind(Pipe', f)
  BY OrderLeft DEF Poll
<1>3. CASE ran' = ran
  <2>1. next' \in Nat /\ next' >= next
    BY <1>1
  <2> QED BY <1>1, <1>2, <1>3, <2>1, HistoryKept
<1>4. CASE ran' = Append(ran, pkg)
  <2>1. /\ pkg \in 1 .. next - 1 /\ Behind(Pipe', pkg) /\ pkg \in DOMAIN Frames
        /\ \A n \in DOMAIN ran : ran[n] < pkg
    BY <1>2 DEF PollRuns, Taken, FlInv
  <2>2. /\ Len(ran) \in Nat /\ DOMAIN ran = 1 .. Len(ran)
        /\ DOMAIN ran' = 1 .. Len(ran) + 1
        /\ ran'[Len(ran) + 1] = pkg /\ \A n \in 1 .. Len(ran) : ran'[n] = ran[n]
    BY <1>1, <1>4, <2>1
  <2>3. \A n \in DOMAIN ran' : \/ n \in DOMAIN ran /\ ran'[n] = ran[n]
                               \/ n = Len(ran) + 1 /\ ran'[n] = pkg
    BY <2>2
  <2>4. \A n \in DOMAIN ran' : ran'[n] \in 1 .. next' - 1 /\ Behind(Pipe', ran'[n])
    BY <1>1, <1>2, <2>1, <2>3, Zenon DEF RanBefore
  <2>5. ASSUME NEW m \in DOMAIN ran', NEW n \in DOMAIN ran', m < n PROVE ran'[m] < ran'[n]
    <3>1. m \in 1 .. Len(ran)
      BY <2>2, <2>5
    <3>2. m \in DOMAIN ran /\ ran'[m] = ran[m]
      BY <2>2, <3>1
    <3>3. CASE n \in DOMAIN ran /\ ran'[n] = ran[n]
      BY <2>5, <3>2, <3>3, Zenon DEF RanBefore
    <3>4. CASE ran'[n] = pkg
      BY <2>1, <3>2, <3>4, Zenon
    <3> QED BY <2>3, <3>3, <3>4
  <2> QED BY <2>4, <2>5 DEF RanBefore
<1> QED BY <1>3, <1>4 DEF PollRuns

\* Every step keeps the order.
LEMMA OrderStep ==
  ASSUME FlInv, FlInv', ~overlap, InTurn, FirstsInOrder, RanBefore, Taken, FlNext
  PROVE  InTurn' /\ FirstsInOrder' /\ RanBefore' /\ Taken'
<1>1. InTurn'
  BY TurnStep
<1>2. next \in Nat \ {0} /\ next \in Nat
  BY DEF FirstsInOrder
<1>3. CASE SendFrame \/ Stray
  <2>1. /\ FirstsInOrder' /\ next' >= next
        /\ \A f \in 1 .. next - 1 : Behind(Pipe, f) => Behind(Pipe', f)
    BY <1>3, FixtureAdds
  <2>2. next' \in Nat /\ UNCHANGED <<ran, ppc, cut, pkg, cnt, data>>
    BY <1>3, <2>1 DEF SendFrame, Stray, poll, FirstsInOrder
  <2>3. RanBefore'
    BY <1>2, <2>1, <2>2, HistoryKept
  <2>4. Taken'
    <3>1. 1 .. next - 1 \subseteq 1 .. next' - 1
      <4>1. next \in Nat /\ next' \in Nat /\ next <= next'
        BY <1>2, <2>1, <2>2
      <4> QED BY <4>1, BelowGreater
    <3>2. ASSUME ppc \in {"move", "run"}
          PROVE  pkg \in 1 .. next' - 1 /\ Behind(Pipe', pkg) /\ \A n \in DOMAIN ran : ran[n] < pkg
      BY <2>1, <3>1, <3>2, Zenon DEF Taken
    <3>3. ppc \in {"takeload", "takestore"} =>
            cut \in 1 .. cnt /\ data[0][2] = 1 /\ data[0][1] = pkg
      BY DEF Taken
    <3> QED BY <2>2, <3>2, <3>3 DEF Taken
  <2> QED BY <1>1, <2>1, <2>3, <2>4
<1>4. ASSUME Thread \/ Poll
      PROVE  FirstsInOrder' /\ (\A f : Behind(Pipe, f) => Behind(Pipe', f)) /\ next' = next
  <2>1. FirstsInOrder' /\ \A f : Behind(Pipe, f) => Behind(Pipe', f)
    BY <1>1, <1>4, OrderLeft
  <2>2. next' = next
    BY <1>4 DEF Thread, ThreadReads, ThreadTests, ThreadCopies, ThreadLoads, ThreadStores,
         ThreadArms, ThreadResets, Poll, PollStarts, PollTicks, PollExpires, PollDrops,
         PollLooks, PollFinds, PollLoads, PollStores, PollShifts, PollChecks, PollRuns, fixture
  <2> QED BY <2>1, <2>2
<1>5. ASSUME Thread \/ Poll, UNCHANGED ran PROVE RanBefore'
  <2>1. next' \in Nat /\ next' >= next
    BY <1>2, <1>4, <1>5
  <2>2. \A f \in 1 .. next - 1 : Behind(Pipe, f) => Behind(Pipe', f)
    BY <1>4, <1>5
  <2> QED BY <1>2, <1>5, <2>1, <2>2, HistoryKept
<1>6. CASE Thread
  <2>1. UNCHANGED ran /\ ppc' = "rest"
    BY <1>6 DEF Thread, ThreadReads, ThreadTests, ThreadCopies, ThreadLoads, ThreadStores,
         ThreadArms, ThreadResets, poll, InTurn
  <2>2. Taken'
    BY <2>1 DEF Taken
  <2> QED BY <1>1, <1>4, <1>5, <1>6, <2>1, <2>2
<1>7. CASE Poll
  <2>1. Taken'
    BY <1>1, <1>7, TakenStep
  <2>2. RanBefore'
    <3>1. CASE PollRuns
      BY <1>1, <3>1, RunKeepsOrder
    <3>2. CASE ~PollRuns
      <4>1. UNCHANGED ran
        BY <1>7, <3>2 DEF Poll, PollStarts, PollTicks, PollExpires, PollDrops,
             PollLooks, PollFinds, PollLoads, PollStores, PollShifts, PollChecks
      <4> QED BY <1>5, <1>7, <4>1
    <3> QED BY <3>1, <3>2
  <2> QED BY <1>1, <1>4, <1>7, <2>1, <2>2
<1> QED BY <1>3, <1>6, <1>7 DEF FlNext

\* At first nothing is on its way.
LEMMA OrderInit == FlInit => OrderInv
<1> SUFFICES ASSUME FlInit PROVE InTurn /\ FirstsInOrder /\ RanBefore /\ Taken
  BY DEF OrderInv
<1>1. InTurn
  BY SizeAssumption DEF FlInit, InTurn
<1>2. Laid(Pipe, data, cnt, Shifted, chunk, line)
  BY <1>1, FlInitInv, PipeNow DEF FlInv
<1>3. Len(Pipe) = 0 /\ Pipe \in Seq(Cell)
  BY <1>2 DEF Laid, FlInit
<1>4. DOMAIN Pipe = {}
  BY <1>3
<1>5. FirstsInOrder
  BY <1>4 DEF FirstsInOrder, Rising, Numbered, FlInit
<1>6. RanBefore /\ Taken
  BY DEF FlInit, RanBefore, Taken
<1> QED BY <1>1, <1>5, <1>6

\* The order holds throughout.
LEMMA OrderInvariant == FlSpec => []OrderInv
<1>1. FlInv /\ FlInv' /\ OrderInv /\ [FlNext]_flVars => OrderInv'
  <2> SUFFICES ASSUME FlInv, FlInv', OrderInv, [FlNext]_flVars, ~overlap'
               PROVE  InTurn' /\ FirstsInOrder' /\ RanBefore' /\ Taken'
    BY DEF OrderInv
  <2>1. overlap' = overlap
    BY DEF FlNext, SendFrame, Stray, Thread, ThreadReads, ThreadTests, ThreadCopies,
         ThreadLoads, ThreadStores, ThreadArms, ThreadResets, Poll, PollStarts, PollTicks,
         PollExpires, PollDrops, PollLooks, PollFinds, PollLoads, PollStores, PollShifts,
         PollChecks, PollRuns, flVars, fixture
  <2>2. InTurn /\ FirstsInOrder /\ RanBefore /\ Taken
    BY <2>1 DEF OrderInv
  <2>3. CASE FlNext
    BY <2>1, <2>2, <2>3, OrderStep
  <2>4. CASE UNCHANGED flVars
    <3>1. UNCHANGED <<next, data, cnt, tpc, chunk, treg, line, ppc, cut, preg, pkg, ran>>
      BY <2>4 DEF flVars, fixture, thread, poll
    <3>2. Pipe' = Pipe
      BY <3>1 DEF Pipe, Shifted
    <3>3. InTurn'
      BY <2>2, <3>1 DEF InTurn
    <3> QED BY <2>2, <3>1, <3>2, <3>3, Zenon DEF FirstsInOrder, RanBefore, Taken
  <2> QED BY <2>3, <2>4
<1> QED BY OrderInit, <1>1, FlInvariant, PTL DEF FlSpec

\* When polls do not cut into factory_thread the commands are carried out in
\* the order the fixture sent them and none of them twice, for any frames, any
\* chunks, any noise and whatever is dropped.
THEOREM FlRunsInOrder == FlSpec => []RanInOrder
<1>1. OrderInv => RanInOrder
  BY DEF OrderInv, RanBefore, RanInOrder
<1> QED BY <1>1, OrderInvariant, PTL

---------------------------------------------------------------------------
\* No frame is dropped, when the fixture waits and polls do not cut into
\* factory_thread.

\* Frame f stands in s from cell p on, from its first cell to its last.
FrameAt(s, p, f) ==
  /\ p + Frames[f].len - 1 <= Len(s)
  /\ \A i \in 1 .. Frames[f].len : s[p + i - 1] = <<f, i>>

\* No frame on its way has lost its end.
Entire(s) == \A p \in DOMAIN s : s[p][2] = 1 => FrameAt(s, p, s[p][1])

\* The frames in s are among the k sent last.
Since(s, n, k) == \A p \in DOMAIN s : s[p][2] = 1 => n - k <= s[p][1]

\* A frame starts at q, and behind it there are the last cells of s, as many
\* as the tail has, or more.
There(s, q, tail) == s[q][2] = 1 /\ q + Frames[s[q][1]].len - 1 + tail <= Len(s)

\* No frame that is there is t polls behind the first: each takes one frame.
Soon(s, tail, t) ==
  \A p, q \in DOMAIN s :
    p <= q /\ s[p][2] = 1 /\ There(s, q, tail) => s[q][1] - s[p][1] + 1 <= t

\* sent[n] is the number of cells of the first n frames.
Adds(sent) == \A n \in DOMAIN Frames : n \in Nat \ {0} => sent[n] = sent[n - 1] + Frames[n].len

\* The buffer has room for what the fixture sends without waiting, and it is
\* not dropped before as many polls.
Fits(sent) ==
  /\ Window \in 1 .. Timeout
  /\ \A n \in Nat : \A k \in 0 .. n :
       k <= Window => sent[n] - sent[n - k] + (Window - k) < Size

\* What is on its way was sent since the line and the buffer were empty.
Few(s, n, b, sent) ==
  \E k \in 0 .. b : /\ k < n /\ Since(s, n, k)
                    /\ Len(s) <= sent[n - 1] - sent[n - 1 - k] + (b - k)

\* Where a poll is when it has found a frame.
FirstAt(i) == i < cnt /\ data[i][2] = 1
Stages ==
  /\ tpc # "reset"
  /\ ppc = "tick" => preg = timeout /\ timeout > 0
  /\ ppc \in {"expired", "drop"} => timeout = 0
  /\ ppc = "find" => turn = 3 \/ (turn = 2 /\ FirstAt(0))
  /\ ppc \in {"cutload", "cutstore"} => turn = 2 /\ FirstAt(cut)
  /\ ppc = "shift" => turn = 2 /\ cnt > 0 /\ data[cut][2] = 1
  /\ ppc = "check" => FirstAt(0)

\* A poll that has counted the timeout down has not taken its frame yet.
Polling == {"look", "find", "cutload", "cutstore", "shift", "check", "takeload", "takestore"}
Slack == IF ppc \in Polling THEN 1 ELSE 0
Beyond == Len(chunk) + Len(line)
Timely == tpc # "arm" => Soon(Pipe, Beyond, timeout + Slack)

FewSent(sent) == burst <= Window /\ Few(Pipe, next, burst, sent)
WaitInv(sent) == ~overlap => Entire(Pipe) /\ FewSent(sent) /\ Stages /\ Timely

\* What is left of cells, index by index.
LEMMA RestFacts ==
  ASSUME NEW s \in Seq(Cell), NEW t \in Seq(Cell), Rest(t, s)
  PROVE  \E k \in Nat : /\ Len(s) = Len(t) + k
                        /\ \A i \in DOMAIN t : i \in Nat /\ i + k \in DOMAIN s /\ t[i] = s[i + k]
<1>1. PICK k \in 0 .. Len(s) : /\ Len(t) = Len(s) - k
                               /\ \A i \in 1 .. Len(t) : t[i] = s[i + k]
  BY DEF Rest
<1>2. k \in Nat /\ Len(s) = Len(t) + k
  BY <1>1
<1>3. \A i \in DOMAIN t : i \in Nat /\ i + k \in DOMAIN s /\ t[i] = s[i + k]
  BY <1>1
<1> QED BY <1>2, <1>3

\* A first cell is that of a frame.
LEMMA FirstOfFrame ==
  ASSUME NEW c \in Cell, c[2] = 1
  PROVE  c[1] \in DOMAIN Frames /\ Frames[c[1]].len \in Nat /\ Frames[c[1]].len >= 2
<1>1. c # Noise
  BY DEF Noise
<1>2. PICK f \in DOMAIN Frames : c \in {<<f, i>> : i \in 1 .. Frames[f].len}
  BY <1>1 DEF Cell
<1>3. c[1] = f
  BY <1>2
<1> QED BY <1>3, FramesAssumption

\* What is left of entire frames is entire.
LEMMA RestEntire ==
  ASSUME NEW s \in Seq(Cell), NEW t \in Seq(Cell), Rest(t, s), Entire(s)
  PROVE  Entire(t)
<1>1. PICK k \in Nat : /\ Len(s) = Len(t) + k
                       /\ \A i \in DOMAIN t : i \in Nat /\ i + k \in DOMAIN s /\ t[i] = s[i + k]
  BY RestFacts
<1> SUFFICES ASSUME NEW p \in DOMAIN t, t[p][2] = 1 PROVE FrameAt(t, p, t[p][1])
  BY DEF Entire
<1>2. PICK f \in DOMAIN Frames : f = t[p][1] /\ Frames[f].len \in Nat /\ Frames[f].len >= 2
  <2>1. t[p] \in Cell
    OBVIOUS
  <2> QED BY <2>1, FirstOfFrame
<1>3. p \in Nat /\ p + k \in DOMAIN s /\ s[p + k] = t[p]
  BY <1>1
<1>4. FrameAt(s, p + k, f)
  BY <1>2, <1>3 DEF Entire
<1>5. PICK l \in Nat : l = Frames[f].len
  BY <1>2
<1>6. PICK m \in Nat : m = Len(t)
  OBVIOUS
<1>7. p + k + l - 1 <= m + k /\ \A i \in 1 .. l : s[p + k + i - 1] = <<f, i>>
  BY <1>1, <1>4, <1>5, <1>6 DEF FrameAt
<1>8. p + l - 1 <= m
  BY <1>3, <1>7
<1>9. ASSUME NEW i \in 1 .. l PROVE t[p + i - 1] = <<f, i>>
  <2>1. p \in 1 .. m /\ DOMAIN t = 1 .. m
    BY <1>6
  <2>2. p + i - 1 \in 1 .. m /\ (p + i - 1) + k = p + k + i - 1
    BY <1>8, <2>1
  <2>3. t[p + i - 1] = s[(p + i - 1) + k]
    BY <1>1, <2>1, <2>2
  <2> QED BY <1>7, <2>2, <2>3
<1> QED BY <1>2, <1>5, <1>6, <1>8, <1>9 DEF FrameAt

\* What is left of few cells, of which none is late, is few and not late.
LEMMA RestFewSoon ==
  ASSUME NEW s \in Seq(Cell), NEW t \in Seq(Cell), Rest(t, s)
  PROVE  /\ Len(t) <= Len(s)
         /\ \A n, k : Since(s, n, k) => Since(t, n, k)
         /\ \A tail \in Nat, u \in Int : Soon(s, tail, u) => Soon(t, tail, u)
<1>1. PICK k \in Nat : /\ Len(s) = Len(t) + k
                       /\ \A i \in DOMAIN t : i \in Nat /\ i + k \in DOMAIN s /\ t[i] = s[i + k]
  BY RestFacts
<1>2. Len(t) <= Len(s)
  BY <1>1
<1>3. \A n, m : Since(s, n, m) => Since(t, n, m)
  BY <1>1 DEF Since
<1>4. ASSUME NEW tail \in Nat, NEW u \in Int, Soon(s, tail, u),
             NEW p \in DOMAIN t, NEW q \in DOMAIN t, p <= q, t[p][2] = 1, There(t, q, tail)
      PROVE  t[q][1] - t[p][1] + 1 <= u
  <2>1. /\ p + k \in DOMAIN s /\ q + k \in DOMAIN s /\ t[p] = s[p + k] /\ t[q] = s[q + k]
        /\ p \in Nat /\ q \in Nat
    BY <1>1
  <2>2. PICK l \in Nat : l = Frames[t[q][1]].len /\ l = Frames[s[q + k][1]].len
    <3>1. t[q] \in Cell /\ t[q][2] = 1
      BY <1>4 DEF There
    <3>2. Frames[t[q][1]].len \in Nat
      BY <3>1, FirstOfFrame
    <3> QED BY <2>1, <3>2
  <2>3. PICK m \in Nat : m = Len(t) /\ m + k = Len(s)
    BY SMTT(30), <1>1
  <2>4. t[q][2] = 1 /\ q + l - 1 + tail <= m
    BY <1>4, <2>2, <2>3 DEF There
  <2>5. q + k + l - 1 + tail <= m + k /\ p + k <= q + k
    <3>1. p \in Nat /\ q \in Nat /\ p <= q
      BY <1>4, <2>1
    <3> QED BY ONLY SMTT(30), <2>4, <3>1, k \in Nat, tail \in Nat, l \in Nat, m \in Nat
  <2>6. There(s, q + k, tail)
    BY <2>1, <2>2, <2>3, <2>4, <2>5 DEF There
  <2> QED BY <1>4, <2>1, <2>5, <2>6 DEF Soon
<1>5. \A tail \in Nat, u \in Int : Soon(s, tail, u) => Soon(t, tail, u)
  BY <1>4 DEF Soon
<1> QED BY <1>2, <1>3, <1>5

\* A place behind the first m is one of the l others.
LEMMA InSecond ==
  ASSUME NEW m \in Nat, NEW l \in Nat, NEW p \in 1 .. m + l, p \notin 1 .. m
  PROVE  \E i \in 1 .. l : p = m + i
<1>1. p - m \in 1 .. l /\ p = m + (p - m)
  OBVIOUS
<1> QED BY <1>1, Zenon

\* The cells of a frame, one by one.
LEMMA CellsOfFacts ==
  ASSUME NEW n \in DOMAIN Frames
  PROVE  /\ Len(CellsOf(n)) = Frames[n].len
         /\ \A i \in 1 .. Frames[n].len : CellsOf(n)[i] = <<n, i>>
<1>1. PICK l \in Nat : l = Frames[n].len
  BY FramesAssumption
<1>2. CellsOf(n) \in [1 .. l -> Cell]
  BY <1>1 DEF CellsOf, Cell
<1>3. Len(CellsOf(n)) = l
  BY <1>2, FunctionIsSequence
<1> QED BY <1>1, <1>3 DEF CellsOf

\* The cells of s with those of frame n behind them.
LEMMA MoreCells ==
  ASSUME NEW s \in Seq(Cell), NEW n \in DOMAIN Frames
  PROVE  \E t \in Seq(Cell), m \in Nat, l \in Nat :
           /\ t = s \o CellsOf(n) /\ m = Len(s) /\ l = Frames[n].len /\ Len(t) = m + l
           /\ \A i \in 1 .. m : t[i] = s[i]
           /\ \A i \in 1 .. l : t[m + i] = <<n, i>>
<1>1. PICK c \in Seq(Cell) : c = CellsOf(n)
  BY CellsOfType
<1>2. PICK l \in Nat : l = Frames[n].len
  BY FramesAssumption
<1>3. Len(c) = l /\ \A i \in 1 .. l : c[i] = <<n, i>>
  BY <1>1, <1>2, CellsOfFacts
<1>4. PICK m \in Nat : m = Len(s)
  BY LenProperties
<1>5. PICK t : t = s \o c
  OBVIOUS
<1>6. /\ t \in Seq(Cell) /\ Len(t) = Len(s) + Len(c)
      /\ \A i \in 1 .. Len(s) : t[i] = s[i]
      /\ \A i \in 1 .. Len(c) : t[Len(s) + i] = c[i]
  BY <1>5, JoinFacts
<1>7. /\ Len(t) = m + l /\ \A i \in 1 .. m : t[i] = s[i]
      /\ \A i \in 1 .. l : t[m + i] = <<n, i>>
  BY <1>3, <1>4, <1>6, Zenon
<1> QED BY <1>1, <1>2, <1>4, <1>5, <1>6, <1>7, Zenon

\* A frame is where it was when other cells come behind it.
LEMMA FrameStays ==
  ASSUME NEW s \in Seq(Cell), Entire(s), NEW m \in Nat, m = Len(s),
         NEW t \in Seq(Cell), NEW l \in Nat, Len(t) = m + l,
         \A i \in 1 .. m : t[i] = s[i], NEW p \in 1 .. m, t[p][2] = 1
  PROVE  FrameAt(t, p, t[p][1])
<1>1. p \in DOMAIN s /\ t[p] = s[p] /\ s[p] \in Cell
  OBVIOUS
<1>2. PICK f \in DOMAIN Frames : f = s[p][1] /\ Frames[f].len \in Nat /\ Frames[f].len >= 2
  BY <1>1, FirstOfFrame
<1>3. PICK k \in Nat : k = Frames[f].len
  BY <1>2
<1>4. p + k - 1 <= m /\ \A i \in 1 .. k : s[p + i - 1] = <<f, i>>
  BY <1>1, <1>2, <1>3 DEF Entire, FrameAt
<1>5. p + k - 1 <= m + l
  BY <1>4
<1>6. \A i \in 1 .. k : p + i - 1 \in 1 .. m
  BY <1>4
<1>7. \A i \in 1 .. k : t[p + i - 1] = <<f, i>>
  BY <1>4, <1>6, Zenon
<1>8. FrameAt(t, p, f)
  BY <1>3, <1>5, <1>7 DEF FrameAt
<1> QED BY <1>1, <1>2, <1>8

\* The next frame behind entire frames, ...
LEMMA MoreEntire ==
  ASSUME NEW s \in Seq(Cell), Entire(s), NEW n \in DOMAIN Frames
  PROVE  Entire(s \o CellsOf(n))
<1>1. PICK t \in Seq(Cell), m \in Nat, l \in Nat :
        /\ t = s \o CellsOf(n) /\ m = Len(s) /\ l = Frames[n].len /\ Len(t) = m + l
        /\ \A i \in 1 .. m : t[i] = s[i]
        /\ \A i \in 1 .. l : t[m + i] = <<n, i>>
  BY MoreCells
<1>2. ASSUME NEW p \in DOMAIN t, t[p][2] = 1 PROVE FrameAt(t, p, t[p][1])
  <2>1. CASE p \in 1 .. m
    BY ZenonT(30), <1>1, <1>2, <2>1, FrameStays
  <2>2. CASE p \notin 1 .. m
    <3>1. PICK i \in 1 .. l : p = m + i
      <4>1. p \in 1 .. m + l
        BY <1>1
      <4> QED BY <2>2, <4>1, InSecond
    <3>2. t[p] = <<n, i>>
      BY <1>1, <3>1
    <3>3. i = 1 /\ p = m + 1 /\ t[p][1] = n
      BY <1>2, <3>1, <3>2
    <3>4. p + l - 1 = m + l /\ \A j \in 1 .. l : p + j - 1 = m + j
      <4>1. p = m + 1
        BY <3>3
      <4> QED BY ONLY <4>1, m \in Nat, l \in Nat
    <3>5. \A j \in 1 .. l : t[p + j - 1] = <<n, j>>
      BY <1>1, <3>4
    <3>6. p + l - 1 <= Len(t)
      BY <1>1, <3>4
    <3>7. FrameAt(t, p, n)
      BY <1>1, <3>5, <3>6 DEF FrameAt
    <3> QED BY <3>3, <3>7
  <2> QED BY <2>1, <2>2
<1> QED BY <1>1, <1>2 DEF Entire

\* ... and noise.
LEMMA NoiseEntire ==
  ASSUME NEW s \in Seq(Cell), Entire(s) PROVE Entire(Append(s, Noise))
<1>1. PICK m \in Nat : m = Len(s)
  BY LenProperties
<1>2. Noise \in Cell /\ Noise[2] = 0
  BY DEF Cell, Noise
<1>3. PICK t \in Seq(Cell) : t = Append(s, Noise)
  BY <1>2, AppendProperties
<1>4. /\ Len(t) = m + 1 /\ t[m + 1] = Noise /\ \A i \in 1 .. m : t[i] = s[i]
  BY <1>1, <1>2, <1>3, AppendProperties
<1>5. ASSUME NEW p \in DOMAIN t, t[p][2] = 1 PROVE FrameAt(t, p, t[p][1])
  <2>1. p \in 1 .. m + 1
    BY <1>4
  <2>2. p # m + 1
    BY <1>2, <1>4, <1>5
  <2>3. p \in 1 .. m
    BY <2>1, <2>2
  <2> QED BY <1>1, <1>4, <1>5, <2>3, FrameStays
<1> QED BY <1>3, <1>5 DEF Entire

\* What comes behind the others makes none of them late.
LEMMA MoreSoon ==
  ASSUME NEW s \in Seq(Cell), NEW c \in Seq(Cell), NEW tail \in Nat, NEW u \in Int,
         Soon(s, tail, u)
  PROVE  Soon(s \o c, tail + Len(c), u)
<1>1. PICK t \in Seq(Cell) : t = s \o c
  BY JoinFacts
<1>2. PICK m \in Nat : m = Len(s)
  BY LenProperties
<1>3. PICK l \in Nat : l = Len(c)
  BY LenProperties
<1>4. Len(t) = m + l /\ \A i \in 1 .. m : t[i] = s[i]
  BY <1>1, <1>2, <1>3, JoinFacts
<1>5. ASSUME NEW p \in DOMAIN t, NEW q \in DOMAIN t, p <= q, t[p][2] = 1, There(t, q, tail + l)
      PROVE  t[q][1] - t[p][1] + 1 <= u
  <2>1. t[q] \in Cell /\ t[q][2] = 1
    BY <1>5 DEF There
  <2>2. PICK k \in Nat : k = Frames[t[q][1]].len /\ k >= 2
    BY <2>1, FirstOfFrame
  <2>3. q + k - 1 + (tail + l) <= m + l
    BY <1>4, <1>5, <2>2 DEF There
  <2>4. p \in 1 .. m + l /\ q \in 1 .. m + l /\ p <= q
    BY <1>4, <1>5
  <2>5. p \in 1 .. m /\ q \in 1 .. m /\ q + k - 1 + tail <= m
    <3>1. k >= 2
      BY <2>2
    <3> QED BY ONLY SMTT(30), <2>3, <2>4, <3>1, k \in Nat, l \in Nat, m \in Nat, tail \in Nat
  <2>6. p \in DOMAIN s /\ q \in DOMAIN s /\ t[p] = s[p] /\ t[q] = s[q]
    BY <1>2, <1>4, <2>5
  <2>7. There(s, q, tail)
    BY <1>2, <2>1, <2>2, <2>5, <2>6 DEF There
  <2> QED BY <1>5, <2>6, <2>7 DEF Soon
<1> QED BY <1>1, <1>5, <1>3 DEF Soon

\* With as many polls as frames none is late.
LEMMA FewAreSoon ==
  ASSUME NEW s \in Seq(Cell), NEW n \in Nat, NEW k \in Nat, Since(s, n, k), Numbered(s, n),
         NEW tail \in Nat, NEW u \in Int, k <= u
  PROVE  Soon(s, tail, u)
<1> SUFFICES ASSUME NEW p \in DOMAIN s, NEW q \in DOMAIN s, s[p][2] = 1, s[q][2] = 1
             PROVE  s[q][1] - s[p][1] + 1 <= u
  BY DEF Soon, There
<1>1. s[p][1] \in 1 .. n - 1 /\ s[q][1] \in 1 .. n - 1
  BY DEF Numbered
<1>2. n - k <= s[p][1]
  BY DEF Since
<1> QED BY <1>1, <1>2

\* When the first frame is taken the others have a poll less to wait for.
LEMMA TakenSoon ==
  ASSUME NEW s \in Seq(Cell), NEW t \in Seq(Cell), NEW k \in Nat \ {0}, Len(s) = Len(t) + k,
         \A i \in DOMAIN t : i \in Nat /\ i + k \in DOMAIN s /\ t[i] = s[i + k],
         1 \in DOMAIN s, s[1][2] = 1, Rising(s), NEW n \in Nat, Numbered(s, n),
         NEW tail \in Nat, NEW u \in Int, Soon(s, tail, u + 1)
  PROVE  Soon(t, tail, u)
<1> SUFFICES ASSUME NEW p \in DOMAIN t, NEW q \in DOMAIN t, p <= q, t[p][2] = 1,
                    There(t, q, tail)
             PROVE  t[q][1] - t[p][1] + 1 <= u
  BY DEF Soon
<1>1. /\ p + k \in DOMAIN s /\ q + k \in DOMAIN s /\ t[p] = s[p + k] /\ t[q] = s[q + k]
      /\ p \in Nat /\ q \in Nat /\ p >= 1 /\ q >= 1
  BY SMTT(30)
<1>2. t[q] \in Cell /\ t[q][2] = 1
  BY SMTT(30) DEF There
<1>3. PICK l \in Nat : l = Frames[t[q][1]].len
  BY <1>2, FirstOfFrame
<1>4. PICK m \in Nat : m = Len(t)
  BY LenProperties
<1>5. q + l - 1 + tail <= m
  BY <1>3, <1>4 DEF There
<1>6. q + k + l - 1 + tail <= m + k /\ 1 < p + k /\ 1 <= q + k
  <2>1. p \in Nat /\ q \in Nat /\ p >= 1 /\ q >= 1 /\ k \in Nat /\ k >= 1
    BY <1>1
  <2> QED BY ONLY SMTT(30), <1>5, <2>1, tail \in Nat, l \in Nat, m \in Nat
<1>7. There(s, q + k, tail)
  <2>1. Len(s) = m + k
    BY <1>4
  <2> QED BY <1>1, <1>2, <1>3, <1>6, <2>1 DEF There
<1>8. PICK a, b, c : a = s[1][1] /\ b = s[p + k][1] /\ c = s[q + k][1]
  OBVIOUS
<1>9. a \in 1 .. n - 1 /\ b \in 1 .. n - 1 /\ c \in 1 .. n - 1
  BY <1>1, <1>2, <1>8, Zenon DEF Numbered
<1>10. c - a + 1 <= u + 1
  BY <1>1, <1>6, <1>7, <1>8 DEF Soon
<1>11. a < b
  BY <1>1, <1>6, <1>8 DEF Rising
<1>12. c - b + 1 <= u
  BY ONLY <1>9, <1>10, <1>11, u \in Int, n \in Nat
<1> QED BY <1>1, <1>8, <1>12, Zenon

\* When nothing is on its way nothing was sent.
LEMMA NoneIsFew ==
  ASSUME NEW s \in Seq(Cell), Len(s) = 0, NEW n \in Nat \ {0}, NEW sent \in [Nat -> Nat]
  PROVE  Few(s, n, 0, sent)
<1>1. Since(s, n, 0)
  BY DEF Since
<1>2. 0 \in 0 .. 0 /\ 0 < n /\ n - 1 \in Nat /\ n - 1 - 0 = n - 1
  OBVIOUS
<1>3. Len(s) <= sent[n - 1] - sent[n - 1 - 0] + (0 - 0)
  BY <1>2
<1> QED BY <1>1, <1>2, <1>3 DEF Few

\* What is left of few cells is few.
LEMMA RestIsFew ==
  ASSUME NEW s \in Seq(Cell), NEW t \in Seq(Cell), Rest(t, s), NEW n \in Nat, NEW b \in Nat,
         NEW sent \in [Nat -> Nat], Few(s, n, b, sent)
  PROVE  Few(t, n, b, sent)
<1>1. PICK k \in 0 .. b : /\ k < n /\ Since(s, n, k)
                          /\ Len(s) <= sent[n - 1] - sent[n - 1 - k] + (b - k)
  BY DEF Few
<1>2. Len(t) <= Len(s) /\ Since(t, n, k)
  BY <1>1, RestFewSoon
<1>3. PICK x, y : x = sent[n - 1] /\ y = sent[n - 1 - k]
  OBVIOUS
<1>4. x \in Nat /\ y \in Nat
  BY <1>1, <1>3
<1>5. Len(s) \in Nat /\ Len(t) \in Nat
  BY LenProperties
<1>6. Len(t) <= x - y + (b - k)
  <2>1. Len(s) <= x - y + (b - k) /\ Len(t) <= Len(s)
    BY <1>1, <1>2, <1>3
  <2>2. k \in Int
    OBVIOUS
  <2> QED BY ONLY <1>4, <1>5, <2>1, <2>2, b \in Nat
<1> QED BY <1>1, <1>2, <1>3, <1>6 DEF Few

\* One frame more, and one byte of noise more.
LEMMA MoreIsFew ==
  ASSUME NEW s \in Seq(Cell), NEW n \in Nat \ {0}, NEW b \in Nat, NEW sent \in [Nat -> Nat],
         Adds(sent), Few(s, n, b, sent)
  PROVE  /\ n \in DOMAIN Frames => Few(s \o CellsOf(n), n + 1, b + 1, sent)
         /\ Few(Append(s, Noise), n, b + 1, sent)
<1>1. PICK k \in 0 .. b : /\ k < n /\ Since(s, n, k)
                          /\ Len(s) <= sent[n - 1] - sent[n - 1 - k] + (b - k)
  BY DEF Few
<1>2. PICK x, y : x = sent[n - 1] /\ y = sent[n - 1 - k]
  OBVIOUS
<1>3. x \in Nat /\ y \in Nat /\ k \in Nat
  BY <1>1, <1>2
<1>4. PICK m \in Nat : m = Len(s)
  BY LenProperties
<1>5. m <= x - y + (b - k)
  BY <1>1, <1>2, <1>4
<1>6. ASSUME n \in DOMAIN Frames PROVE Few(s \o CellsOf(n), n + 1, b + 1, sent)
  <2>1. PICK t \in Seq(Cell), w \in Nat, l \in Nat :
          /\ t = s \o CellsOf(n) /\ w = Len(s) /\ l = Frames[n].len /\ Len(t) = w + l
          /\ \A i \in 1 .. w : t[i] = s[i]
          /\ \A i \in 1 .. l : t[w + i] = <<n, i>>
    BY <1>6, MoreCells
  <2>2. w = m
    BY <1>4, <2>1
  <2>3. /\ t = s \o CellsOf(n) /\ Len(t) = m + l /\ \A i \in 1 .. m : t[i] = s[i]
        /\ \A i \in 1 .. l : t[m + i] = <<n, i>>
    BY <2>1, <2>2, Zenon
  <2>4. ASSUME NEW p \in DOMAIN t, t[p][2] = 1 PROVE (n + 1) - (k + 1) <= t[p][1]
    <3>1. CASE p \in 1 .. m
      <4>1. p \in DOMAIN s /\ t[p] = s[p]
        BY <1>4, <2>3, <3>1
      <4>2. n - k <= t[p][1]
        BY <1>1, <2>4, <4>1 DEF Since
      <4> QED BY <1>3, <4>2
    <3>2. CASE p \notin 1 .. m
      <4>1. PICK i \in 1 .. l : p = m + i
        <5>1. p \in 1 .. m + l
          BY <2>3
        <5> QED BY <3>2, <5>1, InSecond
      <4>2. t[p][1] = n
        <5>1. t[p] = <<n, i>>
          BY <2>3, <4>1
        <5> QED BY <5>1
      <4> QED BY <1>3, <4>2
    <3> QED BY <3>1, <3>2
  <2>5. Since(t, n + 1, k + 1)
    BY <2>4 DEF Since
  <2>6. sent[n] = x + l
    BY <1>2, <1>6, <2>1 DEF Adds
  <2>7. /\ k + 1 \in 0 .. b + 1 /\ k + 1 < n + 1
        /\ (n + 1) - 1 = n /\ (n + 1) - 1 - (k + 1) = n - 1 - k
    BY <1>1
  <2>8. m + l <= (x + l) - y + ((b + 1) - (k + 1))
    BY <1>3, <1>5
  <2>9. Len(t) <= sent[(n + 1) - 1] - sent[(n + 1) - 1 - (k + 1)] + ((b + 1) - (k + 1))
    BY <1>2, <2>3, <2>6, <2>7, <2>8
  <2> QED BY <2>3, <2>5, <2>7, <2>9 DEF Few
<1>7. Few(Append(s, Noise), n, b + 1, sent)
  <2>1. Noise \in Cell /\ Noise[2] = 0
    BY DEF Cell, Noise
  <2>2. PICK t \in Seq(Cell) : t = Append(s, Noise)
    BY <2>1, AppendProperties
  <2>3. /\ Len(t) = m + 1 /\ t[m + 1] = Noise /\ \A i \in 1 .. m : t[i] = s[i]
    BY <1>4, <2>1, <2>2, AppendProperties
  <2>4. ASSUME NEW p \in DOMAIN t, t[p][2] = 1 PROVE n - k <= t[p][1]
    <3>1. p \in 1 .. m + 1
      BY <2>3
    <3>2. p # m + 1
      <4>1. p = m + 1 => t[p][2] = 0
        BY <2>1, <2>3, Zenon
      <4> QED BY <2>4, <4>1
    <3>3. p \in 1 .. m
      BY ONLY <3>1, <3>2, m \in Nat
    <3>4. p \in DOMAIN s /\ t[p] = s[p]
      BY <1>4, <2>3, <3>3
    <3> QED BY <1>1, <2>4, <3>4 DEF Since
  <2>5. Since(t, n, k)
    BY <2>4 DEF Since
  <2>6. k \in 0 .. b + 1 /\ m + 1 <= x - y + ((b + 1) - k)
    BY <1>3, <1>5
  <2>7. Len(t) <= sent[n - 1] - sent[n - 1 - k] + ((b + 1) - k)
    BY <1>2, <2>3, <2>6
  <2> QED BY <1>1, <2>2, <2>5, <2>6, <2>7 DEF Few
<1> QED BY <1>6, <1>7

\* Few cells are fewer than the buffer holds.
LEMMA FewFit ==
  ASSUME NEW sent \in [Nat -> Nat], Fits(sent), NEW s \in Seq(Cell), NEW n \in Nat \ {0},
         NEW b \in Nat, b <= Window, Few(s, n, b, sent)
  PROVE  Len(s) < Size
<1>1. PICK k \in 0 .. b : /\ k < n
                          /\ Len(s) <= sent[n - 1] - sent[n - 1 - k] + (b - k)
  BY DEF Few
<1>2. Window \in Nat /\ Size \in Nat
  BY SizeAssumption
<1>3. n - 1 \in Nat /\ k \in 0 .. n - 1 /\ k <= Window
  BY <1>1, <1>2
<1>4. sent[n - 1] - sent[n - 1 - k] + (Window - k) < Size
  BY <1>3 DEF Fits
<1>5. PICK x, y : x = sent[n - 1] /\ y = sent[n - 1 - k]
  OBVIOUS
<1>6. x \in Nat /\ y \in Nat
  BY <1>3, <1>5
<1>7. PICK m \in Nat : m = Len(s)
  BY LenProperties
<1>8. m <= x - y + (b - k) /\ x - y + (Window - k) < Size
  BY <1>1, <1>4, <1>5, <1>7
<1>9. m < Size
  BY ONLY <1>2, <1>3, <1>6, <1>8, b <= Window, b \in Nat, m \in Nat
<1> QED BY <1>7, <1>9

\* More polls are enough when fewer are.
LEMMA SoonEnough ==
  ASSUME NEW s \in Seq(Cell), NEW n \in Nat, Numbered(s, n), NEW tail, NEW u \in Int, NEW v \in Int,
         u <= v, Soon(s, tail, u)
  PROVE  Soon(s, tail, v)
<1> SUFFICES ASSUME NEW p \in DOMAIN s, NEW q \in DOMAIN s, p <= q, s[p][2] = 1, There(s, q, tail)
             PROVE  s[q][1] - s[p][1] + 1 <= v
  BY DEF Soon
<1>1. s[q][1] - s[p][1] + 1 <= u
  BY DEF Soon
<1>2. s[p][1] \in 1 .. n - 1 /\ s[q][1] \in 1 .. n - 1
  BY DEF Numbered, There
<1> QED BY <1>1, <1>2

\* A frame that is there in full starts in the buffer and ends in it.
LEMMA ThereInBuffer ==
  ASSUME FlInv, InTurn, Shifted = 0, NEW q \in DOMAIN Pipe, There(Pipe, q, Beyond)
  PROVE  /\ q \in 1 .. cnt /\ q - 1 \in Index /\ Pipe[q] = data[q - 1]
         /\ q + Frames[Pipe[q][1]].len - 1 <= cnt
<1>1. /\ cnt \in Nat /\ Len(chunk) \in Nat /\ Len(line) \in Nat
  BY PipeTypes
<1>2. Laid(Pipe, data, cnt, 0, chunk, line)
  BY PipeNow DEF FlInv
<1>3. Pipe \in Seq(Cell) /\ Len(Pipe) = cnt + Len(chunk) + Len(line)
  BY <1>2 DEF Laid
<1>4. Pipe[q] \in Cell /\ Pipe[q][2] = 1
  BY <1>3 DEF There
<1>5. PICK l \in Nat : l = Frames[Pipe[q][1]].len /\ l >= 2
  BY <1>4, FirstOfFrame
<1>6. PICK k \in Nat : k = Len(chunk) + Len(line)
  BY <1>1
<1>7. q + l - 1 + k <= cnt + k
  BY <1>1, <1>3, <1>5, <1>6 DEF There, Beyond
<1>8. q \in 1 .. Len(Pipe)
  BY <1>3
<1>9. q \in Nat /\ q >= 1 /\ l >= 2 /\ cnt \in Nat
  BY <1>1, <1>3, <1>5, <1>8
<1>10. q \in 1 .. cnt /\ q + l - 1 <= cnt
  BY ONLY <1>7, <1>9, k \in Nat, l \in Nat
<1>11. q - 1 \in Index
  <2>1. cnt < Size /\ Size \in Nat
    BY SizeAssumption DEF InTurn
  <2> QED BY <1>9, <1>10, <2>1 DEF Index
<1>12. Pipe[q] = data[q - 1 + 0]
  BY <1>2, <1>8, <1>10 DEF Laid, Place
<1>13. q - 1 + 0 = q - 1
  BY <1>9
<1> QED BY <1>5, <1>10, <1>11, <1>12, <1>13

\* Each byte of the buffer is on its way.
LEMMA BufferInPipe ==
  ASSUME FlInv, InTurn, Shifted = 0, NEW i \in Index, i < cnt
  PROVE  i + 1 \in DOMAIN Pipe /\ Pipe[i + 1] = data[i]
<1>1. /\ cnt \in Nat /\ Len(chunk) \in Nat /\ Len(line) \in Nat
  BY PipeTypes
<1>2. Laid(Pipe, data, cnt, 0, chunk, line)
  BY PipeNow DEF FlInv
<1>3. Pipe \in Seq(Cell) /\ Len(Pipe) = cnt + Len(chunk) + Len(line)
  BY <1>2 DEF Laid
<1>4. i \in Nat
  BY SizeAssumption DEF Index
<1>5. i + 1 \in 1 .. Len(Pipe) /\ i + 1 <= cnt /\ (i + 1) - 1 + 0 = i
  BY <1>1, <1>3, <1>4
<1>6. Pipe[i + 1] = data[(i + 1) - 1 + 0]
  BY <1>2, <1>5 DEF Laid, Place
<1> QED BY <1>3, <1>5, <1>6

\* A poll moves on in its order.
LEMMA StageStep ==
  ASSUME FlInv, FlInv', InTurn, InTurn', ~overlap, Stages, Poll
  PROVE  Stages'
<1>0. /\ cnt \in Nat /\ cut \in Nat /\ timeout \in Nat /\ turn \in Nat
      /\ data \in [Index -> Cell] /\ cnt < Size
  <2>1. timeout \in 0 .. Timeout /\ turn \in 0 .. 3 /\ cnt < Size
    BY DEF FlInv, FlTypeOK, InTurn
  <2> QED BY <2>1, PipeTypes, SizeAssumption
<1>1. tpc = "read" /\ tpc' = "read"
  <2>1. tpc = "read"
    <3>1. PollStarts => tpc = "read"
      BY DEF PollStarts
    <3> QED BY DEF InTurn, Poll, PollStarts, PollTicks, PollExpires, PollDrops, PollLooks,
            PollFinds, PollLoads, PollStores, PollShifts, PollChecks, PollRuns
  <2>2. tpc' = tpc \/ tpc' = "read"
    BY DEF Poll, PollStarts, PollTicks, PollExpires, PollDrops, PollLooks,
       PollFinds, PollLoads, PollStores, PollShifts, PollChecks, PollRuns, thread
  <2> QED BY <2>1, <2>2
<1>2. CASE PollStarts
  BY <1>0, <1>1, <1>2 DEF PollStarts, Stages
<1>3. CASE PollTicks \/ PollDrops
  BY <1>1, <1>3 DEF PollTicks, PollDrops, Stages
<1>4. CASE PollExpires
  BY <1>1, <1>4 DEF PollExpires, Stages
<1>5. CASE PollLooks
  BY <1>1, <1>5 DEF PollLooks, Stages
<1>6. CASE PollFinds
  <2>1. UNCHANGED <<cnt, data>> /\ ppc = "find" /\ (turn = 3 \/ (turn = 2 /\ FirstAt(0)))
    BY <1>6 DEF PollFinds, Stages
  <2>2. CASE ppc' = "rest"
    BY <1>1, <2>2 DEF Stages
  <2>3. ASSUME NEW h \in Heads, cut' = h, ppc' = IF h = 0 THEN "check" ELSE "cutload",
               turn' = IF h = 0 THEN 0 ELSE turn - 1
        PROVE  Stages'
    <3>1. h \in Index /\ FirstAt(h) /\ (FirstAt(0) => h = 0)
      <4>1. Heads = LET inside == {i \in Index : i < cnt /\ data[i][2] = 1}
                    IN  {i \in inside : \A j \in inside : i <= j}
        BY <1>0, <2>3, SizeAssumption DEF Heads
      <4>2. h \in Index /\ h < cnt /\ data[h][2] = 1
        BY <2>3, <4>1
      <4>3. FirstAt(0) => h <= 0
        BY <1>0, <2>3, <4>1, SizeAssumption DEF FirstAt, Index
      <4>4. h \in Nat
        BY <4>2, SizeAssumption DEF Index
      <4> QED BY <4>2, <4>3, <4>4 DEF FirstAt
    <3>2. CASE h = 0
      BY <1>1, <2>1, <2>3, <3>1, <3>2 DEF Stages, FirstAt
    <3>3. CASE h # 0
      <4>1. turn' = 2 /\ ppc' = "cutload"
        BY <2>1, <2>3, <3>1, <3>3
      <4> QED BY <1>1, <2>1, <2>3, <3>1, <4>1 DEF Stages, FirstAt
    <3> QED BY <3>2, <3>3
  <2> QED BY <1>6, <2>2, <2>3 DEF PollFinds
<1>7. CASE PollLoads("cutload", "cutstore") \/ PollLoads("takeload", "takestore")
  BY <1>1, <1>7 DEF PollLoads, Stages, FirstAt
<1>8. CASE PollStores("cutstore", "shift")
  <2>1. /\ ppc = "cutstore" /\ ppc' = "shift" /\ preg = cnt /\ cut < cnt
        /\ data[cut][2] = 1 /\ turn = 2 /\ UNCHANGED <<data, cut, turn>>
    BY <1>8 DEF PollStores, Stages, FirstAt, InTurn
  <2>2. cnt' = cnt - cut /\ cnt' > 0
    BY <1>0, <1>8, <2>1 DEF PollStores, Minus16
  <2> QED BY <1>1, <2>1, <2>2 DEF Stages
<1>9. CASE PollShifts("shift", "find")
  <2>1. /\ ppc' = "find" /\ turn = 2 /\ cnt > 0 /\ data[cut][2] = 1 /\ UNCHANGED <<cnt, turn>>
        /\ cut + cnt < Size
        /\ data' = [i \in Index |-> IF i < cnt THEN At(i + cut) ELSE data[i]]
    BY <1>9 DEF PollShifts, Stages, InTurn
  <2>2. 0 \in Index /\ 0 < cnt /\ 0 + cut = cut /\ cut \in Index
    BY <1>0, <2>1, SizeAssumption DEF Index
  <2>3. data'[0] = data[cut]
    BY <2>1, <2>2 DEF At
  <2> QED BY <1>1, <2>1, <2>2, <2>3 DEF Stages, FirstAt
<1>10. CASE PollStores("takestore", "move") \/ PollShifts("move", "run") \/ PollRuns
  BY <1>1, <1>10 DEF PollStores, PollShifts, PollRuns, Stages
<1>11. CASE PollChecks
  BY <1>1, <1>11 DEF PollChecks, Stages
<1> QED
  BY <1>2, <1>3, <1>4, <1>5, <1>6, <1>7, <1>8, <1>9, <1>10, <1>11 DEF Poll

\* A set of natural numbers that is not empty has a least element.
LEMMA LeastOf ==
  ASSUME NEW T \in SUBSET Nat, T # {}
  PROVE  \E m \in T : \A k \in T : m <= k
<1> DEFINE R == {ss \in Nat \X Nat : ss[1] < ss[2]}
<1>1. IsWellFoundedOn(R, Nat)
  BY NatLessThanWellFounded, Zenon DEF OpToRel
<1> HIDE DEF R
<1>2. PICK m \in T : \A k \in T : ~ (<<k, m>> \in R)
  BY <1>1, WFMin, Zenon
<1>3. ASSUME NEW k \in T PROVE m <= k
  <2>1. <<k, m>> \in Nat \X Nat /\ <<k, m>>[1] = k /\ <<k, m>>[2] = m
    OBVIOUS
  <2>2. ~ (k < m)
    BY <1>2, <2>1 DEF R
  <2> QED BY <2>2
<1> QED BY <1>3

\* A poll that finds nothing to take leaves no frame that is there in full.
LEMMA NothingToTake ==
  ASSUME FlInv, InTurn, Entire(Pipe), Stages,
         \/ PollLooks /\ ppc' = "rest"
         \/ PollFinds /\ ppc' = "rest"
         \/ PollChecks /\ ppc' = "rest"
  PROVE  \A q \in DOMAIN Pipe : ~There(Pipe, q, Beyond)
<1>1. /\ cnt \in Nat /\ Size \in Nat /\ cnt < Size /\ data \in [Index -> Cell]
  BY PipeTypes, SizeAssumption DEF InTurn
<1>2. Shifted = 0
  BY DEF PollLooks, PollFinds, PollChecks, Shifted
<1>3. Pipe \in Seq(Cell)
  BY PipeNow DEF FlInv, Laid
<1> SUFFICES ASSUME NEW q \in DOMAIN Pipe, There(Pipe, q, Beyond) PROVE FALSE
  OBVIOUS
<1>4. /\ q \in 1 .. cnt /\ q - 1 \in Index /\ Pipe[q] = data[q - 1]
      /\ q + Frames[Pipe[q][1]].len - 1 <= cnt
  BY <1>2, ThereInBuffer
<1>5. Pipe[q] \in Cell /\ Pipe[q][2] = 1
  BY <1>3 DEF There
<1>6. PICK l \in Nat : l = Frames[Pipe[q][1]].len /\ l >= 2
  BY <1>5, FirstOfFrame
<1>7. q + l - 1 <= cnt
  BY <1>4, <1>6
<1>8. CASE PollLooks /\ ppc' = "rest"
  <2>1. ~(cnt > 0)
    BY <1>8 DEF PollLooks
  <2> QED BY <1>1, <1>4, <2>1
<1>9. CASE PollFinds /\ ppc' = "rest"
  <2>1. q - 1 < cnt
    BY <1>1, <1>4
  <2>2. Heads = LET inside == {i \in Index : i < cnt /\ data[i][2] = 1}
                IN  {i \in inside : \A j \in inside : i <= j}
    BY <1>4, <1>5, <2>1 DEF Heads
  <2>3. turn # 0
    BY <1>9 DEF PollFinds, Stages
  <2>4. ~(cnt > Size)
    BY <1>1
  <2>5. Heads = {}
    <3>1. "check" # "rest" /\ "cutload" # "rest"
      OBVIOUS
    <3> QED BY <1>9, <2>3, <2>4, <3>1 DEF PollFinds
  <2>6. PICK i \in Index : /\ i < cnt /\ data[i][2] = 1
                           /\ \A j \in Index : j < cnt /\ data[j][2] = 1 => i <= j
    <3> DEFINE inside == {i \in Index : i < cnt /\ data[i][2] = 1}
    <3>1. inside \subseteq Nat /\ q - 1 \in inside
      BY <1>4, <1>5, <2>1, SizeAssumption DEF Index
    <3>2. \E i \in inside : \A j \in inside : i <= j
      <4> HIDE DEF inside
      <4> QED BY <3>1, LeastOf
    <3> QED BY <3>2
  <2> QED BY <2>2, <2>5, <2>6
<1>10. CASE PollChecks /\ ppc' = "rest"
  <2>1. 0 \in Index /\ 0 < cnt /\ data[0][2] = 1
    BY <1>1, <1>10 DEF PollChecks, Stages, FirstAt, Index
  <2>2. 0 + 1 = 1
    OBVIOUS
  <2>3. 1 \in DOMAIN Pipe /\ Pipe[1] = data[0]
    BY <1>2, <2>1, <2>2, BufferInPipe
  <2>4. data[0] \in Cell
    BY <1>1, <2>1
  <2>5. PICK f \in DOMAIN Frames : f = data[0][1]
    BY <2>1, <2>4, FirstOfFrame
  <2>6. PICK k \in Nat : k = Frames[f].len /\ k >= 2
    BY <2>5, FramesAssumption
  <2>7. FrameAt(Pipe, 1, f)
    BY <2>1, <2>3, <2>5 DEF Entire
  <2>8. \A i \in 1 .. k : Pipe[1 + i - 1] = <<f, i>>
    BY <2>6, <2>7 DEF FrameAt
  <2>9. \A i \in 1 .. k : Pipe[i] = <<f, i>>
    <3>1. \A i \in 1 .. k : 1 + i - 1 = i
      OBVIOUS
    <3> QED BY <2>8, <3>1
  <2>10. k <= cnt
    <3>1. CASE q = 1
      <4>1. l = k
        BY <1>6, <2>3, <2>5, <2>6, <3>1
      <4> QED BY <1>1, <1>7, <3>1, <4>1
    <3>2. CASE q # 1
      <4>1. q \notin 1 .. k
        <5>1. q \in 1 .. k => Pipe[q][2] = q
          BY <2>9
        <5> QED BY <1>5, <3>2, <5>1
      <4> QED BY <1>1, <1>4, <4>1
    <3> QED BY <3>1, <3>2
  <2>11. ASSUME NEW i \in 1 .. k PROVE At(i - 1) = <<f, i>>
    <3>1. PICK j \in Index : j = i - 1 /\ j + 1 = i /\ j < cnt
      <4>1. i - 1 \in Index /\ (i - 1) + 1 = i /\ i - 1 < cnt
        BY <1>1, <2>10 DEF Index
      <4> QED BY <4>1
    <3>2. Pipe[j + 1] = data[j]
      BY <1>2, <3>1, BufferInPipe
    <3> QED BY <2>9, <3>1, <3>2 DEF At
  <2>12. Sound(f)
    BY <2>6, <2>11 DEF Sound
  <2>13. cnt >= MinPackage /\ Frames[f].len <= cnt
    BY <1>1, <2>6, <2>10 DEF MinPackage
  <2> QED BY <1>10, <2>1, <2>5, <2>12, <2>13 DEF PollChecks
<1> QED BY <1>8, <1>9, <1>10

\* Polls run when factory_thread waits for bytes.
LEMMA PollsApart == ASSUME InTurn, ~overlap, Poll PROVE tpc = "read" /\ chunk = <<>>
<1>1. PollStarts => tpc = "read"
  BY DEF PollStarts
<1>2. tpc = "read"
  BY <1>1 DEF InTurn, Poll, PollStarts, PollTicks, PollExpires, PollDrops, PollLooks,
     PollFinds, PollLoads, PollStores, PollShifts, PollChecks, PollRuns
<1> QED BY <1>2 DEF InTurn

\* The first frame is taken off the buffer.
LEMMA TakeTimely ==
  ASSUME FlInv, FlInv', InTurn, InTurn', ~overlap, FirstsInOrder, Taken,
         PollStores("takestore", "move"), NEW u \in Int, Soon(Pipe, Beyond, u + 1)
  PROVE  Soon(Pipe', Beyond, u)
<1>1. /\ ppc = "takestore" /\ Shifted = 0 /\ Shifted' = cut
      /\ UNCHANGED <<data, chunk, line, cut>> /\ preg = cnt /\ cut <= cnt
  BY DEF PollStores, thread, Shifted, InTurn
<1>2. cut \in 1 .. cnt /\ data[0][2] = 1
  BY <1>1 DEF Taken
<1>3. /\ cnt \in Nat /\ cut \in Nat /\ Len(chunk) \in Nat /\ Len(line) \in Nat
      /\ chunk \in Seq(Cell) /\ line \in Seq(Cell)
  BY PipeTypes
<1>4. PICK m : m = cnt' /\ m = cnt - cut
  BY <1>1, <1>2, <1>3 DEF PollStores, Minus16
<1>5. /\ Laid(Pipe, data, cnt, 0, chunk, line)
      /\ Laid(Pipe', data, m, cut, chunk, line)
  <2>1. /\ Laid(Pipe, data, cnt, Shifted, chunk, line)
        /\ Laid(Pipe', data', cnt', Shifted', chunk', line')
    BY PipeNow, PipeThen DEF FlInv
  <2> QED BY <1>1, <1>4, <2>1, Zenon
<1>6. /\ Pipe \in Seq(Cell) /\ Pipe' \in Seq(Cell)
      /\ Len(Pipe) = cnt + Len(chunk) + Len(line) /\ Len(Pipe') = m + Len(chunk) + Len(line)
  BY <1>5 DEF Laid
<1>7. \A j \in 1 .. Len(Pipe') :
        j \in Nat /\ j + cut \in 1 .. Len(Pipe) /\ Pipe'[j] = Pipe[j + cut]
  <2>1. m = cnt - cut /\ cut <= cnt
    BY <1>1, <1>4
  <2> QED BY <1>3, <1>5, <2>1, CutAway
<1>8. cut \in Nat \ {0} /\ Len(Pipe) = Len(Pipe') + cut
  <2>1. cut >= 1 /\ m = cnt - cut
    BY <1>2, <1>4
  <2> QED BY <1>3, <1>6, <2>1
<1>9. \A i \in DOMAIN Pipe' : i \in Nat /\ i + cut \in DOMAIN Pipe /\ Pipe'[i] = Pipe[i + cut]
  BY <1>6, <1>7
<1>10. 1 \in DOMAIN Pipe /\ Pipe[1][2] = 1
  <2>1. 0 \in Index /\ 0 < cnt /\ 0 + 1 = 1
    BY <1>2, <1>3, SizeAssumption DEF Index
  <2>2. 0 + 1 \in DOMAIN Pipe /\ Pipe[0 + 1] = data[0]
    BY <1>1, <2>1, BufferInPipe
  <2> QED BY <1>2, <2>1, <2>2
<1>11. next \in Nat /\ Rising(Pipe) /\ Numbered(Pipe, next)
  BY DEF FirstsInOrder
<1>12. Beyond \in Nat
  BY <1>3 DEF Beyond
<1> HIDE DEF Pipe, Beyond
<1>13. PICK s, t : s = Pipe /\ t = Pipe'
  OBVIOUS
<1>14. Soon(t, Beyond, u)
  BY <1>6, <1>8, <1>9, <1>10, <1>11, <1>12, <1>13, TakenSoon
<1> QED BY <1>13, <1>14

\* A poll takes the first frame when it counts the timeout down: those behind
\* it need no more polls than there are.
LEMMA PollTimely ==
  ASSUME FlInv, FlInv', InTurn, InTurn', ~overlap, FirstsInOrder, Taken, Entire(Pipe),
         Stages, Timely, Poll
  PROVE  Timely'
<1>1. tpc = "read" /\ chunk = <<>>
  BY PollsApart
<1>2. /\ Beyond \in Nat /\ timeout \in Nat /\ next \in Nat /\ Numbered(Pipe, next)
      /\ cnt \in Nat /\ Len(line) \in Nat /\ Len(chunk) = 0
  <2>1. timeout \in 0 .. Timeout
    BY DEF FlInv, FlTypeOK
  <2> QED BY <1>1, <2>1, PipeTypes, SizeAssumption DEF FirstsInOrder, Beyond
<1>3. Soon(Pipe, Beyond, timeout + Slack)
  BY <1>1 DEF Timely
<1>4. Pipe \in Seq(Cell) /\ Pipe' \in Seq(Cell) /\ Rest(Pipe', Pipe)
  BY PipeNow, PipeThen, PollLeavesRest DEF FlInv, Laid
<1>5. next' = next /\ Numbered(Pipe', next)
  <2>1. FirstsInOrder' /\ next' = next
    BY OrderLeft DEF Poll, PollStarts, PollTicks, PollExpires, PollDrops, PollLooks, PollFinds,
       PollLoads, PollStores, PollShifts, PollChecks, PollRuns, fixture
  <2> QED BY <2>1 DEF FirstsInOrder
<1>6. timeout + Slack \in Int
  BY <1>2 DEF Slack
<1>7. ASSUME timeout' + Slack' \in Int, timeout + Slack <= timeout' + Slack', Beyond' = Beyond
      PROVE  Timely'
  <2>1. Soon(Pipe', Beyond, timeout + Slack)
    BY <1>2, <1>3, <1>4, <1>6, RestFewSoon
  <2>2. PICK t, u, v : t = Pipe' /\ u = timeout + Slack /\ v = timeout' + Slack'
    OBVIOUS
  <2>3. Soon(t, Beyond, v)
    <3>1. /\ t \in Seq(Cell) /\ next \in Nat /\ Numbered(t, next) /\ u \in Int /\ v \in Int
          /\ u <= v /\ Soon(t, Beyond, u)
      BY <1>2, <1>4, <1>5, <1>6, <1>7, <2>1, <2>2
    <3> QED BY <3>1, SoonEnough
  <2> QED BY <1>7, <2>2, <2>3 DEF Timely
<1>8. ASSUME \A q \in DOMAIN Pipe : ~There(Pipe, q, Beyond), Pipe' = Pipe, Beyond' = Beyond
      PROVE  Timely'
  BY <1>8 DEF Timely, Soon
<1>9. CASE PollStarts \/ PollLoads("cutload", "cutstore") \/ PollStores("cutstore", "shift")
           \/ PollShifts("shift", "find") \/ PollLoads("takeload", "takestore")
           \/ PollShifts("move", "run") \/ PollExpires \/ PollDrops
  <2>1. timeout' = timeout /\ chunk' = chunk /\ line' = line
    BY <1>9 DEF PollStarts, PollLoads, PollStores, PollShifts, PollExpires, PollDrops, thread
  <2>2. Slack \in 0 .. 1 /\ Slack' \in 0 .. 1 /\ Slack <= Slack'
    BY <1>9 DEF PollStarts, PollLoads, PollStores, PollShifts, PollExpires, PollDrops, Slack,
       Polling
  <2>3. timeout' + Slack' \in Int /\ timeout + Slack <= timeout' + Slack'
    <3>1. PICK t, x, y : t = timeout /\ x = Slack /\ y = Slack'
      OBVIOUS
    <3>2. t \in Nat /\ x \in 0 .. 1 /\ y \in 0 .. 1 /\ x <= y
      BY <1>2, <2>2, <3>1
    <3>3. t + y \in Int /\ t + x <= t + y
      BY ONLY <3>2
    <3> QED BY <2>1, <3>1, <3>3
  <2> QED BY <1>7, <2>1, <2>3 DEF Beyond
<1>10. CASE PollTicks
  <2>1. /\ chunk' = chunk /\ line' = line /\ timeout' = timeout - 1 /\ Slack = 0 /\ Slack' = 1
    BY <1>10 DEF PollTicks, thread, Slack, Polling, Stages
  <2> QED BY <1>2, <1>7, <2>1 DEF Beyond
<1>11. CASE PollLooks \/ PollFinds \/ PollChecks
  <2>1. UNCHANGED <<timeout, chunk, line, data, cnt>> /\ Slack = 1 /\ Shifted = 0
    BY <1>11 DEF PollLooks, PollFinds, PollChecks, thread, Slack, Polling, Shifted
  <2>2. CASE ppc' = "rest"
    <3>1. \A q \in DOMAIN Pipe : ~There(Pipe, q, Beyond)
      BY <1>11, <2>2, NothingToTake
    <3>2. Shifted' = 0
      BY <2>2 DEF Shifted
    <3>3. Pipe' = Pipe /\ Beyond' = Beyond
      BY <2>1, <3>2 DEF Pipe, Beyond
    <3> QED BY <1>8, <3>1, <3>3
  <2>3. CASE ppc' # "rest"
    <3>1. ppc' \in {"find", "check", "cutload", "takeload"}
      BY <1>11, <2>3 DEF PollLooks, PollFinds, PollChecks
    <3>2. Slack' = 1
      BY <3>1 DEF Slack, Polling
    <3> QED BY <1>2, <1>7, <2>1, <3>2 DEF Beyond
  <2> QED BY <2>2, <2>3
<1>12. CASE PollStores("takestore", "move")
  <2>1. /\ UNCHANGED <<timeout, chunk, line>> /\ Slack = 1 /\ Slack' = 0
    BY <1>12 DEF PollStores, thread, Slack, Polling
  <2>2. Soon(Pipe', Beyond, timeout)
    BY <1>2, <1>3, <1>12, <2>1, TakeTimely
  <2>3. timeout' + Slack' = timeout /\ Beyond' = Beyond
    BY <1>2, <2>1 DEF Beyond
  <2> QED BY <2>2, <2>3 DEF Timely
<1>13. CASE PollRuns
  <2>1. CASE Passes(pkg) /\ Frames[pkg].cmd1 = "reset"
    <3>1. cnt' = 0 /\ line' = <<>> /\ chunk' = <<>>
      BY <1>13, <2>1 DEF PollRuns
    <3>2. Laid(Pipe', data', cnt', Shifted', chunk', line')
      BY PipeThen DEF FlInv
    <3>3. DOMAIN Pipe' = {}
      <4>1. Len(Pipe') = 0 + 0 + 0
        BY <3>1, <3>2 DEF Laid
      <4> QED BY <1>4, <4>1
    <3> QED BY <3>3 DEF Timely, Soon
  <2>2. CASE ~(Passes(pkg) /\ Frames[pkg].cmd1 = "reset")
    <3>1. UNCHANGED <<timeout, chunk, line>> /\ Slack = 0 /\ Slack' = 0
      BY <1>13, <2>2 DEF PollRuns, thread, Slack, Polling
    <3> QED BY <1>2, <1>7, <3>1 DEF Beyond
  <2> QED BY <2>1, <2>2
<1> QED
  BY <1>9, <1>10, <1>11, <1>12, <1>13 DEF Poll

\* A step of factory_thread: what it has put behind the bytes in the buffer is
\* there for as many polls as the timeout counts.
LEMMA ThreadWaits ==
  ASSUME FlInv, FlInv', InTurn, InTurn', ~overlap, FirstsInOrder,
         NEW sent \in [Nat -> Nat], Fits(sent), FewSent(sent), Stages, Timely, Thread
  PROVE  Stages' /\ Timely'
<1>1. /\ ppc = "rest" /\ ppc' = "rest" /\ Slack = 0 /\ Slack' = 0
  <2>1. ThreadReads => ppc = "rest"
    BY DEF ThreadReads
  <2>2. ppc = "rest" /\ UNCHANGED ppc
    BY <2>1 DEF InTurn, Thread, ThreadReads, ThreadTests, ThreadCopies, ThreadLoads,
       ThreadStores, ThreadArms, ThreadResets, poll
  <2> QED BY <2>2 DEF Slack, Polling
<1>2. /\ Beyond \in Nat /\ timeout \in Nat /\ next \in Nat \ {0} /\ Numbered(Pipe, next)
      /\ cnt \in Nat /\ Len(line) \in Nat /\ Len(chunk) \in Nat /\ burst \in Nat
      /\ chunk \in Seq(Cell) /\ line \in Seq(Cell)
  <2>1. timeout \in 0 .. Timeout /\ burst \in Nat
    BY DEF FlInv, FlTypeOK
  <2> QED BY <2>1, PipeTypes, SizeAssumption DEF FirstsInOrder, Beyond
<1>3. /\ Pipe \in Seq(Cell) /\ Pipe' \in Seq(Cell) /\ Rest(Pipe', Pipe)
      /\ Len(Pipe) = cnt + Len(chunk) + Len(line)
  BY PipeNow, PipeThen, ThreadLeavesRest DEF FlInv, Laid
<1>4. tpc # "reset"
  BY DEF Stages
<1>5. Stages'
  <2>1. tpc' # "reset"
    <3>1. CASE ThreadTests
      <4>1. Len(Pipe) < Size
        BY <1>2, <1>3, FewFit DEF FewSent
      <4>2. cnt + Len(chunk) < Size
        <5>1. Size \in Nat
          BY SizeAssumption
        <5> QED BY <1>2, <1>3, <4>1, <5>1
      <4> QED BY <3>1, <4>2 DEF ThreadTests
    <3> QED BY <1>4, <3>1 DEF Thread, ThreadReads, ThreadTests, ThreadCopies, ThreadLoads,
            ThreadStores, ThreadArms, ThreadResets
  <2> QED BY <1>1, <2>1 DEF Stages
<1>6. ASSUME UNCHANGED timeout, Beyond' = Beyond, tpc # "arm" PROVE Timely'
  <2>1. Soon(Pipe, Beyond, timeout)
    BY <1>1, <1>2, <1>6 DEF Timely
  <2>2. Soon(Pipe', Beyond, timeout)
    BY SMTT(30), <1>2, <1>3, <2>1, RestFewSoon
  <2>3. timeout' + Slack' = timeout
    BY <1>1, <1>2, <1>6
  <2> QED BY <1>6, <2>2, <2>3 DEF Timely
<1>7. CASE ThreadReads
  <2>1. PICK n \in 1 .. Chunk : /\ n <= Len(line)
                               /\ chunk' = SubSeq(line, 1, n)
                               /\ line' = SubSeq(line, n + 1, Len(line))
    BY <1>7 DEF ThreadReads
  <2>2. Len(chunk') = n /\ Len(line') = Len(line) - n
    BY <1>2, <2>1, CutInTwo
  <2>3. Len(chunk) = 0
    BY <1>7 DEF ThreadReads, InTurn
  <2>4. Beyond' = Beyond
    BY <1>2, <2>1, <2>2, <2>3 DEF Beyond
  <2>5. UNCHANGED timeout /\ tpc # "arm"
    BY <1>7 DEF ThreadReads
  <2> QED BY <1>5, <1>6, <2>4, <2>5
<1>8. CASE ThreadTests \/ ThreadCopies \/ ThreadLoads
  <2>1. UNCHANGED <<timeout, chunk, line>> /\ tpc # "arm"
    BY <1>8 DEF ThreadTests, ThreadCopies, ThreadLoads
  <2>2. Beyond' = Beyond
    BY <2>1 DEF Beyond
  <2> QED BY <1>5, <1>6, <2>1, <2>2
<1>9. CASE ThreadStores
  BY <1>5, <1>9 DEF ThreadStores, Timely
<1>10. CASE ThreadArms
  <2>1. Pipe' = Pipe /\ Beyond' = Beyond /\ timeout' = Timeout
    <3>1. UNCHANGED <<data, cnt, chunk, line>> /\ Shifted = 0 /\ Shifted' = 0
      BY <1>1, <1>10 DEF ThreadArms, Shifted
    <3> QED BY <1>10, <3>1 DEF ThreadArms, Pipe, Beyond
  <2>2. PICK k \in 0 .. burst : Since(Pipe, next, k)
    BY DEF FewSent, Few
  <2>3. k \in Nat /\ k <= Timeout /\ Timeout \in Int
    BY <1>2, SizeAssumption DEF FewSent, Fits
  <2>4. Soon(Pipe, Beyond, Timeout)
    BY <1>2, <1>3, <2>2, <2>3, FewAreSoon
  <2>5. timeout' + Slack' = Timeout
    BY <1>1, <2>1, <2>3
  <2> QED BY <1>5, <2>1, <2>4, <2>5 DEF Timely
<1>11. ~ThreadResets
  BY <1>4 DEF ThreadResets
<1> QED BY <1>5, <1>7, <1>8, <1>9, <1>10, <1>11 DEF Thread

\* The fixture: it waits in time, and what it sends comes behind the rest.
LEMMA FixtureWaits ==
  ASSUME FlInv, FlInv', InTurn, InTurn', ~overlap, FirstsInOrder, NEW sent \in [Nat -> Nat],
         Adds(sent), Fits(sent), Entire(Pipe), FewSent(sent), Stages, Timely,
         SendFrame \/ Stray
  PROVE  Entire(Pipe') /\ FewSent(sent)' /\ Stages' /\ Timely'
<1>1. UNCHANGED <<data, cnt, timeout, tpc, chunk, ppc, cut, turn, preg>>
  BY DEF SendFrame, Stray, thread, poll
<1>2. Stages'
  BY <1>1 DEF Stages, FirstAt
<1>3. /\ Beyond \in Nat /\ timeout \in Nat /\ next \in Nat \ {0} /\ burst \in Nat
      /\ cnt \in Nat /\ Len(line) \in Nat /\ Len(chunk) \in Nat
      /\ chunk \in Seq(Cell) /\ line \in Seq(Cell)
  <2>1. timeout \in 0 .. Timeout /\ burst \in Nat
    BY DEF FlInv, FlTypeOK
  <2> QED BY <2>1, PipeTypes, SizeAssumption DEF FirstsInOrder, Beyond
<1>4. /\ Pipe \in Seq(Cell) /\ Pipe' \in Seq(Cell)
      /\ Len(Pipe) = cnt + Len(chunk) + Len(line)
  BY PipeNow, PipeThen DEF FlInv, Laid
<1>5. PICK b \in Nat : Few(Pipe, next, b, sent) /\ burst' = b + 1 /\ burst' <= Window
  <2>1. Within
    BY DEF SendFrame, Stray
  <2>2. CASE Empty
    <3>1. Len(chunk) = 0 /\ Len(line) = 0 /\ cnt = 0
      BY <2>2 DEF Empty, InTurn
    <3>2. Few(Pipe, next, 0, sent)
      <4>1. Len(Pipe) = 0
        BY <1>4, <3>1
      <4> QED BY <1>3, <1>4, <4>1, NoneIsFew
    <3>3. burst' = 0 + 1 /\ burst' <= Window
      BY <2>1, <2>2 DEF Within, Fits
    <3> QED BY <3>2, <3>3
  <2>3. CASE ~Empty
    <3>1. burst' = burst + 1 /\ burst < Window /\ Few(Pipe, next, burst, sent)
      BY <2>1, <2>3 DEF Within, FewSent
    <3>2. burst' <= Window
      BY <1>3, <3>1, SizeAssumption
    <3> QED BY <1>3, <3>1, <3>2
  <2> QED BY <2>2, <2>3
<1>6. PICK c \in Seq(Cell) : /\ line' = line \o c /\ Pipe' = Pipe \o c
                             /\ Entire(Pipe') /\ Few(Pipe', next', b + 1, sent)
  <2>1. CASE SendFrame
    <3>1. next \in DOMAIN Frames /\ next' = next + 1 /\ line' = line \o CellsOf(next)
      BY <2>1 DEF SendFrame
    <3>2. Pipe' = Pipe \o CellsOf(next) /\ CellsOf(next) \in Seq(Cell)
      BY <2>1, <3>1, FixtureExtends, CellsOfType
    <3>3. Entire(Pipe')
      BY <1>4, <3>1, <3>2, MoreEntire
    <3>4. Few(Pipe \o CellsOf(next), next + 1, b + 1, sent)
      BY <1>3, <1>4, <1>5, <3>1, MoreIsFew
    <3> QED BY <3>1, <3>2, <3>3, <3>4
  <2>2. CASE Stray
    <3>1. next' = next /\ line' = Append(line, Noise) /\ Pipe' = Append(Pipe, Noise)
      BY <2>2, FixtureExtends DEF Stray
    <3>2. Noise \in Cell /\ <<Noise>> \in Seq(Cell)
      BY DEF Cell
    <3>3. line' = line \o <<Noise>> /\ Pipe' = Pipe \o <<Noise>>
      BY <1>3, <1>4, <3>1, <3>2, AppendIsConcat
    <3>4. Entire(Pipe')
      BY <1>4, <3>1, NoiseEntire
    <3>5. Few(Append(Pipe, Noise), next, b + 1, sent)
      BY <1>3, <1>4, <1>5, MoreIsFew
    <3> QED BY <3>1, <3>2, <3>3, <3>4, <3>5
  <2> QED BY <2>1, <2>2
<1>7. FewSent(sent)'
  BY <1>5, <1>6 DEF FewSent
<1>8. Timely'
  <2> SUFFICES ASSUME tpc # "arm" PROVE Soon(Pipe', Beyond', timeout' + Slack')
    BY <1>1 DEF Timely
  <2>1. Soon(Pipe, Beyond, timeout + Slack) /\ timeout' + Slack' = timeout + Slack
    BY <1>1 DEF Timely, Slack
  <2>2. timeout + Slack \in Int
    BY <1>3 DEF Slack
  <2>3. Soon(Pipe \o c, Beyond + Len(c), timeout + Slack)
    BY <1>3, <1>4, <2>1, <2>2, MoreSoon
  <2>4. Len(line') = Len(line) + Len(c)
    BY <1>3, <1>6, JoinFacts
  <2>5. Beyond' = Beyond + Len(c)
    <3>1. Len(c) \in Nat
      BY LenProperties
    <3> QED BY <1>1, <1>3, <2>4, <3>1 DEF Beyond
  <2> QED BY <1>6, <2>1, <2>3, <2>5
<1> QED BY <1>2, <1>6, <1>7, <1>8

\* Every step keeps the frames entire, few and in time.
LEMMA WaitStep ==
  ASSUME FlInv, FlInv', OrderInv, OrderInv', NEW sent \in [Nat -> Nat], Adds(sent), Fits(sent),
         WaitInv(sent), FlNext
  PROVE  WaitInv(sent)'
<1>1. overlap' = overlap
  BY DEF FlNext, SendFrame, Stray, Thread, ThreadReads, ThreadTests, ThreadCopies,
     ThreadLoads, ThreadStores, ThreadArms, ThreadResets, Poll, PollStarts, PollTicks,
     PollExpires, PollDrops, PollLooks, PollFinds, PollLoads, PollStores, PollShifts,
     PollChecks, PollRuns, fixture
<1> SUFFICES ASSUME ~overlap
             PROVE  Entire(Pipe') /\ FewSent(sent)' /\ Stages' /\ Timely'
  BY <1>1 DEF WaitInv
<1>2. Entire(Pipe) /\ FewSent(sent) /\ Stages /\ Timely
  BY DEF WaitInv
<1>3. InTurn /\ InTurn' /\ FirstsInOrder /\ FirstsInOrder' /\ Taken
  BY <1>1 DEF OrderInv
<1>4. CASE SendFrame \/ Stray
  BY <1>2, <1>3, <1>4, FixtureWaits
<1>5. ASSUME Thread \/ Poll PROVE Entire(Pipe') /\ FewSent(sent)'
  <2>1. UNCHANGED <<next, burst>>
    BY <1>5 DEF Thread, ThreadReads, ThreadTests, ThreadCopies, ThreadLoads, ThreadStores,
       ThreadArms, ThreadResets, Poll, PollStarts, PollTicks, PollExpires, PollDrops,
       PollLooks, PollFinds, PollLoads, PollStores, PollShifts, PollChecks, PollRuns, fixture
  <2>2. Pipe \in Seq(Cell) /\ Pipe' \in Seq(Cell) /\ Rest(Pipe', Pipe)
    BY <1>3, <1>5, PipeNow, PipeThen, ThreadLeavesRest, PollLeavesRest DEF FlInv, Laid
  <2>3. Entire(Pipe')
    BY <1>2, <2>2, RestEntire
  <2>4. next \in Nat /\ burst \in Nat /\ Few(Pipe, next, burst, sent) /\ burst <= Window
    BY <1>2, <1>3 DEF FirstsInOrder, FlInv, FlTypeOK, FewSent
  <2>5. Few(Pipe', next, burst, sent)
    BY <2>2, <2>4, RestIsFew
  <2> QED BY <2>1, <2>3, <2>4, <2>5 DEF FewSent
<1>6. CASE Thread
  <2>1. Stages' /\ Timely'
    BY <1>2, <1>3, <1>6, ThreadWaits
  <2> QED BY <1>5, <1>6, <2>1
<1>7. CASE Poll
  <2>1. Stages'
    BY <1>2, <1>3, <1>7, StageStep
  <2>2. Timely'
    BY <1>2, <1>3, <1>7, PollTimely
  <2> QED BY <1>5, <1>7, <2>1, <2>2
<1> QED BY <1>4, <1>6, <1>7 DEF FlNext

\* At first nothing is on its way.
LEMMA WaitInit ==
  ASSUME NEW sent \in [Nat -> Nat], Fits(sent) PROVE FlInit => WaitInv(sent)
<1> SUFFICES ASSUME FlInit, ~overlap
             PROVE  Entire(Pipe) /\ FewSent(sent) /\ Stages /\ Timely
  BY DEF WaitInv
<1>1. FlInv /\ InTurn
  BY FlInitInv, OrderInit DEF OrderInv
<1>2. Laid(Pipe, data, cnt, Shifted, chunk, line)
  BY <1>1, PipeNow DEF FlInv
<1>3. Pipe \in Seq(Cell) /\ Len(Pipe) = 0
  <2>1. Pipe \in Seq(Cell) /\ Len(Pipe) = 0 + 0 + 0
    BY <1>2 DEF Laid, FlInit
  <2> QED BY <2>1
<1>4. DOMAIN Pipe = {}
  BY <1>3
<1>5. Entire(Pipe) /\ Timely
  BY <1>4 DEF Entire, Timely, Soon
<1>6. FewSent(sent)
  <2>1. next \in Nat \ {0} /\ burst = 0 /\ 0 <= Window
    BY SizeAssumption DEF FlInit
  <2> QED BY <1>3, <2>1, NoneIsFew DEF FewSent
<1>7. Stages
  BY DEF FlInit, Stages
<1> QED BY <1>5, <1>6, <1>7

\* When the timeout is over no frame is there in full.
LEMMA NoneDropped ==
  ASSUME FlInv, InTurn, FirstsInOrder, Stages, Timely, tpc # "arm", ppc = "drop",
         NEW f \in DOMAIN Frames
  PROVE  ~Whole(f)
<1> SUFFICES ASSUME Whole(f) PROVE FALSE
  OBVIOUS
<1>1. PICK l \in Nat : l = Frames[f].len /\ l >= 2
  BY FramesAssumption
<1>2. PICK o \in Index : \A i \in 1 .. l : o + i - 1 < cnt /\ At(o + i - 1) = <<f, i>>
  BY <1>1 DEF Whole
<1>3. /\ cnt \in Nat /\ o \in Nat /\ Len(chunk) \in Nat /\ Len(line) \in Nat
  BY PipeTypes, SizeAssumption DEF Index
<1>4. o < cnt /\ At(o) = <<f, 1>> /\ o + l <= cnt
  <2>1. 1 \in 1 .. l /\ l \in 1 .. l /\ o + 1 - 1 = o
    BY <1>1, <1>3
  <2>2. o + l - 1 < cnt /\ o < cnt /\ At(o) = <<f, 1>>
    BY <1>2, <2>1
  <2> QED BY <1>1, <1>3, <2>2
<1>5. data[o] = <<f, 1>>
  BY <1>4 DEF At
<1>6. Shifted = 0
  BY DEF Shifted
<1>7. o + 1 \in DOMAIN Pipe /\ Pipe[o + 1] = <<f, 1>>
  BY <1>4, <1>5, <1>6, BufferInPipe
<1>8. Len(Pipe) = cnt + Len(chunk) + Len(line)
  BY PipeNow DEF FlInv, Laid
<1>9. There(Pipe, o + 1, Beyond)
  <2>1. (o + 1) + l - 1 + Beyond <= Len(Pipe)
    <3>1. PICK b, c : b = Beyond /\ c = cnt
      OBVIOUS
    <3>2. b \in Nat /\ c \in Nat /\ o + l <= c /\ o \in Nat
      BY <1>3, <1>4, <3>1 DEF Beyond
    <3>3. (o + 1) + l - 1 + b <= c + b
      BY ONLY <3>2, l \in Nat
    <3>4. Len(Pipe) = c + b
      BY <1>3, <1>8, <3>1 DEF Beyond
    <3> QED BY <3>1, <3>3, <3>4
  <2> QED BY <1>1, <1>7, <2>1 DEF There
<1>10. Soon(Pipe, Beyond, 0)
  <2>1. timeout + Slack = 0
    BY DEF Stages, Slack, Polling
  <2> QED BY <2>1 DEF Timely
<1>11. f \in 1 .. next - 1
  <2>1. Pipe[o + 1][1] = f /\ Pipe[o + 1][2] = 1
    BY <1>7
  <2> QED BY <1>7, <2>1 DEF FirstsInOrder, Numbered
<1>12. f - f + 1 <= 0
  <2>1. o + 1 <= o + 1 /\ Pipe[o + 1][1] = f /\ Pipe[o + 1][2] = 1
    BY <1>3, <1>7
  <2> QED BY <1>7, <1>9, <1>10, <2>1 DEF Soon
<1> QED BY <1>11, <1>12

\* When polls do not cut into factory_thread, and the fixture sends no more at
\* a time than the buffer holds and than there are polls before it is dropped,
\* no frame that is there in full is thrown away: by the timeout only bytes
\* without a whole frame are, and the buffer never runs full.
THEOREM FlDropsNoFrame ==
  ASSUME NEW sent \in [Nat -> Nat], Adds(sent), Fits(sent)
  PROVE  FlSpec => DropsNoFrame
<1>1. FlInit => WaitInv(sent)
  BY WaitInit
<1>2. FlInv /\ FlInv' /\ OrderInv /\ OrderInv' /\ WaitInv(sent) /\ [FlNext]_flVars
        => WaitInv(sent)'
  <2> SUFFICES ASSUME FlInv, FlInv', OrderInv, OrderInv', WaitInv(sent), [FlNext]_flVars
               PROVE  WaitInv(sent)'
    OBVIOUS
  <2>1. CASE FlNext
    BY <2>1, WaitStep
  <2>2. CASE UNCHANGED flVars
    <3>1. UNCHANGED <<overlap, next, burst, data, cnt, timeout, tpc, chunk, line, ppc, cut,
                      turn, preg>>
      BY <2>2 DEF flVars, fixture, thread, poll
    <3>2. Pipe' = Pipe /\ Beyond' = Beyond /\ Slack' = Slack
      BY <3>1 DEF Pipe, Shifted, Beyond, Slack
    <3>3. Stages => Stages'
      BY <3>1 DEF Stages, FirstAt
    <3>4. Timely => Timely'
      BY <3>1, <3>2 DEF Timely
    <3>5. FewSent(sent) => FewSent(sent)'
      BY <3>1, <3>2 DEF FewSent
    <3> QED BY <3>1, <3>2, <3>3, <3>4, <3>5 DEF WaitInv
  <2> QED BY <2>1, <2>2
<1>3. FlInv /\ OrderInv /\ WaitInv(sent) /\ [FlNext]_flVars
        => [ \/ ppc = "drop" /\ ppc' # "drop"
             \/ tpc = "reset" /\ tpc' # "reset"
             => overlap \/ \A f \in DOMAIN Frames : ~Whole(f) ]_flVars
  <2> SUFFICES ASSUME FlInv, OrderInv, WaitInv(sent), ~overlap,
                      \/ ppc = "drop" /\ ppc' # "drop"
                      \/ tpc = "reset" /\ tpc' # "reset",
                      NEW f \in DOMAIN Frames
               PROVE  ~Whole(f)
    OBVIOUS
  <2>1. InTurn /\ FirstsInOrder /\ Stages /\ Timely
    BY DEF OrderInv, WaitInv
  <2>2. ppc = "drop" /\ tpc # "reset"
    BY <2>1 DEF Stages
  <2>3. tpc # "arm"
    BY <2>1, <2>2 DEF InTurn
  <2> QED BY <2>1, <2>2, <2>3, NoneDropped
<1> QED BY <1>1, <1>2, <1>3, FlInvariant, OrderInvariant, PTL DEF FlSpec, DropsNoFrame
=============================================================================
