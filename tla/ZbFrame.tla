------------------------------ MODULE ZbFrame ------------------------------
(***************************************************************************)
(* The frames of the serial link to the Zigbee coordinator                 *)
(* (gwzb-esp32-v2.0/app/zb_uart.c): SOF, LEN, CMD0, CMD1, LEN bytes of     *)
(* DATA, and the exclusive or of everything after SOF.                     *)
(*                                                                         *)
(* There are ByteValues bytes, 256 in the code; the two start bytes 0xFE    *)
(* and 0xFF are the two largest bytes of any width.                        *)
(***************************************************************************)
EXTENDS Naturals, Sequences, FiniteSetsExt

CONSTANT ByteValues

ASSUME ByteAssumption ==
  ByteValues \in Nat /\ \E bits \in 2 .. ByteValues : ByteValues = 2 ^ bits

Byte == 0 .. ByteValues - 1
ZB_SOF_FLAG == ByteValues - 2
ZB_SOF_FLAG1 == ByteValues - 1
ZB_MIN_PACKAGE_SIZE == 5

\* The exclusive or of two bytes, and osGetXOR over a sequence of them.
Xor ==
  LET Bits == {i \in 0 .. ByteValues : 2 ^ i < ByteValues}
      Bit(n, i) == (n \div 2 ^ i) % 2
      Differ(a, b) == {i \in Bits : Bit(a, i) # Bit(b, i)}
  IN  [a, b \in Byte |-> MapThenSumSet(LAMBDA i : 2 ^ i, Differ(a, b))]

osGetXOR(s) ==
  LET upTo[i \in 0 .. Len(s)] == IF i = 0 THEN 0 ELSE Xor[upTo[i - 1], s[i]]
  IN  upTo[Len(s)]

\* What the receiver is handed of a frame.
Frame(cmd0, cmd1, data) == [CMD0 |-> cmd0, CMD1 |-> cmd1, DATA |-> data]

\* package: the bytes of a frame.
package(f) ==
  LET body == <<Len(f.DATA), f.CMD0, f.CMD1>> \o f.DATA
  IN  <<ZB_SOF_FLAG>> \o body \o <<osGetXOR(body)>>

\* package_length of the bytes s, in the width of a byte.
package_length(s) == (s[2] + ZB_MIN_PACKAGE_SIZE) % ByteValues

\* check_package: the lengths it may return for s, 0 for no frame.  When the
\* byte LEN made the length wrap, the sum is taken of other memory and may
\* come out right or wrong.
check_package(s) ==
  IF Len(s) <= ZB_MIN_PACKAGE_SIZE THEN {0}
  ELSE LET slen == package_length(s)
       IN  IF slen > Len(s) THEN {0}
           ELSE IF s[1] = ZB_SOF_FLAG1 THEN {slen}
           ELSE IF s[1] # ZB_SOF_FLAG THEN {0}
           ELSE IF slen < ZB_MIN_PACKAGE_SIZE THEN {0, slen}
           ELSE IF osGetXOR(SubSeq(s, 2, slen - 1)) = s[slen] THEN {slen}
           ELSE {0}

\* The frame in the first slen bytes of s as the caller of read_package sees
\* it; a wrapped length leaves fields that were never filled.
NotFilled == [CMD0 |-> 0, CMD1 |-> 0, DATA |-> <<"not filled">>]

Unpacked(s, slen) ==
  IF slen < ZB_MIN_PACKAGE_SIZE THEN NotFilled
  ELSE Frame(s[3], s[4], SubSeq(s, 5, slen - 1))

\* find_head and the loop around it: what is in front of the first start byte
\* is dropped; bytes without one stay.  A set of one sequence.
Heads(s) == {i \in DOMAIN s : s[i] \in {ZB_SOF_FLAG, ZB_SOF_FLAG1}}

Aligned(s) ==
  IF Heads(s) = {} THEN {s}
  ELSE {SubSeq(s, i, Len(s)) : i \in {h \in Heads(s) : \A g \in Heads(s) : h <= g}}
============================================================================
