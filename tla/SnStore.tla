------------------------------ MODULE SnStore ------------------------------
(***************************************************************************)
(* The serial number of the gateway (pluto/fs/pluto_file_system.c,         *)
(* pluto_write_sn and pluto_read_sn): three copies in the non-volatile     *)
(* store, each with a mark and a checksum, written one after the other and *)
(* read in the same order until one is sound.                              *)
(*                                                                         *)
(* Writing one copy (pluto_nvs_write) takes two steps of the store:        *)
(* nvs_set_blob and nvs_commit.  When the program stops in between, by a   *)
(* power failure or because ESP_ERROR_CHECK aborts it, the copy is the old *)
(* one, the new one or not sound.  When nvs_open fails, a copy is left out *)
(* and pluto_write_sn does not tell its caller.  Nobody reads while a      *)
(* number is written: both run on the thread of the Pluto operating layer. *)
(***************************************************************************)
EXTENDS Naturals

CONSTANTS
  Sn,       \* serial numbers
  NoSn,     \* what pluto_read_sn returns when no copy is sound
  MaxHarm   \* harms between two writes that stored all three copies

ASSUME SnAssumption == NoSn \notin Sn /\ MaxHarm \in Nat

VARIABLES
  opens,    \* nvs_open never fails; chosen at start, never changed
  copy,     \* bk_sn0, bk_sn1, bk_sn2: a serial number, or NoSn when not sound
  psn,      \* the number pluto_write_sn writes, NoSn when it does not run
  next,     \* the copy it writes next
  dirty,    \* that copy is being replaced
  skipped,  \* history: the copies this write left out
  harm      \* history: interrupted writes, copies left out and copies
            \* damaged since a write was whole

snVars == <<opens, copy, psn, next, dirty, skipped, harm>>

Copies == 0 .. 2

SnInit ==
  /\ opens \in BOOLEAN
  /\ copy = [i \in Copies |-> NoSn]
  /\ psn = NoSn /\ next = 0 /\ dirty = FALSE
  /\ skipped = {} /\ harm = 0

\* Mutant: the other copies are not looked at.
ReadFirstOnly == copy[0]

\* pluto_read_sn: the first copy with the mark and the right checksum.
pluto_read_sn ==
  IF copy[0] # NoSn THEN copy[0]
  ELSE IF copy[1] # NoSn THEN copy[1]
  ELSE copy[2]

---------------------------------------------------------------------------

\* pluto_write_sn is called and has its block of memory; without one it
\* returns at once.
WriteSn(v) ==
  /\ psn = NoSn
  /\ psn' = v
  /\ UNCHANGED <<opens, copy, next, dirty, skipped, harm>>

\* pluto_nvs_write of the next copy: nvs_set_blob ...
SetBlob ==
  /\ psn # NoSn /\ next \in Copies /\ ~dirty
  /\ dirty' = TRUE
  /\ UNCHANGED <<opens, copy, psn, next, skipped, harm>>

\* pluto_nvs_write when nvs_open fails: the copy is left as it is.
OpenFails ==
  /\ psn # NoSn /\ next \in Copies /\ ~dirty
  /\ ~opens /\ harm < MaxHarm
  /\ next' = next + 1
  /\ skipped' = skipped \cup {next} /\ harm' = harm + 1
  /\ UNCHANGED <<opens, copy, psn, dirty>>

\* ... and nvs_commit.
Commit ==
  /\ dirty
  /\ copy' = [copy EXCEPT ![next] = psn]
  /\ dirty' = FALSE /\ next' = next + 1
  /\ UNCHANGED <<opens, psn, skipped, harm>>

\* pluto_write_sn returns osSucceed, whether every copy was stored or not.
WriteReturns ==
  /\ psn # NoSn /\ next = 3
  /\ psn' = NoSn /\ next' = 0 /\ skipped' = {}
  /\ harm' = IF skipped = {} THEN 0 ELSE harm
  /\ UNCHANGED <<opens, copy, dirty>>

\* The program stops while a number is written.
Interrupted ==
  /\ psn # NoSn /\ harm < MaxHarm
  /\ IF dirty
     THEN \E c \in {copy[next], psn, NoSn} : copy' = [copy EXCEPT ![next] = c]
     ELSE UNCHANGED copy
  /\ psn' = NoSn /\ next' = 0 /\ dirty' = FALSE
  /\ skipped' = {} /\ harm' = harm + 1
  /\ UNCHANGED opens

\* A copy is damaged in the flash; its checksum or its mark is wrong now.
Damaged(i) ==
  /\ psn = NoSn /\ harm < MaxHarm
  /\ copy' = [copy EXCEPT ![i] = NoSn]
  /\ harm' = harm + 1
  /\ UNCHANGED <<opens, psn, next, dirty, skipped>>

SnNext ==
  \/ \E v \in Sn : WriteSn(v)
  \/ SetBlob \/ Commit \/ OpenFails \/ WriteReturns
  \/ Interrupted
  \/ \E i \in Copies : Damaged(i)

SnSpec == SnInit /\ [][SnNext]_snVars

---------------------------------------------------------------------------

SnTypeOK ==
  /\ opens \in BOOLEAN
  /\ copy \in [Copies -> Sn \cup {NoSn}]
  /\ psn \in Sn \cup {NoSn}
  /\ next \in 0 .. 3
  /\ dirty \in BOOLEAN
  /\ skipped \subseteq Copies
  /\ harm \in 0 .. MaxHarm

\* The copies in front of the one being written hold the new number, unless
\* they were left out; while nothing was harmed all others hold the same old
\* one.
CopiesAgree ==
  /\ \A i \in Copies \ skipped : i < next => copy[i] = psn
  /\ harm = 0 => \A i, j \in Copies : i >= next /\ j >= next => copy[i] = copy[j]

\* The inductive invariant.
SnInv ==
  /\ SnTypeOK /\ CopiesAgree
  /\ opens \/ harm = 0 => skipped = {}
  /\ psn = NoSn => next = 0 /\ ~dirty
  /\ dirty => next \in Copies

Register == INSTANCE SnRegister WITH
  firm <- opens, value <- pluto_read_sn, writing <- psn

\* With one harm at most between two whole writes the three copies are a
\* register: an interrupted write has happened or has not, what was read once
\* is not lost and no older number comes back; and when nvs_open never fails
\* a write that has returned is what is read.
ImplementsRegister == Register!RegSpec
============================================================================
