---------------------------- MODULE SnRegister ----------------------------
(***************************************************************************)
(* What the store of the serial number promises: a register.  A write is   *)
(* begun, takes effect at one moment, and is over; when the power fails    *)
(* while it is under way it has taken effect or it has not.  When the      *)
(* store is not firm a write may be over without having taken effect.      *)
(***************************************************************************)
CONSTANTS Sn, NoSn

VARIABLES firm,     \* every write that is over has taken effect
          value,    \* what a read returns
          writing   \* the number being written, NoSn when none is

regVars == <<firm, value, writing>>

RegInit == firm \in BOOLEAN /\ value = NoSn /\ writing = NoSn

Begin(v) == writing = NoSn /\ writing' = v /\ UNCHANGED <<firm, value>>

TakeEffect == writing # NoSn /\ value' = writing /\ UNCHANGED <<firm, writing>>

\* The call returns.
Done ==
  /\ writing # NoSn /\ (firm => value = writing)
  /\ writing' = NoSn /\ UNCHANGED <<firm, value>>

\* The power fails, or the flash is damaged.
Cut ==
  /\ writing' = NoSn /\ UNCHANGED firm
  /\ value' = value \/ (writing # NoSn /\ value' = writing)

RegNext == (\E v \in Sn : Begin(v)) \/ TakeEffect \/ Done \/ Cut

RegSpec == RegInit /\ [][RegNext]_regVars
===========================================================================
