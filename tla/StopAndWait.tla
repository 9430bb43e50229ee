---------------------------- MODULE StopAndWait ----------------------------
(***************************************************************************)
(* What the send list promises its callers, without lists, timers and      *)
(* sequence numbers: commands wait, one of them at a time is being sent,   *)
(* it is sent MaxTry times at most, and any number of commands may be      *)
(* dropped at any moment (answered or given up).  A dropped command is not *)
(* sent again.                                                             *)
(***************************************************************************)
EXTENDS Naturals

CONSTANTS Block, MaxTry

VARIABLES
  waiting,   \* commands that have not been sent yet
  current,   \* the command being sent: a set with at most one element
  tries      \* how often it has been sent

swVars == <<waiting, current, tries>>

SWInit == waiting = {} /\ current = {} /\ tries = 0

Submit(b) ==
  /\ b \notin waiting \cup current
  /\ waiting' = waiting \cup {b}
  /\ UNCHANGED <<current, tries>>

\* The first transmission of a command, while no other is being sent.
Begin(b) ==
  /\ current = {} /\ b \in waiting
  /\ current' = {b} /\ waiting' = waiting \ {b}
  /\ tries' = 1

Again(b) ==
  /\ current = {b} /\ tries < MaxTry
  /\ tries' = tries + 1
  /\ UNCHANGED <<waiting, current>>

Drop(S) ==
  /\ waiting' = waiting \ S
  /\ current' = current \ S
  /\ tries' = IF current \subseteq S THEN 0 ELSE tries

SWNext ==
  \/ \E b \in Block : Submit(b) \/ Begin(b) \/ Again(b)
  \/ \E S \in SUBSET Block : Drop(S)

SWSpec == SWInit /\ [][SWNext]_swVars
============================================================================
