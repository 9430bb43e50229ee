----------------------------- MODULE MCAppTask -----------------------------
(* Two keys and holds of 2, 4 and 3 ticks in place of 4, 8 and 5 seconds,   *)
(* rounds of the timers late by a tick in a hold, which is the whole margin *)
(* between the two resets, two offline reports, and a watchdog that takes   *)
(* longer than the longest hold, counted with the restart behind it.        *)
EXTENDS AppTask
===========================================================================
