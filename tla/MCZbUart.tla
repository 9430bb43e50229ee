----------------------------- MODULE MCZbUart -----------------------------
(* The serial link with bytes of four bits: an empty report and an answer   *)
(* with a start byte in its data.                                           *)
EXTENDS ZbUart

Report == Frame(1, 1, <<>>)
Answer == Frame(2, 1, <<ZB_SOF_FLAG>>)

MCFrames == {Report, Answer}
MCAsked == {<<2, 1>>}
===========================================================================
