--------------------------- MODULE MCFactoryLink ---------------------------
(* The link to the factory fixture with a buffer of six cells, a count that *)
(* wraps at sixteen, and five frames: one with the start byte 0xFF, of the  *)
(* layer 3, which passes the masks; one of the layer 2, which does not; one *)
(* that restarts the chip.  Three fill the buffer.                          *)
EXTENDS FactoryLink

Read(len) == [cmd0 |-> 33, cmd1 |-> "readsn", len |-> len, sof1 |-> FALSE]

MCFive == <<Read(3), [Read(2) EXCEPT !.sof1 = TRUE, !.cmd0 = 35],
            [Read(2) EXCEPT !.cmd0 = 34],
            [Read(2) EXCEPT !.cmd1 = "reset"], Read(3)>>
===========================================================================
