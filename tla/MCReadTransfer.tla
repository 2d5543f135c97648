--------------------------- MODULE MCReadTransfer ---------------------------
(***************************************************************************)
(* Requests of ReadTransfer for TLC.                                         *)
(***************************************************************************)
EXTENDS ReadTransfer

CONSTANTS c1, c2

TwoCmds == {c1, c2}
SecondCmd == {c2}

Req(op, lun, lba, len, transLen, list) ==
    [op |-> op, lun |-> lun, lba |-> lba, len |-> len, transLen |-> transLen, list |-> list]

\* A buffer in two parts, the second at lower addresses
Scattered == <<[base |-> 4, len |-> 1], [base |-> 1, len |-> 3]>>

\* Reads of two blocks into one buffer and into a scattered one, an odd amount of
\* control data, a command without data, and the reads that the disk refuses.
SomeRequests ==
    { Req("READ_10", 0, 0, 2, 4, Scattered), Req("READ_6", 1, 1, 1, 2, <<>>),
      Req("INQUIRY", 0, 0, 0, 3, <<>>), Req("TEST_UNIT_READY", 1, 0, 0, 0, <<>>),
      Req("READ_6", 0, 0, 0, 512, <<>>), Req("READ_10", 0, 2, 2, 4, <<>>),
      Req("other", 2, 0, 0, 0, <<>>) }
=============================================================================
