----------------------------- MODULE MCFileCopy -----------------------------
(***************************************************************************)
(* Files of three, two and one blocks.  Copies: a firmware image with a    *)
(* CRC, acknowledged packet by packet; a patch without a CRC, with two     *)
(* packets in flight; a download that is only discarded, without           *)
(* acknowledgements; and a file that goes to a file system.                *)
(***************************************************************************)
EXTENDS FileCopy

Copy(file, action, crc, ack_period, pipelining) ==
    [file |-> file, action |-> action, crc |-> crc, ack_period |-> ack_period,
     pipelining |-> pipelining]

Lengths == [a |-> 3, b |-> 2, c |-> 1]
SmallCopies ==
    {Copy("a", "APP_IMG", TRUE, 1, 1), Copy("b", "APP_CPATCH", FALSE, 1, 2),
     Copy("c", "DISCARD", FALSE, 0, 0), Copy("c", "WRITE_LITTLEFS", FALSE, 1, 1)}
=============================================================================
