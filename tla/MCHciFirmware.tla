--------------------------- MODULE MCHciFirmware ---------------------------
(***************************************************************************)
(* Images of up to three records: whole, cut in a header, cut in the       *)
(* parameters, with a record that just fits a packet of 8 bytes and one    *)
(* that does not (once with parameters that look like a record), and with  *)
(* a wrong first byte.                                                     *)
(***************************************************************************)
EXTENDS HciFirmware

Record(op, n) == << op, 252, n >> \o [k \in 1 .. n |-> 10 * n + k]

SomeImages ==
  LET whole == {Record(76, n) \o Record(78, k) : n, k \in 0 .. 5} \union
               {Record(76, 1) \o Record(76, n) \o Record(78, 0) : n \in {0, 4, 5}}
      long == Record(76, 2) \o Record(76, 4) \o Record(78, 1)
  IN whole \union {SubSeq(long, 1, n) : n \in 1 .. Len(long)} \union
     {Record(77, 1), << 76, 252, 5, 1, 1, 1, 1, 1 >>}
=============================================================================
