------------------------------- MODULE MCWire -------------------------------
(* Instances of Wire for TLC.                                              *)
EXTENDS Wire

\* The last length of each form and the first of the next.
MCLengths == {0, 125, 126, 65535, 65536}

Frame(op, form, len) == [op |-> op, form |-> form, len |-> len, masked |-> TRUE]

\* The last length of two octets and the first that needs eight, one of 2^32 + 5,
\* a frame without a mask, and a close.
MCClients ==
    {Frame(opcodePing, 2, BigEndian(65535, 8)), Frame(opcodeText, 8, BigEndian(65536, 8)),
     Frame(opcodeText, 8, <<0, 0, 0, 1, 0, 0, 0, 5>>),
     [Frame(opcodeText, 0, BigEndian(1, 8)) EXCEPT !.masked = FALSE],
     Frame(opcodeClose, 0, BigEndian(0, 8))}
=============================================================================
