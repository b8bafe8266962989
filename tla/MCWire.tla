------------------------------- MODULE MCWire -------------------------------
(* Wire with bytes of 16 values, ints and size_t of two bytes.             *)
EXTENDS Wire

CONSTANTS client1, client2

MCClients == {client1, client2}
\* Paths of two and of four bytes; op_codes may appear in a path.
MCPaths == {<<8, 11, 0, 13>>, <<8, 8, 8, 0>>}
MCInts == {1, 20}
\* The last of them fills its message.
MCContents == {<<>>, <<13, 10, 13>>, <<13, 10, 13, 11>>}

\* When a write has filled its message, the end of the pipe is read as the same
\* request again, without end.
MCBound == Padded \/ Len(served) <= Len(sent)
=============================================================================
