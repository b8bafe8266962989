---------------------------- MODULE MCTecnicoFS ----------------------------
(* TecnicoFS on a small disk, with callers that follow no rule.            *)
EXTENDS TecnicoFS

CONSTANTS empty, f, long, short   \* names: long is cut to short
CONSTANTS zero, a

MCSubNames == {empty, f, long, short}
MCStored == [n \in MCSubNames |-> IF n = long THEN short ELSE n]
Valid(n) == [absolute |-> TRUE, sub |-> n]
MCPaths == {Valid(f), Valid(empty), [absolute |-> FALSE, sub |-> f], Valid(long)}
MCBytes == {zero, a}
MCBuffers == {<<a>>, <<zero, zero, a>>}
MCLens == {0, 2}

\* No operation reads reply: states that differ there only are one state.
ViewWithoutReply == <<tables, openFiles, faulted>>
=============================================================================
