------------------------ MODULE MCTecnicoFSContract ------------------------
(* TecnicoFSContract on a small disk: three valid names, two entries, and  *)
(* a name too long to be stored, in a valid path and in a relative one.    *)
EXTENDS TecnicoFSContract, TLC

CONSTANTS empty, name1, name2, name3, long, cut, zero, a

MCSubNames == {empty, name1, name2, name3, long, cut}
MCStored == [n \in MCSubNames |-> IF n = long THEN cut ELSE n]
MCPaths == {[absolute |-> TRUE, sub |-> n] : n \in {name1, name2, name3, long}}
           \cup {[absolute |-> FALSE, sub |-> long]}
MCBytes == {zero, a}
MCBuffers == {<<a>>, <<zero, zero, a>>}
MCLens == {1, 2}

\* Nothing tells the names apart.
NameSymmetry == Permutations({name1, name2, name3})
\* No operation reads reply: states that differ there only are one state.
ViewWithoutReply == <<tables, openFiles, faulted>>
=============================================================================
