------------------------------ MODULE MCP1FS ------------------------------
(* P1FS with two threads and a few names.                                  *)
EXTENDS P1FS, TLC

CONSTANTS fileA, fileB, cut   \* cut: the beginning of both names
CONSTANTS thread1, thread2

MCThreads == {thread1, thread2}
MCOpenFlags == {{}, {"TFS_O_TRUNC"}, {"TFS_O_CREAT", "TFS_O_APPEND"}}

MCNames == {fileA, fileB}
MCLens == {3}

\* P1Data: all the rules, three calls and two.  The second thread creates or
\* truncates, and then writes or closes; copies are left to P1Shared.
MCWhole == [n \in MCNames |-> {}]
MCCalls == thread1 :> 3 @@ thread2 :> 2
MCRules == {"truncate_alone", "truncate_nonempty", "below_maximum", "own_handles"}
MCBound ==
    /\ call[thread1].op # "copy" /\ call[thread2].op \notin {"copy", "read"}
    /\ call[thread2].op = "open" => call[thread2].flags # {} /\ calls[thread2] = 1
MCSymmetry == Permutations(MCNames)

\* P1Shared: names seen in part, handles that threads share.
MCPartial == [n \in MCNames |-> {cut}]
MCTwoCalls == [t \in MCThreads |-> 2]
MCSharedRules == {"truncate_alone", "truncate_nonempty"}
=============================================================================
