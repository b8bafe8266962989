----------------------------- MODULE MCP1Test -----------------------------
(* The threads of P1/test/testes_3.c, two of its five: each one creates the *)
(* same file, writes it, closes it, opens it again and reads it.            *)
EXTENDS MCP1FS

MCTestNames == {fileA}
MCTestPartial == [n \in MCTestNames |-> {}]
MCTestCalls == [t \in MCThreads |-> 5]
Written == 3            \* of the 15 bytes that the test writes
TestCalls(t) ==
    \/ calls[t] = 0 /\ tfs_open(t, fileA, {"TFS_O_CREAT"})
    \/ calls[t] = 1 /\ \E h \in held[t] : tfs_write(t, h, Written)
    \/ calls[t] = 2 /\ \E h \in held[t] : tfs_close(t, h)
    \/ calls[t] = 3 /\ tfs_open(t, fileA, {})
    \/ calls[t] = 4 /\ \E h \in held[t] : tfs_read(t, h, Written + 1)

TestNext == ~faulted /\ \E t \in Threads : Step(t) \/ TestCalls(t)
TestSpec == Init /\ [][TestNext]_vars

\* What a thread reads of the file that it has written is at least what it wrote:
\* the strcmp that testes_3.c asserts cannot give 0 for a shorter string.
ReadsBack == \A t \in Threads : At(t, "read_chunk") => call[t].total >= Written
=============================================================================
