----------------------------- MODULE FileStore -----------------------------
(***************************************************************************)
(* What P2/fs promises its callers, as P2/fs/operations.h words it: a set   *)
(* of named files, each a sequence of bytes, and handles that point at a    *)
(* position of one of them.  No i-node, block or directory entry is left.   *)
(*                                                                         *)
(* The promise holds for callers who keep three rules.  Two are the guards  *)
(* of Open, Read and Write here: they truncate no file in which an open     *)
(* handle has moved, and read and write through open handles only.  The     *)
(* third is what a name is: they create files under valid names that are    *)
(* not too long to be stored.                                               *)
(***************************************************************************)
EXTENDS Integers, Sequences, FiniteSets

CONSTANTS
    Names,          \* of files
    Handles,        \* the handles there are
    MaxFiles,       \* how many files fit
    MaxFileSize,    \* how long a file may grow
    Buffers, Lens   \* what is written, how much is asked for

VARIABLES
    files,      \* from the names that exist to the bytes of each file
    handles,    \* Closed, or the file and position of an open handle
    reply       \* what the last operation returned

vars == <<files, handles, reply>>

Closed == [file |-> "none", pos |-> -1]
At(n, p) == [file |-> n, pos |-> p]
IsOpen(h) == h \in Handles /\ handles[h] # Closed

Least(m, n) == IF m < n THEN m ELSE n
Reply(n) == reply' = [ret |-> n, data |-> <<>>]

Init ==
    /\ files = [n \in {} |-> <<>>]
    /\ handles = [h \in Handles |-> Closed]
    /\ reply = [ret |-> 0, data |-> <<>>]

\* A handle at position p of file n, when one is left.
Grant(n, p) ==
    \/ /\ \A h \in Handles : IsOpen(h)
       /\ Reply(-1) /\ UNCHANGED handles
    \/ \E h \in Handles :
           /\ ~IsOpen(h)
           /\ handles' = [handles EXCEPT ![h] = At(n, p)]
           /\ Reply(h)

OpenExisting(n, flags) ==
    /\ n \in DOMAIN files
    /\ IF "TFS_O_TRUNC" \in flags
       THEN /\ \A h \in Handles :
                   IsOpen(h) /\ handles[h].file = n => handles[h].pos = 0
            /\ files' = [files EXCEPT ![n] = <<>>]
       ELSE UNCHANGED files
    /\ Grant(n, IF "TFS_O_APPEND" \in flags THEN Len(files'[n]) ELSE 0)

OpenMissing(n, flags) ==
    /\ n \notin DOMAIN files
    /\ IF "TFS_O_CREAT" \in flags /\ Cardinality(DOMAIN files) < MaxFiles
       THEN /\ files' = [m \in DOMAIN files \cup {n} |->
                             IF m = n THEN <<>> ELSE files[m]]
            /\ Grant(n, 0)
       ELSE Reply(-1) /\ UNCHANGED <<files, handles>>

\* A lookup tells whether the file is there.
Lookup(n) ==
    /\ IF n \in DOMAIN files THEN \E id \in 1 .. MaxFiles : Reply(id) ELSE Reply(-1)
    /\ UNCHANGED <<files, handles>>

Close(h) ==
    /\ IF IsOpen(h)
       THEN handles' = [handles EXCEPT ![h] = Closed] /\ Reply(0)
       ELSE Reply(-1) /\ UNCHANGED handles
    /\ UNCHANGED files

Read(h, len) ==
    /\ IsOpen(h)
    /\ LET f == handles[h].file
           p == handles[h].pos
           n == Least(len, Len(files[f]) - p)
       IN  /\ reply' = [ret |-> n, data |-> SubSeq(files[f], p + 1, p + n)]
           /\ handles' = [handles EXCEPT ![h] = At(f, p + n)]
    /\ UNCHANGED files

Write(h, buffer) ==
    /\ IsOpen(h)
    /\ LET f == handles[h].file
           p == handles[h].pos
           n == Least(Len(buffer), MaxFileSize - p)
       IN  /\ files' = [files EXCEPT ![f] =
                  SubSeq(@, 1, p) \o SubSeq(buffer, 1, n) \o SubSeq(@, p + n + 1, Len(@))]
           /\ handles' = [handles EXCEPT ![h] = At(f, p + n)]
           /\ Reply(n)

\* The handle of an open that failed.
NoHandle == Reply(-1) /\ UNCHANGED <<files, handles>>

Next ==
    \/ \E n \in Names, flags \in SUBSET {"TFS_O_CREAT", "TFS_O_TRUNC", "TFS_O_APPEND"} :
           OpenExisting(n, flags) \/ OpenMissing(n, flags)
    \/ \E n \in Names : Lookup(n)
    \/ \E h \in Handles : Close(h)
    \/ \E h \in Handles, len \in Lens : Read(h, len)
    \/ \E h \in Handles, buffer \in Buffers : Write(h, buffer)
    \/ NoHandle

Spec == Init /\ [][Next]_vars
=============================================================================
