---------------------------- MODULE LastSession ----------------------------
(***************************************************************************)
(* The server once a single session is left.                               *)
(*                                                                         *)
(* The loop of the producer over the sessions gives every free one to the   *)
(* client that mounts, and its tfs_unmount gives back the one whose number  *)
(* it read first.  The others stay taken: their consumers wait for signals  *)
(* that no request brings any more.  So whatever S is, one session is left  *)
(* for all clients after an unmount, and what Server promises, which its    *)
(* clients do not get while one of them has every session, holds from       *)
(* there.  With S = 1 it holds from the start.                              *)
(***************************************************************************)
EXTENDS Server

CONSTANT Last      \* the session that is left

ASSUME LastAssumption == Last \in Sessions

VARIABLE left      \* history: whether Last has been the only session left

\* The others are taken, their consumers wait and have opened a pipe.
OthersTaken ==
    \A s \in Sessions \ {Last} :
        /\ session_status[s] = 0
        /\ consumer[s].at = "waiting"
        /\ cpipe[s] # Uninitialized

\* Nobody has mounted: clients are before tfs_mount or in it, and the server
\* has no pipe open that one of them reads.
NoneMounted ==
    \A c \in Clients :
        /\ client[c] \in {"out", "unlinked", "sent"}
        /\ fifo[c].state # "open" /\ ~fifo[c].opened /\ fifo[c].replies = <<>>
        /\ \A n \in Fds : fd[n] # c

\* Last is free, the others are taken, and there are no requests but mounts.
OneLeft ==
    /\ Running /\ status = "ON"
    /\ producer.at \in {"head", "reading"}
    /\ \A i \in 1 .. Len(spipe) : spipe[i].op_code = "mount"
    /\ session_status[Last] = -1
    /\ consumer[Last].at \in {"head", "locking", "waiting"}
    /\ buffer[Last].op_code \in {"none", "mount"} \/ cpipe[Last] # Uninitialized
    /\ OthersTaken /\ NoneMounted

LastInit == Init /\ left = OneLeft
LastNext == Next /\ left' = (left \/ OneLeft')
LastSpec == LastInit /\ [][LastNext]_<<vars, left>>

-----------------------------------------------------------------------------
(* Properties: those of Server, from then on.                              *)

\* No two mounted clients share a session, whoever dies and comes back.
LastExclusive == left => SessionExclusive

\* The session of a mounted client stays taken, so no mount can claim it.
LastTaken == left => MountedSessionTaken

\* The producer, which writes a command buffer without its lock, never writes it
\* between its signal and the consumer's reading of it.
LastNotOverwritten == [][left => CommandKept]_<<vars, left>>

\* A client that reads a reply reads that of its own request, written by the
\* consumer of its own session.
LastReplies == [][left => ReplyMatches]_<<vars, left>>
=============================================================================
