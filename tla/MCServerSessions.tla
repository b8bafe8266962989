-------------------------- MODULE MCServerSessions --------------------------
(***************************************************************************)
(* Server with four sessions, under one schedule of its threads: a history  *)
(* that is too long to be found among all of them.  The turns say who moves *)
(* next and not what it does.                                               *)
(***************************************************************************)
EXTENDS MCServer, SequencesExt

VARIABLE turns      \* the turns that are left

Producer == -1
Times(n, p) == [i \in 1 .. n |-> p]

\* c1 mounts and is given every session; consumers 0 and 2 open its pipe and
\* write their session_id, consumers 1 and 3 are slower.
FirstMount ==
    Times(2, 0) \o Times(2, 1) \o Times(2, 2) \o Times(2, 3)
    \o Times(2, c1) \o Times(10, Producer) \o <<0, 2, c1, 0, 2, c1>>

\* c1 makes a call, and what it reads as the reply is the second session_id, so
\* that it unmounts before the call is served: the command of the call, for
\* which consumer 0 is awake, is overwritten.  Consumer 0 serves the unmount,
\* and is signalled to serve it again.
UnmountTwice ==
    Times(2, 0) \o Times(3, c1) \o Times(5, Producer) \o Times(5, 0) \o <<Producer>>

\* c1 and c2 mount.  Consumer 0 begins to serve the unmount again, and
\* consumer 1, which had only the name of the pipe, opens the new pipe of c1:
\* with the descriptor that consumer 0 has closed and still holds.  So the reply
\* to the unmount is the first that c1 reads, and its 0 is taken for session 0.
SecondMount ==
    Times(3, c1) \o Times(2, c2) \o <<c1, 0, 1, c1, 0, 1, 0, c1>>

\* Consumer 3 opens the pipe of c1 as well, so that it does not end; the mount
\* of c2 is given session 0, which is free.
MountOfOther ==
    <<3>> \o Times(2, 0) \o Times(7, Producer) \o <<0, c2, 0, c2>>

Turn(p) ==
    \/ p \in Clients /\ ClientNext(p)
    \/ p = Producer /\ ProducerNext
    \/ p \in Sessions /\ ConsumerNext(p)

ScheduledInit ==
    Init /\ turns = FirstMount \o UnmountTwice \o SecondMount \o MountOfOther
ScheduledNext ==
    /\ turns # <<>>
    /\ Turn(Head(turns))
    /\ turns' = Tail(turns)

Scheduled == ScheduledInit /\ [][ScheduledNext]_<<vars, turns>>
=============================================================================
