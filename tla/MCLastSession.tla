--------------------------- MODULE MCLastSession ---------------------------
(* LastSession with two sessions, of which 0 is left.                       *)
EXTENDS LastSession, TLC

CONSTANTS c1, c2

TwoClients == {c1, c2}
ClientSymmetry == Permutations({c1, c2})

\* Until one session is left, one mount is followed, and when a wait has returned
\* without a signal, two.
Mounts == MapThenSumSet(LAMBDA c : mounts[c], Clients)
MCBound ==
    /\ left \/ Mounts <= 1
    /\ OnlySignals \/ Mounts <= 2
=============================================================================
