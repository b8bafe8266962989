----------------------------- MODULE MCShutdown -----------------------------
(* Shutdown with a few threads and handles.                                 *)
EXTENDS Shutdown, TLC

CONSTANTS u1, u2, d1, d2

MCUsers == {u1, u2}
MCDestroyers == {d1, d2}
MCHandles == 1 .. 2
=============================================================================
