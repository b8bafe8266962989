------------------------------ MODULE Shutdown ------------------------------
(***************************************************************************)
(* tfs_destroy_after_all_closed of P2/fs/operations.c against threads that  *)
(* go on calling tfs_open and tfs_close.                                   *)
(*                                                                         *)
(* tfs_open reads state before it takes single_global_lock, the destroyer   *)
(* writes it before it takes the lock, waits on cond at most once, and in   *)
(* the end destroys a mutex that others may be about to lock.  So a call is *)
(* several steps here.  What the calls do to a file is left to TecnicoFS:   *)
(* a file is open or not.                                                  *)
(*                                                                         *)
(* The mutex and the condition variable are those of glibc: locking or      *)
(* unlocking a destroyed mutex answers EINVAL, but a thread that entered    *)
(* pthread_mutex_lock before can still get it; pthread_mutex_destroy        *)
(* answers EBUSY while a thread holds the mutex or waits on cond with it.   *)
(***************************************************************************)
EXTENDS Integers, FiniteSets

CONSTANTS
    Users,          \* threads that open and close files
    Destroyers,     \* threads that call tfs_destroy_after_all_closed
    Handles,        \* file handles
    NoOne,          \* the owner of a free mutex
    MAX_CALLS       \* bound of the model: opens and vain closes of one user

ASSUME ThreadsAssumption ==
    /\ IsFiniteSet(Handles)
    /\ Users \cap Destroyers = {}
    /\ NoOne \notin Users \cup Destroyers
    /\ MAX_CALLS \in Nat

Threads == Users \cup Destroyers

VARIABLES
    state,       \* OPEN or CLOSING
    open_files,  \* "free", or whether it was opened before CLOSING or "late"
    open_file_count,
    owner,       \* who holds single_global_lock
    mutex,       \* single_global_lock: "ready" or "destroyed"
    call,        \* what each user is calling
    at,          \* where each thread is in its call
    calls,       \* number of calls of each user that MAX_CALLS bounds
    late,        \* number of files each user opened after CLOSING
    spurious     \* whether pthread_cond_wait ever returned without a signal

files == <<open_files, open_file_count>>
vars == <<state, files, owner, mutex, call, at, calls, late, spurious>>

\* A call of a user: tfs_open, or tfs_close of a handle.
Opening == [op |-> "open"]
Closing(h) == [op |-> "close", handle |-> h]
Calls == {Opening} \cup {Closing(h) : h \in Handles}

IsOpen(h) == open_files[h] # "free"

Init ==
    /\ state = "OPEN"
    /\ open_files = [h \in Handles |-> "free"]
    /\ open_file_count = 0
    /\ owner = NoOne
    /\ mutex = "ready"
    /\ call = [u \in Users |-> Opening]
    /\ at = [t \in Threads |-> "out"]
    /\ calls = [u \in Users |-> 0]
    /\ late = [u \in Users |-> 0]
    /\ spurious = FALSE

Goto(t, place) == at' = [at EXCEPT ![t] = place]

-----------------------------------------------------------------------------
(* single_global_lock                                                      *)

\* pthread_mutex_lock begins: on a destroyed mutex the operation returns -1.
EnterLock(t) ==
    /\ at[t] = "called"
    /\ Goto(t, IF mutex = "ready" THEN "locking"
               ELSE IF t \in Users THEN "out" ELSE "failed")
    /\ UNCHANGED <<state, files, owner, mutex, call, calls, late, spurious>>

\* The mutex is free: a thread inside pthread_mutex_lock, or on its way out of
\* pthread_cond_wait, gets it.
Acquire(t) ==
    /\ at[t] \in {"locking", "woken"}
    /\ owner = NoOne
    /\ owner' = t
    /\ Goto(t, IF at[t] = "locking" THEN "inside" ELSE "leaving")
    /\ UNCHANGED <<state, files, mutex, call, calls, late, spurious>>

\* pthread_mutex_unlock: a destroyed mutex is never given back.
Unlock == owner' = IF mutex = "ready" THEN NoOne ELSE owner

-----------------------------------------------------------------------------
(* tfs_open and tfs_close                                                  *)

passes_state_check_always(s) == TRUE
passes_state_check(s) == s # "CLOSING"

CallOpen(u) ==
    /\ at[u] = "out" /\ calls[u] < MAX_CALLS
    /\ calls' = [calls EXCEPT ![u] = @ + 1]
    /\ IF passes_state_check(state)
       THEN call' = [call EXCEPT ![u] = Opening] /\ Goto(u, "called")
       ELSE UNCHANGED <<call, at>>
    /\ UNCHANGED <<state, files, owner, mutex, late, spurious>>

\* The body of tfs_open, and the unlock: a file is opened, or there is no such
\* file or no handle left.  On a destroyed mutex the unlock makes tfs_open
\* return -1, with the file open.
OpenFile(u) ==
    /\ at[u] = "inside" /\ call[u] = Opening
    /\ \/ \E h \in Handles :
              /\ ~IsOpen(h)
              /\ open_files' = [open_files EXCEPT
                     ![h] = IF state = "OPEN" THEN "early" ELSE "late"]
              /\ open_file_count' = open_file_count + 1
              /\ late' = [late EXCEPT ![u] = IF state = "OPEN" THEN @ ELSE @ + 1]
       \/ UNCHANGED <<files, late>>
    /\ Unlock /\ Goto(u, "out")
    /\ UNCHANGED <<state, mutex, call, calls, spurious>>

\* Callers close what is open, and now and then what is not.
CallClose(u, h) ==
    /\ at[u] = "out"
    /\ IF IsOpen(h)
       THEN UNCHANGED calls
       ELSE calls[u] < MAX_CALLS /\ calls' = [calls EXCEPT ![u] = @ + 1]
    /\ call' = [call EXCEPT ![u] = Closing(h)]
    /\ Goto(u, "called")
    /\ UNCHANGED <<state, files, owner, mutex, late, spurious>>

Waiting == {d \in Destroyers : at[d] = "waiting"}

signals_on_every_close(count) == TRUE
signals_never(count) == FALSE
\* tfs_close signals cond when no file is open, also when it closed nothing.
signals_cond(count) == count = 0

counts_down_always(h) == open_file_count - 1
\* remove_from_open_file_table counts only the handles it frees.
counts_down(h) == IF IsOpen(h) THEN open_file_count - 1 ELSE open_file_count

\* The body of tfs_close: the file is closed, cond is signalled, which wakes
\* one destroyer that waits, and the mutex is unlocked.
CloseFile(u) ==
    /\ at[u] = "inside" /\ call[u] # Opening
    /\ open_files' = [open_files EXCEPT ![call[u].handle] = "free"]
    /\ open_file_count' = counts_down(call[u].handle)
    /\ IF signals_cond(open_file_count') /\ Waiting # {}
       THEN \E d \in Waiting : at' = [at EXCEPT ![u] = "out", ![d] = "woken"]
       ELSE Goto(u, "out")
    /\ Unlock
    /\ UNCHANGED <<state, mutex, call, calls, late, spurious>>

-----------------------------------------------------------------------------
(* tfs_destroy_after_all_closed                                            *)

SetClosing(d) ==
    /\ at[d] = "out"
    /\ state' = "CLOSING"
    /\ Goto(d, "called")
    /\ UNCHANGED <<files, owner, mutex, call, calls, late, spurious>>

\* The test of open_file_count.  On a destroyed mutex pthread_cond_wait fails.
CheckOrWait(d) ==
    /\ d \in Destroyers /\ at[d] = "inside"
    /\ IF open_file_count = 0
       THEN Goto(d, "leaving") /\ UNCHANGED owner
       ELSE /\ Goto(d, IF mutex = "ready" THEN "waiting" ELSE "failed")
            /\ Unlock
    /\ UNCHANGED <<state, files, mutex, call, calls, late, spurious>>

\* POSIX lets pthread_cond_wait return without a signal.
SpuriousWakeup(d) ==
    /\ at[d] = "waiting"
    /\ Goto(d, "woken")
    /\ spurious' = TRUE
    /\ UNCHANGED <<state, files, owner, mutex, call, calls, late>>

UnlockAndLeave(d) ==
    /\ at[d] = "leaving"
    /\ Goto(d, IF mutex = "ready" THEN "destroying" ELSE "failed")
    /\ Unlock
    /\ UNCHANGED <<state, files, mutex, call, calls, late, spurious>>

\* glibc's __nusers: the mutex is held, or left for the time of a wait.
InUse == owner # NoOne \/ \E d \in Destroyers : at[d] \in {"waiting", "woken"}

\* tfs_destroy, whose result is ignored.
Destroy(d) ==
    /\ at[d] = "destroying"
    /\ mutex' = IF InUse THEN mutex ELSE "destroyed"
    /\ Goto(d, "returned")
    /\ UNCHANGED <<state, files, owner, call, calls, late, spurious>>

-----------------------------------------------------------------------------
UserStep(u) == EnterLock(u) \/ Acquire(u) \/ OpenFile(u) \/ CloseFile(u)
DestroyerStep(d) ==
    EnterLock(d) \/ Acquire(d) \/ CheckOrWait(d) \/ UnlockAndLeave(d) \/ Destroy(d)
CloseSomething(u) == \E h \in Handles : IsOpen(h) /\ CallClose(u, h)

Next ==
    \/ \E u \in Users : UserStep(u) \/ CallOpen(u)
    \/ \E u \in Users, h \in Handles : CallClose(u, h)
    \/ \E d \in Destroyers : DestroyerStep(d) \/ SetClosing(d) \/ SpuriousWakeup(d)

Spec == Init /\ [][Next]_vars

\* Threads are scheduled, and what is open is closed in the end.  Nobody has to
\* open a file, or to destroy anything.
Fairness ==
    /\ \A u \in Users : WF_vars(UserStep(u)) /\ WF_vars(CloseSomething(u))
    /\ \A d \in Destroyers : WF_vars(DestroyerStep(d))

FairSpec == Spec /\ Fairness
-----------------------------------------------------------------------------
Places == {"out", "called", "locking", "inside", "waiting", "woken",
           "leaving", "destroying", "returned", "failed"}

\* The variables hold values of their types; a user is never in a place of
\* tfs_destroy_after_all_closed.
TypeOK ==
    /\ state \in {"OPEN", "CLOSING"}
    /\ open_files \in [Handles -> {"free", "early", "late"}]
    /\ open_file_count \in Nat
    /\ owner \in Threads \cup {NoOne}
    /\ mutex \in {"ready", "destroyed"}
    /\ call \in [Users -> Calls]
    /\ at \in [Threads -> Places]
    /\ \A u \in Users : at[u] \in {"out", "called", "locking", "inside"}
    /\ calls \in [Users -> Nat]
    /\ late \in [Users -> Nat]
    /\ spurious \in BOOLEAN

\* tfs_open tests state without the lock, so opens still succeed once
\* tfs_destroy_after_all_closed has set CLOSING: at most one for each thread.
OneLateOpen == \A u \in Users : late[u] <= 1

Past == {d \in Destroyers : at[d] \in {"destroying", "returned"}}

\* tfs_destroy_after_all_closed goes on to destroy TecnicoFS only after every
\* file that was open when it was called is closed, although it tests
\* open_file_count only once, unless cond woke it without a signal.
EarlyFilesClosed ==
    Past # {} /\ ~spurious => \A h \in Handles : open_files[h] # "early"

\* No wakeup is lost: with no file open, no destroyer is left waiting unless
\* another one was woken, and has the place of all of them.
NoLostWakeup ==
    open_file_count = 0 /\ Waiting # {} =>
        \E d \in Destroyers : at[d] \in {"woken", "leaving", "destroying", "returned"}

\* Once tfs_destroy_after_all_closed is called, and files are closed in the
\* end, some call of it stops waiting.
DestroyProceeds ==
    (\E d \in Destroyers : at[d] = "called")
        ~> (\E d \in Destroyers : at[d] \in {"destroying", "returned", "failed"})

\* "Waits until no file is open and then destroy tecnicofs", operations.h.
NoFileOpenWhenDestroyed ==
    [][\A d \in Destroyers : Destroy(d) => open_file_count = 0]_vars
-----------------------------------------------------------------------------
(* What the invariants need to be inductive.                               *)

\* open_file_count is the number of handles open.
OpenFilesCounted == open_file_count = Cardinality({h \in Handles : IsOpen(h)})

\* Who is between pthread_mutex_lock and pthread_mutex_unlock owns the mutex,
\* so the bodies of the operations exclude each other.
HoldersOwn == \A t \in Threads : at[t] \in {"inside", "leaving"} => owner = t

\* CLOSING is never taken back.
ClosingStays == \A d \in Destroyers : at[d] # "out" => state = "CLOSING"

\* Who has opened a file after CLOSING is in no tfs_open any more.
LateOpensOver ==
    \A u \in Users :
        \/ late[u] = 0
        \/ late[u] = 1 /\ state = "CLOSING" /\ (call[u] = Opening => at[u] = "out")

\* A destroyer that was signalled, or did not have to wait, found every file of
\* the time before CLOSING closed.
EarlyFilesGone ==
    ~spurious => \A d \in Destroyers, h \in Handles :
        at[d] \in {"woken", "leaving", "destroying", "returned"}
            => open_files[h] # "early"

\* The mutex is destroyed by a call that has returned.
DestroyedByReturned == mutex = "destroyed" => \E d \in Destroyers : at[d] = "returned"

IndInv ==
    /\ TypeOK
    /\ OpenFilesCounted
    /\ HoldersOwn
    /\ ClosingStays
    /\ LateOpensOver
    /\ EarlyFilesGone
    /\ DestroyedByReturned
    /\ NoLostWakeup
=============================================================================
