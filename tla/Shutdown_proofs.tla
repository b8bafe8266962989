--------------------------- MODULE Shutdown_proofs ---------------------------
(***************************************************************************)
(* Proofs about Shutdown, for any number of threads and file handles:       *)
(* IndInv is inductive, and the safety properties follow.                   *)
(***************************************************************************)
EXTENDS Shutdown, FiniteSetTheorems, TLAPS

\* tfs_open and tfs_close are different calls.
LEMMA CallsDiffer == \A h \in Handles : Closing(h) # Opening
  BY DEF Closing, Opening

\* A handle that is opened raises the number of handles open by one, one that
\* is freed lowers it by one.
LEMMA OneHandle ==
    ASSUME NEW h \in Handles, open_files \in [Handles -> {"free", "early", "late"}],
           NEW v \in {"free", "early", "late"},
           open_files' = [open_files EXCEPT ![h] = v]
    PROVE  LET before == Cardinality({g \in Handles : IsOpen(g)})
               after == Cardinality({g \in Handles : IsOpen(g)}')
           IN  /\ before \in Nat /\ after \in Nat
               /\ IsOpen(h) /\ v = "free" => after = before - 1
               /\ ~IsOpen(h) /\ v # "free" => after = before + 1
               /\ (IsOpen(h) <=> v # "free") => after = before
<1> DEFINE Open == {g \in Handles : IsOpen(g)}
<1> DEFINE Openp == {g \in Handles : IsOpen(g)}'
<1>1. Open \in SUBSET Handles /\ Openp \in SUBSET Handles
  OBVIOUS
<1>2. IsFiniteSet(Open) /\ IsFiniteSet(Openp)
  BY <1>1, ThreadsAssumption, FS_Subset
<1>3. Cardinality(Open) \in Nat /\ Cardinality(Openp) \in Nat
  BY <1>2, FS_CardinalityType
<1>4. \A g \in Handles : IsOpen(g)' <=> IF g = h THEN v # "free" ELSE IsOpen(g)
  BY DEF IsOpen
<1>5. CASE IsOpen(h) /\ v = "free"
  <2>1. Openp = Open \ {h} /\ h \in Open
    BY <1>4, <1>5
  <2>2. Cardinality(Open \ {h}) = Cardinality(Open) - 1
    BY <2>1, <1>2, FS_RemoveElement
  <2> QED
    BY <2>1, <2>2, <1>3, <1>5
<1>6. CASE ~IsOpen(h) /\ v # "free"
  <2>1. Openp = Open \cup {h} /\ h \notin Open
    BY <1>4, <1>6
  <2>2. Cardinality(Open \cup {h}) = Cardinality(Open) + 1
    BY <2>1, <1>2, FS_AddElement
  <2> QED
    BY <2>1, <2>2, <1>3, <1>6
<1>7. CASE IsOpen(h) <=> v # "free"
  <2>1. Openp = Open
    BY <1>4, <1>7
  <2> QED
    BY <2>1, <1>3, <1>7
<1> QED
  BY <1>5, <1>6, <1>7

-----------------------------------------------------------------------------
(* Initially.                                                              *)

\* tfs_init establishes the invariant.
LEMMA InitIndInv == Init => IndInv
<1> SUFFICES ASSUME Init PROVE IndInv
  OBVIOUS
<1>1. \A u \in Users : at[u] = "out" /\ call[u] = Opening
  BY DEF Init, Threads
<1>2. \A d \in Destroyers : at[d] = "out"
  BY DEF Init, Threads
<1>3. TypeOK
  BY <1>1 DEF Init, TypeOK, Threads, Places, Calls
<1>4. OpenFilesCounted
  <2>1. {h \in Handles : IsOpen(h)} = {}
    BY DEF Init, IsOpen
  <2> QED
    BY <2>1, FS_EmptySet DEF Init, OpenFilesCounted
<1>5. HoldersOwn /\ ClosingStays /\ LateOpensOver /\ EarlyFilesGone
  BY <1>1, <1>2 DEF Init, HoldersOwn, ClosingStays, LateOpensOver, EarlyFilesGone
<1>6. DestroyedByReturned /\ NoLostWakeup
  BY <1>2 DEF Init, DestroyedByReturned, NoLostWakeup, Waiting
<1> QED
  BY <1>3, <1>4, <1>5, <1>6 DEF IndInv

-----------------------------------------------------------------------------
(* Every step.  Each lemma is about one part of IndInv.                     *)

\* The ways a step can go, for the case splits below.
LEMMA Steps ==
    ASSUME [Next]_vars
    PROVE  \/ \E t \in Threads : EnterLock(t)
           \/ \E t \in Threads : Acquire(t)
           \/ \E u \in Users : CallOpen(u)
           \/ \E u \in Users : OpenFile(u)
           \/ \E u \in Users : CloseFile(u)
           \/ \E u \in Users, h \in Handles : CallClose(u, h)
           \/ \E d \in Destroyers : SetClosing(d) \/ SpuriousWakeup(d)
           \/ \E d \in Destroyers : CheckOrWait(d) \/ UnlockAndLeave(d) \/ Destroy(d)
           \/ UNCHANGED vars
  BY DEF Next, UserStep, DestroyerStep, Threads

\* The types of the variables, and the count of open files, stay.
LEMMA TypeStep ==
    ASSUME TypeOK, OpenFilesCounted, [Next]_vars
    PROVE  TypeOK' /\ OpenFilesCounted'
<1> USE ThreadsAssumption DEF Threads
<1>1. CASE \E t \in Threads : EnterLock(t)
  BY <1>1 DEF EnterLock, Goto, TypeOK, Places, OpenFilesCounted, IsOpen, files, Calls
<1>2. CASE \E t \in Threads : Acquire(t)
  BY <1>2 DEF Acquire, Goto, TypeOK, Places, OpenFilesCounted, IsOpen, files
<1>3. CASE \E u \in Users : CallOpen(u)
  BY <1>3 DEF CallOpen, Goto, TypeOK, Places, OpenFilesCounted, IsOpen, files, Calls
<1>4. CASE \E u \in Users : OpenFile(u)
  <2> PICK u \in Users : OpenFile(u)
    BY <1>4
  <2>1. /\ at' \in [Threads -> Places] /\ at' = [at EXCEPT ![u] = "out"]
        /\ owner' \in Threads \cup {NoOne}
        /\ UNCHANGED <<state, mutex, call, calls, spurious>>
    BY DEF OpenFile, Goto, Unlock, TypeOK, Places
  <2>2. late' \in [Users -> Nat]
    BY DEF OpenFile, TypeOK, files
  <2>3. CASE UNCHANGED files
    BY <2>1, <2>2, <2>3 DEF TypeOK, OpenFilesCounted, IsOpen, files
  <2>4. CASE \E h \in Handles :
                /\ ~IsOpen(h)
                /\ open_files' = [open_files EXCEPT
                       ![h] = IF state = "OPEN" THEN "early" ELSE "late"]
                /\ open_file_count' = open_file_count + 1
    <3> PICK h \in Handles :
            /\ ~IsOpen(h)
            /\ open_files' = [open_files EXCEPT
                   ![h] = IF state = "OPEN" THEN "early" ELSE "late"]
            /\ open_file_count' = open_file_count + 1
      BY <2>4
    <3> DEFINE v == IF state = "OPEN" THEN "early" ELSE "late"
    <3>1. v \in {"free", "early", "late"} /\ v # "free"
      OBVIOUS
    <3>2. open_files \in [Handles -> {"free", "early", "late"}]
      BY DEF TypeOK
    <3>3. Cardinality({g \in Handles : IsOpen(g)}')
            = Cardinality({g \in Handles : IsOpen(g)}) + 1
      BY <3>1, <3>2, OneHandle
    <3>4. OpenFilesCounted'
      BY <3>3 DEF OpenFilesCounted
    <3>5. open_files' \in [Handles -> {"free", "early", "late"}] /\ open_file_count' \in Nat
      BY <3>2 DEF TypeOK
    <3> QED
      BY <2>1, <2>2, <3>4, <3>5 DEF TypeOK
  <2> QED
    BY <2>3, <2>4 DEF OpenFile, files
<1>5. CASE \E u \in Users : CloseFile(u)
  <2> PICK u \in Users : CloseFile(u)
    BY <1>5
  <2> DEFINE h == call[u].handle
  <2>1. h \in Handles
    BY DEF CloseFile, TypeOK, Calls, Closing, Opening
  <2>2. open_files \in [Handles -> {"free", "early", "late"}]
    BY DEF TypeOK
  <2>3. open_files' = [open_files EXCEPT ![h] = "free"]
        /\ open_file_count' = IF IsOpen(h) THEN open_file_count - 1 ELSE open_file_count
    BY DEF CloseFile, counts_down
  <2>4. /\ Cardinality({g \in Handles : IsOpen(g)}')
             = IF IsOpen(h) THEN Cardinality({g \in Handles : IsOpen(g)}) - 1
               ELSE Cardinality({g \in Handles : IsOpen(g)})
        /\ Cardinality({g \in Handles : IsOpen(g)}') \in Nat
    <3> HIDE DEF h
    <3> QED
      BY <2>1, <2>2, <2>3, OneHandle
  <2>5. OpenFilesCounted' /\ open_file_count' \in Nat
    BY <2>3, <2>4 DEF OpenFilesCounted
  <2>6. open_files' \in [Handles -> {"free", "early", "late"}]
    BY <2>2, <2>3
  <2>7. /\ at' \in [Threads -> Places]
        /\ \A w \in Users : at'[w] \in {"out", "called", "locking", "inside"}
    BY DEF CloseFile, Goto, TypeOK, Places, Waiting
  <2>8. owner' \in Threads \cup {NoOne}
    BY DEF CloseFile, Unlock, TypeOK
  <2>9. UNCHANGED <<state, mutex, call, calls, late, spurious>>
    BY DEF CloseFile
  <2> QED
    BY <2>5, <2>6, <2>7, <2>8, <2>9 DEF TypeOK
<1>6. CASE \E u \in Users, h \in Handles : CallClose(u, h)
  BY <1>6 DEF CallClose, Goto, TypeOK, Places, OpenFilesCounted, IsOpen, files, Calls
<1>7. CASE \E d \in Destroyers : SetClosing(d) \/ SpuriousWakeup(d)
  <2>1. CASE \E d \in Destroyers : SetClosing(d)
    BY <2>1 DEF SetClosing, Goto, TypeOK, Places, OpenFilesCounted, IsOpen, files
  <2>2. CASE \E d \in Destroyers : SpuriousWakeup(d)
    BY <2>2 DEF SpuriousWakeup, Goto, TypeOK, Places, OpenFilesCounted, IsOpen, files
  <2> QED
    BY <1>7, <2>1, <2>2
<1>8. CASE \E d \in Destroyers : CheckOrWait(d) \/ UnlockAndLeave(d) \/ Destroy(d)
  BY <1>8 DEF CheckOrWait, UnlockAndLeave, Destroy, Unlock, Goto, TypeOK, Places,
              OpenFilesCounted, IsOpen, files
<1>9. CASE UNCHANGED vars
  BY <1>9 DEF vars, files, TypeOK, OpenFilesCounted, IsOpen
<1> QED
  BY <1>1, <1>2, <1>3, <1>4, <1>5, <1>6, <1>7, <1>8, <1>9, Steps

\* The mutex has one owner: the bodies of the operations exclude each other.
LEMMA HoldersStep ==
    ASSUME TypeOK, HoldersOwn, [Next]_vars
    PROVE  HoldersOwn'
<1> USE ThreadsAssumption DEF HoldersOwn, TypeOK
<1>1. CASE \E t \in Threads : EnterLock(t)
  BY <1>1 DEF EnterLock, Goto
<1>2. CASE \E t \in Threads : Acquire(t)
  BY <1>2 DEF Acquire, Goto, Threads
<1>3. CASE \E u \in Users : CallOpen(u)
  BY <1>3 DEF CallOpen, Goto, Threads
<1>4. CASE \E u \in Users : OpenFile(u)
  BY <1>4 DEF OpenFile, Goto, Unlock, Threads
<1>5. CASE \E u \in Users : CloseFile(u)
  BY <1>5 DEF CloseFile, Goto, Unlock, Threads, Waiting
<1>6. CASE \E u \in Users, h \in Handles : CallClose(u, h)
  BY <1>6 DEF CallClose, Goto, Threads
<1>7. CASE \E d \in Destroyers : SetClosing(d) \/ SpuriousWakeup(d)
  BY <1>7 DEF SetClosing, SpuriousWakeup, Goto, Threads
<1>8. CASE \E d \in Destroyers : CheckOrWait(d)
  BY <1>8 DEF CheckOrWait, Goto, Unlock, Threads
<1>9. CASE \E d \in Destroyers : UnlockAndLeave(d)
  BY <1>9 DEF UnlockAndLeave, Goto, Unlock, Threads
<1>10. CASE \E d \in Destroyers : Destroy(d)
  BY <1>10 DEF Destroy, Goto, Threads
<1>11. CASE UNCHANGED vars
  BY <1>11 DEF vars
<1> QED
  BY <1>1, <1>2, <1>3, <1>4, <1>5, <1>6, <1>7, <1>8, <1>9, <1>10, <1>11, Steps

\* CLOSING stays, and the mutex is destroyed by a call that has returned.
LEMMA DestroyersStep ==
    ASSUME TypeOK, ClosingStays, DestroyedByReturned, [Next]_vars
    PROVE  ClosingStays' /\ DestroyedByReturned'
<1> USE ThreadsAssumption DEF ClosingStays, DestroyedByReturned, TypeOK
<1>1. CASE \E t \in Threads : EnterLock(t)
  BY <1>1 DEF EnterLock, Goto, Threads
<1>2. CASE \E t \in Threads : Acquire(t)
  BY <1>2 DEF Acquire, Goto, Threads
<1>3. CASE \E u \in Users : CallOpen(u)
  BY <1>3 DEF CallOpen, Goto, Threads
<1>4. CASE \E u \in Users : OpenFile(u)
  BY <1>4 DEF OpenFile, Goto, Threads
<1>5. CASE \E u \in Users : CloseFile(u)
  BY <1>5 DEF CloseFile, Goto, Threads, Waiting
<1>6. CASE \E u \in Users, h \in Handles : CallClose(u, h)
  BY <1>6 DEF CallClose, Goto, Threads
<1>7. CASE \E d \in Destroyers : SetClosing(d) \/ SpuriousWakeup(d)
  BY <1>7 DEF SetClosing, SpuriousWakeup, Goto, Threads
<1>8. CASE \E d \in Destroyers : CheckOrWait(d) \/ UnlockAndLeave(d)
  BY <1>8 DEF CheckOrWait, UnlockAndLeave, Goto, Threads
<1>9. CASE \E d \in Destroyers : Destroy(d)
  BY <1>9 DEF Destroy, Goto, Threads
<1>10. CASE UNCHANGED vars
  BY <1>10 DEF vars
<1> QED
  BY <1>1, <1>2, <1>3, <1>4, <1>5, <1>6, <1>7, <1>8, <1>9, <1>10, Steps

\* A file is opened after CLOSING only by a call that passed the test before,
\* and that is the user's last.
LEMMA LateStep ==
    ASSUME TypeOK, LateOpensOver, [Next]_vars
    PROVE  LateOpensOver'
<1> USE ThreadsAssumption DEF LateOpensOver, TypeOK
<1>1. CASE \E t \in Threads : EnterLock(t)
  BY <1>1 DEF EnterLock, Goto, Threads
<1>2. CASE \E t \in Threads : Acquire(t)
  BY <1>2 DEF Acquire, Goto, Threads
<1>3. CASE \E u \in Users : CallOpen(u)
  BY <1>3 DEF CallOpen, passes_state_check, Goto, Threads
<1>4. CASE \E u \in Users : OpenFile(u)
  BY <1>4 DEF OpenFile, Goto, Threads
<1>5. CASE \E u \in Users : CloseFile(u)
  BY <1>5 DEF CloseFile, Goto, Threads, Waiting
<1>6. CASE \E u \in Users, h \in Handles : CallClose(u, h)
  BY <1>6, CallsDiffer DEF CallClose, Goto, Threads
<1>7. CASE \E d \in Destroyers : SetClosing(d) \/ SpuriousWakeup(d)
  BY <1>7 DEF SetClosing, SpuriousWakeup, Goto, Threads
<1>8. CASE \E d \in Destroyers : CheckOrWait(d) \/ UnlockAndLeave(d) \/ Destroy(d)
  BY <1>8 DEF CheckOrWait, UnlockAndLeave, Destroy, Goto, Threads
<1>9. CASE UNCHANGED vars
  BY <1>9 DEF vars
<1> QED
  BY <1>1, <1>2, <1>3, <1>4, <1>5, <1>6, <1>7, <1>8, <1>9, Steps

\* A set of handles with 0 elements is empty.
LEMMA NoneOpen ==
    ASSUME NEW Open \in SUBSET Handles, Cardinality(Open) = 0
    PROVE  Open = {}
  BY ThreadsAssumption, FS_Subset, FS_EmptySet

\* Destroyers go on when no file of the time before CLOSING is open, and none
\* can be opened after.
LEMMA EarlyStep ==
    ASSUME TypeOK, OpenFilesCounted, OpenFilesCounted', ClosingStays,
           EarlyFilesGone, [Next]_vars
    PROVE  EarlyFilesGone'
<1> USE ThreadsAssumption DEF EarlyFilesGone, TypeOK
<1>1. CASE \E t \in Threads : EnterLock(t)
  BY <1>1 DEF EnterLock, Goto, Threads, files
<1>2. CASE \E t \in Threads : Acquire(t)
  BY <1>2 DEF Acquire, Goto, Threads, files
<1>3. CASE \E u \in Users : CallOpen(u)
  BY <1>3 DEF CallOpen, Goto, Threads, files
<1>4. CASE \E u \in Users : OpenFile(u)
  BY <1>4 DEF OpenFile, Goto, Threads, files, ClosingStays
<1>5. CASE \E u \in Users : CloseFile(u)
  <2> PICK u \in Users : CloseFile(u)
    BY <1>5
  <2>1. \A h \in Handles : open_files'[h] \in {open_files[h], "free"}
    BY DEF CloseFile
  <2>2. CASE open_file_count' = 0
    <3>1. {h \in Handles : IsOpen(h)}' = {}
      BY <2>2, NoneOpen DEF OpenFilesCounted
    <3>2. \A h \in Handles : open_files'[h] = "free"
      BY <3>1 DEF IsOpen
    <3> QED
      BY <3>2
  <2>3. CASE open_file_count' # 0
    <3>1. at' = [at EXCEPT ![u] = "out"] /\ spurious' = spurious
      BY <2>3 DEF CloseFile, signals_cond, Goto
    <3> QED
      BY <2>1, <3>1 DEF Threads
  <2> QED
    BY <2>2, <2>3
<1>6. CASE \E u \in Users, h \in Handles : CallClose(u, h)
  BY <1>6 DEF CallClose, Goto, Threads, files
<1>7. CASE \E d \in Destroyers : SetClosing(d)
  BY <1>7 DEF SetClosing, Goto, Threads, files
<1>8. CASE \E d \in Destroyers : SpuriousWakeup(d)
  BY <1>8 DEF SpuriousWakeup
<1>9. CASE \E d \in Destroyers : CheckOrWait(d)
  <2>1. open_file_count = 0 => {h \in Handles : IsOpen(h)} = {}
    BY NoneOpen DEF OpenFilesCounted
  <2> QED
    BY <1>9, <2>1 DEF CheckOrWait, Goto, Threads, files, IsOpen
<1>10. CASE \E d \in Destroyers : UnlockAndLeave(d) \/ Destroy(d)
  BY <1>10 DEF UnlockAndLeave, Destroy, Goto, Threads, files
<1>11. CASE UNCHANGED vars
  BY <1>11 DEF vars, files
<1> QED
  BY <1>1, <1>2, <1>3, <1>4, <1>5, <1>6, <1>7, <1>8, <1>9, <1>10, <1>11, Steps

\* When the last file is closed a destroyer that waits is woken, and the one
\* that was woken stays on its way unless the mutex is gone.
LEMMA WakeupStep ==
    ASSUME TypeOK, DestroyedByReturned, NoLostWakeup, [Next]_vars
    PROVE  NoLostWakeup'
<1> USE ThreadsAssumption DEF NoLostWakeup, Waiting, TypeOK
<1>1. CASE \E t \in Threads : EnterLock(t)
  BY <1>1 DEF EnterLock, Goto, Threads, files
<1>2. CASE \E t \in Threads : Acquire(t)
  BY <1>2 DEF Acquire, Goto, Threads, files
<1>3. CASE \E u \in Users : CallOpen(u)
  BY <1>3 DEF CallOpen, Goto, Threads, files
<1>4. CASE \E u \in Users : OpenFile(u)
  BY <1>4 DEF OpenFile, Goto, Threads, files
<1>5. CASE \E u \in Users : CloseFile(u)
  BY <1>5 DEF CloseFile, signals_cond, Goto, Threads
<1>6. CASE \E u \in Users, h \in Handles : CallClose(u, h)
  BY <1>6 DEF CallClose, Goto, Threads, files
<1>7. CASE \E d \in Destroyers : SetClosing(d) \/ SpuriousWakeup(d)
  BY <1>7 DEF SetClosing, SpuriousWakeup, Goto, Threads, files
<1>8. CASE \E d \in Destroyers : CheckOrWait(d)
  BY <1>8 DEF CheckOrWait, Goto, Threads, files
<1>9. CASE \E d \in Destroyers : UnlockAndLeave(d)
  BY <1>9 DEF UnlockAndLeave, DestroyedByReturned, Goto, Threads, files
<1>10. CASE \E d \in Destroyers : Destroy(d)
  BY <1>10 DEF Destroy, Goto, Threads, files
<1>11. CASE UNCHANGED vars
  BY <1>11 DEF vars, files
<1> QED
  BY <1>1, <1>2, <1>3, <1>4, <1>5, <1>6, <1>7, <1>8, <1>9, <1>10, <1>11, Steps

-----------------------------------------------------------------------------
(* The theorems.                                                           *)

\* The invariant the others follow from: it holds in every state that threads
\* calling tfs_open, tfs_close and tfs_destroy_after_all_closed can reach.
THEOREM IndInvCorrect == Spec => []IndInv
<1>1. Init => IndInv
  BY InitIndInv
<1>2. IndInv /\ [Next]_vars => IndInv'
  <2> SUFFICES ASSUME IndInv, [Next]_vars PROVE IndInv'
    OBVIOUS
  <2>1. TypeOK' /\ OpenFilesCounted'
    BY TypeStep DEF IndInv
  <2>2. HoldersOwn'
    BY HoldersStep DEF IndInv
  <2>3. ClosingStays' /\ DestroyedByReturned'
    BY DestroyersStep DEF IndInv
  <2>4. LateOpensOver'
    BY LateStep DEF IndInv
  <2>5. EarlyFilesGone'
    BY <2>1, EarlyStep DEF IndInv
  <2>6. NoLostWakeup'
    BY WakeupStep DEF IndInv
  <2> QED
    BY <2>1, <2>2, <2>3, <2>4, <2>5, <2>6 DEF IndInv
<1> QED
  BY <1>1, <1>2, PTL DEF Spec

\* The variables of operations.c hold values of their types.
THEOREM TypeCorrect == Spec => []TypeOK
<1>1. IndInv => TypeOK
  BY DEF IndInv
<1> QED
  BY <1>1, IndInvCorrect, PTL

\* However many threads there are, each opens at most one file after
\* tfs_destroy_after_all_closed has set CLOSING.
THEOREM OneLateOpenCorrect == Spec => []OneLateOpen
<1>1. IndInv => OneLateOpen
  BY DEF IndInv, LateOpensOver, OneLateOpen
<1> QED
  BY <1>1, IndInvCorrect, PTL

\* However many threads there are, tfs_destroy_after_all_closed goes on to the
\* destruction only with every file of the time before CLOSING closed.
THEOREM EarlyFilesClosedCorrect == Spec => []EarlyFilesClosed
<1>1. IndInv => EarlyFilesClosed
  BY DEF IndInv, EarlyFilesGone, EarlyFilesClosed, Past
<1> QED
  BY <1>1, IndInvCorrect, PTL

\* However many calls of tfs_destroy_after_all_closed wait, once no file is open
\* one of them has been woken.
THEOREM NoLostWakeupCorrect == Spec => []NoLostWakeup
<1>1. IndInv => NoLostWakeup
  BY DEF IndInv
<1> QED
  BY <1>1, IndInvCorrect, PTL

\* Two threads are never both inside the bodies that single_global_lock guards.
THEOREM MutualExclusion ==
    Spec => [](\A t, w \in Threads : at[t] \in {"inside", "leaving"}
                   /\ at[w] \in {"inside", "leaving"} => t = w)
<1>1. IndInv => \A t, w \in Threads : at[t] \in {"inside", "leaving"}
                   /\ at[w] \in {"inside", "leaving"} => t = w
  BY DEF IndInv, HoldersOwn
<1> QED
  BY <1>1, IndInvCorrect, PTL
=============================================================================
