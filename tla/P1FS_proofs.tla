---------------------------- MODULE P1FS_proofs ----------------------------
(***************************************************************************)
(* P1FS under the interleavings of any number of threads, for every size    *)
(* of the tables.  TypeOK and INodesGivenOnce hold whatever the threads     *)
(* keep to: TypeOK is inductive as it stands, INodesGivenOnce with it.      *)
(* HandlesLeadToFiles needs no rule either, and a strengthening for the     *)
(* i-nodes that a tfs_open has found or created; HandlesHeldByOne needs     *)
(* HandlesApart and the rule own_handles.                                  *)
(***************************************************************************)
EXTENDS P1FS, FiniteSetTheorems, WellFoundedInduction, TLAPS

-----------------------------------------------------------------------------
(* Numbers.                                                                *)

\* A set of naturals that has an element has a least one, and Min finds it.
LEMMA LeastElement ==
    ASSUME NEW S \in SUBSET Nat, S # {}
    PROVE  Min(S) \in S /\ \A y \in S : Min(S) <= y
<1> DEFINE R == OpToRel(<, Nat)
<1>1. PICK x \in S : \A y \in S : <<y, x>> \notin R
  BY NatLessThanWellFounded, WFMin
<1>2. R = {ss \in Nat \X Nat : ss[1] < ss[2]}
  BY DEF OpToRel
<1>3. ASSUME NEW y \in S, y < x PROVE FALSE
  <2>1. <<y, x>> \in {ss \in Nat \X Nat : ss[1] < ss[2]}
    BY <1>3
  <2> QED
    BY <1>1, <1>2, <2>1
<1>4. \A y \in S : x <= y
  BY <1>3
<1> QED
  BY <1>4 DEF Min

\* The place of a handle in a file is a block and an offset in that block.
LEMMA PlaceInBlock ==
    ASSUME NEW n \in Nat
    PROVE  n % BLOCK_SIZE \in 0 .. BLOCK_SIZE - 1 /\ n \div BLOCK_SIZE \in Nat
  BY SizesAssumption

\* A difference of size_t is a natural number.
LEMMA MinusIsNat ==
    ASSUME NEW a \in Nat, NEW b \in Nat, b <= BLOCK_SIZE
    PROVE  Minus(a, b) \in Nat
  BY SizesAssumption DEF Minus

\* An offset that moves by at most a block stays an offset in a block.
LEMMA OffsetInBlock ==
    ASSUME NEW file, file.of_offset \in 0 .. BLOCK_SIZE - 1, NEW aux \in 0 .. BLOCK_SIZE
    PROVE  offset_after(file, aux) \in 0 .. BLOCK_SIZE - 1
  BY SizesAssumption DEF offset_after

-----------------------------------------------------------------------------
(* The records of the threads.                                             *)

\* What a thread has at the place where it is.
Good(c) == c \in CallRecords /\ LocalsSet(c)

\* The call of a thread is a record of its type with the locals of its place.
LEMMA GoodCall == ASSUME TypeOK, NEW t \in Threads PROVE Good(call[t])
  BY DEF TypeOK, CallsOK, Good

\* A step that puts such a record in the place of one thread's call.
LEMMA CallTyped ==
    ASSUME TypeOK, NEW t \in Threads, NEW c, Good(c), call' = [call EXCEPT ![t] = c]
    PROVE  CallsOK'
  BY DEF TypeOK, CallsOK, Good

\* A thread that returns to its caller.
LEMMA Returned ==
    ASSUME TypeOK, NEW t \in Threads, Return(t)
    PROVE  CallsOK'
<1>1. NoCall \in CallRecords
  BY SizesAssumption DEF NoCall, CallRecords, Opening, Using, Moving
<1>2. LocalsSet(NoCall)
  BY DEF NoCall, LocalsSet, Opening, Using, Moving
<1>3. Good(NoCall)
  BY <1>1, <1>2 DEF Good
<1> QED
  BY <1>3, CallTyped DEF Return

\* What a step leaves alone keeps its type.
LEMMA Tables == ASSUME TypeOK, UNCHANGED <<names, data>> PROVE TablesOK'
  BY DEF TypeOK, TablesOK, names, data

\* The same for the open file table.
LEMMA OpenFiles == ASSUME TypeOK, UNCHANGED handles PROVE HandlesOK'
  BY DEF TypeOK, HandlesOK, handles

\* The same for the locks.
LEMMA LocksKept == ASSUME TypeOK, UNCHANGED locks PROVE LocksOK'
  BY DEF TypeOK, LocksOK, locks

\* The mutex of a handle is locked, unlocked or made anew.
LEMMA MutexTaken ==
    ASSUME TypeOK, UNCHANGED i_lock, NEW h \in Handles,
           NEW v \in Threads \cup {NoThread}, of_mutex' = [of_mutex EXCEPT ![h] = v]
    PROVE  LocksOK'
  BY DEF TypeOK, LocksOK

\* pthread_rwlock_rdlock and pthread_rwlock_unlock of an i-node.
LEMMA ReadLocked ==
    ASSUME TypeOK, UNCHANGED of_mutex, NEW i \in Inodes, RdlockAndUnlock(i)
    PROVE  LocksOK'
<1>1. i_lock[i] \in Locks
  BY DEF TypeOK, LocksOK
<1>2. [i_lock[i] EXCEPT !.readers = IF @ < -1 THEN @ - 1 ELSE @] \in Locks
  BY <1>1 DEF Locks
<1> QED
  BY <1>2 DEF TypeOK, LocksOK, RdlockAndUnlock

\* pthread_rwlock_wrlock of an i-node.
LEMMA WriteLocked ==
    ASSUME TypeOK, UNCHANGED of_mutex, NEW i \in Inodes, NEW t \in Threads,
           i_lock' = [i_lock EXCEPT ![i].writer = t]
    PROVE  LocksOK'
<1>1. i_lock[i] \in Locks
  BY DEF TypeOK, LocksOK
<1>2. [i_lock[i] EXCEPT !.writer = t] \in Locks
  BY <1>1 DEF Locks
<1> QED
  BY <1>2 DEF TypeOK, LocksOK

\* pthread_rwlock_unlock, by a thread that holds the lock or by one that does not.
LEMMA Unlocks ==
    ASSUME TypeOK, UNCHANGED of_mutex, NEW i \in Inodes, NEW t \in Threads, Unlock(i, t)
    PROVE  LocksOK'
<1> DEFINE l == i_lock[i]
<1>1. l \in Locks
  BY DEF TypeOK, LocksOK
<1>2. [l EXCEPT !.writer = NoThread] \in Locks /\ [l EXCEPT !.readers = @ - 1] \in Locks
  BY <1>1 DEF Locks
<1> QED
  BY <1>2 DEF TypeOK, LocksOK, Unlock

\* How a thread goes on.
LEMMA Goes ==
    ASSUME TypeOK, NEW t \in Threads, NEW p \in {"idle"} \cup Opening \cup Using,
           LocalsSet([call[t] EXCEPT !.pc = p]), Go(t, p)
    PROVE  CallsOK'
<1>1. call[t] \in CallRecords
  BY GoodCall DEF Good
<1>2. [call[t] EXCEPT !.pc = p] \in CallRecords
  BY <1>1 DEF CallRecords
<1> QED
  BY <1>2, CallTyped DEF Go, Good

\* The same, from the first entry of a table.
LEMMA Scans ==
    ASSUME TypeOK, NEW t \in Threads, NEW p \in {"idle"} \cup Opening \cup Using,
           LocalsSet([call[t] EXCEPT !.pc = p, !.k = 0]), Scan(t, p)
    PROVE  CallsOK'
<1>1. call[t] \in CallRecords
  BY GoodCall DEF Good
<1>2. [call[t] EXCEPT !.pc = p, !.k = 0] \in CallRecords
  BY <1>1 DEF CallRecords
<1> QED
  BY <1>2, CallTyped DEF Scan, Good

\* The same, to the next entry of a table.
LEMMA Continues ==
    ASSUME TypeOK, NEW t \in Threads, NextEntry(t),
           call[t].pc \notin {"d_inumber", "d_name", "d_name_end"}
    PROVE  CallsOK'
<1> DEFINE c == [call[t] EXCEPT !.k = @ + 1]
<1>1. c \in CallRecords
  BY GoodCall DEF Good, CallRecords
<1>2. LocalsSet(c)
  BY GoodCall DEF Good, LocalsSet
<1> QED
  BY <1>1, <1>2, CallTyped DEF NextEntry, Good

-----------------------------------------------------------------------------
(* tfs_open.                                                               *)

\* tfs_lookup, at one entry of the directory.
LEMMA FindEntryTyped == ASSUME TypeOK, NEW t \in Threads, FindEntry(t) PROVE TypeOK'
<1> DEFINE c == call[t]
<1>0. Good(c) /\ c.pc = "find_in_dir"
  BY GoodCall DEF FindEntry, At
<1>1. ASSUME c.k \in find_in_dir(c.name) PROVE CallsOK'
  <2>1. dir[c.k].d_inumber \in Inodes
    BY <1>1 DEF TypeOK, TablesOK, find_in_dir
  <2>2. ASSUME NEW p \in {"data_free", "offset"}
        PROVE  Good([c EXCEPT !.inum = dir[c.k].d_inumber, !.pc = p])
    <3>1. [c EXCEPT !.inum = dir[c.k].d_inumber, !.pc = p] \in CallRecords
      BY <1>0, <2>1 DEF Good, CallRecords, Opening
    <3>2. LocalsSet([c EXCEPT !.inum = dir[c.k].d_inumber, !.pc = p])
      BY <1>0, <2>1 DEF Good, CallRecords, LocalsSet, Opening, Using, Moving
    <3> QED
      BY <3>1, <3>2 DEF Good
  <2>3. PICK p \in {"data_free", "offset"} :
             call' = [call EXCEPT ![t].inum = dir[c.k].d_inumber, ![t].pc = p]
    BY <1>1 DEF FindEntry
  <2>4. call' = [call EXCEPT ![t] = [c EXCEPT !.inum = dir[c.k].d_inumber, !.pc = p]]
    BY <2>3
  <2> QED
    BY <2>2, <2>4, CallTyped
<1>2. ASSUME c.k \notin find_in_dir(c.name) PROVE CallsOK'
  BY <1>0, <1>2, Continues DEF FindEntry
<1>3. CallsOK'
  BY <1>1, <1>2
<1> QED
  BY <1>3, Tables, OpenFiles, LocksKept DEF TypeOK, FindEntry

\* tfs_lookup finds no entry.
LEMMA NotFoundTyped == ASSUME TypeOK, NEW t \in Threads, NotFound(t) PROVE TypeOK'
<1>1. Good(call[t]) /\ call[t].pc = "find_in_dir"
  BY GoodCall DEF NotFound, At
<1>2. LocalsSet([call[t] EXCEPT !.pc = "inode_create", !.k = 0])
  BY <1>1 DEF Good, CallRecords, LocalsSet, Opening, Using, Moving
<1>3. CallsOK'
  BY <1>2, Scans, Returned DEF NotFound, Opening
<1> QED
  BY <1>3, Tables, OpenFiles, LocksKept DEF TypeOK, NotFound

\* The first offset of a handle: 0 or the size of the file.
LEMMA InitialOffsetTyped == ASSUME TypeOK, NEW t \in Threads, InitialOffset(t) PROVE TypeOK'
<1> DEFINE c == call[t]
<1>0. Good(c) /\ c.pc = "offset" /\ c.inum \in Inodes
  BY GoodCall DEF InitialOffset, At, Good, LocalsSet, Opening
<1>1. ASSUME "TFS_O_APPEND" \in c.flags PROVE CallsOK' /\ LocksOK'
  <2>1. Good([c EXCEPT !.pc = "open_file_table", !.k = 0, !.offset = inode_table[c.inum].i_size])
    <3>1. [c EXCEPT !.pc = "open_file_table", !.k = 0, !.offset = inode_table[c.inum].i_size] \in CallRecords
      BY <1>0 DEF TypeOK, TablesOK, Good, CallRecords, Opening, Using, Moving
    <3>2. LocalsSet([c EXCEPT !.pc = "open_file_table", !.k = 0, !.offset = inode_table[c.inum].i_size])
      BY <1>0 DEF TypeOK, TablesOK, Good, CallRecords, LocalsSet, Opening, Using, Moving
    <3> QED
      BY <3>1, <3>2 DEF Good
  <2>2. RdlockAndUnlock(c.inum) /\ UNCHANGED of_mutex
    BY <1>1 DEF InitialOffset
  <2>3. call' = [call EXCEPT ![t] = [c EXCEPT !.pc = "open_file_table", !.k = 0,
                                              !.offset = inode_table[c.inum].i_size]]
    BY <1>1 DEF InitialOffset
  <2> QED
    BY <1>0, <2>1, <2>2, <2>3, CallTyped, ReadLocked
<1>2. ASSUME "TFS_O_APPEND" \notin c.flags PROVE CallsOK' /\ LocksOK'
  <2>1. LocalsSet([c EXCEPT !.pc = "open_file_table", !.k = 0])
    BY <1>0 DEF Good, CallRecords, LocalsSet, Opening, Using, Moving
  <2> QED
    BY <1>2, <2>1, Scans, LocksKept DEF InitialOffset, Opening, locks
<1>3. CallsOK' /\ LocksOK'
  BY <1>1, <1>2
<1> QED
  BY <1>3, Tables, OpenFiles DEF TypeOK, InitialOffset

\* inode_data_free tests the size, unlocked.
LEMMA DataFreeTyped == ASSUME TypeOK, NEW t \in Threads, DataFree(t) PROVE TypeOK'
<1>1. ASSUME NEW p \in {"data_lock", "data_unlock"}
      PROVE  LocalsSet([call[t] EXCEPT !.pc = p])
  BY GoodCall DEF DataFree, At, Good, CallRecords, LocalsSet, Opening, Using, Moving
<1>2. CallsOK'
  BY <1>1, Goes DEF DataFree, Opening
<1> QED
  BY <1>2, Tables, OpenFiles, LocksKept DEF TypeOK, DataFree

\* inode_data_free locks the i-node.
LEMMA DataLockTyped == ASSUME TypeOK, NEW t \in Threads, DataLock(t) PROVE TypeOK'
<1>1. Good(call[t]) /\ call[t].pc = "data_lock" /\ call[t].inum \in Inodes
  BY GoodCall DEF DataLock, At, Good, LocalsSet, Opening
<1>2. LocalsSet([call[t] EXCEPT !.pc = "free_block", !.k = 0])
  BY <1>1 DEF Good, CallRecords, LocalsSet, Opening, Using, Moving
<1>3. CallsOK'
  BY <1>2, Scans DEF DataLock, Opening
<1>4. LocksOK'
  BY <1>1, WriteLocked DEF DataLock
<1> QED
  BY <1>3, <1>4, Tables, OpenFiles DEF TypeOK, DataLock

\* inode_data_free frees one block, or gives up at what is no block.
LEMMA FreeBlockTyped == ASSUME TypeOK, NEW t \in Threads, FreeBlock(t) PROVE TypeOK'
<1> DEFINE c == call[t]
           todo == ToFree(c.inum, c.k)
           b == PointerAt(inode_table[c.inum], FreeOrder(Min(todo)))
<1>0. Good(c) /\ c.pc = "free_block" /\ c.inum \in Inodes /\ c.k \in Nat
  BY GoodCall DEF FreeBlock, At, Good, CallRecords, LocalsSet, Opening
<1>1. ASSUME todo = {} PROVE CallsOK' /\ TablesOK' /\ LocksOK'
  <2>1. LocalsSet([c EXCEPT !.pc = "data_unlock"])
    BY <1>0 DEF Good, CallRecords, LocalsSet, Opening, Using, Moving
  <2>2. CallsOK'
    BY <1>1, <2>1, Goes DEF FreeBlock, Opening
  <2>3. TablesOK' /\ LocksOK'
    BY <1>1, Tables, LocksKept DEF FreeBlock, locks, names, data
  <2> QED
    BY <2>2, <2>3
<1>2. ASSUME todo # {} /\ b \in Blocks PROVE CallsOK' /\ TablesOK' /\ LocksOK'
  <2>1. todo \subseteq Nat
    BY <1>0, SizesAssumption DEF ToFree
  <2>2. Min(todo) \in Nat
    BY <1>2, <2>1, LeastElement
  <2>3. Good([c EXCEPT !.k = Min(todo) + 1])
    <3>1. [c EXCEPT !.k = Min(todo) + 1] \in CallRecords
      BY <1>0, <2>2 DEF Good, CallRecords
    <3>2. LocalsSet([c EXCEPT !.k = Min(todo) + 1])
      BY <1>0, <2>2 DEF Good, CallRecords, LocalsSet
    <3> QED
      BY <3>1, <3>2 DEF Good
  <2>4. CallsOK'
    BY <1>2, <2>3, CallTyped DEF FreeBlock
  <2>5. TablesOK'
    BY <1>2 DEF FreeBlock, TypeOK, TablesOK, names
  <2>6. LocksOK'
    BY <1>2, LocksKept DEF FreeBlock, locks
  <2> QED
    BY <2>4, <2>5, <2>6
<1>3. ASSUME todo # {} /\ b \notin Blocks PROVE CallsOK' /\ TablesOK' /\ LocksOK'
  <2>1. Unlock(c.inum, t) /\ Return(t) /\ UNCHANGED free_blocks
    BY <1>3 DEF FreeBlock
  <2>2. TablesOK'
    BY <2>1, Tables DEF FreeBlock, names, data
  <2> QED
    BY <1>0, <2>1, <2>2, Returned, Unlocks DEF FreeBlock
<1>4. CallsOK' /\ TablesOK' /\ LocksOK'
  BY <1>1, <1>2, <1>3
<1> QED
  BY <1>4, OpenFiles DEF TypeOK, FreeBlock

\* inode_data_free unlocks the i-node.
LEMMA DataUnlockTyped == ASSUME TypeOK, NEW t \in Threads, DataUnlock(t) PROVE TypeOK'
<1>1. Good(call[t]) /\ call[t].pc = "data_unlock" /\ call[t].inum \in Inodes
  BY GoodCall DEF DataUnlock, At, Good, LocalsSet, Opening
<1>2. LocalsSet([call[t] EXCEPT !.pc = "metadata_reset"])
  BY <1>1 DEF Good, CallRecords, LocalsSet, Opening, Using, Moving
<1>3. CallsOK'
  BY <1>2, Goes, Returned DEF DataUnlock, Opening
<1>4. LocksOK'
  BY <1>1, Unlocks DEF DataUnlock
<1> QED
  BY <1>3, <1>4, Tables, OpenFiles DEF TypeOK, DataUnlock

\* An i-node as inode_create and inode_metadata_reset leave it.
LEMMA NewFileTyped ==
    ASSUME TypeOK, NEW i \in Inodes, inode_table' = [inode_table EXCEPT ![i] = NewFile],
           UNCHANGED <<names, free_blocks, fs_data>>
    PROVE  TablesOK'
<1>1. NoPointers \in [Direct -> Blocks \cup {EMPTY}]
  BY DEF NoPointers
<1>2. NewFile \in [i_size : Nat, i_data_block : Blocks \cup {EMPTY},
                   i_direct_blocks : [Direct -> Blocks \cup {EMPTY}]]
  BY <1>1 DEF NewFile
<1> QED
  BY <1>2 DEF TypeOK, TablesOK, names

\* inode_metadata_reset.
LEMMA MetadataResetTyped == ASSUME TypeOK, NEW t \in Threads, MetadataReset(t) PROVE TypeOK'
<1>1. Good(call[t]) /\ call[t].pc = "metadata_reset" /\ call[t].inum \in Inodes
  BY GoodCall DEF MetadataReset, At, Good, LocalsSet, Opening
<1>2. LocalsSet([call[t] EXCEPT !.pc = "offset"])
  BY <1>1 DEF Good, CallRecords, LocalsSet, Opening, Using, Moving
<1>3. CallsOK'
  BY <1>2, Goes DEF MetadataReset, Opening
<1>4. TablesOK'
  BY <1>1, NewFileTyped DEF MetadataReset
<1> QED
  BY <1>3, <1>4, OpenFiles, LocksKept DEF TypeOK, MetadataReset

\* inode_create tests one entry of freeinode_ts and takes it.
LEMMA TakeInodeTyped == ASSUME TypeOK, NEW t \in Threads, TakeInode(t) PROVE TypeOK'
<1> DEFINE c == call[t]
<1>0. Good(c) /\ c.pc = "inode_create"
  BY GoodCall DEF TakeInode, At
<1>1. ASSUME c.k \notin Inodes PROVE CallsOK' /\ TablesOK'
  BY <1>1, Returned, Tables DEF TakeInode, names, data
<1>2. ASSUME c.k \in Inodes, inode_is_free(c.k) PROVE CallsOK' /\ TablesOK'
  <2>1. Good([c EXCEPT !.pc = "inode_init", !.inum = c.k])
    <3>1. [c EXCEPT !.pc = "inode_init", !.inum = c.k] \in CallRecords
      BY <1>0, <1>2 DEF Good, CallRecords, Opening, Using, Moving
    <3>2. LocalsSet([c EXCEPT !.pc = "inode_init", !.inum = c.k])
      BY <1>0, <1>2 DEF Good, CallRecords, LocalsSet, Opening, Using, Moving
    <3> QED
      BY <3>1, <3>2 DEF Good
  <2>2. call' = [call EXCEPT ![t] = [c EXCEPT !.pc = "inode_init", !.inum = c.k]]
    BY <1>2 DEF TakeInode
  <2>3. TablesOK'
    BY <1>2 DEF TakeInode, TypeOK, TablesOK, data
  <2> QED
    BY <2>1, <2>2, <2>3, CallTyped
<1>3. ASSUME c.k \in Inodes, ~inode_is_free(c.k) PROVE CallsOK' /\ TablesOK'
  BY <1>0, <1>3, Continues, Tables DEF TakeInode, names, data
<1>4. CallsOK' /\ TablesOK'
  BY <1>1, <1>2, <1>3
<1> QED
  BY <1>4, OpenFiles, LocksKept DEF TypeOK, TakeInode

\* inode_create fills the i-node.
LEMMA InitInodeTyped == ASSUME TypeOK, NEW t \in Threads, InitInode(t) PROVE TypeOK'
<1>1. Good(call[t]) /\ call[t].pc = "inode_init" /\ call[t].inum \in Inodes
  BY GoodCall DEF InitInode, At, Good, LocalsSet, Opening
<1>2. LocalsSet([call[t] EXCEPT !.pc = "add_dir_entry", !.k = 0])
  BY <1>1 DEF Good, CallRecords, LocalsSet, Opening, Using, Moving
<1>3. CallsOK'
  BY <1>2, Scans DEF InitInode, Opening
<1>4. TablesOK'
  BY <1>1, NewFileTyped DEF InitInode
<1> QED
  BY <1>3, <1>4, OpenFiles, LocksKept DEF TypeOK, InitInode

\* add_dir_entry tests one entry.
LEMMA SeekEntryTyped == ASSUME TypeOK, NEW t \in Threads, SeekEntry(t) PROVE TypeOK'
<1> DEFINE c == call[t]
<1>0. Good(c) /\ c.pc = "add_dir_entry"
  BY GoodCall DEF SeekEntry, At
<1>1. ASSUME c.k \notin Slots PROVE CallsOK'
  <2>1. Good([c EXCEPT !.pc = "inode_delete", !.op = "delete"])
    <3>1. [c EXCEPT !.pc = "inode_delete", !.op = "delete"] \in CallRecords
      BY <1>0 DEF Good, CallRecords, Opening, Using, Moving
    <3>2. LocalsSet([c EXCEPT !.pc = "inode_delete", !.op = "delete"])
      BY <1>0 DEF Good, CallRecords, LocalsSet, Opening, Using, Moving
    <3> QED
      BY <3>1, <3>2 DEF Good
  <2>2. call' = [call EXCEPT ![t] = [c EXCEPT !.pc = "inode_delete", !.op = "delete"]]
    BY <1>1 DEF SeekEntry
  <2> QED
    BY <2>1, <2>2, CallTyped
<1>2. ASSUME c.k \in Slots, dir[c.k].d_inumber = -1 PROVE CallsOK'
  <2>1. LocalsSet([c EXCEPT !.pc = "d_inumber"])
    BY <1>0, <1>2 DEF Good, LocalsSet, Opening, Using, Moving
  <2> QED
    BY <1>2, <2>1, Goes DEF SeekEntry, Opening
<1>3. ASSUME c.k \in Slots, dir[c.k].d_inumber # -1 PROVE CallsOK'
  BY <1>0, <1>3, Continues DEF SeekEntry
<1>4. CallsOK'
  BY <1>1, <1>2, <1>3
<1> QED
  BY <1>4, Tables, OpenFiles, LocksKept DEF TypeOK, SeekEntry

\* add_dir_entry writes the number.
LEMMA SetInumberTyped == ASSUME TypeOK, NEW t \in Threads, SetInumber(t) PROVE TypeOK'
<1>1. Good(call[t]) /\ call[t].pc = "d_inumber" /\ call[t].inum \in Inodes
  BY GoodCall DEF SetInumber, At, Good, LocalsSet, Opening
<1>2. LocalsSet([call[t] EXCEPT !.pc = "d_name"])
  BY <1>1 DEF Good, CallRecords, LocalsSet, Opening, Using, Moving
<1>3. CallsOK'
  BY <1>2, Goes DEF SetInumber, Opening
<1>4. TablesOK'
  BY <1>1 DEF SetInumber, TypeOK, TablesOK, data
<1> QED
  BY <1>3, <1>4, OpenFiles, LocksKept DEF TypeOK, SetInumber

\* An entry under a name that strncpy has left there.
LEMMA NameTyped ==
    ASSUME TypeOK, NEW e, NEW name \in StoredNames,
           dir' = [dir EXCEPT ![e].d_name = name], UNCHANGED <<freeinode_ts, data>>
    PROVE  TablesOK'
  BY DEF TypeOK, TablesOK, data

\* add_dir_entry has copied a part of the name.
LEMMA BeginNameTyped == ASSUME TypeOK, NEW t \in Threads, BeginName(t) PROVE TypeOK'
<1>1. Good(call[t]) /\ call[t].pc = "d_name" /\ call[t].name \in Names
  BY GoodCall DEF BeginName, At, Good, LocalsSet, Opening
<1>2. LocalsSet([call[t] EXCEPT !.pc = "d_name_end"])
  BY <1>1 DEF Good, CallRecords, LocalsSet, Opening, Using, Moving
<1>3. CallsOK'
  BY <1>2, Goes DEF BeginName, Opening
<1>4. Partial[call[t].name] \subseteq StoredNames
  BY <1>1 DEF StoredNames
<1>5. TablesOK'
  BY <1>4, NameTyped DEF BeginName
<1> QED
  BY <1>3, <1>5, OpenFiles, LocksKept DEF TypeOK, BeginName

\* add_dir_entry has copied the name.
LEMMA EndNameTyped == ASSUME TypeOK, NEW t \in Threads, EndName(t) PROVE TypeOK'
<1>1. Good(call[t]) /\ call[t].pc \in {"d_name", "d_name_end"} /\ call[t].name \in Names
  BY GoodCall DEF EndName, At, Good, LocalsSet, Opening
<1>2. LocalsSet([call[t] EXCEPT !.pc = "open_file_table", !.k = 0])
  BY <1>1 DEF Good, CallRecords, LocalsSet, Opening, Using, Moving
<1>3. CallsOK'
  BY <1>2, Scans DEF EndName, Opening
<1>4. {call[t].name, Garbled} \subseteq StoredNames
  BY <1>1 DEF StoredNames
<1>5. PICK name \in {call[t].name, Garbled} : dir' = [dir EXCEPT ![call[t].k].d_name = name]
  BY DEF EndName
<1>6. TablesOK'
  BY <1>4, <1>5, NameTyped DEF EndName
<1> QED
  BY <1>3, <1>6, OpenFiles, LocksKept DEF TypeOK, EndName

\* inode_delete frees the i-node before its blocks.
LEMMA DeleteInodeTyped == ASSUME TypeOK, NEW t \in Threads, DeleteInode(t) PROVE TypeOK'
<1>1. Good(call[t]) /\ call[t].pc = "inode_delete"
  BY GoodCall DEF DeleteInode, At
<1>2. LocalsSet([call[t] EXCEPT !.pc = "data_free"])
  BY <1>1 DEF Good, CallRecords, LocalsSet, Opening, Using, Moving
<1>3. CallsOK'
  BY <1>2, Goes, Returned DEF DeleteInode, Opening
<1>4. TablesOK'
  BY DEF DeleteInode, TypeOK, TablesOK, data
<1> QED
  BY <1>3, <1>4, OpenFiles, LocksKept DEF TypeOK, DeleteInode

\* add_to_open_file_table tests one entry and takes it.
LEMMA TakeHandleTyped == ASSUME TypeOK, NEW t \in Threads, TakeHandle(t) PROVE TypeOK'
<1> DEFINE c == call[t]
<1>0. Good(c) /\ c.pc = "open_file_table" /\ c.k \in Handles
  BY GoodCall DEF TakeHandle, At
<1>1. ASSUME handle_is_free(c.k) PROVE CallsOK' /\ HandlesOK'
  <2>1. Good([c EXCEPT !.pc = "of_fields", !.h = c.k])
    <3>1. [c EXCEPT !.pc = "of_fields", !.h = c.k] \in CallRecords
      BY <1>0 DEF Good, CallRecords, Opening, Using, Moving
    <3>2. LocalsSet([c EXCEPT !.pc = "of_fields", !.h = c.k])
      BY <1>0 DEF Good, CallRecords, LocalsSet, Opening, Using, Moving
    <3> QED
      BY <3>1, <3>2 DEF Good
  <2>2. call' = [call EXCEPT ![t] = [c EXCEPT !.pc = "of_fields", !.h = c.k]]
    BY <1>1 DEF TakeHandle
  <2>3. HandlesOK'
    BY <1>1 DEF TakeHandle, TypeOK, HandlesOK
  <2> QED
    BY <2>1, <2>2, <2>3, CallTyped
<1>2. ASSUME ~handle_is_free(c.k) PROVE CallsOK' /\ HandlesOK'
  BY <1>0, <1>2, Continues, OpenFiles DEF TakeHandle, handles
<1>3. CallsOK' /\ HandlesOK'
  BY <1>1, <1>2
<1> QED
  BY <1>3, Tables, LocksKept DEF TypeOK, TakeHandle

\* add_to_open_file_table finds no entry.
LEMMA NoHandleTyped == ASSUME TypeOK, NEW t \in Threads, NoHandle(t) PROVE TypeOK'
  BY Returned, Tables, OpenFiles, LocksKept DEF TypeOK, NoHandle

\* add_to_open_file_table fills the entry.
LEMMA FillHandleTyped == ASSUME TypeOK, NEW t \in Threads, FillHandle(t) PROVE TypeOK'
<1> DEFINE c == call[t]
           file == [of_inumber |-> c.inum, of_offset |-> c.offset % BLOCK_SIZE,
                    of_boffset |-> c.offset \div BLOCK_SIZE]
<1>0. Good(c) /\ c.pc = "of_fields" /\ c.h \in Handles /\ c.inum \in Inodes
      /\ c.name \in Names /\ c.offset \in Nat
  BY GoodCall DEF FillHandle, At, Good, CallRecords, LocalsSet, Opening
<1>1. LocalsSet([c EXCEPT !.pc = "copy_size"])
  BY <1>0 DEF Good, CallRecords, LocalsSet, Opening, Using, Moving
<1>2. CallsOK'
  BY <1>1, Goes, Returned DEF FillHandle, Using
<1>3. file \in [of_inumber : Inodes, of_offset : 0 .. BLOCK_SIZE - 1, of_boffset : Nat]
  BY <1>0, PlaceInBlock
<1>4. HandlesOK'
  <2>1. open_file_table' \in [Handles -> [of_inumber : Inodes, of_offset : 0 .. BLOCK_SIZE - 1,
                                          of_boffset : Nat]]
    BY <1>3 DEF FillHandle, TypeOK, HandlesOK
  <2>2. held' \in [Threads -> SUBSET Handles]
    BY <1>0 DEF FillHandle, TypeOK, HandlesOK
  <2>3. history' \in [Handles -> [name : Names \cup {Blank}, moved : Nat]]
    BY <1>0 DEF FillHandle, TypeOK, HandlesOK
  <2> QED
    BY <2>1, <2>2, <2>3 DEF FillHandle, TypeOK, HandlesOK
<1>5. LocksOK'
  BY <1>0, MutexTaken DEF FillHandle
<1> QED
  BY <1>2, <1>4, <1>5, Tables DEF TypeOK, FillHandle

-----------------------------------------------------------------------------
(* tfs_close, and the calls.                                               *)

\* tfs_close tests the entry.
LEMMA CloseTestTyped == ASSUME TypeOK, NEW t \in Threads, CloseTest(t) PROVE TypeOK'
<1>1. LocalsSet([call[t] EXCEPT !.pc = "closing"])
  BY GoodCall DEF CloseTest, At, Good, CallRecords, LocalsSet, Opening, Using, Moving
<1>2. CallsOK'
  BY <1>1, Goes, Returned DEF CloseTest, Using
<1> QED
  BY <1>2, Tables, OpenFiles, LocksKept DEF TypeOK, CloseTest

\* tfs_close frees the entry.
LEMMA CloseTyped == ASSUME TypeOK, NEW t \in Threads, Close(t) PROVE TypeOK'
<1>1. HandlesOK'
  BY DEF Close, TypeOK, HandlesOK
<1> QED
  BY <1>1, Returned, Tables, LocksKept DEF TypeOK, Close

\* What a call starts with.
LEMMA EnterTyped ==
    ASSUME TypeOK, NEW t \in Threads, NEW c, Good(c), Enter(t, c),
           held' \in [Threads -> SUBSET Handles]
    PROVE  TypeOK'
<1>1. CallsOK'
  BY CallTyped DEF Enter
<1>2. HandlesOK'
  BY DEF Enter, TypeOK, HandlesOK
<1>3. calls' \in [Threads -> Nat]
  BY DEF Enter, TypeOK
<1> QED
  BY <1>1, <1>2, <1>3, Tables, LocksKept DEF TypeOK, Enter

\* The operations, as callers call them.
LEMMA CallsTyped == ASSUME TypeOK, NEW t \in Threads, Calls(t) PROVE TypeOK'
<1>0. NoCall \in CallRecords /\ held \in [Threads -> SUBSET Handles]
  <2>1. NoCall \in CallRecords
    BY SizesAssumption DEF NoCall, CallRecords, Opening, Using, Moving
  <2> QED
    BY <2>1 DEF TypeOK, HandlesOK
<1>1. ASSUME NEW h \in Usable(t) PROVE h \in Handles
  BY <1>1, <1>0 DEF Usable, Given
<1>2. ASSUME NEW name \in Names, NEW flags \in OpenFlags, tfs_open(t, name, flags)
      PROVE  TypeOK'
  <2> DEFINE c == [NoCall EXCEPT !.pc = "find_in_dir", !.op = "open",
                                 !.name = name, !.flags = flags]
  <2>1. flags \in SUBSET {"TFS_O_CREAT", "TFS_O_TRUNC", "TFS_O_APPEND"}
    BY CallersAssumption
  <2>2. c \in CallRecords
    BY <1>0, <2>1 DEF CallRecords, Opening
  <2>3. LocalsSet(c)
    BY DEF NoCall, LocalsSet, Opening, Using, Moving
  <2> QED
    BY <1>0, <1>2, <2>2, <2>3, EnterTyped DEF Good, tfs_open
<1>3. ASSUME NEW name \in Names, tfs_copy_to_external_fs(t, name) PROVE TypeOK'
  <2> DEFINE c == [NoCall EXCEPT !.pc = "find_in_dir", !.op = "copy", !.name = name]
  <2>1. c \in CallRecords
    BY <1>0 DEF CallRecords, Opening
  <2>2. LocalsSet(c)
    BY DEF NoCall, LocalsSet, Opening, Using, Moving
  <2> QED
    BY <1>0, <1>3, <2>1, <2>2, EnterTyped DEF Good, tfs_copy_to_external_fs
<1>4. ASSUME NEW h \in Handles PROVE history[h].name \in Names \cup {Blank}
                                     /\ open_file_table[h].of_inumber \in Inodes
  BY DEF TypeOK, HandlesOK
<1>5. ASSUME NEW h \in Usable(t), NEW len \in Lens, tfs_write(t, h, len) PROVE TypeOK'
  <2> DEFINE c == [NoCall EXCEPT !.pc = "to_write", !.op = "write", !.h = h,
                                 !.name = history[h].name, !.left = len,
                                 !.inum = open_file_table[h].of_inumber]
  <2>1. c \in CallRecords
    BY <1>0, <1>1, <1>4, SizesAssumption DEF CallRecords, Using
  <2>2. LocalsSet(c)
    BY <1>1, <1>4 DEF NoCall, LocalsSet, Opening, Using, Moving
  <2> QED
    BY <1>0, <1>5, <2>1, <2>2, EnterTyped DEF Good, tfs_write
<1>6. ASSUME NEW h \in Usable(t), NEW len \in Lens, tfs_read(t, h, len) PROVE TypeOK'
  <2> DEFINE c == [NoCall EXCEPT !.pc = "to_read", !.op = "read", !.h = h,
                                 !.name = history[h].name, !.len = len,
                                 !.inum = open_file_table[h].of_inumber]
  <2>1. c \in CallRecords
    BY <1>0, <1>1, <1>4, SizesAssumption DEF CallRecords, Using
  <2>2. LocalsSet(c)
    BY <1>1, <1>4 DEF NoCall, LocalsSet, Opening, Using, Moving
  <2> QED
    BY <1>0, <1>6, <2>1, <2>2, EnterTyped DEF Good, tfs_read
<1>7. ASSUME NEW h \in Usable(t), tfs_close(t, h) PROVE TypeOK'
  <2> DEFINE c == [NoCall EXCEPT !.pc = "close", !.op = "close", !.h = h]
  <2>1. c \in CallRecords
    BY <1>0, <1>1 DEF CallRecords, Using
  <2>2. LocalsSet(c)
    BY <1>1 DEF NoCall, LocalsSet, Opening, Using, Moving
  <2>3. held' \in [Threads -> SUBSET Handles]
    BY <1>0, <1>7 DEF tfs_close
  <2> QED
    BY <1>7, <2>1, <2>2, <2>3, EnterTyped DEF Good, tfs_close
<1> QED
  BY <1>2, <1>3, <1>5, <1>6, <1>7 DEF Calls

-----------------------------------------------------------------------------
(* tfs_write, tfs_read and tfs_copy_to_external_fs.                        *)

\* The next chunk of a thread that uses a handle.
LEMMA ChunkTyped ==
    ASSUME TypeOK, NEW t \in Threads, NEW aux \in 0 .. BLOCK_SIZE, Chunk(t, aux),
           call[t].h \in Handles, call[t].inum \in Inodes,
           call[t].op # "write" => aux <= call[t].left
    PROVE  CallsOK'
<1>1. ASSUME NEW p \in {"of_lock", "advance"}
      PROVE  Good([call[t] EXCEPT !.aux = aux, !.pc = p])
  <2> DEFINE c == [call[t] EXCEPT !.aux = aux, !.pc = p]
  <2>1. call[t] \in CallRecords
    BY GoodCall DEF Good
  <2>2. c \in CallRecords
    BY <2>1 DEF CallRecords, Using, Moving
  <2>3. c.pc = p /\ c.aux = aux /\ c.h \in Handles /\ c.inum \in Inodes
        /\ (c.op # "write" => aux <= c.left)
    BY <2>1 DEF CallRecords
  <2> HIDE DEF c
  <2>4. LocalsSet(c)
    BY <2>3 DEF LocalsSet, Opening, Using, Moving
  <2> QED
    BY <2>2, <2>4 DEF Good, c
<1>2. PICK p \in {"of_lock", "advance"} : call' = [call EXCEPT ![t].aux = aux, ![t].pc = p]
  BY DEF Chunk
<1>3. call' = [call EXCEPT ![t] = [call[t] EXCEPT !.aux = aux, !.pc = p]]
  BY <1>2
<1> QED
  BY <1>1, <1>3, CallTyped

\* The offset of a handle and the rest of its block.
LEMMA RestOfBlock ==
    ASSUME TypeOK, NEW h \in Handles
    PROVE  /\ open_file_table[h].of_offset \in 0 .. BLOCK_SIZE - 1
           /\ rest_of_block(open_file_table[h].of_offset)
                  = BLOCK_SIZE - open_file_table[h].of_offset
  BY SizesAssumption DEF TypeOK, HandlesOK, rest_of_block, Minus

\* tfs_write starts the next chunk.
LEMMA WriteChunkTyped == ASSUME TypeOK, NEW t \in Threads, WriteChunk(t) PROVE TypeOK'
<1> DEFINE c == call[t]
           o == open_file_table[c.h].of_offset
<1>0. /\ Good(c) /\ c.pc = "to_write" /\ c.h \in Handles /\ c.inum \in Inodes
      /\ c.left \in Nat /\ c.op = "write" /\ o \in 0 .. BLOCK_SIZE - 1
  BY GoodCall, RestOfBlock DEF WriteChunk, At, Good, CallRecords, LocalsSet, Using
<1>1. ASSUME c.left # 0, passes_block(c.left, o) PROVE CallsOK'
  <2>1. LocalsSet([c EXCEPT !.pc = "write_rest"])
    BY <1>0 DEF Good, LocalsSet, Opening, Using, Moving
  <2> QED
    BY <1>1, <2>1, Goes DEF WriteChunk, Using
<1>2. ASSUME c.left # 0, ~passes_block(c.left, o) PROVE CallsOK'
  <2>1. c.left \in 0 .. BLOCK_SIZE
    BY <1>0, <1>2, SizesAssumption DEF passes_block
  <2> QED
    BY <1>0, <1>2, <2>1, ChunkTyped DEF WriteChunk
<1>3. CallsOK'
  BY <1>1, <1>2, Returned DEF WriteChunk
<1> QED
  BY <1>3, Tables, OpenFiles, LocksKept DEF TypeOK, WriteChunk

\* tfs_write takes the rest of the block for its chunk.
LEMMA WriteRestTyped == ASSUME TypeOK, NEW t \in Threads, WriteRest(t) PROVE TypeOK'
<1> DEFINE c == call[t]
<1>0. c.h \in Handles /\ c.inum \in Inodes /\ c.op = "write"
  BY GoodCall DEF WriteRest, At, Good, LocalsSet, Using
<1>1. rest_of_block(open_file_table[c.h].of_offset) \in 0 .. BLOCK_SIZE
  BY <1>0, RestOfBlock, SizesAssumption
<1>2. CallsOK'
  BY <1>0, <1>1, ChunkTyped DEF WriteRest
<1> QED
  BY <1>2, Tables, OpenFiles, LocksKept DEF TypeOK, WriteRest

\* tfs_read computes how much there is to read.
LEMMA ReadAmountTyped == ASSUME TypeOK, NEW t \in Threads, ReadAmount(t) PROVE TypeOK'
<1> DEFINE c == call[t]
           available == Minus(inode_table[c.inum].i_size, open_file_table[c.h].of_offset)
           amount == IF available > c.len THEN c.len ELSE available
<1>0. /\ Good(c) /\ c.pc = "to_read" /\ c.h \in Handles /\ c.inum \in Inodes
      /\ c.len \in Nat
  BY GoodCall DEF ReadAmount, At, Good, CallRecords, LocalsSet, Using
<1>1. available \in Nat
  <2>1. inode_table[c.inum].i_size \in Nat
    BY <1>0 DEF TypeOK, TablesOK
  <2>2. open_file_table[c.h].of_offset \in 0 .. BLOCK_SIZE - 1
    BY <1>0, RestOfBlock
  <2> QED
    BY <2>1, <2>2, MinusIsNat, SizesAssumption
<1>2. amount \in Nat
  BY <1>0, <1>1
<1> HIDE DEF amount
<1>3. Good([c EXCEPT !.pc = "read_chunk", !.left = amount, !.total = amount])
  <2>1. [c EXCEPT !.pc = "read_chunk", !.left = amount, !.total = amount] \in CallRecords
    BY <1>0, <1>2 DEF Good, CallRecords, Opening, Using, Moving
  <2>2. LocalsSet([c EXCEPT !.pc = "read_chunk", !.left = amount, !.total = amount])
    BY <1>0, <1>2 DEF Good, CallRecords, LocalsSet, Opening, Using, Moving
  <2> QED
    BY <2>1, <2>2 DEF Good
<1>4. call' = [call EXCEPT ![t] = [c EXCEPT !.pc = "read_chunk", !.left = amount,
                                            !.total = amount]]
  BY DEF ReadAmount, amount
<1>5. CallsOK'
  BY <1>3, <1>4, CallTyped
<1>6. LocksOK'
  BY <1>0, ReadLocked DEF ReadAmount
<1> QED
  BY <1>5, <1>6, Tables, OpenFiles DEF TypeOK, ReadAmount

\* tfs_read starts the next chunk or returns.
LEMMA ReadChunkTyped == ASSUME TypeOK, NEW t \in Threads, ReadChunk(t) PROVE TypeOK'
<1> DEFINE c == call[t]
           o == open_file_table[c.h].of_offset
<1>0. /\ Good(c) /\ c.pc = "read_chunk" /\ c.h \in Handles /\ c.left \in Nat
      /\ c.inum \in Inodes
      /\ o \in 0 .. BLOCK_SIZE - 1 /\ rest_of_block(o) = BLOCK_SIZE - o
  BY GoodCall, RestOfBlock DEF ReadChunk, At, Good, CallRecords, LocalsSet, Using
<1>1. ASSUME c.left > 0, passes_block(c.left, o) PROVE CallsOK'
  <2>1. rest_of_block(o) \in 0 .. BLOCK_SIZE /\ rest_of_block(o) <= c.left
    BY <1>0, <1>1, SizesAssumption DEF passes_block
  <2> QED
    BY <1>0, <1>1, <2>1, ChunkTyped DEF ReadChunk
<1>2. ASSUME c.left > 0, ~passes_block(c.left, o) PROVE CallsOK'
  <2>1. c.left \in 0 .. BLOCK_SIZE
    BY <1>0, <1>2, SizesAssumption DEF passes_block
  <2> QED
    BY <1>0, <1>2, <2>1, ChunkTyped DEF ReadChunk
<1>3. ASSUME ~(c.left > 0) PROVE CallsOK'
  <2>1. LocalsSet([c EXCEPT !.pc = "copy_out"])
    BY <1>0 DEF Good, LocalsSet, Opening, Using, Moving
  <2> QED
    BY <1>3, <2>1, Goes, Returned DEF ReadChunk, Using
<1>4. CallsOK'
  BY <1>1, <1>2, <1>3
<1> QED
  BY <1>4, Tables, OpenFiles, LocksKept DEF TypeOK, ReadChunk

-----------------------------------------------------------------------------
(* inode_update.                                                           *)

\* The i-node that a handle leads to, and what inode_update reads of it.
LEMMA HandleInode ==
    ASSUME TypeOK, NEW t \in Threads, call[t].h \in Handles
    PROVE  of_inode(t) \in Inodes
  BY DEF TypeOK, HandlesOK, of_inode

\* inode_update locks the mutex of the handle.
LEMMA OfLockTyped == ASSUME TypeOK, NEW t \in Threads, OfLock(t) PROVE TypeOK'
<1>1. Good(call[t]) /\ call[t].pc = "of_lock" /\ call[t].h \in Handles
  BY GoodCall DEF OfLock, At, Good, LocalsSet, Using, Moving
<1>2. LocalsSet([call[t] EXCEPT !.pc = "i_lock"])
  BY <1>1 DEF Good, CallRecords, LocalsSet, Opening, Using, Moving
<1>3. CallsOK'
  BY <1>2, Goes DEF OfLock, Using, Moving
<1>4. LocksOK'
  BY <1>1, MutexTaken DEF OfLock
<1> QED
  BY <1>3, <1>4, Tables, OpenFiles DEF TypeOK, OfLock

\* inode_update locks the i-node.
LEMMA ILockTyped == ASSUME TypeOK, NEW t \in Threads, ILock(t) PROVE TypeOK'
<1> DEFINE c == call[t]
<1>1. Good(c) /\ c.pc = "i_lock" /\ c.h \in Handles
  BY GoodCall DEF ILock, At, Good, LocalsSet, Using, Moving
<1>2. Good([c EXCEPT !.pc = "alloc", !.k = 0, !.b = 0])
  <2>1. [c EXCEPT !.pc = "alloc", !.k = 0, !.b = 0] \in CallRecords
    BY <1>1 DEF Good, CallRecords, Opening, Using, Moving
  <2>2. LocalsSet([c EXCEPT !.pc = "alloc", !.k = 0, !.b = 0])
    BY <1>1 DEF Good, CallRecords, LocalsSet, Opening, Using, Moving
  <2> QED
    BY <2>1, <2>2 DEF Good
<1>3. call' = [call EXCEPT ![t] = [c EXCEPT !.pc = "alloc", !.k = 0, !.b = 0]]
  BY DEF ILock
<1>4. CallsOK'
  BY <1>2, <1>3, CallTyped
<1>5. LocksOK'
  BY <1>1, HandleInode, WriteLocked DEF ILock
<1> QED
  BY <1>4, <1>5, Tables, OpenFiles DEF TypeOK, ILock

\* The next entry of data_block_alloc, or the next pointer of inode_update.
LEMMA AllocLocals ==
    ASSUME TypeOK, NEW t \in Threads, call[t].pc = "alloc", NEW k \in Nat, NEW b \in Nat
    PROVE  Good([call[t] EXCEPT !.k = k, !.b = b])
<1>1. call[t] \in CallRecords /\ LocalsSet(call[t])
  BY GoodCall DEF Good
<1>2. [call[t] EXCEPT !.k = k, !.b = b] \in CallRecords
  BY <1>1 DEF CallRecords
<1>3. LocalsSet([call[t] EXCEPT !.k = k, !.b = b])
  BY <1>1 DEF CallRecords, LocalsSet, Opening, Using, Moving
<1> QED
  BY <1>2, <1>3 DEF Good

\* The pointers that inode_update has still to visit are numbers.
LEMMA HolesAreNat == ASSUME TypeOK, NEW t \in Threads PROVE Holes(t) \in SUBSET Nat
<1>1. call[t].k \in Nat
  BY GoodCall DEF Good, CallRecords
<1> QED
  BY <1>1 DEF Holes

\* A block that inode_update enters in an i-node or in its pointer block.
LEMMA PointerTyped ==
    ASSUME TypeOK, NEW i \in Inodes, NEW p \in Nat, NEW b \in Blocks, SetPointer(i, p, b),
           free_blocks' = [free_blocks EXCEPT ![b] = TAKEN], UNCHANGED names
    PROVE  TablesOK'
<1> DEFINE INodes == [i_size : Nat, i_data_block : Blocks \cup {EMPTY},
                      i_direct_blocks : [Direct -> Blocks \cup {EMPTY}]]
<1>1. inode_table \in [Inodes -> INodes] /\ fs_data \in [Addresses -> Int] /\ b \in Int
  BY DEF TypeOK, TablesOK, Blocks
<1>2. ASSUME p \in Direct
      PROVE  inode_table' \in [Inodes -> INodes] /\ fs_data' \in [Addresses -> Int]
  <2>1. inode_table' = [inode_table EXCEPT ![i].i_direct_blocks[p] = b] /\ UNCHANGED fs_data
    BY <1>2, SizesAssumption DEF SetPointer, IndexPointer, Direct
  <2>2. inode_table[i].i_direct_blocks \in [Direct -> Blocks \cup {EMPTY}]
    BY <1>1
  <2>3. [inode_table[i].i_direct_blocks EXCEPT ![p] = b] \in [Direct -> Blocks \cup {EMPTY}]
    BY <2>2
  <2>4. [inode_table[i] EXCEPT !.i_direct_blocks =
            [inode_table[i].i_direct_blocks EXCEPT ![p] = b]] \in INodes
    BY <1>1, <2>3
  <2>5. inode_table' = [inode_table EXCEPT ![i] = [inode_table[i] EXCEPT !.i_direct_blocks =
            [inode_table[i].i_direct_blocks EXCEPT ![p] = b]]]
    BY <2>1
  <2> QED
    BY <1>1, <2>1, <2>4, <2>5
<1>3. ASSUME p = IndexPointer
      PROVE  inode_table' \in [Inodes -> INodes] /\ fs_data' \in [Addresses -> Int]
  <2>1. /\ inode_table' = [inode_table EXCEPT ![i].i_data_block = b]
        /\ fs_data' = [a \in Addresses |->
               IF a \in b * BLOCK_SIZE .. b * BLOCK_SIZE + MAX_BLOCK_POINTERS - 1
               THEN EMPTY ELSE fs_data[a]]
    BY <1>3, SizesAssumption DEF SetPointer, IndexPointer, Direct
  <2>2. [inode_table[i] EXCEPT !.i_data_block = b] \in INodes
    BY <1>1
  <2>3. inode_table' = [inode_table EXCEPT ![i] = [inode_table[i] EXCEPT !.i_data_block = b]]
    BY <2>1
  <2>4. EMPTY \in Int
    BY DEF EMPTY
  <2>5. fs_data' \in [Addresses -> Int]
    BY <1>1, <2>1, <2>4
  <2> QED
    BY <1>1, <2>2, <2>3, <2>5
<1>4. ASSUME p > IndexPointer
      PROVE  inode_table' \in [Inodes -> INodes] /\ fs_data' \in [Addresses -> Int]
  <2>1. /\ fs_data' = [fs_data EXCEPT ![Cell(inode_table[i], p)] = b]
        /\ UNCHANGED inode_table
    BY <1>4, SizesAssumption DEF SetPointer, IndexPointer, Direct
  <2> QED
    BY <1>1, <2>1
<1>5. inode_table' \in [Inodes -> INodes] /\ fs_data' \in [Addresses -> Int]
  BY <1>2, <1>3, <1>4, SizesAssumption DEF IndexPointer, Direct
<1> QED
  BY <1>5 DEF TypeOK, TablesOK, names

\* inode_update allocates a block for a pointer that is EMPTY.
LEMMA AllocTyped == ASSUME TypeOK, NEW t \in Threads, Alloc(t) PROVE TypeOK'
<1> DEFINE c == call[t]
           p == Min(Holes(t))
<1>0. Good(c) /\ c.pc = "alloc" /\ c.h \in Handles /\ c.k \in Nat /\ c.b \in Nat
  BY GoodCall DEF Alloc, At, Good, CallRecords, LocalsSet, Using, Moving
<1>1. p \in Nat
  BY HolesAreNat, LeastElement DEF Alloc
<1> HIDE DEF p
<1>2. Good([c EXCEPT !.k = p + 1, !.b = 0])
  <2>1. p + 1 \in Nat /\ 0 \in Nat
    BY <1>1
  <2> HIDE DEF c
  <2>2. Good([call[t] EXCEPT !.k = p + 1, !.b = 0])
    BY <1>0, <2>1, AllocLocals DEF c
  <2> QED
    BY <2>2 DEF c
<1>3. ASSUME c.b \notin Blocks PROVE CallsOK' /\ TablesOK'
  <2>1. call' = [call EXCEPT ![t] = [c EXCEPT !.k = p + 1, !.b = 0]]
    BY <1>3 DEF Alloc, p
  <2>2. UNCHANGED <<names, data>>
    BY <1>3 DEF Alloc, data
  <2> QED
    BY <1>2, <2>1, <2>2, CallTyped, Tables
<1>4. ASSUME c.b \in Blocks, block_is_free(c.b) PROVE CallsOK' /\ TablesOK'
  <2>1. call' = [call EXCEPT ![t] = [c EXCEPT !.k = p + 1, !.b = 0]]
    BY <1>4 DEF Alloc, p
  <2>2. SetPointer(of_inode(t), p, c.b) /\ UNCHANGED names
        /\ free_blocks' = [free_blocks EXCEPT ![c.b] = TAKEN]
    BY <1>4 DEF Alloc, p
  <2>3. of_inode(t) \in Inodes
    BY <1>0, HandleInode
  <2>4. TablesOK'
    BY <1>1, <1>4, <2>2, <2>3, PointerTyped
  <2> QED
    BY <1>2, <2>1, <2>4, CallTyped
<1>5. ASSUME c.b \in Blocks, ~block_is_free(c.b) PROVE CallsOK' /\ TablesOK'
  <2>1. call' = [call EXCEPT ![t].b = c.b + 1] /\ UNCHANGED <<names, data>>
    BY <1>5 DEF Alloc, data
  <2>2. call' = [call EXCEPT ![t] = [c EXCEPT !.b = c.b + 1]]
    BY <2>1
  <2>3. Good([c EXCEPT !.b = c.b + 1])
    <3>1. [c EXCEPT !.b = c.b + 1] \in CallRecords
      BY <1>0 DEF Good, CallRecords, Opening, Using, Moving
    <3>2. LocalsSet([c EXCEPT !.b = c.b + 1])
      BY <1>0 DEF Good, CallRecords, LocalsSet, Opening, Using, Moving
    <3> QED
      BY <3>1, <3>2 DEF Good
  <2> QED
    BY <2>1, <2>2, <2>3, CallTyped, Tables
<1>6. CallsOK' /\ TablesOK'
  BY <1>3, <1>4, <1>5
<1> QED
  BY <1>6, OpenFiles, LocksKept DEF TypeOK, Alloc

\* The process is lost; its memory keeps its type.
LEMMA CrashTyped == ASSUME TypeOK, Crash PROVE TypeOK'
<1>1. CallsOK'
  BY DEF Crash, TypeOK, CallsOK
<1> QED
  BY <1>1, Tables, OpenFiles, LocksKept DEF TypeOK, Crash

\* inode_update unlocks the i-node.
LEMMA IUnlockTyped == ASSUME TypeOK, NEW t \in Threads, IUnlock(t) PROVE TypeOK'
<1>1. Good(call[t]) /\ call[t].pc = "alloc" /\ call[t].h \in Handles
  BY GoodCall DEF IUnlock, At, Good, LocalsSet, Using, Moving
<1>2. LocalsSet([call[t] EXCEPT !.pc = "position"])
  BY <1>1 DEF Good, CallRecords, LocalsSet, Opening, Using, Moving
<1>3. CallsOK'
  BY <1>2, Goes DEF IUnlock, Using, Moving
<1>4. LocksOK'
  BY <1>1, HandleInode, Unlocks DEF IUnlock
<1> QED
  BY <1>3, <1>4, Tables, OpenFiles DEF TypeOK, IUnlock

\* The place of the copy is computed after the unlock.
LEMMA PositionTyped == ASSUME TypeOK, NEW t \in Threads, Position(t) PROVE TypeOK'
<1> DEFINE c == call[t]
           file == open_file_table[c.h]
           inode == inode_table[file.of_inumber]
           pointer == pointer_of_block(file.of_boffset)
           block == PointerAt(inode, pointer)
           pos == (IF block \in Blocks THEN block * BLOCK_SIZE ELSE NULL) + file.of_offset
<1>0. Good(c) /\ c.pc = "position" /\ c.h \in Handles
  BY GoodCall DEF Position, At, Good, LocalsSet, Using, Moving
<1>1. file.of_offset \in Int
  BY <1>0, RestOfBlock, SizesAssumption
<1>2. (IF block \in Blocks THEN block * BLOCK_SIZE ELSE NULL) \in Int
  BY SizesAssumption DEF Blocks, NULL
<1>3. pos \in Int
  BY <1>1, <1>2
<1>4. ASSUME ~Wild(inode, pointer) PROVE TypeOK'
  <2>1. UNCHANGED <<names, data, handles, i_lock, calls, faulted>>
        /\ of_mutex' = [of_mutex EXCEPT ![c.h] = NoThread]
    BY <1>4 DEF Position
  <2>2. ASSUME pos # NULL PROVE CallsOK'
    <3>1. call' = [call EXCEPT ![t].pc = "memcpy", ![t].pos = pos]
      BY <1>4, <2>2 DEF Position
    <3> HIDE DEF pos
    <3>2. call' = [call EXCEPT ![t] = [c EXCEPT !.pc = "memcpy", !.pos = pos]]
      BY <3>1
    <3>3. Good([c EXCEPT !.pc = "memcpy", !.pos = pos])
      <4>1. [c EXCEPT !.pc = "memcpy", !.pos = pos] \in CallRecords
        BY <1>0, <1>3 DEF Good, CallRecords, Opening, Using, Moving
      <4>2. LocalsSet([c EXCEPT !.pc = "memcpy", !.pos = pos])
        BY <1>0, <1>3 DEF Good, CallRecords, LocalsSet, Opening, Using, Moving
      <4> QED
        BY <4>1, <4>2 DEF Good
    <3> QED
      BY <3>2, <3>3, CallTyped
  <2>3. ASSUME pos = NULL PROVE CallsOK'
    BY <1>4, <2>3, Returned DEF Position
  <2>4. LocksOK'
    BY <1>0, <2>1, MutexTaken
  <2> QED
    BY <2>1, <2>2, <2>3, <2>4, Tables, OpenFiles DEF TypeOK
<1>5. ASSUME Wild(inode, pointer) PROVE TypeOK'
  BY <1>5, CrashTyped DEF Position
<1> QED
  BY <1>4, <1>5

-----------------------------------------------------------------------------
(* The copy and what follows it.                                           *)

\* The memcpy of tfs_write.
LEMMA CopyInTyped == ASSUME TypeOK, NEW t \in Threads, CopyIn(t) PROVE TypeOK'
<1>1. Good(call[t]) /\ call[t].pc = "memcpy" /\ call[t].op = "write"
  BY GoodCall DEF CopyIn, At
<1>2. ASSUME Copied(t) \subseteq Addresses PROVE TypeOK'
  <2>1. LocalsSet([call[t] EXCEPT !.pc = "advance"])
    BY <1>1 DEF Good, CallRecords, LocalsSet, Opening, Using, Moving
  <2>2. CallsOK'
    BY <1>2, <2>1, Goes DEF CopyIn, Using, Moving
  <2>3. fs_data' \in [Addresses -> Int]
    BY <1>2, SizesAssumption DEF CopyIn, TypeOK, TablesOK
  <2>4. TablesOK'
    BY <1>2, <2>3 DEF CopyIn, TypeOK, TablesOK, names
  <2> QED
    BY <1>2, <2>2, <2>4, OpenFiles, LocksKept DEF TypeOK, CopyIn
<1> QED
  BY <1>2, CrashTyped DEF CopyIn

\* The memcpy of tfs_read.
LEMMA CopyOutTyped == ASSUME TypeOK, NEW t \in Threads, CopyOut(t) PROVE TypeOK'
<1>1. Good(call[t]) /\ call[t].pc = "memcpy" /\ call[t].inum \in Inodes
  BY GoodCall DEF CopyOut, At, Good, LocalsSet, Moving
<1>2. ASSUME RdlockAndUnlock(call[t].inum), Go(t, "advance"),
             UNCHANGED <<names, data, handles, of_mutex, calls, faulted>>
      PROVE  TypeOK'
  <2>1. LocalsSet([call[t] EXCEPT !.pc = "advance"])
    BY <1>1 DEF Good, CallRecords, LocalsSet, Opening, Using, Moving
  <2>2. CallsOK'
    BY <1>2, <2>1, Goes DEF Using, Moving
  <2>3. LocksOK'
    BY <1>1, <1>2, ReadLocked
  <2> QED
    BY <1>2, <2>2, <2>3, Tables, OpenFiles DEF TypeOK
<1> QED
  BY <1>2, CrashTyped DEF CopyOut

\* The offset of the handle moves on.
LEMMA AdvanceTyped == ASSUME TypeOK, NEW t \in Threads, Advance(t) PROVE TypeOK'
<1> DEFINE c == call[t]
           file == open_file_table[c.h]
<1>0. Good(c) /\ c.pc = "advance" /\ c.h \in Handles /\ c.inum \in Inodes
      /\ c.aux \in 0 .. BLOCK_SIZE /\ c.left \in Nat /\ (c.op # "write" => c.aux <= c.left)
  BY GoodCall DEF Advance, At, Good, CallRecords, LocalsSet, Using, Moving
<1>1. ASSUME c.op = "write" PROVE CallsOK'
  <2>1. LocalsSet([c EXCEPT !.pc = "i_size"])
    BY <1>0, <1>1 DEF Good, CallRecords, LocalsSet, Opening, Using, Moving
  <2> QED
    BY <1>1, <2>1, Goes DEF Advance, Using
<1>2. ASSUME c.op # "write" PROVE CallsOK'
  <2>1. call' = [call EXCEPT ![t].pc = "read_chunk", ![t].left = c.left - c.aux]
    BY <1>2 DEF Advance
  <2>2. call' = [call EXCEPT ![t] = [c EXCEPT !.pc = "read_chunk", !.left = c.left - c.aux]]
    BY <2>1
  <2>3. c.left - c.aux \in Nat
    BY <1>0, <1>2, SizesAssumption
  <2>4. Good([c EXCEPT !.pc = "read_chunk", !.left = c.left - c.aux])
    <3>1. [c EXCEPT !.pc = "read_chunk", !.left = c.left - c.aux] \in CallRecords
      BY <1>0, <2>3 DEF Good, CallRecords, Opening, Using, Moving
    <3>2. LocalsSet([c EXCEPT !.pc = "read_chunk", !.left = c.left - c.aux])
      BY <1>0, <2>3 DEF Good, CallRecords, LocalsSet, Opening, Using, Moving
    <3> QED
      BY <3>1, <3>2 DEF Good
  <2> QED
    BY <2>2, <2>4, CallTyped
<1>3. CallsOK'
  BY <1>1, <1>2
<1>4. file \in [of_inumber : Inodes, of_offset : 0 .. BLOCK_SIZE - 1, of_boffset : Nat]
  BY <1>0 DEF TypeOK, HandlesOK
<1>5. offset_after(file, c.aux) \in 0 .. BLOCK_SIZE - 1 /\ boffset_after(file, c.aux) \in Nat
  BY <1>0, <1>4, OffsetInBlock DEF boffset_after
<1>6. open_file_table' = [open_file_table EXCEPT ![c.h] =
          [file EXCEPT !.of_offset = offset_after(file, c.aux),
                       !.of_boffset = boffset_after(file, c.aux)]]
  BY DEF Advance
<1>7. open_file_table' \in [Handles -> [of_inumber : Inodes, of_offset : 0 .. BLOCK_SIZE - 1,
                                        of_boffset : Nat]]
  <2>1. [file EXCEPT !.of_offset = offset_after(file, c.aux),
                     !.of_boffset = boffset_after(file, c.aux)]
           \in [of_inumber : Inodes, of_offset : 0 .. BLOCK_SIZE - 1, of_boffset : Nat]
    BY <1>4, <1>5
  <2> QED
    BY <1>6, <2>1 DEF TypeOK, HandlesOK
<1>8. history' \in [Handles -> [name : Names \cup {Blank}, moved : Nat]]
  <2>1. history[c.h] \in [name : Names \cup {Blank}, moved : Nat]
    BY <1>0 DEF TypeOK, HandlesOK
  <2>2. [history[c.h] EXCEPT !.moved = @ + c.aux] \in [name : Names \cup {Blank}, moved : Nat]
    BY <1>0, <2>1, SizesAssumption
  <2> QED
    BY <2>2 DEF Advance, TypeOK, HandlesOK
<1>9. HandlesOK'
  BY <1>7, <1>8 DEF Advance, TypeOK, HandlesOK
<1> QED
  BY <1>3, <1>9, Tables, LocksKept DEF TypeOK, Advance

\* tfs_write adds what it has written to i_size.
LEMMA GrowTyped == ASSUME TypeOK, NEW t \in Threads, Grow(t) PROVE TypeOK'
<1> DEFINE c == call[t]
           left == Minus(c.left, c.aux)
<1>0. /\ Good(c) /\ c.pc = "i_size" /\ c.inum \in Inodes /\ c.op = "write"
      /\ c.aux \in Nat /\ c.aux <= BLOCK_SIZE /\ c.left \in Nat
  BY GoodCall, SizesAssumption DEF Grow, At, Good, CallRecords, LocalsSet
<1>1. left \in Nat
  BY <1>0, MinusIsNat
<1>2. call' = [call EXCEPT ![t] = [c EXCEPT !.pc = "to_write", !.left = left]]
  BY DEF Grow
<1> HIDE DEF left
<1>3. Good([c EXCEPT !.pc = "to_write", !.left = left])
  <2>1. [c EXCEPT !.pc = "to_write", !.left = left] \in CallRecords
    BY <1>0, <1>1 DEF Good, CallRecords, Opening, Using, Moving
  <2>2. LocalsSet([c EXCEPT !.pc = "to_write", !.left = left])
    BY <1>0, <1>1 DEF Good, CallRecords, LocalsSet, Opening, Using, Moving
  <2> QED
    BY <2>1, <2>2 DEF Good
<1>4. CallsOK'
  BY <1>2, <1>3, CallTyped
<1>5. TablesOK'
  <2> DEFINE INodes == [i_size : Nat, i_data_block : Blocks \cup {EMPTY},
                        i_direct_blocks : [Direct -> Blocks \cup {EMPTY}]]
  <2>1. inode_table \in [Inodes -> INodes]
    BY DEF TypeOK, TablesOK
  <2>2. [inode_table[c.inum] EXCEPT !.i_size = @ + c.aux] \in INodes
    BY <1>0, <2>1
  <2>3. inode_table' \in [Inodes -> INodes]
    BY <2>1, <2>2 DEF Grow
  <2> QED
    BY <2>3 DEF Grow, TypeOK, TablesOK, names
<1> QED
  BY <1>4, <1>5, OpenFiles, LocksKept DEF TypeOK, Grow

\* tfs_copy_to_external_fs reads the size of the file.
LEMMA CopySizeTyped == ASSUME TypeOK, NEW t \in Threads, CopySize(t) PROVE TypeOK'
<1> DEFINE c == call[t]
           size == inode_table[of_inode(t)].i_size
<1>0. Good(c) /\ c.pc = "copy_size" /\ c.h \in Handles /\ of_inode(t) \in Inodes
  BY GoodCall, HandleInode DEF CopySize, At, Good, LocalsSet, Using
<1>1. size \in Nat
  BY <1>0 DEF TypeOK, TablesOK
<1>2. call' = [call EXCEPT ![t] = [c EXCEPT !.pc = "copy_read", !.len = size]]
  BY DEF CopySize
<1> HIDE DEF size
<1>3. Good([c EXCEPT !.pc = "copy_read", !.len = size])
  <2>1. [c EXCEPT !.pc = "copy_read", !.len = size] \in CallRecords
    BY <1>0, <1>1 DEF Good, CallRecords, Using
  <2>2. LocalsSet([c EXCEPT !.pc = "copy_read", !.len = size])
    BY <1>0 DEF Good, CallRecords, LocalsSet, Opening, Using, Moving
  <2> QED
    BY <2>1, <2>2 DEF Good
<1>4. CallsOK'
  BY <1>2, <1>3, CallTyped
<1>5. LocksOK'
  BY <1>0, ReadLocked DEF CopySize
<1> QED
  BY <1>4, <1>5, Tables, OpenFiles DEF TypeOK, CopySize

\* tfs_copy_to_external_fs calls tfs_read.
LEMMA CopyReadTyped == ASSUME TypeOK, NEW t \in Threads, CopyRead(t) PROVE TypeOK'
<1> DEFINE c == call[t]
<1>0. Good(c) /\ c.pc = "copy_read" /\ c.h \in Handles /\ of_inode(t) \in Inodes
  BY GoodCall, HandleInode DEF CopyRead, At, Good, LocalsSet, Using
<1>1. call' = [call EXCEPT ![t] = [c EXCEPT !.pc = "to_read", !.inum = of_inode(t)]]
  BY DEF CopyRead
<1>2. Good([c EXCEPT !.pc = "to_read", !.inum = of_inode(t)])
  <2>1. [c EXCEPT !.pc = "to_read", !.inum = of_inode(t)] \in CallRecords
    BY <1>0 DEF Good, CallRecords, Opening, Using, Moving
  <2>2. LocalsSet([c EXCEPT !.pc = "to_read", !.inum = of_inode(t)])
    BY <1>0 DEF Good, CallRecords, LocalsSet, Opening, Using, Moving
  <2> QED
    BY <2>1, <2>2 DEF Good
<1>3. CallsOK'
  BY <1>1, <1>2, CallTyped
<1> QED
  BY <1>3, Tables, OpenFiles, LocksKept DEF TypeOK, CopyRead

\* tfs_copy_to_external_fs has written its file, or has failed.
LEMMA WriteExternalTyped == ASSUME TypeOK, NEW t \in Threads, WriteExternal(t) PROVE TypeOK'
<1>1. Good(call[t]) /\ call[t].pc = "copy_out" /\ call[t].h \in Handles
  BY GoodCall DEF WriteExternal, At, Good, LocalsSet, Using
<1>2. LocalsSet([call[t] EXCEPT !.pc = "close"])
  BY <1>1 DEF Good, CallRecords, LocalsSet, Opening, Using, Moving
<1>3. CallsOK'
  BY <1>2, Goes, Returned DEF WriteExternal, Using
<1> QED
  BY <1>3, Tables, OpenFiles, LocksKept DEF TypeOK, WriteExternal

-----------------------------------------------------------------------------
(* The specification.                                                      *)

\* tfs_init leaves every table as its type says.
LEMMA InitTyped == Init => TypeOK
<1> SUFFICES ASSUME Init PROVE TypeOK
  OBVIOUS
<1>1. NoCall \in CallRecords /\ LocalsSet(NoCall)
  <2>1. NoCall \in CallRecords
    BY SizesAssumption DEF NoCall, CallRecords
  <2> QED
    BY <2>1 DEF NoCall, LocalsSet, Opening, Using, Moving
<1>2. CallsOK
  BY <1>1 DEF Init, CallsOK
<1>3. TablesOK
  <2>1. 0 \in Blocks /\ BLOCK_SIZE \in Nat
    BY SizesAssumption DEF Blocks
  <2>2. inode_table \in [Inodes -> [i_size : Nat, i_data_block : Blocks \cup {EMPTY},
                                    i_direct_blocks : [Direct -> Blocks \cup {EMPTY}]]]
    BY <2>1 DEF Init, NewFile, NoPointers
  <2> QED
    BY <2>1, <2>2 DEF Init, TablesOK, StoredNames
<1>4. HandlesOK
  BY SizesAssumption DEF Init, HandlesOK, Inodes
<1>5. LocksOK
  BY DEF Init, LocksOK, Unlocked, Locks
<1> QED
  BY <1>2, <1>3, <1>4, <1>5 DEF Init, TypeOK

\* Every step of tfs_open and inode_delete.
LEMMA OpenStepTyped == ASSUME TypeOK, NEW t \in Threads, OpenStep(t) PROVE TypeOK'
  BY FindEntryTyped, NotFoundTyped, InitialOffsetTyped, DataFreeTyped, DataLockTyped,
     FreeBlockTyped, DataUnlockTyped, MetadataResetTyped, TakeInodeTyped, InitInodeTyped,
     SeekEntryTyped, SetInumberTyped, BeginNameTyped, EndNameTyped, DeleteInodeTyped,
     TakeHandleTyped, NoHandleTyped, FillHandleTyped
  DEF OpenStep

\* Every step of the operations on a handle.
LEMMA DataStepTyped == ASSUME TypeOK, NEW t \in Threads, DataStep(t) PROVE TypeOK'
<1>1. ASSUME AllocWild(t) PROVE TypeOK'
  BY <1>1, CrashTyped DEF AllocWild
<1> QED
  BY <1>1, WriteChunkTyped, WriteRestTyped, ReadAmountTyped, ReadChunkTyped, OfLockTyped,
     ILockTyped, AllocTyped, IUnlockTyped, PositionTyped, CopyInTyped, CopyOutTyped,
     AdvanceTyped, GrowTyped, CopySizeTyped, CopyReadTyped, WriteExternalTyped,
     CloseTestTyped, CloseTyped
  DEF DataStep

\* Every step, and every step of others.
LEMMA StepTyped == TypeOK /\ [Next]_vars => TypeOK'
<1> SUFFICES ASSUME TypeOK, [Next]_vars PROVE TypeOK'
  OBVIOUS
<1>1. CASE Next
  BY <1>1, OpenStepTyped, DataStepTyped, CallsTyped DEF Next, Step
<1>2. CASE UNCHANGED vars
  <2>1. CallsOK'
    BY <1>2 DEF vars, TypeOK, CallsOK
  <2> QED
    BY <1>2, <2>1, Tables, OpenFiles, LocksKept DEF TypeOK, vars
<1> QED
  BY <1>1, <1>2

\* What is read as a number is one, an index stays in its table and the offset
\* of a handle in its block, whatever threads share it and in whatever order
\* they run.
THEOREM TypeCorrect == Spec => []TypeOK
  BY InitTyped, StepTyped, PTL DEF Spec

-----------------------------------------------------------------------------
(* INodesGivenOnce.  The steps that matter are TakeInode, SetInumber and    *)
(* DeleteInode; the others leave the tables of names and what a thread that *)
(* creates a file holds, or start none.                                    *)

\* Thread t alone moves.
Alone(t) == \A u \in Threads \ {t} : call'[u] = call[u]

\* Thread t alone moves, to a place where it is not creating a file.
Aside(t) ==
    /\ Alone(t)
    /\ call'[t].pc \notin {"inode_init", "add_dir_entry", "d_inumber", "inode_delete"}

\* Thread t alone moves, to a place outside tfs_open, with the flags it had or none.
Outside(t) ==
    /\ Alone(t)
    /\ call'[t].pc \notin Opening
    /\ call'[t].flags \in {call[t].flags, {}}

\* Outside tfs_open no file is created.
LEMMA OutsideIsAside == ASSUME NEW t \in Threads, Outside(t) PROVE Aside(t)
  BY DEF Outside, Aside, Opening

\* The places that Go, Scan, NextEntry, Chunk and Return lead to.
LEMMA Moves ==
    ASSUME TypeOK, NEW t \in Threads, NEW p
    PROVE  /\ Go(t, p) \/ Scan(t, p) =>
                 /\ Alone(t) /\ call'[t].pc = p
                 /\ call'[t].inum = call[t].inum /\ call'[t].flags = call[t].flags
           /\ NextEntry(t) =>
                 /\ Alone(t) /\ call'[t].pc = call[t].pc
                 /\ call'[t].inum = call[t].inum /\ call'[t].flags = call[t].flags
           /\ Return(t) => Alone(t) /\ call'[t].pc = "idle" /\ call'[t].flags = {}
           /\ \A aux \in Int :
                 Chunk(t, aux) =>
                    /\ Alone(t) /\ call'[t].pc \in {"of_lock", "advance"}
                    /\ call'[t].flags = call[t].flags
<1>1. call \in [Threads -> CallRecords]
  BY DEF TypeOK, CallsOK
<1>2. \A c \in CallRecords : /\ [c EXCEPT !.pc = p].pc = p
                             /\ [c EXCEPT !.pc = p].inum = c.inum
                             /\ [c EXCEPT !.pc = p].flags = c.flags
  BY DEF CallRecords
<1>3. Go(t, p) => /\ Alone(t) /\ call'[t].pc = p
                  /\ call'[t].inum = call[t].inum /\ call'[t].flags = call[t].flags
  BY <1>1, <1>2 DEF Go, Alone
<1>4. Scan(t, p) => /\ Alone(t) /\ call'[t].pc = p
                    /\ call'[t].inum = call[t].inum /\ call'[t].flags = call[t].flags
  BY <1>1 DEF Scan, Alone, CallRecords
<1>5. NextEntry(t) => /\ Alone(t) /\ call'[t].pc = call[t].pc
                      /\ call'[t].inum = call[t].inum /\ call'[t].flags = call[t].flags
  BY <1>1 DEF NextEntry, Alone, CallRecords
<1>6. Return(t) => Alone(t) /\ call'[t].pc = "idle" /\ call'[t].flags = {}
  BY <1>1 DEF Return, Alone, NoCall
<1>7. ASSUME NEW aux \in Int, Chunk(t, aux)
      PROVE  /\ Alone(t) /\ call'[t].pc \in {"of_lock", "advance"}
             /\ call'[t].flags = call[t].flags
  <2>1. PICK q \in {"of_lock", "advance"} : call' = [call EXCEPT ![t].aux = aux, ![t].pc = q]
    BY <1>7 DEF Chunk
  <2> QED
    BY <1>1, <2>1 DEF Alone, CallRecords
<1> QED
  BY <1>3, <1>4, <1>5, <1>6, <1>7

\* A step that gives out no i-node and enters none keeps those that were given.
LEMMA KeepsINodes ==
    ASSUME TypeOK, INodesGivenOnce, NEW t \in Threads, Alone(t), UNCHANGED freeinode_ts,
           \A e \in Slots : dir'[e].d_inumber = dir[e].d_inumber,
           Creating(t)' => Creating(t) /\ call'[t].inum = call[t].inum
    PROVE  INodesGivenOnce'
<1>1. \A u \in Threads : Creating(u)' => Creating(u) /\ call'[u].inum = call[u].inum
  BY DEF Alone, Creating
<1> QED
  BY <1>1 DEF INodesGivenOnce

\* A thread that moves aside keeps the i-nodes of all.
LEMMA AsideKeepsINodes ==
    ASSUME TypeOK, INodesGivenOnce, NEW t \in Threads, Aside(t), UNCHANGED names
    PROVE  INodesGivenOnce'
<1>1. ~Creating(t)'
  BY DEF Aside, Creating
<1> QED
  BY <1>1, KeepsINodes DEF Aside, names

\* Calls and the steps that use handles and blocks are no creation.
LEMMA CallsAside ==
    ASSUME TypeOK, NEW t \in Threads, Calls(t)
    PROVE  Aside(t) /\ UNCHANGED names
<1>0. call \in [Threads -> CallRecords]
  BY DEF TypeOK, CallsOK
<1>1. ASSUME NEW c, Enter(t, c), c.pc \in {"find_in_dir", "to_write", "to_read", "close"}
      PROVE  Aside(t) /\ UNCHANGED names
  BY <1>0, <1>1 DEF Enter, Aside, Alone
<1>2. ASSUME NEW name \in Names, NEW flags \in OpenFlags, tfs_open(t, name, flags)
      PROVE  Aside(t) /\ UNCHANGED names
  BY <1>1, <1>2 DEF tfs_open, NoCall
<1>3. ASSUME NEW name \in Names, tfs_copy_to_external_fs(t, name)
      PROVE  Aside(t) /\ UNCHANGED names
  BY <1>1, <1>3 DEF tfs_copy_to_external_fs, NoCall
<1>4. ASSUME NEW h \in Usable(t), NEW len \in Lens, tfs_write(t, h, len)
      PROVE  Aside(t) /\ UNCHANGED names
  BY <1>1, <1>4 DEF tfs_write, NoCall
<1>5. ASSUME NEW h \in Usable(t), NEW len \in Lens, tfs_read(t, h, len)
      PROVE  Aside(t) /\ UNCHANGED names
  BY <1>1, <1>5 DEF tfs_read, NoCall
<1>6. ASSUME NEW h \in Usable(t), tfs_close(t, h)
      PROVE  Aside(t) /\ UNCHANGED names
  BY <1>1, <1>6 DEF tfs_close, NoCall
<1> QED
  BY <1>2, <1>3, <1>4, <1>5, <1>6 DEF Calls

\* The loops of tfs_read and tfs_write.
LEMMA ReadsAndWritesOutside ==
    ASSUME TypeOK, NEW t \in Threads,
           WriteChunk(t) \/ WriteRest(t) \/ ReadAmount(t) \/ ReadChunk(t)
    PROVE  Outside(t) /\ UNCHANGED names
<1> DEFINE c == call[t]
           o == open_file_table[c.h].of_offset
<1>0. call \in [Threads -> CallRecords] /\ c \in CallRecords
  BY DEF TypeOK, CallsOK
<1>1. ASSUME NEW aux \in Int, Chunk(t, aux) PROVE Outside(t)
  BY <1>1, Moves DEF Outside, Opening
<1>2. ASSUME c.h \in Handles PROVE rest_of_block(o) \in Int
  BY <1>2, RestOfBlock, SizesAssumption
<1>3. ASSUME WriteChunk(t) PROVE Outside(t)
  <2>1. c.left \in Int
    BY <1>0 DEF CallRecords
  <2>2. Return(t) \/ Go(t, "write_rest") \/ Chunk(t, c.left)
    BY <1>3 DEF WriteChunk
  <2> QED
    BY <1>1, <2>1, <2>2, Moves DEF Outside, Opening
<1>4. ASSUME WriteRest(t) PROVE Outside(t)
  <2>1. c.h \in Handles
    BY <1>4, GoodCall DEF WriteRest, At, Good, LocalsSet, Using
  <2> QED
    BY <1>1, <1>2, <1>4, <2>1 DEF WriteRest
<1>5. ASSUME ReadAmount(t) PROVE Outside(t)
  BY <1>0, <1>5 DEF ReadAmount, Outside, Opening, Alone, CallRecords
<1>6. ASSUME ReadChunk(t) PROVE Outside(t)
  <2>1. c.h \in Handles /\ c.left \in Int
    BY <1>0, <1>6, GoodCall DEF ReadChunk, At, Good, LocalsSet, Using, CallRecords
  <2>2. \/ Return(t) \/ Go(t, "copy_out")
        \/ Chunk(t, rest_of_block(o)) \/ Chunk(t, c.left)
    BY <1>6 DEF ReadChunk
  <2> QED
    BY <1>1, <1>2, <2>1, <2>2, Moves DEF Outside, Opening
<1>7. UNCHANGED names
  BY DEF WriteChunk, WriteRest, ReadAmount, ReadChunk
<1> QED
  BY <1>3, <1>4, <1>5, <1>6, <1>7

\* The steps of inode_update; a crash moves nobody.
LEMMA UpdatesOutside ==
    ASSUME TypeOK, NEW t \in Threads,
           \/ OfLock(t) \/ ILock(t) \/ Alloc(t) \/ AllocWild(t) \/ IUnlock(t) \/ Position(t)
    PROVE  (Outside(t) \/ UNCHANGED call) /\ UNCHANGED names
<1>0. call \in [Threads -> CallRecords] /\ call[t] \in CallRecords
  BY DEF TypeOK, CallsOK
<1>1. ASSUME OfLock(t) \/ IUnlock(t) PROVE Outside(t)
  BY <1>1, Moves DEF OfLock, IUnlock, Outside, Opening
<1>2. ASSUME ILock(t) PROVE Outside(t)
  BY <1>0, <1>2 DEF ILock, Outside, Opening, Alone, CallRecords
<1>3. ASSUME Alloc(t) PROVE Outside(t)
  <2>1. Alone(t) /\ call'[t].pc = call[t].pc /\ call'[t].flags = call[t].flags
    BY <1>0, <1>3 DEF Alloc, Alone, CallRecords
  <2> QED
    BY <1>3, <2>1 DEF Alloc, At, Outside, Opening
<1>4. ASSUME AllocWild(t) PROVE UNCHANGED call
  BY <1>4 DEF AllocWild, Crash
<1>5. ASSUME Position(t) PROVE Outside(t) \/ UNCHANGED call
  <2>1. PICK pos : \/ UNCHANGED call \/ Return(t)
                   \/ call' = [call EXCEPT ![t].pc = "memcpy", ![t].pos = pos]
    BY <1>5 DEF Position, Crash
  <2>2. ASSUME call' = [call EXCEPT ![t].pc = "memcpy", ![t].pos = pos] PROVE Outside(t)
    BY <1>0, <2>2 DEF Outside, Opening, Alone, CallRecords
  <2> QED
    BY <2>1, <2>2, Moves DEF Outside, Opening
<1>6. UNCHANGED names
  BY DEF OfLock, ILock, Alloc, AllocWild, IUnlock, Position, Crash
<1> QED
  BY <1>1, <1>2, <1>3, <1>4, <1>5, <1>6

\* The copy, what follows it, and the steps of the other calls on a handle.
LEMMA CopiesOutside ==
    ASSUME TypeOK, NEW t \in Threads,
           \/ CopyIn(t) \/ CopyOut(t) \/ Advance(t) \/ Grow(t) \/ CopySize(t) \/ CopyRead(t)
           \/ WriteExternal(t) \/ CloseTest(t) \/ Close(t)
    PROVE  (Outside(t) \/ UNCHANGED call) /\ UNCHANGED names
<1>0. call \in [Threads -> CallRecords] /\ call[t] \in CallRecords
  BY DEF TypeOK, CallsOK
<1>1. ASSUME CopyIn(t) \/ CopyOut(t) PROVE Outside(t) \/ UNCHANGED call
  BY <1>1, Moves DEF CopyIn, CopyOut, Crash, Outside, Opening
<1>2. ASSUME Advance(t) PROVE Outside(t)
  <2>1. Go(t, "i_size") \/ call' = [call EXCEPT ![t].pc = "read_chunk",
                                                ![t].left = call[t].left - call[t].aux]
    BY <1>2 DEF Advance
  <2>2. ASSUME call' = [call EXCEPT ![t].pc = "read_chunk",
                                    ![t].left = call[t].left - call[t].aux]
        PROVE  Outside(t)
    BY <1>0, <2>2 DEF Outside, Opening, Alone, CallRecords
  <2> QED
    BY <2>1, <2>2, Moves DEF Outside, Opening
<1>3. ASSUME Grow(t) PROVE Outside(t)
  BY <1>0, <1>3 DEF Grow, Outside, Opening, Alone, CallRecords
<1>4. ASSUME CopySize(t) PROVE Outside(t)
  BY <1>0, <1>4 DEF CopySize, Outside, Opening, Alone, CallRecords
<1>5. ASSUME CopyRead(t) PROVE Outside(t)
  BY <1>0, <1>5 DEF CopyRead, Outside, Opening, Alone, CallRecords
<1>6. ASSUME WriteExternal(t) \/ CloseTest(t) \/ Close(t) PROVE Outside(t)
  BY <1>6, Moves DEF WriteExternal, CloseTest, Close, Outside, Opening
<1>7. UNCHANGED names
  BY DEF CopyIn, CopyOut, Advance, Grow, CopySize, CopyRead, WriteExternal, CloseTest, Close,
         Crash
<1> QED
  BY <1>1, <1>2, <1>3, <1>4, <1>5, <1>6, <1>7

\* inode_create gives a thread an i-node that is FREE: no entry has it, and no
\* thread that creates a file.
LEMMA TakeInodeGivesOnce ==
    ASSUME TypeOK, INodesGivenOnce, NEW t \in Threads, TakeInode(t)
    PROVE  INodesGivenOnce'
<1> DEFINE i == call[t].k
<1>0. call \in [Threads -> CallRecords] /\ call[t] \in CallRecords /\ UNCHANGED dir
      /\ freeinode_ts \in [Inodes -> {FREE, TAKEN}] /\ FREE # TAKEN
      /\ ~Creating(t) /\ call[t].pc = "inode_create"
  BY DEF TypeOK, TablesOK, CallsOK, TakeInode, At, Creating, FREE, TAKEN
<1>1. ASSUME i \in Inodes, inode_is_free(i) PROVE INodesGivenOnce'
  <2>1. freeinode_ts' = [freeinode_ts EXCEPT ![i] = TAKEN]
        /\ call' = [call EXCEPT ![t].pc = "inode_init", ![t].inum = i]
    BY <1>1 DEF TakeInode
  <2>2. call'[t].inum = i /\ \A u \in Threads \ {t} : call'[u] = call[u]
    BY <1>0, <2>1 DEF CallRecords
  <2>3. freeinode_ts[i] = FREE
    BY <1>1 DEF inode_is_free
  <2>4. \A e \in Slots : dir[e].d_inumber # -1 =>
           dir[e].d_inumber # i /\ freeinode_ts'[dir[e].d_inumber] = TAKEN
    <3>1. \A e \in Slots : dir[e].d_inumber \in Inodes \cup {-1}
      BY DEF TypeOK, TablesOK
    <3> QED
      BY <1>0, <1>1, <2>1, <2>3, <3>1 DEF INodesGivenOnce
  <2>5. i # -1
    BY <1>1 DEF Inodes
  <2>6. \A u \in Threads \ {t} : Creating(u)' =>
           Creating(u) /\ call[u].inum # i /\ freeinode_ts'[call[u].inum] = TAKEN
    <3>1. \A u \in Threads \ {t} : Creating(u)' => Creating(u)
      BY <2>2 DEF Creating
    <3>2. \A u \in Threads : Creating(u) => call[u].inum \in Inodes
      BY GoodCall DEF Good, LocalsSet, Creating, Opening
    <3> QED
      BY <1>0, <1>1, <2>1, <2>3, <3>1, <3>2 DEF INodesGivenOnce
  <2>7. \A e \in Slots : dir[e].d_inumber # i
    BY <2>4, <2>5
  <2> QED
    BY <1>0, <1>1, <2>1, <2>2, <2>4, <2>6, <2>7 DEF INodesGivenOnce
<1>2. ASSUME ~(i \in Inodes /\ inode_is_free(i)) PROVE INodesGivenOnce'
  <2>1. (Return(t) \/ NextEntry(t)) /\ UNCHANGED freeinode_ts
    BY <1>2 DEF TakeInode
  <2>2. Aside(t)
    BY <1>0, <2>1, Moves DEF Aside
  <2> QED
    BY <1>0, <2>1, <2>2, AsideKeepsINodes DEF names
<1> QED
  BY <1>1, <1>2

\* The entry that add_dir_entry fills, or fills over that of another thread, is
\* the first that has the i-node.
LEMMA SetInumberGivesOnce ==
    ASSUME TypeOK, INodesGivenOnce, NEW t \in Threads, SetInumber(t)
    PROVE  INodesGivenOnce'
<1> DEFINE i == call[t].inum
           k == call[t].k
<1>0. /\ Creating(t) /\ k \in Slots /\ i \in Inodes
      /\ dir \in [Slots -> [d_inumber : Inodes \cup {-1}, d_name : StoredNames]]
      /\ UNCHANGED freeinode_ts
  BY GoodCall DEF SetInumber, At, Good, LocalsSet, Opening, Creating, TypeOK, TablesOK
<1>1. dir'[k].d_inumber = i /\ \A e \in Slots \ {k} : dir'[e] = dir[e]
  BY <1>0 DEF SetInumber
<1>2. ~Creating(t)' /\ \A u \in Threads \ {t} : call'[u] = call[u] /\ (Creating(u)' => Creating(u))
  BY Moves DEF SetInumber, Alone, Creating
<1>3. freeinode_ts[i] = TAKEN /\ \A e \in Slots : dir[e].d_inumber # i
  BY <1>0 DEF INodesGivenOnce
<1>4. ASSUME NEW u \in Threads, Creating(u)'
      PROVE  /\ freeinode_ts'[call'[u].inum] = TAKEN
             /\ \A e \in Slots : dir'[e].d_inumber # call'[u].inum
             /\ \A v \in Threads \ {u} : Creating(v)' => call'[v].inum # call'[u].inum
  <2>1. u # t /\ Creating(u) /\ call'[u] = call[u]
    BY <1>2, <1>4
  <2>2. freeinode_ts[call[u].inum] = TAKEN /\ call[u].inum # i
        /\ (\A e \in Slots : dir[e].d_inumber # call[u].inum)
        /\ \A v \in Threads \ {u} : Creating(v) => call[v].inum # call[u].inum
    BY <1>0, <2>1 DEF INodesGivenOnce
  <2> QED
    BY <1>0, <1>1, <1>2, <2>1, <2>2
<1>5. ASSUME NEW e \in Slots, dir'[e].d_inumber # -1
      PROVE  /\ freeinode_ts'[dir'[e].d_inumber] = TAKEN
             /\ \A g \in Slots \ {e} : dir'[g].d_inumber # dir'[e].d_inumber
  BY <1>0, <1>1, <1>3, <1>5 DEF INodesGivenOnce
<1> QED
  BY <1>4, <1>5 DEF INodesGivenOnce

\* inode_delete frees an i-node that no entry and no other thread has.
LEMMA DeleteInodeGivesOnce ==
    ASSUME TypeOK, INodesGivenOnce, NEW t \in Threads, DeleteInode(t)
    PROVE  INodesGivenOnce'
<1> DEFINE i == call[t].inum
<1>0. /\ Creating(t) /\ i \in Inodes /\ freeinode_ts[i] = TAKEN /\ UNCHANGED dir
      /\ freeinode_ts \in [Inodes -> {FREE, TAKEN}]
  BY GoodCall DEF DeleteInode, At, Good, LocalsSet, Opening, Creating, TypeOK, TablesOK,
                  INodesGivenOnce
<1>1. freeinode_ts' = [freeinode_ts EXCEPT ![i] = FREE] /\ Go(t, "data_free")
  BY <1>0 DEF DeleteInode, FREE, TAKEN
<1>2. ~Creating(t)' /\ \A u \in Threads \ {t} : call'[u] = call[u] /\ (Creating(u)' => Creating(u))
  BY <1>1, Moves DEF Alone, Creating
<1>3. ASSUME NEW u \in Threads, Creating(u)'
      PROVE  /\ freeinode_ts'[call'[u].inum] = TAKEN
             /\ \A e \in Slots : dir'[e].d_inumber # call'[u].inum
             /\ \A v \in Threads \ {u} : Creating(v)' => call'[v].inum # call'[u].inum
  <2>1. u # t /\ Creating(u) /\ call'[u] = call[u]
    BY <1>2, <1>3
  <2>2. freeinode_ts[call[u].inum] = TAKEN /\ call[u].inum # i
        /\ (\A e \in Slots : dir[e].d_inumber # call[u].inum)
        /\ \A v \in Threads \ {u} : Creating(v) => call[v].inum # call[u].inum
    BY <1>0, <2>1 DEF INodesGivenOnce
  <2>3. call[u].inum \in Inodes
    BY <2>1, GoodCall DEF Good, LocalsSet, Creating, Opening
  <2> QED
    BY <1>0, <1>1, <1>2, <2>1, <2>2, <2>3
<1>4. ASSUME NEW e \in Slots, dir'[e].d_inumber # -1
      PROVE  /\ freeinode_ts'[dir'[e].d_inumber] = TAKEN
             /\ \A g \in Slots \ {e} : dir'[g].d_inumber # dir'[e].d_inumber
  <2>1. dir[e].d_inumber # i
    BY <1>0 DEF INodesGivenOnce
  <2>2. dir[e].d_inumber \in Inodes
    BY <1>0, <1>4 DEF TypeOK, TablesOK
  <2> QED
    BY <1>0, <1>1, <1>4, <2>1, <2>2 DEF INodesGivenOnce
<1> QED
  BY <1>3, <1>4 DEF INodesGivenOnce

\* The other steps of tfs_open.
LEMMA OpenStepGivesOnce ==
    ASSUME TypeOK, INodesGivenOnce, NEW t \in Threads, OpenStep(t)
    PROVE  INodesGivenOnce'
<1>0. call \in [Threads -> CallRecords] /\ call[t] \in CallRecords
      /\ dir \in [Slots -> [d_inumber : Inodes \cup {-1}, d_name : StoredNames]]
  BY DEF TypeOK, CallsOK, TablesOK
<1>1. ASSUME FindEntry(t) PROVE INodesGivenOnce'
  <2>1. NextEntry(t) \/ \E p \in {"data_free", "offset"} :
            call' = [call EXCEPT ![t].inum = dir[call[t].k].d_inumber, ![t].pc = p]
    BY <1>1 DEF FindEntry
  <2>2. ASSUME NEW p \in {"data_free", "offset"},
               call' = [call EXCEPT ![t].inum = dir[call[t].k].d_inumber, ![t].pc = p]
        PROVE  Aside(t)
    BY <1>0, <2>2 DEF Aside, Alone, CallRecords
  <2>3. NextEntry(t) => Aside(t)
    BY <1>1, Moves DEF Aside, FindEntry, At
  <2> QED
    BY <1>1, <2>1, <2>2, <2>3, AsideKeepsINodes DEF FindEntry
<1>2. ASSUME NotFound(t) \/ DataFree(t) \/ DataLock(t) \/ DataUnlock(t) \/ MetadataReset(t)
      PROVE  INodesGivenOnce'
  <2>1. Aside(t) /\ UNCHANGED names
    BY <1>2, Moves
    DEF NotFound, DataFree, DataLock, DataUnlock, MetadataReset, Aside
  <2> QED
    BY <2>1, AsideKeepsINodes
<1>3. ASSUME InitialOffset(t) PROVE INodesGivenOnce'
  <2>1. \/ Scan(t, "open_file_table")
        \/ call' = [call EXCEPT ![t].pc = "open_file_table", ![t].k = 0,
                                ![t].offset = inode_table[call[t].inum].i_size]
    BY <1>3 DEF InitialOffset
  <2>2. Aside(t)
    BY <1>0, <2>1, Moves DEF Aside, Alone, CallRecords
  <2> QED
    BY <1>3, <2>2, AsideKeepsINodes DEF InitialOffset
<1>4. ASSUME FreeBlock(t) PROVE INodesGivenOnce'
  <2>1. Go(t, "data_unlock") \/ Return(t) \/ \E k : call' = [call EXCEPT ![t].k = k]
    BY <1>4 DEF FreeBlock
  <2>2. ASSUME NEW k, call' = [call EXCEPT ![t].k = k] PROVE Aside(t)
    BY <1>0, <1>4, <2>2 DEF Aside, Alone, CallRecords, FreeBlock, At
  <2> QED
    BY <1>4, <2>1, <2>2, Moves, AsideKeepsINodes DEF Aside, FreeBlock
<1>5. ASSUME InitInode(t) PROVE INodesGivenOnce'
  BY <1>5, Moves, KeepsINodes DEF InitInode, At, Creating, names
<1>6. ASSUME SeekEntry(t) PROVE INodesGivenOnce'
  <2>1. \/ Go(t, "d_inumber") \/ NextEntry(t)
        \/ call' = [call EXCEPT ![t].pc = "inode_delete", ![t].op = "delete"]
    BY <1>6 DEF SeekEntry
  <2>2. ASSUME call' = [call EXCEPT ![t].pc = "inode_delete", ![t].op = "delete"]
        PROVE  Alone(t) /\ call'[t].inum = call[t].inum
    BY <1>0, <2>2 DEF Alone, CallRecords
  <2>3. Alone(t) /\ call'[t].inum = call[t].inum
    BY <2>1, <2>2, Moves
  <2> QED
    BY <1>6, <2>3, KeepsINodes DEF SeekEntry, At, Creating, names
<1>7. ASSUME BeginName(t) \/ EndName(t) PROVE INodesGivenOnce'
  <2>1. Aside(t) /\ UNCHANGED freeinode_ts
    BY <1>7, Moves DEF BeginName, EndName, Aside
  <2>2. \E k, name : dir' = [dir EXCEPT ![k].d_name = name]
    BY <1>7 DEF BeginName, EndName
  <2>3. \A e \in Slots : dir'[e].d_inumber = dir[e].d_inumber
    BY <1>0, <2>2
  <2> QED
    BY <2>1, <2>3, KeepsINodes DEF Aside, Creating
<1>8. ASSUME TakeHandle(t) PROVE INodesGivenOnce'
  <2>1. \/ NextEntry(t)
        \/ call' = [call EXCEPT ![t].pc = "of_fields", ![t].h = call[t].k]
    BY <1>8 DEF TakeHandle
  <2>2. ASSUME call' = [call EXCEPT ![t].pc = "of_fields", ![t].h = call[t].k]
        PROVE  Aside(t)
    BY <1>0, <2>2 DEF Aside, Alone, CallRecords
  <2>3. NextEntry(t) => Aside(t)
    BY <1>8, Moves DEF Aside, TakeHandle, At
  <2> QED
    BY <1>8, <2>1, <2>2, <2>3, AsideKeepsINodes DEF TakeHandle
<1>9. ASSUME NoHandle(t) \/ FillHandle(t) PROVE INodesGivenOnce'
  <2>1. Aside(t) /\ UNCHANGED names
    BY <1>9, Moves DEF NoHandle, FillHandle, Aside
  <2> QED
    BY <2>1, AsideKeepsINodes
<1> QED
  BY <1>1, <1>2, <1>3, <1>4, <1>5, <1>6, <1>7, <1>8, <1>9, TakeInodeGivesOnce,
     SetInumberGivesOnce, DeleteInodeGivesOnce DEF OpenStep

\* Every step keeps INodesGivenOnce.
LEMMA NextGivesOnce == TypeOK /\ INodesGivenOnce /\ [Next]_vars => INodesGivenOnce'
<1> SUFFICES ASSUME TypeOK, INodesGivenOnce, [Next]_vars PROVE INodesGivenOnce'
  OBVIOUS
<1>1. ASSUME UNCHANGED <<names, call>> PROVE INodesGivenOnce'
  BY <1>1 DEF INodesGivenOnce, Creating, names
<1>2. ASSUME NEW t \in Threads, DataStep(t) PROVE INodesGivenOnce'
  <2>1. (Aside(t) \/ UNCHANGED call) /\ UNCHANGED names
    BY <1>2, ReadsAndWritesOutside, UpdatesOutside, CopiesOutside, OutsideIsAside DEF DataStep
  <2> QED
    BY <1>1, <2>1, AsideKeepsINodes
<1>3. ASSUME NEW t \in Threads, Calls(t) PROVE INodesGivenOnce'
  BY <1>3, CallsAside, AsideKeepsINodes
<1>4. CASE Next
  BY <1>2, <1>3, <1>4, OpenStepGivesOnce DEF Next, Step
<1>5. CASE UNCHANGED vars
  BY <1>1, <1>5 DEF vars
<1> QED
  BY <1>4, <1>5

\* An i-node is given to one creation and entered once, in every interleaving
\* and whatever callers keep to: the test of freeinode_ts under it_mutex is
\* enough, though add_dir_entry and inode_delete take no lock.
THEOREM INodesGivenOnceCorrect == Spec => []INodesGivenOnce
<1>1. Init => INodesGivenOnce
  BY DEF Init, INodesGivenOnce, Creating, NoCall
<1> QED
  BY <1>1, NextGivesOnce, TypeCorrect, PTL DEF Spec

-----------------------------------------------------------------------------
(* HandlesHeldByOne, for callers that pass handles of their own.            *)

\* The calls that use a handle which stays with the caller.
Transfers(c) == c.op \in {"write", "read"}

\* The places where the handle is one that the caller has not, or no longer.
Own == Opening \cup {"copy_size", "copy_read", "copy_out", "close", "closing"}

\* The handle that tfs_open, tfs_close and tfs_copy_to_external_fs work on is not
\* among those that the caller holds: when it is freed, no thread has it.
Apart(t) ==
    /\ call[t].pc \in Own => ~Transfers(call[t])
    /\ ~Transfers(call[t]) => call[t].h \notin held[t]

HandlesApart == HandlesHeldByOne /\ \A t \in Threads : Apart(t)

\* Thread t alone moves, in its call and with its handle.
Stays(t) ==
    /\ Alone(t)
    /\ call'[t].h = call[t].h
    /\ Transfers(call'[t]) <=> Transfers(call[t])

\* Go, Scan, NextEntry and Chunk stay in the call, with its handle.
LEMMA Staying ==
    ASSUME TypeOK, NEW t \in Threads, NEW p
    PROVE  /\ Go(t, p) \/ Scan(t, p) => Stays(t) /\ call'[t].pc = p
           /\ NextEntry(t) => Stays(t) /\ call'[t].pc = call[t].pc
           /\ \A aux \in Int :
                 Chunk(t, aux) => Stays(t) /\ call'[t].pc \in {"of_lock", "advance"}
<1>1. call \in [Threads -> CallRecords]
  BY DEF TypeOK, CallsOK
<1>2. Go(t, p) => Stays(t) /\ call'[t].pc = p
  BY <1>1 DEF Go, Alone, Stays, Transfers, CallRecords
<1>3. Scan(t, p) => Stays(t) /\ call'[t].pc = p
  BY <1>1 DEF Scan, Alone, Stays, Transfers, CallRecords
<1>4. NextEntry(t) => Stays(t) /\ call'[t].pc = call[t].pc
  BY <1>1 DEF NextEntry, Alone, Stays, Transfers, CallRecords
<1>5. ASSUME NEW aux \in Int, Chunk(t, aux)
      PROVE  Stays(t) /\ call'[t].pc \in {"of_lock", "advance"}
  <2>1. PICK q \in {"of_lock", "advance"} : call' = [call EXCEPT ![t].aux = aux, ![t].pc = q]
    BY <1>5 DEF Chunk
  <2> QED
    BY <1>1, <2>1 DEF Alone, Stays, Transfers, CallRecords
<1> QED
  BY <1>2, <1>3, <1>4, <1>5

\* A step within a call that neither takes nor frees a handle.
LEMMA StayKeepsHandles ==
    ASSUME TypeOK, HandlesApart, NEW t \in Threads, Stays(t),
           call'[t].pc \in Own => ~Transfers(call[t]),
           UNCHANGED <<held, free_open_file_entries>>
    PROVE  HandlesApart'
<1>1. \A u \in Threads : HandlesOf(u)' = HandlesOf(u)
  BY DEF Stays, Alone, HandlesOf
<1>2. \A u \in Threads : Apart(u)'
  BY DEF HandlesApart, Apart, Stays, Alone, Transfers
<1> QED
  BY <1>1, <1>2 DEF HandlesApart, HandlesHeldByOne

\* A call that returns and gives no handle.
LEMMA ReturnKeepsHandles ==
    ASSUME TypeOK, HandlesApart, NEW t \in Threads, Return(t),
           UNCHANGED <<held, free_open_file_entries>>
    PROVE  HandlesApart'
<1>1. call'[t] = NoCall /\ Alone(t)
  BY DEF Return, Alone, TypeOK, CallsOK
<1>2. HandlesOf(t)' \subseteq HandlesOf(t)
  BY <1>1 DEF HandlesOf, NoCall
<1>3. \A u \in Threads \ {t} : HandlesOf(u)' = HandlesOf(u) /\ Apart(u)'
  BY <1>1 DEF HandlesOf, Alone, HandlesApart, Apart, Transfers
<1>4. Apart(t)'
  <2>1. -1 \notin held[t]
    BY DEF TypeOK, HandlesOK, Handles
  <2> QED
    BY <1>1, <2>1 DEF Apart, NoCall, Own, Opening, Transfers
<1> QED
  BY <1>2, <1>3, <1>4 DEF HandlesApart, HandlesHeldByOne

\* tfs_close gives up the handle that it works on; the other calls pass a handle
\* that the caller keeps, or none.
LEMMA CallsKeepHandles ==
    ASSUME TypeOK, HandlesApart, NEW t \in Threads, Calls(t), "own_handles" \in Rules
    PROVE  HandlesApart'
<1>0. call \in [Threads -> CallRecords] /\ held \in [Threads -> SUBSET Handles]
      /\ -1 \notin held[t] /\ Usable(t) = held[t]
  BY DEF TypeOK, CallsOK, HandlesOK, Handles, Usable
<1>1. ASSUME NEW c, Enter(t, c), UNCHANGED held, c.h \in held[t] \cup {-1},
             c.pc \in Own => ~Transfers(c), ~Transfers(c) => c.h = -1
      PROVE  HandlesApart'
  <2>1. call'[t] = c /\ Alone(t) /\ UNCHANGED free_open_file_entries
    BY <1>0, <1>1 DEF Enter, Alone
  <2>2. HandlesOf(t)' \subseteq HandlesOf(t)
    BY <1>1, <2>1 DEF HandlesOf
  <2>3. \A u \in Threads \ {t} : HandlesOf(u)' = HandlesOf(u) /\ Apart(u)'
    BY <1>1, <2>1 DEF HandlesOf, Alone, HandlesApart, Apart, Transfers
  <2>4. Apart(t)'
    BY <1>0, <1>1, <2>1 DEF Apart, Transfers
  <2> QED
    BY <2>1, <2>2, <2>3, <2>4 DEF HandlesApart, HandlesHeldByOne
<1>2. ASSUME NEW name \in Names, NEW flags \in OpenFlags, tfs_open(t, name, flags)
      PROVE  HandlesApart'
  BY <1>1, <1>2 DEF tfs_open, NoCall, Transfers
<1>3. ASSUME NEW name \in Names, tfs_copy_to_external_fs(t, name)
      PROVE  HandlesApart'
  BY <1>1, <1>3 DEF tfs_copy_to_external_fs, NoCall, Transfers
<1>4. ASSUME NEW h \in held[t], NEW len \in Lens, tfs_write(t, h, len) PROVE HandlesApart'
  BY <1>1, <1>4 DEF tfs_write, NoCall, Transfers, Own, Opening
<1>5. ASSUME NEW h \in held[t], NEW len \in Lens, tfs_read(t, h, len) PROVE HandlesApart'
  BY <1>1, <1>5 DEF tfs_read, NoCall, Transfers, Own, Opening
<1>6. ASSUME NEW h \in held[t], tfs_close(t, h) PROVE HandlesApart'
  <2> DEFINE c == [NoCall EXCEPT !.pc = "close", !.op = "close", !.h = h]
  <2>1. call'[t] = c /\ Alone(t) /\ UNCHANGED free_open_file_entries
    BY <1>0, <1>6 DEF tfs_close, Enter, Alone
  <2>2. \A u \in Threads : held'[u] = held[u] \ {h}
    BY <1>6 DEF tfs_close
  <2>3. c.h = h /\ ~Transfers(c)
    BY DEF NoCall, Transfers
  <2>4. \A u \in Threads : HandlesOf(u)' \subseteq HandlesOf(u)
    BY <2>1, <2>2, <2>3 DEF HandlesOf, Alone
  <2> HIDE DEF c
  <2>5. Apart(t)'
    BY <2>1, <2>2, <2>3 DEF Apart, Transfers
  <2>6. \A u \in Threads \ {t} : Apart(u)'
    BY <2>1, <2>2 DEF HandlesApart, Apart, Alone, Transfers
  <2> QED
    BY <2>1, <2>4, <2>5, <2>6 DEF HandlesApart, HandlesHeldByOne
<1> QED
  BY <1>0, <1>2, <1>3, <1>4, <1>5, <1>6 DEF Calls

\* The handle that add_to_open_file_table takes is FREE: no thread has it.
LEMMA TakeHandleKeepsHandles ==
    ASSUME TypeOK, HandlesApart, NEW t \in Threads, TakeHandle(t)
    PROVE  HandlesApart'
<1> DEFINE h == call[t].k
<1>0. call \in [Threads -> CallRecords] /\ call[t] \in CallRecords
      /\ free_open_file_entries \in [Handles -> {FREE, TAKEN}] /\ FREE # TAKEN
      /\ h \in Handles /\ call[t].pc = "open_file_table" /\ UNCHANGED held
  BY DEF TypeOK, CallsOK, HandlesOK, TakeHandle, At, FREE, TAKEN
<1>1. ~Transfers(call[t])
  BY <1>0 DEF HandlesApart, Apart, Own, Opening
<1>2. ASSUME handle_is_free(h) PROVE HandlesApart'
  <2>1. /\ call' = [call EXCEPT ![t].pc = "of_fields", ![t].h = h]
        /\ free_open_file_entries' = [free_open_file_entries EXCEPT ![h] = TAKEN]
        /\ free_open_file_entries[h] = FREE
    BY <1>2 DEF TakeHandle, handle_is_free
  <2>2. Alone(t) /\ call'[t].h = h /\ call'[t].op = call[t].op
    BY <1>0, <2>1 DEF Alone, CallRecords
  <2>3. \A u \in Threads : h \notin HandlesOf(u)
    BY <1>0, <2>1 DEF HandlesApart, HandlesHeldByOne
  <2>4. HandlesOf(t)' \subseteq HandlesOf(t) \cup {h}
    BY <1>0, <2>2 DEF HandlesOf
  <2>5. \A u \in Threads \ {t} : HandlesOf(u)' = HandlesOf(u) /\ Apart(u)'
    BY <1>0, <2>2 DEF HandlesOf, Alone, HandlesApart, Apart, Transfers
  <2>6. Apart(t)'
    BY <1>0, <1>1, <2>2, <2>3 DEF Apart, Transfers, HandlesOf
  <2>7. \A u \in Threads : \A g \in HandlesOf(u) : g # h /\ free_open_file_entries'[g] = TAKEN
    <3>1. \A u \in Threads : HandlesOf(u) \subseteq Handles
      BY <1>0 DEF HandlesOf, TypeOK, HandlesOK, CallRecords
    <3> QED
      BY <1>0, <2>1, <2>3, <3>1 DEF HandlesApart, HandlesHeldByOne
  <2>8. \A u \in Threads : \A v \in Threads \ {u} : HandlesOf(u)' \cap HandlesOf(v)' = {}
    BY <2>3, <2>4, <2>5 DEF HandlesApart, HandlesHeldByOne
  <2>9. \A u \in Threads : \A g \in HandlesOf(u)' : free_open_file_entries'[g] = TAKEN
    BY <1>0, <2>1, <2>4, <2>5, <2>7
  <2> QED
    BY <2>5, <2>6, <2>8, <2>9 DEF HandlesApart, HandlesHeldByOne
<1>3. ASSUME ~handle_is_free(h) PROVE HandlesApart'
  BY <1>1, <1>3, Staying, StayKeepsHandles DEF TakeHandle
<1> QED
  BY <1>2, <1>3

\* tfs_open hands its handle to the caller, or to tfs_copy_to_external_fs.
LEMMA FillHandleKeepsHandles ==
    ASSUME TypeOK, HandlesApart, NEW t \in Threads, FillHandle(t)
    PROVE  HandlesApart'
<1> DEFINE h == call[t].h
<1>0. /\ h \in Handles /\ call[t].pc = "of_fields" /\ UNCHANGED free_open_file_entries
      /\ held \in [Threads -> SUBSET Handles]
  BY GoodCall DEF FillHandle, At, Good, LocalsSet, TypeOK, HandlesOK
<1>1. ASSUME call[t].op = "open" PROVE HandlesApart'
  <2>1. Return(t) /\ held' = [held EXCEPT ![t] = @ \cup {h}]
    BY <1>1 DEF FillHandle
  <2>2. call'[t] = NoCall /\ Alone(t)
    BY <2>1 DEF Return, Alone, TypeOK, CallsOK
  <2>3. HandlesOf(t)' \subseteq HandlesOf(t)
    BY <1>0, <2>1, <2>2 DEF HandlesOf, NoCall, Handles
  <2>4. \A u \in Threads \ {t} : HandlesOf(u)' = HandlesOf(u) /\ Apart(u)'
    BY <1>0, <2>1, <2>2 DEF HandlesOf, Alone, HandlesApart, Apart, Transfers
  <2>5. Apart(t)'
    <3>1. -1 \notin held'[t]
      BY <1>0, <2>1 DEF Handles
    <3> QED
      BY <2>2, <3>1 DEF Apart, NoCall, Own, Opening, Transfers
  <2> QED
    BY <1>0, <2>3, <2>4, <2>5 DEF HandlesApart, HandlesHeldByOne
<1>2. ASSUME call[t].op # "open" PROVE HandlesApart'
  <2>1. Go(t, "copy_size") /\ UNCHANGED held
    BY <1>2 DEF FillHandle
  <2>2. ~Transfers(call[t])
    BY <1>0 DEF HandlesApart, Apart, Own, Opening
  <2> QED
    BY <1>0, <2>1, <2>2, Staying, StayKeepsHandles
<1> QED
  BY <1>1, <1>2

\* The handle that is freed is in no thread's hands.
LEMMA CloseKeepsHandles ==
    ASSUME TypeOK, HandlesApart, NEW t \in Threads, Close(t)
    PROVE  HandlesApart'
<1> DEFINE h == call[t].h
<1>0. /\ h \in Handles /\ call[t].pc = "closing" /\ UNCHANGED held
      /\ free_open_file_entries' = [free_open_file_entries EXCEPT ![h] = FREE]
      /\ held \in [Threads -> SUBSET Handles]
      /\ free_open_file_entries \in [Handles -> {FREE, TAKEN}]
  BY GoodCall DEF Close, At, Good, LocalsSet, TypeOK, HandlesOK, Using
<1>1. h \notin held[t]
  BY <1>0 DEF HandlesApart, Apart, Own
<1>2. call'[t] = NoCall /\ Alone(t)
  BY DEF Close, Return, Alone, TypeOK, CallsOK
<1>3. HandlesOf(t)' = held[t]
  BY <1>0, <1>2 DEF HandlesOf, NoCall
<1>4. \A u \in Threads \ {t} : HandlesOf(u)' = HandlesOf(u) /\ Apart(u)'
  BY <1>0, <1>2 DEF HandlesOf, Alone, HandlesApart, Apart, Transfers
<1>5. h \in HandlesOf(t)
  BY <1>0 DEF HandlesOf, Handles
<1>6. \A u \in Threads : HandlesOf(u)' \subseteq HandlesOf(u) /\ h \notin HandlesOf(u)'
  BY <1>1, <1>3, <1>4, <1>5 DEF HandlesOf, HandlesApart, HandlesHeldByOne
<1>7. Apart(t)'
  <2>1. -1 \notin held[t]
    BY <1>0 DEF Handles
  <2> QED
    BY <1>0, <1>2, <2>1 DEF Apart, NoCall, Own, Opening, Transfers
<1>8. \A u \in Threads : HandlesOf(u) \subseteq Handles
  BY DEF HandlesOf, TypeOK, HandlesOK, CallsOK, CallRecords
<1> QED
  BY <1>0, <1>4, <1>6, <1>7, <1>8 DEF HandlesApart, HandlesHeldByOne

\* The other steps of tfs_open and of inode_delete.
LEMMA OpenStepKeepsHandles ==
    ASSUME TypeOK, HandlesApart, NEW t \in Threads, OpenStep(t)
    PROVE  HandlesApart'
<1>0. call \in [Threads -> CallRecords] /\ call[t] \in CallRecords
  BY DEF TypeOK, CallsOK
<1>1. call[t].pc \in Opening
  BY DEF OpenStep, FindEntry, NotFound, InitialOffset, DataFree, DataLock, FreeBlock,
         DataUnlock, MetadataReset, TakeInode, InitInode, SeekEntry, SetInumber, BeginName,
         EndName, DeleteInode, TakeHandle, NoHandle, FillHandle, At, Opening
<1>2. ~Transfers(call[t])
  BY <1>1 DEF HandlesApart, Apart, Own
<1>3. ASSUME UNCHANGED <<held, free_open_file_entries>>, Stays(t) \/ Return(t)
      PROVE  HandlesApart'
  BY <1>2, <1>3, StayKeepsHandles, ReturnKeepsHandles
<1>4. ASSUME FindEntry(t) PROVE Stays(t)
  <2>1. NextEntry(t) \/ \E p, i : call' = [call EXCEPT ![t].inum = i, ![t].pc = p]
    BY <1>4 DEF FindEntry
  <2>2. ASSUME NEW p, NEW i, call' = [call EXCEPT ![t].inum = i, ![t].pc = p] PROVE Stays(t)
    BY <1>0, <2>2 DEF Stays, Alone, Transfers, CallRecords
  <2> QED
    BY <2>1, <2>2, Staying
<1>5. ASSUME InitialOffset(t) PROVE Stays(t)
  <2>1. Scan(t, "open_file_table")
        \/ \E size : call' = [call EXCEPT ![t].pc = "open_file_table", ![t].k = 0,
                                          ![t].offset = size]
    BY <1>5 DEF InitialOffset
  <2>2. ASSUME NEW size, call' = [call EXCEPT ![t].pc = "open_file_table", ![t].k = 0,
                                              ![t].offset = size]
        PROVE  Stays(t)
    BY <1>0, <2>2 DEF Stays, Alone, Transfers, CallRecords
  <2> QED
    BY <2>1, <2>2, Staying
<1>6. ASSUME FreeBlock(t) PROVE Stays(t) \/ Return(t)
  <2>1. Go(t, "data_unlock") \/ Return(t) \/ \E k : call' = [call EXCEPT ![t].k = k]
    BY <1>6 DEF FreeBlock
  <2>2. ASSUME NEW k, call' = [call EXCEPT ![t].k = k] PROVE Stays(t)
    BY <1>0, <2>2 DEF Stays, Alone, Transfers, CallRecords
  <2> QED
    BY <2>1, <2>2, Staying
<1>7. ASSUME TakeInode(t) PROVE Stays(t) \/ Return(t)
  <2>1. Return(t) \/ NextEntry(t)
        \/ call' = [call EXCEPT ![t].pc = "inode_init", ![t].inum = call[t].k]
    BY <1>7 DEF TakeInode
  <2>2. ASSUME call' = [call EXCEPT ![t].pc = "inode_init", ![t].inum = call[t].k]
        PROVE  Stays(t)
    BY <1>0, <2>2 DEF Stays, Alone, Transfers, CallRecords
  <2> QED
    BY <2>1, <2>2, Staying
<1>8. ASSUME SeekEntry(t) PROVE Stays(t)
  <2>1. \/ Go(t, "d_inumber") \/ NextEntry(t)
        \/ call' = [call EXCEPT ![t].pc = "inode_delete", ![t].op = "delete"]
    BY <1>8 DEF SeekEntry
  <2>2. ASSUME call' = [call EXCEPT ![t].pc = "inode_delete", ![t].op = "delete"]
        PROVE  Stays(t)
    <3>1. Alone(t) /\ call'[t].h = call[t].h /\ call'[t].op = "delete"
      BY <1>0, <2>2 DEF Alone, CallRecords
    <3> QED
      BY <1>2, <3>1 DEF Stays, Transfers
  <2> QED
    BY <2>1, <2>2, Staying
<1>9. ASSUME \/ NotFound(t) \/ DataFree(t) \/ DataLock(t) \/ DataUnlock(t)
             \/ MetadataReset(t) \/ InitInode(t) \/ SetInumber(t) \/ BeginName(t)
             \/ EndName(t) \/ DeleteInode(t) \/ NoHandle(t)
      PROVE  Stays(t) \/ Return(t)
  BY <1>9, Staying
  DEF NotFound, DataFree, DataLock, DataUnlock, MetadataReset, InitInode, SetInumber,
      BeginName, EndName, DeleteInode, NoHandle
<1>10. TakeHandle(t) \/ FillHandle(t) \/ UNCHANGED <<held, free_open_file_entries>>
  BY DEF OpenStep, FindEntry, NotFound, InitialOffset, DataFree, DataLock, FreeBlock,
         DataUnlock, MetadataReset, TakeInode, InitInode, SeekEntry, SetInumber, BeginName,
         EndName, DeleteInode, NoHandle, handles
<1> QED
  BY <1>3, <1>4, <1>5, <1>6, <1>7, <1>8, <1>9, <1>10, TakeHandleKeepsHandles,
     FillHandleKeepsHandles DEF OpenStep

\* The steps of tfs_read and tfs_write, and those of the other calls that use a
\* handle.
LEMMA TransfersKeepHandles ==
    ASSUME TypeOK, HandlesApart, NEW t \in Threads,
           \/ WriteChunk(t) \/ WriteRest(t) \/ ReadAmount(t) \/ ReadChunk(t)
           \/ Advance(t) \/ Grow(t)
    PROVE  HandlesApart'
<1> DEFINE c == call[t]
           o == open_file_table[c.h].of_offset
<1>0. /\ call \in [Threads -> CallRecords] /\ c \in CallRecords
      /\ c.left \in Int /\ (c.h \in Handles => rest_of_block(o) \in Int)
      /\ UNCHANGED <<held, free_open_file_entries>>
  <2>1. c.h \in Handles => rest_of_block(o) \in Int
    BY RestOfBlock, SizesAssumption
  <2>2. UNCHANGED <<held, free_open_file_entries>>
    BY DEF WriteChunk, WriteRest, ReadAmount, ReadChunk, Advance, Grow, handles
  <2> QED
    BY <2>1, <2>2 DEF TypeOK, CallsOK, CallRecords
<1>1. ASSUME Stays(t), call'[t].pc \notin Own PROVE HandlesApart'
  BY <1>0, <1>1, StayKeepsHandles
<1>2. ASSUME Return(t) PROVE HandlesApart'
  BY <1>0, <1>2, ReturnKeepsHandles
<1>3. ASSUME NEW aux \in Int, Chunk(t, aux) PROVE HandlesApart'
  BY <1>1, <1>3, Staying DEF Own, Opening
<1>4. ASSUME WriteChunk(t) PROVE HandlesApart'
  <2>1. Return(t) \/ Go(t, "write_rest") \/ Chunk(t, c.left)
    BY <1>4 DEF WriteChunk
  <2>2. ASSUME Go(t, "write_rest") PROVE HandlesApart'
    BY <1>1, <2>2, Staying DEF Own, Opening
  <2> QED
    BY <1>0, <1>2, <1>3, <2>1, <2>2
<1>5. ASSUME WriteRest(t) PROVE HandlesApart'
  <2>1. c.h \in Handles
    BY <1>5, GoodCall DEF WriteRest, At, Good, LocalsSet, Using
  <2> QED
    BY <1>0, <1>3, <1>5, <2>1 DEF WriteRest
<1>6. ASSUME ReadAmount(t) PROVE HandlesApart'
  <2>1. PICK n : call' = [call EXCEPT ![t].pc = "read_chunk", ![t].left = n, ![t].total = n]
    BY <1>6 DEF ReadAmount
  <2>2. Stays(t) /\ call'[t].pc = "read_chunk"
    BY <1>0, <2>1 DEF Stays, Alone, Transfers, CallRecords
  <2> QED
    BY <1>1, <2>2 DEF Own, Opening
<1>7. ASSUME ReadChunk(t) PROVE HandlesApart'
  <2>1. c.h \in Handles
    BY <1>7, GoodCall DEF ReadChunk, At, Good, LocalsSet, Using
  <2>2. \/ Return(t) \/ (Go(t, "copy_out") /\ c.op = "copy")
        \/ Chunk(t, rest_of_block(o)) \/ Chunk(t, c.left)
    BY <1>7 DEF ReadChunk
  <2>3. ASSUME Go(t, "copy_out"), c.op = "copy" PROVE HandlesApart'
    BY <1>0, <2>3, Staying, StayKeepsHandles DEF Transfers
  <2> QED
    BY <1>0, <1>2, <1>3, <2>1, <2>2, <2>3
<1>8. ASSUME Advance(t) PROVE HandlesApart'
  <2>1. Go(t, "i_size")
        \/ \E n : call' = [call EXCEPT ![t].pc = "read_chunk", ![t].left = n]
    BY <1>8 DEF Advance
  <2>2. ASSUME NEW n, call' = [call EXCEPT ![t].pc = "read_chunk", ![t].left = n]
        PROVE  HandlesApart'
    <3>1. Stays(t) /\ call'[t].pc = "read_chunk"
      BY <1>0, <2>2 DEF Stays, Alone, Transfers, CallRecords
    <3> QED
      BY <1>1, <3>1 DEF Own, Opening
  <2>3. ASSUME Go(t, "i_size") PROVE HandlesApart'
    BY <1>1, <2>3, Staying DEF Own, Opening
  <2> QED
    BY <2>1, <2>2, <2>3
<1>9. ASSUME Grow(t) PROVE HandlesApart'
  <2>1. PICK n : call' = [call EXCEPT ![t].pc = "to_write", ![t].left = n]
    BY <1>9 DEF Grow
  <2>2. Stays(t) /\ call'[t].pc = "to_write"
    BY <1>0, <2>1 DEF Stays, Alone, Transfers, CallRecords
  <2> QED
    BY <1>1, <2>2 DEF Own, Opening
<1> QED
  BY <1>4, <1>5, <1>6, <1>7, <1>8, <1>9

\* The steps of inode_update and the copies, when the process is not lost.
LEMMA UpdatesKeepHandles ==
    ASSUME TypeOK, HandlesApart, NEW t \in Threads,
           \/ OfLock(t) \/ ILock(t) \/ Alloc(t) \/ IUnlock(t) \/ Position(t)
           \/ CopyIn(t) \/ CopyOut(t), ~(UNCHANGED call)
    PROVE  HandlesApart'
<1>0. /\ call \in [Threads -> CallRecords] /\ call[t] \in CallRecords
      /\ UNCHANGED <<held, free_open_file_entries>>
  <2>1. UNCHANGED <<held, free_open_file_entries>>
    BY DEF OfLock, ILock, Alloc, IUnlock, Position, CopyIn, CopyOut, Crash, handles
  <2> QED
    BY <2>1 DEF TypeOK, CallsOK
<1>1. ASSUME Stays(t), call'[t].pc \in Moving PROVE HandlesApart'
  BY <1>0, <1>1, StayKeepsHandles DEF Own, Opening, Moving
<1>2. ASSUME OfLock(t) \/ IUnlock(t) \/ CopyIn(t) \/ CopyOut(t) PROVE HandlesApart'
  <2>1. \E p \in Moving : Go(t, p)
    BY <1>2 DEF OfLock, IUnlock, CopyIn, CopyOut, Crash, Moving
  <2> QED
    BY <1>1, <2>1, Staying
<1>3. ASSUME ILock(t) PROVE HandlesApart'
  <2>1. Stays(t) /\ call'[t].pc = "alloc"
    BY <1>0, <1>3 DEF ILock, Stays, Alone, Transfers, CallRecords
  <2> QED
    BY <1>1, <2>1 DEF Moving
<1>4. ASSUME Alloc(t) PROVE HandlesApart'
  <2>1. \/ \E k, b : call' = [call EXCEPT ![t].k = k, ![t].b = b]
        \/ \E b : call' = [call EXCEPT ![t].b = b]
    BY <1>4 DEF Alloc
  <2>2. ASSUME NEW k, NEW b, call' = [call EXCEPT ![t].k = k, ![t].b = b]
        PROVE  Stays(t) /\ call'[t].pc = call[t].pc
    BY <1>0, <2>2 DEF Stays, Alone, Transfers, CallRecords
  <2>3. ASSUME NEW b, call' = [call EXCEPT ![t].b = b]
        PROVE  Stays(t) /\ call'[t].pc = call[t].pc
    BY <1>0, <2>3 DEF Stays, Alone, Transfers, CallRecords
  <2> QED
    BY <1>1, <1>4, <2>1, <2>2, <2>3 DEF Moving, Alloc, At
<1>5. ASSUME Position(t) PROVE HandlesApart'
  <2>1. Return(t) \/ \E pos : call' = [call EXCEPT ![t].pc = "memcpy", ![t].pos = pos]
    BY <1>5 DEF Position, Crash
  <2>2. ASSUME NEW pos, call' = [call EXCEPT ![t].pc = "memcpy", ![t].pos = pos]
        PROVE  HandlesApart'
    <3>1. Stays(t) /\ call'[t].pc = "memcpy"
      BY <1>0, <2>2 DEF Stays, Alone, Transfers, CallRecords
    <3> QED
      BY <1>1, <3>1 DEF Moving
  <2> QED
    BY <1>0, <2>1, <2>2, ReturnKeepsHandles
<1> QED
  BY <1>2, <1>3, <1>4, <1>5

\* The steps of tfs_copy_to_external_fs, and the test of tfs_close.
LEMMA CopiesKeepHandles ==
    ASSUME TypeOK, HandlesApart, NEW t \in Threads,
           CopySize(t) \/ CopyRead(t) \/ WriteExternal(t) \/ CloseTest(t)
    PROVE  HandlesApart'
<1>0. /\ call \in [Threads -> CallRecords] /\ call[t] \in CallRecords
      /\ UNCHANGED <<held, free_open_file_entries>>
  <2>1. UNCHANGED <<held, free_open_file_entries>>
    BY DEF CopySize, CopyRead, WriteExternal, CloseTest, handles
  <2> QED
    BY <2>1 DEF TypeOK, CallsOK
<1>1. ~Transfers(call[t])
  BY DEF CopySize, CopyRead, WriteExternal, CloseTest, At, HandlesApart, Apart, Own
<1>2. ASSUME CopySize(t) PROVE Stays(t)
  BY <1>0, <1>2 DEF CopySize, Stays, Alone, Transfers, CallRecords
<1>3. ASSUME CopyRead(t) PROVE Stays(t)
  BY <1>0, <1>3 DEF CopyRead, Stays, Alone, Transfers, CallRecords
<1>4. ASSUME WriteExternal(t) \/ CloseTest(t) PROVE Stays(t) \/ Return(t)
  BY <1>4, Staying DEF WriteExternal, CloseTest
<1> QED
  BY <1>0, <1>1, <1>2, <1>3, <1>4, StayKeepsHandles, ReturnKeepsHandles

\* Every step keeps HandlesApart.
LEMMA NextKeepsHandles ==
    ASSUME "own_handles" \in Rules
    PROVE  TypeOK /\ HandlesApart /\ [Next]_vars => HandlesApart'
<1> SUFFICES ASSUME TypeOK, HandlesApart, [Next]_vars PROVE HandlesApart'
  OBVIOUS
<1>1. ASSUME UNCHANGED <<call, held, free_open_file_entries>> PROVE HandlesApart'
  BY <1>1 DEF HandlesApart, HandlesHeldByOne, HandlesOf, Apart
<1>2. ASSUME NEW t \in Threads, DataStep(t) PROVE HandlesApart'
  <2>1. ASSUME Crash PROVE HandlesApart'
    BY <1>1, <2>1 DEF Crash, handles
  <2>2. ASSUME UNCHANGED call, Position(t) \/ CopyIn(t) \/ CopyOut(t) PROVE HandlesApart'
    BY <1>1, <2>2 DEF Position, CopyIn, CopyOut, Crash, handles
  <2>3. ASSUME UNCHANGED call, OfLock(t) \/ ILock(t) \/ Alloc(t) \/ IUnlock(t)
        PROVE  HandlesApart'
    BY <1>1, <2>3 DEF OfLock, ILock, Alloc, IUnlock, handles
  <2> QED
    BY <1>2, <2>1, <2>2, <2>3, TransfersKeepHandles, UpdatesKeepHandles, CopiesKeepHandles,
       CloseKeepsHandles DEF DataStep, AllocWild
<1>3. CASE Next
  BY <1>2, <1>3, OpenStepKeepsHandles, CallsKeepHandles DEF Next, Step
<1>4. CASE UNCHANGED vars
  BY <1>1, <1>4 DEF vars, handles
<1> QED
  BY <1>3, <1>4

\* Where callers pass handles of their own, no two threads ever have the same
\* one, and a handle in use is never given out again: though tfs_close tests the
\* entry outside vs_mutex, and the fields of a handle are written after it.
THEOREM HandlesHeldByOneCorrect ==
    ASSUME "own_handles" \in Rules
    PROVE  Spec => []HandlesHeldByOne
<1>1. Init => HandlesApart
  BY DEF Init, HandlesApart, HandlesHeldByOne, HandlesOf, Apart, NoCall, Own, Opening,
         Transfers
<1>2. HandlesApart => HandlesHeldByOne
  BY DEF HandlesApart
<1> QED
  BY <1>1, <1>2, NextKeepsHandles, TypeCorrect, PTL DEF Spec

-----------------------------------------------------------------------------
(* HandlesLeadToFiles, whatever callers keep to.                            *)

\* The steps of tfs_open that create a file, from inode_create to the name, and
\* those that come when its entry has the i-node.
Adding == {"inode_create", "inode_init", "add_dir_entry", "d_inumber", "d_name", "d_name_end"}
Naming == {"d_name", "d_name_end"}

\* The places of inode_data_free, and those of tfs_open where the i-node of the
\* name is known.
Freeing == {"data_free", "data_lock", "free_block", "data_unlock", "metadata_reset"}
Found == Freeing \cup {"offset", "open_file_table", "of_fields"}

\* Those of a tfs_open that gives its i-node back.
Undoing == {"inode_delete", "data_free", "data_lock", "free_block", "data_unlock"}

\* The places of the calls on a handle where the file of the handle is used.
Carrying == Moving \cup {"to_write", "write_rest", "to_read", "read_chunk", "i_size",
                         "copy_size", "copy_read", "copy_out"}

\* What a thread can rely on: an i-node that tfs_open found or has entered is a
\* file, and its handles have been filled.
Led(t) ==
    LET c == call[t]
    IN  /\ c.pc \in Adding \cup {"inode_delete"} => Creates(t)
        /\ c.pc = "inode_delete" => c.op = "delete"
        /\ c.op = "delete" => Creates(t) /\ c.pc \in Undoing
        /\ c.pc \in Found \cup Naming /\ c.op # "delete" => c.inum \in Files
        /\ c.pc \in Carrying => c.h \in Given
        /\ held[t] \subseteq Given

\* The root directory has an i-node that is never given.
RootKept ==
    /\ freeinode_ts[ROOT_DIR_INUM] = TAKEN
    /\ \A e \in Slots : dir[e].d_inumber # ROOT_DIR_INUM
    /\ \A t \in Threads : Creating(t) => call[t].inum # ROOT_DIR_INUM

AllLed ==
    /\ RootKept
    /\ \A h \in Given : open_file_table[h].of_inumber \in Files
    /\ \A t \in Threads : Led(t)

\* Thread t goes on with the file that it has.
SameFile(t) ==
    /\ call'[t].name = call[t].name /\ call'[t].flags = call[t].flags
    /\ call'[t].op = call[t].op /\ call'[t].inum = call[t].inum

\* Go, Scan and NextEntry go on with it.
LEMMA GoesOn ==
    ASSUME TypeOK, NEW t \in Threads, NEW p
    PROVE  /\ Go(t, p) =>
                 /\ Alone(t) /\ SameFile(t) /\ call'[t].pc = p
                 /\ call'[t].k = call[t].k /\ call'[t].h = call[t].h
           /\ Scan(t, p) => Alone(t) /\ SameFile(t) /\ call'[t].pc = p
           /\ NextEntry(t) =>
                 /\ Alone(t) /\ SameFile(t)
                 /\ call'[t].pc = call[t].pc /\ call'[t].k = call[t].k + 1
           /\ Return(t) => Alone(t) /\ call'[t] = NoCall
<1>1. call \in [Threads -> CallRecords]
  BY DEF TypeOK, CallsOK
<1>2. Go(t, p) => /\ Alone(t) /\ SameFile(t) /\ call'[t].pc = p
                  /\ call'[t].k = call[t].k /\ call'[t].h = call[t].h
  BY <1>1 DEF Go, Alone, SameFile, CallRecords
<1>3. Scan(t, p) => Alone(t) /\ SameFile(t) /\ call'[t].pc = p
  BY <1>1 DEF Scan, Alone, SameFile, CallRecords
<1>4. NextEntry(t) => /\ Alone(t) /\ SameFile(t)
                      /\ call'[t].pc = call[t].pc /\ call'[t].k = call[t].k + 1
  BY <1>1 DEF NextEntry, Alone, SameFile, CallRecords
<1>5. Return(t) => Alone(t) /\ call'[t] = NoCall
  BY <1>1 DEF Return, Alone
<1> QED
  BY <1>2, <1>3, <1>4, <1>5

\* A step that gives, takes and enters no i-node leaves the files.
LEMMA SameFiles ==
    ASSUME NEW t \in Threads, Alone(t), UNCHANGED freeinode_ts, Creating(t)' <=> Creating(t),
           Creating(t) => call'[t].inum = call[t].inum
    PROVE  Files' = Files
<1>1. \A u \in Threads : /\ Creating(u)' <=> Creating(u)
                         /\ Creating(u) => call'[u].inum = call[u].inum
  BY DEF Alone, Creating
<1> QED
  BY <1>1 DEF Files

\* What a step of thread t has to show that leaves the handles.
LEMMA LedOn ==
    ASSUME AllLed, NEW t \in Threads, Alone(t), Files \subseteq Files', RootKept', Led(t)',
           \A h \in Handles : /\ history'[h].name = history[h].name
                              /\ open_file_table'[h].of_inumber = open_file_table[h].of_inumber,
           \A u \in Threads : held'[u] \subseteq held[u]
    PROVE  AllLed'
<1>1. Given' = Given
  BY DEF Given
<1>2. \A h \in Given' : open_file_table'[h].of_inumber \in Files'
  BY <1>1 DEF AllLed, Given
<1>3. ASSUME NEW u \in Threads \ {t} PROVE Led(u)'
  <2>1. Led(u) /\ call'[u] = call[u] /\ held'[u] \subseteq held[u]
    BY DEF AllLed, Alone
  <2> QED
    BY <1>1, <2>1 DEF Led, Creates
<1> QED
  BY <1>2, <1>3 DEF AllLed

\* A step that leaves the names and the handles.
LEMMA NamesLed ==
    ASSUME AllLed, NEW t \in Threads, Alone(t), UNCHANGED names,
           UNCHANGED <<open_file_table, history, held>>, Creating(t)' <=> Creating(t),
           Creating(t) => call'[t].inum = call[t].inum,
           Files' = Files => Led(t)'
    PROVE  AllLed'
<1>1. UNCHANGED <<freeinode_ts, dir>>
  BY DEF names
<1>2. Files' = Files
  BY <1>1, SameFiles
<1>3. RootKept'
  BY <1>1 DEF AllLed, RootKept, Alone, Creating
<1> QED
  BY <1>2, <1>3, LedOn

\* A call that returns.
LEMMA ReturnLed ==
    ASSUME TypeOK, AllLed, NEW t \in Threads, Return(t), ~Creating(t), UNCHANGED names,
           UNCHANGED <<open_file_table, history, held>>
    PROVE  AllLed'
<1>1. Alone(t) /\ call'[t] = NoCall
  BY GoesOn
<1>2. Led(t)' /\ ~Creating(t)'
  BY <1>1 DEF NoCall, Led, Adding, Found, Freeing, Naming, Carrying, Moving, Creating, AllLed, Given
<1> QED
  BY <1>1, <1>2, NamesLed

\* The calls.
LEMMA CallsLed ==
    ASSUME TypeOK, AllLed, NEW t \in Threads, Calls(t)
    PROVE  AllLed'
<1>0. call \in [Threads -> CallRecords] /\ held \in [Threads -> SUBSET Handles] /\ Led(t)
  BY DEF TypeOK, CallsOK, HandlesOK, AllLed
<1>1. Usable(t) \subseteq Given
  BY <1>0 DEF Usable, Led
<1>2. ASSUME NEW c, Enter(t, c), \A u \in Threads : held'[u] \subseteq held[u],
             c.op # "delete", c.pc \in {"find_in_dir", "to_write", "to_read", "close"},
             c.pc \in {"to_write", "to_read"} => c.h \in Given
      PROVE  AllLed'
  <2>1. /\ Alone(t) /\ call'[t] = c /\ UNCHANGED names /\ ~Creating(t)
        /\ UNCHANGED <<open_file_table, history>>
    BY <1>0, <1>2 DEF Enter, Alone, At, Creating
  <2>2. UNCHANGED <<freeinode_ts, dir>> /\ ~Creating(t)'
    BY <1>2, <2>1 DEF names, Creating
  <2>3. Files' = Files
    BY <2>1, <2>2, SameFiles
  <2>4. RootKept'
    BY <2>1, <2>2 DEF AllLed, RootKept, Alone, Creating
  <2>5. Led(t)'
    BY <1>0, <1>2, <2>1 DEF Led, Adding, Found, Freeing, Naming, Carrying, Moving, Given
  <2> QED
    BY <1>2, <2>1, <2>3, <2>4, <2>5, LedOn
<1>3. ASSUME NEW name \in Names, NEW flags \in OpenFlags, tfs_open(t, name, flags)
      PROVE  AllLed'
  BY <1>2, <1>3 DEF tfs_open, NoCall
<1>4. ASSUME NEW name \in Names, tfs_copy_to_external_fs(t, name) PROVE AllLed'
  BY <1>2, <1>4 DEF tfs_copy_to_external_fs, NoCall
<1>5. ASSUME NEW h \in Usable(t), NEW len \in Lens, tfs_write(t, h, len) PROVE AllLed'
  BY <1>1, <1>2, <1>5 DEF tfs_write, NoCall
<1>6. ASSUME NEW h \in Usable(t), NEW len \in Lens, tfs_read(t, h, len) PROVE AllLed'
  BY <1>1, <1>2, <1>6 DEF tfs_read, NoCall
<1>7. ASSUME NEW h \in Usable(t), tfs_close(t, h) PROVE AllLed'
  <2>1. \A u \in Threads : held'[u] \subseteq held[u]
    BY <1>0, <1>7 DEF tfs_close
  <2> QED
    BY <1>2, <1>7, <2>1 DEF tfs_close, NoCall
<1> QED
  BY <1>3, <1>4, <1>5, <1>6, <1>7 DEF Calls

\* An entry that has a number leads to a file.
LEMMA EntriesAreFiles ==
    ASSUME TypeOK, INodesGivenOnce, RootKept, NEW e \in Slots, dir[e].d_inumber # -1
    PROVE  dir[e].d_inumber \in Files
<1>1. dir[e].d_inumber \in Inodes /\ freeinode_ts[dir[e].d_inumber] = TAKEN
  BY DEF TypeOK, TablesOK, INodesGivenOnce
<1>2. \A t \in Threads : ~(Creating(t) /\ call[t].inum = dir[e].d_inumber)
  BY DEF INodesGivenOnce
<1> QED
  BY <1>1, <1>2 DEF Files, RootKept

\* tfs_lookup.
LEMMA LookupLed ==
    ASSUME TypeOK, INodesGivenOnce, AllLed, NEW t \in Threads, FindEntry(t) \/ NotFound(t)
    PROVE  AllLed'
<1> DEFINE c == call[t]
<1>0. /\ call \in [Threads -> CallRecords] /\ c \in CallRecords /\ Led(t)
      /\ c.pc = "find_in_dir" /\ c.op # "delete" /\ ~Creating(t)
      /\ UNCHANGED names /\ UNCHANGED <<open_file_table, history, held>>
  BY DEF TypeOK, CallsOK, AllLed, Led, FindEntry, NotFound, At, Creating, handles, Undoing
<1>1. ASSUME FindEntry(t), c.k \in find_in_dir(c.name) PROVE AllLed'
  <2>1. PICK p \in {"data_free", "offset"} :
            call' = [call EXCEPT ![t].inum = dir[c.k].d_inumber, ![t].pc = p]
    BY <1>1 DEF FindEntry
  <2>2. /\ Alone(t) /\ call'[t].pc = p /\ call'[t].op = c.op
        /\ call'[t].inum = dir[c.k].d_inumber
    BY <1>0, <2>1 DEF Alone, CallRecords
  <2>3. dir[c.k].d_inumber \in Files
    BY <1>1, EntriesAreFiles DEF find_in_dir, AllLed
  <2>4. ~Creating(t)' /\ (Files' = Files => Led(t)')
    BY <1>0, <2>2, <2>3
    DEF Creating, Led, Adding, Found, Freeing, Naming, Carrying, Moving, Given
  <2> QED
    BY <1>0, <2>2, <2>4, NamesLed
<1>2. ASSUME NextEntry(t) \/ (Scan(t, "inode_create") /\ Creates(t)) PROVE AllLed'
  <2>1. /\ Alone(t) /\ SameFile(t) /\ call'[t].pc \in {"find_in_dir", "inode_create"}
        /\ call'[t].pc = "inode_create" => Creates(t)
    BY <1>0, <1>2, GoesOn
  <2>2. ~Creating(t)' /\ Led(t)'
    BY <1>0, <2>1
    DEF Creating, Creates, SameFile, Led, Adding, Found, Freeing, Naming, Carrying, Moving,
        Given
  <2> QED
    BY <1>0, <2>1, <2>2, NamesLed
<1>3. ASSUME FindEntry(t), c.k \notin find_in_dir(c.name) PROVE NextEntry(t)
  BY <1>3 DEF FindEntry
<1>4. ASSUME NotFound(t) PROVE (Scan(t, "inode_create") /\ Creates(t)) \/ Return(t)
  BY <1>4 DEF NotFound
<1>5. ASSUME Return(t) PROVE AllLed'
  BY <1>0, <1>5, ReturnLed
<1>6. ASSUME FindEntry(t) PROVE AllLed'
  BY <1>1, <1>2, <1>3, <1>6
<1>7. ASSUME NotFound(t) PROVE AllLed'
  BY <1>2, <1>4, <1>5, <1>7
<1> QED
  BY <1>6, <1>7

\* The steps of tfs_open after the lookup, and those of inode_data_free.
LEMMA FoundLed ==
    ASSUME TypeOK, AllLed, NEW t \in Threads,
           \/ InitialOffset(t) \/ DataFree(t) \/ DataLock(t) \/ FreeBlock(t)
           \/ DataUnlock(t) \/ MetadataReset(t) \/ TakeHandle(t) \/ NoHandle(t)
    PROVE  AllLed'
<1> DEFINE c == call[t]
<1>0. /\ call \in [Threads -> CallRecords] /\ c \in CallRecords /\ Led(t)
      /\ c.pc \in Found /\ ~Creating(t)
      /\ UNCHANGED names /\ UNCHANGED <<open_file_table, history, held>>
  <2>1. c.pc \in Found
    BY DEF InitialOffset, DataFree, DataLock, FreeBlock, DataUnlock, MetadataReset, TakeHandle,
           NoHandle, At, Found, Freeing
  <2>2. UNCHANGED names /\ UNCHANGED <<open_file_table, history, held>>
    BY DEF InitialOffset, DataFree, DataLock, FreeBlock, DataUnlock, MetadataReset, TakeHandle,
           NoHandle, handles
  <2> QED
    BY <2>1, <2>2 DEF TypeOK, CallsOK, AllLed, Found, Freeing, Creating
<1>1. ASSUME Alone(t), SameFile(t), call'[t].pc \in Found,
             c.op = "delete" => call'[t].pc \in Undoing
      PROVE  AllLed'
  <2>1. /\ ~Creating(t)' /\ call'[t].pc \notin Adding \cup {"inode_delete"} \cup Carrying
        /\ call'[t].pc \notin Naming
    BY <1>1 DEF Found, Freeing, Creating, Adding, Naming, Carrying, Moving
  <2>2. Files' = Files => Led(t)'
    BY <1>0, <1>1, <2>1 DEF Led, SameFile, Creates, Given
  <2> QED
    BY <1>0, <1>1, <2>1, <2>2, NamesLed
<1>2. ASSUME Return(t) PROVE AllLed'
  BY <1>0, <1>2, ReturnLed
<1>3. c.op = "delete" => c.pc \in Undoing
  BY <1>0 DEF Led
<1>4. ASSUME InitialOffset(t) PROVE AllLed'
  <2>1. Scan(t, "open_file_table")
        \/ \E size : call' = [call EXCEPT ![t].pc = "open_file_table", ![t].k = 0,
                                          ![t].offset = size]
    BY <1>4 DEF InitialOffset
  <2>2. Alone(t) /\ SameFile(t) /\ call'[t].pc = "open_file_table"
    BY <1>0, <2>1, GoesOn DEF Alone, SameFile, CallRecords
  <2> QED
    BY <1>1, <1>3, <1>4, <2>2 DEF Found, InitialOffset, At, Undoing
<1>5. ASSUME FreeBlock(t) PROVE AllLed'
  <2>1. Go(t, "data_unlock") \/ Return(t) \/ \E k : call' = [call EXCEPT ![t].k = k]
    BY <1>5 DEF FreeBlock
  <2>2. ASSUME NEW k, call' = [call EXCEPT ![t].k = k]
        PROVE  Alone(t) /\ SameFile(t) /\ call'[t].pc = "free_block"
    BY <1>0, <1>5, <2>2 DEF Alone, SameFile, CallRecords, FreeBlock, At
  <2> QED
    BY <1>1, <1>2, <2>1, <2>2, GoesOn DEF Found, Freeing, Undoing
<1>6. ASSUME TakeHandle(t) PROVE AllLed'
  <2>1. NextEntry(t) \/ call' = [call EXCEPT ![t].pc = "of_fields", ![t].h = call[t].k]
    BY <1>6 DEF TakeHandle
  <2>2. Alone(t) /\ SameFile(t) /\ call'[t].pc \in {"open_file_table", "of_fields"}
    BY <1>0, <1>6, <2>1, GoesOn DEF Alone, SameFile, CallRecords, TakeHandle, At
  <2> QED
    BY <1>1, <1>3, <1>6, <2>2 DEF Found, TakeHandle, At, Undoing
<1>7. ASSUME DataFree(t) \/ DataLock(t) PROVE AllLed'
  <2>1. \E p \in {"data_lock", "data_unlock", "free_block"} : Go(t, p) \/ Scan(t, p)
    BY <1>7 DEF DataFree, DataLock
  <2> QED
    BY <1>1, <2>1, GoesOn DEF Found, Freeing, Undoing
<1>8. ASSUME DataUnlock(t) PROVE AllLed'
  <2>1. Return(t) \/ (c.op # "delete" /\ Go(t, "metadata_reset"))
    BY <1>8 DEF DataUnlock
  <2> QED
    BY <1>1, <1>2, <2>1, GoesOn DEF Found, Freeing
<1>9. ASSUME MetadataReset(t) PROVE AllLed'
  BY <1>1, <1>3, <1>9, GoesOn DEF MetadataReset, At, Found, Undoing
<1> QED
  BY <1>2, <1>4, <1>5, <1>6, <1>7, <1>8, <1>9 DEF NoHandle

\* inode_create gives an i-node, which is no file yet, and the search for an entry
\* finds one or gives it back.
LEMMA CreationLed ==
    ASSUME TypeOK, INodesGivenOnce, AllLed, NEW t \in Threads,
           TakeInode(t) \/ InitInode(t) \/ SeekEntry(t) \/ DeleteInode(t)
    PROVE  AllLed'
<1> DEFINE c == call[t]
<1>0. /\ call \in [Threads -> CallRecords] /\ c \in CallRecords /\ Led(t)
      /\ freeinode_ts \in [Inodes -> {FREE, TAKEN}] /\ FREE # TAKEN
      /\ UNCHANGED dir /\ UNCHANGED <<open_file_table, history, held>>
      /\ c.pc \in Adding \cup {"inode_delete"} /\ RootKept
  BY DEF TypeOK, CallsOK, TablesOK, AllLed, TakeInode, InitInode, SeekEntry, DeleteInode, names,
         handles, At, Adding, FREE, TAKEN
<1>1. Creates(t)
  BY <1>0 DEF Led
<1>2. ASSUME TakeInode(t), c.k \in Inodes, inode_is_free(c.k) PROVE AllLed'
  <2>1. /\ freeinode_ts' = [freeinode_ts EXCEPT ![c.k] = TAKEN]
        /\ freeinode_ts[c.k] = FREE
        /\ call' = [call EXCEPT ![t].pc = "inode_init", ![t].inum = c.k]
    BY <1>2 DEF TakeInode, inode_is_free
  <2>2. /\ Alone(t) /\ call'[t].pc = "inode_init" /\ call'[t].inum = c.k
        /\ call'[t].op = c.op /\ call'[t].flags = c.flags
    BY <1>0, <2>1 DEF Alone, CallRecords
  <2>3. ~Creating(t) /\ Creating(t)' /\ c.op # "delete"
    BY <1>0, <1>2, <2>2 DEF TakeInode, At, Creating, Led, Undoing
  <2>4. Files \subseteq Files'
    <3>1. ASSUME NEW i \in Files PROVE i \in Files'
      <4>1. i # c.k /\ i \in Inodes \ {ROOT_DIR_INUM} /\ freeinode_ts'[i] = TAKEN
        BY <1>0, <2>1 DEF Files
      <4>2. \A u \in Threads : ~(Creating(u)' /\ call'[u].inum = i)
        BY <2>2, <4>1 DEF Files, Alone, Creating
      <4> QED
        BY <4>1, <4>2 DEF Files
    <3> QED
      BY <3>1
  <2>5. RootKept'
    BY <1>0, <2>1, <2>2 DEF RootKept, Alone, Creating
  <2>6. Led(t)'
    BY <1>0, <1>1, <2>2, <2>3
    DEF Led, Creates, Adding, Found, Freeing, Naming, Carrying, Moving, Given
  <2> QED
    BY <1>0, <2>2, <2>4, <2>5, <2>6, LedOn
<1>3. ASSUME TakeInode(t), ~(c.k \in Inodes /\ inode_is_free(c.k)) PROVE AllLed'
  <2>1. (Return(t) \/ NextEntry(t)) /\ UNCHANGED names /\ c.pc = "inode_create"
    BY <1>0, <1>3 DEF TakeInode, names, At
  <2>2. ~Creating(t)
    BY <2>1 DEF Creating
  <2>3. ASSUME NextEntry(t) PROVE AllLed'
    <3>1. Alone(t) /\ SameFile(t) /\ call'[t].pc = "inode_create"
      BY <2>1, <2>3, GoesOn
    <3>2. ~Creating(t)' /\ Led(t)'
      BY <1>0, <1>1, <2>1, <3>1
      DEF Creating, Led, SameFile, Creates, Adding, Found, Freeing, Naming, Carrying, Moving,
          Given, Undoing
    <3> QED
      BY <1>0, <2>1, <2>2, <3>1, <3>2, NamesLed
  <2> QED
    BY <1>0, <2>1, <2>2, <2>3, ReturnLed
<1>4. ASSUME InitInode(t) \/ SeekEntry(t) PROVE AllLed'
  <2>1. /\ UNCHANGED names /\ c.pc \in {"inode_init", "add_dir_entry"} /\ c.op # "delete"
        /\ Creating(t)
    BY <1>0, <1>4 DEF InitInode, SeekEntry, At, Creating, Led, Undoing
  <2>2. \/ \E p \in {"add_dir_entry", "d_inumber"} : Go(t, p) \/ Scan(t, p)
        \/ (NextEntry(t) /\ c.pc = "add_dir_entry")
        \/ call' = [call EXCEPT ![t].pc = "inode_delete", ![t].op = "delete"]
    BY <1>4 DEF InitInode, SeekEntry, At
  <2>3. /\ Alone(t) /\ call'[t].inum = c.inum /\ call'[t].flags = c.flags
        /\ \/ call'[t].pc \in {"add_dir_entry", "d_inumber"} /\ call'[t].op = c.op
           \/ call'[t].pc = "inode_delete" /\ call'[t].op = "delete"
    BY <1>0, <2>2, GoesOn DEF Alone, SameFile, CallRecords
  <2>4. Creating(t)' /\ Led(t)'
    BY <1>0, <1>1, <2>1, <2>3
    DEF Creating, Led, Creates, Adding, Found, Freeing, Naming, Carrying, Moving, Given, Undoing
  <2> QED
    BY <1>0, <2>1, <2>3, <2>4, NamesLed
<1>5. ASSUME DeleteInode(t) PROVE AllLed'
  <2>1. /\ c.inum \in Inodes /\ freeinode_ts[c.inum] = TAKEN /\ c.op = "delete"
        /\ Creating(t) /\ c.inum # ROOT_DIR_INUM
    <3>1. c.pc = "inode_delete"
      BY <1>5 DEF DeleteInode, At
    <3> QED
      BY <1>0, <3>1, GoodCall DEF Good, LocalsSet, Opening, INodesGivenOnce, Creating, Led, RootKept
  <2>2. freeinode_ts' = [freeinode_ts EXCEPT ![c.inum] = FREE] /\ Go(t, "data_free")
    BY <1>0, <1>5, <2>1 DEF DeleteInode
  <2>3. Alone(t) /\ SameFile(t) /\ call'[t].pc = "data_free"
    BY <2>2, GoesOn
  <2>4. Files \subseteq Files'
    <3>1. ASSUME NEW i \in Files PROVE i \in Files'
      <4>1. i # c.inum /\ i \in Inodes \ {ROOT_DIR_INUM} /\ freeinode_ts'[i] = TAKEN
        BY <1>0, <2>1, <2>2 DEF Files
      <4>2. \A u \in Threads : ~(Creating(u)' /\ call'[u].inum = i)
        BY <2>3, <4>1 DEF Files, Alone, Creating
      <4> QED
        BY <4>1, <4>2 DEF Files
    <3> QED
      BY <3>1
  <2>5. RootKept'
    BY <1>0, <2>1, <2>2, <2>3 DEF RootKept, Alone, Creating
  <2>6. Led(t)'
    BY <1>0, <1>1, <2>1, <2>3
    DEF Led, SameFile, Creates, Adding, Found, Freeing, Naming, Carrying, Moving, Given, Undoing
  <2> QED
    BY <1>0, <2>3, <2>4, <2>5, <2>6, LedOn
<1> QED
  BY <1>2, <1>3, <1>4, <1>5

\* add_dir_entry: the i-node becomes a file when its entry gets the number, also
\* in an entry that another creation has filled meanwhile.
LEMMA EntryLed ==
    ASSUME TypeOK, INodesGivenOnce, AllLed, NEW t \in Threads,
           SetInumber(t) \/ BeginName(t) \/ EndName(t)
    PROVE  AllLed'
<1> DEFINE c == call[t]
<1>0. /\ call \in [Threads -> CallRecords] /\ c \in CallRecords /\ Led(t) /\ RootKept
      /\ dir \in [Slots -> [d_inumber : Inodes \cup {-1}, d_name : StoredNames]]
      /\ UNCHANGED freeinode_ts /\ UNCHANGED <<open_file_table, history, held>>
      /\ c.pc \in {"d_inumber", "d_name", "d_name_end"}
      /\ c.k \in Slots /\ c.inum \in Inodes
  <2>1. c.pc \in {"d_inumber", "d_name", "d_name_end"}
    BY DEF SetInumber, BeginName, EndName, At
  <2>2. c.k \in Slots /\ c.inum \in Inodes
    BY <2>1, GoodCall DEF Good, LocalsSet, Opening
  <2> QED
    BY <2>1, <2>2 DEF TypeOK, CallsOK, TablesOK, AllLed, SetInumber, BeginName, EndName, handles
<1>1. Creates(t) /\ c.op # "delete"
  BY <1>0 DEF Led, Adding, Undoing
<1>2. \/ \E p \in {"d_name", "d_name_end"} : Go(t, p)
      \/ Scan(t, "open_file_table")
  BY DEF SetInumber, BeginName, EndName
<1>3. Alone(t) /\ SameFile(t) /\ call'[t].pc \in {"d_name", "d_name_end", "open_file_table"}
  BY <1>2, GoesOn
<1>4. \A u \in Threads : Creating(u)' => Creating(u) /\ call'[u].inum = call[u].inum /\ u # t
  BY <1>3 DEF Alone, Creating
<1>5. Files \subseteq Files'
  BY <1>0, <1>4 DEF Files
<1>6. c.inum \in Files'
  <2>1. ASSUME SetInumber(t) PROVE c.inum \in Files'
    <3>1. Creating(t)
      BY <2>1 DEF SetInumber, At, Creating
    <3>2. /\ freeinode_ts[c.inum] = TAKEN /\ c.inum # ROOT_DIR_INUM
          /\ \A u \in Threads \ {t} : Creating(u) => call[u].inum # c.inum
      BY <1>0, <3>1 DEF INodesGivenOnce, RootKept
    <3> QED
      BY <1>0, <1>4, <3>2 DEF Files
  <2>2. ASSUME ~SetInumber(t) PROVE c.inum \in Files'
    <3>1. c.pc \in Naming
      BY <2>2 DEF BeginName, EndName, At, Naming
    <3> QED
      BY <1>0, <1>1, <1>5, <3>1 DEF Led
  <2> QED
    BY <2>1, <2>2
<1>7. RootKept'
  <2>1. ASSUME SetInumber(t) PROVE \A e \in Slots : dir'[e].d_inumber \in {dir[e].d_inumber, c.inum}
    BY <1>0, <2>1 DEF SetInumber
  <2>2. ASSUME ~SetInumber(t) PROVE \A e \in Slots : dir'[e].d_inumber = dir[e].d_inumber
    <3>1. \E k, name : dir' = [dir EXCEPT ![k].d_name = name]
      BY <2>2 DEF BeginName, EndName
    <3> QED
      BY <1>0, <3>1
  <2>3. c.inum # ROOT_DIR_INUM
    BY <1>6 DEF Files
  <2> QED
    BY <1>0, <1>4, <2>1, <2>2, <2>3 DEF RootKept
<1>8. Led(t)'
  BY <1>0, <1>1, <1>3, <1>6
  DEF Led, SameFile, Creates, Adding, Found, Freeing, Naming, Carrying, Moving, Given
<1> QED
  BY <1>0, <1>3, <1>5, <1>7, <1>8, LedOn

\* add_to_open_file_table fills a handle with a file.
LEMMA FillHandleLed ==
    ASSUME TypeOK, AllLed, NEW t \in Threads, FillHandle(t)
    PROVE  AllLed'
<1> DEFINE c == call[t]
<1>0. /\ call \in [Threads -> CallRecords] /\ c \in CallRecords /\ Led(t) /\ RootKept
      /\ c.pc = "of_fields" /\ c.op # "delete" /\ c.h \in Handles /\ c.name \in Names
      /\ c.name # Blank /\ UNCHANGED <<freeinode_ts, dir>> /\ held \in [Threads -> SUBSET Handles]
      /\ open_file_table' = [open_file_table EXCEPT ![c.h] =
             [of_inumber |-> c.inum, of_offset |-> c.offset % BLOCK_SIZE,
              of_boffset |-> c.offset \div BLOCK_SIZE]]
      /\ history' = [history EXCEPT ![c.h] = [name |-> c.name, moved |-> c.offset]]
  <2>1. c.pc = "of_fields" /\ c.h \in Handles /\ c.name \in Names
    BY GoodCall DEF FillHandle, At, Good, LocalsSet, Opening
  <2>2. Led(t) /\ RootKept
    BY DEF AllLed
  <2>3. c.op # "delete" /\ c.name # Blank
    BY <2>1, <2>2, CallersAssumption DEF Led, Undoing
  <2> QED
    BY <2>1, <2>2, <2>3 DEF TypeOK, CallsOK, HandlesOK, FillHandle, names
<1>1. /\ Alone(t) /\ call'[t].pc \in {"idle", "copy_size"} /\ call'[t].op # "delete"
      /\ call'[t].pc = "copy_size" => call'[t].h = c.h
  <2>1. Return(t) \/ Go(t, "copy_size")
    BY DEF FillHandle
  <2> QED
    BY <1>0, <2>1, GoesOn DEF NoCall, SameFile
<1>2. ~Creating(t) /\ ~Creating(t)'
  BY <1>0, <1>1 DEF Creating
<1>3. Files' = Files
  BY <1>0, <1>1, <1>2, SameFiles
<1>4. c.inum \in Files
  BY <1>0 DEF Led, Found
<1>5. /\ c.h \in Given' /\ open_file_table'[c.h].of_inumber = c.inum
      /\ \A h \in Handles \ {c.h} : /\ h \in Given' <=> h \in Given
                                    /\ open_file_table'[h] = open_file_table[h]
  BY <1>0 DEF Given, TypeOK, HandlesOK
<1>6. Given \subseteq Given'
  BY <1>5 DEF Given
<1>7. RootKept'
  BY <1>0, <1>1, <1>2 DEF RootKept, Alone, Creating
<1>8. \A h \in Given' : open_file_table'[h].of_inumber \in Files'
  BY <1>3, <1>4, <1>5 DEF AllLed, Given
<1>9. Led(t)'
  <2>1. held'[t] \subseteq held[t] \cup {c.h}
    BY <1>0 DEF FillHandle
  <2> QED
    BY <1>0, <1>1, <1>5, <1>6, <2>1
    DEF Led, Adding, Found, Freeing, Naming, Carrying, Moving
<1>10. ASSUME NEW u \in Threads \ {t} PROVE Led(u)'
  <2>1. Led(u) /\ call'[u] = call[u] /\ held'[u] = held[u]
    BY <1>0, <1>1 DEF AllLed, Alone, FillHandle
  <2> QED
    BY <1>3, <1>6, <2>1 DEF Led, Creates
<1> QED
  BY <1>7, <1>8, <1>9, <1>10 DEF AllLed

\* A step within the other calls keeps the call and its handle, until it returns.
LEMMA DataStepStays ==
    ASSUME TypeOK, NEW t \in Threads, DataStep(t)
    PROVE  \/ UNCHANGED call \/ call'[t] = NoCall
           \/ call'[t].op = call[t].op /\ call'[t].h = call[t].h
<1> DEFINE c == call[t]
           Stay == call'[t].op = c.op /\ call'[t].h = c.h
<1>0. call \in [Threads -> CallRecords] /\ c \in CallRecords
  BY DEF TypeOK, CallsOK
<1>1. ASSUME Return(t) PROVE call'[t] = NoCall
  BY <1>1, GoesOn
<1>2. ASSUME NEW p, Go(t, p) PROVE Stay
  BY <1>2, GoesOn DEF SameFile
<1>3. ASSUME NEW aux, Chunk(t, aux) PROVE Stay
  <2>1. PICK q : call' = [call EXCEPT ![t].aux = aux, ![t].pc = q]
    BY <1>3 DEF Chunk
  <2> QED
    BY <1>0, <2>1 DEF CallRecords
<1>4. ASSUME WriteChunk(t) \/ WriteRest(t) \/ ReadChunk(t) PROVE call'[t] = NoCall \/ Stay
  <2>1. Return(t) \/ (\E p : Go(t, p)) \/ \E aux : Chunk(t, aux)
    BY <1>4, Zenon DEF WriteChunk, WriteRest, ReadChunk
  <2> QED
    BY <1>1, <1>2, <1>3, <2>1, Zenon
<1>5. ASSUME ReadAmount(t) \/ ILock(t) \/ Grow(t) \/ CopySize(t) \/ CopyRead(t) PROVE Stay
  BY <1>0, <1>5 DEF ReadAmount, ILock, Grow, CopySize, CopyRead, CallRecords
<1>6. ASSUME \/ OfLock(t) \/ IUnlock(t) \/ CopyIn(t) \/ CopyOut(t) \/ WriteExternal(t)
             \/ CloseTest(t) \/ Close(t) \/ AllocWild(t)
      PROVE  UNCHANGED call \/ call'[t] = NoCall \/ Stay
  <2>1. UNCHANGED call \/ Return(t) \/ \E p : Go(t, p)
    BY <1>6, Zenon
    DEF OfLock, IUnlock, CopyIn, CopyOut, WriteExternal, CloseTest, Close, AllocWild, Crash
  <2> QED
    BY <1>1, <1>2, <2>1, Zenon
<1>7. ASSUME Alloc(t) PROVE Stay
  <2>1. \/ \E k, b : call' = [call EXCEPT ![t].k = k, ![t].b = b]
        \/ \E b : call' = [call EXCEPT ![t].b = b]
    BY <1>7 DEF Alloc
  <2>2. ASSUME NEW k, NEW b, call' = [call EXCEPT ![t].k = k, ![t].b = b] PROVE Stay
    BY <1>0, <2>2 DEF CallRecords
  <2>3. ASSUME NEW b, call' = [call EXCEPT ![t].b = b] PROVE Stay
    BY <1>0, <2>3 DEF CallRecords
  <2> QED
    BY <2>1, <2>2, <2>3
<1>8. ASSUME Position(t) PROVE UNCHANGED call \/ call'[t] = NoCall \/ Stay
  <2>1. UNCHANGED call \/ Return(t)
        \/ \E pos : call' = [call EXCEPT ![t].pc = "memcpy", ![t].pos = pos]
    BY <1>8 DEF Position, Crash
  <2>2. ASSUME NEW pos, call' = [call EXCEPT ![t].pc = "memcpy", ![t].pos = pos] PROVE Stay
    BY <1>0, <2>2 DEF CallRecords
  <2> QED
    BY <1>1, <2>1, <2>2, Zenon
<1>9. ASSUME Advance(t) PROVE Stay
  <2>1. Go(t, "i_size")
        \/ \E n : call' = [call EXCEPT ![t].pc = "read_chunk", ![t].left = n]
    BY <1>9 DEF Advance
  <2>2. ASSUME NEW n, call' = [call EXCEPT ![t].pc = "read_chunk", ![t].left = n] PROVE Stay
    BY <1>0, <2>2 DEF CallRecords
  <2> QED
    BY <1>2, <2>1, <2>2
<1> QED
  BY <1>4, <1>5, <1>6, <1>7, <1>8, <1>9 DEF DataStep

\* The steps of the other calls leave the handles to their files.
LEMMA DataStepLed ==
    ASSUME TypeOK, AllLed, NEW t \in Threads, DataStep(t)
    PROVE  AllLed'
<1> DEFINE c == call[t]
<1>0. /\ Led(t) /\ c.pc \in Carrying \cup {"close", "closing"} /\ c.op # "delete"
      /\ ~Creating(t)
  <2>1. c.pc \in Carrying \cup {"close", "closing"}
    BY Zenon DEF DataStep, WriteChunk, WriteRest, ReadAmount, ReadChunk, OfLock, ILock, Alloc,
           AllocWild, IUnlock, Position, CopyIn, CopyOut, Advance, Grow, CopySize, CopyRead,
           WriteExternal, CloseTest, Close, At, Carrying, Moving
  <2> QED
    BY <2>1 DEF AllLed, Led, Undoing, Carrying, Moving, Creating
<1>1. (Outside(t) \/ UNCHANGED call) /\ UNCHANGED <<freeinode_ts, dir>>
  BY ReadsAndWritesOutside, UpdatesOutside, CopiesOutside DEF DataStep, names
<1>2. /\ UNCHANGED held
      /\ \A h \in Handles : /\ history'[h].name = history[h].name
                            /\ open_file_table'[h].of_inumber = open_file_table[h].of_inumber
  <2>1. ASSUME Advance(t)
        PROVE  /\ UNCHANGED held
               /\ \A h \in Handles : /\ history'[h].name = history[h].name
                                     /\ open_file_table'[h].of_inumber = open_file_table[h].of_inumber
    BY <2>1 DEF Advance, TypeOK, HandlesOK
  <2>2. ASSUME ~Advance(t) PROVE UNCHANGED <<open_file_table, history, held>>
    <3>1. ASSUME ~Close(t) PROVE UNCHANGED handles
      BY <2>2, <3>1, Zenon
      DEF DataStep, WriteChunk, WriteRest, ReadAmount, ReadChunk, OfLock, ILock, Alloc,
          AllocWild, IUnlock, Position, CopyIn, CopyOut, Grow, CopySize, CopyRead,
          WriteExternal, CloseTest, Crash
    <3> QED
      BY <3>1 DEF Close, handles
  <2> QED
    BY <2>1, <2>2
<1>3. /\ Alone(t) /\ ~(Creating(t)')
      /\ call'[t].pc \in Carrying => c.pc \in Carrying
  <2>1. ASSUME CloseTest(t) \/ Close(t) PROVE call'[t].pc \notin Carrying
    <3>1. Go(t, "closing") \/ Return(t)
      BY <2>1, Zenon DEF CloseTest, Close
    <3> QED
      BY <3>1, GoesOn DEF NoCall, Carrying, Moving
  <2>2. ASSUME ~(CloseTest(t) \/ Close(t)) PROVE c.pc \in Carrying
    BY <2>2, Zenon DEF DataStep, WriteChunk, WriteRest, ReadAmount, ReadChunk, OfLock, ILock, Alloc,
                AllocWild, IUnlock, Position, CopyIn, CopyOut, Advance, Grow, CopySize, CopyRead,
                WriteExternal, At, Carrying, Moving
  <2>3. Alone(t) /\ ~(Creating(t)')
    BY <1>0, <1>1 DEF Outside, Alone, Creating, Opening
  <2> QED
    BY <2>1, <2>2, <2>3
<1>4. Files' = Files
  BY <1>0, <1>1, <1>3, SameFiles
<1>5. RootKept'
  BY <1>0, <1>1, <1>3 DEF AllLed, RootKept, Alone, Creating
<1>6. Led(t)'
  <2>1. Given' = Given
    BY <1>2 DEF Given
  <2>2. call'[t].op # "delete"
    BY <1>0, DataStepStays DEF NoCall
  <2>3. call'[t].pc \in Carrying => call'[t].h = c.h
    BY DataStepStays DEF NoCall, Carrying, Moving
  <2>4. call'[t].pc \notin Adding \cup {"inode_delete"} \cup Found \cup Naming
    BY <1>0, <1>1 DEF Outside, Opening, Adding, Found, Freeing, Naming, Carrying, Moving
  <2> QED
    BY <1>0, <1>2, <1>3, <2>1, <2>2, <2>3, <2>4 DEF Led
<1> QED
  BY <1>2, <1>3, <1>4, <1>5, <1>6, LedOn

\* Every step keeps AllLed.
LEMMA NextLed == TypeOK /\ INodesGivenOnce /\ AllLed /\ [Next]_vars => AllLed'
<1> SUFFICES ASSUME TypeOK, INodesGivenOnce, AllLed, [Next]_vars PROVE AllLed'
  OBVIOUS
<1>1. ASSUME NEW t \in Threads, OpenStep(t) PROVE AllLed'
  BY <1>1, LookupLed, FoundLed, CreationLed, EntryLed, FillHandleLed DEF OpenStep
<1>2. CASE Next
  BY <1>1, <1>2, DataStepLed, CallsLed DEF Next, Step
<1>3. CASE UNCHANGED vars
  BY <1>3 DEF AllLed, RootKept, Led, Files, Given, Creating, Creates, vars, names, handles
<1> QED
  BY <1>2, <1>3

\* At first no thread has anything.
LEMMA InitLed == Init => AllLed
<1> SUFFICES ASSUME Init PROVE AllLed
  OBVIOUS
<1>1. RootKept
  BY SizesAssumption DEF Init, RootKept, NoCall, Creating, Inodes, ROOT_DIR_INUM
<1>2. Given = {}
  BY DEF Init, Given
<1>3. \A t \in Threads : Led(t)
  BY <1>2 DEF Init, NoCall, Led, Adding, Found, Freeing, Naming, Carrying, Moving
<1> QED
  BY <1>1, <1>2, <1>3 DEF AllLed

\* A handle that a caller holds leads to a file, whatever threads create at the
\* same time and under whatever names: though tfs_lookup, add_dir_entry and
\* inode_delete take no lock, and an entry can be written over by another creation
\* between the lookup and add_to_open_file_table.
THEOREM HandlesLeadToFilesCorrect == Spec => []HandlesLeadToFiles
<1>1. AllLed => HandlesLeadToFiles
  BY DEF AllLed, Led, HandlesLeadToFiles
<1> QED
  BY <1>1, InitLed, NextLed, INodesGivenOnceCorrect, TypeCorrect, PTL DEF Spec

=============================================================================
