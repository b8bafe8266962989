------------------------------- MODULE P1FS -------------------------------
(***************************************************************************)
(* The first version of the library, P1/fs (operations.c and state.c),      *)
(* which many threads call at once under fine-grained locks.               *)
(*                                                                         *)
(* A thread inside a call is at call[t].pc, with the locals of the code in  *)
(* the other fields of call[t].  A step is what runs between two points    *)
(* where other threads can interfere: one critical section, or one access  *)
(* to shared memory that no lock guards.  it_mutex, db_mutex and vs_mutex  *)
(* guard one test-and-set each, which is one step; the rwlock of an i-node  *)
(* and the mutex of a handle are held over several, and are variables.     *)
(*                                                                         *)
(* fs_data is flat, as in the code, and a pointer into it is an index: a    *)
(* copy that runs past a block reaches the next one.  An int fills one cell *)
(* (INDEX_SIZE = 1).  Block 0, the root directory, is kept apart as dir.   *)
(***************************************************************************)
EXTENDS Integers, FiniteSets, FiniteSetsExt

CONSTANTS
    INODE_TABLE_SIZE, DATA_BLOCKS, BLOCK_SIZE, MAX_OPEN_FILES,  \* config.h
    DIRECT_BLOCK_POINTERS, MAX_BLOCK_POINTERS,                  \* config.h
    MAX_DIR_ENTRIES,  \* dir_entry_t records in one block
    SIZE_T,           \* the modulus of size_t arithmetic
    Threads, NoThread,
    Names,            \* of files, valid and short enough to be stored whole
    Blank, Garbled,   \* d_names that equal no name: unwritten, two names mixed
    Partial,          \* Partial[n]: what strncpy may show of n before its end
    OpenFlags, Lens,  \* the flags and the lengths that callers pass
    BYTE,             \* what callers write; no block has this number
    Rules,            \* what callers keep to, see Allowed
    MAX_CALLS         \* bound of the model: the calls of each thread

FREE == 0
TAKEN == 1
EMPTY == -1
ROOT_DIR_INUM == 0
NULL == -BLOCK_SIZE     \* as an index of fs_data; NULL + of_offset stays negative

Inodes == 0 .. INODE_TABLE_SIZE - 1
Blocks == 0 .. DATA_BLOCKS - 1
Handles == 0 .. MAX_OPEN_FILES - 1
Slots == 0 .. MAX_DIR_ENTRIES - 1
Addresses == BLOCK_SIZE .. DATA_BLOCKS * BLOCK_SIZE - 1
Direct == 0 .. DIRECT_BLOCK_POINTERS - 1
MAX_FILE_SIZE == (DIRECT_BLOCK_POINTERS + MAX_BLOCK_POINTERS) * BLOCK_SIZE
StoredNames == Names \cup {Blank, Garbled} \cup UNION {Partial[n] : n \in Names}

ASSUME SizesAssumption ==
    /\ INODE_TABLE_SIZE \in Nat \ {0} /\ DATA_BLOCKS \in Nat \ {0}
    /\ BLOCK_SIZE \in Nat \ {0} /\ MAX_OPEN_FILES \in Nat \ {0}
    /\ MAX_DIR_ENTRIES \in Nat \ {0}
    /\ DIRECT_BLOCK_POINTERS \in Nat \ {0}
    /\ MAX_BLOCK_POINTERS \in 1 .. BLOCK_SIZE
    /\ SIZE_T \in Nat /\ SIZE_T >= BLOCK_SIZE /\ Lens \subseteq Nat
    /\ BYTE \in Int /\ BYTE \notin Blocks \cup {EMPTY}

ASSUME CallersAssumption ==
    /\ NoThread \notin Threads /\ MAX_CALLS \in [Threads -> Nat]
    /\ Blank \notin Names /\ Garbled \notin Names
    /\ DOMAIN Partial = Names
    /\ OpenFlags \subseteq SUBSET {"TFS_O_CREAT", "TFS_O_TRUNC", "TFS_O_APPEND"}

VARIABLES
    freeinode_ts,            \* FREE or TAKEN, of every i-node
    inode_table,             \* sizes and block pointers
    dir,                     \* the entries of the root directory
    free_blocks,             \* FREE or TAKEN, of every data block
    fs_data,                 \* the cells of every block but the root's
    free_open_file_entries,  \* FREE or TAKEN, of every handle
    open_file_table,         \* i-node, offset in a block and block of a handle
    i_lock,                  \* of every i-node: its writer, number of readers
    of_mutex,                \* of every handle: the thread that holds it
    call,                    \* what each thread is doing
    calls,                   \* how many calls each thread has made
    held,                    \* history: handles tfs_open gave a thread, to close
    history,                 \* history: the name a handle was opened under, and
                             \* the place in the file that it has come to
    faulted                  \* a pointer led out of the memory of files

names == <<freeinode_ts, dir>>
data == <<inode_table, free_blocks, fs_data>>
handles == <<free_open_file_entries, open_file_table, held, history>>
locks == <<i_lock, of_mutex>>
vars == <<names, data, handles, locks, call, calls, faulted>>

-----------------------------------------------------------------------------
(* The control of a thread.                                                *)

NoCall == [pc |-> "idle", op |-> "none", name |-> Blank, flags |-> {},
           h |-> -1, inum |-> -1, k |-> 0, b |-> 0, offset |-> 0, len |-> 0,
           total |-> 0, left |-> 0, aux |-> 0, pos |-> 0]

At(t, pc) == call[t].pc = pc
Go(t, pc) == call' = [call EXCEPT ![t].pc = pc]
\* Goes on to the scan of a table from its first entry.
Scan(t, pc) == call' = [call EXCEPT ![t].pc = pc, ![t].k = 0]
NextEntry(t) == call' = [call EXCEPT ![t].k = @ + 1]
Return(t) == call' = [call EXCEPT ![t] = NoCall]

\* rwlocks as glibc has them: whoever does not hold the lock for writing takes
\* one from the readers when it unlocks, and a negative number of readers
\* keeps writers out for ever; below -1, pthread_rwlock_rdlock fails with EAGAIN.
Unlocked == [writer |-> NoThread, readers |-> 0]
CanRead(i) == i_lock[i].writer = NoThread
CanWrite(i) == CanRead(i) /\ i_lock[i].readers = 0
\* Mutant of RdlockAndUnlock: the read lock is not released.
rdlock_only(i) == i_lock' = [i_lock EXCEPT ![i].readers = @ + 1]
RdlockAndUnlock(i) ==
    i_lock' = [i_lock EXCEPT ![i].readers = IF @ < -1 THEN @ - 1 ELSE @]
Unlock(i, t) ==
    i_lock' = IF i_lock[i].writer = t
              THEN [i_lock EXCEPT ![i].writer = NoThread]
              ELSE [i_lock EXCEPT ![i].readers = @ - 1]
CanLock(h) == of_mutex[h] = NoThread

-----------------------------------------------------------------------------
(* Block pointers.  They are numbered as inode_update visits them: the      *)
(* direct ones, i_data_block, then the cells of the block that it names.   *)

IndexPointer == DIRECT_BLOCK_POINTERS
Pointers == 0 .. DIRECT_BLOCK_POINTERS + MAX_BLOCK_POINTERS

Cell(inode, p) == inode.i_data_block * BLOCK_SIZE + (p - IndexPointer - 1)

PointerAt(inode, p) ==
    CASE p \in Direct -> inode.i_direct_blocks[p]
      [] p = IndexPointer -> inode.i_data_block
      [] p > IndexPointer -> fs_data[Cell(inode, p)]

\* The pointer to block n of a file.
pointer_of_block(n) == IF n \in Direct THEN n ELSE n + 1

\* A pointer behind i_data_block when that is not a block, or behind the last
\* block: reading it leaves the memory of files.
Wild(inode, p) == p > IndexPointer /\ Cell(inode, p) \notin Addresses

\* The order in which inode_data_free frees them: i_data_block is the last.
FreeOrder(k) ==
    CASE k \in Direct -> k
      [] k \in IndexPointer .. DIRECT_BLOCK_POINTERS + MAX_BLOCK_POINTERS - 1 -> k + 1
      [] k = DIRECT_BLOCK_POINTERS + MAX_BLOCK_POINTERS -> IndexPointer

\* The pointers of i-node i that its inode_data_free has still to free, by
\* their places in that order.
ToFree(i, from) ==
    {k \in from .. DIRECT_BLOCK_POINTERS + MAX_BLOCK_POINTERS :
        LET p == FreeOrder(k)
        IN  /\ p > IndexPointer => inode_table[i].i_data_block # EMPTY
            /\ PointerAt(inode_table[i], p) # EMPTY}

-----------------------------------------------------------------------------
NoPointers == [p \in Direct |-> EMPTY]
NewFile == [i_size |-> 0, i_data_block |-> EMPTY, i_direct_blocks |-> NoPointers]

\* tfs_init: static storage is zero, inode_create(T_DIRECTORY) has run.
Init ==
    /\ freeinode_ts = [i \in Inodes |-> IF i = ROOT_DIR_INUM THEN TAKEN ELSE FREE]
    /\ inode_table = [i \in Inodes |->
           IF i = ROOT_DIR_INUM
           THEN [NewFile EXCEPT !.i_size = BLOCK_SIZE, !.i_data_block = 0]
           ELSE [NewFile EXCEPT !.i_data_block = 0,
                                !.i_direct_blocks = [p \in Direct |-> 0]]]
    /\ dir = [e \in Slots |-> [d_inumber |-> -1, d_name |-> Blank]]
    /\ free_blocks = [b \in Blocks |-> IF b = 0 THEN TAKEN ELSE FREE]
    /\ fs_data = [a \in Addresses |-> 0]
    /\ free_open_file_entries = [h \in Handles |-> FREE]
    /\ open_file_table =
           [h \in Handles |-> [of_inumber |-> 0, of_offset |-> 0, of_boffset |-> 0]]
    /\ i_lock = [i \in Inodes |-> Unlocked]
    /\ of_mutex = [h \in Handles |-> NoThread]
    /\ call = [t \in Threads |-> NoCall]
    /\ calls = [t \in Threads |-> 0]
    /\ held = [t \in Threads |-> {}]
    /\ history = [h \in Handles |-> [name |-> Blank, moved |-> 0]]
    /\ faulted = FALSE

-----------------------------------------------------------------------------
(* Callers.  A thread passes handles it was given, and the rules it may     *)
(* keep to are those that the tests keep to (own_handles) or that the code  *)
(* turns out to need.                                                      *)

Creates(t) == "TFS_O_CREAT" \in call[t].flags
Truncates(t) == "TFS_O_TRUNC" \in call[t].flags
find_in_dir(name) == {e \in Slots : dir[e].d_inumber # -1 /\ dir[e].d_name = name}

\* The files of a name, and those that the call of thread t is at work on or may
\* still find.
FilesOf(name) == {dir[e].d_inumber : e \in find_in_dir(name)}
WorksOn(t) == IF At(t, "find_in_dir") THEN FilesOf(call[t].name) ELSE {call[t].inum}

\* A call on these files: a truncation overlaps with no creation and with no other
\* call on its file (truncate_alone), and finds no empty file (truncate_nonempty).
Allowed(t, files, flags) ==
    /\ "truncate_alone" \in Rules => \A u \in Threads \ {t} :
          /\ "TFS_O_TRUNC" \in flags => ~Creates(u) /\ WorksOn(u) \cap files = {}
          /\ Truncates(u) => "TFS_O_CREAT" \notin flags /\ WorksOn(u) \cap files = {}
    /\ "truncate_nonempty" \in Rules /\ "TFS_O_TRUNC" \in flags
          => \A i \in files : inode_table[i].i_size > 0

Given == {h \in Handles : history[h].name # Blank}
Usable(t) == IF "own_handles" \in Rules THEN held[t] ELSE Given

\* Thread t enters an operation.
Enter(t, new) ==
    /\ At(t, "idle") /\ calls[t] < MAX_CALLS[t]
    /\ calls' = [calls EXCEPT ![t] = @ + 1]
    /\ call' = [call EXCEPT ![t] = new]
    /\ UNCHANGED <<names, data, free_open_file_entries, open_file_table,
                   history, locks, faulted>>

tfs_open(t, name, flags) ==
    /\ Allowed(t, FilesOf(name), flags)
    /\ Enter(t, [NoCall EXCEPT !.pc = "find_in_dir", !.op = "open",
                               !.name = name, !.flags = flags])
    /\ UNCHANGED held

tfs_copy_to_external_fs(t, name) ==
    /\ Allowed(t, FilesOf(name), {})
    /\ Enter(t, [NoCall EXCEPT !.pc = "find_in_dir", !.op = "copy", !.name = name])
    /\ UNCHANGED held

\* tfs_read and tfs_write find the i-node of the handle when they enter.
tfs_write(t, h, len) ==
    /\ Allowed(t, {open_file_table[h].of_inumber}, {})
    /\ "below_maximum" \in Rules => history[h].moved + len <= MAX_FILE_SIZE
    /\ Enter(t, [NoCall EXCEPT !.pc = "to_write", !.op = "write", !.h = h,
                               !.name = history[h].name, !.left = len,
                               !.inum = open_file_table[h].of_inumber])
    /\ UNCHANGED held

tfs_read(t, h, len) ==
    /\ Allowed(t, {open_file_table[h].of_inumber}, {})
    /\ Enter(t, [NoCall EXCEPT !.pc = "to_read", !.op = "read", !.h = h,
                               !.name = history[h].name, !.len = len,
                               !.inum = open_file_table[h].of_inumber])
    /\ UNCHANGED held

tfs_close(t, h) ==
    /\ Enter(t, [NoCall EXCEPT !.pc = "close", !.op = "close", !.h = h])
    /\ held' = [u \in Threads |-> held[u] \ {h}]

-----------------------------------------------------------------------------
(* tfs_open: tfs_lookup, which reads one entry after the other unlocked.    *)

FindEntry(t) ==
    LET c == call[t]
    IN  /\ At(t, "find_in_dir") /\ c.k \in Slots
        /\ IF c.k \in find_in_dir(c.name)
           THEN call' = [call EXCEPT ![t].inum = dir[c.k].d_inumber,
                                     ![t].pc = IF Truncates(t) THEN "data_free"
                                                               ELSE "offset"]
           ELSE NextEntry(t)
        /\ UNCHANGED <<names, data, handles, locks, calls, faulted>>

NotFound(t) ==
    /\ At(t, "find_in_dir") /\ call[t].k \notin Slots
    /\ IF Creates(t) THEN Scan(t, "inode_create") ELSE Return(t)
    /\ UNCHANGED <<names, data, handles, locks, calls, faulted>>

\* i_size is read under the rwlock for TFS_O_APPEND only.
InitialOffset(t) ==
    LET i == call[t].inum
    IN  /\ At(t, "offset")
        /\ IF "TFS_O_APPEND" \in call[t].flags
           THEN /\ CanRead(i)
                /\ RdlockAndUnlock(i)
                /\ call' = [call EXCEPT ![t].pc = "open_file_table", ![t].k = 0,
                                        ![t].offset = inode_table[i].i_size]
           ELSE /\ Scan(t, "open_file_table")
                /\ UNCHANGED i_lock
        /\ UNCHANGED <<names, data, handles, of_mutex, calls, faulted>>

-----------------------------------------------------------------------------
(* inode_data_free, for a truncation and for inode_delete.                  *)

\* Mutant of tests_size: a file of one block counts as empty.
tests_second_block(i) == inode_table[i].i_size > BLOCK_SIZE
tests_size(i) == inode_table[i].i_size > 0

\* i_size is read unlocked; an empty file goes straight to the unlock.
DataFree(t) ==
    /\ At(t, "data_free")
    /\ Go(t, IF tests_size(call[t].inum) THEN "data_lock" ELSE "data_unlock")
    /\ UNCHANGED <<names, data, handles, locks, calls, faulted>>

DataLock(t) ==
    /\ At(t, "data_lock") /\ CanWrite(call[t].inum)
    /\ i_lock' = [i_lock EXCEPT ![call[t].inum].writer = t]
    /\ Scan(t, "free_block")
    /\ UNCHANGED <<names, data, handles, of_mutex, calls, faulted>>

\* One data_block_free, until all pointers are done or one is not a block.
FreeBlock(t) ==
    LET i == call[t].inum
        todo == ToFree(i, call[t].k)
        k == Min(todo)
        b == PointerAt(inode_table[i], FreeOrder(k))
    IN  /\ At(t, "free_block")
        /\ IF todo = {}
           THEN Go(t, "data_unlock") /\ UNCHANGED <<free_blocks, i_lock>>
           ELSE IF b \in Blocks
           THEN /\ free_blocks' = [free_blocks EXCEPT ![b] = FREE]
                /\ call' = [call EXCEPT ![t].k = k + 1]
                /\ UNCHANGED i_lock
           ELSE Unlock(i, t) /\ Return(t) /\ UNCHANGED free_blocks
        /\ UNCHANGED <<names, inode_table, fs_data, handles, of_mutex, calls, faulted>>

\* The unlock, after the blocks were freed or without having locked.
DataUnlock(t) ==
    /\ At(t, "data_unlock")
    /\ Unlock(call[t].inum, t)
    /\ IF call[t].op = "delete" THEN Return(t) ELSE Go(t, "metadata_reset")
    /\ UNCHANGED <<names, data, handles, of_mutex, calls, faulted>>

MetadataReset(t) ==
    LET i == call[t].inum
    IN  /\ At(t, "metadata_reset") /\ CanWrite(i)
        /\ inode_table' = [inode_table EXCEPT ![i] = NewFile]
        /\ Go(t, "offset")
        /\ UNCHANGED <<names, free_blocks, fs_data, handles, locks, calls, faulted>>

-----------------------------------------------------------------------------
(* tfs_open: the creation.                                                 *)

\* Mutant of inode_is_free: an i-node without data counts as free.
inode_is_empty(i) == freeinode_ts[i] = FREE \/ inode_table[i].i_size = 0
\* The test under it_mutex.
inode_is_free(i) == freeinode_ts[i] = FREE

TakeInode(t) ==
    LET i == call[t].k
    IN  /\ At(t, "inode_create")
        /\ IF i \notin Inodes THEN Return(t) /\ UNCHANGED freeinode_ts
           ELSE IF inode_is_free(i)
           THEN /\ freeinode_ts' = [freeinode_ts EXCEPT ![i] = TAKEN]
                /\ call' = [call EXCEPT ![t].pc = "inode_init", ![t].inum = i]
           ELSE NextEntry(t) /\ UNCHANGED freeinode_ts
        /\ UNCHANGED <<dir, data, handles, locks, calls, faulted>>

InitInode(t) ==
    /\ At(t, "inode_init")
    /\ inode_table' = [inode_table EXCEPT ![call[t].inum] = NewFile]
    /\ Scan(t, "add_dir_entry")
    /\ UNCHANGED <<names, free_blocks, fs_data, handles, locks, calls, faulted>>

\* add_dir_entry takes no lock: the test of an entry, the number and the name
\* are three steps.
SeekEntry(t) ==
    LET e == call[t].k
    IN  /\ At(t, "add_dir_entry")
        /\ IF e \notin Slots
           THEN call' = [call EXCEPT ![t].pc = "inode_delete", ![t].op = "delete"]
           ELSE IF dir[e].d_inumber = -1 THEN Go(t, "d_inumber")
           ELSE NextEntry(t)
        /\ UNCHANGED <<names, data, handles, locks, calls, faulted>>

SetInumber(t) ==
    /\ At(t, "d_inumber")
    /\ dir' = [dir EXCEPT ![call[t].k].d_inumber = call[t].inum]
    /\ Go(t, "d_name")
    /\ UNCHANGED <<freeinode_ts, data, handles, locks, calls, faulted>>

\* strncpy has copied the beginning of the name.
BeginName(t) ==
    /\ At(t, "d_name")
    /\ \E part \in Partial[call[t].name] :
           dir' = [dir EXCEPT ![call[t].k].d_name = part]
    /\ Go(t, "d_name_end")
    /\ UNCHANGED <<freeinode_ts, data, handles, locks, calls, faulted>>

\* The name is whole, unless another thread that copies a name into the same
\* entry has left characters of its own in it.
EndName(t) ==
    LET mixed == \E u \in Threads \ {t} : At(u, "d_name_end") /\ call[u].k = call[t].k
    IN  /\ At(t, "d_name") \/ At(t, "d_name_end")
        /\ \E name \in {call[t].name} \cup (IF mixed THEN {Garbled} ELSE {}) :
               dir' = [dir EXCEPT ![call[t].k].d_name = name]
        /\ Scan(t, "open_file_table")
        /\ UNCHANGED <<freeinode_ts, data, handles, locks, calls, faulted>>

\* inode_delete sets FREE unlocked, before inode_data_free.
DeleteInode(t) ==
    LET i == call[t].inum
    IN  /\ At(t, "inode_delete")
        /\ IF freeinode_ts[i] = FREE
           THEN Return(t) /\ UNCHANGED freeinode_ts
           ELSE freeinode_ts' = [freeinode_ts EXCEPT ![i] = FREE] /\ Go(t, "data_free")
        /\ UNCHANGED <<dir, data, handles, locks, calls, faulted>>

-----------------------------------------------------------------------------
(* add_to_open_file_table: the end of tfs_open.                            *)

\* Mutant of handle_is_free: the first entry is handed out untested.
handle_is_free_or_first(h) == free_open_file_entries[h] = FREE \/ h = 0
\* The test under vs_mutex.
handle_is_free(h) == free_open_file_entries[h] = FREE

TakeHandle(t) ==
    LET h == call[t].k
    IN  /\ At(t, "open_file_table") /\ h \in Handles
        /\ IF handle_is_free(h)
           THEN /\ free_open_file_entries' =
                       [free_open_file_entries EXCEPT ![h] = TAKEN]
                /\ call' = [call EXCEPT ![t].pc = "of_fields", ![t].h = h]
           ELSE NextEntry(t) /\ UNCHANGED free_open_file_entries
        /\ UNCHANGED <<names, data, open_file_table, held, history, locks, calls,
                       faulted>>

NoHandle(t) ==
    /\ At(t, "open_file_table") /\ call[t].k \notin Handles
    /\ Return(t)
    /\ UNCHANGED <<names, data, handles, locks, calls, faulted>>

\* The fields are written after the unlock, of_mutex is made anew, and
\* tfs_open returns h to its caller or to tfs_copy_to_external_fs.
FillHandle(t) ==
    LET c == call[t]
    IN  /\ At(t, "of_fields")
        /\ open_file_table' = [open_file_table EXCEPT ![c.h] =
               [of_inumber |-> c.inum, of_offset |-> c.offset % BLOCK_SIZE,
                of_boffset |-> c.offset \div BLOCK_SIZE]]
        /\ of_mutex' = [of_mutex EXCEPT ![c.h] = NoThread]
        /\ history' = [history EXCEPT ![c.h] = [name |-> c.name, moved |-> c.offset]]
        /\ IF c.op = "open"
           THEN Return(t) /\ held' = [held EXCEPT ![t] = @ \cup {c.h}]
           ELSE Go(t, "copy_size") /\ UNCHANGED held
        /\ UNCHANGED <<names, data, free_open_file_entries, i_lock, calls, faulted>>

-----------------------------------------------------------------------------
(* tfs_close.                                                              *)

\* The test is outside vs_mutex.
CloseTest(t) ==
    /\ At(t, "close")
    /\ IF free_open_file_entries[call[t].h] = TAKEN THEN Go(t, "closing") ELSE Return(t)
    /\ UNCHANGED <<names, data, handles, locks, calls, faulted>>

Close(t) ==
    /\ At(t, "closing")
    /\ free_open_file_entries' = [free_open_file_entries EXCEPT ![call[t].h] = FREE]
    /\ Return(t)
    /\ UNCHANGED <<names, data, open_file_table, held, history, locks, calls, faulted>>

-----------------------------------------------------------------------------
(* tfs_write and tfs_read: how many bytes go into or come from the next     *)
(* block.                                                                  *)

\* a - b in size_t.
Minus(a, b) == IF b <= a THEN a - b ELSE SIZE_T + a - b

\* Mutant of rest_of_block: the offset in the block is forgotten.
whole_block(of_offset) == BLOCK_SIZE
\* The >= of tfs_read's test comes to the same: at equality both ways give left.
passes_block(left, of_offset) == left + of_offset > BLOCK_SIZE
rest_of_block(of_offset) == Minus(BLOCK_SIZE, of_offset)

\* The next chunk of aux bytes: through inode_update when there are any.
Chunk(t, aux) ==
    call' = [call EXCEPT ![t].aux = aux,
                         ![t].pc = IF aux > 0 THEN "of_lock" ELSE "advance"]

\* of_offset is read unlocked, by the test and again for the difference.
WriteChunk(t) ==
    LET c == call[t]
    IN  /\ At(t, "to_write")
        /\ IF c.left = 0 THEN Return(t)
           ELSE IF passes_block(c.left, open_file_table[c.h].of_offset)
           THEN Go(t, "write_rest")
           ELSE Chunk(t, c.left)
        /\ UNCHANGED <<names, data, handles, locks, calls, faulted>>

WriteRest(t) ==
    /\ At(t, "write_rest")
    /\ Chunk(t, rest_of_block(open_file_table[call[t].h].of_offset))
    /\ UNCHANGED <<names, data, handles, locks, calls, faulted>>

\* The number of bytes to read: of_boffset is left out of it.
ReadAmount(t) ==
    LET c == call[t]
        available == Minus(inode_table[c.inum].i_size, open_file_table[c.h].of_offset)
        to_read == IF available > c.len THEN c.len ELSE available
    IN  /\ At(t, "to_read") /\ CanLock(c.h) /\ CanRead(c.inum)
        /\ RdlockAndUnlock(c.inum)
        /\ call' = [call EXCEPT ![t].pc = "read_chunk", ![t].left = to_read,
                                ![t].total = to_read]
        /\ UNCHANGED <<names, data, handles, of_mutex, calls, faulted>>

ReadChunk(t) ==
    LET c == call[t]
        of_offset == open_file_table[c.h].of_offset
    IN  /\ At(t, "read_chunk")
        /\ IF c.left > 0
           THEN /\ CanLock(c.h)
                /\ Chunk(t, IF passes_block(c.left, of_offset)
                            THEN rest_of_block(of_offset) ELSE c.left)
           ELSE IF c.op = "copy" /\ c.total = c.len
           THEN Go(t, "copy_out")
           ELSE Return(t)
        /\ UNCHANGED <<names, data, handles, locks, calls, faulted>>

-----------------------------------------------------------------------------
(* inode_update: the blocks up to the handle's are allocated, under the     *)
(* handle's mutex and the i-node's rwlock, and the place is computed.       *)

of_inode(t) == open_file_table[call[t].h].of_inumber

OfLock(t) ==
    /\ At(t, "of_lock") /\ CanLock(call[t].h)
    /\ of_mutex' = [of_mutex EXCEPT ![call[t].h] = t]
    /\ Go(t, "i_lock")
    /\ UNCHANGED <<names, data, handles, i_lock, calls, faulted>>

ILock(t) ==
    /\ At(t, "i_lock") /\ CanWrite(of_inode(t))
    /\ i_lock' = [i_lock EXCEPT ![of_inode(t)].writer = t]
    /\ call' = [call EXCEPT ![t].pc = "alloc", ![t].k = 0, ![t].b = 0]
    /\ UNCHANGED <<names, data, handles, of_mutex, calls, faulted>>

Crash == faulted' = TRUE /\ UNCHANGED <<names, data, handles, locks, call, calls>>

\* The last pointer that a handle at block of_boffset needs.
LastPointer(of_boffset) ==
    IF pointer_of_block(of_boffset) \in Pointers
    THEN pointer_of_block(of_boffset) ELSE DIRECT_BLOCK_POINTERS + MAX_BLOCK_POINTERS

\* The pointers from k on that are still EMPTY, up to the first that is behind
\* a missing i_data_block.
Holes(t) ==
    LET inode == inode_table[of_inode(t)]
    IN  {p \in call[t].k .. LastPointer(open_file_table[call[t].h].of_boffset) :
            Wild(inode, p) \/ PointerAt(inode, p) = EMPTY}

\* Pointer p becomes b, a block just taken; a new pointer block is all EMPTY.
SetPointer(i, p, b) ==
    \/ /\ p \in Direct
       /\ inode_table' = [inode_table EXCEPT ![i].i_direct_blocks[p] = b]
       /\ UNCHANGED fs_data
    \/ /\ p = IndexPointer
       /\ inode_table' = [inode_table EXCEPT ![i].i_data_block = b]
       /\ fs_data' = [a \in Addresses |->
              IF a \in b * BLOCK_SIZE .. b * BLOCK_SIZE + MAX_BLOCK_POINTERS - 1
              THEN EMPTY ELSE fs_data[a]]
    \/ /\ p > IndexPointer
       /\ fs_data' = [fs_data EXCEPT ![Cell(inode_table[i], p)] = b]
       /\ UNCHANGED inode_table

block_is_free(b) == free_blocks[b] = FREE

\* One entry of data_block_alloc's scan for the first hole.  When no entry was
\* FREE the hole stays, and the next one is tried.
Alloc(t) ==
    LET b == call[t].b
        p == Min(Holes(t))
    IN  /\ At(t, "alloc") /\ Holes(t) # {}
        /\ ~Wild(inode_table[of_inode(t)], p)
        /\ IF b \notin Blocks
           THEN /\ call' = [call EXCEPT ![t].k = p + 1, ![t].b = 0]
                /\ UNCHANGED <<inode_table, fs_data, free_blocks>>
           ELSE IF block_is_free(b)
           THEN /\ free_blocks' = [free_blocks EXCEPT ![b] = TAKEN]
                /\ SetPointer(of_inode(t), p, b)
                /\ call' = [call EXCEPT ![t].k = p + 1, ![t].b = 0]
           ELSE /\ call' = [call EXCEPT ![t].b = b + 1]
                /\ UNCHANGED <<inode_table, fs_data, free_blocks>>
        /\ UNCHANGED <<names, handles, locks, calls, faulted>>

\* No block was left for the pointer block: NULL is indexed.
AllocWild(t) ==
    /\ At(t, "alloc") /\ Holes(t) # {}
    /\ Wild(inode_table[of_inode(t)], Min(Holes(t)))
    /\ Crash

IUnlock(t) ==
    /\ At(t, "alloc") /\ Holes(t) = {}
    /\ Unlock(of_inode(t), t)
    /\ Go(t, "position")
    /\ UNCHANGED <<names, data, handles, of_mutex, calls, faulted>>

\* data_block_get of the handle's block, read after the unlock, and of_offset:
\* NULL only when the block is missing and the offset is 0.
Position(t) ==
    LET file == open_file_table[call[t].h]
        inode == inode_table[file.of_inumber]
        p == pointer_of_block(file.of_boffset)
        block == PointerAt(inode, p)
        pos == (IF block \in Blocks THEN block * BLOCK_SIZE ELSE NULL) + file.of_offset
    IN  /\ At(t, "position")
        /\ IF Wild(inode, p)
           THEN Crash
           ELSE /\ of_mutex' = [of_mutex EXCEPT ![call[t].h] = NoThread]
                /\ IF pos = NULL
                   THEN Return(t)
                   ELSE call' = [call EXCEPT ![t].pc = "memcpy", ![t].pos = pos]
                /\ UNCHANGED <<names, data, handles, i_lock, calls, faulted>>

-----------------------------------------------------------------------------
(* The copy, and what follows it.                                          *)

Copied(t) == call[t].pos .. call[t].pos + call[t].aux - 1

\* tfs_write's memcpy; out of the memory of files the process is lost.
CopyIn(t) ==
    /\ At(t, "memcpy") /\ call[t].op = "write" /\ CanWrite(call[t].inum)
    /\ IF Copied(t) \subseteq Addresses
       THEN /\ fs_data' = [a \in Addresses |->
                              IF a \in Copied(t) THEN BYTE ELSE fs_data[a]]
            /\ Go(t, "advance")
            /\ UNCHANGED <<names, inode_table, free_blocks, handles, locks, calls,
                           faulted>>
       ELSE Crash

\* tfs_read's memcpy takes all that is left, not aux bytes; the next chunk
\* overwrites what came from behind the block.  Past the end of fs_data it reads
\* what the build has put there, or faults.
CopyOut(t) ==
    /\ At(t, "memcpy") /\ call[t].op # "write" /\ CanRead(call[t].inum)
    /\ \/ /\ call[t].pos \in Addresses
          /\ RdlockAndUnlock(call[t].inum)
          /\ Go(t, "advance")
          /\ UNCHANGED <<names, data, handles, of_mutex, calls, faulted>>
       \/ /\ ~(call[t].pos .. call[t].pos + call[t].left - 1 \subseteq Addresses)
          /\ Crash

boffset_after(file, aux) ==
    IF file.of_offset + aux >= BLOCK_SIZE THEN file.of_boffset + 1 ELSE file.of_boffset
\* Mutant of offset_after: a full block is not left.
offset_after_full(file, aux) ==
    IF file.of_offset + aux > BLOCK_SIZE
    THEN file.of_offset + aux - BLOCK_SIZE ELSE file.of_offset + aux
offset_after(file, aux) ==
    IF file.of_offset + aux >= BLOCK_SIZE
    THEN file.of_offset + aux - BLOCK_SIZE ELSE file.of_offset + aux

Advance(t) ==
    LET c == call[t]
        file == open_file_table[c.h]
    IN  /\ At(t, "advance") /\ CanLock(c.h)
        /\ open_file_table' = [open_file_table EXCEPT
               ![c.h].of_offset = offset_after(file, c.aux),
               ![c.h].of_boffset = boffset_after(file, c.aux)]
        /\ history' = [history EXCEPT ![c.h].moved = @ + c.aux]
        /\ IF c.op = "write"
           THEN Go(t, "i_size")
           ELSE call' = [call EXCEPT ![t].pc = "read_chunk", ![t].left = @ - c.aux]
        /\ UNCHANGED <<names, data, free_open_file_entries, held, locks, calls,
                       faulted>>

\* i_size grows by what was written, wherever it was written.
Grow(t) ==
    LET c == call[t]
    IN  /\ At(t, "i_size") /\ CanWrite(c.inum)
        /\ inode_table' = [inode_table EXCEPT ![c.inum].i_size = @ + c.aux]
        /\ call' = [call EXCEPT ![t].pc = "to_write", ![t].left = Minus(@, c.aux)]
        /\ UNCHANGED <<names, free_blocks, fs_data, handles, locks, calls, faulted>>

-----------------------------------------------------------------------------
(* tfs_copy_to_external_fs, after its tfs_open: tfs_read of the whole file, *)
(* fopen and fwrite, tfs_close.  Every failure leaves the handle open.      *)

CopySize(t) ==
    LET i == of_inode(t)
    IN  /\ At(t, "copy_size") /\ CanRead(i)
        /\ RdlockAndUnlock(i)
        /\ call' = [call EXCEPT ![t].pc = "copy_read", ![t].len = inode_table[i].i_size]
        /\ UNCHANGED <<names, data, handles, of_mutex, calls, faulted>>

\* tfs_read finds the i-node of the handle again.
CopyRead(t) ==
    /\ At(t, "copy_read")
    /\ call' = [call EXCEPT ![t].pc = "to_read", ![t].inum = of_inode(t)]
    /\ UNCHANGED <<names, data, handles, locks, calls, faulted>>

WriteExternal(t) ==
    /\ At(t, "copy_out")
    /\ Go(t, "close") \/ Return(t)
    /\ UNCHANGED <<names, data, handles, locks, calls, faulted>>

-----------------------------------------------------------------------------
Calls(t) ==
    \/ \E name \in Names, flags \in OpenFlags : tfs_open(t, name, flags)
    \/ \E name \in Names : tfs_copy_to_external_fs(t, name)
    \/ \E h \in Usable(t), len \in Lens : tfs_write(t, h, len) \/ tfs_read(t, h, len)
    \/ \E h \in Usable(t) : tfs_close(t, h)

OpenStep(t) ==
    \/ FindEntry(t) \/ NotFound(t) \/ InitialOffset(t)
    \/ DataFree(t) \/ DataLock(t) \/ FreeBlock(t) \/ DataUnlock(t) \/ MetadataReset(t)
    \/ TakeInode(t) \/ InitInode(t)
    \/ SeekEntry(t) \/ SetInumber(t) \/ BeginName(t) \/ EndName(t) \/ DeleteInode(t)
    \/ TakeHandle(t) \/ NoHandle(t) \/ FillHandle(t)

DataStep(t) ==
    \/ WriteChunk(t) \/ WriteRest(t) \/ ReadAmount(t) \/ ReadChunk(t)
    \/ OfLock(t) \/ ILock(t) \/ Alloc(t) \/ AllocWild(t) \/ IUnlock(t)
    \/ Position(t) \/ CopyIn(t) \/ CopyOut(t) \/ Advance(t) \/ Grow(t)
    \/ CopySize(t) \/ CopyRead(t) \/ WriteExternal(t) \/ CloseTest(t) \/ Close(t)

Step(t) == ~faulted /\ (OpenStep(t) \/ DataStep(t))

Next == \E t \in Threads : Step(t) \/ (~faulted /\ Calls(t))

\* The scheduler lets every thread go on with the call it is in.
Fairness == \A t \in Threads : WF_vars(Step(t))

Spec == Init /\ [][Next]_vars
FairSpec == Spec /\ Fairness

-----------------------------------------------------------------------------
(* Properties.                                                             *)

Locks == [writer : Threads \cup {NoThread}, readers : Int]

Opening == {"find_in_dir", "offset", "data_free", "data_lock", "free_block",
            "data_unlock", "metadata_reset", "inode_create", "inode_init",
            "add_dir_entry", "d_inumber", "d_name", "d_name_end", "inode_delete",
            "open_file_table", "of_fields"}
Moving == {"of_lock", "i_lock", "alloc", "position", "memcpy", "advance"}
Using == Moving \cup {"copy_size", "copy_read", "copy_out", "close", "closing", "to_write",
                      "write_rest", "to_read", "read_chunk", "i_size"}

CallRecords == [pc : {"idle"} \cup Opening \cup Using,
           op : {"none", "open", "copy", "write", "read", "close", "delete"},
           name : Names \cup {Blank},
           flags : SUBSET {"TFS_O_CREAT", "TFS_O_TRUNC", "TFS_O_APPEND"},
           h : Handles \cup {-1}, inum : Inodes \cup {-1}, k : Nat, b : Nat,
           offset : Nat, len : Nat, total : Nat, left : Nat,
           aux : 0 .. BLOCK_SIZE, pos : Int]

\* What a thread needs at each place, it has: a name, a handle, an i-node, an
\* entry; and a read moves by no more than it has left to read.
LocalsSet(c) ==
    /\ c.pc \in Opening => c.name \in Names
    /\ c.pc \in Using \cup {"of_fields"} => c.h \in Handles
    /\ c.pc \in (Opening \ {"find_in_dir", "inode_create"}) \cup Moving
                 \cup {"to_write", "write_rest", "to_read", "read_chunk", "i_size"}
          => c.inum \in Inodes
    /\ c.pc \in {"d_inumber", "d_name", "d_name_end"} => c.k \in Slots
    /\ c.pc \in {"to_write", "write_rest", "i_size"} => c.op = "write"
    /\ c.pc \in Moving /\ c.op # "write" => c.aux <= c.left

CallsOK == call \in [Threads -> CallRecords] /\ \A t \in Threads : LocalsSet(call[t])

TablesOK ==
    /\ freeinode_ts \in [Inodes -> {FREE, TAKEN}]
    /\ inode_table \in [Inodes -> [i_size : Nat, i_data_block : Blocks \cup {EMPTY},
                                   i_direct_blocks : [Direct -> Blocks \cup {EMPTY}]]]
    /\ dir \in [Slots -> [d_inumber : Inodes \cup {-1}, d_name : StoredNames]]
    /\ free_blocks \in [Blocks -> {FREE, TAKEN}]
    /\ fs_data \in [Addresses -> Int]

HandlesOK ==
    /\ free_open_file_entries \in [Handles -> {FREE, TAKEN}]
    /\ open_file_table \in [Handles -> [of_inumber : Inodes,
                                        of_offset : 0 .. BLOCK_SIZE - 1,
                                        of_boffset : Nat]]
    /\ held \in [Threads -> SUBSET Handles]
    /\ history \in [Handles -> [name : Names \cup {Blank}, moved : Nat]]

LocksOK ==
    /\ i_lock \in [Inodes -> Locks]
    /\ of_mutex \in [Handles -> Threads \cup {NoThread}]

\* What is read as a number is one, an index is one of its table, and the offset
\* of a handle stays within a block, whatever threads share it.
TypeOK ==
    /\ TablesOK /\ HandlesOK /\ LocksOK /\ CallsOK
    /\ calls \in [Threads -> Nat] /\ faulted \in BOOLEAN

Creating(t) ==
    call[t].pc \in {"inode_init", "add_dir_entry", "d_inumber", "inode_delete"}

\* An i-node that inode_create has given to a thread is TAKEN and in no entry,
\* no other thread was given it, and an entry has a TAKEN i-node of its own:
\* whatever other threads do between the steps of tfs_open.
INodesGivenOnce ==
    /\ \A t \in Threads : Creating(t) =>
          /\ freeinode_ts[call[t].inum] = TAKEN
          /\ \A e \in Slots : dir[e].d_inumber # call[t].inum
          /\ \A u \in Threads \ {t} : Creating(u) => call[u].inum # call[t].inum
    /\ \A e \in Slots : dir[e].d_inumber # -1 =>
          /\ freeinode_ts[dir[e].d_inumber] = TAKEN
          /\ \A g \in Slots \ {e} : dir[g].d_inumber # dir[e].d_inumber

\* The i-nodes that are files: TAKEN, and not in the hands of the tfs_open that
\* creates them or gives them back.
Files == {i \in Inodes \ {ROOT_DIR_INUM} :
    freeinode_ts[i] = TAKEN /\ \A t \in Threads : ~(Creating(t) /\ call[t].inum = i)}

\* The handles of thread t, the one that its call fills, uses or closes too.
HandlesOf(t) == held[t] \cup ({call[t].h} \ {-1})

\* A handle is in the hands of one thread, and is TAKEN while it is.
HandlesHeldByOne ==
    \A t \in Threads :
        /\ \A u \in Threads \ {t} : HandlesOf(t) \cap HandlesOf(u) = {}
        /\ \A h \in HandlesOf(t) : free_open_file_entries[h] = TAKEN

\* A handle leads to a file, also when its tfs_open found a name whose entry was
\* being written, or was written over by another creation: never to an i-node that
\* a failed creation gave back and that inode_create may give again.
HandlesLeadToFiles ==
    \A t \in Threads : \A h \in held[t] : open_file_table[h].of_inumber \in Files

\* The pointers of i-node i that its truncation has freed but not yet reset.
Freed(i) ==
    {p \in Pointers : \E t \in Threads :
        /\ call[t].inum = i
        /\ \/ At(t, "free_block") /\ \E k \in 0 .. call[t].k - 1 : FreeOrder(k) = p
           \/ call[t].pc \in {"data_unlock", "metadata_reset"}}

\* The pointers that lead to the blocks of files.
PointersInUse ==
    {ip \in Files \X Pointers :
        LET inode == inode_table[ip[1]]
        IN  /\ ip[2] > IndexPointer => inode.i_data_block # EMPTY
            /\ PointerAt(inode, ip[2]) # EMPTY
            /\ ip[2] \notin Freed(ip[1])}

\* Every pointer of a file leads to a block of its own, every block that is
\* TAKEN belongs to a file: none is lost, and none is given out while a file
\* still uses it, also when a truncation frees blocks that another tfs_write
\* takes before the pointers are reset.
BlocksOwned ==
    LET block(ip) == PointerAt(inode_table[ip[1]], ip[2])
        used == PointersInUse
    IN  /\ \A x, y \in used : block(x) = block(y) => x = y
        /\ {block(x) : x \in used} = {b \in Blocks \ {0} : free_blocks[b] = TAKEN}

\* A copy starts at the byte of the file that the handle has come to, below the
\* biggest file's end, and what it moves forward by lies in that block.
CopiesInPlace ==
    \A t \in Threads : At(t, "memcpy") /\ call[t].pos \in Addresses =>
        LET c == call[t]
            moved == history[c.h].moved
        IN  moved < MAX_FILE_SIZE =>
            /\ c.pos = PointerAt(inode_table[c.inum], pointer_of_block(moved \div BLOCK_SIZE))
                       * BLOCK_SIZE + (moved % BLOCK_SIZE)
            /\ c.aux <= BLOCK_SIZE - (moved % BLOCK_SIZE)

\* Every call comes to its end: no thread waits for a lock for ever.
CallsReturn == \A t \in Threads : ~At(t, "idle") ~> At(t, "idle") \/ faulted
=============================================================================
