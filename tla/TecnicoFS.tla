----------------------------- MODULE TecnicoFS -----------------------------
(***************************************************************************)
(* The file system library of P2/fs (operations.c and state.c).            *)
(*                                                                         *)
(* Every public operation takes single_global_lock, runs its               *)
(* "_unsynchronized" body and gives the lock back, so one operation is one *)
(* action.  The tables are the static arrays of state.c; the block of the  *)
(* root directory (inode 0) is kept apart as dir, an array of entries, and *)
(* fs_data holds the bytes of the blocks of files.                         *)
(*                                                                         *)
(* A path is abstracted to what the code tells apart: whether              *)
(* valid_pathname accepts it, the string after its first character (sub),  *)
(* and, through Stored, what strncpy leaves of that string in d_name.      *)
(* tfs_open never checks the path before it creates a file, so an invalid  *)
(* one matters.                                                            *)
(***************************************************************************)
EXTENDS Integers, Sequences, FiniteSets, FiniteSetsExt

CONSTANTS
    INODE_TABLE_SIZE, DATA_BLOCKS, BLOCK_SIZE, MAX_OPEN_FILES,  \* config.h
    MAX_DIR_ENTRIES,  \* dir_entry_t records in one block
    SIZE_T,           \* the modulus of size_t arithmetic
    SubNames,         \* what may follow the first character of a path
    EmptyName,        \* the empty string
    Stored,           \* Stored[n]: the first MAX_FILE_NAME - 1 characters of n
    Paths,            \* the paths callers pass
    Bytes, ZeroByte,  \* contents of a byte; static storage starts at zero
    Beyond,           \* a byte read past the end of the file's own block
    Buffers,          \* what callers write
    Lens,             \* how many bytes callers ask tfs_read for
    MAX_OFFSET        \* bound of the model: of_offset stays below it

FREE == 0
TAKEN == 1
ROOT_DIR_INUM == 0

Inodes == 0 .. INODE_TABLE_SIZE - 1
Blocks == 0 .. DATA_BLOCKS - 1
Handles == 0 .. MAX_OPEN_FILES - 1
Slots == 0 .. MAX_DIR_ENTRIES - 1
Cells == 0 .. BLOCK_SIZE - 1

\* The root inode and its block exist, and so does every table.
ASSUME SizesAssumption ==
    /\ INODE_TABLE_SIZE \in Nat \ {0}
    /\ DATA_BLOCKS \in Nat \ {0}
    /\ BLOCK_SIZE \in Nat \ {0}
    /\ MAX_OPEN_FILES \in Nat \ {0}
    /\ MAX_DIR_ENTRIES \in Nat \ {0}

\* Cutting a name that is cut already changes nothing, and only the empty
\* string is cut to the empty string.
ASSUME NamesAssumption ==
    /\ EmptyName \in SubNames
    /\ Stored \in [SubNames -> SubNames]
    /\ \A n \in SubNames : Stored[Stored[n]] = Stored[n]
    /\ \A n \in SubNames : Stored[n] = EmptyName <=> n = EmptyName
    /\ Paths \subseteq [absolute : BOOLEAN, sub : SubNames]

\* MAX_OFFSET leaves room for a whole file, and adding a length to an offset
\* never wraps a size_t (2^64 against a memory buffer's length).
ASSUME BytesAssumption ==
    /\ ZeroByte \in Bytes
    /\ Buffers \subseteq Seq(Bytes)
    /\ Lens \subseteq Nat
    /\ MAX_OFFSET \in Nat /\ BLOCK_SIZE <= MAX_OFFSET
    /\ SIZE_T \in Nat /\ MAX_OFFSET < SIZE_T
    /\ \A b \in Buffers : MAX_OFFSET + Len(b) < SIZE_T

VARIABLES
    freeinode_ts,            \* FREE or TAKEN, of every i-node
    inode_table,             \* the i-nodes
    dir,                     \* the entries in the root directory's block
    free_blocks,             \* FREE or TAKEN, of every data block
    fs_data,                 \* the bytes of every data block
    free_open_file_entries,  \* FREE or TAKEN, of every file handle
    open_file_table,         \* inode and offset of every file handle
    open_file_count,         \* number of files open
    reply,                   \* what the last operation returned
    faulted                  \* the process died in a memcpy out of its memory

tables == <<freeinode_ts, inode_table, dir, free_blocks, fs_data>>
openFiles == <<free_open_file_entries, open_file_table, open_file_count>>
vars == <<tables, openFiles, reply, faulted>>

-----------------------------------------------------------------------------
(* Scanning the tables.                                                    *)

\* The index of the first FREE element, -1 when there is none.
FirstFree(table) ==
    LET F == {i \in DOMAIN table : table[i] = FREE}
    IN  IF F = {} THEN -1 ELSE Min(F)

data_block_free_forgotten(map, b) == map
data_block_free(map, b) == [map EXCEPT ![b] = FREE]

\* The entries of directory d whose stored name is sub.  A name too long to be
\* stored whole differs from every stored name within MAX_FILE_NAME characters.
Matching(d, sub) == {e \in Slots : d[e].d_inumber # -1 /\ d[e].d_name = sub}

find_last_in_dir(d, sub) ==
    IF Matching(d, sub) = {} THEN -1 ELSE d[Max(Matching(d, sub))].d_inumber
find_in_dir(d, sub) ==
    IF Matching(d, sub) = {} THEN -1 ELSE d[Min(Matching(d, sub))].d_inumber

\* The first empty entry of the root directory, -1 when it is full.
FirstEmptyEntry ==
    LET E == {e \in Slots : dir[e].d_inumber = -1}
    IN  IF E = {} THEN -1 ELSE Min(E)

valid_pathname(path) == path.absolute /\ path.sub # EmptyName

\* Mutant of lookup: without name++ it compares "/name" with stored names.
lookup_with_slash(path) == -1
lookup(path) == IF valid_pathname(path) THEN find_in_dir(dir, path.sub) ELSE -1

-----------------------------------------------------------------------------
(* size_t arithmetic of tfs_read and tfs_write.                            *)

\* a - b in size_t.
Minus(a, b) == IF b <= a THEN a - b ELSE SIZE_T + a - b

bytes_to_write_from_zero(to_write, of_offset) ==
    IF to_write > BLOCK_SIZE THEN BLOCK_SIZE ELSE to_write
bytes_to_write(to_write, of_offset) ==
    IF to_write + of_offset > BLOCK_SIZE
    THEN Minus(BLOCK_SIZE, of_offset) ELSE to_write

bytes_to_read_from_zero(i_size, of_offset, len) ==
    IF i_size > len THEN len ELSE i_size
bytes_to_read(i_size, of_offset, len) ==
    IF Minus(i_size, of_offset) > len THEN len ELSE Minus(i_size, of_offset)

-----------------------------------------------------------------------------
(* tfs_init: the tables are empty and inode_create(T_DIRECTORY) has given   *)
(* the root directory inode 0 and block 0.                                 *)

NewFile == [i_node_type |-> "T_FILE", i_size |-> 0, i_data_block |-> -1]

Init ==
    /\ freeinode_ts = [i \in Inodes |-> IF i = ROOT_DIR_INUM THEN TAKEN ELSE FREE]
    /\ inode_table = [i \in Inodes |->
           IF i = ROOT_DIR_INUM
           THEN [i_node_type |-> "T_DIRECTORY", i_size |-> BLOCK_SIZE,
                 i_data_block |-> 0]
           ELSE [i_node_type |-> "T_FILE", i_size |-> 0, i_data_block |-> 0]]
    /\ dir = [e \in Slots |-> [d_inumber |-> -1, d_name |-> EmptyName]]
    /\ free_blocks = [b \in Blocks |-> IF b = 0 THEN TAKEN ELSE FREE]
    /\ fs_data = [b \in Blocks |-> [c \in Cells |-> ZeroByte]]
    /\ free_open_file_entries = [h \in Handles |-> FREE]
    /\ open_file_table =
           [h \in Handles |-> [of_inumber |-> ROOT_DIR_INUM, of_offset |-> 0]]
    /\ open_file_count = 0
    /\ reply = [ret |-> 0, data |-> <<>>]
    /\ faulted = FALSE

Reply(n) == reply' = [ret |-> n, data |-> <<>>]

-----------------------------------------------------------------------------
(* tfs_open                                                                *)

\* add_to_open_file_table: takes the first FREE handle and answers with it.
AddToOpenFileTable(inum, offset) ==
    LET h == FirstFree(free_open_file_entries)
    IN  IF h = -1
        THEN Reply(-1) /\ UNCHANGED openFiles
        ELSE /\ free_open_file_entries' =
                    [free_open_file_entries EXCEPT ![h] = TAKEN]
             /\ open_file_table' = [open_file_table EXCEPT
                    ![h] = [of_inumber |-> inum, of_offset |-> offset]]
             /\ open_file_count' = open_file_count + 1
             /\ Reply(h)

open_offset_before_truncation(flags, before, after) ==
    IF "TFS_O_APPEND" \in flags THEN before ELSE 0
open_offset(flags, before, after) ==
    IF "TFS_O_APPEND" \in flags THEN after ELSE 0

\* The file exists: it is truncated when asked, then opened.
OpenExisting(path, flags) ==
    LET inum == lookup(path)
        size == inode_table[inum].i_size
        block == inode_table[inum].i_data_block
        truncates == "TFS_O_TRUNC" \in flags /\ size > 0
    IN  /\ inum >= 0
        /\ IF truncates /\ block \notin Blocks
           THEN Reply(-1) /\ UNCHANGED <<inode_table, free_blocks, openFiles>>
           ELSE /\ IF truncates
                   THEN /\ free_blocks' = data_block_free(free_blocks, block)
                        /\ inode_table' = [inode_table EXCEPT ![inum].i_size = 0]
                   ELSE UNCHANGED <<inode_table, free_blocks>>
                /\ AddToOpenFileTable(inum,
                       open_offset(flags, size, IF truncates THEN 0 ELSE size))
        /\ UNCHANGED <<freeinode_ts, dir, fs_data, faulted>>

\* What inode_delete leaves of the i-node map.
inode_delete_forgotten(map, inum) == [map EXCEPT ![inum] = TAKEN]
inode_delete(map, inum) == [map EXCEPT ![inum] = FREE]

\* The file is missing and TFS_O_CREAT was given: inode_create, add_dir_entry
\* (and inode_delete when that fails), add_to_open_file_table.  The file stays
\* when no handle is left.
OpenCreate(path, flags) ==
    LET inum == FirstFree(freeinode_ts)
        entry == FirstEmptyEntry
    IN  /\ lookup(path) = -1 /\ "TFS_O_CREAT" \in flags
        /\ IF inum = -1
           THEN Reply(-1) /\ UNCHANGED <<freeinode_ts, inode_table, dir, openFiles>>
           ELSE /\ inode_table' = [inode_table EXCEPT ![inum] = NewFile]
                /\ IF path.sub = EmptyName \/ entry = -1
                   THEN /\ freeinode_ts' = inode_delete(freeinode_ts, inum)
                        /\ Reply(-1)
                        /\ UNCHANGED <<dir, openFiles>>
                   ELSE /\ freeinode_ts' = [freeinode_ts EXCEPT ![inum] = TAKEN]
                        /\ dir' = [dir EXCEPT ![entry] =
                               [d_inumber |-> inum, d_name |-> Stored[path.sub]]]
                        /\ AddToOpenFileTable(inum, 0)
        /\ UNCHANGED <<free_blocks, fs_data, faulted>>

\* The file is missing and must not be created.
OpenMissing(path, flags) ==
    /\ lookup(path) = -1 /\ "TFS_O_CREAT" \notin flags
    /\ Reply(-1)
    /\ UNCHANGED <<tables, openFiles, faulted>>

Open(path, flags) ==
    \/ OpenExisting(path, flags)
    \/ OpenCreate(path, flags)
    \/ OpenMissing(path, flags)

-----------------------------------------------------------------------------
(* tfs_lookup and tfs_close                                                *)

Lookup(path) == Reply(lookup(path)) /\ UNCHANGED <<tables, openFiles, faulted>>

is_valid(h) == h \in Handles
is_open(h) == h \in Handles /\ free_open_file_entries[h] = TAKEN

Close(h) ==
    /\ IF is_open(h)
       THEN /\ free_open_file_entries' =
                   [free_open_file_entries EXCEPT ![h] = FREE]
            /\ open_file_count' = open_file_count - 1
            /\ Reply(0)
            /\ UNCHANGED open_file_table
       ELSE Reply(-1) /\ UNCHANGED openFiles
    /\ UNCHANGED <<tables, faulted>>

-----------------------------------------------------------------------------
(* tfs_write and tfs_read.  get_open_file_entry looks only at the range of  *)
(* the handle, not at whether it is open.                                  *)

\* The block tfs_write writes to: a new one when the file is empty.
keep_old_block(inode) ==
    IF inode.i_data_block = -1 THEN FirstFree(free_blocks) ELSE inode.i_data_block
block_to_write(inode) ==
    IF inode.i_size = 0 THEN FirstFree(free_blocks) ELSE inode.i_data_block

\* memcpy of the first n bytes of buffer over block b, from cell offset on.
Overwrite(b, offset, buffer, n) ==
    [fs_data EXCEPT ![b] = [c \in Cells |->
        IF c >= offset /\ c < offset + n THEN buffer[c - offset + 1] ELSE @[c]]]

inode_written(inode, block, after) ==
    [inode EXCEPT !.i_data_block = block,
                  !.i_size = IF after > @ THEN after ELSE @]

Write(h, buffer) ==
    LET inum == open_file_table[h].of_inumber
        offset == open_file_table[h].of_offset
        inode == inode_table[inum]
        to_write == bytes_to_write(Len(buffer), offset)
        block == block_to_write(inode)
        after == offset + to_write
    IN  /\ IF h \notin Handles \/ inum \notin Inodes
           THEN /\ Reply(-1)
                /\ UNCHANGED <<inode_table, free_blocks, fs_data, openFiles, faulted>>
           ELSE IF to_write = 0
           THEN /\ Reply(0)
                /\ UNCHANGED <<inode_table, free_blocks, fs_data, openFiles, faulted>>
           ELSE IF block \notin Blocks
           THEN \* no block left: i_data_block is set to -1
                /\ inode_table' = [inode_table EXCEPT ![inum].i_data_block = -1]
                /\ Reply(-1)
                /\ UNCHANGED <<free_blocks, fs_data, openFiles, faulted>>
           ELSE IF to_write > BLOCK_SIZE
           THEN \* BLOCK_SIZE - of_offset wrapped: memcpy of nearly SIZE_T bytes
                /\ faulted' = TRUE
                /\ UNCHANGED <<inode_table, free_blocks, fs_data, openFiles, reply>>
           ELSE /\ free_blocks' = IF inode.i_size = 0
                                  THEN [free_blocks EXCEPT ![block] = TAKEN]
                                  ELSE free_blocks
                /\ fs_data' = Overwrite(block, offset, buffer, to_write)
                /\ open_file_table' = [open_file_table EXCEPT ![h].of_offset = after]
                /\ inode_table' = [inode_table EXCEPT
                       ![inum] = inode_written(inode, block, after)]
                /\ Reply(to_write)
                /\ UNCHANGED <<free_open_file_entries, open_file_count, faulted>>
        /\ UNCHANGED <<freeinode_ts, dir>>

\* The n bytes from cell offset of block b on.
BytesAt(b, offset, n) ==
    [k \in 1 .. n |-> IF offset + k <= BLOCK_SIZE
                      THEN fs_data[b][offset + k - 1] ELSE Beyond]

Read(h, len) ==
    LET inum == open_file_table[h].of_inumber
        offset == open_file_table[h].of_offset
        inode == inode_table[inum]
        to_read == bytes_to_read(inode.i_size, offset, len)
    IN  /\ IF h \notin Handles \/ inum \notin Inodes
           THEN Reply(-1) /\ UNCHANGED open_file_table
           ELSE IF to_read = 0
           THEN Reply(0) /\ UNCHANGED open_file_table
           ELSE IF inode.i_data_block \notin Blocks
           THEN Reply(-1) /\ UNCHANGED open_file_table
           ELSE /\ offset + to_read <= MAX_OFFSET    \* bound of the model
                /\ reply' = [ret |-> to_read,
                             data |-> BytesAt(inode.i_data_block, offset, to_read)]
                /\ open_file_table' =
                       [open_file_table EXCEPT ![h].of_offset = offset + to_read]
        /\ UNCHANGED <<tables, free_open_file_entries, open_file_count, faulted>>

-----------------------------------------------------------------------------
(* The specification.  Callers pass the result of a tfs_open to tfs_close,  *)
(* tfs_write and tfs_read: a handle that was opened, maybe closed since, or *)
(* the -1 of an open that failed.                                          *)

AllFlags == SUBSET {"TFS_O_CREAT", "TFS_O_TRUNC", "TFS_O_APPEND"}

ReturnedHandles ==
    {-1} \cup {h \in Handles : open_file_table[h].of_inumber # ROOT_DIR_INUM}

Next ==
    /\ ~faulted
    /\ \/ \E path \in Paths, flags \in AllFlags : Open(path, flags)
       \/ \E path \in Paths : Lookup(path)
       \/ \E h \in ReturnedHandles : Close(h)
       \/ \E h \in ReturnedHandles, buffer \in Buffers : Write(h, buffer)
       \/ \E h \in ReturnedHandles, len \in Lens : Read(h, len)

Spec == Init /\ [][Next]_vars
-----------------------------------------------------------------------------
(* Properties.                                                             *)

Files == Inodes \ {ROOT_DIR_INUM}

\* The bytes of the file of inode i.
Contents(i) ==
    [k \in 1 .. inode_table[i].i_size |->
        fs_data[inode_table[i].i_data_block][k - 1]]

inode_t == [i_node_type : {"T_FILE", "T_DIRECTORY"},
            i_size : 0 .. BLOCK_SIZE, i_data_block : Blocks \cup {-1}]
Replies == [ret : Int, data : Seq(Bytes \cup {Beyond})]

\* Every table of state.c holds values of its type: sizes fit a block, an
\* i_data_block is a block or -1, an offset is below the bound of the model.
TypeOK ==
    /\ freeinode_ts \in [Inodes -> {FREE, TAKEN}]
    /\ inode_table \in [Inodes -> inode_t]
    /\ dir \in [Slots -> [d_inumber : Inodes \cup {-1}, d_name : SubNames]]
    /\ free_blocks \in [Blocks -> {FREE, TAKEN}]
    /\ fs_data \in [Blocks -> [Cells -> Bytes]]
    /\ free_open_file_entries \in [Handles -> {FREE, TAKEN}]
    /\ open_file_table \in
           [Handles -> [of_inumber : Inodes, of_offset : 0 .. MAX_OFFSET]]
    /\ open_file_count \in Int
    /\ reply \in Replies
    /\ faulted \in BOOLEAN

Holds(i, b) ==
    /\ freeinode_ts[i] = TAKEN
    /\ inode_table[i].i_size > 0
    /\ inode_table[i].i_data_block = b

\* data_block_alloc and data_block_free keep the block map true: a block is
\* TAKEN exactly while an i-node with a size holds it, no two i-nodes hold the
\* same block (the root directory's included), and a nonempty one has a block.
\* Truncation under an open handle, failed creations and a full disk included.
BlockOwnership ==
    /\ \A b \in Blocks : free_blocks[b] = TAKEN <=> \E i \in Inodes : Holds(i, b)
    /\ \A b \in Blocks, i, j \in Inodes : Holds(i, b) /\ Holds(j, b) => i = j
    /\ \A i \in Inodes : freeinode_ts[i] = TAKEN /\ inode_table[i].i_size > 0
                            => inode_table[i].i_data_block \in Blocks

\* tfs_open's creation is all or nothing: a file's i-node is TAKEN exactly
\* when one directory entry leads to it, also after a creation that failed
\* in add_dir_entry and was undone with inode_delete.
DirectoryAgreement ==
    /\ freeinode_ts[ROOT_DIR_INUM] = TAKEN
    /\ \A i \in Files : freeinode_ts[i] = TAKEN <=> \E e \in Slots : dir[e].d_inumber = i
    /\ \A e, f \in Slots : dir[e].d_inumber = dir[f].d_inumber /\ e # f
                              => dir[e].d_inumber = -1

\* open_file_count, on which tfs_destroy_after_all_closed waits, is the number
\* of handles open, whatever handles callers close, twice or never.
OpenFilesCounted == open_file_count = Cardinality({h \in Handles : is_open(h)})

\* Once tfs_lookup finds a name it finds the same i-node for ever, although an
\* invalid path can put a second entry of the same name in the directory.
NameBindingStable ==
    [][\A n \in SubNames :
           find_in_dir(dir, n) # -1 => find_in_dir(dir', n) = find_in_dir(dir, n)]_vars

\* No operation changes the contents of two files: what is written through a
\* handle, stale or past a truncation, never shows in another file.
WriteIsolation ==
    [][\A i, j \in Files :
           freeinode_ts[i] = TAKEN /\ freeinode_ts[j] = TAKEN /\ i # j
           => Contents(i)' = Contents(i) \/ Contents(j)' = Contents(j)]_vars

\* "(can be lower than 'len' if the file size was reached)", operations.h: a
\* tfs_read that copies bytes leaves its handle at the file size at most.
ReadsEndAtFileSize ==
    [][\A h \in Handles :
           reply'.data # <<>> /\ open_file_table'[h] # open_file_table[h]
           => open_file_table'[h].of_offset
                <= inode_table[open_file_table[h].of_inumber].i_size]_vars
-----------------------------------------------------------------------------
(* What DirectoryAgreement and BlockOwnership need to be inductive.         *)

\* Entries are filled from the first on and never emptied.
DirFilledInOrder ==
    /\ \A e \in Slots : dir[e].d_inumber # ROOT_DIR_INUM
    /\ \A e, f \in Slots : e < f /\ dir[f].d_inumber # -1 => dir[e].d_inumber # -1

\* A handle that was ever opened leads to a file of the directory for ever: no
\* operation removes a file, so the missing check for a closed handle in
\* get_open_file_entry reaches a file and never a reused i-node.
HandlesLeadToFiles ==
    \A h \in Handles :
        LET i == open_file_table[h].of_inumber
        IN  /\ is_open(h) => i # ROOT_DIR_INUM
            /\ i # ROOT_DIR_INUM => \E e \in Slots : dir[e].d_inumber = i

IndInv ==
    /\ TypeOK
    /\ DirectoryAgreement
    /\ DirFilledInOrder
    /\ HandlesLeadToFiles
    /\ BlockOwnership
    /\ OpenFilesCounted
=============================================================================
