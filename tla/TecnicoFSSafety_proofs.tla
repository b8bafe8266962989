----------------------- MODULE TecnicoFSSafety_proofs -----------------------
(***************************************************************************)
(* The safety of P2/fs for every size of its tables and every set of paths: *)
(* IndInv is inductive, and the invariants and the action property of       *)
(* TecnicoFS follow.                                                       *)
(***************************************************************************)
EXTENDS TecnicoFS_proofs

DirInv == DirectoryAgreement /\ DirFilledInOrder /\ HandlesLeadToFiles

-----------------------------------------------------------------------------
(* What tfs_open does to each table.                                       *)

\* A name that is found leads to a file's i-node, which is TAKEN.
LEMMA FoundIsFile ==
    ASSUME TypeOK, DirInv, NEW path \in Paths, lookup(path) # -1
    PROVE  /\ lookup(path) \in Files
           /\ freeinode_ts[lookup(path)] = TAKEN
           /\ \E e \in Slots : dir[e].d_inumber = lookup(path)
<1>1. PICK e \in Matching(dir, path.sub) : lookup(path) = dir[e].d_inumber
  BY FoundInDir DEF lookup
<1>2. e \in Slots /\ dir[e].d_inumber \in Inodes /\ dir[e].d_inumber # ROOT_DIR_INUM
  BY <1>1 DEF Matching, TypeOK, DirInv, DirFilledInOrder
<1> QED
  BY <1>1, <1>2 DEF Files, DirInv, DirectoryAgreement

\* add_to_open_file_table takes one handle that was not open, or none.
LEMMA NewHandle ==
    ASSUME TypeOK, NEW inum, NEW offset, AddToOpenFileTable(inum, offset)
    PROVE  \/ UNCHANGED openFiles
           \/ \E h \in Handles :
                 /\ ~is_open(h)
                 /\ free_open_file_entries' = [free_open_file_entries EXCEPT ![h] = TAKEN]
                 /\ open_file_table' = [open_file_table EXCEPT
                        ![h] = [of_inumber |-> inum, of_offset |-> offset]]
                 /\ open_file_count' = open_file_count + 1
<1> DEFINE h == FirstFree(free_open_file_entries)
<1>1. CASE h = -1
  BY <1>1 DEF AddToOpenFileTable
<1>2. CASE h # -1
  <2>1. free_open_file_entries \in [0 .. MAX_OPEN_FILES - 1 -> {FREE, TAKEN}]
    BY DEF TypeOK, Handles
  <2>2. h \in Handles /\ free_open_file_entries[h] = FREE
    BY <1>2, <2>1, FirstFreeIsFree, SizesAssumption DEF Handles
  <2>3. ~is_open(h)
    BY <2>2 DEF is_open, FREE, TAKEN
  <2> QED
    BY <1>2, <2>2, <2>3 DEF AddToOpenFileTable
<1> QED
  BY <1>1, <1>2

\* A creation that fails leaves no trace but in a free i-node; one that
\* succeeds fills the first empty entry and a free i-node.
LEMMA CreationCases ==
    ASSUME TypeOK, DirInv, NEW path \in Paths, NEW flags, OpenCreate(path, flags)
    PROVE  \/ /\ UNCHANGED <<freeinode_ts, dir, openFiles>>
              /\ \A i \in Inodes : freeinode_ts[i] = TAKEN => inode_table'[i] = inode_table[i]
           \/ \E inum \in Files :
                 /\ freeinode_ts[inum] = FREE
                 /\ freeinode_ts' = [freeinode_ts EXCEPT ![inum] = TAKEN]
                 /\ inode_table' = [inode_table EXCEPT ![inum] = NewFile]
                 /\ FirstEmptyEntry \in Slots
                 /\ dir' = [dir EXCEPT ![FirstEmptyEntry] =
                        [d_inumber |-> inum, d_name |-> Stored[path.sub]]]
                 /\ AddToOpenFileTable(inum, 0)
<1> DEFINE inum == FirstFree(freeinode_ts)
           entry == FirstEmptyEntry
<1>1. CASE inum = -1
  BY <1>1 DEF OpenCreate
<1>2. CASE inum # -1
  <2>1. freeinode_ts \in [0 .. INODE_TABLE_SIZE - 1 -> {FREE, TAKEN}]
    BY DEF TypeOK, Inodes
  <2>2. inum \in Inodes /\ freeinode_ts[inum] = FREE
    BY <1>2, <2>1, FirstFreeIsFree, SizesAssumption DEF Inodes
  <2>3. inum \in Files
    BY <2>2 DEF Files, DirInv, DirectoryAgreement, FREE, TAKEN
  <2>4. inode_table' = [inode_table EXCEPT ![inum] = NewFile]
    BY <1>2 DEF OpenCreate
  <2>5. CASE path.sub = EmptyName \/ entry = -1
    <3>1. freeinode_ts' = [freeinode_ts EXCEPT ![inum] = FREE]
      BY <1>2, <2>5 DEF OpenCreate, inode_delete
    <3>2. freeinode_ts' = freeinode_ts
      BY <2>2, <3>1 DEF TypeOK
    <3>3. \A i \in Inodes : freeinode_ts[i] = TAKEN => inode_table'[i] = inode_table[i]
      BY <2>2, <2>4 DEF TypeOK, FREE, TAKEN
    <3>4. UNCHANGED <<dir, openFiles>>
      BY <1>2, <2>5 DEF OpenCreate
    <3> QED
      BY <3>2, <3>3, <3>4
  <2>6. CASE ~(path.sub = EmptyName \/ entry = -1)
    <3>1. entry \in Slots
      BY <2>6, EntryIsEmpty
    <3>2. /\ freeinode_ts' = [freeinode_ts EXCEPT ![inum] = TAKEN]
          /\ dir' = [dir EXCEPT ![entry] =
                        [d_inumber |-> inum, d_name |-> Stored[path.sub]]]
          /\ AddToOpenFileTable(inum, 0)
      BY <1>2, <2>6 DEF OpenCreate
    <3> QED
      BY <2>2, <2>3, <2>4, <3>1, <3>2
  <2> QED
    BY <2>5, <2>6
<1> QED
  BY <1>1, <1>2

-----------------------------------------------------------------------------
(* The directory, the i-node map and the handles.                          *)

\* Handles still lead to files after one was opened on a file that the new
\* directory holds, when no entry was removed.
LEMMA HandlesAfterOpen ==
    ASSUME TypeOK, HandlesLeadToFiles,
           NEW inum \in Files, NEW offset, AddToOpenFileTable(inum, offset),
           \E e \in Slots : dir'[e].d_inumber = inum,
           \A e \in Slots : dir[e].d_inumber # -1 => dir'[e].d_inumber = dir[e].d_inumber
    PROVE  HandlesLeadToFiles'
<1>1. CASE UNCHANGED openFiles
  <2> SUFFICES ASSUME NEW k \in Handles
               PROVE  LET i == open_file_table'[k].of_inumber
                      IN  /\ is_open(k)' => i # ROOT_DIR_INUM
                          /\ i # ROOT_DIR_INUM => \E e \in Slots : dir'[e].d_inumber = i
    BY DEF HandlesLeadToFiles
  <2>1. open_file_table'[k] = open_file_table[k] /\ is_open(k)' = is_open(k)
    BY <1>1 DEF openFiles, is_open
  <2>2. open_file_table[k].of_inumber # -1
    BY SizesAssumption DEF TypeOK, Inodes
  <2> QED
    BY <2>1, <2>2 DEF HandlesLeadToFiles
<1>2. CASE ~UNCHANGED openFiles
  <2>1. PICK h \in Handles :
           /\ free_open_file_entries' = [free_open_file_entries EXCEPT ![h] = TAKEN]
           /\ open_file_table' = [open_file_table EXCEPT
                  ![h] = [of_inumber |-> inum, of_offset |-> offset]]
    BY <1>2, NewHandle
  <2> SUFFICES ASSUME NEW k \in Handles
               PROVE  LET i == open_file_table'[k].of_inumber
                      IN  /\ is_open(k)' => i # ROOT_DIR_INUM
                          /\ i # ROOT_DIR_INUM => \E e \in Slots : dir'[e].d_inumber = i
    BY DEF HandlesLeadToFiles
  <2>2. CASE k = h
    <3>1. open_file_table'[k].of_inumber = inum
      BY <2>1, <2>2 DEF TypeOK
    <3> QED
      BY <3>1 DEF Files
  <2>3. CASE k # h
    <3>1. open_file_table'[k] = open_file_table[k]
      BY <2>1, <2>3 DEF TypeOK
    <3>2. is_open(k)' = is_open(k)
      BY <2>1, <2>3 DEF TypeOK, is_open
    <3>3. open_file_table[k].of_inumber # -1
      BY SizesAssumption DEF TypeOK, Inodes
    <3> QED
      BY <3>1, <3>2, <3>3 DEF HandlesLeadToFiles
  <2> QED
    BY <2>2, <2>3
<1> QED
  BY <1>1, <1>2

\* tfs_open that creates a file, or fails to, keeps directory, i-node map and
\* handles in agreement.
LEMMA OpenCreateDirInv ==
    ASSUME TypeOK, DirInv, NEW path \in Paths, NEW flags, OpenCreate(path, flags)
    PROVE  DirInv'
<1>1. CASE UNCHANGED <<freeinode_ts, dir, openFiles>>
  BY <1>1 DEF DirInv, DirectoryAgreement, DirFilledInOrder, HandlesLeadToFiles,
              is_open, openFiles
<1>2. CASE ~UNCHANGED <<freeinode_ts, dir, openFiles>>
  <2> DEFINE entry == FirstEmptyEntry
  <2>1. PICK inum \in Files :
           /\ freeinode_ts[inum] = FREE
           /\ freeinode_ts' = [freeinode_ts EXCEPT ![inum] = TAKEN]
           /\ entry \in Slots
           /\ dir' = [dir EXCEPT ![entry] =
                  [d_inumber |-> inum, d_name |-> Stored[path.sub]]]
           /\ AddToOpenFileTable(inum, 0)
    BY <1>2, CreationCases
  <2>2. /\ dir[entry].d_inumber = -1
        /\ \A e \in Slots : e < entry => dir[e].d_inumber # -1
    BY <2>1, EntryIsEmpty, SizesAssumption DEF Slots
  <2>3. inum \in Inodes /\ inum # ROOT_DIR_INUM /\ inum # -1
    BY <2>1, SizesAssumption DEF Files, Inodes
  <2>4. \A e \in Slots : dir[e].d_inumber # inum
    BY <2>1 DEF DirInv, DirectoryAgreement, FREE, TAKEN
  <2>5. \A e \in Slots : dir'[e].d_inumber = IF e = entry THEN inum ELSE dir[e].d_inumber
    BY <2>1 DEF TypeOK
  <2> HIDE DEF entry
  <2>6. DirectoryAgreement'
    <3>1. freeinode_ts'[ROOT_DIR_INUM] = TAKEN
      BY <2>1, <2>3, SizesAssumption DEF DirInv, DirectoryAgreement, TypeOK, Inodes, ROOT_DIR_INUM
    <3>2. ASSUME NEW i \in Files
          PROVE  freeinode_ts'[i] = TAKEN <=> \E e \in Slots : dir'[e].d_inumber = i
      <4>1. i \in Inodes
        BY DEF Files
      <4>2. CASE i = inum
        BY <2>1, <2>3, <2>5, <4>2 DEF TypeOK
      <4>3. CASE i # inum
        <5>1. freeinode_ts'[i] = freeinode_ts[i]
          BY <2>1, <2>3, <4>1, <4>3 DEF TypeOK
        <5>2. i # -1
          BY <4>1, SizesAssumption DEF Inodes
        <5>3. (\E e \in Slots : dir'[e].d_inumber = i) <=> (\E e \in Slots : dir[e].d_inumber = i)
          BY <2>2, <2>5, <4>3, <5>2
        <5> QED
          BY <5>1, <5>3 DEF DirInv, DirectoryAgreement
      <4> QED
        BY <4>2, <4>3
    <3>3. \A e, f \in Slots : dir'[e].d_inumber = dir'[f].d_inumber /\ e # f
                              => dir'[e].d_inumber = -1
      BY <2>4, <2>5 DEF DirInv, DirectoryAgreement
    <3> QED
      BY <3>1, <3>2, <3>3 DEF DirectoryAgreement
  <2>7. DirFilledInOrder'
    <3>1. \A e \in Slots : dir'[e].d_inumber # ROOT_DIR_INUM
      BY <2>3, <2>5 DEF DirInv, DirFilledInOrder
    <3>2. \A e, f \in Slots : e < f /\ dir'[f].d_inumber # -1 => dir'[e].d_inumber # -1
      BY <2>2, <2>3, <2>5 DEF DirInv, DirFilledInOrder
    <3> QED
      BY <3>1, <3>2 DEF DirFilledInOrder
  <2>8. HandlesLeadToFiles'
    <3>1. \E e \in Slots : dir'[e].d_inumber = inum
      BY <2>1, <2>5
    <3>2. \A e \in Slots : dir[e].d_inumber # -1 => dir'[e].d_inumber = dir[e].d_inumber
      BY <2>2, <2>5
    <3> QED
      BY <2>1, <3>1, <3>2, HandlesAfterOpen DEF DirInv
  <2> QED
    BY <2>6, <2>7, <2>8 DEF DirInv
<1> QED
  BY <1>1, <1>2

\* tfs_open of a file that exists keeps directory, i-node map and handles in
\* agreement.
LEMMA OpenExistingDirInv ==
    ASSUME TypeOK, DirInv, NEW path \in Paths, NEW flags, OpenExisting(path, flags)
    PROVE  DirInv'
<1> DEFINE inum == lookup(path)
<1>1. inum # -1 /\ UNCHANGED <<freeinode_ts, dir>>
  BY LookupInRange, SizesAssumption DEF OpenExisting, Inodes
<1>2. inum \in Files /\ \E e \in Slots : dir[e].d_inumber = inum
  BY <1>1, FoundIsFile
<1>3. HandlesLeadToFiles'
  <2>1. CASE UNCHANGED openFiles
    BY <1>1, <2>1 DEF DirInv, HandlesLeadToFiles, is_open, openFiles
  <2>2. CASE ~UNCHANGED openFiles
    <3>1. PICK offset : AddToOpenFileTable(inum, offset)
      BY <2>2 DEF OpenExisting
    <3> QED
      BY <1>1, <1>2, <3>1, HandlesAfterOpen DEF DirInv
  <2> QED
    BY <2>1, <2>2
<1> QED
  BY <1>1, <1>3 DEF DirInv, DirectoryAgreement, DirFilledInOrder

\* tfs_close, tfs_write and tfs_read leave the directory, the i-node map and
\* the i-node of every handle alone, and open no handle.
LEMMA FrameDirInv ==
    ASSUME DirInv, UNCHANGED <<freeinode_ts, dir>>,
           \A h \in Handles : open_file_table'[h].of_inumber = open_file_table[h].of_inumber,
           \A h \in Handles : is_open(h)' => is_open(h)
    PROVE  DirInv'
BY DEF DirInv, DirectoryAgreement, DirFilledInOrder, HandlesLeadToFiles

\* tfs_close opens no handle and leaves the rest of FrameDirInv alone.
LEMMA CloseFrame ==
    ASSUME TypeOK, NEW h, Close(h)
    PROVE  /\ UNCHANGED <<tables, open_file_table>>
           /\ \A k \in Handles : is_open(k)' => is_open(k)
<1>1. CASE is_open(h)
  BY <1>1 DEF Close, is_open, TypeOK, FREE, TAKEN
<1>2. CASE ~is_open(h)
  BY <1>2 DEF Close, openFiles, is_open
<1> QED
  BY <1>1, <1>2

\* tfs_write changes no handle but its offset.
LEMMA WriteFrame ==
    ASSUME TypeOK, NEW h, NEW buffer, Write(h, buffer)
    PROVE  /\ UNCHANGED <<freeinode_ts, dir, free_open_file_entries, open_file_count>>
           /\ \A k \in Handles : open_file_table'[k].of_inumber = open_file_table[k].of_inumber
<1>1. CASE UNCHANGED openFiles
  BY <1>1 DEF Write, openFiles
<1>2. CASE ~UNCHANGED openFiles
  <2>1. PICK after : open_file_table' = [open_file_table EXCEPT ![h].of_offset = after]
    BY <1>2 DEF Write
  <2>2. UNCHANGED <<freeinode_ts, dir, free_open_file_entries, open_file_count>>
    BY <1>2 DEF Write
  <2>3. \A k \in Handles : open_file_table'[k].of_inumber = open_file_table[k].of_inumber
    BY <2>1 DEF TypeOK
  <2> QED
    BY <2>2, <2>3
<1> QED
  BY <1>1, <1>2

\* tfs_read changes no handle but its offset.
LEMMA ReadFrame ==
    ASSUME TypeOK, NEW h, NEW len, Read(h, len)
    PROVE  /\ UNCHANGED <<tables, free_open_file_entries, open_file_count>>
           /\ \A k \in Handles : open_file_table'[k].of_inumber = open_file_table[k].of_inumber
<1>1. UNCHANGED <<tables, free_open_file_entries, open_file_count>>
  BY DEF Read
<1>2. CASE UNCHANGED open_file_table
  BY <1>1, <1>2
<1>3. CASE ~UNCHANGED open_file_table
  <2>1. PICK after : open_file_table' = [open_file_table EXCEPT ![h].of_offset = after]
    BY <1>3 DEF Read
  <2> QED
    BY <1>1, <2>1 DEF TypeOK
<1> QED
  BY <1>2, <1>3

\* Every operation keeps directory, i-node map and handles in agreement.
LEMMA DirInvStep ==
    ASSUME TypeOK, DirInv, [Next]_vars
    PROVE  DirInv'
<1>1. ASSUME NEW path \in Paths, NEW flags \in AllFlags, Open(path, flags)
      PROVE  DirInv'
  <2>1. CASE OpenMissing(path, flags)
    BY <2>1, FrameDirInv DEF OpenMissing, tables, openFiles, is_open
  <2> QED
    BY <1>1, <2>1, OpenExistingDirInv, OpenCreateDirInv DEF Open
<1>2. ASSUME NEW path \in Paths, Lookup(path) PROVE DirInv'
  BY <1>2, FrameDirInv DEF Lookup, tables, openFiles, is_open
<1>3. ASSUME NEW h, Close(h) PROVE DirInv'
  BY <1>3, CloseFrame, FrameDirInv DEF tables
<1>4. ASSUME NEW h, NEW buffer, Write(h, buffer) PROVE DirInv'
  BY <1>4, WriteFrame, FrameDirInv DEF is_open
<1>5. ASSUME NEW h, NEW len, Read(h, len) PROVE DirInv'
  BY <1>5, ReadFrame, FrameDirInv DEF tables, is_open
<1>6. CASE UNCHANGED vars
  BY <1>6, FrameDirInv DEF vars, tables, openFiles, is_open
<1> QED
  BY <1>1, <1>2, <1>3, <1>4, <1>5, <1>6 DEF Next

-----------------------------------------------------------------------------
(* The number of open files.                                               *)

OpenHandles == {h \in Handles : is_open(h)}

\* There are finitely many handles, so the open ones can be counted.
LEMMA OpenHandlesFinite == IsFiniteSet(OpenHandles)
<1>1. IsFiniteSet(Handles)
  BY FS_Interval, SizesAssumption DEF Handles
<1>2. OpenHandles \in SUBSET Handles
  BY DEF OpenHandles
<1> QED
  BY <1>1, <1>2, FS_Subset

\* add_to_open_file_table counts the handle it takes.
LEMMA CountAfterOpen ==
    ASSUME TypeOK, OpenFilesCounted, NEW inum, NEW offset,
           UNCHANGED openFiles \/ AddToOpenFileTable(inum, offset)
    PROVE  OpenFilesCounted'
<1>1. CASE UNCHANGED openFiles
  BY <1>1 DEF OpenFilesCounted, openFiles, is_open
<1>2. CASE ~UNCHANGED openFiles
  <2>1. PICK h \in Handles :
           /\ ~is_open(h)
           /\ free_open_file_entries' = [free_open_file_entries EXCEPT ![h] = TAKEN]
           /\ open_file_count' = open_file_count + 1
    BY <1>2, NewHandle
  <2>2. OpenHandles' = OpenHandles \cup {h}
    BY <2>1 DEF OpenHandles, is_open, TypeOK
  <2>3. Cardinality(OpenHandles \cup {h}) = Cardinality(OpenHandles) + 1
    BY <2>1, OpenHandlesFinite, FS_AddElement DEF OpenHandles
  <2> QED
    BY <2>1, <2>2, <2>3 DEF OpenFilesCounted, OpenHandles
<1> QED
  BY <1>1, <1>2

\* tfs_close counts down exactly when it frees a handle.
LEMMA CountAfterClose ==
    ASSUME TypeOK, OpenFilesCounted, NEW h, Close(h)
    PROVE  OpenFilesCounted'
<1>1. CASE is_open(h)
  <2>1. OpenHandles' = OpenHandles \ {h}
    BY <1>1 DEF Close, OpenHandles, is_open, TypeOK, FREE, TAKEN
  <2>2. Cardinality(OpenHandles \ {h}) = Cardinality(OpenHandles) - 1
    BY <1>1, OpenHandlesFinite, FS_RemoveElement DEF OpenHandles, is_open
  <2>3. open_file_count' = open_file_count - 1
    BY <1>1 DEF Close
  <2> QED
    BY <2>1, <2>2, <2>3 DEF OpenFilesCounted, OpenHandles
<1>2. CASE ~is_open(h)
  BY <1>2 DEF Close, OpenFilesCounted, openFiles, is_open
<1> QED
  BY <1>1, <1>2

\* Every operation keeps the count of open handles.
LEMMA CountStep ==
    ASSUME TypeOK, DirInv, OpenFilesCounted, [Next]_vars
    PROVE  OpenFilesCounted'
<1>1. ASSUME NEW path \in Paths, NEW flags \in AllFlags, Open(path, flags)
      PROVE  OpenFilesCounted'
  <2>1. CASE OpenMissing(path, flags)
    BY <2>1, CountAfterOpen DEF OpenMissing
  <2>2. CASE OpenExisting(path, flags)
    BY <2>2, CountAfterOpen DEF OpenExisting
  <2>3. CASE OpenCreate(path, flags)
    BY <2>3, CreationCases, CountAfterOpen
  <2> QED
    BY <1>1, <2>1, <2>2, <2>3 DEF Open
<1>2. ASSUME NEW path \in Paths, Lookup(path) PROVE OpenFilesCounted'
  BY <1>2, CountAfterOpen DEF Lookup
<1>3. ASSUME NEW h, NEW buffer, Write(h, buffer) PROVE OpenFilesCounted'
  BY <1>3, WriteFrame DEF OpenFilesCounted, is_open
<1>4. ASSUME NEW h, NEW len, Read(h, len) PROVE OpenFilesCounted'
  BY <1>4, ReadFrame DEF OpenFilesCounted, is_open
<1>5. CASE UNCHANGED vars
  BY <1>5, CountAfterOpen DEF vars
<1> QED
  BY <1>1, <1>2, <1>3, <1>4, <1>5, CountAfterClose DEF Next

-----------------------------------------------------------------------------
(* The blocks.                                                             *)

\* What a write finds: a file that is in the directory, and as its block the
\* one it holds or, when it is empty, one that no i-node holds.
LEMMA WrittenFile ==
    ASSUME TypeOK, DirInv, BlockOwnership, NEW h \in ReturnedHandles, h \in Handles
    PROVE  LET inum == open_file_table[h].of_inumber
               block == block_to_write(inode_table[inum])
           IN  /\ inum \in Files /\ freeinode_ts[inum] = TAKEN
               /\ inode_table[inum].i_size = 0 /\ block \in Blocks => free_blocks[block] = FREE
               /\ inode_table[inum].i_size > 0 => block \in Blocks /\ Holds(inum, block)
<1> DEFINE inum == open_file_table[h].of_inumber
           block == block_to_write(inode_table[inum])
<1>1. h # -1
  BY SizesAssumption DEF Handles
<1>2. inum # ROOT_DIR_INUM /\ inum \in Files
  BY <1>1 DEF ReturnedHandles, TypeOK, Files
<1>3. freeinode_ts[inum] = TAKEN
  BY <1>2 DEF DirInv, HandlesLeadToFiles, DirectoryAgreement
<1>4. CASE inode_table[inum].i_size = 0
  <2>1. free_blocks \in [0 .. DATA_BLOCKS - 1 -> {FREE, TAKEN}]
    BY DEF TypeOK, Blocks
  <2>2. block = FirstFree(free_blocks)
    BY <1>4 DEF block_to_write
  <2>3. block \in Blocks => free_blocks[block] = FREE
    BY <2>1, <2>2, FirstFreeIsFree, SizesAssumption DEF Blocks
  <2> QED
    BY <1>2, <1>3, <1>4, <2>3
<1>5. CASE inode_table[inum].i_size # 0
  <2>1. inode_table[inum].i_size > 0
    BY <1>2, <1>5, SizesAssumption DEF TypeOK, inode_t, Files
  <2>2. block = inode_table[inum].i_data_block
    BY <1>5 DEF block_to_write
  <2> QED
    BY <1>2, <1>3, <2>1, <2>2 DEF BlockOwnership, Holds, Files
<1> QED
  BY <1>4, <1>5

\* The outcomes of a write: it reaches no block, or it dies, or it writes n > 0
\* bytes to the block that WrittenFile describes.
LEMMA WriteCases ==
    ASSUME TypeOK, NEW h \in ReturnedHandles, NEW buffer \in Buffers, Write(h, buffer)
    PROVE  LET inum == open_file_table[h].of_inumber
               inode == inode_table[inum]
               block == block_to_write(inode)
           IN  \/ UNCHANGED <<inode_table, free_blocks, fs_data>>
               \/ /\ h \in Handles /\ inum \in Inodes /\ block \notin Blocks
                  /\ inode_table' = [inode_table EXCEPT ![inum].i_data_block = -1]
                  /\ UNCHANGED <<free_blocks, fs_data>>
               \/ /\ h \in Handles /\ inum \in Inodes /\ block \in Blocks
                  /\ free_blocks' = IF inode.i_size = 0
                                    THEN [free_blocks EXCEPT ![block] = TAKEN]
                                    ELSE free_blocks
                  /\ \E offset, n : fs_data' = Overwrite(block, offset, buffer, n)
                  /\ \E after \in Nat \ {0} :
                         inode_table' = [inode_table EXCEPT
                             ![inum] = inode_written(inode, block, after)]
<1> DEFINE inum == open_file_table[h].of_inumber
           offset == open_file_table[h].of_offset
           inode == inode_table[inum]
           to_write == bytes_to_write(Len(buffer), offset)
           block == block_to_write(inode)
<1>1. CASE ~(h \notin Handles \/ inum \notin Inodes) /\ to_write # 0 /\ block \notin Blocks
  BY <1>1 DEF Write
<1>2. CASE ~(h \notin Handles \/ inum \notin Inodes) /\ to_write # 0 /\ block \in Blocks
           /\ ~(to_write > BLOCK_SIZE)
  <2>1. offset \in 0 .. MAX_OFFSET /\ Len(buffer) \in Nat
    BY <1>2, BytesAssumption DEF TypeOK
  <2>2. to_write \in Nat
    BY <2>1, WriteArithmetic
  <2>3. offset + to_write \in Nat \ {0}
    BY <1>2, <2>1, <2>2, BytesAssumption
  <2>4. /\ free_blocks' = IF inode.i_size = 0
                          THEN [free_blocks EXCEPT ![block] = TAKEN]
                          ELSE free_blocks
        /\ fs_data' = Overwrite(block, offset, buffer, to_write)
        /\ inode_table' = [inode_table EXCEPT
               ![inum] = inode_written(inode, block, offset + to_write)]
    BY <1>2 DEF Write
  <2> QED
    BY <1>2, <2>3, <2>4
<1>3. CASE \/ h \notin Handles \/ inum \notin Inodes \/ to_write = 0
           \/ block \in Blocks /\ to_write > BLOCK_SIZE
  BY <1>3 DEF Write
<1> QED
  BY <1>1, <1>2, <1>3

\* When every i-node holds what it held and the map is the same, all is well.
LEMMA SameBlocks ==
    ASSUME BlockOwnership, UNCHANGED free_blocks,
           \A i \in Inodes : \A b : Holds(i, b)' <=> Holds(i, b)
    PROVE  BlockOwnership'
<1>1. /\ \A b \in Blocks : free_blocks'[b] = TAKEN <=> \E i \in Inodes : Holds(i, b)'
      /\ \A b \in Blocks, i, j \in Inodes : Holds(i, b)' /\ Holds(j, b)' => i = j
  BY DEF BlockOwnership
<1>2. ASSUME NEW i \in Inodes, freeinode_ts'[i] = TAKEN, inode_table'[i].i_size > 0
      PROVE  inode_table'[i].i_data_block \in Blocks
  <2>1. PICK b : b = inode_table'[i].i_data_block
    OBVIOUS
  <2>2. Holds(i, b)'
    BY <1>2, <2>1 DEF Holds
  <2>3. Holds(i, b)
    BY <2>2
  <2> QED
    BY <2>1, <2>3 DEF BlockOwnership, Holds
<1> QED
  BY <1>1, <1>2 DEF BlockOwnership

\* tfs_write keeps the block map true, whether it takes a block or reuses one.
LEMMA WriteBlockOwnership ==
    ASSUME TypeOK, DirInv, BlockOwnership,
           NEW h \in ReturnedHandles, NEW buffer \in Buffers, Write(h, buffer)
    PROVE  BlockOwnership'
<1> DEFINE inum == open_file_table[h].of_inumber
           inode == inode_table[inum]
           block == block_to_write(inode)
<1>1. UNCHANGED freeinode_ts
  BY WriteFrame
<1>2. CASE UNCHANGED <<inode_table, free_blocks, fs_data>>
  BY <1>1, <1>2, SameBlocks DEF Holds
<1>3. CASE /\ h \in Handles /\ inum \in Inodes /\ block \notin Blocks
           /\ inode_table' = [inode_table EXCEPT ![inum].i_data_block = -1]
           /\ UNCHANGED <<free_blocks, fs_data>>
  <2>1. ~(inode.i_size > 0)
    BY <1>3, WrittenFile
  <2>2. \A i \in Inodes : i # inum => inode_table'[i] = inode_table[i]
    BY <1>3 DEF TypeOK
  <2>3. inode_table'[inum].i_size = inode.i_size
    BY <1>3 DEF TypeOK, inode_t
  <2> QED
    BY <1>1, <1>3, <2>1, <2>2, <2>3, SameBlocks DEF Holds
<1>4. CASE /\ h \in Handles /\ inum \in Inodes /\ block \in Blocks
           /\ free_blocks' = IF inode.i_size = 0
                             THEN [free_blocks EXCEPT ![block] = TAKEN]
                             ELSE free_blocks
           /\ \E after \in Nat \ {0} :
                  inode_table' = [inode_table EXCEPT
                      ![inum] = inode_written(inode, block, after)]
  <2>1. PICK after \in Nat \ {0} :
           inode_table' = [inode_table EXCEPT ![inum] = inode_written(inode, block, after)]
    BY <1>4
  <2>2. \A i \in Inodes : i # inum => inode_table'[i] = inode_table[i]
    BY <2>1 DEF TypeOK
  <2>3. inode \in inode_t /\ inode_table'[inum] = inode_written(inode, block, after)
    BY <1>4, <2>1 DEF TypeOK
  <2>4. inode_table'[inum].i_size > 0 /\ inode_table'[inum].i_data_block = block
    BY <2>3, SizesAssumption DEF inode_written, inode_t
  <2>5. freeinode_ts[inum] = TAKEN
    BY <1>4, WrittenFile
  <2>6. CASE inode.i_size = 0
    <3>1. free_blocks[block] = FREE /\ free_blocks' = [free_blocks EXCEPT ![block] = TAKEN]
      BY <1>4, <2>6, WrittenFile
    <3>2. \A i \in Inodes : ~Holds(i, block)
      BY <1>4, <3>1 DEF BlockOwnership, FREE, TAKEN
    <3>3. \A i \in Inodes, b \in Blocks :
              Holds(i, b)' <=> (i = inum /\ b = block) \/ (i # inum /\ Holds(i, b))
      BY <1>1, <2>2, <2>4, <2>5 DEF Holds
    <3>4. \A b \in Blocks : ~Holds(inum, b)
      BY <2>6 DEF Holds
    <3>5. \A b \in Blocks : free_blocks'[b] = IF b = block THEN TAKEN ELSE free_blocks[b]
      BY <3>1 DEF TypeOK
    <3>6. \A b \in Blocks : free_blocks'[b] = TAKEN <=> \E i \in Inodes : Holds(i, b)'
      BY <1>4, <3>3, <3>4, <3>5 DEF BlockOwnership
    <3>7. \A b \in Blocks, i, j \in Inodes : Holds(i, b)' /\ Holds(j, b)' => i = j
      BY <3>2, <3>3 DEF BlockOwnership
    <3>8. \A i \in Inodes : freeinode_ts'[i] = TAKEN /\ inode_table'[i].i_size > 0
                            => inode_table'[i].i_data_block \in Blocks
      BY <1>1, <1>4, <2>2, <2>4 DEF BlockOwnership
    <3> QED
      BY <3>6, <3>7, <3>8 DEF BlockOwnership
  <2>7. CASE inode.i_size # 0
    <3>1. inode.i_size > 0 /\ Holds(inum, block) /\ UNCHANGED free_blocks
      BY <1>4, <2>3, <2>7, WrittenFile, SizesAssumption DEF inode_t
    <3>2. \A i \in Inodes : \A b : Holds(i, b)' <=> Holds(i, b)
      BY <1>1, <2>2, <2>4, <2>5, <3>1 DEF Holds
    <3> QED
      BY <3>1, <3>2, SameBlocks
  <2> QED
    BY <2>6, <2>7
<1> QED
  BY <1>2, <1>3, <1>4, WriteCases

\* Truncation gives back the block of the file, and no other.
LEMMA OpenExistingBlockOwnership ==
    ASSUME TypeOK, DirInv, BlockOwnership, NEW path \in Paths, NEW flags,
           OpenExisting(path, flags)
    PROVE  BlockOwnership'
<1> DEFINE inum == lookup(path)
           block == inode_table[inum].i_data_block
<1>1. UNCHANGED freeinode_ts
  BY DEF OpenExisting
<1>2. CASE UNCHANGED <<inode_table, free_blocks>>
  BY <1>1, <1>2, SameBlocks DEF Holds
<1>3. CASE ~UNCHANGED <<inode_table, free_blocks>>
  <2>1. /\ inode_table[inum].i_size > 0
        /\ free_blocks' = [free_blocks EXCEPT ![block] = FREE]
        /\ inode_table' = [inode_table EXCEPT ![inum].i_size = 0]
    BY <1>3 DEF OpenExisting, data_block_free
  <2>2. inum # -1
    BY LookupInRange, SizesAssumption DEF OpenExisting, Inodes
  <2>3. inum \in Inodes /\ freeinode_ts[inum] = TAKEN
    BY <2>2, FoundIsFile DEF Files
  <2>4. block \in Blocks /\ Holds(inum, block)
    BY <2>1, <2>3 DEF BlockOwnership, Holds
  <2>5. \A i \in Inodes : i # inum => inode_table'[i] = inode_table[i]
    BY <2>1 DEF TypeOK
  <2>6. inode_table'[inum].i_size = 0
    BY <2>1, <2>3 DEF TypeOK, inode_t
  <2>7. \A i \in Inodes, b \in Blocks : Holds(i, b)' <=> i # inum /\ Holds(i, b)
    BY <1>1, <2>5, <2>6 DEF Holds
  <2>8. \A b \in Blocks : free_blocks'[b] = IF b = block THEN FREE ELSE free_blocks[b]
    BY <2>1 DEF TypeOK
  <2>9. \A b \in Blocks : free_blocks'[b] = TAKEN <=> \E i \in Inodes : Holds(i, b)'
    <3>1. ASSUME NEW b \in Blocks PROVE free_blocks'[b] = TAKEN <=> \E i \in Inodes : Holds(i, b)'
      <4>1. CASE b = block
        BY <2>3, <2>4, <2>7, <2>8, <4>1 DEF BlockOwnership, FREE, TAKEN
      <4>2. CASE b # block
        <5>1. ~Holds(inum, b)
          BY <4>2 DEF Holds
        <5> QED
          BY <2>7, <2>8, <4>2, <5>1 DEF BlockOwnership
      <4> QED
        BY <4>1, <4>2
    <3> QED
      BY <3>1
  <2>10. \A b \in Blocks, i, j \in Inodes : Holds(i, b)' /\ Holds(j, b)' => i = j
    BY <2>7 DEF BlockOwnership
  <2>11. \A i \in Inodes : freeinode_ts'[i] = TAKEN /\ inode_table'[i].i_size > 0
                           => inode_table'[i].i_data_block \in Blocks
    BY <1>1, <2>5, <2>6 DEF BlockOwnership
  <2> QED
    BY <2>9, <2>10, <2>11 DEF BlockOwnership
<1> QED
  BY <1>2, <1>3

\* Creation, also one undone by inode_delete, touches no block.
LEMMA OpenCreateBlockOwnership ==
    ASSUME TypeOK, DirInv, BlockOwnership, NEW path \in Paths, NEW flags,
           OpenCreate(path, flags)
    PROVE  BlockOwnership'
<1>1. UNCHANGED free_blocks
  BY DEF OpenCreate
<1>2. CASE /\ UNCHANGED freeinode_ts
           /\ \A i \in Inodes : freeinode_ts[i] = TAKEN => inode_table'[i] = inode_table[i]
  BY <1>1, <1>2, SameBlocks DEF Holds
<1>3. ASSUME NEW inum \in Files, freeinode_ts[inum] = FREE,
             freeinode_ts' = [freeinode_ts EXCEPT ![inum] = TAKEN],
             inode_table' = [inode_table EXCEPT ![inum] = NewFile]
      PROVE  BlockOwnership'
  <2>1. inum \in Inodes
    BY DEF Files
  <2>2. \A i \in Inodes : i # inum =>
            inode_table'[i] = inode_table[i] /\ freeinode_ts'[i] = freeinode_ts[i]
    BY <1>3 DEF TypeOK
  <2>3. inode_table'[inum].i_size = 0
    BY <1>3, <2>1 DEF TypeOK, NewFile
  <2>4. \A i \in Inodes : \A b : Holds(i, b)' <=> Holds(i, b)
    BY <1>3, <2>2, <2>3 DEF Holds, FREE, TAKEN
  <2> QED
    BY <1>1, <2>4, SameBlocks
<1> QED
  BY <1>2, <1>3, CreationCases

\* Every operation keeps the block map true.
LEMMA BlockStep ==
    ASSUME TypeOK, DirInv, BlockOwnership, [Next]_vars
    PROVE  BlockOwnership'
<1>1. CASE UNCHANGED tables
  BY <1>1, SameBlocks DEF tables, Holds
<1>2. ASSUME NEW path \in Paths, NEW flags \in AllFlags, Open(path, flags)
      PROVE  BlockOwnership'
  BY <1>1, <1>2, OpenExistingBlockOwnership, OpenCreateBlockOwnership DEF Open, OpenMissing
<1>3. ASSUME NEW path \in Paths, Lookup(path) PROVE BlockOwnership'
  BY <1>1, <1>3 DEF Lookup
<1>4. ASSUME NEW h, Close(h) PROVE BlockOwnership'
  BY <1>1, <1>4, CloseFrame
<1>5. ASSUME NEW h, NEW len, Read(h, len) PROVE BlockOwnership'
  BY <1>1, <1>5, ReadFrame
<1>6. CASE UNCHANGED vars
  BY <1>1, <1>6 DEF vars
<1> QED
  BY <1>2, <1>3, <1>4, <1>5, <1>6, WriteBlockOwnership DEF Next

-----------------------------------------------------------------------------
(* The theorems.                                                           *)

\* tfs_init leaves IndInv true.
LEMMA InitIndInv ==
    ASSUME Init
    PROVE  IndInv
<1> SUFFICES ASSUME TypeOK PROVE IndInv
  BY InitTyped
<1>1. DirectoryAgreement
  BY SizesAssumption DEF Init, DirectoryAgreement, Files, Inodes, FREE, TAKEN, ROOT_DIR_INUM
<1>2. DirFilledInOrder /\ HandlesLeadToFiles
  BY DEF Init, DirFilledInOrder, HandlesLeadToFiles, is_open, FREE, TAKEN, ROOT_DIR_INUM
<1>3. BlockOwnership
  <2>1. 0 \in Inodes /\ 0 \in Blocks
    BY SizesAssumption DEF Inodes, Blocks
  <2>2. \A i \in Inodes : freeinode_ts[i] = TAKEN <=> i = 0
    BY DEF Init, FREE, TAKEN, ROOT_DIR_INUM
  <2>3. inode_table[0].i_size > 0 /\ inode_table[0].i_data_block = 0
    BY <2>1, SizesAssumption DEF Init, ROOT_DIR_INUM
  <2>4. \A i \in Inodes : \A b : Holds(i, b) <=> i = 0 /\ b = 0
    BY <2>1, <2>2, <2>3 DEF Holds
  <2>5. \A b \in Blocks : free_blocks[b] = TAKEN <=> b = 0
    BY DEF Init, FREE, TAKEN
  <2> QED
    BY <2>1, <2>2, <2>3, <2>4, <2>5 DEF BlockOwnership
<1>4. OpenFilesCounted
  <2>1. {h \in Handles : is_open(h)} = {}
    BY DEF Init, is_open, FREE, TAKEN
  <2> QED
    BY <2>1, FS_EmptySet DEF Init, OpenFilesCounted
<1> QED
  BY <1>1, <1>2, <1>3, <1>4 DEF IndInv

\* Every operation keeps IndInv.
LEMMA IndInvStep ==
    ASSUME IndInv, [Next]_vars
    PROVE  IndInv'
BY TypeStep, DirInvStep, BlockStep, CountStep DEF IndInv, DirInv

\* IndInv holds for every size of the tables, set of paths and caller: the
\* inductive invariant from which the theorems below follow.
THEOREM IndInvCorrect == Spec => []IndInv
BY InitIndInv, IndInvStep, PTL DEF Spec

\* No block is lost, shared or used while free, for every disk and caller.
THEOREM BlockOwnershipCorrect == Spec => []BlockOwnership
<1>1. IndInv => BlockOwnership
  BY DEF IndInv
<1> QED
  BY <1>1, IndInvCorrect, PTL

\* I-node map and directory agree, for every disk and every set of paths.
THEOREM DirectoryAgreementCorrect == Spec => []DirectoryAgreement
<1>1. IndInv => DirectoryAgreement
  BY DEF IndInv
<1> QED
  BY <1>1, IndInvCorrect, PTL

\* The count that tfs_destroy_after_all_closed waits on is exact.
THEOREM OpenFilesCountedCorrect == Spec => []OpenFilesCounted
<1>1. IndInv => OpenFilesCounted
  BY DEF IndInv
<1> QED
  BY <1>1, IndInvCorrect, PTL

-----------------------------------------------------------------------------
(* The action properties.                                                  *)

\* Entries only fill empty places behind the used ones, so the first entry of a
\* name stays the first.
LEMMA NameStep ==
    ASSUME TypeOK, DirInv, [Next]_vars, NEW n \in SubNames, find_in_dir(dir, n) # -1
    PROVE  find_in_dir(dir', n) = find_in_dir(dir, n)
<1>1. CASE UNCHANGED dir
  BY <1>1
<1>2. CASE ~UNCHANGED dir
  <2> DEFINE entry == FirstEmptyEntry
  <2>1. PICK path \in Paths, flags \in AllFlags : OpenCreate(path, flags)
    BY <1>2, CloseFrame, WriteFrame, ReadFrame
    DEF Next, Open, OpenExisting, OpenMissing, Lookup, vars, tables
  <2>2. PICK inum \in Files :
           /\ entry \in Slots
           /\ dir' = [dir EXCEPT ![entry] =
                  [d_inumber |-> inum, d_name |-> Stored[path.sub]]]
    BY <1>2, <2>1, CreationCases
  <2>3. dir[entry].d_inumber = -1
    BY <2>2, EntryIsEmpty, SizesAssumption DEF Slots
  <2>4. \A e \in Slots : dir[e].d_inumber # -1 => e < entry /\ dir'[e] = dir[e]
    BY <2>2, <2>3, SizesAssumption DEF DirInv, DirFilledInOrder, Slots, TypeOK
  <2> HIDE DEF entry
  <2>5. PICK e \in Matching(dir, n) :
           find_in_dir(dir, n) = dir[e].d_inumber /\ \A k \in Matching(dir, n) : e <= k
    BY FoundInDir
  <2>6. e \in Slots /\ e < entry /\ dir'[e] = dir[e] /\ e \in Matching(dir', n)
    BY <2>4, <2>5 DEF Matching
  <2>7. PICK f \in Matching(dir', n) :
           find_in_dir(dir', n) = dir'[f].d_inumber /\ \A k \in Matching(dir', n) : f <= k
    BY <2>6, FoundInDir
  <2>8. f \in Slots /\ f <= e /\ f # entry
    BY <2>2, <2>6, <2>7, SizesAssumption DEF Matching, Slots
  <2>9. f \in Matching(dir, n)
    BY <2>2, <2>7, <2>8 DEF Matching, TypeOK
  <2>10. f = e
    BY <2>5, <2>6, <2>8, <2>9, SizesAssumption DEF Slots
  <2> QED
    BY <2>5, <2>6, <2>7, <2>10
<1> QED
  BY <1>1, <1>2

\* For every disk and all paths, valid or not: a name keeps its i-node.
THEOREM NameBindingStableCorrect == Spec => NameBindingStable
<1>1. IndInv /\ [Next]_vars =>
          [\A n \in SubNames :
              find_in_dir(dir, n) # -1 => find_in_dir(dir', n) = find_in_dir(dir, n)]_vars
  BY NameStep DEF IndInv, DirInv
<1> QED
  BY <1>1, IndInvCorrect, PTL DEF Spec, NameBindingStable

\* A file whose i-node and block are untouched has the same contents.
LEMMA SameContents ==
    ASSUME NEW i \in Files, inode_table'[i] = inode_table[i],
           LET b == inode_table[i].i_data_block
           IN  inode_table[i].i_size = 0 \/ fs_data'[b] = fs_data[b]
    PROVE  Contents(i)' = Contents(i)
BY DEF Contents

\* tfs_write leaves the contents of every other file as they were.
LEMMA WriteKeepsOthers ==
    ASSUME TypeOK, DirInv, BlockOwnership,
           NEW h \in ReturnedHandles, NEW buffer \in Buffers, Write(h, buffer),
           NEW i \in Files, freeinode_ts[i] = TAKEN,
           open_file_table[h].of_inumber # i
    PROVE  Contents(i)' = Contents(i)
<1> DEFINE inum == open_file_table[h].of_inumber
           block == block_to_write(inode_table[inum])
           own == inode_table[i].i_data_block
<1>1. inode_table'[i] = inode_table[i]
  <2>1. \/ UNCHANGED inode_table
        \/ inode_table' = [inode_table EXCEPT ![inum].i_data_block = -1]
        \/ \E inode : inode_table' = [inode_table EXCEPT ![inum] = inode]
    BY WriteCases
  <2>2. i \in DOMAIN inode_table /\ i # inum
    BY DEF TypeOK, Files
  <2> QED
    BY <2>1, <2>2
<1>2. CASE UNCHANGED fs_data
  BY <1>1, <1>2, SameContents
<1>3. CASE ~UNCHANGED fs_data /\ inode_table[i].i_size # 0
  <2>1. h \in Handles /\ block \in Blocks
        /\ \E offset, n : fs_data' = Overwrite(block, offset, buffer, n)
    BY <1>3, WriteCases
  <2>2. inode_table[i].i_size > 0 /\ i \in Inodes
    BY <1>3, SizesAssumption DEF TypeOK, inode_t, Files
  <2>3. own \in Blocks /\ Holds(i, own) /\ free_blocks[own] = TAKEN
    BY <2>2 DEF BlockOwnership, Holds
  <2>4. own # block
    <3>1. CASE inode_table[inum].i_size = 0
      BY <2>1, <2>3, <3>1, WrittenFile DEF FREE, TAKEN
    <3>2. CASE inode_table[inum].i_size # 0
      <4>1. inum \in Files
        BY <2>1, WrittenFile
      <4>2. inode_table[inum].i_size > 0
        BY <3>2, <4>1, SizesAssumption DEF TypeOK, inode_t, Files
      <4>3. Holds(inum, block)
        BY <2>1, <4>2, WrittenFile
      <4> QED
        BY <2>1, <2>2, <2>3, <4>1, <4>3 DEF BlockOwnership, Files
    <3> QED
      BY <3>1, <3>2
  <2>5. fs_data'[own] = fs_data[own]
    BY <2>1, <2>3, <2>4 DEF Overwrite, TypeOK
  <2> QED
    BY <1>1, <2>5, SameContents
<1> QED
  BY <1>1, <1>2, <1>3, SameContents

\* Every operation leaves all files but one as they were.
LEMMA IsolationStep ==
    ASSUME TypeOK, DirInv, BlockOwnership, [Next]_vars,
           NEW i \in Files, NEW j \in Files, i # j,
           freeinode_ts[i] = TAKEN, freeinode_ts[j] = TAKEN
    PROVE  Contents(i)' = Contents(i) \/ Contents(j)' = Contents(j)
<1>1. CASE UNCHANGED tables
  BY <1>1, SameContents DEF tables
<1>2. ASSUME NEW path \in Paths, NEW flags \in AllFlags, OpenExisting(path, flags)
      PROVE  Contents(i)' = Contents(i) \/ Contents(j)' = Contents(j)
  <2>1. UNCHANGED fs_data
    BY <1>2 DEF OpenExisting
  <2>2. inode_table'[i] = inode_table[i] \/ inode_table'[j] = inode_table[j]
    BY <1>2 DEF OpenExisting, TypeOK, Files
  <2> QED
    BY <2>1, <2>2, SameContents
<1>3. ASSUME NEW path \in Paths, NEW flags \in AllFlags, OpenCreate(path, flags)
      PROVE  Contents(i)' = Contents(i)
  <2>1. UNCHANGED fs_data
    BY <1>3 DEF OpenCreate
  <2>2. inode_table'[i] = inode_table[i]
    BY <1>3, CreationCases DEF TypeOK, Files, FREE, TAKEN
  <2> QED
    BY <2>1, <2>2, SameContents
<1>4. ASSUME NEW h \in ReturnedHandles, NEW buffer \in Buffers, Write(h, buffer)
      PROVE  Contents(i)' = Contents(i) \/ Contents(j)' = Contents(j)
  BY <1>4, WriteKeepsOthers
<1>5. ASSUME NEW h, Close(h) PROVE UNCHANGED tables
  BY <1>5, CloseFrame
<1>6. ASSUME NEW h, NEW len, Read(h, len) PROVE UNCHANGED tables
  BY <1>6, ReadFrame
<1> QED
  BY <1>1, <1>2, <1>3, <1>4, <1>5, <1>6 DEF Next, Open, OpenMissing, Lookup, vars

\* For every disk and every caller: no step changes two files.
THEOREM WriteIsolationCorrect == Spec => WriteIsolation
<1>1. IndInv /\ [Next]_vars =>
          [\A i, j \in Files :
              freeinode_ts[i] = TAKEN /\ freeinode_ts[j] = TAKEN /\ i # j
              => Contents(i)' = Contents(i) \/ Contents(j)' = Contents(j)]_vars
  BY IsolationStep DEF IndInv, DirInv
<1> QED
  BY <1>1, IndInvCorrect, PTL DEF Spec, WriteIsolation
=============================================================================
