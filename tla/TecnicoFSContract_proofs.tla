----------------------- MODULE TecnicoFSContract_proofs -----------------------
(***************************************************************************)
(* P2/fs implements FileStore for callers that keep the rules, for every    *)
(* size of its tables, every set of names and every buffer.  The proof goes *)
(* from ContractInv, which is inductive, to what each operation does in     *)
(* terms of names and bytes, and from there to the steps of FileStore.      *)
(***************************************************************************)
EXTENDS TecnicoFSContract, TecnicoFSSafety_proofs, SequenceTheorems

ContractInv == IndInv /\ OffsetsWithinFile /\ NamesLeadToFiles

-----------------------------------------------------------------------------
(* The rules restrict the callers of TecnicoFS.                             *)

\* An open handle was returned by tfs_open, so every step under the rules is a
\* step of TecnicoFS.
LEMMA ContractStep ==
    ASSUME TypeOK, DirInv, [ContractNext]_vars
    PROVE  [Next]_vars
<1>1. UsableHandles \subseteq ReturnedHandles
  BY DEF UsableHandles, ReturnedHandles, DirInv, HandlesLeadToFiles
<1> QED
  BY <1>1 DEF ContractNext, Next

\* An open handle is at a place inside its file, and a file that has bytes has
\* its own block.
LEMMA OpenHandleInFile ==
    ASSUME ContractInv, NEW h \in Handles, is_open(h)
    PROVE  LET inum == open_file_table[h].of_inumber
               offset == open_file_table[h].of_offset
               inode == inode_table[inum]
           IN  /\ h \in ReturnedHandles /\ inum \in Files /\ inum \in Inodes
               /\ freeinode_ts[inum] = TAKEN
               /\ inode.i_size \in 0 .. BLOCK_SIZE
               /\ offset \in 0 .. inode.i_size /\ offset \in 0 .. MAX_OFFSET
               /\ inode.i_size > 0 => inode.i_data_block \in Blocks
<1> DEFINE inum == open_file_table[h].of_inumber
           offset == open_file_table[h].of_offset
<1>1. TypeOK /\ DirInv /\ BlockOwnership /\ OffsetsWithinFile
  BY DEF ContractInv, IndInv, DirInv
<1>2. inum \in Inodes /\ offset \in 0 .. MAX_OFFSET
  BY <1>1 DEF TypeOK
<1>3. inum # ROOT_DIR_INUM /\ inum \in Files /\ h \in ReturnedHandles
  BY <1>1, <1>2 DEF DirInv, HandlesLeadToFiles, Files, ReturnedHandles
<1>4. freeinode_ts[inum] = TAKEN
  BY <1>1, <1>3 DEF DirInv, HandlesLeadToFiles, DirectoryAgreement
<1>5. inode_table[inum].i_size \in 0 .. BLOCK_SIZE
  BY <1>1, <1>2 DEF TypeOK, inode_t
<1>6. offset <= inode_table[inum].i_size
  BY <1>1 DEF OffsetsWithinFile
<1>7. offset \in 0 .. inode_table[inum].i_size
  BY <1>2, <1>5, <1>6, BytesAssumption, SizesAssumption
<1>8. inode_table[inum].i_size > 0 => inode_table[inum].i_data_block \in Blocks
  BY <1>1, <1>2, <1>4 DEF BlockOwnership
<1> QED
  BY <1>2, <1>3, <1>4, <1>5, <1>7, <1>8

-----------------------------------------------------------------------------
(* What each operation does under the rules.                               *)

\* add_to_open_file_table answers -1 when every handle is open, else with a
\* handle that was not.
LEMMA HandleCases ==
    ASSUME TypeOK, NEW inum, NEW offset, AddToOpenFileTable(inum, offset)
    PROVE  \/ (\A h \in Handles : is_open(h)) /\ Reply(-1) /\ UNCHANGED openFiles
           \/ \E h \in Handles :
                 /\ ~is_open(h) /\ Reply(h)
                 /\ free_open_file_entries' = [free_open_file_entries EXCEPT ![h] = TAKEN]
                 /\ open_file_table' = [open_file_table EXCEPT
                        ![h] = [of_inumber |-> inum, of_offset |-> offset]]
<1> DEFINE h == FirstFree(free_open_file_entries)
<1>1. free_open_file_entries \in [0 .. MAX_OPEN_FILES - 1 -> {FREE, TAKEN}]
  BY DEF TypeOK, Handles
<1>2. CASE h = -1
  <2>1. \A k \in Handles : free_open_file_entries[k] = TAKEN
    BY <1>1, <1>2, FirstFreeIsFree, SizesAssumption DEF Handles
  <2> QED
    BY <1>2, <2>1 DEF AddToOpenFileTable, is_open
<1>3. CASE h # -1
  <2>1. h \in Handles /\ free_open_file_entries[h] = FREE
    BY <1>1, <1>3, FirstFreeIsFree, SizesAssumption DEF Handles
  <2>2. ~is_open(h)
    BY <2>1 DEF is_open, FREE, TAKEN
  <2> QED
    BY <1>3, <2>1, <2>2 DEF AddToOpenFileTable
<1> QED
  BY <1>2, <1>3

\* tfs_open of a file that exists empties it when asked, which no directory or
\* block stops, and opens it at its start or at its new end.
LEMMA ExistingOpened ==
    ASSUME ContractInv, NEW path \in Paths, NEW flags, OpenExisting(path, flags)
    PROVE  LET inum == lookup(path)
           IN  /\ inum \in Files /\ inum \in Inodes /\ freeinode_ts[inum] = TAKEN
               /\ UNCHANGED <<freeinode_ts, dir, fs_data, faulted>>
               /\ \A i \in Inodes : i # inum => inode_table'[i] = inode_table[i]
               /\ "TFS_O_TRUNC" \in flags => inode_table'[inum].i_size = 0
               /\ "TFS_O_TRUNC" \notin flags => UNCHANGED inode_table
               /\ inode_table'[inum].i_size \in 0 .. BLOCK_SIZE
               /\ AddToOpenFileTable(inum,
                      IF "TFS_O_APPEND" \in flags THEN inode_table'[inum].i_size ELSE 0)
<1> DEFINE inum == lookup(path)
           size == inode_table[inum].i_size
           block == inode_table[inum].i_data_block
           truncates == "TFS_O_TRUNC" \in flags /\ size > 0
<1>1. TypeOK /\ DirInv /\ BlockOwnership
  BY DEF ContractInv, IndInv, DirInv
<1>2. inum # -1
  BY SizesAssumption DEF OpenExisting
<1>3. inum \in Files /\ inum \in Inodes /\ freeinode_ts[inum] = TAKEN
  BY <1>1, <1>2, FoundIsFile DEF Files
<1>4. size \in 0 .. BLOCK_SIZE
  BY <1>1, <1>3 DEF TypeOK, inode_t
<1>5. UNCHANGED <<freeinode_ts, dir, fs_data, faulted>>
  BY DEF OpenExisting
<1>6. size > 0 => block \in Blocks
  BY <1>1, <1>3 DEF BlockOwnership
<1>7. AddToOpenFileTable(inum,
          open_offset(flags, size, IF truncates THEN 0 ELSE size))
  BY <1>6 DEF OpenExisting
<1>8. CASE truncates
  <2>1. inode_table' = [inode_table EXCEPT ![inum].i_size = 0]
    BY <1>6, <1>8 DEF OpenExisting
  <2>2. inode_table'[inum].i_size = 0
    BY <1>1, <1>3, <2>1 DEF TypeOK, inode_t
  <2>3. \A i \in Inodes : i # inum => inode_table'[i] = inode_table[i]
    BY <1>1, <2>1 DEF TypeOK
  <2>4. AddToOpenFileTable(inum,
            IF "TFS_O_APPEND" \in flags THEN inode_table'[inum].i_size ELSE 0)
    BY <1>7, <1>8, <2>2 DEF open_offset
  <2> QED
    BY <1>3, <1>5, <1>8, <2>2, <2>3, <2>4, SizesAssumption
<1>9. CASE ~truncates
  <2>1. inode_table' = inode_table
    BY <1>9 DEF OpenExisting
  <2>2. "TFS_O_TRUNC" \in flags => inode_table'[inum].i_size = 0
    BY <1>4, <1>9, <2>1, SizesAssumption
  <2>3. AddToOpenFileTable(inum,
            IF "TFS_O_APPEND" \in flags THEN inode_table'[inum].i_size ELSE 0)
    BY <1>7, <1>9, <2>1 DEF open_offset
  <2> QED
    BY <1>3, <1>4, <1>5, <2>1, <2>2, <2>3
<1> QED
  BY <1>8, <1>9

\* tfs_read through an open handle copies what is left of the file, or as much
\* as was asked for.
LEMMA ReadOutcome ==
    ASSUME ContractInv, NEW h \in Handles, is_open(h), NEW len \in Lens, Read(h, len)
    PROVE  LET inum == open_file_table[h].of_inumber
               offset == open_file_table[h].of_offset
               n == FS!Least(len, inode_table[inum].i_size - offset)
           IN  /\ n \in Nat /\ offset + n <= inode_table[inum].i_size
               /\ reply' = [ret |-> n,
                      data |-> IF n = 0 THEN <<>>
                               ELSE BytesAt(inode_table[inum].i_data_block, offset, n)]
               /\ open_file_table' = [open_file_table EXCEPT ![h].of_offset = offset + n]
               /\ UNCHANGED <<tables, free_open_file_entries, open_file_count, faulted>>
<1> DEFINE inum == open_file_table[h].of_inumber
           offset == open_file_table[h].of_offset
           inode == inode_table[inum]
           n == FS!Least(len, inode.i_size - offset)
<1>1. /\ inum \in Inodes /\ inode.i_size \in 0 .. BLOCK_SIZE
      /\ offset \in 0 .. inode.i_size /\ offset \in 0 .. MAX_OFFSET
      /\ inode.i_size > 0 => inode.i_data_block \in Blocks
  BY OpenHandleInFile
<1>2. len \in Nat
  BY BytesAssumption
<1>3. n = bytes_to_read(inode.i_size, offset, len)
  BY <1>1, <1>2, SizesAssumption, BytesAssumption DEF bytes_to_read, Minus, FS!Least
<1>4. n \in Nat /\ offset + n <= inode.i_size
  BY <1>1, <1>2, SizesAssumption DEF FS!Least
<1>5. UNCHANGED <<tables, free_open_file_entries, open_file_count, faulted>>
  BY DEF Read
<1> HIDE DEF n
<1>6. CASE n = 0
  <2>1. reply' = [ret |-> 0, data |-> <<>>] /\ UNCHANGED open_file_table
    BY <1>1, <1>3, <1>6 DEF Read, Reply
  <2>2. open_file_table = [open_file_table EXCEPT ![h].of_offset = offset + n]
    BY <1>1, <1>6, SizesAssumption DEF ContractInv, IndInv, TypeOK
  <2> QED
    BY <1>4, <1>5, <1>6, <2>1, <2>2 DEF n
<1>7. CASE n # 0
  <2>1. inode.i_data_block \in Blocks
    BY <1>1, <1>4, <1>7, SizesAssumption
  <2>2. /\ reply' = [ret |-> n, data |-> BytesAt(inode.i_data_block, offset, n)]
        /\ open_file_table' = [open_file_table EXCEPT ![h].of_offset = offset + n]
    BY <1>1, <1>3, <1>7, <2>1 DEF Read
  <2> QED
    BY <1>4, <1>5, <1>7, <2>2 DEF n
<1> QED
  BY <1>6, <1>7

\* tfs_write through an open handle writes what fits in the block, to the
\* file's own block, or finds the file empty and the disk full.
LEMMA WriteOutcome ==
    ASSUME ContractInv, NEW h \in Handles, is_open(h), NEW buffer \in Buffers,
           Write(h, buffer)
    PROVE  LET inum == open_file_table[h].of_inumber
               offset == open_file_table[h].of_offset
               size == inode_table[inum].i_size
               block == block_to_write(inode_table[inum])
               n == FS!Least(Len(buffer), BLOCK_SIZE - offset)
           IN  /\ UNCHANGED <<freeinode_ts, dir, free_open_file_entries, faulted>>
               /\ \A i \in Inodes : i # inum => inode_table'[i] = inode_table[i]
               /\ n \in Nat /\ n <= Len(buffer) /\ offset + n <= BLOCK_SIZE
               /\ \/ /\ size = 0 /\ inode_table'[inum].i_size = size
                     /\ Reply(-1) /\ UNCHANGED <<fs_data, open_file_table>>
                  \/ /\ n = 0
                     /\ Reply(n) /\ UNCHANGED <<inode_table, fs_data, open_file_table>>
                  \/ /\ n > 0 /\ block \in Blocks
                     /\ size > 0 => block = inode_table[inum].i_data_block
                     /\ inode_table'[inum].i_data_block = block
                     /\ inode_table'[inum].i_size =
                            IF offset + n > size THEN offset + n ELSE size
                     /\ fs_data' = Overwrite(block, offset, buffer, n)
                     /\ Reply(n)
                     /\ open_file_table' =
                            [open_file_table EXCEPT ![h].of_offset = offset + n]
<1> DEFINE inum == open_file_table[h].of_inumber
           offset == open_file_table[h].of_offset
           inode == inode_table[inum]
           block == block_to_write(inode)
           n == FS!Least(Len(buffer), BLOCK_SIZE - offset)
<1>1. /\ inum \in Inodes /\ h \in ReturnedHandles /\ inode.i_size \in 0 .. BLOCK_SIZE
      /\ offset \in 0 .. inode.i_size /\ offset \in 0 .. MAX_OFFSET
      /\ inode.i_size > 0 => inode.i_data_block \in Blocks
  BY OpenHandleInFile
<1>2. TypeOK /\ inode \in inode_t
  BY <1>1 DEF ContractInv, IndInv, TypeOK
<1>3. Len(buffer) \in Nat
  BY BytesAssumption
<1>4. n = bytes_to_write(Len(buffer), offset)
  <2>1. PICK len \in Nat, o \in 0 .. BLOCK_SIZE : len = Len(buffer) /\ o = offset
    BY <1>1, <1>3, SizesAssumption
  <2>2. FS!Least(len, BLOCK_SIZE - o) = bytes_to_write(len, o)
    BY SizesAssumption DEF bytes_to_write, Minus, FS!Least
  <2> QED
    BY <2>1, <2>2
<1>5. n \in Nat /\ n <= Len(buffer) /\ offset + n <= BLOCK_SIZE
  BY <1>1, <1>3, SizesAssumption DEF FS!Least
<1>6. UNCHANGED <<freeinode_ts, dir, free_open_file_entries>>
  BY <1>2, WriteFrame
<1> HIDE DEF n
<1>7. CASE n = 0
  <2>1. Reply(0) /\ UNCHANGED <<inode_table, fs_data, openFiles, faulted>>
    BY <1>1, <1>4, <1>7 DEF Write
  <2> QED
    BY <1>5, <1>6, <1>7, <2>1 DEF n, openFiles
<1>8. CASE n # 0 /\ block \notin Blocks
  <2>1. /\ inode_table' = [inode_table EXCEPT ![inum].i_data_block = -1]
        /\ Reply(-1) /\ UNCHANGED <<fs_data, openFiles, faulted>>
    BY <1>1, <1>4, <1>8 DEF Write
  <2>2. inode.i_size = 0
    BY <1>1, <1>8, SizesAssumption DEF block_to_write
  <2>3. inode_table'[inum].i_size = inode.i_size
    BY <1>1, <1>2, <2>1 DEF TypeOK, inode_t
  <2>4. \A i \in Inodes : i # inum => inode_table'[i] = inode_table[i]
    BY <1>2, <2>1 DEF TypeOK
  <2> QED
    BY <1>5, <1>6, <2>1, <2>2, <2>3, <2>4 DEF n, openFiles
<1>9. CASE n # 0 /\ block \in Blocks
  <2>1. ~(n > BLOCK_SIZE)
    BY <1>1, <1>5, SizesAssumption
  <2>2. /\ fs_data' = Overwrite(block, offset, buffer, n)
        /\ open_file_table' = [open_file_table EXCEPT ![h].of_offset = offset + n]
        /\ inode_table' = [inode_table EXCEPT ![inum] = inode_written(inode, block, offset + n)]
        /\ Reply(n) /\ UNCHANGED faulted
    BY <1>1, <1>4, <1>9, <2>1 DEF Write
  <2>3. inode_table'[inum] = inode_written(inode, block, offset + n)
    BY <1>1, <1>2, <2>2 DEF TypeOK
  <2>4. /\ inode_table'[inum].i_data_block = block
        /\ inode_table'[inum].i_size = IF offset + n > inode.i_size THEN offset + n ELSE inode.i_size
    BY <1>2, <2>3 DEF inode_written, inode_t
  <2>5. \A i \in Inodes : i # inum => inode_table'[i] = inode_table[i]
    BY <1>2, <2>2 DEF TypeOK
  <2>6. inode.i_size > 0 => block = inode.i_data_block
    BY <1>1, SizesAssumption DEF block_to_write
  <2>7. n > 0
    BY <1>5, <1>9
  <2> QED
    BY <1>5, <1>6, <1>9, <2>2, <2>4, <2>5, <2>6, <2>7 DEF n
<1> QED
  BY <1>7, <1>8, <1>9

\* An open that creates a file fails and leaves every file as it was, or adds
\* one entry for a free i-node in step with it, under a name no entry has.
LEMMA FileCreated ==
    ASSUME ContractInv, NEW path \in Paths, NEW flags,
           CreatesStorable(path, flags), OpenCreate(path, flags)
    PROVE  /\ UNCHANGED <<fs_data, faulted>>
           /\ \/ /\ UNCHANGED <<freeinode_ts, dir, openFiles>> /\ Reply(-1)
                 /\ \A i \in Inodes :
                        freeinode_ts[i] = TAKEN => inode_table'[i] = inode_table[i]
              \/ \E entry \in Slots, inum \in Files :
                    /\ dir[entry].d_inumber = -1 /\ inum = entry + 1
                    /\ freeinode_ts[inum] = FREE
                    /\ freeinode_ts' = [freeinode_ts EXCEPT ![inum] = TAKEN]
                    /\ inode_table' = [inode_table EXCEPT ![inum] = NewFile]
                    /\ dir' = [dir EXCEPT ![entry] =
                           [d_inumber |-> inum, d_name |-> path.sub]]
                    /\ \A e \in UsedSlots : dir[e].d_name # path.sub
                    /\ AddToOpenFileTable(inum, 0)
<1> DEFINE inum == FirstFree(freeinode_ts)
           entry == FirstEmptyEntry
<1>1. TypeOK /\ DirInv /\ NamesLeadToFiles
  BY DEF ContractInv, IndInv, DirInv
<1>2. UNCHANGED <<fs_data, faulted>> /\ lookup(path) = -1 /\ "TFS_O_CREAT" \in flags
  BY DEF OpenCreate
<1>3. path.sub # EmptyName /\ Stored[path.sub] = path.sub /\ find_in_dir(dir, path.sub) = -1
  BY <1>2 DEF CreatesStorable, valid_pathname, lookup
<1>4. \A e \in UsedSlots : dir[e].d_name # path.sub
  BY <1>3, FoundInDir DEF UsedSlots, Matching
<1>5. freeinode_ts \in [0 .. INODE_TABLE_SIZE - 1 -> {FREE, TAKEN}]
  BY <1>1 DEF TypeOK, Inodes
<1>6. CASE inum = -1
  BY <1>2, <1>6 DEF OpenCreate
<1>7. CASE inum # -1 /\ entry = -1
  <2>1. inum \in Inodes /\ freeinode_ts[inum] = FREE
    BY <1>5, <1>7, FirstFreeIsFree, SizesAssumption DEF Inodes
  <2>2. /\ inode_table' = [inode_table EXCEPT ![inum] = NewFile]
        /\ freeinode_ts' = [freeinode_ts EXCEPT ![inum] = FREE]
        /\ UNCHANGED <<dir, openFiles>> /\ Reply(-1)
    BY <1>7 DEF OpenCreate, inode_delete
  <2>3. freeinode_ts' = freeinode_ts
    BY <1>1, <2>1, <2>2 DEF TypeOK
  <2>4. \A i \in Inodes : freeinode_ts[i] = TAKEN => inode_table'[i] = inode_table[i]
    BY <1>1, <2>1, <2>2 DEF TypeOK, FREE, TAKEN
  <2> QED
    BY <1>2, <2>2, <2>3, <2>4
<1>8. CASE inum # -1 /\ entry # -1
  <2>1. /\ inum \in Inodes /\ freeinode_ts[inum] = FREE
        /\ \A i \in Inodes : i < inum => freeinode_ts[i] = TAKEN
    BY <1>5, <1>8, FirstFreeIsFree, FirstFreeIsFirst, SizesAssumption DEF Inodes
  <2>2. inum \in Files
    BY <1>1, <2>1 DEF Files, DirInv, DirectoryAgreement, FREE, TAKEN
  <2>3. /\ entry \in Slots /\ dir[entry].d_inumber = -1
        /\ \A e \in Slots : e < entry => dir[e].d_inumber # -1
    BY <1>1, <1>8, EntryIsEmpty
  <2>4. \A e \in Slots : dir[e].d_inumber # inum
    BY <1>1, <2>1, <2>2 DEF DirInv, DirectoryAgreement, FREE, TAKEN
  <2> HIDE DEF inum, entry
  <2>5. inum = entry + 1
    <3>1. inum \in 1 .. INODE_TABLE_SIZE - 1
      BY <2>2, SizesAssumption DEF Files, Inodes, ROOT_DIR_INUM
    <3>2. CASE inum - 1 < entry
      <4>1. inum - 1 \in Slots
        BY <2>3, <3>1, <3>2, SizesAssumption DEF Slots
      <4>2. inum - 1 \in UsedSlots
        BY <2>3, <3>2, <4>1 DEF UsedSlots
      <4>3. dir[inum - 1].d_inumber = inum
        BY <1>1, <3>1, <4>2 DEF NamesLeadToFiles
      <4> QED
        BY <2>4, <4>1, <4>3
    <3>3. CASE inum - 1 > entry
      <4>1. entry + 1 \in Inodes /\ entry + 1 \in Files /\ entry + 1 < inum
        BY <2>3, <3>1, <3>3, SizesAssumption DEF Slots, Inodes, Files, ROOT_DIR_INUM
      <4>2. PICK e \in Slots : dir[e].d_inumber = entry + 1
        BY <1>1, <2>1, <4>1 DEF DirInv, DirectoryAgreement
      <4>3. e \in UsedSlots
        BY <2>3, <4>2, SizesAssumption DEF UsedSlots, Slots
      <4>4. e = entry
        BY <1>1, <2>3, <4>2, <4>3, SizesAssumption DEF NamesLeadToFiles, Slots
      <4> QED
        BY <2>3, <4>2, <4>4, SizesAssumption DEF Slots
    <3> QED
      BY <2>3, <3>1, <3>2, <3>3, SizesAssumption DEF Slots
  <2>6. /\ freeinode_ts' = [freeinode_ts EXCEPT ![inum] = TAKEN]
        /\ inode_table' = [inode_table EXCEPT ![inum] = NewFile]
        /\ dir' = [dir EXCEPT ![entry] = [d_inumber |-> inum, d_name |-> path.sub]]
        /\ AddToOpenFileTable(inum, 0)
    BY <1>3, <1>8 DEF OpenCreate, inum, entry
  <2> QED
    BY <1>2, <1>4, <2>1, <2>2, <2>3, <2>5, <2>6
<1> QED
  BY <1>6, <1>7, <1>8

-----------------------------------------------------------------------------
(* ContractInv is inductive.                                               *)

\* A step that leaves the directory alone keeps its names.
LEMMA SameNames ==
    ASSUME NamesLeadToFiles, UNCHANGED dir
    PROVE  NamesLeadToFiles'
BY DEF NamesLeadToFiles, UsedSlots

\* A creation under the rules adds a name that is new.
LEMMA CreateKeepsNames ==
    ASSUME ContractInv, NEW path \in Paths, NEW flags,
           CreatesStorable(path, flags), OpenCreate(path, flags)
    PROVE  NamesLeadToFiles'
<1>1. TypeOK /\ NamesLeadToFiles
  BY DEF ContractInv, IndInv
<1>2. CASE UNCHANGED dir
  BY <1>1, <1>2, SameNames
<1>3. CASE ~UNCHANGED dir
  <2>1. PICK entry \in Slots, inum \in Files :
           /\ dir[entry].d_inumber = -1 /\ inum = entry + 1
           /\ dir' = [dir EXCEPT ![entry] = [d_inumber |-> inum, d_name |-> path.sub]]
           /\ \A e \in UsedSlots : dir[e].d_name # path.sub
    BY <1>3, FileCreated
  <2>2. /\ \A e \in Slots : e # entry => dir'[e] = dir[e]
        /\ dir'[entry].d_inumber = entry + 1 /\ dir'[entry].d_name = path.sub
    BY <1>1, <2>1 DEF TypeOK
  <2>3. \A e \in UsedSlots' : e = entry \/ (e \in UsedSlots /\ dir'[e] = dir[e])
    BY <2>2 DEF UsedSlots
  <2>4. \A e, f \in UsedSlots' : dir'[e].d_name = dir'[f].d_name => e = f
    BY <1>1, <2>1, <2>2, <2>3 DEF NamesLeadToFiles
  <2>5. \A e \in UsedSlots' : dir'[e].d_inumber = e + 1
    BY <1>1, <2>2, <2>3 DEF NamesLeadToFiles
  <2> QED
    BY <2>4, <2>5 DEF NamesLeadToFiles
<1> QED
  BY <1>2, <1>3

\* Only tfs_open changes the directory.
LEMMA NamesStep ==
    ASSUME ContractInv, [ContractNext]_vars
    PROVE  NamesLeadToFiles'
<1>1. TypeOK /\ DirInv /\ NamesLeadToFiles
  BY DEF ContractInv, IndInv, DirInv
<1>2. CASE UNCHANGED dir
  BY <1>1, <1>2, SameNames
<1>3. CASE ~UNCHANGED dir
  <2>1. PICK path \in Paths, flags \in AllFlags :
            CreatesStorable(path, flags) /\ OpenCreate(path, flags)
    BY <1>1, <1>3, CloseFrame, WriteFrame, ReadFrame
    DEF ContractNext, Open, OpenExisting, OpenMissing, Lookup, vars, tables
  <2> QED
    BY <2>1, CreateKeepsNames
<1> QED
  BY <1>2, <1>3

\* Handles are within their files after a handle was opened within its own, when
\* no other file lost bytes in which a handle has moved.
LEMMA OffsetsAfterOpen ==
    ASSUME TypeOK, OffsetsWithinFile, faulted' = faulted,
           NEW inum \in Inodes, NEW offset, AddToOpenFileTable(inum, offset),
           offset <= inode_table'[inum].i_size,
           \A h \in Handles : is_open(h) =>
               open_file_table[h].of_offset
                   <= inode_table'[open_file_table[h].of_inumber].i_size
    PROVE  OffsetsWithinFile'
<1>1. ~faulted'
  BY DEF OffsetsWithinFile
<1>2. CASE UNCHANGED openFiles
  BY <1>1, <1>2 DEF OffsetsWithinFile, openFiles, is_open
<1>3. CASE ~UNCHANGED openFiles
  <2>1. PICK h \in Handles :
           /\ free_open_file_entries' = [free_open_file_entries EXCEPT ![h] = TAKEN]
           /\ open_file_table' = [open_file_table EXCEPT
                  ![h] = [of_inumber |-> inum, of_offset |-> offset]]
    BY <1>3, HandleCases
  <2>2. ASSUME NEW k \in Handles, is_open(k)'
        PROVE  open_file_table'[k].of_offset
                   <= inode_table'[open_file_table'[k].of_inumber].i_size
    <3>1. CASE k = h
      BY <2>1, <3>1 DEF TypeOK
    <3>2. CASE k # h
      <4>1. open_file_table'[k] = open_file_table[k] /\ is_open(k)
        BY <2>1, <2>2, <3>2 DEF TypeOK, is_open
      <4> QED
        BY <4>1
    <3> QED
      BY <3>1, <3>2
  <2> QED
    BY <1>1, <2>2 DEF OffsetsWithinFile
<1> QED
  BY <1>2, <1>3

\* tfs_open keeps every handle within its file: a handle in a file that is
\* emptied has not moved.
LEMMA OpenKeepsOffsets ==
    ASSUME ContractInv, NEW path \in Paths, NEW flags \in AllFlags,
           CreatesStorable(path, flags), TruncatesFresh(path, flags), Open(path, flags)
    PROVE  OffsetsWithinFile'
<1>1. TypeOK /\ OffsetsWithinFile
  BY DEF ContractInv, IndInv
<1>2. CASE OpenExisting(path, flags)
  <2> DEFINE inum == lookup(path)
             offset == IF "TFS_O_APPEND" \in flags THEN inode_table'[inum].i_size ELSE 0
  <2>1. /\ inum \in Inodes /\ inode_table'[inum].i_size \in 0 .. BLOCK_SIZE
        /\ AddToOpenFileTable(inum, offset) /\ faulted' = faulted
        /\ \A i \in Inodes : i # inum => inode_table'[i] = inode_table[i]
        /\ "TFS_O_TRUNC" \notin flags => UNCHANGED inode_table
    BY <1>2, ExistingOpened
  <2>2. offset <= inode_table'[inum].i_size
    BY <2>1, SizesAssumption
  <2>3. ASSUME NEW h \in Handles, is_open(h)
        PROVE  open_file_table[h].of_offset
                   <= inode_table'[open_file_table[h].of_inumber].i_size
    <3>1. CASE open_file_table[h].of_inumber = inum /\ "TFS_O_TRUNC" \in flags
      <4>1. open_file_table[h].of_offset = 0
        BY <2>3, <3>1 DEF TruncatesFresh
      <4> QED
        BY <2>1, <3>1, <4>1, SizesAssumption
    <3>2. CASE ~(open_file_table[h].of_inumber = inum /\ "TFS_O_TRUNC" \in flags)
      <4>1. open_file_table[h].of_inumber \in Inodes
        BY <1>1 DEF TypeOK
      <4>2. inode_table'[open_file_table[h].of_inumber]
                = inode_table[open_file_table[h].of_inumber]
        BY <2>1, <3>2, <4>1
      <4> QED
        BY <1>1, <2>3, <4>2 DEF OffsetsWithinFile
    <3> QED
      BY <3>1, <3>2
  <2> HIDE DEF offset, inum
  <2> QED
    BY <1>1, <2>1, <2>2, <2>3, OffsetsAfterOpen
<1>3. CASE OpenCreate(path, flags)
  <2>1. faulted' = faulted
    BY <1>3, FileCreated
  <2>2. CASE UNCHANGED openFiles
        /\ \A i \in Inodes : freeinode_ts[i] = TAKEN => inode_table'[i] = inode_table[i]
    <3>1. ASSUME NEW h \in Handles, is_open(h)'
          PROVE  open_file_table'[h].of_offset
                     <= inode_table'[open_file_table'[h].of_inumber].i_size
      <4>1. is_open(h) /\ open_file_table'[h] = open_file_table[h]
        BY <2>2, <3>1 DEF openFiles, is_open
      <4>2. inode_table'[open_file_table[h].of_inumber]
                = inode_table[open_file_table[h].of_inumber]
        BY <2>2, <4>1, OpenHandleInFile
      <4> QED
        BY <1>1, <4>1, <4>2 DEF OffsetsWithinFile
    <3> QED
      BY <1>1, <2>1, <3>1 DEF OffsetsWithinFile
  <2>3. ASSUME NEW inum \in Files, freeinode_ts[inum] = FREE,
               inode_table' = [inode_table EXCEPT ![inum] = NewFile],
               AddToOpenFileTable(inum, 0)
        PROVE  OffsetsWithinFile'
    <3>1. inum \in Inodes
      BY DEF Files
    <3>2. 0 <= inode_table'[inum].i_size
      BY <1>1, <2>3, <3>1 DEF NewFile, TypeOK
    <3>3. ASSUME NEW h \in Handles, is_open(h)
          PROVE  open_file_table[h].of_offset
                     <= inode_table'[open_file_table[h].of_inumber].i_size
      <4>1. open_file_table[h].of_inumber \in Inodes /\ open_file_table[h].of_inumber # inum
        BY <2>3, <3>3, OpenHandleInFile DEF FREE, TAKEN
      <4>2. inode_table'[open_file_table[h].of_inumber]
                = inode_table[open_file_table[h].of_inumber]
        BY <1>1, <2>3, <4>1 DEF TypeOK
      <4> QED
        BY <1>1, <3>3, <4>2 DEF OffsetsWithinFile
    <3> QED
      BY <1>1, <2>1, <2>3, <3>1, <3>2, <3>3, OffsetsAfterOpen
  <2> QED
    BY <1>3, <2>2, <2>3, FileCreated
<1>4. CASE OpenMissing(path, flags)
  BY <1>1, <1>4 DEF OpenMissing, tables, openFiles, OffsetsWithinFile, is_open
<1> QED
  BY <1>2, <1>3, <1>4 DEF Open

\* tfs_write moves its handle no further than the size it leaves.
LEMMA WriteKeepsOffsets ==
    ASSUME ContractInv, NEW h \in Handles, is_open(h), NEW buffer \in Buffers,
           Write(h, buffer)
    PROVE  OffsetsWithinFile'
<1> DEFINE inum == open_file_table[h].of_inumber
           offset == open_file_table[h].of_offset
           size == inode_table[inum].i_size
           n == FS!Least(Len(buffer), BLOCK_SIZE - offset)
<1>1. TypeOK /\ OffsetsWithinFile
  BY DEF ContractInv, IndInv
<1>2. inum \in Inodes /\ size \in 0 .. BLOCK_SIZE /\ offset \in 0 .. size
  BY OpenHandleInFile
<1>3. UNCHANGED <<free_open_file_entries, faulted>>
  BY WriteOutcome
<1>4. n \in Nat
  BY WriteOutcome
<1>5. \A i \in Inodes : i # inum => inode_table'[i] = inode_table[i]
  BY WriteOutcome
<1>6. \/ inode_table'[inum].i_size = size /\ UNCHANGED open_file_table
      \/ /\ inode_table'[inum].i_size = IF offset + n > size THEN offset + n ELSE size
         /\ open_file_table' = [open_file_table EXCEPT ![h].of_offset = offset + n]
  BY WriteOutcome
<1> HIDE DEF n
<1>7. inode_table'[inum].i_size >= size
  BY <1>2, <1>4, <1>6, SizesAssumption
<1>8. ASSUME NEW k \in Handles, is_open(k)'
      PROVE  open_file_table'[k].of_offset
                 <= inode_table'[open_file_table'[k].of_inumber].i_size
  <2>1. is_open(k)
    BY <1>3, <1>8 DEF is_open
  <2>2. CASE open_file_table'[k] = open_file_table[k]
    <3>1. /\ open_file_table[k].of_inumber \in Inodes
          /\ open_file_table[k].of_offset \in 0 .. inode_table[open_file_table[k].of_inumber].i_size
          /\ inode_table[open_file_table[k].of_inumber].i_size \in 0 .. BLOCK_SIZE
      BY <2>1, OpenHandleInFile
    <3>2. CASE open_file_table[k].of_inumber = inum
      <4>1. inode_table'[inum].i_size \in Int
        BY <1>2, <1>4, <1>6, SizesAssumption
      <4> QED
        BY <1>2, <1>7, <2>2, <3>1, <3>2, <4>1, SizesAssumption
    <3>3. CASE open_file_table[k].of_inumber # inum
      BY <1>5, <2>2, <3>1, <3>3, SizesAssumption
    <3> QED
      BY <3>2, <3>3
  <2>3. CASE open_file_table'[k] # open_file_table[k]
    <3>1. k = h /\ open_file_table'[k].of_offset = offset + n
          /\ open_file_table'[k].of_inumber = inum
      BY <1>1, <1>6, <2>3 DEF TypeOK
    <3>2. inode_table'[inum].i_size = IF offset + n > size THEN offset + n ELSE size
      BY <1>6, <2>3
    <3> QED
      BY <1>2, <1>4, <3>1, <3>2, SizesAssumption
  <2> QED
    BY <2>2, <2>3
<1> QED
  BY <1>1, <1>3, <1>8 DEF OffsetsWithinFile

\* tfs_read moves its handle no further than the size.
LEMMA ReadKeepsOffsets ==
    ASSUME ContractInv, NEW h \in Handles, is_open(h), NEW len \in Lens, Read(h, len)
    PROVE  OffsetsWithinFile'
<1> DEFINE inum == open_file_table[h].of_inumber
           offset == open_file_table[h].of_offset
           n == FS!Least(len, inode_table[inum].i_size - offset)
<1>1. TypeOK /\ OffsetsWithinFile
  BY DEF ContractInv, IndInv
<1>2. /\ n \in Nat /\ offset + n <= inode_table[inum].i_size
      /\ open_file_table' = [open_file_table EXCEPT ![h].of_offset = offset + n]
      /\ UNCHANGED <<inode_table, free_open_file_entries, faulted>>
  BY ReadOutcome DEF tables
<1> HIDE DEF n
<1>3. ASSUME NEW k \in Handles, is_open(k)'
      PROVE  open_file_table'[k].of_offset
                 <= inode_table'[open_file_table'[k].of_inumber].i_size
  <2>1. is_open(k)
    BY <1>2, <1>3 DEF is_open
  <2>2. CASE k = h
    BY <1>1, <1>2, <2>2 DEF TypeOK
  <2>3. CASE k # h
    BY <1>1, <1>2, <2>1, <2>3 DEF TypeOK, OffsetsWithinFile
  <2> QED
    BY <2>2, <2>3
<1> QED
  BY <1>1, <1>2, <1>3 DEF OffsetsWithinFile

\* Every operation under the rules keeps handles within their files.
LEMMA OffsetsStep ==
    ASSUME ContractInv, [ContractNext]_vars
    PROVE  OffsetsWithinFile'
<1>1. TypeOK /\ OffsetsWithinFile
  BY DEF ContractInv, IndInv
<1>2. CASE UNCHANGED <<tables, openFiles, faulted>>
  BY <1>1, <1>2 DEF tables, openFiles, OffsetsWithinFile, is_open
<1>3. -1 \notin Handles
  BY SizesAssumption DEF Handles
<1>4. ASSUME NEW h, Close(h) PROVE OffsetsWithinFile'
  <2>1. UNCHANGED <<inode_table, open_file_table, faulted>>
        /\ \A k \in Handles : is_open(k)' => is_open(k)
    BY <1>1, <1>4, CloseFrame DEF Close, tables
  <2> QED
    BY <1>1, <2>1 DEF OffsetsWithinFile
<1>5. ASSUME NEW h \in UsableHandles, NEW buffer \in Buffers, Write(h, buffer)
      PROVE  OffsetsWithinFile'
  <2>1. CASE h = -1
    BY <1>1, <1>3, <1>5, <2>1 DEF Write, openFiles, OffsetsWithinFile, is_open
  <2> QED
    BY <1>5, <2>1, WriteKeepsOffsets DEF UsableHandles
<1>6. ASSUME NEW h \in UsableHandles, NEW len \in Lens, Read(h, len)
      PROVE  OffsetsWithinFile'
  <2>1. CASE h = -1
    BY <1>1, <1>3, <1>6, <2>1 DEF Read, tables, OffsetsWithinFile, is_open
  <2> QED
    BY <1>6, <2>1, ReadKeepsOffsets DEF UsableHandles
<1> QED
  BY <1>2, <1>4, <1>5, <1>6, OpenKeepsOffsets DEF ContractNext, Lookup, vars

\* ContractInv holds for every disk and every set of names, under the rules.
THEOREM ContractInvCorrect == ContractSpec => []ContractInv
<1>1. Init => ContractInv
  <2> SUFFICES ASSUME Init PROVE ContractInv
    OBVIOUS
  <2>1. IndInv
    BY InitIndInv
  <2>2. OffsetsWithinFile
    BY DEF Init, OffsetsWithinFile, is_open, FREE, TAKEN
  <2>3. NamesLeadToFiles
    BY DEF Init, NamesLeadToFiles, UsedSlots
  <2> QED
    BY <2>1, <2>2, <2>3 DEF ContractInv
<1>2. ContractInv /\ [ContractNext]_vars => ContractInv'
  <2> SUFFICES ASSUME ContractInv, [ContractNext]_vars PROVE ContractInv'
    OBVIOUS
  <2>1. IndInv /\ [Next]_vars
    BY ContractStep DEF ContractInv, IndInv, DirInv
  <2>2. IndInv'
    BY <2>1, IndInvStep
  <2> QED
    BY <2>2, OffsetsStep, NamesStep DEF ContractInv
<1> QED
  BY <1>1, <1>2, PTL DEF ContractSpec

\* Under the rules no handle gets past the end of its file and no memcpy leaves
\* its memory, for every disk and every buffer.
THEOREM OffsetsWithinFileCorrect == ContractSpec => []OffsetsWithinFile
<1>1. ContractInv => OffsetsWithinFile
  BY DEF ContractInv
<1> QED
  BY <1>1, ContractInvCorrect, PTL

\* Under the rules every name has one entry, and entry e leads to i-node e + 1.
THEOREM NamesLeadToFilesCorrect == ContractSpec => []NamesLeadToFiles
<1>1. ContractInv => NamesLeadToFiles
  BY DEF ContractInv
<1> QED
  BY <1>1, ContractInvCorrect, PTL

\* tfs_read leaves the handle it moves at the file size at most, and nothing but
\* tfs_read replies with bytes.
LEMMA ReadsEndStep ==
    ASSUME ContractInv, ContractNext, NEW h \in Handles,
           reply'.data # <<>>, open_file_table'[h] # open_file_table[h]
    PROVE  open_file_table'[h].of_offset
               <= inode_table[open_file_table[h].of_inumber].i_size
<1>1. TypeOK
  BY DEF ContractInv, IndInv
<1>2. ASSUME NEW n, Reply(n) PROVE FALSE
  BY <1>2 DEF Reply
<1>3. ~\E path \in Paths, flags \in AllFlags : Open(path, flags)
  BY <1>2 DEF Open, OpenExisting, OpenCreate, OpenMissing, AddToOpenFileTable
<1>4. ~\E path \in Paths : Lookup(path)
  BY <1>2 DEF Lookup
<1>5. ~\E k \in ReturnedHandles : Close(k)
  BY <1>2 DEF Close
<1>6. ASSUME NEW k \in UsableHandles, NEW buffer \in Buffers, Write(k, buffer) PROVE FALSE
  <2>1. UNCHANGED openFiles \/ \E n : Reply(n)
    BY <1>6 DEF Write
  <2> QED
    BY <1>2, <2>1 DEF openFiles
<1>7. PICK k \in UsableHandles, len \in Lens : Read(k, len)
  BY <1>3, <1>4, <1>5, <1>6 DEF ContractNext
<1>8. k # -1
  BY <1>2, <1>7, SizesAssumption DEF Read, Handles
<1>9. k \in Handles /\ is_open(k)
  BY <1>8 DEF UsableHandles
<1> DEFINE offset == open_file_table[k].of_offset
           n == FS!Least(len, inode_table[open_file_table[k].of_inumber].i_size - offset)
<1>10. /\ offset + n <= inode_table[open_file_table[k].of_inumber].i_size
       /\ open_file_table' = [open_file_table EXCEPT ![k].of_offset = offset + n]
  BY <1>7, <1>9, ReadOutcome
<1> HIDE DEF n
<1> QED
  BY <1>1, <1>9, <1>10 DEF TypeOK

\* "(can be lower than 'len' if the file size was reached)" for every disk and
\* every length, under the rules.
THEOREM ReadsEndAtFileSizeCorrect == ContractSpec => ReadsEndAtFileSize
<1>1. ContractInv /\ [ContractNext]_vars =>
          [\A h \in Handles :
              reply'.data # <<>> /\ open_file_table'[h] # open_file_table[h]
              => open_file_table'[h].of_offset
                   <= inode_table[open_file_table[h].of_inumber].i_size]_vars
  BY ReadsEndStep
<1> QED
  BY <1>1, ContractInvCorrect, PTL DEF ContractSpec, ReadsEndAtFileSize

-----------------------------------------------------------------------------
(* Sequences of bytes.                                                     *)

\* The elements of three sequences put together.
LEMMA Joined ==
    ASSUME NEW T, NEW s1 \in Seq(T), NEW s2 \in Seq(T), NEW s3 \in Seq(T),
           NEW k \in 1 .. Len(s1) + Len(s2) + Len(s3)
    PROVE  (s1 \o s2 \o s3)[k] =
               IF k <= Len(s1) THEN s1[k]
               ELSE IF k <= Len(s1) + Len(s2) THEN s2[k - Len(s1)]
               ELSE s3[k - (Len(s1) + Len(s2))]
OBVIOUS

\* Their length.
LEMMA JoinedLength ==
    ASSUME NEW T, NEW s1 \in Seq(T), NEW s2 \in Seq(T), NEW s3 \in Seq(T)
    PROVE  s1 \o s2 \o s3 \in Seq(T) /\ Len(s1 \o s2 \o s3) = Len(s1) + Len(s2) + Len(s3)
OBVIOUS

\* new is old with the first n elements of b from position p on.
IsSplice(new, old, b, p, n) ==
    /\ Len(new) = IF p + n > Len(old) THEN p + n ELSE Len(old)
    /\ \A k \in 1 .. Len(new) :
           new[k] = IF k > p /\ k <= p + n THEN b[k - p] ELSE old[k]

\* What is left of a sequence from place q on.
LEMMA Remainder ==
    ASSUME NEW T, NEW s \in Seq(T), NEW q \in Nat \ {0}
    PROVE  /\ SubSeq(s, q, Len(s)) \in Seq(T)
           /\ Len(SubSeq(s, q, Len(s))) = IF q <= Len(s) THEN Len(s) - q + 1 ELSE 0
           /\ \A k \in 1 .. Len(s) - q + 1 : SubSeq(s, q, Len(s))[k] = s[q + k - 1]
<1>1. \A i \in q .. Len(s) : s[i] \in T
  OBVIOUS
<1> QED
  BY <1>1, SubSeqProperties

\* What a write of the first n bytes of b at place p leaves of a sequence.
LEMMA Splice ==
    ASSUME NEW T, NEW old \in Seq(T), NEW b \in Seq(T), NEW new \in Seq(T),
           NEW p \in 0 .. Len(old), NEW n \in 0 .. Len(b),
           IsSplice(new, old, b, p, n)
    PROVE  new = SubSeq(old, 1, p) \o SubSeq(b, 1, n) \o SubSeq(old, p + n + 1, Len(old))
<1> DEFINE s1 == SubSeq(old, 1, p)
           s2 == SubSeq(b, 1, n)
           s3 == SubSeq(old, p + n + 1, Len(old))
<1>. p \in Nat /\ n \in Nat /\ Len(old) \in Nat /\ Len(new) \in Nat
  OBVIOUS
<1>0. /\ Len(new) = IF p + n > Len(old) THEN p + n ELSE Len(old)
      /\ \A k \in 1 .. Len(new) :
             new[k] = IF k > p /\ k <= p + n THEN b[k - p] ELSE old[k]
  BY DEF IsSplice
<1>1. /\ s1 \in Seq(T) /\ Len(s1) = p
      /\ \A k \in 1 .. p : s1[k] = old[k]
  BY SubSeqProperties
<1>2. /\ s2 \in Seq(T) /\ Len(s2) = n
      /\ \A k \in 1 .. n : s2[k] = b[k]
  BY SubSeqProperties
<1>3. /\ s3 \in Seq(T) /\ Len(s3) = IF p + n > Len(old) THEN 0 ELSE Len(old) - (p + n)
      /\ \A k \in 1 .. Len(s3) : s3[k] = old[p + n + k]
  <2>1. p + n + 1 \in Nat \ {0}
    OBVIOUS
  <2>2. /\ s3 \in Seq(T)
        /\ Len(s3) = IF p + n + 1 <= Len(old) THEN Len(old) - (p + n + 1) + 1 ELSE 0
        /\ \A k \in 1 .. Len(old) - (p + n + 1) + 1 : s3[k] = old[p + n + 1 + k - 1]
    BY <2>1, Remainder
  <2> HIDE DEF s3
  <2> QED
    BY <2>2
<1> HIDE DEF s1, s2, s3
<1>. s1 \in Seq(T) /\ s2 \in Seq(T) /\ s3 \in Seq(T)
  BY <1>1, <1>2, <1>3
<1>4. s1 \o s2 \o s3 \in Seq(T) /\ Len(s1 \o s2 \o s3) = Len(s1) + Len(s2) + Len(s3)
  BY JoinedLength
<1>5. ASSUME NEW k \in 1 .. Len(s1) + Len(s2) + Len(s3)
      PROVE  (s1 \o s2 \o s3)[k] =
                 IF k <= Len(s1) THEN s1[k]
                 ELSE IF k <= Len(s1) + Len(s2) THEN s2[k - Len(s1)]
                 ELSE s3[k - (Len(s1) + Len(s2))]
  BY Joined
<1> DEFINE s == s1 \o s2 \o s3
<1> HIDE DEF s
<1>6. s \in Seq(T) /\ Len(s) = Len(new) /\ Len(s) = p + n + Len(s3)
  <2>1. s \in Seq(T) /\ Len(s) = Len(s1) + Len(s2) + Len(s3)
    BY <1>4 DEF s
  <2>2. Len(s1) = p /\ Len(s2) = n
    BY <1>1, <1>2
  <2>3. Len(s3) = IF p + n > Len(old) THEN 0 ELSE Len(old) - (p + n)
    BY <1>3
  <2>4. Len(s) = p + n + Len(s3)
    BY <2>1, <2>2
  <2>5. CASE p + n > Len(old)
    <3>1. Len(s3) = 0 /\ Len(new) = p + n
      BY <1>0, <2>3, <2>5
    <3>2. Len(s) = p + n
      BY <2>4, <3>1
    <3> QED
      BY <2>1, <2>4, <3>1, <3>2
  <2>6. CASE ~(p + n > Len(old))
    <3>1. Len(s3) = Len(old) - (p + n)
      BY <2>3, <2>6
    <3> QED
      BY <1>0, <2>1, <2>4, <2>6, <3>1
  <2> QED
    BY <2>5, <2>6
<1>7. ASSUME NEW k \in 1 .. Len(new) PROVE new[k] = s[k]
  <2>0. new[k] = IF k > p /\ k <= p + n THEN b[k - p] ELSE old[k]
    BY <1>0
  <2>1. k \in 1 .. Len(s1) + Len(s2) + Len(s3)
    BY <1>1, <1>2, <1>6
  <2>2. s[k] = IF k <= p THEN s1[k]
               ELSE IF k <= p + n THEN s2[k - p] ELSE s3[k - (p + n)]
    <3>1. s[k] = IF k <= Len(s1) THEN s1[k]
                 ELSE IF k <= Len(s1) + Len(s2) THEN s2[k - Len(s1)]
                 ELSE s3[k - (Len(s1) + Len(s2))]
      BY <1>5, <2>1 DEF s
    <3>2. Len(s1) = p /\ Len(s2) = n
      BY <1>1, <1>2
    <3> QED
      BY <3>1, <3>2
  <2>3. CASE k <= p
    <3>1. new[k] = old[k]
      BY <2>0, <2>3
    <3>2. s[k] = s1[k] /\ k \in 1 .. p
      BY <2>2, <2>3
    <3> QED
      BY <1>1, <3>1, <3>2
  <2>4. CASE k > p /\ k <= p + n
    <3>1. s[k] = s2[k - p] /\ k - p \in 1 .. n
      BY <2>2, <2>4
    <3>2. s[k] = b[k - p]
      BY <1>2, <3>1
    <3> QED
      BY <2>0, <2>4, <3>2
  <2>5. CASE k > p + n
    <3>0. k - (p + n) \in 1 .. Len(s3)
      BY <1>6, <2>5
    <3>1. s[k] = s3[k - (p + n)] /\ k - (p + n) \in 1 .. Len(s3)
      BY <2>2, <2>5, <3>0
    <3>2. s[k] = old[p + n + (k - (p + n))]
      BY <1>3, <3>1
    <3> QED
      BY <2>0, <2>5, <3>2
  <2> QED
    BY <2>3, <2>4, <2>5
<1>8. new = s
  BY <1>6, <1>7, SeqEqual
<1> QED
  BY <1>8 DEF s, s1, s2, s3

-----------------------------------------------------------------------------
(* The mapping: names and files, handles and positions.                    *)

\* The entry of a file tells its name.
LEMMA NameOfEntry ==
    ASSUME ContractInv, NEW e \in UsedSlots
    PROVE  NameOf(dir[e].d_inumber) = dir[e].d_name
<1> DEFINE f == CHOOSE k \in UsedSlots : dir[k].d_inumber = dir[e].d_inumber
<1>1. f \in UsedSlots /\ dir[f].d_inumber = dir[e].d_inumber
  OBVIOUS
<1>2. f = e
  <2> HIDE DEF f
  <2> QED
    BY <1>1 DEF ContractInv, IndInv, DirectoryAgreement, UsedSlots
<1> QED
  BY <1>2 DEF NameOf

\* A name is in the mapped file system when the directory finds a file, whose
\* name it is.
LEMMA NameIsFound ==
    ASSUME ContractInv, NEW n
    PROVE  /\ n \in DOMAIN AbstractFiles <=> find_in_dir(dir, n) # -1
           /\ n \in DOMAIN AbstractFiles =>
                /\ find_in_dir(dir, n) \in Files
                /\ freeinode_ts[find_in_dir(dir, n)] = TAKEN
                /\ NameOf(find_in_dir(dir, n)) = n
                /\ AbstractFiles[n] = Contents(find_in_dir(dir, n))
<1>1. DOMAIN AbstractFiles = {dir[e].d_name : e \in UsedSlots}
  BY DEF AbstractFiles
<1>2. ASSUME n \in DOMAIN AbstractFiles
      PROVE  Matching(dir, n) # {}
  BY <1>1, <1>2 DEF UsedSlots, Matching
<1>3. ASSUME NEW e \in Matching(dir, n)
      PROVE  e \in UsedSlots /\ dir[e].d_name = n
  BY DEF Matching, UsedSlots
<1>4. ASSUME NEW e \in UsedSlots
      PROVE  dir[e].d_inumber \in Files /\ freeinode_ts[dir[e].d_inumber] = TAKEN
  BY DEF ContractInv, IndInv, TypeOK, DirectoryAgreement, DirFilledInOrder, UsedSlots, Files
<1>5. n \in DOMAIN AbstractFiles => AbstractFiles[n] = Contents(find_in_dir(dir, n))
  BY DEF AbstractFiles
<1>6. CASE find_in_dir(dir, n) = -1 /\ Matching(dir, n) = {}
  BY <1>2, <1>6
<1>7. CASE \E e \in Matching(dir, n) : find_in_dir(dir, n) = dir[e].d_inumber
  <2>1. PICK e \in Matching(dir, n) : find_in_dir(dir, n) = dir[e].d_inumber
    BY <1>7
  <2>2. e \in UsedSlots /\ dir[e].d_name = n /\ dir[e].d_inumber # -1
    BY <1>3 DEF UsedSlots
  <2>3. n \in DOMAIN AbstractFiles
    BY <1>1, <2>2
  <2> QED
    BY <1>4, <1>5, <2>1, <2>2, <2>3, NameOfEntry
<1> QED
  BY <1>6, <1>7, FoundInDir

\* The directory finds every file under its name.
LEMMA FileIsNamed ==
    ASSUME ContractInv, NEW i \in Files, freeinode_ts[i] = TAKEN
    PROVE  NameOf(i) \in DOMAIN AbstractFiles /\ find_in_dir(dir, NameOf(i)) = i
<1>1. PICK e \in Slots : dir[e].d_inumber = i
  BY DEF ContractInv, IndInv, DirectoryAgreement
<1>2. e \in UsedSlots
  BY <1>1, SizesAssumption DEF UsedSlots, Files, Inodes
<1>3. NameOf(i) = dir[e].d_name
  BY <1>1, <1>2, NameOfEntry
<1>4. PICK f \in Matching(dir, dir[e].d_name) :
         find_in_dir(dir, dir[e].d_name) = dir[f].d_inumber
  BY <1>2, FoundInDir DEF UsedSlots, Matching
<1>5. f = e
  BY <1>2, <1>4 DEF ContractInv, NamesLeadToFiles, Matching, UsedSlots
<1> QED
  BY <1>1, <1>2, <1>3, <1>4, <1>5 DEF AbstractFiles

\* A file's contents are a sequence of i_size bytes.
LEMMA ContentsTyped ==
    ASSUME ContractInv, NEW i \in Files, freeinode_ts[i] = TAKEN
    PROVE  /\ Contents(i) \in Seq(Bytes)
           /\ Len(Contents(i)) = inode_table[i].i_size
           /\ inode_table[i].i_size \in 0 .. BLOCK_SIZE
<1> DEFINE size == inode_table[i].i_size
           block == inode_table[i].i_data_block
<1>1. i \in Inodes /\ size \in 0 .. BLOCK_SIZE
  BY DEF ContractInv, IndInv, TypeOK, inode_t, Files
<1>2. size > 0 => block \in Blocks
  BY <1>1 DEF ContractInv, IndInv, BlockOwnership
<1>3. ASSUME NEW k \in 1 .. size PROVE fs_data[block][k - 1] \in Bytes
  <2>1. block \in Blocks /\ k - 1 \in Cells
    BY <1>1, <1>2, <1>3, SizesAssumption DEF Cells
  <2> QED
    BY <2>1 DEF ContractInv, IndInv, TypeOK
<1>4. Contents(i) \in [1 .. size -> Bytes]
  BY <1>3 DEF Contents
<1> QED
  BY <1>1, <1>4, SizesAssumption

\* The mapped handle is open when the handle is, and leads to its file.
LEMMA MappedHandle ==
    ASSUME ContractInv, NEW h \in Handles
    PROVE  /\ FS!IsOpen(h) <=> is_open(h)
           /\ is_open(h) =>
                AbstractHandles[h] = FS!At(NameOf(open_file_table[h].of_inumber),
                                           open_file_table[h].of_offset)
           /\ ~is_open(h) => AbstractHandles[h] = FS!Closed
<1>1. open_file_table[h].of_offset \in 0 .. MAX_OFFSET
  BY DEF ContractInv, IndInv, TypeOK
<1>2. is_open(h) =>
          AbstractHandles[h] = FS!At(NameOf(open_file_table[h].of_inumber),
                                     open_file_table[h].of_offset)
  BY DEF AbstractHandles, FS!At
<1>3. ~is_open(h) => AbstractHandles[h] = FS!Closed
  BY DEF AbstractHandles, FS!Closed
<1>4. is_open(h) => AbstractHandles[h].pos # FS!Closed.pos
  BY <1>1, <1>2, BytesAssumption DEF FS!At, FS!Closed
<1> QED
  BY <1>2, <1>3, <1>4 DEF FS!IsOpen

\* An open handle, mapped: the file is there, and so is the position.
LEMMA MappedPosition ==
    ASSUME ContractInv, NEW h \in Handles, is_open(h)
    PROVE  LET inum == open_file_table[h].of_inumber
           IN  /\ FS!IsOpen(h)
               /\ AbstractHandles[h].file = NameOf(inum)
               /\ AbstractHandles[h].pos = open_file_table[h].of_offset
               /\ NameOf(inum) \in DOMAIN AbstractFiles
               /\ AbstractFiles[NameOf(inum)] = Contents(inum)
<1> DEFINE inum == open_file_table[h].of_inumber
<1>1. inum \in Files /\ freeinode_ts[inum] = TAKEN
  BY OpenHandleInFile
<1>2. NameOf(inum) \in DOMAIN AbstractFiles /\ find_in_dir(dir, NameOf(inum)) = inum
  BY <1>1, FileIsNamed
<1>3. AbstractFiles[NameOf(inum)] = Contents(inum)
  BY <1>2, NameIsFound
<1>4. AbstractHandles[h] = FS!At(NameOf(inum), open_file_table[h].of_offset) /\ FS!IsOpen(h)
  BY MappedHandle
<1> QED
  BY <1>2, <1>3, <1>4 DEF FS!At

-----------------------------------------------------------------------------
(* What a step does to the mapped state.                                   *)

\* With the directory and the contents of the files as they were, so is the
\* mapped file system.
LEMMA FilesKept ==
    ASSUME ContractInv, UNCHANGED dir,
           \A i \in Files : freeinode_ts[i] = TAKEN => Contents(i)' = Contents(i)
    PROVE  UNCHANGED AbstractFiles
<1>1. UNCHANGED UsedSlots
  BY DEF UsedSlots
<1>2. ASSUME NEW n \in DOMAIN AbstractFiles
      PROVE  Contents(find_in_dir(dir, n))' = Contents(find_in_dir(dir, n))
  <2>1. PICK i \in Files : i = find_in_dir(dir, n) /\ freeinode_ts[i] = TAKEN
    BY NameIsFound
  <2>2. i = find_in_dir(dir', n)
    BY <2>1
  <2> QED
    BY <2>1, <2>2
<1> QED
  BY <1>1, <1>2 DEF AbstractFiles

\* The contents of one file change.
LEMMA OneFileChanges ==
    ASSUME ContractInv, UNCHANGED dir, NEW i \in Files, freeinode_ts[i] = TAKEN,
           \A j \in Files : freeinode_ts[j] = TAKEN /\ j # i => Contents(j)' = Contents(j)
    PROVE  AbstractFiles' = [AbstractFiles EXCEPT ![NameOf(i)] = Contents(i)']
<1>1. UNCHANGED UsedSlots
  BY DEF UsedSlots
<1> DEFINE D == {dir[e].d_name : e \in UsedSlots}
<1>2. ASSUME NEW n \in D
      PROVE  AbstractFiles'[n] = IF n = NameOf(i) THEN Contents(i)' ELSE AbstractFiles[n]
  <2>1. AbstractFiles'[n] = Contents(find_in_dir(dir, n))'
    BY <1>1 DEF AbstractFiles
  <2>2. PICK j \in Files :
           /\ j = find_in_dir(dir, n) /\ freeinode_ts[j] = TAKEN
           /\ NameOf(j) = n /\ AbstractFiles[n] = Contents(j)
    BY NameIsFound DEF AbstractFiles
  <2>3. AbstractFiles'[n] = Contents(j)'
    BY <2>1, <2>2
  <2>4. find_in_dir(dir, NameOf(i)) = i
    BY FileIsNamed
  <2> QED
    BY <2>2, <2>3, <2>4
<1>3. AbstractFiles' = [n \in D |-> AbstractFiles'[n]] /\ DOMAIN AbstractFiles = D
  BY <1>1 DEF AbstractFiles
<1>4. AbstractFiles = [n \in D |-> AbstractFiles[n]]
  BY DEF AbstractFiles
<1> HIDE DEF D
<1> QED
  BY <1>2, <1>3, <1>4

\* Names stay with their files.
LEMMA NamesKept ==
    ASSUME UNCHANGED dir, NEW i
    PROVE  NameOf(i)' = NameOf(i)
BY DEF NameOf, UsedSlots

\* No handle changes.
LEMMA HandlesKept ==
    ASSUME UNCHANGED <<dir, free_open_file_entries, open_file_table>>
    PROVE  UNCHANGED AbstractHandles
<1>1. ASSUME NEW h \in Handles
      PROVE  AbstractHandles'[h] = AbstractHandles[h]
  BY DEF AbstractHandles, is_open, NameOf, UsedSlots
<1>2. /\ AbstractHandles = [h \in Handles |-> AbstractHandles[h]]
      /\ AbstractHandles' = [h \in Handles |-> AbstractHandles'[h]]
  BY DEF AbstractHandles
<1> QED
  BY <1>1, <1>2

\* One handle changes.
LEMMA OneHandleChanges ==
    ASSUME NEW h \in Handles, NEW x, AbstractHandles'[h] = x,
           \A k \in Handles : k # h => AbstractHandles'[k] = AbstractHandles[k]
    PROVE  AbstractHandles' = [AbstractHandles EXCEPT ![h] = x]
<1>1. /\ AbstractHandles = [k \in Handles |-> AbstractHandles[k]]
      /\ AbstractHandles' = [k \in Handles |-> AbstractHandles'[k]]
  BY DEF AbstractHandles
<1> QED
  BY <1>1

\* tfs_read and tfs_write move a handle in its file.
LEMMA HandleMoves ==
    ASSUME ContractInv, UNCHANGED <<dir, free_open_file_entries>>,
           NEW h \in Handles, is_open(h), NEW p,
           open_file_table' = [open_file_table EXCEPT ![h].of_offset = p]
    PROVE  AbstractHandles' = [AbstractHandles EXCEPT
               ![h] = FS!At(NameOf(open_file_table[h].of_inumber), p)]
<1> DEFINE inum == open_file_table[h].of_inumber
<1>1. \A k \in Handles : is_open(k)' <=> is_open(k)
  BY DEF is_open
<1>2. /\ open_file_table'[h].of_inumber = inum /\ open_file_table'[h].of_offset = p
      /\ \A k \in Handles : k # h => open_file_table'[k] = open_file_table[k]
  BY DEF ContractInv, IndInv, TypeOK
<1>3. AbstractHandles'[h] = FS!At(NameOf(inum), p)
  <2>1. \A i : NameOf(i)' = NameOf(i)
    BY NamesKept
  <2>2. AbstractHandles'[h] = [file |-> NameOf(open_file_table[h].of_inumber)',
                               pos |-> open_file_table'[h].of_offset]
    BY <1>1 DEF AbstractHandles
  <2> QED
    BY <1>2, <2>1, <2>2 DEF FS!At, NameOf, UsedSlots
<1>4. \A k \in Handles : k # h => AbstractHandles'[k] = AbstractHandles[k]
  BY <1>1, <1>2 DEF AbstractHandles, NameOf, UsedSlots
<1> QED
  BY <1>3, <1>4, OneHandleChanges

\* add_to_open_file_table, mapped, also after a new entry in the directory: a
\* handle is granted, or none is left.
LEMMA HandleGranted ==
    ASSUME ContractInv, NEW inum \in Inodes, NEW offset, AddToOpenFileTable(inum, offset),
           NEW n, NameOf(inum)' = n,
           \A i \in Files : freeinode_ts[i] = TAKEN => NameOf(i)' = NameOf(i)
    PROVE  FS!Grant(n, offset)
<1>1. TypeOK
  BY DEF ContractInv, IndInv
<1>2. ASSUME NEW k \in Handles, is_open(k)' <=> is_open(k),
             open_file_table'[k] = open_file_table[k]
      PROVE  AbstractHandles'[k] = AbstractHandles[k]
  <2>1. CASE is_open(k)
    <3>1. PICK i \in Files : i = open_file_table[k].of_inumber /\ freeinode_ts[i] = TAKEN
      BY <2>1, OpenHandleInFile
    <3>2. NameOf(i)' = NameOf(i) /\ open_file_table'[k].of_inumber = i
      BY <1>2, <3>1
    <3>3. AbstractHandles[k] = [file |-> NameOf(i), pos |-> open_file_table[k].of_offset]
      BY <2>1, <3>1 DEF AbstractHandles
    <3>4. AbstractHandles'[k] = [file |-> NameOf(i)', pos |-> open_file_table'[k].of_offset]
      BY <1>2, <2>1, <3>2 DEF AbstractHandles, NameOf
    <3> QED
      BY <1>2, <3>2, <3>3, <3>4
  <2>2. CASE ~is_open(k)
    BY <1>2, <2>2 DEF AbstractHandles
  <2> QED
    BY <2>1, <2>2
<1>3. CASE (\A h \in Handles : is_open(h)) /\ Reply(-1) /\ UNCHANGED openFiles
  <2>1. \A k \in Handles : (is_open(k)' <=> is_open(k))
                           /\ open_file_table'[k] = open_file_table[k]
    BY <1>3 DEF openFiles, is_open
  <2>2. AbstractHandles' = AbstractHandles
    <3>1. \A k \in Handles : AbstractHandles'[k] = AbstractHandles[k]
      BY <1>2, <2>1
    <3>2. /\ AbstractHandles = [k \in Handles |-> AbstractHandles[k]]
          /\ AbstractHandles' = [k \in Handles |-> AbstractHandles'[k]]
      BY DEF AbstractHandles
    <3> QED
      BY <3>1, <3>2
  <2>3. \A h \in Handles : FS!IsOpen(h)
    BY <1>3, MappedHandle
  <2> QED
    BY <1>3, <2>2, <2>3 DEF FS!Grant, FS!Reply, Reply
<1>4. ASSUME NEW h \in Handles, ~is_open(h), Reply(h),
             free_open_file_entries' = [free_open_file_entries EXCEPT ![h] = TAKEN],
             open_file_table' = [open_file_table EXCEPT
                 ![h] = [of_inumber |-> inum, of_offset |-> offset]]
      PROVE  FS!Grant(n, offset)
  <2>1. ASSUME NEW k \in Handles, k # h
        PROVE  AbstractHandles'[k] = AbstractHandles[k]
    <3>1. (is_open(k)' <=> is_open(k)) /\ open_file_table'[k] = open_file_table[k]
      BY <1>1, <1>4, <2>1 DEF TypeOK, is_open
    <3> QED
      BY <1>2, <3>1
  <2>2. /\ is_open(h)' /\ open_file_table'[h].of_inumber = inum
        /\ open_file_table'[h].of_offset = offset
    BY <1>1, <1>4 DEF TypeOK, is_open
  <2>3. AbstractHandles'[h] = FS!At(n, offset)
    BY <2>2 DEF AbstractHandles, FS!At, NameOf
  <2>4. AbstractHandles' = [AbstractHandles EXCEPT ![h] = FS!At(n, offset)]
    BY <2>1, <2>3, OneHandleChanges
  <2>5. ~FS!IsOpen(h)
    BY <1>4, MappedHandle
  <2> QED
    BY <1>4, <2>4, <2>5 DEF FS!Grant, FS!Reply, Reply
<1> QED
  BY <1>1, <1>3, <1>4, HandleCases

-----------------------------------------------------------------------------
(* Every operation is a step of FileStore.                                 *)

\* tfs_open of a file that exists opens the file of that name, emptied if asked.
LEMMA OpenExistingImplements ==
    ASSUME ContractInv, NEW path \in Paths, NEW flags \in AllFlags,
           TruncatesFresh(path, flags), OpenExisting(path, flags)
    PROVE  FS!OpenExisting(path.sub, flags)
<1> DEFINE n == path.sub
<1>1. PICK inum \in Files :
         /\ inum = lookup(path)
         /\ inum \in Inodes /\ freeinode_ts[inum] = TAKEN
         /\ UNCHANGED <<freeinode_ts, dir, fs_data>>
         /\ \A i \in Inodes : i # inum => inode_table'[i] = inode_table[i]
         /\ "TFS_O_TRUNC" \in flags => inode_table'[inum].i_size = 0
         /\ "TFS_O_TRUNC" \notin flags => UNCHANGED inode_table
         /\ AddToOpenFileTable(inum,
                IF "TFS_O_APPEND" \in flags THEN inode_table'[inum].i_size ELSE 0)
  BY ExistingOpened
<1>2. UNCHANGED dir
  BY <1>1
<1>3. inum # -1
  BY <1>1, SizesAssumption DEF Files, Inodes
<1>4. find_in_dir(dir, n) = inum
  BY <1>1, <1>3 DEF lookup
<1>5. n \in DOMAIN AbstractFiles /\ NameOf(inum) = n
  BY <1>3, <1>4, NameIsFound
<1>6. \A i \in Files : i # inum => Contents(i)' = Contents(i)
  BY <1>1, SameContents DEF Files
<1>7. FS!Grant(n, IF "TFS_O_APPEND" \in flags THEN inode_table'[inum].i_size ELSE 0)
  <2>1. \A i : NameOf(i)' = NameOf(i)
    BY <1>1, NamesKept
  <2>2. NameOf(inum) = n
    BY <1>5
  <2>3. ASSUME NEW i \in Inodes, NameOf(i) = n, NEW offset, AddToOpenFileTable(i, offset)
        PROVE  FS!Grant(n, offset)
    <3>1. NameOf(i)' = n /\ \A j \in Files : freeinode_ts[j] = TAKEN => NameOf(j)' = NameOf(j)
      BY <2>1, <2>3
    <3> HIDE DEF n
    <3> QED
      BY <2>3, <3>1, HandleGranted
  <2> HIDE DEF n
  <2> QED
    BY <1>1, <2>2, <2>3
<1>8. CASE "TFS_O_TRUNC" \in flags
  <2>1. Contents(inum)' = <<>>
    <3>1. inode_table'[inum].i_size = 0
      BY <1>1, <1>8
    <3> QED
      BY <3>1 DEF Contents
  <2>2. AbstractFiles' = [AbstractFiles EXCEPT ![n] = <<>>]
    <3> HIDE DEF n
    <3> QED
      BY <1>1, <1>2, <1>5, <1>6, <2>1, OneFileChanges
  <2>3. ASSUME NEW h \in Handles, FS!IsOpen(h), AbstractHandles[h].file = n
        PROVE  AbstractHandles[h].pos = 0
    <3>1. is_open(h)
      BY <2>3, MappedHandle
    <3>2. /\ NameOf(open_file_table[h].of_inumber) = n
          /\ AbstractHandles[h].pos = open_file_table[h].of_offset
      BY <2>3, <3>1, MappedPosition
    <3>3. open_file_table[h].of_inumber \in Files
          /\ freeinode_ts[open_file_table[h].of_inumber] = TAKEN
      BY <3>1, OpenHandleInFile
    <3>4. open_file_table[h].of_inumber = inum
      BY <1>4, <3>2, <3>3, FileIsNamed
    <3> QED
      BY <1>1, <1>8, <3>1, <3>2, <3>4 DEF TruncatesFresh
  <2>4. Len(AbstractFiles'[n]) = inode_table'[inum].i_size
    <3>1. AbstractFiles'[n] = <<>>
      BY <1>5, <2>2
    <3>2. Len(<<>>) = 0
      OBVIOUS
    <3> QED
      BY <1>1, <1>8, <3>1, <3>2
  <2>5. FS!Grant(n, IF "TFS_O_APPEND" \in flags THEN Len(AbstractFiles'[n]) ELSE 0)
    BY <1>7, <2>4
  <2> QED
    BY <1>5, <1>8, <2>2, <2>3, <2>5 DEF FS!OpenExisting
<1>9. CASE "TFS_O_TRUNC" \notin flags
  <2>1. Contents(inum)' = Contents(inum)
    <3>1. fs_data' = fs_data /\ inode_table'[inum] = inode_table[inum]
      BY <1>1, <1>9
    <3> QED
      BY <1>1, <3>1, SameContents
  <2>2. AbstractFiles' = AbstractFiles
    BY <1>2, <1>6, <2>1, FilesKept
  <2>3. Len(AbstractFiles'[n]) = inode_table'[inum].i_size
    <3>1. AbstractFiles[n] = Contents(inum)
      BY <1>4, <1>5, NameIsFound
    <3>2. Len(Contents(inum)) = inode_table[inum].i_size
      BY <1>1, ContentsTyped
    <3> QED
      BY <1>1, <1>9, <2>2, <3>1, <3>2
  <2>4. FS!Grant(n, IF "TFS_O_APPEND" \in flags THEN Len(AbstractFiles'[n]) ELSE 0)
    BY <1>7, <2>3
  <2> QED
    BY <1>5, <1>9, <2>2, <2>4 DEF FS!OpenExisting
<1> QED
  BY <1>8, <1>9

\* The Cardinality that FileStore counts files with is the library's.
LEMMA SameCardinality ==
    ASSUME NEW S
    PROVE  FS!Cardinality(S) = Cardinality(S)
  BY DEF FS!Cardinality, Cardinality

\* A directory with an empty entry holds fewer files than it has entries.
LEMMA RoomForName ==
    ASSUME NEW entry \in Slots, dir[entry].d_inumber = -1
    PROVE  Cardinality(DOMAIN AbstractFiles) < MAX_DIR_ENTRIES
<1> DEFINE D == {dir[e].d_name : e \in UsedSlots}
           f == [e \in UsedSlots |-> dir[e].d_name]
<1>1. IsFiniteSet(Slots) /\ Cardinality(Slots) = MAX_DIR_ENTRIES
  <2>1. /\ 0 \in Int /\ MAX_DIR_ENTRIES - 1 \in Int /\ ~ (0 > MAX_DIR_ENTRIES - 1)
        /\ (MAX_DIR_ENTRIES - 1) - 0 + 1 = MAX_DIR_ENTRIES
    BY SizesAssumption
  <2> QED
    BY <2>1, FS_Interval DEF Slots
<1>2. IsFiniteSet(Slots \ {entry}) /\ Cardinality(Slots \ {entry}) = MAX_DIR_ENTRIES - 1
  BY <1>1, FS_RemoveElement
<1>3. UsedSlots \in SUBSET (Slots \ {entry})
  BY DEF UsedSlots
<1>4. IsFiniteSet(UsedSlots) /\ Cardinality(UsedSlots) <= MAX_DIR_ENTRIES - 1
  BY <1>2, <1>3, FS_Subset
<1>5. f \in Surjection(UsedSlots, D)
  BY DEF Surjection
<1>6. IsFiniteSet(D) /\ Cardinality(D) <= Cardinality(UsedSlots)
  BY <1>4, <1>5, FS_Surjection
<1>7. Cardinality(D) \in Nat /\ Cardinality(UsedSlots) \in Nat
  BY <1>4, <1>6, FS_CardinalityType
<1>8. DOMAIN AbstractFiles = D
  BY DEF AbstractFiles
<1> HIDE DEF D, f
<1> QED
  BY <1>4, <1>6, <1>7, <1>8, SizesAssumption

\* tfs_open that creates a file adds an empty file of that name, or fails and
\* leaves everything as it was.
LEMMA OpenCreateImplements ==
    ASSUME ContractInv, ContractInv', NEW path \in Paths, NEW flags \in AllFlags,
           CreatesStorable(path, flags), OpenCreate(path, flags)
    PROVE  FS!OpenMissing(path.sub, flags) \/ FS!NoHandle
<1> DEFINE n == path.sub
<1>1. UNCHANGED fs_data /\ "TFS_O_CREAT" \in flags
  BY FileCreated DEF OpenCreate
<1>2. CASE /\ UNCHANGED <<freeinode_ts, dir, openFiles>> /\ Reply(-1)
           /\ \A i \in Inodes :
                  freeinode_ts[i] = TAKEN => inode_table'[i] = inode_table[i]
  <2>1. \A i \in Files : freeinode_ts[i] = TAKEN => Contents(i)' = Contents(i)
    BY <1>1, <1>2, SameContents DEF Files
  <2>2. UNCHANGED AbstractFiles
    BY <1>2, <2>1, FilesKept
  <2>3. UNCHANGED AbstractHandles
    BY <1>2, HandlesKept DEF openFiles
  <2> QED
    BY <1>2, <2>2, <2>3 DEF FS!NoHandle, FS!Reply, Reply
<1>3. ASSUME NEW entry \in Slots, NEW inum \in Files,
             dir[entry].d_inumber = -1, inum = entry + 1,
             freeinode_ts[inum] = FREE,
             inode_table' = [inode_table EXCEPT ![inum] = NewFile],
             dir' = [dir EXCEPT ![entry] = [d_inumber |-> inum, d_name |-> n]],
             \A e \in UsedSlots : dir[e].d_name # n,
             AddToOpenFileTable(inum, 0)
      PROVE  FS!OpenMissing(n, flags)
  <2>1. TypeOK /\ inum \in Inodes /\ inum # -1
    BY <1>3, SizesAssumption DEF ContractInv, IndInv, Files, Inodes
  <2>2. /\ \A e \in Slots : e # entry => dir'[e] = dir[e]
        /\ dir'[entry].d_inumber = inum /\ dir'[entry].d_name = n
    BY <1>3, <2>1 DEF TypeOK
  <2>3. UsedSlots' = UsedSlots \cup {entry} /\ entry \notin UsedSlots
    BY <1>3, <2>1, <2>2 DEF UsedSlots
  <2>4. \A i \in Files : freeinode_ts[i] = TAKEN => Contents(i)' = Contents(i)
    <3>1. \A i \in Files : freeinode_ts[i] = TAKEN => inode_table'[i] = inode_table[i]
      BY <1>3, <2>1 DEF TypeOK, FREE, TAKEN, Files
    <3> QED
      BY <1>1, <3>1, SameContents
  <2>5. Contents(inum)' = <<>>
    <3>1. inode_table'[inum].i_size = 0
      BY <1>3, <2>1 DEF TypeOK, NewFile
    <3> QED
      BY <3>1 DEF Contents
  <2>6. DOMAIN AbstractFiles' = DOMAIN AbstractFiles \cup {n} /\ n \notin DOMAIN AbstractFiles
    <3>1. /\ DOMAIN AbstractFiles = {dir[e].d_name : e \in UsedSlots}
          /\ DOMAIN AbstractFiles' = {dir'[e].d_name : e \in UsedSlots'}
      BY DEF AbstractFiles
    <3>2. \A e \in UsedSlots : dir'[e].d_name = dir[e].d_name
      BY <2>2, <2>3 DEF UsedSlots
    <3>3. \A m : m \in DOMAIN AbstractFiles' <=> m \in DOMAIN AbstractFiles \/ m = n
      BY <2>2, <2>3, <3>1, <3>2
    <3> QED
      BY <1>3, <3>1, <3>3
  <2>7. ASSUME NEW m \in DOMAIN AbstractFiles
        PROVE  find_in_dir(dir', m) = find_in_dir(dir, m)
    <3>1. m # n /\ find_in_dir(dir, m) # -1
      BY <2>6, NameIsFound
    <3>2. PICK e \in Matching(dir, m) : find_in_dir(dir, m) = dir[e].d_inumber
      BY <3>1, FoundInDir
    <3>3. e \in Slots /\ e # entry /\ e \in Matching(dir', m) /\ dir'[e] = dir[e]
      BY <1>3, <2>2, <3>2 DEF Matching
    <3>4. PICK f \in Matching(dir', m) : find_in_dir(dir', m) = dir'[f].d_inumber
      BY <3>3, FoundInDir
    <3>5. e \in UsedSlots' /\ f \in UsedSlots' /\ dir'[e].d_name = dir'[f].d_name
      BY <3>3, <3>4 DEF Matching, UsedSlots
    <3>6. e = f
      BY <3>5 DEF ContractInv, NamesLeadToFiles
    <3> QED
      BY <3>2, <3>3, <3>4, <3>6
  <2>8. find_in_dir(dir', n) = inum
    <3>1. entry \in Matching(dir', n)
      BY <2>1, <2>2 DEF Matching
    <3>2. PICK f \in Matching(dir', n) : find_in_dir(dir', n) = dir'[f].d_inumber
      BY <3>1, FoundInDir
    <3>3. entry \in UsedSlots' /\ f \in UsedSlots' /\ dir'[entry].d_name = dir'[f].d_name
      BY <3>1, <3>2 DEF Matching, UsedSlots
    <3>4. entry = f
      BY <3>3 DEF ContractInv, NamesLeadToFiles
    <3> QED
      BY <2>2, <3>2, <3>4
  <2>9. AbstractFiles' = [m \in DOMAIN AbstractFiles \cup {n} |->
                              IF m = n THEN <<>> ELSE AbstractFiles[m]]
    <3>1. ASSUME NEW m \in DOMAIN AbstractFiles
          PROVE  AbstractFiles'[m] = AbstractFiles[m]
      <4>1. PICK i \in Files :
               /\ i = find_in_dir(dir, m) /\ freeinode_ts[i] = TAKEN
               /\ AbstractFiles[m] = Contents(i)
        BY NameIsFound
      <4>2. AbstractFiles'[m] = Contents(i)'
        BY <2>6, <2>7, <4>1 DEF AbstractFiles
      <4> QED
        BY <2>4, <4>1, <4>2
    <3>2. AbstractFiles'[n] = <<>>
      BY <2>5, <2>6, <2>8 DEF AbstractFiles
    <3>3. AbstractFiles' = [m \in DOMAIN AbstractFiles \cup {n} |-> AbstractFiles'[m]]
      BY <2>6 DEF AbstractFiles
    <3> QED
      BY <2>6, <3>1, <3>2, <3>3
  <2>10. NameOf(inum)' = n
    <3>1. inum = find_in_dir(dir', n) /\ n \in DOMAIN AbstractFiles'
      BY <2>6, <2>8
    <3>2. inum \in Files /\ \E e \in UsedSlots' : dir'[e].d_inumber = inum
      BY <2>2, <2>3
    <3>3. PICK e \in UsedSlots' :
             e = (CHOOSE k \in UsedSlots' : dir'[k].d_inumber = inum)
             /\ dir'[e].d_inumber = inum
      BY <3>2
    <3>4. e = entry
      BY <1>3, <2>2, <2>3, <3>3, SizesAssumption DEF ContractInv, NamesLeadToFiles, Slots
    <3> QED
      BY <2>2, <3>3, <3>4 DEF NameOf
  <2>11. ASSUME NEW i \in Files, freeinode_ts[i] = TAKEN
         PROVE  NameOf(i)' = NameOf(i)
    <3>1. PICK e \in UsedSlots : dir[e].d_inumber = i
      BY <2>11, SizesAssumption DEF ContractInv, IndInv, DirectoryAgreement, UsedSlots, Files, Inodes
    <3>2. NameOf(i) = dir[e].d_name
      BY <3>1, NameOfEntry
    <3>3. e \in UsedSlots' /\ dir'[e] = dir[e]
      BY <2>2, <2>3, <3>1 DEF UsedSlots
    <3>4. PICK f \in UsedSlots' :
             f = (CHOOSE k \in UsedSlots' : dir'[k].d_inumber = i)
             /\ dir'[f].d_inumber = i
      BY <3>1, <3>3
    <3>5. e = f
      BY <3>1, <3>3, <3>4, SizesAssumption DEF ContractInv, NamesLeadToFiles, UsedSlots, Slots
    <3> QED
      BY <3>2, <3>3, <3>4, <3>5 DEF NameOf
  <2>12. FS!Grant(n, 0)
    BY <1>3, <2>1, <2>10, <2>11, HandleGranted
  <2>13. Cardinality(DOMAIN AbstractFiles) < MAX_DIR_ENTRIES
    BY <1>3, RoomForName
  <2> HIDE DEF n
  <2> QED
    BY <1>1, <2>6, <2>9, <2>12, <2>13, SameCardinality DEF FS!OpenMissing
<1> QED
  BY <1>2, <1>3, FileCreated

\* tfs_close of an open handle closes it, any other is refused.
LEMMA CloseImplements ==
    ASSUME ContractInv, NEW h \in ReturnedHandles, Close(h)
    PROVE  (h \in Handles /\ FS!Close(h)) \/ FS!NoHandle
<1>1. UNCHANGED tables
  BY DEF Close
<1>2. UNCHANGED AbstractFiles
  <2>1. \A i \in Files : freeinode_ts[i] = TAKEN => Contents(i)' = Contents(i)
    BY <1>1, SameContents DEF tables
  <2> QED
    BY <1>1, <2>1, FilesKept DEF tables
<1>3. CASE is_open(h)
  <2>1. h \in Handles /\ free_open_file_entries' = [free_open_file_entries EXCEPT ![h] = FREE]
        /\ UNCHANGED open_file_table /\ Reply(0)
    BY <1>3 DEF Close, is_open
  <2>2. AbstractHandles'[h] = FS!Closed
    <3>1. ~is_open(h)'
      BY <2>1 DEF is_open, ContractInv, IndInv, TypeOK, FREE, TAKEN
    <3> QED
      BY <2>1, <3>1 DEF AbstractHandles, FS!Closed
  <2>3. ASSUME NEW k \in Handles, k # h
        PROVE  AbstractHandles'[k] = AbstractHandles[k]
    <3>1. is_open(k)' <=> is_open(k)
      BY <2>1, <2>3 DEF is_open, ContractInv, IndInv, TypeOK
    <3> QED
      BY <1>1, <2>1, <3>1 DEF AbstractHandles, NameOf, UsedSlots, tables
  <2>4. AbstractHandles' = [AbstractHandles EXCEPT ![h] = FS!Closed]
    BY <2>1, <2>2, <2>3, OneHandleChanges
  <2>5. FS!IsOpen(h)
    BY <1>3, <2>1, MappedHandle
  <2> QED
    BY <1>2, <2>1, <2>4, <2>5 DEF FS!Close, FS!Reply, Reply
<1>4. CASE ~is_open(h)
  <2>1. Reply(-1) /\ UNCHANGED openFiles
    BY <1>4 DEF Close
  <2>2. UNCHANGED AbstractHandles
    BY <1>1, <2>1, HandlesKept DEF tables, openFiles
  <2> QED
    BY <1>2, <2>1, <2>2 DEF FS!NoHandle, FS!Reply, Reply
<1> QED
  BY <1>3, <1>4

\* A step that leaves the tables and the handles alone leaves their images alone.
LEMMA NothingChanges ==
    ASSUME ContractInv, UNCHANGED <<tables, openFiles>>
    PROVE  UNCHANGED <<AbstractFiles, AbstractHandles>>
<1>1. \A i \in Files : freeinode_ts[i] = TAKEN => Contents(i)' = Contents(i)
  BY SameContents DEF tables
<1>2. UNCHANGED AbstractFiles
  BY <1>1, FilesKept DEF tables
<1>3. UNCHANGED AbstractHandles
  BY HandlesKept DEF tables, openFiles
<1> QED
  BY <1>2, <1>3

\* tfs_lookup finds the files there are, and answers with one i-node of them.
LEMMA LookupImplements ==
    ASSUME ContractInv, NEW path \in Paths, Lookup(path)
    PROVE  FS!Lookup(path.sub) \/ FS!NoHandle
<1> DEFINE n == path.sub
<1>1. UNCHANGED <<AbstractFiles, AbstractHandles>> /\ Reply(lookup(path))
  BY NothingChanges DEF Lookup
<1>2. CASE lookup(path) = -1
  BY <1>1, <1>2 DEF FS!NoHandle, FS!Reply, Reply
<1>3. CASE lookup(path) # -1
  <2>1. lookup(path) = find_in_dir(dir, n) /\ n \in DOMAIN AbstractFiles
    BY <1>3, NameIsFound DEF lookup
  <2>2. lookup(path) \in 1 .. MAX_DIR_ENTRIES
    <3>1. PICK e \in Matching(dir, n) : find_in_dir(dir, n) = dir[e].d_inumber
      BY <1>3, <2>1, FoundInDir
    <3>2. e \in UsedSlots /\ e \in Slots
      BY <3>1 DEF Matching, UsedSlots
    <3>3. dir[e].d_inumber = e + 1
      BY <3>2 DEF ContractInv, NamesLeadToFiles
    <3> QED
      BY <2>1, <3>1, <3>2, <3>3, SizesAssumption DEF Slots
  <2>3. FS!Reply(lookup(path))
    BY <1>1 DEF FS!Reply, Reply
  <2>4. \E id \in 1 .. MAX_DIR_ENTRIES : FS!Reply(id)
    BY <2>2, <2>3
  <2> QED
    BY <1>1, <2>1, <2>4 DEF FS!Lookup
<1> QED
  BY <1>2, <1>3

\* The bytes a read copies are those of the file from the handle's position on.
LEMMA BytesRead ==
    ASSUME ContractInv, NEW i \in Files, freeinode_ts[i] = TAKEN,
           NEW p \in Nat, NEW n \in Nat \ {0}, p + n <= inode_table[i].i_size
    PROVE  BytesAt(inode_table[i].i_data_block, p, n)
               = SubSeq(Contents(i), p + 1, p + n)
<1> DEFINE s == Contents(i)
           bytes == BytesAt(inode_table[i].i_data_block, p, n)
           part == SubSeq(s, p + 1, p + n)
<1>1. /\ s \in Seq(Bytes) /\ Len(s) = inode_table[i].i_size
      /\ inode_table[i].i_size \in 0 .. BLOCK_SIZE
  BY ContentsTyped
<1>2. \A k \in 1 .. Len(s) : s[k] = fs_data[inode_table[i].i_data_block][k - 1]
  BY <1>1 DEF Contents
<1> HIDE DEF s
<1>3. /\ part \in Seq(Bytes) /\ Len(part) = n
      /\ \A k \in 1 .. n : part[k] = s[p + k]
  <2>1. /\ p + 1 \in 1 .. Len(s) + 1 /\ p + n \in 0 .. Len(s)
        /\ p + 1 \in 1 .. Len(s) /\ p + n \in p + 1 .. Len(s)
    BY <1>1, SizesAssumption
  <2> QED
    BY <1>1, <2>1, SubSeqProperties
<1>4. bytes = [k \in 1 .. n |-> fs_data[inode_table[i].i_data_block][p + k - 1]]
  BY <1>1, SizesAssumption DEF BytesAt
<1>5. \A k \in 1 .. n : bytes[k] = part[k]
  <2> TAKE k \in 1 .. n
  <2>1. bytes[k] = fs_data[inode_table[i].i_data_block][p + k - 1]
    BY <1>4
  <2>2. p + k \in 1 .. Len(s) /\ (p + k) - 1 = p + k - 1
    BY <1>1, SizesAssumption
  <2>3. s[p + k] = fs_data[inode_table[i].i_data_block][p + k - 1]
    BY <1>2, <2>2
  <2> QED
    BY <1>3, <2>1, <2>3
<1>6. part = [k \in 1 .. n |-> part[k]]
  BY <1>3
<1>7. bytes = [k \in 1 .. n |-> bytes[k]]
  BY <1>4
<1> HIDE DEF bytes, part
<1>8. bytes = part
  BY <1>5, <1>6, <1>7
<1> QED
  BY <1>8 DEF bytes, part, s

\* tfs_read through an open handle reads its file at its position.
LEMMA ReadImplements ==
    ASSUME ContractInv, NEW h \in Handles, is_open(h), NEW len \in Lens, Read(h, len)
    PROVE  FS!Read(h, len)
<1>1. PICK inum, offset, n :
         /\ inum = open_file_table[h].of_inumber /\ offset = open_file_table[h].of_offset
         /\ n = FS!Least(len, inode_table[inum].i_size - offset)
  OBVIOUS
<1>2. /\ n \in Nat /\ offset + n <= inode_table[inum].i_size
      /\ reply' = [ret |-> n,
             data |-> IF n = 0 THEN <<>>
                      ELSE BytesAt(inode_table[inum].i_data_block, offset, n)]
      /\ open_file_table' = [open_file_table EXCEPT ![h].of_offset = offset + n]
      /\ UNCHANGED <<tables, free_open_file_entries, open_file_count, faulted>>
  BY <1>1, ReadOutcome
<1>3. inum \in Files /\ freeinode_ts[inum] = TAKEN
  BY <1>1, OpenHandleInFile
<1>4. offset \in Nat
  BY <1>1, BytesAssumption DEF ContractInv, IndInv, TypeOK
<1> DEFINE f == NameOf(inum)
<1>5. /\ FS!IsOpen(h) /\ AbstractHandles[h].file = f /\ AbstractHandles[h].pos = offset
      /\ AbstractFiles[f] = Contents(inum)
  BY <1>1, MappedPosition
<1>6. /\ Contents(inum) \in Seq(Bytes) /\ Len(Contents(inum)) = inode_table[inum].i_size
  BY <1>3, ContentsTyped
<1>7. reply'.data = SubSeq(Contents(inum), offset + 1, offset + n) /\ reply'.ret = n
      /\ reply' = [ret |-> reply'.ret, data |-> reply'.data]
  <2>1. CASE n = 0
    <3>1. SubSeq(Contents(inum), offset + 1, offset) = <<>>
      BY <1>4, <1>6, SubSeqProperties
    <3> QED
      BY <1>2, <1>4, <2>1, <3>1
  <2>2. CASE n # 0
    BY <1>2, <1>3, <1>4, <2>2, BytesRead
  <2> QED
    BY <2>1, <2>2
<1>8. AbstractHandles' = [AbstractHandles EXCEPT ![h] = FS!At(f, offset + n)]
  BY <1>1, <1>2, HandleMoves DEF tables
<1>9. UNCHANGED AbstractFiles
  <2>1. \A i \in Files : freeinode_ts[i] = TAKEN => Contents(i)' = Contents(i)
    BY <1>2, SameContents DEF tables
  <2> QED
    BY <1>2, <2>1, FilesKept DEF tables
<1>10. n = FS!Least(len, Len(AbstractFiles[f]) - offset)
  BY <1>1, <1>5, <1>6
<1> HIDE DEF f
<1> QED
  BY <1>5, <1>7, <1>8, <1>9, <1>10 DEF FS!Read

\* What tfs_write leaves in its file: the bytes written, from the handle's
\* position on, and the old ones around them.
LEMMA BytesWritten ==
    ASSUME ContractInv, ContractInv', NEW h \in Handles, is_open(h),
           NEW buffer \in Buffers, NEW i \in Files, freeinode_ts[i] = TAKEN,
           NEW p \in 0 .. inode_table[i].i_size, NEW n \in Nat \ {0}, n <= Len(buffer),
           NEW block \in Blocks, freeinode_ts'[i] = TAKEN,
           inode_table[i].i_size > 0 => block = inode_table[i].i_data_block,
           inode_table'[i].i_data_block = block,
           inode_table'[i].i_size =
               IF p + n > inode_table[i].i_size THEN p + n ELSE inode_table[i].i_size,
           fs_data' = Overwrite(block, p, buffer, n)
    PROVE  Contents(i)' = SubSeq(Contents(i), 1, p) \o SubSeq(buffer, 1, n)
                            \o SubSeq(Contents(i), p + n + 1, Len(Contents(i)))
<1> DEFINE size == inode_table[i].i_size
<1> PICK new, old : new = Contents(i)' /\ old = Contents(i)
  OBVIOUS
<1>1. old \in Seq(Bytes) /\ Len(old) = size /\ size \in 0 .. BLOCK_SIZE
  BY ContentsTyped
<1>2. /\ new \in Seq(Bytes) /\ Len(new) = inode_table'[i].i_size
      /\ inode_table'[i].i_size \in 0 .. BLOCK_SIZE
  <2>1. inode_table'[i].i_size \in 0 .. BLOCK_SIZE /\ inode_table'[i].i_size \in Nat
    <3>1. TypeOK' /\ i \in Inodes
      BY DEF ContractInv, IndInv, Files
    <3>2. inode_table'[i] \in inode_t
      BY <3>1 DEF TypeOK
    <3> QED
      BY <3>2, SizesAssumption DEF inode_t
  <2>2. \A k \in 1 .. inode_table'[i].i_size : fs_data'[block][k - 1] \in Bytes
    BY <2>1, SizesAssumption DEF ContractInv, IndInv, TypeOK, Cells
  <2>3. new = [k \in 1 .. inode_table'[i].i_size |-> fs_data'[block][k - 1]]
    BY DEF Contents
  <2>4. new \in [1 .. inode_table'[i].i_size -> Bytes]
    BY <2>2, <2>3
  <2> QED
    BY <2>1, <2>4
<1>3. buffer \in Seq(Bytes) /\ Len(buffer) \in Nat
  BY BytesAssumption
<1>4. /\ new = [k \in 1 .. Len(new) |-> fs_data'[block][k - 1]]
      /\ \A k \in 1 .. Len(old) : old[k] = fs_data[block][k - 1]
  <2>1. new = [k \in 1 .. inode_table'[i].i_size |->
                   fs_data'[inode_table'[i].i_data_block][k - 1]]
    BY DEF Contents
  <2>2. \A k \in 1 .. Len(old) : old[k] = fs_data[inode_table[i].i_data_block][k - 1]
    BY <1>1 DEF Contents
  <2>3. Len(old) # 0 => block = inode_table[i].i_data_block
    BY <1>1, SizesAssumption
  <2>4. \A k \in 1 .. Len(old) : Len(old) # 0
    BY <1>1
  <2> QED
    BY <1>2, <2>1, <2>2, <2>3, <2>4
<1>5. \A c \in Cells : fs_data'[block][c] =
          IF c >= p /\ c < p + n THEN buffer[c - p + 1] ELSE fs_data[block][c]
  BY DEF Overwrite, ContractInv, IndInv, TypeOK
<1>6. ASSUME NEW k \in 1 .. Len(new)
      PROVE  new[k] = IF k > p /\ k <= p + n THEN buffer[k - p] ELSE old[k]
  <2>1. k - 1 \in Cells /\ k \in Int /\ p \in Int /\ n \in Int
    BY <1>1, <1>2, SizesAssumption DEF Cells
  <2>2. new[k] = IF k - 1 >= p /\ k - 1 < p + n THEN buffer[(k - 1) - p + 1]
                 ELSE fs_data[block][k - 1]
    BY <1>4, <1>5, <2>1
  <2>3. (k - 1) - p + 1 = k - p /\ (k - 1 >= p <=> k > p) /\ (k - 1 < p + n <=> k <= p + n)
    BY <2>1
  <2>4. ~(k > p /\ k <= p + n) => k \in 1 .. Len(old)
    BY <1>1, <1>2, <2>1
  <2> QED
    BY <1>4, <2>2, <2>3, <2>4
<1>7. Len(new) = IF p + n > Len(old) THEN p + n ELSE Len(old)
  BY <1>1, <1>2
<1>8. p \in 0 .. Len(old) /\ n \in 0 .. Len(buffer)
  <2>1. Len(old) = inode_table[i].i_size
    BY <1>1
  <2> QED
    BY <1>3, <2>1
<1>9. new = SubSeq(old, 1, p) \o SubSeq(buffer, 1, n) \o SubSeq(old, p + n + 1, Len(old))
  <2>1. IsSplice(new, old, buffer, p, n)
    BY <1>6, <1>7 DEF IsSplice
  <2>2. old \in Seq(Bytes) /\ new \in Seq(Bytes) /\ buffer \in Seq(Bytes)
    BY <1>1, <1>2, <1>3
  <2> QED
    BY <1>8, <2>1, <2>2, Splice
<1> QED
  BY <1>9

\* tfs_write through an open handle writes in its file at its position, or
\* finds no block for its file and leaves everything as it was.
LEMMA WriteImplements ==
    ASSUME ContractInv, ContractInv', NEW h \in Handles, is_open(h),
           NEW buffer \in Buffers, Write(h, buffer)
    PROVE  FS!Write(h, buffer) \/ FS!NoHandle
<1>1. PICK inum, offset, block, n :
         /\ inum = open_file_table[h].of_inumber /\ offset = open_file_table[h].of_offset
         /\ block = block_to_write(inode_table[inum])
         /\ n = FS!Least(Len(buffer), BLOCK_SIZE - offset)
  OBVIOUS
<1> DEFINE size == inode_table[inum].i_size
           f == NameOf(inum)
<1>2. /\ UNCHANGED <<freeinode_ts, dir, free_open_file_entries, faulted>>
      /\ n \in Nat /\ n <= Len(buffer) /\ offset + n <= BLOCK_SIZE
      /\ \/ /\ size = 0 /\ inode_table'[inum].i_size = size
            /\ Reply(-1) /\ UNCHANGED <<fs_data, open_file_table>>
         \/ /\ n = 0
            /\ Reply(n) /\ UNCHANGED <<inode_table, fs_data, open_file_table>>
         \/ /\ n > 0 /\ block \in Blocks
            /\ size > 0 => block = inode_table[inum].i_data_block
            /\ inode_table'[inum].i_data_block = block
            /\ inode_table'[inum].i_size = IF offset + n > size THEN offset + n ELSE size
            /\ fs_data' = Overwrite(block, offset, buffer, n)
            /\ Reply(n)
            /\ open_file_table' = [open_file_table EXCEPT ![h].of_offset = offset + n]
  BY <1>1, WriteOutcome
<1>3. /\ inum \in Files /\ freeinode_ts[inum] = TAKEN /\ h \in ReturnedHandles
      /\ offset \in 0 .. size
  BY <1>1, OpenHandleInFile
<1>4. /\ FS!IsOpen(h) /\ AbstractHandles[h] = FS!At(f, offset)
      /\ AbstractHandles[h].file = f /\ AbstractHandles[h].pos = offset
      /\ AbstractFiles[f] = Contents(inum)
  BY <1>1, MappedHandle, MappedPosition
<1>5. Contents(inum) \in Seq(Bytes) /\ Len(Contents(inum)) = size
  BY <1>3, ContentsTyped
<1>6. \A j \in Files : freeinode_ts[j] = TAKEN /\ j # inum => Contents(j)' = Contents(j)
  BY <1>1, <1>3, WriteKeepsOthers DEF ContractInv, IndInv, DirInv
<1>7. PICK c : c = Contents(inum)'
  OBVIOUS
<1>8. AbstractFiles' = [AbstractFiles EXCEPT ![f] = c]
  BY <1>2, <1>3, <1>6, <1>7, OneFileChanges
<1>9. CASE /\ size = 0 /\ inode_table'[inum].i_size = size
           /\ Reply(-1) /\ UNCHANGED <<fs_data, open_file_table>>
  <2>1. Contents(inum)' = Contents(inum)
    BY <1>9 DEF Contents
  <2>2. UNCHANGED AbstractFiles
    BY <1>2, <1>6, <2>1, FilesKept
  <2>3. UNCHANGED AbstractHandles
    BY <1>2, <1>9, HandlesKept
  <2> QED
    BY <1>9, <2>2, <2>3 DEF FS!NoHandle, FS!Reply, Reply
<1>10. ASSUME Reply(n), AbstractHandles' = [AbstractHandles EXCEPT ![h] = FS!At(f, offset + n)],
              c = SubSeq(Contents(inum), 1, offset) \o SubSeq(buffer, 1, n)
                    \o SubSeq(Contents(inum), offset + n + 1, Len(Contents(inum)))
       PROVE  FS!Write(h, buffer)
  <2> HIDE DEF f
  <2> QED
    BY <1>1, <1>4, <1>8, <1>10 DEF FS!Write, FS!Reply, Reply
<1>11. CASE n = 0 /\ Reply(n) /\ UNCHANGED <<inode_table, fs_data, open_file_table>>
  <2>1. c = Contents(inum)
    BY <1>7, <1>11 DEF Contents
  <2>2. buffer \in Seq(Bytes)
    BY BytesAssumption
  <2>3. c = SubSeq(Contents(inum), 1, offset) \o SubSeq(buffer, 1, n)
              \o SubSeq(Contents(inum), offset + n + 1, Len(Contents(inum)))
    <3>1. PICK old, p : old = Contents(inum) /\ p = offset
      OBVIOUS
    <3>2. old \in Seq(Bytes) /\ c \in Seq(Bytes) /\ p \in 0 .. Len(old)
      BY <1>3, <1>5, <2>1, <3>1
    <3>3. n \in 0 .. Len(buffer)
      BY <1>2, <2>2
    <3>4. IsSplice(c, old, buffer, p, n)
      BY <1>11, <2>1, <3>1, <3>2 DEF IsSplice
    <3>5. c = SubSeq(old, 1, p) \o SubSeq(buffer, 1, n) \o SubSeq(old, p + n + 1, Len(old))
      BY <2>2, <3>2, <3>3, <3>4, Splice
    <3> QED
      BY <3>1, <3>5
  <2>4. AbstractHandles' = [AbstractHandles EXCEPT ![h] = FS!At(f, offset + n)]
    <3>1. AbstractHandles' = AbstractHandles
      BY <1>2, <1>11, HandlesKept
    <3>2. offset + n = offset
      BY <1>3, <1>5, <1>11
    <3> HIDE DEF f
    <3>3. AbstractHandles = [AbstractHandles EXCEPT ![h] = AbstractHandles[h]]
      BY DEF AbstractHandles
    <3> QED
      BY <1>4, <3>1, <3>2, <3>3
  <2> QED
    BY <1>10, <1>11, <2>3, <2>4
<1>12. CASE /\ n > 0 /\ block \in Blocks
            /\ size > 0 => block = inode_table[inum].i_data_block
            /\ inode_table'[inum].i_data_block = block
            /\ inode_table'[inum].i_size = IF offset + n > size THEN offset + n ELSE size
            /\ fs_data' = Overwrite(block, offset, buffer, n)
            /\ Reply(n)
            /\ open_file_table' = [open_file_table EXCEPT ![h].of_offset = offset + n]
  <2>1. n \in Nat \ {0} /\ freeinode_ts'[inum] = TAKEN
    BY <1>2, <1>3, <1>12
  <2>2. c = SubSeq(Contents(inum), 1, offset) \o SubSeq(buffer, 1, n)
              \o SubSeq(Contents(inum), offset + n + 1, Len(Contents(inum)))
    BY <1>2, <1>3, <1>7, <1>12, <2>1, BytesWritten
  <2>3. AbstractHandles' = [AbstractHandles EXCEPT ![h] = FS!At(f, offset + n)]
    BY <1>1, <1>2, <1>12, HandleMoves
  <2> QED
    BY <1>10, <1>12, <2>2, <2>3
<1> QED
  BY <1>2, <1>9, <1>11, <1>12

\* tfs_open that must not create a file it does not find.
LEMMA OpenMissingImplements ==
    ASSUME ContractInv, NEW path, NEW flags, OpenMissing(path, flags)
    PROVE  FS!NoHandle
<1>1. UNCHANGED <<AbstractFiles, AbstractHandles>>
  BY NothingChanges DEF OpenMissing
<1> QED
  BY <1>1 DEF OpenMissing, FS!NoHandle, FS!Reply, Reply

\* The -1 of an open that failed reads and writes nothing.
LEMMA NoHandleNoEffect ==
    ASSUME ContractInv, \/ \E buffer \in Buffers : Write(-1, buffer)
                        \/ \E len \in Lens : Read(-1, len)
    PROVE  FS!NoHandle
<1>1. -1 \notin Handles
  BY SizesAssumption DEF Handles
<1>2. Reply(-1) /\ UNCHANGED <<tables, openFiles>>
  BY <1>1 DEF Write, Read, tables, openFiles
<1>3. UNCHANGED <<AbstractFiles, AbstractHandles>>
  BY <1>2, NothingChanges
<1> QED
  BY <1>2, <1>3 DEF FS!NoHandle, FS!Reply, Reply

\* The empty tables of tfs_init are no file and no open handle.
LEMMA InitImplements ==
    ASSUME Init
    PROVE  FS!Init
<1>1. UsedSlots = {}
  BY DEF Init, UsedSlots
<1>2. \A h \in Handles : ~is_open(h)
  BY DEF Init, is_open, FREE, TAKEN
<1>3. AbstractFiles = [n \in {} |-> <<>>]
  BY <1>1 DEF AbstractFiles
<1>4. AbstractHandles = [h \in Handles |-> FS!Closed]
  BY <1>2 DEF AbstractHandles, FS!Closed
<1> QED
  BY <1>3, <1>4 DEF Init, FS!Init

\* Every step of P2/fs under the rules is a step of FileStore or none.
LEMMA ImplementsStep ==
    ASSUME ContractInv, ContractInv', [ContractNext]_vars
    PROVE  [FS!Next]_(FS!vars)
<1>1. CASE UNCHANGED vars
  <2>1. UNCHANGED <<AbstractFiles, AbstractHandles>> /\ UNCHANGED reply
    BY <1>1, NothingChanges DEF vars
  <2> QED
    BY <2>1 DEF FS!vars
<1>2. ASSUME NEW path \in Paths, NEW flags \in AllFlags,
             CreatesStorable(path, flags), TruncatesFresh(path, flags), Open(path, flags)
      PROVE  FS!Next
  <2>1. path.sub \in {q.sub : q \in Paths}
    OBVIOUS
  <2>2. flags \in SUBSET {"TFS_O_CREAT", "TFS_O_TRUNC", "TFS_O_APPEND"}
    BY DEF AllFlags
  <2>3. FS!OpenExisting(path.sub, flags) \/ FS!OpenMissing(path.sub, flags) \/ FS!NoHandle
    BY <1>2, OpenExistingImplements, OpenCreateImplements, OpenMissingImplements DEF Open
  <2> QED
    BY <2>1, <2>2, <2>3 DEF FS!Next
<1>3. ASSUME NEW path \in Paths, Lookup(path) PROVE FS!Next
  <2>1. path.sub \in {q.sub : q \in Paths}
    OBVIOUS
  <2> QED
    BY <1>3, <2>1, LookupImplements DEF FS!Next
<1>4. ASSUME NEW h \in ReturnedHandles, Close(h) PROVE FS!Next
  BY <1>4, CloseImplements DEF FS!Next
<1>5. ASSUME NEW h \in UsableHandles, NEW buffer \in Buffers, Write(h, buffer)
      PROVE  FS!Next
  <2>1. CASE h = -1
    BY <1>5, <2>1, NoHandleNoEffect DEF FS!Next
  <2>2. CASE h \in Handles /\ is_open(h)
    BY <1>5, <2>2, WriteImplements DEF FS!Next
  <2> QED
    BY <2>1, <2>2 DEF UsableHandles
<1>6. ASSUME NEW h \in UsableHandles, NEW len \in Lens, Read(h, len)
      PROVE  FS!Next
  <2>1. CASE h = -1
    BY <1>6, <2>1, NoHandleNoEffect DEF FS!Next
  <2>2. CASE h \in Handles /\ is_open(h)
    BY <1>6, <2>2, ReadImplements DEF FS!Next
  <2> QED
    BY <2>1, <2>2 DEF UsableHandles
<1> QED
  BY <1>1, <1>2, <1>3, <1>4, <1>5, <1>6 DEF ContractNext

\* P2/fs implements FileStore under the rules, for every disk, every set of
\* names and every buffer: whatever i-nodes, blocks, entries and handles it
\* reuses, callers see named sequences of bytes and positions in them.
THEOREM ImplementsFileStoreCorrect == ContractSpec => ImplementsFileStore
<1>1. Init => FS!Init
  BY InitImplements
<1>2. ContractInv /\ ContractInv' /\ [ContractNext]_vars => [FS!Next]_(FS!vars)
  BY ImplementsStep
<1> QED
  BY <1>1, <1>2, ContractInvCorrect, PTL DEF ContractSpec, ImplementsFileStore, FS!Spec
=============================================================================
