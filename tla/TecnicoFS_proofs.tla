-------------------------- MODULE TecnicoFS_proofs --------------------------
(***************************************************************************)
(* The tables of P2/fs/state.c keep their types, for every size of them,    *)
(* every set of paths and every buffer.  One lemma per operation, on top of *)
(* what the scans of the tables and the size_t arithmetic return.           *)
(***************************************************************************)
EXTENDS TecnicoFS, FiniteSetTheorems, WellFoundedInduction, TLAPS

\* A set of naturals that has an element has a least one, and Min is it.
LEMMA LeastElement ==
    ASSUME NEW S \in SUBSET Nat, S # {}
    PROVE  Min(S) \in S /\ \A y \in S : Min(S) <= y
<1>1. \E x \in S : \A y \in S : <<y, x>> \notin OpToRel(<, Nat)
  BY NatLessThanWellFounded, WFMin
<1>2. PICK x \in S : \A y \in S : <<y, x>> \notin OpToRel(<, Nat)
  BY <1>1
<1>3. OpToRel(<, Nat) = {ss \in Nat \X Nat : ss[1] < ss[2]}
  BY DEF OpToRel
<1>4. \A y \in S : x <= y
  <2> SUFFICES ASSUME NEW y \in S, y < x PROVE FALSE
    OBVIOUS
  <2>1. <<y, x>> \in {ss \in Nat \X Nat : ss[1] < ss[2]}
    OBVIOUS
  <2> QED
    BY <1>2, <1>3, <2>1
<1> QED
  BY <1>4 DEF Min

\* The loops that look for the first FREE element of a table find one or
\* answer with -1.
LEMMA FirstFreeIsFree ==
    ASSUME NEW n \in Nat, NEW t \in [0 .. n - 1 -> {FREE, TAKEN}]
    PROVE  \/ FirstFree(t) = -1 /\ \A i \in 0 .. n - 1 : t[i] = TAKEN
           \/ FirstFree(t) \in 0 .. n - 1 /\ t[FirstFree(t)] = FREE
<1> DEFINE F == {i \in DOMAIN t : t[i] = FREE}
<1>1. CASE F = {}
  BY <1>1 DEF FirstFree
<1>2. CASE F # {}
  <2>1. F \in SUBSET Nat
    OBVIOUS
  <2>2. Min(F) \in F
    BY <1>2, <2>1, LeastElement
  <2> QED
    BY <1>2, <2>2 DEF FirstFree
<1> QED
  BY <1>1, <1>2

\* The loops stop at the first FREE element: those before it are TAKEN.
LEMMA FirstFreeIsFirst ==
    ASSUME NEW n \in Nat, NEW t \in [0 .. n - 1 -> {FREE, TAKEN}], FirstFree(t) # -1
    PROVE  \A i \in 0 .. n - 1 : i < FirstFree(t) => t[i] = TAKEN
<1> DEFINE F == {i \in DOMAIN t : t[i] = FREE}
<1>1. F # {} /\ FirstFree(t) = Min(F)
  BY DEF FirstFree
<1>2. F \in SUBSET Nat
  OBVIOUS
<1>3. Min(F) \in F /\ \A y \in F : Min(F) <= y
  BY <1>1, <1>2, LeastElement
<1> HIDE DEF F
<1>4. ASSUME NEW i \in 0 .. n - 1, i < FirstFree(t) PROVE t[i] = TAKEN
  <2>1. PICK m \in Nat : m = FirstFree(t) /\ \A y \in F : m <= y
    BY <1>1, <1>2, <1>3
  <2>2. i \notin F
    BY <1>4, <2>1
  <2> QED
    BY <2>2 DEF F
<1> QED
  BY <1>4

\* inode_create takes an i-number of the table.
LEMMA InumberInRange ==
    ASSUME TypeOK
    PROVE  FirstFree(freeinode_ts) \in Inodes \cup {-1}
<1>1. freeinode_ts \in [0 .. INODE_TABLE_SIZE - 1 -> {FREE, TAKEN}]
  BY DEF TypeOK, Inodes
<1> QED
  BY <1>1, FirstFreeIsFree, SizesAssumption DEF Inodes

\* data_block_alloc takes a block of the disk.
LEMMA BlockInRange ==
    ASSUME TypeOK
    PROVE  FirstFree(free_blocks) \in Blocks \cup {-1}
<1>1. free_blocks \in [0 .. DATA_BLOCKS - 1 -> {FREE, TAKEN}]
  BY DEF TypeOK, Blocks
<1> QED
  BY <1>1, FirstFreeIsFree, SizesAssumption DEF Blocks

\* add_to_open_file_table takes a handle of the table.
LEMMA HandleInRange ==
    ASSUME TypeOK
    PROVE  FirstFree(free_open_file_entries) \in Handles \cup {-1}
<1>1. free_open_file_entries \in [0 .. MAX_OPEN_FILES - 1 -> {FREE, TAKEN}]
  BY DEF TypeOK, Handles
<1> QED
  BY <1>1, FirstFreeIsFree, SizesAssumption DEF Handles

\* add_dir_entry fills an empty entry, and every entry before it is used.
LEMMA EntryIsEmpty ==
    ASSUME TypeOK
    PROVE  \/ FirstEmptyEntry = -1 /\ \A e \in Slots : dir[e].d_inumber # -1
           \/ /\ FirstEmptyEntry \in Slots
              /\ dir[FirstEmptyEntry].d_inumber = -1
              /\ \A e \in Slots : e < FirstEmptyEntry => dir[e].d_inumber # -1
<1> DEFINE E == {e \in Slots : dir[e].d_inumber = -1}
<1>1. CASE E = {}
  BY <1>1 DEF FirstEmptyEntry
<1>2. CASE E # {}
  <2>1. E \in SUBSET Nat
    BY SizesAssumption DEF Slots
  <2>2. Min(E) \in E /\ \A y \in E : Min(E) <= y
    BY <1>2, <2>1, LeastElement
  <2>3. FirstEmptyEntry = Min(E)
    BY <1>2 DEF FirstEmptyEntry
  <2> HIDE DEF E
  <2>4. FirstEmptyEntry \in E /\ \A y \in E : FirstEmptyEntry <= y
    BY <2>2, <2>3
  <2>5. FirstEmptyEntry \in Slots /\ dir[FirstEmptyEntry].d_inumber = -1
    BY <2>4 DEF E
  <2>6. ASSUME NEW e \in Slots, e < FirstEmptyEntry PROVE dir[e].d_inumber # -1
    <3>1. e \notin E
      BY <2>4, <2>5, <2>6, SizesAssumption DEF Slots
    <3> QED
      BY <3>1 DEF E
  <2> QED
    BY <2>5, <2>6
<1> QED
  BY <1>1, <1>2

\* What find_in_dir answers is the i-number of an entry of that name, or -1.
LEMMA FoundInDir ==
    ASSUME NEW d, NEW n
    PROVE  \/ find_in_dir(d, n) = -1 /\ Matching(d, n) = {}
           \/ \E e \in Matching(d, n) :
                 /\ find_in_dir(d, n) = d[e].d_inumber
                 /\ \A k \in Matching(d, n) : e <= k
<1>1. CASE Matching(d, n) = {}
  BY <1>1 DEF find_in_dir
<1>2. CASE Matching(d, n) # {}
  <2>1. Matching(d, n) \in SUBSET Nat
    BY SizesAssumption DEF Matching, Slots
  <2>2. PICK e \in Matching(d, n) :
             e = Min(Matching(d, n)) /\ \A k \in Matching(d, n) : e <= k
    BY <1>2, <2>1, LeastElement
  <2>3. find_in_dir(d, n) = d[e].d_inumber
    BY <1>2, <2>2 DEF find_in_dir
  <2> QED
    BY <2>2, <2>3
<1> QED
  BY <1>1, <1>2

\* tfs_lookup answers with an i-number or with -1.
LEMMA LookupInRange ==
    ASSUME TypeOK, NEW path \in Paths
    PROVE  lookup(path) \in Inodes \cup {-1}
<1>1. path.sub \in SubNames
  BY NamesAssumption
<1>2. find_in_dir(dir, path.sub) \in Inodes \cup {-1}
  BY <1>1, FoundInDir DEF TypeOK, Matching
<1> QED
  BY <1>2 DEF lookup

\* An integer result is a reply.
LEMMA ReplyTyped ==
    ASSUME NEW n \in Int, Reply(n)
    PROVE  reply' \in Replies
BY DEF Reply, Replies

\* add_to_open_file_table keeps the types of the open file table.
LEMMA AddToOpenFileTableTyped ==
    ASSUME TypeOK, NEW inum \in Inodes, NEW offset \in 0 .. MAX_OFFSET,
           AddToOpenFileTable(inum, offset)
    PROVE  /\ free_open_file_entries' \in [Handles -> {FREE, TAKEN}]
           /\ open_file_table' \in
                  [Handles -> [of_inumber : Inodes, of_offset : 0 .. MAX_OFFSET]]
           /\ open_file_count' \in Int
           /\ reply' \in Replies
<1> DEFINE h == FirstFree(free_open_file_entries)
<1>1. CASE h = -1
  BY <1>1, ReplyTyped DEF AddToOpenFileTable, openFiles, TypeOK
<1>2. CASE h \in Handles
  <2>1. h # -1 /\ h \in Int
    BY <1>2, SizesAssumption DEF Handles
  <2>2. Reply(h)
    BY <2>1 DEF AddToOpenFileTable
  <2>3. /\ free_open_file_entries' = [free_open_file_entries EXCEPT ![h] = TAKEN]
        /\ open_file_table' = [open_file_table EXCEPT
                ![h] = [of_inumber |-> inum, of_offset |-> offset]]
        /\ open_file_count' = open_file_count + 1
    BY <2>1 DEF AddToOpenFileTable
  <2>4. reply' \in Replies
    BY <2>1, <2>2, ReplyTyped
  <2> QED
    BY <1>2, <2>3, <2>4 DEF TypeOK
<1> QED
  BY <1>1, <1>2, HandleInRange

\* tfs_open of a file that exists keeps the types.
LEMMA OpenExistingTyped ==
    ASSUME TypeOK, NEW path \in Paths, NEW flags \in AllFlags,
           OpenExisting(path, flags)
    PROVE  TypeOK'
<1> DEFINE inum == lookup(path)
           size == inode_table[inum].i_size
           block == inode_table[inum].i_data_block
           truncates == "TFS_O_TRUNC" \in flags /\ size > 0
           offset == open_offset(flags, size, IF truncates THEN 0 ELSE size)
<1>1. inum \in Inodes
  BY LookupInRange, SizesAssumption DEF OpenExisting, Inodes
<1>2. size \in 0 .. BLOCK_SIZE /\ offset \in 0 .. MAX_OFFSET
  BY <1>1, SizesAssumption, BytesAssumption DEF TypeOK, inode_t, open_offset
<1>3. UNCHANGED <<freeinode_ts, dir, fs_data, faulted>>
  BY DEF OpenExisting
<1>4. CASE truncates /\ block \notin Blocks
  BY <1>3, <1>4, ReplyTyped DEF OpenExisting, openFiles, TypeOK
<1>5. CASE ~(truncates /\ block \notin Blocks)
  <2>1. AddToOpenFileTable(inum, offset)
    BY <1>5 DEF OpenExisting
  <2>2. CASE truncates
    <3>1. free_blocks' \in [Blocks -> {FREE, TAKEN}]
      BY <1>5, <2>2 DEF OpenExisting, data_block_free, TypeOK
    <3>2. inode_table' = [inode_table EXCEPT ![inum].i_size = 0]
      BY <1>5, <2>2 DEF OpenExisting
    <3>3. inode_table[inum] \in inode_t
      BY <1>1 DEF TypeOK
    <3>4. [inode_table[inum] EXCEPT !.i_size = 0] \in inode_t
      BY <3>3, SizesAssumption DEF inode_t
    <3>5. inode_table' \in [Inodes -> inode_t]
      BY <1>1, <3>2, <3>4 DEF TypeOK
    <3> QED
      BY <1>1, <1>2, <1>3, <2>1, <3>1, <3>5, AddToOpenFileTableTyped DEF TypeOK
  <2>3. CASE ~truncates
    <3>1. UNCHANGED <<inode_table, free_blocks>>
      BY <1>5, <2>3 DEF OpenExisting
    <3> QED
      BY <1>1, <1>2, <1>3, <2>1, <3>1, AddToOpenFileTableTyped DEF TypeOK
  <2> QED
    BY <2>2, <2>3
<1> QED
  BY <1>4, <1>5

\* tfs_open that creates a file, or fails to, keeps the types.
LEMMA OpenCreateTyped ==
    ASSUME TypeOK, NEW path \in Paths, NEW flags \in AllFlags,
           OpenCreate(path, flags)
    PROVE  TypeOK'
<1> DEFINE inum == FirstFree(freeinode_ts)
           entry == FirstEmptyEntry
<1>1. UNCHANGED <<free_blocks, fs_data, faulted>>
  BY DEF OpenCreate
<1>2. CASE inum = -1
  BY <1>1, <1>2, ReplyTyped DEF OpenCreate, openFiles, TypeOK
<1>3. CASE inum \in Inodes
  <2>1. inum # -1
    BY <1>3, SizesAssumption DEF Inodes
  <2>2. inode_table' = [inode_table EXCEPT ![inum] = NewFile]
    BY <2>1 DEF OpenCreate
  <2>3. inode_table' \in [Inodes -> inode_t]
    <3>1. NewFile \in inode_t
      BY SizesAssumption DEF NewFile, inode_t
    <3> QED
      BY <1>3, <2>2, <3>1 DEF TypeOK
  <2>4. CASE path.sub = EmptyName \/ entry = -1
    BY <1>1, <1>3, <2>1, <2>3, <2>4, ReplyTyped
    DEF OpenCreate, openFiles, inode_delete, TypeOK
  <2>5. CASE ~(path.sub = EmptyName \/ entry = -1)
    <3>1. freeinode_ts' \in [Inodes -> {FREE, TAKEN}]
      BY <1>3, <2>1, <2>5 DEF OpenCreate, TypeOK
    <3>2. dir' = [dir EXCEPT ![entry] =
                     [d_inumber |-> inum, d_name |-> Stored[path.sub]]]
      BY <2>1, <2>5 DEF OpenCreate
    <3>3. path.sub \in SubNames /\ Stored[path.sub] \in SubNames
      BY NamesAssumption
    <3>4. dir' \in [Slots -> [d_inumber : Inodes \cup {-1}, d_name : SubNames]]
      BY <1>3, <3>2, <3>3 DEF TypeOK
    <3>5. AddToOpenFileTable(inum, 0)
      BY <2>1, <2>5 DEF OpenCreate
    <3>6. 0 \in 0 .. MAX_OFFSET
      BY BytesAssumption
    <3> QED
      BY <1>1, <1>3, <2>3, <3>1, <3>4, <3>5, <3>6, AddToOpenFileTableTyped DEF TypeOK
  <2> QED
    BY <2>4, <2>5
<1> QED
  BY <1>2, <1>3, InumberInRange

\* tfs_close keeps the types.
LEMMA CloseTyped ==
    ASSUME TypeOK, NEW h, Close(h)
    PROVE  TypeOK'
<1>1. CASE is_open(h)
  <2>1. reply' \in Replies
    BY <1>1, ReplyTyped DEF Close
  <2> QED
    BY <1>1, <2>1 DEF Close, is_open, tables, TypeOK
<1>2. CASE ~is_open(h)
  <2>1. reply' \in Replies
    BY <1>2, ReplyTyped DEF Close
  <2> QED
    BY <1>2, <2>1 DEF Close, tables, openFiles, TypeOK
<1> QED
  BY <1>1, <1>2

\* The size_t arithmetic of tfs_write: with an offset inside the block no write
\* gets past the end of the block; a wrapped one is longer than the block.
LEMMA WriteArithmetic ==
    ASSUME NEW len \in Nat, NEW offset \in 0 .. MAX_OFFSET
    PROVE  /\ bytes_to_write(len, offset) \in Nat
           /\ bytes_to_write(len, offset) <= BLOCK_SIZE =>
                /\ bytes_to_write(len, offset) <= len
                /\ offset + bytes_to_write(len, offset) <= BLOCK_SIZE
BY SizesAssumption, BytesAssumption DEF bytes_to_write, Minus

\* The size_t arithmetic of tfs_read yields a length, wrapped or not.
LEMMA ReadArithmetic ==
    ASSUME NEW size \in 0 .. BLOCK_SIZE, NEW offset \in 0 .. MAX_OFFSET, NEW len \in Nat
    PROVE  bytes_to_read(size, offset, len) \in Nat
BY SizesAssumption, BytesAssumption DEF bytes_to_read, Minus

\* tfs_write keeps the types.
LEMMA WriteTyped ==
    ASSUME TypeOK, NEW h \in ReturnedHandles, NEW buffer \in Buffers,
           Write(h, buffer)
    PROVE  TypeOK'
<1> DEFINE inum == open_file_table[h].of_inumber
           offset == open_file_table[h].of_offset
           inode == inode_table[inum]
           to_write == bytes_to_write(Len(buffer), offset)
           block == block_to_write(inode)
           after == offset + to_write
<1>1. UNCHANGED <<freeinode_ts, dir>>
  BY DEF Write
<1>2. buffer \in Seq(Bytes) /\ Len(buffer) \in Nat
  BY BytesAssumption
<1>3. CASE h \notin Handles \/ inum \notin Inodes
  BY <1>1, <1>3, ReplyTyped DEF Write, openFiles, TypeOK
<1>4. CASE h \in Handles /\ inum \in Inodes
  <2>1. offset \in 0 .. MAX_OFFSET /\ inode \in inode_t
    BY <1>4 DEF TypeOK
  <2>2. to_write \in Nat
    BY <1>2, <2>1, WriteArithmetic
  <2>3. CASE to_write = 0
    BY <1>1, <1>4, <2>3, ReplyTyped DEF Write, openFiles, TypeOK
  <2>4. CASE to_write # 0 /\ block \notin Blocks
    <3>1. inode_table' = [inode_table EXCEPT ![inum].i_data_block = -1]
      BY <1>4, <2>4 DEF Write
    <3>2. [inode EXCEPT !.i_data_block = -1] \in inode_t
      BY <2>1 DEF inode_t
    <3>3. inode_table' \in [Inodes -> inode_t]
      BY <1>4, <3>1, <3>2 DEF TypeOK
    <3>4. reply' \in Replies
      BY <1>4, <2>4, ReplyTyped DEF Write
    <3> QED
      BY <1>1, <1>4, <2>4, <3>3, <3>4 DEF Write, openFiles, TypeOK
  <2>5. CASE to_write # 0 /\ block \in Blocks /\ to_write > BLOCK_SIZE
    BY <1>1, <1>4, <2>5 DEF Write, openFiles, TypeOK
  <2>6. CASE to_write # 0 /\ block \in Blocks /\ ~(to_write > BLOCK_SIZE)
    <3>1. to_write <= Len(buffer) /\ after <= BLOCK_SIZE /\ after \in 0 .. BLOCK_SIZE
      <4>1. to_write <= BLOCK_SIZE
        BY <2>2, <2>6, SizesAssumption
      <4>2. to_write <= Len(buffer) /\ after <= BLOCK_SIZE
        BY <1>2, <2>1, <4>1, WriteArithmetic
      <4> QED
        BY <2>1, <2>2, <4>2, SizesAssumption, BytesAssumption
    <3>2. fs_data' \in [Blocks -> [Cells -> Bytes]]
      <4>1. fs_data' = Overwrite(block, offset, buffer, to_write)
        BY <1>4, <2>6 DEF Write
      <4>2. ASSUME NEW c \in Cells, c >= offset, c < offset + to_write
            PROVE  buffer[c - offset + 1] \in Bytes
        BY <1>2, <2>1, <2>2, <3>1, <4>2, SizesAssumption DEF Cells
      <4> QED
        BY <2>6, <4>1, <4>2 DEF Overwrite, TypeOK
    <3>3. inode_table' \in [Inodes -> inode_t]
      <4>1. inode_table' = [inode_table EXCEPT
                ![inum] = inode_written(inode, block, after)]
        BY <1>4, <2>6 DEF Write
      <4>2. inode_written(inode, block, after) \in inode_t
        BY <2>1, <2>6, <3>1, SizesAssumption DEF inode_t, inode_written
      <4> QED
        BY <1>4, <4>1, <4>2 DEF TypeOK
    <3>4. open_file_table' \in
              [Handles -> [of_inumber : Inodes, of_offset : 0 .. MAX_OFFSET]]
      <4>1. open_file_table' = [open_file_table EXCEPT ![h].of_offset = after]
        BY <1>4, <2>6 DEF Write
      <4>2. after \in 0 .. MAX_OFFSET
        BY <3>1, SizesAssumption, BytesAssumption
      <4>3. [open_file_table[h] EXCEPT !.of_offset = after]
                \in [of_inumber : Inodes, of_offset : 0 .. MAX_OFFSET]
        BY <1>4, <4>2 DEF TypeOK
      <4> QED
        BY <1>4, <4>1, <4>3 DEF TypeOK
    <3>5. free_blocks' \in [Blocks -> {FREE, TAKEN}]
      BY <1>4, <2>6 DEF Write, TypeOK
    <3>6. reply' \in Replies
      BY <1>4, <2>2, <2>6, ReplyTyped DEF Write
    <3>7. UNCHANGED <<free_open_file_entries, open_file_count, faulted>>
      BY <1>4, <2>6 DEF Write
    <3> QED
      BY <1>1, <3>2, <3>3, <3>4, <3>5, <3>6, <3>7 DEF TypeOK
  <2> QED
    BY <2>3, <2>4, <2>5, <2>6
<1> QED
  BY <1>3, <1>4

\* tfs_read keeps the types.
LEMMA ReadTyped ==
    ASSUME TypeOK, NEW h \in ReturnedHandles, NEW len \in Lens, Read(h, len)
    PROVE  TypeOK'
<1> DEFINE inum == open_file_table[h].of_inumber
           offset == open_file_table[h].of_offset
           inode == inode_table[inum]
           to_read == bytes_to_read(inode.i_size, offset, len)
<1>1. UNCHANGED <<tables, free_open_file_entries, open_file_count, faulted>>
  BY DEF Read
<1>2. CASE h \notin Handles \/ inum \notin Inodes
  BY <1>1, <1>2, ReplyTyped DEF Read, tables, TypeOK
<1>3. CASE h \in Handles /\ inum \in Inodes
  <2>1. offset \in 0 .. MAX_OFFSET /\ inode \in inode_t
    BY <1>3 DEF TypeOK
  <2>2. to_read \in Nat
    BY <2>1, ReadArithmetic, BytesAssumption DEF inode_t
  <2>3. CASE to_read = 0
    BY <1>1, <1>3, <2>3, ReplyTyped DEF Read, tables, TypeOK
  <2>4. CASE to_read # 0 /\ inode.i_data_block \notin Blocks
    BY <1>1, <1>3, <2>4, ReplyTyped DEF Read, tables, TypeOK
  <2>5. CASE to_read # 0 /\ inode.i_data_block \in Blocks
    <3>1. /\ offset + to_read <= MAX_OFFSET
          /\ reply' = [ret |-> to_read,
                       data |-> BytesAt(inode.i_data_block, offset, to_read)]
          /\ open_file_table' =
                 [open_file_table EXCEPT ![h].of_offset = offset + to_read]
      BY <1>3, <2>5 DEF Read
    <3>2. BytesAt(inode.i_data_block, offset, to_read) \in Seq(Bytes \cup {Beyond})
      <4>1. ASSUME NEW k \in 1 .. to_read, offset + k <= BLOCK_SIZE
            PROVE  fs_data[inode.i_data_block][offset + k - 1] \in Bytes
        <5>1. offset + k - 1 \in Cells
          BY <2>1, <2>2, <4>1, SizesAssumption DEF Cells
        <5> QED
          BY <2>5, <5>1 DEF TypeOK
      <4>2. BytesAt(inode.i_data_block, offset, to_read)
                \in [1 .. to_read -> Bytes \cup {Beyond}]
        BY <4>1 DEF BytesAt
      <4> QED
        BY <2>2, <4>2
    <3>3. reply' \in Replies
      BY <2>2, <3>1, <3>2 DEF Replies
    <3>4. offset + to_read \in 0 .. MAX_OFFSET
      BY <2>1, <2>2, <3>1, BytesAssumption
    <3>5. [open_file_table[h] EXCEPT !.of_offset = offset + to_read]
              \in [of_inumber : Inodes, of_offset : 0 .. MAX_OFFSET]
      BY <1>3, <3>4 DEF TypeOK
    <3>6. open_file_table' \in
              [Handles -> [of_inumber : Inodes, of_offset : 0 .. MAX_OFFSET]]
      BY <1>3, <3>1, <3>5 DEF TypeOK
    <3> QED
      BY <1>1, <3>3, <3>6 DEF tables, TypeOK
  <2> QED
    BY <2>3, <2>4, <2>5
<1> QED
  BY <1>2, <1>3

\* tfs_init fills the tables with values of their types.
LEMMA InitTyped ==
    ASSUME Init
    PROVE  TypeOK
<1>1. reply \in Replies
  BY DEF Init, Replies
<1>2. inode_table \in [Inodes -> inode_t]
  BY SizesAssumption DEF Init, inode_t, Blocks
<1>3. /\ freeinode_ts \in [Inodes -> {FREE, TAKEN}]
      /\ free_blocks \in [Blocks -> {FREE, TAKEN}]
      /\ free_open_file_entries \in [Handles -> {FREE, TAKEN}]
  BY DEF Init
<1>4. dir \in [Slots -> [d_inumber : Inodes \cup {-1}, d_name : SubNames]]
  BY NamesAssumption DEF Init
<1>5. fs_data \in [Blocks -> [Cells -> Bytes]]
  BY BytesAssumption DEF Init
<1>6. open_file_table \in [Handles -> [of_inumber : Inodes, of_offset : 0 .. MAX_OFFSET]]
  BY SizesAssumption, BytesAssumption DEF Init, ROOT_DIR_INUM, Inodes
<1>7. open_file_count \in Int
  BY DEF Init
<1>8. faulted \in BOOLEAN
  BY DEF Init
<1> QED
  BY <1>1, <1>2, <1>3, <1>4, <1>5, <1>6, <1>7, <1>8, Zenon DEF TypeOK

\* Every operation keeps the types.
LEMMA TypeStep ==
    ASSUME TypeOK, [Next]_vars
    PROVE  TypeOK'
<1>1. ASSUME NEW path \in Paths, NEW flags \in AllFlags, Open(path, flags)
      PROVE  TypeOK'
  <2>1. CASE OpenMissing(path, flags)
    BY <2>1, ReplyTyped DEF OpenMissing, tables, openFiles, TypeOK
  <2> QED
    BY <1>1, <2>1, OpenExistingTyped, OpenCreateTyped DEF Open
<1>2. ASSUME NEW path \in Paths, Lookup(path) PROVE TypeOK'
  <2>1. lookup(path) \in Int
    BY LookupInRange, SizesAssumption DEF Inodes
  <2> QED
    BY <1>2, <2>1, ReplyTyped DEF Lookup, tables, openFiles, TypeOK
<1>3. CASE UNCHANGED vars
  BY <1>3 DEF vars, tables, openFiles, TypeOK
<1> QED
  BY <1>1, <1>2, <1>3, CloseTyped, WriteTyped, ReadTyped DEF Next

\* The tables of state.c keep their types: whatever callers do, no i_size
\* exceeds a block, no i_data_block or of_inumber leaves its table.
THEOREM TypeCorrect == Spec => []TypeOK
<1>1. Init => TypeOK
  BY InitTyped
<1>2. TypeOK /\ [Next]_vars => TypeOK'
  BY TypeStep
<1> QED
  BY <1>1, <1>2, PTL DEF Spec
=============================================================================
