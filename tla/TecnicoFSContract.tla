------------------------- MODULE TecnicoFSContract -------------------------
(***************************************************************************)
(* TecnicoFS under callers that keep the rules FileStore states, and the    *)
(* refinement mapping under which it then implements FileStore.             *)
(***************************************************************************)
EXTENDS TecnicoFS

\* Nobody truncates a file in which an open handle has moved.
TruncatesFresh(path, flags) ==
    "TFS_O_TRUNC" \in flags =>
        \A h \in Handles : is_open(h) /\ open_file_table[h].of_inumber = lookup(path)
                           => open_file_table[h].of_offset = 0

\* A file is created under a valid name that d_name holds whole.
CreatesStorable(path, flags) ==
    "TFS_O_CREAT" \in flags =>
        valid_pathname(path) /\ Stored[path.sub] = path.sub

UsableHandles == {-1} \cup {h \in Handles : is_open(h)}

ContractNext ==
    /\ ~faulted
    /\ \/ \E path \in Paths, flags \in AllFlags :
              /\ CreatesStorable(path, flags) /\ TruncatesFresh(path, flags)
              /\ Open(path, flags)
       \/ \E path \in Paths : Lookup(path)
       \/ \E h \in ReturnedHandles : Close(h)
       \/ \E h \in UsableHandles, buffer \in Buffers : Write(h, buffer)
       \/ \E h \in UsableHandles, len \in Lens : Read(h, len)

ContractSpec == Init /\ [][ContractNext]_vars

\* Under the rules no handle gets past the end of its file, so the size_t
\* subtractions of tfs_read and tfs_write never wrap and no memcpy faults.
OffsetsWithinFile ==
    /\ ~faulted
    /\ \A h \in Handles : is_open(h) =>
           open_file_table[h].of_offset
               <= inode_table[open_file_table[h].of_inumber].i_size

-----------------------------------------------------------------------------
(* The refinement mapping.                                                 *)

UsedSlots == {e \in Slots : dir[e].d_inumber # -1}

\* Under the rules the directory is a function from names to files, which the
\* code checks nowhere: a name has one entry, and entry e leads to i-node e + 1,
\* the number that tfs_lookup answers with.  A creation that finds the directory
\* full has taken an i-node too, which inode_delete gives back.
NamesLeadToFiles ==
    /\ \A e, f \in UsedSlots : dir[e].d_name = dir[f].d_name => e = f
    /\ \A e \in UsedSlots : dir[e].d_inumber = e + 1

NameOf(i) == dir[CHOOSE e \in UsedSlots : dir[e].d_inumber = i].d_name

AbstractFiles ==
    [n \in {dir[e].d_name : e \in UsedSlots} |-> Contents(find_in_dir(dir, n))]
AbstractHandles ==
    [h \in Handles |->
        IF is_open(h)
        THEN [file |-> NameOf(open_file_table[h].of_inumber),
              pos |-> open_file_table[h].of_offset]
        ELSE [file |-> "none", pos |-> -1]]

FS == INSTANCE FileStore WITH
    Names <- {path.sub : path \in Paths},
    MaxFiles <- MAX_DIR_ENTRIES,
    MaxFileSize <- BLOCK_SIZE,
    files <- AbstractFiles,
    handles <- AbstractHandles

\* P2/fs implements FileStore: through every reuse of an i-node slot, a block
\* or a handle, callers see named sequences of bytes and positions in them.
ImplementsFileStore == FS!Spec
=============================================================================
