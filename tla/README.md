# TecnicoFS in TLA+

A formal model of TecnicoFS, an in-memory file system written in C, of the
server that offers it through named pipes, and of the clients' library: TLA+
modules, model-checking runs for TLC and proofs for TLAPS. Paths are relative
to the repository; `P2` is the client-server version, `P1` the earlier library
with fine-grained locks.

## 1. The system

| Part | Code | State | Operations |
|---|---|---|---|
| File system | `P2/fs/operations.c` | `single_global_lock`, `cond`, `state` | `tfs_init`, `tfs_lookup`, `tfs_open`, `tfs_close`, `tfs_write`, `tfs_read`, `tfs_destroy_after_all_closed` |
| Tables | `P2/fs/state.c` | i-node table and map, blocks and block map, root directory, open file table, `open_file_count` | `inode_create`, `inode_delete`, `add_dir_entry`, `find_in_dir`, `data_block_alloc/free/get`, `add_to_/remove_from_/get_open_file_entry` |
| Server | `P2/fs/tfs_server.c` | `status`, `session_status[S]`, `session_count`, `buffer[S]`, a mutex and a condition variable for each session, a local `cpipe` in each consumer | one producer thread, `S` consumer threads, `main` |
| Client API | `P2/client/tecnicofs_client_api.c` | `session_id`, `fclient`, `fserver`, `pipe_buffer` | `tfs_mount`, `tfs_unmount`, `tfs_open`, `tfs_close`, `tfs_write`, `tfs_read`, `tfs_shutdown_after_all_closed` |
| Common | `P2/common/common.h` | - | flags of `tfs_open` |
| Old library | `P1/fs/*` | the same tables, direct and indirect blocks, three mutexes, an rwlock per i-node and a mutex per handle | the same, and `tfs_copy_to_external_fs` |

How they interact. A client writes a request of 100 bytes to the server's pipe.
The producer reads it, copies it to the command buffer of the session that the
request names and signals that session's condition variable; the consumer
wakes, calls the file system and writes the reply to the client's own pipe. All
consumers share the file system under its one lock. `tfs_shutdown_after_all_closed`
makes a consumer call `tfs_destroy_after_all_closed`, which waits on `cond`
until a `tfs_close` signals it, and then turns the server off.

What is hard, and what makes each part correct:

* *File system.* Handles outlive truncations, handles are not checked to be
  open, creations fail half-way, names may be invalid or cut, every table may be
  full. Correct: a block belongs to one file, directory and i-node map agree,
  names keep their i-nodes, the open count is true, a write shows in one file,
  and, for callers who keep two rules, the whole is a set of named byte sequences.
* *Shutdown.* `state` is tested outside the lock, a wait is guarded by `if`, one
  signal is sent, the mutex is destroyed. Correct: files open at the call are
  closed before the destruction; nobody waits for ever.
* *Server and clients.* Buffers written without their lock, signals without a
  condition, clients that die or unmount while a reply is under way, descriptors
  that are reused. Correct: sessions are exclusive, commands are not overwritten,
  each client reads the reply to its own request, the server stays up.
* *Messages.* A request has no marks of its own on the pipe: what a field leaves
  unread is the next field, and the end of the pipe leaves old bytes in the
  producer's variables. Correct: requests are served once, in order, with the
  fields that were sent.
* *P1.* Many threads between the critical sections of one call: lookup and
  creation, the test of a directory entry and its two writes, the blocks that a
  truncation has freed and not yet reset, the offset of a handle and the copy that
  uses it; unlocks without a lock. Correct: an i-node, a handle and a block have
  one owner at every step, a copy is made where the handle has come to, and every
  call returns.

The hazards, each at its line with the properties that watch it, are in
`PROJECT.json`.

## 2. Modules

| Module | What it is |
|---|---|
| `TecnicoFS` | operations.c and state.c, one action per public operation |
| `FileStore` | what a caller is promised: named byte sequences and handles with a position |
| `TecnicoFSContract` | `TecnicoFS` restricted to callers that keep the rules, and the refinement mapping to `FileStore` |
| `Shutdown` | `tfs_destroy_after_all_closed`, `tfs_open` and `tfs_close` by their steps around the lock |
| `Server` | producer, consumers, pipes and clients |
| `LastSession` | `Server` with the history of whether one session is left, and what holds from then on |
| `Wire` | the bytes of the requests, from the client's message to the producer's reads |
| `P1FS` | P1/fs, by its critical sections and its accesses outside them |
| `MCTecnicoFS`, `MCTecnicoFSContract`, `MCShutdown`, `MCServer`, `MCLastSession`, `MCWire`, `MCP1FS` | constants for TLC |
| `MCP1Test` | two of the five threads of P1/test/testes_3.c |
| `MCServerSessions` | a schedule of `Server`'s threads with four sessions |
| `TecnicoFS_proofs`, `TecnicoFSSafety_proofs` | proofs about `TecnicoFS` |
| `Shutdown_proofs` | proofs about `Shutdown` |
| `Server_proofs`, `LastSession_proofs` | proofs about `Server` and `LastSession` |
| `TecnicoFSContract_proofs` | proofs about `TecnicoFSContract`: the refinement of `FileStore` |
| `Wire_proofs` | proofs about `Wire` |
| `P1FS_proofs` | proofs about `P1FS` |

### TecnicoFS

Every public operation holds `single_global_lock` from its first access of a
table to its last, so an operation is one action: `Open`, `Lookup`, `Close`,
`Write`, `Read`. `Open` has a disjunct for each way through the code:
`OpenExisting` (with the truncation and the choice of offset), `OpenCreate`
(`inode_create`, `add_dir_entry`, and `inode_delete` when that fails) and
`OpenMissing`. The variables are the arrays of state.c under their names; the
block of the root directory is `dir`, an array of entries, and is not repeated in
`fs_data`. `reply` is what the last operation returned.

* A path is a record: whether `valid_pathname` accepts its first character, and
  the name behind it. `Stored` says what `strncpy` leaves of a name. `tfs_open`
  does not check the path before it creates, so invalid paths are passed too.
* `size_t` arithmetic is done modulo `SIZE_T`. `faulted` says that a `memcpy`
  with a wrapped length left the process's memory, after which nothing happens.
* `Beyond` is a byte read past the block of the file; its value is not followed.
* Callers pass handles they got from `tfs_open`, closed since or not, and -1.
* `MAX_OFFSET` bounds how far reads may carry an offset past the end of a file.

### FileStore and TecnicoFSContract

`FileStore` has no i-nodes, blocks or directory. Its guards are three rules for
callers: no truncation of a file in which an open handle has moved, no reading or
writing through handles that are not open, and no creation under a name that
`d_name` does not hold whole or that `valid_pathname` refuses (`CreatesStorable`).
`ContractSpec` imposes them on `TecnicoFS`; `ImplementsFileStore` says that every
step then maps to a step of `FileStore`, with `AbstractFiles` and
`AbstractHandles` as the mapping. Without the first rule the implementation is
wrong: after a truncation through another handle the subtraction in `tfs_read`
wraps, and the read goes past the end of the file. Without the second, a stale
handle reads and writes what has since been opened in its place. Without the third,
a name is stored cut, is not found again, and is created once more. Under the
rules the directory is a function from names to files: every name has one entry, and
entry `e` leads to i-node `e + 1` (`NamesLeadToFiles`). A creation may still find the
directory full with an i-node in hand, as the third one of the run does, and gives it
back.

### Shutdown

One action for each point where threads can interleave: the test of `state`, the
entry in `pthread_mutex_lock`, the acquisition, the body under the lock with its
unlock, the wait, the wakeup, the destruction. Which file an operation concerns
does not matter here: a handle is free, or was opened before CLOSING (`early`) or
after it (`late`). That is history kept for the properties, as is `spurious`.
Locking and unlocking a destroyed mutex is undefined in POSIX; the model has what
glibc does. `pthread_mutex_destroy` answers EBUSY while the mutex is held or left
for a wait, and `tfs_destroy_after_all_closed` ignores that and returns 0. A
thread that had entered `pthread_mutex_lock` before the destruction still gets
the mutex, and never gives it back.

### Server

`spipe` is the sequence of requests in the server's pipe, `fifo[c]` the pipe of
client `c` with the replies in it, `fd` the server's descriptors (what each one
writes to) and `cpipe[s]` the descriptor in consumer `s`'s variable.

* Clients: `UnlinkOld`, `SendMount`, `OpenFifo`, `ReadSessionId` are the steps of
  `tfs_mount`; `Call` and `ReadReply` those of the calls with a reply;
  `SendUnmount`, `ClosePipes`, `UnlinkFifo` those of `tfs_unmount`; `Die` is a
  death, after which the client may start again.
* Producer: `ProducerChecks` (the loop), `ReadNothing`, `ReadMount`,
  `ClaimSession` (one turn of the loop over the sessions), `ReadRequest`, `Signal`.
* Consumers: `ConsumerChecks`, `Await`, the serving actions by op_code, and `End`.
* Pipes are those of Linux: `open` for writing waits for a reader and fails when
  there is no file; a write without a reader fails with EPIPE; a read without
  writers returns 0; a pipe that was unlinked and made again is another pipe.
* `EndSession` closes what the code closes: `session_status`, which is 0 for a
  taken session, so standard input goes, or whatever got descriptor 0 since.
* A failed write or close other than with EPIPE is `Exit`, the end of the process.
* A reply is an `int` without a mark of its request (`numbers`): for a mount the
  session_id, for an unmount 0, for a call or a shutdown any. `tfs_mount` takes the
  first that comes for its session_id. One that is the index of no session makes
  the producer write and lock outside its arrays, which is undefined: the server
  ends, or nothing that is modelled happens.
* `tfs_open`, `tfs_close`, `tfs_write`, `tfs_read` differ in the data they carry;
  here they are `call`. The content of tfs_read's second write belongs to the
  same reply. The padding of a request is not kept: `Wire` shows that `default`
  skips it, and what its bytes do to the fields.
* The producer's writes to a command buffer are one step. `LastNotOverwritten` says
  that no consumer reads a buffer at that time once one session is left.
* Descriptors 1, 2 and that of the server's pipe are not in `fd`; a consumer whose
  `cpipe` was never set may close any descriptor, or none.
* `main` after the threads' start is not an action: the joins change no state.
* `SpuriousWakeup` is a `pthread_cond_wait` that returns without a signal, which
  POSIX allows. The consumer then serves the last command of its buffer again. When
  that is the mount of a client that died and has come back, the client is given a
  session that is free, and the next mount gives it away. So `SessionExclusive`,
  `MountedSessionTaken`, `CommandKept` and `ReplyMatches` are about executions in which
  only signals end a wait (`OnlySignals`, with `spurious` as history);
  `ServesWithPipe` and `TypeOK` are about all.

### LastSession

The code has `S = 10`, and the loop at tfs_server.c:196 gives every free session to
the client that mounts. Its `tfs_unmount` gives back one of them, the one whose number
it read first; of the others nobody knows. Their consumers have opened the client's
pipe and wait for signals that no request brings any more. From there on one session
goes from client to client, whatever `S` is, and a mount that comes while it is taken
is dropped. The variable `left` says that the server has come to such a state
(`OneLeft`): one session is free, all others are taken with their consumers waiting,
no client has mounted, and there are no requests under way but mounts. The properties
that clients expect of sessions do not hold before (`ServerReplies`, `ServerSessions`)
and hold from then on, through deaths and remounts: the session is one client's
(`LastExclusive`) and stays taken (`LastTaken`), no command is overwritten
(`LastNotOverwritten`), each reply goes to its request (`LastReplies`). With `S = 1`
the server is in such a state from the start. A server whose clients die while they
have all sessions may get all of them back, and comes to that state later, or never
if no client unmounts.

### Wire

`Server` takes a request off the pipe as one element; `Wire` has the bytes. A
client's call builds its message as the code does, `memcpy` by `memcpy` at the
byte positions of tecnicofs_client_api.c, in `MAX_MESSAGE_SIZE` bytes of zeros;
the producer reads one field after the other (`ReadOpCode`, `ReadField`, with
`todo` the fields still to come) and hands the command buffer over (`HandOver`).

* `read` gives what the pipe has, and 0 at its end, which the code does not tell
  from success: the variable keeps its bytes. The pipe ends when no client has it
  open, so `Die` and `tfs_unmount` are there.
* Numbers are little-endian sequences of bytes. `BASE`, the sizes of an `int` and
  of a name are parameters, so that a message of eleven bytes has the fields of
  the code's one hundred; op_codes are the last values of a byte.
* `sent` and `served` are history.
* `tfs_write` copies `len` bytes into its message without testing `len`. A write that
  fills the message to its last byte (83 bytes) leaves no padding: the op_code may
  stay in the producer's variable when the pipe ends, and the request of the last
  session is served again. The model has such writes. `Padded` says that no request
  so far was one, and `ServedInOrder` and `FieldsArrive` are stated until one is. A
  longer write goes past the message in the client's memory and is not followed.

### P1FS

A thread is at `call[t].pc`, with the locals of the code beside it; the actions
are in the order of the code, `OpenStep` (lookup, truncation, creation, directory
entry, handle) and `DataStep` (the loops of `tfs_write` and `tfs_read`,
`inode_update`, the copy, offset and size, `tfs_copy_to_external_fs`, `tfs_close`).
What one mutex guards is one step, and so is every access that no lock guards; the
rwlock of an i-node and the mutex of a handle are held over several steps, and are
the variables `i_lock` and `of_mutex`.

* `strncpy` into a directory entry is two steps, and two of them at once leave
  `Garbled`.
* `inode_delete` sets the i-node FREE before it frees the blocks; `inode_data_free`
  unlocks a rwlock that it has not locked when the file is empty. The rwlock then
  does what glibc's does: it counts one reader less.
* `fs_data` is flat. A copy that runs past its block reaches the next one; one that
  leaves the memory of the files sets `faulted`, after which nothing happens.
* `held` and `history` are history: the handles that callers have, the name a handle
  was opened under and the place in the file that it has come to.
* `Rules` is what callers keep to. `own_handles`: a handle is used by the thread
  that opened it, as in the tests. `truncate_alone`: no truncation of a file beside
  another call on it, nor beside a creation; without it blocks are lost or given out
  twice (`BlocksOwned`), and a truncation whose file has become empty in the meantime
  unlocks what it has not locked. `truncate_nonempty`: no truncation of an empty
  file; without it that unlock leaves the rwlock with less than no reader and the
  next writer waits for ever (`CallsReturn`), and the blocks that a wrapped
  `tfs_read` gave to an empty file are lost. `below_maximum`: no `tfs_write` through a
  handle at the end of a file of `MAX_FILE_SIZE`, which the code does not test for: it
  takes the cell behind the pointer block for a pointer. `TypeOK`, `INodesGivenOnce`
  and `HandlesLeadToFiles` need none of the rules, `HandlesHeldByOne` only
  `own_handles`: that is proved.
* Creations run beside each other, of one name too, as in testes_1.c and testes_3.c:
  no rule keeps them apart. Two lookups that find nothing make two files, and two
  scans of `add_dir_entry` that find the same empty entry fill it one over the other,
  so that a file stays without a name. No property says that a name has one file: it
  is false, and `ReadsBack` (`P1Test`) is what a test expects of it. What is left is
  `HandlesLeadToFiles`: whatever entry a `tfs_open` has seen, written over or half
  written, its handle leads to a file, and never to an i-node that `inode_delete` gives
  back. A file that lost its name is still a file, and owns its blocks (`Files`).

## 3. Runs

| Run | Result | What it shows |
|---|---|---|
| `FsSafety` | holds | `BlockOwnership`, `DirectoryAgreement`, `OpenFilesCounted`, `NameBindingStable`, `WriteIsolation` for any callers |
| `FsContract` | holds | `OffsetsWithinFile`, `NamesLeadToFiles`, `ReadsEndAtFileSize`, `ImplementsFileStore` for callers that keep the rules |
| `Shutdown` | holds | `OneLateOpen`, `EarlyFilesClosed`, `NoLostWakeup`, `DestroyProceeds` |
| `ShutdownOpenFile` | violated | a late tfs_open leaves a file open at the destruction |
| `Server` | holds | two sessions, once one is left: `LastExclusive`, `LastTaken`, `LastNotOverwritten`, `LastReplies`, with deaths; `ServesWithPipe`, from the start and with a spurious wakeup too |
| `ServerSessions` | violated | four sessions, no deaths: an unmount is served twice, and two clients get the same session |
| `ServerReplies` | violated | two sessions: a mount takes both, and a call reads the other's session_id |
| `ServerMount` | violated | a signal before the wait: tfs_mount never returns |
| `P1Data` | holds | two threads that create at once: `INodesGivenOnce`, `HandlesLeadToFiles`, `HandlesHeldByOne`, `BlocksOwned`, `CopiesInPlace` |
| `P1Shared` | holds | threads that use and close each other's handles: `CallsReturn` |
| `P1Test` | violated | two threads of testes_3.c: a file opened again is another thread's, and empty |
| `Wire` | holds | `ServedInOrder`, `FieldsArrive`, `EveryRequestServed`, with deaths |

Six more disagreements were met, which no run repeats: `tfs_open` of the client copies its
flags over the name it has put in the message (tecnicofs_client_api.c:125), and the server
reads them behind the name, where the message is zero, so that no file is ever created
through the server (`Wire` has the layout); a file truncated through
another handle makes `tfs_read` pass its end; of two threads that wait in
`tfs_destroy_after_all_closed` only one is woken; a client that closes its pipe
before the reply to `tfs_unmount` is written ends the server with EPIPE; a wait that
returns without a signal serves a stale mount (`MAX_SPURIOUS = 1` and
`MAX_MOUNTS = 2` with one session); with three sessions and clients that die,
`EndSession` closes the pipe that has descriptor 0, and its client, which reads
end-of-file and keeps session_id 0, calls a session whose consumer has opened no pipe
(`ServesWithPipe` is false). The models have all six, and the properties above are
stated so that they hold beside them.

`ServerSessions` is one history of `Server` and not its state space: it is 87 steps
long, and a breadth-first search over four sessions ends far before it.
`MCServerSessions` says who moves next (`turns`) and `Server` what the step does;
every step is one of `ClientNext`, `ProducerNext` or `ConsumerNext`. `c1` mounts and
gets all sessions; the second session_id in its pipe is taken for the reply to its
call, so that it unmounts while the command of the call is still in the buffer and
its consumer awake. The unmount overwrites it, is served, and is signalled to be
served again. The second time its reply goes by the descriptor that the first time
has closed, and that another consumer has since got for the pipe of `c1`'s next
mount: `c1` reads 0 and takes it for session 0, which the mount of `c2` is given.

Bounds. `FsSafety`: four i-nodes beside the root, three directory entries and two
blocks of two bytes, one of which is the root directory's, so that three files
contend for one block and 'no block left' is reached; two handles, four names of which one is stored as another, so that the
directory, the handles and the block map each fill up, a block is freed by one
file and taken by another, and a handle is behind, at or past the end of its
file. `SIZE_T = 32` is far above every length, as 2^64 is. `Shutdown`: two users
and two destroyers on two handles, two opens (or vain closes) each; the errors
need two users or two destroyers, and a third repeats the second. `Server`: the
first mount takes both sessions and its unmount leaves session 0; then both clients
contend for it, mount twice, so that a client that died comes back under its old name,
and call once between a mount and an unmount; one wait may return without a signal.
Until one session is left one mount is followed, and after a spurious wakeup two in all
(`MCBound`). The proofs have no such bounds. `MAX_FDS = 5` is never exhausted in these
instances. Without `left`, `MountedSessionTaken` and `CommandKept` fail with two
sessions as `RepliesMatchRequests` does, for the reason `ServerReplies` shows.
For `SessionExclusive` no counterexample with two sessions is known: searches with two
mounts of each client, outside the runs and cut off after 20 million states, found none.

`P1Data`: two names, two entries and five blocks of two bytes, one direct
pointer and two behind the pointer block, writes of three bytes: a file needs the
pointer block at its second write, the directory, the handles and the blocks fill
up, creations fail with an i-node in hand, and the second thread runs through every gap
of the first. Three calls of one thread and two of the other are an open, a use and a
close beside a truncation or a second creation; the second thread creates or truncates
and then writes or closes (`MCBound`), and copies to external files, which are reads with
an open and a close around them, are left to `P1Shared`. `P1Shared`: one handle and one entry,
so that both threads meet at it, and names that are seen when half copied; two calls
each. `P1Test`: the five calls of the test before the assertion. `Wire`: two sessions and clients and three requests, so
that a request follows what the one before has left in the producer's variables,
in the pipe and in another session's buffer; paths contain op_codes, and a write may
fill its message.

Deadlock is not checked: callers may stop calling (their counts are bounded),
the process may have died (`faulted`, `exited`), and the server's threads may be
left waiting after a shutdown.

Symmetry is used for file names and clients in runs of safety properties only,
`VIEW` in the file system's runs to drop `reply` where no property depends on
its former value.

Fairness. `Shutdown`: a thread that is inside a call and can go on does, and a file
that is open is closed in the end; no one has to open or to destroy. That is
what the scheduler, and callers that close their files, give. `Server`
(`ServerMount`): the threads of the server go on, and a client goes on with
the call it has begun. The counterexample needs no weaker assumption: in
`ServerMount` no step of the consumer that waits is ever enabled again. `P1Shared`:
every thread goes on with the call it is in (`WF` of its steps; a lock that is free
again and again is never refused for ever in this instance, where calls are
bounded). `Wire`: the producer goes on; no client has to.

## 4. Proofs

Proved by TLAPS for every value of the constants that the named assumptions
allow: `SizesAssumption` (every table exists), `NamesAssumption` (cutting a name
twice is cutting it once), `BytesAssumption` (lengths and offsets are far below
2^64) in `TecnicoFS`; `ThreadsAssumption` (finitely many handles, users and
destroyers are different threads) in `Shutdown`.

`TecnicoFS_proofs`: `TypeCorrect`. No other invariant is needed: an i-node number
or block number comes from a scan of its table, and `bytes_to_write` keeps sizes
in a block except where the subtraction wraps, which is `faulted`.

`TecnicoFSSafety_proofs`: `BlockOwnershipCorrect`, `DirectoryAgreementCorrect`,
`OpenFilesCountedCorrect`, `NameBindingStableCorrect`, `WriteIsolationCorrect`,
from the inductive invariant `IndInv` (`IndInvCorrect`). Directory agreement is
not inductive alone: a creation fills the first empty entry, so one has to know
that entries are filled in order and never emptied (`DirFilledInOrder`), and a
write through a handle reaches a taken i-node only because a handle that was ever
opened leads to a file of the directory (`HandlesLeadToFiles`). Blocks: a write
to a file of size 0 takes a block that is FREE, a truncation frees the block of
the one file that holds it; that is why two files never share one although
`i_data_block` is left stale. `WriteIsolation` then follows from ownership: the
bytes that change belong to the block of one file.

`TecnicoFSContract_proofs`: `OffsetsWithinFileCorrect`, `NamesLeadToFilesCorrect`,
`ReadsEndAtFileSizeCorrect` and `ImplementsFileStoreCorrect`, the refinement. The
invariant is `IndInv` of `TecnicoFS` with the first two of these: the offset of an
open handle is at most the size of its file, so that no subtraction wraps, and a
name of `FileStore` is an i-node of the directory and the other way round. The
initial states map to that of `FileStore`; then there is one lemma for each
operation (`OpenExistingImplements` to `WriteImplements`), which takes the tables
before and after and shows that the files and handles they stand for change as
`FileStore` says. The work is in what must not change: a write or a truncation
leaves the bytes of every other file, because their blocks differ, and an
operation that fails leaves all of them.

`Shutdown_proofs`: `TypeCorrect`, `OneLateOpenCorrect`, `EarlyFilesClosedCorrect`,
`NoLostWakeupCorrect`, `MutualExclusion`, from `IndInv`: a user who opened a
file after CLOSING is in no further `tfs_open` (`LateOpensOver`); a destroyer that
was signalled or had not to wait saw the count at 0, which is the number of open
handles (`OpenFilesCounted`), after CLOSING, so no early file is left and none can
come (`EarlyFilesGone`, `ClosingStays`); a woken destroyer fails only on a mutex
that another, which has returned, destroyed (`DestroyedByReturned`). `IndInv` was
checked by TLC before it was proved.

`Server_proofs`, for any number of sessions, clients and descriptors, from
`ServerAssumption` (the sizes are positive, and what the model calls other things is
no client): `TypeCorrect` and `NeverFullCorrect`. The two need each other: a mount is
refused, with -1 as the reply, only when the sessions are full, and `session_count`
never rises. What a client has for its session_id may be the index of no session; what
is signalled never is.

`LastSession_proofs`, for any number of sessions, clients, mounts, calls and deaths,
from `LastAssumption` too (the session that is left is one of them):
`LastExclusiveCorrect`, `LastTakenCorrect`, `ServesWithPipeCorrect`,
`LastNotOverwrittenCorrect`, `LastRepliesCorrect`. None is inductive, and none can be
proved without most of the others. The invariant (`LastInv`) says that from `OneLeft` on
the other sessions stay apart (`Apart`: taken, their consumers waiting with a pipe, no
request on its way to them, no client with their number), and `IndInv` about the last
one. `IndInv` is about the client that is `Live`: the server has its pipe open, and it
has not left. There is one at most, and the session is taken and is its (`OneLive`); a
client that has mounted stays live until it unmounts (`ReadersLive`); when a mount or an
unmount is on its way nobody is live (`NoneLeft`). A request is in one of three places,
the server's pipe, the buffer with the producer about to signal, or the buffer with the
consumer awake, and there is one in all (`OneRequest`), none while the session is free
(`FreeQuiet`) and none while a reply waits to be read (`RepliedQuiet`); it is the request
of the live client (`OwnRequest`), and so is the reply (`OneReply`). The lock of a
buffer plays no part in this: what keeps the producer from overwriting a command is
that its client waits for the reply. That the session is the one the client believes it
has is `OwnNumber` (`OwnNumberCorrect`): the first `int` in the pipe of a client that
waits in `tfs_mount` is the session_id, because no reply to something else is written
while a client that reads its session_id is live. Only with it is it known that
requests go to the last session. `left` is no convenience: before, each of the five is
false of some number of sessions. Three are with two sessions (`ServerReplies` shows
one), `ServesWithPipe` with three, `SessionExclusive` with four (`ServerSessions`).

`P1FS_proofs`, for any number of threads, from `SizesAssumption` and
`CallersAssumption` of `P1FS` (every table exists, a pointer block fits in a block,
lengths are natural numbers, the names for what is no name are none):
`TypeCorrect`, `INodesGivenOnceCorrect` and `HandlesLeadToFilesCorrect` for every
choice of `Rules`, `HandlesHeldByOneCorrect` where `own_handles` is among them. `TypeOK` says what
each place of the code has in its locals (`LocalsSet`), and so is inductive: an
index comes from a scan that stops at the end of its table, an offset stays in its
block because a chunk is never longer than one (`OffsetInBlock`), and the difference
that a read leaves is no negative number because its chunk was taken from what was
left, while that of a write may wrap (`MinusIsNat`). `INodesGivenOnce` is inductive
with it: only `TakeInode`, `SetInumber` and `DeleteInode` touch what it speaks of,
and all others leave the tables of names alone or start no creation (`Aside`,
`Outside`). A
handle that `tfs_close` frees is in nobody's hands because it left its caller's
when the call began, or was never in them (`HandlesApart`).

`HandlesLeadToFiles` rests on `AllLed`: the i-node that a thread in `tfs_open` or in a
transfer works on is a file, unless it is the one that the thread itself creates or
gives back (`Found`, `Adding`, `Undoing`, `Carrying` say at which places), and the root
directory is TAKEN. A lookup ends at an entry, `INodesGivenOnce` says that what an
entry leads to is TAKEN and in nobody's creation (`EntriesAreFiles`), whichever name was
half written in it, and no step gives an i-node back but `inode_delete` of the thread
that created it and entered it nowhere. It needs no rule: an entry that is written over
takes its name from a file, and the file from nobody.

`Wire_proofs`, for every size of a message and of its fields, any number of
sessions and clients, any lengths and any contents, from `WireAssumption` (a message
holds every request but a write, a name is longer than an `int`) and
`EncodingAssumption`: `ServedInOrderCorrect` and `FieldsArriveCorrect`. The
invariant `WireInv` says where in the stream of bytes the producer is. When it
waits for an op_code (`Waiting`), the pipe has some zeros, then whole messages
(`Stream`); when the pipe may be at its end, the op_code in the producer's variable
is zero, so that a read of nothing serves nothing. When it is in a request
(`Reading`), it is at one of the stages of that request (`Stages`): the fields
received, those to come, and the place in the message, which is where the client
has put the next one, `memcpy` by `memcpy` (`WriteLayout` and the like). At the last
stage there is at least one byte left, and all that is left is zero (`LastStage`):
there, and only there, `Padded` is needed.
For `tfs_open` and `tfs_read` the places are right and the bytes are not, which is
why `FieldsArrive` leaves them out. `EncodingAssumption` says that an
`int` and a `size_t` are wide enough for a session and a length, as they are; that
decoding undoes encoding for all numbers is an induction over bytes, which is out of
the prover's reach, and TLC evaluates it on the instance.

Out of the prover's reach: `DestroyProceeds`, `MountReturns`, `CallsReturn` and
`EveryRequestServed`, which are liveness under fairness.

Apart from these, and from `BlocksOwned` and `CopiesInPlace` of `P1FS`, which are
model-checked only, every property that a run finds to hold is proved.

## 5. Not modelled

The bytes of the replies (one `int`, and the content of a `tfs_read`); `main` up to
the creation of the threads; errors of `pthread_*_init` and `pthread_create`;
`insert_delay`, which is timing only; `tfs_destroy` of P1, which destroys three
mutexes when no other operation may run; in P1 the errors of `fopen` and `fwrite`
apart from their effect (`WriteExternal`); the tests as programs apart from the threads
of testes_3.c (`MCP1Test`), whose calls the models' callers make; the makefiles.

## 6. Plan

Done in this order: `TecnicoFS`, its proofs, `FileStore` and the refinement,
`Shutdown` and its proofs, `Server`, `P1FS` with its proofs, `Wire`, the proofs about
`Server`, the proof of the refinement, the proofs about `Wire`, those about the handles
of `P1FS`, `LastSession` and its proofs. Left:

1. Proofs of `BlocksOwned` and `CopiesInPlace` with concurrent creations.
2. The bytes of the replies in `Wire`, and `Wire` as an implementation of the pipe
   that `Server` takes for granted.
3. What holds of several sessions once the loop over the sessions stops at the first
   free one: every counterexample with several sessions begins with a mount that is
   given more.
