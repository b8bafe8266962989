------------------------------- MODULE Server -------------------------------
(***************************************************************************)
(* The TecnicoFS server (P2/fs/tfs_server.c) and its clients                *)
(* (P2/client/tecnicofs_client_api.c).                                     *)
(*                                                                         *)
(* One producer thread reads requests from the server's pipe and leaves     *)
(* each in the command buffer of a session, whose consumer thread waits on  *)
(* a condition variable, serves it and writes the reply to the client's     *)
(* pipe.  A client that mounts makes that pipe and learns its session_id    *)
(* from it; when it unmounts it closes and unlinks the pipe and does not    *)
(* wait for the reply.  A client may also die.                             *)
(*                                                                         *)
(* tfs_open, tfs_close, tfs_write and tfs_read are handled alike, so "call" *)
(* stands for the four; what they do to files is TecnicoFS's matter.  A     *)
(* request is one message of the pipe: it is written at once, and the       *)
(* padding that follows it is skipped by the default of the switch.        *)
(***************************************************************************)
EXTENDS Integers, Sequences, FiniteSets, FiniteSetsExt

CONSTANTS
    S,             \* number of sessions
    Clients,
    MAX_FDS,       \* bound of the model: file descriptors of the server
    MAX_MOUNTS,    \* bound of the model: mounts of one client
    MAX_CALLS,     \* bound of the model: calls of one client
    CRASHES,       \* whether clients may die
    MAX_SPURIOUS   \* bound of the model: times a wait returns without a signal

ASSUME ServerAssumption ==
    /\ S \in Nat \ {0}
    /\ MAX_FDS \in Nat \ {0}
    /\ MAX_MOUNTS \in Nat /\ MAX_CALLS \in Nat
    /\ MAX_SPURIOUS \in Nat
    /\ CRASHES \in BOOLEAN
    \* what the model calls other things is no client
    /\ Clients \cap {"dead", "stdin", "closed", "reserved", "none"} = {}

Sessions == 0 .. S - 1
Fds == 0 .. MAX_FDS - 1

VARIABLES
    server,          \* "running", or "exited"
    status,          \* ON or OFF
    session_status,  \* -1 when the session is free, 0 when it is taken
    session_count,
    buffer,          \* the command buffers: op_code and pipename
    fd,              \* the server's descriptors: what each one writes to
    cpipe,           \* the descriptor each consumer holds in its variable
    producer,        \* where the producer is, and with what
    consumer,        \* where each consumer is
    spipe,           \* the requests in the server's pipe
    client,          \* where each client is in its calls
    session_id,      \* the variable of each client
    fifo,            \* the pipe of each client
    mounts, calls,   \* how often each client has mounted and called
    spurious         \* how often a wait has returned without a signal

threads == <<producer, consumer>>
sessions == <<status, session_status, session_count, buffer>>
counters == <<mounts, calls>>
clients == <<client, session_id, counters>>
vars == <<server, sessions, fd, cpipe, threads, spipe, clients, fifo, spurious>>

\* What a descriptor writes to, when it is not the pipe of a client: a pipe
\* that its reader closed, standard input, or nothing.
Dead == "dead"
Stdin == "stdin"
Closed == "closed"
Reserved == "reserved"      \* for an open that has not returned
Uninitialized == -1

\* Any session_id that is the index of no command buffer.
NoSession == -1

\* The pipe of a client: its name exists or not, the client has not opened it,
\* reads it or has closed it; some consumer has opened it; the replies in it.
NoFifo == [state |-> "none", opened |-> FALSE, replies |-> <<>>]
NewFifo == [state |-> "made", opened |-> FALSE, replies |-> <<>>]
ClosedFifo == [state |-> "closed", opened |-> FALSE, replies |-> <<>>]

Running == server = "running"
At(place) == [at |-> place]

Init ==
    /\ server = "running"
    /\ status = "ON"
    /\ session_status = [s \in Sessions |-> -1]
    /\ session_count = 0
    /\ buffer = [s \in Sessions |-> [op_code |-> "none", pipename |-> "none"]]
    /\ fd = [n \in Fds |-> IF n = 0 THEN Stdin ELSE Closed]
    /\ cpipe = [s \in Sessions |-> Uninitialized]
    /\ producer = At("head")
    /\ consumer = [s \in Sessions |-> At("head")]
    /\ spipe = <<>>
    /\ client = [c \in Clients |-> "out"]
    /\ session_id = [c \in Clients |-> 0]
    /\ fifo = [c \in Clients |-> NoFifo]
    /\ mounts = [c \in Clients |-> 0]
    /\ calls = [c \in Clients |-> 0]
    /\ spurious = 0

\* exit(EXIT_FAILURE), in any thread, ends all of them.
Exit ==
    /\ server' = "exited"
    /\ fd' = [n \in Fds |-> Closed]
    /\ spipe' = <<>>

-----------------------------------------------------------------------------
(* The clients.                                                            *)

\* The calls that wait for a reply, tfs_open, tfs_close, tfs_write and tfs_read
\* being one, and tfs_shutdown_after_all_closed.
Waits == {"call", "shutdown"}
HasServerPipe(c) == client[c] \in {"sent", "reading", "mounted"} \cup Waits

\* Write a request: the server's pipe has a reader until the producer ends.
Send(request) ==
    /\ Running /\ producer.at # "ended"
    /\ spipe' = Append(spipe, request)

\* The descriptors whose pipe lost its reader.
WithoutReader(c) == [n \in Fds |-> IF fd[n] = c THEN Dead ELSE fd[n]]

\* Consumers that wait in open for a reader of the pipe of client c.
Opening(c) ==
    {s \in Sessions :
        Running /\ consumer[s].at = "opening" /\ consumer[s].pipename = c}

\* tfs_mount: unlink the old pipe ...
UnlinkOld(c) ==
    /\ client[c] = "out" /\ mounts[c] < MAX_MOUNTS
    /\ client' = [client EXCEPT ![c] = "unlinked"]
    /\ fifo' = [fifo EXCEPT ![c] = NoFifo]
    /\ mounts' = [mounts EXCEPT ![c] = @ + 1]
    /\ UNCHANGED <<server, sessions, fd, cpipe, threads, spipe, session_id, calls, spurious>>

\* ... make a new one, open the server's pipe and write the request ...
SendMount(c) ==
    /\ client[c] = "unlinked"
    /\ Send([op_code |-> "mount", pipename |-> c])
    /\ client' = [client EXCEPT ![c] = "sent"]
    /\ fifo' = [fifo EXCEPT ![c] = NewFifo]
    /\ UNCHANGED <<server, sessions, fd, cpipe, threads, session_id, counters, spurious>>

\* ... open the new pipe, which lets go the consumers that wait for a reader ...
OpenFifo(c) ==
    /\ client[c] = "sent"
    /\ client' = [client EXCEPT ![c] = "reading"]
    /\ fifo' = [fifo EXCEPT
           ![c] = [@ EXCEPT !.state = "open", !.opened = Opening(c) # {}]]
    /\ fd' = [n \in Fds |->
           IF \E s \in Opening(c) : consumer[s].fd = n THEN c ELSE fd[n]]
    /\ cpipe' = [s \in Sessions |->
           IF s \in Opening(c) THEN consumer[s].fd ELSE cpipe[s]]
    /\ consumer' = [s \in Sessions |->
           IF s \in Opening(c) THEN At("opened") ELSE consumer[s]]
    /\ UNCHANGED <<server, sessions, producer, spipe, session_id, counters, spurious>>

EndOfFileNonblocking(c) == \A n \in Fds : fd[n] # c
\* The end of a read of the pipe: a consumer opened it, and none has it open.
EndOfFile(c) == fifo[c].opened /\ \A n \in Fds : fd[n] # c

\* The number in a reply: the session_id for a mount, 0 for an unmount, and
\* anything for the others.
numbers(reply) ==
    CASE reply.op_code = "mount" -> {reply.session}
      [] reply.op_code = "unmount" -> {0}
      [] OTHER -> Sessions \cup {NoSession}

\* ... and read session_id, the number in the first reply, or nothing.
ReadSessionId(c) ==
    /\ client[c] = "reading"
    /\ \/ /\ fifo[c].replies # <<>>
          /\ \E n \in numbers(Head(fifo[c].replies)) :
                 session_id' = [session_id EXCEPT ![c] = n]
          /\ fifo' = [fifo EXCEPT ![c].replies = Tail(@)]
       \/ /\ fifo[c].replies = <<>> /\ EndOfFile(c)
          /\ UNCHANGED <<session_id, fifo>>
    /\ client' = [client EXCEPT ![c] = "mounted"]
    /\ UNCHANGED <<server, sessions, fd, cpipe, threads, spipe, counters, spurious>>

\* A call: write the request, then read the reply.
Call(c, op) ==
    /\ client[c] = "mounted" /\ calls[c] < MAX_CALLS
    /\ Send([op_code |-> op, session |-> session_id[c]])
    /\ client' = [client EXCEPT ![c] = op]
    /\ calls' = [calls EXCEPT ![c] = @ + 1]
    /\ UNCHANGED <<server, sessions, fd, cpipe, threads, session_id, fifo, mounts, spurious>>

ReadReply(c) ==
    /\ client[c] \in Waits
    /\ \/ /\ fifo[c].replies # <<>>
          /\ fifo' = [fifo EXCEPT ![c].replies = Tail(@)]
       \/ /\ fifo[c].replies = <<>> /\ EndOfFile(c)
          /\ UNCHANGED fifo
    /\ client' = [client EXCEPT ![c] = "mounted"]
    /\ UNCHANGED <<server, sessions, fd, cpipe, threads, spipe, session_id, counters, spurious>>

\* tfs_unmount: write the request ...
SendUnmount(c) ==
    /\ client[c] = "mounted"
    /\ Send([op_code |-> "unmount", session |-> session_id[c]])
    /\ client' = [client EXCEPT ![c] = "unmounting"]
    /\ UNCHANGED <<server, sessions, fd, cpipe, threads, session_id, fifo, counters, spurious>>

\* The reader of the pipe is gone, with what is in it.
CloseFifo(c) ==
    /\ fifo' = [fifo EXCEPT ![c] = ClosedFifo]
    /\ fd' = WithoutReader(c)
    /\ consumer' = [s \in Sessions |->
           IF s \in Opening(c) THEN At("stuck") ELSE consumer[s]]

\* ... close both pipes ...
ClosePipes(c) ==
    /\ client[c] = "unmounting"
    /\ client' = [client EXCEPT ![c] = "unlinking"]
    /\ CloseFifo(c)
    /\ UNCHANGED <<server, sessions, cpipe, producer, spipe, session_id, counters, spurious>>

\* ... and unlink the client's.
UnlinkFifo(c) ==
    /\ client[c] = "unlinking"
    /\ client' = [client EXCEPT ![c] = "out"]
    /\ fifo' = [fifo EXCEPT ![c] = NoFifo]
    /\ UNCHANGED <<server, sessions, fd, cpipe, threads, spipe, session_id, counters, spurious>>

\* A client dies, and may be started again.  SIGPIPE kills one that writes to
\* a server pipe without a reader.
Die(c) ==
    /\ CRASHES \/ ~Running \/ producer.at = "ended"
    /\ HasServerPipe(c)
    /\ client' = [client EXCEPT ![c] = "out"]
    /\ session_id' = [session_id EXCEPT ![c] = 0]
    /\ CloseFifo(c)
    /\ UNCHANGED <<server, sessions, cpipe, producer, spipe, counters, spurious>>

ClientNext(c) ==
    \/ UnlinkOld(c) \/ SendMount(c) \/ OpenFifo(c) \/ ReadSessionId(c)
    \/ \E op \in Waits : Call(c, op)
    \/ ReadReply(c)
    \/ SendUnmount(c) \/ ClosePipes(c) \/ UnlinkFifo(c)
    \/ Die(c)

-----------------------------------------------------------------------------
(* The producer.                                                           *)

UnchangedByThreads == UNCHANGED <<clients, spurious>>

\* while(status == ON); the server's pipe is closed at the end.
ProducerChecks ==
    /\ Running /\ producer.at = "head"
    /\ IF status = "ON"
       THEN producer' = At("reading") /\ UNCHANGED spipe
       ELSE producer' = At("ended") /\ spipe' = <<>>
    /\ UNCHANGED <<server, sessions, fd, cpipe, consumer, fifo>> /\ UnchangedByThreads

\* No client has the server's pipe open: read returns 0 at once, and op_code
\* keeps the padding that was read last.
ReadNothing ==
    /\ Running /\ producer.at = "reading" /\ spipe = <<>>
    /\ \A c \in Clients : ~HasServerPipe(c)
    /\ producer' = At("head")
    /\ UNCHANGED <<server, sessions, fd, cpipe, consumer, spipe, fifo>>
    /\ UnchangedByThreads

claims(s, pipe) == [at |-> "claiming", session |-> s, pipename |-> pipe]
signals(s, next) == [at |-> "signalling", session |-> s, next |-> next]

are_taken(count) == count >= 0
\* session_count says that the sessions are full.
are_full(count) == count >= S

\* A mount is refused when the sessions are full.
ReadMount ==
    /\ Running /\ producer.at = "reading"
    /\ spipe # <<>> /\ Head(spipe).op_code = "mount"
    /\ spipe' = Tail(spipe)
    /\ LET c == Head(spipe).pipename
       IN  IF are_full(session_count)
           THEN /\ fifo[c].state = "open"
                /\ fifo' = [fifo EXCEPT ![c] = [@ EXCEPT !.opened = TRUE,
                       !.replies = Append(@, [op_code |-> "mount", session |-> -1])]]
                /\ producer' = At("head")
           ELSE producer' = claims(0, c) /\ UNCHANGED fifo
    /\ UNCHANGED <<server, sessions, fd, cpipe, consumer>> /\ UnchangedByThreads

\* Where the loop over the sessions goes after session s.
after_claim(s, pipe) == IF s + 1 < S THEN claims(s + 1, pipe) ELSE At("head")

is_free_or_taken(s) == TRUE
is_free(s) == session_status[s] = -1

claim(s) == [session_status EXCEPT ![s] = 0]

\* The loop over the sessions: every free one is given to the client.
ClaimSession ==
    /\ Running /\ producer.at = "claiming"
    /\ LET s == producer.session
           next == after_claim(s, producer.pipename)
       IN  IF is_free(s)
           THEN /\ session_status' = claim(s)
                /\ buffer' = [buffer EXCEPT
                       ![s] = [op_code |-> "mount", pipename |-> producer.pipename]]
                /\ producer' = signals(s, next)
           ELSE producer' = next /\ UNCHANGED <<session_status, buffer>>
    /\ UNCHANGED <<server, status, session_count, fd, cpipe, consumer, spipe, fifo>>
    /\ UnchangedByThreads

\* Every other request goes to the command buffer of its session.  The session_id
\* is not tested: with one that is no index, what is written and locked is undefined,
\* which ends the server or does nothing that is modelled.
ReadRequest ==
    /\ Running /\ producer.at = "reading"
    /\ spipe # <<>> /\ Head(spipe).op_code # "mount"
    /\ LET s == Head(spipe).session
       IN  IF s \in Sessions
           THEN /\ spipe' = Tail(spipe)
                /\ buffer' = [buffer EXCEPT ![s].op_code = Head(spipe).op_code]
                /\ producer' = signals(s, At("head"))
                /\ UNCHANGED <<server, fd>>
           ELSE /\ \/ Exit /\ UNCHANGED producer
                   \/ spipe' = Tail(spipe) /\ producer' = At("head") /\ UNCHANGED <<server, fd>>
                /\ UNCHANGED buffer
    /\ UNCHANGED <<status, session_status, session_count, cpipe>>
    /\ UNCHANGED <<consumer, fifo>> /\ UnchangedByThreads

\* Consumers have their mutex but where they are about to wait, or do.
HasMutex(s) ==
    consumer[s].at \notin {"head", "locking", "waiting", "woken", "ending", "ended"}

\* Lock the mutex of the session, signal, unlock: only a consumer that waits
\* takes notice.
Signal ==
    /\ Running /\ producer.at = "signalling"
    /\ LET s == producer.session
       IN  /\ ~HasMutex(s)
           /\ consumer' = IF consumer[s].at = "waiting"
                          THEN [consumer EXCEPT ![s] = At("woken")] ELSE consumer
    /\ producer' = producer.next
    /\ UNCHANGED <<server, sessions, fd, cpipe, spipe, fifo>> /\ UnchangedByThreads

ProducerNext ==
    \/ ProducerChecks \/ ReadNothing \/ ReadMount \/ ClaimSession
    \/ ReadRequest \/ Signal

-----------------------------------------------------------------------------
(* The consumers.                                                          *)

Goto(s, place) == consumer' = [consumer EXCEPT ![s] = At(place)]

\* while(status == ON)
ConsumerChecks(s) ==
    /\ Running /\ consumer[s].at = "head"
    /\ Goto(s, IF status = "ON" THEN "locking" ELSE "ending")
    /\ UNCHANGED <<server, sessions, fd, cpipe, producer, spipe, fifo>>
    /\ UnchangedByThreads

\* pthread_mutex_lock and pthread_cond_wait
Await(s) ==
    /\ Running /\ consumer[s].at = "locking"
    /\ Goto(s, "waiting")
    /\ UNCHANGED <<server, sessions, fd, cpipe, producer, spipe, fifo>>
    /\ UnchangedByThreads

\* The wait has no condition to test again when it returns without a signal.
SpuriousWakeup(s) ==
    /\ Running /\ consumer[s].at = "waiting" /\ spurious < MAX_SPURIOUS
    /\ spurious' = spurious + 1
    /\ Goto(s, "woken")
    /\ UNCHANGED <<server, sessions, fd, cpipe, producer, spipe, fifo, clients>>

Serves(s, op) ==
    Running /\ consumer[s].at = "woken" /\ buffer[s].op_code = op

\* No command has ever been put in the buffer.
ServeNone(s) ==
    /\ Serves(s, "none")
    /\ Goto(s, "head")
    /\ UNCHANGED <<server, sessions, fd, cpipe, producer, spipe, fifo>>
    /\ UnchangedByThreads

\* open of the client's pipe, with the lowest free descriptor: it fails when
\* the pipe was unlinked, and waits for a client to read it.
ServeMount(s) ==
    LET c == buffer[s].pipename
        free == {n \in Fds : fd[n] = Closed}
    IN  /\ Serves(s, "mount")
        /\ free # {}      \* bound of the model
        /\ CASE fifo[c].state = "none" ->
                   Exit /\ UNCHANGED <<cpipe, consumer, fifo>>
             [] fifo[c].state = "open" ->
                   /\ fd' = [fd EXCEPT ![Min(free)] = c]
                   /\ cpipe' = [cpipe EXCEPT ![s] = Min(free)]
                   /\ fifo' = [fifo EXCEPT ![c].opened = TRUE]
                   /\ Goto(s, "opened")
                   /\ UNCHANGED <<server, spipe>>
             [] OTHER ->
                   /\ fd' = [fd EXCEPT ![Min(free)] = Reserved]
                   /\ consumer' = [consumer EXCEPT ![s] =
                          IF fifo[c].state = "closed" THEN At("stuck")
                          ELSE [at |-> "opening", pipename |-> c, fd |-> Min(free)]]
                   /\ UNCHANGED <<server, spipe, cpipe, fifo>>
        /\ UNCHANGED <<sessions, producer>> /\ UnchangedByThreads

Target(s) == IF cpipe[s] = Uninitialized THEN Closed ELSE fd[cpipe[s]]

DeliversTwice(s, op) ==
    /\ Target(s) \in Clients
    /\ fifo' = [fifo EXCEPT ![Target(s)].replies =
           @ \o <<[op_code |-> op, session |-> s], [op_code |-> op, session |-> s]>>]
\* write of the reply to a pipe that the client reads
Delivers(s, op) ==
    /\ Target(s) \in Clients
    /\ fifo' = [fifo EXCEPT ![Target(s)].replies =
           Append(@, [op_code |-> op, session |-> s])]

\* EPIPE: the session is over.  What close gets is not the pipe but
\* session_status, 0 for a session that is taken.
EndSession(s) ==
    /\ fd' = IF session_status[s] = 0 /\ fd[0] # Reserved
             THEN [fd EXCEPT ![0] = Closed] ELSE fd
    /\ session_status' = [session_status EXCEPT ![s] = -1]
    /\ session_count' = session_count - 1

\* Write the reply, then go on.
Reply(s, op, place) ==
    \/ /\ Delivers(s, op)
       /\ Goto(s, place)
       /\ UNCHANGED <<server, session_status, session_count, fd, spipe>>
    \/ /\ Target(s) = Dead
       /\ EndSession(s)
       /\ Goto(s, place)
       /\ UNCHANGED <<server, spipe, fifo>>
    \/ /\ Target(s) \in {Closed, Reserved, Stdin}
       /\ Exit
       /\ UNCHANGED <<session_status, session_count, consumer, fifo>>

WriteSessionId(s) ==
    /\ Running /\ consumer[s].at = "opened"
    /\ Reply(s, "mount", "head")
    /\ UNCHANGED <<status, buffer, cpipe, producer>> /\ UnchangedByThreads

ServeCall(s) ==
    /\ Serves(s, "call")
    /\ Reply(s, "call", "head")
    /\ UNCHANGED <<status, buffer, cpipe, producer>> /\ UnchangedByThreads

\* tfs_unmount: the session is free before the reply is written, and a reply
\* that cannot be written ends the server.
ServeUnmount(s) ==
    /\ Serves(s, "unmount")
    /\ session_count' = session_count - 1
    /\ session_status' = [session_status EXCEPT ![s] = -1]
    /\ Goto(s, "freed")
    /\ UNCHANGED <<server, status, buffer, fd, cpipe, producer, spipe, fifo>>
    /\ UnchangedByThreads

ReplyUnmount(s) ==
    /\ Running /\ consumer[s].at = "freed"
    /\ IF Target(s) \in Clients
       THEN /\ Delivers(s, "unmount")
            /\ Goto(s, "closing")
            /\ UNCHANGED <<server, fd, spipe>>
       ELSE Exit /\ UNCHANGED <<consumer, fifo>>
    /\ UNCHANGED <<sessions, cpipe, producer>> /\ UnchangedByThreads

\* close of the client's pipe, which ends the server when it is closed already.
Close(s, place) ==
    IF Target(s) \in {Closed, Reserved}
    THEN Exit /\ UNCHANGED consumer
    ELSE /\ fd' = [fd EXCEPT ![cpipe[s]] = Closed]
         /\ Goto(s, place)
         /\ UNCHANGED <<server, spipe>>

ClosePipe(s) ==
    /\ Running /\ consumer[s].at = "closing"
    /\ Close(s, "head")
    /\ UNCHANGED <<sessions, cpipe, producer, fifo>> /\ UnchangedByThreads

\* tfs_shutdown_after_all_closed: tfs_destroy_after_all_closed, as long as it
\* takes ...
ServeShutdown(s) ==
    /\ Serves(s, "shutdown")
    /\ Goto(s, "destroying")
    /\ UNCHANGED <<server, sessions, fd, cpipe, producer, spipe, fifo>>
    /\ UnchangedByThreads

\* ... then the server is off, and the client is told.
TurnOff(s) ==
    /\ Running /\ consumer[s].at = "destroying"
    /\ status' = "OFF"
    /\ Goto(s, "off")
    /\ UNCHANGED <<server, session_status, session_count, buffer, fd, cpipe>>
    /\ UNCHANGED <<producer, spipe, fifo>> /\ UnchangedByThreads

ReplyShutdown(s) ==
    /\ Running /\ consumer[s].at = "off"
    /\ Reply(s, "shutdown", "closing")
    /\ UNCHANGED <<status, buffer, cpipe, producer>> /\ UnchangedByThreads

\* After the loop the pipe is closed, once more in the consumer that has shut
\* down the server.  A consumer that never opened a pipe closes what its
\* uninitialized variable says: a descriptor, maybe none that fd holds (1, 2 or
\* the server's pipe), or no descriptor, which ends the server.
End(s) ==
    /\ Running /\ consumer[s].at = "ending"
    /\ IF cpipe[s] = Uninitialized
       THEN \/ Exit /\ UNCHANGED consumer
            \/ /\ \/ UNCHANGED fd
                  \/ \E n \in Fds : fd[n] \notin {Closed, Reserved}
                                   /\ fd' = [fd EXCEPT ![n] = Closed]
               /\ Goto(s, "ended")
               /\ UNCHANGED <<server, spipe>>
       ELSE Close(s, "ended")
    /\ UNCHANGED <<sessions, cpipe, producer, fifo>> /\ UnchangedByThreads

ConsumerNext(s) ==
    \/ ConsumerChecks(s) \/ Await(s) \/ SpuriousWakeup(s)
    \/ ServeNone(s) \/ ServeMount(s) \/ WriteSessionId(s) \/ ServeCall(s)
    \/ ServeUnmount(s) \/ ReplyUnmount(s) \/ ClosePipe(s)
    \/ ServeShutdown(s) \/ TurnOff(s) \/ ReplyShutdown(s) \/ End(s)

-----------------------------------------------------------------------------
Next ==
    \/ \E c \in Clients : ClientNext(c)
    \/ ProducerNext
    \/ \E s \in Sessions : ConsumerNext(s)

Spec == Init /\ [][Next]_vars

\* The threads of the server are scheduled, and a client goes on with the call
\* it has begun; it need not begin one.
Fairness ==
    /\ WF_vars(ProducerNext)
    /\ \A s \in Sessions : WF_vars(ConsumerNext(s))
    /\ \A c \in Clients :
           WF_vars(SendMount(c) \/ OpenFifo(c) \/ ReadSessionId(c) \/ ReadReply(c)
                   \/ ClosePipes(c) \/ UnlinkFifo(c))

FairSpec == Spec /\ Fairness
-----------------------------------------------------------------------------
Places == {"head", "locking", "waiting", "woken", "opened", "stuck", "freed",
           "closing", "destroying", "off", "ending", "ended"}
Requests ==
    [op_code : {"mount"}, pipename : Clients]
    \cup [op_code : {"call", "unmount", "shutdown"}, session : Sessions \cup {NoSession}]
Commands ==
    [op_code : {"mount"}, pipename : Clients]
    \cup [op_code : {"none", "call", "unmount", "shutdown"},
          pipename : Clients \cup {"none"}]
Consumers ==
    {At(p) : p \in Places} \cup [at : {"opening"}, pipename : Clients, fd : Fds]
Claims == [at : {"claiming"}, session : Sessions, pipename : Clients]
Producers ==
    {At(p) : p \in {"head", "reading", "ended"}} \cup Claims
    \cup [at : {"signalling"}, session : Sessions, next : {At("head")} \cup Claims]
Replies == [op_code : {"mount", "call", "unmount", "shutdown"}, session : Sessions]
Fifos ==
    [state : {"none", "made", "open", "closed"}, opened : BOOLEAN,
     replies : Seq(Replies)]

ServerOK ==
    /\ server \in {"running", "exited"}
    /\ status \in {"ON", "OFF"}
    /\ session_status \in [Sessions -> {-1, 0}]
    /\ session_count \in Int
    /\ buffer \in [Sessions -> Commands]
DescriptorsOK ==
    /\ fd \in [Fds -> Clients \cup {Dead, Stdin, Closed, Reserved}]
    /\ cpipe \in [Sessions -> Fds \cup {Uninitialized}]
ThreadsOK == producer \in Producers /\ consumer \in [Sessions -> Consumers]
PipesOK == spipe \in Seq(Requests) /\ fifo \in [Clients -> Fifos]
ClientsOK ==
    /\ client \in [Clients -> {"out", "unlinked", "sent", "reading", "mounted",
                               "call", "shutdown", "unmounting", "unlinking"}]
    /\ session_id \in [Clients -> Sessions \cup {NoSession}]
    /\ mounts \in [Clients -> Nat] /\ calls \in [Clients -> Nat] /\ spurious \in Nat

\* Every variable of server and clients has a value of its type; a signal goes
\* to a session there is, and no reply refuses a mount.
TypeOK == ServerOK /\ DescriptorsOK /\ ThreadsOK /\ PipesOK /\ ClientsOK

\* No wait has returned without a signal.  One that does serves the last command
\* of its buffer again, which may be the mount of a client that died and has come
\* back: it is given a session that is free, and the next mount gives it away.
OnlySignals == spurious = 0

\* The client has mounted, and the server still has its pipe open.
Mounted(c) == client[c] \in {"mounted"} \cup Waits /\ ~EndOfFile(c)

\* No two mounted clients share a session.  True once one session is left
\* (LastSession); MCServerSessions shows two clients that share one of four.
SessionExclusive ==
    Running /\ OnlySignals => \A c, d \in Clients :
        /\ Mounted(c) /\ Mounted(d)
        /\ session_id[c] = session_id[d] /\ session_id[c] \in Sessions
        => c = d

\* The session of a mounted client is taken, so no mount can claim it.
MountedSessionTaken ==
    Running /\ OnlySignals =>
        \A c \in Clients : Mounted(c) =>
            session_id[c] \in Sessions /\ session_status[session_id[c]] = 0

\* A command buffer is written without its lock, but never between the signal
\* and the consumer's reading of it.
CommandKept ==
    OnlySignals =>
        \A s \in Sessions : consumer[s].at = "woken" => buffer'[s] = buffer[s]

\* A consumer serves a request only with a pipe it has opened.
ServesWithPipe ==
    \A s \in Sessions :
        Running /\ consumer[s].at = "woken" /\ buffer[s].op_code \notin {"none", "mount"}
        => cpipe[s] # Uninitialized

\* A client that reads a reply reads that of its own request, written by the
\* consumer of its own session.
ReplyMatches ==
    \A c \in Clients :
        OnlySignals /\ ReadReply(c) /\ fifo[c].replies # <<>> =>
        Head(fifo[c].replies) = [op_code |-> client[c], session |-> session_id[c]]
RepliesMatchRequests == [][ReplyMatches]_vars

\* "Establishes a session with a TecnicoFS server.  Returns 0 if successful, -1
\* otherwise", tecnicofs_client_api.h: tfs_mount returns.
MountReturns == \A c \in Clients : client[c] = "sent" ~> client[c] = "mounted"
=============================================================================
