-------------------------------- MODULE Wire --------------------------------
(***************************************************************************)
(* The bytes of a request: how the client API                               *)
(* (P2/client/tecnicofs_client_api.c) lays them out in a message of fixed   *)
(* size and how the producer (P2/fs/tfs_server.c) takes them off the        *)
(* server's pipe again, one read per field.                                *)
(*                                                                         *)
(* Server has a request for one element of the pipe; this module shows what *)
(* that leaves out.  The pipe is a sequence of bytes without marks between  *)
(* messages: what a request leaves behind is read as op_codes, which the    *)
(* default of the switch skips as long as it is zero.  A message is at most *)
(* PIPE_BUF bytes, so that its write is one step.  The producer is followed *)
(* while status == ON.                                                     *)
(***************************************************************************)
EXTENDS Integers, Sequences, FiniteSets

CONSTANTS
    BASE,              \* the number of values of a byte
    SIZEOF_INT, SIZEOF_SIZE_T,
    MAX_PIPE_NAME, MAX_MESSAGE_SIZE,
    S,                 \* number of sessions
    Clients,
    Paths,             \* the MAX_PIPE_NAME bytes found where a path begins
    Ints,              \* the handles and flags that callers pass
    Contents,          \* what callers write
    MAX_REQUESTS       \* bound of the model: requests sent in all

Bytes == 0 .. BASE - 1
Sessions == 0 .. S - 1

\* '1' to '7' are the last seven bytes.
code(n) == BASE - 8 + n
OpCodes == {code(n) : n \in 1 .. 7}

\* size bytes of n, the lowest first, and back.
bytes_of(n, size) == [i \in 1 .. size |-> (n \div BASE ^ (i - 1)) % BASE]
number(bytes) ==
    LET value[i \in 0 .. Len(bytes)] ==
            IF i = 0 THEN 0 ELSE value[i - 1] + bytes[i] * BASE ^ (i - 1)
    IN  value[Len(bytes)]
zeros(size) == [i \in 1 .. size |-> 0]
int(n) == bytes_of(n, SIZEOF_INT)

\* What the code's sizes leave room for: the messages of one path and two ints,
\* and of two ints and a length.  Of the length itself nothing is known.
ASSUME WireAssumption ==
    /\ BASE \in Nat /\ BASE > 8 /\ S \in 1 .. BASE
    /\ SIZEOF_INT \in Nat \ {0} /\ SIZEOF_SIZE_T \in Nat \ {0}
    /\ MAX_PIPE_NAME \in Nat /\ MAX_PIPE_NAME > SIZEOF_INT
    /\ MAX_MESSAGE_SIZE \in Nat
    /\ MAX_MESSAGE_SIZE > 1 + SIZEOF_INT + MAX_PIPE_NAME + SIZEOF_INT
    /\ MAX_MESSAGE_SIZE > 1 + SIZEOF_INT + SIZEOF_INT + SIZEOF_SIZE_T
    /\ MAX_REQUESTS \in Nat

\* A path is copied with the bytes after it, and an int and a size_t are wide
\* enough to bring a session and a length across.
ASSUME EncodingAssumption ==
    /\ Paths \subseteq [1 .. MAX_PIPE_NAME -> Bytes]
    /\ Ints \subseteq Int
    /\ Contents \subseteq Seq(Bytes)
    /\ \A s \in Sessions : number(int(s)) = s
    /\ \A buf \in Contents : number(bytes_of(Len(buf), SIZEOF_SIZE_T)) = Len(buf)

VARIABLES
    spipe,     \* the bytes in the server's pipe
    cbuf,      \* the producer's own buffer: op_code, session_id, pipename
    buffer,    \* the command buffers of the sessions
    todo,      \* the fields that the producer has still to read
    fserver,   \* the clients that have the server's pipe open
    session_id,\* of each client; -1 before its mount is answered
    waits,     \* the number of the request whose reply each client waits for
    sent,      \* history: the requests sent
    served     \* history: the requests that the producer handed to a consumer

client == <<fserver, session_id, waits>>
vars == <<spipe, cbuf, buffer, todo, client, sent, served>>

Init ==
    /\ spipe = <<>>
    /\ cbuf \in [op_code : {<<b>> : b \in {0} \cup OpCodes},
                 session_id : {zeros(SIZEOF_INT)}, pipename : {zeros(MAX_PIPE_NAME)}]
    /\ buffer = [s \in Sessions |-> [name |-> zeros(MAX_PIPE_NAME),
           fnum |-> zeros(SIZEOF_INT), len |-> zeros(SIZEOF_SIZE_T), buf |-> <<>>]]
    /\ todo = <<"op_code">>
    /\ fserver = {}
    /\ session_id = [c \in Clients |-> -1]
    /\ waits = [c \in Clients |-> 0]
    /\ sent = <<>> /\ served = <<>>

-----------------------------------------------------------------------------
(* The clients: a request is what the caller means, a message its bytes.    *)

\* memcpy(message + at, bytes, Len(bytes)); what a write that is too long for
\* the message leaves behind it, in its client's memory, is not followed.
memcpy(message, at, bytes) ==
    [i \in 1 .. MAX_MESSAGE_SIZE |->
        IF i \in at + 1 .. at + Len(bytes) THEN bytes[i - at] ELSE message[i]]

\* char message_buffer[MAX_SIZE_MESSAGE] = ""
empty_message == zeros(MAX_MESSAGE_SIZE)

begin(request) == memcpy(empty_message, 0, request.op_code)
with_session(request) == memcpy(begin(request), 1, request.session_id)

tfs_mount_message(request) == memcpy(begin(request), 1, request.pipename)

\* The name, and the flags over all but its first byte.
tfs_open_message(request) ==
    memcpy(memcpy(with_session(request), 1 + SIZEOF_INT, request.name),
           1 + SIZEOF_INT + 1, request.fnum)

\* Mutant of with_handle: the handle is copied over the session_id.
handle_over_session(request) == memcpy(with_session(request), 1, request.fnum)
with_handle(request) == memcpy(with_session(request), 1 + SIZEOF_INT, request.fnum)

tfs_write_message(request) ==
    memcpy(memcpy(with_handle(request), 1 + SIZEOF_INT + SIZEOF_INT, request.len),
           1 + SIZEOF_INT + SIZEOF_INT + SIZEOF_SIZE_T, request.buf)

\* tfs_read sends no len.
message(request) ==
    CASE request.op_code = <<code(1)>> -> tfs_mount_message(request)
      [] request.op_code \in {<<code(2)>>, <<code(7)>>} -> with_session(request)
      [] request.op_code = <<code(3)>> -> tfs_open_message(request)
      [] request.op_code \in {<<code(4)>>, <<code(6)>>} -> with_handle(request)
      [] request.op_code = <<code(5)>> -> tfs_write_message(request)

Send(request) ==
    /\ Len(sent) < MAX_REQUESTS
    /\ spipe' = spipe \o message(request)
    /\ sent' = Append(sent, request)
    /\ UNCHANGED <<cbuf, buffer, todo, served>>

\* tfs_mount opens the server's pipe and sends its request.
tfs_mount(c) ==
    /\ c \notin fserver
    /\ \E path \in Paths : Send([op_code |-> <<code(1)>>, pipename |-> path])
    /\ fserver' = fserver \cup {c}
    /\ waits' = [waits EXCEPT ![c] = Len(sent) + 1]
    /\ UNCHANGED session_id

Mounted(c) == c \in fserver /\ waits[c] = 0 /\ session_id[c] # -1

\* A call sends its request and waits for the reply.
Call(c, request) ==
    /\ Mounted(c)
    /\ Send(request)
    /\ waits' = [waits EXCEPT ![c] = Len(sent) + 1]
    /\ UNCHANGED <<fserver, session_id>>

tfs_open(c) ==
    \E name \in Paths, flags \in Ints :
        Call(c, [op_code |-> <<code(3)>>, session_id |-> int(session_id[c]),
                 name |-> name, fnum |-> int(flags)])

tfs_close(c) ==
    \E fhandle \in Ints :
        Call(c, [op_code |-> <<code(4)>>, session_id |-> int(session_id[c]),
                 fnum |-> int(fhandle)])

tfs_write(c) ==
    \E fhandle \in Ints, buf \in Contents :
        Call(c, [op_code |-> <<code(5)>>, session_id |-> int(session_id[c]),
                 fnum |-> int(fhandle), len |-> bytes_of(Len(buf), SIZEOF_SIZE_T),
                 buf |-> buf])

tfs_read(c) ==
    \E fhandle \in Ints, buf \in Contents :
        Call(c, [op_code |-> <<code(6)>>, session_id |-> int(session_id[c]),
                 fnum |-> int(fhandle), len |-> bytes_of(Len(buf), SIZEOF_SIZE_T)])

tfs_shutdown_after_all_closed(c) ==
    Call(c, [op_code |-> <<code(7)>>, session_id |-> int(session_id[c])])

\* tfs_unmount sends its request, closes the pipes and does not wait.
tfs_unmount(c) ==
    /\ Mounted(c)
    /\ Send([op_code |-> <<code(2)>>, session_id |-> int(session_id[c])])
    /\ fserver' = fserver \ {c}
    /\ session_id' = [session_id EXCEPT ![c] = -1]
    /\ UNCHANGED waits

\* The consumer answers what it was handed; a mount is answered by any session.
Reply(c) ==
    /\ c \in fserver /\ waits[c] \in 1 .. Len(served)
    /\ IF session_id[c] = -1
       THEN \E s \in Sessions : session_id' = [session_id EXCEPT ![c] = s]
       ELSE UNCHANGED session_id
    /\ waits' = [waits EXCEPT ![c] = 0]
    /\ UNCHANGED <<spipe, cbuf, buffer, todo, fserver, sent, served>>

Die(c) ==
    /\ c \in fserver
    /\ fserver' = fserver \ {c}
    /\ session_id' = [session_id EXCEPT ![c] = -1]
    /\ waits' = [waits EXCEPT ![c] = 0]
    /\ UNCHANGED <<spipe, cbuf, buffer, todo, sent, served>>

-----------------------------------------------------------------------------
(* The producer.                                                           *)

\* The cases of the switch: the fields of a request, in the order of the reads.
fields(op_code) ==
    CASE op_code = code(1) -> <<"pipename">>
      [] op_code \in {code(2), code(7)} -> <<"session_id">>
      [] op_code = code(3) -> <<"session_id", "name", "fnum">>
      [] op_code = code(4) -> <<"session_id", "fnum">>
      [] op_code = code(5) -> <<"session_id", "fnum", "len", "buf">>
      [] op_code = code(6) -> <<"session_id", "fnum", "len">>
      [] OTHER -> <<"op_code">>

Session == number(cbuf.session_id)

\* Mutant of name_size: the end of a path is left in the pipe.
name_size_less_one == MAX_PIPE_NAME - 1
\* The server has a MAX_PIPE_NAME of its own.
name_size == MAX_PIPE_NAME

size_of(field) ==
    CASE field = "op_code" -> 1
      [] field \in {"session_id", "fnum"} -> SIZEOF_INT
      [] field = "len" -> SIZEOF_SIZE_T
      [] field \in {"pipename", "name"} -> name_size
      [] field = "buf" -> number(buffer[Session].len)

\* read: up to size bytes, when there are any; without writers none.
read(size) == SubSeq(spipe, 1, IF size < Len(spipe) THEN size ELSE Len(spipe))
\* Mutant of Returns: nothing is read when the client has gone.
returns_to_clients(size) == size = 0 \/ (spipe # <<>> /\ fserver # {})
Returns(size) == size = 0 \/ spipe # <<>> \/ fserver = {}
\* What read leaves in a variable: the end of the pipe leaves it as it was.
over(old, bytes) == bytes \o SubSeq(old, Len(bytes) + 1, Len(old))

\* The producer's open of the pipe returns when the first client opens it.
ReadOpCode ==
    LET op_code == over(cbuf.op_code, read(1))
    IN  /\ todo = <<"op_code">> /\ sent # <<>> /\ Returns(1)
        /\ spipe' = SubSeq(spipe, 2, Len(spipe))
        /\ cbuf' = [cbuf EXCEPT !.op_code = op_code]
        /\ todo' = fields(op_code[1])
        /\ UNCHANGED <<buffer, client, sent, served>>

\* session_id and pipename go to cbuf, the rest to the session's buffer; buf
\* is made anew.  A session_id that is none would lead out of buffer.
ReadField ==
    LET field == Head(todo)
        bytes == read(size_of(field))
    IN  /\ todo # <<>> /\ field \notin {"op_code", "lost"} /\ Returns(size_of(field))
        /\ spipe' = SubSeq(spipe, Len(bytes) + 1, Len(spipe))
        /\ IF field \in {"session_id", "pipename"}
           THEN /\ cbuf' = [cbuf EXCEPT ![field] = over(@, bytes)]
                /\ UNCHANGED buffer
           ELSE /\ buffer' = [buffer EXCEPT ![Session][field] =
                       IF field = "buf" THEN bytes ELSE over(@, bytes)]
                /\ UNCHANGED cbuf
        /\ todo' = IF field = "session_id" /\ number(over(cbuf.session_id, bytes)) \notin Sessions
                    THEN <<"lost">> ELSE Tail(todo)
        /\ UNCHANGED <<client, sent, served>>

\* What the producer has read, of the request with these fields.
Received(names) ==
    [f \in names |-> IF f \in {"op_code", "session_id", "pipename"}
                     THEN cbuf[f] ELSE buffer[Session][f]]

FieldNames(op_code) ==
    {"op_code"} \cup {fields(op_code)[i] : i \in DOMAIN fields(op_code)}

\* The signal: the command buffer is the consumer's.
HandOver ==
    /\ todo = <<>>
    /\ served' = Append(served, Received(FieldNames(cbuf.op_code[1])))
    /\ todo' = <<"op_code">>
    /\ UNCHANGED <<spipe, cbuf, buffer, client, sent>>

-----------------------------------------------------------------------------
ClientNext(c) ==
    \/ tfs_mount(c) \/ tfs_unmount(c) \/ tfs_open(c) \/ tfs_close(c)
    \/ tfs_write(c) \/ tfs_read(c) \/ tfs_shutdown_after_all_closed(c)
    \/ Reply(c) \/ Die(c)

Producer == ReadOpCode \/ ReadField \/ HandOver

Next == Producer \/ \E c \in Clients : ClientNext(c)

\* The scheduler lets the producer thread run.
Spec == Init /\ [][Next]_vars /\ WF_vars(Producer)

-----------------------------------------------------------------------------
(* Properties.                                                             *)

\* The client copies a write into its message without a test of its length.
\* All but the writes that fill the message, or overrun it, leave padding: a
\* zero that the producer reads as an op_code before the end of the pipe.
LeavesPadding(request) ==
    request.op_code = <<code(5)>> =>
        1 + SIZEOF_INT + SIZEOF_INT + SIZEOF_SIZE_T + Len(request.buf) < MAX_MESSAGE_SIZE
Padded == \A n \in DOMAIN sent : LeavesPadding(sent[n])

\* As long as no write has filled its message, requests are handed over in the
\* order they were sent, each once and to its own session: padding is never
\* taken for a request, and neither is the end of the pipe, which leaves the
\* last op_code in place.
ServedInOrder ==
    Padded =>
    /\ Len(served) <= Len(sent)
    /\ \A n \in DOMAIN served :
          /\ served[n].op_code = sent[n].op_code
          /\ "session_id" \in DOMAIN sent[n] => served[n].session_id = sent[n].session_id

\* And the fields of these requests arrive as they were sent, the bytes of a
\* tfs_write with them.
FieldsArrive ==
    Padded => \A n \in DOMAIN served :
        sent[n].op_code \in {<<code(i)>> : i \in {1, 2, 4, 5, 7}} => served[n] = sent[n]

\* Every request that was sent is handed over in the end, also when its client
\* dies first, unless a write has filled its message.
EveryRequestServed ==
    \A n \in 1 .. MAX_REQUESTS : Len(sent) >= n ~> Len(served) >= n \/ ~Padded
=============================================================================
