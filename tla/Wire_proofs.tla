---------------------------- MODULE Wire_proofs -----------------------------
(***************************************************************************)
(* The framing of Wire, for every size of a message and of its fields,      *)
(* every number of sessions and clients and every content: as long as no    *)
(* write has filled its message, requests are handed over in order and      *)
(* their fields arrive.                                                    *)
(*                                                                         *)
(* The invariant tells where in the stream the producer is.  Waiting for an *)
(* op_code, it has the zeros that are left of the last request before it,   *)
(* then whole messages; Reading, it is at the place in the message of the   *)
(* next request where the layout has the field it is about to read, and it  *)
(* has received the fields before that.                                     *)
(***************************************************************************)
EXTENDS Wire, SequenceTheorems, TLAPS

-----------------------------------------------------------------------------
(* Requests and their layout.                                              *)

\* What an encoding may leave in a byte.
Octets == Bytes \cup {(n \div BASE ^ k) % BASE : n \in Int, k \in Int}

SessionIds == {int(s) : s \in Sessions}
IntFields == {int(n) : n \in Ints}
Length(buf) == bytes_of(Len(buf), SIZEOF_SIZE_T)

after_session == 1 + SIZEOF_INT
after_fnum == after_session + SIZEOF_INT
after_len == after_fnum + SIZEOF_SIZE_T

\* The contents that leave padding behind them in a message.
Short == {buf \in Contents : after_len + Len(buf) < MAX_MESSAGE_SIZE}

Mounts == [op_code : {<<code(1)>>}, pipename : Paths]
Bare == [op_code : {<<code(2)>>, <<code(7)>>}, session_id : SessionIds]
Opens == [op_code : {<<code(3)>>}, session_id : SessionIds, name : Paths, fnum : IntFields]
Closes == [op_code : {<<code(4)>>}, session_id : SessionIds, fnum : IntFields]
Writes == {[op_code |-> <<code(5)>>, session_id |-> id, fnum |-> n,
            len |-> Length(buf), buf |-> buf] :
               id \in SessionIds, n \in IntFields, buf \in Short}
LongWrites == {[op_code |-> <<code(5)>>, session_id |-> id, fnum |-> n,
                len |-> Length(buf), buf |-> buf] :
                   id \in SessionIds, n \in IntFields, buf \in Contents \ Short}
Reads == {[op_code |-> <<code(6)>>, session_id |-> id, fnum |-> n, len |-> Length(buf)] :
               id \in SessionIds, n \in IntFields, buf \in Contents}
\* The requests that leave padding, and all of them.
Requests == Mounts \cup Bare \cup Opens \cup Closes \cup Writes \cup Reads
AnyRequests == Requests \cup LongWrites

\* The fields whose bytes the message has where the producer reads them: not
\* the name and flags of a tfs_open, which overlap, nor the len of a tfs_read.
Whole(r) == r.op_code \in {<<code(n)>> : n \in {1, 2, 4, 5, 7}}
Carried(r, f) == Whole(r) \/ f \in {"op_code", "session_id"}

\* A stage of reading: the fields received, those to read, and the bytes read.
Stage(got, rest, at) == [got |-> got, rest |-> rest, at |-> at]

Stages(r) ==
    CASE r.op_code = <<code(1)>> ->
           {Stage({"op_code"}, <<"pipename">>, 1),
            Stage({"op_code", "pipename"}, <<>>, 1 + MAX_PIPE_NAME)}
      [] r.op_code \in {<<code(2)>>, <<code(7)>>} ->
           {Stage({"op_code"}, <<"session_id">>, 1),
            Stage({"op_code", "session_id"}, <<>>, after_session)}
      [] r.op_code = <<code(3)>> ->
           {Stage({"op_code"}, <<"session_id", "name", "fnum">>, 1),
            Stage({"op_code", "session_id"}, <<"name", "fnum">>, after_session),
            Stage({"op_code", "session_id", "name"}, <<"fnum">>,
                  after_session + MAX_PIPE_NAME),
            Stage({"op_code", "session_id", "name", "fnum"}, <<>>,
                  after_session + MAX_PIPE_NAME + SIZEOF_INT)}
      [] r.op_code = <<code(4)>> ->
           {Stage({"op_code"}, <<"session_id", "fnum">>, 1),
            Stage({"op_code", "session_id"}, <<"fnum">>, after_session),
            Stage({"op_code", "session_id", "fnum"}, <<>>, after_fnum)}
      [] r.op_code = <<code(5)>> ->
           {Stage({"op_code"}, <<"session_id", "fnum", "len", "buf">>, 1),
            Stage({"op_code", "session_id"}, <<"fnum", "len", "buf">>, after_session),
            Stage({"op_code", "session_id", "fnum"}, <<"len", "buf">>, after_fnum),
            Stage({"op_code", "session_id", "fnum", "len"}, <<"buf">>, after_len),
            Stage({"op_code", "session_id", "fnum", "len", "buf"}, <<>>,
                  after_len + Len(r.buf))}
      [] r.op_code = <<code(6)>> ->
           {Stage({"op_code"}, <<"session_id", "fnum", "len">>, 1),
            Stage({"op_code", "session_id"}, <<"fnum", "len">>, after_session),
            Stage({"op_code", "session_id", "fnum"}, <<"len">>, after_fnum),
            Stage({"op_code", "session_id", "fnum", "len"}, <<>>, after_len)}

-----------------------------------------------------------------------------
(* The invariant.                                                          *)

Handed == UNION {[FieldNames(b) -> Seq(Octets)] : b \in Octets}

\* The values of the variables.
Typed ==
    /\ spipe \in Seq(Octets)
    /\ cbuf \in [op_code : [1 .. 1 -> Octets], session_id : [1 .. SIZEOF_INT -> Octets],
                 pipename : [1 .. MAX_PIPE_NAME -> Octets]]
    /\ buffer \in [Sessions -> [name : [1 .. MAX_PIPE_NAME -> Octets],
                                fnum : [1 .. SIZEOF_INT -> Octets],
                                len : [1 .. SIZEOF_SIZE_T -> Octets], buf : Seq(Octets)]]
    /\ session_id \in [Clients -> Sessions \cup {-1}]
    /\ sent \in Seq(Requests)
    /\ served \in Seq(Handed)

\* A pipe has o bytes, then the messages of the requests after the k-th.
Carries(pipe, o, requests, k) ==
    /\ k \in 0 .. Len(requests) /\ o \in 0 .. MAX_MESSAGE_SIZE
    /\ Len(pipe) = o + (Len(requests) - k) * MAX_MESSAGE_SIZE
    /\ \A j \in k + 1 .. Len(requests), i \in 1 .. MAX_MESSAGE_SIZE :
          pipe[o + (j - k - 1) * MAX_MESSAGE_SIZE + i] = message(requests[j])[i]
Stream(o, k) == Carries(spipe, o, sent, k)

\* Between two requests, o bytes of padding before the next one.
Padding(o) ==
    /\ Stream(o, Len(served))
    /\ \A i \in 1 .. o : spipe[i] = 0
    /\ served = <<>> => o = 0
    /\ o = 0 => served = <<>> \/ cbuf.op_code = <<0>>
Waiting == todo = <<"op_code">> /\ \E o \in 0 .. MAX_MESSAGE_SIZE : Padding(o)

Got(f) == IF f \in {"op_code", "session_id", "pipename"} THEN cbuf[f] ELSE buffer[Session][f]

\* In the message of request r, at stage st.
At(r, st) ==
    /\ todo = st.rest
    /\ Stream(MAX_MESSAGE_SIZE - st.at, Len(served) + 1)
    /\ \A i \in 1 .. MAX_MESSAGE_SIZE - st.at : spipe[i] = message(r)[st.at + i]
    /\ \A f \in st.got : Carried(r, f) => Got(f) = r[f]
Reading ==
    /\ Len(served) < Len(sent)
    /\ LET r == sent[Len(served) + 1] IN \E st \in Stages(r) : At(r, st)

Arrived ==
    \A n \in DOMAIN served :
        LET r == sent[n]
        IN  /\ served[n].op_code = r.op_code
            /\ "session_id" \in DOMAIN r => served[n].session_id = r.session_id
            /\ Whole(r) => served[n] = r

WireInv ==
    /\ Typed
    /\ Len(served) <= Len(sent)
    /\ Waiting \/ Reading
    /\ Arrived

\* What holds of the writes that fill their message, too.
Sent ==
    /\ sent \in Seq(AnyRequests)
    /\ session_id \in [Clients -> Sessions \cup {-1}]

Framed == Sent /\ (Padded => WireInv)

-----------------------------------------------------------------------------
(* The layout of messages.                                                 *)

Messages == [1 .. MAX_MESSAGE_SIZE -> Octets]

\* The constants are numbers.
LEMMA Numbers ==
    /\ BASE \in Nat /\ BASE > 8
    /\ SIZEOF_INT \in Nat \ {0} /\ SIZEOF_SIZE_T \in Nat \ {0}
    /\ MAX_PIPE_NAME \in Nat /\ MAX_PIPE_NAME > SIZEOF_INT
    /\ MAX_MESSAGE_SIZE \in Nat
    /\ MAX_MESSAGE_SIZE > 1 + SIZEOF_INT + MAX_PIPE_NAME + SIZEOF_INT
    /\ MAX_MESSAGE_SIZE > 1 + SIZEOF_INT + SIZEOF_INT + SIZEOF_SIZE_T
    /\ S \in Nat \ {0}
  BY WireAssumption

\* An encoding is a sequence of bytes of the size asked for.
LEMMA Encoded ==
    ASSUME NEW n \in Int, NEW size \in Nat
    PROVE  bytes_of(n, size) \in [1 .. size -> Octets]
<1>1. \A i \in 1 .. size : (n \div BASE ^ (i - 1)) % BASE \in Octets
  <2> TAKE i \in 1 .. size
  <2>1. i - 1 \in Int
    OBVIOUS
  <2> DEFINE k == i - 1
  <2>2. k \in Int
    BY <2>1
  <2> HIDE DEF k
  <2>3. (n \div BASE ^ k) % BASE \in {(m \div BASE ^ j) % BASE : m \in Int, j \in Int}
    BY <2>2
  <2> QED
    BY <2>3 DEF Octets, k
<1> QED
  BY <1>1 DEF bytes_of

\* The seven op_codes differ, and none is zero.
LEMMA OpCodesDiffer ==
    /\ \A n \in 1 .. 7 : code(n) \in Octets /\ code(n) # 0
    /\ \A m, n \in 1 .. 7 : <<code(m)>> = <<code(n)>> <=> m = n
    /\ 0 \in Octets
<1>1. /\ \A n \in 1 .. 7 : code(n) \in Bytes /\ code(n) # 0
      /\ 0 \in Bytes
  BY Numbers DEF code, Bytes
<1>2. \A m, n \in 1 .. 7 : code(m) = code(n) <=> m = n
  BY Numbers DEF code
<1> QED
  BY <1>1, <1>2 DEF Octets

\* memcpy puts bytes at a place and leaves the others alone.
LEMMA Copied ==
    ASSUME NEW m \in Messages, NEW at \in Nat, NEW size \in Nat,
           NEW bytes \in [1 .. size -> Octets], at + size <= MAX_MESSAGE_SIZE
    PROVE  /\ memcpy(m, at, bytes) \in Messages
           /\ \A i \in 1 .. size : memcpy(m, at, bytes)[at + i] = bytes[i]
           /\ \A i \in 1 .. MAX_MESSAGE_SIZE :
                 i <= at \/ i > at + size => memcpy(m, at, bytes)[i] = m[i]
<1>1. bytes \in Seq(Octets) /\ Len(bytes) = size
  OBVIOUS
<1> DEFINE c == memcpy(m, at, bytes)
<1>2. c = [i \in 1 .. MAX_MESSAGE_SIZE |->
               IF i \in at + 1 .. at + size THEN bytes[i - at] ELSE m[i]]
  BY <1>1 DEF memcpy
<1> HIDE DEF c
<1>3. \A i \in 1 .. size : c[at + i] = bytes[i]
  <2> TAKE i \in 1 .. size
  <2>1. at + i \in 1 .. MAX_MESSAGE_SIZE /\ at + i \in at + 1 .. at + size
        /\ (at + i) - at = i
    BY Numbers
  <2> QED
    BY <1>2, <2>1
<1>4. \A i \in 1 .. MAX_MESSAGE_SIZE : i <= at \/ i > at + size => c[i] = m[i]
  BY <1>2
<1>5. c \in Messages
  <2>1. \A i \in 1 .. MAX_MESSAGE_SIZE :
            (IF i \in at + 1 .. at + size THEN bytes[i - at] ELSE m[i]) \in Octets
    <3> TAKE i \in 1 .. MAX_MESSAGE_SIZE
    <3>1. CASE i \in at + 1 .. at + size
      <4>1. i - at \in 1 .. size
        BY <3>1
      <4> QED
        BY <3>1, <4>1
    <3>2. CASE i \notin at + 1 .. at + size
      BY <3>2 DEF Messages
    <3> QED
      BY <3>1, <3>2
  <2> QED
    BY <1>2, <2>1 DEF Messages
<1> QED
  BY <1>3, <1>4, <1>5 DEF c

\* char message_buffer[MAX_SIZE_MESSAGE] = "" is all zeros.
LEMMA EmptyMessage ==
    /\ empty_message \in Messages
    /\ \A i \in 1 .. MAX_MESSAGE_SIZE : empty_message[i] = 0
  BY OpCodesDiffer DEF empty_message, zeros, Messages

\* Every message begins with its op_code.
LEMMA Begun ==
    ASSUME NEW r, NEW n \in 1 .. 7, r.op_code = <<code(n)>>
    PROVE  /\ r.op_code \in [1 .. 1 -> Octets] /\ begin(r) \in Messages
           /\ begin(r)[1] = r.op_code[1]
           /\ \A i \in 2 .. MAX_MESSAGE_SIZE : begin(r)[i] = 0
<1>1. r.op_code \in [1 .. 1 -> Octets]
  BY OpCodesDiffer
<1>2. 0 + 1 <= MAX_MESSAGE_SIZE /\ 0 \in Nat /\ 1 \in Nat
  BY Numbers
<1>3. /\ begin(r) \in Messages
      /\ \A i \in 1 .. 1 : begin(r)[0 + i] = r.op_code[i]
      /\ \A i \in 1 .. MAX_MESSAGE_SIZE : i <= 0 \/ i > 0 + 1 => begin(r)[i] = empty_message[i]
  BY <1>1, <1>2, EmptyMessage, Copied DEF begin
<1>4. \A i \in 2 .. MAX_MESSAGE_SIZE : i \in 1 .. MAX_MESSAGE_SIZE /\ i > 0 + 1
  OBVIOUS
<1> QED
  BY <1>1, <1>3, <1>4, EmptyMessage

\* The session follows.
LEMMA SessionAdded ==
    ASSUME NEW r, NEW n \in 1 .. 7, r.op_code = <<code(n)>>,
           r.session_id \in [1 .. SIZEOF_INT -> Octets]
    PROVE  LET m == with_session(r)
           IN  /\ m \in Messages /\ m[1] = r.op_code[1]
               /\ \A i \in 1 .. SIZEOF_INT : m[1 + i] = r.session_id[i]
               /\ \A i \in after_session + 1 .. MAX_MESSAGE_SIZE : m[i] = 0
<1> DEFINE m == with_session(r)
<1>1. 1 + SIZEOF_INT <= MAX_MESSAGE_SIZE /\ 1 \in Nat /\ SIZEOF_INT \in Nat
  BY Numbers
<1>2. /\ m \in Messages
      /\ \A i \in 1 .. SIZEOF_INT : m[1 + i] = r.session_id[i]
      /\ \A i \in 1 .. MAX_MESSAGE_SIZE :
            i <= 1 \/ i > 1 + SIZEOF_INT => m[i] = begin(r)[i]
  BY <1>1, Begun, Copied DEF with_session
<1>3. \A i \in after_session + 1 .. MAX_MESSAGE_SIZE :
          i \in 2 .. MAX_MESSAGE_SIZE /\ i \in 1 .. MAX_MESSAGE_SIZE /\ i > 1 + SIZEOF_INT
  BY Numbers DEF after_session
<1>4. 1 \in 1 .. MAX_MESSAGE_SIZE /\ 1 <= 1
  BY Numbers
<1> HIDE DEF m
<1>5. m[1] = r.op_code[1] /\ \A i \in after_session + 1 .. MAX_MESSAGE_SIZE : m[i] = 0
  BY <1>2, <1>3, <1>4, Begun
<1> QED
  BY <1>2, <1>5 DEF m

\* And the handle.
LEMMA HandleAdded ==
    ASSUME NEW r, NEW n \in 1 .. 7, r.op_code = <<code(n)>>,
           r.session_id \in [1 .. SIZEOF_INT -> Octets],
           r.fnum \in [1 .. SIZEOF_INT -> Octets]
    PROVE  LET m == with_handle(r)
           IN  /\ m \in Messages /\ m[1] = r.op_code[1]
               /\ \A i \in 1 .. SIZEOF_INT : m[1 + i] = r.session_id[i]
               /\ \A i \in 1 .. SIZEOF_INT : m[after_session + i] = r.fnum[i]
               /\ \A i \in after_fnum + 1 .. MAX_MESSAGE_SIZE : m[i] = 0
<1> DEFINE m == with_handle(r)
           w == with_session(r)
<1>1. after_session + SIZEOF_INT <= MAX_MESSAGE_SIZE /\ after_session \in Nat
      /\ SIZEOF_INT \in Nat /\ after_session > 1
      /\ after_fnum = after_session + SIZEOF_INT
  BY Numbers DEF after_session, after_fnum
<1>2. /\ w \in Messages /\ w[1] = r.op_code[1]
      /\ \A i \in 1 .. SIZEOF_INT : w[1 + i] = r.session_id[i]
      /\ \A i \in after_session + 1 .. MAX_MESSAGE_SIZE : w[i] = 0
  BY SessionAdded
<1> HIDE DEF w
<1>3. m = memcpy(w, after_session, r.fnum)
  BY DEF with_handle, after_session, w
<1> HIDE DEF m
<1>4. /\ m \in Messages
      /\ \A i \in 1 .. SIZEOF_INT : m[after_session + i] = r.fnum[i]
      /\ \A i \in 1 .. MAX_MESSAGE_SIZE :
            i <= after_session \/ i > after_session + SIZEOF_INT => m[i] = w[i]
  BY <1>1, <1>2, <1>3, Copied
<1>5. m[1] = w[1] /\ \A i \in 1 .. SIZEOF_INT : m[1 + i] = w[1 + i]
  <2>1. 1 \in 1 .. MAX_MESSAGE_SIZE /\ 1 <= after_session
    BY <1>1, Numbers
  <2>2. \A i \in 1 .. SIZEOF_INT :
            1 + i \in 1 .. MAX_MESSAGE_SIZE /\ 1 + i <= after_session
    BY Numbers DEF after_session
  <2> QED
    BY <1>4, <2>1, <2>2
<1>6. \A i \in after_fnum + 1 .. MAX_MESSAGE_SIZE : m[i] = w[i] /\ w[i] = 0
  <2>1. \A i \in after_fnum + 1 .. MAX_MESSAGE_SIZE :
            /\ i \in 1 .. MAX_MESSAGE_SIZE /\ i > after_session + SIZEOF_INT
            /\ i \in after_session + 1 .. MAX_MESSAGE_SIZE
    BY <1>1, Numbers
  <2> QED
    BY <1>2, <1>4, <2>1
<1> QED
  BY <1>2, <1>4, <1>5, <1>6 DEF m

\* What a request carries is typed.
LEMMA FieldsTyped ==
    /\ SessionIds \subseteq [1 .. SIZEOF_INT -> Octets]
    /\ IntFields \subseteq [1 .. SIZEOF_INT -> Octets]
    /\ Paths \subseteq [1 .. MAX_PIPE_NAME -> Octets]
    /\ \A buf \in Contents :
          /\ Length(buf) \in [1 .. SIZEOF_SIZE_T -> Octets]
          /\ buf \in Seq(Octets) /\ buf \in [1 .. Len(buf) -> Octets]
          /\ Len(buf) \in Nat /\ number(Length(buf)) = Len(buf)
    /\ \A buf \in Short : buf \in Contents /\ after_len + Len(buf) < MAX_MESSAGE_SIZE
<1>1. ASSUME NEW s \in Sessions PROVE int(s) \in [1 .. SIZEOF_INT -> Octets]
  <2>1. s \in Int /\ SIZEOF_INT \in Nat
    BY Numbers DEF Sessions
  <2> QED
    BY <2>1, Encoded DEF int
<1>2. ASSUME NEW n \in Ints PROVE int(n) \in [1 .. SIZEOF_INT -> Octets]
  <2>1. n \in Int /\ SIZEOF_INT \in Nat
    BY Numbers, EncodingAssumption
  <2> QED
    BY <2>1, Encoded DEF int
<1>3. Bytes \subseteq Octets
  BY DEF Octets
<1>4. Paths \subseteq [1 .. MAX_PIPE_NAME -> Octets]
  BY <1>3, EncodingAssumption
<1>5. ASSUME NEW buf \in Contents
      PROVE  /\ Length(buf) \in [1 .. SIZEOF_SIZE_T -> Octets]
             /\ buf \in Seq(Octets) /\ buf \in [1 .. Len(buf) -> Octets]
             /\ Len(buf) \in Nat /\ number(Length(buf)) = Len(buf)
  <2>1. buf \in Seq(Bytes)
    BY EncodingAssumption
  <2>2. buf \in Seq(Octets) /\ buf \in [1 .. Len(buf) -> Octets] /\ Len(buf) \in Nat
    BY <1>3, <2>1
  <2>3. Length(buf) \in [1 .. SIZEOF_SIZE_T -> Octets]
    <3>1. Len(buf) \in Int /\ SIZEOF_SIZE_T \in Nat
      BY <2>2, Numbers
    <3> QED
      BY <3>1, Encoded DEF Length
  <2>4. number(Length(buf)) = Len(buf)
    BY EncodingAssumption DEF Length
  <2> QED
    BY <2>2, <2>3, <2>4
<1>6. \A buf \in Short : buf \in Contents /\ after_len + Len(buf) < MAX_MESSAGE_SIZE
  BY DEF Short
<1> QED
  BY <1>1, <1>2, <1>4, <1>5, <1>6 DEF SessionIds, IntFields

\* The message of a tfs_mount has the name of the client's pipe.
LEMMA MountLayout ==
    ASSUME NEW r \in Mounts
    PROVE  /\ message(r) \in Messages /\ message(r)[1] = r.op_code[1]
           /\ \A i \in 1 .. MAX_PIPE_NAME : message(r)[1 + i] = r.pipename[i]
           /\ \A i \in 1 + MAX_PIPE_NAME + 1 .. MAX_MESSAGE_SIZE : message(r)[i] = 0
<1>1. r.op_code = <<code(1)>> /\ r.pipename \in [1 .. MAX_PIPE_NAME -> Octets]
  BY FieldsTyped DEF Mounts
<1>2. PICK m : m = message(r)
  OBVIOUS
<1>3. m = memcpy(begin(r), 1, r.pipename)
  BY <1>1, <1>2, OpCodesDiffer DEF message, tfs_mount_message
<1>4. 1 + MAX_PIPE_NAME <= MAX_MESSAGE_SIZE /\ MAX_PIPE_NAME \in Nat /\ 1 \in Nat
      /\ 1 \in 1 .. 7
  BY Numbers
<1>5. /\ begin(r) \in Messages /\ begin(r)[1] = r.op_code[1]
      /\ \A i \in 2 .. MAX_MESSAGE_SIZE : begin(r)[i] = 0
  BY <1>1, <1>4, Begun
<1>6. /\ m \in Messages
      /\ \A i \in 1 .. MAX_PIPE_NAME : m[1 + i] = r.pipename[i]
      /\ \A i \in 1 .. MAX_MESSAGE_SIZE :
            i <= 1 \/ i > 1 + MAX_PIPE_NAME => m[i] = begin(r)[i]
  BY <1>1, <1>3, <1>4, <1>5, Copied
<1>7. 1 \in 1 .. MAX_MESSAGE_SIZE /\ \A i \in 1 + MAX_PIPE_NAME + 1 .. MAX_MESSAGE_SIZE :
          i \in 2 .. MAX_MESSAGE_SIZE /\ i \in 1 .. MAX_MESSAGE_SIZE /\ i > 1 + MAX_PIPE_NAME
  BY Numbers
<1> QED
  BY <1>2, <1>5, <1>6, <1>7

\* Those of tfs_unmount and tfs_shutdown_after_all_closed the session.
LEMMA BareLayout ==
    ASSUME NEW r \in Bare
    PROVE  /\ message(r) \in Messages /\ message(r)[1] = r.op_code[1]
           /\ \A i \in 1 .. SIZEOF_INT : message(r)[1 + i] = r.session_id[i]
           /\ \A i \in after_session + 1 .. MAX_MESSAGE_SIZE : message(r)[i] = 0
<1>1. /\ r.op_code \in {<<code(2)>>, <<code(7)>>}
      /\ r.session_id \in [1 .. SIZEOF_INT -> Octets]
  BY FieldsTyped DEF Bare
<1>2. message(r) = with_session(r)
  BY <1>1, OpCodesDiffer DEF message
<1>3. \E n \in 1 .. 7 : r.op_code = <<code(n)>>
  BY <1>1
<1> QED
  BY <1>1, <1>2, <1>3, SessionAdded

\* That of tfs_close the handle.
LEMMA CloseLayout ==
    ASSUME NEW r \in Closes
    PROVE  /\ message(r) \in Messages /\ message(r)[1] = r.op_code[1]
           /\ \A i \in 1 .. SIZEOF_INT : message(r)[1 + i] = r.session_id[i]
           /\ \A i \in 1 .. SIZEOF_INT : message(r)[after_session + i] = r.fnum[i]
           /\ \A i \in after_fnum + 1 .. MAX_MESSAGE_SIZE : message(r)[i] = 0
<1>1. /\ r.op_code = <<code(4)>> /\ 4 \in 1 .. 7
      /\ r.session_id \in [1 .. SIZEOF_INT -> Octets]
      /\ r.fnum \in [1 .. SIZEOF_INT -> Octets]
  BY FieldsTyped DEF Closes
<1>2. message(r) = with_handle(r)
  BY <1>1, OpCodesDiffer DEF message
<1> QED
  BY <1>1, <1>2, HandleAdded

\* That of tfs_read has a handle, and zeros for a len.
LEMMA ReadLayout ==
    ASSUME NEW r \in Reads
    PROVE  /\ message(r) \in Messages /\ message(r)[1] = r.op_code[1]
           /\ \A i \in 1 .. SIZEOF_INT : message(r)[1 + i] = r.session_id[i]
           /\ \A i \in 1 .. SIZEOF_INT : message(r)[after_session + i] = r.fnum[i]
           /\ \A i \in after_fnum + 1 .. MAX_MESSAGE_SIZE : message(r)[i] = 0
<1>1. /\ r.op_code = <<code(6)>> /\ 6 \in 1 .. 7
      /\ r.session_id \in [1 .. SIZEOF_INT -> Octets]
      /\ r.fnum \in [1 .. SIZEOF_INT -> Octets]
  BY FieldsTyped DEF Reads
<1>2. message(r) = with_handle(r)
  BY <1>1, OpCodesDiffer DEF message
<1> QED
  BY <1>1, <1>2, HandleAdded

\* That of tfs_write has all its fields, the bytes to write last.
LEMMA WriteLayout ==
    ASSUME NEW r \in Writes
    PROVE  /\ message(r) \in Messages /\ message(r)[1] = r.op_code[1]
           /\ \A i \in 1 .. SIZEOF_INT : message(r)[1 + i] = r.session_id[i]
           /\ \A i \in 1 .. SIZEOF_INT : message(r)[after_session + i] = r.fnum[i]
           /\ \A i \in 1 .. SIZEOF_SIZE_T : message(r)[after_fnum + i] = r.len[i]
           /\ \A i \in 1 .. Len(r.buf) : message(r)[after_len + i] = r.buf[i]
           /\ \A i \in after_len + Len(r.buf) + 1 .. MAX_MESSAGE_SIZE : message(r)[i] = 0
<1>1. /\ r.op_code = <<code(5)>> /\ 5 \in 1 .. 7
      /\ r.session_id \in [1 .. SIZEOF_INT -> Octets]
      /\ r.fnum \in [1 .. SIZEOF_INT -> Octets]
      /\ r.len \in [1 .. SIZEOF_SIZE_T -> Octets]
      /\ r.buf \in [1 .. Len(r.buf) -> Octets] /\ Len(r.buf) \in Nat
      /\ after_len + Len(r.buf) < MAX_MESSAGE_SIZE
  BY FieldsTyped DEF Writes
<1>2. PICK size : size = Len(r.buf)
  OBVIOUS
<1>3. /\ after_session = 1 + SIZEOF_INT /\ after_fnum = after_session + SIZEOF_INT
      /\ after_len = after_fnum + SIZEOF_SIZE_T
      /\ SIZEOF_INT \in Nat /\ SIZEOF_SIZE_T \in Nat /\ MAX_MESSAGE_SIZE \in Nat
      /\ after_session \in Nat /\ after_fnum \in Nat /\ after_len \in Nat
  BY Numbers DEF after_session, after_fnum, after_len
<1>4. size \in Nat /\ after_len + size < MAX_MESSAGE_SIZE
  BY <1>1, <1>2
<1>5. PICK h : h = with_handle(r)
  OBVIOUS
<1>6. PICK l : l = memcpy(h, after_fnum, r.len)
  OBVIOUS
<1>7. PICK m : m = memcpy(l, after_len, r.buf)
  OBVIOUS
<1>8. message(r) = m
  BY <1>1, <1>5, <1>6, <1>7, OpCodesDiffer
     DEF message, tfs_write_message, after_fnum, after_len, after_session
<1>9. /\ h \in Messages /\ h[1] = r.op_code[1]
      /\ \A i \in 1 .. SIZEOF_INT : h[1 + i] = r.session_id[i]
      /\ \A i \in 1 .. SIZEOF_INT : h[after_session + i] = r.fnum[i]
      /\ \A i \in after_fnum + 1 .. MAX_MESSAGE_SIZE : h[i] = 0
  BY <1>1, <1>5, HandleAdded
<1>10. /\ l \in Messages
       /\ \A i \in 1 .. SIZEOF_SIZE_T : l[after_fnum + i] = r.len[i]
       /\ \A i \in 1 .. MAX_MESSAGE_SIZE :
             i <= after_fnum \/ i > after_fnum + SIZEOF_SIZE_T => l[i] = h[i]
  <2>1. h \in Messages /\ r.len \in [1 .. SIZEOF_SIZE_T -> Octets]
        /\ SIZEOF_SIZE_T \in Nat /\ after_fnum \in Nat
        /\ after_fnum + SIZEOF_SIZE_T <= MAX_MESSAGE_SIZE
    <3>1. SIZEOF_SIZE_T \in Nat /\ after_fnum \in Nat
          /\ after_fnum + SIZEOF_SIZE_T <= MAX_MESSAGE_SIZE
      BY <1>3, <1>4
    <3> QED
      BY <1>1, <1>9, <3>1
  <2>2. l \in Messages
        /\ \A i \in 1 .. SIZEOF_SIZE_T : l[after_fnum + i] = r.len[i]
    BY <1>6, <2>1, Copied
  <2>3. \A i \in 1 .. MAX_MESSAGE_SIZE :
            i <= after_fnum \/ i > after_fnum + SIZEOF_SIZE_T => l[i] = h[i]
    BY <1>6, <2>1, Copied
  <2> QED
    BY <2>2, <2>3
<1>11. /\ m \in Messages
       /\ \A i \in 1 .. size : m[after_len + i] = r.buf[i]
       /\ \A i \in 1 .. MAX_MESSAGE_SIZE :
             i <= after_len \/ i > after_len + size => m[i] = l[i]
  <2>1. after_len \in Nat /\ size \in Nat /\ after_len + size <= MAX_MESSAGE_SIZE
    BY <1>3, <1>4
  <2>2. r.buf \in [1 .. size -> Octets]
    BY <1>1, <1>2
  <2>3. l \in Messages
    BY <1>10
  <2> QED
    BY <1>7, <2>1, <2>2, <2>3, Copied
<1>12. \A i \in 1 .. after_fnum : m[i] = h[i]
  <2>1. \A i \in 1 .. after_fnum : i \in 1 .. MAX_MESSAGE_SIZE /\ i <= after_fnum /\ i <= after_len
    BY <1>3, <1>4
  <2> QED
    BY <1>10, <1>11, <2>1
<1>13. /\ 1 \in 1 .. after_fnum
       /\ \A i \in 1 .. SIZEOF_INT : 1 + i \in 1 .. after_fnum /\ after_session + i \in 1 .. after_fnum
  BY <1>3
<1>14. \A i \in 1 .. SIZEOF_SIZE_T : m[after_fnum + i] = r.len[i]
  <2>1. \A i \in 1 .. SIZEOF_SIZE_T :
            after_fnum + i \in 1 .. MAX_MESSAGE_SIZE /\ after_fnum + i <= after_len
    BY <1>3, <1>4
  <2> QED
    BY <1>10, <1>11, <2>1
<1>15. \A i \in after_len + size + 1 .. MAX_MESSAGE_SIZE : m[i] = 0
  <2>1. \A i \in after_len + size + 1 .. MAX_MESSAGE_SIZE :
            /\ i \in 1 .. MAX_MESSAGE_SIZE /\ i > after_len + size
            /\ i > after_fnum + SIZEOF_SIZE_T /\ i \in after_fnum + 1 .. MAX_MESSAGE_SIZE
    BY <1>3, <1>4
  <2> QED
    BY <1>9, <1>10, <1>11, <2>1
<1>16. m[1] = h[1] /\ \A i \in 1 .. SIZEOF_INT :
           m[1 + i] = h[1 + i] /\ m[after_session + i] = h[after_session + i]
  BY <1>12, <1>13
<1> QED
  BY <1>2, <1>8, <1>9, <1>11, <1>14, <1>15, <1>16

\* That of tfs_open has the session; what the name and the flags leave of each
\* other ends before the place where the flags are read ends.
LEMMA OpenLayout ==
    ASSUME NEW r \in Opens
    PROVE  /\ message(r) \in Messages /\ message(r)[1] = r.op_code[1]
           /\ \A i \in 1 .. SIZEOF_INT : message(r)[1 + i] = r.session_id[i]
           /\ \A i \in after_session + MAX_PIPE_NAME + SIZEOF_INT + 1 .. MAX_MESSAGE_SIZE :
                 message(r)[i] = 0
<1>1. /\ r.op_code = <<code(3)>> /\ 3 \in 1 .. 7
      /\ r.session_id \in [1 .. SIZEOF_INT -> Octets]
      /\ r.name \in [1 .. MAX_PIPE_NAME -> Octets]
      /\ r.fnum \in [1 .. SIZEOF_INT -> Octets]
  BY FieldsTyped DEF Opens
<1>2. PICK w : w = with_session(r)
  OBVIOUS
<1>3. PICK k : k = memcpy(w, after_session, r.name)
  OBVIOUS
<1>4. PICK m : m = memcpy(k, after_session + 1, r.fnum)
  OBVIOUS
<1>5. message(r) = m
  BY <1>1, <1>2, <1>3, <1>4, OpCodesDiffer DEF message, tfs_open_message, after_session
<1>6. /\ w \in Messages /\ w[1] = r.op_code[1]
      /\ \A i \in 1 .. SIZEOF_INT : w[1 + i] = r.session_id[i]
      /\ \A i \in after_session + 1 .. MAX_MESSAGE_SIZE : w[i] = 0
  BY <1>1, <1>2, SessionAdded
<1>7. /\ after_session = 1 + SIZEOF_INT /\ after_session \in Nat /\ after_session + 1 \in Nat
      /\ SIZEOF_INT \in Nat /\ MAX_PIPE_NAME \in Nat /\ MAX_PIPE_NAME > SIZEOF_INT
      /\ after_session + MAX_PIPE_NAME + SIZEOF_INT < MAX_MESSAGE_SIZE
      /\ MAX_MESSAGE_SIZE \in Nat
  BY Numbers DEF after_session
<1>8. /\ k \in Messages
      /\ \A i \in 1 .. MAX_MESSAGE_SIZE :
            i <= after_session \/ i > after_session + MAX_PIPE_NAME => k[i] = w[i]
  <2>1. after_session + MAX_PIPE_NAME <= MAX_MESSAGE_SIZE
    BY <1>7
  <2>2. /\ w \in Messages /\ r.name \in [1 .. MAX_PIPE_NAME -> Octets]
        /\ after_session \in Nat /\ MAX_PIPE_NAME \in Nat
    BY <1>1, <1>6, <1>7
  <2> QED
    BY <1>3, <2>1, <2>2, Copied
<1>9. /\ m \in Messages
      /\ \A i \in 1 .. MAX_MESSAGE_SIZE :
            i <= after_session + 1 \/ i > after_session + 1 + SIZEOF_INT => m[i] = k[i]
  <2>1. k \in Messages /\ r.fnum \in [1 .. SIZEOF_INT -> Octets]
        /\ SIZEOF_INT \in Nat /\ after_session + 1 \in Nat
        /\ after_session + 1 + SIZEOF_INT <= MAX_MESSAGE_SIZE
    BY <1>1, <1>7, <1>8
  <2> QED
    BY <1>4, <2>1, Copied
<1>10. \A i \in 1 .. after_session : m[i] = w[i]
  <2>1. \A i \in 1 .. after_session :
            i \in 1 .. MAX_MESSAGE_SIZE /\ i <= after_session /\ i <= after_session + 1
    BY <1>7
  <2> QED
    BY <1>8, <1>9, <2>1
<1>11. 1 \in 1 .. after_session /\ \A i \in 1 .. SIZEOF_INT : 1 + i \in 1 .. after_session
  BY <1>7
<1>12. \A i \in after_session + MAX_PIPE_NAME + SIZEOF_INT + 1 .. MAX_MESSAGE_SIZE : m[i] = 0
  <2>1. \A i \in after_session + MAX_PIPE_NAME + SIZEOF_INT + 1 .. MAX_MESSAGE_SIZE :
            /\ i \in 1 .. MAX_MESSAGE_SIZE /\ i > after_session + 1 + SIZEOF_INT
            /\ i > after_session + MAX_PIPE_NAME /\ i \in after_session + 1 .. MAX_MESSAGE_SIZE
    BY <1>7
  <2> QED
    BY <1>6, <1>8, <1>9, <2>1
<1> QED
  BY <1>5, <1>6, <1>9, <1>10, <1>11, <1>12

-----------------------------------------------------------------------------
(* The pipe.                                                               *)

\* The lengths of whole messages.
LEMMA Multiples ==
    ASSUME NEW a \in Int, NEW b \in Int
    PROVE  /\ a * MAX_MESSAGE_SIZE \in Int
           /\ a * MAX_MESSAGE_SIZE = MAX_MESSAGE_SIZE + (a - 1) * MAX_MESSAGE_SIZE
           /\ a <= b => a * MAX_MESSAGE_SIZE <= b * MAX_MESSAGE_SIZE
<1>1. MAX_MESSAGE_SIZE \in Nat
  BY Numbers
<1>2. a * MAX_MESSAGE_SIZE = MAX_MESSAGE_SIZE + (a - 1) * MAX_MESSAGE_SIZE
  BY <1>1
<1>3. a <= b => a * MAX_MESSAGE_SIZE <= b * MAX_MESSAGE_SIZE
  BY <1>1
<1> QED
  BY <1>1, <1>2, <1>3

\* Any number of messages has a number of bytes.
LEMMA MessagesLong == ASSUME NEW a \in Nat PROVE a * MAX_MESSAGE_SIZE \in Nat
  BY Numbers

\* The first size bytes of rest are those of pipe after the first n.
Shifted(rest, size, pipe, n) == \A i \in 1 .. size : rest[i] = pipe[n + i]

\* Taking n of the o bytes before the messages.
LEMMA PartTaken ==
    ASSUME NEW pipe \in Seq(Octets), NEW requests \in Seq(Requests), NEW o, NEW k,
           Carries(pipe, o, requests, k), NEW n \in 0 .. o,
           NEW rest, rest = SubSeq(pipe, n + 1, Len(pipe))
    PROVE  /\ rest \in Seq(Octets) /\ Carries(rest, o - n, requests, k)
           /\ n <= Len(pipe) /\ Shifted(rest, o - n, pipe, n)
<1> DEFINE L == Len(requests)
           M == MAX_MESSAGE_SIZE
<1>1. k \in 0 .. L /\ o \in 0 .. M /\ L \in Nat /\ M \in Nat /\ k \in Int
  BY Numbers DEF Carries
<1>2. Len(pipe) = o + (L - k) * M
  BY DEF Carries
<1>3. \A j \in k + 1 .. L, i \in 1 .. M :
          pipe[o + (j - k - 1) * M + i] = message(requests[j])[i]
  BY DEF Carries
<1> HIDE DEF L, M
<1>4. (L - k) * M \in Nat
  <2>1. (L - k) \in Nat
    BY <1>1
  <2> QED
    BY <2>1, MessagesLong DEF M
<1>5. n <= Len(pipe) /\ Len(pipe) \in Nat
  <2>1. PICK x \in Nat : Len(pipe) = o + x
    BY <1>2, <1>4
  <2> QED
    BY <1>1, <2>1
<1>6. /\ rest \in Seq(Octets) /\ Len(rest) = Len(pipe) - n
      /\ \A i \in 1 .. Len(pipe) - n : rest[i] = pipe[n + i]
  BY <1>5
<1>7. \A i \in 1 .. o - n : rest[i] = pipe[n + i]
  <2> DEFINE t == (L - k) * M
  <2>2. t \in Nat /\ Len(pipe) = o + t
    BY <1>2, <1>4
  <2> HIDE DEF t
  <2>1. \A i \in 1 .. o - n : i \in 1 .. Len(pipe) - n
    BY <1>1, <2>2
  <2> QED
    BY <1>6, <2>1
<1>8. ASSUME NEW j \in k + 1 .. L, NEW i \in 1 .. M
      PROVE  rest[o - n + (j - k - 1) * M + i] = message(requests[j])[i]
  <2>1. /\ (j - k - 1) * M \in Nat
        /\ (j - k - 1) * M <= (L - k - 1) * M
        /\ (L - k) * M = M + (L - k - 1) * M
    <3>1. (j - k - 1) \in Nat /\ (L - k - 1) \in Int /\ (j - k - 1) <= (L - k - 1)
          /\ (L - k) \in Int
      BY <1>1
    <3>2. (L - k) - 1 = L - k - 1
      BY <1>1
    <3>3. (j - k - 1) * M \in Nat
      BY <3>1, MessagesLong DEF M
    <3>4. (j - k - 1) * M <= (L - k - 1) * M
      <4>1. PICK a \in Int, b \in Int : a = j - k - 1 /\ b = L - k - 1 /\ a <= b
        BY <3>1
      <4>2. a * M <= b * M
        BY <4>1, Multiples DEF M
      <4> QED
        BY <4>1, <4>2
    <3>5. (L - k) * M = M + ((L - k) - 1) * M
      BY <3>1, Multiples DEF M
    <3> QED
      BY <3>2, <3>3, <3>4, <3>5
  <2> DEFINE p == (j - k - 1) * M
             q == (L - k - 1) * M
             t == (L - k) * M
  <2>2. p \in Nat /\ p <= q /\ t = M + q /\ q \in Int /\ Len(pipe) = o + t
    <3>1. (L - k - 1) \in Int
      BY <1>1
    <3>2. q \in Int
      BY <1>1, <3>1
    <3> QED
      BY <1>2, <2>1, <3>2
  <2>3. pipe[o + p + i] = message(requests[j])[i]
    BY <1>3
  <2> HIDE DEF p, q, t
  <2>4. o - n + p + i \in 1 .. Len(pipe) - n /\ n + (o - n + p + i) = o + p + i
    BY <1>1, <2>2
  <2> QED
    BY <1>6, <2>3, <2>4 DEF p
<1>9. Len(rest) = o - n + (L - k) * M
  BY <1>1, <1>2, <1>4, <1>6
<1>10. Carries(rest, o - n, requests, k)
  <2>1. o - n \in 0 .. M
    BY <1>1
  <2> QED
    BY <1>1, <1>8, <1>9, <2>1 DEF Carries, L, M
<1> QED
  BY <1>5, <1>6, <1>7, <1>10 DEF Shifted

\* With no bytes before it, the next message is at the front.
LEMMA MessageInFront ==
    ASSUME NEW pipe \in Seq(Octets), NEW requests \in Seq(Requests), NEW k,
           Carries(pipe, 0, requests, k), k < Len(requests)
    PROVE  /\ Carries(pipe, MAX_MESSAGE_SIZE, requests, k + 1)
           /\ \A i \in 1 .. MAX_MESSAGE_SIZE : pipe[i] = message(requests[k + 1])[i]
           /\ Len(pipe) >= MAX_MESSAGE_SIZE
<1> DEFINE L == Len(requests)
           M == MAX_MESSAGE_SIZE
<1>1. k \in 0 .. L /\ L \in Nat /\ M \in Nat /\ k \in Int /\ k < L
  BY Numbers DEF Carries
<1>2. Len(pipe) = 0 + (L - k) * M
  BY DEF Carries
<1>3. \A j \in k + 1 .. L, i \in 1 .. M :
          pipe[0 + (j - k - 1) * M + i] = message(requests[j])[i]
  BY DEF Carries
<1> HIDE DEF L, M
<1>4. \A i \in 1 .. M : pipe[i] = message(requests[k + 1])[i]
  <2> TAKE i \in 1 .. M
  <2>1. k + 1 \in k + 1 .. L /\ (k + 1) - k - 1 = 0 /\ 0 * M = 0
    BY <1>1
  <2>2. pipe[0 + ((k + 1) - k - 1) * M + i] = message(requests[k + 1])[i]
    BY <1>3, <2>1
  <2>3. 0 + ((k + 1) - k - 1) * M + i = i
    BY <2>1
  <2> QED
    BY <2>2, <2>3
<1>5. Len(pipe) = M + (L - (k + 1)) * M /\ (L - (k + 1)) * M \in Nat
  <2>1. (L - k) \in Int /\ (L - (k + 1)) \in Nat /\ (L - k) - 1 = L - (k + 1)
    BY <1>1
  <2>2. (L - k) * M = M + ((L - k) - 1) * M
    BY <2>1, Multiples DEF M
  <2>3. (L - (k + 1)) * M \in Nat
    BY <1>1, <2>1
  <2>4. Len(pipe) = (L - k) * M
    BY <1>2, <2>2, <2>1, <2>3, <1>1
  <2> QED
    BY <2>1, <2>2, <2>3, <2>4
<1>6. ASSUME NEW j \in (k + 1) + 1 .. L, NEW i \in 1 .. M
      PROVE  pipe[M + (j - (k + 1) - 1) * M + i] = message(requests[j])[i]
  <2>1. j \in k + 1 .. L
    BY <1>1
  <2>2. pipe[0 + (j - k - 1) * M + i] = message(requests[j])[i]
    BY <1>3, <2>1
  <2>3. (j - k - 1) \in Int /\ (j - k - 1) - 1 = j - (k + 1) - 1
    BY <1>1
  <2>4. (j - k - 1) * M = M + (j - (k + 1) - 1) * M /\ (j - k - 1) * M \in Int
    BY <2>3, Multiples DEF M
  <2>5. 0 + (j - k - 1) * M + i = M + (j - (k + 1) - 1) * M + i
    BY <2>4, <1>1
  <2> QED
    BY <2>2, <2>5
<1>7. M \in 0 .. M /\ k + 1 \in 0 .. L
  BY <1>1
<1>8. Carries(pipe, M, requests, k + 1)
  BY <1>5, <1>6, <1>7 DEF Carries, L, M
<1> QED
  BY <1>1, <1>4, <1>5, <1>8 DEF M

\* A message sent is behind those already there.
LEMMA MessageBehind ==
    ASSUME NEW pipe \in Seq(Octets), NEW requests \in Seq(Requests), NEW o, NEW k,
           Carries(pipe, o, requests, k), NEW r \in Requests, message(r) \in Messages,
           NEW all, all = pipe \o message(r), NEW more, more = Append(requests, r)
    PROVE  Carries(all, o, more, k)
<1> DEFINE L == Len(requests)
           M == MAX_MESSAGE_SIZE
<1>1. k \in 0 .. L /\ o \in 0 .. M /\ L \in Nat /\ M \in Nat /\ k \in Int /\ o \in Int
  BY Numbers DEF Carries
<1>2. Len(pipe) = o + (L - k) * M
  BY DEF Carries
<1>3. \A j \in k + 1 .. L, i \in 1 .. M :
          pipe[o + (j - k - 1) * M + i] = message(requests[j])[i]
  BY DEF Carries
<1>4. PICK m : m = message(r)
  OBVIOUS
<1>5. m \in Seq(Octets) /\ Len(m) = M
  BY <1>1, <1>4 DEF Messages
<1>6. all = pipe \o m
  BY <1>4
<1>7. more = Append(requests, r)
  OBVIOUS
<1>8. /\ all \in Seq(Octets) /\ Len(all) = Len(pipe) + M
      /\ \A i \in 1 .. Len(pipe) : all[i] = pipe[i]
      /\ \A i \in 1 .. M : all[Len(pipe) + i] = m[i]
  <2>1. all \in Seq(Octets) /\ Len(all) = Len(pipe) + M
    BY <1>5, <1>6, ConcatProperties
  <2>2. \A i \in 1 .. Len(pipe) : all[i] = pipe[i]
    BY <1>5, <1>6
  <2>3. \A i \in 1 .. M : all[Len(pipe) + i] = m[i]
    <3> TAKE i \in 1 .. M
    <3>1. Len(pipe) + i \in 1 .. Len(pipe) + Len(m) /\ Len(pipe) + i > Len(pipe)
          /\ Len(pipe) + i - Len(pipe) = i
      BY <1>5
    <3> QED
      BY <1>5, <1>6, <3>1
  <2> QED
    BY <2>1, <2>2, <2>3
<1>9. /\ Len(more) = L + 1 /\ more[L + 1] = r
      /\ \A j \in 1 .. L : more[j] = requests[j]
  BY <1>7
<1> HIDE DEF L, M
<1>10. (L - k) * M \in Nat /\ (L + 1 - k) * M = M + (L - k) * M
  <2>1. (L - k) \in Nat /\ (L + 1 - k) \in Int /\ (L + 1 - k) - 1 = L - k
    BY <1>1
  <2>2. (L - k) * M \in Nat
    BY <1>1, <2>1
  <2>3. (L + 1 - k) * M = M + ((L + 1 - k) - 1) * M
    BY <2>1, Multiples DEF M
  <2> QED
    BY <2>1, <2>2, <2>3
<1>11. Len(all) = o + (Len(more) - k) * M
  BY <1>1, <1>2, <1>8, <1>9, <1>10
<1>12. ASSUME NEW j \in k + 1 .. L, NEW i \in 1 .. M
       PROVE  all[o + (j - k - 1) * M + i] = message(more[j])[i]
  <2>1. /\ (j - k - 1) * M \in Nat
        /\ (j - k - 1) * M <= (L - k - 1) * M
        /\ (L - k) * M = M + (L - k - 1) * M
        /\ (L - k - 1) * M \in Int
    <3>1. (j - k - 1) \in Nat /\ (L - k - 1) \in Int /\ (j - k - 1) <= (L - k - 1)
          /\ (L - k) \in Int /\ (L - k) - 1 = L - k - 1
      BY <1>1
    <3>2. (j - k - 1) * M \in Nat /\ (L - k - 1) * M \in Int
      BY <3>1, MessagesLong, Multiples DEF M
    <3>3. (j - k - 1) * M <= (L - k - 1) * M
      <4>1. PICK a \in Int, b \in Int : a = j - k - 1 /\ b = L - k - 1 /\ a <= b
        BY <3>1
      <4>2. a * M <= b * M
        BY <4>1, Multiples DEF M
      <4> QED
        BY <4>1, <4>2
    <3>4. (L - k) * M = M + ((L - k) - 1) * M
      BY <3>1, Multiples DEF M
    <3> QED
      BY <3>1, <3>2, <3>3, <3>4
  <2> DEFINE p == (j - k - 1) * M
             q == (L - k - 1) * M
             t == (L - k) * M
  <2>2. p \in Nat /\ p <= q /\ t = M + q /\ q \in Int /\ Len(pipe) = o + t
    BY <1>2, <2>1
  <2>3. pipe[o + p + i] = message(requests[j])[i]
    BY <1>3
  <2>4. j \in 1 .. L
    BY <1>1
  <2> HIDE DEF p, q, t
  <2>5. o + p + i \in 1 .. Len(pipe)
    BY <1>1, <2>2
  <2> QED
    BY <1>8, <1>9, <2>3, <2>4, <2>5 DEF p
<1>13. ASSUME NEW j, j = L + 1, NEW i \in 1 .. M
       PROVE  all[o + (j - k - 1) * M + i] = message(more[j])[i]
  <2>1. (j - k - 1) * M = (L - k) * M
    BY <1>1, <1>13
  <2>2. o + (j - k - 1) * M + i = Len(pipe) + i
    BY <1>2, <2>1
  <2>3. more[j] = r
    BY <1>9, <1>13
  <2> QED
    BY <1>4, <1>8, <2>2, <2>3
<1>14. \A j \in k + 1 .. Len(more), i \in 1 .. M :
           all[o + (j - k - 1) * M + i] = message(more[j])[i]
  <2> TAKE j \in k + 1 .. Len(more), i \in 1 .. M
  <2>1. j \in k + 1 .. L \/ j = L + 1
    BY <1>1, <1>9
  <2>2. CASE j \in k + 1 .. L
    BY <1>12, <2>2
  <2>3. CASE j = L + 1
    BY <1>13, <2>3
  <2> QED
    BY <2>1, <2>2, <2>3
<1>15. k \in 0 .. Len(more)
  BY <1>1, <1>9
<1> QED
  BY <1>1, <1>11, <1>14, <1>15 DEF Carries, M

-----------------------------------------------------------------------------
(* The stages of reading a message.                                        *)

\* The size with which a field of r is sent.
Size(r, f) ==
    CASE f \in {"session_id", "fnum"} -> SIZEOF_INT
      [] f = "len" -> SIZEOF_SIZE_T
      [] f \in {"pipename", "name"} -> MAX_PIPE_NAME
      [] f = "buf" -> Len(r.buf)

\* Reading field f leads from one stage to the other; it is where the message
\* has it, when it is carried.
LeadsTo(r, st, f, next) ==
    /\ Head(st.rest) = f /\ st.rest # <<>>
    /\ next.rest = Tail(st.rest)
    /\ next.got = st.got \cup {f} /\ f \notin st.got
    /\ st.at \in Nat /\ Size(r, f) \in Nat
    /\ next.at = st.at + Size(r, f) /\ next.at < MAX_MESSAGE_SIZE
    /\ Carried(r, f) => /\ r[f] \in [1 .. Size(r, f) -> Octets]
                        /\ \A i \in 1 .. Size(r, f) : message(r)[st.at + i] = r[f][i]

\* The fields kept with the session are read after the session, and buf with
\* the length before it.
InOrder(r, st, f) ==
    /\ f \in {"session_id", "pipename", "name", "fnum", "len", "buf"}
    /\ f \in {"name", "fnum", "len", "buf"} => "session_id" \in st.got
    /\ f = "buf" => r \in Writes /\ "len" \in st.got

HasNext(r, st) ==
    \E f : InOrder(r, st, f) /\ \E next \in Stages(r) : LeadsTo(r, st, f, next)

\* What is left of a list of fields.
LEMMA Lists ==
    ASSUME NEW a, NEW b, NEW c, NEW d
    PROVE  /\ Head(<<a>>) = a /\ Tail(<<a>>) = <<>> /\ <<a>> # <<>>
           /\ Head(<<a, b>>) = a /\ Tail(<<a, b>>) = <<b>> /\ <<a, b>> # <<>>
           /\ Head(<<a, b, c>>) = a /\ Tail(<<a, b, c>>) = <<b, c>> /\ <<a, b, c>> # <<>>
           /\ Head(<<a, b, c, d>>) = a /\ Tail(<<a, b, c, d>>) = <<b, c, d>>
           /\ <<a, b, c, d>> # <<>>
<1>1. Head(<<a>>) = a /\ Tail(<<a>>) = <<>> /\ <<a>> # <<>>
  OBVIOUS
<1>2. Head(<<a, b>>) = a /\ Tail(<<a, b>>) = <<b>> /\ <<a, b>> # <<>>
  OBVIOUS
<1>3. Head(<<a, b, c>>) = a /\ Tail(<<a, b, c>>) = <<b, c>> /\ <<a, b, c>> # <<>>
  OBVIOUS
<1>4. Head(<<a, b, c, d>>) = a /\ Tail(<<a, b, c, d>>) = <<b, c, d>>
      /\ <<a, b, c, d>> # <<>>
  OBVIOUS
<1> QED
  BY <1>1, <1>2, <1>3, <1>4

\* The offsets are numbers, in this order.
LEMMA Offsets ==
    /\ after_session \in Nat /\ after_session = 1 + SIZEOF_INT
    /\ after_fnum \in Nat /\ after_fnum = after_session + SIZEOF_INT
    /\ after_len \in Nat /\ after_len = after_fnum + SIZEOF_SIZE_T
    /\ after_session < MAX_MESSAGE_SIZE /\ after_fnum < MAX_MESSAGE_SIZE
    /\ after_session + MAX_PIPE_NAME + SIZEOF_INT < MAX_MESSAGE_SIZE
    /\ 1 + MAX_PIPE_NAME < MAX_MESSAGE_SIZE
    /\ SIZEOF_INT \in Nat /\ SIZEOF_SIZE_T \in Nat /\ MAX_PIPE_NAME \in Nat
    /\ MAX_MESSAGE_SIZE \in Nat
    /\ after_len < MAX_MESSAGE_SIZE
  BY Numbers DEF after_session, after_fnum, after_len

\* The stages of each kind of request.
LEMMA StagesOf ==
    /\ \A r : r.op_code = <<code(1)>> => Stages(r) =
           {Stage({"op_code"}, <<"pipename">>, 1),
            Stage({"op_code", "pipename"}, <<>>, 1 + MAX_PIPE_NAME)}
    /\ \A r : r.op_code \in {<<code(2)>>, <<code(7)>>} => Stages(r) =
           {Stage({"op_code"}, <<"session_id">>, 1),
            Stage({"op_code", "session_id"}, <<>>, after_session)}
    /\ \A r : r.op_code = <<code(3)>> => Stages(r) =
           {Stage({"op_code"}, <<"session_id", "name", "fnum">>, 1),
            Stage({"op_code", "session_id"}, <<"name", "fnum">>, after_session),
            Stage({"op_code", "session_id", "name"}, <<"fnum">>,
                  after_session + MAX_PIPE_NAME),
            Stage({"op_code", "session_id", "name", "fnum"}, <<>>,
                  after_session + MAX_PIPE_NAME + SIZEOF_INT)}
    /\ \A r : r.op_code = <<code(4)>> => Stages(r) =
           {Stage({"op_code"}, <<"session_id", "fnum">>, 1),
            Stage({"op_code", "session_id"}, <<"fnum">>, after_session),
            Stage({"op_code", "session_id", "fnum"}, <<>>, after_fnum)}
    /\ \A r : r.op_code = <<code(5)>> => Stages(r) =
           {Stage({"op_code"}, <<"session_id", "fnum", "len", "buf">>, 1),
            Stage({"op_code", "session_id"}, <<"fnum", "len", "buf">>, after_session),
            Stage({"op_code", "session_id", "fnum"}, <<"len", "buf">>, after_fnum),
            Stage({"op_code", "session_id", "fnum", "len"}, <<"buf">>, after_len),
            Stage({"op_code", "session_id", "fnum", "len", "buf"}, <<>>,
                  after_len + Len(r.buf))}
    /\ \A r : r.op_code = <<code(6)>> => Stages(r) =
           {Stage({"op_code"}, <<"session_id", "fnum", "len">>, 1),
            Stage({"op_code", "session_id"}, <<"fnum", "len">>, after_session),
            Stage({"op_code", "session_id", "fnum"}, <<"len">>, after_fnum),
            Stage({"op_code", "session_id", "fnum", "len"}, <<>>, after_len)}
  BY OpCodesDiffer DEF Stages

\* What a stage is made of.
LEMMA StageParts ==
    \A got, rest, at :
        /\ Stage(got, rest, at).got = got /\ Stage(got, rest, at).rest = rest
        /\ Stage(got, rest, at).at = at
  BY DEF Stage

\* A step of reading, put together: f after got, n bytes from at.
LEMMA StageFollows ==
    ASSUME NEW r, NEW got, NEW f, NEW rest, NEW left, NEW at \in Nat,
           rest # <<>>, Head(rest) = f, Tail(rest) = left,
           f \notin got, Size(r, f) \in Nat, NEW end, end = at + Size(r, f),
           end < MAX_MESSAGE_SIZE,
           InOrder(r, Stage(got, rest, at), f),
           Stage(got \cup {f}, left, end) \in Stages(r),
           Carried(r, f) => /\ r[f] \in [1 .. Size(r, f) -> Octets]
                            /\ \A i \in 1 .. Size(r, f) : message(r)[at + i] = r[f][i]
    PROVE  HasNext(r, Stage(got, rest, at))
<1>1. LeadsTo(r, Stage(got, rest, at), f, Stage(got \cup {f}, left, end))
  BY DEF LeadsTo, Stage
<1> QED
  BY <1>1 DEF HasNext

\* tfs_mount: the pipename.
LEMMA MountStages ==
    ASSUME NEW r \in Mounts, NEW st \in Stages(r), st.rest # <<>>
    PROVE  HasNext(r, st)
<1>1. r.op_code = <<code(1)>> /\ r.pipename \in [1 .. MAX_PIPE_NAME -> Octets]
  BY FieldsTyped DEF Mounts
<1>2. Stages(r) = {Stage({"op_code"}, <<"pipename">>, 1),
                   Stage({"op_code", "pipename"}, <<>>, 1 + MAX_PIPE_NAME)}
  BY <1>1, StagesOf
<1>3. st = Stage({"op_code"}, <<"pipename">>, 1)
  BY <1>2 DEF Stage
<1>4. Size(r, "pipename") = MAX_PIPE_NAME /\ Size(r, "pipename") \in Nat
  BY Offsets DEF Size
<1>5. /\ \A i \in 1 .. Size(r, "pipename") : message(r)[1 + i] = r["pipename"][i]
      /\ r["pipename"] \in [1 .. Size(r, "pipename") -> Octets]
  BY <1>1, <1>4, MountLayout
<1>6. InOrder(r, st, "pipename")
  BY DEF InOrder
<1>7. {"op_code"} \cup {"pipename"} = {"op_code", "pipename"}
  OBVIOUS
<1>8. Stage({"op_code"} \cup {"pipename"}, <<>>, 1 + MAX_PIPE_NAME) \in Stages(r)
  BY <1>2, <1>7
<1>9. <<"pipename">> # <<>> /\ Head(<<"pipename">>) = "pipename" /\ Tail(<<"pipename">>) = <<>>
  BY Lists
<1>10. 1 + MAX_PIPE_NAME = 1 + Size(r, "pipename") /\ 1 + MAX_PIPE_NAME < MAX_MESSAGE_SIZE
       /\ 1 \in Nat /\ "pipename" \notin {"op_code"}
  BY <1>4, Offsets
<1> QED
  BY <1>3, <1>4, <1>5, <1>6, <1>8, <1>9, <1>10, StageFollows

\* The session comes first in all others.
LEMMA SessionStage ==
    ASSUME NEW r, r.session_id \in [1 .. SIZEOF_INT -> Octets],
           \A i \in 1 .. SIZEOF_INT : message(r)[1 + i] = r.session_id[i],
           NEW rest, NEW left, rest # <<>>, Head(rest) = "session_id", Tail(rest) = left,
           Stage({"op_code", "session_id"}, left, after_session) \in Stages(r)
    PROVE  HasNext(r, Stage({"op_code"}, rest, 1))
<1>1. Size(r, "session_id") = SIZEOF_INT
  BY DEF Size
<1>2. /\ after_session = 1 + Size(r, "session_id") /\ after_session < MAX_MESSAGE_SIZE
      /\ Size(r, "session_id") \in Nat /\ 1 \in Nat
  BY <1>1, Offsets
<1>3. /\ r["session_id"] \in [1 .. Size(r, "session_id") -> Octets]
      /\ \A i \in 1 .. Size(r, "session_id") : message(r)[1 + i] = r["session_id"][i]
  BY <1>1
<1>4. /\ InOrder(r, Stage({"op_code"}, rest, 1), "session_id")
      /\ "session_id" \notin {"op_code"}
      /\ {"op_code"} \cup {"session_id"} = {"op_code", "session_id"}
  BY DEF InOrder
<1>5. Stage({"op_code"} \cup {"session_id"}, left, after_session) \in Stages(r)
  BY <1>4
<1> QED
  BY <1>2, <1>3, <1>4, <1>5, StageFollows

\* And the handle next in three of them.
LEMMA HandleStage ==
    ASSUME NEW r, r.fnum \in [1 .. SIZEOF_INT -> Octets],
           \A i \in 1 .. SIZEOF_INT : message(r)[after_session + i] = r.fnum[i],
           NEW rest, NEW left, rest # <<>>, Head(rest) = "fnum", Tail(rest) = left,
           Stage({"op_code", "session_id", "fnum"}, left, after_fnum) \in Stages(r)
    PROVE  HasNext(r, Stage({"op_code", "session_id"}, rest, after_session))
<1>1. Size(r, "fnum") = SIZEOF_INT
  BY DEF Size
<1>2. /\ after_fnum = after_session + Size(r, "fnum") /\ after_fnum < MAX_MESSAGE_SIZE
      /\ Size(r, "fnum") \in Nat /\ after_session \in Nat
  BY <1>1, Offsets
<1>3. /\ r["fnum"] \in [1 .. Size(r, "fnum") -> Octets]
      /\ \A i \in 1 .. Size(r, "fnum") : message(r)[after_session + i] = r["fnum"][i]
  BY <1>1
<1>4. InOrder(r, Stage({"op_code", "session_id"}, rest, after_session), "fnum")
  BY DEF InOrder, Stage
<1>5. "fnum" \notin {"op_code", "session_id"}
      /\ {"op_code", "session_id"} \cup {"fnum"} = {"op_code", "session_id", "fnum"}
  OBVIOUS
<1>6. Stage({"op_code", "session_id"} \cup {"fnum"}, left, after_fnum) \in Stages(r)
  BY <1>5
<1> QED
  BY <1>2, <1>3, <1>4, <1>5, <1>6, StageFollows

\* tfs_unmount and tfs_shutdown_after_all_closed: the session.
LEMMA BareStages ==
    ASSUME NEW r \in Bare, NEW st \in Stages(r), st.rest # <<>>
    PROVE  HasNext(r, st)
<1>1. /\ r.op_code \in {<<code(2)>>, <<code(7)>>}
      /\ r.session_id \in [1 .. SIZEOF_INT -> Octets]
  BY FieldsTyped DEF Bare
<1>2. Stages(r) = {Stage({"op_code"}, <<"session_id">>, 1),
                   Stage({"op_code", "session_id"}, <<>>, after_session)}
  BY <1>1, StagesOf
<1>3. st = Stage({"op_code"}, <<"session_id">>, 1)
  BY <1>2 DEF Stage
<1>4. <<"session_id">> # <<>> /\ Head(<<"session_id">>) = "session_id"
      /\ Tail(<<"session_id">>) = <<>>
  BY Lists
<1>5. Stage({"op_code", "session_id"}, <<>>, after_session) \in Stages(r)
  BY <1>2
<1>6. \A i \in 1 .. SIZEOF_INT : message(r)[1 + i] = r.session_id[i]
  BY BareLayout
<1> QED
  BY <1>1, <1>3, <1>4, <1>5, <1>6, SessionStage

\* tfs_close: the session and the handle.
LEMMA CloseStages ==
    ASSUME NEW r \in Closes, NEW st \in Stages(r), st.rest # <<>>
    PROVE  HasNext(r, st)
<1>1. /\ r.op_code = <<code(4)>> /\ r.session_id \in [1 .. SIZEOF_INT -> Octets]
      /\ r.fnum \in [1 .. SIZEOF_INT -> Octets]
  BY FieldsTyped DEF Closes
<1>2. Stages(r) = {Stage({"op_code"}, <<"session_id", "fnum">>, 1),
                   Stage({"op_code", "session_id"}, <<"fnum">>, after_session),
                   Stage({"op_code", "session_id", "fnum"}, <<>>, after_fnum)}
  BY <1>1, StagesOf
<1>3. /\ Stage({"op_code", "session_id"}, <<"fnum">>, after_session) \in Stages(r)
      /\ Stage({"op_code", "session_id", "fnum"}, <<>>, after_fnum) \in Stages(r)
  BY <1>2
<1>4. /\ <<"session_id", "fnum">> # <<>> /\ Head(<<"session_id", "fnum">>) = "session_id"
      /\ Tail(<<"session_id", "fnum">>) = <<"fnum">>
      /\ <<"fnum">> # <<>> /\ Head(<<"fnum">>) = "fnum" /\ Tail(<<"fnum">>) = <<>>
  BY Lists
<1>5. CASE st = Stage({"op_code"}, <<"session_id", "fnum">>, 1)
  BY <1>1, <1>3, <1>4, <1>5, CloseLayout, SessionStage
<1>6. CASE st = Stage({"op_code", "session_id"}, <<"fnum">>, after_session)
  BY <1>1, <1>3, <1>4, <1>6, CloseLayout, HandleStage
<1> QED
  BY <1>2, <1>5, <1>6 DEF Stage

\* tfs_open: the session, then what is read for the name and for the flags.
LEMMA OpenStages ==
    ASSUME NEW r \in Opens, NEW st \in Stages(r), st.rest # <<>>
    PROVE  HasNext(r, st)
<1>1. /\ r.op_code = <<code(3)>> /\ r.session_id \in [1 .. SIZEOF_INT -> Octets]
  BY FieldsTyped DEF Opens
<1>2. Stages(r) =
          {Stage({"op_code"}, <<"session_id", "name", "fnum">>, 1),
           Stage({"op_code", "session_id"}, <<"name", "fnum">>, after_session),
           Stage({"op_code", "session_id", "name"}, <<"fnum">>, after_session + MAX_PIPE_NAME),
           Stage({"op_code", "session_id", "name", "fnum"}, <<>>,
                 after_session + MAX_PIPE_NAME + SIZEOF_INT)}
  BY <1>1, StagesOf
<1>3. /\ Stage({"op_code", "session_id"}, <<"name", "fnum">>, after_session) \in Stages(r)
      /\ Stage({"op_code", "session_id", "name"}, <<"fnum">>, after_session + MAX_PIPE_NAME)
            \in Stages(r)
      /\ Stage({"op_code", "session_id", "name", "fnum"}, <<>>,
               after_session + MAX_PIPE_NAME + SIZEOF_INT) \in Stages(r)
  BY <1>2
<1>4. ~ Whole(r)
  BY <1>1, OpCodesDiffer DEF Whole
<1>5. CASE st = Stage({"op_code"}, <<"session_id", "name", "fnum">>, 1)
  <2>1. /\ <<"session_id", "name", "fnum">> # <<>>
        /\ Head(<<"session_id", "name", "fnum">>) = "session_id"
        /\ Tail(<<"session_id", "name", "fnum">>) = <<"name", "fnum">>
    BY Lists
  <2> QED
    BY <1>1, <1>3, <1>5, <2>1, OpenLayout, SessionStage
<1>6. CASE st = Stage({"op_code", "session_id"}, <<"name", "fnum">>, after_session)
  <2>1. /\ <<"name", "fnum">> # <<>> /\ Head(<<"name", "fnum">>) = "name"
        /\ Tail(<<"name", "fnum">>) = <<"fnum">>
    BY Lists
  <2>2. Size(r, "name") = MAX_PIPE_NAME
    BY DEF Size
  <2>3. /\ Size(r, "name") \in Nat /\ after_session \in Nat
        /\ after_session + MAX_PIPE_NAME = after_session + Size(r, "name")
        /\ after_session + MAX_PIPE_NAME < MAX_MESSAGE_SIZE
    BY <2>2, Offsets
  <2>4. InOrder(r, st, "name")
    BY <1>6 DEF InOrder, Stage
  <2>5. ~ Carried(r, "name")
    BY <1>4 DEF Carried
  <2>6. "name" \notin {"op_code", "session_id"}
        /\ {"op_code", "session_id"} \cup {"name"} = {"op_code", "session_id", "name"}
    OBVIOUS
  <2>7. Stage({"op_code", "session_id"} \cup {"name"}, <<"fnum">>,
              after_session + MAX_PIPE_NAME) \in Stages(r)
    BY <1>3, <2>6
  <2> QED
    BY <1>6, <2>1, <2>3, <2>4, <2>5, <2>6, <2>7, StageFollows
<1>7. CASE st = Stage({"op_code", "session_id", "name"}, <<"fnum">>,
                      after_session + MAX_PIPE_NAME)
  <2>1. <<"fnum">> # <<>> /\ Head(<<"fnum">>) = "fnum" /\ Tail(<<"fnum">>) = <<>>
    BY Lists
  <2>2. Size(r, "fnum") = SIZEOF_INT
    BY DEF Size
  <2>3. /\ Size(r, "fnum") \in Nat /\ after_session + MAX_PIPE_NAME \in Nat
        /\ after_session + MAX_PIPE_NAME + SIZEOF_INT
             = after_session + MAX_PIPE_NAME + Size(r, "fnum")
        /\ after_session + MAX_PIPE_NAME + SIZEOF_INT < MAX_MESSAGE_SIZE
    <3>1. Size(r, "fnum") \in Nat /\ after_session + MAX_PIPE_NAME \in Nat
      BY <2>2, Offsets
    <3>2. after_session + MAX_PIPE_NAME + SIZEOF_INT < MAX_MESSAGE_SIZE
      BY Offsets
    <3> QED
      BY <2>2, <3>1, <3>2
  <2>4. InOrder(r, st, "fnum")
    BY <1>7 DEF InOrder, Stage
  <2>5. ~ Carried(r, "fnum")
    BY <1>4 DEF Carried
  <2>6. /\ "fnum" \notin {"op_code", "session_id", "name"}
        /\ {"op_code", "session_id", "name"} \cup {"fnum"}
             = {"op_code", "session_id", "name", "fnum"}
    OBVIOUS
  <2>7. Stage({"op_code", "session_id", "name"} \cup {"fnum"}, <<>>,
              after_session + MAX_PIPE_NAME + SIZEOF_INT) \in Stages(r)
    BY <1>3, <2>6
  <2> QED
    BY <1>7, <2>1, <2>3, <2>4, <2>5, <2>6, <2>7, StageFollows
<1> QED
  BY <1>2, <1>5, <1>6, <1>7 DEF Stage

\* tfs_write: the session, the handle, the length and the bytes.
LEMMA WriteStages ==
    ASSUME NEW r \in Writes, NEW st \in Stages(r), st.rest # <<>>
    PROVE  HasNext(r, st)
<1>1. /\ r.op_code = <<code(5)>> /\ r.session_id \in [1 .. SIZEOF_INT -> Octets]
      /\ r.fnum \in [1 .. SIZEOF_INT -> Octets]
      /\ r.len \in [1 .. SIZEOF_SIZE_T -> Octets]
      /\ r.buf \in [1 .. Len(r.buf) -> Octets] /\ Len(r.buf) \in Nat
      /\ after_len + Len(r.buf) < MAX_MESSAGE_SIZE
  BY FieldsTyped DEF Writes
<1>2. Stages(r) =
          {Stage({"op_code"}, <<"session_id", "fnum", "len", "buf">>, 1),
           Stage({"op_code", "session_id"}, <<"fnum", "len", "buf">>, after_session),
           Stage({"op_code", "session_id", "fnum"}, <<"len", "buf">>, after_fnum),
           Stage({"op_code", "session_id", "fnum", "len"}, <<"buf">>, after_len),
           Stage({"op_code", "session_id", "fnum", "len", "buf"}, <<>>,
                 after_len + Len(r.buf))}
  BY <1>1, StagesOf
<1>3. /\ Stage({"op_code", "session_id"}, <<"fnum", "len", "buf">>, after_session) \in Stages(r)
      /\ Stage({"op_code", "session_id", "fnum"}, <<"len", "buf">>, after_fnum) \in Stages(r)
      /\ Stage({"op_code", "session_id", "fnum", "len"}, <<"buf">>, after_len) \in Stages(r)
      /\ Stage({"op_code", "session_id", "fnum", "len", "buf"}, <<>>,
               after_len + Len(r.buf)) \in Stages(r)
  BY <1>2
<1>4. CASE st = Stage({"op_code"}, <<"session_id", "fnum", "len", "buf">>, 1)
  <2>1. /\ <<"session_id", "fnum", "len", "buf">> # <<>>
        /\ Head(<<"session_id", "fnum", "len", "buf">>) = "session_id"
        /\ Tail(<<"session_id", "fnum", "len", "buf">>) = <<"fnum", "len", "buf">>
    BY Lists
  <2> QED
    BY <1>1, <1>3, <1>4, <2>1, WriteLayout, SessionStage
<1>5. CASE st = Stage({"op_code", "session_id"}, <<"fnum", "len", "buf">>, after_session)
  <2>1. /\ <<"fnum", "len", "buf">> # <<>> /\ Head(<<"fnum", "len", "buf">>) = "fnum"
        /\ Tail(<<"fnum", "len", "buf">>) = <<"len", "buf">>
    BY Lists
  <2> QED
    BY <1>1, <1>3, <1>5, <2>1, WriteLayout, HandleStage
<1>6. CASE st = Stage({"op_code", "session_id", "fnum"}, <<"len", "buf">>, after_fnum)
  <2>1. /\ <<"len", "buf">> # <<>> /\ Head(<<"len", "buf">>) = "len"
        /\ Tail(<<"len", "buf">>) = <<"buf">>
    BY Lists
  <2>2. Size(r, "len") = SIZEOF_SIZE_T
    BY DEF Size
  <2> DEFINE size == Len(r.buf)
  <2>8. size \in Nat /\ after_len + size < MAX_MESSAGE_SIZE
    BY <1>1
  <2> HIDE DEF size
  <2>9. after_len < MAX_MESSAGE_SIZE
    BY <2>8, Offsets
  <2>3. /\ Size(r, "len") \in Nat /\ after_fnum \in Nat
        /\ after_len = after_fnum + Size(r, "len") /\ after_len < MAX_MESSAGE_SIZE
    BY <2>2, <2>9, Offsets
  <2>4. InOrder(r, st, "len")
    BY <1>6 DEF InOrder, Stage
  <2>5. /\ r["len"] \in [1 .. Size(r, "len") -> Octets]
        /\ \A i \in 1 .. Size(r, "len") : message(r)[after_fnum + i] = r["len"][i]
    BY <1>1, <2>2, WriteLayout
  <2>6. /\ "len" \notin {"op_code", "session_id", "fnum"}
        /\ {"op_code", "session_id", "fnum"} \cup {"len"}
             = {"op_code", "session_id", "fnum", "len"}
    OBVIOUS
  <2>7. Stage({"op_code", "session_id", "fnum"} \cup {"len"}, <<"buf">>, after_len) \in Stages(r)
    BY <1>3, <2>6
  <2> QED
    BY <1>6, <2>1, <2>3, <2>4, <2>5, <2>6, <2>7, StageFollows
<1>7. CASE st = Stage({"op_code", "session_id", "fnum", "len"}, <<"buf">>, after_len)
  <2>1. <<"buf">> # <<>> /\ Head(<<"buf">>) = "buf" /\ Tail(<<"buf">>) = <<>>
    BY Lists
  <2>2. Size(r, "buf") = Len(r.buf)
    BY DEF Size
  <2>3. /\ Size(r, "buf") \in Nat /\ after_len \in Nat
        /\ after_len + Len(r.buf) = after_len + Size(r, "buf")
        /\ after_len + Len(r.buf) < MAX_MESSAGE_SIZE
    BY <1>1, <2>2, Offsets
  <2>4. InOrder(r, st, "buf")
    BY <1>7 DEF InOrder, Stage
  <2>5. /\ r["buf"] \in [1 .. Size(r, "buf") -> Octets]
        /\ \A i \in 1 .. Size(r, "buf") : message(r)[after_len + i] = r["buf"][i]
    BY <1>1, <2>2, WriteLayout
  <2>6. /\ "buf" \notin {"op_code", "session_id", "fnum", "len"}
        /\ {"op_code", "session_id", "fnum", "len"} \cup {"buf"}
             = {"op_code", "session_id", "fnum", "len", "buf"}
    OBVIOUS
  <2>7. Stage({"op_code", "session_id", "fnum", "len"} \cup {"buf"}, <<>>,
              after_len + Len(r.buf)) \in Stages(r)
    BY <1>3, <2>6
  <2> QED
    BY <1>7, <2>1, <2>3, <2>4, <2>5, <2>6, <2>7, StageFollows
<1> QED
  BY <1>2, <1>4, <1>5, <1>6, <1>7 DEF Stage

\* tfs_read: the session, the handle and what is read for the length.
LEMMA ReadStages ==
    ASSUME NEW r \in Reads, NEW st \in Stages(r), st.rest # <<>>
    PROVE  HasNext(r, st)
<1>1. /\ r.op_code = <<code(6)>> /\ r.session_id \in [1 .. SIZEOF_INT -> Octets]
      /\ r.fnum \in [1 .. SIZEOF_INT -> Octets]
  BY FieldsTyped DEF Reads
<1>2. Stages(r) =
          {Stage({"op_code"}, <<"session_id", "fnum", "len">>, 1),
           Stage({"op_code", "session_id"}, <<"fnum", "len">>, after_session),
           Stage({"op_code", "session_id", "fnum"}, <<"len">>, after_fnum),
           Stage({"op_code", "session_id", "fnum", "len"}, <<>>, after_len)}
  BY <1>1, StagesOf
<1>3. /\ Stage({"op_code", "session_id"}, <<"fnum", "len">>, after_session) \in Stages(r)
      /\ Stage({"op_code", "session_id", "fnum"}, <<"len">>, after_fnum) \in Stages(r)
      /\ Stage({"op_code", "session_id", "fnum", "len"}, <<>>, after_len) \in Stages(r)
  BY <1>2
<1>4. CASE st = Stage({"op_code"}, <<"session_id", "fnum", "len">>, 1)
  <2>1. /\ <<"session_id", "fnum", "len">> # <<>>
        /\ Head(<<"session_id", "fnum", "len">>) = "session_id"
        /\ Tail(<<"session_id", "fnum", "len">>) = <<"fnum", "len">>
    BY Lists
  <2> QED
    BY <1>1, <1>3, <1>4, <2>1, ReadLayout, SessionStage
<1>5. CASE st = Stage({"op_code", "session_id"}, <<"fnum", "len">>, after_session)
  <2>1. /\ <<"fnum", "len">> # <<>> /\ Head(<<"fnum", "len">>) = "fnum"
        /\ Tail(<<"fnum", "len">>) = <<"len">>
    BY Lists
  <2> QED
    BY <1>1, <1>3, <1>5, <2>1, ReadLayout, HandleStage
<1>6. CASE st = Stage({"op_code", "session_id", "fnum"}, <<"len">>, after_fnum)
  <2>1. <<"len">> # <<>> /\ Head(<<"len">>) = "len" /\ Tail(<<"len">>) = <<>>
    BY Lists
  <2>2. Size(r, "len") = SIZEOF_SIZE_T
    BY DEF Size
  <2>3. r \in Reads
    OBVIOUS
  <2>4. after_len < MAX_MESSAGE_SIZE
    BY <2>3, Offsets
  <2>5. /\ Size(r, "len") \in Nat /\ after_fnum \in Nat
        /\ after_len = after_fnum + Size(r, "len")
    BY <2>2, Offsets
  <2>6. InOrder(r, st, "len")
    BY <1>6 DEF InOrder, Stage
  <2>7. ~ Carried(r, "len")
    BY <1>1, OpCodesDiffer DEF Carried, Whole
  <2>8. /\ "len" \notin {"op_code", "session_id", "fnum"}
        /\ {"op_code", "session_id", "fnum"} \cup {"len"}
             = {"op_code", "session_id", "fnum", "len"}
    OBVIOUS
  <2>9. Stage({"op_code", "session_id", "fnum"} \cup {"len"}, <<>>, after_len) \in Stages(r)
    BY <1>3, <2>8
  <2> QED
    BY <1>6, <2>1, <2>4, <2>5, <2>6, <2>7, <2>8, <2>9, StageFollows
<1> QED
  BY <1>2, <1>4, <1>5, <1>6 DEF Stage

\* Every stage but the last has a next one.
LEMMA NextStage ==
    ASSUME NEW r \in Requests, NEW st \in Stages(r), st.rest # <<>>
    PROVE  HasNext(r, st)
<1>1. CASE r \in Mounts
  BY <1>1, MountStages
<1>2. CASE r \in Bare
  BY <1>2, BareStages
<1>3. CASE r \in Opens
  BY <1>3, OpenStages
<1>4. CASE r \in Closes
  BY <1>4, CloseStages
<1>5. CASE r \in Writes
  BY <1>5, WriteStages
<1>6. CASE r \in Reads
  BY <1>6, ReadStages
<1> QED
  BY <1>1, <1>2, <1>3, <1>4, <1>5, <1>6 DEF Requests

\* The op_code of a request, and where its message has it.
LEMMA OpCodeFirst ==
    ASSUME NEW r \in Requests
    PROVE  /\ \E n \in 1 .. 7 : r.op_code = <<code(n)>>
           /\ message(r) \in Messages /\ message(r)[1] = r.op_code[1]
<1>1. message(r) \in Messages /\ message(r)[1] = r.op_code[1]
  BY MountLayout, BareLayout, OpenLayout, CloseLayout, WriteLayout, ReadLayout DEF Requests
<1>2. ASSUME r \in Mounts \cup Opens \cup Closes \cup Bare
      PROVE  \E n \in 1 .. 7 : r.op_code = <<code(n)>>
  <2>1. r.op_code \in {<<code(1)>>, <<code(2)>>, <<code(3)>>, <<code(4)>>, <<code(7)>>}
    BY <1>2 DEF Mounts, Opens, Closes, Bare
  <2> QED
    BY <2>1
<1>3. ASSUME r \in Writes \cup Reads
      PROVE  \E n \in 1 .. 7 : r.op_code = <<code(n)>>
  <2>1. r.op_code \in {<<code(5)>>, <<code(6)>>}
    BY <1>3 DEF Writes, Reads
  <2> QED
    BY <2>1
<1> QED
  BY <1>1, <1>2, <1>3 DEF Requests

\* The fields of each op_code, and of a byte that is none.
LEMMA FieldsOf ==
    /\ fields(0) = <<"op_code">>
    /\ fields(code(1)) = <<"pipename">>
    /\ fields(code(2)) = <<"session_id">> /\ fields(code(7)) = <<"session_id">>
    /\ fields(code(3)) = <<"session_id", "name", "fnum">>
    /\ fields(code(4)) = <<"session_id", "fnum">>
    /\ fields(code(5)) = <<"session_id", "fnum", "len", "buf">>
    /\ fields(code(6)) = <<"session_id", "fnum", "len">>
<1>1. \A n \in 1 .. 7 : code(n) # 0
  BY OpCodesDiffer
<1>2. \A m, n \in 1 .. 7 : code(m) = code(n) <=> m = n
  BY Numbers DEF code
<1> QED
  BY <1>1, <1>2 DEF fields

\* After the op_code, the producer is at the first stage.
LEMMA FirstStage ==
    ASSUME NEW r \in Requests
    PROVE  Stage({"op_code"}, fields(r.op_code[1]), 1) \in Stages(r)
<1>1. PICK n \in 1 .. 7 : r.op_code = <<code(n)>>
  BY OpCodeFirst
<1>2. r.op_code[1] = code(n)
  BY <1>1
<1>3. n = 1 \/ n = 2 \/ n = 3 \/ n = 4 \/ n = 5 \/ n = 6 \/ n = 7
  BY <1>1
<1>4. CASE n = 1
  BY <1>1, <1>2, <1>4, FieldsOf, StagesOf
<1>5. CASE n = 2 \/ n = 7
  BY <1>1, <1>2, <1>5, FieldsOf, StagesOf
<1>6. CASE n = 3
  BY <1>1, <1>2, <1>6, FieldsOf, StagesOf
<1>7. CASE n = 4
  BY <1>1, <1>2, <1>7, FieldsOf, StagesOf
<1>8. CASE n = 5
  <2>1. fields(r.op_code[1]) = <<"session_id", "fnum", "len", "buf">>
    BY <1>2, <1>8, FieldsOf
  <2>2. r.op_code = <<code(5)>>
    BY <1>1, <1>8
  <2>3. Stage({"op_code"}, <<"session_id", "fnum", "len", "buf">>, 1) \in Stages(r)
    BY <2>2, StagesOf
  <2> QED
    BY <2>1, <2>3
<1>9. CASE n = 6
  BY <1>1, <1>2, <1>9, FieldsOf, StagesOf
<1> QED
  BY <1>3, <1>4, <1>5, <1>6, <1>7, <1>8, <1>9

\* The names of these fields.
LEMMA NamesOf ==
    /\ FieldNames(code(1)) = {"op_code", "pipename"}
    /\ FieldNames(code(2)) = {"op_code", "session_id"}
    /\ FieldNames(code(3)) = {"op_code", "session_id", "name", "fnum"}
    /\ FieldNames(code(4)) = {"op_code", "session_id", "fnum"}
    /\ FieldNames(code(5)) = {"op_code", "session_id", "fnum", "len", "buf"}
    /\ FieldNames(code(6)) = {"op_code", "session_id", "fnum", "len"}
    /\ FieldNames(code(7)) = {"op_code", "session_id"}
<1>1. ASSUME NEW a PROVE {<<a>>[i] : i \in DOMAIN <<a>>} = {a}
  OBVIOUS
<1>2. ASSUME NEW a, NEW b PROVE {<<a, b>>[i] : i \in DOMAIN <<a, b>>} = {a, b}
  OBVIOUS
<1>3. ASSUME NEW a, NEW b, NEW c PROVE {<<a, b, c>>[i] : i \in DOMAIN <<a, b, c>>} = {a, b, c}
  OBVIOUS
<1>4. ASSUME NEW a, NEW b, NEW c, NEW d
      PROVE  {<<a, b, c, d>>[i] : i \in DOMAIN <<a, b, c, d>>} = {a, b, c, d}
  OBVIOUS
<1>5. /\ FieldNames(code(1)) = {"op_code"} \cup {"pipename"}
      /\ FieldNames(code(2)) = {"op_code"} \cup {"session_id"}
      /\ FieldNames(code(7)) = {"op_code"} \cup {"session_id"}
  BY <1>1, FieldsOf DEF FieldNames
<1>6. FieldNames(code(4)) = {"op_code"} \cup {"session_id", "fnum"}
  BY <1>2, FieldsOf DEF FieldNames
<1>7. /\ FieldNames(code(3)) = {"op_code"} \cup {"session_id", "name", "fnum"}
      /\ FieldNames(code(6)) = {"op_code"} \cup {"session_id", "fnum", "len"}
  BY <1>3, FieldsOf DEF FieldNames
<1>8. FieldNames(code(5)) = {"op_code"} \cup {"session_id", "fnum", "len", "buf"}
  BY <1>4, FieldsOf DEF FieldNames
<1> QED
  BY <1>5, <1>6, <1>7, <1>8

\* A request has the fields of its op_code.
LEMMA FieldsOfRequest ==
    ASSUME NEW r \in Requests
    PROVE  r = [f \in FieldNames(r.op_code[1]) |-> r[f]]
<1>1. CASE r \in Mounts
  <2>1. r.op_code[1] = code(1)
    BY <1>1 DEF Mounts
  <2>2. r = [f \in {"op_code", "pipename"} |-> r[f]]
    BY <1>1 DEF Mounts
  <2> QED
    BY <2>1, <2>2, NamesOf
<1>2. CASE r \in Bare
  <2>1. r.op_code[1] \in {code(2), code(7)}
    BY <1>2 DEF Bare
  <2>2. r = [f \in {"op_code", "session_id"} |-> r[f]]
    BY <1>2 DEF Bare
  <2> QED
    BY <2>1, <2>2, NamesOf
<1>3. CASE r \in Opens
  <2>1. r.op_code[1] = code(3)
    BY <1>3 DEF Opens
  <2>2. r = [f \in {"op_code", "session_id", "name", "fnum"} |-> r[f]]
    BY <1>3 DEF Opens
  <2> QED
    BY <2>1, <2>2, NamesOf
<1>4. CASE r \in Closes
  <2>1. r.op_code[1] = code(4)
    BY <1>4 DEF Closes
  <2>2. r = [f \in {"op_code", "session_id", "fnum"} |-> r[f]]
    BY <1>4 DEF Closes
  <2> QED
    BY <2>1, <2>2, NamesOf
<1>5. CASE r \in Writes
  <2>1. r.op_code[1] = code(5)
    BY <1>5 DEF Writes
  <2>2. r = [f \in {"op_code", "session_id", "fnum", "len", "buf"} |-> r[f]]
    BY <1>5 DEF Writes
  <2> QED
    BY <2>1, <2>2, NamesOf
<1>6. CASE r \in Reads
  <2>1. r.op_code[1] = code(6)
    BY <1>6 DEF Reads
  <2>2. r = [f \in {"op_code", "session_id", "fnum", "len"} |-> r[f]]
    BY <1>6 DEF Reads
  <2> QED
    BY <2>1, <2>2, NamesOf
<1> QED
  BY <1>1, <1>2, <1>3, <1>4, <1>5, <1>6 DEF Requests

\* What the fields of a stage are and where it is.
LEMMA StageRange ==
    ASSUME NEW r \in Requests, NEW st \in Stages(r)
    PROVE  /\ "op_code" \in st.got /\ st.at \in 1 .. MAX_MESSAGE_SIZE - 1
           /\ st.got \subseteq {"op_code", "session_id", "pipename", "name", "fnum", "len", "buf"}
           /\ st.got \cap {"name", "fnum", "len", "buf"} # {} => "session_id" \in st.got
<1>1. /\ r \in Writes => Len(r.buf) \in Nat /\ after_len + Len(r.buf) < MAX_MESSAGE_SIZE
      /\ r \in Reads => after_len < MAX_MESSAGE_SIZE
  <2>1. ASSUME r \in Writes
        PROVE  Len(r.buf) \in Nat /\ after_len + Len(r.buf) < MAX_MESSAGE_SIZE
    BY <2>1, FieldsTyped DEF Writes
  <2>2. ASSUME r \in Reads PROVE after_len < MAX_MESSAGE_SIZE
    BY <2>2, Offsets
  <2> QED
    BY <2>1, <2>2
<1>2. CASE r \in Mounts
  <2>1. r.op_code = <<code(1)>>
    BY <1>2 DEF Mounts
  <2> QED
    BY <2>1, StagesOf, Offsets DEF Stage
<1>3. CASE r \in Bare
  <2>1. r.op_code \in {<<code(2)>>, <<code(7)>>}
    BY <1>3 DEF Bare
  <2> QED
    BY <2>1, StagesOf, Offsets DEF Stage
<1>4. CASE r \in Opens
  <2>1. r.op_code = <<code(3)>>
    BY <1>4 DEF Opens
  <2> QED
    BY <2>1, StagesOf, Offsets DEF Stage
<1>5. CASE r \in Closes
  <2>1. r.op_code = <<code(4)>>
    BY <1>5 DEF Closes
  <2> QED
    BY <2>1, StagesOf, Offsets DEF Stage
<1>6. CASE r \in Writes
  <2>1. r.op_code = <<code(5)>>
    BY <1>6 DEF Writes
  <2> QED
    <3>1. Stages(r) =
            {Stage({"op_code"}, <<"session_id", "fnum", "len", "buf">>, 1),
               Stage({"op_code", "session_id"}, <<"fnum", "len", "buf">>, after_session),
               Stage({"op_code", "session_id", "fnum"}, <<"len", "buf">>, after_fnum),
               Stage({"op_code", "session_id", "fnum", "len"}, <<"buf">>, after_len),
               Stage({"op_code", "session_id", "fnum", "len", "buf"}, <<>>,
                     after_len + Len(r.buf))}
      BY <2>1, StagesOf
    <3>2. PICK end : end = after_len + Len(r.buf)
      OBVIOUS
    <3>3. after_len \in 1 .. MAX_MESSAGE_SIZE - 1 /\ end \in 1 .. MAX_MESSAGE_SIZE - 1
      <4> DEFINE size == Len(r.buf)
      <4>1. size \in Nat /\ after_len + size < MAX_MESSAGE_SIZE /\ end = after_len + size
        BY <1>1, <1>6, <3>2
      <4> HIDE DEF size
      <4> QED
        BY <4>1, Offsets
    <3>4. /\ 1 \in 1 .. MAX_MESSAGE_SIZE - 1 /\ after_session \in 1 .. MAX_MESSAGE_SIZE - 1
          /\ after_fnum \in 1 .. MAX_MESSAGE_SIZE - 1
      BY Offsets
    <3> QED
      BY <3>1, <3>2, <3>3, <3>4, StageParts
<1>7. CASE r \in Reads
  <2>1. r.op_code = <<code(6)>>
    BY <1>7 DEF Reads
  <2> QED
    BY <1>1, <1>7, <2>1, StagesOf, Offsets DEF Stage
<1> QED
  BY <1>2, <1>3, <1>4, <1>5, <1>6, <1>7 DEF Requests

\* At the last stage all fields have been received, and zeros are left.
LEMMA LastStage ==
    ASSUME NEW r \in Requests, NEW st \in Stages(r), st.rest = <<>>
    PROVE  /\ st.got = FieldNames(r.op_code[1])
           /\ \A i \in st.at + 1 .. MAX_MESSAGE_SIZE : message(r)[i] = 0
<1>1. \A a : <<a>> # <<>>
  BY Lists
<1>2. \A a, b : <<a, b>> # <<>>
  BY Lists
<1>3. \A a, b, c : <<a, b, c>> # <<>>
  BY Lists
<1>4. \A a, b, c, d : <<a, b, c, d>> # <<>>
  BY Lists
<1>5. CASE r \in Mounts
  <2>1. r.op_code = <<code(1)>> /\ r.op_code[1] = code(1)
    BY <1>5 DEF Mounts
  <2>2. st = Stage({"op_code", "pipename"}, <<>>, 1 + MAX_PIPE_NAME)
    <3>1. Stages(r) =
            {Stage({"op_code"}, <<"pipename">>, 1),
             Stage({"op_code", "pipename"}, <<>>, 1 + MAX_PIPE_NAME)}
      BY <2>1, StagesOf
    <3> QED
      BY <1>1, <3>1, StageParts
  <2> QED
    BY <1>5, <2>1, <2>2, NamesOf, MountLayout DEF Stage
<1>6. CASE r \in Bare
  <2>1. r.op_code \in {<<code(2)>>, <<code(7)>>} /\ r.op_code[1] \in {code(2), code(7)}
    BY <1>6 DEF Bare
  <2>2. st = Stage({"op_code", "session_id"}, <<>>, after_session)
    BY <1>1, <2>1, StagesOf DEF Stage
  <2> QED
    BY <1>6, <2>1, <2>2, NamesOf, BareLayout DEF Stage
<1>7. CASE r \in Opens
  <2>1. r.op_code = <<code(3)>> /\ r.op_code[1] = code(3)
    BY <1>7 DEF Opens
  <2>2. st = Stage({"op_code", "session_id", "name", "fnum"}, <<>>,
                   after_session + MAX_PIPE_NAME + SIZEOF_INT)
    <3>1. Stages(r) =
            {Stage({"op_code"}, <<"session_id", "name", "fnum">>, 1),
             Stage({"op_code", "session_id"}, <<"name", "fnum">>, after_session),
             Stage({"op_code", "session_id", "name"}, <<"fnum">>,
                   after_session + MAX_PIPE_NAME),
             Stage({"op_code", "session_id", "name", "fnum"}, <<>>,
                   after_session + MAX_PIPE_NAME + SIZEOF_INT)}
      BY <2>1, StagesOf
    <3> QED
      BY <1>1, <1>2, <1>3, <3>1, StageParts
  <2> QED
    BY <1>7, <2>1, <2>2, NamesOf, OpenLayout DEF Stage
<1>8. CASE r \in Closes
  <2>1. r.op_code = <<code(4)>> /\ r.op_code[1] = code(4)
    BY <1>8 DEF Closes
  <2>2. st = Stage({"op_code", "session_id", "fnum"}, <<>>, after_fnum)
    <3>1. Stages(r) =
            {Stage({"op_code"}, <<"session_id", "fnum">>, 1),
             Stage({"op_code", "session_id"}, <<"fnum">>, after_session),
             Stage({"op_code", "session_id", "fnum"}, <<>>, after_fnum)}
      BY <2>1, StagesOf
    <3> QED
      BY <1>1, <1>2, <3>1, StageParts
  <2> QED
    BY <1>8, <2>1, <2>2, NamesOf, CloseLayout DEF Stage
<1>9. CASE r \in Writes
  <2>1. r.op_code = <<code(5)>> /\ r.op_code[1] = code(5)
    BY <1>9 DEF Writes
  <2>2. st = Stage({"op_code", "session_id", "fnum", "len", "buf"}, <<>>,
                   after_len + Len(r.buf))
    <3>1. Stages(r) =
            {Stage({"op_code"}, <<"session_id", "fnum", "len", "buf">>, 1),
             Stage({"op_code", "session_id"}, <<"fnum", "len", "buf">>, after_session),
             Stage({"op_code", "session_id", "fnum"}, <<"len", "buf">>, after_fnum),
             Stage({"op_code", "session_id", "fnum", "len"}, <<"buf">>, after_len),
             Stage({"op_code", "session_id", "fnum", "len", "buf"}, <<>>,
                   after_len + Len(r.buf))}
      BY <2>1, StagesOf
    <3>2. st # Stage({"op_code"}, <<"session_id", "fnum", "len", "buf">>, 1)
      BY <1>4, StageParts
    <3>3. st # Stage({"op_code", "session_id"}, <<"fnum", "len", "buf">>, after_session)
      BY <1>3, StageParts
    <3>4. st # Stage({"op_code", "session_id", "fnum"}, <<"len", "buf">>, after_fnum)
      BY <1>2, StageParts
    <3>5. st # Stage({"op_code", "session_id", "fnum", "len"}, <<"buf">>, after_len)
      BY <1>1, StageParts
    <3> QED
      BY <3>1, <3>2, <3>3, <3>4, <3>5
  <2> QED
    BY <1>9, <2>1, <2>2, NamesOf, WriteLayout DEF Stage
<1>10. CASE r \in Reads
  <2>1. r.op_code = <<code(6)>> /\ r.op_code[1] = code(6)
    BY <1>10 DEF Reads
  <2>2. st = Stage({"op_code", "session_id", "fnum", "len"}, <<>>, after_len)
    <3>1. Stages(r) =
            {Stage({"op_code"}, <<"session_id", "fnum", "len">>, 1),
             Stage({"op_code", "session_id"}, <<"fnum", "len">>, after_session),
             Stage({"op_code", "session_id", "fnum"}, <<"len">>, after_fnum),
             Stage({"op_code", "session_id", "fnum", "len"}, <<>>, after_len)}
      BY <2>1, StagesOf
    <3> QED
      BY <1>1, <1>2, <1>3, <3>1, StageParts
  <2>3. \A i \in after_len + 1 .. MAX_MESSAGE_SIZE : i \in after_fnum + 1 .. MAX_MESSAGE_SIZE
    BY Offsets
  <2>4. \A i \in after_fnum + 1 .. MAX_MESSAGE_SIZE : message(r)[i] = 0
    BY <1>10, ReadLayout
  <2> QED
    BY <2>1, <2>2, <2>3, <2>4, NamesOf DEF Stage
<1> QED
  BY <1>5, <1>6, <1>7, <1>8, <1>9, <1>10 DEF Requests

\* An encoded session is a session again.
LEMMA SessionOfRequest ==
    ASSUME NEW r \in Requests, r \notin Mounts
    PROVE  /\ r.session_id \in [1 .. SIZEOF_INT -> Octets]
           /\ number(r.session_id) \in Sessions
<1>1. r.session_id \in SessionIds
  BY DEF Requests, Bare, Opens, Closes, Writes, Reads
<1> QED
  BY <1>1, FieldsTyped, EncodingAssumption DEF SessionIds

\* The producer does not look for a session in a tfs_mount.
LEMMA MountHasNoSession ==
    ASSUME NEW r \in Mounts, NEW st \in Stages(r)
    PROVE  /\ "session_id" \notin st.got
           /\ st.rest # <<>> => Head(st.rest) = "pipename"
<1>1. r.op_code = <<code(1)>>
  BY DEF Mounts
<1>2. Stages(r) = {Stage({"op_code"}, <<"pipename">>, 1),
                   Stage({"op_code", "pipename"}, <<>>, 1 + MAX_PIPE_NAME)}
  BY <1>1, StagesOf
<1>3. CASE st = Stage({"op_code"}, <<"pipename">>, 1)
  BY <1>3, Lists, StageParts
<1>4. CASE st = Stage({"op_code", "pipename"}, <<>>, 1 + MAX_PIPE_NAME)
  BY <1>4, StageParts
<1> QED
  BY <1>2, <1>3, <1>4

\* A stage has no op_code to read.
LEMMA RestIsNoOpCode ==
    ASSUME NEW r \in Requests, NEW st \in Stages(r)
    PROVE  st.rest # <<"op_code">>
<1>1. CASE st.rest = <<>>
  BY <1>1, Lists
<1>2. CASE st.rest # <<>>
  <2>1. PICK f : InOrder(r, st, f) /\ \E next \in Stages(r) : LeadsTo(r, st, f, next)
    BY <1>2, NextStage DEF HasNext
  <2>2. Head(st.rest) = f /\ f # "op_code"
    BY <2>1 DEF InOrder, LeadsTo
  <2> QED
    BY <2>2, Lists
<1> QED
  BY <1>1, <1>2

\* A read of bytes that are in the pipe gets them all.
LEMMA ReadInFull ==
    ASSUME spipe \in Seq(Octets), NEW size \in Nat, size <= Len(spipe)
    PROVE  /\ read(size) \in [1 .. size -> Octets] /\ Len(read(size)) = size
           /\ \A i \in 1 .. size : read(size)[i] = spipe[i]
<1>1. read(size) = SubSeq(spipe, 1, size)
  <2>1. Len(spipe) \in Nat
    OBVIOUS
  <2>2. (IF size < Len(spipe) THEN size ELSE Len(spipe)) = size
    BY <2>1
  <2> QED
    BY <2>2 DEF read
<1>2. PICK bytes : bytes = SubSeq(spipe, 1, size)
  OBVIOUS
<1>3. /\ bytes \in Seq(Octets) /\ Len(bytes) = size
      /\ \A i \in 1 .. size : bytes[i] = spipe[i]
  BY <1>2
<1>4. bytes \in [1 .. size -> Octets]
  BY <1>3
<1> QED
  BY <1>1, <1>2, <1>3, <1>4

\* As many bytes as a variable has replace it.
LEMMA Overwritten ==
    ASSUME NEW n \in Nat, NEW old \in [1 .. n -> Octets], NEW bytes \in [1 .. n -> Octets]
    PROVE  over(old, bytes) = bytes
<1>1. /\ old \in Seq(Octets) /\ Len(old) = n
      /\ bytes \in Seq(Octets) /\ Len(bytes) = n
  OBVIOUS
<1>2. SubSeq(old, n + 1, n) = <<>>
  BY <1>1
<1>3. over(old, bytes) = bytes \o <<>>
  BY <1>1, <1>2 DEF over
<1> QED
  BY <1>1, <1>3, ConcatEmptySeq

-----------------------------------------------------------------------------
(* The clients keep the invariant.                                         *)

\* A request sent is one more message behind those in the pipe.
LEMMA SendKeepsWireInv ==
    ASSUME WireInv, NEW r \in Requests, Send(r),
           session_id' \in [Clients -> Sessions \cup {-1}]
    PROVE  WireInv'
<1>1. /\ spipe \in Seq(Octets) /\ sent \in Seq(Requests) /\ served \in Seq(Handed)
      /\ Len(served) <= Len(sent)
  BY DEF WireInv, Typed
<1>2. /\ spipe' = spipe \o message(r) /\ sent' = Append(sent, r)
      /\ UNCHANGED <<cbuf, buffer, todo, served>>
  BY DEF Send
<1>3. message(r) \in Messages
  BY OpCodeFirst
<1>4. ASSUME NEW o, NEW k, Stream(o, k)
      PROVE  Stream(o, k)' /\ \A i \in 1 .. o : spipe'[i] = spipe[i]
  <2>1. Carries(spipe, o, sent, k)
    BY <1>4 DEF Stream
  <2>2. spipe' = spipe \o message(r) /\ sent' = Append(sent, r)
    BY <1>2
  <2>3. Carries(spipe', o, sent', k) /\ \A i \in 1 .. o : spipe'[i] = spipe[i]
    <3> HIDE DEF Carries
    <3>1. spipe \in Seq(Octets) /\ sent \in Seq(Requests)
      BY <1>1
    <3>2. Carries(spipe', o, sent', k)
      BY <1>3, <2>1, <2>2, <3>1, MessageBehind
    <3>3. \A i \in 1 .. o : spipe'[i] = spipe[i]
      <4>1. o \in Nat /\ o \in 0 .. o
        BY <2>1, Numbers DEF Carries
      <4>2. o <= Len(spipe)
        BY <2>1, <3>1, <4>1, PartTaken
      <4>3. message(r) \in Seq(Octets)
        BY <1>3, Numbers DEF Messages
      <4> QED
        BY <2>2, <3>1, <4>1, <4>2, <4>3, ConcatProperties
    <3> QED
      BY <3>2, <3>3
  <2> QED
    BY <2>3 DEF Stream, Carries
<1>5. /\ sent' \in Seq(Requests) /\ Len(sent') = Len(sent) + 1
      /\ \A n \in 1 .. Len(sent) : sent'[n] = sent[n]
  BY <1>1, <1>2, AppendProperties
<1>6. spipe' \in Seq(Octets)
  <2>1. message(r) \in Seq(Octets)
    BY <1>3, Numbers DEF Messages
  <2> QED
    BY <1>1, <1>2, <2>1, ConcatProperties
<1>7. Typed'
  BY <1>2, <1>5, <1>6 DEF WireInv, Typed
<1>8. (Len(served) <= Len(sent))'
  <2>1. Len(served) \in Nat /\ Len(sent) \in Nat
    BY <1>1
  <2> QED
    BY <1>1, <1>2, <1>5, <2>1
<1>9. ASSUME Waiting PROVE Waiting'
  <2>1. PICK o \in 0 .. MAX_MESSAGE_SIZE : Padding(o)
    BY <1>9 DEF Waiting
  <2>2. Stream(o, Len(served))' /\ \A i \in 1 .. o : spipe'[i] = spipe[i]
    <3>1. Stream(o, Len(served))
      BY <2>1 DEF Padding
    <3>2. PICK k : k = Len(served)
      OBVIOUS
    <3>3. Stream(o, k)' /\ \A i \in 1 .. o : spipe'[i] = spipe[i]
      BY <1>4, <3>1, <3>2
    <3> QED
      BY <1>2, <3>2, <3>3 DEF Stream, Carries
  <2>3. Padding(o)'
    BY <1>2, <2>1, <2>2 DEF Padding
  <2>4. Waiting'
    BY <1>2, <1>9, <2>3 DEF Waiting
  <2> QED
    BY <2>4
<1>10. ASSUME Reading PROVE Reading'
  <2>1. PICK q : q = sent[Len(served) + 1]
    OBVIOUS
  <2>2. PICK st \in Stages(q) : At(q, st)
    BY <1>10, <2>1 DEF Reading
  <2>3. Len(served') < Len(sent') /\ sent'[Len(served') + 1] = q
    <3>1. Len(served) < Len(sent) /\ Len(served) \in Nat /\ Len(sent) \in Nat
      BY <1>1, <1>10 DEF Reading
    <3>2. Len(served) + 1 \in 1 .. Len(sent)
      BY <3>1
    <3> QED
      BY <1>2, <1>5, <2>1, <3>1, <3>2
  <2>4. /\ Stream(MAX_MESSAGE_SIZE - st.at, Len(served) + 1)'
        /\ \A i \in 1 .. MAX_MESSAGE_SIZE - st.at : spipe'[i] = spipe[i]
    <3>1. PICK k : k = Len(served) + 1
      OBVIOUS
    <3>2. PICK o : o = MAX_MESSAGE_SIZE - st.at
      OBVIOUS
    <3>3. Stream(o, k)
      BY <2>2, <3>1, <3>2 DEF At
    <3>4. Stream(o, k)' /\ \A i \in 1 .. o : spipe'[i] = spipe[i]
      BY <1>4, <3>3
    <3> QED
      BY <1>2, <3>1, <3>2, <3>4 DEF Stream, Carries
  <2>5. \A f \in st.got : Carried(q, f) => Got(f)' = q[f]
    BY <1>2, <2>2 DEF At, Got, Session
  <2>6. At(q, st)'
    BY <1>2, <2>2, <2>4, <2>5 DEF At
  <2>7. Reading'
    BY <2>3, <2>6 DEF Reading
  <2> QED
    BY <2>7
<1>11. Arrived'
  <2>1. ASSUME NEW n \in DOMAIN served PROVE sent'[n] = sent[n]
    <3>1. DOMAIN served = 1 .. Len(served) /\ Len(served) \in Nat /\ Len(sent) \in Nat
      BY <1>1
    <3>2. n \in 1 .. Len(sent)
      BY <1>1, <3>1
    <3> QED
      BY <1>5, <3>2
  <2> QED
    BY <1>2, <2>1 DEF WireInv, Arrived
<1> QED
  BY <1>7, <1>8, <1>9, <1>10, <1>11 DEF WireInv

\* The request sent last leaves padding when all do, and so do those before.
LEMMA LastPadded ==
    ASSUME NEW R, sent \in Seq(R), NEW r, sent' = Append(sent, r), Padded'
    PROVE  LeavesPadding(r) /\ Padded
<1>1. /\ Len(sent) \in Nat /\ DOMAIN sent = 1 .. Len(sent)
      /\ DOMAIN sent' = 1 .. Len(sent) + 1 /\ sent'[Len(sent) + 1] = r
      /\ \A n \in 1 .. Len(sent) : sent'[n] = sent[n]
  OBVIOUS
<1>2. LeavesPadding(r)
  <2>1. Len(sent) + 1 \in DOMAIN sent'
    BY <1>1
  <2>2. LeavesPadding(sent'[Len(sent) + 1])
    BY <2>1 DEF Padded, LeavesPadding
  <2> QED
    BY <1>1, <2>2
<1>3. ASSUME NEW n \in DOMAIN sent PROVE LeavesPadding(sent[n])
  <2>1. n \in DOMAIN sent' /\ sent'[n] = sent[n]
    BY <1>1
  <2>2. LeavesPadding(sent'[n])
    BY <2>1 DEF Padded, LeavesPadding
  <2> QED
    BY <2>1, <2>2
<1> QED
  BY <1>2, <1>3 DEF Padded

\* What a call sends is a request of the client's session.
LEMMA CallIsRequest ==
    ASSUME NEW c \in Clients, Mounted(c), session_id \in [Clients -> Sessions \cup {-1}]
    PROVE  int(session_id[c]) \in SessionIds
<1>1. session_id[c] \in Sessions
  BY DEF Mounted
<1> QED
  BY <1>1 DEF SessionIds

\* A call keeps the invariant.
LEMMA CallKeepsWireInv ==
    ASSUME WireInv, NEW c \in Clients, NEW r \in Requests, Call(c, r)
    PROVE  WireInv'
<1>1. Send(r) /\ session_id' = session_id
  BY DEF Call
<1>2. session_id' \in [Clients -> Sessions \cup {-1}]
  BY <1>1 DEF WireInv, Typed
<1> QED
  BY <1>1, <1>2, SendKeepsWireInv

\* tfs_mount sends the name of the client's pipe.
LEMMA MountKeepsWireInv ==
    ASSUME WireInv, NEW c \in Clients, tfs_mount(c)
    PROVE  WireInv'
<1>1. PICK path \in Paths : Send([op_code |-> <<code(1)>>, pipename |-> path])
  BY DEF tfs_mount
<1>2. [op_code |-> <<code(1)>>, pipename |-> path] \in Requests
  BY DEF Requests, Mounts
<1>3. session_id' \in [Clients -> Sessions \cup {-1}]
  BY DEF tfs_mount, WireInv, Typed
<1> QED
  BY <1>1, <1>2, <1>3, SendKeepsWireInv

\* tfs_unmount sends the session and forgets it.
LEMMA UnmountKeepsWireInv ==
    ASSUME WireInv, NEW c \in Clients, tfs_unmount(c)
    PROVE  WireInv'
<1>1. session_id \in [Clients -> Sessions \cup {-1}]
  BY DEF WireInv, Typed
<1>2. int(session_id[c]) \in SessionIds
  BY <1>1, CallIsRequest DEF tfs_unmount
<1>3. [op_code |-> <<code(2)>>, session_id |-> int(session_id[c])] \in Requests
  BY <1>2 DEF Requests, Bare
<1>4. Send([op_code |-> <<code(2)>>, session_id |-> int(session_id[c])])
  BY DEF tfs_unmount
<1>5. session_id' \in [Clients -> Sessions \cup {-1}]
  BY <1>1 DEF tfs_unmount
<1> QED
  BY <1>3, <1>4, <1>5, SendKeepsWireInv

\* The other calls send a request of their own kind.
LEMMA CallsKeepWireInv ==
    ASSUME WireInv, Padded', NEW c \in Clients,
           \/ tfs_open(c) \/ tfs_close(c) \/ tfs_write(c) \/ tfs_read(c)
           \/ tfs_shutdown_after_all_closed(c)
    PROVE  WireInv'
<1>1. session_id \in [Clients -> Sessions \cup {-1}]
  BY DEF WireInv, Typed
<1>2. Mounted(c)
  BY DEF tfs_open, tfs_close, tfs_write, tfs_read, tfs_shutdown_after_all_closed, Call
<1>3. PICK id : id = int(session_id[c])
  OBVIOUS
<1>4. id \in SessionIds
  BY <1>1, <1>2, <1>3, CallIsRequest
<1>5. CASE tfs_open(c)
  <2>1. PICK name \in Paths, flags \in Ints :
            Call(c, [op_code |-> <<code(3)>>, session_id |-> id, name |-> name,
                     fnum |-> int(flags)])
    BY <1>3, <1>5 DEF tfs_open
  <2>2. [op_code |-> <<code(3)>>, session_id |-> id, name |-> name,
         fnum |-> int(flags)] \in Requests
    BY <1>4 DEF Requests, Opens, IntFields
  <2> QED
    BY <2>1, <2>2, CallKeepsWireInv
<1>6. CASE tfs_close(c)
  <2>1. PICK fhandle \in Ints :
            Call(c, [op_code |-> <<code(4)>>, session_id |-> id, fnum |-> int(fhandle)])
    BY <1>3, <1>6 DEF tfs_close
  <2>2. [op_code |-> <<code(4)>>, session_id |-> id, fnum |-> int(fhandle)] \in Requests
    BY <1>4 DEF Requests, Closes, IntFields
  <2> QED
    BY <2>1, <2>2, CallKeepsWireInv
<1>7. CASE tfs_write(c)
  <2>1. PICK fhandle \in Ints, buf \in Contents :
            Call(c, [op_code |-> <<code(5)>>, session_id |-> id, fnum |-> int(fhandle),
                     len |-> Length(buf), buf |-> buf])
    BY <1>3, <1>7 DEF tfs_write, Length
  <2>2. PICK r : r = [op_code |-> <<code(5)>>, session_id |-> id, fnum |-> int(fhandle),
                      len |-> Length(buf), buf |-> buf]
    OBVIOUS
  <2>3. LeavesPadding(r)
    <3>1. sent \in Seq(Requests) /\ sent' = Append(sent, r)
      BY <2>1, <2>2 DEF Call, Send, WireInv, Typed
    <3> QED
      BY <3>1, LastPadded
  <2>4. after_len + Len(buf) < MAX_MESSAGE_SIZE
    <3>1. r.op_code = <<code(5)>> /\ r.buf = buf
      BY <2>2
    <3>2. 1 + SIZEOF_INT + SIZEOF_INT + SIZEOF_SIZE_T + Len(buf) < MAX_MESSAGE_SIZE
      BY <2>3, <3>1 DEF LeavesPadding
    <3> QED
      BY <3>2, Numbers DEF after_len, after_fnum, after_session
  <2>5. r \in Requests
    BY <1>4, <2>2, <2>4 DEF Requests, Writes, IntFields, Short
  <2> QED
    BY <2>1, <2>2, <2>5, CallKeepsWireInv
<1>8. CASE tfs_read(c)
  <2>1. PICK fhandle \in Ints, buf \in Contents :
            Call(c, [op_code |-> <<code(6)>>, session_id |-> id, fnum |-> int(fhandle),
                     len |-> Length(buf)])
    BY <1>3, <1>8 DEF tfs_read, Length
  <2>2. [op_code |-> <<code(6)>>, session_id |-> id, fnum |-> int(fhandle),
         len |-> Length(buf)] \in Requests
    BY <1>4 DEF Requests, Reads, IntFields
  <2> QED
    BY <2>1, <2>2, CallKeepsWireInv
<1>9. CASE tfs_shutdown_after_all_closed(c)
  <2>1. Call(c, [op_code |-> <<code(7)>>, session_id |-> id])
    BY <1>3, <1>9 DEF tfs_shutdown_after_all_closed
  <2>2. [op_code |-> <<code(7)>>, session_id |-> id] \in Requests
    BY <1>4 DEF Requests, Bare
  <2> QED
    BY <2>1, <2>2, CallKeepsWireInv
<1> QED
  BY <1>5, <1>6, <1>7, <1>8, <1>9

\* The invariant is not about what the clients know.
LEMMA PipeUntouched ==
    ASSUME WireInv, UNCHANGED <<spipe, cbuf, buffer, todo, sent, served>>,
           session_id' \in [Clients -> Sessions \cup {-1}]
    PROVE  WireInv'
<1>1. Typed' /\ (Len(served) <= Len(sent))' /\ Arrived'
  <2>1. Typed'
    BY DEF WireInv, Typed
  <2>2. (Len(served) <= Len(sent))' /\ Arrived'
    BY DEF WireInv, Arrived
  <2> QED
    BY <2>1, <2>2
<1>2. ASSUME Waiting PROVE Waiting'
  BY <1>2 DEF Waiting, Padding, Stream, Carries
<1>3. ASSUME Reading PROVE Reading'
  BY <1>3 DEF Reading, At, Stream, Carries, Got, Session
<1> QED
  BY <1>1, <1>2, <1>3 DEF WireInv

\* A reply gives a client its session, a death takes it.
LEMMA ReplyAndDieKeepWireInv ==
    ASSUME WireInv, NEW c \in Clients, Reply(c) \/ Die(c)
    PROVE  WireInv'
<1>1. session_id \in [Clients -> Sessions \cup {-1}]
  BY DEF WireInv, Typed
<1>2. session_id' \in [Clients -> Sessions \cup {-1}]
  BY <1>1 DEF Reply, Die
<1> QED
  BY <1>2, PipeUntouched DEF Reply, Die

\* At the start the pipe is empty and nothing has been sent.
LEMMA InitWireInv == Init => WireInv
<1> SUFFICES ASSUME Init PROVE WireInv
  OBVIOUS
<1>1. /\ zeros(SIZEOF_INT) \in [1 .. SIZEOF_INT -> Octets]
      /\ zeros(MAX_PIPE_NAME) \in [1 .. MAX_PIPE_NAME -> Octets]
      /\ zeros(SIZEOF_SIZE_T) \in [1 .. SIZEOF_SIZE_T -> Octets]
  BY OpCodesDiffer DEF zeros
<1>2. Typed
  <2>1. \A b \in {0} \cup OpCodes : <<b>> \in [1 .. 1 -> Octets]
    BY OpCodesDiffer DEF OpCodes
  <2>2. cbuf \in [op_code : [1 .. 1 -> Octets], session_id : [1 .. SIZEOF_INT -> Octets],
                  pipename : [1 .. MAX_PIPE_NAME -> Octets]]
    BY <1>1, <2>1 DEF Init
  <2>3. buffer \in [Sessions -> [name : [1 .. MAX_PIPE_NAME -> Octets],
                                 fnum : [1 .. SIZEOF_INT -> Octets],
                                 len : [1 .. SIZEOF_SIZE_T -> Octets], buf : Seq(Octets)]]
    BY <1>1 DEF Init
  <2>4. session_id \in [Clients -> Sessions \cup {-1}]
    BY DEF Init
  <2>5. spipe \in Seq(Octets) /\ sent \in Seq(Requests) /\ served \in Seq(Handed)
    BY DEF Init
  <2> QED
    BY <2>2, <2>3, <2>4, <2>5 DEF Typed
<1>3. Len(sent) = 0 /\ Len(served) = 0 /\ Len(spipe) = 0
  BY DEF Init
<1>4. Padding(0)
  <2>1. Carries(spipe, 0, sent, 0)
    <3>1. (0 - 0) * MAX_MESSAGE_SIZE = 0
      BY Numbers
    <3> QED
      BY <1>3, <3>1, Numbers DEF Carries
  <2> QED
    BY <1>3, <2>1 DEF Init, Padding, Stream
<1>5. Waiting
  BY <1>4, Numbers DEF Waiting, Init
<1>6. Arrived
  BY <1>3 DEF Arrived, Init
<1> QED
  BY <1>2, <1>3, <1>5, <1>6 DEF WireInv

-----------------------------------------------------------------------------
(* The producer keeps the invariant.                                       *)

\* Reading an op_code: a zero of the padding, the first byte of a message, or
\* nothing, which leaves the zero that was read last.
LEMMA ReadOpCodeKeepsWireInv ==
    ASSUME WireInv, ReadOpCode
    PROVE  WireInv'
<1>1. /\ spipe \in Seq(Octets) /\ sent \in Seq(Requests) /\ served \in Seq(Handed)
      /\ Len(served) \in Nat /\ Len(sent) \in Nat /\ Len(spipe) \in Nat
      /\ cbuf.op_code \in [1 .. 1 -> Octets]
  BY DEF WireInv, Typed
<1>2. PICK op_code : op_code = over(cbuf.op_code, read(1))
  OBVIOUS
<1>3. /\ todo = <<"op_code">> /\ sent # <<>>
      /\ spipe' = SubSeq(spipe, 2, Len(spipe))
      /\ cbuf' = [cbuf EXCEPT !.op_code = op_code]
      /\ todo' = fields(op_code[1])
      /\ UNCHANGED <<buffer, client, sent, served>>
  BY <1>2 DEF ReadOpCode
<1>4. ~ Reading
  BY <1>1, <1>3, RestIsNoOpCode DEF Reading, At
<1>5. PICK o \in 0 .. MAX_MESSAGE_SIZE : Padding(o)
  BY <1>4 DEF WireInv, Waiting
<1>6. PICK k : k = Len(served)
  OBVIOUS
<1>7. Carries(spipe, o, sent, k) /\ k \in Nat /\ k = Len(served') /\ o \in Nat
  BY <1>1, <1>3, <1>5, <1>6, Numbers DEF Padding, Stream
<1>8. Arrived'
  BY <1>3 DEF WireInv, Arrived
<1>9. (Len(served) <= Len(sent))'
  BY <1>3 DEF WireInv
<1>10. ASSUME op_code \in [1 .. 1 -> Octets], spipe' \in Seq(Octets)
       PROVE  Typed'
  BY <1>3, <1>10 DEF WireInv, Typed, client
<1>11. ASSUME spipe # <<>>
       PROVE  op_code = <<spipe[1]>> /\ op_code \in [1 .. 1 -> Octets]
  <2>1. 1 \in Nat /\ 1 <= Len(spipe)
    BY <1>1, <1>11
  <2>2. /\ read(1) \in [1 .. 1 -> Octets]
        /\ \A i \in 1 .. 1 : read(1)[i] = spipe[i]
    BY <1>1, <2>1, ReadInFull
  <2>3. op_code = read(1)
    BY <1>1, <1>2, <2>1, <2>2, Overwritten
  <2>4. 1 \in 1 .. 1
    OBVIOUS
  <2> QED
    BY <2>2, <2>3, <2>4
<1>12. CASE o > 0
  <2>1. /\ 1 \in 0 .. o /\ 1 \in 1 .. o
    BY <1>7, <1>12
  <2>2. /\ spipe' \in Seq(Octets) /\ Carries(spipe', o - 1, sent, k) /\ 1 <= Len(spipe)
        /\ \A i \in 1 .. o - 1 : spipe'[i] = spipe[1 + i]
    <3>1. spipe' = SubSeq(spipe, 1 + 1, Len(spipe))
      BY <1>3
    <3>2. spipe \in Seq(Octets) /\ sent \in Seq(Requests) /\ Carries(spipe, o, sent, k)
      BY <1>1, <1>7
    <3>3. 1 \in 0 .. o
      BY <2>1
    <3>4. /\ spipe' \in Seq(Octets) /\ Carries(spipe', o - 1, sent, k)
          /\ 1 <= Len(spipe) /\ Shifted(spipe', o - 1, spipe, 1)
      BY <3>1, <3>2, <3>3, PartTaken
    <3> QED
      BY <3>4 DEF Shifted
  <2>3. \A i \in 1 .. o : spipe[i] = 0
    BY <1>5 DEF Padding
  <2>4. spipe # <<>> /\ op_code = <<0>>
    BY <1>11, <2>1, <2>2, <2>3
  <2>5. todo' = <<"op_code">>
    BY <1>3, <2>4, FieldsOf
  <2>6. cbuf'.op_code = <<0>>
    BY <1>3, <2>4 DEF WireInv, Typed
  <2>7. \A i \in 1 .. o - 1 : spipe'[i] = 0
    <3>1. \A i \in 1 .. o - 1 : 1 + i \in 1 .. o
      BY <1>7
    <3> QED
      BY <2>2, <2>3, <3>1
  <2>8. served' # <<>>
    BY <1>3, <1>5, <1>12 DEF Padding
  <2>9. Padding(o - 1)'
    <3>1. Carries(spipe', o - 1, sent', Len(served'))
      BY <1>3, <1>7, <2>2
    <3> QED
      BY <2>6, <2>7, <2>8, <3>1 DEF Padding, Stream
  <2>10. o - 1 \in 0 .. MAX_MESSAGE_SIZE
    BY <1>5, <1>12, Numbers
  <2>11. Waiting'
    BY <2>5, <2>9, <2>10 DEF Waiting
  <2> QED
    BY <1>8, <1>9, <1>10, <1>11, <2>2, <2>4, <2>11 DEF WireInv
<1>13. CASE o = 0 /\ k < Len(sent)
  <2>1. Carries(spipe, 0, sent, k)
    BY <1>7, <1>13
  <2>2. PICK r : r = sent[k + 1]
    OBVIOUS
  <2>3. k + 1 \in 1 .. Len(sent) /\ r \in Requests
    BY <1>1, <1>7, <1>13, <2>2
  <2>4. /\ Carries(spipe, MAX_MESSAGE_SIZE, sent, k + 1)
        /\ \A i \in 1 .. MAX_MESSAGE_SIZE : spipe[i] = message(r)[i]
        /\ Len(spipe) >= MAX_MESSAGE_SIZE
    BY <1>1, <1>13, <2>1, <2>2, MessageInFront
  <2>5. /\ 1 \in 0 .. MAX_MESSAGE_SIZE /\ 1 \in 1 .. MAX_MESSAGE_SIZE
        /\ MAX_MESSAGE_SIZE \in Nat
    BY Numbers
  <2>6. /\ spipe' \in Seq(Octets) /\ Carries(spipe', MAX_MESSAGE_SIZE - 1, sent, k + 1)
        /\ \A i \in 1 .. MAX_MESSAGE_SIZE - 1 : spipe'[i] = spipe[1 + i]
    <3>1. spipe' = SubSeq(spipe, 1 + 1, Len(spipe))
      BY <1>3
    <3>2. /\ spipe \in Seq(Octets) /\ sent \in Seq(Requests)
          /\ Carries(spipe, MAX_MESSAGE_SIZE, sent, k + 1)
      BY <1>1, <2>4
    <3>3. 1 \in 0 .. MAX_MESSAGE_SIZE
      BY <2>5
    <3>4. /\ spipe' \in Seq(Octets) /\ Carries(spipe', MAX_MESSAGE_SIZE - 1, sent, k + 1)
          /\ 1 <= Len(spipe) /\ Shifted(spipe', MAX_MESSAGE_SIZE - 1, spipe, 1)
      BY <3>1, <3>2, <3>3, PartTaken
    <3> QED
      BY <3>4 DEF Shifted
  <2>7. spipe # <<>>
    BY <1>1, <2>4, <2>5
  <2>8. op_code = <<message(r)[1]>>
    BY <1>11, <2>4, <2>5, <2>7
  <2>9. op_code = r.op_code
    <3>1. PICK n \in 1 .. 7 : r.op_code = <<code(n)>>
      BY <2>3, OpCodeFirst
    <3>2. message(r)[1] = code(n)
      BY <2>3, <3>1, OpCodeFirst
    <3> QED
      BY <2>8, <3>1, <3>2
  <2>10. PICK st : st = Stage({"op_code"}, fields(r.op_code[1]), 1)
    OBVIOUS
  <2>11. st \in Stages(r) /\ st.got = {"op_code"} /\ st.rest = fields(r.op_code[1]) /\ st.at = 1
    BY <2>3, <2>10, FirstStage, StageParts
  <2>12. cbuf'.op_code = r.op_code
    BY <1>3, <2>9 DEF WireInv, Typed
  <2>13. At(r, st)'
    <3>1. todo' = st.rest
      BY <1>3, <2>9, <2>11
    <3>2. Carries(spipe', MAX_MESSAGE_SIZE - st.at, sent', Len(served') + 1)
      BY <1>3, <1>7, <2>6, <2>11
    <3>3. \A i \in 1 .. MAX_MESSAGE_SIZE - 1 : spipe'[i] = message(r)[1 + i]
      <4>1. \A i \in 1 .. MAX_MESSAGE_SIZE - 1 : 1 + i \in 1 .. MAX_MESSAGE_SIZE
        BY Numbers
      <4> QED
        BY <2>4, <2>6, <4>1
    <3>4. \A f \in st.got : Got(f)' = r[f]
      BY <2>11, <2>12 DEF Got
    <3> QED
      BY <2>11, <3>1, <3>2, <3>3, <3>4 DEF At, Stream
  <2>14. Reading'
    <3>1. Len(served') < Len(sent') /\ sent'[Len(served') + 1] = r
      BY <1>3, <1>7, <1>13, <2>2
    <3> QED
      BY <2>11, <2>13, <3>1 DEF Reading
  <2> QED
    BY <1>8, <1>9, <1>10, <1>11, <2>6, <2>7, <2>14 DEF WireInv
<1>14. CASE o = 0 /\ ~ (k < Len(sent))
  <2>1. k = Len(sent)
    BY <1>1, <1>7, <1>14 DEF Carries
  <2>2. spipe = <<>>
    <3>1. (Len(sent) - k) * MAX_MESSAGE_SIZE = 0
      BY <1>1, <2>1, Numbers
    <3>2. Len(spipe) = 0
      BY <1>7, <1>14, <3>1 DEF Carries
    <3> QED
      BY <1>1, <3>2
  <2>3. spipe' = <<>>
    <3>1. Len(spipe) = 0
      BY <2>2
    <3>2. SubSeq(spipe, 2, 0) = <<>>
      BY SubSeqEmpty
    <3> QED
      BY <1>3, <3>1, <3>2
  <2>4. served # <<>>
    <3>1. Len(sent) # 0
      BY <1>1, <1>3, EmptySeq
    <3>2. Len(served) # 0
      BY <1>6, <2>1, <3>1
    <3> QED
      BY <3>2
  <2>5. cbuf.op_code = <<0>>
    BY <1>5, <1>14, <2>4 DEF Padding
  <2>6. read(1) = <<>>
    BY <2>2 DEF read
  <2>7. op_code = <<0>>
    <3>1. <<0>> \in Seq({0})
      OBVIOUS
    <3>2. SubSeq(<<0>>, Len(<<>>) + 1, Len(<<0>>)) = <<0>>
      <4>1. Len(<<>>) + 1 = 1
        OBVIOUS
      <4> QED
        BY <3>1, <4>1, SubSeqFull
    <3>3. <<>> \o <<0>> = <<0>>
      BY <3>1, ConcatEmptySeq
    <3>4. over(<<0>>, <<>>) = <<0>>
      BY <3>2, <3>3 DEF over
    <3> QED
      BY <1>2, <2>5, <2>6, <3>4
  <2>8. todo' = <<"op_code">>
    BY <1>3, <2>7, FieldsOf
  <2>9. cbuf' = cbuf
    BY <1>3, <2>5, <2>7 DEF WireInv, Typed
  <2>10. session_id' \in [Clients -> Sessions \cup {-1}]
    BY <1>3 DEF client, WireInv, Typed
  <2>11. UNCHANGED <<spipe, cbuf, buffer, todo, sent, served>>
    BY <1>3, <2>2, <2>3, <2>8, <2>9
  <2> QED
    BY <2>10, <2>11, PipeUntouched
<1>15. o > 0 \/ o = 0
  BY <1>7
<1> QED
  BY <1>12, <1>13, <1>14, <1>15

\* The size with which the producer reads a field is that of the request.
LEMMA SizeIsSent ==
    ASSUME NEW r \in Requests, NEW st \in Stages(r), NEW f, InOrder(r, st, f),
           \A g \in st.got : Carried(r, g) => Got(g) = r[g]
    PROVE  size_of(f) = Size(r, f)
<1>1. CASE f # "buf"
  BY <1>1 DEF InOrder, size_of, Size, name_size
<1>2. CASE f = "buf"
  <2>1. r \in Writes /\ "len" \in st.got
    BY <1>2 DEF InOrder
  <2>2. Carried(r, "len")
    BY <2>1 DEF Carried, Whole, Writes
  <2>3. buffer[Session].len = r.len
    BY <2>1, <2>2 DEF Got
  <2>4. r.len = Length(r.buf) /\ r.buf \in Contents
    BY <2>1, FieldsTyped DEF Writes
  <2>5. number(buffer[Session].len) = Len(r.buf)
    BY <2>3, <2>4, FieldsTyped
  <2>6. size_of("buf") = number(buffer[Session].len) /\ Size(r, "buf") = Len(r.buf)
    BY DEF size_of, Size
  <2> QED
    BY <1>2, <2>5, <2>6
<1> QED
  BY <1>1, <1>2

\* Once the session has been read, it is one.
LEMMA SessionKnown ==
    ASSUME NEW r \in Requests, NEW st \in Stages(r), "session_id" \in st.got,
           \A g \in st.got : Carried(r, g) => Got(g) = r[g]
    PROVE  Session \in Sessions
<1>1. r \notin Mounts
  BY MountHasNoSession
<1>2. cbuf.session_id = r.session_id
  BY DEF Carried, Got
<1> QED
  BY <1>1, <1>2, SessionOfRequest DEF Session

\* Reading a field: all its bytes are there, and they are those sent.
LEMMA ReadFieldKeepsWireInv ==
    ASSUME WireInv, ReadField
    PROVE  WireInv'
<1>1. /\ spipe \in Seq(Octets) /\ sent \in Seq(Requests) /\ served \in Seq(Handed)
      /\ Len(served) \in Nat /\ Len(sent) \in Nat /\ Len(spipe) \in Nat
  BY DEF WireInv, Typed
<1>2. ~ Waiting
  <2>1. todo # <<"op_code">>
    BY Lists DEF ReadField
  <2> QED
    BY <2>1 DEF Waiting
<1>3. Reading
  BY <1>2 DEF WireInv
<1>4. PICK r : r = sent[Len(served) + 1]
  OBVIOUS
<1>5. r \in Requests
  BY <1>1, <1>3, <1>4 DEF Reading
<1>6. PICK st \in Stages(r) : At(r, st)
  BY <1>3, <1>4 DEF Reading
<1>7. PICK k : k = Len(served) + 1
  OBVIOUS
<1>8. /\ todo = st.rest /\ todo # <<>>
      /\ Carries(spipe, MAX_MESSAGE_SIZE - st.at, sent, k)
      /\ \A i \in 1 .. MAX_MESSAGE_SIZE - st.at : spipe[i] = message(r)[st.at + i]
      /\ \A g \in st.got : Carried(r, g) => Got(g) = r[g]
  BY <1>6, <1>7 DEF At, Stream, ReadField
<1>9. PICK f : InOrder(r, st, f) /\ \E next \in Stages(r) : LeadsTo(r, st, f, next)
  BY <1>5, <1>8, NextStage DEF HasNext
<1>10. PICK next \in Stages(r) : LeadsTo(r, st, f, next)
  BY <1>9
<1>11. PICK size : size = Size(r, f)
  OBVIOUS
<1>12. /\ Head(todo) = f /\ next.rest = Tail(todo)
       /\ next.got = st.got \cup {f} /\ f \notin st.got
       /\ st.at \in Nat /\ size \in Nat
       /\ next.at = st.at + size /\ next.at < MAX_MESSAGE_SIZE
  BY <1>8, <1>10, <1>11 DEF LeadsTo
<1>13. Carried(r, f) => /\ r[f] \in [1 .. size -> Octets]
                        /\ \A i \in 1 .. size : message(r)[st.at + i] = r[f][i]
  BY <1>10, <1>11 DEF LeadsTo
<1>14. size_of(f) = size
  BY <1>5, <1>8, <1>9, <1>11, SizeIsSent
<1>15. PICK o : o = MAX_MESSAGE_SIZE - st.at
  OBVIOUS
<1>16. size \in 0 .. o /\ o \in Nat /\ o - size = MAX_MESSAGE_SIZE - next.at
  BY <1>12, <1>15, Numbers
<1>17. PICK bytes : bytes = read(size)
  OBVIOUS
<1>18. size <= Len(spipe)
  <2>1. PICK rest : rest = SubSeq(spipe, size + 1, Len(spipe))
    OBVIOUS
  <2> QED
    BY <1>1, <1>8, <1>15, <1>16, <2>1, PartTaken
<1>19. /\ bytes \in [1 .. size -> Octets] /\ Len(bytes) = size
       /\ \A i \in 1 .. size : bytes[i] = spipe[i]
  BY <1>1, <1>12, <1>17, <1>18, ReadInFull
<1>20. /\ spipe' = SubSeq(spipe, size + 1, Len(spipe))
       /\ IF f \in {"session_id", "pipename"}
          THEN /\ cbuf' = [cbuf EXCEPT ![f] = over(@, bytes)]
               /\ UNCHANGED buffer
          ELSE /\ buffer' = [buffer EXCEPT ![Session][f] =
                      IF f = "buf" THEN bytes ELSE over(@, bytes)]
               /\ UNCHANGED cbuf
       /\ todo' = IF f = "session_id" /\ number(over(cbuf.session_id, bytes)) \notin Sessions
                    THEN <<"lost">> ELSE Tail(todo)
       /\ UNCHANGED <<client, sent, served>>
  BY <1>12, <1>14, <1>17, <1>19 DEF ReadField
<1>21. /\ spipe' \in Seq(Octets) /\ Carries(spipe', o - size, sent, k)
       /\ Shifted(spipe', o - size, spipe, size)
  <2>1. spipe \in Seq(Octets) /\ sent \in Seq(Requests) /\ Carries(spipe, o, sent, k)
    BY <1>1, <1>8, <1>15
  <2>2. spipe' = SubSeq(spipe, size + 1, Len(spipe))
    BY <1>20
  <2> QED
    BY <1>16, <2>1, <2>2, PartTaken
<1>22. \A i \in 1 .. MAX_MESSAGE_SIZE - next.at : spipe'[i] = message(r)[next.at + i]
  <2> TAKE i \in 1 .. MAX_MESSAGE_SIZE - next.at
  <2>1. /\ i \in 1 .. o - size /\ size + i \in 1 .. MAX_MESSAGE_SIZE - st.at
        /\ st.at + (size + i) = next.at + i
    <3>1. PICK a, b : a = st.at /\ b = next.at
      OBVIOUS
    <3>2. a \in Nat /\ size \in Nat /\ b = a + size /\ b < MAX_MESSAGE_SIZE
      BY <1>12, <3>1
    <3>3. i \in 1 .. MAX_MESSAGE_SIZE - b /\ o = MAX_MESSAGE_SIZE - a
      BY <1>15, <3>1
    <3>4. /\ i \in 1 .. o - size /\ size + i \in 1 .. MAX_MESSAGE_SIZE - a
          /\ a + (size + i) = b + i
      BY <3>2, <3>3, Numbers
    <3> QED
      BY <3>1, <3>4
  <2>2. spipe'[i] = spipe[size + i]
    BY <1>21, <2>1 DEF Shifted
  <2>3. spipe[size + i] = message(r)[st.at + (size + i)]
    BY <1>8, <2>1
  <2> QED
    BY <2>1, <2>2, <2>3
<1>23. Carried(r, f) => bytes = r[f]
  <2>1. \A i \in 1 .. size : i \in 1 .. MAX_MESSAGE_SIZE - st.at
    BY <1>15, <1>16, Numbers
  <2>2. \A i \in 1 .. size : bytes[i] = message(r)[st.at + i]
    BY <1>8, <1>19, <2>1
  <2>3. ASSUME Carried(r, f) PROVE bytes = r[f]
    <3>1. r[f] \in [1 .. size -> Octets] /\ \A i \in 1 .. size : bytes[i] = r[f][i]
      BY <1>13, <2>2, <2>3
    <3> QED
      BY <1>19, <3>1
  <2> QED
    BY <2>3
<1>24. ASSUME f \in {"session_id", "pipename"}
       PROVE  /\ cbuf' = [cbuf EXCEPT ![f] = bytes] /\ buffer' = buffer
              /\ f = "session_id" => over(cbuf.session_id, bytes) = bytes
  <2>1. /\ cbuf.session_id \in [1 .. SIZEOF_INT -> Octets]
        /\ cbuf.pipename \in [1 .. MAX_PIPE_NAME -> Octets]
    BY DEF WireInv, Typed
  <2>2. cbuf[f] \in [1 .. size -> Octets]
    BY <1>11, <1>24, <2>1 DEF Size
  <2>3. over(cbuf[f], bytes) = bytes
    BY <1>12, <1>19, <2>2, Overwritten
  <2> QED
    BY <1>20, <1>24, <2>3
<1>25. ASSUME f \notin {"session_id", "pipename"}
       PROVE  /\ cbuf' = cbuf /\ buffer' = [buffer EXCEPT ![Session][f] = bytes]
              /\ Session \in Sessions /\ f \in {"name", "fnum", "len", "buf"}
  <2>1. f \in {"name", "fnum", "len", "buf"} /\ "session_id" \in st.got
    BY <1>9, <1>25 DEF InOrder
  <2>2. Session \in Sessions
    BY <1>5, <1>8, <2>1, SessionKnown
  <2>3. ASSUME f # "buf" PROVE over(buffer[Session][f], bytes) = bytes
    <3>1. buffer[Session] \in [name : [1 .. MAX_PIPE_NAME -> Octets],
                               fnum : [1 .. SIZEOF_INT -> Octets],
                               len : [1 .. SIZEOF_SIZE_T -> Octets], buf : Seq(Octets)]
      BY <2>2 DEF WireInv, Typed
    <3>2. buffer[Session][f] \in [1 .. size -> Octets]
      BY <1>11, <2>1, <2>3, <3>1 DEF Size
    <3> QED
      BY <1>12, <1>19, <3>2, Overwritten
  <2>4. CASE f = "buf"
    BY <1>20, <1>25, <2>1, <2>2, <2>4
  <2>5. CASE f # "buf"
    <3>1. buffer' = [buffer EXCEPT ![Session][f] = over(@, bytes)]
      BY <1>20, <1>25, <2>5
    <3>2. buffer' = [buffer EXCEPT ![Session][f] = bytes]
      BY <2>3, <2>5, <3>1
    <3> QED
      BY <1>20, <1>25, <2>1, <2>2, <3>2
  <2> QED
    BY <2>4, <2>5
<1>26. todo' = next.rest
  <2>1. ASSUME f = "session_id" PROVE number(over(cbuf.session_id, bytes)) \in Sessions
    <3>1. r \notin Mounts
      BY <1>8, <1>12, <2>1, MountHasNoSession
    <3>2. bytes = r.session_id
      BY <1>23, <2>1 DEF Carried
    <3> QED
      BY <1>5, <1>24, <2>1, <3>1, <3>2, SessionOfRequest
  <2> QED
    BY <1>12, <1>20, <2>1
<1>27. Typed'
  <2>1. bytes \in Seq(Octets)
    BY <1>12, <1>19
  <2>2. session_id' \in [Clients -> Sessions \cup {-1}] /\ sent' \in Seq(Requests)
        /\ served' \in Seq(Handed) /\ spipe' \in Seq(Octets)
    BY <1>20, <1>21 DEF WireInv, Typed, client
  <2>3. CASE f \in {"session_id", "pipename"}
    <3>1. /\ f = "session_id" => bytes \in [1 .. SIZEOF_INT -> Octets]
          /\ f = "pipename" => bytes \in [1 .. MAX_PIPE_NAME -> Octets]
      BY <1>11, <1>19 DEF Size
    <3>2. cbuf' \in [op_code : [1 .. 1 -> Octets], session_id : [1 .. SIZEOF_INT -> Octets],
                     pipename : [1 .. MAX_PIPE_NAME -> Octets]]
      BY <1>24, <2>3, <3>1 DEF WireInv, Typed
    <3> QED
      BY <1>24, <2>2, <2>3, <3>2 DEF WireInv, Typed
  <2>4. CASE f \notin {"session_id", "pipename"}
    <3>1. /\ f = "name" => bytes \in [1 .. MAX_PIPE_NAME -> Octets]
          /\ f = "fnum" => bytes \in [1 .. SIZEOF_INT -> Octets]
          /\ f = "len" => bytes \in [1 .. SIZEOF_SIZE_T -> Octets]
      BY <1>11, <1>19 DEF Size
    <3>2. f = "name" \/ f = "fnum" \/ f = "len" \/ f = "buf"
      BY <1>25, <2>4
    <3> DEFINE Command == [name : [1 .. MAX_PIPE_NAME -> Octets],
                           fnum : [1 .. SIZEOF_INT -> Octets],
                           len : [1 .. SIZEOF_SIZE_T -> Octets], buf : Seq(Octets)]
    <3>3. buffer \in [Sessions -> Command]
      BY DEF WireInv, Typed
    <3>4. PICK s : s = Session
      OBVIOUS
    <3>5. s \in Sessions /\ buffer' = [buffer EXCEPT ![s][f] = bytes]
      BY <1>25, <2>4, <3>4
    <3>6. [buffer[s] EXCEPT ![f] = bytes] \in Command
      <4>1. buffer[s] \in Command
        BY <3>3, <3>5
      <4>2. CASE f = "name"
        BY <3>1, <4>1, <4>2
      <4>3. CASE f = "fnum"
        BY <3>1, <4>1, <4>3
      <4>4. CASE f = "len"
        BY <3>1, <4>1, <4>4
      <4>5. CASE f = "buf"
        BY <2>1, <4>1, <4>5
      <4> QED
        BY <3>2, <4>2, <4>3, <4>4, <4>5
    <3>7. buffer' \in [Sessions -> Command]
      <4> HIDE DEF Command
      <4> QED
        BY <3>3, <3>5, <3>6
    <3> QED
      BY <1>25, <2>2, <2>4, <3>7 DEF WireInv, Typed
  <2> QED
    BY <2>3, <2>4
<1>28. \A g \in next.got : Carried(r, g) => Got(g)' = r[g]
  <2>1. Carried(r, f) => Got(f)' = r[f]
    <3>1. CASE f \in {"session_id", "pipename"}
      <4>1. cbuf'[f] = bytes
        BY <1>24, <3>1 DEF WireInv, Typed
      <4> QED
        BY <1>23, <3>1, <4>1 DEF Got
    <3>2. CASE f \notin {"session_id", "pipename"}
      <4>1. buffer'[Session][f] = bytes /\ Session' = Session
        BY <1>25, <3>2 DEF WireInv, Typed, Session
      <4>2. f # "op_code"
        BY <1>25, <3>2
      <4> QED
        BY <1>23, <3>2, <4>1, <4>2 DEF Got
    <3> QED
      BY <3>1, <3>2
  <2>2. ASSUME NEW g \in st.got PROVE Got(g)' = Got(g)
    <3>1. g # f
      BY <1>12, <2>2
    <3>2. /\ g \in {"op_code", "session_id", "pipename", "name", "fnum", "len", "buf"}
          /\ g \in {"name", "fnum", "len", "buf"} => "session_id" \in st.got
      BY <1>5, <2>2, StageRange
    <3>3. CASE g \in {"op_code", "session_id", "pipename"}
      <4>1. cbuf'[g] = cbuf[g]
        BY <1>24, <1>25, <3>1, <3>3 DEF WireInv, Typed
      <4> QED
        BY <3>3, <4>1 DEF Got
    <3>4. CASE g \notin {"op_code", "session_id", "pipename"}
      <4>1. f # "session_id"
        BY <1>12, <3>2, <3>4
      <4>2. Session' = Session
        BY <1>24, <1>25, <4>1 DEF WireInv, Typed, Session
      <4>3. buffer'[Session][g] = buffer[Session][g]
        <5>1. CASE f \in {"session_id", "pipename"}
          BY <1>24, <5>1
        <5>2. CASE f \notin {"session_id", "pipename"}
          <6>1. PICK s : s = Session
            OBVIOUS
          <6>2. s \in Sessions /\ buffer' = [buffer EXCEPT ![s][f] = bytes]
            BY <1>25, <5>2, <6>1
          <6>3. buffer'[s][g] = buffer[s][g]
            BY <3>1, <6>2 DEF WireInv, Typed
          <6> QED
            BY <6>1, <6>3
        <5> QED
          BY <5>1, <5>2
      <4> QED
        BY <3>4, <4>2, <4>3 DEF Got
    <3> QED
      BY <3>3, <3>4
  <2> QED
    BY <1>8, <1>12, <2>1, <2>2
<1>29. At(r, next)'
  <2>1. Carries(spipe', MAX_MESSAGE_SIZE - next.at, sent', Len(served') + 1)
    BY <1>7, <1>16, <1>20, <1>21
  <2> QED
    BY <1>22, <1>26, <1>28, <2>1 DEF At, Stream
<1>30. Reading' /\ Arrived' /\ (Len(served) <= Len(sent))'
  <2>1. Len(served') < Len(sent') /\ r = sent'[Len(served') + 1]
    BY <1>3, <1>4, <1>20 DEF Reading
  <2>2. Arrived' /\ (Len(served) <= Len(sent))'
    BY <1>20 DEF WireInv, Arrived
  <2> QED
    BY <1>29, <2>1, <2>2 DEF Reading
<1> QED
  BY <1>27, <1>30 DEF WireInv

\* Handing a request over: what it was sent with, and zeros left in the pipe.
LEMMA HandOverKeepsWireInv ==
    ASSUME WireInv, HandOver
    PROVE  WireInv'
<1>1. /\ spipe \in Seq(Octets) /\ sent \in Seq(Requests) /\ served \in Seq(Handed)
      /\ Len(served) \in Nat /\ Len(sent) \in Nat
  BY DEF WireInv, Typed
<1>2. todo # <<"op_code">>
  BY Lists DEF HandOver
<1>3. Reading
  BY <1>2 DEF WireInv, Waiting
<1>4. PICK r : r = sent[Len(served) + 1]
  OBVIOUS
<1>5. r \in Requests
  BY <1>1, <1>3, <1>4 DEF Reading
<1>6. PICK st \in Stages(r) : At(r, st)
  BY <1>3, <1>4 DEF Reading
<1>7. /\ st.rest = <<>>
      /\ Stream(MAX_MESSAGE_SIZE - st.at, Len(served) + 1)
      /\ \A i \in 1 .. MAX_MESSAGE_SIZE - st.at : spipe[i] = message(r)[st.at + i]
      /\ \A g \in st.got : Carried(r, g) => Got(g) = r[g]
  BY <1>6 DEF At, HandOver
<1>8. PICK names : names = FieldNames(r.op_code[1])
  OBVIOUS
<1>9. /\ st.got = names
      /\ \A i \in st.at + 1 .. MAX_MESSAGE_SIZE : message(r)[i] = 0
  BY <1>5, <1>7, <1>8, LastStage
<1>10. /\ "op_code" \in names /\ st.at \in 1 .. MAX_MESSAGE_SIZE - 1
       /\ names \subseteq {"op_code", "session_id", "pipename", "name", "fnum", "len", "buf"}
       /\ names \cap {"name", "fnum", "len", "buf"} # {} => "session_id" \in names
  BY <1>5, <1>9, StageRange
<1>11. cbuf.op_code = r.op_code
  BY <1>7, <1>9, <1>10 DEF Carried, Got
<1>12. PICK e : e = [f \in names |-> Got(f)]
  OBVIOUS
<1>13. /\ served' = Append(served, e) /\ todo' = <<"op_code">>
       /\ UNCHANGED <<spipe, cbuf, buffer, client, sent>>
  <2>1. Received(FieldNames(cbuf.op_code[1])) = e
    BY <1>8, <1>11, <1>12 DEF Received, Got
  <2> QED
    BY <2>1 DEF HandOver
<1>14. e \in Handed
  <2>1. ASSUME NEW f \in names PROVE Got(f) \in Seq(Octets)
    <3>1. cbuf.op_code \in Seq(Octets) /\ cbuf.session_id \in Seq(Octets)
          /\ cbuf.pipename \in Seq(Octets)
      <4>1. /\ cbuf.op_code \in [1 .. 1 -> Octets]
            /\ cbuf.session_id \in [1 .. SIZEOF_INT -> Octets]
            /\ cbuf.pipename \in [1 .. MAX_PIPE_NAME -> Octets]
        BY DEF WireInv, Typed
      <4>2. 1 \in Nat /\ SIZEOF_INT \in Nat /\ MAX_PIPE_NAME \in Nat
        BY Numbers
      <4>3. \A n \in Nat : [1 .. n -> Octets] \subseteq Seq(Octets)
        OBVIOUS
      <4> QED
        BY <4>1, <4>2, <4>3
    <3>2. CASE f \in {"op_code", "session_id", "pipename"}
      BY <3>1, <3>2 DEF Got
    <3>3. CASE f \notin {"op_code", "session_id", "pipename"}
      <4>1. f \in {"name", "fnum", "len", "buf"} /\ "session_id" \in st.got
        BY <1>9, <1>10, <3>3
      <4>2. Session \in Sessions
        BY <1>5, <1>7, <4>1, SessionKnown
      <4>3. /\ buffer[Session].name \in Seq(Octets) /\ buffer[Session].fnum \in Seq(Octets)
            /\ buffer[Session].len \in Seq(Octets) /\ buffer[Session].buf \in Seq(Octets)
        BY <4>2, Numbers DEF WireInv, Typed
      <4> QED
        BY <3>3, <4>1, <4>3 DEF Got
    <3> QED
      BY <3>2, <3>3
  <2>2. r.op_code[1] \in Octets
    <3>1. PICK n \in 1 .. 7 : r.op_code = <<code(n)>>
      BY <1>5, OpCodeFirst
    <3> QED
      BY <3>1, OpCodesDiffer
  <2>3. e \in [names -> Seq(Octets)]
    BY <1>12, <2>1
  <2> QED
    BY <1>8, <2>2, <2>3 DEF Handed
<1>15. /\ served' \in Seq(Handed) /\ Len(served') = Len(served) + 1
       /\ served'[Len(served) + 1] = e
       /\ \A n \in 1 .. Len(served) : served'[n] = served[n]
  BY <1>1, <1>13, <1>14, AppendProperties
<1>16. Typed'
  BY <1>13, <1>15 DEF WireInv, Typed, client
<1>17. (Len(served) <= Len(sent))'
  BY <1>1, <1>3, <1>13, <1>15 DEF Reading
<1>18. PICK o : o = MAX_MESSAGE_SIZE - st.at
  OBVIOUS
<1>19. o \in 0 .. MAX_MESSAGE_SIZE /\ o # 0
  BY <1>10, <1>18, Numbers
<1>20. Padding(o)'
  <2>1. Carries(spipe', o, sent', Len(served'))
    BY <1>7, <1>13, <1>15, <1>18 DEF Stream
  <2>2. \A i \in 1 .. o : spipe'[i] = 0
    <3>1. \A i \in 1 .. o : st.at + i \in st.at + 1 .. MAX_MESSAGE_SIZE
      BY <1>10, <1>18, Numbers
    <3>2. \A i \in 1 .. o : spipe[i] = message(r)[st.at + i]
      BY <1>7, <1>18
    <3> QED
      BY <1>9, <1>13, <3>1, <3>2
  <2>3. served' # <<>>
    BY <1>1, <1>15
  <2> QED
    BY <1>19, <2>1, <2>2, <2>3 DEF Padding, Stream
<1>21. Waiting'
  BY <1>13, <1>19, <1>20 DEF Waiting
<1>22. Arrived'
  <2>1. e.op_code = r.op_code
    BY <1>10, <1>11, <1>12 DEF Got
  <2>2. r = [f \in names |-> r[f]]
    BY <1>5, <1>8, FieldsOfRequest
  <2>3. ASSUME "session_id" \in DOMAIN r PROVE e.session_id = r.session_id
    <3>1. "session_id" \in names
      BY <2>2, <2>3
    <3> QED
      BY <1>7, <1>9, <1>12, <3>1 DEF Carried
  <2>4. ASSUME Whole(r) PROVE e = r
    <3>1. \A f \in names : Got(f) = r[f]
      BY <1>7, <1>9, <2>4 DEF Carried
    <3> QED
      BY <1>12, <2>2, <3>1
  <2>5. \A n \in 1 .. Len(served) + 1 : n \in 1 .. Len(served) \/ n = Len(served) + 1
    BY <1>1
  <2>6. DOMAIN served' = 1 .. Len(served) + 1 /\ DOMAIN served = 1 .. Len(served)
    BY <1>1, <1>15
  <2>7. ASSUME NEW n \in 1 .. Len(served)
        PROVE  LET q == sent'[n]
               IN  /\ served'[n].op_code = q.op_code
                   /\ "session_id" \in DOMAIN q => served'[n].session_id = q.session_id
                   /\ Whole(q) => served'[n] = q
    BY <1>13, <1>15, <2>6, <2>7 DEF WireInv, Arrived
  <2>8. LET q == sent'[Len(served) + 1]
        IN  /\ served'[Len(served) + 1].op_code = q.op_code
            /\ "session_id" \in DOMAIN q => served'[Len(served) + 1].session_id = q.session_id
            /\ Whole(q) => served'[Len(served) + 1] = q
    BY <1>4, <1>13, <1>15, <2>1, <2>3, <2>4
  <2> QED
    BY <2>5, <2>6, <2>7, <2>8 DEF Arrived
<1> QED
  BY <1>16, <1>17, <1>21, <1>22 DEF WireInv

-----------------------------------------------------------------------------
(* The results.                                                            *)

\* Every step keeps the invariant, when the requests have left padding.
LEMMA StepKeepsWireInv ==
    ASSUME WireInv, Padded', [Next]_vars
    PROVE  WireInv'
<1>1. ASSUME NEW c \in Clients, ClientNext(c) PROVE WireInv'
  BY <1>1, MountKeepsWireInv, UnmountKeepsWireInv, CallsKeepWireInv, ReplyAndDieKeepWireInv
     DEF ClientNext
<1>2. CASE Producer
  BY <1>2, ReadOpCodeKeepsWireInv, ReadFieldKeepsWireInv, HandOverKeepsWireInv DEF Producer
<1>3. CASE UNCHANGED vars
  <2>1. session_id' \in [Clients -> Sessions \cup {-1}]
    BY <1>3 DEF vars, client, WireInv, Typed
  <2> QED
    BY <1>3, <2>1, PipeUntouched DEF vars
<1> QED
  BY <1>1, <1>2, <1>3 DEF Next

\* A step sends one request or none.
LEMMA SentOrNot ==
    ASSUME Sent, [Next]_vars
    PROVE  /\ session_id' \in [Clients -> Sessions \cup {-1}]
           /\ sent' = sent \/ \E r \in AnyRequests : sent' = Append(sent, r)
<1>1. session_id \in [Clients -> Sessions \cup {-1}]
  BY DEF Sent
<1>2. CASE Producer \/ UNCHANGED vars
  BY <1>1, <1>2 DEF Producer, ReadOpCode, ReadField, HandOver, vars, client
<1>3. ASSUME NEW c \in Clients, ClientNext(c)
      PROVE  /\ session_id' \in [Clients -> Sessions \cup {-1}]
             /\ sent' = sent \/ \E r \in AnyRequests : sent' = Append(sent, r)
  <2>1. CASE tfs_mount(c)
    <3>1. PICK path \in Paths : Send([op_code |-> <<code(1)>>, pipename |-> path])
      BY <2>1 DEF tfs_mount
    <3>2. [op_code |-> <<code(1)>>, pipename |-> path] \in AnyRequests
      BY DEF AnyRequests, Requests, Mounts
    <3> QED
      BY <1>1, <2>1, <3>1, <3>2 DEF tfs_mount, Send
  <2>2. CASE tfs_unmount(c)
    <3>1. int(session_id[c]) \in SessionIds
      BY <1>1, <2>2, CallIsRequest DEF tfs_unmount
    <3>2. [op_code |-> <<code(2)>>, session_id |-> int(session_id[c])] \in AnyRequests
      BY <3>1 DEF AnyRequests, Requests, Bare
    <3> QED
      BY <1>1, <2>2, <3>2 DEF tfs_unmount, Send
  <2>3. CASE \/ tfs_open(c) \/ tfs_close(c) \/ tfs_write(c) \/ tfs_read(c)
             \/ tfs_shutdown_after_all_closed(c)
    <3>1. Mounted(c) /\ session_id' = session_id
      BY <2>3 DEF tfs_open, tfs_close, tfs_write, tfs_read,
                  tfs_shutdown_after_all_closed, Call
    <3>2. PICK id : id = int(session_id[c])
      OBVIOUS
    <3>3. id \in SessionIds
      BY <1>1, <3>1, <3>2, CallIsRequest
    <3>4. ASSUME tfs_open(c) PROVE \E r \in AnyRequests : Call(c, r)
      <4>1. PICK name \in Paths, flags \in Ints :
                Call(c, [op_code |-> <<code(3)>>, session_id |-> id, name |-> name,
                         fnum |-> int(flags)])
        BY <3>2, <3>4 DEF tfs_open
      <4>2. [op_code |-> <<code(3)>>, session_id |-> id, name |-> name,
             fnum |-> int(flags)] \in AnyRequests
        BY <3>3 DEF AnyRequests, Requests, Opens, IntFields
      <4> QED
        BY <4>1, <4>2
    <3>5. ASSUME tfs_close(c) PROVE \E r \in AnyRequests : Call(c, r)
      <4>1. PICK fhandle \in Ints :
                Call(c, [op_code |-> <<code(4)>>, session_id |-> id, fnum |-> int(fhandle)])
        BY <3>2, <3>5 DEF tfs_close
      <4>2. [op_code |-> <<code(4)>>, session_id |-> id,
             fnum |-> int(fhandle)] \in AnyRequests
        BY <3>3 DEF AnyRequests, Requests, Closes, IntFields
      <4> QED
        BY <4>1, <4>2
    <3>6. ASSUME tfs_write(c) PROVE \E r \in AnyRequests : Call(c, r)
      <4>1. PICK fhandle \in Ints, buf \in Contents :
                Call(c, [op_code |-> <<code(5)>>, session_id |-> id,
                         fnum |-> int(fhandle), len |-> Length(buf), buf |-> buf])
        BY <3>2, <3>6 DEF tfs_write, Length
      <4>2. [op_code |-> <<code(5)>>, session_id |-> id, fnum |-> int(fhandle),
             len |-> Length(buf), buf |-> buf] \in AnyRequests
        BY <3>3 DEF AnyRequests, Requests, Writes, LongWrites, IntFields
      <4> QED
        BY <4>1, <4>2
    <3>7. ASSUME tfs_read(c) PROVE \E r \in AnyRequests : Call(c, r)
      <4>1. PICK fhandle \in Ints, buf \in Contents :
                Call(c, [op_code |-> <<code(6)>>, session_id |-> id,
                         fnum |-> int(fhandle), len |-> Length(buf)])
        BY <3>2, <3>7 DEF tfs_read, Length
      <4>2. [op_code |-> <<code(6)>>, session_id |-> id, fnum |-> int(fhandle),
             len |-> Length(buf)] \in AnyRequests
        BY <3>3 DEF AnyRequests, Requests, Reads, IntFields
      <4> QED
        BY <4>1, <4>2
    <3>8. ASSUME tfs_shutdown_after_all_closed(c) PROVE \E r \in AnyRequests : Call(c, r)
      <4>1. Call(c, [op_code |-> <<code(7)>>, session_id |-> id])
        BY <3>2, <3>8 DEF tfs_shutdown_after_all_closed
      <4>2. [op_code |-> <<code(7)>>, session_id |-> id] \in AnyRequests
        BY <3>3 DEF AnyRequests, Requests, Bare
      <4> QED
        BY <4>1, <4>2
    <3>9. PICK r \in AnyRequests : Call(c, r)
      BY <2>3, <3>4, <3>5, <3>6, <3>7, <3>8
    <3> QED
      BY <1>1, <3>1, <3>9 DEF Call, Send
  <2>4. CASE Reply(c) \/ Die(c)
    BY <1>1, <2>4 DEF Reply, Die
  <2> QED
    BY <1>3, <2>1, <2>2, <2>3, <2>4 DEF ClientNext
<1> QED
  BY <1>2, <1>3 DEF Next

\* The framing is kept as long as all writes leave padding, and stays broken
\* once one of them has not.
LEMMA StepKeepsFramed == Framed /\ [Next]_vars => Framed'
<1> SUFFICES ASSUME Framed, [Next]_vars PROVE Framed'
  OBVIOUS
<1>1. /\ sent \in Seq(AnyRequests)
      /\ session_id' \in [Clients -> Sessions \cup {-1}]
      /\ sent' = sent \/ \E r \in AnyRequests : sent' = Append(sent, r)
  BY SentOrNot DEF Framed, Sent
<1>2. Sent'
  <2>1. sent' \in Seq(AnyRequests)
    BY <1>1, AppendProperties
  <2> QED
    BY <1>1, <2>1 DEF Sent
<1>3. ASSUME Padded' PROVE WireInv'
  <2>1. Padded
    <3>1. CASE sent' = sent
      BY <1>3, <3>1 DEF Padded, LeavesPadding
    <3>2. CASE \E r \in AnyRequests : sent' = Append(sent, r)
      BY <1>1, <1>3, <3>2, LastPadded
    <3> QED
      BY <1>1, <3>1, <3>2
  <2>2. WireInv
    BY <2>1 DEF Framed
  <2> QED
    BY <1>3, <2>2, StepKeepsWireInv
<1> QED
  BY <1>2, <1>3 DEF Framed

\* The invariant holds always.
LEMMA FramedInvariant == Spec => []Framed
<1>1. Init => Framed
  <2> SUFFICES ASSUME Init PROVE Framed
    OBVIOUS
  <2>1. WireInv
    BY InitWireInv
  <2>2. sent = <<>> /\ session_id = [c \in Clients |-> -1]
    BY DEF Init
  <2> QED
    BY <2>1, <2>2 DEF Framed, Sent
<1>2. Framed /\ [Next]_vars => Framed'
  BY StepKeepsFramed
<1> QED
  BY <1>1, <1>2, PTL DEF Spec

\* As long as no write has filled its message, the producer hands requests over
\* in the order in which the clients sent them, each once and to its own
\* session, whatever the sizes of the fields, whatever clients send, and
\* however they die.
THEOREM ServedInOrderCorrect == Spec => []ServedInOrder
<1>1. Framed => ServedInOrder
  BY DEF Framed, WireInv, Arrived, ServedInOrder
<1> QED
  BY <1>1, FramedInvariant, PTL

\* And the bytes of tfs_mount, tfs_unmount, tfs_close, tfs_write and
\* tfs_shutdown_after_all_closed arrive as they were sent, those to write with
\* them, at whatever place they have in the pipe.
THEOREM FieldsArriveCorrect == Spec => []FieldsArrive
<1>1. Framed => FieldsArrive
  BY DEF Framed, WireInv, Arrived, Whole, FieldsArrive
<1> QED
  BY <1>1, FramedInvariant, PTL
=============================================================================
