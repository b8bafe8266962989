--------------------------- MODULE Server_proofs ---------------------------
(***************************************************************************)
(* The types of the server for any number of sessions and clients.          *)
(***************************************************************************)
EXTENDS Server, WellFoundedInduction, TLAPS

-----------------------------------------------------------------------------
(* Types.                                                                  *)

\* A set of naturals that has an element has a least one, and Min finds it.
LEMMA LeastElement ==
    ASSUME NEW T \in SUBSET Nat, T # {}
    PROVE  Min(T) \in T
<1> DEFINE R == OpToRel(<, Nat)
<1>1. PICK x \in T : \A y \in T : <<y, x>> \notin R
  BY NatLessThanWellFounded, WFMin
<1>2. R = {ss \in Nat \X Nat : ss[1] < ss[2]}
  BY DEF OpToRel
<1>3. ASSUME NEW y \in T, y < x PROVE FALSE
  <2>1. <<y, x>> \in {ss \in Nat \X Nat : ss[1] < ss[2]}
    BY <1>3
  <2> QED
    BY <1>1, <1>2, <2>1
<1>4. \A y \in T : x <= y
  BY <1>3
<1> QED
  BY <1>4 DEF Min

\* The sessions are never full for session_count.
NeverFull == session_count <= 0
TypeInv == TypeOK /\ NeverFull

\* What a step leaves alone keeps its type.
LEMMA KeptServer == ASSUME TypeInv, UNCHANGED <<server, sessions>> PROVE ServerOK' /\ NeverFull'
  BY DEF TypeInv, TypeOK, ServerOK, NeverFull, sessions
\* What a step leaves alone keeps its type: the descriptors.
LEMMA KeptDescriptors == ASSUME TypeInv, UNCHANGED <<fd, cpipe>> PROVE DescriptorsOK'
  BY DEF TypeInv, TypeOK, DescriptorsOK
\* What a step leaves alone keeps its type: the threads.
LEMMA KeptThreads == ASSUME TypeInv, UNCHANGED threads PROVE ThreadsOK'
  BY DEF TypeInv, TypeOK, ThreadsOK, threads
\* What a step leaves alone keeps its type: the pipes.
LEMMA KeptPipes == ASSUME TypeInv, UNCHANGED <<spipe, fifo>> PROVE PipesOK'
  BY DEF TypeInv, TypeOK, PipesOK
\* What a step leaves alone keeps its type: the clients.
LEMMA KeptClients == ASSUME TypeInv, UNCHANGED <<clients, spurious>> PROVE ClientsOK'
  BY DEF TypeInv, TypeOK, ClientsOK, clients, counters

\* What becomes of the pipe of a client.
LEMMA NewFifos ==
    /\ NoFifo \in Fifos /\ NewFifo \in Fifos
    /\ ClosedFifo \in Fifos
<1>1. <<>> \in Seq(Replies)
  OBVIOUS
<1> QED
  BY <1>1 DEF Fifos, NoFifo, NewFifo, ClosedFifo
\* What the fields of a client's pipe may become.
LEMMA FifoFields ==
    ASSUME NEW f, f \in Fifos
    PROVE  /\ f.replies \in Seq(Replies)
           /\ \A q \in Seq(Replies) : [f EXCEPT !.replies = q] \in Fifos
           /\ \A b \in BOOLEAN, q \in Seq(Replies) : [f EXCEPT !.opened = b, !.replies = q] \in Fifos
           /\ [f EXCEPT !.opened = TRUE] \in Fifos
           /\ \A b \in BOOLEAN : [f EXCEPT !.state = "open", !.opened = b] \in Fifos
<1>1. f = [state |-> f.state, opened |-> f.opened, replies |-> f.replies]
  BY DEF Fifos
<1>2. f.state \in {"none", "made", "open", "closed"} /\ f.opened \in BOOLEAN /\ f.replies \in Seq(Replies)
  BY DEF Fifos
<1> QED
  BY <1>1, <1>2 DEF Fifos
\* A reply that is read leaves replies.
LEMMA AfterRead ==
    ASSUME NEW q, q \in Seq(Replies), q # <<>>
    PROVE  Tail(q) \in Seq(Replies) /\ Head(q) \in Replies
  OBVIOUS
\* A reply that is written is one of the replies.
LEMMA AfterWrite ==
    ASSUME NEW q, q \in Seq(Replies), NEW r \in Replies
    PROVE  Append(q, r) \in Seq(Replies)
  OBVIOUS

\* The pipe of one client changes.
LEMMA FifoTyped ==
    ASSUME TypeInv, UNCHANGED spipe, NEW c \in Clients, NEW f \in Fifos, fifo' = [fifo EXCEPT ![c] = f]
    PROVE  PipesOK'
  BY DEF TypeInv, TypeOK, PipesOK

\* A client closes its pipe.
LEMMA CloseFifoTyped ==
    ASSUME TypeInv, NEW c \in Clients, CloseFifo(c), UNCHANGED <<cpipe, producer, spipe>>
    PROVE  DescriptorsOK' /\ ThreadsOK' /\ PipesOK'
<1>1. DescriptorsOK'
  BY DEF TypeInv, TypeOK, DescriptorsOK, CloseFifo, WithoutReader
<1>2. ThreadsOK'
  BY DEF TypeInv, TypeOK, ThreadsOK, CloseFifo, Consumers, At, Places
<1>3. PipesOK'
  BY NewFifos, FifoTyped DEF CloseFifo, TypeInv, TypeOK, PipesOK
<1> QED
  BY <1>1, <1>2, <1>3

\* A request is written.
LEMMA SendTyped ==
    ASSUME TypeInv, UNCHANGED fifo, NEW r \in Requests, Send(r)
    PROVE  PipesOK'
  BY DEF TypeInv, TypeOK, PipesOK, Send

\* The server's pipe changes and those of the clients do not.
LEMMA KeptFifos == ASSUME TypeInv, UNCHANGED fifo, spipe' \in Seq(Requests) PROVE PipesOK'
  BY DEF TypeInv, TypeOK, PipesOK
\* A client goes on in its call.
LEMMA ClientMoves ==
    ASSUME TypeInv, NEW c \in Clients,
           NEW p \in {"out", "unlinked", "sent", "reading", "mounted", "call",
                      "shutdown", "unmounting", "unlinking"},
           client' = [client EXCEPT ![c] = p],
           \/ UNCHANGED session_id
           \/ \E s \in Sessions \cup {NoSession} : session_id' = [session_id EXCEPT ![c] = s],
           mounts' \in {mounts, [mounts EXCEPT ![c] = @ + 1]},
           calls' \in {calls, [calls EXCEPT ![c] = @ + 1]},
           UNCHANGED spurious
    PROVE  ClientsOK'
  BY DEF TypeInv, TypeOK, ClientsOK
\* A client's session_id is a session from the start.
LEMMA ZeroIsSession == 0 \in Sessions
  BY ServerAssumption DEF Sessions

\* The number in a reply is a session_id, if only one of no session.
LEMMA NumbersTyped ==
    ASSUME NEW r \in Replies, NEW n \in numbers(r)
    PROVE  n \in Sessions \cup {NoSession}
  BY ZeroIsSession DEF numbers, Replies

\* A step of a client keeps the types.
LEMMA ClientTypes ==
    ASSUME TypeInv, NEW c \in Clients, ClientNext(c)
    PROVE  TypeInv'
<1> USE KeptServer, KeptDescriptors, KeptThreads, KeptPipes DEF clients, threads, counters
<1>0. fifo[c] \in Fifos /\ fifo[c].replies \in Seq(Replies)
  BY FifoFields DEF TypeInv, TypeOK, PipesOK
<1>1. CASE UnlinkOld(c)
  <2>1. ClientsOK'
    BY <1>1, ClientMoves DEF UnlinkOld
  <2>2. PipesOK'
    BY <1>1, NewFifos, FifoTyped DEF UnlinkOld
  <2> QED
    BY <1>1, <2>1, <2>2 DEF UnlinkOld, TypeInv, TypeOK
<1>2. CASE SendMount(c)
  <2>1. ClientsOK'
    BY <1>2, ClientMoves DEF SendMount
  <2>2. PipesOK'
    BY <1>2, NewFifos DEF SendMount, Send, Requests, TypeInv, TypeOK, PipesOK
  <2> QED
    BY <1>2, <2>1, <2>2 DEF SendMount, TypeInv, TypeOK
<1>3. CASE OpenFifo(c)
  <2>1. ClientsOK'
    BY <1>3, ClientMoves DEF OpenFifo
  <2>2. PipesOK'
    BY <1>3, <1>0, FifoFields, FifoTyped DEF OpenFifo
  <2>3. \A s \in Opening(c) : s \in Sessions /\ consumer[s].fd \in Fds
    BY DEF Opening, TypeInv, TypeOK, ThreadsOK, Consumers, At, Places
  <2>4. DescriptorsOK'
    BY <1>3, <2>3 DEF OpenFifo, TypeInv, TypeOK, DescriptorsOK
  <2>5. ThreadsOK'
    BY <1>3 DEF OpenFifo, TypeInv, TypeOK, ThreadsOK, Consumers, At, Places
  <2> QED
    BY <1>3, <2>1, <2>2, <2>4, <2>5 DEF OpenFifo, TypeInv, TypeOK
<1>4. CASE ReadSessionId(c)
  <2>1. ClientsOK' /\ PipesOK'
    <3>1. CASE /\ fifo[c].replies # <<>>
               /\ \E n \in numbers(Head(fifo[c].replies)) :
                      session_id' = [session_id EXCEPT ![c] = n]
               /\ fifo' = [fifo EXCEPT ![c].replies = Tail(@)]
      <4>1. Head(fifo[c].replies) \in Replies
        BY <1>0, <3>1, AfterRead
      <4>2. PICK n \in numbers(Head(fifo[c].replies)) : session_id' = [session_id EXCEPT ![c] = n]
        BY <3>1
      <4>3. n \in Sessions \cup {NoSession}
        BY <4>1, NumbersTyped
      <4>4. [fifo[c] EXCEPT !.replies = Tail(@)] \in Fifos
        BY <1>0, <3>1, AfterRead, FifoFields
      <4>5. ClientsOK'
        BY <1>4, <4>2, <4>3, ClientMoves DEF ReadSessionId
      <4>6. PipesOK'
        BY <1>4, <3>1, <4>4, FifoTyped DEF ReadSessionId
      <4> QED
        BY <4>5, <4>6
    <3>2. CASE UNCHANGED <<session_id, fifo>>
      BY <1>4, <3>2, ClientMoves DEF ReadSessionId
    <3> QED
      BY <1>4, <3>1, <3>2 DEF ReadSessionId
  <2> QED
    BY <1>4, <2>1 DEF ReadSessionId, TypeInv, TypeOK
<1>5. CASE \E op \in Waits : Call(c, op)
  <2>1. PICK op \in Waits : Call(c, op)
    BY <1>5
  <2>2. ClientsOK'
    BY <2>1, ClientMoves DEF Call, Waits
  <2>3. [op_code |-> op, session |-> session_id[c]] \in Requests
    BY DEF Requests, Waits, TypeInv, TypeOK, ClientsOK
  <2>4. PipesOK'
    BY <2>1, <2>3, SendTyped DEF Call
  <2> QED
    BY <2>1, <2>2, <2>4 DEF Call, TypeInv, TypeOK
<1>6. CASE ReadReply(c)
  <2>1. ClientsOK'
    BY <1>6, ClientMoves DEF ReadReply
  <2>2. PipesOK'
    <3>1. CASE fifo[c].replies # <<>> /\ fifo' = [fifo EXCEPT ![c].replies = Tail(@)]
      <4>1. [fifo[c] EXCEPT !.replies = Tail(@)] \in Fifos
        BY <1>0, <3>1, AfterRead, FifoFields
      <4> QED
        BY <1>6, <3>1, <4>1, FifoTyped DEF ReadReply
    <3> QED
      BY <1>6, <3>1 DEF ReadReply
  <2> QED
    BY <1>6, <2>1, <2>2 DEF ReadReply, TypeInv, TypeOK
<1>7. CASE SendUnmount(c)
  <2>1. ClientsOK'
    BY <1>7, ClientMoves DEF SendUnmount
  <2>2. [op_code |-> "unmount", session |-> session_id[c]] \in Requests
    BY DEF Requests, TypeInv, TypeOK, ClientsOK
  <2>3. PipesOK'
    BY <1>7, <2>2, SendTyped DEF SendUnmount
  <2> QED
    BY <1>7, <2>1, <2>3 DEF SendUnmount, TypeInv, TypeOK
<1>8. CASE ClosePipes(c)
  <2>1. ClientsOK'
    BY <1>8, ClientMoves DEF ClosePipes
  <2> QED
    BY <1>8, <2>1, CloseFifoTyped DEF ClosePipes, TypeInv, TypeOK
<1>9. CASE UnlinkFifo(c)
  <2>1. ClientsOK'
    BY <1>9, ClientMoves DEF UnlinkFifo
  <2>2. PipesOK'
    BY <1>9, NewFifos, FifoTyped DEF UnlinkFifo
  <2> QED
    BY <1>9, <2>1, <2>2 DEF UnlinkFifo, TypeInv, TypeOK
<1>10. CASE Die(c)
  <2>1. ClientsOK'
    BY <1>10, ZeroIsSession, ClientMoves DEF Die
  <2> QED
    BY <1>10, <2>1, CloseFifoTyped DEF Die, TypeInv, TypeOK
<1> QED
  BY <1>1, <1>2, <1>3, <1>4, <1>5, <1>6, <1>7, <1>8, <1>9, <1>10 DEF ClientNext

\* The producer's places, and that of its next step.
LEMMA ProducerMoves ==
    ASSUME TypeInv, UNCHANGED consumer, NEW p \in Producers, producer' = p
    PROVE  ThreadsOK'
  BY DEF TypeInv, TypeOK, ThreadsOK
\* Where the producer may go, and with what.
LEMMA ProducerPlaces ==
    /\ At("head") \in Producers /\ At("reading") \in Producers /\ At("ended") \in Producers
    /\ \A s \in Sessions, c \in Clients :
           /\ claims(s, c) \in Claims
           /\ claims(s, c) \in Producers
           /\ after_claim(s, c) \in {At("head")} \cup Claims
           /\ after_claim(s, c) \in Producers
           /\ \A next \in {At("head")} \cup Claims : signals(s, next) \in Producers
<1>1. \A p \in {"head", "reading", "ended"} : At(p) \in Producers
  BY DEF Producers
<1>2. ASSUME NEW s \in Sessions, NEW c \in Clients
      PROVE  /\ claims(s, c) \in Claims
             /\ after_claim(s, c) \in {At("head")} \cup Claims
             /\ \A next \in {At("head")} \cup Claims : signals(s, next) \in Producers
  <2>1. \A t \in Sessions : claims(t, c) \in Claims
    BY DEF Claims, claims
  <2>2. s + 1 < S => s + 1 \in Sessions
    BY ServerAssumption DEF Sessions
  <2>3. after_claim(s, c) \in {At("head")} \cup Claims
    BY <2>1, <2>2 DEF after_claim
  <2>4. \A next \in {At("head")} \cup Claims : signals(s, next) \in Producers
    BY DEF signals, Producers
  <2> QED
    BY <2>1, <2>3, <2>4
<1>3. Claims \subseteq Producers /\ At("head") \in Producers
  BY <1>1 DEF Producers
<1> QED
  BY <1>1, <1>2, <1>3
\* What the producer has with it where it is.
LEMMA ProducerRecord ==
    ASSUME TypeInv
    PROVE  /\ producer.at = "claiming" => producer.session \in Sessions /\ producer.pipename \in Clients
           /\ producer.at = "signalling" =>
                  producer.session \in Sessions /\ producer.next \in {At("head")} \cup Claims
  BY DEF TypeInv, TypeOK, ThreadsOK, Producers, Claims, At

\* The head of the server's pipe is a request.
LEMMA HeadRequest ==
    ASSUME TypeInv, spipe # <<>>
    PROVE  /\ Head(spipe) \in Requests /\ Tail(spipe) \in Seq(Requests)
           /\ Head(spipe).op_code = "mount" => Head(spipe).pipename \in Clients
           /\ Head(spipe).op_code # "mount" => /\ Head(spipe).session \in Sessions \cup {NoSession}
                                               /\ Head(spipe).op_code \in {"call", "unmount", "shutdown"}
<1>1. Head(spipe) \in Requests /\ Tail(spipe) \in Seq(Requests)
  BY DEF TypeInv, TypeOK, PipesOK
<1> QED
  BY <1>1 DEF Requests

\* The sessions are never full: session_count is at most 0.
LEMMA NotFull == ASSUME TypeInv PROVE ~are_full(session_count)
  BY ServerAssumption DEF are_full, TypeInv, TypeOK, NeverFull, ServerOK

\* The end of the process keeps the types.
LEMMA ExitTypes ==
    ASSUME TypeInv, Exit, UNCHANGED <<sessions, cpipe, fifo>>
    PROVE  ServerOK' /\ NeverFull' /\ DescriptorsOK' /\ PipesOK'
  BY DEF TypeInv, TypeOK, ServerOK, NeverFull, DescriptorsOK, PipesOK, Exit, sessions

\* A step of the producer keeps the types: the reply it writes to refuse a mount,
\* with session_id -1, is never written.
LEMMA ProducerTypes ==
    ASSUME TypeInv, ProducerNext
    PROVE  TypeInv'
<1> USE KeptServer, KeptDescriptors, KeptThreads, KeptPipes, KeptClients
        DEF threads, UnchangedByThreads
<1>1. CASE ProducerChecks
  <2>1. ThreadsOK'
    BY <1>1, ProducerMoves, ProducerPlaces DEF ProducerChecks
  <2>2. <<>> \in Seq(Requests) /\ spipe \in Seq(Requests)
    BY DEF TypeInv, TypeOK, PipesOK
  <2>3. PipesOK'
    BY <1>1, <2>2, KeptFifos DEF ProducerChecks
  <2> QED
    BY <1>1, <2>1, <2>3 DEF ProducerChecks, TypeInv, TypeOK
<1>2. CASE ReadNothing
  BY <1>2, ProducerMoves, ProducerPlaces DEF ReadNothing, TypeInv, TypeOK
<1>3. CASE ReadMount
  <2>1. producer' = claims(0, Head(spipe).pipename) /\ UNCHANGED fifo
    BY <1>3, NotFull DEF ReadMount
  <2>2. ThreadsOK'
    BY <1>3, <2>1, HeadRequest, ZeroIsSession, ProducerMoves, ProducerPlaces DEF ReadMount
  <2>3. PipesOK'
    BY <1>3, <2>1, HeadRequest, KeptFifos DEF ReadMount
  <2> QED
    BY <1>3, <2>2, <2>3 DEF ReadMount, TypeInv, TypeOK
<1>4. CASE ClaimSession
  <2> DEFINE s == producer.session
             p == producer.pipename
  <2>1. s \in Sessions /\ p \in Clients
    BY <1>4, ProducerRecord DEF ClaimSession
  <2>2. ThreadsOK'
    BY <1>4, <2>1, ProducerMoves, ProducerPlaces DEF ClaimSession
  <2>3. ServerOK' /\ NeverFull'
    BY <1>4, <2>1 DEF ClaimSession, claim, Commands, ServerOK, NeverFull, TypeInv, TypeOK
  <2> QED
    BY <1>4, <2>2, <2>3 DEF ClaimSession, TypeInv, TypeOK
<1>5. CASE ReadRequest
  <2> DEFINE s == Head(spipe).session
  <2>1. CASE s \in Sessions
    <3>1. signals(s, At("head")) \in [at : {"signalling"}, session : Sessions, next : {At("head")} \cup Claims]
      BY <2>1 DEF signals
    <3>2. signals(s, At("head")) \in Producers
      BY <3>1 DEF Producers
    <3>3. ThreadsOK'
      BY <1>5, <2>1, <3>2, ProducerMoves DEF ReadRequest
    <3>4. ServerOK' /\ NeverFull'
      BY <1>5, <2>1, HeadRequest DEF ReadRequest, Commands, ServerOK, NeverFull, TypeInv, TypeOK
    <3>5. PipesOK'
      BY <1>5, <2>1, HeadRequest, KeptFifos DEF ReadRequest
    <3> QED
      BY <1>5, <2>1, <3>3, <3>4, <3>5 DEF ReadRequest, TypeInv, TypeOK
  <2>2. CASE Exit /\ UNCHANGED producer /\ s \notin Sessions
    BY <1>5, <2>2, ExitTypes DEF ReadRequest, sessions, TypeInv, TypeOK
  <2>3. CASE /\ s \notin Sessions
             /\ spipe' = Tail(spipe) /\ producer' = At("head") /\ UNCHANGED <<server, fd>>
    <3>1. ThreadsOK'
      BY <1>5, <2>3, ProducerMoves, ProducerPlaces DEF ReadRequest
    <3>2. PipesOK'
      BY <1>5, <2>3, HeadRequest, KeptFifos DEF ReadRequest
    <3> QED
      BY <1>5, <2>3, <3>1, <3>2 DEF ReadRequest, sessions, TypeInv, TypeOK
  <2> QED
    BY <1>5, <2>1, <2>2, <2>3 DEF ReadRequest
<1>6. CASE Signal
  <2>1. producer' \in Producers
    BY <1>6, ProducerRecord DEF Signal, Producers
  <2>2. consumer' \in [Sessions -> Consumers]
    BY <1>6 DEF Signal, TypeInv, TypeOK, ThreadsOK, Consumers, Places
  <2> QED
    BY <1>6, <2>1, <2>2 DEF Signal, sessions, TypeInv, TypeOK, ThreadsOK
<1> QED
  BY <1>1, <1>2, <1>3, <1>4, <1>5, <1>6 DEF ProducerNext

\* The steps of a consumer: it goes on, or the server exits.
LEMMA ConsumerMoves ==
    ASSUME TypeInv, UNCHANGED producer, NEW s \in Sessions, NEW p \in Places, Goto(s, p)
    PROVE  ThreadsOK'
  BY DEF TypeInv, TypeOK, ThreadsOK, Goto, Consumers
\* A close keeps the types.
LEMMA DescriptorClosed ==
    ASSUME TypeInv, UNCHANGED cpipe, NEW n \in Fds,
           fd' \in {fd, [fd EXCEPT ![n] = Closed]}
    PROVE  DescriptorsOK'
  BY DEF TypeInv, TypeOK, DescriptorsOK
\* Descriptor 0, which EndSession may close, is in the table.
LEMMA ZeroIsFd == 0 \in Fds
  BY ServerAssumption DEF Fds

\* A reply goes to the client, ends the session or the server.
LEMMA ReplyTypes ==
    ASSUME TypeInv, NEW s \in Sessions, NEW op \in {"mount", "call", "shutdown"},
           NEW p \in Places, Reply(s, op, p), UNCHANGED <<status, buffer, cpipe, producer>>
    PROVE  ServerOK' /\ NeverFull' /\ DescriptorsOK' /\ ThreadsOK' /\ PipesOK'
<1>1. CASE Delivers(s, op) /\ Goto(s, p) /\ UNCHANGED <<server, session_status, session_count, fd, spipe>>
  <2>1. Target(s) \in Clients
    BY <1>1 DEF Delivers
  <2>2. [op_code |-> op, session |-> s] \in Replies
    BY DEF Replies
  <2>3. fifo[Target(s)] \in Fifos
    BY <2>1 DEF TypeInv, TypeOK, PipesOK
  <2>4. PipesOK'
    BY <1>1, <2>1, <2>2, <2>3, AfterWrite, FifoFields, FifoTyped DEF Delivers
  <2>5. ThreadsOK'
    BY <1>1, ConsumerMoves
  <2> QED
    BY <1>1, <2>4, <2>5, KeptServer, KeptDescriptors DEF sessions
<1>2. CASE EndSession(s) /\ Goto(s, p) /\ UNCHANGED <<server, spipe, fifo>>
  <2>1. DescriptorsOK'
    BY <1>2, ZeroIsFd, DescriptorClosed DEF EndSession
  <2>2. ServerOK' /\ NeverFull'
    BY <1>2 DEF EndSession, TypeInv, TypeOK, ServerOK, NeverFull
  <2> QED
    BY <1>2, <2>1, <2>2, ConsumerMoves, KeptPipes
<1>3. CASE Exit /\ UNCHANGED <<session_status, session_count, consumer, fifo>>
  BY <1>3, ExitTypes, KeptThreads DEF sessions, threads
<1> QED
  BY <1>1, <1>2, <1>3 DEF Reply

\* The end of a session closes its pipe, or ends the process.
LEMMA CloseTypes ==
    ASSUME TypeInv, NEW s \in Sessions, NEW p \in Places, Close(s, p),
           UNCHANGED <<sessions, cpipe, producer, fifo>>
    PROVE  ServerOK' /\ NeverFull' /\ DescriptorsOK' /\ ThreadsOK' /\ PipesOK'
<1>1. CASE Exit /\ UNCHANGED consumer
  BY <1>1, ExitTypes, KeptThreads DEF threads
<1>2. CASE /\ Target(s) \notin {Closed, Reserved}
           /\ fd' = [fd EXCEPT ![cpipe[s]] = Closed]
           /\ Goto(s, p)
           /\ UNCHANGED <<server, spipe>>
  <2>1. cpipe[s] \in Fds
    BY <1>2 DEF Target, TypeInv, TypeOK, DescriptorsOK
  <2>2. DescriptorsOK'
    BY <1>2, <2>1, DescriptorClosed
  <2> QED
    BY <1>2, <2>2, ConsumerMoves, KeptServer, KeptPipes
<1> QED
  BY <1>1, <1>2 DEF Close

\* A step of a consumer keeps the types.
LEMMA ConsumerTypes ==
    ASSUME TypeInv, NEW s \in Sessions, ConsumerNext(s)
    PROVE  TypeInv'
<1> USE KeptServer, KeptDescriptors, KeptThreads, KeptPipes, KeptClients, ConsumerMoves
        DEF threads, UnchangedByThreads, Places
<1>1. CASE ConsumerChecks(s)
  BY <1>1 DEF ConsumerChecks, TypeInv, TypeOK
<1>2. CASE Await(s)
  BY <1>2 DEF Await, TypeInv, TypeOK
<1>3. CASE SpuriousWakeup(s)
  <2>1. ClientsOK'
    BY <1>3 DEF SpuriousWakeup, clients, counters, TypeInv, TypeOK, ClientsOK
  <2> QED
    BY <1>3, <2>1 DEF SpuriousWakeup, TypeInv, TypeOK
<1>4. CASE ServeNone(s)
  BY <1>4 DEF ServeNone, TypeInv, TypeOK
<1>5. CASE ServeMount(s)
  <2> DEFINE c == buffer[s].pipename
             n == Min({k \in Fds : fd[k] = Closed})
  <2>1. n \in Fds
    BY <1>5, LeastElement DEF ServeMount, Fds
  <2>2. c \in Clients /\ fifo[c] \in Fifos
    BY <1>5 DEF ServeMount, Serves, Commands, ServerOK, PipesOK, TypeInv, TypeOK
  <2>3. CASE fifo[c].state = "none" /\ Exit /\ UNCHANGED <<cpipe, consumer, fifo>>
    BY <1>5, <2>3, ExitTypes DEF ServeMount, TypeInv, TypeOK
  <2>4. CASE /\ fd' = [fd EXCEPT ![n] = c]
             /\ cpipe' = [cpipe EXCEPT ![s] = n]
             /\ fifo' = [fifo EXCEPT ![c].opened = TRUE]
             /\ Goto(s, "opened")
             /\ UNCHANGED <<server, spipe>>
    <3>1. DescriptorsOK'
      BY <2>2, <2>1, <2>4 DEF DescriptorsOK, TypeInv, TypeOK
    <3>2. [fifo[c] EXCEPT !.opened = TRUE] \in Fifos
      BY <2>2, FifoFields
    <3>3. PipesOK'
      BY <2>2, <2>4, <3>2, FifoTyped
    <3> QED
      BY <1>5, <2>4, <3>1, <3>3 DEF ServeMount, TypeInv, TypeOK
  <2>5. CASE /\ fd' = [fd EXCEPT ![n] = Reserved]
             /\ consumer' = [consumer EXCEPT ![s] =
                    IF fifo[c].state = "closed" THEN At("stuck")
                    ELSE [at |-> "opening", pipename |-> c, fd |-> n]]
             /\ UNCHANGED <<server, spipe, cpipe, fifo>>
    <3>1. DescriptorsOK'
      BY <2>1, <2>5 DEF DescriptorsOK, TypeInv, TypeOK
    <3>2. ThreadsOK'
      BY <1>5, <2>2, <2>1, <2>5 DEF ServeMount, ThreadsOK, Consumers, TypeInv, TypeOK
    <3> QED
      BY <1>5, <2>5, <3>1, <3>2 DEF ServeMount, TypeInv, TypeOK
  <2> QED
    BY <1>5, <2>3, <2>4, <2>5 DEF ServeMount
<1>6. CASE WriteSessionId(s)
  BY <1>6, ReplyTypes DEF WriteSessionId, TypeInv, TypeOK
<1>7. CASE ServeCall(s)
  BY <1>7, ReplyTypes DEF ServeCall, TypeInv, TypeOK
<1>8. CASE ServeUnmount(s)
  <2>1. ServerOK' /\ NeverFull'
    BY <1>8 DEF ServeUnmount, TypeInv, TypeOK, ServerOK, NeverFull
  <2> QED
    BY <1>8, <2>1 DEF ServeUnmount, TypeInv, TypeOK
<1>9. CASE ReplyUnmount(s)
  <2>1. CASE /\ Delivers(s, "unmount")
             /\ Goto(s, "closing")
             /\ UNCHANGED <<server, fd, spipe>>
    <3>1. Target(s) \in Clients
      BY <2>1 DEF Delivers
    <3>2. [op_code |-> "unmount", session |-> s] \in Replies
      BY DEF Replies
    <3>3. fifo[Target(s)] \in Fifos
      BY <3>1 DEF TypeInv, TypeOK, PipesOK
    <3>4. PipesOK'
      BY <2>1, <3>1, <3>2, <3>3, AfterWrite, FifoFields, FifoTyped DEF Delivers
    <3> QED
      BY <1>9, <2>1, <3>4 DEF ReplyUnmount, TypeInv, TypeOK
  <2>2. CASE Exit /\ UNCHANGED <<consumer, fifo>>
    BY <1>9, <2>2, ExitTypes DEF ReplyUnmount, TypeInv, TypeOK
  <2> QED
    BY <1>9, <2>1, <2>2 DEF ReplyUnmount
<1>10. CASE ClosePipe(s)
  BY <1>10, CloseTypes DEF ClosePipe, TypeInv, TypeOK
<1>11. CASE ServeShutdown(s)
  BY <1>11 DEF ServeShutdown, TypeInv, TypeOK
<1>12. CASE TurnOff(s)
  <2>1. ServerOK' /\ NeverFull'
    BY <1>12 DEF TurnOff, TypeInv, TypeOK, ServerOK, NeverFull
  <2> QED
    BY <1>12, <2>1 DEF TurnOff, TypeInv, TypeOK
<1>13. CASE ReplyShutdown(s)
  BY <1>13, ReplyTypes DEF ReplyShutdown, TypeInv, TypeOK
<1>14. CASE End(s)
  <2>1. CASE Exit /\ UNCHANGED consumer
    BY <1>14, <2>1, ExitTypes DEF End, TypeInv, TypeOK
  <2>2. CASE (\E n \in Fds : fd' \in {fd, [fd EXCEPT ![n] = Closed]})
             /\ Goto(s, "ended") /\ UNCHANGED <<server, spipe>>
    BY <1>14, <2>2, DescriptorClosed DEF End, TypeInv, TypeOK
  <2>3. CASE Close(s, "ended")
    BY <1>14, <2>3, CloseTypes DEF End, TypeInv, TypeOK
  <2>4. \E n \in Fds : fd \in {fd, [fd EXCEPT ![n] = Closed]}
    BY ZeroIsFd
  <2> QED
    BY <1>14, <2>1, <2>2, <2>3, <2>4 DEF End
<1> QED
  BY <1>1, <1>2, <1>3, <1>4, <1>5, <1>6, <1>7, <1>8, <1>9, <1>10, <1>11, <1>12, <1>13, <1>14
     DEF ConsumerNext

\* The types hold when the server starts.
LEMMA InitTypes == Init => TypeInv
<1> SUFFICES ASSUME Init PROVE TypeInv
  OBVIOUS
<1>1. ServerOK /\ NeverFull
  BY DEF Init, ServerOK, NeverFull, Commands
<1>2. DescriptorsOK
  BY DEF Init, DescriptorsOK
<1>3. ThreadsOK
  BY ProducerPlaces DEF Init, ThreadsOK, Consumers, Places
<1>4. PipesOK
  BY NewFifos DEF Init, PipesOK
<1>5. ClientsOK
  BY ZeroIsSession DEF Init, ClientsOK
<1> QED
  BY <1>1, <1>2, <1>3, <1>4, <1>5 DEF TypeInv, TypeOK

\* Every step keeps the types.
LEMMA StepTypes == TypeInv /\ [Next]_vars => TypeInv'
<1> SUFFICES ASSUME TypeInv, [Next]_vars PROVE TypeInv'
  OBVIOUS
<1>1. CASE UNCHANGED vars
  BY <1>1, KeptServer, KeptDescriptors, KeptThreads, KeptPipes, KeptClients
     DEF vars, TypeInv, TypeOK
<1> QED
  BY <1>1, ClientTypes, ProducerTypes, ConsumerTypes DEF Next

\* The types, with the bound on session_count that they need, hold always.
THEOREM TypeInvCorrect == Spec => []TypeInv
  BY InitTypes, StepTypes, PTL DEF Spec

\* For any number of sessions, clients and descriptors the variables of
\* tfs_server.c and of the client API hold values of their types.
THEOREM TypeCorrect == Spec => []TypeOK
<1>1. TypeInv => TypeOK
  BY DEF TypeInv
<1> QED
  BY <1>1, TypeInvCorrect, PTL

\* The test for full sessions in the producer never refuses a mount: session_count
\* is only ever decremented.
THEOREM NeverFullCorrect == Spec => []~are_full(session_count)
<1>1. TypeInv => ~are_full(session_count)
  BY NotFull
<1> QED
  BY <1>1, TypeInvCorrect, PTL
=============================================================================
