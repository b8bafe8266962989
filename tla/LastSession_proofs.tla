---------------------- MODULE LastSession_proofs ----------------------
(***************************************************************************)
(* The server once one session of any number is left: any number of clients *)
(* mount, call, unmount, die and come back, and only signals end waits.     *)
(*                                                                         *)
(* IndInv is about that session; Apart says that the others stay out of it. *)
(***************************************************************************)
EXTENDS LastSession, Server_proofs, SequenceTheorems

-----------------------------------------------------------------------------
(* The inductive invariant.                                                *)

\* Clients that read their pipe, or will.
Readers == {"reading", "mounted"} \cup Waits
\* The server has the pipe of client c open, and the client has not left.
Live(c) == client[c] # "unmounting" /\ \E n \in Fds : fd[n] = c
NoneLive == \A c \in Clients : ~Live(c)

\* A request is on its way to the session: in the pipe of the server, or in the
\* buffer and signalled or about to be.
PipeHas(op) == \E i \in 1 .. Len(spipe) : spipe[i].op_code = op
NoRequest == \A i \in 1 .. Len(spipe) : spipe[i].op_code = "mount"
OneInPipe ==
    \A i, j \in 1 .. Len(spipe) :
        spipe[i].op_code # "mount" /\ spipe[j].op_code # "mount" => i = j
Signalling == producer.at = "signalling"
Woken == consumer[Last].at = "woken"
Pending(op) ==
    \/ op # "mount" /\ PipeHas(op)
    \/ (Signalling \/ Woken) /\ buffer[Last].op_code = op
Idle == consumer[Last].at \in {"head", "locking", "waiting", "freed", "closing"}
Quiet == NoRequest /\ ~Signalling /\ Idle

\* What is known of a pipe that the server has open, or that has replies.
PipesKnown ==
    \A c \in Clients :
        /\ (\E n \in Fds : fd[n] = c) => fifo[c].opened
        /\ fifo[c].opened => fifo[c].state = "open"
        /\ fifo[c].state = "open" => client[c] \in Readers \cup {"unmounting"}
        /\ fifo[c].replies # <<>> \/ client[c] \in {"mounted"} \cup Waits => fifo[c].opened
\* The consumer has opened a pipe before any client calls.
PipeOpened ==
    /\ \A c \in Clients : fifo[c].opened => cpipe[Last] # Uninitialized
    /\ ~NoRequest \/ buffer[Last].op_code \notin {"none", "mount"} \/ consumer[Last].at = "opened"
           => cpipe[Last] # Uninitialized

On == status = "ON"
\* Where the consumer is when the server is on, and when it is off.
PlacesInv ==
    /\ ~On => consumer[Last].at \in {"off", "closing", "head", "ending", "ended"}
    /\ On => consumer[Last].at \notin {"off", "ending", "ended"}
\* One client at most is live, and the session is its.
OneLive ==
    \A c \in Clients : Live(c) =>
        /\ session_status[Last] = 0
        /\ \A d \in Clients : Live(d) => c = d
        /\ On \/ consumer[Last].at = "off" => Target(Last) = c
\* A client that mounted stays live until it unmounts.
ReadersLive ==
    On => \A c \in Clients : client[c] \in Readers /\ fifo[c].opened => Live(c)
\* No client is live when one is about to be given the session, nor from its
\* unmount on.
NoneLeft ==
    On /\ \/ consumer[Last].at \in {"freed", "closing", "opening"}
          \/ Pending("mount") \/ Pending("unmount")
       => NoneLive
\* A free session has no request.
FreeQuiet == On /\ session_status[Last] = -1 => Quiet
\* There is one request at a time.
OneRequest ==
    On =>
    /\ OneInPipe
    /\ ~NoRequest => ~Signalling /\ Idle
    /\ Signalling => Idle
\* There is none before the mount returns, or once the reply is there.
RepliedQuiet ==
    On => \A c \in Clients :
        /\ client[c] = "mounted" => Quiet
        /\ client[c] \in Readers /\ fifo[c].replies # <<>> => Quiet
        /\ Live(c) /\ client[c] = "reading" =>
               NoRequest /\ ~Signalling /\ (Idle \/ consumer[Last].at = "opened")
\* The request on its way is that of the client that waits.
OwnRequest ==
    /\ On => \A c \in Clients : Live(c) /\ client[c] \in Waits =>
           /\ \A op \in Waits : Pending(op) => client[c] = op
           /\ consumer[Last].at = "destroying" => client[c] = "shutdown"
           /\ consumer[Last].at # "opened"
    /\ consumer[Last].at = "off" => \A c \in Clients : Live(c) =>
           client[c] = "shutdown" /\ fifo[c].replies = <<>>
\* A client has one reply at most, that to its own request.
OneReply ==
    OnlySignals => \A c \in Clients :
        /\ client[c] \in Readers => Len(fifo[c].replies) <= 1
        /\ client[c] = "mounted" => fifo[c].replies = <<>>
        /\ client[c] \in Waits /\ fifo[c].replies # <<>> =>
               Head(fifo[c].replies) = [op_code |-> client[c], session |-> Last]

ServerInv ==
    PlacesInv /\ OneLive /\ ReadersLive /\ NoneLeft /\ FreeQuiet /\ OneRequest /\ RepliedQuiet
    /\ OwnRequest
IndInv ==
    /\ TypeInv /\ PipesKnown /\ PipeOpened /\ OneReply
    /\ Running /\ OnlySignals => ServerInv

\* Requests, and the producer's signals, are for Last.
Addressed ==
    /\ \A i \in 1 .. Len(spipe) :
           spipe[i].op_code # "mount" => spipe[i].session = Last
    /\ Signalling => producer.session = Last
\* No client waits for its session_id once the server is being shut down.
NoneReading ==
    ~On \/ consumer[Last].at = "destroying" =>
        \A c \in Clients : client[c] = "reading" => ~fifo[c].opened
Apart == Running => OthersTaken /\ Addressed /\ NoneReading

\* A client that may call has read the number of Last, and the first reply to one
\* that waits for its session_id is that to its mount.
OwnNumber ==
    /\ \A c \in Clients : client[c] \in Waits => session_id[c] = Last
    /\ Running => \A c \in Clients :
           /\ client[c] = "mounted" => session_id[c] = Last
           /\ client[c] = "reading" /\ fifo[c].replies # <<>> =>
                  Head(fifo[c].replies) = [op_code |-> "mount", session |-> Last]

-----------------------------------------------------------------------------
(* What is known of the variables.                                         *)

\* The types of what the invariant speaks of, and what the names in it are not.
LEMMA BaseFacts ==
    ASSUME TypeInv
    PROVE  /\ Last \in Sessions
           /\ status \in {"ON", "OFF"} /\ session_status \in [Sessions -> {-1, 0}]
           /\ buffer \in [Sessions -> Commands] /\ cpipe \in [Sessions -> Fds \cup {Uninitialized}]
           /\ buffer[Last].op_code = "mount" => buffer[Last].pipename \in Clients
           /\ buffer[Last].op_code \in {"none", "mount", "call", "unmount", "shutdown"}
           /\ fd \in [Fds -> Clients \cup {Dead, Stdin, Closed, Reserved}]
           /\ consumer \in [Sessions -> Consumers]
           /\ consumer[Last].at \in Places \cup {"opening"}
           /\ consumer[Last].at = "opening" => consumer[Last].pipename \in Clients /\ consumer[Last].fd \in Fds
           /\ producer.at \in {"head", "reading", "ended", "claiming", "signalling"}
           /\ producer.at \in {"claiming", "signalling"} => producer.session \in Sessions
           /\ producer.at = "claiming" => producer.pipename \in Clients
           /\ producer.at = "signalling" => producer.next \in {At("head")} \cup Claims /\ producer.next.at \in {"head", "claiming"}
           /\ spipe \in Seq(Requests)
           /\ client \in [Clients -> {"out", "unlinked", "sent", "reading", "mounted",
                               "call", "shutdown", "unmounting", "unlinking"}]
           /\ session_id \in [Clients -> Sessions \cup {NoSession}] /\ spurious \in Nat
           /\ fifo \in [Clients -> Fifos]
           /\ \A c \in Clients : fifo[c].replies \in Seq(Replies)
           /\ Clients \cap {Dead, Stdin, Closed, Reserved} = {}
           /\ Dead \notin {Stdin, Closed, Reserved}
           /\ Uninitialized \notin Fds
<1>1. Last \in Sessions
  BY LastAssumption
<1>2. buffer[Last] \in Commands /\ consumer[Last] \in Consumers
  BY <1>1 DEF TypeInv, TypeOK, ServerOK, ThreadsOK
<1>3. \A c \in Clients : fifo[c].replies \in Seq(Replies)
  BY FifoFields DEF TypeInv, TypeOK, PipesOK
<1>4. /\ Clients \cap {Dead, Stdin, Closed, Reserved} = {}
      /\ Dead \notin {Stdin, Closed, Reserved}
      /\ Uninitialized \notin Fds
  BY ServerAssumption DEF Dead, Stdin, Closed, Reserved, Uninitialized, Fds
<1>5. /\ buffer[Last].op_code = "mount" => buffer[Last].pipename \in Clients
      /\ buffer[Last].op_code \in {"none", "mount", "call", "unmount", "shutdown"}
  BY <1>2 DEF Commands
<1>6. /\ consumer[Last].at \in Places \cup {"opening"}
      /\ consumer[Last].at = "opening" => consumer[Last].pipename \in Clients /\ consumer[Last].fd \in Fds
  BY <1>2 DEF Consumers, At, Places
<1>7. /\ producer.at \in {"head", "reading", "ended", "claiming", "signalling"}
      /\ producer.at \in {"claiming", "signalling"} => producer.session \in Sessions
      /\ producer.at = "claiming" => producer.pipename \in Clients
      /\ producer.at = "signalling" => producer.next \in {At("head")} \cup Claims /\ producer.next.at \in {"head", "claiming"}
  BY <1>1 DEF TypeInv, TypeOK, ThreadsOK, Producers, Claims, At
<1> QED
  BY <1>1, <1>3, <1>4, <1>5, <1>6, <1>7 DEF TypeInv, TypeOK, ServerOK, DescriptorsOK, ThreadsOK, PipesOK, ClientsOK

\* A request is written to the pipe of the server.
LEMMA Sent ==
    ASSUME TypeInv, NEW r \in Requests, spipe' = Append(spipe, r)
    PROVE  /\ NoRequest' <=> NoRequest /\ r.op_code = "mount"
           /\ \A op : PipeHas(op)' <=> PipeHas(op) \/ r.op_code = op
           /\ OneInPipe /\ (NoRequest \/ r.op_code = "mount") => OneInPipe'
<1>1. spipe \in Seq(Requests)
  BY DEF TypeInv, TypeOK, PipesOK
<1>2. /\ Len(spipe) \in Nat /\ Len(spipe') = Len(spipe) + 1
      /\ \A i \in 1 .. Len(spipe) : spipe'[i] = spipe[i]
      /\ spipe'[Len(spipe) + 1] = r
  BY <1>1
<1>3. 1 .. Len(spipe') = (1 .. Len(spipe)) \cup {Len(spipe) + 1}
  BY <1>2
<1> QED
  BY <1>2, <1>3 DEF NoRequest, PipeHas, OneInPipe

\* The first request is read from it.
LEMMA Taken ==
    ASSUME TypeInv, spipe # <<>>, spipe' = Tail(spipe)
    PROVE  /\ NoRequest => NoRequest' /\ Head(spipe).op_code = "mount"
           /\ \A op : PipeHas(op)' => PipeHas(op)
           /\ PipeHas(Head(spipe).op_code)
           /\ OneInPipe => OneInPipe'
           /\ OneInPipe /\ Head(spipe).op_code # "mount" => NoRequest'
<1>1. spipe \in Seq(Requests)
  BY DEF TypeInv, TypeOK, PipesOK
<1>2. /\ Len(spipe) \in Nat /\ Len(spipe) > 0 /\ Len(spipe') = Len(spipe) - 1
      /\ Head(spipe) = spipe[1]
      /\ \A i \in 1 .. Len(spipe') : spipe'[i] = spipe[i + 1] /\ i + 1 \in 1 .. Len(spipe) /\ i + 1 # 1
      /\ 1 \in 1 .. Len(spipe)
  BY <1>1
<1>3. OneInPipe => OneInPipe'
  BY <1>2 DEF OneInPipe
<1> QED
  BY <1>2, <1>3 DEF NoRequest, PipeHas, OneInPipe

\* A request that is read is for Last.
LEMMA FirstAddressed ==
    ASSUME TypeInv, Apart, Running, spipe # <<>>, Head(spipe).op_code # "mount"
    PROVE  Head(spipe).session = Last
<1>1. spipe \in Seq(Requests)
  BY DEF TypeInv, TypeOK, PipesOK
<1>2. Head(spipe) = spipe[1] /\ 1 \in 1 .. Len(spipe)
  BY <1>1
<1> QED
  BY <1>2 DEF Apart, Addressed

\* A reply is written to the pipe of a client.
LEMMA Replied ==
    ASSUME TypeInv, NEW c \in Clients, NEW r \in Replies,
           fifo' = [fifo EXCEPT ![c].replies = Append(@, r)]
    PROVE  /\ \A d \in Clients : /\ fifo'[d].state = fifo[d].state
                                 /\ fifo'[d].opened = fifo[d].opened
                                 /\ d # c => fifo'[d].replies = fifo[d].replies
           /\ fifo'[c].replies # <<>>
           /\ fifo[c].replies = <<>> =>
                  Len(fifo'[c].replies) = 1 /\ Head(fifo'[c].replies) = r
<1>1. fifo \in [Clients -> Fifos] /\ fifo[c].replies \in Seq(Replies)
  BY FifoFields DEF TypeInv, TypeOK, PipesOK
<1>2. fifo'[c] = [fifo[c] EXCEPT !.replies = Append(@, r)]
  BY <1>1
<1>3. fifo[c] \in Fifos
  BY <1>1
<1>4. /\ fifo'[c].replies = Append(fifo[c].replies, r)
      /\ fifo'[c].state = fifo[c].state /\ fifo'[c].opened = fifo[c].opened
  BY <1>2, <1>3 DEF Fifos
<1>5. \A d \in Clients : d # c => fifo'[d] = fifo[d]
  BY <1>1
<1>6. Append(fifo[c].replies, r) # <<>>
  BY <1>1
<1>7. fifo[c].replies = <<>> =>
          Len(Append(fifo[c].replies, r)) = 1 /\ Head(Append(fifo[c].replies, r)) = r
  BY <1>1
<1> QED
  BY <1>4, <1>5, <1>6, <1>7

\* A client reads a reply.
LEMMA ReplyRead ==
    ASSUME TypeInv, NEW c \in Clients, fifo[c].replies # <<>>,
           fifo' = [fifo EXCEPT ![c].replies = Tail(@)]
    PROVE  /\ \A d \in Clients : /\ fifo'[d].state = fifo[d].state
                                 /\ fifo'[d].opened = fifo[d].opened
                                 /\ d # c => fifo'[d].replies = fifo[d].replies
           /\ Len(fifo[c].replies) <= 1 =>
                  fifo'[c].replies = <<>> /\ Len(fifo'[c].replies) = 0
<1>1. fifo \in [Clients -> Fifos] /\ fifo[c].replies \in Seq(Replies)
  BY FifoFields DEF TypeInv, TypeOK, PipesOK
<1>2. fifo'[c] = [fifo[c] EXCEPT !.replies = Tail(@)]
  BY <1>1
<1>3. fifo[c] \in Fifos
  BY <1>1
<1>4. /\ fifo'[c].replies = Tail(fifo[c].replies)
      /\ fifo'[c].state = fifo[c].state /\ fifo'[c].opened = fifo[c].opened
  BY <1>2, <1>3 DEF Fifos
<1>5. \A d \in Clients : d # c => fifo'[d] = fifo[d]
  BY <1>1
<1>6. ASSUME Len(fifo[c].replies) <= 1
      PROVE  Tail(fifo[c].replies) = <<>> /\ Len(Tail(fifo[c].replies)) = 0
  <2> DEFINE q == fifo[c].replies
  <2>1. q \in Seq(Replies) /\ q # <<>> /\ Len(q) <= 1
    BY <1>1, <1>6
  <2> HIDE DEF q
  <2>2. Tail(q) \in Seq(Replies) /\ Len(Tail(q)) = Len(q) - 1
    BY <2>1, HeadTailProperties
  <2>3. Len(q) \in Nat \ {0}
    BY <2>1, EmptySeq
  <2>4. Len(Tail(q)) = 0
    BY <2>1, <2>2, <2>3
  <2>5. Tail(q) = <<>>
    BY <2>2, <2>4, EmptySeq
  <2> QED
    BY <2>4, <2>5 DEF q
<1> QED
  BY <1>4, <1>5, <1>6

\* A reply goes to a client whose pipe the consumer has in its variable.
LEMMA Delivered ==
    ASSUME TypeInv, NEW op \in {"mount", "call", "unmount", "shutdown"}, Delivers(Last, op)
    PROVE  /\ Target(Last) \in Clients /\ cpipe[Last] \in Fds /\ fd[cpipe[Last]] = Target(Last)
           /\ \A d \in Clients : /\ fifo'[d].state = fifo[d].state
                                 /\ fifo'[d].opened = fifo[d].opened
                                 /\ d # Target(Last) => fifo'[d].replies = fifo[d].replies
           /\ fifo'[Target(Last)].replies # <<>>
           /\ fifo[Target(Last)].replies = <<>> =>
                  /\ Len(fifo'[Target(Last)].replies) = 1
                  /\ Head(fifo'[Target(Last)].replies) = [op_code |-> op, session |-> Last]
<1>1. Target(Last) \in Clients
  BY DEF Delivers
<1>2. cpipe[Last] \in Fds /\ fd[cpipe[Last]] = Target(Last)
  BY <1>1, BaseFacts DEF Target
<1>3. [op_code |-> op, session |-> Last] \in Replies
  BY LastAssumption DEF Replies
<1>4. fifo' = [fifo EXCEPT ![Target(Last)].replies = Append(@, [op_code |-> op, session |-> Last])]
  BY DEF Delivers
<1> HIDE DEF Target
<1> QED
  BY <1>1, <1>2, <1>3, <1>4, Replied


-----------------------------------------------------------------------------
(* Every step keeps the invariant.                                         *)
USE DEF Readers, Waits, Live, NoneLive, NoRequest, PipeHas, OneInPipe, Signalling, Woken,
   Pending, Idle, Quiet, On, OnlySignals, Running, At, Target, IndInv

\* tfs_mount unlinks the old pipe.
LEMMA UnlinkOldInv ==
    ASSUME OnlySignals, IndInv, Apart, TypeInv', NEW c \in Clients, UnlinkOld(c)
    PROVE  IndInv'
<1> USE BaseFacts DEF UnlinkOld, NoFifo, clients, sessions, threads, counters
<1>1. PipesKnown'
  BY DEF PipesKnown
<1>2. PipeOpened'
  BY DEF PipeOpened
<1>3. OneReply'
  BY DEF OneReply
<1>4. ASSUME Running', OnlySignals' PROVE ServerInv'
  <2>1. PlacesInv' /\ OneLive' /\ ReadersLive' /\ NoneLeft' /\ FreeQuiet'
         /\ OneRequest' /\ RepliedQuiet'
    BY <1>4 DEF ServerInv, PlacesInv, OneLive, ReadersLive, NoneLeft, FreeQuiet, OneRequest,
       RepliedQuiet
  <2>2. OwnRequest'
    BY <1>4 DEF ServerInv, RepliedQuiet, OwnRequest
  <2> QED
    BY <2>1, <2>2 DEF ServerInv
<1> QED
  BY <1>1, <1>2, <1>3, <1>4 DEF IndInv

\* tfs_mount makes the new one and writes its request.
LEMMA SendMountInv ==
    ASSUME OnlySignals, IndInv, Apart, TypeInv', NEW c \in Clients, SendMount(c)
    PROVE  IndInv'
<1> USE BaseFacts DEF SendMount, Send, NewFifo, clients, sessions, threads, counters
<1> HIDE DEF NoRequest, PipeHas, OneInPipe
<1>1. [op_code |-> "mount", pipename |-> c] \in Requests
  BY DEF Requests
<1>2. /\ NoRequest' <=> NoRequest
      /\ \A q : q # "mount" => (PipeHas(q)' <=> PipeHas(q))
      /\ OneInPipe => OneInPipe'
  BY <1>1, Sent
<1>3. PipesKnown'
  BY <1>2 DEF PipesKnown
<1>4. PipeOpened'
  BY <1>2 DEF PipeOpened
<1>5. OneReply'
  BY <1>2 DEF OneReply
<1>6. ASSUME Running', OnlySignals' PROVE ServerInv'
  <2>1. PlacesInv' /\ OneLive' /\ ReadersLive' /\ NoneLeft' /\ FreeQuiet'
         /\ OneRequest' /\ RepliedQuiet' /\ OwnRequest'
    BY <1>2, <1>6 DEF ServerInv, PlacesInv, OneLive, ReadersLive, NoneLeft, FreeQuiet,
       OneRequest, RepliedQuiet, OwnRequest
  <2> QED
    BY <2>1 DEF ServerInv
<1> QED
  BY <1>3, <1>4, <1>5, <1>6 DEF IndInv

\* tfs_mount opens the new pipe before the consumer.
LEMMA OpenFifoInv ==
    ASSUME OnlySignals, IndInv, Apart, TypeInv', NEW c \in Clients, OpenFifo(c), Opening(c) = {}
    PROVE  IndInv'
<1> USE BaseFacts DEF clients, sessions, threads, counters
<1> HIDE DEF Live
<1>1. fifo[c] \in Fifos /\ fifo \in [Clients -> Fifos]
  BY DEF TypeInv
<1>2. /\ client[c] = "sent" /\ client' = [client EXCEPT ![c] = "reading"]
      /\ UNCHANGED <<server, status, session_status, buffer, producer, spipe, spurious>>
  BY DEF OpenFifo
<1>3. /\ fifo'[c].state = "open" /\ (fifo'[c].opened <=> FALSE)
      /\ fifo'[c].replies = fifo[c].replies
      /\ \A d \in Clients : d # c => fifo'[d] = fifo[d]
  BY <1>1 DEF OpenFifo, Fifos
<1>4. ~fifo[c].opened /\ fifo[c].replies = <<>> /\ \A k \in Fds : fd[k] # c
  BY <1>1, <1>2 DEF PipesKnown, Fifos
<1>5. fd' = fd /\ cpipe' = cpipe /\ consumer' = consumer
  BY DEF OpenFifo
<1>6. \A d \in Clients : d # c =>
          /\ client'[d] = client[d] /\ (Live(d)' <=> Live(d))
          /\ \A k \in Fds : fd'[k] = d <=> fd[k] = d
  BY <1>2, <1>5 DEF Live
<1>7. client'[c] = "reading" /\ (Live(c)' <=> FALSE) /\ ~Live(c)
  BY <1>2, <1>4, <1>5 DEF Live
<1>8. PipesKnown'
  <2> SUFFICES ASSUME NEW d \in Clients
               PROVE  /\ (\E k \in Fds : fd'[k] = d) => fifo'[d].opened
                      /\ fifo'[d].opened => fifo'[d].state = "open"
                      /\ fifo'[d].state = "open" => client'[d] \in Readers \cup {"unmounting"}
                      /\ fifo'[d].replies # <<>> \/ client'[d] \in {"mounted"} \cup Waits => fifo'[d].opened
    BY DEF PipesKnown
  <2>1. CASE d = c
    BY <2>1, <1>3, <1>4, <1>5, <1>7
  <2>2. CASE d # c
    BY <2>2, <1>3, <1>6 DEF PipesKnown
  <2> QED
    BY <2>1, <2>2
<1>9. PipeOpened'
  BY <1>2, <1>3, <1>4, <1>5, <1>6, <1>7 DEF PipeOpened
<1>10. OneReply'
  BY <1>2, <1>3, <1>4, <1>5, <1>6, <1>7 DEF OneReply
<1>11. ASSUME Running', OnlySignals' PROVE ServerInv'
  <2>1. PlacesInv' /\ OneLive' /\ NoneLeft' /\ FreeQuiet' /\ OneRequest' /\ OwnRequest'
    BY <1>2, <1>3, <1>4, <1>5, <1>6, <1>7, <1>11 DEF ServerInv, PlacesInv, OneLive,
       NoneLeft, FreeQuiet, OneRequest, OwnRequest
  <2>2. ReadersLive'
    <3> SUFFICES ASSUME On', NEW d \in Clients
                 PROVE  client'[d] \in Readers /\ fifo'[d].opened => Live(d)'
      BY DEF ReadersLive
    <3>1. CASE d = c
      BY <3>1, <1>3
    <3>2. CASE d # c
      BY <3>2, <1>11, <1>2, <1>3, <1>6 DEF ServerInv, ReadersLive
    <3> QED
      BY <3>1, <3>2
  <2>3. RepliedQuiet'
    <3> SUFFICES ASSUME On', NEW d \in Clients
                 PROVE  /\ client'[d] = "mounted" => Quiet'
                        /\ client'[d] \in Readers /\ fifo'[d].replies # <<>> => Quiet'
                        /\ Live(d)' /\ client'[d] = "reading" =>
                               NoRequest' /\ ~Signalling' /\ (Idle' \/ consumer'[Last].at = "opened")
      BY DEF RepliedQuiet
    <3>1. CASE d = c
      BY <3>1, <1>3, <1>4, <1>7
    <3>2. CASE d # c
      BY <3>2, <1>11, <1>2, <1>3, <1>5, <1>6 DEF ServerInv, RepliedQuiet
    <3> QED
      BY <3>1, <3>2
  <2> QED
    BY <2>1, <2>2, <2>3 DEF ServerInv
<1> QED
  BY <1>8, <1>9, <1>10, <1>11 DEF IndInv

\* It opens it and the consumer that waits goes on.
LEMMA OpenBothInv ==
    ASSUME OnlySignals, IndInv, Apart, TypeInv', NEW c \in Clients, OpenFifo(c), Opening(c) # {}
    PROVE  IndInv'
<1> USE BaseFacts DEF clients, sessions, threads, counters
<1> HIDE DEF Live
<1>1. fifo[c] \in Fifos /\ fifo \in [Clients -> Fifos]
  BY DEF TypeInv
<1>2. /\ client[c] = "sent" /\ client' = [client EXCEPT ![c] = "reading"]
      /\ UNCHANGED <<server, status, session_status, buffer, producer, spipe, spurious>>
  BY DEF OpenFifo
<1>3. /\ fifo'[c].state = "open" /\ (fifo'[c].opened <=> TRUE)
      /\ fifo'[c].replies = fifo[c].replies
      /\ \A d \in Clients : d # c => fifo'[d] = fifo[d]
  BY <1>1 DEF OpenFifo, Fifos
<1>4. ~fifo[c].opened /\ fifo[c].replies = <<>> /\ \A k \in Fds : fd[k] # c
  BY <1>1, <1>2 DEF PipesKnown, Fifos
<1>5. Opening(c) = {Last} /\ Running /\ consumer[Last].at = "opening" /\ consumer[Last].pipename = c
  BY DEF Opening, Apart, OthersTaken
<1>6. /\ consumer[Last].fd \in Fds /\ cpipe'[Last] = consumer[Last].fd /\ consumer'[Last].at = "opened"
      /\ \A k \in Fds : fd'[k] = IF k = consumer[Last].fd THEN c ELSE fd[k]
  BY <1>5 DEF OpenFifo
<1>7. \A d \in Clients : d # c =>
          /\ client'[d] = client[d] /\ (Live(d)' => Live(d))
          /\ \A k \in Fds : fd'[k] = d => fd[k] = d
  BY <1>2, <1>6 DEF Live
<1>8. client'[c] = "reading" /\ Live(c)' /\ ~Live(c)
  BY <1>2, <1>4, <1>6 DEF Live
<1>9. PipesKnown'
  <2> SUFFICES ASSUME NEW d \in Clients
               PROVE  /\ (\E k \in Fds : fd'[k] = d) => fifo'[d].opened
                      /\ fifo'[d].opened => fifo'[d].state = "open"
                      /\ fifo'[d].state = "open" => client'[d] \in Readers \cup {"unmounting"}
                      /\ fifo'[d].replies # <<>> \/ client'[d] \in {"mounted"} \cup Waits => fifo'[d].opened
    BY DEF PipesKnown
  <2>1. CASE d = c
    BY <2>1, <1>3, <1>8
  <2>2. CASE d # c
    BY <2>2, <1>3, <1>7 DEF PipesKnown
  <2> QED
    BY <2>1, <2>2
<1>10. PipeOpened'
  BY <1>2, <1>3, <1>4, <1>5, <1>6, <1>7, <1>8 DEF PipeOpened
<1>11. OneReply'
  BY <1>2, <1>3, <1>4, <1>5, <1>6, <1>7, <1>8 DEF OneReply
<1>12. ASSUME Running', OnlySignals' PROVE ServerInv'
  <2>1. PlacesInv' /\ FreeQuiet' /\ OneRequest'
    BY <1>2, <1>3, <1>4, <1>5, <1>6, <1>7, <1>8, <1>12 DEF ServerInv, PlacesInv, FreeQuiet,
       OneRequest
  <2>2. OneLive'
    BY <1>2, <1>3, <1>4, <1>5, <1>6, <1>7, <1>8, <1>12 DEF ServerInv, PlacesInv, OneLive,
       NoneLeft, FreeQuiet
  <2>3. ReadersLive'
    <3> SUFFICES ASSUME On', NEW d \in Clients
                 PROVE  client'[d] \in Readers /\ fifo'[d].opened => Live(d)'
      BY DEF ReadersLive
    <3>1. CASE d = c
      BY <3>1, <1>8
    <3>2. CASE d # c
      BY <3>2, <1>12, <1>2, <1>3, <1>5, <1>7 DEF ServerInv, ReadersLive, NoneLeft
    <3> QED
      BY <3>1, <3>2
  <2>4. NoneLeft'
    BY <1>2, <1>3, <1>4, <1>5, <1>6, <1>7, <1>8, <1>12 DEF ServerInv, NoneLeft, OneRequest
  <2>5. RepliedQuiet'
    <3> SUFFICES ASSUME On', NEW d \in Clients
                 PROVE  /\ client'[d] = "mounted" => Quiet'
                        /\ client'[d] \in Readers /\ fifo'[d].replies # <<>> => Quiet'
                        /\ Live(d)' /\ client'[d] = "reading" =>
                               NoRequest' /\ ~Signalling' /\ (Idle' \/ consumer'[Last].at = "opened")
      BY DEF RepliedQuiet
    <3>1. CASE d = c
      BY <3>1, <1>12, <1>2, <1>3, <1>4, <1>5, <1>6, <1>8 DEF ServerInv, OneRequest
    <3>2. CASE d # c
      BY <3>2, <1>12, <1>2, <1>3, <1>5, <1>6, <1>7 DEF ServerInv, RepliedQuiet, NoneLeft
    <3> QED
      BY <3>1, <3>2
  <2>6. OwnRequest'
    BY <1>2, <1>3, <1>4, <1>5, <1>6, <1>7, <1>8, <1>12 DEF ServerInv, NoneLeft, OwnRequest
  <2> QED
    BY <2>1, <2>2, <2>3, <2>4, <2>5, <2>6 DEF ServerInv
<1> QED
  BY <1>9, <1>10, <1>11, <1>12 DEF IndInv

\* tfs_mount reads its session_id.
LEMMA ReadSessionIdInv ==
    ASSUME OnlySignals, IndInv, Apart, TypeInv', NEW c \in Clients, ReadSessionId(c)
    PROVE  IndInv'
<1> USE BaseFacts DEF ReadSessionId, EndOfFile, clients, sessions, threads, counters
<1>1. \/ /\ fifo[c].replies # <<>>
         /\ \A d \in Clients : /\ fifo'[d].state = fifo[d].state
                               /\ fifo'[d].opened = fifo[d].opened
                               /\ d # c => fifo'[d].replies = fifo[d].replies
         /\ Len(fifo[c].replies) <= 1 => fifo'[c].replies = <<>> /\ Len(fifo'[c].replies) = 0
      \/ fifo' = fifo /\ fifo[c].replies = <<>> /\ fifo[c].opened /\ (\A k \in Fds : fd[k] # c)
  BY ReplyRead
<1>2. PipesKnown'
  BY <1>1 DEF PipesKnown
<1>3. PipeOpened'
  BY <1>1 DEF PipeOpened
<1>4. OneReply'
  <2> SUFFICES ASSUME OnlySignals, NEW d \in Clients
               PROVE  /\ client'[d] \in Readers => Len(fifo'[d].replies) <= 1
                      /\ client'[d] = "mounted" => fifo'[d].replies = <<>>
                      /\ client'[d] \in Waits /\ fifo'[d].replies # <<>> =>
                             Head(fifo'[d].replies) = [op_code |-> client'[d], session |-> Last]
    BY DEF OneReply
  <2>1. CASE d # c
    <3>1. fifo'[d].replies = fifo[d].replies /\ client'[d] = client[d]
      BY <1>1, <2>1
    <3> QED
      BY <3>1 DEF OneReply
  <2>2. CASE d = c
    <3>1. fifo'[c].replies = <<>>
      BY <1>1 DEF OneReply
    <3>2. Len(<<>>) <= 1
      OBVIOUS
    <3> QED
      BY <2>2, <3>1, <3>2
  <2> QED
    BY <2>1, <2>2
<1>5. ASSUME Running', OnlySignals' PROVE ServerInv'
  <2>1. PlacesInv' /\ OneLive' /\ ReadersLive' /\ NoneLeft' /\ FreeQuiet'
         /\ OneRequest' /\ OwnRequest'
    BY <1>1, <1>5 DEF ServerInv, PlacesInv, OneLive, ReadersLive, NoneLeft, FreeQuiet,
       OneRequest, OwnRequest
  <2>2. RepliedQuiet'
    BY <1>1, <1>5 DEF ServerInv, ReadersLive, RepliedQuiet
  <2> QED
    BY <2>1, <2>2 DEF ServerInv
<1> QED
  BY <1>2, <1>3, <1>4, <1>5 DEF IndInv

\* A call writes its request.
LEMMA CallInv ==
    ASSUME OnlySignals, IndInv, Apart, TypeInv', NEW c \in Clients, NEW op \in Waits, Call(c, op)
    PROVE  IndInv'
<1> USE BaseFacts DEF Call, Send, clients, sessions, threads, counters
<1> HIDE DEF NoRequest, PipeHas, OneInPipe
<1>1. [op_code |-> op, session |-> session_id[c]] \in Requests
  BY DEF Requests, IndInv, TypeInv, TypeOK, ClientsOK
<1>2. /\ ~NoRequest'
      /\ \A q : PipeHas(q)' <=> PipeHas(q) \/ op = q
      /\ OneInPipe /\ NoRequest => OneInPipe'
  BY <1>1, Sent
<1>3. \A q : PipeHas(q) /\ q # "mount" => ~NoRequest
  BY DEF PipeHas, NoRequest
<1>4. PipesKnown'
  BY <1>2, <1>3 DEF PipesKnown
<1>5. PipeOpened'
  BY <1>2, <1>3 DEF PipesKnown, PipeOpened
<1>6. OneReply'
  BY <1>2, <1>3 DEF OneReply
<1>7. ASSUME Running', OnlySignals' PROVE ServerInv'
  <2>1. PlacesInv' /\ OneLive' /\ ReadersLive' /\ NoneLeft'
    BY <1>2, <1>3, <1>7 DEF ServerInv, PlacesInv, OneLive, ReadersLive, NoneLeft
  <2>2. FreeQuiet'
    BY <1>2, <1>3, <1>7 DEF ServerInv, PipesKnown, OneLive, ReadersLive, FreeQuiet
  <2>3. OneRequest'
    BY <1>2, <1>3, <1>7 DEF ServerInv, OneRequest, RepliedQuiet
  <2>4. RepliedQuiet'
    <3> SUFFICES ASSUME On', NEW d \in Clients
                 PROVE  /\ client'[d] = "mounted" => Quiet'
                        /\ client'[d] \in Readers /\ fifo'[d].replies # <<>> => Quiet'
                        /\ Live(d)' /\ client'[d] = "reading" =>
                               NoRequest' /\ ~Signalling' /\ (Idle' \/ consumer'[Last].at = "opened")
      BY DEF RepliedQuiet
    <3>1. CASE d = c
      <4>1. fifo[c].replies = <<>> /\ fifo' = fifo
        BY <1>7 DEF OneReply
      <4>2. client'[c] = op /\ op \notin {"mounted", "reading"}
        OBVIOUS
      <4> QED
        BY <3>1, <4>1, <4>2
    <3>2. CASE d # c
      <4>1. On /\ Live(c) /\ client[c] = "mounted" /\ client'[d] = client[d] /\ fifo[d] = fifo'[d]
        BY <1>7, <3>2 DEF ServerInv, PipesKnown, ReadersLive
      <4>2. client[d] \in Readers /\ fifo[d].opened => FALSE
        <5>1. client[d] \in Readers /\ fifo[d].opened => Live(d)
          BY <1>7, <4>1 DEF ServerInv, ReadersLive
        <5>2. Live(d) => d = c
          BY <1>7, <4>1 DEF ServerInv, OneLive
        <5> QED
          BY <3>2, <5>1, <5>2
      <4>3. Live(d)' => fifo[d].opened
        BY DEF PipesKnown
      <4> QED
        BY <4>1, <4>2, <4>3 DEF PipesKnown
    <3> QED
      BY <3>1, <3>2
  <2>5. OwnRequest'
    <3>1. On' => /\ Live(c) /\ Quiet
                 /\ \A d \in Clients : Live(d) => d = c
      BY <1>7 DEF ServerInv, PipesKnown, ReadersLive, OneLive, RepliedQuiet
    <3>2. \A d \in Clients : Live(d)' => Live(d)
      OBVIOUS
    <3>3. ASSUME On', NEW d \in Clients, Live(d)'
          PROVE  /\ d = c /\ client'[d] = op
                 /\ \A q \in Waits : Pending(q)' => q = op
                 /\ consumer'[Last].at \notin {"destroying", "opened"}
      <4>1. ~Signalling' /\ ~Woken' /\ Idle'
        BY <3>1, <3>3
      <4>2. \A q : PipeHas(q)' /\ q # "mount" => q = op
        BY <1>2, <1>3, <3>1, <3>3
      <4> QED
        BY <3>1, <3>2, <3>3, <4>1, <4>2
    <3>4. ASSUME consumer'[Last].at = "off", NEW d \in Clients, Live(d)'
          PROVE  client'[d] = "shutdown" /\ fifo'[d].replies = <<>>
      <4>1. Live(d) /\ client[d] = "shutdown" /\ fifo[d].replies = <<>>
        BY <1>7, <3>2, <3>4 DEF ServerInv, OwnRequest
      <4> QED
        BY <4>1
    <3> QED
      BY <3>3, <3>4 DEF OwnRequest
  <2> QED
    BY <2>1, <2>2, <2>3, <2>4, <2>5 DEF ServerInv
<1> QED
  BY <1>4, <1>5, <1>6, <1>7 DEF IndInv

\* A call reads its reply.
LEMMA ReadReplyInv ==
    ASSUME OnlySignals, IndInv, Apart, TypeInv', NEW c \in Clients, ReadReply(c)
    PROVE  IndInv'
<1> USE BaseFacts DEF ReadReply, EndOfFile, clients, sessions, threads, counters
<1>1. \/ /\ fifo[c].replies # <<>>
         /\ \A d \in Clients : /\ fifo'[d].state = fifo[d].state
                               /\ fifo'[d].opened = fifo[d].opened
                               /\ d # c => fifo'[d].replies = fifo[d].replies
         /\ Len(fifo[c].replies) <= 1 => fifo'[c].replies = <<>> /\ Len(fifo'[c].replies) = 0
      \/ fifo' = fifo /\ fifo[c].replies = <<>> /\ fifo[c].opened /\ (\A k \in Fds : fd[k] # c)
  BY ReplyRead
<1>2. PipesKnown'
  BY <1>1 DEF PipesKnown
<1>3. PipeOpened'
  BY <1>1 DEF PipeOpened
<1>4. OneReply'
  <2> SUFFICES ASSUME OnlySignals, NEW d \in Clients
               PROVE  /\ client'[d] \in Readers => Len(fifo'[d].replies) <= 1
                      /\ client'[d] = "mounted" => fifo'[d].replies = <<>>
                      /\ client'[d] \in Waits /\ fifo'[d].replies # <<>> =>
                             Head(fifo'[d].replies) = [op_code |-> client'[d], session |-> Last]
    BY DEF OneReply
  <2>1. CASE d # c
    <3>1. fifo'[d].replies = fifo[d].replies /\ client'[d] = client[d]
      BY <1>1, <2>1
    <3> QED
      BY <3>1 DEF OneReply
  <2>2. CASE d = c
    <3>1. fifo'[c].replies = <<>>
      BY <1>1 DEF OneReply
    <3>2. Len(<<>>) <= 1
      OBVIOUS
    <3> QED
      BY <2>2, <3>1, <3>2
  <2> QED
    BY <2>1, <2>2
<1>5. ASSUME Running', OnlySignals' PROVE ServerInv'
  <2>1. PlacesInv' /\ OneLive' /\ ReadersLive' /\ NoneLeft' /\ FreeQuiet'
         /\ OneRequest' /\ OwnRequest'
    BY <1>1, <1>5 DEF ServerInv, PlacesInv, OneLive, ReadersLive, NoneLeft, FreeQuiet,
       OneRequest, OwnRequest
  <2>2. RepliedQuiet'
    BY <1>1, <1>5 DEF ServerInv, ReadersLive, RepliedQuiet
  <2> QED
    BY <2>1, <2>2 DEF ServerInv
<1> QED
  BY <1>2, <1>3, <1>4, <1>5 DEF IndInv

\* tfs_unmount writes its request.
LEMMA SendUnmountInv ==
    ASSUME OnlySignals, IndInv, Apart, TypeInv', NEW c \in Clients, SendUnmount(c)
    PROVE  IndInv'
<1> USE BaseFacts DEF SendUnmount, Send, clients, sessions, threads, counters
<1> HIDE DEF NoRequest, PipeHas, OneInPipe
<1>1. [op_code |-> "unmount", session |-> session_id[c]] \in Requests
  BY DEF Requests, IndInv, TypeInv, TypeOK, ClientsOK
<1>2. /\ ~NoRequest'
      /\ \A q : PipeHas(q)' <=> PipeHas(q) \/ "unmount" = q
      /\ OneInPipe /\ NoRequest => OneInPipe'
  BY <1>1, Sent
<1>3. \A q : PipeHas(q) /\ q # "mount" => ~NoRequest
  BY DEF PipeHas, NoRequest
<1>4. PipesKnown'
  BY <1>2, <1>3 DEF PipesKnown
<1>5. PipeOpened'
  BY <1>2, <1>3 DEF PipesKnown, PipeOpened
<1>6. OneReply'
  BY <1>2, <1>3 DEF OneReply
<1>7. ASSUME Running', OnlySignals' PROVE ServerInv'
  <2>1. PlacesInv' /\ OneLive' /\ ReadersLive' /\ OwnRequest'
    BY <1>2, <1>3, <1>7 DEF ServerInv, PlacesInv, OneLive, ReadersLive, OwnRequest
  <2>2. NoneLeft'
    BY <1>2, <1>3, <1>7 DEF ServerInv, PipesKnown, OneLive, ReadersLive, NoneLeft
  <2>3. FreeQuiet'
    BY <1>2, <1>3, <1>7 DEF ServerInv, PipesKnown, OneLive, ReadersLive, FreeQuiet
  <2>4. OneRequest'
    BY <1>2, <1>3, <1>7 DEF ServerInv, OneRequest, RepliedQuiet
  <2>5. RepliedQuiet'
    BY <1>2, <1>3, <1>7 DEF ServerInv, PipesKnown, OneLive, ReadersLive, RepliedQuiet
  <2> QED
    BY <2>1, <2>2, <2>3, <2>4, <2>5 DEF ServerInv
<1> QED
  BY <1>4, <1>5, <1>6, <1>7 DEF IndInv

\* tfs_unmount closes the pipes.
LEMMA ClosePipesInv ==
    ASSUME OnlySignals, IndInv, Apart, TypeInv', NEW c \in Clients, ClosePipes(c)
    PROVE  IndInv'
<1> USE BaseFacts DEF ClosePipes, ClosedFifo, clients, sessions, threads, counters
<1>1. /\ fd' = [k \in Fds |-> IF fd[k] = c THEN Dead ELSE fd[k]]
      /\ consumer'[Last].at \in {"stuck", consumer[Last].at}
      /\ consumer'[Last].at = "stuck" \/ consumer' = consumer
      /\ consumer'[Last].at = "stuck" => consumer[Last].at \in {"opening", "stuck"}
      /\ fifo' = [fifo EXCEPT ![c] = ClosedFifo]
  BY DEF ClosePipes, CloseFifo, WithoutReader, Opening, Apart, OthersTaken
<1>2. PipesKnown'
  BY <1>1 DEF PipesKnown
<1>3. PipeOpened'
  BY <1>1 DEF PipeOpened
<1>4. OneReply'
  BY <1>1 DEF OneReply
<1>5. ASSUME Running', OnlySignals' PROVE ServerInv'
  <2>1. PlacesInv' /\ OneLive' /\ ReadersLive' /\ NoneLeft' /\ FreeQuiet'
         /\ OneRequest' /\ RepliedQuiet' /\ OwnRequest'
    BY <1>1, <1>5 DEF ServerInv, PlacesInv, OneLive, ReadersLive, NoneLeft, FreeQuiet,
       OneRequest, RepliedQuiet, OwnRequest
  <2> QED
    BY <2>1 DEF ServerInv
<1> QED
  BY <1>2, <1>3, <1>4, <1>5 DEF IndInv

\* tfs_unmount unlinks the pipe of the client.
LEMMA UnlinkFifoInv ==
    ASSUME OnlySignals, IndInv, Apart, TypeInv', NEW c \in Clients, UnlinkFifo(c)
    PROVE  IndInv'
<1> USE BaseFacts DEF UnlinkFifo, NoFifo, clients, sessions, threads, counters
<1>1. PipesKnown'
  BY DEF PipesKnown
<1>2. PipeOpened'
  BY DEF PipeOpened
<1>3. OneReply'
  BY DEF OneReply
<1>4. ASSUME Running', OnlySignals' PROVE ServerInv'
  <2>1. PlacesInv' /\ OneLive' /\ ReadersLive' /\ NoneLeft' /\ FreeQuiet'
         /\ OneRequest' /\ RepliedQuiet'
    BY <1>4 DEF ServerInv, PlacesInv, OneLive, ReadersLive, NoneLeft, FreeQuiet, OneRequest,
       RepliedQuiet
  <2>2. OwnRequest'
    BY <1>4 DEF ServerInv, RepliedQuiet, OwnRequest
  <2> QED
    BY <2>1, <2>2 DEF ServerInv
<1> QED
  BY <1>1, <1>2, <1>3, <1>4 DEF IndInv

\* A client dies.
LEMMA DieInv ==
    ASSUME OnlySignals, IndInv, Apart, TypeInv', NEW c \in Clients, Die(c)
    PROVE  IndInv'
<1> USE BaseFacts DEF Die, ClosedFifo, HasServerPipe, clients, sessions, threads, counters
<1>1. /\ fd' = [k \in Fds |-> IF fd[k] = c THEN Dead ELSE fd[k]]
      /\ consumer'[Last].at \in {"stuck", consumer[Last].at}
      /\ consumer'[Last].at = "stuck" \/ consumer' = consumer
      /\ consumer'[Last].at = "stuck" => consumer[Last].at \in {"opening", "stuck"}
      /\ fifo' = [fifo EXCEPT ![c] = ClosedFifo]
  BY DEF Die, CloseFifo, WithoutReader, Opening, Apart, OthersTaken
<1>2. PipesKnown'
  BY <1>1 DEF PipesKnown
<1>3. PipeOpened'
  BY <1>1 DEF PipeOpened
<1>4. OneReply'
  BY <1>1 DEF OneReply
<1>5. ASSUME Running', OnlySignals' PROVE ServerInv'
  <2>1. PlacesInv' /\ OneLive' /\ ReadersLive' /\ NoneLeft' /\ FreeQuiet'
         /\ OneRequest' /\ RepliedQuiet' /\ OwnRequest'
    BY <1>1, <1>5 DEF ServerInv, PlacesInv, OneLive, ReadersLive, NoneLeft, FreeQuiet,
       OneRequest, RepliedQuiet, OwnRequest
  <2> QED
    BY <2>1 DEF ServerInv
<1> QED
  BY <1>2, <1>3, <1>4, <1>5 DEF IndInv

\* The producer tests status.
LEMMA ProducerChecksInv ==
    ASSUME OnlySignals, IndInv, Apart, TypeInv', ProducerChecks
    PROVE  IndInv'
<1> USE BaseFacts DEF ProducerChecks, UnchangedByThreads, clients, sessions, threads,
       counters
<1>1. PipesKnown'
  BY DEF PipesKnown
<1>2. PipeOpened'
  BY DEF PipeOpened
<1>3. OneReply'
  BY DEF OneReply
<1>4. ASSUME Running', OnlySignals' PROVE ServerInv'
  <2>1. PlacesInv' /\ OneLive' /\ ReadersLive' /\ NoneLeft' /\ FreeQuiet'
         /\ OneRequest' /\ RepliedQuiet'
    BY <1>4 DEF ServerInv, PlacesInv, OneLive, ReadersLive, NoneLeft, FreeQuiet, OneRequest,
       RepliedQuiet
  <2>2. OwnRequest'
    BY <1>4 DEF ServerInv, RepliedQuiet, OwnRequest
  <2> QED
    BY <2>1, <2>2 DEF ServerInv
<1> QED
  BY <1>1, <1>2, <1>3, <1>4 DEF IndInv

\* The producer reads nothing.
LEMMA ReadNothingInv ==
    ASSUME OnlySignals, IndInv, Apart, TypeInv', ReadNothing
    PROVE  IndInv'
<1> USE BaseFacts DEF ReadNothing, UnchangedByThreads, clients, sessions, threads, counters
<1>1. PipesKnown'
  BY DEF PipesKnown
<1>2. PipeOpened'
  BY DEF PipeOpened
<1>3. OneReply'
  BY DEF OneReply
<1>4. ASSUME Running', OnlySignals' PROVE ServerInv'
  <2>1. PlacesInv' /\ OneLive' /\ ReadersLive' /\ NoneLeft' /\ FreeQuiet'
         /\ OneRequest' /\ RepliedQuiet' /\ OwnRequest'
    BY <1>4 DEF ServerInv, PlacesInv, OneLive, ReadersLive, NoneLeft, FreeQuiet, OneRequest,
       RepliedQuiet, OwnRequest
  <2> QED
    BY <2>1 DEF ServerInv
<1> QED
  BY <1>1, <1>2, <1>3, <1>4 DEF IndInv

\* The producer reads the request of a mount.
LEMMA ReadMountInv ==
    ASSUME OnlySignals, IndInv, Apart, TypeInv', ReadMount
    PROVE  IndInv'
<1> USE BaseFacts DEF ReadMount, claims, UnchangedByThreads, clients, sessions, threads,
       counters
<1> HIDE DEF NoRequest, PipeHas, OneInPipe
<1>1. /\ NoRequest => NoRequest' /\ Head(spipe).op_code = "mount"
      /\ \A q : PipeHas(q)' => PipeHas(q)
      /\ PipeHas(Head(spipe).op_code)
      /\ OneInPipe => OneInPipe'
      /\ OneInPipe /\ Head(spipe).op_code # "mount" => NoRequest'
  BY Taken
<1>2. /\ \A q : PipeHas(q) /\ q # "mount" => ~NoRequest
      /\ \A q : PipeHas(q)' /\ q # "mount" => ~NoRequest'
  BY DEF PipeHas, NoRequest
<1>3. UNCHANGED fifo /\ producer'.at = "claiming"
  BY NotFull
<1>4. PipesKnown'
  BY <1>1, <1>2, <1>3 DEF PipesKnown
<1>5. PipeOpened'
  BY <1>1, <1>2, <1>3 DEF PipeOpened
<1>6. OneReply'
  BY <1>1, <1>2, <1>3 DEF OneReply
<1>7. ASSUME Running', OnlySignals' PROVE ServerInv'
  <2>1. PlacesInv' /\ OneLive' /\ ReadersLive' /\ NoneLeft' /\ FreeQuiet'
         /\ OneRequest' /\ RepliedQuiet' /\ OwnRequest'
    BY <1>1, <1>2, <1>3, <1>7 DEF ServerInv, PlacesInv, OneLive, ReadersLive, NoneLeft,
       FreeQuiet, OneRequest, RepliedQuiet, OwnRequest
  <2> QED
    BY <2>1 DEF ServerInv
<1> QED
  BY <1>4, <1>5, <1>6, <1>7 DEF IndInv

\* The producer gives the session to the client, when it is free.
LEMMA ClaimSessionInv ==
    ASSUME OnlySignals, IndInv, Apart, TypeInv', ClaimSession
    PROVE  IndInv'
<1> USE BaseFacts DEF UnchangedByThreads, clients, sessions, threads, counters
<1>5. /\ Running /\ producer.at = "claiming"
      /\ UNCHANGED <<server, status, fd, cpipe, consumer, spipe, client, fifo, spurious>>
  BY DEF ClaimSession
<1>6. \/ /\ session_status[Last] = -1 /\ session_status'[Last] = 0
         /\ buffer'[Last].op_code = "mount" /\ producer'.at = "signalling"
      \/ /\ UNCHANGED <<session_status, buffer>> /\ producer'.at \in {"head", "claiming"}
  <2> DEFINE s == producer.session
  <2>1. s \in Sessions
    BY <1>5
  <2>2. CASE is_free(s)
    <3>1. s = Last
      BY <1>5, <2>1, <2>2 DEF is_free, Apart, OthersTaken
    <3>2. /\ session_status' = [session_status EXCEPT ![Last] = 0]
          /\ buffer' = [buffer EXCEPT ![Last] =
                            [op_code |-> "mount", pipename |-> producer.pipename]]
          /\ producer' = signals(Last, after_claim(Last, producer.pipename))
      BY <2>2, <3>1 DEF ClaimSession, claim
    <3> QED
      BY <2>2, <3>1, <3>2 DEF is_free, signals
  <2>3. CASE ~is_free(s)
    BY <2>3 DEF ClaimSession, after_claim, claims
  <2> QED
    BY <2>2, <2>3
<1>1. PipesKnown'
  BY <1>5 DEF PipesKnown
<1>2. PipeOpened'
  BY <1>5, <1>6 DEF PipesKnown, PipeOpened
<1>3. OneReply'
  BY <1>5 DEF OneReply
<1>4. ASSUME Running', OnlySignals' PROVE ServerInv'
  <2>1. PlacesInv' /\ OneLive' /\ ReadersLive' /\ FreeQuiet' /\ OwnRequest'
    BY <1>4, <1>5, <1>6 DEF ServerInv, PlacesInv, OneLive, ReadersLive, FreeQuiet, OwnRequest
  <2>2. NoneLeft'
    BY <1>4, <1>5, <1>6 DEF ServerInv, OneLive, NoneLeft
  <2>3. OneRequest'
    BY <1>4, <1>5, <1>6 DEF ServerInv, FreeQuiet, OneRequest
  <2>4. RepliedQuiet'
    BY <1>4, <1>5, <1>6 DEF ServerInv, PipesKnown, OneLive, ReadersLive, RepliedQuiet
  <2> QED
    BY <2>1, <2>2, <2>3, <2>4 DEF ServerInv
<1> QED
  BY <1>1, <1>2, <1>3, <1>4 DEF IndInv

\* The producer leaves the request in the buffer of the session.
LEMMA ReadRequestInv ==
    ASSUME OnlySignals, IndInv, Apart, TypeInv', ReadRequest
    PROVE  IndInv'
<1> USE BaseFacts DEF clients, sessions, threads, counters
<1> HIDE DEF NoRequest, PipeHas, OneInPipe
<1>1. Running /\ producer.at = "reading" /\ spipe # <<>> /\ Head(spipe).op_code # "mount"
  BY DEF ReadRequest
<1>2. Head(spipe).session = Last /\ Head(spipe).op_code \in {"call", "unmount", "shutdown"}
  BY <1>1, HeadRequest, FirstAddressed DEF Apart
<1>3. /\ spipe' = Tail(spipe) /\ buffer' = [buffer EXCEPT ![Last].op_code = Head(spipe).op_code]
      /\ producer' = signals(Last, At("head"))
      /\ UNCHANGED <<server, status, session_status, fd, cpipe, consumer, client, fifo, spurious>>
  BY <1>2 DEF ReadRequest, UnchangedByThreads
<1>4. buffer'[Last].op_code = Head(spipe).op_code /\ producer'.at = "signalling"
  <2>1. buffer[Last] \in Commands /\ buffer'[Last] = [buffer[Last] EXCEPT !.op_code = Head(spipe).op_code]
    BY <1>3
  <2>2. buffer'[Last].op_code = Head(spipe).op_code
    BY <2>1 DEF Commands
  <2> QED
    BY <1>3, <2>2 DEF signals
<1>5. /\ ~NoRequest
      /\ \A q : PipeHas(q)' => PipeHas(q)
      /\ PipeHas(Head(spipe).op_code)
      /\ OneInPipe => OneInPipe' /\ NoRequest'
  BY <1>1, <1>3, Taken
<1>6. \A q : PipeHas(q)' /\ q # "mount" => ~NoRequest'
  BY DEF PipeHas, NoRequest
<1>7. PipesKnown'
  BY <1>3 DEF PipesKnown
<1>8. PipeOpened'
  BY <1>3, <1>5 DEF PipeOpened
<1>9. OneReply'
  BY <1>3 DEF OneReply
<1>10. ASSUME Running', OnlySignals' PROVE ServerInv'
  <2>1. PlacesInv' /\ OneLive' /\ ReadersLive' /\ NoneLeft' /\ FreeQuiet'
         /\ OneRequest' /\ RepliedQuiet' /\ OwnRequest'
    BY <1>1, <1>2, <1>3, <1>4, <1>5, <1>6, <1>10 DEF ServerInv, PlacesInv, OneLive, ReadersLive,
       NoneLeft, FreeQuiet, OneRequest, RepliedQuiet, OwnRequest
  <2> QED
    BY <2>1 DEF ServerInv
<1> QED
  BY <1>7, <1>8, <1>9, <1>10 DEF IndInv

\* The producer signals.
LEMMA SignalInv ==
    ASSUME OnlySignals, IndInv, Apart, TypeInv', Signal
    PROVE  IndInv'
<1> USE BaseFacts DEF Signal, HasMutex, claims, Claims, UnchangedByThreads, clients,
       sessions, threads, counters
<1>1. PipesKnown'
  BY DEF PipesKnown
<1>2. PipeOpened'
  BY DEF PipeOpened
<1>3. OneReply'
  BY DEF OneReply
<1>4. ASSUME Running', OnlySignals' PROVE ServerInv'
  <2>1. PlacesInv' /\ OneLive' /\ ReadersLive' /\ NoneLeft' /\ FreeQuiet'
         /\ OneRequest' /\ RepliedQuiet'
    BY <1>4 DEF ServerInv, PlacesInv, OneLive, ReadersLive, NoneLeft, FreeQuiet, OneRequest,
       RepliedQuiet
  <2>2. OwnRequest'
    BY <1>4 DEF ServerInv, RepliedQuiet, OwnRequest
  <2> QED
    BY <2>1, <2>2 DEF ServerInv
<1> QED
  BY <1>1, <1>2, <1>3, <1>4 DEF IndInv

\* The consumer tests status.
LEMMA ConsumerChecksInv ==
    ASSUME OnlySignals, IndInv, Apart, TypeInv', ConsumerChecks(Last)
    PROVE  IndInv'
<1> USE BaseFacts DEF ConsumerChecks, Goto, UnchangedByThreads, clients, sessions, threads,
       counters
<1>1. PipesKnown'
  BY DEF PipesKnown
<1>2. PipeOpened'
  BY DEF PipeOpened
<1>3. OneReply'
  BY DEF OneReply
<1>4. ASSUME Running', OnlySignals' PROVE ServerInv'
  <2>1. PlacesInv' /\ OneLive' /\ ReadersLive' /\ NoneLeft' /\ FreeQuiet'
         /\ OneRequest' /\ RepliedQuiet' /\ OwnRequest'
    BY <1>4 DEF ServerInv, PlacesInv, OneLive, ReadersLive, NoneLeft, FreeQuiet, OneRequest,
       RepliedQuiet, OwnRequest
  <2> QED
    BY <2>1 DEF ServerInv
<1> QED
  BY <1>1, <1>2, <1>3, <1>4 DEF IndInv

\* The consumer waits.
LEMMA AwaitInv ==
    ASSUME OnlySignals, IndInv, Apart, TypeInv', Await(Last)
    PROVE  IndInv'
<1> USE BaseFacts DEF Await, Goto, UnchangedByThreads, clients, sessions, threads, counters
<1>1. PipesKnown'
  BY DEF PipesKnown
<1>2. PipeOpened'
  BY DEF PipeOpened
<1>3. OneReply'
  BY DEF OneReply
<1>4. ASSUME Running', OnlySignals' PROVE ServerInv'
  <2>1. PlacesInv' /\ OneLive' /\ ReadersLive' /\ NoneLeft' /\ FreeQuiet'
         /\ OneRequest' /\ RepliedQuiet' /\ OwnRequest'
    BY <1>4 DEF ServerInv, PlacesInv, OneLive, ReadersLive, NoneLeft, FreeQuiet, OneRequest,
       RepliedQuiet, OwnRequest
  <2> QED
    BY <2>1 DEF ServerInv
<1> QED
  BY <1>1, <1>2, <1>3, <1>4 DEF IndInv

\* The consumer finds no command.
LEMMA ServeNoneInv ==
    ASSUME OnlySignals, IndInv, Apart, TypeInv', ServeNone(Last)
    PROVE  IndInv'
<1> USE BaseFacts DEF ServeNone, Serves, Goto, UnchangedByThreads, clients, sessions,
       threads, counters
<1>1. PipesKnown'
  BY DEF PipesKnown
<1>2. PipeOpened'
  BY DEF PipeOpened
<1>3. OneReply'
  BY DEF OneReply
<1>4. ASSUME Running', OnlySignals' PROVE ServerInv'
  <2>1. PlacesInv' /\ OneLive' /\ ReadersLive' /\ NoneLeft' /\ FreeQuiet'
         /\ OneRequest' /\ RepliedQuiet' /\ OwnRequest'
    BY <1>4 DEF ServerInv, PlacesInv, OneLive, ReadersLive, NoneLeft, FreeQuiet, OneRequest,
       RepliedQuiet, OwnRequest
  <2> QED
    BY <2>1 DEF ServerInv
<1> QED
  BY <1>1, <1>2, <1>3, <1>4 DEF IndInv

\* The consumer opens the pipe of a client that mounts.
LEMMA ServeMountInv ==
    ASSUME OnlySignals, IndInv, Apart, TypeInv', ServeMount(Last)
    PROVE  IndInv'
<1> USE BaseFacts
<1> DEFINE c == buffer[Last].pipename
           n == Min({k \in Fds : fd[k] = Closed})
<1>1. c \in Clients /\ Running /\ Woken /\ buffer[Last].op_code = "mount"
  BY DEF ServeMount, Serves
<1>2. n \in Fds /\ fd[n] = Closed
  <2> DEFINE free == {k \in Fds : fd[k] = Closed}
  <2>1. free # {} /\ free \in SUBSET Nat
    BY DEF ServeMount, Fds
  <2>2. Min(free) \in free
    <3> HIDE DEF free
    <3> QED
      BY <2>1, LeastElement
  <2> QED
    BY <2>2
<1>3. fifo[c] \in Fifos
  BY <1>1
<1>4. UNCHANGED <<status, session_status, buffer, producer, client, spurious>>
  BY DEF ServeMount, sessions, clients, UnchangedByThreads
<1>5. \/ /\ ~Running' /\ UNCHANGED <<cpipe, consumer, fifo>> /\ spipe' = <<>>
         /\ \A k \in Fds : fd'[k] = Closed
      \/ /\ fifo[c].state = "open" /\ UNCHANGED <<server, spipe>>
         /\ \A k \in Fds : fd'[k] = IF k = n THEN c ELSE fd[k]
         /\ cpipe'[Last] = n /\ consumer'[Last].at = "opened"
         /\ fifo'[c].state = "open" /\ fifo'[c].opened /\ fifo'[c].replies = fifo[c].replies
         /\ \A d \in Clients : d # c => fifo'[d] = fifo[d]
      \/ /\ fifo[c].state \in {"made", "closed"} /\ UNCHANGED <<server, spipe, cpipe, fifo>>
         /\ \A k \in Fds : fd'[k] = IF k = n THEN Reserved ELSE fd[k]
         /\ consumer'[Last].at \in {"opening", "stuck"}
  <2>1. CASE fifo[c].state = "none"
    BY <2>1 DEF ServeMount, Exit
  <2>2. CASE fifo[c].state = "open"
    <3>1. /\ fd' = [fd EXCEPT ![n] = c] /\ cpipe' = [cpipe EXCEPT ![Last] = n]
          /\ fifo' = [fifo EXCEPT ![c].opened = TRUE]
          /\ consumer'[Last].at = "opened" /\ UNCHANGED <<server, spipe>>
      BY <2>2 DEF ServeMount, Goto
    <3>2. fifo'[c] = [fifo[c] EXCEPT !.opened = TRUE] /\ \A d \in Clients : d # c => fifo'[d] = fifo[d]
      BY <1>1, <3>1
    <3>3. fifo'[c].state = fifo[c].state /\ fifo'[c].opened /\ fifo'[c].replies = fifo[c].replies
      BY <1>3, <3>2 DEF Fifos
    <3>4. \A d \in Clients : fifo[d].opened \in BOOLEAN /\ fifo'[d].opened \in BOOLEAN
      BY <1>3 DEF TypeInv, TypeOK, PipesOK, Fifos
    <3> QED
      BY <1>2, <2>2, <3>1, <3>2, <3>3, <3>4
  <2>3. CASE fifo[c].state \in {"made", "closed"}
    <3>1. /\ fd' = [fd EXCEPT ![n] = Reserved] /\ UNCHANGED <<server, spipe, cpipe, fifo>>
          /\ consumer' = [consumer EXCEPT ![Last] = IF fifo[c].state = "closed" THEN At("stuck")
                            ELSE [at |-> "opening", pipename |-> c, fd |-> n]]
      BY <2>3 DEF ServeMount
    <3>2. consumer'[Last] \in {At("stuck"), [at |-> "opening", pipename |-> c, fd |-> n]}
      BY <3>1
    <3> QED
      BY <1>2, <2>3, <3>1, <3>2
  <2>4. fifo[c].state \in {"none", "made", "open", "closed"}
    BY <1>3 DEF Fifos
  <2> QED
    BY <2>1, <2>2, <2>3, <2>4
<1> HIDE DEF c, n
<1>6. Closed \notin Clients /\ Reserved \notin Clients
  OBVIOUS
<1> HIDE BaseFacts
<1>7. \A d \in Clients :
           /\ (\E k \in Fds : fd'[k] = d) => (\E k \in Fds : fd[k] = d) \/ (d = c /\ fifo'[c].opened)
           /\ fifo'[d].state = fifo[d].state /\ fifo'[d].replies = fifo[d].replies
           /\ fifo[d].opened => fifo'[d].opened
           /\ fifo'[d].opened => fifo[d].opened \/ (d = c /\ fifo[d].state = "open")
  <2> SUFFICES ASSUME NEW d \in Clients
               PROVE  /\ (\E k \in Fds : fd'[k] = d) => (\E k \in Fds : fd[k] = d) \/ (d = c /\ fifo'[c].opened)
                      /\ fifo'[d].state = fifo[d].state /\ fifo'[d].replies = fifo[d].replies
                      /\ fifo[d].opened => fifo'[d].opened
                      /\ fifo'[d].opened => fifo[d].opened \/ (d = c /\ fifo[d].state = "open")
    OBVIOUS
  <2>1. CASE d = c
    BY <2>1, <1>5, <1>6
  <2>2. CASE d # c
    BY <2>2, <1>5, <1>6
  <2> QED
    BY <2>1, <2>2
<1>8. PipesKnown'
  BY <1>4, <1>7 DEF PipesKnown
<1> USE BaseFacts
<1>9. PipeOpened'
  BY <1>1, <1>2, <1>4, <1>5 DEF PipeOpened
<1>10. OneReply'
  <2>1. \A d \in Clients : fifo'[d].replies = fifo[d].replies
    BY <1>5
  <2> QED
    BY <1>4, <2>1 DEF OneReply
<1>11. ASSUME Running', OnlySignals' PROVE ServerInv'
  <2>1. PlacesInv' /\ FreeQuiet' /\ OneRequest'
    BY <1>1, <1>2, <1>4, <1>5, <1>11 DEF ServerInv, PlacesInv, FreeQuiet, OneRequest
  <2>2. OneLive'
    BY <1>1, <1>2, <1>4, <1>5, <1>11 DEF ServerInv, PlacesInv, OneLive, NoneLeft, FreeQuiet
  <2>3. ReadersLive'
    <3> SUFFICES ASSUME On', NEW d \in Clients, client'[d] \in Readers, fifo'[d].opened
                 PROVE  Live(d)'
      BY DEF ReadersLive
    <3>1. CASE fifo[d].opened
      <4>1. PICK k \in Fds : fd[k] = d
        BY <1>4, <1>11, <1>1, <3>1 DEF ServerInv, ReadersLive
      <4>2. k # n
        BY <4>1, <1>2, <1>6
      <4>3. fd'[k] = d
        BY <4>1, <4>2, <1>5, <1>11
      <4>4. client'[d] # "unmounting"
        OBVIOUS
      <4> QED
        BY <4>3, <4>4
    <3>2. CASE ~fifo[d].opened
      <4>1. d = c /\ fd'[n] = c
        BY <3>2, <1>2, <1>5, <1>11
      <4>2. client'[d] # "unmounting"
        OBVIOUS
      <4> QED
        BY <4>1, <4>2, <1>2
    <3> QED
      BY <3>1, <3>2
  <2>4. NoneLeft'
    BY <1>1, <1>2, <1>4, <1>5, <1>11 DEF ServerInv, NoneLeft, OneRequest
  <2>5. RepliedQuiet'
    BY <1>1, <1>2, <1>4, <1>5, <1>11 DEF ServerInv, OneRequest, RepliedQuiet
  <2>6. OwnRequest'
    BY <1>1, <1>2, <1>4, <1>5, <1>11 DEF ServerInv, PipesKnown, ReadersLive, NoneLeft,
       OwnRequest
  <2> QED
    BY <2>1, <2>2, <2>3, <2>4, <2>5, <2>6 DEF ServerInv
<1> QED
  BY <1>8, <1>9, <1>10, <1>11 DEF IndInv

\* The consumer writes a session_id.
LEMMA WriteSessionIdInv ==
    ASSUME OnlySignals, IndInv, Apart, TypeInv', WriteSessionId(Last)
    PROVE  IndInv'
<1> USE BaseFacts DEF WriteSessionId, Reply, EndSession, Exit, Goto, UnchangedByThreads,
       clients, sessions, threads, counters
<1>1. Delivers(Last, "mount") =>
          /\ Target(Last) \in Clients /\ cpipe[Last] \in Fds /\ fd[cpipe[Last]] = Target(Last)
          /\ \A d \in Clients : /\ fifo'[d].state = fifo[d].state
                                /\ fifo'[d].opened = fifo[d].opened
                                /\ d # Target(Last) => fifo'[d].replies = fifo[d].replies
          /\ fifo'[Target(Last)].replies # <<>>
          /\ fifo[Target(Last)].replies = <<>> =>
                 /\ Len(fifo'[Target(Last)].replies) = 1
                 /\ Head(fifo'[Target(Last)].replies) = [op_code |-> "mount", session |-> Last]
  BY Delivered
<1>2. PipesKnown'
  BY <1>1 DEF PipesKnown
<1>3. PipeOpened'
  BY <1>1 DEF PipeOpened
<1>4. OneReply'
  <2> SUFFICES ASSUME OnlySignals, NEW d \in Clients
               PROVE  /\ client'[d] \in Readers => Len(fifo'[d].replies) <= 1
                      /\ client'[d] = "mounted" => fifo'[d].replies = <<>>
                      /\ client'[d] \in Waits /\ fifo'[d].replies # <<>> =>
                             Head(fifo'[d].replies) = [op_code |-> client'[d], session |-> Last]
    BY DEF OneReply
  <2>1. client'[d] = client[d]
    OBVIOUS
  <2>2. CASE fifo'[d].replies = fifo[d].replies
    BY <2>1, <2>2 DEF OneReply
  <2>3. CASE fifo'[d].replies # fifo[d].replies /\ client[d] \in Readers
    <3>1. d = Target(Last) /\ Delivers(Last, "mount")
      BY <1>1, <2>3
    <3>2. Live(d)
      BY <1>1, <2>3, <3>1
    <3>3. fifo[d].replies = <<>> /\ client[d] = "reading"
      BY <2>3, <3>2 DEF ServerInv, PipesKnown, ReadersLive, RepliedQuiet, OwnRequest, PlacesInv
    <3> HIDE DEF Target
    <3>4. Len(fifo'[d].replies) = 1 /\ Head(fifo'[d].replies) = [op_code |-> "mount", session |-> Last]
      BY <1>1, <3>1, <3>3
    <3> QED
      BY <2>1, <3>3, <3>4
  <2>4. CASE client[d] \notin Readers
    BY <2>1, <2>4
  <2> QED
    BY <2>2, <2>3, <2>4
<1>5. ASSUME Running', OnlySignals' PROVE ServerInv'
  <2>1. PlacesInv' /\ NoneLeft' /\ OneRequest' /\ OwnRequest'
    BY <1>1, <1>5 DEF ServerInv, PlacesInv, NoneLeft, OneRequest, OwnRequest
  <2>2. OneLive'
    BY <1>1, <1>5 DEF ServerInv, PlacesInv, OneLive
  <2>3. ReadersLive'
    BY <1>1, <1>5 DEF ServerInv, OneLive, ReadersLive
  <2>4. FreeQuiet'
    BY <1>1, <1>5 DEF ServerInv, FreeQuiet, OneRequest, OwnRequest
  <2>5. RepliedQuiet'
    <3>1. consumer[Last].at = "opened" /\ consumer'[Last].at = "head" /\ status' = status
      BY <1>5
    <3>2. producer' = producer /\ spipe' = spipe
      BY <1>5
    <3>3. On' => NoRequest /\ ~Signalling
      BY <1>5, <3>1 DEF ServerInv, OneRequest
    <3>4. On' => Quiet'
      BY <3>1, <3>2, <3>3
    <3> HIDE DEF Quiet, On, Live, Readers, Waits
    <3> QED
      BY <3>4 DEF RepliedQuiet, Quiet
  <2> QED
    BY <2>1, <2>2, <2>3, <2>4, <2>5 DEF ServerInv
<1> QED
  BY <1>2, <1>3, <1>4, <1>5 DEF IndInv

\* The consumer serves a call.
LEMMA ServeCallInv ==
    ASSUME OnlySignals, IndInv, Apart, TypeInv', ServeCall(Last)
    PROVE  IndInv'
<1> USE BaseFacts DEF ServeCall, Serves, Reply, EndSession, Exit, Goto, UnchangedByThreads,
       clients, sessions, threads, counters
<1>1. Delivers(Last, "call") =>
          /\ Target(Last) \in Clients /\ cpipe[Last] \in Fds /\ fd[cpipe[Last]] = Target(Last)
          /\ \A d \in Clients : /\ fifo'[d].state = fifo[d].state
                                /\ fifo'[d].opened = fifo[d].opened
                                /\ d # Target(Last) => fifo'[d].replies = fifo[d].replies
          /\ fifo'[Target(Last)].replies # <<>>
          /\ fifo[Target(Last)].replies = <<>> =>
                 /\ Len(fifo'[Target(Last)].replies) = 1
                 /\ Head(fifo'[Target(Last)].replies) = [op_code |-> "call", session |-> Last]
  BY Delivered
<1>2. PipesKnown'
  BY <1>1 DEF PipesKnown
<1>3. PipeOpened'
  BY <1>1 DEF PipeOpened
<1>4. OneReply'
  <2> SUFFICES ASSUME OnlySignals, NEW d \in Clients
               PROVE  /\ client'[d] \in Readers => Len(fifo'[d].replies) <= 1
                      /\ client'[d] = "mounted" => fifo'[d].replies = <<>>
                      /\ client'[d] \in Waits /\ fifo'[d].replies # <<>> =>
                             Head(fifo'[d].replies) = [op_code |-> client'[d], session |-> Last]
    BY DEF OneReply
  <2>1. client'[d] = client[d]
    OBVIOUS
  <2>2. CASE fifo'[d].replies = fifo[d].replies
    BY <2>1, <2>2 DEF OneReply
  <2>3. CASE fifo'[d].replies # fifo[d].replies /\ client[d] \in Readers
    <3>1. d = Target(Last) /\ Delivers(Last, "call")
      BY <1>1, <2>3
    <3>2. Live(d)
      BY <1>1, <2>3, <3>1
    <3>3. fifo[d].replies = <<>> /\ client[d] = "call"
      BY <2>3, <3>2 DEF ServerInv, PipesKnown, ReadersLive, RepliedQuiet, OwnRequest, PlacesInv
    <3> HIDE DEF Target
    <3>4. Len(fifo'[d].replies) = 1 /\ Head(fifo'[d].replies) = [op_code |-> "call", session |-> Last]
      BY <1>1, <3>1, <3>3
    <3> QED
      BY <2>1, <3>3, <3>4
  <2>4. CASE client[d] \notin Readers
    BY <2>1, <2>4
  <2> QED
    BY <2>2, <2>3, <2>4
<1>5. ASSUME Running', OnlySignals' PROVE ServerInv'
  <2>1. PlacesInv' /\ NoneLeft' /\ OneRequest' /\ OwnRequest'
    BY <1>1, <1>5 DEF ServerInv, PlacesInv, NoneLeft, OneRequest, OwnRequest
  <2>2. OneLive'
    BY <1>1, <1>5 DEF ServerInv, PlacesInv, OneLive
  <2>3. ReadersLive'
    BY <1>1, <1>5 DEF ServerInv, OneLive, ReadersLive
  <2>4. FreeQuiet'
    BY <1>1, <1>5 DEF ServerInv, FreeQuiet, OneRequest
  <2>5. RepliedQuiet'
    BY <1>1, <1>5 DEF ServerInv, OneRequest, RepliedQuiet
  <2> QED
    BY <2>1, <2>2, <2>3, <2>4, <2>5 DEF ServerInv
<1> QED
  BY <1>2, <1>3, <1>4, <1>5 DEF IndInv

\* The consumer frees the session.
LEMMA ServeUnmountInv ==
    ASSUME OnlySignals, IndInv, Apart, TypeInv', ServeUnmount(Last)
    PROVE  IndInv'
<1> USE BaseFacts DEF ServeUnmount, Serves, Goto, UnchangedByThreads, clients, sessions,
       threads, counters
<1>1. PipesKnown'
  BY DEF PipesKnown
<1>2. PipeOpened'
  BY DEF PipeOpened
<1>3. OneReply'
  BY DEF OneReply
<1>4. ASSUME Running', OnlySignals' PROVE ServerInv'
  <2>1. PlacesInv' /\ ReadersLive' /\ NoneLeft' /\ OneRequest' /\ RepliedQuiet'
    BY <1>4 DEF ServerInv, PlacesInv, ReadersLive, NoneLeft, OneRequest, RepliedQuiet
  <2>2. OneLive'
    BY <1>4 DEF ServerInv, PlacesInv, OneLive, NoneLeft
  <2>3. FreeQuiet'
    BY <1>4 DEF ServerInv, FreeQuiet, OneRequest
  <2>4. OwnRequest'
    BY <1>4 DEF ServerInv, RepliedQuiet, OwnRequest
  <2> QED
    BY <2>1, <2>2, <2>3, <2>4 DEF ServerInv
<1> QED
  BY <1>1, <1>2, <1>3, <1>4 DEF IndInv

\* The consumer answers tfs_unmount.
LEMMA ReplyUnmountInv ==
    ASSUME OnlySignals, IndInv, Apart, TypeInv', ReplyUnmount(Last)
    PROVE  IndInv'
<1> USE BaseFacts DEF ReplyUnmount, Exit, Goto, UnchangedByThreads, clients, sessions,
       threads, counters
<1>1. Delivers(Last, "unmount") =>
          /\ Target(Last) \in Clients /\ cpipe[Last] \in Fds /\ fd[cpipe[Last]] = Target(Last)
          /\ \A d \in Clients : /\ fifo'[d].state = fifo[d].state
                                /\ fifo'[d].opened = fifo[d].opened
                                /\ d # Target(Last) => fifo'[d].replies = fifo[d].replies
          /\ fifo'[Target(Last)].replies # <<>>
          /\ fifo[Target(Last)].replies = <<>> =>
                 /\ Len(fifo'[Target(Last)].replies) = 1
                 /\ Head(fifo'[Target(Last)].replies) = [op_code |-> "unmount", session |-> Last]
  BY Delivered
<1>2. PipesKnown'
  BY <1>1 DEF PipesKnown
<1>3. PipeOpened'
  BY <1>1 DEF PipeOpened
<1>4. OneReply'
  <2> SUFFICES ASSUME OnlySignals, NEW d \in Clients
               PROVE  /\ client'[d] \in Readers => Len(fifo'[d].replies) <= 1
                      /\ client'[d] = "mounted" => fifo'[d].replies = <<>>
                      /\ client'[d] \in Waits /\ fifo'[d].replies # <<>> =>
                             Head(fifo'[d].replies) = [op_code |-> client'[d], session |-> Last]
    BY DEF OneReply
  <2>1. client'[d] = client[d]
    OBVIOUS
  <2>2. CASE fifo'[d].replies = fifo[d].replies
    BY <2>1, <2>2 DEF OneReply
  <2>3. CASE fifo'[d].replies # fifo[d].replies /\ client[d] \in Readers
    <3>1. d = Target(Last) /\ Delivers(Last, "unmount")
      BY <1>1, <2>3
    <3>2. Live(d)
      BY <1>1, <2>3, <3>1
    <3>3. FALSE
      BY <3>2 DEF ServerInv, NoneLeft, PlacesInv
    <3> QED
      BY <3>3
  <2>4. CASE client[d] \notin Readers
    BY <2>1, <2>4
  <2> QED
    BY <2>2, <2>3, <2>4
<1>5. ASSUME Running', OnlySignals' PROVE ServerInv'
  <2>1. PlacesInv' /\ OneLive' /\ NoneLeft' /\ FreeQuiet' /\ OneRequest'
    BY <1>1, <1>5 DEF ServerInv, PlacesInv, OneLive, NoneLeft, FreeQuiet, OneRequest
  <2>2. ReadersLive'
    BY <1>1, <1>5 DEF ServerInv, ReadersLive, NoneLeft
  <2>3. RepliedQuiet'
    BY <1>1, <1>5 DEF ServerInv, NoneLeft, RepliedQuiet
  <2>4. OwnRequest'
    BY <1>1, <1>5 DEF ServerInv, FreeQuiet, OwnRequest
  <2> QED
    BY <2>1, <2>2, <2>3, <2>4 DEF ServerInv
<1> QED
  BY <1>2, <1>3, <1>4, <1>5 DEF IndInv

\* The consumer closes the pipe of the client.
LEMMA ClosePipeInv ==
    ASSUME OnlySignals, IndInv, Apart, TypeInv', ClosePipe(Last)
    PROVE  IndInv'
<1> USE BaseFacts DEF ClosePipe, Close, Exit, Goto, UnchangedByThreads, clients, sessions,
       threads, counters
<1>1. PipesKnown'
  BY DEF PipesKnown
<1>2. PipeOpened'
  BY DEF PipeOpened
<1>3. OneReply'
  BY DEF OneReply
<1>4. ASSUME Running', OnlySignals' PROVE ServerInv'
  <2>1. PlacesInv' /\ NoneLeft' /\ FreeQuiet' /\ OneRequest' /\ RepliedQuiet'
         /\ OwnRequest'
    BY <1>4 DEF ServerInv, PlacesInv, NoneLeft, FreeQuiet, OneRequest, RepliedQuiet,
       OwnRequest
  <2>2. OneLive'
    BY <1>4 DEF ServerInv, OneLive, NoneLeft
  <2>3. ReadersLive'
    BY <1>4 DEF ServerInv, ReadersLive, NoneLeft
  <2> QED
    BY <2>1, <2>2, <2>3 DEF ServerInv
<1> QED
  BY <1>1, <1>2, <1>3, <1>4 DEF IndInv

\* The consumer begins the shutdown.
LEMMA ServeShutdownInv ==
    ASSUME OnlySignals, IndInv, Apart, TypeInv', ServeShutdown(Last)
    PROVE  IndInv'
<1> USE BaseFacts DEF ServeShutdown, Serves, Goto, UnchangedByThreads, clients, sessions,
       threads, counters
<1>1. PipesKnown'
  BY DEF PipesKnown
<1>2. PipeOpened'
  BY DEF PipeOpened
<1>3. OneReply'
  BY DEF OneReply
<1>4. ASSUME Running', OnlySignals' PROVE ServerInv'
  <2>1. PlacesInv' /\ OneLive' /\ ReadersLive' /\ NoneLeft' /\ FreeQuiet'
         /\ OneRequest' /\ RepliedQuiet' /\ OwnRequest'
    BY <1>4 DEF ServerInv, PlacesInv, OneLive, ReadersLive, NoneLeft, FreeQuiet, OneRequest,
       RepliedQuiet, OwnRequest
  <2> QED
    BY <2>1 DEF ServerInv
<1> QED
  BY <1>1, <1>2, <1>3, <1>4 DEF IndInv

\* The consumer turns the server off.
LEMMA TurnOffInv ==
    ASSUME OnlySignals, IndInv, Apart, TypeInv', TurnOff(Last)
    PROVE  IndInv'
<1> USE BaseFacts DEF TurnOff, Goto, UnchangedByThreads, clients, sessions, threads,
       counters
<1>1. PipesKnown'
  BY DEF PipesKnown
<1>2. PipeOpened'
  BY DEF PipeOpened
<1>3. OneReply'
  BY DEF OneReply
<1>4. ASSUME Running', OnlySignals' PROVE ServerInv'
  <2>1. PlacesInv' /\ ReadersLive' /\ NoneLeft' /\ FreeQuiet' /\ OneRequest'
         /\ RepliedQuiet'
    BY <1>4 DEF ServerInv, PlacesInv, ReadersLive, NoneLeft, FreeQuiet, OneRequest,
       RepliedQuiet
  <2>2. OneLive'
    BY <1>4 DEF ServerInv, PlacesInv, OneLive
  <2>3. OwnRequest'
    BY <1>4 DEF ServerInv, PipesKnown, PlacesInv, RepliedQuiet, OwnRequest
  <2> QED
    BY <2>1, <2>2, <2>3 DEF ServerInv
<1> QED
  BY <1>1, <1>2, <1>3, <1>4 DEF IndInv

\* The consumer answers tfs_shutdown_after_all_closed.
LEMMA ReplyShutdownInv ==
    ASSUME OnlySignals, IndInv, Apart, TypeInv', ReplyShutdown(Last)
    PROVE  IndInv'
<1> USE BaseFacts DEF ReplyShutdown, Reply, EndSession, Exit, Goto, UnchangedByThreads,
       clients, sessions, threads, counters
<1>1. Delivers(Last, "shutdown") =>
          /\ Target(Last) \in Clients /\ cpipe[Last] \in Fds /\ fd[cpipe[Last]] = Target(Last)
          /\ \A d \in Clients : /\ fifo'[d].state = fifo[d].state
                                /\ fifo'[d].opened = fifo[d].opened
                                /\ d # Target(Last) => fifo'[d].replies = fifo[d].replies
          /\ fifo'[Target(Last)].replies # <<>>
          /\ fifo[Target(Last)].replies = <<>> =>
                 /\ Len(fifo'[Target(Last)].replies) = 1
                 /\ Head(fifo'[Target(Last)].replies) = [op_code |-> "shutdown", session |-> Last]
  BY Delivered
<1>2. PipesKnown'
  BY <1>1 DEF PipesKnown
<1>3. PipeOpened'
  BY <1>1 DEF PipeOpened
<1>4. OneReply'
  <2> SUFFICES ASSUME OnlySignals, NEW d \in Clients
               PROVE  /\ client'[d] \in Readers => Len(fifo'[d].replies) <= 1
                      /\ client'[d] = "mounted" => fifo'[d].replies = <<>>
                      /\ client'[d] \in Waits /\ fifo'[d].replies # <<>> =>
                             Head(fifo'[d].replies) = [op_code |-> client'[d], session |-> Last]
    BY DEF OneReply
  <2>1. client'[d] = client[d]
    OBVIOUS
  <2>2. CASE fifo'[d].replies = fifo[d].replies
    BY <2>1, <2>2 DEF OneReply
  <2>3. CASE fifo'[d].replies # fifo[d].replies /\ client[d] \in Readers
    <3>1. d = Target(Last) /\ Delivers(Last, "shutdown")
      BY <1>1, <2>3
    <3>2. Live(d)
      BY <1>1, <2>3, <3>1
    <3>3. fifo[d].replies = <<>> /\ client[d] = "shutdown"
      BY <2>3, <3>2 DEF ServerInv, PipesKnown, ReadersLive, RepliedQuiet, OwnRequest, PlacesInv
    <3> HIDE DEF Target
    <3>4. Len(fifo'[d].replies) = 1 /\ Head(fifo'[d].replies) = [op_code |-> "shutdown", session |-> Last]
      BY <1>1, <3>1, <3>3
    <3> QED
      BY <2>1, <3>3, <3>4
  <2>4. CASE client[d] \notin Readers
    BY <2>1, <2>4
  <2> QED
    BY <2>2, <2>3, <2>4
<1>5. ASSUME Running', OnlySignals' PROVE ServerInv'
  <2>1. PlacesInv' /\ OneLive' /\ OneRequest' /\ OwnRequest'
    BY <1>1, <1>5 DEF ServerInv, PlacesInv, OneLive, OneRequest, OwnRequest
  <2>2. ReadersLive'
    BY <1>1, <1>5 DEF ServerInv, OneLive, ReadersLive
  <2>3. NoneLeft'
    BY <1>1, <1>5 DEF ServerInv, PlacesInv, NoneLeft
  <2>4. FreeQuiet'
    BY <1>1, <1>5 DEF ServerInv, FreeQuiet, OneRequest
  <2>5. RepliedQuiet'
    BY <1>1, <1>5 DEF ServerInv, OneRequest, RepliedQuiet
  <2> QED
    BY <2>1, <2>2, <2>3, <2>4, <2>5 DEF ServerInv
<1> QED
  BY <1>2, <1>3, <1>4, <1>5 DEF IndInv

\* The consumer ends.
LEMMA EndInv ==
    ASSUME OnlySignals, IndInv, Apart, TypeInv', End(Last)
    PROVE  IndInv'
<1> USE BaseFacts DEF End, Close, Exit, Goto, UnchangedByThreads, clients, sessions,
       threads, counters
<1>1. PipesKnown'
  BY DEF PipesKnown
<1>2. PipeOpened'
  BY DEF PipeOpened
<1>3. OneReply'
  BY DEF OneReply
<1>4. ASSUME Running', OnlySignals' PROVE ServerInv'
  <2>1. PlacesInv' /\ NoneLeft' /\ FreeQuiet' /\ OneRequest' /\ RepliedQuiet'
         /\ OwnRequest'
    BY <1>4 DEF ServerInv, PlacesInv, NoneLeft, FreeQuiet, OneRequest, RepliedQuiet,
       OwnRequest
  <2>2. OneLive'
    BY <1>4 DEF ServerInv, PipeOpened, PlacesInv, OneLive
  <2>3. ReadersLive'
    BY <1>4 DEF ServerInv, PlacesInv, ReadersLive
  <2> QED
    BY <2>1, <2>2, <2>3 DEF ServerInv
<1> QED
  BY <1>1, <1>2, <1>3, <1>4 DEF IndInv

HIDE DEF Readers, Waits, Live, NoneLive, NoRequest, PipeHas, OneInPipe, Signalling, Woken,
   Pending, Idle, Quiet, On, OnlySignals, Running, At, Target, IndInv

\* A step of a client keeps the invariant.
LEMMA ClientInv ==
    ASSUME OnlySignals, IndInv, Apart, TypeInv', NEW c \in Clients, ClientNext(c)
    PROVE  IndInv'
<1>1. CASE \E op \in Waits : Call(c, op)
  BY <1>1, CallInv
<1>2. CASE OpenFifo(c)
  BY <1>2, OpenFifoInv, OpenBothInv
<1> QED
  BY <1>1, <1>2, UnlinkOldInv, SendMountInv, ReadSessionIdInv, ReadReplyInv, SendUnmountInv,
     ClosePipesInv, UnlinkFifoInv, DieInv DEF ClientNext

\* A step of the producer keeps it.
LEMMA ProducerInv ==
    ASSUME OnlySignals, IndInv, Apart, TypeInv', ProducerNext
    PROVE  IndInv'
  BY ProducerChecksInv, ReadNothingInv, ReadMountInv, ClaimSessionInv, ReadRequestInv, SignalInv
     DEF ProducerNext

\* A wait that returns without a signal is one that OnlySignals rules out.
LEMMA NoSpuriousWakeup ==
    ASSUME OnlySignals, OnlySignals', NEW s \in Sessions
    PROVE  ~SpuriousWakeup(s)
  BY DEF OnlySignals, SpuriousWakeup

\* A step of the consumer keeps it.
LEMMA ConsumerInv ==
    ASSUME OnlySignals, OnlySignals', IndInv, Apart, TypeInv', ConsumerNext(Last)
    PROVE  IndInv'
  BY LastAssumption, NoSpuriousWakeup, ConsumerChecksInv, AwaitInv, ServeNoneInv, ServeMountInv,
     WriteSessionIdInv, ServeCallInv, ServeUnmountInv, ReplyUnmountInv, ClosePipeInv,
     ServeShutdownInv, TurnOffInv, ReplyShutdownInv, EndInv DEF ConsumerNext

-----------------------------------------------------------------------------
(* The session_id of each client.                                          *)

\* A reply is written to a client that reads its session_id only when it is that
\* to its mount.
LEMMA DeliversNumber ==
    ASSUME IndInv, OwnNumber, Running,
           NEW op \in {"mount", "call", "unmount", "shutdown"}, Delivers(Last, op),
           UNCHANGED <<client, session_id>>,
           Live(Target(Last)) /\ client[Target(Last)] = "reading" =>
               op = "mount" /\ fifo[Target(Last)].replies = <<>>
    PROVE  OwnNumber'
<1>1. TypeInv
  BY DEF IndInv
<1>2. /\ Target(Last) \in Clients /\ cpipe[Last] \in Fds /\ fd[cpipe[Last]] = Target(Last)
      /\ \A d \in Clients : d # Target(Last) => fifo'[d].replies = fifo[d].replies
      /\ fifo[Target(Last)].replies = <<>> =>
             Head(fifo'[Target(Last)].replies) = [op_code |-> op, session |-> Last]
  BY <1>1, Delivered
<1>3. client[Target(Last)] = "reading" => Live(Target(Last))
  BY <1>2 DEF Live
<1> HIDE DEF Target
<1> QED
  BY <1>2, <1>3 DEF OwnNumber

\* The steps of a client.
LEMMA ClientNumber ==
    ASSUME OnlySignals, IndInv, Apart, OwnNumber, NEW c \in Clients, ClientNext(c)
    PROVE  OwnNumber'
<1> USE BaseFacts DEF IndInv
<1>1. CASE UnlinkOld(c) \/ SendMount(c) \/ UnlinkFifo(c)
  BY <1>1 DEF UnlinkOld, SendMount, UnlinkFifo, NoFifo, NewFifo, OwnNumber, Running, Waits
<1>2. CASE OpenFifo(c)
  <2>1. ~fifo[c].opened /\ fifo[c].replies = <<>>
    BY <1>2 DEF OpenFifo, PipesKnown, Readers, Waits, Fifos, TypeInv, TypeOK, PipesOK
  <2>2. fifo'[c].replies = fifo[c].replies /\ \A d \in Clients : d # c => fifo'[d] = fifo[d]
    BY <1>2 DEF OpenFifo, Fifos
  <2> QED
    BY <1>2, <2>1, <2>2 DEF OpenFifo, OwnNumber, Running, Waits
<1>3. CASE ReadSessionId(c)
  <2>1. client' = [client EXCEPT ![c] = "mounted"] /\ (Running' <=> Running) /\ client[c] = "reading"
    BY <1>3 DEF ReadSessionId, Running
  <2>2. \A d \in Clients : d # c => fifo'[d].replies = fifo[d].replies
    BY <1>3, ReplyRead DEF ReadSessionId
  <2>3. ASSUME Running PROVE session_id'[c] = Last
    <3>1. NoneReading /\ ReadersLive
      BY <2>3 DEF ServerInv, Apart
    <3>2. CASE fifo[c].replies = <<>>
      <4>1. fifo[c].opened /\ \A n \in Fds : fd[n] # c
        BY <1>3, <3>2 DEF ReadSessionId, EndOfFile
      <4> QED
        BY <2>1, <3>1, <4>1 DEF NoneReading, ReadersLive, Readers, Live
    <3>3. CASE fifo[c].replies # <<>>
      <4>1. Head(fifo[c].replies) = [op_code |-> "mount", session |-> Last]
        BY <2>1, <2>3, <3>3 DEF OwnNumber
      <4>2. numbers(Head(fifo[c].replies)) = {Last}
        BY <4>1 DEF numbers
      <4> QED
        BY <1>3, <3>3, <4>2 DEF ReadSessionId
    <3> QED
      BY <3>2, <3>3
  <2>4. \A d \in Clients : d # c => session_id'[d] = session_id[d]
    BY <1>3 DEF ReadSessionId
  <2> QED
    BY <2>1, <2>2, <2>3, <2>4 DEF OwnNumber, Waits
<1>4. CASE ReadReply(c)
  <2>1. \A d \in Clients : d # c => fifo'[d].replies = fifo[d].replies
    BY <1>4, ReplyRead DEF ReadReply
  <2> QED
    BY <1>4, <2>1 DEF ReadReply, clients, OwnNumber, Running, Waits
<1>5. CASE (\E op \in Waits : Call(c, op)) \/ SendUnmount(c)
  BY <1>5 DEF Call, SendUnmount, Send, Waits, OwnNumber, Running
<1>6. CASE ClosePipes(c) \/ Die(c)
  <2>1. client' = [client EXCEPT ![c] = "unlinking"] \/ client' = [client EXCEPT ![c] = "out"]
    BY <1>6 DEF ClosePipes, Die
  <2>2. session_id' = session_id \/ session_id' = [session_id EXCEPT ![c] = 0]
    BY <1>6 DEF ClosePipes, Die
  <2>3. fifo' = [fifo EXCEPT ![c] = ClosedFifo] /\ (Running' <=> Running)
    BY <1>6 DEF ClosePipes, Die, CloseFifo, Running
  <2>4. /\ client'[c] \notin {"reading", "mounted"} \cup Waits
        /\ \A d \in Clients : d # c =>
               client'[d] = client[d] /\ session_id'[d] = session_id[d] /\ fifo'[d] = fifo[d]
    BY <2>1, <2>2, <2>3 DEF Waits
  <2> QED
    BY <2>3, <2>4 DEF OwnNumber
<1> QED
  BY <1>1, <1>2, <1>3, <1>4, <1>5, <1>6 DEF ClientNext

\* The steps of the producer, which writes to no client.
LEMMA ProducerNumber ==
    ASSUME IndInv, OwnNumber, ProducerNext
    PROVE  OwnNumber'
<1>1. fifo' = fifo
  BY NotFull DEF IndInv, ProducerNext, ProducerChecks, ReadNothing, ReadMount, ClaimSession,
     ReadRequest, Signal
<1>2. UNCHANGED <<client, session_id>> /\ Running
  BY DEF ProducerNext, ProducerChecks, ReadNothing, ReadMount, ClaimSession, ReadRequest,
     Signal, UnchangedByThreads, clients
<1> QED
  BY <1>1, <1>2 DEF OwnNumber

\* What no step of the consumer of Last changes.
LEMMA ConsumerFrame ==
    ASSUME ConsumerNext(Last)
    PROVE  /\ Running /\ UNCHANGED <<client, session_id, producer>>
           /\ Running' => spipe' = spipe
  BY DEF ConsumerNext, ConsumerChecks, Await, SpuriousWakeup, ServeNone, ServeMount,
     WriteSessionId, ServeCall, ServeUnmount, ReplyUnmount, ClosePipe, ServeShutdown, TurnOff,
     ReplyShutdown, End, Serves, UnchangedByThreads, clients, Reply, Close, Exit, Running

\* A client's pipe is opened without a reply.
LEMMA MountOpens ==
    ASSUME IndInv, ServeMount(Last)
    PROVE  /\ \A d \in Clients : fifo'[d].replies = fifo[d].replies
           /\ Running' =>
                \/ fifo' = fifo /\ consumer'[Last].at \in {"opening", "stuck"}
                \/ consumer'[Last].at = "opened"
<1> USE BaseFacts DEF IndInv
<1> DEFINE c == buffer[Last].pipename
<1>1. c \in Clients /\ fifo \in [Clients -> Fifos] /\ fifo[c].state \in {"none", "made", "open", "closed"}
  BY DEF ServeMount, Serves, Fifos
<1>2. CASE fifo[c].state = "none"
  BY <1>2 DEF ServeMount, Exit, Running
<1>3. CASE fifo[c].state = "open"
  <2>1. fifo' = [fifo EXCEPT ![c].opened = TRUE] /\ consumer'[Last].at = "opened"
    BY <1>3 DEF ServeMount, Goto, At
  <2> HIDE DEF c
  <2>2. \A d \in Clients : fifo[d] \in Fifos
                         /\ fifo'[d] \in {fifo[d], [fifo[d] EXCEPT !.opened = TRUE]}
    BY <1>1, <2>1
  <2>3. \A d \in Clients : fifo'[d].replies = fifo[d].replies
    BY <2>2 DEF Fifos
  <2> QED
    BY <2>1, <2>3
<1>4. CASE fifo[c].state \in {"made", "closed"}
  BY <1>4 DEF ServeMount, At
<1> QED
  BY <1>1, <1>2, <1>3, <1>4

\* The steps of the consumer.
LEMMA ConsumerNumber ==
    ASSUME OnlySignals, IndInv, OwnNumber, ConsumerNext(Last)
    PROVE  OwnNumber'
<1>1. Running /\ UNCHANGED <<client, session_id>>
  BY ConsumerFrame
<1>2. ServerInv
  BY <1>1 DEF IndInv
<1>3. CASE \A d \in Clients : fifo'[d].replies = fifo[d].replies
  BY <1>1, <1>3 DEF OwnNumber
<1>4. CASE ServeMount(Last)
  BY <1>3, <1>4, MountOpens
<1>5. CASE fifo' = fifo
  BY <1>3, <1>5
<1>6. ASSUME NEW op \in {"mount", "call", "unmount", "shutdown"}, Delivers(Last, op),
             Live(Target(Last)) /\ client[Target(Last)] = "reading" =>
                 op = "mount" /\ fifo[Target(Last)].replies = <<>>
      PROVE  OwnNumber'
  BY <1>1, <1>6, DeliversNumber
<1>7. CASE WriteSessionId(Last) /\ fifo' # fifo
  <2>1. Delivers(Last, "mount") /\ consumer[Last].at = "opened"
    BY <1>7 DEF WriteSessionId, Reply
  <2>2. Target(Last) \in Clients
    BY <2>1 DEF Delivers
  <2>3. On
    BY <1>2, <2>1 DEF ServerInv, PlacesInv
  <2>4. Live(Target(Last)) /\ client[Target(Last)] = "reading" => fifo[Target(Last)].replies = <<>>
    BY <1>2, <2>1, <2>2, <2>3 DEF ServerInv, RepliedQuiet, Quiet, Idle, Readers
  <2> QED
    BY <1>6, <2>1, <2>4
<1>8. CASE ServeCall(Last) /\ fifo' # fifo
  <2>1. Delivers(Last, "call") /\ consumer[Last].at = "woken"
    BY <1>8 DEF ServeCall, Serves, Reply
  <2>2. Target(Last) \in Clients
    BY <2>1 DEF Delivers
  <2>3. On
    BY <1>2, <2>1 DEF ServerInv, PlacesInv
  <2>4. ~(Live(Target(Last)) /\ client[Target(Last)] = "reading")
    BY <1>2, <2>1, <2>2, <2>3 DEF ServerInv, RepliedQuiet, Idle
  <2> QED
    BY <1>6, <2>1, <2>4
<1>9. CASE ReplyUnmount(Last) /\ fifo' # fifo
  <2>1. Delivers(Last, "unmount") /\ consumer[Last].at = "freed"
    BY <1>9 DEF ReplyUnmount
  <2>2. Target(Last) \in Clients
    BY <2>1 DEF Delivers
  <2>3. On
    BY <1>2, <2>1 DEF ServerInv, PlacesInv
  <2>4. ~Live(Target(Last))
    BY <1>2, <2>1, <2>2, <2>3 DEF ServerInv, NoneLeft, NoneLive
  <2> QED
    BY <1>6, <2>1, <2>4
<1>10. CASE ReplyShutdown(Last) /\ fifo' # fifo
  <2>1. Delivers(Last, "shutdown") /\ consumer[Last].at = "off"
    BY <1>10 DEF ReplyShutdown, Reply
  <2>2. Target(Last) \in Clients
    BY <2>1 DEF Delivers
  <2>3. ~(Live(Target(Last)) /\ client[Target(Last)] = "reading")
    BY <1>2, <2>1, <2>2 DEF ServerInv, OwnRequest
  <2> QED
    BY <1>6, <2>1, <2>3
<1>11. CASE ConsumerChecks(Last) \/ Await(Last) \/ SpuriousWakeup(Last) \/ ServeNone(Last)
            \/ ServeUnmount(Last) \/ ClosePipe(Last) \/ ServeShutdown(Last) \/ TurnOff(Last) \/ End(Last)
  <2>1. fifo' = fifo
    BY <1>11 DEF ConsumerChecks, Await, SpuriousWakeup, ServeNone, ServeUnmount, ClosePipe,
       ServeShutdown, TurnOff, End
  <2> QED
    BY <1>5, <2>1
<1> QED
  BY <1>4, <1>5, <1>7, <1>8, <1>9, <1>10, <1>11 DEF ConsumerNext

-----------------------------------------------------------------------------
(* The other sessions stay out of it.                                      *)

\* No step of a client brings them back, or sends a request to one of them.
LEMMA ClientApart ==
    ASSUME OnlySignals, IndInv, Apart, OwnNumber, Running, NEW c \in Clients, ClientNext(c)
    PROVE  Apart'
<1> USE BaseFacts DEF IndInv
<1>1. OthersTaken /\ Addressed /\ NoneReading /\ ServerInv
  BY DEF Apart
<1>2. UNCHANGED <<status, session_status, producer>>
  BY DEF ClientNext, UnlinkOld, SendMount, OpenFifo, ReadSessionId, Call, ReadReply, SendUnmount,
     ClosePipes, UnlinkFifo, Die, sessions, threads
<1>3. \A s \in Sessions : consumer[s].at = "waiting" => consumer'[s] = consumer[s] /\ cpipe'[s] = cpipe[s]
  BY DEF ClientNext, UnlinkOld, SendMount, OpenFifo, ReadSessionId, Call, ReadReply, SendUnmount,
     ClosePipes, UnlinkFifo, Die, sessions, threads, CloseFifo, Opening
<1>4. OthersTaken'
  BY <1>1, <1>2, <1>3 DEF OthersTaken
<1>5. Addressed'
  <2>1. CASE spipe' = spipe
    BY <1>1, <1>2, <2>1 DEF Addressed, Signalling
  <2>2. ASSUME NEW r \in Requests, spipe' = Append(spipe, r), r.op_code # "mount" => r.session = Last
        PROVE  Addressed'
    <3>1. /\ Len(spipe) \in Nat /\ Len(spipe') = Len(spipe) + 1
          /\ \A i \in 1 .. Len(spipe) : spipe'[i] = spipe[i]
          /\ spipe'[Len(spipe) + 1] = r
      BY <2>2
    <3>2. 1 .. Len(spipe') = (1 .. Len(spipe)) \cup {Len(spipe) + 1}
      BY <3>1
    <3> QED
      BY <1>1, <1>2, <2>2, <3>1, <3>2 DEF Addressed, Signalling
  <2>3. CASE SendMount(c)
    <3>1. [op_code |-> "mount", pipename |-> c] \in Requests
      BY DEF Requests
    <3> QED
      BY <2>2, <2>3, <3>1 DEF SendMount, Send
  <2>4. ASSUME NEW op \in {"call", "unmount", "shutdown"}, client[c] = "mounted",
               spipe' = Append(spipe, [op_code |-> op, session |-> session_id[c]])
        PROVE  Addressed'
    <3>1. session_id[c] = Last
      BY <2>4 DEF OwnNumber
    <3>2. [op_code |-> op, session |-> session_id[c]] \in Requests
      BY <3>1 DEF Requests
    <3> QED
      BY <2>2, <2>4, <3>1, <3>2
  <2>5. CASE (\E op \in Waits : Call(c, op)) \/ SendUnmount(c)
    BY <2>4, <2>5 DEF Call, SendUnmount, Send, Waits
  <2>6. CASE UnlinkOld(c) \/ OpenFifo(c) \/ ReadSessionId(c) \/ ReadReply(c) \/ ClosePipes(c)
             \/ UnlinkFifo(c) \/ Die(c)
    BY <2>1, <2>6 DEF UnlinkOld, OpenFifo, ReadSessionId, ReadReply, ClosePipes, UnlinkFifo, Die
  <2> QED
    BY <2>3, <2>5, <2>6 DEF ClientNext
<1>6. NoneReading'
  <2>1. CASE OpenFifo(c) /\ Opening(c) # {}
    <3>1. PICK s \in Sessions : s \in Opening(c)
      BY <2>1 DEF Opening
    <3>2. s = Last /\ consumer[Last].at = "opening" /\ consumer'[Last].at = "opened"
      BY <1>1, <2>1, <3>1 DEF Opening, OthersTaken, OpenFifo, At
    <3>3. On' /\ consumer'[Last].at # "destroying"
      BY <1>1, <1>2, <3>2 DEF ServerInv, PlacesInv, On
    <3> QED
      BY <3>3 DEF NoneReading
  <2>2. ASSUME \A d \in Clients :
                   (client'[d] = "reading" /\ fifo'[d].opened)
                       => (client[d] = "reading" /\ fifo[d].opened),
               consumer'[Last].at = "destroying" => consumer[Last].at = "destroying"
        PROVE  NoneReading'
    BY <1>1, <1>2, <2>2 DEF NoneReading, On
  <2>3. CASE OpenFifo(c) /\ Opening(c) = {}
    <3>1. fifo[c] \in Fifos
      OBVIOUS
    <3>2. /\ fifo' = [fifo EXCEPT ![c] = [@ EXCEPT !.state = "open", !.opened = FALSE]]
          /\ client' = [client EXCEPT ![c] = "reading"] /\ consumer' = consumer
      BY <2>3 DEF OpenFifo
    <3>3. ~fifo'[c].opened
      BY <3>1, <3>2 DEF Fifos
    <3>4. \A d \in Clients : d # c => fifo'[d] = fifo[d] /\ client'[d] = client[d]
      BY <3>2
    <3> QED
      BY <2>2, <3>2, <3>3, <3>4
  <2>4. CASE ReadSessionId(c) \/ ReadReply(c)
    <3>1. \A d \in Clients : fifo'[d].opened = fifo[d].opened
      BY <2>4, ReplyRead DEF ReadSessionId, ReadReply
    <3>2. \A d \in Clients : client'[d] = "reading" => client[d] = "reading"
      BY <2>4 DEF ReadSessionId, ReadReply
    <3>3. consumer' = consumer
      BY <2>4 DEF ReadSessionId, ReadReply, threads
    <3> QED
      BY <2>2, <3>1, <3>2, <3>3
  <2>5. CASE (\E op \in Waits : Call(c, op)) \/ SendUnmount(c)
    <3>1. /\ fifo' = fifo /\ consumer' = consumer
          /\ \A d \in Clients : client'[d] = "reading" => client[d] = "reading"
      BY <2>5 DEF Call, SendUnmount, threads, Waits
    <3> QED
      BY <2>2, <3>1
  <2>6. CASE UnlinkOld(c) \/ SendMount(c) \/ UnlinkFifo(c)
    <3>1. /\ ~fifo'[c].opened /\ consumer' = consumer
          /\ \A d \in Clients : d # c => fifo'[d] = fifo[d] /\ client'[d] = client[d]
      BY <2>6 DEF UnlinkOld, SendMount, UnlinkFifo, threads, NoFifo, NewFifo
    <3> QED
      BY <2>2, <3>1
  <2>7. CASE ClosePipes(c) \/ Die(c)
    <3>1. /\ ~fifo'[c].opened
          /\ \A d \in Clients : d # c => fifo'[d] = fifo[d] /\ client'[d] = client[d]
      BY <2>7 DEF ClosePipes, Die, CloseFifo, ClosedFifo
    <3>2. consumer'[Last].at = "destroying" => consumer[Last].at = "destroying"
      BY <2>7 DEF ClosePipes, Die, CloseFifo, At
    <3> QED
      BY <2>2, <3>1, <3>2
  <2> QED
    BY <2>1, <2>3, <2>4, <2>5, <2>6, <2>7 DEF ClientNext
<1> QED
  BY <1>4, <1>5, <1>6 DEF Apart

\* No step of the producer claims one of them, or signals to one.
LEMMA ProducerApart ==
    ASSUME OnlySignals, IndInv, Apart, Running, ProducerNext
    PROVE  Apart'
<1> USE BaseFacts DEF IndInv
<1>1. OthersTaken /\ Addressed /\ NoneReading
  BY DEF Apart
<1>2. UNCHANGED <<status, cpipe, client, fifo>>
  BY NotFull DEF ProducerNext, ProducerChecks, ReadNothing, ReadMount, ClaimSession, ReadRequest,
     Signal, UnchangedByThreads, clients, sessions
<1>3. ASSUME spipe # <<>>, spipe' = Tail(spipe)
      PROVE  \A i \in 1 .. Len(spipe') : spipe'[i].op_code # "mount" => spipe'[i].session = Last
  <2>1. /\ Len(spipe) \in Nat /\ Len(spipe) > 0 /\ Len(spipe') = Len(spipe) - 1
        /\ \A i \in 1 .. Len(spipe') : spipe'[i] = spipe[i + 1] /\ i + 1 \in 1 .. Len(spipe)
    BY <1>3
  <2> QED
    BY <1>1, <2>1 DEF Addressed
<1>4. CASE ProducerChecks \/ ReadNothing
  <2>1. UNCHANGED <<session_status, consumer>> /\ ~Signalling'
    BY <1>4 DEF ProducerChecks, ReadNothing, sessions, Signalling, At
  <2>2. spipe' = spipe \/ spipe' = <<>>
    BY <1>4 DEF ProducerChecks, ReadNothing
  <2>3. Addressed'
    BY <1>1, <2>1, <2>2 DEF Addressed
  <2> QED
    BY <1>1, <1>2, <2>1, <2>3 DEF Apart, OthersTaken, NoneReading, On
<1>5. CASE ReadMount
  <2>1. UNCHANGED <<session_status, consumer>> /\ ~Signalling' /\ spipe # <<>> /\ spipe' = Tail(spipe)
    BY <1>5, NotFull DEF ReadMount, sessions, Signalling, claims
  <2>2. Addressed'
    BY <1>3, <2>1 DEF Addressed
  <2> QED
    BY <1>1, <1>2, <2>1, <2>2 DEF Apart, OthersTaken, NoneReading, On
<1>6. CASE ClaimSession
  <2> DEFINE s == producer.session
  <2>1. s \in Sessions /\ UNCHANGED <<spipe, consumer>>
    BY <1>6 DEF ClaimSession
  <2>2. CASE is_free(s)
    <3>1. s = Last
      BY <1>1, <2>1, <2>2 DEF is_free, OthersTaken
    <3>2. /\ session_status' = [session_status EXCEPT ![Last] = 0]
          /\ producer' = signals(Last, after_claim(Last, producer.pipename))
      BY <1>6, <2>2, <3>1 DEF ClaimSession, claim
    <3>3. Addressed' /\ OthersTaken'
      BY <1>1, <1>2, <2>1, <3>2 DEF Addressed, OthersTaken, signals
    <3> QED
      BY <1>1, <1>2, <2>1, <3>3 DEF Apart, NoneReading, On
  <2>3. CASE ~is_free(s)
    <3>1. session_status' = session_status /\ ~Signalling'
      BY <1>6, <2>3 DEF ClaimSession, after_claim, claims, At, Signalling
    <3> QED
      BY <1>1, <1>2, <2>1, <3>1 DEF Apart, Addressed, OthersTaken, NoneReading, On
  <2> QED
    BY <2>2, <2>3
<1>7. CASE ReadRequest
  <2>1. spipe # <<>> /\ Head(spipe).session = Last
    BY <1>7, FirstAddressed DEF ReadRequest
  <2>2. /\ spipe' = Tail(spipe) /\ producer'.session = Last
        /\ UNCHANGED <<session_status, consumer>>
    BY <1>7, <2>1 DEF ReadRequest, signals
  <2>3. Addressed'
    BY <1>3, <2>1, <2>2 DEF Addressed
  <2> QED
    BY <1>1, <1>2, <2>2, <2>3 DEF Apart, OthersTaken, NoneReading, On
<1>8. CASE Signal
  <2>1. /\ producer.session = Last /\ ~Signalling' /\ UNCHANGED <<session_status, spipe>>
    BY <1>1, <1>8 DEF Signal, Addressed, Signalling, sessions, Claims, At
  <2>2. consumer' = consumer \/ consumer' = [consumer EXCEPT ![Last] = At("woken")]
    BY <1>8, <2>1 DEF Signal
  <2>3. /\ \A s \in Sessions : s # Last => consumer'[s] = consumer[s]
        /\ consumer'[Last].at = "destroying" => consumer[Last].at = "destroying"
    BY <2>2 DEF At
  <2> QED
    BY <1>1, <1>2, <2>1, <2>3 DEF Apart, Addressed, OthersTaken, NoneReading, On
<1> QED
  BY <1>4, <1>5, <1>6, <1>7, <1>8 DEF ProducerNext

\* A step of the consumer of Last leaves them alone.
LEMMA ConsumerApart ==
    ASSUME OnlySignals, IndInv, Apart, ConsumerNext(Last), Running'
    PROVE  Apart'
<1> USE BaseFacts DEF IndInv
<1>1. Running /\ UNCHANGED <<client, session_id, producer, spipe>>
  BY ConsumerFrame
<1>2. OthersTaken /\ Addressed /\ NoneReading /\ ServerInv
  BY <1>1 DEF Apart
<1>3. /\ \A s \in Sessions : s # Last =>
             consumer'[s] = consumer[s] /\ session_status'[s] = session_status[s]
      /\ \A s \in Sessions : s # Last => cpipe'[s] = cpipe[s]
  BY <1>1 DEF ConsumerNext, ConsumerChecks, Await, SpuriousWakeup, ServeNone, ServeMount,
     WriteSessionId, ServeCall, ServeUnmount, ReplyUnmount, ClosePipe, ServeShutdown, TurnOff,
     ReplyShutdown, End, Reply, EndSession, Close, Exit, Goto, sessions
<1>4. OthersTaken' /\ Addressed'
  BY <1>1, <1>2, <1>3 DEF OthersTaken, Addressed, Signalling
<1>5. NoneReading'
  <2>1. ASSUME \A d \in Clients : fifo'[d].opened = fifo[d].opened, UNCHANGED status,
               consumer'[Last].at # "destroying"
        PROVE  NoneReading'
    BY <1>1, <1>2, <2>1 DEF NoneReading, On
  <2>2. CASE ServeMount(Last)
    <3>1. UNCHANGED status /\ On
      BY <1>2, <2>2 DEF ServeMount, Serves, sessions, ServerInv, PlacesInv
    <3> QED
      BY <2>1, <2>2, <3>1, MountOpens DEF NoneReading, On
  <2>3. CASE ServeShutdown(Last)
    <3>1. On /\ fifo' = fifo /\ consumer[Last].at = "woken"
      BY <1>2, <2>3 DEF ServeShutdown, Serves, ServerInv, PlacesInv
    <3>2. \A d \in Clients : client[d] = "reading" => ~fifo[d].opened
      BY <1>2, <3>1 DEF ServerInv, ReadersLive, RepliedQuiet, Readers, Idle
    <3> QED
      BY <1>1, <3>1, <3>2 DEF NoneReading
  <2>4. CASE TurnOff(Last)
    <3>1. consumer[Last].at = "destroying" /\ fifo' = fifo
      BY <2>4 DEF TurnOff
    <3> QED
      BY <1>1, <1>2, <3>1 DEF NoneReading
  <2>5. CASE ConsumerChecks(Last) \/ Await(Last) \/ SpuriousWakeup(Last) \/ ServeNone(Last)
             \/ ServeUnmount(Last) \/ ClosePipe(Last) \/ End(Last)
    <3>1. UNCHANGED <<fifo, status>> /\ consumer'[Last].at # "destroying"
      BY <1>1, <2>5 DEF ConsumerChecks, Await, SpuriousWakeup, ServeNone, ServeUnmount, ClosePipe,
         End, Close, Exit, Goto, At, sessions, Running
    <3> QED
      BY <2>1, <3>1
  <2>6. CASE WriteSessionId(Last) \/ ServeCall(Last) \/ ReplyUnmount(Last) \/ ReplyShutdown(Last)
    <3>1. UNCHANGED status /\ consumer'[Last].at # "destroying"
      BY <1>1, <2>6 DEF WriteSessionId, ServeCall, ReplyUnmount, ReplyShutdown, Reply, Exit, Goto,
         At, sessions, Running
    <3>2. fifo' = fifo \/ \E op \in {"mount", "call", "unmount", "shutdown"} : Delivers(Last, op)
      BY <2>6 DEF WriteSessionId, ServeCall, ReplyUnmount, ReplyShutdown, Reply
    <3>3. \A d \in Clients : fifo'[d].opened = fifo[d].opened
      BY <3>2, Delivered
    <3> QED
      BY <2>1, <3>1, <3>3
  <2> QED
    BY <2>2, <2>3, <2>4, <2>5, <2>6 DEF ConsumerNext
<1> QED
  BY <1>4, <1>5 DEF Apart

-----------------------------------------------------------------------------
(* The invariant holds once one session is left, and every step keeps it.   *)

Inv == IndInv /\ Apart /\ OwnNumber
LastInv == TypeInv /\ (left /\ OnlySignals => Inv)

\* What is left of the clients when one session is: nothing.
LEMMA OneLeftInv == TypeInv /\ OneLeft => Inv
<1> SUFFICES ASSUME TypeInv, OneLeft PROVE Inv
  OBVIOUS
<1> USE BaseFacts
<1>1. /\ Running /\ On /\ ~Signalling /\ ~Woken /\ Idle /\ NoRequest
      /\ \A op : op # "mount" => ~PipeHas(op)
  BY DEF OneLeft, On, Signalling, Woken, Idle, NoRequest, PipeHas
<1>2. NoneMounted /\ \A c \in Clients : ~Live(c) /\ client[c] \notin Readers \cup {"unmounting"}
  BY DEF OneLeft, NoneMounted, Live, Readers, Waits
<1>3. PipesKnown
  BY <1>2 DEF PipesKnown, NoneMounted, Readers
<1>4. PipeOpened
  <2>1. \A c \in Clients : ~fifo[c].opened
    BY <1>2 DEF NoneMounted
  <2> QED
    BY <2>1, <1>1 DEF OneLeft, PipeOpened
<1>5. OneReply
  BY <1>2 DEF OneReply, Readers
<1>6. ServerInv
  <2>1. PlacesInv /\ OneRequest
    BY <1>1 DEF PlacesInv, OneRequest, Idle, OneInPipe, NoRequest
  <2>2. OneLive /\ ReadersLive /\ NoneLeft
    BY <1>2 DEF OneLive, ReadersLive, NoneLeft, NoneLive
  <2>3. FreeQuiet
    BY <1>1 DEF FreeQuiet, Quiet
  <2>4. RepliedQuiet /\ OwnRequest
    BY <1>1, <1>2 DEF RepliedQuiet, OwnRequest, Quiet, Readers
  <2> QED
    BY <2>1, <2>2, <2>3, <2>4 DEF ServerInv
<1>7. Apart
  <2>1. Addressed
    BY <1>1 DEF Addressed, NoRequest
  <2>2. NoneReading
    BY <1>2 DEF NoneReading, Readers
  <2> QED
    BY <2>1, <2>2 DEF Apart, OneLeft
<1>8. OwnNumber
  BY <1>2 DEF OwnNumber, Readers
<1> QED
  BY <1>3, <1>4, <1>5, <1>6, <1>7, <1>8 DEF Inv, IndInv

\* Every step without a spurious wakeup keeps the invariant.
LEMMA StepInv ==
    ASSUME Inv, OnlySignals, OnlySignals', TypeInv', Next
    PROVE  Inv'
<1> USE LastAssumption DEF Inv
<1>1. CASE \E c \in Clients : ClientNext(c)
  <2>1. PICK c \in Clients : ClientNext(c)
    BY <1>1
  <2>2. IndInv' /\ OwnNumber'
    BY <2>1, ClientInv, ClientNumber
  <2>3. Apart'
    <3>1. CASE Running
      BY <2>1, <3>1, ClientApart
    <3>2. CASE ~Running
      <4>1. ~Running'
        BY <2>1, <3>2 DEF Running, ClientNext, UnlinkOld, SendMount, OpenFifo, ReadSessionId, Call,
           ReadReply, SendUnmount, ClosePipes, UnlinkFifo, Die
      <4> QED
        BY <4>1 DEF Apart
    <3> QED
      BY <3>1, <3>2
  <2> QED
    BY <2>2, <2>3
<1>2. CASE ProducerNext
  <2>1. Running
    BY <1>2 DEF ProducerNext, ProducerChecks, ReadNothing, ReadMount, ClaimSession, ReadRequest,
       Signal
  <2> QED
    BY <1>2, <2>1, ProducerInv, ProducerNumber, ProducerApart
<1>3. CASE \E s \in Sessions : ConsumerNext(s)
  <2>1. PICK s \in Sessions : ConsumerNext(s)
    BY <1>3
  <2>2. CASE s = Last
    <3>1. IndInv' /\ OwnNumber'
      BY <2>1, <2>2, ConsumerInv, ConsumerNumber
    <3>2. Running' => Apart'
      BY <2>1, <2>2, ConsumerApart
    <3>3. ~Running' => Apart'
      BY DEF Apart
    <3> QED
      BY <3>1, <3>2, <3>3
  <2>3. CASE s # Last
    <3>1. Running
      BY <2>1 DEF ConsumerNext, ConsumerChecks, Await, SpuriousWakeup, ServeNone, ServeMount,
         WriteSessionId, ServeCall, ServeUnmount, ReplyUnmount, ClosePipe, ServeShutdown, TurnOff,
         ReplyShutdown, End, Serves
    <3>2. consumer[s].at = "waiting"
      BY <2>3, <3>1 DEF Apart, OthersTaken
    <3>3. SpuriousWakeup(s)
      BY <2>1, <3>2 DEF ConsumerNext, ConsumerChecks, Await, ServeNone, ServeMount,
         WriteSessionId, ServeCall, ServeUnmount, ReplyUnmount, ClosePipe, ServeShutdown, TurnOff,
         ReplyShutdown, End, Serves
    <3> QED
      BY <3>3, NoSpuriousWakeup
  <2> QED
    BY <2>2, <2>3
<1> QED
  BY <1>1, <1>2, <1>3 DEF Next

\* So does a step that changes nothing.
LEMMA StutterInv ==
    ASSUME Inv, UNCHANGED vars
    PROVE  Inv'
<1> USE DEF vars, sessions, threads, clients, counters, Inv
<1>1. TypeInv'
  BY KeptServer, KeptDescriptors, KeptThreads, KeptPipes, KeptClients
     DEF IndInv, TypeInv, TypeOK
<1>2. PipesKnown' /\ PipeOpened' /\ OneReply'
  BY DEF IndInv, PipesKnown, PipeOpened, OneReply, NoRequest, OnlySignals
<1>3. ASSUME Running', OnlySignals' PROVE ServerInv'
  <2>1. ServerInv
    BY <1>3 DEF IndInv, Running, OnlySignals
  <2>2. \A c \in Clients : Live(c)' <=> Live(c)
    BY DEF Live
  <2>3. \A op : PipeHas(op)' <=> PipeHas(op)
    BY DEF PipeHas
  <2>4. (NoRequest' <=> NoRequest) /\ (OneInPipe' <=> OneInPipe)
    BY DEF NoRequest, OneInPipe
  <2> USE <2>1, <2>2, <2>3, <2>4 DEF ServerInv, On, Idle, Signalling, Woken, Quiet, Pending, NoneLive
  <2>5. PlacesInv' /\ NoneLeft' /\ FreeQuiet' /\ OneRequest'
    BY DEF PlacesInv, NoneLeft, FreeQuiet, OneRequest
  <2>6. OneLive' /\ ReadersLive'
    BY DEF OneLive, ReadersLive, Target
  <2>7. RepliedQuiet' /\ OwnRequest'
    BY DEF RepliedQuiet, OwnRequest
  <2> QED
    BY <2>5, <2>6, <2>7
<1>4. Apart' /\ OwnNumber'
  BY DEF Apart, OthersTaken, Addressed, NoneReading, OwnNumber, Running, On, Signalling
<1> QED
  BY <1>1, <1>2, <1>3, <1>4 DEF IndInv

\* No step takes back a wakeup without a signal.
LEMMA SignalsKept == ASSUME TypeInv, [Next]_vars, OnlySignals' PROVE OnlySignals
<1>1. spurious \in Nat
  BY DEF TypeInv, TypeOK, ClientsOK
<1>2. spurious' = spurious \/ spurious' = spurious + 1
  BY DEF Next, ClientNext, UnlinkOld, SendMount, OpenFifo, ReadSessionId, Call, ReadReply,
     SendUnmount, ClosePipes, UnlinkFifo, Die, ProducerNext, ProducerChecks, ReadNothing, ReadMount,
     ClaimSession, ReadRequest, Signal, ConsumerNext, ConsumerChecks, Await, SpuriousWakeup,
     ServeNone, ServeMount, WriteSessionId, ServeCall, ServeUnmount, ReplyUnmount, ClosePipe,
     ServeShutdown, TurnOff, ReplyShutdown, End, UnchangedByThreads, vars
<1> QED
  BY <1>1, <1>2 DEF OnlySignals

\* The invariant of the one session always holds once it is left.
THEOREM LastInvCorrect == LastSpec => []LastInv
<1>1. LastInit => LastInv
  BY InitTypes, OneLeftInv DEF LastInit, LastInv
<1>2. LastInv /\ [LastNext]_<<vars, left>> => LastInv'
  <2> SUFFICES ASSUME LastInv, [LastNext]_<<vars, left>> PROVE LastInv'
    OBVIOUS
  <2>1. [Next]_vars /\ TypeInv
    BY DEF LastNext, LastInv
  <2>2. TypeInv'
    BY <2>1, StepTypes
  <2>3. ASSUME left', OnlySignals' PROVE Inv'
    <3>1. OnlySignals
      BY <2>1, <2>3, SignalsKept
    <3>2. CASE left
      <4>1. Inv
        BY <3>1, <3>2 DEF LastInv
      <4> QED
        BY <2>1, <2>2, <2>3, <3>1, <4>1, StepInv, StutterInv
    <3>3. CASE ~left
      <4>1. OneLeft'
        BY <2>3, <3>3 DEF LastNext
      <4> QED
        BY <2>2, <4>1, OneLeftInv, PTL
    <3> QED
      BY <3>2, <3>3
  <2> QED
    BY <2>2, <2>3 DEF LastInv
<1> QED
  BY <1>1, <1>2, PTL DEF LastSpec

-----------------------------------------------------------------------------
(* What follows for the clients.                                           *)

\* A client that has mounted, and whose pipe is open, is live.
LEMMA MountedLive ==
    ASSUME IndInv, NEW c \in Clients, Mounted(c)
    PROVE  Live(c)
  BY DEF IndInv, PipesKnown, Mounted, EndOfFile, Live, Waits

\* Once one session is left, every client that calls has the number of it.
THEOREM OwnNumberCorrect == LastSpec => [](left /\ OnlySignals => OwnNumber)
<1>1. LastInv => (left /\ OnlySignals => OwnNumber)
  BY DEF LastInv, Inv
<1> QED
  BY <1>1, LastInvCorrect, PTL

\* It is never two clients': the server gives it to no second client while the
\* first is mounted, whoever dies and comes back meanwhile.
THEOREM LastExclusiveCorrect == LastSpec => []LastExclusive
<1>1. LastInv => LastExclusive
  BY MountedLive DEF LastInv, Inv, IndInv, ServerInv, OneLive, SessionExclusive, LastExclusive
<1> QED
  BY <1>1, LastInvCorrect, PTL

\* It stays taken while a client has it.
THEOREM LastTakenCorrect == LastSpec => []LastTaken
<1>1. LastInv => LastTaken
  <2> SUFFICES ASSUME Inv, Running, OnlySignals, NEW c \in Clients, Mounted(c)
               PROVE  session_id[c] \in Sessions /\ session_status[session_id[c]] = 0
    BY DEF LastInv, LastTaken, MountedSessionTaken
  <2>1. session_id[c] = Last
    BY DEF Mounted, Inv, OwnNumber
  <2> QED
    BY <2>1, LastAssumption, MountedLive DEF Inv, IndInv, ServerInv, OneLive
<1> QED
  BY <1>1, LastInvCorrect, PTL

\* Consumers serve requests only with a pipe they have opened.
THEOREM ServesWithPipeCorrect == LastSpec => [](left /\ OnlySignals => ServesWithPipe)
<1>1. LastInv => (left /\ OnlySignals => ServesWithPipe)
  BY DEF LastInv, Inv, IndInv, PipeOpened, Apart, OthersTaken, ServesWithPipe
<1> QED
  BY <1>1, LastInvCorrect, PTL

\* The producer, which writes a command buffer without its lock, never writes it
\* between its signal and the consumer's reading of it.
THEOREM LastNotOverwrittenCorrect == LastSpec => LastNotOverwritten
<1>1. ASSUME Inv, Next PROVE CommandKept
  <2> SUFFICES ASSUME OnlySignals, NEW s \in Sessions, consumer[s].at = "woken", buffer'[s] # buffer[s]
               PROVE  FALSE
    BY DEF CommandKept
  <2>1. ProducerNext
    BY <1>1 DEF Next, ClientNext, UnlinkOld, SendMount, OpenFifo, ReadSessionId, Call, ReadReply,
       SendUnmount, ClosePipes, UnlinkFifo, Die, sessions, ConsumerNext, ConsumerChecks, Await,
       SpuriousWakeup, ServeNone, ServeMount, WriteSessionId, ServeCall, ServeUnmount, ReplyUnmount,
       ClosePipe, ServeShutdown, TurnOff, ReplyShutdown, End
  <2>2. CASE ClaimSession
    <3>1. Running
      BY <2>2 DEF ClaimSession
    <3>2. s = Last
      BY <1>1, <3>1 DEF Inv, Apart, OthersTaken
    <3>3. On /\ ~Idle
      BY <1>1, <3>1, <3>2 DEF Inv, IndInv, ServerInv, PlacesInv, Idle, On
    <3>4. session_status[Last] # -1
      BY <1>1, <3>1, <3>3 DEF Inv, IndInv, ServerInv, FreeQuiet, Quiet
    <3>5. buffer \in [Sessions -> Commands] /\ producer.session \in Sessions
      BY <1>1, <2>2, BaseFacts DEF Inv, IndInv, ClaimSession
    <3>6. producer.session = Last /\ is_free(producer.session)
      BY <2>2, <3>2, <3>5 DEF ClaimSession
    <3> QED
      BY <3>4, <3>6 DEF is_free
  <2>3. CASE ReadRequest
    <3>1. Running /\ spipe # <<>> /\ Head(spipe).op_code # "mount"
      BY <2>3 DEF ReadRequest
    <3>2. s = Last
      BY <1>1, <3>1 DEF Inv, Apart, OthersTaken
    <3>3. NoRequest
      BY <1>1, <3>1, <3>2 DEF Inv, IndInv, ServerInv, PlacesInv, OneRequest, Idle, On
    <3>4. spipe \in Seq(Requests)
      BY <1>1, BaseFacts DEF Inv, IndInv
    <3>5. Head(spipe) = spipe[1] /\ 1 \in 1 .. Len(spipe)
      BY <3>1, <3>4
    <3> QED
      BY <3>1, <3>3, <3>5 DEF NoRequest
  <2>4. CASE ProducerChecks \/ ReadNothing \/ ReadMount \/ Signal
    BY <2>4 DEF ProducerChecks, ReadNothing, ReadMount, Signal, sessions
  <2> QED
    BY <2>1, <2>2, <2>3, <2>4 DEF ProducerNext
<1>2. LastInv /\ [LastNext]_<<vars, left>> => [left => CommandKept]_<<vars, left>>
  BY <1>1 DEF LastNext, LastInv, CommandKept
<1> QED
  BY <1>2, LastInvCorrect, PTL DEF LastSpec, LastNotOverwritten

\* A client that reads a reply reads that of its own request.
THEOREM LastRepliesCorrect == LastSpec => LastReplies
<1>1. ASSUME Inv PROVE ReplyMatches
  <2> SUFFICES ASSUME OnlySignals, NEW c \in Clients, ReadReply(c), fifo[c].replies # <<>>
               PROVE  Head(fifo[c].replies) = [op_code |-> client[c], session |-> session_id[c]]
    BY DEF ReplyMatches
  <2>1. client[c] \in Waits
    BY DEF ReadReply
  <2>2. session_id[c] = Last
    BY <1>1, <2>1 DEF Inv, OwnNumber
  <2> QED
    BY <1>1, <2>1, <2>2 DEF Inv, IndInv, OneReply
<1>2. LastInv /\ [LastNext]_<<vars, left>> => [left => ReplyMatches]_<<vars, left>>
  BY <1>1 DEF LastInv, ReplyMatches
<1> QED
  BY <1>2, LastInvCorrect, PTL DEF LastSpec, LastReplies
=============================================================================
