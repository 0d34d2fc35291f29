------------------------------ MODULE Protocol ------------------------------
(***************************************************************************)
(* Clients (src/src/client/client.cpp), the sessions of one server         *)
(* (src/src/server/session.cpp and server.cpp), and the TCP connections    *)
(* between them.  The server has one thread: while process_buffer handles  *)
(* the packets of a session and writes the responses, nothing else runs.   *)
(* A client makes one call at a time and may connect again.                *)
(***************************************************************************)
EXTENDS Codec

CONSTANTS
  Clients,
  RequestSizes,     \* the sizes a request may have
  ResponseSizes,    \* those of a response; 0: it cannot be serialized
  Capacity,         \* how many units a connection buffers in each direction
  MaxRequests,      \* bound on the calls of a client
  MaxConnections,   \* bound on the connections of a client
  NONE

ASSUME ProtocolAssumption ==
  /\ RequestSizes \subseteq Nat /\ ResponseSizes \subseteq Nat
  /\ \A n \in RequestSizes : n > HeaderSize
  /\ Capacity \in Nat \ {0}
  /\ MaxRequests \in Nat /\ MaxConnections \in Nat
  /\ NONE \notin Clients \X (1..MaxConnections)

VARIABLES
  client,   \* each client
  conn,     \* each connection: its two streams, and the session at its end
  server    \* the server's thread

vars == <<client, conn, server>>

Conns == Clients \X (1..MaxConnections)

(* The connection of a client, the last one it made.                       *)
Current(c) == <<c, client[c].connects>>

Outcome(status, id, response) == [status |-> status, id |-> id, response |-> response]

Min2(a, b) == IF a < b THEN a ELSE b
Take(s, n) == SubSeq(s, 1, n)
Skip(s, n) == SubSeq(s, n + 1, Len(s))

-----------------------------------------------------------------------------
(* The client.                                                             *)

(* connect; the session is made by the server's do_accept.  On an open     *)
(* client, or without a server, it throws and changes nothing.             *)
Connect(c) ==
  LET n == client[c].connects + 1 IN
  /\ client[c].pc = "idle" /\ ~client[c].connected
  /\ server.up
  /\ n <= MaxConnections
  /\ client' = [client EXCEPT ![c].connected = TRUE, ![c].connects = n, ![c].buffer = <<>>]
  /\ conn' = [conn EXCEPT ![<<c, n>>].open = TRUE, ![<<c, n>>].session = "open"]
  /\ UNCHANGED server

Disconnect(c) ==
  /\ client[c].pc = "idle" /\ client[c].connected
  /\ client' = [client EXCEPT ![c].connected = FALSE, ![c].buffer = <<>>]
  /\ conn' = [conn EXCEPT ![Current(c)].open = FALSE]
  /\ UNCHANGED server

(* execute: the request takes its id even if there is no connection.       *)
Execute(c, request) ==
  /\ client[c].pc = "idle"
  /\ client[c].next_request_id <= MaxRequests
  /\ request.id = client[c].next_request_id
  /\ client' =
       IF client[c].connected
       THEN [client EXCEPT ![c].next_request_id = @ + 1,
                           ![c].pc = "sending", ![c].rest = Units(request)]
       ELSE [client EXCEPT ![c].next_request_id = @ + 1,
                           ![c].outcome = Outcome("throw", request.id, 0)]
  /\ UNCHANGED <<conn, server>>

(* The end of a call, with what is left in recv_buffer_.                   *)
Ends(c, status, response, buffer) ==
  /\ client' = [client EXCEPT ![c].pc = "idle", ![c].rest = <<>>, ![c].buffer = buffer,
                  ![c].outcome = Outcome(status, client[c].next_request_id - 1, response)]
  /\ UNCHANGED <<conn, server>>

Throws(c) == Ends(c, "throw", 0, client[c].buffer)

(* write_some: as much as the connection takes; nothing arrives once the   *)
(* session is gone, and sooner or later the write fails.                   *)
Send(c) ==
  LET k == Current(c) IN
  /\ client[c].pc = "sending"
  /\ \E n \in 1..Len(client[c].rest) :
       /\ conn[k].session = "open" => Len(conn[k].up) + n <= Capacity
       /\ client' = [client EXCEPT ![c].rest = Skip(@, n),
                       ![c].pc = IF n = Len(client[c].rest) THEN "receiving" ELSE "sending"]
       /\ conn' = [conn EXCEPT ![k].up =
                     IF conn[k].session = "open" THEN @ \o Take(client[c].rest, n) ELSE @]
  /\ UNCHANGED server

SendFails(c) ==
  /\ client[c].pc = "sending"
  /\ conn[Current(c)].session # "open"
  /\ Throws(c)

(* Bug: the client drops what it could not decode.                         *)
ReceiveDropping(c) ==
  LET d == TryDecode(client[c].buffer) IN
  /\ client[c].pc = "receiving"
  /\ \/ d.status = "packet" /\ d.packet.readable /\ Ends(c, "response", d.packet.id, d.buffer)
     \/ d.status = "packet" /\ ~d.packet.readable /\ Ends(c, "throw", 0, d.buffer)
     \/ d.status = "throw" /\ Ends(c, "throw", 0, <<>>)

(* receive_response, once the packet is complete, or does not decode.      *)
Receive(c) ==
  LET d == TryDecode(client[c].buffer) IN
  /\ client[c].pc = "receiving"
  /\ \/ d.status = "packet" /\ d.packet.readable /\ Ends(c, "response", d.packet.id, d.buffer)
     \/ d.status = "packet" /\ ~d.packet.readable /\ Ends(c, "throw", 0, d.buffer)
     \/ d.status = "throw" /\ Throws(c)

(* Bug: the call gives up on a response that may still come.               *)
ReceiveTimesOut(c) ==
  /\ client[c].pc = "receiving"
  /\ TryDecode(client[c].buffer).status = "more"
  /\ Throws(c)

(* read_some, while it is not; it fails once the session is gone and the   *)
(* bytes that have arrived are read.                                       *)
ReceiveMore(c) ==
  LET k == Current(c) IN
  /\ client[c].pc = "receiving"
  /\ TryDecode(client[c].buffer).status = "more"
  /\ \E n \in 1..Len(conn[k].down) :
       /\ client' = [client EXCEPT ![c].buffer = @ \o Take(conn[k].down, n)]
       /\ conn' = [conn EXCEPT ![k].down = Skip(@, n)]
  /\ UNCHANGED server

ReceiveFails(c) ==
  /\ client[c].pc = "receiving"
  /\ TryDecode(client[c].buffer).status = "more"
  /\ conn[Current(c)].session # "open" /\ conn[Current(c)].down = <<>>
  /\ Throws(c)

ClientStep(c) ==
  Send(c) \/ SendFails(c) \/ Receive(c) \/ ReceiveMore(c) \/ ReceiveFails(c)

-----------------------------------------------------------------------------
(* The server.                                                             *)

Idle == server.up /\ server.busy = NONE

(* The handler of async_read_some: process_buffer follows.                 *)
SessionRead(k) ==
  /\ Idle
  /\ conn[k].session = "open"
  /\ \E n \in 1..Len(conn[k].up) :
       conn' = [conn EXCEPT ![k].up = Skip(@, n), ![k].buffer = @ \o Take(conn[k].up, n)]
  /\ server' = [server EXCEPT !.busy = k]
  /\ UNCHANGED client

(* It is called with an error: the client has closed its end, and what it  *)
(* sent last may be lost.  The session is destroyed.                       *)
SessionEnds(k) ==
  /\ Idle
  /\ conn[k].session = "open" /\ ~conn[k].open
  /\ conn' = [conn EXCEPT ![k].session = "closed"]
  /\ UNCHANGED <<client, server>>

(* The server is gone, and every session with it; of what it has written   *)
(* some may not arrive any more.                                           *)
Down ==
  /\ server' = [up |-> FALSE, busy |-> NONE, rest |-> <<>>]
  /\ \E arrive \in [{k \in Conns : conn[k].session = "open"} -> 0..Capacity] :
       conn' = [k \in Conns |->
                  IF conn[k].session = "open"
                  THEN [conn[k] EXCEPT !.session = "closed",
                          !.down = Take(@, Min2(Len(@), arrive[k]))]
                  ELSE conn[k]]
  /\ UNCHANGED client

(* try_decode_one has found a packet: the handler runs, the response is    *)
(* serialized.  The error response has id 0; one that cannot be serialized *)
(* is not sent at all.                                                     *)
Answer(k, d, id, executes) ==
  \E size \in ResponseSizes, readable \in BOOLEAN :
    /\ server' = [server EXCEPT
                    !.rest = Units([id |-> id, size |-> size, readable |-> readable])]
    /\ conn' = [conn EXCEPT ![k].buffer = d.buffer,
                            ![k].executed = IF executes THEN Append(@, d.packet.id) ELSE @]
    /\ UNCHANGED client

(* One turn of the loop of process_buffer; what try_decode_one throws is   *)
(* not caught there, nor by do_read, and ends io_context_.run().           *)
Process(k) ==
  LET d == TryDecode(conn[k].buffer) IN
  /\ server.busy = k /\ server.rest = <<>>
  /\ \/ /\ d.status = "more"
        /\ server' = [server EXCEPT !.busy = NONE]
        /\ UNCHANGED <<client, conn>>
     \/ d.status = "throw" /\ Down
     \/ d.status = "packet" /\ ~d.packet.readable /\ Answer(k, d, 0, FALSE)
     \/ d.status = "packet" /\ d.packet.readable /\ Answer(k, d, d.packet.id, TRUE)
     \/ (* the handler throws *)
        d.status = "packet" /\ d.packet.readable /\ Answer(k, d, 0, TRUE)

(* Bug: the write does not wait for room.                                  *)
RoomAlways(k) == Len(server.rest)

Room(k) == Min2(Len(server.rest), Capacity - Len(conn[k].down))

(* asio::write in send_response: it blocks while the connection is full;   *)
(* when the client has closed its end it throws, which is caught.          *)
Write(k) ==
  /\ server.busy = k /\ server.rest # <<>>
  /\ \/ /\ conn[k].open
        /\ \E n \in 1..Room(k) :
             /\ conn' = [conn EXCEPT ![k].down = @ \o Take(server.rest, n)]
             /\ server' = [server EXCEPT !.rest = Skip(@, n)]
     \/ /\ ~conn[k].open
        /\ server' = [server EXCEPT !.rest = <<>>]
        /\ UNCHANGED conn
  /\ UNCHANGED client

(* The process is stopped or killed, and started again.                    *)
Stop == server.up /\ Down

Start ==
  /\ ~server.up
  /\ server' = [server EXCEPT !.up = TRUE]
  /\ UNCHANGED <<client, conn>>

-----------------------------------------------------------------------------
Init ==
  /\ client = [c \in Clients |->
       [pc |-> "idle", connected |-> FALSE, connects |-> 0, buffer |-> <<>>, rest |-> <<>>,
        next_request_id |-> 1, outcome |-> Outcome("none", 0, 0)]]
  /\ conn = [k \in Conns |->
       [open |-> FALSE, session |-> "none", up |-> <<>>, down |-> <<>>, buffer |-> <<>>,
        executed |-> <<>>]]
  /\ server = [up |-> TRUE, busy |-> NONE, rest |-> <<>>]

Requests == [id : 1..MaxRequests, size : RequestSizes, readable : BOOLEAN]

Next ==
  \/ \E c \in Clients :
       \/ Connect(c) \/ Disconnect(c)
       \/ \E request \in Requests : Execute(c, request)
       \/ ClientStep(c)
  \/ \E k \in Conns : SessionRead(k) \/ SessionEnds(k) \/ Process(k) \/ Write(k)
  \/ Stop \/ Start

Spec == Init /\ [][Next]_vars

(* A client that has called goes on; so does the thread of the server.     *)
(* io_context runs the handlers of sessions that are ready in turn, so no  *)
(* session is passed over for ever because others are served in between.   *)
(* Nobody has to connect, call, stop or start.                             *)
Fairness ==
  /\ \A c \in Clients : WF_vars(ClientStep(c))
  /\ \A k \in Conns : WF_vars(Process(k)) /\ WF_vars(Write(k)) /\ SF_vars(SessionRead(k))

FairSpec == Spec /\ Fairness

-----------------------------------------------------------------------------
(* Properties.                                                             *)

Packets == [id : 0..MaxRequests, size : RequestSizes \cup ResponseSizes, readable : BOOLEAN]
Streams == Seq([packet : Packets, part : Nat])

TypeOK ==
  /\ client \in [Clients -> [pc : {"idle", "sending", "receiving"}, connected : BOOLEAN,
       connects : 0..MaxConnections, buffer : Streams, rest : Streams,
       next_request_id : 1..MaxRequests + 1,
       outcome : [status : {"none", "response", "throw"}, id : 0..MaxRequests,
                  response : 0..MaxRequests]]]
  /\ conn \in [Conns -> [open : BOOLEAN, session : {"none", "open", "closed"},
       up : Streams, down : Streams, buffer : Streams, executed : Seq(1..MaxRequests)]]
  /\ server \in [up : BOOLEAN, busy : Conns \cup {NONE}, rest : Streams]
  /\ \A k \in Conns : Len(conn[k].up) <= Capacity /\ Len(conn[k].down) <= Capacity

Executed(c) ==
  UNION {{conn[<<c, n>>].executed[i] : i \in DOMAIN conn[<<c, n>>].executed} :
           n \in 1..MaxConnections}

(* Clients, sessions and connections together do what Rpc says, through    *)
(* split and delayed packets, failed calls, new connections and restarts   *)
(* of the server, though no client looks at the id of a response.          *)
R == INSTANCE Rpc WITH
       issued   <- [c \in Clients |-> client[c].next_request_id - 1],
       pending  <- [c \in Clients |->
                      IF client[c].pc = "idle" THEN 0 ELSE client[c].next_request_id - 1],
       executed <- [c \in Clients |-> Executed(c)],
       outcome  <- [c \in Clients |-> client[c].outcome]
ImplementsRpc == R!Spec

(* A session executes the requests of its connection in the order they     *)
(* were made, each once; and only a request left behind on an earlier      *)
(* connection is executed after a later request of the client.             *)
ExecutesInOrder ==
  \A k \in Conns :
    LET old == conn[k].executed
        new == conn'[k].executed
    IN  new # old =>
          LET id == new[Len(new)] IN
          /\ \A i \in DOMAIN old : old[i] < id
          /\ (\E later \in Executed(k[1]) : later > id) => k[2] < client[k[1]].connects

OvertakenOnlyIfAbandoned == [][ExecutesInOrder]_vars

(* Once a response has not decoded, no call on that connection returns a   *)
(* response again, since the bytes stay in the buffer: only disconnect and *)
(* connect help.                                                           *)
StaysStuck ==
  \A c \in Clients :
    TryDecode(client[c].buffer).status = "throw" /\ client'[c].connected =>
      /\ TryDecode(client'[c].buffer).status = "throw"
      /\ client'[c].outcome # client[c].outcome => client'[c].outcome.status = "throw"

StuckUntilReconnect == [][StaysStuck]_vars

(* Every call ends, by a response or an exception, if responses can be     *)
(* serialized and fit kMaxPacketSize; whatever the requests are, and       *)
(* however often the server goes down.                                     *)
CallsEnd == \A c \in Clients : client[c].pc # "idle" ~> client[c].pc = "idle"

=============================================================================
