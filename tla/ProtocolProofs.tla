--------------------------- MODULE ProtocolProofs ---------------------------
(***************************************************************************)
(* Theorems about clients and sessions, for every number of clients,       *)
(* connections and requests, every size of packets and every capacity.     *)
(* Two facts carry them: what a connection holds of unprocessed requests   *)
(* is in the order of the request ids (OrderInv), and what it holds of     *)
(* responses is a part of the one response that its client waits for,      *)
(* unless it is beyond use (ReplyInv).                                     *)
(***************************************************************************)
EXTENDS Protocol, SequenceTheorems, TLAPS

Unit == [packet : Packets, part : Nat]

(* The units of requests between the client and the handler.               *)
Rest(k) == IF k[2] = client[k[1]].connects THEN client[k[1]].rest ELSE <<>>
Unprocessed(k) == (conn[k].buffer \o conn[k].up) \o Rest(k)

(* Those of responses between the handler and the client.                  *)
Written(k) == IF server.busy = k THEN server.rest ELSE <<>>
InTransit(c, k) == (client[c].buffer \o conn[k].down) \o Written(k)

-----------------------------------------------------------------------------
(* The inductive invariant.                                                *)

ClientInv ==
  \A c \in Clients :
    /\ client[c].pc # "idle" => client[c].connected /\ client[c].next_request_id > 1
    /\ client[c].pc = "sending" <=> client[c].rest # <<>>
    /\ client[c].connected => client[c].connects > 0 /\ conn[Current(c)].open
    /\ ~client[c].connected => client[c].buffer = <<>>

ServerInv ==
  /\ server.busy # NONE => conn[server.busy].session = "open"
  /\ server.busy = NONE => server.rest = <<>>

(* Connections that were not made yet.                                     *)
FreshInv ==
  \A k \in Conns : k[2] > client[k[1]].connects =>
    /\ conn[k].session = "none"
    /\ conn[k].up = <<>> /\ conn[k].down = <<>> /\ conn[k].buffer = <<>>
    /\ conn[k].executed = <<>>

(* A stream of requests: each packet whole or cut, in the order of the ids.*)
Ordered(s) ==
  /\ \A i \in DOMAIN s : s[i].packet.id > 0 /\ s[i].part <= s[i].packet.size
  /\ \A i, j \in DOMAIN s : i < j =>
       \/ s[i].packet.id < s[j].packet.id
       \/ s[i].packet = s[j].packet /\ s[j].part = s[i].part + (j - i)

UnprocessedIds(k) ==
  IF conn[k].session = "open"
  THEN {Unprocessed(k)[i].packet.id : i \in DOMAIN Unprocessed(k)} ELSE {}
ExecutedIds(k) == {conn[k].executed[i] : i \in DOMAIN conn[k].executed}
IdsOn(k) == ExecutedIds(k) \cup UnprocessedIds(k)

OrderInv ==
  \A k \in Conns :
    /\ conn[k].session = "open" => Ordered(Unprocessed(k))
    /\ \A x \in ExecutedIds(k), y \in UnprocessedIds(k) : x < y
    /\ \A x \in IdsOn(k) : x < client[k[1]].next_request_id
    /\ \A l \in Conns : l[1] = k[1] /\ l[2] < k[2] =>
         \A x \in IdsOn(l), y \in IdsOn(k) : x < y

OrderlyInv == TypeOK /\ ClientInv /\ ServerInv /\ FreshInv /\ OrderInv

(* On k, the connection of c, nothing is on its way, in either direction,  *)
(* but the request of the call.                                            *)
Requested(c, k) ==
  /\ conn[k].session = "open"
  /\ InTransit(c, k) = <<>>
  /\ client[c].pc = "idle" => Unprocessed(k) = <<>>
  /\ client[c].pc # "idle" =>
       \E request \in Packets :
         request.id = client[c].next_request_id - 1 /\ Unprocessed(k) = Units(request)

(* The request was processed; a part of its response is on its way.        *)
Answered(c, k) ==
  /\ client[c].pc = "receiving"
  /\ conn[k].session = "open" => Unprocessed(k) = <<>>
  /\ \E response \in Packets : \E n \in 0..response.size :
       /\ InTransit(c, k) = Take(Units(response), n)
       /\ response.id # 0 =>
            response.id = client[c].next_request_id - 1 /\ response.id \in Executed(c)

(* No response will be read from the connection any more.                  *)
Stuck(c) == TryDecode(client[c].buffer).status = "throw"
Dead(c, k) ==
  /\ conn[k].session # "open" /\ conn[k].down = <<>>
  /\ TryDecode(client[c].buffer).status = "more"

Reply(c, k) == Requested(c, k) \/ Answered(c, k) \/ Stuck(c) \/ Dead(c, k)

ReplyInv == \A c \in Clients : client[c].connected => Reply(c, Current(c))

IInv == OrderlyInv /\ ReplyInv

-----------------------------------------------------------------------------
(* Sequences.                                                              *)

LEMMA Concat ==
  ASSUME NEW S, NEW s \in Seq(S), NEW t \in Seq(S)
  PROVE  /\ s \o t \in Seq(S)
         /\ Len(s \o t) = Len(s) + Len(t)
         /\ \A i \in DOMAIN (s \o t) : (s \o t)[i] = IF i <= Len(s) THEN s[i] ELSE t[i - Len(s)]
         /\ s \o <<>> = s /\ <<>> \o s = s
         /\ s \o t = <<>> <=> s = <<>> /\ t = <<>>
<1>1. /\ s \o t \in Seq(S) /\ Len(s \o t) = Len(s) + Len(t)
      /\ \A i \in 1..Len(s) + Len(t) :
           (s \o t)[i] = IF i <= Len(s) THEN s[i] ELSE t[i - Len(s)]
  BY ConcatProperties
<1>2. DOMAIN (s \o t) = 1..Len(s) + Len(t)
  BY <1>1, LenProperties
<1>3. s \o <<>> = s /\ <<>> \o s = s
  BY ConcatEmptySeq
<1>4. s \o t = <<>> <=> s = <<>> /\ t = <<>>
  BY ConcatEqualIffEmpty
<1> QED
  BY <1>1, <1>2, <1>3, <1>4

LEMMA TakeSkip ==
  ASSUME NEW S, NEW s \in Seq(S), NEW n \in 0..Len(s)
  PROVE  /\ Take(s, n) \in Seq(S) /\ Len(Take(s, n)) = n
         /\ Skip(s, n) \in Seq(S) /\ Len(Skip(s, n)) = Len(s) - n
         /\ \A i \in 1..n : Take(s, n)[i] = s[i]
         /\ \A i \in 1..Len(s) - n : Skip(s, n)[i] = s[i + n]
         /\ Take(s, n) \o Skip(s, n) = s
<1>0. Len(s) \in Nat /\ n \in Nat /\ n <= Len(s) /\ n \in Int
      /\ \A i \in 1..Len(s) : s[i] \in S
  BY LenProperties
<1>1. /\ Take(s, n) \in Seq(S) /\ Len(Take(s, n)) = n
      /\ \A i \in 1..n : Take(s, n)[i] = s[i]
  <2>1. \A i \in 1..n : s[i] \in S
    BY <1>0
  <2>2. /\ SubSeq(s, 1, n) \in Seq(S)
        /\ Len(SubSeq(s, 1, n)) = IF 1 <= n THEN n - 1 + 1 ELSE 0
        /\ \A i \in 1..n - 1 + 1 : SubSeq(s, 1, n)[i] = s[1 + i - 1]
    BY <2>1, <1>0, SubSeqProperties
  <2> QED
    BY <2>2, <1>0 DEF Take
<1>2. /\ Skip(s, n) \in Seq(S) /\ Len(Skip(s, n)) = Len(s) - n
      /\ \A i \in 1..Len(s) - n : Skip(s, n)[i] = s[i + n]
  <2> DEFINE m == n + 1
             l == Len(s)
  <2>0. m \in Int /\ l \in Int
    BY <1>0
  <2>1. \A i \in m..l : s[i] \in S
    BY <1>0
  <2> HIDE DEF m, l
  <2>2. /\ SubSeq(s, m, l) \in Seq(S)
        /\ Len(SubSeq(s, m, l)) = IF m <= l THEN l - m + 1 ELSE 0
        /\ \A i \in 1..l - m + 1 : SubSeq(s, m, l)[i] = s[m + i - 1]
    BY <2>0, <2>1, SubSeqProperties
  <2> QED
    BY <2>2, <1>0 DEF Skip, m, l
<1>3. Take(s, n) \o Skip(s, n) = s
  <2>1. /\ 1 \in 1..Len(s) + 1 /\ n \in 1 - 1..Len(s) /\ Len(s) \in n..Len(s)
    BY <1>0
  <2>2. SubSeq(s, 1, n) \o SubSeq(s, n + 1, Len(s)) = SubSeq(s, 1, Len(s))
    BY <2>1, ConcatAdjacentSubSeq
  <2> QED
    BY <2>2, SubSeqFull DEF Take, Skip
<1> QED
  BY <1>1, <1>2, <1>3

-----------------------------------------------------------------------------
(* The codec.                                                              *)

LEMMA UnitsOf ==
  ASSUME NEW packet \in Packets
  PROVE  /\ Units(packet) \in Seq(Unit)
         /\ Len(Units(packet)) = packet.size
         /\ DOMAIN Units(packet) = 1..packet.size
         /\ \A i \in 1..packet.size : Units(packet)[i] = [packet |-> packet, part |-> i]
<1>1. packet.size \in Nat
  BY ProtocolAssumption DEF Packets
<1>2. \A i \in 1..packet.size : [packet |-> packet, part |-> i] \in Unit
  BY <1>1 DEF Unit
<1>3. Units(packet) \in [1..packet.size -> Unit]
  BY <1>2 DEF Units
<1>4. Units(packet) \in Seq(Unit)
  BY <1>1, <1>3, SeqDef
<1> QED
  BY <1>1, <1>3, <1>4, LenProperties DEF Units

LEMMA Decodes ==
  ASSUME NEW buffer \in Seq(Unit)
  PROVE  /\ TryDecode(buffer).status \in {"more", "throw", "packet"}
         /\ TryDecode(buffer).buffer \in Seq(Unit)
         /\ TryDecode(buffer).status = "packet" =>
              /\ TryDecode(buffer).packet \in Packets
              /\ TryDecode(buffer).packet.size > 0
              /\ buffer = Units(TryDecode(buffer).packet) \o TryDecode(buffer).buffer
<1> DEFINE packet == buffer[1].packet
<1>0. Len(buffer) \in Nat /\ HeaderSize \in Nat \ {0} /\ MaxPacketSize \in Nat
  BY LenProperties, SizesAssumption
<1>1. CASE Len(buffer) < HeaderSize
  BY <1>1 DEF TryDecode, Decoded
<1>2. CASE ~(Len(buffer) < HeaderSize)
  <2>1. packet \in Packets /\ packet.size \in Nat
    <3>1. buffer[1] \in Unit
      BY <1>0, <1>2, ElementOfSeq
    <3> QED
      BY <3>1, ProtocolAssumption DEF Unit, Packets
  <2> HIDE DEF packet
  <2>2. CASE ~HeaderOk(buffer)
    BY <1>2, <2>2 DEF TryDecode, Decoded
  <2>3. CASE HeaderOk(buffer) /\ Len(buffer) < packet.size
    BY <1>2, <2>3 DEF TryDecode, Decoded, packet
  <2>4. CASE HeaderOk(buffer) /\ ~(Len(buffer) < packet.size) /\ ~BodyOk(buffer, packet)
    BY <1>2, <2>4 DEF TryDecode, Decoded, packet
  <2>5. CASE HeaderOk(buffer) /\ ~(Len(buffer) < packet.size) /\ BodyOk(buffer, packet)
    <3>1. TryDecode(buffer) = Decoded("packet", packet, Skip(buffer, packet.size))
      BY <1>2, <2>5 DEF TryDecode, packet, Skip
    <3>2. packet.size \in 0..Len(buffer) /\ packet.size > 0
      BY <1>0, <2>1, <2>5 DEF HeaderOk, packet
    <3>3. Take(buffer, packet.size) = Units(packet)
      BY <2>5 DEF BodyOk, Take
    <3>4. /\ Skip(buffer, packet.size) \in Seq(Unit)
          /\ Take(buffer, packet.size) \o Skip(buffer, packet.size) = buffer
      BY <3>2, TakeSkip
    <3> QED
      BY <2>1, <3>1, <3>2, <3>3, <3>4 DEF Decoded
  <2> QED
    BY <2>2, <2>3, <2>4, <2>5
<1> QED
  BY <1>1, <1>2

-----------------------------------------------------------------------------
(* Types.                                                                  *)

ClientRecord ==
  [pc : {"idle", "sending", "receiving"}, connected : BOOLEAN,
   connects : 0..MaxConnections, buffer : Seq(Unit), rest : Seq(Unit),
   next_request_id : 1..MaxRequests + 1,
   outcome : [status : {"none", "response", "throw"}, id : 0..MaxRequests,
              response : 0..MaxRequests]]
ConnRecord ==
  [open : BOOLEAN, session : {"none", "open", "closed"},
   up : Seq(Unit), down : Seq(Unit), buffer : Seq(Unit), executed : Seq(1..MaxRequests)]
ServerRecord == [up : BOOLEAN, busy : Conns \cup {NONE}, rest : Seq(Unit)]
Capacities == \A k \in Conns : Len(conn[k].up) <= Capacity /\ Len(conn[k].down) <= Capacity

LEMMA Types ==
  TypeOK <=> /\ client \in [Clients -> ClientRecord] /\ conn \in [Conns -> ConnRecord]
             /\ server \in ServerRecord /\ Capacities
BY DEF TypeOK, Streams, Unit, ClientRecord, ConnRecord, ServerRecord, Capacities

LEMMA Constants ==
  /\ Capacity \in Nat \ {0} /\ MaxRequests \in Nat /\ MaxConnections \in Nat
  /\ NONE \notin Conns
  /\ \A c \in Clients, n \in 1..MaxConnections : <<c, n>> \in Conns
  /\ \A k \in Conns : k[1] \in Clients /\ k[2] \in 1..MaxConnections /\ k = <<k[1], k[2]>>
  /\ Requests \subseteq Packets
BY ProtocolAssumption DEF Conns, Requests, Packets

LEMMA InitTyped == Init => TypeOK
<1> SUFFICES ASSUME Init PROVE TypeOK
  OBVIOUS
<1> USE Constants
<1>1. <<>> \in Seq(Unit) /\ <<>> \in Seq(1..MaxRequests) /\ Len(<<>>) = 0
  BY EmptySeq
<1>2. client \in [Clients -> ClientRecord]
  BY <1>1 DEF Init, ClientRecord, Outcome
<1>3. conn \in [Conns -> ConnRecord] /\ Capacities
  BY <1>1 DEF Init, ConnRecord, Capacities
<1>4. server \in ServerRecord
  BY <1>1 DEF Init, ServerRecord
<1> QED
  BY <1>2, <1>3, <1>4, Types

LEMMA EndsTyped ==
  ASSUME TypeOK, NEW c \in Clients, NEW status \in {"response", "throw"},
         NEW response \in 0..MaxRequests, NEW buffer \in Seq(Unit),
         Ends(c, status, response, buffer)
  PROVE  TypeOK'
<1> USE Constants
<1>1. client[c].next_request_id - 1 \in 0..MaxRequests
  BY Types DEF ClientRecord
<1>2. client' \in [Clients -> ClientRecord]
  <2> DEFINE outcome == Outcome(status, client[c].next_request_id - 1, response)
             r == [client[c] EXCEPT !.pc = "idle", !.rest = <<>>, !.buffer = buffer,
                     !.outcome = outcome]
  <2>1. outcome \in [status : {"none", "response", "throw"}, id : 0..MaxRequests,
                     response : 0..MaxRequests]
    BY <1>1 DEF Outcome
  <2> HIDE DEF outcome
  <2>2. client[c] \in ClientRecord /\ <<>> \in Seq(Unit)
    BY Types, EmptySeq
  <2>3. r \in ClientRecord
    BY <2>1, <2>2 DEF ClientRecord
  <2>4. client' = [client EXCEPT ![c] = r]
    BY Types DEF Ends, outcome
  <2> QED
    BY <2>3, <2>4, Types
<1> QED
  BY <1>2, Types DEF Ends, Types, TypeOK, Streams, Unit, ClientRecord

LEMMA ThrowsTyped ==
  ASSUME TypeOK, NEW c \in Clients, Throws(c)
  PROVE  TypeOK'
<1>1. client[c].buffer \in Seq(Unit)
  BY Types DEF ClientRecord
<1> QED
  BY <1>1, EndsTyped, Constants DEF Throws

LEMMA TypesPrime ==
  (TypeOK)' <=> /\ client' \in [Clients -> ClientRecord] /\ conn' \in [Conns -> ConnRecord]
                /\ server' \in ServerRecord /\ Capacities'
BY DEF TypeOK, Streams, Unit, ClientRecord, ConnRecord, ServerRecord, Capacities

LEMMA ClientUpdateTyped ==
  ASSUME TypeOK, NEW c \in Clients, NEW r \in ClientRecord, client' = [client EXCEPT ![c] = r]
  PROVE  client' \in [Clients -> ClientRecord]
BY Types

LEMMA ConnUpdateTyped ==
  ASSUME TypeOK, NEW k \in Conns, NEW q \in ConnRecord, conn' = [conn EXCEPT ![k] = q],
         Len(q.up) <= Capacity, Len(q.down) <= Capacity
  PROVE  conn' \in [Conns -> ConnRecord] /\ Capacities'
<1>1. conn \in [Conns -> ConnRecord] /\ Capacities
  BY Types
<1> QED
  BY <1>1 DEF Capacities

LEMMA ConnTyped ==
  ASSUME TypeOK, NEW k \in Conns
  PROVE  /\ conn[k] \in ConnRecord
         /\ conn[k].up \in Seq(Unit) /\ conn[k].down \in Seq(Unit) /\ conn[k].buffer \in Seq(Unit)
         /\ Len(conn[k].up) \in 0..Capacity /\ Len(conn[k].down) \in 0..Capacity
<1>1. conn[k] \in ConnRecord /\ Len(conn[k].up) <= Capacity /\ Len(conn[k].down) <= Capacity
  BY Types DEF Capacities
<1>2. conn[k].up \in Seq(Unit) /\ conn[k].down \in Seq(Unit) /\ conn[k].buffer \in Seq(Unit)
  BY <1>1 DEF ConnRecord
<1> QED
  BY <1>1, <1>2, LenProperties, Constants

LEMMA ConnectTyped ==
  ASSUME TypeOK, NEW c \in Clients, Connect(c)
  PROVE  TypeOK'
<1> USE Constants
<1> DEFINE n == client[c].connects + 1
           k == <<c, n>>
           r == [client[c] EXCEPT !.connected = TRUE, !.connects = n, !.buffer = <<>>]
           q == [conn[k] EXCEPT !.open = TRUE, !.session = "open"]
<1>1. client[c] \in ClientRecord /\ <<>> \in Seq(Unit)
  BY Types, EmptySeq
<1>2. n \in 0..MaxConnections /\ k \in Conns
  BY <1>1 DEF Connect, ClientRecord
<1>3. client' = [client EXCEPT ![c] = r] /\ conn' = [conn EXCEPT ![k] = q] /\ server' = server
  BY <1>2, Types DEF Connect
<1>4. r \in ClientRecord
  BY <1>1, <1>2 DEF ClientRecord
<1> HIDE DEF k
<1>5. q \in ConnRecord /\ Len(q.up) <= Capacity /\ Len(q.down) <= Capacity
  <2>1. conn[k] \in ConnRecord /\ Len(conn[k].up) <= Capacity /\ Len(conn[k].down) <= Capacity
    BY <1>2, ConnTyped
  <2> QED
    BY <2>1 DEF ConnRecord
<1> HIDE DEF q, r
<1> QED
  BY <1>2, <1>3, <1>4, <1>5, Types, TypesPrime, ClientUpdateTyped, ConnUpdateTyped

LEMMA DisconnectTyped ==
  ASSUME TypeOK, NEW c \in Clients, Disconnect(c), Current(c) \in Conns
  PROVE  TypeOK'
<1> DEFINE k == Current(c)
           r == [client[c] EXCEPT !.connected = FALSE, !.buffer = <<>>]
           q == [conn[k] EXCEPT !.open = FALSE]
<1>1. client[c] \in ClientRecord /\ <<>> \in Seq(Unit)
  BY Types, EmptySeq
<1>2. client' = [client EXCEPT ![c] = r] /\ conn' = [conn EXCEPT ![k] = q] /\ server' = server
  BY Types DEF Disconnect
<1>3. r \in ClientRecord
  BY <1>1 DEF ClientRecord
<1> HIDE DEF k
<1>4. q \in ConnRecord /\ Len(q.up) <= Capacity /\ Len(q.down) <= Capacity
  <2>1. conn[k] \in ConnRecord /\ Len(conn[k].up) <= Capacity /\ Len(conn[k].down) <= Capacity
    BY ConnTyped DEF k
  <2> QED
    BY <2>1 DEF ConnRecord
<1> HIDE DEF q, r
<1> QED
  BY <1>2, <1>3, <1>4, Types, TypesPrime, ClientUpdateTyped, ConnUpdateTyped DEF k

LEMMA ExecuteTyped ==
  ASSUME TypeOK, NEW c \in Clients, NEW request \in Requests, Execute(c, request)
  PROVE  TypeOK'
<1> USE Constants
<1> DEFINE id == client[c].next_request_id
           r == [client[c] EXCEPT !.next_request_id = id + 1,
                   !.pc = "sending", !.rest = Units(request)]
           o == Outcome("throw", request.id, 0)
           t == [client[c] EXCEPT !.next_request_id = id + 1, !.outcome = o]
<1>1. client[c] \in ClientRecord /\ id \in 1..MaxRequests + 1 /\ id <= MaxRequests
  BY Types DEF ClientRecord, Execute
<1>2. Units(request) \in Seq(Unit)
  BY UnitsOf
<1>3. /\ o.status = "throw" /\ o \in [status : {"none", "response", "throw"},
            id : 0..MaxRequests, response : 0..MaxRequests]
  BY DEF Outcome, Requests
<1>4. /\ client' = [client EXCEPT ![c] = r] \/ client' = [client EXCEPT ![c] = t]
      /\ conn' = conn /\ server' = server
  BY Types DEF Execute
<1> HIDE DEF o
<1>5. r \in ClientRecord /\ t \in ClientRecord
  <2>1. id + 1 \in 1..MaxRequests + 1
    BY <1>1
  <2> HIDE DEF id
  <2>2. r \in ClientRecord
    BY <1>1, <1>2, <2>1 DEF ClientRecord
  <2>3. t \in ClientRecord
    BY <1>1, <1>3, <2>1 DEF ClientRecord
  <2> QED
    BY <2>2, <2>3
<1> HIDE DEF r, t
<1>6. client' \in [Clients -> ClientRecord]
  BY <1>4, <1>5, ClientUpdateTyped
<1> QED
  BY <1>4, <1>6, Types, TypesPrime DEF Capacities

LEMMA SendTyped ==
  ASSUME TypeOK, NEW c \in Clients, Current(c) \in Conns, Send(c)
  PROVE  TypeOK'
<1> USE Constants
<1> DEFINE k == Current(c)
<1>1. client[c] \in ClientRecord /\ client[c].rest \in Seq(Unit)
  BY Types DEF ClientRecord
<1>2. PICK n \in 1..Len(client[c].rest) :
        /\ conn[k].session = "open" => Len(conn[k].up) + n <= Capacity
        /\ client' = [client EXCEPT ![c].rest = Skip(@, n),
                        ![c].pc = IF n = Len(client[c].rest) THEN "receiving" ELSE "sending"]
        /\ conn' = [conn EXCEPT ![k].up =
                      IF conn[k].session = "open" THEN @ \o Take(client[c].rest, n) ELSE @]
  BY DEF Send
<1> DEFINE pc == IF n = Len(client[c].rest) THEN "receiving" ELSE "sending"
           rest == Skip(client[c].rest, n)
           r == [client[c] EXCEPT !.rest = rest, !.pc = pc]
           up == IF conn[k].session = "open" THEN conn[k].up \o Take(client[c].rest, n)
                 ELSE conn[k].up
           q == [conn[k] EXCEPT !.up = up]
<1> HIDE DEF k
<1>3. k \in Conns /\ conn[k] \in ConnRecord
  BY ConnTyped DEF k
<1>4. n \in 0..Len(client[c].rest) /\ n \in Nat
  BY <1>1, LenProperties
<1>5. rest \in Seq(Unit) /\ Take(client[c].rest, n) \in Seq(Unit) /\ Len(Take(client[c].rest, n)) = n
  BY <1>1, <1>4, TakeSkip
<1>6. up \in Seq(Unit) /\ Len(up) <= Capacity
  <2>1. conn[k].up \in Seq(Unit) /\ Len(conn[k].up) <= Capacity
    BY <1>3, ConnTyped
  <2>2. /\ conn[k].up \o Take(client[c].rest, n) \in Seq(Unit)
        /\ Len(conn[k].up \o Take(client[c].rest, n)) = Len(conn[k].up) + n
    BY <1>5, <2>1, ConcatProperties, ZenonT(60)
  <2> QED
    BY <1>2, <2>1, <2>2
<1>7. client' = [client EXCEPT ![c] = r] /\ conn' = [conn EXCEPT ![k] = q] /\ server' = server
  BY <1>2, <1>3, Types DEF Send
<1> HIDE DEF rest, pc, up
<1>8. r \in ClientRecord
  BY <1>1, <1>5 DEF ClientRecord, pc
<1>9. q \in ConnRecord /\ Len(q.up) <= Capacity /\ Len(q.down) <= Capacity
  <2>1. conn[k] \in ConnRecord /\ Len(conn[k].down) <= Capacity
    BY <1>3, ConnTyped
  <2> QED
    BY <2>1, <1>6 DEF ConnRecord
<1> HIDE DEF r, q
<1> QED
  BY <1>3, <1>7, <1>8, <1>9, Types, TypesPrime, ClientUpdateTyped, ConnUpdateTyped

LEMMA ReceiveMoreTyped ==
  ASSUME TypeOK, NEW c \in Clients, Current(c) \in Conns, ReceiveMore(c)
  PROVE  TypeOK'
<1> DEFINE k == Current(c)
<1>1. PICK n \in 1..Len(conn[k].down) :
        /\ client' = [client EXCEPT ![c].buffer = @ \o Take(conn[k].down, n)]
        /\ conn' = [conn EXCEPT ![k].down = Skip(@, n)]
  BY DEF ReceiveMore
<1> DEFINE buffer == client[c].buffer \o Take(conn[k].down, n)
           down == Skip(conn[k].down, n)
           r == [client[c] EXCEPT !.buffer = buffer]
           q == [conn[k] EXCEPT !.down = down]
<1>2. client' = [client EXCEPT ![c] = r] /\ conn' = [conn EXCEPT ![k] = q] /\ server' = server
  BY <1>1, Types DEF ReceiveMore
<1> HIDE DEF k
<1>3. /\ k \in Conns /\ conn[k] \in ConnRecord
      /\ Len(conn[k].up) <= Capacity /\ Len(conn[k].down) \in 0..Capacity
      /\ conn[k].down \in Seq(Unit)
      /\ client[c] \in ClientRecord /\ client[c].buffer \in Seq(Unit)
  BY ConnTyped, Types DEF k, ClientRecord
<1>4. n \in 0..Len(conn[k].down) /\ n \in Nat
  BY <1>3
<1>5. /\ down \in Seq(Unit) /\ Len(down) = Len(conn[k].down) - n
      /\ Take(conn[k].down, n) \in Seq(Unit)
  BY <1>3, <1>4, TakeSkip
<1>6. buffer \in Seq(Unit)
  BY <1>3, <1>5, ConcatProperties
<1> HIDE DEF buffer, down
<1>7. r \in ClientRecord
  BY <1>3, <1>6 DEF ClientRecord
<1>8. Len(down) <= Capacity
  BY <1>3, <1>4, <1>5, Constants
<1>9. q \in ConnRecord /\ Len(q.up) <= Capacity /\ Len(q.down) <= Capacity
  BY <1>3, <1>5, <1>8 DEF ConnRecord
<1> HIDE DEF r, q
<1> QED
  BY <1>2, <1>3, <1>7, <1>9, Types, TypesPrime, ClientUpdateTyped, ConnUpdateTyped

LEMMA SessionReadTyped ==
  ASSUME TypeOK, NEW k \in Conns, SessionRead(k)
  PROVE  TypeOK'
<1>1. PICK n \in 1..Len(conn[k].up) :
        conn' = [conn EXCEPT ![k].up = Skip(@, n), ![k].buffer = @ \o Take(conn[k].up, n)]
  BY DEF SessionRead
<1> DEFINE up == Skip(conn[k].up, n)
           buffer == conn[k].buffer \o Take(conn[k].up, n)
           q == [conn[k] EXCEPT !.up = up, !.buffer = buffer]
<1>2. conn' = [conn EXCEPT ![k] = q] /\ server' = [server EXCEPT !.busy = k]
      /\ client' = client
  BY <1>1, Types DEF SessionRead
<1>3. /\ conn[k] \in ConnRecord
      /\ Len(conn[k].up) \in 0..Capacity /\ Len(conn[k].down) <= Capacity
      /\ conn[k].up \in Seq(Unit) /\ conn[k].buffer \in Seq(Unit)
  BY ConnTyped
<1>4. n \in 0..Len(conn[k].up) /\ n \in Nat
  BY <1>3
<1>5. /\ up \in Seq(Unit) /\ Len(up) = Len(conn[k].up) - n
      /\ Take(conn[k].up, n) \in Seq(Unit)
  BY <1>3, <1>4, TakeSkip
<1>6. buffer \in Seq(Unit)
  BY <1>3, <1>5, ConcatProperties
<1> HIDE DEF buffer, up
<1>7. Len(up) <= Capacity
  BY <1>3, <1>4, <1>5, Constants
<1>8. q \in ConnRecord /\ Len(q.up) <= Capacity /\ Len(q.down) <= Capacity
  BY <1>3, <1>5, <1>6, <1>7 DEF ConnRecord
<1>9. server' \in ServerRecord
  BY <1>2, Types DEF ServerRecord
<1> HIDE DEF q
<1> QED
  BY <1>2, <1>8, <1>9, Types, TypesPrime, ConnUpdateTyped

LEMMA SessionEndsTyped ==
  ASSUME TypeOK, NEW k \in Conns, SessionEnds(k)
  PROVE  TypeOK'
<1> DEFINE q == [conn[k] EXCEPT !.session = "closed"]
<1>1. conn' = [conn EXCEPT ![k] = q] /\ client' = client /\ server' = server
  BY Types DEF SessionEnds
<1>2. conn[k] \in ConnRecord /\ Len(conn[k].up) <= Capacity /\ Len(conn[k].down) <= Capacity
  BY ConnTyped
<1>3. q \in ConnRecord /\ Len(q.up) <= Capacity /\ Len(q.down) <= Capacity
  BY <1>2 DEF ConnRecord
<1> HIDE DEF q
<1> QED
  BY <1>1, <1>3, Types, TypesPrime, ConnUpdateTyped

LEMMA DownTyped ==
  ASSUME TypeOK, Down
  PROVE  TypeOK'
<1>1. PICK arrive \in [{k \in Conns : conn[k].session = "open"} -> 0..Capacity] :
        conn' = [k \in Conns |->
                   IF conn[k].session = "open"
                   THEN [conn[k] EXCEPT !.session = "closed",
                           !.down = Take(@, Min2(Len(@), arrive[k]))]
                   ELSE conn[k]]
  BY DEF Down
<1>2. ASSUME NEW k \in Conns
      PROVE  /\ conn'[k] \in ConnRecord
             /\ Len(conn'[k].up) <= Capacity /\ Len(conn'[k].down) <= Capacity
  <2>1. /\ conn[k] \in ConnRecord /\ conn[k].down \in Seq(Unit)
        /\ Len(conn[k].up) <= Capacity /\ Len(conn[k].down) \in 0..Capacity
    BY ConnTyped
  <2>2. CASE conn[k].session = "open"
    <3> DEFINE n == Min2(Len(conn[k].down), arrive[k])
               down == Take(conn[k].down, n)
    <3>1. arrive[k] \in 0..Capacity
      BY <2>2
    <3>2. n \in 0..Len(conn[k].down) /\ n <= Capacity
      BY <2>1, <3>1, Constants DEF Min2
    <3>3. down \in Seq(Unit) /\ Len(down) = n
      BY <2>1, <3>2, TakeSkip
    <3>4. conn'[k] = [conn[k] EXCEPT !.session = "closed", !.down = down]
      BY <1>1, <2>2
    <3> HIDE DEF n, down
    <3> QED
      BY <2>1, <3>2, <3>3, <3>4 DEF ConnRecord
  <2>3. CASE conn[k].session # "open"
    <3>1. conn'[k] = conn[k]
      BY <1>1, <2>3
    <3> QED
      BY <2>1, <3>1, Constants
  <2> QED
    BY <2>2, <2>3
<1>3. conn' \in [Conns -> ConnRecord]
  <2>1. DOMAIN conn' = Conns /\ conn' = [k \in Conns |-> conn'[k]]
    BY <1>1
  <2> QED
    BY <1>2, <2>1
<1>4. Capacities'
  BY <1>2 DEF Capacities
<1>5. server' \in ServerRecord /\ client' = client
  BY EmptySeq DEF Down, ServerRecord
<1> QED
  BY <1>3, <1>4, <1>5, Types, TypesPrime

LEMMA AnswerTyped ==
  ASSUME TypeOK, NEW k \in Conns, server.busy = k,
         NEW d, d.buffer \in Seq(Unit), d.packet \in Packets, d.packet.id # 0,
         NEW id \in 0..MaxRequests, NEW executes \in BOOLEAN, Answer(k, d, id, executes)
  PROVE  TypeOK'
<1> DEFINE executed == IF executes THEN Append(conn[k].executed, d.packet.id)
                       ELSE conn[k].executed
           q == [conn[k] EXCEPT !.buffer = d.buffer, !.executed = executed]
<1>1. PICK size \in ResponseSizes, readable \in BOOLEAN :
        /\ server' = [server EXCEPT
                        !.rest = Units([id |-> id, size |-> size, readable |-> readable])]
        /\ conn' = [conn EXCEPT ![k].buffer = d.buffer,
                      ![k].executed = IF executes THEN Append(@, d.packet.id) ELSE @]
        /\ UNCHANGED client
  BY DEF Answer
<1>2. Units([id |-> id, size |-> size, readable |-> readable]) \in Seq(Unit)
  <2>1. [id |-> id, size |-> size, readable |-> readable] \in Packets
    BY DEF Packets
  <2> QED
    BY <2>1, UnitsOf
<1>3. server' \in ServerRecord
  <2> DEFINE units == Units([id |-> id, size |-> size, readable |-> readable])
  <2>1. server' = [server EXCEPT !.rest = units] /\ units \in Seq(Unit)
    BY <1>1, <1>2
  <2> HIDE DEF units
  <2> QED
    BY <2>1, Types DEF ServerRecord
<1>4. conn' = [conn EXCEPT ![k] = q]
  BY <1>1, Types
<1>5. conn[k] \in ConnRecord /\ Len(conn[k].up) <= Capacity /\ Len(conn[k].down) <= Capacity
  BY ConnTyped
<1>6. executed \in Seq(1..MaxRequests)
  <2>1. conn[k].executed \in Seq(1..MaxRequests)
    BY <1>5 DEF ConnRecord
  <2>2. d.packet.id \in 1..MaxRequests
    BY Constants DEF Packets
  <2> QED
    BY <2>1, <2>2, AppendProperties
<1> HIDE DEF executed
<1>7. q \in ConnRecord /\ Len(q.up) <= Capacity /\ Len(q.down) <= Capacity
  BY <1>5, <1>6 DEF ConnRecord
<1> HIDE DEF q
<1> QED
  BY <1>1, <1>3, <1>4, <1>7, Types, TypesPrime, ConnUpdateTyped

LEMMA WriteTyped ==
  ASSUME TypeOK, NEW k \in Conns, Write(k)
  PROVE  TypeOK'
<1>1. /\ conn[k] \in ConnRecord /\ conn[k].down \in Seq(Unit)
      /\ Len(conn[k].up) <= Capacity /\ Len(conn[k].down) \in 0..Capacity
      /\ server \in ServerRecord /\ server.rest \in Seq(Unit)
  BY ConnTyped, Types DEF ServerRecord
<1>2. CASE \E n \in 1..Room(k) :
             /\ conn' = [conn EXCEPT ![k].down = @ \o Take(server.rest, n)]
             /\ server' = [server EXCEPT !.rest = Skip(@, n)]
  <2>1. PICK n \in 1..Room(k) :
          /\ conn' = [conn EXCEPT ![k].down = @ \o Take(server.rest, n)]
          /\ server' = [server EXCEPT !.rest = Skip(@, n)]
    BY <1>2
  <2> DEFINE down == conn[k].down \o Take(server.rest, n)
             rest == Skip(server.rest, n)
             q == [conn[k] EXCEPT !.down = down]
  <2>2. n \in 0..Len(server.rest) /\ n \in Nat /\ Len(conn[k].down) + n <= Capacity
    <3>1. Len(server.rest) \in Nat
      BY <1>1, LenProperties
    <3>2. /\ Room(k) \in Int /\ Room(k) <= Len(server.rest)
          /\ Room(k) <= Capacity - Len(conn[k].down)
      BY <1>1, <3>1, Constants, SMTT(30) DEF Room, Min2
    <3> QED
      BY <1>1, <3>1, <3>2, Constants, SMTT(30)
  <2>3. rest \in Seq(Unit) /\ Take(server.rest, n) \in Seq(Unit) /\ Len(Take(server.rest, n)) = n
    BY <1>1, <2>2, TakeSkip
  <2>4. down \in Seq(Unit) /\ Len(down) = Len(conn[k].down) + n
    BY <1>1, <2>3, ConcatProperties, ZenonT(60)
  <2>5. conn' = [conn EXCEPT ![k] = q] /\ server' = [server EXCEPT !.rest = rest]
    BY <2>1, Types
  <2> HIDE DEF down, rest
  <2>6. q \in ConnRecord /\ Len(q.up) <= Capacity /\ Len(q.down) <= Capacity
    BY <1>1, <2>2, <2>4 DEF ConnRecord
  <2>7. server' \in ServerRecord
    BY <1>1, <2>3, <2>5 DEF ServerRecord
  <2> HIDE DEF q
  <2> QED
    BY <2>5, <2>6, <2>7, Types, TypesPrime, ConnUpdateTyped DEF Write
<1>3. CASE server' = [server EXCEPT !.rest = <<>>] /\ UNCHANGED conn
  <2>1. server' \in ServerRecord
    BY <1>1, <1>3, EmptySeq DEF ServerRecord
  <2> QED
    BY <1>3, <2>1, Types, TypesPrime DEF Write, Capacities
<1> QED
  BY <1>2, <1>3 DEF Write

LEMMA StartTyped == ASSUME TypeOK, Start PROVE TypeOK'
<1>1. server' \in ServerRecord
  BY Types DEF Start, ServerRecord
<1> QED
  BY <1>1, Types, TypesPrime DEF Start, Capacities

LEMMA Joined ==
  ASSUME NEW s \in Seq(Unit), NEW t \in Seq(Unit), NEW u \in Seq(Unit)
  PROVE  (s \o t) \o u = s \o (t \o u)
BY ConcatAssociative

-----------------------------------------------------------------------------
(* What each action leaves as it was.                                      *)

LEMMA ConnectEffect ==
  ASSUME TypeOK, NEW c \in Clients, Connect(c)
  PROVE  /\ server' = server
         /\ \A x \in Clients \ {c} : client'[x] = client[x]
         /\ client'[c].pc = "idle" /\ client'[c].connected /\ client'[c].buffer = <<>>
         /\ client'[c].connects = client[c].connects + 1
         /\ client'[c].connects \in 1..MaxConnections
         /\ client'[c].rest = client[c].rest
         /\ client'[c].next_request_id = client[c].next_request_id
         /\ client'[c].outcome = client[c].outcome
         /\ \A k \in Conns \ {<<c, client[c].connects + 1>>} : conn'[k] = conn[k]
         /\ LET k == <<c, client[c].connects + 1>> IN
              /\ k \in Conns
              /\ conn'[k].open /\ conn'[k].session = "open"
              /\ conn'[k].up = conn[k].up /\ conn'[k].down = conn[k].down
              /\ conn'[k].buffer = conn[k].buffer /\ conn'[k].executed = conn[k].executed
<1> DEFINE n == client[c].connects + 1
           k == <<c, n>>
<1>1. client[c] \in ClientRecord /\ n \in 1..MaxConnections /\ k \in Conns
  BY Types, Constants DEF Connect, ClientRecord
<1>2. conn[k] \in ConnRecord
  BY <1>1, ConnTyped
<1> HIDE DEF k
<1>3. /\ client' = [client EXCEPT ![c] = [client[c] EXCEPT
                      !.connected = TRUE, !.connects = n, !.buffer = <<>>]]
      /\ conn' = [conn EXCEPT ![k] = [conn[k] EXCEPT !.open = TRUE, !.session = "open"]]
      /\ server' = server /\ client[c].pc = "idle"
  BY <1>1, Types DEF Connect, k
<1>4. /\ \A l \in Conns \ {k} : conn'[l] = conn[l]
      /\ conn'[k].open /\ conn'[k].session = "open"
      /\ conn'[k].up = conn[k].up /\ conn'[k].down = conn[k].down
      /\ conn'[k].buffer = conn[k].buffer /\ conn'[k].executed = conn[k].executed
  BY <1>1, <1>2, <1>3, Types DEF ConnRecord
<1> HIDE DEF n
<1>5. /\ \A x \in Clients \ {c} : client'[x] = client[x]
      /\ client'[c].pc = "idle" /\ client'[c].connected /\ client'[c].buffer = <<>>
      /\ client'[c].connects = n
      /\ client'[c].rest = client[c].rest
      /\ client'[c].next_request_id = client[c].next_request_id
      /\ client'[c].outcome = client[c].outcome
  BY <1>1, <1>3, Types DEF ClientRecord
<1> QED
  BY <1>1, <1>3, <1>4, <1>5 DEF n, k

LEMMA DisconnectEffect ==
  ASSUME TypeOK, NEW c \in Clients, Disconnect(c), Current(c) \in Conns
  PROVE  /\ server' = server
         /\ \A x \in Clients \ {c} : client'[x] = client[x]
         /\ client'[c].pc = "idle" /\ ~client'[c].connected /\ client'[c].buffer = <<>>
         /\ client'[c].connects = client[c].connects
         /\ client'[c].rest = client[c].rest
         /\ client'[c].next_request_id = client[c].next_request_id
         /\ client'[c].outcome = client[c].outcome
         /\ \A k \in Conns \ {Current(c)} : conn'[k] = conn[k]
         /\ LET k == Current(c) IN
              /\ conn'[k].session = conn[k].session
              /\ conn'[k].up = conn[k].up /\ conn'[k].down = conn[k].down
              /\ conn'[k].buffer = conn[k].buffer /\ conn'[k].executed = conn[k].executed
<1> DEFINE k == Current(c)
<1>1. client[c] \in ClientRecord /\ conn[k] \in ConnRecord /\ k \in Conns
  BY Types, ConnTyped
<1> HIDE DEF k
<1>2. /\ client' = [client EXCEPT ![c] = [client[c] EXCEPT !.connected = FALSE, !.buffer = <<>>]]
      /\ conn' = [conn EXCEPT ![k] = [conn[k] EXCEPT !.open = FALSE]]
      /\ server' = server /\ client[c].pc = "idle"
  BY <1>1, Types DEF Disconnect, k
<1>3. /\ \A l \in Conns \ {k} : conn'[l] = conn[l]
      /\ conn'[k].session = conn[k].session
      /\ conn'[k].up = conn[k].up /\ conn'[k].down = conn[k].down
      /\ conn'[k].buffer = conn[k].buffer /\ conn'[k].executed = conn[k].executed
  BY <1>1, <1>2, Types DEF ConnRecord
<1>4. /\ \A x \in Clients \ {c} : client'[x] = client[x]
      /\ client'[c].pc = "idle" /\ ~client'[c].connected /\ client'[c].buffer = <<>>
      /\ client'[c].connects = client[c].connects
      /\ client'[c].rest = client[c].rest
      /\ client'[c].next_request_id = client[c].next_request_id
      /\ client'[c].outcome = client[c].outcome
  BY <1>1, <1>2, Types DEF ClientRecord
<1> QED
  BY <1>2, <1>3, <1>4 DEF k

LEMMA ExecuteEffect ==
  ASSUME TypeOK, NEW c \in Clients, NEW request \in Requests, Execute(c, request)
  PROVE  /\ server' = server /\ conn' = conn
         /\ \A x \in Clients \ {c} : client'[x] = client[x]
         /\ client[c].pc = "idle" /\ request.id = client[c].next_request_id
         /\ client'[c].connected = client[c].connected
         /\ client'[c].connects = client[c].connects
         /\ client'[c].buffer = client[c].buffer
         /\ client'[c].next_request_id = client[c].next_request_id + 1
         /\ client[c].connected =>
              /\ client'[c].pc = "sending" /\ client'[c].rest = Units(request)
              /\ client'[c].outcome = client[c].outcome
         /\ ~client[c].connected =>
              /\ client'[c].pc = "idle" /\ client'[c].rest = client[c].rest
              /\ client'[c].outcome = Outcome("throw", request.id, 0)
<1> DEFINE id == client[c].next_request_id
           o == Outcome("throw", request.id, 0)
           units == Units(request)
<1>1. client[c] \in ClientRecord /\ id \in Nat
  BY Types, Constants DEF ClientRecord
<1>2. /\ server' = server /\ conn' = conn
      /\ client[c].pc = "idle" /\ request.id = id
      /\ client[c].connected => client' = [client EXCEPT ![c] = [client[c] EXCEPT
            !.next_request_id = id + 1, !.pc = "sending", !.rest = units]]
      /\ ~client[c].connected => client' = [client EXCEPT ![c] = [client[c] EXCEPT
            !.next_request_id = id + 1, !.outcome = o]]
  BY <1>1, Types DEF Execute
<1> HIDE DEF o, units
<1>3. CASE client[c].connected
  <2>1. client' = [client EXCEPT ![c] = [client[c] EXCEPT
            !.next_request_id = id + 1, !.pc = "sending", !.rest = units]]
    BY <1>2, <1>3
  <2> HIDE DEF id
  <2>2. /\ \A x \in Clients \ {c} : client'[x] = client[x]
        /\ client'[c].connected = client[c].connected
        /\ client'[c].connects = client[c].connects
        /\ client'[c].buffer = client[c].buffer
        /\ client'[c].next_request_id = id + 1
        /\ client'[c].pc = "sending" /\ client'[c].rest = units
        /\ client'[c].outcome = client[c].outcome
    BY <1>1, <2>1, Types DEF ClientRecord
  <2> QED
    BY <1>2, <1>3, <2>2 DEF id, units
<1>4. CASE ~client[c].connected
  <2>1. client' = [client EXCEPT ![c] = [client[c] EXCEPT !.next_request_id = id + 1,
                     !.outcome = o]]
    BY <1>2, <1>4
  <2> HIDE DEF id
  <2>2. /\ \A x \in Clients \ {c} : client'[x] = client[x]
        /\ client'[c].connected = client[c].connected
        /\ client'[c].connects = client[c].connects
        /\ client'[c].buffer = client[c].buffer
        /\ client'[c].next_request_id = id + 1
        /\ client'[c].pc = client[c].pc /\ client'[c].rest = client[c].rest
        /\ client'[c].outcome = o
    BY <1>1, <2>1, Types DEF ClientRecord
  <2> QED
    BY <1>2, <1>4, <2>2 DEF id, o
<1> QED
  BY <1>3, <1>4

LEMMA EndsEffect ==
  ASSUME TypeOK, NEW c \in Clients, NEW status, NEW response, NEW buffer,
         Ends(c, status, response, buffer)
  PROVE  /\ server' = server /\ conn' = conn
         /\ \A x \in Clients \ {c} : client'[x] = client[x]
         /\ client'[c].pc = "idle" /\ client'[c].rest = <<>> /\ client'[c].buffer = buffer
         /\ client'[c].connected = client[c].connected
         /\ client'[c].connects = client[c].connects
         /\ client'[c].next_request_id = client[c].next_request_id
         /\ client'[c].outcome = Outcome(status, client[c].next_request_id - 1, response)
<1> DEFINE o == Outcome(status, client[c].next_request_id - 1, response)
<1>1. client[c] \in ClientRecord
  BY Types
<1>2. /\ server' = server /\ conn' = conn
      /\ client' = [client EXCEPT ![c] = [client[c] EXCEPT !.pc = "idle", !.rest = <<>>,
                      !.buffer = buffer, !.outcome = o]]
  BY <1>1, Types DEF Ends
<1> HIDE DEF o
<1>3. /\ \A x \in Clients \ {c} : client'[x] = client[x]
      /\ client'[c].pc = "idle" /\ client'[c].rest = <<>> /\ client'[c].buffer = buffer
      /\ client'[c].connected = client[c].connected
      /\ client'[c].connects = client[c].connects
      /\ client'[c].next_request_id = client[c].next_request_id
      /\ client'[c].outcome = o
  BY <1>1, <1>2, Types DEF ClientRecord
<1> QED
  BY <1>2, <1>3 DEF o

LEMMA SendEffect ==
  ASSUME TypeOK, NEW c \in Clients, Current(c) \in Conns, Send(c)
  PROVE  LET k == Current(c) IN
         /\ server' = server
         /\ \A x \in Clients \ {c} : client'[x] = client[x]
         /\ \A l \in Conns \ {k} : conn'[l] = conn[l]
         /\ client[c].pc = "sending" /\ client'[c].pc \in {"sending", "receiving"}
         /\ client'[c].pc = "sending" <=> client'[c].rest # <<>>
         /\ client'[c].connected = client[c].connected
         /\ client'[c].connects = client[c].connects
         /\ client'[c].buffer = client[c].buffer
         /\ client'[c].next_request_id = client[c].next_request_id
         /\ client'[c].outcome = client[c].outcome
         /\ conn'[k].open = conn[k].open /\ conn'[k].session = conn[k].session
         /\ conn'[k].down = conn[k].down
         /\ conn'[k].buffer = conn[k].buffer /\ conn'[k].executed = conn[k].executed
         /\ conn[k].session = "open" =>
              conn'[k].up \o client'[c].rest = conn[k].up \o client[c].rest
         /\ conn[k].session # "open" => conn'[k].up = conn[k].up
<1> DEFINE k == Current(c)
<1>1. client[c] \in ClientRecord /\ client[c].rest \in Seq(Unit) /\ Len(client[c].rest) \in Nat
  BY Types, LenProperties DEF ClientRecord
<1>2. PICK n \in 1..Len(client[c].rest) :
        /\ conn[k].session = "open" => Len(conn[k].up) + n <= Capacity
        /\ client' = [client EXCEPT ![c].rest = Skip(@, n),
                        ![c].pc = IF n = Len(client[c].rest) THEN "receiving" ELSE "sending"]
        /\ conn' = [conn EXCEPT ![k].up =
                      IF conn[k].session = "open" THEN @ \o Take(client[c].rest, n) ELSE @]
  BY DEF Send
<1> DEFINE pc == IF n = Len(client[c].rest) THEN "receiving" ELSE "sending"
           rest == Skip(client[c].rest, n)
           taken == Take(client[c].rest, n)
           up == IF conn[k].session = "open" THEN conn[k].up \o taken ELSE conn[k].up
<1>3. /\ client' = [client EXCEPT ![c] = [client[c] EXCEPT !.rest = rest, !.pc = pc]]
      /\ conn' = [conn EXCEPT ![k] = [conn[k] EXCEPT !.up = up]]
      /\ server' = server /\ client[c].pc = "sending"
  BY <1>1, <1>2, Types DEF Send
<1>4. k \in Conns /\ conn[k] \in ConnRecord /\ conn[k].up \in Seq(Unit)
  BY ConnTyped
<1> HIDE DEF k
<1>5. /\ rest \in Seq(Unit) /\ Len(rest) = Len(client[c].rest) - n
      /\ taken \in Seq(Unit) /\ taken \o rest = client[c].rest
  <2>1. n \in 0..Len(client[c].rest)
    BY <1>1
  <2> QED
    BY <1>1, <2>1, TakeSkip
<1>6. pc = "sending" <=> rest # <<>>
  BY <1>1, <1>2, <1>5, EmptySeq
<1>7. conn[k].session = "open" => up \o rest = conn[k].up \o client[c].rest
  <2> HIDE DEF taken, rest
  <2> QED
    <3>1. (conn[k].up \o taken) \o rest = conn[k].up \o (taken \o rest)
      BY <1>4, <1>5, Joined
    <3> QED
      BY <1>5, <3>1
<1>8. conn[k].session # "open" => up = conn[k].up
  OBVIOUS
<1>9. pc \in {"sending", "receiving"}
  OBVIOUS
<1> HIDE DEF up, pc, rest, taken
<1>10. /\ \A x \in Clients \ {c} : client'[x] = client[x]
       /\ client'[c].pc = pc /\ client'[c].rest = rest
       /\ client'[c].connected = client[c].connected
       /\ client'[c].connects = client[c].connects
       /\ client'[c].buffer = client[c].buffer
       /\ client'[c].next_request_id = client[c].next_request_id
       /\ client'[c].outcome = client[c].outcome
  BY <1>1, <1>3, Types DEF ClientRecord
<1>11. /\ \A l \in Conns \ {k} : conn'[l] = conn[l]
       /\ conn'[k].open = conn[k].open /\ conn'[k].session = conn[k].session
       /\ conn'[k].down = conn[k].down /\ conn'[k].up = up
       /\ conn'[k].buffer = conn[k].buffer /\ conn'[k].executed = conn[k].executed
  BY <1>3, <1>4, Types DEF ConnRecord
<1> QED
  BY <1>3, <1>6, <1>7, <1>8, <1>9, <1>10, <1>11 DEF k

LEMMA ReceiveMoreEffect ==
  ASSUME TypeOK, NEW c \in Clients, Current(c) \in Conns, ReceiveMore(c)
  PROVE  LET k == Current(c) IN
         /\ server' = server
         /\ \A x \in Clients \ {c} : client'[x] = client[x]
         /\ \A l \in Conns \ {k} : conn'[l] = conn[l]
         /\ client[c].pc = "receiving" /\ client'[c].pc = "receiving"
         /\ client'[c].connected = client[c].connected
         /\ client'[c].connects = client[c].connects
         /\ client'[c].rest = client[c].rest
         /\ client'[c].next_request_id = client[c].next_request_id
         /\ client'[c].outcome = client[c].outcome
         /\ conn[k].down # <<>>
         /\ conn'[k].open = conn[k].open /\ conn'[k].session = conn[k].session
         /\ conn'[k].up = conn[k].up
         /\ conn'[k].buffer = conn[k].buffer /\ conn'[k].executed = conn[k].executed
         /\ client'[c].buffer \o conn'[k].down = client[c].buffer \o conn[k].down
<1> DEFINE k == Current(c)
<1>1. PICK n \in 1..Len(conn[k].down) :
        /\ client' = [client EXCEPT ![c].buffer = @ \o Take(conn[k].down, n)]
        /\ conn' = [conn EXCEPT ![k].down = Skip(@, n)]
  BY DEF ReceiveMore
<1> DEFINE taken == Take(conn[k].down, n)
           buffer == client[c].buffer \o taken
           down == Skip(conn[k].down, n)
<1>2. /\ client' = [client EXCEPT ![c] = [client[c] EXCEPT !.buffer = buffer]]
      /\ conn' = [conn EXCEPT ![k] = [conn[k] EXCEPT !.down = down]]
      /\ server' = server /\ client[c].pc = "receiving"
  BY <1>1, Types DEF ReceiveMore
<1> HIDE DEF k
<1>3. /\ k \in Conns /\ conn[k] \in ConnRecord
      /\ conn[k].down \in Seq(Unit) /\ Len(conn[k].down) \in Nat
      /\ client[c] \in ClientRecord /\ client[c].buffer \in Seq(Unit)
  BY ConnTyped, Types DEF k, ClientRecord
<1>4. n \in 0..Len(conn[k].down) /\ n \in Nat
  BY <1>3
<1>5. down \in Seq(Unit) /\ taken \in Seq(Unit) /\ taken \o down = conn[k].down
  BY <1>3, <1>4, TakeSkip
<1>6. buffer \o down = client[c].buffer \o conn[k].down
  <2> HIDE DEF taken, down
  <2> QED
    <3>1. (client[c].buffer \o taken) \o down = client[c].buffer \o (taken \o down)
      BY <1>3, <1>5, Joined
    <3> QED
      BY <1>5, <3>1
<1>7. conn[k].down # <<>>
  BY <1>1, EmptySeq
<1> HIDE DEF buffer, down, taken
<1>8. /\ \A x \in Clients \ {c} : client'[x] = client[x]
      /\ client'[c].pc = client[c].pc /\ client'[c].rest = client[c].rest
      /\ client'[c].connected = client[c].connected
      /\ client'[c].connects = client[c].connects
      /\ client'[c].buffer = buffer
      /\ client'[c].next_request_id = client[c].next_request_id
      /\ client'[c].outcome = client[c].outcome
  BY <1>2, <1>3, Types DEF ClientRecord
<1>9. /\ \A l \in Conns \ {k} : conn'[l] = conn[l]
      /\ conn'[k].open = conn[k].open /\ conn'[k].session = conn[k].session
      /\ conn'[k].down = down /\ conn'[k].up = conn[k].up
      /\ conn'[k].buffer = conn[k].buffer /\ conn'[k].executed = conn[k].executed
  BY <1>2, <1>3, Types DEF ConnRecord
<1> QED
  BY <1>2, <1>6, <1>7, <1>8, <1>9 DEF k

LEMMA SessionReadEffect ==
  ASSUME TypeOK, NEW k \in Conns, SessionRead(k)
  PROVE  /\ client' = client
         /\ server.busy = NONE /\ server'.busy = k /\ server'.rest = server.rest
         /\ \A l \in Conns \ {k} : conn'[l] = conn[l]
         /\ conn[k].session = "open"
         /\ conn'[k].open = conn[k].open /\ conn'[k].session = conn[k].session
         /\ conn'[k].down = conn[k].down /\ conn'[k].executed = conn[k].executed
         /\ conn'[k].buffer \o conn'[k].up = conn[k].buffer \o conn[k].up
<1>1. PICK n \in 1..Len(conn[k].up) :
        conn' = [conn EXCEPT ![k].up = Skip(@, n), ![k].buffer = @ \o Take(conn[k].up, n)]
  BY DEF SessionRead
<1> DEFINE taken == Take(conn[k].up, n)
           buffer == conn[k].buffer \o taken
           up == Skip(conn[k].up, n)
<1>2. /\ conn' = [conn EXCEPT ![k] = [conn[k] EXCEPT !.up = up, !.buffer = buffer]]
      /\ server' = [server EXCEPT !.busy = k] /\ client' = client
      /\ server.busy = NONE /\ conn[k].session = "open"
  BY <1>1, Types DEF SessionRead, Idle
<1>3. /\ conn[k] \in ConnRecord /\ server \in ServerRecord
      /\ conn[k].up \in Seq(Unit) /\ Len(conn[k].up) \in Nat /\ conn[k].buffer \in Seq(Unit)
  BY ConnTyped, Types
<1>4. n \in 0..Len(conn[k].up) /\ n \in Nat
  BY <1>3
<1>5. up \in Seq(Unit) /\ taken \in Seq(Unit) /\ taken \o up = conn[k].up
  BY <1>3, <1>4, TakeSkip
<1>6. buffer \o up = conn[k].buffer \o conn[k].up
  <2> HIDE DEF taken, up
  <2> QED
    <3>1. (conn[k].buffer \o taken) \o up = conn[k].buffer \o (taken \o up)
      BY <1>3, <1>5, Joined
    <3> QED
      BY <1>5, <3>1
<1> HIDE DEF buffer, up, taken
<1>7. /\ \A l \in Conns \ {k} : conn'[l] = conn[l]
      /\ conn'[k].open = conn[k].open /\ conn'[k].session = conn[k].session
      /\ conn'[k].down = conn[k].down /\ conn'[k].up = up
      /\ conn'[k].buffer = buffer /\ conn'[k].executed = conn[k].executed
  BY <1>2, <1>3, Types DEF ConnRecord
<1>8. server'.busy = k /\ server'.rest = server.rest
  BY <1>2, <1>3 DEF ServerRecord
<1> QED
  BY <1>2, <1>6, <1>7, <1>8

LEMMA SessionEndsEffect ==
  ASSUME TypeOK, NEW k \in Conns, SessionEnds(k)
  PROVE  /\ client' = client /\ server' = server /\ server.busy = NONE
         /\ \A l \in Conns \ {k} : conn'[l] = conn[l]
         /\ ~conn[k].open /\ conn'[k].open = conn[k].open
         /\ conn[k].session = "open" /\ conn'[k].session = "closed"
         /\ conn'[k].down = conn[k].down /\ conn'[k].up = conn[k].up
         /\ conn'[k].buffer = conn[k].buffer /\ conn'[k].executed = conn[k].executed
<1>1. /\ conn' = [conn EXCEPT ![k] = [conn[k] EXCEPT !.session = "closed"]]
      /\ client' = client /\ server' = server /\ server.busy = NONE
      /\ conn[k].session = "open" /\ ~conn[k].open
  BY Types DEF SessionEnds, Idle
<1>2. conn[k] \in ConnRecord
  BY ConnTyped
<1> QED
  BY <1>1, <1>2, Types DEF ConnRecord

LEMMA DownEffect ==
  ASSUME TypeOK, Down
  PROVE  /\ client' = client /\ server'.busy = NONE /\ server'.rest = <<>>
         /\ \A k \in Conns :
              /\ conn[k].session # "open" => conn'[k] = conn[k]
              /\ conn[k].session = "open" =>
                   /\ conn'[k].open = conn[k].open /\ conn'[k].session = "closed"
                   /\ conn'[k].up = conn[k].up /\ conn'[k].buffer = conn[k].buffer
                   /\ conn'[k].executed = conn[k].executed
                   /\ \E n \in 0..Len(conn[k].down) : conn'[k].down = Take(conn[k].down, n)
<1>1. PICK arrive \in [{k \in Conns : conn[k].session = "open"} -> 0..Capacity] :
        conn' = [k \in Conns |->
                   IF conn[k].session = "open"
                   THEN [conn[k] EXCEPT !.session = "closed",
                           !.down = Take(@, Min2(Len(@), arrive[k]))]
                   ELSE conn[k]]
  BY DEF Down
<1>2. ASSUME NEW k \in Conns, conn[k].session = "open"
      PROVE  /\ conn'[k].open = conn[k].open /\ conn'[k].session = "closed"
             /\ conn'[k].up = conn[k].up /\ conn'[k].buffer = conn[k].buffer
             /\ conn'[k].executed = conn[k].executed
             /\ \E n \in 0..Len(conn[k].down) : conn'[k].down = Take(conn[k].down, n)
  <2> DEFINE n == Min2(Len(conn[k].down), arrive[k])
             down == Take(conn[k].down, n)
  <2>1. conn[k] \in ConnRecord /\ Len(conn[k].down) \in Nat
    BY ConnTyped
  <2>2. arrive[k] \in 0..Capacity
    BY <1>2
  <2>3. n \in 0..Len(conn[k].down)
    BY <2>1, <2>2, Constants DEF Min2
  <2>4. conn'[k] = [conn[k] EXCEPT !.session = "closed", !.down = down]
    BY <1>1, <1>2
  <2>5. conn'[k].down = down
    <3> HIDE DEF down
    <3> QED
      BY <2>1, <2>4 DEF ConnRecord
  <2> HIDE DEF down, n
  <2>6. /\ conn'[k].open = conn[k].open /\ conn'[k].session = "closed"
        /\ conn'[k].up = conn[k].up /\ conn'[k].buffer = conn[k].buffer
        /\ conn'[k].executed = conn[k].executed
    BY <2>1, <2>4 DEF ConnRecord
  <2> QED
    BY <2>3, <2>5, <2>6 DEF down
<1>3. \A k \in Conns : conn[k].session # "open" => conn'[k] = conn[k]
  BY <1>1
<1>4. client' = client /\ server'.busy = NONE /\ server'.rest = <<>>
  BY DEF Down
<1> QED
  BY <1>2, <1>3, <1>4

LEMMA AnswerEffect ==
  ASSUME TypeOK, NEW k \in Conns, NEW d, NEW id, NEW executes, Answer(k, d, id, executes)
  PROVE  /\ client' = client /\ server'.busy = server.busy
         /\ \E size \in ResponseSizes, readable \in BOOLEAN :
              server'.rest = Units([id |-> id, size |-> size, readable |-> readable])
         /\ \A l \in Conns \ {k} : conn'[l] = conn[l]
         /\ conn'[k].open = conn[k].open /\ conn'[k].session = conn[k].session
         /\ conn'[k].down = conn[k].down /\ conn'[k].up = conn[k].up
         /\ conn'[k].buffer = d.buffer
         /\ conn'[k].executed = IF executes THEN Append(conn[k].executed, d.packet.id)
                                ELSE conn[k].executed
<1> DEFINE executed == IF executes THEN Append(conn[k].executed, d.packet.id)
                       ELSE conn[k].executed
<1>1. PICK size \in ResponseSizes, readable \in BOOLEAN :
        /\ server' = [server EXCEPT
                        !.rest = Units([id |-> id, size |-> size, readable |-> readable])]
        /\ conn' = [conn EXCEPT ![k].buffer = d.buffer,
                      ![k].executed = IF executes THEN Append(@, d.packet.id) ELSE @]
        /\ client' = client
  BY DEF Answer
<1>2. /\ conn' = [conn EXCEPT ![k] =
                    [conn[k] EXCEPT !.buffer = d.buffer, !.executed = executed]]
  BY <1>1, Types
<1>3. conn[k] \in ConnRecord /\ server \in ServerRecord
  BY ConnTyped, Types
<1>4. /\ server'.busy = server.busy
      /\ server'.rest = Units([id |-> id, size |-> size, readable |-> readable])
  BY <1>1, <1>3 DEF ServerRecord
<1> HIDE DEF executed
<1>5. /\ \A l \in Conns \ {k} : conn'[l] = conn[l]
      /\ conn'[k].open = conn[k].open /\ conn'[k].session = conn[k].session
      /\ conn'[k].down = conn[k].down /\ conn'[k].up = conn[k].up
      /\ conn'[k].buffer = d.buffer /\ conn'[k].executed = executed
  BY <1>2, <1>3, Types DEF ConnRecord
<1> QED
  BY <1>1, <1>4, <1>5 DEF executed

LEMMA WriteEffect ==
  ASSUME TypeOK, NEW k \in Conns, Write(k)
  PROVE  /\ client' = client /\ server.busy = k /\ server'.busy = k
         /\ \A l \in Conns \ {k} : conn'[l] = conn[l]
         /\ conn'[k].open = conn[k].open /\ conn'[k].session = conn[k].session
         /\ conn'[k].up = conn[k].up
         /\ conn'[k].buffer = conn[k].buffer /\ conn'[k].executed = conn[k].executed
         /\ conn[k].open => conn'[k].down \o server'.rest = conn[k].down \o server.rest
<1>1. /\ conn[k] \in ConnRecord /\ conn[k].down \in Seq(Unit) /\ Len(conn[k].down) \in 0..Capacity
      /\ server \in ServerRecord /\ server.rest \in Seq(Unit)
  BY ConnTyped, Types DEF ServerRecord
<1>2. CASE conn[k].open /\ \E n \in 1..Room(k) :
             /\ conn' = [conn EXCEPT ![k].down = @ \o Take(server.rest, n)]
             /\ server' = [server EXCEPT !.rest = Skip(@, n)]
  <2>1. PICK n \in 1..Room(k) :
          /\ conn' = [conn EXCEPT ![k].down = @ \o Take(server.rest, n)]
          /\ server' = [server EXCEPT !.rest = Skip(@, n)]
    BY <1>2
  <2> DEFINE taken == Take(server.rest, n)
             down == conn[k].down \o taken
             rest == Skip(server.rest, n)
  <2>2. n \in 0..Len(server.rest)
    <3>1. Len(server.rest) \in Nat
      BY <1>1, LenProperties
    <3>2. Room(k) \in Int /\ Room(k) <= Len(server.rest)
      BY <1>1, <3>1, Constants, SMTT(30) DEF Room, Min2
    <3> QED
      BY <1>1, <3>1, <3>2
  <2>3. rest \in Seq(Unit) /\ taken \in Seq(Unit) /\ taken \o rest = server.rest
    BY <1>1, <2>2, TakeSkip
  <2>4. conn' = [conn EXCEPT ![k] = [conn[k] EXCEPT !.down = down]]
        /\ server' = [server EXCEPT !.rest = rest]
    BY <2>1, Types
  <2>5. down \o rest = conn[k].down \o server.rest
    <3> HIDE DEF taken, rest
    <3> QED
      <4>1. (conn[k].down \o taken) \o rest = conn[k].down \o (taken \o rest)
        BY <1>1, <2>3, Joined
      <4> QED
        BY <2>3, <4>1
  <2> HIDE DEF down, rest, taken
  <2>6. /\ \A l \in Conns \ {k} : conn'[l] = conn[l]
        /\ conn'[k].open = conn[k].open /\ conn'[k].session = conn[k].session
        /\ conn'[k].down = down /\ conn'[k].up = conn[k].up
        /\ conn'[k].buffer = conn[k].buffer /\ conn'[k].executed = conn[k].executed
    BY <1>1, <2>4, Types DEF ConnRecord
  <2>7. server'.busy = server.busy /\ server'.rest = rest
    BY <1>1, <2>4 DEF ServerRecord
  <2> QED
    BY <2>5, <2>6, <2>7 DEF Write
<1>3. CASE ~conn[k].open /\ server' = [server EXCEPT !.rest = <<>>] /\ conn' = conn
  <2>1. server'.busy = server.busy
    BY <1>1, <1>3 DEF ServerRecord
  <2> QED
    BY <1>3, <2>1 DEF Write
<1> QED
  BY <1>2, <1>3 DEF Write

-----------------------------------------------------------------------------
(* The kinds of steps.                                                     *)

(* A call that fails with what it has received left in the buffer, one     *)
(* that ends with a packet, and the end of process_buffer.                 *)
Fails(c) ==
  /\ \/ client[c].pc = "receiving" /\ (Stuck(c) \/ Dead(c, Current(c)))
     \/ client[c].pc = "sending" /\ conn[Current(c)].session # "open"
  /\ Throws(c)

Returns(c) ==
  LET d == TryDecode(client[c].buffer) IN
  /\ client[c].pc = "receiving" /\ d.status = "packet"
  /\ Ends(c, "response", d.packet.id, d.buffer) \/ Ends(c, "throw", 0, d.buffer)

Processed(k) ==
  /\ server.busy = k /\ server.rest = <<>>
  /\ server' = [server EXCEPT !.busy = NONE]
  /\ UNCHANGED <<client, conn>>

Answers(k) ==
  LET d == TryDecode(conn[k].buffer) IN
  /\ server.busy = k /\ server.rest = <<>> /\ d.status = "packet"
  /\ Answer(k, d, 0, FALSE) \/ Answer(k, d, d.packet.id, TRUE) \/ Answer(k, d, 0, TRUE)

LEMMA Steps ==
  ASSUME [Next]_vars
  PROVE  \/ UNCHANGED vars
         \/ \E c \in Clients :
              \/ Connect(c) \/ Disconnect(c)
              \/ \E request \in Requests : Execute(c, request)
              \/ Send(c) \/ ReceiveMore(c) \/ Fails(c) \/ Returns(c)
         \/ \E k \in Conns :
              SessionRead(k) \/ SessionEnds(k) \/ Processed(k) \/ Answers(k) \/ Write(k)
         \/ Down \/ Start
<1>1. ASSUME NEW c \in Clients, SendFails(c) \/ ReceiveFails(c)
      PROVE  Fails(c)
  BY <1>1 DEF SendFails, ReceiveFails, Fails, Dead
<1>2. ASSUME NEW c \in Clients, Receive(c)
      PROVE  Fails(c) \/ Returns(c)
  <2> DEFINE d == TryDecode(client[c].buffer)
  <2>1. /\ client[c].pc = "receiving"
        /\ \/ d.status = "packet" /\ Ends(c, "response", d.packet.id, d.buffer)
           \/ d.status = "packet" /\ Ends(c, "throw", 0, d.buffer)
           \/ Stuck(c) /\ Throws(c)
    BY <1>2 DEF Receive, Stuck
  <2>2. CASE Stuck(c) /\ Throws(c)
    BY <2>1, <2>2 DEF Fails
  <2>3. CASE d.status = "packet" /\ (Ends(c, "response", d.packet.id, d.buffer)
                                      \/ Ends(c, "throw", 0, d.buffer))
    BY <2>1, <2>3 DEF Returns
  <2> QED
    BY <2>1, <2>2, <2>3
<1>3. ASSUME NEW k \in Conns, Process(k)
      PROVE  Processed(k) \/ Answers(k) \/ Down
  BY <1>3 DEF Process, Processed, Answers
<1> QED
  BY <1>1, <1>2, <1>3 DEF Next, ClientStep, Stop

LEMMA CurrentConn ==
  ASSUME TypeOK, ClientInv, NEW c \in Clients, client[c].connected
  PROVE  /\ Current(c) \in Conns /\ Current(c)[1] = c /\ Current(c)[2] = client[c].connects
         /\ client[c].connects \in 1..MaxConnections
BY Types, Constants DEF Current, ClientInv, ClientRecord

LEMMA InitSimple == Init => ClientInv /\ ServerInv /\ FreshInv
BY DEF Init, ClientInv, ServerInv, FreshInv, Conns

ClientOk(c) ==
  /\ client[c].pc # "idle" => client[c].connected /\ client[c].next_request_id > 1
  /\ client[c].pc = "sending" <=> client[c].rest # <<>>
  /\ client[c].connected => client[c].connects > 0 /\ conn[Current(c)].open
  /\ ~client[c].connected => client[c].buffer = <<>>

LEMMA ClientStepKeeps ==
  ASSUME TypeOK, ClientInv, NEW c \in Clients, ClientOk(c)',
         \A x \in Clients \ {c} : client'[x] = client[x],
         \A k \in Conns : k[1] # c => conn'[k].open = conn[k].open
  PROVE  ClientInv'
<1> SUFFICES ASSUME NEW x \in Clients \ {c} PROVE ClientOk(x)'
  BY DEF ClientInv, ClientOk
<1>1. client[x].connected => Current(x) \in Conns /\ Current(x)[1] = x
  BY CurrentConn
<1>2. client[x].connected => conn'[Current(x)].open = conn[Current(x)].open
  BY <1>1
<1> QED
  BY <1>2 DEF ClientInv, ClientOk, Current

LEMMA ServerStepKeeps ==
  ASSUME TypeOK, ClientInv, client' = client, \A k \in Conns : conn'[k].open = conn[k].open
  PROVE  ClientInv'
<1> SUFFICES ASSUME NEW x \in Clients PROVE ClientOk(x)'
  BY DEF ClientInv, ClientOk
<1>1. client[x].connected => Current(x) \in Conns
  BY CurrentConn
<1> QED
  BY <1>1 DEF ClientInv, ClientOk, Current

LEMMA ClientInvStep ==
  ASSUME TypeOK, ClientInv, [Next]_vars
  PROVE  ClientInv'
<1>1. ASSUME NEW c \in Clients, Connect(c) PROVE ClientInv'
  <2>1. /\ client'[c].pc = "idle" /\ client'[c].connected /\ client'[c].rest = client[c].rest
        /\ client'[c].connects \in 1..MaxConnections
        /\ client'[c].connects = client[c].connects + 1
    BY <1>1, ConnectEffect
  <2>2. client[c].rest = <<>>
    BY <1>1 DEF ClientInv, Connect
  <2>3. conn'[Current(c)'].open
    BY <1>1, <2>1, ConnectEffect DEF Current
  <2>4. ClientOk(c)'
    BY <2>1, <2>2, <2>3 DEF ClientOk
  <2>5. ASSUME NEW k \in Conns, k[1] # c PROVE conn'[k].open = conn[k].open
    <3>1. k # <<c, client[c].connects + 1>>
      BY <2>5
    <3> QED
      BY <1>1, <3>1, ConnectEffect
  <2> QED
    BY <1>1, <2>4, <2>5, ConnectEffect, ClientStepKeeps
<1>2. ASSUME NEW c \in Clients, Disconnect(c) PROVE ClientInv'
  <2>1. client[c].pc = "idle" /\ Current(c) \in Conns /\ Current(c)[1] = c
    BY <1>2, CurrentConn DEF Disconnect
  <2>2. ClientOk(c)'
    BY <1>2, <2>1, DisconnectEffect DEF ClientInv, ClientOk
  <2>3. \A k \in Conns : k[1] # c => conn'[k] = conn[k]
    BY <1>2, <2>1, DisconnectEffect
  <2> QED
    BY <1>2, <2>1, <2>2, <2>3, DisconnectEffect, ClientStepKeeps
<1>3. ASSUME NEW c \in Clients, NEW request \in Requests, Execute(c, request) PROVE ClientInv'
  <2>1. client[c].next_request_id \in Nat \ {0} /\ Units(request) # <<>>
    <3>1. Units(request) \in Seq(Unit) /\ Len(Units(request)) = request.size
      BY UnitsOf, Constants
    <3>2. request.size \in Nat /\ request.size > HeaderSize
      BY ProtocolAssumption DEF Requests
    <3>3. Units(request) # <<>>
      BY <3>1, <3>2, EmptySeq, SizesAssumption
    <3> QED
      BY <3>3, Types, Constants DEF ClientRecord
  <2>2. ClientOk(c)'
    <3>1. CASE client[c].connected
      BY <1>3, <2>1, <3>1, ExecuteEffect DEF ClientInv, ClientOk, Current
    <3>2. CASE ~client[c].connected
      BY <1>3, <2>1, <3>2, ExecuteEffect, ServerStepKeeps DEF ClientInv, ClientOk, Current
    <3> QED
      BY <3>1, <3>2
  <2> QED
    BY <1>3, <2>2, ExecuteEffect, ClientStepKeeps
<1>4. ASSUME NEW c \in Clients, NEW status, NEW response, NEW buffer,
             client[c].pc # "idle", Ends(c, status, response, buffer)
      PROVE  ClientInv'
  <2>1. ClientOk(c)'
    BY <1>4, EndsEffect DEF ClientInv, ClientOk, Current
  <2> QED
    BY <1>4, <2>1, EndsEffect, ClientStepKeeps
<1>5. ASSUME NEW c \in Clients, Fails(c) \/ Returns(c) PROVE ClientInv'
  BY <1>4, <1>5 DEF Fails, Returns, Throws
<1>6. ASSUME NEW c \in Clients, Send(c) PROVE ClientInv'
  <2>1. client[c].connected /\ Current(c) \in Conns /\ Current(c)[1] = c
    BY <1>6, CurrentConn DEF Send, ClientInv
  <2>2. ClientOk(c)'
    BY <1>6, <2>1, SendEffect DEF ClientInv, ClientOk, Current
  <2>3. \A k \in Conns : k[1] # c => conn'[k] = conn[k]
    <3>1. \A k \in Conns \ {Current(c)} : conn'[k] = conn[k]
      BY <1>6, <2>1, SendEffect
    <3> QED
      BY <2>1, <3>1
  <2> QED
    BY <1>6, <2>1, <2>2, <2>3, SendEffect, ClientStepKeeps, ZenonT(60)
<1>7. ASSUME NEW c \in Clients, ReceiveMore(c) PROVE ClientInv'
  <2>1. client[c].connected /\ Current(c) \in Conns /\ Current(c)[1] = c
    BY <1>7, CurrentConn DEF ReceiveMore, ClientInv
  <2>2. ClientOk(c)'
    <3>1. /\ client[c].pc = "receiving" /\ client'[c].pc = "receiving"
          /\ client'[c].connected = client[c].connected
          /\ client'[c].connects = client[c].connects
          /\ client'[c].rest = client[c].rest
          /\ client'[c].next_request_id = client[c].next_request_id
          /\ conn'[Current(c)].open = conn[Current(c)].open
      BY <1>7, <2>1, ReceiveMoreEffect
    <3> QED
      BY <2>1, <3>1 DEF ClientInv, ClientOk, Current
  <2>3. \A k \in Conns : k[1] # c => conn'[k] = conn[k]
    BY <1>7, <2>1, ReceiveMoreEffect
  <2> QED
    BY <1>7, <2>1, <2>2, <2>3, ReceiveMoreEffect, ClientStepKeeps
<1>8. ASSUME NEW k \in Conns,
             SessionRead(k) \/ SessionEnds(k) \/ Processed(k) \/ Answers(k) \/ Write(k)
      PROVE  ClientInv'
  <2>1. client' = client /\ \A l \in Conns : conn'[l].open = conn[l].open
    <3>1. CASE SessionRead(k)
      BY <3>1, SessionReadEffect
    <3>2. CASE SessionEnds(k)
      BY <3>2, SessionEndsEffect
    <3>3. CASE Processed(k)
      BY <3>3 DEF Processed
    <3>4. CASE Answers(k)
      BY <3>4, AnswerEffect DEF Answers
    <3>5. CASE Write(k)
      BY <3>5, WriteEffect
    <3> QED
      BY <1>8, <3>1, <3>2, <3>3, <3>4, <3>5
  <2> QED
    BY <2>1, ServerStepKeeps
<1>9. ASSUME Down \/ Start \/ UNCHANGED vars PROVE ClientInv'
  <2>1. client' = client /\ \A l \in Conns : conn'[l].open = conn[l].open
    BY <1>9, DownEffect DEF Start, vars
  <2> QED
    BY <2>1, ServerStepKeeps
<1> QED
  BY <1>1, <1>2, <1>3, <1>5, <1>6, <1>7, <1>8, <1>9, Steps

LEMMA ServerInvStep ==
  ASSUME TypeOK, ClientInv, ServerInv, [Next]_vars
  PROVE  ServerInv'
<1> USE Constants DEF ServerInv
<1>1. ASSUME server' = server,
             server.busy # NONE => conn'[server.busy].session = conn[server.busy].session
                                     \/ conn'[server.busy].session = "open"
      PROVE  ServerInv'
  BY <1>1
<1>2. server.busy # NONE => server.busy \in Conns
  BY Types DEF ServerRecord
<1>3. ASSUME NEW c \in Clients, Connect(c) PROVE ServerInv'
  BY <1>1, <1>2, <1>3, ConnectEffect
<1>4. ASSUME NEW c \in Clients, Disconnect(c) PROVE ServerInv'
  <2>1. Current(c) \in Conns
    BY <1>4, CurrentConn DEF Disconnect
  <2> QED
    BY <1>1, <1>2, <1>4, <2>1, DisconnectEffect
<1>5. ASSUME NEW c \in Clients, NEW request \in Requests, Execute(c, request) PROVE ServerInv'
  BY <1>1, <1>5, ExecuteEffect
<1>6. ASSUME NEW c \in Clients, Fails(c) \/ Returns(c) PROVE ServerInv'
  BY <1>1, <1>6 DEF Fails, Returns, Throws, Ends
<1>7. ASSUME NEW c \in Clients, Send(c) PROVE ServerInv'
  <2>1. Current(c) \in Conns
    BY <1>7, CurrentConn DEF Send, ClientInv
  <2>2. /\ server' = server /\ conn'[Current(c)].session = conn[Current(c)].session
        /\ \A l \in Conns \ {Current(c)} : conn'[l] = conn[l]
    BY <1>7, <2>1, SendEffect
  <2> QED
    BY <1>1, <1>2, <2>1, <2>2
<1>8. ASSUME NEW c \in Clients, ReceiveMore(c) PROVE ServerInv'
  <2>1. Current(c) \in Conns
    BY <1>8, CurrentConn DEF ReceiveMore, ClientInv
  <2>2. /\ server' = server /\ conn'[Current(c)].session = conn[Current(c)].session
        /\ \A l \in Conns \ {Current(c)} : conn'[l] = conn[l]
    BY <1>8, <2>1, ReceiveMoreEffect
  <2> QED
    BY <1>1, <1>2, <2>1, <2>2
<1>9. ASSUME NEW k \in Conns,
             SessionRead(k) \/ SessionEnds(k) \/ Processed(k) \/ Answers(k) \/ Write(k)
      PROVE  ServerInv'
  <2>1. CASE SessionRead(k)
    BY <2>1, SessionReadEffect
  <2>2. CASE SessionEnds(k)
    BY <2>2, SessionEndsEffect
  <2>3. CASE Processed(k)
    BY <2>3, Types DEF Processed, ServerRecord
  <2>4. CASE Answers(k)
    <3>1. /\ server'.busy = k /\ server.busy = k /\ conn'[k].session = conn[k].session
      BY <2>4, AnswerEffect DEF Answers
    <3> QED
      BY <3>1
  <2>5. CASE Write(k)
    BY <2>5, WriteEffect
  <2> QED
    BY <1>9, <2>1, <2>2, <2>3, <2>4, <2>5
<1>10. ASSUME Down PROVE ServerInv'
  BY <1>10, DownEffect
<1>11. ASSUME Start PROVE ServerInv'
  BY <1>11, Types DEF Start, ServerRecord
<1>12. ASSUME UNCHANGED vars PROVE ServerInv'
  BY <1>12 DEF vars
<1> QED
  BY <1>3, <1>4, <1>5, <1>6, <1>7, <1>8, <1>9, <1>10, <1>11, <1>12, Steps

LEMMA FreshInvStep ==
  ASSUME TypeOK, ClientInv, ServerInv, FreshInv, [Next]_vars
  PROVE  FreshInv'
<1> DEFINE Fresh(k) == k[2] > client[k[1]].connects
<1>1. ASSUME \A k \in Conns : Fresh(k)' => Fresh(k) /\ conn'[k] = conn[k]
      PROVE  FreshInv'
  BY <1>1 DEF FreshInv
<1>2. \A k \in Conns : conn[k].session = "open" => ~Fresh(k)
  BY DEF FreshInv
<1>3. \A k \in Conns : k[2] \in Nat /\ k[1] \in Clients /\ client[k[1]].connects \in Nat
  BY Types, Constants DEF ClientRecord
<1>4. ASSUME NEW c \in Clients, Connect(c) PROVE FreshInv'
  <2>1. ASSUME NEW k \in Conns, Fresh(k)' PROVE Fresh(k) /\ conn'[k] = conn[k]
    <3>1. CASE k[1] = c
      <4>1. k[2] > client[c].connects + 1
        BY <1>4, <2>1, <3>1, ConnectEffect
      <4>2. k # <<c, client[c].connects + 1>>
        BY <1>3, <3>1, <4>1
      <4>3. conn'[k] = conn[k]
        BY <1>4, <4>2, ConnectEffect
      <4> QED
        BY <1>3, <3>1, <4>1, <4>3
    <3>2. CASE k[1] # c
      <4>1. k # <<c, client[c].connects + 1>>
        BY <3>2
      <4> QED
        BY <1>3, <1>4, <2>1, <3>2, <4>1, ConnectEffect
    <3> QED
      BY <3>1, <3>2
  <2> QED
    BY <1>1, <2>1
<1>5. ASSUME NEW c \in Clients, Disconnect(c) \/ Send(c) \/ ReceiveMore(c) PROVE FreshInv'
  <2>1. Current(c) \in Conns /\ ~Fresh(Current(c))
    <3>1. Current(c) \in Conns /\ Current(c)[1] = c /\ Current(c)[2] = client[c].connects
      BY <1>5, CurrentConn DEF Disconnect, Send, ReceiveMore, ClientInv
    <3> QED
      BY <1>3, <3>1
  <2>2. /\ \A x \in Clients : client'[x].connects = client[x].connects
        /\ \A l \in Conns \ {Current(c)} : conn'[l] = conn[l]
    <3>1. CASE Disconnect(c)
      BY <2>1, <3>1, DisconnectEffect
    <3>2. CASE Send(c)
      BY <2>1, <3>2, SendEffect
    <3>3. CASE ReceiveMore(c)
      BY <2>1, <3>3, ReceiveMoreEffect
    <3> QED
      BY <1>5, <3>1, <3>2, <3>3
  <2> QED
    BY <1>1, <1>3, <2>1, <2>2
<1>6. ASSUME NEW c \in Clients, NEW request \in Requests, Execute(c, request) PROVE FreshInv'
  <2>1. conn' = conn /\ \A x \in Clients : client'[x].connects = client[x].connects
    BY <1>6, ExecuteEffect
  <2> QED
    BY <1>1, <1>3, <2>1
<1>7. ASSUME NEW c \in Clients, Fails(c) \/ Returns(c) PROVE FreshInv'
  <2>1. PICK status, response, buffer : Ends(c, status, response, buffer)
    BY <1>7 DEF Fails, Returns, Throws
  <2>2. conn' = conn /\ \A x \in Clients : client'[x].connects = client[x].connects
    BY <2>1, EndsEffect
  <2> QED
    BY <1>1, <1>3, <2>2
<1>8. ASSUME NEW k \in Conns,
             SessionRead(k) \/ SessionEnds(k) \/ Processed(k) \/ Answers(k) \/ Write(k)
      PROVE  FreshInv'
  <2>1. client' = client /\ conn[k].session = "open" /\ \A l \in Conns \ {k} : conn'[l] = conn[l]
    <3>1. CASE SessionRead(k)
      BY <3>1, SessionReadEffect
    <3>2. CASE SessionEnds(k)
      BY <3>2, SessionEndsEffect
    <3>3. CASE Processed(k)
      BY <3>3, Constants DEF Processed, ServerInv
    <3>4. CASE Answers(k)
      BY <3>4, AnswerEffect, Constants DEF Answers, ServerInv
    <3>5. CASE Write(k)
      BY <3>5, WriteEffect, Constants DEF ServerInv
    <3> QED
      BY <1>8, <3>1, <3>2, <3>3, <3>4, <3>5
  <2> QED
    BY <1>1, <1>2, <2>1
<1>9. ASSUME Down PROVE FreshInv'
  BY <1>1, <1>2, <1>9, DownEffect
<1>10. ASSUME Start \/ UNCHANGED vars PROVE FreshInv'
  BY <1>1, <1>10 DEF Start, vars
<1> QED
  BY <1>4, <1>5, <1>6, <1>7, <1>8, <1>9, <1>10, Steps

-----------------------------------------------------------------------------
(* Streams of requests.                                                    *)

LEMMA UnitTyped ==
  ASSUME NEW s \in Seq(Unit)
  PROVE  /\ DOMAIN s = 1..Len(s) /\ Len(s) \in Nat
         /\ \A i \in DOMAIN s : /\ s[i] \in Unit /\ s[i].packet \in Packets
                                /\ s[i].packet.id \in Nat /\ s[i].packet.size \in Nat
                                /\ s[i].part \in Nat
<1>1. DOMAIN s = 1..Len(s) /\ Len(s) \in Nat
  BY LenProperties
<1>2. \A u \in Unit : u.packet \in Packets /\ u.part \in Nat
  BY DEF Unit
<1>3. ASSUME NEW q \in Packets PROVE q.id \in Nat /\ q.size \in Nat
  <2>1. q.id \in 0..MaxRequests /\ q.size \in RequestSizes \cup ResponseSizes
    BY DEF Packets
  <2>2. \A n \in RequestSizes \cup ResponseSizes : n \in Nat
    BY ProtocolAssumption
  <2>3. \A n \in 0..MaxRequests : n \in Nat
    OBVIOUS
  <2> QED
    BY <2>1, <2>2, <2>3
<1> QED
  BY <1>1, <1>2, <1>3, ElementOfSeq

LEMMA OrderedEmpty == Ordered(<<>>)
BY EmptySeq, LenProperties DEF Ordered

LEMMA OrderedUnits ==
  ASSUME NEW packet \in Packets, packet.id > 0
  PROVE  Ordered(Units(packet))
<1>1. packet.size \in Nat
  BY ProtocolAssumption DEF Packets
<1> DEFINE u == Units(packet)
<1>2. /\ DOMAIN u = 1..packet.size
      /\ \A i \in DOMAIN u : u[i] = [packet |-> packet, part |-> i]
  BY UnitsOf
<1> HIDE DEF u
<1>3. ASSUME NEW i \in DOMAIN u PROVE u[i].packet = packet /\ u[i].part = i
  <2>1. u[i] = [packet |-> packet, part |-> i]
    BY <1>2
  <2> QED
    BY <2>1
<1>4. \A i, j \in DOMAIN u : i < j => u[j].part = u[i].part + (j - i)
  BY <1>1, <1>2, <1>3
<1> QED
  BY <1>1, <1>2, <1>3, <1>4 DEF Ordered, u

LEMMA OrderedConcat ==
  ASSUME NEW s \in Seq(Unit), NEW t \in Seq(Unit), Ordered(s), Ordered(t),
         \A i \in DOMAIN s, j \in DOMAIN t : s[i].packet.id < t[j].packet.id
  PROVE  Ordered(s \o t)
<1> DEFINE u == s \o t
           l == Len(s)
<1>1. /\ u \in Seq(Unit) /\ Len(u) = l + Len(t)
      /\ \A i \in DOMAIN u : u[i] = IF i <= l THEN s[i] ELSE t[i - l]
  BY Concat
<1>2. /\ DOMAIN s = 1..l /\ l \in Nat /\ DOMAIN t = 1..Len(t) /\ Len(t) \in Nat
      /\ DOMAIN u = 1..l + Len(t)
  BY <1>1, UnitTyped
<1> HIDE DEF u, l
<1>3. ASSUME NEW i \in DOMAIN u
      PROVE  u[i].packet.id > 0 /\ u[i].part <= u[i].packet.size
  <2>1. CASE i <= l
    <3>1. i \in DOMAIN s /\ u[i] = s[i]
      BY <1>1, <1>2, <2>1
    <3> QED
      BY <3>1 DEF Ordered
  <2>2. CASE ~(i <= l)
    <3>1. i - l \in DOMAIN t /\ u[i] = t[i - l]
      BY <1>1, <1>2, <2>2
    <3> QED
      BY <3>1 DEF Ordered
  <2> QED
    BY <2>1, <2>2
<1>4. ASSUME NEW i \in DOMAIN u, NEW j \in DOMAIN u, i < j
      PROVE  \/ u[i].packet.id < u[j].packet.id
             \/ u[i].packet = u[j].packet /\ u[j].part = u[i].part + (j - i)
  <2>1. CASE j <= l
    <3>1. i \in DOMAIN s /\ j \in DOMAIN s /\ u[i] = s[i] /\ u[j] = s[j]
      BY <1>1, <1>2, <1>4, <2>1
    <3> QED
      BY <1>4, <3>1 DEF Ordered
  <2>2. CASE i <= l /\ ~(j <= l)
    <3>1. i \in DOMAIN s /\ j - l \in DOMAIN t /\ u[i] = s[i] /\ u[j] = t[j - l]
      BY <1>1, <1>2, <1>4, <2>2
    <3> QED
      BY <3>1
  <2>3. CASE ~(i <= l) /\ ~(j <= l)
    <3>1. /\ i - l \in DOMAIN t /\ j - l \in DOMAIN t /\ u[i] = t[i - l] /\ u[j] = t[j - l]
          /\ i - l < j - l /\ (j - l) - (i - l) = j - i
      BY <1>1, <1>2, <1>4, <2>3
    <3> QED
      BY <3>1 DEF Ordered
  <2> QED
    BY <1>2, <1>4, <2>1, <2>2, <2>3
<1> QED
  BY <1>3, <1>4 DEF Ordered, u

(* What follows a packet in an ordered stream has greater ids.             *)
LEMMA OrderedRest ==
  ASSUME NEW packet \in Packets, packet.size > 0, NEW t \in Seq(Unit),
         Ordered(Units(packet) \o t)
  PROVE  /\ Ordered(t) /\ packet.id > 0
         /\ \A j \in DOMAIN t : packet.id < t[j].packet.id
         /\ \E i \in DOMAIN (Units(packet) \o t) : (Units(packet) \o t)[i].packet.id = packet.id
         /\ \A j \in DOMAIN t : \E i \in DOMAIN (Units(packet) \o t) :
              (Units(packet) \o t)[i] = t[j]
<1> DEFINE u == Units(packet) \o t
           l == packet.size
<1>1. /\ l \in Nat /\ Units(packet) \in Seq(Unit) /\ Len(Units(packet)) = l
      /\ Units(packet)[1] = [packet |-> packet, part |-> 1]
  BY UnitsOf, ProtocolAssumption DEF Packets
<1>2. /\ u \in Seq(Unit) /\ Len(u) = l + Len(t)
      /\ \A i \in DOMAIN u : u[i] = IF i <= l THEN Units(packet)[i] ELSE t[i - l]
  BY <1>1, Concat
<1>3. DOMAIN t = 1..Len(t) /\ Len(t) \in Nat /\ DOMAIN u = 1..l + Len(t)
  BY <1>2, UnitTyped
<1>4. Ordered(u)
  OBVIOUS
<1>5. 1 \in DOMAIN u /\ u[1] = [packet |-> packet, part |-> 1]
  BY <1>1, <1>2, <1>3
<1> HIDE DEF u
<1>6. \A j \in DOMAIN t : j + l \in DOMAIN u /\ u[j + l] = t[j] /\ 1 < j + l
  BY <1>1, <1>2, <1>3, SMTT(30)
<1>7. ASSUME NEW j \in DOMAIN t PROVE packet.id < t[j].packet.id
  <2>1. \/ u[1].packet.id < u[j + l].packet.id
        \/ /\ u[1].packet = u[j + l].packet
           /\ u[j + l].part = u[1].part + ((j + l) - 1)
    <3> DEFINE h == j + l
    <3>1. 1 \in DOMAIN u /\ h \in DOMAIN u /\ 1 < h
      BY <1>5, <1>6
    <3>2. \A m, n \in DOMAIN u : m < n =>
            \/ u[m].packet.id < u[n].packet.id
            \/ u[m].packet = u[n].packet /\ u[n].part = u[m].part + (n - m)
      BY <1>4 DEF Ordered
    <3> HIDE DEF h
    <3>3. \/ u[1].packet.id < u[h].packet.id
          \/ u[1].packet = u[h].packet /\ u[h].part = u[1].part + (h - 1)
      BY <3>1, <3>2
    <3> QED
      BY <3>3 DEF h
  <2>2. u[j + l].part <= u[j + l].packet.size
    BY <1>4, <1>6 DEF Ordered
  <2>3. j + l > l /\ 1 + ((j + l) - 1) = j + l /\ j + l \in Nat
    BY <1>1, <1>3
  <2> QED
    BY <1>1, <1>5, <1>6, <2>1, <2>2, <2>3
<1>8. Ordered(t)
  <2>1. \A j \in DOMAIN t : t[j].packet.id > 0 /\ t[j].part <= t[j].packet.size
    BY <1>4, <1>6 DEF Ordered
  <2>2. ASSUME NEW i \in DOMAIN t, NEW j \in DOMAIN t, i < j
        PROVE  \/ t[i].packet.id < t[j].packet.id
               \/ t[i].packet = t[j].packet /\ t[j].part = t[i].part + (j - i)
    <3>1. i + l < j + l /\ (j + l) - (i + l) = j - i
      BY <1>1, <1>3, <2>2
    <3> QED
      BY <1>4, <1>6, <3>1 DEF Ordered
  <2> QED
    BY <2>1, <2>2 DEF Ordered
<1>9. packet.id > 0
  BY <1>4, <1>5 DEF Ordered
<1> QED
  BY <1>5, <1>6, <1>7, <1>8, <1>9 DEF u

-----------------------------------------------------------------------------
(* The order of requests.                                                  *)

LEMMA UnprocessedTyped ==
  ASSUME TypeOK, NEW k \in Conns
  PROVE  /\ Rest(k) \in Seq(Unit) /\ Unprocessed(k) \in Seq(Unit)
         /\ ExecutedIds(k) \subseteq Nat /\ UnprocessedIds(k) \subseteq Nat
<1>1. /\ conn[k].buffer \in Seq(Unit) /\ conn[k].up \in Seq(Unit)
      /\ conn[k].executed \in Seq(1..MaxRequests)
  BY ConnTyped DEF ConnRecord
<1>2. Rest(k) \in Seq(Unit)
  <2>1. client[k[1]].rest \in Seq(Unit)
    BY Types, Constants DEF ClientRecord
  <2> QED
    BY <2>1, EmptySeq DEF Rest
<1>3. Unprocessed(k) \in Seq(Unit)
  BY <1>1, <1>2, ConcatProperties DEF Unprocessed
<1>4. ExecutedIds(k) \subseteq Nat
  <2>1. \A i \in DOMAIN conn[k].executed : conn[k].executed[i] \in 1..MaxRequests
    BY <1>1, LenProperties
  <2> QED
    BY <2>1 DEF ExecutedIds
<1>5. UnprocessedIds(k) \subseteq Nat
  BY <1>3, UnitTyped DEF UnprocessedIds
<1> QED
  BY <1>2, <1>3, <1>4, <1>5

LEMMA OrderShrinks ==
  ASSUME TypeOK, TypeOK', OrderInv,
         \A c \in Clients : client'[c].next_request_id >= client[c].next_request_id,
         \A k \in Conns :
           /\ IdsOn(k)' \subseteq IdsOn(k)
           /\ conn'[k].session = "open" => Ordered(Unprocessed(k))'
           /\ \A x \in ExecutedIds(k)', y \in UnprocessedIds(k)' : x < y
  PROVE  OrderInv'
<1>1. \A k \in Conns : \A x \in IdsOn(k)' : x < client'[k[1]].next_request_id
  <2> SUFFICES ASSUME NEW k \in Conns, NEW x \in IdsOn(k)'
               PROVE  x < client'[k[1]].next_request_id
    OBVIOUS
  <2>1. x \in IdsOn(k) /\ x \in Nat
    BY UnprocessedTyped DEF IdsOn
  <2>2. k[1] \in Clients /\ client[k[1]].next_request_id \in Nat
        /\ client'[k[1]].next_request_id \in Nat
    BY Types, TypesPrime, Constants, SMTT(30) DEF ClientRecord
  <2>3. x < client[k[1]].next_request_id
    BY <2>1 DEF OrderInv
  <2> QED
    BY <2>1, <2>2, <2>3
<1>2. \A k, l \in Conns : l[1] = k[1] /\ l[2] < k[2] => \A x \in IdsOn(l)', y \in IdsOn(k)' : x < y
  BY DEF OrderInv
<1> QED
  BY <1>1, <1>2 DEF OrderInv

LEMMA OrderStable ==
  ASSUME TypeOK, TypeOK', OrderInv,
         \A c \in Clients : client'[c].next_request_id >= client[c].next_request_id,
         \A k \in Conns :
           /\ conn'[k].executed = conn[k].executed
           /\ conn'[k].session = "open" =>
                \/ Unprocessed(k)' = <<>>
                \/ conn[k].session = "open" /\ Unprocessed(k)' = Unprocessed(k)
  PROVE  OrderInv'
<1>1. ASSUME NEW k \in Conns
      PROVE  /\ ExecutedIds(k)' = ExecutedIds(k) /\ UnprocessedIds(k)' \subseteq UnprocessedIds(k)
             /\ conn'[k].session = "open" => Ordered(Unprocessed(k))'
  <2>1. ExecutedIds(k)' = ExecutedIds(k)
    BY DEF ExecutedIds
  <2>2. CASE conn'[k].session # "open"
    BY <2>1, <2>2 DEF UnprocessedIds
  <2>3. CASE conn'[k].session = "open" /\ Unprocessed(k)' = <<>>
    <3>1. UnprocessedIds(k)' = {}
      BY <2>3, EmptySeq, LenProperties DEF UnprocessedIds
    <3>2. Ordered(Unprocessed(k))'
      BY <2>3, OrderedEmpty DEF Ordered
    <3> QED
      BY <2>1, <3>1, <3>2
  <2>4. CASE /\ conn'[k].session = "open" /\ conn[k].session = "open"
             /\ Unprocessed(k)' = Unprocessed(k)
    BY <2>1, <2>4 DEF UnprocessedIds, OrderInv, Ordered
  <2> QED
    BY <2>2, <2>3, <2>4
<1>2. \A k \in Conns : \A x \in ExecutedIds(k), y \in UnprocessedIds(k) : x < y
  BY DEF OrderInv
<1>3. \A k \in Conns : IdsOn(k)' \subseteq IdsOn(k)
  BY <1>1 DEF IdsOn
<1>4. \A k \in Conns : \A x \in ExecutedIds(k)', y \in UnprocessedIds(k)' : x < y
  BY <1>1, <1>2
<1> QED
  BY <1>1, <1>3, <1>4, OrderShrinks

(* The steps that leave the unprocessed requests of a connection alone, or *)
(* begin or lose them all.                                                 *)
LEMMA OrderClient ==
  ASSUME TypeOK, TypeOK', ClientInv, FreshInv, OrderInv, NEW c \in Clients,
         Connect(c) \/ Disconnect(c) \/ Fails(c) \/ Returns(c) \/ Send(c) \/ ReceiveMore(c)
  PROVE  OrderInv'
<1> DEFINE Same(k) ==
      /\ conn'[k].executed = conn[k].executed
      /\ conn'[k].session = "open" =>
           \/ Unprocessed(k)' = <<>>
           \/ conn[k].session = "open" /\ Unprocessed(k)' = Unprocessed(k)
<1>1. ASSUME NEW k \in Conns, Rest(k)' = Rest(k), conn'[k].executed = conn[k].executed,
             conn'[k].buffer = conn[k].buffer, conn'[k].up = conn[k].up,
             conn'[k].session = conn[k].session
      PROVE  Same(k)
  BY <1>1 DEF Unprocessed
<1>2. \A x \in Clients : client[x].next_request_id \in Nat
  BY Types, Constants DEF ClientRecord
<1> HIDE DEF Same
<1>3. ASSUME \A x \in Clients : client'[x].next_request_id = client[x].next_request_id,
             \A k \in Conns : Same(k)
      PROVE  OrderInv'
  <2>1. \A x \in Clients : client'[x].next_request_id >= client[x].next_request_id
    BY <1>2, <1>3
  <2> QED
    BY <2>1, <1>3, OrderStable DEF Same
<1>4. ASSUME NEW k \in Conns, k[1] # c, \A x \in Clients \ {c} : client'[x] = client[x]
      PROVE  Rest(k)' = Rest(k)
  BY <1>4, Constants DEF Rest
<1>5. CASE Connect(c)
  <2>0. PICK l \in Conns : l = <<c, client[c].connects + 1>>
    BY <1>5, ConnectEffect
  <2>1. client[c].rest = <<>> /\ client'[c].rest = <<>>
    <3>1. client[c].rest = <<>>
      BY <1>5 DEF ClientInv, Connect
    <3> QED
      BY <1>5, <3>1, ConnectEffect
  <2>2. \A x \in Clients : client'[x].next_request_id = client[x].next_request_id
    BY <1>5, ConnectEffect
  <2>3. \A k \in Conns : Rest(k)' = Rest(k)
    <3> SUFFICES ASSUME NEW k \in Conns PROVE Rest(k)' = Rest(k)
      OBVIOUS
    <3>1. CASE k[1] = c
      BY <2>1, <3>1 DEF Rest
    <3>2. CASE k[1] # c
      BY <1>4, <1>5, <3>2, ConnectEffect
    <3> QED
      BY <3>1, <3>2
  <2>4. Same(l)
    <3>1. /\ conn'[l].up = conn[l].up /\ conn'[l].buffer = conn[l].buffer
          /\ conn'[l].executed = conn[l].executed
      BY <1>5, <2>0, ConnectEffect
    <3>2. conn[l].up = <<>> /\ conn[l].buffer = <<>>
      <4>1. l[1] = c /\ l[2] > client[l[1]].connects
        BY <2>0, Types, Constants DEF ClientRecord
      <4> QED
        BY <3>1, <4>1 DEF FreshInv
    <3>3. Rest(l)' = <<>>
      BY <2>0, <2>1 DEF Rest
    <3>4. Unprocessed(l)' = <<>>
      <4>1. Unprocessed(l)' = (<<>> \o <<>>) \o <<>>
        BY <3>1, <3>2, <3>3 DEF Unprocessed
      <4> QED
        BY <4>1, ConcatEmptySeq, EmptySeq
    <3> QED
      BY <3>1, <3>4 DEF Same
  <2>5. ASSUME NEW k \in Conns \ {l} PROVE Same(k)
    <3>1. conn'[k] = conn[k]
      BY <1>5, <2>0, ConnectEffect
    <3> QED
      BY <1>1, <2>3, <3>1
  <2> QED
    BY <1>3, <2>2, <2>4, <2>5
<1>6. CASE Disconnect(c)
  <2>1. Current(c) \in Conns
    BY <1>6, CurrentConn DEF Disconnect
  <2>2. /\ \A x \in Clients : client'[x].next_request_id = client[x].next_request_id
        /\ client'[c].rest = client[c].rest /\ client'[c].connects = client[c].connects
        /\ \A x \in Clients \ {c} : client'[x] = client[x]
    BY <1>6, <2>1, DisconnectEffect
  <2>3. ASSUME NEW k \in Conns
        PROVE  /\ conn'[k].buffer = conn[k].buffer /\ conn'[k].up = conn[k].up
               /\ conn'[k].session = conn[k].session /\ conn'[k].executed = conn[k].executed
    BY <1>6, <2>1, DisconnectEffect
  <2>4. \A k \in Conns : Rest(k)' = Rest(k)
    BY <2>2, Constants DEF Rest
  <2> QED
    BY <1>1, <1>3, <2>2, <2>3, <2>4
<1>7. CASE Fails(c) \/ Returns(c)
  <2>1. PICK status, response, buffer : Ends(c, status, response, buffer)
    BY <1>7 DEF Fails, Returns, Throws
  <2>2. /\ \A x \in Clients : client'[x].next_request_id = client[x].next_request_id
        /\ client'[c].rest = <<>> /\ client'[c].connects = client[c].connects
        /\ \A x \in Clients \ {c} : client'[x] = client[x]
        /\ conn' = conn
    BY <2>1, EndsEffect
  <2>3. ASSUME NEW k \in Conns PROVE Same(k)
    <3>1. CASE conn[k].session # "open"
      BY <2>2, <3>1 DEF Same
    <3>2. CASE k[1] # c
      BY <1>1, <1>4, <2>2, <3>2
    <3>3. CASE conn[k].session = "open" /\ k[1] = c
      <4>1. CASE k[2] # client[c].connects
        <5>1. Rest(k)' = Rest(k)
          BY <2>2, <3>3, <4>1 DEF Rest
        <5> QED
          BY <1>1, <2>2, <5>1
      <4>2. CASE k[2] = client[c].connects
        <5>1. k = Current(c)
          BY <3>3, <4>2, Constants DEF Current
        <5>2. client[c].pc = "receiving"
          BY <1>7, <3>3, <5>1 DEF Fails, Returns
        <5>3. client[c].rest = <<>>
          BY <5>2 DEF ClientInv
        <5>4. Rest(k)' = Rest(k)
          BY <2>2, <3>3, <5>3 DEF Rest
        <5> QED
          BY <1>1, <2>2, <5>4
      <4> QED
        BY <4>1, <4>2
    <3> QED
      BY <3>1, <3>2, <3>3
  <2> QED
    BY <1>3, <2>2, <2>3
<1>8. CASE Send(c)
  <2>0. PICK l \in Conns : l = Current(c)
    BY <1>8, CurrentConn DEF Send, ClientInv
  <2>1. l \in Conns /\ l[1] = c /\ l[2] = client[c].connects
    BY <1>8, <2>0, CurrentConn DEF Send, ClientInv
  <2>2. /\ \A x \in Clients : client'[x].next_request_id = client[x].next_request_id
        /\ client'[c].connects = client[c].connects
        /\ \A x \in Clients \ {c} : client'[x] = client[x]
        /\ \A k \in Conns \ {l} : conn'[k] = conn[k]
        /\ conn'[l].session = conn[l].session
        /\ conn'[l].buffer = conn[l].buffer /\ conn'[l].executed = conn[l].executed
        /\ conn[l].session = "open" =>
             conn'[l].up \o client'[c].rest = conn[l].up \o client[c].rest
    BY <1>8, <2>0, SendEffect
  <2>3. ASSUME NEW k \in Conns \ {l} PROVE Same(k)
    <3>1. Rest(k)' = Rest(k)
      <4>1. CASE k[1] # c
        BY <1>4, <2>2, <4>1
      <4>2. CASE k[1] = c
        <5>1. k[2] # client[c].connects
          BY <2>1, <4>2, Constants
        <5> QED
          BY <2>2, <4>2, <5>1 DEF Rest
      <4> QED
        BY <4>1, <4>2
    <3> QED
      BY <1>1, <2>2, <3>1
  <2>4. Same(l)
    <3>1. CASE conn[l].session # "open"
      BY <2>2, <3>1 DEF Same
    <3>2. CASE conn[l].session = "open"
      <4>1. Rest(l) = client[c].rest /\ Rest(l)' = client'[c].rest
        BY <2>1, <2>2 DEF Rest
      <4>2. /\ conn[l].buffer \in Seq(Unit) /\ conn[l].up \in Seq(Unit)
            /\ client[c].rest \in Seq(Unit)
        BY <2>1, ConnTyped, Types DEF ClientRecord
      <4>3. conn'[l].up \in Seq(Unit) /\ client'[c].rest \in Seq(Unit)
        BY <2>1, TypesPrime DEF ConnRecord, ClientRecord
      <4>4. /\ Unprocessed(l) = conn[l].buffer \o (conn[l].up \o client[c].rest)
            /\ Unprocessed(l)' = conn[l].buffer \o (conn'[l].up \o client'[c].rest)
        <5>1. (conn[l].buffer \o conn[l].up) \o client[c].rest
                = conn[l].buffer \o (conn[l].up \o client[c].rest)
          BY <4>2, Joined
        <5>2. (conn[l].buffer \o conn'[l].up) \o client'[c].rest
                = conn[l].buffer \o (conn'[l].up \o client'[c].rest)
          BY <4>2, <4>3, Joined, ZenonT(60)
        <5> QED
          BY <2>2, <4>1, <5>1, <5>2 DEF Unprocessed
      <4> QED
        BY <2>2, <3>2, <4>4 DEF Same
    <3> QED
      BY <3>1, <3>2
  <2> QED
    BY <1>3, <2>2, <2>3, <2>4
<1>9. CASE ReceiveMore(c)
  <2>1. Current(c) \in Conns
    BY <1>9, CurrentConn DEF ReceiveMore, ClientInv
  <2>2. /\ \A x \in Clients : client'[x].next_request_id = client[x].next_request_id
        /\ client'[c].rest = client[c].rest /\ client'[c].connects = client[c].connects
        /\ \A x \in Clients \ {c} : client'[x] = client[x]
    BY <1>9, <2>1, ReceiveMoreEffect
  <2>3. ASSUME NEW k \in Conns
        PROVE  /\ conn'[k].buffer = conn[k].buffer /\ conn'[k].up = conn[k].up
               /\ conn'[k].session = conn[k].session /\ conn'[k].executed = conn[k].executed
    BY <1>9, <2>1, ReceiveMoreEffect
  <2>4. \A k \in Conns : Rest(k)' = Rest(k)
    BY <2>2, Constants DEF Rest
  <2> QED
    BY <1>1, <1>3, <2>2, <2>3, <2>4
<1> QED
  BY <1>5, <1>6, <1>7, <1>8, <1>9

LEMMA FreshIds ==
  ASSUME FreshInv, NEW k \in Conns, k[2] > client[k[1]].connects
  PROVE  IdsOn(k) = {}
<1>1. conn[k].session = "none" /\ conn[k].executed = <<>>
  BY DEF FreshInv
<1>2. ExecutedIds(k) = {}
  BY <1>1, EmptySeq, LenProperties DEF ExecutedIds
<1> QED
  BY <1>1, <1>2 DEF IdsOn, UnprocessedIds

LEMMA OrderExecute ==
  ASSUME TypeOK, TypeOK', ClientInv, FreshInv, OrderInv,
         NEW c \in Clients, NEW request \in Requests, Execute(c, request)
  PROVE  OrderInv'
<1> DEFINE id == client[c].next_request_id
<1>1. \A x \in Clients : client[x].next_request_id \in Nat /\ client[x].connects \in Nat
  BY Types, Constants DEF ClientRecord
<1>2. \A x \in Clients \ {c} : client'[x] = client[x]
  BY ExecuteEffect
<1>3. /\ client'[c].next_request_id = id + 1 /\ request.id = id /\ conn' = conn
      /\ client'[c].connects = client[c].connects
  BY ExecuteEffect
<1>4. \A x \in Clients : client'[x].next_request_id >= client[x].next_request_id
  BY <1>1, <1>2, <1>3
<1>5. CASE ~client[c].connected
  <2>1. client'[c].rest = client[c].rest
    BY <1>5, ExecuteEffect
  <2>2. \A k \in Conns : Rest(k)' = Rest(k)
    BY <1>2, <1>3, <2>1, Constants DEF Rest
  <2>3. \A k \in Conns : Unprocessed(k)' = Unprocessed(k)
    BY <1>3, <2>2 DEF Unprocessed
  <2> QED
    BY <1>3, <1>4, <2>3, OrderStable
<1>6. CASE client[c].connected
  <2>0. PICK h \in Conns : h = Current(c)
    BY <1>6, CurrentConn
  <2>1. h[1] = c /\ h[2] = client[c].connects
    BY <1>6, <2>0, CurrentConn
  <2>2. client[c].rest = <<>> /\ client'[c].rest = Units(request)
    <3>1. client[c].rest = <<>>
      BY ExecuteEffect DEF ClientInv
    <3> QED
      BY <1>6, <3>1, ExecuteEffect
  <2>3. ASSUME NEW k \in Conns \ {h}
        PROVE  Unprocessed(k)' = Unprocessed(k) /\ IdsOn(k)' = IdsOn(k)
    <3>1. Rest(k)' = Rest(k)
      <4>1. CASE k[1] # c
        BY <1>2, <4>1, Constants DEF Rest
      <4>2. CASE k[1] = c
        <5>1. k[2] # client[c].connects
          BY <2>1, <4>2, Constants
        <5> QED
          BY <1>3, <4>2, <5>1 DEF Rest
      <4> QED
        BY <4>1, <4>2
    <3>2. Unprocessed(k)' = Unprocessed(k)
      BY <1>3, <3>1 DEF Unprocessed
    <3> QED
      BY <1>3, <3>2 DEF IdsOn, UnprocessedIds, ExecutedIds
  <2> DEFINE s == Unprocessed(h)
             t == Units(request)
  <2>4. s \in Seq(Unit) /\ t \in Seq(Unit) /\ Unprocessed(h)' = s \o t
    <3>1. conn[h].buffer \in Seq(Unit) /\ conn[h].up \in Seq(Unit)
      BY ConnTyped
    <3>2. conn[h].buffer \o conn[h].up \in Seq(Unit)
      BY <3>1, ConcatProperties
    <3>3. Rest(h) = <<>> /\ Rest(h)' = t
      BY <1>3, <2>1, <2>2 DEF Rest
    <3>4. s = conn[h].buffer \o conn[h].up
      BY <3>2, <3>3, ConcatEmptySeq DEF Unprocessed
    <3>5. Unprocessed(h)' = (conn[h].buffer \o conn[h].up) \o t
      BY <1>3, <3>3 DEF Unprocessed
    <3> QED
      BY <3>4, <3>5, UnprocessedTyped, UnitsOf, Constants
  <2>5. \A i \in DOMAIN t : t[i].packet.id = id
    <3>1. DOMAIN t = 1..request.size
          /\ \A i \in 1..request.size : t[i] = [packet |-> request, part |-> i]
      BY UnitsOf, Constants
    <3>2. ASSUME NEW i \in DOMAIN t PROVE t[i].packet = request
      <4>1. t[i] = [packet |-> request, part |-> i]
        BY <3>1
      <4> QED
        BY <4>1
    <3> QED
      BY <1>3, <3>2
  <2>6. UnprocessedIds(h)' \subseteq UnprocessedIds(h) \cup {id}
    <3>1. CASE conn[h].session # "open"
      BY <1>3, <3>1 DEF UnprocessedIds
    <3>2. CASE conn[h].session = "open"
      <4> SUFFICES ASSUME NEW x \in UnprocessedIds(h)' PROVE x \in UnprocessedIds(h) \/ x = id
        OBVIOUS
      <4>1. PICK i \in DOMAIN (s \o t) : x = (s \o t)[i].packet.id
        BY <1>3, <2>4, <3>2 DEF UnprocessedIds
      <4>2. /\ DOMAIN s = 1..Len(s) /\ Len(s) \in Nat /\ DOMAIN t = 1..Len(t) /\ Len(t) \in Nat
            /\ DOMAIN (s \o t) = 1..Len(s) + Len(t)
        BY <2>4, UnitTyped, Concat
      <4>3. (s \o t)[i] = IF i <= Len(s) THEN s[i] ELSE t[i - Len(s)]
        BY <2>4, Concat
      <4>4. CASE i <= Len(s)
        <5>1. i \in DOMAIN s /\ x = s[i].packet.id
          BY <4>1, <4>2, <4>3, <4>4
        <5> QED
          BY <3>2, <5>1 DEF UnprocessedIds
      <4>5. CASE ~(i <= Len(s))
        <5>1. i - Len(s) \in DOMAIN t /\ x = t[i - Len(s)].packet.id
          BY <4>1, <4>2, <4>3, <4>5
        <5> QED
          BY <2>5, <5>1
      <4> QED
        BY <4>4, <4>5
    <3> QED
      BY <3>1, <3>2
  <2>7. ExecutedIds(h)' = ExecutedIds(h)
    BY <1>3 DEF ExecutedIds
  <2>8. \A x \in IdsOn(h) : x < id
    BY <2>1 DEF OrderInv
  <2>9. IdsOn(h)' \subseteq IdsOn(h) \cup {id}
    BY <2>6, <2>7 DEF IdsOn
  <2>10. conn[h].session = "open" => Ordered(Unprocessed(h))'
    <3> SUFFICES ASSUME conn[h].session = "open" PROVE Ordered(Unprocessed(h))'
      OBVIOUS
    <3>1. Ordered(s)
      BY DEF OrderInv
    <3>2. Ordered(t)
      <4>1. request.id > 0
        BY Constants DEF Requests
      <4> QED
        BY <4>1, OrderedUnits, Constants
    <3>3. \A i \in DOMAIN s, j \in DOMAIN t : s[i].packet.id < t[j].packet.id
      <4>1. \A i \in DOMAIN s : s[i].packet.id \in IdsOn(h)
        BY DEF IdsOn, UnprocessedIds
      <4> QED
        BY <2>5, <2>8, <4>1
    <3>4. Ordered(s \o t)
      BY <2>4, <3>1, <3>2, <3>3, OrderedConcat
    <3> QED
      BY <2>4, <3>4 DEF Ordered
  <2>11. \A k \in Conns : conn'[k].session = "open" => Ordered(Unprocessed(k))'
    <3> SUFFICES ASSUME NEW k \in Conns \ {h}, conn'[k].session = "open"
                 PROVE  Ordered(Unprocessed(k))'
      BY <1>3, <2>10
    <3> QED
      BY <1>3, <2>3 DEF OrderInv, Ordered
  <2>12. ASSUME NEW k \in Conns, NEW x \in ExecutedIds(k)', NEW y \in UnprocessedIds(k)'
         PROVE  x < y
    <3>1. x \in ExecutedIds(k) /\ x \in IdsOn(k)
      BY <1>3, <2>12 DEF ExecutedIds, IdsOn
    <3>2. CASE y \in UnprocessedIds(k)
      BY <3>1, <3>2 DEF OrderInv
    <3>3. CASE y \notin UnprocessedIds(k)
      <4>1. k = h /\ y = id
        BY <1>3, <2>3, <2>6, <2>12, <3>3 DEF UnprocessedIds
      <4> QED
        BY <2>8, <3>1, <4>1
    <3> QED
      BY <3>2, <3>3
  <2>13. ASSUME NEW k \in Conns, NEW x \in IdsOn(k)'
         PROVE  x < client'[k[1]].next_request_id
    <3>1. CASE k = h /\ x = id
      BY <1>1, <1>3, <2>1, <3>1
    <3>2. CASE x \in IdsOn(k)
      <4>1. x \in Nat /\ x < client[k[1]].next_request_id
        BY <3>2, UnprocessedTyped DEF OrderInv, IdsOn
      <4>2. k[1] \in Clients
        BY Constants
      <4>3. client'[k[1]].next_request_id \in Nat
        BY <1>1, <1>2, <1>3, <4>2
      <4> QED
        BY <1>1, <1>4, <4>1, <4>2, <4>3
    <3> QED
      BY <2>3, <2>9, <2>13, <3>1, <3>2
  <2>14. ASSUME NEW k \in Conns, NEW l \in Conns, l[1] = k[1], l[2] < k[2],
                NEW x \in IdsOn(l)', NEW y \in IdsOn(k)'
         PROVE  x < y
    <3>1. l # k
      BY <2>14, Constants
    <3>2. CASE x \in IdsOn(l) /\ y \in IdsOn(k)
      BY <2>14, <3>2 DEF OrderInv
    <3>3. CASE k = h /\ y = id
      <4>1. x \in IdsOn(l)
        BY <2>3, <2>14, <3>1, <3>3
      <4> QED
        BY <2>1, <2>14, <3>3, <4>1 DEF OrderInv
    <3>4. CASE l = h
      <4>1. k[2] > client[k[1]].connects
        BY <1>1, <2>1, <2>14, <3>4, Constants
      <4>2. y \in IdsOn(k)
        BY <2>3, <2>14, <3>1, <3>4
      <4> QED
        BY <4>1, <4>2, FreshIds
    <3> QED
      BY <2>3, <2>9, <2>14, <3>2, <3>3, <3>4
  <2> QED
    BY <2>11, <2>12, <2>13, <2>14 DEF OrderInv
<1> QED
  BY <1>5, <1>6

LEMMA OrderServer ==
  ASSUME TypeOK, TypeOK', ServerInv, OrderInv,
         \/ \E k \in Conns : SessionRead(k) \/ SessionEnds(k) \/ Processed(k) \/ Write(k)
         \/ Down \/ Start \/ UNCHANGED vars
  PROVE  OrderInv'
<1>1. ASSUME client' = client,
             \A k \in Conns :
               /\ conn'[k].executed = conn[k].executed
               /\ conn'[k].session = "open" =>
                    /\ conn[k].session = "open"
                    /\ conn'[k].buffer \o conn'[k].up = conn[k].buffer \o conn[k].up
      PROVE  OrderInv'
  <2>1. \A x \in Clients : client'[x].next_request_id >= client[x].next_request_id
    BY <1>1, Types, Constants DEF ClientRecord
  <2>2. \A k \in Conns : Rest(k)' = Rest(k)
    BY <1>1 DEF Rest
  <2>3. \A k \in Conns : conn'[k].session = "open" => Unprocessed(k)' = Unprocessed(k)
    BY <1>1, <2>2 DEF Unprocessed
  <2> QED
    BY <1>1, <2>1, <2>3, OrderStable
<1>2. ASSUME NEW k \in Conns, SessionRead(k) PROVE OrderInv'
  BY <1>1, <1>2, SessionReadEffect
<1>3. ASSUME NEW k \in Conns, SessionEnds(k) PROVE OrderInv'
  BY <1>1, <1>3, SessionEndsEffect
<1>4. ASSUME NEW k \in Conns, Processed(k) PROVE OrderInv'
  BY <1>1, <1>4 DEF Processed
<1>5. ASSUME NEW k \in Conns, Write(k) PROVE OrderInv'
  BY <1>1, <1>5, WriteEffect
<1>6. ASSUME Down PROVE OrderInv'
  BY <1>1, <1>6, DownEffect
<1>7. ASSUME Start \/ UNCHANGED vars PROVE OrderInv'
  BY <1>1, <1>7 DEF Start, vars
<1> QED
  BY <1>2, <1>3, <1>4, <1>5, <1>6, <1>7

(* The packet that a session decodes is the first it has not processed.    *)
LEMMA FirstRequest ==
  ASSUME TypeOK, OrderInv, NEW k \in Conns, conn[k].session = "open",
         TryDecode(conn[k].buffer).status = "packet"
  PROVE  LET d == TryDecode(conn[k].buffer)
             rest == (d.buffer \o conn[k].up) \o Rest(k)
         IN  /\ d.packet \in Packets /\ d.packet.id > 0 /\ d.buffer \in Seq(Unit)
             /\ d.packet.id \in UnprocessedIds(k)
             /\ rest \in Seq(Unit) /\ Ordered(rest)
             /\ Unprocessed(k) = Units(d.packet) \o rest
             /\ \A i \in DOMAIN rest :
                  d.packet.id < rest[i].packet.id /\ rest[i].packet.id \in UnprocessedIds(k)
<1> DEFINE d == TryDecode(conn[k].buffer)
           rest == (d.buffer \o conn[k].up) \o Rest(k)
           units == Units(d.packet)
<1>1. conn[k].buffer \in Seq(Unit) /\ conn[k].up \in Seq(Unit) /\ Rest(k) \in Seq(Unit)
  BY ConnTyped, UnprocessedTyped
<1>2. /\ d.packet \in Packets /\ d.packet.size > 0 /\ d.buffer \in Seq(Unit)
      /\ conn[k].buffer = units \o d.buffer
  BY <1>1, Decodes
<1>3. units \in Seq(Unit)
  BY <1>2, UnitsOf
<1> HIDE DEF d
<1>4. d.buffer \o conn[k].up \in Seq(Unit) /\ rest \in Seq(Unit)
  <2>1. d.buffer \o conn[k].up \in Seq(Unit)
    BY <1>1, <1>2, ConcatProperties
  <2> QED
    BY <1>1, <2>1, ConcatProperties
<1>5. Unprocessed(k) = units \o rest
  <2> HIDE DEF units
  <2>1. (units \o d.buffer) \o conn[k].up = units \o (d.buffer \o conn[k].up)
    BY <1>1, <1>2, <1>3, Joined
  <2>2. (units \o (d.buffer \o conn[k].up)) \o Rest(k) = units \o rest
    BY <1>1, <1>3, <1>4, Joined, ZenonT(60)
  <2> QED
    BY <1>2, <2>1, <2>2 DEF Unprocessed
<1>6. Ordered(units \o rest)
  BY <1>5 DEF OrderInv
<1> HIDE DEF rest
<1>7. /\ Ordered(rest) /\ d.packet.id > 0
      /\ \A j \in DOMAIN rest : d.packet.id < rest[j].packet.id
      /\ \E i \in DOMAIN (units \o rest) : (units \o rest)[i].packet.id = d.packet.id
      /\ \A j \in DOMAIN rest : \E i \in DOMAIN (units \o rest) : (units \o rest)[i] = rest[j]
  BY <1>2, <1>4, <1>6, OrderedRest
<1> HIDE DEF units
<1>8. d.packet.id \in UnprocessedIds(k)
  BY <1>5, <1>7 DEF UnprocessedIds
<1>9. \A j \in DOMAIN rest : rest[j].packet.id \in UnprocessedIds(k)
  BY <1>5, <1>7 DEF UnprocessedIds
<1> QED
  BY <1>2, <1>4, <1>5, <1>7, <1>8, <1>9 DEF d, rest, units

LEMMA OrderAnswers ==
  ASSUME TypeOK, TypeOK', ServerInv, OrderInv, NEW k \in Conns, Answers(k)
  PROVE  OrderInv'
<1> DEFINE d == TryDecode(conn[k].buffer)
           id == d.packet.id
           rest == (d.buffer \o conn[k].up) \o Rest(k)
<1>1. conn[k].session = "open" /\ d.status = "packet"
  BY Constants DEF Answers, ServerInv
<1>2. /\ d.packet \in Packets /\ id > 0 /\ id \in UnprocessedIds(k)
      /\ rest \in Seq(Unit) /\ Ordered(rest)
      /\ \A i \in DOMAIN rest : id < rest[i].packet.id /\ rest[i].packet.id \in UnprocessedIds(k)
  BY <1>1, FirstRequest
<1>3. /\ client' = client /\ \A l \in Conns \ {k} : conn'[l] = conn[l]
      /\ conn'[k].session = "open" /\ conn'[k].up = conn[k].up /\ conn'[k].buffer = d.buffer
      /\ \/ conn'[k].executed = conn[k].executed
         \/ conn'[k].executed = Append(conn[k].executed, id)
  <2>1. PICK i \in {0, id}, executes \in BOOLEAN : Answer(k, d, i, executes)
    BY DEF Answers
  <2> HIDE DEF d
  <2> QED
    BY <1>1, <2>1, AnswerEffect
<1> HIDE DEF d
<1>4. Rest(k)' = Rest(k) /\ Unprocessed(k)' = rest
  <2>1. Rest(k)' = Rest(k)
    BY <1>3 DEF Rest
  <2> QED
    BY <1>3, <2>1 DEF Unprocessed
<1> HIDE DEF rest, id
<1>5. /\ \A y \in UnprocessedIds(k)' : id < y
      /\ UnprocessedIds(k)' \subseteq UnprocessedIds(k)
  BY <1>2, <1>3, <1>4 DEF UnprocessedIds
<1>6. ExecutedIds(k)' \subseteq ExecutedIds(k) \cup {id}
  <2>1. CASE conn'[k].executed = conn[k].executed
    BY <2>1 DEF ExecutedIds
  <2>2. CASE conn'[k].executed = Append(conn[k].executed, id)
    <3>1. conn[k].executed \in Seq(1..MaxRequests)
      BY ConnTyped DEF ConnRecord
    <3>2. id \in 1..MaxRequests
      BY <1>2, Constants DEF Packets, id
    <3>3. /\ conn'[k].executed \in Seq(1..MaxRequests)
          /\ Len(conn'[k].executed) = Len(conn[k].executed) + 1
          /\ \A i \in 1..Len(conn[k].executed) : conn'[k].executed[i] = conn[k].executed[i]
          /\ conn'[k].executed[Len(conn[k].executed) + 1] = id
      BY <2>2, <3>1, <3>2, AppendProperties
    <3>4. /\ DOMAIN conn[k].executed = 1..Len(conn[k].executed) /\ Len(conn[k].executed) \in Nat
          /\ DOMAIN conn'[k].executed = 1..Len(conn[k].executed) + 1
      BY <3>1, <3>3, LenProperties
    <3> QED
      BY <3>3, <3>4, SMTT(30) DEF ExecutedIds
  <2> QED
    BY <1>3, <2>1, <2>2
<1>7. ASSUME NEW l \in Conns
      PROVE  /\ IdsOn(l)' \subseteq IdsOn(l)
             /\ conn'[l].session = "open" => Ordered(Unprocessed(l))'
             /\ \A x \in ExecutedIds(l)', y \in UnprocessedIds(l)' : x < y
  <2>1. CASE l = k
    <3>1. IdsOn(k)' \subseteq IdsOn(k)
      BY <1>2, <1>5, <1>6 DEF IdsOn
    <3>2. Ordered(Unprocessed(k))'
      BY <1>2, <1>4 DEF Ordered
    <3>3. \A x \in ExecutedIds(k)', y \in UnprocessedIds(k)' : x < y
      BY <1>5, <1>6 DEF OrderInv
    <3> QED
      BY <2>1, <3>1, <3>2, <3>3
  <2>2. CASE l # k
    <3>1. conn'[l] = conn[l] /\ Unprocessed(l)' = Unprocessed(l)
      BY <1>3, <2>2 DEF Unprocessed, Rest
    <3>2. ExecutedIds(l)' = ExecutedIds(l) /\ UnprocessedIds(l)' = UnprocessedIds(l)
      BY <3>1 DEF ExecutedIds, UnprocessedIds
    <3>3. conn'[l].session = "open" => Ordered(Unprocessed(l))'
      BY <3>1 DEF OrderInv, Ordered
    <3> QED
      BY <3>2, <3>3 DEF IdsOn, OrderInv
  <2> QED
    BY <2>1, <2>2
<1>8. \A x \in Clients : client'[x].next_request_id >= client[x].next_request_id
  BY <1>3, Types, Constants DEF ClientRecord
<1> QED
  BY <1>7, <1>8, OrderShrinks

-----------------------------------------------------------------------------
(* The inductive invariant without ReplyInv, which it does not need.       *)

LEMMA TypeStep ==
  ASSUME OrderlyInv, [Next]_vars
  PROVE  TypeOK'
<1> USE DEF OrderlyInv
<1>1. ASSUME NEW c \in Clients, client[c].connected PROVE Current(c) \in Conns
  BY <1>1, CurrentConn
<1>2. ASSUME NEW c \in Clients, Connect(c) PROVE TypeOK'
  BY <1>2, ConnectTyped
<1>3. ASSUME NEW c \in Clients, Disconnect(c) PROVE TypeOK'
  BY <1>1, <1>3, DisconnectTyped DEF Disconnect
<1>4. ASSUME NEW c \in Clients, NEW request \in Requests, Execute(c, request) PROVE TypeOK'
  BY <1>4, ExecuteTyped
<1>5. ASSUME NEW c \in Clients, Send(c) PROVE TypeOK'
  BY <1>1, <1>5, SendTyped DEF Send, ClientInv
<1>6. ASSUME NEW c \in Clients, ReceiveMore(c) PROVE TypeOK'
  BY <1>1, <1>6, ReceiveMoreTyped DEF ReceiveMore, ClientInv
<1>7. ASSUME NEW c \in Clients, Fails(c) PROVE TypeOK'
  BY <1>7, ThrowsTyped DEF Fails
<1>8. ASSUME NEW c \in Clients, Returns(c) PROVE TypeOK'
  <2> DEFINE d == TryDecode(client[c].buffer)
  <2>1. client[c].buffer \in Seq(Unit) /\ d.status = "packet"
    BY <1>8, Types DEF Returns, ClientRecord
  <2>2. d.buffer \in Seq(Unit) /\ d.packet \in Packets
    BY <2>1, Decodes
  <2>3. d.packet.id \in 0..MaxRequests /\ 0 \in 0..MaxRequests
    BY <2>2, Constants DEF Packets
  <2>4. Ends(c, "response", d.packet.id, d.buffer) \/ Ends(c, "throw", 0, d.buffer)
    BY <1>8 DEF Returns
  <2> HIDE DEF d
  <2> QED
    BY <2>2, <2>3, <2>4, EndsTyped
<1>9. ASSUME NEW k \in Conns, SessionRead(k) \/ SessionEnds(k) \/ Write(k) PROVE TypeOK'
  BY <1>9, SessionReadTyped, SessionEndsTyped, WriteTyped
<1>10. ASSUME NEW k \in Conns, Processed(k) PROVE TypeOK'
  <2>1. server' \in ServerRecord /\ client' = client /\ conn' = conn
    BY <1>10, Types DEF Processed, ServerRecord
  <2> QED
    BY <2>1, Types, TypesPrime DEF Capacities
<1>11. ASSUME NEW k \in Conns, Answers(k) PROVE TypeOK'
  <2> DEFINE d == TryDecode(conn[k].buffer)
  <2>1. conn[k].session = "open" /\ server.busy = k /\ d.status = "packet"
    BY <1>11, Constants DEF Answers, ServerInv
  <2>2. /\ d.packet \in Packets /\ d.packet.id \in 0..MaxRequests /\ 0 \in 0..MaxRequests
        /\ d.packet.id # 0 /\ d.buffer \in Seq(Unit)
    <3>1. d.packet \in Packets /\ d.packet.id > 0 /\ d.buffer \in Seq(Unit)
      BY <2>1, FirstRequest
    <3> HIDE DEF d
    <3> QED
      BY <3>1, Constants DEF Packets
  <2>3. PICK i \in {0, d.packet.id}, executes \in BOOLEAN : Answer(k, d, i, executes)
    BY <1>11 DEF Answers
  <2> HIDE DEF d
  <2> QED
    BY <2>1, <2>2, <2>3, AnswerTyped
<1>12. ASSUME UNCHANGED vars PROVE TypeOK'
  BY <1>12, Types, TypesPrime DEF vars, Capacities
<1> QED
  BY <1>2, <1>3, <1>4, <1>5, <1>6, <1>7, <1>8, <1>9, <1>10, <1>11, <1>12,
     DownTyped, StartTyped, Steps

LEMMA OrderStep ==
  ASSUME OrderlyInv, TypeOK', [Next]_vars
  PROVE  OrderInv'
<1> USE DEF OrderlyInv
<1>1. ASSUME NEW c \in Clients,
             \/ Connect(c) \/ Disconnect(c) \/ Send(c) \/ ReceiveMore(c) \/ Fails(c) \/ Returns(c)
             \/ \E request \in Requests : Execute(c, request)
      PROVE  OrderInv'
  BY <1>1, OrderClient, OrderExecute
<1>2. ASSUME NEW k \in Conns, Answers(k) PROVE OrderInv'
  BY <1>2, OrderAnswers
<1>3. ASSUME \/ \E k \in Conns : SessionRead(k) \/ SessionEnds(k) \/ Processed(k) \/ Write(k)
             \/ Down \/ Start \/ UNCHANGED vars
      PROVE  OrderInv'
  BY <1>3, OrderServer
<1> QED
  BY <1>1, <1>2, <1>3, Steps

LEMMA InitOrder == Init => OrderInv
<1> SUFFICES ASSUME Init PROVE OrderInv
  OBVIOUS
<1>1. ASSUME NEW k \in Conns
      PROVE  conn[k].session = "none" /\ ExecutedIds(k) = {} /\ UnprocessedIds(k) = {}
  <2>1. conn[k].session = "none" /\ conn[k].executed = <<>>
    BY DEF Init
  <2> QED
    BY <2>1, EmptySeq, LenProperties DEF ExecutedIds, UnprocessedIds
<1> QED
  BY <1>1 DEF OrderInv, IdsOn

LEMMA OrderlyInit == Init => OrderlyInv
BY InitTyped, InitSimple, InitOrder DEF OrderlyInv

LEMMA OrderlyStep == ASSUME OrderlyInv, [Next]_vars PROVE OrderlyInv'
<1>1. TypeOK'
  BY TypeStep
<1> QED
  BY <1>1, ClientInvStep, ServerInvStep, FreshInvStep, OrderStep DEF OrderlyInv

(* The requests of a connection are, from the handler back to the client,  *)
(* in the order in which execute numbered them.                            *)
THEOREM OrderlyInvariant == Spec => []OrderlyInv
<1>1. Init => OrderlyInv
  BY OrderlyInit
<1>2. ASSUME OrderlyInv, [Next]_vars PROVE OrderlyInv'
  BY <1>2, OrderlyStep
<1> QED
  BY <1>1, <1>2, PTL DEF Spec

(* Clients, connections and the server always have the states the code     *)
(* can be in, and no stream holds more than its capacity.                  *)
THEOREM TypeCorrect == Spec => []TypeOK
<1>1. OrderlyInv => TypeOK
  BY DEF OrderlyInv
<1> QED
  BY <1>1, OrderlyInvariant, PTL

-----------------------------------------------------------------------------
(* What follows from it.                                                   *)

LEMMA EmptyDecodes == TryDecode(<<>>).status = "more"
<1>1. Len(<<>>) < HeaderSize
  BY EmptySeq, SizesAssumption
<1> QED
  BY <1>1 DEF TryDecode, Decoded

LEMMA StuckStep ==
  ASSUME OrderlyInv, [Next]_vars
  PROVE  StaysStuck
<1> USE DEF OrderlyInv
<1> SUFFICES ASSUME NEW x \in Clients,
                    TryDecode(client[x].buffer).status = "throw", client'[x].connected
             PROVE  /\ TryDecode(client'[x].buffer).status = "throw"
                    /\ client'[x].outcome # client[x].outcome =>
                         client'[x].outcome.status = "throw"
  BY DEF StaysStuck
<1>1. CASE client'[x] = client[x]
  BY <1>1
<1>2. ASSUME NEW c \in Clients, Connect(c) PROVE client'[x] = client[x]
  <2>1. CASE x = c
    <3>1. client[x].buffer = <<>>
      BY <1>2, <2>1 DEF Connect, ClientInv
    <3> QED
      BY <3>1, EmptyDecodes
  <2>2. CASE x # c
    BY <1>2, <2>2, ConnectEffect
  <2> QED
    BY <2>1, <2>2
<1>3. ASSUME NEW c \in Clients, Disconnect(c) PROVE client'[x] = client[x]
  <2>1. Current(c) \in Conns
    BY <1>3, CurrentConn DEF Disconnect
  <2> QED
    BY <1>3, <2>1, DisconnectEffect
<1>4. ASSUME NEW c \in Clients, NEW request \in Requests, Execute(c, request)
      PROVE  /\ client'[x].buffer = client[x].buffer
             /\ client'[x].outcome # client[x].outcome =>
                  client'[x].outcome.status = "throw"
  <2>1. CASE x = c /\ client[c].connected
    BY <1>4, <2>1, ExecuteEffect
  <2>2. CASE x = c /\ ~client[c].connected
    BY <1>4, <2>2, ExecuteEffect DEF Outcome
  <2>3. CASE x # c
    BY <1>4, <2>3, ExecuteEffect
  <2> QED
    BY <2>1, <2>2, <2>3
<1>5. ASSUME NEW c \in Clients, Send(c)
      PROVE  client'[x].buffer = client[x].buffer /\ client'[x].outcome = client[x].outcome
  <2>1. Current(c) \in Conns
    BY <1>5, CurrentConn DEF Send, ClientInv
  <2>2. /\ client'[c].buffer = client[c].buffer /\ client'[c].outcome = client[c].outcome
        /\ \A y \in Clients \ {c} : client'[y] = client[y]
    BY <1>5, <2>1, SendEffect
  <2> QED
    BY <2>2
<1>6. ASSUME NEW c \in Clients, ReceiveMore(c) PROVE client'[x] = client[x]
  <2>1. Current(c) \in Conns /\ TryDecode(client[c].buffer).status = "more"
    BY <1>6, CurrentConn DEF ReceiveMore, ClientInv
  <2>2. \A y \in Clients \ {c} : client'[y] = client[y]
    BY <1>6, <2>1, ReceiveMoreEffect
  <2> QED
    BY <2>1, <2>2
<1>7. ASSUME NEW c \in Clients, Fails(c)
      PROVE  /\ client'[x].buffer = client[x].buffer
             /\ client'[x].outcome # client[x].outcome =>
                  client'[x].outcome.status = "throw"
  <2>1. Ends(c, "throw", 0, client[c].buffer)
    BY <1>7 DEF Fails, Throws
  <2>2. /\ client'[c].buffer = client[c].buffer
        /\ client'[c].outcome = Outcome("throw", client[c].next_request_id - 1, 0)
        /\ \A y \in Clients \ {c} : client'[y] = client[y]
    BY <2>1, EndsEffect
  <2> QED
    BY <2>2 DEF Outcome
<1>8. ASSUME NEW c \in Clients, Returns(c) PROVE client'[x] = client[x]
  <2>1. x # c
    BY <1>8 DEF Returns
  <2>2. PICK status, response, buffer : Ends(c, status, response, buffer)
    BY <1>8 DEF Returns
  <2> QED
    BY <2>1, <2>2, EndsEffect
<1>9. ASSUME NEW k \in Conns,
             SessionRead(k) \/ SessionEnds(k) \/ Processed(k) \/ Answers(k) \/ Write(k)
      PROVE  client' = client
  BY <1>9 DEF SessionRead, SessionEnds, Processed, Answers, Answer, Write
<1>10. ASSUME Down \/ Start \/ UNCHANGED vars PROVE client' = client
  BY <1>10 DEF Down, Start, vars
<1> QED
  BY <1>1, <1>2, <1>3, <1>4, <1>5, <1>6, <1>7, <1>8, <1>9, <1>10, Steps

(* A client whose buffer does not decode can only fail until it connects   *)
(* again: receive_response never drops what try_decode_one throws at.      *)
THEOREM StuckClients == Spec => StuckUntilReconnect
BY StuckStep, OrderlyInvariant, PTL DEF Spec, StuckUntilReconnect

LEMMA OnlyAnswersExecute ==
  ASSUME OrderlyInv, [Next]_vars, NEW k \in Conns, conn'[k].executed # conn[k].executed
  PROVE  Answers(k)
<1> USE DEF OrderlyInv
<1>1. ASSUME NEW c \in Clients,
             \/ Connect(c) \/ Disconnect(c) \/ Send(c) \/ ReceiveMore(c)
      PROVE  FALSE
  <2>1. ~Connect(c) => Current(c) \in Conns
    BY <1>1, CurrentConn DEF Disconnect, Send, ReceiveMore, ClientInv
  <2>2. CASE Connect(c)
    BY <2>2, ConnectEffect
  <2>3. CASE Disconnect(c)
    BY <2>1, <2>3, DisconnectEffect DEF Connect, Disconnect
  <2>4. CASE Send(c)
    <3>1. Current(c) \in Conns
      BY <2>1, <2>4 DEF Connect, Send
    <3>2. /\ conn'[Current(c)].executed = conn[Current(c)].executed
          /\ \A l \in Conns \ {Current(c)} : conn'[l] = conn[l]
      BY <2>4, <3>1, SendEffect
    <3> QED
      BY <3>2
  <2>5. CASE ReceiveMore(c)
    <3>1. Current(c) \in Conns
      BY <2>1, <2>5 DEF Connect, ReceiveMore
    <3>2. /\ conn'[Current(c)].executed = conn[Current(c)].executed
          /\ \A l \in Conns \ {Current(c)} : conn'[l] = conn[l]
      BY <2>5, <3>1, ReceiveMoreEffect
    <3> QED
      BY <3>2
  <2> QED
    BY <1>1, <2>2, <2>3, <2>4, <2>5
<1>2. ASSUME NEW c \in Clients,
             Fails(c) \/ Returns(c) \/ \E request \in Requests : Execute(c, request)
      PROVE  conn' = conn
  BY <1>2 DEF Fails, Returns, Throws, Ends, Execute
<1>3. ASSUME NEW l \in Conns,
             SessionRead(l) \/ SessionEnds(l) \/ Processed(l) \/ Write(l)
      PROVE  FALSE
  <2>1. CASE SessionRead(l)
    BY <2>1, SessionReadEffect
  <2>2. CASE SessionEnds(l)
    BY <2>2, SessionEndsEffect
  <2>3. CASE Processed(l)
    BY <2>3 DEF Processed
  <2>4. CASE Write(l)
    BY <2>4, WriteEffect
  <2> QED
    BY <1>3, <2>1, <2>2, <2>3, <2>4
<1>4. ASSUME NEW l \in Conns, Answers(l) PROVE l = k
  <2>1. \A m \in Conns \ {l} : conn'[m] = conn[m]
    BY <1>4, AnswerEffect DEF Answers
  <2> QED
    BY <2>1
<1>5. ASSUME Down PROVE FALSE
  BY <1>5, DownEffect
<1>6. ASSUME Start \/ UNCHANGED vars PROVE conn' = conn
  BY <1>6 DEF Start, vars
<1> QED
  BY <1>1, <1>2, <1>3, <1>4, <1>5, <1>6, Steps

(* The request that a session executes was not executed before, on any     *)
(* connection, and those executed after it are on later connections.       *)
LEMMA ExecutedIsNew ==
  ASSUME OrderlyInv, NEW k \in Conns, Answers(k)
  PROVE  LET id == TryDecode(conn[k].buffer).packet.id IN
         /\ id \in Nat \ {0} /\ id < client[k[1]].next_request_id
         /\ \A x \in ExecutedIds(k) : x < id
         /\ \A l \in Conns : l[1] = k[1] => \A x \in ExecutedIds(l) :
              x # id /\ (x > id => k[2] < client[k[1]].connects)
<1> USE DEF OrderlyInv
<1> DEFINE id == TryDecode(conn[k].buffer).packet.id
<1>1. conn[k].session = "open" /\ TryDecode(conn[k].buffer).status = "packet"
  BY Constants DEF Answers, ServerInv
<1>2. id \in UnprocessedIds(k) /\ id > 0
  BY <1>1, FirstRequest
<1> HIDE DEF id
<1>3. id \in IdsOn(k) /\ id \in Nat
  BY <1>2, UnprocessedTyped DEF IdsOn
<1>4. \A x \in ExecutedIds(k) : x < id
  BY <1>2 DEF OrderInv
<1>5. ASSUME NEW l \in Conns, l[1] = k[1], NEW x \in ExecutedIds(l)
      PROVE  x # id /\ (x > id => k[2] < client[k[1]].connects)
  <2>1. x \in IdsOn(l) /\ x \in Nat
    BY <1>5, UnprocessedTyped DEF IdsOn
  <2>2. k[2] \in Nat /\ l[2] \in Nat /\ client[k[1]].connects \in Nat
    BY Types, Constants, SMTT(30) DEF ClientRecord
  <2>3. l[2] <= client[k[1]].connects
    BY <1>5, <2>1, <2>2, FreshIds
  <2>4. CASE l[2] < k[2]
    <3>1. x < id
      BY <1>3, <1>5, <2>1, <2>4 DEF OrderInv
    <3> QED
      BY <1>3, <2>1, <3>1
  <2>5. CASE l[2] = k[2]
    <3>1. l = k
      BY <1>5, <2>5, Constants
    <3> QED
      BY <1>3, <1>4, <1>5, <2>1, <3>1
  <2>6. CASE l[2] > k[2]
    <3>1. id < x
      BY <1>3, <1>5, <2>1, <2>6 DEF OrderInv
    <3> QED
      BY <1>3, <2>1, <2>2, <2>3, <2>6, <3>1
  <2> QED
    BY <2>2, <2>4, <2>5, <2>6
<1>6. id < client[k[1]].next_request_id
  BY <1>3 DEF OrderInv
<1> QED
  BY <1>2, <1>3, <1>4, <1>5, <1>6 DEF id

LEMMA ExecutedBy ==
  ASSUME NEW c \in Clients
  PROVE  Executed(c) = UNION {ExecutedIds(<<c, n>>) : n \in 1..MaxConnections}
BY DEF Executed, ExecutedIds

(* A session executes the requests of its connection in order, and only    *)
(* those left behind on an earlier connection are overtaken.               *)
THEOREM SessionsInOrder == Spec => OvertakenOnlyIfAbandoned
<1>1. ASSUME OrderlyInv, [Next]_vars PROVE ExecutesInOrder
  <2> SUFFICES ASSUME NEW k \in Conns, conn'[k].executed # conn[k].executed
               PROVE  LET old == conn[k].executed
                          new == conn'[k].executed
                          id == new[Len(new)]
                      IN  /\ \A i \in DOMAIN old : old[i] < id
                          /\ (\E later \in Executed(k[1]) : later > id) =>
                               k[2] < client[k[1]].connects
    BY DEF ExecutesInOrder
  <2> DEFINE d == TryDecode(conn[k].buffer)
             id == d.packet.id
  <2>1. Answers(k)
    BY <1>1, OnlyAnswersExecute
  <2>2. conn'[k].executed = Append(conn[k].executed, id)
    <3>1. PICK i \in {0, id}, executes \in BOOLEAN : Answer(k, d, i, executes)
      BY <2>1 DEF Answers
    <3>2. TypeOK
      BY <1>1 DEF OrderlyInv
    <3> HIDE DEF d
    <3> QED
      BY <3>1, <3>2, AnswerEffect
  <2> HIDE DEF d
  <2>3. conn'[k].executed[Len(conn'[k].executed)] = id
    <3>1. conn[k].executed \in Seq(1..MaxRequests)
      BY <1>1, ConnTyped DEF OrderlyInv, ConnRecord
    <3>2. id \in 1..MaxRequests
      <4>1. id \in Nat \ {0} /\ id < client[k[1]].next_request_id
        BY <1>1, <2>1, ExecutedIsNew DEF d
      <4>2. client[k[1]].next_request_id \in 1..MaxRequests + 1
        BY <1>1, Types, Constants DEF OrderlyInv, ClientRecord
      <4> QED
        BY <4>1, <4>2, Constants
    <3>3. /\ Len(Append(conn[k].executed, id)) = Len(conn[k].executed) + 1
          /\ Append(conn[k].executed, id)[Len(conn[k].executed) + 1] = id
      BY <3>1, <3>2, AppendProperties
    <3> QED
      BY <2>2, <3>3
  <2>4. /\ \A x \in ExecutedIds(k) : x < id
        /\ \A l \in Conns : l[1] = k[1] => \A x \in ExecutedIds(l) :
             x > id => k[2] < client[k[1]].connects
    BY <1>1, <2>1, ExecutedIsNew DEF d
  <2>5. \A i \in DOMAIN conn[k].executed : conn[k].executed[i] < id
    BY <2>4 DEF ExecutedIds
  <2>6. ASSUME NEW later \in Executed(k[1]), later > id
        PROVE  k[2] < client[k[1]].connects
    <3>1. k[1] \in Clients
      BY Constants
    <3>2. PICK n \in 1..MaxConnections : later \in ExecutedIds(<<k[1], n>>)
      BY <3>1, ExecutedBy
    <3>3. <<k[1], n>> \in Conns /\ <<k[1], n>>[1] = k[1]
      BY <3>1, Constants
    <3> QED
      BY <2>4, <2>6, <3>2, <3>3
  <2> QED
    BY <2>3, <2>5, <2>6
<1> QED
  BY <1>1, OrderlyInvariant, PTL DEF Spec, OvertakenOnlyIfAbandoned

-----------------------------------------------------------------------------
(* Responses.                                                              *)

(* A part of the units of a packet that holds another holds nothing else.  *)
LEMMA OnePacket ==
  ASSUME NEW packet \in Packets, packet.size > 0, NEW t \in Seq(Unit), NEW u \in Seq(Unit),
         NEW response \in Packets, NEW n \in 0..response.size,
         (Units(packet) \o t) \o u = Take(Units(response), n)
  PROVE  packet = response /\ t = <<>> /\ u = <<>>
<1> DEFINE v == (Units(packet) \o t) \o u
           w == Take(Units(response), n)
<1>1. /\ packet.size \in Nat /\ response.size \in Nat /\ n \in Nat
      /\ Units(packet) \in Seq(Unit) /\ Len(Units(packet)) = packet.size
      /\ Units(packet)[1] = [packet |-> packet, part |-> 1]
      /\ Units(response) \in Seq(Unit) /\ Len(Units(response)) = response.size
      /\ \A i \in 1..response.size : Units(response)[i] = [packet |-> response, part |-> i]
  BY UnitsOf, ProtocolAssumption DEF Packets
<1>2. Len(t) \in Nat /\ Len(u) \in Nat
  BY LenProperties
<1>3. /\ Units(packet) \o t \in Seq(Unit) /\ Len(Units(packet) \o t) = packet.size + Len(t)
      /\ (Units(packet) \o t)[1] = [packet |-> packet, part |-> 1]
  BY <1>1, <1>2, ConcatProperties
<1>4. Len(v) = (packet.size + Len(t)) + Len(u) /\ v[1] = [packet |-> packet, part |-> 1]
  BY <1>1, <1>2, <1>3, ConcatProperties, SMTT(30)
<1>5. Len(w) = n /\ \A i \in 1..n : w[i] = Units(response)[i]
  <2>1. n \in 0..Len(Units(response))
    BY <1>1
  <2> QED
    BY <1>1, <2>1, TakeSkip
<1> HIDE DEF v, w
<1>6. v = w
  BY DEF v, w
<1>7. n = (packet.size + Len(t)) + Len(u) /\ n >= 1
  BY <1>1, <1>2, <1>4, <1>5, <1>6
<1>8. [packet |-> packet, part |-> 1] = [packet |-> response, part |-> 1]
  <2>1. 1 \in 1..n /\ 1 \in 1..response.size
    BY <1>1, <1>7
  <2> QED
    BY <1>1, <1>4, <1>5, <1>6, <2>1
<1>9. packet = response
  <2>1. [packet |-> packet, part |-> 1].packet = [packet |-> response, part |-> 1].packet
    BY <1>8
  <2> QED
    BY <2>1
<1>10. Len(t) = 0 /\ Len(u) = 0
  BY <1>1, <1>2, <1>7, <1>9
<1> QED
  BY <1>9, <1>10, EmptySeq

LEMMA PartOfPart ==
  ASSUME NEW a \in Seq(Unit), NEW b \in Seq(Unit), NEW w \in Seq(Unit), NEW n \in 0..Len(b),
         NEW response \in Packets, NEW m \in 0..response.size,
         (a \o b) \o w = Take(Units(response), m)
  PROVE  /\ Len(a) + n \in 0..response.size
         /\ (a \o Take(b, n)) \o <<>> = Take(Units(response), Len(a) + n)
<1> DEFINE x == (a \o b) \o w
           y == Take(Units(response), m)
           v == a \o Take(b, n)
           h == Len(a) + n
           z == Take(Units(response), h)
<1>1. /\ response.size \in Nat /\ m \in Nat
      /\ Units(response) \in Seq(Unit) /\ Len(Units(response)) = response.size
  BY UnitsOf, ProtocolAssumption DEF Packets
<1>2. Len(a) \in Nat /\ Len(b) \in Nat /\ Len(w) \in Nat /\ n \in Nat
  BY LenProperties
<1>3. /\ a \o b \in Seq(Unit) /\ Len(a \o b) = Len(a) + Len(b)
      /\ \A i \in 1..Len(a) + Len(b) : (a \o b)[i] = IF i <= Len(a) THEN a[i] ELSE b[i - Len(a)]
  BY ConcatProperties
<1>4. Len(x) = (Len(a) + Len(b)) + Len(w) /\ \A i \in 1..Len(a) + Len(b) : x[i] = (a \o b)[i]
  BY <1>2, <1>3, ConcatProperties
<1>5. Len(y) = m /\ \A i \in 1..m : y[i] = Units(response)[i]
  <2>1. m \in 0..Len(Units(response))
    BY <1>1
  <2> QED
    BY <1>1, <2>1, TakeSkip
<1>6. x = y
  OBVIOUS
<1>7. Take(b, n) \in Seq(Unit) /\ Len(Take(b, n)) = n /\ \A i \in 1..n : Take(b, n)[i] = b[i]
  BY TakeSkip
<1>8. /\ v \in Seq(Unit) /\ Len(v) = h
      /\ \A i \in 1..h : v[i] = IF i <= Len(a) THEN a[i] ELSE Take(b, n)[i - Len(a)]
  BY <1>7, ConcatProperties
<1> HIDE DEF x, y, v
<1>9. h \in Nat /\ h <= m /\ h <= response.size
  BY <1>1, <1>2, <1>4, <1>5, <1>6
<1>10. z \in Seq(Unit) /\ Len(z) = h /\ \A i \in 1..h : z[i] = Units(response)[i]
  BY <1>1, <1>9, TakeSkip
<1> HIDE DEF z
<1>11. ASSUME NEW i \in 1..h PROVE v[i] = z[i]
  <2>1. i \in 1..m /\ i \in 1..Len(a) + Len(b)
    BY <1>2, <1>9
  <2>2. z[i] = (a \o b)[i]
    BY <1>4, <1>5, <1>6, <1>10, <2>1
  <2>3. CASE i <= Len(a)
    BY <1>3, <1>8, <2>1, <2>2, <2>3
  <2>4. CASE ~(i <= Len(a))
    <3>1. i - Len(a) \in 1..n
      BY <1>2, <2>4
    <3> QED
      BY <1>3, <1>7, <1>8, <2>1, <2>2, <2>4, <3>1
  <2> QED
    BY <2>3, <2>4
<1>12. v = z
  BY <1>8, <1>10, <1>11, SeqEqual
<1>13. v \o <<>> = v
  BY <1>8, ConcatEmptySeq
<1> QED
  BY <1>9, <1>12, <1>13 DEF v, z

LEMMA InTransitTyped ==
  ASSUME TypeOK, NEW c \in Clients, NEW k \in Conns
  PROVE  /\ client[c].buffer \in Seq(Unit) /\ conn[k].down \in Seq(Unit)
         /\ Written(k) \in Seq(Unit)
         /\ InTransit(c, k) \in Seq(Unit)
         /\ InTransit(c, k) = <<>> <=>
              client[c].buffer = <<>> /\ conn[k].down = <<>> /\ Written(k) = <<>>
<1>1. client[c].buffer \in Seq(Unit) /\ conn[k].down \in Seq(Unit) /\ Written(k) \in Seq(Unit)
  BY ConnTyped, EmptySeq, Types DEF ClientRecord, ServerRecord, Written
<1>2. /\ client[c].buffer \o conn[k].down \in Seq(Unit)
      /\ client[c].buffer \o conn[k].down = <<>> <=>
           client[c].buffer = <<>> /\ conn[k].down = <<>>
  BY <1>1, Concat
<1>3. /\ InTransit(c, k) \in Seq(Unit)
      /\ InTransit(c, k) = <<>> <=>
           client[c].buffer \o conn[k].down = <<>> /\ Written(k) = <<>>
  BY <1>1, <1>2, Concat DEF InTransit
<1> QED
  BY <1>1, <1>2, <1>3

(* Bytes that move between streams change nothing.                         *)
LEMMA ReplyStable ==
  ASSUME NEW c \in Clients, NEW k \in Conns, Reply(c, k),
         client'[c].pc = client[c].pc,
         client'[c].next_request_id = client[c].next_request_id,
         conn'[k].session = conn[k].session,
         conn[k].session = "open" => Unprocessed(k)' = Unprocessed(k),
         InTransit(c, k)' = InTransit(c, k),
         Executed(c) \subseteq Executed(c)',
         Stuck(c) => Stuck(c)', Dead(c, k) => Dead(c, k)'
  PROVE  Reply(c, k)'
<1>1. CASE Requested(c, k)
  BY <1>1 DEF Requested, Reply
<1>2. CASE Answered(c, k)
  BY <1>2 DEF Answered, Reply
<1>3. CASE Stuck(c) \/ Dead(c, k)
  BY <1>3 DEF Reply
<1> QED
  BY <1>1, <1>2, <1>3 DEF Reply

(* What a step of others leaves alone.                                     *)
LEMMA ReplyUntouched ==
  ASSUME NEW c \in Clients, NEW k \in Conns, Reply(c, k),
         client'[c] = client[c], Executed(c) \subseteq Executed(c)',
         conn'[k].session = conn[k].session, conn'[k].down = conn[k].down,
         conn[k].session = "open" => Unprocessed(k)' = Unprocessed(k),
         Written(k)' = Written(k)
  PROVE  Reply(c, k)'
<1>1. InTransit(c, k)' = InTransit(c, k)
  BY DEF InTransit
<1>2. (Stuck(c) => Stuck(c)') /\ (Dead(c, k) => Dead(c, k)')
  BY DEF Stuck, Dead
<1> QED
  BY <1>1, <1>2, ReplyStable

LEMMA ExecutedGrows ==
  ASSUME OrderlyInv, [Next]_vars, NEW c \in Clients
  PROVE  Executed(c) \subseteq Executed(c)'
<1>1. ASSUME NEW k \in Conns PROVE ExecutedIds(k) \subseteq ExecutedIds(k)'
  <2>1. CASE conn'[k].executed = conn[k].executed
    BY <2>1 DEF ExecutedIds
  <2>2. CASE conn'[k].executed # conn[k].executed
    <3> DEFINE d == TryDecode(conn[k].buffer)
    <3>1. Answers(k)
      BY <2>2, OnlyAnswersExecute
    <3>2. PICK i \in {0, d.packet.id}, executes \in BOOLEAN : Answer(k, d, i, executes)
      BY <3>1 DEF Answers
    <3>3. conn'[k].executed = Append(conn[k].executed, d.packet.id)
      <4> HIDE DEF d
      <4> QED
        BY <2>2, <3>2, AnswerEffect DEF OrderlyInv
    <3>4. d.packet.id \in 1..MaxRequests
      <4>1. d.packet.id \in Nat \ {0} /\ d.packet.id < client[k[1]].next_request_id
        BY <3>1, ExecutedIsNew
      <4>2. client[k[1]].next_request_id \in 1..MaxRequests + 1
        BY Types, Constants DEF OrderlyInv, ClientRecord
      <4> QED
        BY <4>1, <4>2, Constants
    <3> HIDE DEF d
    <3>5. conn[k].executed \in Seq(1..MaxRequests)
      BY ConnTyped DEF OrderlyInv, ConnRecord
    <3>6. /\ conn'[k].executed \in Seq(1..MaxRequests)
          /\ Len(conn'[k].executed) = Len(conn[k].executed) + 1
          /\ \A j \in 1..Len(conn[k].executed) : conn'[k].executed[j] = conn[k].executed[j]
      BY <3>3, <3>4, <3>5, AppendProperties
    <3>7. /\ DOMAIN conn[k].executed = 1..Len(conn[k].executed) /\ Len(conn[k].executed) \in Nat
          /\ DOMAIN conn'[k].executed = 1..Len(conn[k].executed) + 1
      BY <3>5, <3>6, LenProperties
    <3> QED
      BY <3>6, <3>7 DEF ExecutedIds
  <2> QED
    BY <2>1, <2>2
<1>2. \A n \in 1..MaxConnections : ExecutedIds(<<c, n>>) \subseteq ExecutedIds(<<c, n>>)'
  BY <1>1, Constants
<1>3. Executed(c)' = UNION {ExecutedIds(<<c, n>>)' : n \in 1..MaxConnections}
  BY DEF Executed, ExecutedIds
<1> QED
  BY <1>2, <1>3, ExecutedBy

LEMMA ClientStepsLocal ==
  ASSUME OrderlyInv, NEW c \in Clients,
         \/ Connect(c) \/ Disconnect(c) \/ Send(c) \/ ReceiveMore(c) \/ Fails(c) \/ Returns(c)
         \/ \E request \in Requests : Execute(c, request)
  PROVE  /\ server' = server
         /\ \A x \in Clients \ {c} : client'[x] = client[x]
         /\ \A k \in Conns : k[1] # c => conn'[k] = conn[k]
<1> USE DEF OrderlyInv
<1>1. CASE Connect(c)
  <2>1. PICK l \in Conns : l = <<c, client[c].connects + 1>>
    BY <1>1, ConnectEffect
  <2>2. l[1] = c /\ \A k \in Conns \ {l} : conn'[k] = conn[k]
    BY <1>1, <2>1, ConnectEffect
  <2> QED
    BY <1>1, <2>2, ConnectEffect
<1>2. CASE Disconnect(c) \/ Send(c) \/ ReceiveMore(c)
  <2>1. Current(c) \in Conns /\ Current(c)[1] = c
    BY <1>2, CurrentConn DEF Disconnect, Send, ReceiveMore, ClientInv
  <2>2. /\ server' = server
        /\ \A x \in Clients \ {c} : client'[x] = client[x]
        /\ \A k \in Conns \ {Current(c)} : conn'[k] = conn[k]
    <3>1. CASE Disconnect(c)
      BY <2>1, <3>1, DisconnectEffect
    <3>2. CASE Send(c)
      BY <2>1, <3>2, SendEffect
    <3>3. CASE ReceiveMore(c)
      BY <2>1, <3>3, ReceiveMoreEffect
    <3> QED
      BY <1>2, <3>1, <3>2, <3>3
  <2> QED
    BY <2>1, <2>2
<1>3. CASE Fails(c) \/ Returns(c)
  <2>1. PICK status, response, buffer : Ends(c, status, response, buffer)
    BY <1>3 DEF Fails, Returns, Throws
  <2> QED
    BY <2>1, EndsEffect
<1>4. CASE \E request \in Requests : Execute(c, request)
  BY <1>4, ExecuteEffect
<1> QED
  BY <1>1, <1>2, <1>3, <1>4

LEMMA ReplyOthers ==
  ASSUME IInv, [Next]_vars, NEW c \in Clients, NEW x \in Clients \ {c}, client'[x].connected,
         \/ Connect(c) \/ Disconnect(c) \/ Send(c) \/ ReceiveMore(c) \/ Fails(c) \/ Returns(c)
         \/ \E request \in Requests : Execute(c, request)
  PROVE  Reply(x, Current(x))'
<1>1. /\ server' = server /\ client'[x] = client[x]
      /\ \A k \in Conns : k[1] # c => conn'[k] = conn[k]
  BY ClientStepsLocal DEF IInv
<1>2. PICK k \in Conns : k = Current(x) /\ k[1] = x
  BY <1>1, CurrentConn DEF IInv, OrderlyInv
<1>3. Current(x)' = k /\ conn'[k] = conn[k]
  BY <1>1, <1>2 DEF Current
<1>4. Written(k)' = Written(k) /\ Unprocessed(k)' = Unprocessed(k)
  BY <1>1, <1>2, <1>3 DEF Written, Unprocessed, Rest
<1>5. Reply(x, k)
  BY <1>1, <1>2 DEF IInv, ReplyInv
<1>6. Executed(x) \subseteq Executed(x)'
  BY ExecutedGrows DEF IInv
<1>7. Reply(x, k)'
  BY <1>1, <1>3, <1>4, <1>5, <1>6, ReplyUntouched
<1> QED
  BY <1>3, <1>7

LEMMA ReplyConnect ==
  ASSUME IInv, NEW c \in Clients, Connect(c)
  PROVE  Reply(c, Current(c))'
<1> USE DEF IInv, OrderlyInv
<1>1. PICK k \in Conns : k = <<c, client[c].connects + 1>>
  BY ConnectEffect
<1>2. /\ server' = server /\ client'[c].pc = "idle" /\ client'[c].buffer = <<>>
      /\ client'[c].connects = client[c].connects + 1
      /\ conn'[k].session = "open"
      /\ conn'[k].up = conn[k].up /\ conn'[k].down = conn[k].down
      /\ conn'[k].buffer = conn[k].buffer
  BY <1>1, ConnectEffect
<1>3. client'[c].rest = <<>>
  <2>1. client[c].rest = <<>>
    BY DEF ClientInv, Connect
  <2> QED
    BY <2>1, ConnectEffect
<1>4. /\ conn[k].session = "none"
      /\ conn[k].up = <<>> /\ conn[k].down = <<>> /\ conn[k].buffer = <<>>
  <2>1. k[1] = c /\ k[2] > client[k[1]].connects
    BY <1>1, Types, Constants DEF ClientRecord
  <2> QED
    BY <2>1 DEF FreshInv
<1>5. Written(k)' = <<>>
  <2>1. server.busy # k
    BY <1>4, Constants DEF ServerInv
  <2> QED
    BY <1>2, <2>1 DEF Written
<1>6. <<>> \o <<>> = <<>>
  BY ConcatEmptySeq, EmptySeq
<1>7. InTransit(c, k)' = <<>>
  BY <1>2, <1>4, <1>5, <1>6 DEF InTransit
<1>8. Unprocessed(k)' = <<>>
  <2>1. Rest(k)' = <<>>
    BY <1>1, <1>3 DEF Rest
  <2> QED
    BY <1>2, <1>4, <1>6, <2>1 DEF Unprocessed
<1>9. Reply(c, k)'
  BY <1>2, <1>7, <1>8 DEF Reply, Requested
<1>10. Current(c)' = k
  BY <1>1, <1>2 DEF Current
<1> QED
  BY <1>9, <1>10

LEMMA ReplyExecute ==
  ASSUME IInv, NEW c \in Clients, NEW request \in Requests, Execute(c, request),
         client[c].connected
  PROVE  Reply(c, Current(c))'
<1> USE DEF IInv, OrderlyInv
<1>1. PICK k \in Conns : k = Current(c) /\ k[1] = c /\ k[2] = client[c].connects
  BY CurrentConn
<1>2. /\ server' = server /\ conn' = conn /\ client[c].pc = "idle"
      /\ request.id = client[c].next_request_id
      /\ client'[c].connects = client[c].connects /\ client'[c].buffer = client[c].buffer
      /\ client'[c].next_request_id = client[c].next_request_id + 1
      /\ client'[c].pc = "sending" /\ client'[c].rest = Units(request)
  BY ExecuteEffect
<1>3. Current(c)' = k
  BY <1>1, <1>2 DEF Current
<1>4. Reply(c, k) /\ ~Answered(c, k)
  BY <1>1, <1>2 DEF ReplyInv, Answered
<1>5. InTransit(c, k)' = InTransit(c, k)
  BY <1>2 DEF InTransit, Written
<1>6. CASE Requested(c, k)
  <2>1. Unprocessed(k)' = Units(request)
    <3>1. conn[k].buffer \in Seq(Unit) /\ conn[k].up \in Seq(Unit) /\ Rest(k) \in Seq(Unit)
      BY ConnTyped, UnprocessedTyped
    <3>2. conn[k].buffer \o conn[k].up = <<>>
      <4>1. conn[k].buffer \o conn[k].up \in Seq(Unit)
        BY <3>1, ConcatProperties
      <4>2. Unprocessed(k) = <<>>
        BY <1>2, <1>6 DEF Requested
      <4> QED
        BY <3>1, <4>1, <4>2, Concat DEF Unprocessed
    <3>3. Rest(k)' = Units(request)
      BY <1>1, <1>2 DEF Rest
    <3>4. Unprocessed(k)' = <<>> \o Units(request)
      BY <1>2, <3>2, <3>3 DEF Unprocessed
    <3>5. Units(request) \in Seq(Unit)
      BY UnitsOf, Constants
    <3> QED
      BY <3>4, <3>5, ConcatEmptySeq
  <2>2. request \in Packets /\ request.id = client'[c].next_request_id - 1
    <3>1. client[c].next_request_id \in Nat
      BY Types, Constants DEF ClientRecord
    <3> QED
      BY <1>2, <3>1, Constants
  <2>3. Requested(c, k)'
    BY <1>2, <1>5, <1>6, <2>1, <2>2 DEF Requested
  <2> QED
    BY <1>3, <2>3 DEF Reply
<1>7. CASE Stuck(c) \/ Dead(c, k)
  <2>1. (Stuck(c) \/ Dead(c, k))'
    BY <1>2, <1>7 DEF Stuck, Dead
  <2> QED
    BY <1>3, <2>1 DEF Reply
<1> QED
  BY <1>4, <1>6, <1>7 DEF Reply

LEMMA ReplyFails ==
  ASSUME IInv, NEW c \in Clients, Fails(c)
  PROVE  Reply(c, Current(c))'
<1> USE DEF IInv, OrderlyInv
<1>0. client[c].connected
  BY DEF Fails, ClientInv
<1>1. PICK k \in Conns : k = Current(c)
  BY <1>0, CurrentConn
<1>2. /\ conn' = conn /\ client'[c].connects = client[c].connects
      /\ client'[c].buffer = client[c].buffer
  <2>1. Ends(c, "throw", 0, client[c].buffer)
    BY DEF Fails, Throws
  <2> QED
    BY <2>1, EndsEffect
<1>3. Current(c)' = k
  BY <1>1, <1>2 DEF Current
<1>4. Stuck(c) \/ Dead(c, k)
  <2>1. Reply(c, k)
    BY <1>0, <1>1 DEF ReplyInv
  <2> QED
    BY <1>1, <2>1 DEF Fails, Reply, Requested, Answered
<1>5. (Stuck(c) \/ Dead(c, k))'
  BY <1>2, <1>4 DEF Stuck, Dead
<1> QED
  BY <1>3, <1>5 DEF Reply

(* A packet that a client decodes is the whole of what was on its way.     *)
LEMMA DecodedIsAnswer ==
  ASSUME OrderlyInv, NEW c \in Clients, NEW k \in Conns, Reply(c, k),
         TryDecode(client[c].buffer).status = "packet"
  PROVE  LET d == TryDecode(client[c].buffer) IN
         /\ client[c].pc = "receiving"
         /\ conn[k].session = "open" => Unprocessed(k) = <<>>
         /\ d.buffer = <<>> /\ conn[k].down = <<>> /\ Written(k) = <<>>
         /\ d.packet \in Packets
         /\ d.packet.id # 0 =>
              d.packet.id = client[c].next_request_id - 1 /\ d.packet.id \in Executed(c)
<1> DEFINE d == TryDecode(client[c].buffer)
           t == d.buffer
           u == conn[k].down \o Written(k)
<1>1. /\ client[c].buffer \in Seq(Unit) /\ conn[k].down \in Seq(Unit) /\ Written(k) \in Seq(Unit)
  BY InTransitTyped DEF OrderlyInv
<1>2. /\ d.packet \in Packets /\ d.packet.size > 0 /\ t \in Seq(Unit)
      /\ client[c].buffer = Units(d.packet) \o t
  BY <1>1, Decodes
<1>3. client[c].buffer # <<>>
  BY EmptyDecodes
<1>4. Answered(c, k)
  <2>1. ~Requested(c, k)
    BY <1>3, InTransitTyped DEF Requested, OrderlyInv
  <2>2. ~Stuck(c) /\ ~Dead(c, k)
    BY DEF Stuck, Dead
  <2> QED
    BY <2>1, <2>2 DEF Reply
<1>5. PICK response \in Packets :
        /\ \E n \in 0..response.size : InTransit(c, k) = Take(Units(response), n)
        /\ response.id # 0 =>
             response.id = client[c].next_request_id - 1 /\ response.id \in Executed(c)
  BY <1>4 DEF Answered
<1>6. /\ u \in Seq(Unit)
      /\ u = <<>> => conn[k].down = <<>> /\ Written(k) = <<>>
  BY <1>1, Concat
<1>7. InTransit(c, k) = (Units(d.packet) \o t) \o u
  <2>1. (client[c].buffer \o conn[k].down) \o Written(k) = client[c].buffer \o u
    BY <1>1, Joined
  <2> QED
    BY <1>2, <2>1 DEF InTransit
<1> HIDE DEF d, u, t
<1>8. d.packet = response /\ t = <<>> /\ u = <<>>
  <2>1. PICK n \in 0..response.size : InTransit(c, k) = Take(Units(response), n)
    BY <1>5
  <2>2. (Units(d.packet) \o t) \o u = Take(Units(response), n)
    BY <1>7, <2>1
  <2> QED
    <3>1. /\ d.packet \in Packets /\ d.packet.size > 0 /\ t \in Seq(Unit)
          /\ u \in Seq(Unit) /\ response \in Packets /\ n \in 0..response.size
      BY <1>2, <1>5, <1>6, <2>1
    <3> QED
      BY <2>2, <3>1, OnePacket, Zenon
<1> QED
  BY <1>2, <1>4, <1>5, <1>6, <1>8 DEF Answered, d, t

LEMMA ReplyReturns ==
  ASSUME IInv, NEW c \in Clients, Returns(c)
  PROVE  Reply(c, Current(c))'
<1> USE DEF IInv, OrderlyInv
<1> DEFINE d == TryDecode(client[c].buffer)
<1>0. client[c].connected /\ d.status = "packet"
  BY DEF Returns, ClientInv
<1>1. PICK k \in Conns : k = Current(c) /\ k[1] = c /\ k[2] = client[c].connects
  BY <1>0, CurrentConn
<1>2. Reply(c, k)
  BY <1>0, <1>1 DEF ReplyInv
<1>3. /\ client[c].pc = "receiving"
      /\ conn[k].session = "open" => Unprocessed(k) = <<>>
      /\ d.buffer = <<>> /\ conn[k].down = <<>> /\ Written(k) = <<>>
  BY <1>0, <1>2, DecodedIsAnswer
<1>4. PICK status, response : Ends(c, status, response, d.buffer)
  BY DEF Returns
<1> HIDE DEF d
<1>5. /\ server' = server /\ conn' = conn
      /\ client'[c].pc = "idle" /\ client'[c].rest = <<>> /\ client'[c].buffer = <<>>
      /\ client'[c].connects = client[c].connects
  BY <1>3, <1>4, EndsEffect
<1>6. Current(c)' = k
  BY <1>1, <1>5 DEF Current
<1>7. CASE conn[k].session = "open"
  <2>1. client[c].rest = <<>>
    BY <1>3 DEF ClientInv
  <2>2. Unprocessed(k)' = <<>>
    <3>1. Rest(k)' = Rest(k)
      BY <1>1, <1>5, <2>1 DEF Rest
    <3> QED
      BY <1>3, <1>5, <1>7, <3>1 DEF Unprocessed
  <2>3. InTransit(c, k)' = <<>>
    <3>1. Written(k)' = <<>> /\ <<>> \o <<>> = <<>>
      BY <1>3, <1>5, ConcatEmptySeq, EmptySeq DEF Written
    <3> QED
      BY <1>3, <1>5, <3>1 DEF InTransit
  <2>4. Requested(c, k)'
    BY <1>5, <1>7, <2>2, <2>3 DEF Requested
  <2> QED
    BY <1>6, <2>4 DEF Reply
<1>8. CASE conn[k].session # "open"
  <2>1. Dead(c, k)'
    BY <1>3, <1>5, <1>8, EmptyDecodes DEF Dead
  <2> QED
    BY <1>6, <2>1 DEF Reply
<1> QED
  BY <1>7, <1>8

LEMMA ReplySend ==
  ASSUME IInv, NEW c \in Clients, Send(c)
  PROVE  Reply(c, Current(c))'
<1> USE DEF IInv, OrderlyInv
<1>0. client[c].connected
  BY DEF Send, ClientInv
<1>1. PICK k \in Conns : k = Current(c) /\ k[1] = c /\ k[2] = client[c].connects
  BY <1>0, CurrentConn
<1>2. /\ server' = server
      /\ client[c].pc = "sending" /\ client'[c].pc \in {"sending", "receiving"}
      /\ client'[c].connects = client[c].connects
      /\ client'[c].buffer = client[c].buffer
      /\ client'[c].next_request_id = client[c].next_request_id
      /\ conn'[k].session = conn[k].session /\ conn'[k].down = conn[k].down
      /\ conn'[k].buffer = conn[k].buffer
      /\ conn[k].session = "open" =>
           conn'[k].up \o client'[c].rest = conn[k].up \o client[c].rest
  BY <1>1, SendEffect
<1>3. Current(c)' = k
  BY <1>1, <1>2 DEF Current
<1>4. InTransit(c, k)' = InTransit(c, k)
  BY <1>2 DEF InTransit, Written
<1>5. Reply(c, k) /\ ~Answered(c, k)
  BY <1>0, <1>1, <1>2 DEF ReplyInv, Answered
<1>6. CASE Requested(c, k)
  <2>1. Rest(k) = client[c].rest /\ Rest(k)' = client'[c].rest
    BY <1>1, <1>2 DEF Rest
  <2>2. /\ conn[k].buffer \in Seq(Unit) /\ conn[k].up \in Seq(Unit)
        /\ client[c].rest \in Seq(Unit)
    BY ConnTyped, Types DEF ClientRecord
  <2>3. conn'[k].up \in Seq(Unit) /\ client'[c].rest \in Seq(Unit)
    <3>1. TypeOK'
      BY <1>1, SendTyped
    <3> QED
      BY <3>1, TypesPrime DEF ConnRecord, ClientRecord
  <2>4. Unprocessed(k)' = Unprocessed(k)
    <3>1. (conn[k].buffer \o conn[k].up) \o client[c].rest
            = conn[k].buffer \o (conn[k].up \o client[c].rest)
      BY <2>2, Joined
    <3>2. (conn[k].buffer \o conn'[k].up) \o client'[c].rest
            = conn[k].buffer \o (conn'[k].up \o client'[c].rest)
      BY <2>2, <2>3, Joined, ZenonT(60)
    <3> QED
      BY <1>2, <1>6, <2>1, <3>1, <3>2 DEF Unprocessed, Requested
  <2>5. Requested(c, k)'
    BY <1>2, <1>4, <1>6, <2>4 DEF Requested
  <2> QED
    BY <1>3, <2>5 DEF Reply
<1>7. CASE Stuck(c) \/ Dead(c, k)
  <2>1. (Stuck(c) \/ Dead(c, k))'
    BY <1>2, <1>7 DEF Stuck, Dead
  <2> QED
    BY <1>3, <2>1 DEF Reply
<1> QED
  BY <1>5, <1>6, <1>7 DEF Reply

LEMMA ReplyReceiveMore ==
  ASSUME IInv, [Next]_vars, NEW c \in Clients, ReceiveMore(c)
  PROVE  Reply(c, Current(c))'
<1> USE DEF IInv, OrderlyInv
<1>0. client[c].connected /\ TryDecode(client[c].buffer).status = "more"
  BY DEF ReceiveMore, ClientInv
<1>1. PICK k \in Conns : k = Current(c) /\ k[1] = c /\ k[2] = client[c].connects
  BY <1>0, CurrentConn
<1>2. /\ server' = server
      /\ client[c].pc = "receiving" /\ client'[c].pc = "receiving"
      /\ client'[c].connects = client[c].connects
      /\ client'[c].rest = client[c].rest
      /\ client'[c].next_request_id = client[c].next_request_id
      /\ conn[k].down # <<>>
      /\ conn'[k].session = conn[k].session /\ conn'[k].up = conn[k].up
      /\ conn'[k].buffer = conn[k].buffer
      /\ client'[c].buffer \o conn'[k].down = client[c].buffer \o conn[k].down
  BY <1>1, ReceiveMoreEffect
<1>3. Current(c)' = k
  BY <1>1, <1>2 DEF Current
<1>4. InTransit(c, k)' = InTransit(c, k) /\ Unprocessed(k)' = Unprocessed(k)
  BY <1>1, <1>2 DEF InTransit, Written, Unprocessed, Rest
<1>5. ~Stuck(c) /\ ~Dead(c, k)
  BY <1>0, <1>2 DEF Stuck, Dead
<1>6. Reply(c, k)
  BY <1>0, <1>1 DEF ReplyInv
<1>7. Executed(c) \subseteq Executed(c)'
  BY ExecutedGrows
<1>8. Reply(c, k)'
  BY <1>2, <1>4, <1>5, <1>6, <1>7, ReplyStable
<1> QED
  BY <1>3, <1>8

LEMMA ReplyAnswers ==
  ASSUME IInv, NEW c \in Clients, NEW k \in Conns, NEW l \in Conns,
         k = Current(c), client[c].connected, [Next]_vars, Answers(l)
  PROVE  Reply(c, k)'
<1> USE DEF IInv, OrderlyInv
<1> DEFINE d == TryDecode(conn[l].buffer)
           id == d.packet.id
<1>1. Reply(c, k) /\ k[1] = c /\ k[2] = client[c].connects
  BY CurrentConn DEF ReplyInv
<1>2. Executed(c) \subseteq Executed(c)'
  BY ExecutedGrows
<1>3. /\ server.busy = l /\ server.rest = <<>> /\ d.status = "packet"
      /\ conn[l].session = "open"
  BY Constants DEF Answers, ServerInv
<1>4. PICK i \in {0, id}, executes \in BOOLEAN :
        Answer(l, d, i, executes) /\ (i # 0 => i = id /\ executes)
  BY DEF Answers
<1>5. /\ client' = client /\ server'.busy = l
      /\ \E size \in ResponseSizes, readable \in BOOLEAN :
           server'.rest = Units([id |-> i, size |-> size, readable |-> readable])
      /\ \A h \in Conns \ {l} : conn'[h] = conn[h]
      /\ conn'[l].session = conn[l].session
      /\ conn'[l].down = conn[l].down /\ conn'[l].up = conn[l].up
      /\ executes => conn'[l].executed = Append(conn[l].executed, id)
  <2> HIDE DEF d
  <2>1. Answer(l, d, i, executes)
    BY <1>4
  <2>2. /\ client' = client /\ server'.busy = server.busy
        /\ \E size \in ResponseSizes, readable \in BOOLEAN :
             server'.rest = Units([id |-> i, size |-> size, readable |-> readable])
        /\ \A h \in Conns \ {l} : conn'[h] = conn[h]
        /\ conn'[l].session = conn[l].session
        /\ conn'[l].down = conn[l].down /\ conn'[l].up = conn[l].up
    BY <2>1, AnswerEffect
  <2>3. executes => conn'[l].executed = Append(conn[l].executed, d.packet.id)
    <3>1. conn'[l].executed = IF executes THEN Append(conn[l].executed, d.packet.id)
                              ELSE conn[l].executed
      BY <2>1, AnswerEffect
    <3> QED
      BY <3>1
  <2> QED
    BY <1>3, <2>2, <2>3
<1>6. CASE l # k
  <2>1. conn'[k] = conn[k] /\ Written(k)' = Written(k) /\ Unprocessed(k)' = Unprocessed(k)
    BY <1>3, <1>5, <1>6 DEF Written, Unprocessed, Rest
  <2> QED
    BY <1>1, <1>2, <1>5, <2>1, ReplyUntouched
<1>7. CASE l = k
  <2>1. /\ d.packet \in Packets /\ id > 0
        /\ (d.buffer \o conn[k].up) \o Rest(k) \in Seq(Unit)
        /\ Unprocessed(k) = Units(d.packet) \o ((d.buffer \o conn[k].up) \o Rest(k))
    BY <1>3, <1>7, FirstRequest
  <2>2. d.packet.size > 0 /\ d.buffer \in Seq(Unit)
    BY <1>3, ConnTyped, Decodes
  <2>3. CASE Stuck(c)
    BY <1>5, <2>3 DEF Stuck, Reply
  <2>4. CASE Requested(c, k)
    <3> DEFINE rest == (d.buffer \o conn[k].up) \o Rest(k)
    <3> HIDE DEF d
    <3>1. Unprocessed(k) # <<>>
      <4>1. Units(d.packet) \in Seq(Unit) /\ Len(Units(d.packet)) > 0
        BY <2>1, <2>2, UnitsOf
      <4>2. Units(d.packet) # <<>>
        BY <4>1, EmptySeq
      <4> QED
        BY <2>1, <4>1, <4>2, Concat
    <3>2. client[c].pc # "idle"
      BY <2>4, <3>1 DEF Requested
    <3>3. PICK request \in Packets :
            request.id = client[c].next_request_id - 1 /\ Unprocessed(k) = Units(request)
      BY <2>4, <3>2 DEF Requested
    <3>4. d.packet = request /\ rest = <<>>
      <4>1. /\ Units(request) \in Seq(Unit) /\ request.size \in 0..request.size
            /\ Take(Units(request), request.size) = Units(request)
        <5>1. Units(request) \in Seq(Unit) /\ Len(Units(request)) = request.size
          BY UnitsOf
        <5>2. request.size \in Nat
          BY <5>1, LenProperties
        <5> QED
          BY <5>1, <5>2, SubSeqFull DEF Take
      <4>2. (Units(d.packet) \o rest) \o <<>> = Take(Units(request), request.size)
        BY <2>1, <3>3, <4>1, ConcatEmptySeq
      <4> HIDE DEF rest
      <4>3. rest \in Seq(Unit) /\ <<>> \in Seq(Unit)
        BY <2>1, EmptySeq DEF rest
      <4> QED
        <5>1. /\ d.packet \in Packets /\ d.packet.size > 0
              /\ request \in Packets /\ request.size \in 0..request.size
          BY <2>1, <2>2, <3>3, <4>1
        <5>2. d.packet = request /\ rest = <<>> /\ <<>> = <<>>
          BY <4>2, <4>3, <5>1, OnePacket, Zenon
        <5> QED
          BY <5>2
    <3>5. Rest(k) = <<>> /\ d.buffer \o conn[k].up = <<>>
      <4>1. /\ conn[k].up \in Seq(Unit) /\ Rest(k) \in Seq(Unit)
            /\ d.buffer \o conn[k].up \in Seq(Unit)
        BY <2>2, ConnTyped, UnprocessedTyped, ConcatProperties
      <4> QED
        BY <3>4, <4>1, ConcatEqualIffEmpty DEF rest
    <3>6. client[c].pc = "receiving"
      <4>1. client[c].rest = <<>>
        BY <1>1, <3>5 DEF Rest
      <4>2. client[c].pc \in {"idle", "sending", "receiving"}
        BY Types DEF ClientRecord
      <4> QED
        BY <3>2, <4>1, <4>2 DEF ClientInv
    <3>7. Unprocessed(k)' = <<>>
      <4>1. conn'[k].buffer = d.buffer
        BY <1>4, <1>7, AnswerEffect
      <4>2. Rest(k)' = <<>>
        BY <1>5, <3>5 DEF Rest
      <4> QED
        BY <1>5, <1>7, <3>5, <4>1, <4>2, ConcatEmptySeq, EmptySeq DEF Unprocessed
    <3>8. PICK response \in Packets :
            response.id = i /\ server'.rest = Units(response)
      <4>1. PICK size \in ResponseSizes, readable \in BOOLEAN :
              server'.rest = Units([id |-> i, size |-> size, readable |-> readable])
        BY <1>5
      <4>2. i \in 0..MaxRequests
        BY <1>4, <2>1, Constants DEF Packets
      <4>3. [id |-> i, size |-> size, readable |-> readable] \in Packets
        BY <4>2 DEF Packets
      <4> QED
        BY <4>1, <4>3
    <3>9. InTransit(c, k)' = Take(Units(response), response.size)
          /\ response.size \in 0..response.size
      <4>1. client[c].buffer = <<>> /\ conn[k].down = <<>>
        BY <2>4, InTransitTyped DEF Requested
      <4>2. /\ Units(response) \in Seq(Unit) /\ Len(Units(response)) = response.size
            /\ response.size \in Nat
        <5>1. Units(response) \in Seq(Unit) /\ Len(Units(response)) = response.size
          BY UnitsOf
        <5> QED
          BY <5>1, LenProperties
      <4>3. Written(k)' = Units(response)
        BY <1>5, <1>7, <3>8 DEF Written
      <4>4. InTransit(c, k)' = (<<>> \o <<>>) \o Units(response)
        BY <1>5, <1>7, <4>1, <4>3 DEF InTransit
      <4>5. InTransit(c, k)' = Units(response)
        BY <4>2, <4>4, ConcatEmptySeq, EmptySeq
      <4> QED
        BY <4>2, <4>5, SubSeqFull DEF Take
    <3>10. i # 0 => i = client[c].next_request_id - 1 /\ i \in Executed(c)'
      <4> SUFFICES ASSUME i # 0 PROVE i = client[c].next_request_id - 1 /\ i \in Executed(c)'
        OBVIOUS
      <4>1. i = id /\ executes
        BY <1>4
      <4>2. i \in ExecutedIds(k)'
        <5>1. conn[k].executed \in Seq(1..MaxRequests)
          BY ConnTyped DEF ConnRecord
        <5>2. id \in 1..MaxRequests
          BY <2>1, Constants DEF Packets
        <5>3. /\ conn'[k].executed \in Seq(1..MaxRequests)
              /\ Len(conn'[k].executed) = Len(conn[k].executed) + 1
              /\ conn'[k].executed[Len(conn[k].executed) + 1] = id
          <6>1. conn'[k].executed = Append(conn[k].executed, id)
            BY <1>5, <1>7, <4>1
          <6> QED
            BY <5>1, <5>2, <6>1, AppendProperties
        <5>4. Len(conn[k].executed) + 1 \in DOMAIN conn'[k].executed
          BY <5>1, <5>3, LenProperties
        <5> QED
          BY <4>1, <5>3, <5>4 DEF ExecutedIds
      <4>3. i \in Executed(c)'
        <5>1. k[2] \in 1..MaxConnections /\ k = <<c, k[2]>>
          BY <1>1, Constants
        <5>2. Executed(c)' = UNION {ExecutedIds(<<c, n>>)' : n \in 1..MaxConnections}
          BY DEF Executed, ExecutedIds
        <5> QED
          BY <4>2, <5>1, <5>2
      <4> QED
        BY <3>3, <3>4, <4>1, <4>3
    <3>11. Answered(c, k)'
      BY <1>5, <3>6, <3>7, <3>8, <3>9, <3>10 DEF Answered
    <3> QED
      BY <3>11 DEF Reply
  <2>5. ~Answered(c, k) /\ ~Dead(c, k)
    <3>1. Unprocessed(k) # <<>>
      <4>1. Units(d.packet) \in Seq(Unit) /\ Len(Units(d.packet)) > 0
        BY <2>1, <2>2, UnitsOf
      <4>2. Units(d.packet) # <<>>
        BY <4>1, EmptySeq
      <4> DEFINE rest == (d.buffer \o conn[k].up) \o Rest(k)
      <4>3. rest \in Seq(Unit) /\ Unprocessed(k) = Units(d.packet) \o rest
        BY <2>1
      <4> HIDE DEF d, rest, IInv, OrderlyInv
      <4>4. Units(d.packet) \o rest # <<>>
        BY <4>1, <4>2, <4>3, Concat
      <4> QED
        BY <4>3, <4>4
    <3> QED
      BY <1>3, <1>7, <3>1 DEF Answered, Dead
  <2> QED
    BY <1>1, <2>3, <2>4, <2>5 DEF Reply
<1> QED
  BY <1>6, <1>7

LEMMA ReplyServer ==
  ASSUME IInv, NEW c \in Clients, NEW k \in Conns, k = Current(c), client[c].connected,
         [Next]_vars,
         \/ \E l \in Conns : SessionRead(l) \/ SessionEnds(l) \/ Processed(l) \/ Write(l)
         \/ Start \/ UNCHANGED vars
  PROVE  Reply(c, k)'
<1> USE DEF IInv, OrderlyInv
<1>1. Reply(c, k) /\ conn[k].open
  BY DEF ReplyInv, ClientInv
<1>2. Executed(c) \subseteq Executed(c)'
  BY ExecutedGrows
<1>3. server.busy # NONE => conn[server.busy].session = "open"
  BY DEF ServerInv
<1>4. ASSUME NEW l \in Conns, SessionRead(l) PROVE Reply(c, k)'
  <2>1. /\ client' = client
        /\ server.busy = NONE /\ server'.busy = l /\ server'.rest = server.rest
        /\ conn'[k].session = conn[k].session /\ conn'[k].down = conn[k].down
        /\ conn'[k].buffer \o conn'[k].up = conn[k].buffer \o conn[k].up
    BY <1>4, SessionReadEffect
  <2>2. Written(k)' = Written(k)
    BY <2>1, Constants DEF ServerInv, Written
  <2>3. Unprocessed(k)' = Unprocessed(k)
    BY <2>1 DEF Unprocessed, Rest
  <2> QED
    BY <1>1, <1>2, <2>1, <2>2, <2>3, ReplyUntouched
<1>5. ASSUME NEW l \in Conns, SessionEnds(l) PROVE Reply(c, k)'
  <2>1. client' = client /\ server' = server /\ ~conn[l].open
        /\ \A h \in Conns \ {l} : conn'[h] = conn[h]
    BY <1>5, SessionEndsEffect
  <2>2. conn'[k] = conn[k]
    BY <1>1, <2>1
  <2>3. Written(k)' = Written(k) /\ Unprocessed(k)' = Unprocessed(k)
    BY <2>1, <2>2 DEF Written, Unprocessed, Rest
  <2> QED
    BY <1>1, <1>2, <2>1, <2>2, <2>3, ReplyUntouched
<1>6. ASSUME NEW l \in Conns, Processed(l) PROVE Reply(c, k)'
  <2>1. /\ client' = client /\ conn' = conn /\ server.rest = <<>>
        /\ server'.rest = server.rest
    BY <1>6, Types DEF Processed, ServerRecord
  <2>2. Written(k)' = Written(k) /\ Unprocessed(k)' = Unprocessed(k)
    BY <2>1 DEF Written, Unprocessed, Rest
  <2> QED
    BY <1>1, <1>2, <2>1, <2>2, ReplyUntouched
<1>7. ASSUME NEW l \in Conns, Write(l) PROVE Reply(c, k)'
  <2>1. /\ client' = client /\ server.busy = l /\ server'.busy = l
        /\ \A h \in Conns \ {l} : conn'[h] = conn[h]
        /\ conn'[l].session = conn[l].session /\ conn'[l].up = conn[l].up
        /\ conn'[l].buffer = conn[l].buffer
        /\ conn[l].open => conn'[l].down \o server'.rest = conn[l].down \o server.rest
    BY <1>7, WriteEffect
  <2>2. Unprocessed(k)' = Unprocessed(k)
    BY <2>1 DEF Unprocessed, Rest
  <2>3. CASE l # k
    <3>1. conn'[k] = conn[k] /\ Written(k)' = Written(k)
      BY <2>1, <2>3 DEF Written
    <3> QED
      BY <1>1, <1>2, <2>1, <2>2, <3>1, ReplyUntouched
  <2>4. CASE l = k
    <3>1. TypeOK'
      BY <1>7, WriteTyped
    <3>2. /\ client[c].buffer \in Seq(Unit) /\ conn[k].down \in Seq(Unit)
          /\ server.rest \in Seq(Unit) /\ conn'[k].down \in Seq(Unit)
          /\ server'.rest \in Seq(Unit)
      BY <3>1, Types, TypesPrime, ConnTyped DEF ClientRecord, ConnRecord, ServerRecord
    <3>3. (client[c].buffer \o conn[k].down) \o server.rest
            = client[c].buffer \o (conn[k].down \o server.rest)
      <4>1. PICK s, t, u : s = client[c].buffer /\ t = conn[k].down /\ u = server.rest
        OBVIOUS
      <4>2. s \in Seq(Unit) /\ t \in Seq(Unit) /\ u \in Seq(Unit)
        BY <3>2, <4>1
      <4>3. (s \o t) \o u = s \o (t \o u)
        BY <4>2, Joined
      <4> QED
        BY <4>1, <4>3
    <3>4. (client[c].buffer \o conn'[k].down) \o server'.rest
            = client[c].buffer \o (conn'[k].down \o server'.rest)
      <4>1. PICK s, t, u : s = client[c].buffer /\ t = conn'[k].down /\ u = server'.rest
        OBVIOUS
      <4>2. s \in Seq(Unit) /\ t \in Seq(Unit) /\ u \in Seq(Unit)
        BY <3>2, <4>1
      <4>3. (s \o t) \o u = s \o (t \o u)
        BY <4>2, Joined
      <4> QED
        BY <4>1, <4>3
    <3>5. InTransit(c, k)' = InTransit(c, k)
      BY <1>1, <2>1, <2>4, <3>3, <3>4 DEF InTransit, Written
    <3>6. conn[k].session = "open"
      BY <1>3, <2>1, <2>4, Constants
    <3>7. (Stuck(c) => Stuck(c)') /\ (Dead(c, k) => Dead(c, k)')
      BY <2>1, <3>6 DEF Stuck, Dead
    <3> QED
      BY <1>1, <1>2, <2>1, <2>2, <2>4, <3>5, <3>7, ReplyStable
  <2> QED
    BY <2>3, <2>4
<1>8. ASSUME Start \/ UNCHANGED vars PROVE Reply(c, k)'
  <2>1. client' = client /\ conn' = conn /\ server'.busy = server.busy /\ server'.rest = server.rest
    BY <1>8, Types DEF Start, vars, ServerRecord
  <2>2. Written(k)' = Written(k) /\ Unprocessed(k)' = Unprocessed(k)
    BY <2>1 DEF Written, Unprocessed, Rest
  <2> QED
    BY <1>1, <1>2, <2>1, <2>2, ReplyUntouched
<1> QED
  BY <1>4, <1>5, <1>6, <1>7, <1>8

LEMMA ReplyDown ==
  ASSUME IInv, NEW c \in Clients, NEW k \in Conns, k = Current(c), client[c].connected,
         [Next]_vars, Down
  PROVE  Reply(c, k)'
<1> USE DEF IInv, OrderlyInv
<1>1. Reply(c, k)
  BY DEF ReplyInv
<1>2. Executed(c) \subseteq Executed(c)'
  BY ExecutedGrows
<1>3. client' = client /\ Written(k)' = <<>>
  BY DownEffect DEF Written
<1>4. CASE conn[k].session # "open"
  <2>1. conn'[k] = conn[k]
    BY <1>4, DownEffect
  <2>2. Written(k) = <<>>
    BY <1>4, Constants DEF ServerInv, Written
  <2> QED
    BY <1>1, <1>2, <1>3, <1>4, <2>1, <2>2, ReplyUntouched
<1>5. CASE conn[k].session = "open"
  <2>1. conn'[k].session = "closed" /\ \E n \in 0..Len(conn[k].down) :
          conn'[k].down = Take(conn[k].down, n)
    BY <1>5, DownEffect
  <2>2. PICK n \in 0..Len(conn[k].down) : conn'[k].down = Take(conn[k].down, n)
    BY <2>1
  <2>3. /\ client[c].buffer \in Seq(Unit) /\ conn[k].down \in Seq(Unit)
        /\ Written(k) \in Seq(Unit)
    BY InTransitTyped
  <2>4. CASE Requested(c, k)
    <3>1. client[c].buffer = <<>> /\ conn[k].down = <<>>
      BY <2>4, InTransitTyped DEF Requested
    <3>2. conn'[k].down = <<>>
      <4>1. n = 0
        BY <2>2, <3>1, EmptySeq
      <4> QED
        BY <2>2, <2>3, <4>1, TakeSkip, EmptySeq
    <3>3. Dead(c, k)'
      BY <1>3, <2>1, <3>1, <3>2, EmptyDecodes DEF Dead
    <3> QED
      BY <3>3 DEF Reply
  <2>5. CASE Answered(c, k)
    <3>1. PICK response \in Packets :
            /\ \E m \in 0..response.size : InTransit(c, k) = Take(Units(response), m)
            /\ response.id # 0 =>
                 response.id = client[c].next_request_id - 1 /\ response.id \in Executed(c)
      BY <2>5 DEF Answered
    <3>2. PICK m \in 0..response.size :
            (client[c].buffer \o conn[k].down) \o Written(k) = Take(Units(response), m)
      BY <3>1 DEF InTransit
    <3> DEFINE a == client[c].buffer
               b == conn[k].down
               w == Written(k)
    <3>3. /\ a \in Seq(Unit) /\ b \in Seq(Unit) /\ w \in Seq(Unit) /\ n \in 0..Len(b)
          /\ response \in Packets /\ m \in 0..response.size
          /\ (a \o b) \o w = Take(Units(response), m)
      BY <2>2, <2>3, <3>1, <3>2
    <3> HIDE DEF a, b, w
    <3>4. /\ Len(a) + n \in 0..response.size
          /\ (a \o Take(b, n)) \o <<>> = Take(Units(response), Len(a) + n)
      BY <3>3, PartOfPart, ZenonT(30)
    <3>5. InTransit(c, k)' = (a \o Take(b, n)) \o <<>>
      BY <1>3, <2>2 DEF InTransit, a, b
    <3>6. Answered(c, k)'
      BY <1>2, <1>3, <2>1, <2>5, <3>1, <3>4, <3>5 DEF Answered
    <3> QED
      BY <3>6 DEF Reply
  <2>6. CASE Stuck(c)
    BY <1>3, <2>6 DEF Stuck, Reply
  <2> QED
    BY <1>1, <1>5, <2>4, <2>5, <2>6 DEF Reply, Dead
<1> QED
  BY <1>4, <1>5

LEMMA ReplyStep ==
  ASSUME IInv, [Next]_vars
  PROVE  ReplyInv'
<1> SUFFICES ASSUME NEW x \in Clients, client'[x].connected
             PROVE  Reply(x, Current(x))'
  BY DEF ReplyInv
<1> DEFINE Calls(c) ==
      \/ Connect(c) \/ Disconnect(c) \/ Send(c) \/ ReceiveMore(c) \/ Fails(c) \/ Returns(c)
      \/ \E request \in Requests : Execute(c, request)
<1>1. ASSUME NEW c \in Clients \ {x}, Calls(c) PROVE Reply(x, Current(x))'
  BY <1>1, ReplyOthers
<1>2. ASSUME Calls(x) PROVE Reply(x, Current(x))'
  <2>1. CASE Disconnect(x)
    <3>1. Current(x) \in Conns /\ TypeOK
      BY <2>1, CurrentConn DEF Disconnect, IInv, OrderlyInv
    <3> QED
      BY <2>1, <3>1, DisconnectEffect
  <2>2. CASE \E request \in Requests : Execute(x, request)
    <3>1. client[x].connected
      BY <2>2, ExecuteEffect DEF IInv, OrderlyInv
    <3> QED
      BY <2>2, <3>1, ReplyExecute
  <2> QED
    BY <1>2, <2>1, <2>2, ReplyConnect, ReplySend, ReplyReceiveMore, ReplyFails, ReplyReturns
<1>3. ASSUME client' = client,
             \A k \in Conns : k = Current(x) /\ client[x].connected => Reply(x, k)'
      PROVE  Reply(x, Current(x))'
  <2>1. PICK k \in Conns : k = Current(x) /\ client[x].connected
    BY <1>3, CurrentConn DEF IInv, OrderlyInv
  <2>2. Current(x)' = k
    BY <1>3, <2>1 DEF Current
  <2> QED
    BY <1>3, <2>1, <2>2
<1>4. ASSUME NEW l \in Conns, Answers(l) PROVE Reply(x, Current(x))'
  <2>1. client' = client
    BY <1>4 DEF Answers, Answer
  <2> QED
    BY <1>3, <1>4, <2>1, ReplyAnswers
<1>5. ASSUME \/ \E l \in Conns : SessionRead(l) \/ SessionEnds(l) \/ Processed(l) \/ Write(l)
             \/ Start \/ UNCHANGED vars
      PROVE  Reply(x, Current(x))'
  <2>1. client' = client
    BY <1>5 DEF SessionRead, SessionEnds, Processed, Write, Start, vars
  <2> QED
    BY <1>3, <1>5, <2>1, ReplyServer
<1>6. ASSUME Down PROVE Reply(x, Current(x))'
  <2>1. client' = client
    BY <1>6 DEF Down
  <2> QED
    BY <1>3, <1>6, <2>1, ReplyDown
<1> QED
  BY <1>1, <1>2, <1>4, <1>5, <1>6, Steps

(* What is on its way to a client is, at most, the response to the call it *)
(* waits for, with the id of the call or 0.                                *)
THEOREM Invariant == Spec => []IInv
<1>1. Init => IInv
  <2>1. Init => ReplyInv
    BY DEF Init, ReplyInv
  <2> QED
    BY <2>1, OrderlyInit DEF IInv
<1>2. ASSUME IInv, [Next]_vars PROVE IInv'
  BY <1>2, OrderlyStep, ReplyStep DEF IInv
<1> QED
  BY <1>1, <1>2, PTL DEF Spec

-----------------------------------------------------------------------------
(* The refinement.                                                         *)

Issued == [c \in Clients |-> client[c].next_request_id - 1]
Pending == [c \in Clients |->
              IF client[c].pc = "idle" THEN 0 ELSE client[c].next_request_id - 1]
Executions == [c \in Clients |-> Executed(c)]
Outcomes == [c \in Clients |-> client[c].outcome]

(* Nothing that Rpc speaks of changes for x.                               *)
Same(x) ==
  /\ Issued'[x] = Issued[x] /\ Pending'[x] = Pending[x]
  /\ Executions'[x] = Executions[x] /\ Outcomes'[x] = Outcomes[x]

LEMMA RpcValues ==
  ASSUME NEW x \in Clients
  PROVE  /\ Issued[x] = client[x].next_request_id - 1
         /\ Pending[x] = IF client[x].pc = "idle" THEN 0 ELSE client[x].next_request_id - 1
         /\ Executions[x] = Executed(x) /\ Outcomes[x] = client[x].outcome
BY DEF Issued, Pending, Executions, Outcomes

LEMMA RpcValuesPrime ==
  ASSUME NEW x \in Clients
  PROVE  /\ Issued'[x] = client'[x].next_request_id - 1
         /\ Pending'[x] = IF client'[x].pc = "idle" THEN 0
                          ELSE client'[x].next_request_id - 1
         /\ Executions'[x] = Executed(x)' /\ Outcomes'[x] = client'[x].outcome
BY DEF Issued, Pending, Executions, Outcomes

LEMMA RpcStutter ==
  ASSUME \A x \in Clients : Same(x)
  PROVE  UNCHANGED R!vars
<1>1. Issued' = Issued
  BY DEF Same, Issued
<1>2. Pending' = Pending
  BY DEF Same, Pending
<1>3. Executions' = Executions
  BY DEF Same, Executions
<1>4. Outcomes' = Outcomes
  BY DEF Same, Outcomes
<1> QED
  BY <1>1, <1>2, <1>3, <1>4 DEF R!vars, Issued, Pending, Executions, Outcomes

LEMMA RpcUpdate ==
  ASSUME NEW c \in Clients, \A x \in Clients \ {c} : Same(x)
  PROVE  /\ Issued' = [Issued EXCEPT ![c] = Issued'[c]]
         /\ Pending' = [Pending EXCEPT ![c] = Pending'[c]]
         /\ Executions' = [Executions EXCEPT ![c] = Executions'[c]]
         /\ Outcomes' = [Outcomes EXCEPT ![c] = Outcomes'[c]]
<1>1. Issued' = [Issued EXCEPT ![c] = Issued'[c]]
  BY DEF Same, Issued
<1>2. Pending' = [Pending EXCEPT ![c] = Pending'[c]]
  BY DEF Same, Pending
<1>3. Executions' = [Executions EXCEPT ![c] = Executions'[c]]
  BY DEF Same, Executions
<1>4. Outcomes' = [Outcomes EXCEPT ![c] = Outcomes'[c]]
  BY DEF Same, Outcomes
<1> QED
  BY <1>1, <1>2, <1>3, <1>4

(* What the client c does, its executions apart, in terms of Rpc.          *)
LEMMA RpcBegin ==
  ASSUME NEW c \in Clients, \A x \in Clients \ {c} : Same(x),
         Pending[c] = 0, Issued'[c] = Issued[c] + 1, Executions'[c] = Executions[c],
         Pending'[c] = Issued[c] + 1, Outcomes'[c] = Outcomes[c]
  PROVE  R!Begin(c)
<1>1. /\ Issued' = [Issued EXCEPT ![c] = @ + 1]
      /\ Pending' = [Pending EXCEPT ![c] = Issued[c] + 1]
  BY RpcUpdate
<1>2. Executions' = Executions /\ Outcomes' = Outcomes
  BY DEF Same, Executions, Outcomes
<1> QED
  BY <1>1, <1>2 DEF R!Begin, Issued, Pending, Executions, Outcomes

LEMMA RpcReject ==
  ASSUME NEW c \in Clients, \A x \in Clients \ {c} : Same(x),
         Pending[c] = 0, Issued'[c] = Issued[c] + 1, Executions'[c] = Executions[c],
         Pending'[c] = 0, Outcomes'[c] = Outcome("throw", Issued[c] + 1, 0)
  PROVE  R!Reject(c)
<1>1. /\ Issued' = [Issued EXCEPT ![c] = @ + 1]
      /\ Outcomes' = [Outcomes EXCEPT ![c] = Outcome("throw", Issued[c] + 1, 0)]
  BY RpcUpdate
<1>2. Executions' = Executions /\ Pending' = Pending
  BY DEF Same, Executions, Pending
<1> QED
  BY <1>1, <1>2 DEF R!Reject, R!Outcome, Outcome, Issued, Pending, Executions, Outcomes

LEMMA RpcExecute ==
  ASSUME NEW c \in Clients, \A x \in Clients \ {c} : Same(x),
         NEW id \in 1..Issued[c], id \notin Executions[c],
         Executions'[c] = Executions[c] \cup {id},
         Issued'[c] = Issued[c], Pending'[c] = Pending[c], Outcomes'[c] = Outcomes[c]
  PROVE  R!Execute(c)
<1>1. Executions' = [Executions EXCEPT ![c] = @ \cup {id}]
  BY RpcUpdate
<1>2. Issued' = Issued
  BY DEF Same, Issued
<1>3. Pending' = Pending
  BY DEF Same, Pending
<1>4. Outcomes' = Outcomes
  BY DEF Same, Outcomes
<1> QED
  BY <1>1, <1>2, <1>3, <1>4 DEF R!Execute, Issued, Pending, Executions, Outcomes

LEMMA RpcEnd ==
  ASSUME NEW c \in Clients, \A x \in Clients \ {c} : Same(x), NEW status, NEW response,
         Pending[c] # 0, Pending'[c] = 0,
         Outcomes'[c] = Outcome(status, Pending[c], response),
         Issued'[c] = Issued[c], Executions'[c] = Executions[c]
  PROVE  R!End(c, status, response)
<1>1. /\ Outcomes' = [Outcomes EXCEPT ![c] = Outcome(status, Pending[c], response)]
      /\ Pending' = [Pending EXCEPT ![c] = 0]
  BY RpcUpdate
<1>2. Issued' = Issued
  BY DEF Same, Issued
<1>3. Executions' = Executions
  BY DEF Same, Executions
<1> QED
  BY <1>1, <1>2, <1>3 DEF R!End, R!Outcome, Outcome, Issued, Pending, Executions, Outcomes

(* Where nothing is executed.                                              *)
LEMMA ExecutionsKept ==
  ASSUME \A k \in Conns : conn'[k].executed = conn[k].executed
  PROVE  \A x \in Clients : Executed(x)' = Executed(x)
<1> SUFFICES ASSUME NEW x \in Clients PROVE Executed(x)' = Executed(x)
  OBVIOUS
<1>1. \A n \in 1..MaxConnections : conn'[<<x, n>>].executed = conn[<<x, n>>].executed
  BY DEF Conns
<1>2. \A n \in 1..MaxConnections : ExecutedIds(<<x, n>>)' = ExecutedIds(<<x, n>>)
  BY <1>1 DEF ExecutedIds
<1> DEFINE Old == UNION {ExecutedIds(<<x, n>>) : n \in 1..MaxConnections}
           New == UNION {ExecutedIds(<<x, n>>)' : n \in 1..MaxConnections}
<1>3. New = Old
  BY <1>2
<1>4. Executed(x) = Old /\ Executed(x)' = New
  BY DEF Executed, ExecutedIds
<1> QED
  BY <1>3, <1>4

LEMMA OthersSame ==
  ASSUME NEW c \in Clients, \A x \in Clients \ {c} : client'[x] = client[x],
         \A k \in Conns : conn'[k].executed = conn[k].executed
  PROVE  \A x \in Clients \ {c} : Same(x)
BY ExecutionsKept, RpcValues, RpcValuesPrime DEF Same

LEMMA AllSame ==
  ASSUME client' = client, \A k \in Conns : conn'[k].executed = conn[k].executed
  PROVE  UNCHANGED R!vars
<1>1. \A x \in Clients : Same(x)
  BY ExecutionsKept, RpcValues, RpcValuesPrime DEF Same
<1> QED
  BY <1>1, RpcStutter

(* A client's own step that is none of Rpc's.                              *)
LEMMA ClientSame ==
  ASSUME NEW c \in Clients, \A x \in Clients \ {c} : client'[x] = client[x],
         \A k \in Conns : conn'[k].executed = conn[k].executed,
         client'[c].next_request_id = client[c].next_request_id,
         client'[c].pc = "idle" <=> client[c].pc = "idle",
         client'[c].outcome = client[c].outcome
  PROVE  UNCHANGED R!vars
<1>1. Same(c)
  BY ExecutionsKept, RpcValues, RpcValuesPrime DEF Same
<1> QED
  BY <1>1, OthersSame, RpcStutter

LEMMA MapExecute ==
  ASSUME TypeOK, NEW c \in Clients, NEW request \in Requests, Execute(c, request)
  PROVE  R!Begin(c) \/ R!Reject(c)
<1>1. /\ conn' = conn /\ \A x \in Clients \ {c} : client'[x] = client[x]
      /\ client[c].pc = "idle" /\ request.id = client[c].next_request_id
      /\ client'[c].next_request_id = client[c].next_request_id + 1
      /\ client[c].connected =>
           client'[c].pc = "sending" /\ client'[c].outcome = client[c].outcome
      /\ ~client[c].connected =>
           client'[c].pc = "idle" /\ client'[c].outcome = Outcome("throw", request.id, 0)
  BY ExecuteEffect
<1>2. client[c].next_request_id \in Nat
  BY Types, Constants DEF ClientRecord
<1>3. /\ \A x \in Clients \ {c} : Same(x)
      /\ Executed(c)' = Executed(c)
  BY <1>1, OthersSame, ExecutionsKept
<1>4. /\ Pending[c] = 0 /\ Issued'[c] = Issued[c] + 1 /\ Executions'[c] = Executions[c]
      /\ request.id = Issued[c] + 1
  BY <1>1, <1>2, <1>3, RpcValues, RpcValuesPrime
<1>5. CASE client[c].connected
  <2>1. Pending'[c] = Issued[c] + 1 /\ Outcomes'[c] = Outcomes[c]
    BY <1>1, <1>2, <1>5, RpcValues, RpcValuesPrime
  <2> QED
    BY <1>3, <1>4, <2>1, RpcBegin
<1>6. CASE ~client[c].connected
  <2>1. Pending'[c] = 0 /\ Outcomes'[c] = Outcome("throw", Issued[c] + 1, 0)
    BY <1>1, <1>4, <1>6, RpcValues, RpcValuesPrime
  <2> QED
    BY <1>3, <1>4, <2>1, RpcReject
<1> QED
  BY <1>5, <1>6

LEMMA MapEnds ==
  ASSUME OrderlyInv, NEW c \in Clients, client[c].pc # "idle",
         NEW status, NEW response, NEW buffer, Ends(c, status, response, buffer)
  PROVE  R!End(c, status, response)
<1>1. /\ conn' = conn /\ \A x \in Clients \ {c} : client'[x] = client[x]
      /\ client'[c].pc = "idle"
      /\ client'[c].next_request_id = client[c].next_request_id
      /\ client'[c].outcome = Outcome(status, client[c].next_request_id - 1, response)
  BY EndsEffect DEF OrderlyInv
<1>2. client[c].next_request_id \in Nat /\ client[c].next_request_id > 1
  BY Types, Constants DEF OrderlyInv, ClientInv, ClientRecord
<1>3. /\ \A x \in Clients \ {c} : Same(x)
      /\ Executed(c)' = Executed(c)
  BY <1>1, OthersSame, ExecutionsKept
<1>4. /\ Pending[c] = client[c].next_request_id - 1 /\ Pending'[c] = 0
      /\ Issued'[c] = Issued[c] /\ Executions'[c] = Executions[c]
      /\ Outcomes'[c] = Outcome(status, client[c].next_request_id - 1, response)
  BY <1>1, <1>3, RpcValues, RpcValuesPrime
<1>5. Pending[c] # 0 /\ Outcomes'[c] = Outcome(status, Pending[c], response)
  BY <1>2, <1>4
<1> QED
  BY <1>3, <1>4, <1>5, RpcEnd

LEMMA MapReturns ==
  ASSUME IInv, NEW c \in Clients, Returns(c)
  PROVE  R!Return(c) \/ R!ReturnError(c) \/ R!Throw(c)
<1> DEFINE d == TryDecode(client[c].buffer)
<1>1. /\ client[c].pc = "receiving" /\ d.status = "packet"
      /\ Ends(c, "response", d.packet.id, d.buffer) \/ Ends(c, "throw", 0, d.buffer)
  BY DEF Returns
<1>2. client[c].connected
  BY <1>1 DEF IInv, OrderlyInv, ClientInv
<1>3. PICK k \in Conns : k = Current(c)
  BY <1>2, CurrentConn DEF IInv, OrderlyInv
<1>4. d.packet.id # 0 =>
        d.packet.id = client[c].next_request_id - 1 /\ d.packet.id \in Executed(c)
  <2>1. Reply(c, k)
    BY <1>2, <1>3 DEF IInv, ReplyInv
  <2> QED
    BY <1>1, <2>1, DecodedIsAnswer DEF IInv
<1>5. PICK id, buffer : id = d.packet.id /\ buffer = d.buffer
  OBVIOUS
<1>6. Ends(c, "response", id, buffer) \/ Ends(c, "throw", 0, buffer)
  BY <1>1, <1>5 DEF Ends
<1>7. OrderlyInv /\ client[c].pc # "idle"
  BY <1>1 DEF IInv
<1> HIDE DEF d
<1>8. CASE Ends(c, "throw", 0, buffer)
  BY <1>7, <1>8, MapEnds DEF R!Throw
<1>9. CASE Ends(c, "response", id, buffer)
  <2>1. R!End(c, "response", id)
    BY <1>7, <1>9, MapEnds
  <2>2. CASE id = 0
    <3>1. R!End(c, "response", 0)
      BY <1>7, <1>9, <2>2, MapEnds
    <3> QED
      BY <3>1 DEF R!ReturnError
  <2>3. CASE id # 0
    <3>1. Pending[c] = id /\ Pending[c] \in Executions[c]
      BY <1>4, <1>5, <1>7, <2>3, RpcValues
    <3> QED
      BY <2>1, <3>1 DEF R!Return, R!End, Pending, Executions
  <2> QED
    BY <2>2, <2>3
<1> QED
  BY <1>6, <1>8, <1>9

LEMMA MapAnswers ==
  ASSUME OrderlyInv, [Next]_vars, NEW k \in Conns, Answers(k)
  PROVE  UNCHANGED R!vars \/ R!Execute(k[1])
<1> DEFINE d == TryDecode(conn[k].buffer)
<1>1. PICK i \in {0, d.packet.id}, executes \in BOOLEAN : Answer(k, d, i, executes)
  BY DEF Answers
<1>2. PICK c \in Clients : c = k[1]
  BY Constants
<1>3. PICK id : id = d.packet.id
  OBVIOUS
<1> HIDE DEF d
<1>4. /\ client' = client /\ \A l \in Conns \ {k} : conn'[l] = conn[l]
      /\ conn'[k].executed = IF executes THEN Append(conn[k].executed, id)
                             ELSE conn[k].executed
  BY <1>1, <1>3, AnswerEffect DEF OrderlyInv
<1>5. CASE conn'[k].executed = conn[k].executed
  BY <1>4, <1>5, AllSame
<1>6. CASE conn'[k].executed # conn[k].executed
  <2>1. /\ id \in Nat \ {0} /\ id < client[c].next_request_id
        /\ \A l \in Conns : l[1] = c => \A x \in ExecutedIds(l) : x # id
    BY <1>2, <1>3, ExecutedIsNew DEF d
  <2>2. client[c].next_request_id \in 1..MaxRequests + 1
    BY Types, Constants DEF OrderlyInv, ClientRecord
  <2>3. id \in 1..MaxRequests /\ id \in 1..(client[c].next_request_id - 1)
    BY <2>1, <2>2, Constants
  <2>4. ExecutedIds(k)' = ExecutedIds(k) \cup {id}
    <3>1. conn[k].executed \in Seq(1..MaxRequests)
      BY ConnTyped DEF OrderlyInv, ConnRecord
    <3>2. conn'[k].executed = Append(conn[k].executed, id)
      BY <1>4, <1>6
    <3>3. /\ conn'[k].executed \in Seq(1..MaxRequests)
          /\ Len(conn'[k].executed) = Len(conn[k].executed) + 1
          /\ \A j \in 1..Len(conn[k].executed) : conn'[k].executed[j] = conn[k].executed[j]
          /\ conn'[k].executed[Len(conn[k].executed) + 1] = id
      BY <2>3, <3>1, <3>2, AppendProperties
    <3>4. /\ DOMAIN conn[k].executed = 1..Len(conn[k].executed) /\ Len(conn[k].executed) \in Nat
          /\ DOMAIN conn'[k].executed = 1..Len(conn[k].executed) + 1
      BY <3>1, <3>3, LenProperties
    <3> QED
      <4>1. \A x : x \in ExecutedIds(k) <=>
                    \E j \in 1..Len(conn[k].executed) : conn[k].executed[j] = x
        BY <3>4 DEF ExecutedIds
      <4>2. \A x : x \in ExecutedIds(k)' <=>
                    \E j \in 1..Len(conn[k].executed) + 1 : conn'[k].executed[j] = x
        BY <3>4 DEF ExecutedIds
      <4>3. \A x : x \in ExecutedIds(k)' <=> x \in ExecutedIds(k) \/ x = id
        <5> TAKE x
        <5>1. ASSUME x \in ExecutedIds(k)' PROVE x \in ExecutedIds(k) \/ x = id
          <6>1. PICK j \in 1..Len(conn[k].executed) + 1 : conn'[k].executed[j] = x
            BY <4>2, <5>1
          <6>2. CASE j = Len(conn[k].executed) + 1
            BY <3>3, <6>1, <6>2
          <6>3. CASE j \in 1..Len(conn[k].executed)
            BY <3>3, <4>1, <6>1, <6>3
          <6> QED
            BY <3>4, <6>2, <6>3
        <5>2. ASSUME x \in ExecutedIds(k) PROVE x \in ExecutedIds(k)'
          <6>1. PICK j \in 1..Len(conn[k].executed) : conn[k].executed[j] = x
            BY <4>1, <5>2
          <6>2. j \in 1..Len(conn[k].executed) + 1 /\ conn'[k].executed[j] = x
            BY <3>3, <3>4, <6>1
          <6> QED
            BY <4>2, <6>2
        <5>3. id \in ExecutedIds(k)'
          <6>1. Len(conn[k].executed) + 1 \in 1..Len(conn[k].executed) + 1
            BY <3>4
          <6> QED
            BY <3>3, <4>2, <6>1
        <5> QED
          BY <5>1, <5>2, <5>3
      <4> QED
        BY <4>3
  <2>5. \A l \in Conns \ {k} : ExecutedIds(l)' = ExecutedIds(l)
    BY <1>4 DEF ExecutedIds
  <2>6. Executed(c)' = Executed(c) \cup {id}
    <3>1. PICK m \in 1..MaxConnections : k = <<c, m>>
      BY <1>2, Constants
    <3>2. \A n \in 1..MaxConnections :
            ExecutedIds(<<c, n>>)' = IF n = m THEN ExecutedIds(<<c, n>>) \cup {id}
                                     ELSE ExecutedIds(<<c, n>>)
      <4> TAKE n \in 1..MaxConnections
      <4>1. <<c, n>> \in Conns /\ (<<c, n>> = k <=> n = m)
        BY <3>1, Constants
      <4> QED
        BY <2>4, <2>5, <4>1
    <3>3. Executed(c)' = UNION {ExecutedIds(<<c, n>>)' : n \in 1..MaxConnections}
      BY DEF Executed, ExecutedIds
    <3> QED
      BY <3>2, <3>3, ExecutedBy, ZenonT(60)
  <2>7. id \notin Executed(c)
    <3>1. ASSUME NEW n \in 1..MaxConnections PROVE id \notin ExecutedIds(<<c, n>>)
      <4>1. <<c, n>> \in Conns /\ <<c, n>>[1] = c
        BY Constants
      <4> QED
        BY <2>1, <4>1
    <3> SUFFICES ASSUME id \in Executed(c) PROVE FALSE
      OBVIOUS
    <3>2. PICK n \in 1..MaxConnections : id \in ExecutedIds(<<c, n>>)
      BY DEF Executed, ExecutedIds
    <3> QED
      BY <3>1, <3>2
  <2>8. ASSUME NEW x \in Clients \ {c} PROVE Same(x)
    <3>1. Executed(x)' = Executed(x)
      <4>1. \A n \in 1..MaxConnections : ExecutedIds(<<x, n>>)' = ExecutedIds(<<x, n>>)
        BY <1>2, <2>5, Constants
      <4>2. Executed(x)' = UNION {ExecutedIds(<<x, n>>)' : n \in 1..MaxConnections}
        BY DEF Executed, ExecutedIds
      <4> QED
        BY <4>1, <4>2, ExecutedBy
    <3> QED
      BY <1>4, <3>1, RpcValues, RpcValuesPrime DEF Same
  <2>9. /\ id \in 1..Issued[c] /\ id \notin Executions[c]
        /\ Executions'[c] = Executions[c] \cup {id}
        /\ Issued'[c] = Issued[c] /\ Pending'[c] = Pending[c] /\ Outcomes'[c] = Outcomes[c]
    BY <1>4, <2>3, <2>6, <2>7, RpcValues, RpcValuesPrime
  <2> QED
    BY <1>2, <2>8, <2>9, RpcExecute
<1> QED
  BY <1>5, <1>6

LEMMA MapClient ==
  ASSUME IInv, NEW c \in Clients,
         Connect(c) \/ Disconnect(c) \/ Send(c) \/ ReceiveMore(c)
  PROVE  UNCHANGED R!vars
<1> USE DEF IInv, OrderlyInv
<1>1. CASE Connect(c)
  <2>1. client[c].pc = "idle"
    BY <1>1 DEF Connect
  <2>2. /\ \A x \in Clients \ {c} : client'[x] = client[x]
        /\ \A k \in Conns : conn'[k].executed = conn[k].executed
        /\ client'[c].next_request_id = client[c].next_request_id
        /\ client'[c].pc = "idle" /\ client'[c].outcome = client[c].outcome
    BY <1>1, ConnectEffect
  <2> QED
    BY <2>1, <2>2, ClientSame
<1>2. ASSUME client[c].pc # "idle" \/ Disconnect(c)
      PROVE  Current(c) \in Conns
  BY <1>2, CurrentConn DEF Disconnect, ClientInv
<1>3. CASE Disconnect(c)
  <2>1. client[c].pc = "idle"
    BY <1>3 DEF Disconnect
  <2>2. /\ \A x \in Clients \ {c} : client'[x] = client[x]
        /\ \A k \in Conns : conn'[k].executed = conn[k].executed
        /\ client'[c].next_request_id = client[c].next_request_id
        /\ client'[c].pc = "idle" /\ client'[c].outcome = client[c].outcome
    BY <1>2, <1>3, DisconnectEffect
  <2> QED
    BY <2>1, <2>2, ClientSame
<1>4. CASE Send(c)
  <2>1. client[c].pc # "idle"
    BY <1>4 DEF Send
  <2>2. /\ \A x \in Clients \ {c} : client'[x] = client[x]
        /\ \A k \in Conns : conn'[k].executed = conn[k].executed
        /\ client'[c].next_request_id = client[c].next_request_id
        /\ client'[c].pc # "idle" /\ client'[c].outcome = client[c].outcome
    BY <1>2, <1>4, <2>1, SendEffect
  <2> QED
    BY <2>1, <2>2, ClientSame
<1>5. CASE ReceiveMore(c)
  <2>1. client[c].pc # "idle"
    BY <1>5 DEF ReceiveMore
  <2>2. /\ \A x \in Clients \ {c} : client'[x] = client[x]
        /\ \A k \in Conns : conn'[k].executed = conn[k].executed
        /\ client'[c].next_request_id = client[c].next_request_id
        /\ client'[c].pc # "idle" /\ client'[c].outcome = client[c].outcome
    BY <1>2, <1>5, <2>1, ReceiveMoreEffect
  <2> QED
    BY <2>1, <2>2, ClientSame
<1> QED
  BY <1>1, <1>3, <1>4, <1>5

LEMMA MapServer ==
  ASSUME OrderlyInv,
         \/ \E k \in Conns : SessionRead(k) \/ SessionEnds(k) \/ Processed(k) \/ Write(k)
         \/ Down \/ Start \/ UNCHANGED vars
  PROVE  UNCHANGED R!vars
<1>1. /\ client' = client
      /\ \A k \in Conns : conn'[k].executed = conn[k].executed
  <2> USE DEF OrderlyInv
  <2>1. CASE Down
    BY <2>1, DownEffect
  <2>2. CASE Start \/ UNCHANGED vars
    BY <2>2 DEF Start, vars
  <2>3. ASSUME NEW k \in Conns, SessionRead(k) PROVE <1>1!:
    BY <2>3, SessionReadEffect
  <2>4. ASSUME NEW k \in Conns, SessionEnds(k) PROVE <1>1!:
    BY <2>4, SessionEndsEffect
  <2>5. ASSUME NEW k \in Conns, Processed(k) PROVE <1>1!:
    BY <2>5 DEF Processed
  <2>6. ASSUME NEW k \in Conns, Write(k) PROVE <1>1!:
    BY <2>6, WriteEffect
  <2> QED
    BY <2>1, <2>2, <2>3, <2>4, <2>5, <2>6
<1> QED
  BY <1>1, AllSame

LEMMA MapStep ==
  ASSUME IInv, [Next]_vars
  PROVE  [R!Next]_(R!vars)
<1>1. ASSUME NEW c \in Clients, NEW request \in Requests, Execute(c, request)
      PROVE  R!Next
  BY <1>1, MapExecute DEF IInv, OrderlyInv, R!Next
<1>2. ASSUME NEW c \in Clients, Fails(c) PROVE R!Next
  <2>1. client[c].pc # "idle" /\ Ends(c, "throw", 0, client[c].buffer)
    BY <1>2 DEF Fails, Throws
  <2>2. PICK buffer : buffer = client[c].buffer
    OBVIOUS
  <2>3. Ends(c, "throw", 0, buffer)
    BY <2>1, <2>2 DEF Ends
  <2>4. R!Throw(c)
    BY <2>1, <2>3, MapEnds DEF IInv, R!Throw
  <2> QED
    BY <2>4 DEF R!Next
<1>3. ASSUME NEW c \in Clients, Returns(c) PROVE R!Next
  BY <1>3, MapReturns DEF R!Next
<1>4. ASSUME NEW k \in Conns, Answers(k) PROVE UNCHANGED R!vars \/ R!Next
  <2>1. UNCHANGED R!vars \/ R!Execute(k[1])
    BY <1>4, MapAnswers DEF IInv
  <2> QED
    BY <2>1, Constants DEF R!Next
<1>5. ASSUME NEW c \in Clients, Connect(c) \/ Disconnect(c) \/ Send(c) \/ ReceiveMore(c)
      PROVE  UNCHANGED R!vars
  BY <1>5, MapClient
<1>6. ASSUME \/ \E k \in Conns :
                  SessionRead(k) \/ SessionEnds(k) \/ Processed(k) \/ Write(k)
             \/ Down \/ Start \/ UNCHANGED vars
      PROVE  UNCHANGED R!vars
  BY <1>6, MapServer DEF IInv
<1> QED
  BY <1>1, <1>2, <1>3, <1>4, <1>5, <1>6, Steps

(* Every behaviour of clients, connections and sessions is one of Rpc:     *)
(* each call is executed at most once, and a response that                 *)
(* Client::execute returns is, unless its id is 0, the response to that    *)
(* call, which was executed.                                               *)
THEOREM CallsImplementRpc == Spec => ImplementsRpc
<1>1. Init => R!Init
  <2> SUFFICES ASSUME Init PROVE R!Init
    OBVIOUS
  <2>1. ASSUME NEW c \in Clients PROVE Executed(c) = {}
    <3>1. \A n \in 1..MaxConnections : conn[<<c, n>>].executed = <<>>
      BY Constants DEF Init
    <3>2. \A n \in 1..MaxConnections : ExecutedIds(<<c, n>>) = {}
      BY <3>1, EmptySeq, LenProperties DEF ExecutedIds
    <3> SUFFICES ASSUME NEW x \in Executed(c) PROVE FALSE
      OBVIOUS
    <3>3. PICK n \in 1..MaxConnections : x \in ExecutedIds(<<c, n>>)
      BY DEF Executed, ExecutedIds
    <3> QED
      BY <3>2, <3>3
  <2> QED
    BY <2>1 DEF Init, R!Init, Outcome, R!Outcome
<1>2. ASSUME IInv, [Next]_vars PROVE [R!Next]_(R!vars)
  BY <1>2, MapStep
<1> QED
  BY <1>1, <1>2, Invariant, PTL DEF Spec, ImplementsRpc, R!Spec

=============================================================================
