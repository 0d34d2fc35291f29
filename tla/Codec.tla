-------------------------------- MODULE Codec -------------------------------
(***************************************************************************)
(* The framing of packets in a byte stream (src/src/protocol/codec.cpp).   *)
(* A packet is its request id, its size in units, header included, and     *)
(* whether its body deserializes.  A stream is a sequence of units, each a *)
(* part of a packet, that reads and writes may split anywhere.             *)
(***************************************************************************)
EXTENDS Naturals, Sequences

CONSTANTS
  HeaderSize,     \* sizeof(Header)
  MaxPacketSize   \* kMaxPacketSize, which only try_decode_one looks at

ASSUME SizesAssumption ==
  /\ HeaderSize \in Nat \ {0}
  /\ MaxPacketSize \in Nat /\ HeaderSize < MaxPacketSize

(* Codec::encode.                                                          *)
Units(packet) == [i \in 1..packet.size |-> [packet |-> packet, part |-> i]]

(* The magic number is where the header should be, and the length is       *)
(* allowed.                                                                *)
HeaderOk(buffer) ==
  /\ buffer[1].part = 1
  /\ buffer[1].packet.size \in HeaderSize..MaxPacketSize

BodyOk(buffer, packet) == SubSeq(buffer, 1, packet.size) = Units(packet)

NoPacket == [id |-> 0, size |-> 0, readable |-> FALSE]
Decoded(status, packet, buffer) == [status |-> status, packet |-> packet, buffer |-> buffer]

(* Bug: the packet is not erased from the buffer.                          *)
TryDecodeKeeps(buffer) ==
  IF Len(buffer) < HeaderSize THEN Decoded("more", NoPacket, buffer)
  ELSE IF ~HeaderOk(buffer) THEN Decoded("throw", NoPacket, buffer)
  ELSE IF Len(buffer) < buffer[1].packet.size THEN Decoded("more", NoPacket, buffer)
  ELSE Decoded("packet", buffer[1].packet, buffer)

(* Bug: a packet is not complete before a byte of the next is there.       *)
TryDecodeLate(buffer) ==
  IF Len(buffer) < HeaderSize THEN Decoded("more", NoPacket, buffer)
  ELSE IF ~HeaderOk(buffer) THEN Decoded("throw", NoPacket, buffer)
  ELSE IF Len(buffer) <= buffer[1].packet.size THEN Decoded("more", NoPacket, buffer)
  ELSE Decoded("packet", buffer[1].packet,
               SubSeq(buffer, buffer[1].packet.size + 1, Len(buffer)))

(* try_decode_one: false ("more"), an exception, or a packet that has been *)
(* erased from the buffer.                                                 *)
TryDecode(buffer) ==
  LET packet == buffer[1].packet
      size == packet.size
  IN
  IF Len(buffer) < HeaderSize THEN Decoded("more", NoPacket, buffer)
  ELSE IF ~HeaderOk(buffer) THEN Decoded("throw", NoPacket, buffer)
  ELSE IF Len(buffer) < size THEN Decoded("more", NoPacket, buffer)
  ELSE IF ~BodyOk(buffer, packet) THEN Decoded("throw", NoPacket, buffer)
  ELSE Decoded("packet", packet, SubSeq(buffer, size + 1, Len(buffer)))

=============================================================================
