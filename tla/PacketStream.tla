---------------------------- MODULE PacketStream ----------------------------
(***************************************************************************)
(* s_process_read_message: the bytes of a channel arrive cut into messages *)
(* anywhere, and are put together again into packets.  A message is        *)
(* handled by one call on the event loop thread; the steps of that call    *)
(* are actions here, and nothing else happens between them.                *)
(*                                                                         *)
(* The packets are those a server sends; what their handlers do with them  *)
(* is the subject of MqttConnection, MqttRequests and MqttSubscriptions.   *)
(***************************************************************************)
EXTENDS FixedHeader

\* What the server sends on the first channel, on the second, and so on: a
\* sequence of packets, each a sequence of bytes.
CONSTANT Streams

Byte == 0..255

ASSUME StreamsAssumption ==
  Streams \in Seq(Seq(Seq(Byte))) /\ Streams # <<>>

VARIABLES
  channel,   \* the number of the current channel
  open,      \* FALSE when a message of it has failed and it is shut down
  arrived,   \* the number of its bytes that have been read
  phase,     \* where the call is: "idle", "pending", "loop"
  cursor,    \* message_cursor
  pending,   \* pending_packet: its bytes and its capacity
  handled,   \* the packets of the channel that their handlers have accepted
  broken     \* history: a header was cut, or the channel began with pending bytes

vars == <<channel, open, arrived, phase, cursor, pending, handled, broken>>

\* The bytes of each channel, and of the current one.
Bytes == [c \in DOMAIN Streams |-> FlattenSeq(Streams[c])]
Sent == Bytes[channel]

\* The zeroed pending_packet.
NoPending == [data |-> <<>>, capacity |-> 0]

Init ==
  /\ channel = 1
  /\ open = TRUE
  /\ arrived = 0
  /\ phase = "idle"
  /\ cursor = <<>>
  /\ pending = NoPending
  /\ handled = <<>>
  /\ broken = FALSE

\* s_packet_handlers: the types a server may not send are refused by
\* s_packet_handler_default, PINGRESP is accepted unread, and every other
\* handler decodes the packet, beginning with its fixed header.  (The packets
\* before the CONNACK that s_process_mqtt_packet refuses are in MqttConnection.)
Accepts(type, data) ==
  \/ type = PINGRESP
  \/ /\ type \in {CONNACK, PUBLISH, PUBACK, PUBREC, PUBREL, PUBCOMP, SUBACK, UNSUBACK}
     /\ DecodeHeader(data).result = "ok"

\* s_process_mqtt_packet of a packet that is accepted, or of one that is not.
Handled(type, data) == IF Accepts(type, data) THEN Append(handled, data) ELSE handled

Advance(n) == SubSeq(cursor, n + 1, Len(cursor))

\* The call fails: the channel is shut down with what it had not read.
Fail ==
  /\ open' = FALSE
  /\ phase' = "idle"
  /\ cursor' = <<>>

\* A message arrives, of any length.
Receive(n) ==
  /\ open /\ phase = "idle"
  /\ arrived' = arrived + n
  /\ cursor' = SubSeq(Sent, arrived + 1, arrived')
  /\ phase' = IF pending.data # <<>> THEN "pending" ELSE "loop"
  /\ UNCHANGED <<channel, open, pending, handled, broken>>

ToReadOneMore == pending.capacity - Len(pending.data) + 1

\* The bytes that pending_packet still has room for.
ToRead == pending.capacity - Len(pending.data)

\* The message does not complete pending_packet: it is stored whole, and the
\* call returns.
StillIncomplete ==
  /\ phase = "pending"
  /\ ToRead > Len(cursor)
  /\ pending' = [pending EXCEPT !.data = @ \o cursor]
  /\ cursor' = <<>>
  /\ phase' = "idle"
  /\ UNCHANGED <<channel, open, arrived, handled, broken>>

\* The message completes pending_packet, which is handled and zeroed.
CompletePending ==
  /\ phase = "pending"
  /\ ToRead <= Len(cursor)
  /\ LET data == pending.data \o SubSeq(cursor, 1, ToRead)
         type == data[1] \div 16
     IN  /\ handled' = Handled(type, data)
         /\ IF Accepts(type, data)
            THEN /\ cursor' = Advance(ToRead)
                 /\ phase' = "loop"
                 /\ open' = open
            ELSE Fail
  /\ pending' = NoPending
  /\ UNCHANGED <<channel, arrived, broken>>

\* The next packet of the message is there.  What its handler returns is not
\* looked at.
NextPacket ==
  /\ phase = "loop" /\ cursor # <<>>
  /\ \E header \in {DecodeHeader(cursor)} :
       LET size == header.size + header.remaining_length
       IN  /\ header.result = "ok"
           /\ cursor' = Advance(size)
           /\ handled' = Handled(header.type, SubSeq(cursor, 1, size))
  /\ UNCHANGED <<channel, open, arrived, phase, pending, broken>>

\* The buffer has no room for the header.
StorePartialBody ==
  /\ phase = "loop" /\ cursor # <<>>
  /\ LET header == DecodeHeader(cursor)
     IN  /\ header.result = "short"
         /\ pending' = [data |-> cursor, capacity |-> header.remaining_length]
         /\ broken' = (broken \/ DecodeRemainingLength(Tail(cursor)).result = "short")
  /\ cursor' = <<>>
  /\ phase' = "idle"
  /\ UNCHANGED <<channel, open, arrived, handled>>

\* The rest of the message is stored, in a buffer for the packet it begins: as
\* large as the part of its header that has been read says.
StorePartial ==
  /\ phase = "loop" /\ cursor # <<>>
  /\ LET header == DecodeHeader(cursor)
     IN  /\ header.result = "short"
         /\ pending' = [data |-> cursor, capacity |-> header.size + header.remaining_length]
         /\ broken' = (broken \/ DecodeRemainingLength(Tail(cursor)).result = "short")
  /\ cursor' = <<>>
  /\ phase' = "idle"
  /\ UNCHANGED <<channel, open, arrived, handled>>

\* The header is not one of MQTT.
Malformed ==
  /\ phase = "loop" /\ cursor # <<>>
  /\ DecodeHeader(cursor).result \in {"invalid", "reserved"}
  /\ Fail
  /\ UNCHANGED <<channel, arrived, pending, handled, broken>>

\* The message has been read: it is released.
Finish ==
  /\ phase = "loop" /\ cursor = <<>>
  /\ phase' = "idle"
  /\ UNCHANGED <<channel, open, arrived, cursor, pending, handled, broken>>

\* The channel is shut down, by the server or after a failure, and the
\* connection gets another.  s_mqtt_client_shutdown and s_mqtt_client_init
\* leave pending_packet alone.
NewChannel ==
  /\ phase = "idle"
  /\ channel < Len(Streams)
  /\ channel' = channel + 1
  /\ open' = TRUE
  /\ arrived' = 0
  /\ handled' = <<>>
  /\ broken' = (pending.data # <<>>)
  /\ UNCHANGED <<phase, cursor, pending>>

Call == StillIncomplete \/ CompletePending \/ NextPacket \/ StorePartial \/ Malformed \/ Finish

Read == \E n \in 1..(Len(Sent) - arrived) : Receive(n)

Next == Read \/ Call \/ NewChannel

Spec == Init /\ [][Next]_vars

\* The call runs to its end, and the server and the network keep sending.
FairSpec == Spec /\ WF_vars(Call) /\ WF_vars(Read)

-----------------------------------------------------------------------------

\* Whatever the messages cut the stream into, the packets handed to the
\* handlers are the ones the server sent, whole, in order and once each, no byte
\* of the stream is dropped or read twice, and the channel is not shut down; as
\* long as no message ends inside a fixed header and the channel before did not
\* end inside a packet.
StreamIsKept ==
  ~broken =>
    /\ open
    /\ IsPrefix(handled, Streams[channel])
    /\ FlattenSeq(handled) \o pending.data \o cursor = SubSeq(Sent, 1, arrived)
    /\ Len(pending.data) < pending.capacity \/ pending = NoPending

\* On a channel that stays, every packet that the server sends is handled in
\* the end, however it is cut, with the exceptions of StreamIsKept.
EveryPacketArrives == <>[](broken \/ handled = Streams[channel])

\* The lengths a fixed header is tried with: those on both sides of each change
\* in the size of their encoding.
Lengths == {0, 1, 127, 128, 129, 16383, 16384, 2097151, 2097152, 268435454, 268435455}

\* What s_encode_remaining_length writes is what s_decode_remaining_length
\* reads, with nothing after it or with any part of the stream, in the fewest
\* bytes that can hold it; and no proper prefix of it is taken for a length.
LengthsRoundTrip ==
  \A n \in Lengths :
    LET bytes == EncodeRemainingLength[n]
    IN  /\ \A rest \in {<<>>, <<255>>, cursor} :
             DecodeRemainingLength(bytes \o rest)
               = [result |-> "ok", value |-> n, read |-> Len(bytes)]
        /\ \A k \in 0..(Len(bytes) - 1) :
             DecodeRemainingLength(SubSeq(bytes, 1, k)).result = "short"
        /\ Len(bytes) > 1 => n >= 128 ^ (Len(bytes) - 1)
=============================================================================
