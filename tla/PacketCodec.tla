---------------------------- MODULE PacketCodec ----------------------------
(***************************************************************************)
(* The packets of MQTT: how they are made, written to a buffer and read    *)
(* back.  What is written is a sequence of items, each with its size in    *)
(* bytes: the texts of a packet (topics, payloads, names) are not spelled  *)
(* out, only their length counts.  The fixed header is one item here, and  *)
(* the bytes it consists of are in FixedHeader.                            *)
(*                                                                         *)
(* A text is a record with a field len.  A topic is a text with a field    *)
(* chars, its characters; it may stand for a longer topic than that, with  *)
(* ordinary characters only in the part left out.                          *)
(***************************************************************************)
EXTENDS FixedHeader

MaxText == 65535
NoText == [name |-> "", len |-> 0]
Protocol == [name |-> "MQTT", len |-> 4]
PROTOCOL_LEVEL == 4
BIT_1_FLAGS == 2

Bit(b) == IF b THEN 1 ELSE 0
IsSet(n, bit) == (n \div bit) % 2 = 1

\* s_sizeof_encoded_buffer
SizeofBuffer(text) == 2 + text.len

-----------------------------------------------------------------------------
(* Topics *)

\* aws_byte_cursor_next_split: the levels between the slashes.
Levels(chars) ==
  FoldLeft(LAMBDA levels, c : IF c = "/" THEN Append(levels, <<>>)
                              ELSE Append(Front(levels), Append(Last(levels), c)),
           << <<>> >>, chars)

\* A filter may go on after the #.
IsValidTopicAfterHash(topic, is_filter) ==
  LET levels == Levels(topic.chars)
  IN  /\ topic.len # 0
      /\ "NUL" \notin ToSet(topic.chars)
      /\ topic.len <= MaxText
      /\ \A i \in DOMAIN levels :
           {"+", "#"} \cap ToSet(levels[i]) # {} => is_filter /\ Len(levels[i]) = 1

\* s_is_valid_topic
IsValidTopic(topic, is_filter) ==
  LET levels == Levels(topic.chars)
  IN  /\ topic.len # 0
      /\ "NUL" \notin ToSet(topic.chars)
      /\ topic.len <= MaxText
      /\ \A i \in DOMAIN levels :
           /\ \A j \in 1..(i - 1) : "#" \notin ToSet(levels[j])
           /\ {"+", "#"} \cap ToSet(levels[i]) # {} => is_filter /\ Len(levels[i]) = 1

-----------------------------------------------------------------------------
(* Making packets *)

\* s_ack_init, of PUBACK, PUBREC, PUBCOMP, SUBACK and UNSUBACK
AckInit(type, id) ==
  [type |-> type, flags |-> 0, remaining_length |-> 2, packet_identifier |-> id]

\* aws_mqtt_packet_pubrel_init
PubrelInit(id) == [AckInit(PUBREL, id) EXCEPT !.flags = BIT_1_FLAGS]

\* s_connection_init
ConnectionInit(type) == [type |-> type, flags |-> 0, remaining_length |-> 0]

\* aws_mqtt_packet_connack_init
ConnackInit(session_present, return_code) ==
  [type |-> CONNACK, flags |-> 0, remaining_length |-> 2,
   session_present |-> session_present, connect_return_code |-> return_code]

\* aws_mqtt_packet_connect_init
ConnectInit(client_identifier, clean_session, keep_alive) ==
  [type |-> CONNECT, flags |-> 0, remaining_length |-> 10 + SizeofBuffer(client_identifier),
   client_identifier |-> client_identifier, clean_session |-> clean_session,
   keep_alive_timeout |-> keep_alive,
   has_will |-> FALSE, will_topic |-> NoText, will_qos |-> 0, will_retain |-> FALSE,
   will_message |-> NoText,
   has_username |-> FALSE, username |-> NoText, has_password |-> FALSE, password |-> NoText]

\* aws_mqtt_packet_connect_add_will
AddWill(packet, topic, qos, retain, payload) ==
  [packet EXCEPT !.has_will = TRUE, !.will_topic = topic, !.will_qos = qos,
                 !.will_retain = retain, !.will_message = payload,
                 !.remaining_length = @ + SizeofBuffer(topic) + SizeofBuffer(payload)]

\* aws_mqtt_packet_connect_add_credentials: the length changes by the
\* difference to what the packet had before.
AddUsername(packet, username) ==
  [packet EXCEPT !.has_username = TRUE, !.username = username,
                 !.remaining_length = @ + (IF packet.has_username THEN 0 ELSE 2)
                                        + username.len - packet.username.len]

AddPassword(packet, password) ==
  IF password.len = 0 THEN packet
  ELSE [packet EXCEPT !.has_password = TRUE, !.password = password,
                      !.remaining_length = @ + (IF packet.has_password THEN 0 ELSE 2)
                                             + password.len - packet.password.len]

AddCredentials(packet, username, password) == AddPassword(AddUsername(packet, username), password)

\* aws_mqtt_packet_publish_init
PublishInit(retain, qos, dup, topic_name, id, payload) ==
  [type |-> PUBLISH, flags |-> Bit(retain) + 2 * qos + 8 * Bit(dup),
   remaining_length |-> SizeofBuffer(topic_name) + payload.len + (IF qos > 0 THEN 2 ELSE 0),
   topic_name |-> topic_name, packet_identifier |-> id, payload |-> payload]

QosOf(packet) == (packet.flags \div 2) % 4

\* aws_mqtt_packet_subscribe_init
SubscribeInit(id) ==
  [type |-> SUBSCRIBE, flags |-> BIT_1_FLAGS, remaining_length |-> 2,
   packet_identifier |-> id, topic_filters |-> <<>>]

\* aws_mqtt_packet_unsubscribe_init
UnsubscribeInit(id) == [SubscribeInit(id) EXCEPT !.type = UNSUBSCRIBE]

\* aws_mqtt_packet_subscribe_add_topic
SubscribeAddTopic(packet, topic_filter, qos) ==
  [packet EXCEPT !.topic_filters = Append(@, [topic_filter |-> topic_filter, qos |-> qos]),
                 !.remaining_length = @ + SizeofBuffer(topic_filter) + 1]

\* aws_mqtt_packet_unsubscribe_add_topic
UnsubscribeAddTopic(packet, topic_filter) ==
  [packet EXCEPT !.topic_filters = Append(@, topic_filter),
                 !.remaining_length = @ + SizeofBuffer(topic_filter)]

-----------------------------------------------------------------------------
(* Writing packets *)

Item(size, val) == [size |-> size, val |-> val]
SizeOf(items) == FoldLeft(LAMBDA sum, item : sum + item.size, 0, items)

\* A piece is what one call writes: all of it, or its first items and a failure.
\* The encoder stops at a failure of a piece that it must have.
Piece(must, items) == [must |-> must, items |-> items]
U8(v)   == Piece(TRUE, <<Item(1, v)>>)
Be16(v) == Piece(TRUE, <<Item(2, v)>>)

\* s_encode_buffer
EncodeBuffer(text) == <<Item(2, text.len), Item(text.len, text)>>
Buffer(text) == Piece(TRUE, EncodeBuffer(text))

\* aws_mqtt_fixed_header_encode
HeaderSize(packet) == 1 + Len(EncodeRemainingLength[packet.remaining_length])
Header(packet) ==
  Piece(TRUE, <<Item(HeaderSize(packet),
                     [type |-> packet.type, flags |-> packet.flags,
                      remaining_length |-> packet.remaining_length])>>)

ConnectFlagsRetainAtFour(packet) ==
  2 * Bit(packet.clean_session) + 4 * Bit(packet.has_will) + 8 * packet.will_qos
    + 16 * Bit(packet.will_retain) + 64 * Bit(packet.has_password) + 128 * Bit(packet.has_username)

ConnectFlags(packet) ==
  2 * Bit(packet.clean_session) + 4 * Bit(packet.has_will) + 8 * packet.will_qos
    + 32 * Bit(packet.will_retain) + 64 * Bit(packet.has_password) + 128 * Bit(packet.has_username)

\* aws_mqtt_packet_connect_encode
ConnectPieces(packet) ==
  <<Buffer(Protocol), U8(PROTOCOL_LEVEL), U8(ConnectFlags(packet)),
    Be16(packet.keep_alive_timeout), Buffer(packet.client_identifier)>>
  \o (IF packet.has_will THEN <<Buffer(packet.will_topic), Buffer(packet.will_message)>> ELSE <<>>)
  \o (IF packet.has_username THEN <<Buffer(packet.username)>> ELSE <<>>)
  \o (IF packet.has_password THEN <<Buffer(packet.password)>> ELSE <<>>)

\* aws_mqtt_packet_publish_encode_headers
PublishPieces(packet) ==
  <<Buffer(packet.topic_name)>>
  \o (IF QosOf(packet) > 0 THEN <<Be16(packet.packet_identifier)>> ELSE <<>>)

\* aws_mqtt_packet_subscribe_encode: the result of s_encode_buffer is not looked at.
SubscribePieces(packet) ==
  <<Be16(packet.packet_identifier)>>
  \o FlattenSeq([i \in DOMAIN packet.topic_filters |->
       <<Piece(FALSE, EncodeBuffer(packet.topic_filters[i].topic_filter)),
         U8(packet.topic_filters[i].qos % 4)>>])

\* aws_mqtt_packet_unsubscribe_encode: nor here.
UnsubscribePieces(packet) ==
  <<Be16(packet.packet_identifier)>>
  \o [i \in DOMAIN packet.topic_filters |->
       Piece(FALSE, EncodeBuffer(packet.topic_filters[i]))]

\* aws_mqtt_packet_connack_encode
ConnackPieces(packet) == <<U8(Bit(packet.session_present)), U8(packet.connect_return_code)>>

\* aws_mqtt_packet_ack_encode
AckPieces(packet) == <<Be16(packet.packet_identifier)>>

\* What each encoder writes after the fixed header; for PUBLISH without the
\* payload.
Pieces(packet) ==
  CASE packet.type = CONNECT     -> ConnectPieces(packet)
    [] packet.type = CONNACK     -> ConnackPieces(packet)
    [] packet.type = PUBLISH     -> PublishPieces(packet)
    [] packet.type = SUBSCRIBE   -> SubscribePieces(packet)
    [] packet.type = UNSUBSCRIBE -> UnsubscribePieces(packet)
    [] packet.type \in {PINGREQ, PINGRESP, DISCONNECT} -> <<>>
    [] OTHER                     -> AckPieces(packet)

\* A write into a buffer of so many bytes: an item is written if it fits, and a
\* text only if it is not too big.
Fitting(items, room) ==
  IF \E i \in DOMAIN items : items[i].size > MaxText THEN <<>>
  ELSE SubSeq(items, 1, Max({k \in 0..Len(items) : SizeOf(SubSeq(items, 1, k)) <= room}))

Write(capacity, buf, piece) ==
  LET written == Fitting(piece.items, capacity - SizeOf(buf.items))
  IN  IF ~buf.ok THEN buf
      ELSE [ok |-> written = piece.items \/ ~piece.must, items |-> buf.items \o written]

\* aws_mqtt_packet_..._encode; CONNECT is refused with a password alone.
Encode(packet, capacity) ==
  FoldLeft(LAMBDA buf, piece : Write(capacity, buf, piece),
           [ok |-> packet.type = CONNECT /\ packet.has_password => packet.has_username,
            items |-> <<>>],
           <<Header(packet)>> \o Pieces(packet))

-----------------------------------------------------------------------------
(* Reading packets *)

Refused == [type |-> 0]

\* A decoder is given the header that aws_mqtt_fixed_header_decode has read, and
\* the items after it.

\* s_decode_buffer: the text whose length is the item at i.
Text(body, i) == body[i + 1].val

\* aws_mqtt_packet_ack_decode
AckDecode(header, body) ==
  IF header.flags # (IF HasFlags(header.type) THEN BIT_1_FLAGS ELSE 0) THEN Refused
  ELSE [type |-> header.type, flags |-> header.flags,
        remaining_length |-> header.remaining_length, packet_identifier |-> body[1].val]

\* aws_mqtt_packet_connack_decode
ConnackDecode(header, body) ==
  [type |-> CONNACK, flags |-> header.flags, remaining_length |-> header.remaining_length,
   session_present |-> IsSet(body[1].val, 1), connect_return_code |-> body[2].val]

\* aws_mqtt_packet_connect_decode: the texts after the client identifier are
\* those whose flag is set.
ConnectDecode(header, body) ==
  LET flags == body[4].val
      will  == IF IsSet(flags, 4) THEN 4 ELSE 0
      user  == IF IsSet(flags, 128) THEN 2 ELSE 0
      TextIf(flag, i) == IF IsSet(flags, flag) THEN Text(body, i) ELSE NoText
  IN  IF \/ Text(body, 1) # Protocol
         \/ body[3].val # PROTOCOL_LEVEL
         \/ IsSet(flags, 64) /\ ~IsSet(flags, 128)
      THEN Refused
      ELSE [type |-> CONNECT, flags |-> header.flags,
            remaining_length |-> header.remaining_length,
            client_identifier |-> Text(body, 6), clean_session |-> IsSet(flags, 2),
            keep_alive_timeout |-> body[5].val,
            has_will |-> IsSet(flags, 4), will_topic |-> TextIf(4, 8),
            will_qos |-> (flags \div 8) % 4, will_retain |-> IsSet(flags, 32),
            will_message |-> TextIf(4, 10),
            has_username |-> IsSet(flags, 128),
            username |-> TextIf(128, 8 + will),
            has_password |-> IsSet(flags, 64),
            password |-> TextIf(64, 8 + will + user)]

\* aws_mqtt_packet_publish_decode: the payload is what is left.  A packet
\* without one is refused.
PublishDecode(header, body) ==
  LET qos     == QosOf(header)
      before  == IF qos > 0 THEN 3 ELSE 2
      size    == header.remaining_length - SizeOf(SubSeq(body, 1, before))
  IN  IF size = 0 THEN Refused
      ELSE [type |-> PUBLISH, flags |-> header.flags,
            remaining_length |-> header.remaining_length,
            topic_name |-> Text(body, 1),
            packet_identifier |-> IF qos > 0 THEN body[3].val ELSE 0,
            payload |-> body[before + 1].val]

\* aws_mqtt_packet_subscribe_decode
SubscribeDecode(header, body) ==
  LET filters == [i \in 1..((Len(body) - 1) \div 3) |->
                    [topic_filter |-> Text(body, 3 * i - 1), qos |-> body[3 * i + 1].val]]
  IN  IF \E i \in DOMAIN filters : filters[i].qos \notin 0..2 THEN Refused
      ELSE [type |-> SUBSCRIBE, flags |-> header.flags,
            remaining_length |-> header.remaining_length,
            packet_identifier |-> body[1].val, topic_filters |-> filters]

\* aws_mqtt_packet_unsubscribe_decode
UnsubscribeDecode(header, body) ==
  [type |-> UNSUBSCRIBE, flags |-> header.flags, remaining_length |-> header.remaining_length,
   packet_identifier |-> body[1].val,
   topic_filters |-> [i \in 1..((Len(body) - 1) \div 2) |-> Text(body, 2 * i)]]

\* The decoder of a type, on a whole packet.
Decode(items) ==
  LET header == Head(items).val
      body   == Tail(items)
  IN  CASE header.type = CONNECT     -> ConnectDecode(header, body)
        [] header.type = CONNACK     -> ConnackDecode(header, body)
        [] header.type = PUBLISH     -> PublishDecode(header, body)
        [] header.type = SUBSCRIBE   -> SubscribeDecode(header, body)
        [] header.type = UNSUBSCRIBE -> UnsubscribeDecode(header, body)
        [] header.type \in {PINGREQ, PINGRESP, DISCONNECT} -> header
        [] OTHER                     -> AckDecode(header, body)
=============================================================================
