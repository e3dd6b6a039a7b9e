----------------------------- MODULE PacketSend -----------------------------
(***************************************************************************)
(* The packets that the client sends: what the program asks for, the       *)
(* settings that the CONNECT repeats, the message taken from the pool, and *)
(* the bytes handed to the channel.                                        *)
(*                                                                         *)
(* A call is followed until its last byte is handed over.  When that       *)
(* happens, and again after a timeout, is the matter of MqttRequests.      *)
(***************************************************************************)
EXTENDS PacketCodec

CONSTANTS
  MessageSizes,    \* how large a message of the pool may be
  ClientIds, Wills, Usernames, Passwords,
  Topics, Payloads,
  OtherPackets,    \* packets that the library can write and only a server sends
  Faults           \* {"send"}: the channel may refuse a message

VARIABLES
  pool,            \* the size of the messages of the pool
  will, username, password,          \* the connection's settings
  given,           \* what the program last asked these to be
  call             \* the call under way, until it returns

vars == <<pool, will, username, password, given, call>>

NoWill == [topic |-> NoText, qos |-> 0, retain |-> FALSE, payload |-> NoText]
NoCall == [packet |-> Refused, capacity |-> 0, messages |-> <<>>, left |-> 0, result |-> "none"]

Init ==
  /\ pool \in MessageSizes
  /\ will = NoWill /\ username = NoText /\ password = NoText
  /\ given = [will |-> NoWill, username |-> NoText, password |-> NoText]
  /\ call = NoCall

Ready == call = NoCall

-----------------------------------------------------------------------------
(* Settings *)

\* aws_mqtt_client_connection_set_will
SetWill(w) ==
  /\ Ready
  /\ IsValidTopic(w.topic, FALSE)
  /\ will' = w
  /\ given' = [given EXCEPT !.will = w]
  /\ UNCHANGED <<pool, username, password, call>>

\* aws_mqtt_client_connection_set_login: without a password, the one that is
\* there stays.
SetLogin(u, has_password, p) ==
  /\ Ready
  /\ username' = u
  /\ password' = IF has_password THEN p ELSE password
  /\ given' = [given EXCEPT !.username = u, !.password = IF has_password THEN p ELSE @]
  /\ UNCHANGED <<pool, will, call>>

-----------------------------------------------------------------------------
(* Sending *)

CapacityTooSmall(packet) == Min({2 + packet.remaining_length, pool})

\* mqtt_get_message_for_packet: the pool gives what is asked for, or less.
Capacity(packet) == Min({3 + packet.remaining_length, pool})

\* A packet that is sent in one message.
SendPacket(packet) ==
  /\ Ready
  /\ LET buf == Encode(packet, Capacity(packet))
     IN  call' = [NoCall EXCEPT !.packet = packet, !.capacity = Capacity(packet),
                                !.messages = IF buf.ok THEN <<buf.items>> ELSE <<>>,
                                !.result = IF buf.ok THEN "sent" ELSE "refused"]
  /\ UNCHANGED <<pool, will, username, password, given>>

\* s_mqtt_client_init makes the packet from the settings.
ConnectPacket(client_id, clean_session, keep_alive) ==
  LET packet    == ConnectInit(client_id, clean_session, keep_alive)
      with_will == IF will = NoWill THEN packet
                   ELSE AddWill(packet, will.topic, will.qos, will.retain, will.payload)
  IN  IF username = NoText THEN with_will ELSE AddCredentials(with_will, username, password)

Connect(client_id, clean_session) == SendPacket(ConnectPacket(client_id, clean_session, 1200))

\* aws_mqtt_client_connection_subscribe, aws_mqtt_client_connection_unsubscribe
Subscribe(filter, qos) ==
  /\ IsValidTopic(filter, TRUE)
  /\ SendPacket(SubscribeAddTopic(SubscribeInit(7), filter, qos))

Unsubscribe(filter) ==
  /\ IsValidTopic(filter, TRUE)
  /\ SendPacket(UnsubscribeAddTopic(UnsubscribeInit(7), filter))

\* The answers to PUBLISH, PUBREC and PUBREL.
SendAck(type) == SendPacket(IF type = PUBREL THEN PubrelInit(7) ELSE AckInit(type, 7))

\* s_pingreq_send, and s_shutdown's DISCONNECT
SendConnection(type) == SendPacket(ConnectionInit(type))

\* The next part of the payload is written into a message, after the headers in
\* the first one, and the channel takes the message or refuses it.
SendsOnce(packet, messages, items, left, accepted) ==
  LET to_write == Min({left, Capacity(packet) - SizeOf(items)})
      message  == IF to_write = 0 THEN items ELSE Append(items, Item(to_write, packet.payload))
  IN  call' = [packet |-> packet, capacity |-> Capacity(packet),
               messages |-> IF accepted THEN Append(messages, message) ELSE messages,
               left |-> left - to_write, result |-> IF accepted THEN "sent" ELSE "failed"]

Sends(packet, messages, items, left, accepted) ==
  LET to_write == Min({left, Capacity(packet) - SizeOf(items)})
      message  == IF to_write = 0 THEN items ELSE Append(items, Item(to_write, packet.payload))
  IN  call' = [packet |-> packet, capacity |-> Capacity(packet),
               messages |-> IF accepted THEN Append(messages, message) ELSE messages,
               left |-> left - to_write,
               result |-> CASE ~accepted       -> "failed"
                            [] left > to_write -> "busy"
                            [] OTHER           -> "sent"]

\* The packet that s_publish_send makes the first time, and keeps.
PublishPacket(topic, qos, retain, payload) ==
  PublishInit(retain, qos, FALSE, topic, IF qos = 0 THEN 0 ELSE 7, payload)

\* aws_mqtt_client_connection_publish, and s_publish_send up to its first message.
Publish(topic, qos, retain, payload, accepted) ==
  /\ Ready
  /\ IsValidTopic(topic, FALSE)
  /\ LET packet == PublishPacket(topic, qos, retain, payload)
         buf    == Encode(packet, Capacity(packet))
     IN  IF buf.ok THEN Sends(packet, <<>>, buf.items, payload.len, accepted)
         ELSE accepted /\ call' = [NoCall EXCEPT !.packet = packet, !.result = "refused",
                                                 !.capacity = Capacity(packet)]
  /\ UNCHANGED <<pool, will, username, password, given>>

\* write_payload_chunk: another message.
PublishChunk(accepted) ==
  /\ call.result = "busy"
  /\ Sends(call.packet, call.messages, <<>>, call.left, accepted)
  /\ UNCHANGED <<pool, will, username, password, given>>

\* The call returns to its caller.
Return ==
  /\ call.result \in {"sent", "refused", "failed"}
  /\ call' = NoCall
  /\ UNCHANGED <<pool, will, username, password, given>>

Accepted == IF "send" \in Faults THEN BOOLEAN ELSE {TRUE}

Next ==
  \/ \E w \in Wills : SetWill(w)
  \/ \E u \in Usernames, has \in BOOLEAN, p \in Passwords : SetLogin(u, has, p)
  \/ \E c \in ClientIds, clean \in BOOLEAN : Connect(c, clean)
  \/ \E t \in Topics, qos \in 0..2 : Subscribe(t, qos)
  \/ \E t \in Topics : Unsubscribe(t)
  \/ \E type \in {PUBACK, PUBREC, PUBREL, PUBCOMP} : SendAck(type)
  \/ \E type \in {PINGREQ, DISCONNECT} : SendConnection(type)
  \/ \E packet \in OtherPackets : SendPacket(packet)
  \/ \E t \in Topics, qos \in 0..2, retain \in BOOLEAN, p \in Payloads, a \in Accepted :
       Publish(t, qos, retain, p, a)
  \/ \E a \in Accepted : PublishChunk(a)
  \/ Return

Spec == Init /\ [][Next]_vars

-----------------------------------------------------------------------------
(* Properties *)

Size(packet) == HeaderSize(packet) + packet.remaining_length
Sent == FlattenSeq(call.messages)

\* What was handed to the channel is one whole packet: as many bytes as the
\* fixed header announces, and the decoder reads from it the packet that was
\* meant, the payload of a PUBLISH in as many messages as it takes.  Two
\* exceptions are the code's: a PUBLISH without payload is not accepted by its
\* own decoder, and a SUBSCRIBE or UNSUBSCRIBE that is larger than its message
\* is sent with the filter missing, as s_encode_buffer's result is not looked at.
SentIsWhole ==
  (/\ call.result = "sent"
   /\ call.packet.type \in {SUBSCRIBE, UNSUBSCRIBE} => Size(call.packet) <= call.capacity)
  => /\ SizeOf(Sent) = Size(call.packet)
     /\ Decode(Sent) = IF call.packet.type = PUBLISH /\ call.packet.payload.len = 0
                       THEN Refused ELSE call.packet

\* The 3 bytes that mqtt_get_message_for_packet adds are enough for the header
\* of a packet of up to 16383 bytes: an encoder fails only for a longer one, or
\* for one that is larger than a message of the pool.
RefusedOnlyTooLarge ==
  call.result = "refused" =>
    \/ call.packet.remaining_length >= 128 * 128
    \/ Size(call.packet) > pool

\* The server reads from a CONNECT the will that set_will was last given, and
\* the name and the password that set_login was last given, each by its own bit
\* of the flags; a password only together with a name.
ConnectSaysSettings ==
  call.result = "sent" /\ call.packet.type = CONNECT =>
    LET connect == Decode(Sent)
    IN  /\ connect.has_will <=> given.will # NoWill
        /\ [topic |-> connect.will_topic, qos |-> connect.will_qos,
            retain |-> connect.will_retain, payload |-> connect.will_message] = given.will
        /\ connect.has_username <=> given.username # NoText
        /\ connect.username = given.username
        /\ connect.has_password <=> given.username # NoText /\ given.password.len > 0
        /\ connect.password.len = IF given.username = NoText THEN 0 ELSE given.password.len

\* When the program makes a call, s_is_valid_topic, which looks at the levels one
\* by one, accepts what MQTT 4.7 says of the characters: a wildcard only in a
\* filter, alone between slashes, and # only at the end.
Alphabet == {"a", "/", "+", "#", "NUL"}
MaxChars == 4
Legal(chars, is_filter) ==
  \A i \in DOMAIN chars :
    /\ chars[i] # "NUL"
    /\ chars[i] \in {"+", "#"} =>
         /\ is_filter
         /\ i > 1 => chars[i - 1] = "/"
         /\ i < Len(chars) => chars[i + 1] = "/"
    /\ chars[i] = "#" => i = Len(chars)
TopicsAreLegal ==
  Ready =>
    \A chars \in BoundedSeq(Alphabet, MaxChars), is_filter \in BOOLEAN :
      IsValidTopic([chars |-> chars, len |-> Len(chars)], is_filter)
        <=> chars # <<>> /\ Legal(chars, is_filter)
=============================================================================
