---------------------------- MODULE FixedHeader ----------------------------
(***************************************************************************)
(* The fixed header of an MQTT packet, as bytes: its type and flags, and   *)
(* the number of bytes that follow it, seven bits to a byte.               *)
(***************************************************************************)
EXTENDS Naturals, Sequences, SequencesExt

\* enum aws_mqtt_packet_type
CONNECT     == 1
CONNACK     == 2
PUBLISH     == 3
PUBACK      == 4
PUBREC      == 5
PUBREL      == 6
PUBCOMP     == 7
SUBSCRIBE   == 8
SUBACK      == 9
UNSUBSCRIBE == 10
UNSUBACK    == 11
PINGREQ     == 12
PINGRESP    == 13
DISCONNECT  == 14

\* The most bytes a length field has.
MaxLengthBytes == 4

\* aws_mqtt_packet_has_flags.  A type out of range fails an assertion there; a
\* build without assertions takes it for a type without flags.
HasFlags(type) == type \in {SUBSCRIBE, UNSUBSCRIBE, PUBLISH, PUBREL}

\* s_encode_remaining_length: the low seven bits first, and the high bit set in
\* every byte but the last.
EncodeRemainingLength[n \in Nat] ==
  IF n < 128 THEN <<n>> ELSE <<(n % 128) + 128>> \o EncodeRemainingLength[n \div 128]

\* It takes 128 for a last byte.
LengthFieldTooSoon(bytes) ==
  LET most == Min({MaxLengthBytes, Len(bytes)})
      last == {i \in 1..most : bytes[i] <= 128}
  IN  SubSeq(bytes, 1, IF last = {} THEN most ELSE Min(last))

\* The bytes that s_decode_remaining_length reads: up to the first one without
\* the high bit, and never more than four.
LengthField(bytes) ==
  LET most == Min({MaxLengthBytes, Len(bytes)})
      last == {i \in 1..most : bytes[i] < 128}
  IN  SubSeq(bytes, 1, IF last = {} THEN most ELSE Min(last))

\* The length that has been added up when those bytes have been read.
LengthValue(field) == FoldRight(LAMBDA b, sum : (b % 128) + 128 * sum, field, 0)

\* s_decode_remaining_length
DecodeRemainingLength(bytes) ==
  LET field == LengthField(bytes)
      ended == field # <<>> /\ Last(field) < 128
  IN  [result |-> CASE ended                        -> "ok"
                    [] Len(field) = MaxLengthBytes  -> "invalid"
                    [] OTHER                        -> "short",
       value  |-> LengthValue(field),
       read   |-> Len(field)]

\* aws_mqtt_fixed_header_encode, of a header whose flags are allowed.
EncodeHeader(type, flags, remaining_length) ==
  <<type * 16 + flags>> \o EncodeRemainingLength[remaining_length]

\* What a zeroed header and an unread cursor look like.
NoHeader == [result |-> "short", type |-> 0, flags |-> 0, remaining_length |-> 0, size |-> 0]

\* aws_mqtt_fixed_header_decode of a cursor: the result, what has been stored
\* in the header by then, and the number of bytes read.
DecodeHeader(cur) ==
  IF cur = <<>> THEN NoHeader
  ELSE LET type  == cur[1] \div 16
           flags == cur[1] % 16
           field == DecodeRemainingLength(Tail(cur))
           size  == 1 + field.read
       IN  [result |-> CASE field.result # "ok"              -> field.result
                         [] Len(cur) - size < field.value    -> "short"
                         [] ~HasFlags(type) /\ flags # 0     -> "reserved"
                         [] OTHER                            -> "ok",
            type |-> type, flags |-> flags, remaining_length |-> field.value, size |-> size]
=============================================================================
