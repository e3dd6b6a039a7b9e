---------------------------- MODULE MCPacketSend ----------------------------
(* Texts around the sizes that matter: 127 and 16383, where the length field  *)
(* grows, the 16384 bytes of a message, and 65535, the longest text.          *)
EXTENDS PacketSend

Named(name, len) == [name |-> name, len |-> len]
Topic(chars, len) == [chars |-> chars, len |-> len]
Short == Topic(<<"a", "/", "a">>, 3)
Long(len) == Topic(<<"a">>, len)

McClientIds == {Named("id", n) : n \in {1, 115, 116, 16371, 16372, 65536}}
McWills ==
  {[topic |-> t, qos |-> q, retain |-> q = 1, payload |-> p] :
     t \in {Short, Topic(<<"+">>, 1)}, q \in 1..2, p \in {Named("last", 0), Named("last", 100)}}
McUsernames == {Named("user", 1), Named("other", 4)}
McPasswords == {Named("word", 0), Named("word", 8)}
McTopics ==
  {Short, Topic(<<"a", "/", "#">>, 3), Topic(<<"#", "/", "a">>, 3)}
  \cup {Long(n) : n \in {16378, 16379, 16380, 65535, 65536}}
McPayloads == {Named("data", n) : n \in {0, 1, 121, 122, 16376, 16377, 40000}}

McOtherPackets ==
  {ConnackInit(present, code) : present \in BOOLEAN, code \in {0, 5}}
  \cup {AckInit(type, 7) : type \in {SUBACK, UNSUBACK}}
  \cup {ConnectionInit(PINGRESP)}
  \cup {SubscribeAddTopic(SubscribeAddTopic(SubscribeInit(7), Short, 0), Short, q) :
          q \in 1..2}
  \cup {UnsubscribeAddTopic(UnsubscribeAddTopic(UnsubscribeInit(7), Short), Short)}
=============================================================================
