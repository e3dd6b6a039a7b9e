--------------------------- MODULE MCPacketStream ---------------------------
(***************************************************************************)
(* Two channels.  The first brings packets with and without a body, and    *)
(* one whose length takes two bytes; the second what a server sends first. *)
(***************************************************************************)
EXTENDS PacketStream

Packet(type, flags, body) == EncodeHeader(type, flags, Len(body)) \o body

\* A body of n bytes.
Body(n) == [i \in 1..n |-> i]

McStreams ==
  << << Packet(CONNACK, 0, <<0, 0>>),
        Packet(PUBLISH, 2, Body(133)),
        Packet(PINGRESP, 0, <<>>),
        Packet(SUBACK, 0, Body(3)),
        Packet(PUBACK, 0, Body(2)) >>,
     << Packet(CONNACK, 0, <<0, 0>>),
        Packet(PINGRESP, 0, <<>>) >> >>
=============================================================================
