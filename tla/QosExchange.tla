---------------------------- MODULE QosExchange ----------------------------
(***************************************************************************)
(* The exchanges that the qualities of service of MQTT consist of, between *)
(* the client and a server that keeps its session: PUBLISH and PUBACK for  *)
(* QoS 1; PUBLISH, PUBREC, PUBREL and PUBCOMP for QoS 2; in both           *)
(* directions, over channels that may be lost.                             *)
(*                                                                         *)
(* The client keeps no record of what it receives: its handlers answer     *)
(* every packet by itself.  What it sends is a request, which is sent      *)
(* again until it is answered and is lost with its channel (MqttRequests   *)
(* has the requests themselves).  The server is external, and does what    *)
(* the standard asks of it.  A message stands for its packet identifier.   *)
(***************************************************************************)
EXTENDS Naturals, Sequences, FiniteSets

CONSTANTS
  Out,         \* the messages that the program publishes
  In,          \* the messages that the server publishes to the client
  MaxChannels, \* bound on the channels of the connection
  MaxFlight,   \* bound on the packets under way when one is sent again too early
  Faults       \* "send": a packet may not be sent; "late": an answer may miss
               \* the timeout of its request

ASSUME QosAssumption ==
  /\ Out \cap In = {} /\ IsFiniteSet(In)
  /\ MaxChannels \in Nat /\ MaxFlight \in Nat
  /\ Faults \subseteq {"send", "late"}

VARIABLES
  exact,     \* the messages of QoS 2; the others are of QoS 1
  empty,     \* the incoming messages that have no payload
  up,        \* the channel is up and the CONNACK has come
  channels,  \* how many channels there have been
  request,   \* the request that publishes each message of Out
  reported,  \* what on_complete was told
  to_server, \* the packets on the way to the server
  to_client, \* the packets on the way to the client
  unreleased,\* server: the messages of QoS 2 that it waits for a PUBREL of
  sent,      \* server: how far each message of In is
  got,       \* how often the program at the other end has been given a message
  again,     \* history: messages whose PUBLISH was sent again before it was needed
  failed     \* an answer has come for a request that does not expect it

wire == <<to_server, to_client>>
given == <<exact, empty>>
vars == <<given, up, channels, request, reported, wire, unreleased, sent, got, again, failed>>

Messages == Out \cup In
Packet(kind, m) == [kind |-> kind, m |-> m]
Orders(S) == {f \in [1..Cardinality(S) -> S] : \A m \in S : \E i \in DOMAIN f : f[i] = m}
Once(n) == IF n = 0 THEN 1 ELSE 2

Init ==
  /\ exact \in SUBSET Messages /\ empty \in SUBSET In
  /\ up = FALSE /\ channels = 0
  /\ request = [m \in Out |-> "none"]
  /\ reported = [m \in Out |-> "nothing"]
  /\ to_server = <<>> /\ to_client = <<>>
  /\ unreleased = {}
  /\ sent = [m \in In |-> "new"]
  /\ got = [m \in Messages |-> 0]
  /\ again = {}
  /\ failed = FALSE

-----------------------------------------------------------------------------
(* The client publishes *)

\* s_publish_send, of a new request or of one that is not answered: the same
\* packet every time.  If it cannot be sent the request ends.
PublishSend(m) ==
  \/ /\ to_server' = Append(to_server, Packet("PUBLISH", m))
     /\ request' = [request EXCEPT ![m] = "ongoing"]
     /\ UNCHANGED reported
  \/ /\ "send" \in Faults
     /\ request' = [request EXCEPT ![m] = "released"]
     /\ reported' = [reported EXCEPT ![m] = "error"]
     /\ UNCHANGED to_server

\* aws_mqtt_client_connection_publish: sent at once, or kept until the CONNACK.
Publish(m) ==
  /\ request[m] = "none"
  /\ IF up THEN PublishSend(m)
     ELSE /\ request' = [request EXCEPT ![m] = "offline"]
          /\ UNCHANGED <<reported, to_server>>
  /\ UNCHANGED <<given, up, channels, to_client, unreleased, sent, got, again, failed>>

\* A packet of m's exchange is under way.
UnderWay(m) ==
  \E w \in {to_server, to_client} : \E i \in DOMAIN w : w[i].m = m

\* The task of a request made while offline runs.
FirstSend(m) ==
  /\ up
  /\ request[m] = "scheduled"
  /\ PublishSend(m)
  /\ UNCHANGED <<given, up, channels, to_client, unreleased, sent, got, again, failed>>

\* Its task runs when the timeout has passed: the packet is sent again.
Resend(m) ==
  /\ up
  /\ request[m] = "ongoing"
  /\ UnderWay(m) => "late" \in Faults /\ Len(to_server \o to_client) < MaxFlight
  /\ PublishSend(m)
  /\ again' = IF UnderWay(m) THEN again \cup {m} ELSE again
  /\ UNCHANGED <<given, up, channels, to_client, unreleased, sent, got, failed>>

\* Its task runs when it has been answered: it is released.
Release(m) ==
  /\ up
  /\ request[m] = "completed"
  /\ UnderWay(m) => "late" \in Faults
  /\ request' = [request EXCEPT ![m] = "released"]
  /\ UNCHANGED <<given, up, channels, reported, wire, unreleased, sent, got, again, failed>>

-----------------------------------------------------------------------------
(* The client receives *)

Received(kind, m) ==
  /\ up
  /\ to_client # <<>> /\ Head(to_client) = Packet(kind, m)
  /\ to_client' = Tail(to_client)

\* A handler's answer, which may not be sent; its result is not looked at.
Answer(kind, m) ==
  \/ to_server' = Append(to_server, Packet(kind, m))
  \/ "send" \in Faults /\ UNCHANGED to_server

\* A packet that is refused is answered.
HandlePublishAlways(m) ==
  /\ Received("PUBLISH", m)
  /\ got' = IF m \in empty THEN got ELSE [got EXCEPT ![m] = Once(@)]
  /\ Answer(IF m \in exact THEN "PUBREC" ELSE "PUBACK", m)
  /\ UNCHANGED <<given, up, channels, request, reported, unreleased, sent, again, failed>>

\* A message of QoS 2 is left for its PUBREL.
HandlePublishLater(m) ==
  /\ Received("PUBLISH", m)
  /\ got' = IF m \in exact \cup empty THEN got ELSE [got EXCEPT ![m] = Once(@)]
  /\ IF m \in empty THEN UNCHANGED to_server
     ELSE Answer(IF m \in exact THEN "PUBREC" ELSE "PUBACK", m)
  /\ UNCHANGED <<given, up, channels, request, reported, unreleased, sent, again, failed>>

\* s_packet_handler_publish.  aws_mqtt_packet_publish_decode refuses a packet
\* without a payload, which is then neither delivered nor answered.
HandlePublish(m) ==
  /\ Received("PUBLISH", m)
  /\ IF m \in empty
     THEN UNCHANGED <<got, to_server>>
     ELSE /\ got' = [got EXCEPT ![m] = Once(@)]
          /\ Answer(IF m \in exact THEN "PUBREC" ELSE "PUBACK", m)
  /\ UNCHANGED <<given, up, channels, request, reported, unreleased, sent, again, failed>>

\* s_packet_handler_ack, for PUBACK and PUBCOMP.  The request must be there and
\* must not have been answered before (see AnswersMatch in MqttRequests).
HandleAck(m) ==
  /\ \E kind \in {"PUBACK", "PUBCOMP"} : Received(kind, m)
  /\ IF request[m] = "ongoing"
     THEN /\ request' = [request EXCEPT ![m] = "completed"]
          /\ reported' = [reported EXCEPT ![m] = "success"]
          /\ UNCHANGED failed
     ELSE /\ failed' = TRUE
          /\ UNCHANGED <<request, reported>>
  /\ UNCHANGED <<given, up, channels, to_server, unreleased, sent, got, again>>

\* s_packet_handler_pubrec
HandlePubrec(m) ==
  /\ Received("PUBREC", m)
  /\ Answer("PUBREL", m)
  /\ UNCHANGED <<given, up, channels, request, reported, unreleased, sent, got, again, failed>>

\* s_packet_handler_pubrel
HandlePubrel(m) ==
  /\ Received("PUBREL", m)
  /\ Answer("PUBCOMP", m)
  /\ UNCHANGED <<given, up, channels, request, reported, unreleased, sent, got, again, failed>>

-----------------------------------------------------------------------------
(* The channel *)

\* s_packet_handler_connack: the requests made offline are scheduled.  The
\* server sends again what has not been answered.
Connack ==
  /\ ~up /\ channels < MaxChannels
  /\ up' = TRUE
  /\ channels' = channels + 1
  /\ request' = [m \in Out |-> IF request[m] = "offline" THEN "scheduled" ELSE request[m]]
  /\ \E resent \in Orders({m \in In : sent[m] \in {"sent", "received"}}) :
       to_client' = [i \in DOMAIN resent |->
            Packet(IF sent[resent[i]] = "sent" THEN "PUBLISH" ELSE "PUBREL", resent[i])]
  /\ again' = again \cup {m \in In : sent[m] = "sent"}
  /\ UNCHANGED <<given, reported, to_server, unreleased, sent, got, failed>>

\* The requests are sent again on the next channel.
HangupKeepsRequests ==
  /\ up
  /\ up' = FALSE
  /\ to_server' = <<>> /\ to_client' = <<>>
  /\ request' = [m \in Out |-> IF request[m] \in {"scheduled", "ongoing"}
                               THEN "scheduled" ELSE request[m]]
  /\ UNCHANGED <<given, channels, reported, unreleased, sent, got, again, failed>>

\* The channel is lost with the packets in it, and the tasks of the requests
\* are cancelled.
Hangup ==
  /\ up
  /\ up' = FALSE
  /\ to_server' = <<>> /\ to_client' = <<>>
  /\ request' = [m \in Out |-> IF request[m] \in {"scheduled", "ongoing", "completed"}
                               THEN "cancelled" ELSE request[m]]
  /\ UNCHANGED <<given, channels, reported, unreleased, sent, got, again, failed>>

-----------------------------------------------------------------------------
(* The server *)

ServerPublishes(m) ==
  /\ up
  /\ sent[m] = "new"
  /\ sent' = [sent EXCEPT ![m] = "sent"]
  /\ to_client' = Append(to_client, Packet("PUBLISH", m))
  /\ UNCHANGED <<given, up, channels, request, reported, to_server, unreleased, got, again, failed>>

\* What the server answers to a packet.
Reply(p) ==
  CASE p.kind = "PUBLISH" -> <<Packet(IF p.m \in exact THEN "PUBREC" ELSE "PUBACK", p.m)>>
    [] p.kind = "PUBREL"  -> <<Packet("PUBCOMP", p.m)>>
    [] p.kind = "PUBREC"  -> <<Packet("PUBREL", p.m)>>
    [] OTHER              -> <<>>

\* The server delivers a message of QoS 2 when it first sees it, and takes its
\* identifier for a new message once it is released.
ServerHandles ==
  /\ up /\ to_server # <<>>
  /\ LET p == Head(to_server)
     IN  /\ to_client' = to_client \o Reply(p)
         /\ got' = IF p.kind = "PUBLISH" /\ p.m \notin unreleased
                   THEN [got EXCEPT ![p.m] = Once(@)] ELSE got
         /\ unreleased' = CASE p.kind = "PUBLISH" /\ p.m \in exact -> unreleased \cup {p.m}
                            [] p.kind = "PUBREL"                   -> unreleased \ {p.m}
                            [] OTHER                               -> unreleased
         /\ sent' = CASE p.kind \in {"PUBACK", "PUBCOMP"} -> [sent EXCEPT ![p.m] = "done"]
                      [] p.kind = "PUBREC"                -> [sent EXCEPT ![p.m] = "received"]
                      [] OTHER                            -> sent
  /\ to_server' = Tail(to_server)
  /\ UNCHANGED <<given, up, channels, request, reported, again, failed>>

-----------------------------------------------------------------------------
Client ==
  \/ \E m \in Out : FirstSend(m) \/ Resend(m) \/ Release(m) \/ HandleAck(m) \/ HandlePubrec(m)
  \/ \E m \in In : HandlePublish(m) \/ HandlePubrel(m)

Next ==
  /\ ~failed
  /\ \/ \E m \in Out : Publish(m)
     \/ Client
     \/ Connack \/ Hangup
     \/ \E m \in In : ServerPublishes(m)
     \/ ServerHandles

Spec == Init /\ [][Next]_vars

\* The event loop runs its tasks and handlers, the server answers, and the
\* client reconnects.
FairSpec ==
  /\ Spec
  /\ WF_vars(Client /\ ~failed) /\ WF_vars(ServerHandles /\ ~failed) /\ WF_vars(Connack /\ ~failed)

-----------------------------------------------------------------------------

\* Whoever is told that a message has been delivered is told the truth: when
\* on_complete reports success the server has it, and when the exchange of an
\* incoming message has ended the program has been given it.
AtLeastOnce ==
  /\ \A m \in Out : reported[m] = "success" => got[m] > 0
  /\ \A m \in In : sent[m] \in {"received", "done"} => got[m] > 0

\* Why: nobody answers a message that has not been given to the program at the
\* other end, and every packet but a PUBLISH stands for such an answer.
ToServer ==
  [kind : {"PUBLISH", "PUBREL"}, m : Out] \cup [kind : {"PUBACK", "PUBREC", "PUBCOMP"}, m : In]
ToClient ==
  [kind : {"PUBLISH", "PUBREL"}, m : In] \cup [kind : {"PUBACK", "PUBREC", "PUBCOMP"}, m : Out]
Truthful(p) == p.kind = "PUBLISH" \/ got[p.m] > 0
AnswersAreTrue ==
  /\ got \in [Messages -> Nat]
  /\ sent \in [In -> {"new", "sent", "received", "done"}]
  /\ reported \in [Out -> {"nothing", "error", "success"}]
  /\ to_server \in Seq({p \in ToServer : Truthful(p)})
  /\ to_client \in Seq({p \in ToClient : Truthful(p)})
  /\ \A m \in unreleased : m \in Out /\ got[m] > 0
  /\ AtLeastOnce

\* A message of QoS 2 is given to the program at the other end once, although
\* PUBRELs may fail to be sent and the PUBLISH is sent again then; unless it is
\* sent again too early, or by the server because the channel was lost.
AtMostOnce == \A m \in exact : m \notin again => got[m] <= 1

\* Why: without a PUBLISH sent too early there is one packet of an outgoing
\* message under way at most, and the server knows the message until it has
\* answered with the PUBCOMP that ends the request; an incoming one is published
\* once.
Of(m) == [kind : {"PUBLISH", "PUBACK", "PUBREC", "PUBREL", "PUBCOMP"}, m : {m}]
None(w, S) == \A i \in DOMAIN w : w[i] \notin S
One(w, S) == \A i, j \in DOMAIN w : w[i] \in S /\ w[j] \in S => i = j
OutOnce(m) ==
  /\ One(to_server, Of(m)) /\ One(to_client, Of(m))
  /\ None(to_server, Of(m)) \/ None(to_client, Of(m))
  /\ (None(to_server, Of(m)) /\ None(to_client, Of(m))) \/ request[m] = "ongoing"
  /\ got[m] <= 1
  /\ \/ got[m] = 0 \/ m \in unreleased
     \/ request[m] \in {"completed", "cancelled", "released"}
     \/ ~None(to_client, {Packet("PUBCOMP", m)})
InOnce(m) ==
  /\ One(to_client, {Packet("PUBLISH", m)})
  /\ got[m] <= 1
  /\ None(to_client, {Packet("PUBLISH", m)}) \/ (got[m] = 0 /\ sent[m] # "new")
  /\ sent[m] = "new" => got[m] = 0
OnceOnly ==
  /\ exact \subseteq Messages
  /\ request \in [Out -> {"none", "offline", "scheduled", "ongoing", "completed",
                          "cancelled", "released"}]
  /\ up \/ (to_server = <<>> /\ to_client = <<>>)
  /\ \A m \in exact \ again : (m \in Out => OutOnce(m)) /\ (m \in In => InOnce(m))

\* Every message that the server publishes reaches the program, if the channel
\* lasts or the client may reconnect, and if it has a payload.
IncomingArrives ==
  \A m \in In : sent[m] # "new" /\ m \notin empty ~> got[m] > 0 \/ failed \/ (~up /\ channels = MaxChannels)
=============================================================================
