------------------------- MODULE QosExchangeProofs -------------------------
(***************************************************************************)
(* Proofs about QosExchange, for any messages in either direction.         *)
(***************************************************************************)
EXTENDS QosExchange, FiniteSetTheorems, TLAPS

-----------------------------------------------------------------------------
(* Sequences of packets *)

\* Packets of a smaller set are packets of the larger one.
LEMMA SeqMonotone ==
  ASSUME NEW S, NEW T, S \subseteq T, NEW w \in Seq(S)
  PROVE  w \in Seq(T)
OBVIOUS

\* A wire whose first packet is taken.
LEMMA TailAndHead ==
  ASSUME NEW S, NEW w \in Seq(S), w # <<>>
  PROVE  Head(w) \in S /\ Tail(w) \in Seq(S)
OBVIOUS

\* One wire after another.
LEMMA Joined ==
  ASSUME NEW S, NEW v \in Seq(S), NEW w \in Seq(S)
  PROVE  v \o w \in Seq(S)
OBVIOUS

\* A wire with no packet, and with one.
LEMMA Short ==
  ASSUME NEW S
  PROVE  <<>> \in Seq(S) /\ \A q \in S : <<q>> \in Seq(S)
OBVIOUS

\* What the packets that are sent again after a CONNACK look like.
Resent(s) ==
  {[i \in DOMAIN resent |-> Packet(IF s[resent[i]] = "sent" THEN "PUBLISH" ELSE "PUBREL", resent[i])] :
     resent \in Orders({m \in In : s[m] \in {"sent", "received"}})}

\* They are of the messages whose exchange with the client has not ended.
LEMMA ResentType ==
  ASSUME NEW s, NEW w \in Resent(s)
  PROVE  w \in Seq({Packet(IF s[m] = "sent" THEN "PUBLISH" ELSE "PUBREL", m) :
                      m \in {n \in In : s[n] \in {"sent", "received"}}})
<1> DEFINE R == {n \in In : s[n] \in {"sent", "received"}}
           P(m) == Packet(IF s[m] = "sent" THEN "PUBLISH" ELSE "PUBREL", m)
<1>1. Cardinality(R) \in Nat
  <2>1. IsFiniteSet(R)
    BY FS_Subset, QosAssumption
  <2> QED BY <2>1, FS_CardinalityType
<1>2. PICK resent \in Orders(R) : w = [i \in DOMAIN resent |-> P(resent[i])]
  BY DEF Resent
<1>3. resent \in [1..Cardinality(R) -> R]
  BY <1>2 DEF Orders
<1>4. w \in [1..Cardinality(R) -> {P(m) : m \in R}]
  <2> HIDE DEF R, P
  <2> QED BY <1>2, <1>3
<1>5. w \in Seq({P(m) : m \in R})
  <2> HIDE DEF R, P
  <2> QED BY <1>1, <1>4
<1> QED BY <1>5

-----------------------------------------------------------------------------
(* At least once *)

True(D) == {p \in D : Truthful(p)}

\* What is on a wire stays true when more has been delivered.
LEMMA MoreIsTrue ==
  ASSUME AnswersAreTrue, \A m \in Messages : got[m] > 0 => got'[m] > 0,
         NEW D \in {ToServer, ToClient}, NEW w \in Seq(True(D))
  PROVE  w \in Seq(True(D)')
<1>1. True(D) \subseteq True(D)'
  BY DEF True, Truthful, ToServer, ToClient, Messages
<1> QED BY <1>1, SeqMonotone

\* A step that gives nobody a message and leaves the server alone.
LEMMA NothingGiven ==
  ASSUME AnswersAreTrue, UNCHANGED <<got, sent, unreleased>>,
         reported' \in [Out -> {"nothing", "error", "success"}],
         \A m \in Out : reported'[m] = "success" => got[m] > 0,
         to_server' \in Seq(True(ToServer)), to_client' \in Seq(True(ToClient))
  PROVE  AnswersAreTrue'
<1>1. to_server' \in Seq(True(ToServer)') /\ to_client' \in Seq(True(ToClient)')
  BY MoreIsTrue
<1> QED BY <1>1 DEF AnswersAreTrue, AtLeastOnce, True, Messages

\* s_publish_send: a PUBLISH claims nothing.
LEMMA SendIsTrue ==
  ASSUME AnswersAreTrue, NEW m \in Out, PublishSend(m), UNCHANGED <<got, sent, unreleased, to_client>>
  PROVE  AnswersAreTrue'
<1>0. Packet("PUBLISH", m) \in True(ToServer)
  BY DEF True, Truthful, Packet, ToServer
<1>1. to_server \in Seq(True(ToServer)) /\ to_client \in Seq(True(ToClient))
  BY DEF AnswersAreTrue, True
<1>2. to_server' \in Seq(True(ToServer)) /\ to_client' \in Seq(True(ToClient))
  <2>1. to_server' \in {to_server, Append(to_server, Packet("PUBLISH", m))}
    BY DEF PublishSend
  <2> QED BY <1>0, <1>1, <2>1
<1>3. /\ reported' \in [Out -> {"nothing", "error", "success"}]
      /\ \A n \in Out : reported'[n] = "success" => got[n] > 0
  BY DEF PublishSend, AnswersAreTrue, AtLeastOnce
<1> QED BY <1>2, <1>3, NothingGiven

\* The handlers of the acknowledgements: what is reported or answered was delivered.
LEMMA HandlersAreTrue ==
  ASSUME AnswersAreTrue,
         \/ \E m \in Out : HandleAck(m) \/ HandlePubrec(m)
         \/ \E m \in In : HandlePubrel(m)
  PROVE  AnswersAreTrue'
<1>0. PICK m \in Messages, kind \in {"PUBACK", "PUBCOMP", "PUBREC", "PUBREL"} :
         /\ Received(kind, m)
         /\ \/ m \in Out /\ kind \in {"PUBACK", "PUBCOMP"} /\ HandleAck(m)
            \/ m \in Out /\ kind = "PUBREC" /\ HandlePubrec(m)
            \/ m \in In /\ kind = "PUBREL" /\ HandlePubrel(m)
  BY DEF HandleAck, HandlePubrec, HandlePubrel, Messages
<1>1. to_server \in Seq(True(ToServer)) /\ to_client \in Seq(True(ToClient))
  BY DEF AnswersAreTrue, True
<1>2. Packet(kind, m) \in True(ToClient) /\ to_client' \in Seq(True(ToClient))
  BY <1>0, <1>1, TailAndHead DEF Received
<1>3. got[m] > 0
  BY <1>2 DEF True, Truthful, Packet
<1>4. CASE m \in Out /\ kind \in {"PUBACK", "PUBCOMP"} /\ HandleAck(m)
  <2>1. /\ UNCHANGED <<got, sent, unreleased, to_server>>
        /\ reported' \in [Out -> {"nothing", "error", "success"}]
        /\ \A n \in Out : reported'[n] = "success" => got[n] > 0
    BY <1>3, <1>4 DEF HandleAck, AnswersAreTrue, AtLeastOnce
  <2> QED BY <1>1, <1>2, <2>1, NothingGiven
<1>5. CASE m \in Out /\ kind = "PUBREC" /\ HandlePubrec(m)
  <2>1. Packet("PUBREL", m) \in True(ToServer)
    BY <1>3, <1>5 DEF True, Truthful, Packet, ToServer
  <2>2. to_server' \in Seq(True(ToServer)) /\ UNCHANGED <<got, sent, unreleased, reported>>
    BY <1>1, <1>5, <2>1 DEF HandlePubrec, Answer
  <2> QED BY <1>2, <2>2, NothingGiven DEF AnswersAreTrue, AtLeastOnce
<1>6. CASE m \in In /\ kind = "PUBREL" /\ HandlePubrel(m)
  <2>1. Packet("PUBCOMP", m) \in True(ToServer)
    BY <1>3, <1>6 DEF True, Truthful, Packet, ToServer
  <2>2. to_server' \in Seq(True(ToServer)) /\ UNCHANGED <<got, sent, unreleased, reported>>
    BY <1>1, <1>6, <2>1 DEF HandlePubrel, Answer
  <2> QED BY <1>2, <2>2, NothingGiven DEF AnswersAreTrue, AtLeastOnce
<1> QED BY <1>0, <1>4, <1>5, <1>6

\* An incoming PUBLISH is given to the program before it is answered.
LEMMA PublishIsTrue ==
  ASSUME AnswersAreTrue, NEW m \in In, HandlePublish(m)
  PROVE  AnswersAreTrue'
<1>1. to_server \in Seq(True(ToServer)) /\ to_client \in Seq(True(ToClient))
  BY DEF AnswersAreTrue, True
<1>2. to_client' \in Seq(True(ToClient)) /\ UNCHANGED <<sent, unreleased, reported>>
  BY <1>1, TailAndHead DEF HandlePublish, Received
<1>3. CASE m \in empty
  BY <1>1, <1>2, <1>3, NothingGiven DEF HandlePublish, AnswersAreTrue, AtLeastOnce
<1>4. CASE m \notin empty
  <2>1. got' = [got EXCEPT ![m] = Once(@)]
    BY <1>4 DEF HandlePublish
  <2>2. /\ got' \in [Messages -> Nat] /\ got'[m] > 0
        /\ \A n \in Messages : got[n] > 0 => got'[n] > 0
    BY <2>1 DEF AnswersAreTrue, Once, Messages
  <2>3. /\ to_client' \in Seq(True(ToClient)') /\ to_server \in Seq(True(ToServer)')
    BY <1>1, <1>2, <2>2, MoreIsTrue
  <2>4. \A kind \in {"PUBREC", "PUBACK"} : Packet(kind, m) \in True(ToServer)'
    BY <2>2 DEF True, Truthful, Packet, ToServer
  <2>5. to_server' \in Seq(True(ToServer)')
    <3>1. \E p \in True(ToServer)' : to_server' \in {to_server, Append(to_server, p)}
      BY <1>4, <2>4 DEF HandlePublish, Answer
    <3> QED BY <2>3, <3>1
  <2> QED BY <1>2, <2>2, <2>3, <2>5 DEF AnswersAreTrue, AtLeastOnce, True, Messages
<1> QED BY <1>3, <1>4

\* A new channel and the end of one: what is sent again claims nothing new.
LEMMA ChannelIsTrue ==
  ASSUME AnswersAreTrue, Connack \/ Hangup
  PROVE  AnswersAreTrue'
<1>1. to_server \in Seq(True(ToServer)) /\ to_client \in Seq(True(ToClient))
  BY DEF AnswersAreTrue, True
<1>2. UNCHANGED <<got, sent, unreleased, reported>>
  BY DEF Connack, Hangup
<1>3. CASE Hangup
  <2>1. to_server' = <<>> /\ to_client' = <<>>
    BY <1>3 DEF Hangup
  <2>2. to_server' \in Seq(True(ToServer)) /\ to_client' \in Seq(True(ToClient))
    BY <2>1
  <2> QED BY <1>2, <2>2, NothingGiven DEF AnswersAreTrue, AtLeastOnce
<1>4. CASE Connack
  <2> DEFINE S == {Packet(IF sent[m] = "sent" THEN "PUBLISH" ELSE "PUBREL", m) :
                     m \in {n \in In : sent[n] \in {"sent", "received"}}}
  <2>1. to_client' \in Resent(sent) /\ to_server' = to_server
    BY <1>4, Zenon DEF Connack, Resent
  <2>2. to_client' \in Seq(S)
    BY <2>1, ResentType
  <2>3. S \subseteq True(ToClient)
    <3> SUFFICES ASSUME NEW m \in In, sent[m] \in {"sent", "received"}
                 PROVE  Packet(IF sent[m] = "sent" THEN "PUBLISH" ELSE "PUBREL", m) \in True(ToClient)
      OBVIOUS
    <3>1. sent[m] = "received" => got[m] > 0
      BY DEF AnswersAreTrue, AtLeastOnce
    <3> QED BY <3>1 DEF True, Truthful, Packet, ToClient
  <2>4. to_client' \in Seq(True(ToClient))
    <3> HIDE DEF S
    <3> QED BY <2>2, <2>3, SeqMonotone
  <2> QED BY <1>1, <1>2, <2>1, <2>4, NothingGiven DEF AnswersAreTrue, AtLeastOnce
<1> QED BY <1>3, <1>4

\* The server sends a message for the first time.
LEMMA ServerPublishesIsTrue ==
  ASSUME AnswersAreTrue, NEW m \in In, ServerPublishes(m)
  PROVE  AnswersAreTrue'
<1>1. to_server \in Seq(True(ToServer)) /\ to_client \in Seq(True(ToClient))
  BY DEF AnswersAreTrue, True
<1>2. Packet("PUBLISH", m) \in True(ToClient)
  BY DEF True, Truthful, Packet, ToClient
<1>3. /\ to_client' = Append(to_client, Packet("PUBLISH", m))
      /\ UNCHANGED <<got, unreleased, reported, to_server>>
      /\ sent' = [sent EXCEPT ![m] = "sent"]
  BY DEF ServerPublishes
<1>4. to_client' \in Seq(True(ToClient)')
  <2>1. to_client' \in Seq(True(ToClient))
    BY <1>1, <1>2, <1>3
  <2> QED BY <1>3, <2>1, MoreIsTrue, Zenon
<1>5. to_server' \in Seq(True(ToServer)')
  BY <1>1, <1>3, MoreIsTrue
<1> QED BY <1>3, <1>4, <1>5 DEF AnswersAreTrue, AtLeastOnce, True, Messages

\* The server's answer to a packet p.
LEMMA ReplyIsTrue ==
  ASSUME AnswersAreTrue, NEW p \in ToServer, p.kind = "PUBLISH" \/ got[p.m] > 0, got'[p.m] > 0
  PROVE  \/ Reply(p) = <<>>
         \/ \E q \in True(ToClient)' : Reply(p) = <<q>> /\ q.m = p.m
<1>1. CASE p.kind = "PUBLISH"
  <2>1. Reply(p) = <<Packet(IF p.m \in exact THEN "PUBREC" ELSE "PUBACK", p.m)>>
    BY <1>1 DEF Reply
  <2> QED BY <1>1, <2>1 DEF True, Truthful, Packet, ToClient, ToServer
<1>2. CASE p.kind = "PUBREL"
  <2>1. Reply(p) = <<Packet("PUBCOMP", p.m)>>
    BY <1>2 DEF Reply
  <2> QED BY <1>2, <2>1 DEF True, Truthful, Packet, ToClient, ToServer
<1>3. CASE p.kind = "PUBREC"
  <2>1. Reply(p) = <<Packet("PUBREL", p.m)>>
    BY <1>3 DEF Reply
  <2> QED BY <1>3, <2>1 DEF True, Truthful, Packet, ToClient, ToServer
<1>4. CASE p.kind \in {"PUBACK", "PUBCOMP"}
  BY <1>4 DEF Reply
<1> QED BY <1>1, <1>2, <1>3, <1>4 DEF ToServer

\* The server takes a packet, and answers what it has.
LEMMA ServerHandlesIsTrue ==
  ASSUME AnswersAreTrue, ServerHandles
  PROVE  AnswersAreTrue'
<1> DEFINE p == Head(to_server)
<1>1. /\ to_server \in Seq(True(ToServer)) /\ to_client \in Seq(True(ToClient))
      /\ to_server # <<>>
  BY DEF AnswersAreTrue, True, ServerHandles
<1>2. p \in True(ToServer) /\ Tail(to_server) \in Seq(True(ToServer))
  BY <1>1, TailAndHead
<1>3. /\ p \in ToServer /\ (p.kind = "PUBLISH" \/ got[p.m] > 0)
      /\ p.m \in Messages /\ (p.kind \in {"PUBLISH", "PUBREL"} => p.m \in Out)
  BY <1>2 DEF True, Truthful, ToServer, Messages
<1>4. /\ to_client' = to_client \o Reply(p) /\ to_server' = Tail(to_server)
      /\ got' = IF p.kind = "PUBLISH" /\ p.m \notin unreleased
                THEN [got EXCEPT ![p.m] = Once(@)] ELSE got
      /\ unreleased' \subseteq unreleased \cup (IF p.kind = "PUBLISH" THEN {p.m} ELSE {})
      /\ sent' \in {sent, [sent EXCEPT ![p.m] = "done"], [sent EXCEPT ![p.m] = "received"]}
      /\ UNCHANGED reported
  BY DEF ServerHandles
<1> HIDE DEF p
<1>5. /\ got' \in [Messages -> Nat] /\ got'[p.m] > 0
      /\ \A n \in Messages : got[n] > 0 => got'[n] > 0
  <2>1. got \in [Messages -> Nat] /\ (p.m \in unreleased => got[p.m] > 0)
    BY DEF AnswersAreTrue
  <2> QED BY <1>3, <1>4, <2>1 DEF Once
<1>6. to_client' \in Seq(True(ToClient)') /\ to_server' \in Seq(True(ToServer)')
  <2>1. to_client \in Seq(True(ToClient)') /\ to_server' \in Seq(True(ToServer)')
    BY <1>1, <1>2, <1>4, <1>5, MoreIsTrue
  <2>2. Reply(p) = <<>> \/ \E q \in True(ToClient)' : Reply(p) = <<q>>
    BY <1>3, <1>5, ReplyIsTrue
  <2>3. Reply(p) \in Seq(True(ToClient)')
    BY <2>2, Short, Zenon
  <2>4. to_client \o Reply(p) \in Seq(True(ToClient)')
    BY <2>1, <2>3, Joined
  <2> QED BY <1>4, <2>1, <2>4
<1>7. \A m \in unreleased' : m \in Out /\ got'[m] > 0
  BY <1>3, <1>4, <1>5 DEF AnswersAreTrue, Messages
<1>8. /\ sent' \in [In -> {"new", "sent", "received", "done"}]
      /\ \A m \in In : sent'[m] \in {"received", "done"} => got'[m] > 0
  <2>1. /\ sent \in [In -> {"new", "sent", "received", "done"}]
        /\ \A m \in In : sent[m] \in {"received", "done"} => got[m] > 0
    BY DEF AnswersAreTrue, AtLeastOnce
  <2>2. \A m \in In : sent'[m] = sent[m] \/ m = p.m
    BY <1>4, <2>1
  <2>3. sent' \in [In -> {"new", "sent", "received", "done"}]
    BY <1>4, <2>1
  <2> QED BY <1>5, <2>1, <2>2, <2>3 DEF Messages
<1>9. /\ reported' \in [Out -> {"nothing", "error", "success"}]
      /\ \A m \in Out : reported'[m] = "success" => got'[m] > 0
  BY <1>4, <1>5 DEF AnswersAreTrue, AtLeastOnce, Messages
<1> QED BY <1>5, <1>6, <1>7, <1>8, <1>9 DEF AnswersAreTrue, AtLeastOnce, True

\* Every step keeps AnswersAreTrue ...
LEMMA TrueNext ==
  ASSUME AnswersAreTrue, [Next]_vars
  PROVE  AnswersAreTrue'
<1>1. ASSUME NEW m \in Out, Publish(m) PROVE AnswersAreTrue'
  <2>1. CASE up
    BY <1>1, <2>1, SendIsTrue DEF Publish
  <2>2. CASE ~up
    BY <1>1, <2>2 DEF Publish, AnswersAreTrue, AtLeastOnce, Truthful
  <2> QED BY <2>1, <2>2
<1>2. ASSUME NEW m \in Out, FirstSend(m) \/ Resend(m) PROVE AnswersAreTrue'
  BY <1>2, SendIsTrue DEF FirstSend, Resend
<1>3. ASSUME NEW m \in Out, Release(m) PROVE AnswersAreTrue'
  BY <1>3 DEF Release, wire, AnswersAreTrue, AtLeastOnce, Truthful
<1>4. CASE (\E m \in Out : HandleAck(m) \/ HandlePubrec(m)) \/ \E m \in In : HandlePubrel(m)
  BY <1>4, HandlersAreTrue
<1>5. ASSUME NEW m \in In, HandlePublish(m) PROVE AnswersAreTrue'
  BY <1>5, PublishIsTrue
<1>6. CASE Connack \/ Hangup
  BY <1>6, ChannelIsTrue
<1>7. ASSUME NEW m \in In, ServerPublishes(m) PROVE AnswersAreTrue'
  BY <1>7, ServerPublishesIsTrue
<1>8. CASE ServerHandles
  BY <1>8, ServerHandlesIsTrue
<1>9. CASE UNCHANGED vars
  BY <1>9 DEF vars, wire, AnswersAreTrue, AtLeastOnce, Truthful
<1> QED BY <1>1, <1>2, <1>3, <1>4, <1>5, <1>6, <1>7, <1>8, <1>9 DEF Next, Client

\* ... which holds at the start.
LEMMA TrueInit ==
  ASSUME Init
  PROVE  AnswersAreTrue
BY DEF Init, AnswersAreTrue, AtLeastOnce

\* Whoever is told that a message has been delivered is told the truth, for any
\* number of messages and of channels, packets lost and sent again at any time:
\* on_complete reports success for what the server has, and an incoming message
\* is not acknowledged before the program has been given it.
THEOREM AtLeastOnceHolds == Spec => []AtLeastOnce
<1>1. AnswersAreTrue /\ [Next]_vars => AnswersAreTrue'
  BY TrueNext
<1>2. AnswersAreTrue => AtLeastOnce
  BY DEF AnswersAreTrue
<1> QED BY <1>1, <1>2, TrueInit, PTL DEF Spec

-----------------------------------------------------------------------------
(* Wires and packets *)

\* An empty wire has no packet of any set.
LEMMA EmptyFacts == \A T : None(<<>>, T) /\ One(<<>>, T)
BY DEF None, One

\* How many packets of a set are on a wire that gets another ...
LEMMA AppendFacts ==
  ASSUME NEW D, NEW w \in Seq(D), NEW e, NEW T
  PROVE  /\ e \notin T => (None(Append(w, e), T) <=> None(w, T))
         /\ e \notin T /\ One(w, T) => One(Append(w, e), T)
         /\ e \in T => ~None(Append(w, e), T)
         /\ None(w, T) => One(Append(w, e), T)
<1>1. /\ DOMAIN Append(w, e) = 1..(Len(w) + 1) /\ DOMAIN w = 1..Len(w) /\ Len(w) \in Nat
      /\ \A i \in 1..Len(w) : Append(w, e)[i] = w[i]
      /\ Append(w, e)[Len(w) + 1] = e
  OBVIOUS
<1>2. e \notin T => (None(Append(w, e), T) <=> None(w, T))
  BY <1>1 DEF None
<1>3. e \notin T /\ One(w, T) => One(Append(w, e), T)
  BY <1>1 DEF One
<1>4. e \in T => ~None(Append(w, e), T)
  BY <1>1 DEF None
<1>5. None(w, T) => One(Append(w, e), T)
  BY <1>1 DEF None, One
<1> QED BY <1>2, <1>3, <1>4, <1>5

\* ... and on one that loses its first.
LEMMA TailFacts ==
  ASSUME NEW D, NEW w \in Seq(D), w # <<>>, NEW T
  PROVE  /\ Head(w) \notin T => (None(Tail(w), T) <=> None(w, T))
         /\ None(w, T) => None(Tail(w), T)
         /\ One(w, T) => One(Tail(w), T)
         /\ Head(w) \in T => ~None(w, T)
         /\ Head(w) \in T /\ One(w, T) => None(Tail(w), T)
         /\ \A c \in T : Head(w) \in T /\ Head(w) # c /\ One(w, T) => None(w, {c})
<1>1. /\ DOMAIN Tail(w) = 1..(Len(w) - 1) /\ DOMAIN w = 1..Len(w) /\ Len(w) \in Nat \ {0}
      /\ \A i \in 1..(Len(w) - 1) : Tail(w)[i] = w[i + 1]
      /\ Head(w) = w[1]
  OBVIOUS
<1>2. \A i \in 1..Len(w) : i = 1 \/ (i - 1 \in 1..(Len(w) - 1) /\ (i - 1) + 1 = i)
  BY <1>1
<1>3. Head(w) \notin T /\ None(Tail(w), T) => None(w, T)
  <2> SUFFICES ASSUME Head(w) \notin T, None(Tail(w), T), NEW i \in 1..Len(w)
               PROVE  w[i] \notin T
    BY <1>1 DEF None
  <2>1. CASE i = 1
    BY <1>1, <2>1
  <2>2. CASE i # 1
    <3>1. i - 1 \in DOMAIN Tail(w) /\ w[i] = Tail(w)[i - 1]
      BY <1>1, <1>2, <2>2
    <3> QED BY <3>1, Zenon DEF None
  <2> QED BY <2>1, <2>2
<1>4. None(w, T) => None(Tail(w), T)
  BY <1>1 DEF None
<1>5. One(w, T) => One(Tail(w), T)
  BY <1>1 DEF One
<1>6. Head(w) \in T => ~None(w, T)
  BY <1>1 DEF None
<1>7. Head(w) \in T /\ One(w, T) => None(Tail(w), T)
  <2> SUFFICES ASSUME Head(w) \in T, One(w, T), NEW i \in 1..(Len(w) - 1), w[i + 1] \in T
               PROVE  FALSE
    BY <1>1 DEF None
  <2>1. 1 \in DOMAIN w /\ i + 1 \in DOMAIN w /\ i + 1 # 1
    BY <1>1
  <2> QED BY <1>1, <2>1 DEF One
<1>8. \A c \in T : Head(w) \in T /\ Head(w) # c /\ One(w, T) => None(w, {c})
  <2>1. 1 \in DOMAIN w
    BY <1>1
  <2> QED BY <1>1, <2>1 DEF None, One
<1> QED BY <1>3, <1>4, <1>5, <1>6, <1>7, <1>8

\* No packet of a set means none of its members.
LEMMA NoneIsSmaller ==
  ASSUME NEW w, NEW T, NEW c \in T, None(w, T)
  PROVE  None(w, {c})
BY DEF None

\* Packets of one message and of another.
LEMMA PacketsOf ==
  ASSUME NEW m, NEW n, NEW kind \in {"PUBLISH", "PUBACK", "PUBREC", "PUBREL", "PUBCOMP"}
  PROVE  /\ Packet(kind, n) \in Of(m) <=> n = m
         /\ \A k : Packet(kind, n) \in {Packet(k, m)} => n = m /\ kind = k
BY DEF Packet, Of

\* The types of the wires.
LEMMA WiresOf ==
  ASSUME AnswersAreTrue
  PROVE  /\ to_server \in Seq(ToServer) /\ to_client \in Seq(ToClient)
         /\ \A m \in Messages : got[m] \in Nat
<1>1. to_server \in Seq(ToServer)
  <2>1. {p \in ToServer : Truthful(p)} \subseteq ToServer
    OBVIOUS
  <2>2. to_server \in Seq({p \in ToServer : Truthful(p)})
    BY DEF AnswersAreTrue
  <2> QED BY <2>1, <2>2, SeqMonotone
<1>2. to_client \in Seq(ToClient)
  <2>1. {p \in ToClient : Truthful(p)} \subseteq ToClient
    OBVIOUS
  <2>2. to_client \in Seq({p \in ToClient : Truthful(p)})
    BY DEF AnswersAreTrue
  <2> QED BY <2>1, <2>2, SeqMonotone
<1> QED BY <1>1, <1>2 DEF AnswersAreTrue

\* What UnderWay sees.
LEMMA UnderWayOf ==
  ASSUME AnswersAreTrue, NEW m
  PROVE  UnderWay(m) <=> ~None(to_server, Of(m)) \/ ~None(to_client, Of(m))
<1>1. \A w \in {to_server, to_client} : \A i \in DOMAIN w : w[i] \in Of(m) <=> w[i].m = m
  <2>1. \A i \in DOMAIN to_server : to_server[i] \in ToServer
    BY WiresOf
  <2>2. \A i \in DOMAIN to_client : to_client[i] \in ToClient
    BY WiresOf
  <2>3. \A p \in ToServer \cup ToClient : p \in Of(m) <=> p.m = m
    BY DEF ToServer, ToClient, Of
  <2> QED BY <2>1, <2>2, <2>3
<1> QED BY <1>1 DEF UnderWay, None

\* The packets of m are the same in the wire w as in the wire v.
Kept(v, w, m) ==
  /\ None(w, Of(m)) <=> None(v, Of(m))
  /\ One(v, Of(m)) => One(w, Of(m))
  /\ \A k \in {"PUBLISH", "PUBCOMP"} :
       /\ None(w, {Packet(k, m)}) <=> None(v, {Packet(k, m)})
       /\ One(v, {Packet(k, m)}) => One(w, {Packet(k, m)})

\* A wire that does not change, ...
LEMMA KeptSame == \A v, m : Kept(v, v, m)
BY DEF Kept

\* ... that gets a packet of another message, ...
LEMMA KeptAppend ==
  ASSUME NEW D, NEW v \in Seq(D), NEW m, NEW n, n # m,
         NEW kind \in {"PUBLISH", "PUBACK", "PUBREC", "PUBREL", "PUBCOMP"}
  PROVE  Kept(v, Append(v, Packet(kind, n)), m)
<1>1. Packet(kind, n) \notin Of(m) /\ \A k : Packet(kind, n) \notin {Packet(k, m)}
  BY PacketsOf
<1> QED BY <1>1, AppendFacts DEF Kept

\* ... or that loses one of another message.
LEMMA KeptTail ==
  ASSUME NEW D, NEW v \in Seq(D), v # <<>>, NEW m, NEW n, n # m,
         NEW kind \in {"PUBLISH", "PUBACK", "PUBREC", "PUBREL", "PUBCOMP"},
         Head(v) = Packet(kind, n)
  PROVE  Kept(v, Tail(v), m)
<1>1. Packet(kind, n) \notin Of(m) /\ \A k : Packet(kind, n) \notin {Packet(k, m)}
  BY PacketsOf
<1> QED BY <1>1, TailFacts DEF Kept

\* What OnceOnly says of one message.
ThisOnce(m) == (m \in Out => OutOnce(m)) /\ (m \in In => InOnce(m))

\* A step in which another message takes part.
LEMMA Untouched ==
  ASSUME NEW m, ThisOnce(m),
         Kept(to_server, to_server', m), Kept(to_client, to_client', m),
         got'[m] = got[m], m \in unreleased => m \in unreleased',
         m \in Out => request'[m] = request[m], m \in In => sent'[m] = sent[m]
  PROVE  ThisOnce(m)'
<1>1. m \in Out => OutOnce(m)'
  BY DEF ThisOnce, OutOnce, Kept
<1>2. m \in In => InOnce(m)'
  BY DEF ThisOnce, InOnce, Kept
<1> QED BY <1>1, <1>2 DEF ThisOnce

\* s_publish_send, of the first packet of a message or of one that is not too early.
LEMMA SendOnce ==
  ASSUME AnswersAreTrue, OnceOnly, NEW n \in Out, PublishSend(n),
         UNCHANGED <<to_client, got, unreleased, sent>>,
         NEW m \in Messages, ThisOnce(m),
         m = n => /\ None(to_server, Of(m)) /\ None(to_client, Of(m))
                  /\ request[m] \in {"none", "scheduled", "ongoing"}
  PROVE  ThisOnce(m)'
<1>1. /\ to_server \in Seq(ToServer)
      /\ to_server' = to_server \/ to_server' = Append(to_server, Packet("PUBLISH", n))
      /\ n # m /\ m \in Out => request'[m] = request[m]
  BY WiresOf DEF PublishSend, OnceOnly
<1>2. CASE m # n
  <2>1. Kept(to_server, to_server', m) /\ Kept(to_client, to_client', m)
    BY <1>1, <1>2, KeptSame, KeptAppend, Zenon
  <2> QED BY <1>1, <1>2, <2>1, Untouched
<1>3. CASE m = n
  <2>1. m \in Out /\ m \notin In /\ OutOnce(m)
    BY <1>3, QosAssumption DEF ThisOnce
  <2>2. /\ request' \in {[request EXCEPT ![m] = "ongoing"], [request EXCEPT ![m] = "released"]}
        /\ to_server' = to_server \/ request' = [request EXCEPT ![m] = "ongoing"]
    BY <1>3 DEF PublishSend
  <2>3. request'[m] \in {"ongoing", "released"} /\ (to_server' = to_server \/ request'[m] = "ongoing")
    BY <2>1, <2>2 DEF OnceOnly
  <2>4. None(to_client, {Packet("PUBCOMP", m)})
    BY <1>3, NoneIsSmaller, PacketsOf
  <2>5. One(to_server', Of(m)) /\ (to_server' = to_server => None(to_server', Of(m)))
    <3>1. None(to_server, Of(m)) /\ One(to_server, Of(m))
      BY <1>3, <2>1 DEF OutOnce
    <3>2. One(Append(to_server, Packet("PUBLISH", n)), Of(m))
      BY <1>1, <3>1, AppendFacts
    <3> QED BY <1>1, <3>1, <3>2, Zenon
  <2>6. OutOnce(m)'
    BY <1>3, <2>1, <2>3, <2>4, <2>5 DEF OutOnce
  <2> QED BY <2>1, <2>6 DEF ThisOnce
<1> QED BY <1>2, <1>3

\* A request that ends, or that waits for a connection.
LEMMA ReleaseOnce ==
  ASSUME OnceOnly, NEW n \in Out,
         \/ Release(n)
         \/ Publish(n) /\ ~up,
         NEW m \in Messages, ThisOnce(m)
  PROVE  ThisOnce(m)'
<1>1. /\ UNCHANGED <<to_server, to_client, got, unreleased, sent>>
      /\ \/ request[n] = "completed" /\ request' = [request EXCEPT ![n] = "released"]
         \/ request[n] = "none" /\ request' = [request EXCEPT ![n] = "offline"]
  BY DEF Release, Publish, wire
<1>2. m \in Out => \/ request'[m] = request[m]
                   \/ request[m] = "completed" /\ request'[m] = "released"
                   \/ request[m] = "none" /\ request'[m] = "offline"
  BY <1>1 DEF OnceOnly
<1>3. m \in Out => OutOnce(m)'
  BY <1>1, <1>2 DEF ThisOnce, OutOnce
<1>4. m \in In => InOnce(m)'
  BY <1>1 DEF ThisOnce, InOnce
<1> QED BY <1>3, <1>4 DEF ThisOnce

\* What the handlers of the client have in common: a packet of n is taken from
\* one wire, and one of n may be put on the other.
LEMMA ReceivedKeeps ==
  ASSUME AnswersAreTrue, NEW n, NEW m, m # n,
         NEW kind \in {"PUBLISH", "PUBACK", "PUBREC", "PUBREL", "PUBCOMP"}, Received(kind, n),
         \/ to_server' = to_server
         \/ \E k \in {"PUBLISH", "PUBACK", "PUBREC", "PUBREL", "PUBCOMP"} :
              to_server' = Append(to_server, Packet(k, n))
  PROVE  Kept(to_server, to_server', m) /\ Kept(to_client, to_client', m)
<1>1. /\ to_client \in Seq(ToClient) /\ to_client # <<>>
      /\ Head(to_client) = Packet(kind, n) /\ to_client' = Tail(to_client)
      /\ to_server \in Seq(ToServer)
  BY WiresOf DEF Received
<1>2. Kept(to_client, to_client', m)
  BY <1>1, KeptTail, Zenon
<1>3. Kept(to_server, to_server', m)
  BY <1>1, KeptSame, KeptAppend, Zenon
<1> QED BY <1>2, <1>3

\* An answer comes for an outgoing message of which nothing else is under way.
LEMMA AnswerIsAlone ==
  ASSUME AnswersAreTrue, NEW m, OutOnce(m),
         NEW kind \in {"PUBACK", "PUBREC", "PUBCOMP"}, Received(kind, m)
  PROVE  /\ None(to_server, Of(m)) /\ One(to_server, Of(m)) /\ None(to_client', Of(m))
         /\ One(to_client', Of(m)) /\ request[m] = "ongoing"
         /\ kind # "PUBCOMP" => None(to_client, {Packet("PUBCOMP", m)})
<1>1. /\ to_client \in Seq(ToClient) /\ to_client # <<>>
      /\ Head(to_client) = Packet(kind, m) /\ to_client' = Tail(to_client)
  BY WiresOf DEF Received
<1>2. Packet(kind, m) \in Of(m) /\ Packet("PUBCOMP", m) \in Of(m)
  BY PacketsOf
<1>3. Head(to_client) \in Of(m) /\ (kind # "PUBCOMP" => Head(to_client) # Packet("PUBCOMP", m))
  BY <1>1, <1>2 DEF Packet
<1>4. One(to_client, Of(m)) /\ One(to_server, Of(m))
  BY DEF OutOnce
<1>5. /\ ~None(to_client, Of(m)) /\ None(to_client', Of(m)) /\ One(to_client', Of(m))
      /\ kind # "PUBCOMP" => None(to_client, {Packet("PUBCOMP", m)})
  BY <1>1, <1>2, <1>3, <1>4, TailFacts
<1> QED BY <1>4, <1>5 DEF OutOnce

\* A PUBACK or a PUBCOMP ends the request.
LEMMA AckOnce ==
  ASSUME AnswersAreTrue, OnceOnly, NEW n \in Out, HandleAck(n),
         NEW m \in Messages, ThisOnce(m)
  PROVE  ThisOnce(m)'
<1>0. PICK kind \in {"PUBACK", "PUBCOMP"} : Received(kind, n)
  BY DEF HandleAck
<1>1. /\ UNCHANGED <<to_server, got, unreleased, sent>>
      /\ m # n /\ m \in Out => request'[m] = request[m]
      /\ request[n] = "ongoing" => request'[n] = "completed"
  BY DEF HandleAck, OnceOnly
<1>2. CASE m # n
  <2>1. Kept(to_server, to_server', m) /\ Kept(to_client, to_client', m)
    BY <1>0, <1>1, <1>2, ReceivedKeeps
  <2> QED BY <1>1, <1>2, <2>1, Untouched
<1>3. CASE m = n
  <2>1. m \in Out /\ m \notin In /\ OutOnce(m)
    BY <1>3, QosAssumption DEF ThisOnce
  <2>2. /\ None(to_server, Of(m)) /\ One(to_server, Of(m)) /\ None(to_client', Of(m))
        /\ One(to_client', Of(m)) /\ request[m] = "ongoing"
    BY <1>0, <1>3, <2>1, AnswerIsAlone, Zenon
  <2>3. OutOnce(m)'
    BY <1>1, <1>3, <2>1, <2>2 DEF OutOnce
  <2> QED BY <2>1, <2>3 DEF ThisOnce
<1> QED BY <1>2, <1>3

\* A PUBREC is answered by PUBREL.
LEMMA PubrecOnce ==
  ASSUME AnswersAreTrue, NEW n \in Out, HandlePubrec(n), NEW m \in Messages, ThisOnce(m)
  PROVE  ThisOnce(m)'
<1>1. /\ UNCHANGED <<got, unreleased, sent, request>> /\ Received("PUBREC", n)
      /\ to_server' = to_server \/ to_server' = Append(to_server, Packet("PUBREL", n))
      /\ to_server \in Seq(ToServer)
  BY WiresOf DEF HandlePubrec, Answer
<1>2. CASE m # n
  <2>1. Kept(to_server, to_server', m) /\ Kept(to_client, to_client', m)
    BY <1>1, <1>2, ReceivedKeeps
  <2> QED BY <1>1, <1>2, <2>1, Untouched
<1>3. CASE m = n
  <2>1. m \in Out /\ m \notin In /\ OutOnce(m)
    BY <1>3, QosAssumption DEF ThisOnce
  <2>2. /\ None(to_server, Of(m)) /\ One(to_server, Of(m)) /\ None(to_client', Of(m))
        /\ One(to_client', Of(m)) /\ request[m] = "ongoing"
        /\ None(to_client, {Packet("PUBCOMP", m)})
    BY <1>1, <1>3, <2>1, AnswerIsAlone
  <2>3. One(to_server', Of(m))
    <3>1. One(Append(to_server, Packet("PUBREL", n)), Of(m))
      BY <1>1, <2>2, AppendFacts
    <3> QED BY <1>1, <2>2, <3>1, Zenon
  <2>4. OutOnce(m)'
    BY <1>1, <2>1, <2>2, <2>3 DEF OutOnce
  <2> QED BY <2>1, <2>4 DEF ThisOnce
<1> QED BY <1>2, <1>3

\* An incoming PUBLISH or PUBREL.
LEMMA IncomingOnce ==
  ASSUME AnswersAreTrue, NEW n \in In, HandlePublish(n) \/ HandlePubrel(n),
         NEW m \in Messages, ThisOnce(m)
  PROVE  ThisOnce(m)'
<1>0. PICK kind \in {"PUBLISH", "PUBREL"} :
        /\ Received(kind, n)
        /\ got' = got \/ (kind = "PUBLISH" /\ got' = [got EXCEPT ![n] = Once(@)])
  BY DEF HandlePublish, HandlePubrel
<1>1. /\ UNCHANGED <<unreleased, sent, request>>
      /\ \/ to_server' = to_server
         \/ \E k \in {"PUBACK", "PUBREC", "PUBCOMP"} : to_server' = Append(to_server, Packet(k, n))
  BY DEF HandlePublish, HandlePubrel, Answer
<1>2. CASE m # n
  <2>1. Kept(to_server, to_server', m) /\ Kept(to_client, to_client', m)
    BY <1>0, <1>1, <1>2, ReceivedKeeps
  <2>2. got'[m] = got[m]
    BY <1>0, <1>2 DEF AnswersAreTrue
  <2> QED BY <1>1, <1>2, <2>1, <2>2, Untouched
<1>3. CASE m = n
  <2> DEFINE P == {Packet("PUBLISH", m)}
  <2>1. m \in In /\ m \notin Out /\ InOnce(m)
    BY <1>3, QosAssumption DEF ThisOnce
  <2>2. /\ to_client \in Seq(ToClient) /\ to_client # <<>>
        /\ Head(to_client) = Packet(kind, m) /\ to_client' = Tail(to_client)
    BY <1>0, <1>3, WiresOf DEF Received
  <2>3. One(to_client, P)
    BY <2>1 DEF InOnce
  <2>4. /\ One(to_client', P)
        /\ None(to_client, P) => None(to_client', P)
        /\ kind = "PUBLISH" => ~None(to_client, P) /\ None(to_client', P)
    <3> HIDE DEF P
    <3>1. kind = "PUBLISH" => Head(to_client) \in P
      BY <2>2 DEF P
    <3> QED BY <2>2, <2>3, <3>1, TailFacts
  <2>5. /\ got'[m] = got[m] \/ (kind = "PUBLISH" /\ got'[m] = Once(got[m]))
        /\ got[m] \in Nat
    BY <1>0, <1>3 DEF AnswersAreTrue
  <2>6. InOnce(m)'
    BY <1>1, <2>1, <2>4, <2>5 DEF InOnce, Once
  <2> QED BY <2>1, <2>6 DEF ThisOnce
<1> QED BY <1>2, <1>3

\* The end of a channel empties the wires.
LEMMA HangupOnce ==
  ASSUME OnceOnly, Hangup, NEW m \in Messages, ThisOnce(m)
  PROVE  ThisOnce(m)'
<1>1. /\ to_server' = <<>> /\ to_client' = <<>> /\ UNCHANGED <<got, unreleased, sent>>
      /\ m \in Out => request'[m] = IF request[m] \in {"scheduled", "ongoing", "completed"}
                                    THEN "cancelled" ELSE request[m]
  BY DEF Hangup
<1>2. \A T : None(to_server', T) /\ One(to_server', T) /\ None(to_client', T) /\ One(to_client', T)
  BY <1>1, EmptyFacts
<1>3. ASSUME m \in Out PROVE OutOnce(m)'
  <2>1. OutOnce(m)
    BY <1>3 DEF ThisOnce
  <2>2. request[m] = "ongoing" \/ None(to_client, {Packet("PUBCOMP", m)})
    BY <2>1, NoneIsSmaller, PacketsOf DEF OutOnce
  <2> QED BY <1>1, <1>2, <1>3, <2>1, <2>2 DEF OutOnce
<1>4. m \in In => InOnce(m)'
  BY <1>1, <1>2 DEF ThisOnce, InOnce
<1> QED BY <1>3, <1>4 DEF ThisOnce

\* A new channel: what is sent again is noted in again.
LEMMA ConnackOnce ==
  ASSUME OnceOnly, Connack, NEW m \in Messages, m \notin again', ThisOnce(m)
  PROVE  ThisOnce(m)'
<1> DEFINE S == {Packet(IF sent[n] = "sent" THEN "PUBLISH" ELSE "PUBREL", n) :
                   n \in {n \in In : sent[n] \in {"sent", "received"}}}
<1>1. /\ to_client' \in Resent(sent) /\ to_server = <<>> /\ to_client = <<>>
      /\ UNCHANGED <<to_server, got, unreleased, sent>>
      /\ m \in Out => request'[m] = IF request[m] = "offline" THEN "scheduled" ELSE request[m]
      /\ m \in In => sent[m] # "sent"
  BY Zenon DEF Connack, Resent, OnceOnly
<1>2. \A i \in DOMAIN to_client' : to_client'[i] \in S
  <2>1. to_client' \in Seq(S)
    BY <1>1, ResentType
  <2> HIDE DEF S
  <2> QED BY <2>1
<1>3. \A T : /\ None(to_server', T) /\ One(to_server', T)
             /\ None(to_client, T) /\ One(to_client, T)
  BY <1>1, EmptyFacts
<1>4. ASSUME m \in Out PROVE OutOnce(m)'
  <2>1. \A p \in S : p \notin Of(m) /\ p # Packet("PUBCOMP", m)
    BY <1>4, QosAssumption DEF Packet, Of
  <2>2. None(to_client', Of(m)) /\ One(to_client', Of(m))
    <3> HIDE DEF S
    <3> QED BY <1>2, <2>1 DEF None, One
  <2> QED BY <1>1, <1>3, <1>4, <2>2 DEF ThisOnce, OutOnce
<1>5. ASSUME m \in In PROVE InOnce(m)'
  <2>1. \A p \in S : p \notin {Packet("PUBLISH", m)}
    BY <1>1, <1>5 DEF Packet
  <2>2. None(to_client', {Packet("PUBLISH", m)}) /\ One(to_client', {Packet("PUBLISH", m)})
    <3> HIDE DEF S
    <3> QED BY <1>2, <2>1 DEF None, One
  <2> QED BY <1>1, <1>5, <2>2 DEF ThisOnce, InOnce
<1> QED BY <1>4, <1>5 DEF ThisOnce

\* The server sends a message for the first time.
LEMMA ServerPublishesOnce ==
  ASSUME AnswersAreTrue, NEW n \in In, ServerPublishes(n), NEW m \in Messages, ThisOnce(m)
  PROVE  ThisOnce(m)'
<1>1. /\ to_client \in Seq(ToClient) /\ to_client' = Append(to_client, Packet("PUBLISH", n))
      /\ UNCHANGED <<to_server, got, unreleased, request>>
      /\ sent[n] = "new" /\ sent' = [sent EXCEPT ![n] = "sent"]
      /\ sent \in [In -> {"new", "sent", "received", "done"}]
  BY WiresOf DEF ServerPublishes, AnswersAreTrue
<1>2. CASE m # n
  <2>1. Kept(to_server, to_server', m) /\ Kept(to_client, to_client', m)
    BY <1>1, <1>2, KeptSame, KeptAppend
  <2> QED BY <1>1, <1>2, <2>1, Untouched
<1>3. CASE m = n
  <2>1. m \in In /\ m \notin Out /\ InOnce(m)
    BY <1>3, QosAssumption DEF ThisOnce
  <2>2. None(to_client, {Packet("PUBLISH", m)}) /\ got[m] = 0 /\ sent'[m] = "sent"
    BY <1>1, <1>3, <2>1 DEF InOnce
  <2>3. One(to_client', {Packet("PUBLISH", m)})
    BY <1>1, <2>2, AppendFacts
  <2>4. InOnce(m)'
    BY <1>1, <2>2, <2>3 DEF InOnce
  <2> QED BY <2>1, <2>4 DEF ThisOnce
<1> QED BY <1>2, <1>3

\* What the server puts on the wire.
LEMMA ReplyAppends ==
  ASSUME NEW p \in ToServer, NEW w \in Seq(ToClient)
  PROVE  /\ p.kind = "PUBLISH" => w \o Reply(p) = Append(w, Packet(IF p.m \in exact THEN "PUBREC" ELSE "PUBACK", p.m))
         /\ p.kind = "PUBREL" => w \o Reply(p) = Append(w, Packet("PUBCOMP", p.m))
         /\ p.kind = "PUBREC" => w \o Reply(p) = Append(w, Packet("PUBREL", p.m))
         /\ p.kind \in {"PUBACK", "PUBCOMP"} => w \o Reply(p) = w
<1>1. \A q : w \o <<q>> = Append(w, q)
  OBVIOUS
<1>2. w \o <<>> = w
  OBVIOUS
<1> QED BY <1>1, <1>2 DEF Reply

\* The server takes a packet: it gives on only a message that it does not hold.
LEMMA ServerHandlesOnce ==
  ASSUME AnswersAreTrue, ServerHandles, NEW m \in Messages, m \in exact, ThisOnce(m)
  PROVE  ThisOnce(m)'
<1> DEFINE p == Head(to_server)
           Kinds == {"PUBLISH", "PUBACK", "PUBREC", "PUBREL", "PUBCOMP"}
<1>1. /\ to_server \in Seq(ToServer) /\ to_client \in Seq(ToClient)
      /\ to_server # <<>> /\ got[m] \in Nat
  BY WiresOf DEF ServerHandles
<1>2. /\ p \in ToServer /\ p.kind \in Kinds /\ p = Packet(p.kind, p.m)
      /\ p.kind \in {"PUBLISH", "PUBREL"} <=> p.m \in Out
      /\ p.kind \in {"PUBACK", "PUBREC", "PUBCOMP"} <=> p.m \in In
  <2>1. p \in ToServer
    BY <1>1, TailAndHead
  <2> HIDE DEF p
  <2> QED BY <2>1, QosAssumption DEF ToServer, Packet
<1>3. /\ to_client' = to_client \o Reply(p) /\ to_server' = Tail(to_server)
      /\ got' = IF p.kind = "PUBLISH" /\ p.m \notin unreleased
                THEN [got EXCEPT ![p.m] = Once(@)] ELSE got
      /\ unreleased' = CASE p.kind = "PUBLISH" /\ p.m \in exact -> unreleased \cup {p.m}
                         [] p.kind = "PUBREL"                   -> unreleased \ {p.m}
                         [] OTHER                               -> unreleased
      /\ sent' \in {sent, [sent EXCEPT ![p.m] = "done"], [sent EXCEPT ![p.m] = "received"]}
      /\ UNCHANGED request
  BY DEF ServerHandles
<1>4. Head(to_server) = p
  OBVIOUS
<1> HIDE DEF p
<1>5. got \in [Messages -> Nat] /\ sent \in [In -> {"new", "sent", "received", "done"}]
  BY DEF AnswersAreTrue
<1>6. CASE m # p.m
  <2>1. Kept(to_server, to_server', m)
    BY <1>1, <1>2, <1>3, <1>4, <1>6, KeptTail, Zenon
  <2>2. Kept(to_client, to_client', m)
    <3>1. \/ to_client' = to_client
          \/ \E k \in Kinds : to_client' = Append(to_client, Packet(k, p.m))
      BY <1>1, <1>2, <1>3, ReplyAppends
    <3> QED BY <1>1, <1>6, <3>1, KeptSame, KeptAppend, Zenon
  <2>3. /\ got'[m] = got[m] /\ (m \in unreleased => m \in unreleased')
        /\ m \in In => sent'[m] = sent[m]
    BY <1>3, <1>5, <1>6
  <2> QED BY <1>3, <2>1, <2>2, <2>3, Untouched
<1>7. CASE m = p.m /\ m \in Out
  <2>1. m \notin In /\ OutOnce(m)
    BY <1>7, QosAssumption DEF ThisOnce
  <2>2. p \in Of(m)
    BY <1>2, <1>7, PacketsOf
  <2>3. One(to_server, Of(m))
    BY <2>1 DEF OutOnce
  <2>4. ~None(to_server, Of(m)) /\ None(to_server', Of(m)) /\ One(to_server', Of(m))
    BY <1>1, <1>3, <1>4, <2>2, <2>3, TailFacts
  <2>5. /\ None(to_client, Of(m)) /\ request[m] = "ongoing" /\ request'[m] = "ongoing"
        /\ got[m] = 0 \/ m \in unreleased
    <3>1. None(to_client, Of(m)) /\ request[m] = "ongoing"
      BY <2>1, <2>4 DEF OutOnce
    <3>2. None(to_client, {Packet("PUBCOMP", m)})
      BY <3>1, NoneIsSmaller, PacketsOf
    <3> QED BY <1>3, <2>1, <3>1, <3>2 DEF OutOnce
  <2>6. PICK k \in {"PUBREC", "PUBCOMP"} :
           /\ to_client' = Append(to_client, Packet(k, m))
           /\ p.kind = "PUBREL" => k = "PUBCOMP"
    BY <1>1, <1>2, <1>3, <1>7, ReplyAppends
  <2>7. One(to_client', Of(m))
    BY <1>1, <2>5, <2>6, AppendFacts
  <2>8. k = "PUBCOMP" => ~None(to_client', {Packet("PUBCOMP", m)})
    BY <1>1, <2>6, AppendFacts
  <2>9. got'[m] <= 1 /\ (m \in unreleased' \/ p.kind = "PUBREL")
    <3>1. CASE p.kind = "PUBLISH"
      BY <1>3, <1>5, <1>7, <2>1, <2>5, <3>1 DEF OutOnce, Once
    <3>2. CASE p.kind = "PUBREL"
      BY <1>3, <1>7, <2>1, <3>2 DEF OutOnce
    <3> QED BY <1>2, <1>7, <3>1, <3>2
  <2>10. OutOnce(m)'
    BY <2>4, <2>5, <2>6, <2>7, <2>8, <2>9 DEF OutOnce
  <2> QED BY <2>1, <2>10 DEF ThisOnce
<1>8. CASE m = p.m /\ m \in In
  <2> DEFINE P == {Packet("PUBLISH", m)}
  <2>1. m \notin Out /\ InOnce(m) /\ p.kind \in {"PUBACK", "PUBREC", "PUBCOMP"}
    BY <1>2, <1>8, QosAssumption DEF ThisOnce
  <2>2. to_client' = to_client \/ to_client' = Append(to_client, Packet("PUBREL", m))
    BY <1>1, <1>2, <1>3, <1>8, <2>1, ReplyAppends, Zenon
  <2>3. Packet("PUBREL", m) \notin P
    BY DEF Packet
  <2>4. (None(to_client, P) => None(to_client', P)) /\ (One(to_client, P) => One(to_client', P))
    <3> HIDE DEF P
    <3>1. /\ None(to_client, P) => None(Append(to_client, Packet("PUBREL", m)), P)
          /\ One(to_client, P) => One(Append(to_client, Packet("PUBREL", m)), P)
      BY <1>1, <2>3, AppendFacts
    <3> QED BY <2>2, <3>1, Zenon
  <2>5. got' = got /\ (sent'[m] = "new" => sent[m] = "new")
    BY <1>3, <1>5, <1>8, <2>1
  <2>6. InOnce(m)'
    BY <2>1, <2>4, <2>5 DEF InOnce
  <2> QED BY <2>1, <2>6 DEF ThisOnce
<1> QED BY <1>6, <1>7, <1>8 DEF Messages

\* Every step keeps OnceOnly ...
LEMMA OnceNext ==
  ASSUME AnswersAreTrue, OnceOnly, [Next]_vars
  PROVE  OnceOnly'
<1> DEFINE Requests == {"none", "offline", "scheduled", "ongoing", "completed", "cancelled", "released"}
<1>1. exact' = exact /\ again \subseteq again'
  BY DEF Next, Client, vars, given, Publish, FirstSend, Resend, Release, HandleAck, HandlePubrec,
         HandlePublish, HandlePubrel, Connack, Hangup, ServerPublishes, ServerHandles
<1>2. request' \in [Out -> Requests]
  <2>0. request \in [Out -> Requests]
    BY DEF OnceOnly
  <2>1. ASSUME NEW n \in Out, Publish(n) \/ FirstSend(n) \/ Resend(n) PROVE request' \in [Out -> Requests]
    <3>1. \E r \in {"offline", "ongoing", "released"} : request' = [request EXCEPT ![n] = r]
      BY <2>1 DEF Publish, FirstSend, Resend, PublishSend
    <3> QED BY <2>0, <3>1
  <2>2. ASSUME NEW n \in Out, Release(n) \/ HandleAck(n) PROVE request' \in [Out -> Requests]
    BY <2>0, <2>2 DEF Release, HandleAck
  <2>3. CASE Connack \/ Hangup
    BY <2>0, <2>3 DEF Connack, Hangup
  <2>4. CASE \/ \E n \in Out : HandlePubrec(n)
             \/ \E n \in In : HandlePublish(n) \/ HandlePubrel(n) \/ ServerPublishes(n)
             \/ ServerHandles \/ UNCHANGED vars
    BY <2>0, <2>4 DEF HandlePubrec, HandlePublish, HandlePubrel, ServerPublishes, ServerHandles, vars
  <2> QED BY <2>1, <2>2, <2>3, <2>4 DEF Next, Client
<1>3. up' \/ (to_server' = <<>> /\ to_client' = <<>>)
  <2>1. CASE up /\ up' = up
    BY <2>1
  <2>2. CASE UNCHANGED <<up, to_server, to_client>>
    BY <2>2 DEF OnceOnly
  <2>3. CASE Connack \/ Hangup
    BY <2>3 DEF Connack, Hangup
  <2>4. \/ up /\ up' = up
        \/ UNCHANGED <<up, to_server, to_client>>
        \/ Connack \/ Hangup
    BY DEF Next, Client, vars, wire, Publish, FirstSend, Resend, Release, HandleAck, HandlePubrec,
           HandlePublish, HandlePubrel, Received, ServerPublishes, ServerHandles
  <2> QED BY <2>1, <2>2, <2>3, <2>4
<1>4. ASSUME NEW m \in exact, m \notin again' PROVE ThisOnce(m)'
  <2>0. m \in Messages /\ m \notin again /\ ThisOnce(m)
    BY <1>1, <1>4 DEF OnceOnly, ThisOnce
  <2>1. ASSUME NEW n \in Out, (Publish(n) /\ up) \/ FirstSend(n) \/ Resend(n) PROVE ThisOnce(m)'
    <3>1. PublishSend(n) /\ UNCHANGED <<to_client, got, unreleased, sent>>
      BY <2>1 DEF Publish, FirstSend, Resend
    <3>2. ASSUME m = n
          PROVE  /\ None(to_server, Of(m)) /\ None(to_client, Of(m))
                 /\ request[m] \in {"none", "scheduled", "ongoing"}
      <4>1. CASE request[n] \in {"none", "scheduled"}
        BY <2>0, <3>2, <4>1 DEF ThisOnce, OutOnce
      <4>2. CASE Resend(n)
        <5>1. ~UnderWay(m) /\ request[m] = "ongoing"
          BY <1>4, <3>2, <4>2 DEF Resend
        <5> QED BY <5>1, UnderWayOf
      <4> QED BY <2>1, <4>1, <4>2 DEF Publish, FirstSend
    <3> QED BY <2>0, <3>1, <3>2, SendOnce
  <2>2. ASSUME NEW n \in Out, (Publish(n) /\ ~up) \/ Release(n) PROVE ThisOnce(m)'
    BY <2>0, <2>2, ReleaseOnce
  <2>3. ASSUME NEW n \in Out, HandleAck(n) \/ HandlePubrec(n) PROVE ThisOnce(m)'
    BY <2>0, <2>3, AckOnce, PubrecOnce
  <2>4. ASSUME NEW n \in In, HandlePublish(n) \/ HandlePubrel(n) PROVE ThisOnce(m)'
    BY <2>0, <2>4, IncomingOnce
  <2>5. CASE Connack
    BY <1>4, <2>0, <2>5, ConnackOnce
  <2>6. CASE Hangup
    BY <2>0, <2>6, HangupOnce
  <2>7. ASSUME NEW n \in In, ServerPublishes(n) PROVE ThisOnce(m)'
    BY <2>0, <2>7, ServerPublishesOnce
  <2>8. CASE ServerHandles
    BY <1>4, <2>0, <2>8, ServerHandlesOnce
  <2>9. CASE UNCHANGED vars
    BY <2>0, <2>9, KeptSame, Untouched DEF vars, wire
  <2> QED BY <2>1, <2>2, <2>3, <2>4, <2>5, <2>6, <2>7, <2>8, <2>9 DEF Next, Client
<1> QED BY <1>1, <1>2, <1>3, <1>4 DEF OnceOnly, ThisOnce, Messages

\* ... which holds at the start.
LEMMA OnceInit ==
  ASSUME Init
  PROVE  OnceOnly
<1>1. \A m \in Out : OutOnce(m)
  BY EmptyFacts DEF Init, OutOnce, Messages
<1>2. \A m \in In : InOnce(m)
  BY EmptyFacts DEF Init, InOnce, Messages
<1> QED BY <1>1, <1>2 DEF Init, OnceOnly

\* A message of QoS 2 is given to the program at the other end at most once, for
\* any number of messages and of channels and with answers that are not sent,
\* unless its PUBLISH was sent again while the first exchange was under way.
THEOREM AtMostOnceHolds == Spec => []AtMostOnce
<1>1. AnswersAreTrue /\ OnceOnly /\ [Next]_vars => (AnswersAreTrue /\ OnceOnly)'
  BY TrueNext, OnceNext
<1>2. OnceOnly => AtMostOnce
  BY Zenon DEF OnceOnly, AtMostOnce, OutOnce, InOnce, Messages
<1> QED BY <1>1, <1>2, TrueInit, OnceInit, PTL DEF Spec
=============================================================================
