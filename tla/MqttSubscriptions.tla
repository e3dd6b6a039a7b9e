-------------------------- MODULE MqttSubscriptions --------------------------
(***************************************************************************)
(* Subscribing and unsubscribing with the tree of TopicTree:               *)
(* s_subscribe_send adds the filters to the packet and to the tree, sends  *)
(* the packet and commits, and the SUBACK is reported with the filter.     *)
(*                                                                         *)
(* The packet and on_suback use the string and the subscribe_task_topic    *)
(* of each filter, which the tree destroys and hands back to cleanup.  A   *)
(* packet has one filter, as in aws_mqtt_client_connection_subscribe, when *)
(* MaxActions is 1.                                                        *)
(***************************************************************************)
EXTENDS TopicTree

CONSTANT Careful  \* TRUE: the program subscribes only to filters that it has
                  \* not subscribed to, and unsubscribes after the SUBACK only

ASSUME CarefulAssumption == Careful \in BOOLEAN

VARIABLE unacked  \* the filters, by insert, whose on_suback is still to come

svars == <<vars, unacked>>

SInit == Init /\ unacked = {}

\* A filter is added to the packet, and inserted.
SubscribeAdds(f) ==
  /\ Careful => ~IsSubscription(f)
  /\ TransactionInsert(f)
  /\ UNCHANGED unacked

\* The packet is sent, or that fails, and the transaction is committed or rolled
\* back; on_suback comes later, or at once with the error.
SubscribeSends ==
  /\ transaction # <<>> /\ transaction[1].mode # "remove"
  /\ Starts("commit") \/ Starts("roll_back")
  /\ unacked' = unacked \cup {transaction[k].user : k \in DOMAIN transaction}

\* s_unsubscribe_send: one filter is removed.
UnsubscribeRemoves(f) ==
  /\ transaction = <<>>
  /\ TransactionRemove(f)
  /\ Careful => tree[f].user \notin unacked
  /\ UNCHANGED unacked

UnsubscribeSends ==
  /\ transaction # <<>> /\ transaction[1].mode = "remove"
  /\ Starts("commit") \/ Starts("roll_back")
  /\ UNCHANGED unacked

\* s_subscribe_single_complete
Suback(i) ==
  /\ Quiet /\ i \in unacked
  /\ unacked' = unacked \ {i}
  /\ UNCHANGED vars

SNext ==
  \/ \E f \in Filters : SubscribeAdds(f) \/ UnsubscribeRemoves(f)
  \/ SubscribeSends \/ UnsubscribeSends
  \/ (ActionCommit \/ ActionRollBack) /\ UNCHANGED unacked
  \/ \E i \in unacked : Suback(i)

SSpec == SInit /\ [][SNext]_svars

\* The packet that s_subscribe_send is about to encode reads no string that the
\* insert has destroyed.  (topic_tree.c:602, "Free the new topic_filter so all
\* existing byte_cursors remain valid")
PacketCursorsAreValid ==
  phase = "open" => \A k \in DOMAIN transaction : transaction[k].user \notin freed

\* If no send fails, on_suback is given the filter of a subscribe_task_topic that
\* has not been released.  (client.c:753, "The lifetime of this struct is the same
\* as the lifetime of the subscription")
SubackTopicIsLive ==
  made = {} /\ Quiet => unacked \cap (freed \cup cleaned) = {}

\* A careful program that puts no filter twice into a packet.
CarefulCalls == Careful /\ Calls \cap {"repeat", "remove_any"} = {}

\* Why both hold for a careful program: an insert keeps the string that it brings,
\* and if no send fails, the node of a filter whose SUBACK is to come has its string
\* and its subscribe_task_topic, or gets them in the commit, and is not removed.
SubackFit ==
  /\ made \subseteq Calls
  /\ \A k \in Inserts : transaction[k].string = transaction[k].user
  /\ made = {} =>
       /\ \A i \in unacked :
            \/ \E p \in owners : tree[p].user = i /\ tree[p].filter = i
            \/ phase = "commit" /\ \E k \in Inserts : transaction[k].user = i
       /\ \A k \in DOMAIN transaction \ Inserts : tree[transaction[k].node].user \notin unacked
=============================================================================
