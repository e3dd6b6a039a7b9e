---------------------------- MODULE TopicPublish ----------------------------
(***************************************************************************)
(* The dispatch of a PUBLISH to the subscriptions of the tree              *)
(* (aws_mqtt_topic_tree_publish), against what it means that a filter      *)
(* matches a topic.                                                        *)
(***************************************************************************)
EXTENDS TopicTree

CONSTANT Topics  \* the topics published on: sequences of parts, no wildcards

-----------------------------------------------------------------------------
(* Mutants of Deliveries *)

\* The literal part is looked up only where there is no single level wildcard.
DeliveriesFirstOnly(topic) ==
  LET at(p, part) == Append(p, part) \in DOMAIN tree
      recurse[p \in DOMAIN tree \cup {<<>>}] ==
        IF Len(p) = Len(topic)
        THEN IF IsSubscription(p) THEN <<tree[p].user>> ELSE <<>>
        ELSE LET part == topic[Len(p) + 1]
             IN (IF at(p, "#") THEN <<tree[Append(p, "#")].user>> ELSE <<>>)
                \o (IF at(p, "+") THEN recurse[Append(p, "+")]
                    ELSE IF at(p, part) THEN recurse[Append(p, part)] ELSE <<>>)
  IN recurse[<<>>]

-----------------------------------------------------------------------------
\* s_topic_tree_publish_do_recurse: the user data the callbacks are called with,
\* in their order.
Deliveries(topic) ==
  LET at(p, part) == Append(p, part) \in DOMAIN tree
      recurse[p \in DOMAIN tree \cup {<<>>}] ==
        IF Len(p) = Len(topic)
        THEN IF IsSubscription(p) THEN <<tree[p].user>> ELSE <<>>
        ELSE LET part == topic[Len(p) + 1]
             IN (IF at(p, "#") THEN <<tree[Append(p, "#")].user>> ELSE <<>>)
                \o (IF at(p, "+") THEN recurse[Append(p, "+")] ELSE <<>>)
                \o (IF at(p, part) THEN recurse[Append(p, part)] ELSE <<>>)
  IN recurse[<<>>]

\* The parts of f up to the k-th allow those of the topic.
Allows(f, topic, k) == \A j \in 1..k : f[j] \in {topic[j], "+"}

\* f matches the topic, where a final "#" stands for at least one level.
Matches(f, topic) ==
  \/ Len(f) = Len(topic) /\ Allows(f, topic, Len(f))
  \/ f[Len(f)] = "#" /\ Len(f) <= Len(topic) /\ Allows(f, topic, Len(f) - 1)

\* The user data of the subscriptions whose filter matches.
Matching(topic) ==
  { tree[f].user : f \in { f \in DOMAIN tree : IsSubscription(f) /\ Matches(f, topic) } }

\* Whatever was subscribed, unsubscribed and rolled back before, in whatever order,
\* a PUBLISH reaches exactly the subscriptions whose filter matches its topic, each
\* once, where "#" stands for at least one level (topic_tree.c:777-839).
PublishReachesMatches ==
  Ordinary /\ Quiet =>
    \A topic \in Topics :
      LET calls == Deliveries(topic)
      IN /\ { calls[k] : k \in DOMAIN calls } = Matching(topic)
         /\ Len(calls) = Cardinality(Matching(topic))
=============================================================================
