------------------------ MODULE MCMqttSubscriptions ------------------------
(***************************************************************************)
(* Instances of MqttSubscriptions, with the dispatch of TopicPublish, for  *)
(* TLC.                                                                    *)
(***************************************************************************)
EXTENDS MqttSubscriptions, TopicPublish

\* Filters with and without wildcards that match some of the same topics, and one
\* that is the way to others.
WildFilters == { <<"a">>, <<"a", "b">>, <<"+", "b">>, <<"a", "#">>, <<"#">> }

\* A filter, one above and one beside it.
NestedFilters == { <<"a">>, <<"a", "b">>, <<"a", "c">> }

\* Topics of one to three levels.
AllTopics == UNION { [1..n -> {"a", "b"}] : n \in 1..3 }

NoTopics == {}
NoCalls  == {}
RollBack == {"roll_back"}
=============================================================================
