---------------------------- MODULE MCTopicTree ----------------------------
(***************************************************************************)
(* Instances of TopicTree for TLC.                                         *)
(***************************************************************************)
EXTENDS TopicTree

\* Filters below, above and beside one another: they share nodes and one another's
\* strings, and the node a is never a subscription.
SharedFilters == { <<"a", "b">>, <<"a", "b", "c">>, <<"a", "d">> }
=============================================================================
