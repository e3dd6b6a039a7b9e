-------------------------- MODULE SubscriptionMap --------------------------
(***************************************************************************)
(* What the tree of subscriptions promises: it is a map from filters to    *)
(* the user data of their latest subscription.                             *)
(***************************************************************************)
CONSTANTS Filters, Users

VARIABLE subs

Init == subs = [f \in {} |-> 0]

\* f is subscribed, or its user data replaced.
Subscribe(f, u) ==
  subs' = [g \in DOMAIN subs \cup {f} |-> IF g = f THEN u ELSE subs[g]]

\* f, and nothing else, is unsubscribed.
Unsubscribe(f) ==
  /\ f \in DOMAIN subs
  /\ subs' = [g \in DOMAIN subs \ {f} |-> subs[g]]

\* The tree is cleaned up.
Clear == subs' = [f \in {} |-> 0]

Next ==
  \/ \E f \in Filters : Unsubscribe(f) \/ \E u \in Users : Subscribe(f, u)
  \/ Clear

Spec == Init /\ [][Next]_subs
=============================================================================
