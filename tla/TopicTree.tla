----------------------------- MODULE TopicTree -----------------------------
(***************************************************************************)
(* The tree of subscriptions (topic_tree.c): transactions of inserts or    *)
(* removes that are committed or rolled back, the strings that the nodes   *)
(* share, and the user data that is handed back.                           *)
(*                                                                         *)
(* A node is named by its path, the parts of the topic from the root.  It  *)
(* points into the string of some filter that passes through it; the node  *)
(* of the filter itself owns the string.  The i-th insert brings string i  *)
(* and user data i.  Allocations do not fail here.                         *)
(***************************************************************************)
EXTENDS Naturals, Sequences, FiniteSets

CONSTANTS
  Filters,    \* the filters inserted and removed: sequences of parts
  MaxInserts, \* bound on the number of inserts
  MaxActions, \* bound on the actions of a transaction
  Calls       \* what the program does besides inserting a filter once per
              \* transaction and removing filters it has inserted

CallNames == {"roll_back", "repeat", "remove_any", "clean_up"}

ASSUME TreeAssumption ==
  /\ \A f \in Filters : f \in Seq(STRING) /\ f # <<>>
  /\ MaxInserts \in Nat
  /\ MaxActions \in Nat
  /\ Calls \subseteq CallNames

VARIABLES
  filter,      \* filter[i] is the content of string i
  tree,        \* the nodes: path -> [filter : string, user : user data or 0]
  owners,      \* the nodes with owns_topic_filter
  transaction, \* the actions of the open transaction
  phase,       \* "open", "commit", "roll_back", or "gone" after the clean up
  freed,       \* the strings that were destroyed
  cleaned,     \* the user data that cleanup was called with
  made,        \* the calls of CallNames made so far
  failed       \* assertions that did not hold, and invalid accesses made

vars == <<filter, tree, owners, transaction, phase, freed, cleaned, made, failed>>

Strings == 1..MaxInserts
Labels  == {"no_node", "stale_node", "no_new_filter", "double_destroy", "double_clean_up"}

\* p is a part of the way from the root to q, or all of it.
Above(p, q) == Len(p) <= Len(q) /\ \A k \in 1..Len(p) : p[k] = q[k]

\* The nodes on the way to f, without the root.
Way(f) == { SubSeq(f, 1, k) : k \in 1..Len(f) }

\* An action that will do: add or update node with string and user, or remove
\* it; first is the first node that was created for it.
Action(mode, node, string, user, first) ==
  [mode |-> mode, node |-> node, string |-> string, user |-> user, first |-> first]

\* aws_mqtt_topic_tree_init
Init ==
  /\ filter = <<>>
  /\ tree = [p \in {} |-> [filter |-> 1, user |-> 0]]
  /\ owners = {}
  /\ transaction = <<>> /\ phase = "open"
  /\ freed = {} /\ cleaned = {} /\ made = {} /\ failed = {}

Restrict(f, S) == [x \in S |-> f[x]]

\* s_topic_node_is_subscription
IsSubscription(p) == p \in DOMAIN tree /\ tree[p].user # 0

\* aws_string_destroy and the cleanup callback, for sets of strings and user data.
Destroy(S, U) ==
  /\ freed' = freed \cup S
  /\ cleaned' = cleaned \cup U
  /\ failed' = failed \cup (IF S \cap freed = {} THEN {} ELSE {"double_destroy"})
                      \cup (IF U \cap cleaned = {} THEN {} ELSE {"double_clean_up"})

\* The program goes on: no assertion has failed, and no node points into a string
\* that was destroyed.
Runs == failed = {} /\ \A p \in DOMAIN tree : tree[p].filter \notin freed

\* The program makes the calls C of CallNames, if it makes them at all.
Makes(C) == C \subseteq Calls /\ made' = made \cup C

-----------------------------------------------------------------------------
(* Transactions *)

\* The open transaction takes another action on f of this kind.
Takes(f, modes) ==
  /\ phase = "open" /\ Runs
  /\ Len(transaction) < MaxActions
  /\ \A k \in DOMAIN transaction : transaction[k].mode \in modes
  /\ Makes((IF \E k \in DOMAIN transaction : transaction[k].node = f THEN {"repeat"} ELSE {})
            \cup (IF "remove" \in modes /\ ~IsSubscription(f) THEN {"remove_any"} ELSE {}))

\* Mutant of TransactionInsert: a string that is not needed is kept.
TransactionInsertKeepsString(f) ==
  LET i   == Len(filter) + 1
      new == Way(f) \ DOMAIN tree
  IN /\ Takes(f, {"add", "update"})
     /\ Len(filter) < MaxInserts
     /\ filter' = Append(filter, f)
     /\ tree' = [p \in DOMAIN tree \cup new |->
                   IF p \in new THEN [filter |-> i, user |-> 0] ELSE tree[p]]
     /\ transaction' = Append(transaction,
          Action(IF new = {} THEN "update" ELSE "add", f, IF f \in owners THEN 0 ELSE i, i,
                 IF new = {} THEN <<>> ELSE CHOOSE p \in new : \A q \in new : Above(p, q)))
     /\ UNCHANGED <<owners, phase, freed, cleaned, failed>>

\* Mutant of TransactionInsert: the string is destroyed when the node exists,
\* although it may have no string of its own.
TransactionInsertFreesFound(f) ==
  LET i   == Len(filter) + 1
      new == Way(f) \ DOMAIN tree
  IN /\ Takes(f, {"add", "update"})
     /\ Len(filter) < MaxInserts
     /\ filter' = Append(filter, f)
     /\ tree' = [p \in DOMAIN tree \cup new |->
                   IF p \in new THEN [filter |-> i, user |-> 0] ELSE tree[p]]
     /\ transaction' = Append(transaction,
          Action(IF new = {} THEN "update" ELSE "add", f, IF new = {} THEN 0 ELSE i, i,
                 IF new = {} THEN <<>> ELSE CHOOSE p \in new : \A q \in new : Above(p, q)))
     /\ freed' = IF new = {} THEN freed \cup {i} ELSE freed
     /\ UNCHANGED <<owners, phase, cleaned, failed>>

\* aws_mqtt_topic_tree_transaction_insert: the missing nodes of the way are
\* created.  The string is destroyed when the node has one already.
TransactionInsert(f) ==
  LET i   == Len(filter) + 1
      new == Way(f) \ DOMAIN tree
  IN /\ Takes(f, {"add", "update"})
     /\ Len(filter) < MaxInserts
     /\ filter' = Append(filter, f)
     /\ tree' = [p \in DOMAIN tree \cup new |->
                   IF p \in new THEN [filter |-> i, user |-> 0] ELSE tree[p]]
     /\ transaction' = Append(transaction,
          Action(IF new = {} THEN "update" ELSE "add", f, IF f \in owners THEN 0 ELSE i, i,
                 IF new = {} THEN <<>> ELSE CHOOSE p \in new : \A q \in new : Above(p, q)))
     /\ freed' = IF f \in owners THEN freed \cup {i} ELSE freed
     /\ UNCHANGED <<owners, phase, cleaned, failed>>

\* aws_mqtt_topic_tree_transaction_remove: the node is looked up.
TransactionRemove(f) ==
  /\ Takes(f, {"remove"})
  /\ transaction' = Append(transaction,
                     Action("remove", IF f \in DOMAIN tree THEN f ELSE <<>>, 0, 0, <<>>))
  /\ UNCHANGED <<filter, tree, owners, phase, freed, cleaned, failed>>

\* aws_mqtt_topic_tree_transaction_commit and _roll_back go through the actions.
Starts(p) ==
  /\ phase = "open" /\ transaction # <<>> /\ Runs
  /\ Makes({p} \cap {"roll_back"})
  /\ phase' = p
  /\ UNCHANGED <<filter, tree, owners, transaction, freed, cleaned, failed>>

\* The action is done; after the last one the transaction is cleared.
Done(rest) ==
  /\ transaction' = rest
  /\ phase' = IF rest = <<>> THEN "open" ELSE phase

-----------------------------------------------------------------------------
(* s_topic_tree_action_commit *)

\* Mutant of CommitInsert: the user data is cleaned up and not replaced.
CommitInsertKeepsUser(a) ==
  /\ a.mode \in {"add", "update"}
  /\ tree' = [tree EXCEPT ![a.node] =
                [filter |-> IF a.string = 0 THEN @.filter ELSE a.string,
                 user   |-> IF @.user = 0 THEN a.user ELSE @.user]]
  /\ owners' = IF a.string = 0 THEN owners ELSE owners \cup {a.node}
  /\ Destroy({}, {tree[a.node].user} \ {0})

\* Mutant of CommitInsert: the new user data is cleaned up.
CommitInsertCleansNew(a) ==
  /\ a.mode \in {"add", "update"}
  /\ tree' = [tree EXCEPT ![a.node] =
                [filter |-> IF a.string = 0 THEN @.filter ELSE a.string, user |-> a.user]]
  /\ owners' = IF a.string = 0 THEN owners ELSE owners \cup {a.node}
  /\ Destroy({}, {a.user})

\* The user data of the node is cleaned up and replaced, and the node gets the
\* string if it has none of its own.
CommitInsert(a) ==
  /\ a.mode \in {"add", "update"}
  /\ tree' = [tree EXCEPT ![a.node] =
                [filter |-> IF a.string = 0 THEN @.filter ELSE a.string, user |-> a.user]]
  /\ owners' = IF a.string = 0 THEN owners ELSE owners \cup {a.node}
  /\ Destroy({}, {tree[a.node].user} \ {0})

\* Mutants of Childless: only the last node is removed; subscriptions without
\* children are removed; nothing is removed.
ChildlessLeaf(n) ==
  { p \in {n} : \A q \in DOMAIN tree : Above(p, q) => q = n }

ChildlessSubscribed(n) ==
  { p \in Way(n) : \A q \in DOMAIN tree : Above(p, q) => q \in Way(n) }

ChildlessNone(n) == { p \in Way(n) : FALSE }

\* The nodes on the way to n that are left without subscription and children when
\* n is unsubscribed.
Childless(n) ==
  { p \in Way(n) : \A q \in DOMAIN tree : Above(p, q) => q \in Way(n) /\ (q = n \/ tree[q].user = 0) }

\* s_topic_node_string_finder: the strings it may find below p, which depends on
\* the order of the hash table: those reached through nodes that use string old.
NextStrings(left, p, old) ==
  { left[q].filter : q \in { q \in DOMAIN left :
      /\ Above(p, q) /\ q # p /\ left[q].filter # old
      /\ \A r \in DOMAIN left : Above(p, r) /\ Above(r, q) /\ r \notin {p, q} => left[r].filter = old } }

\* Mutant of CommitRemove: the nodes above keep the string.
CommitRemoveKeepsStrings(a) ==
  LET gone == Childless(a.node)
  IN /\ a.mode = "remove"
     /\ tree' = Restrict([tree EXCEPT ![a.node].user = 0], DOMAIN tree \ gone)
     /\ Destroy({tree[p].filter : p \in (gone \cup {a.node}) \cap owners}, {tree[a.node].user} \ {0})
     /\ owners' = owners \ (gone \cup {a.node})

\* The node is unsubscribed, the nodes that are of no use any more are removed,
\* and the nodes above that used its string get another one.
CommitRemove(a) ==
  LET n      == a.node
      old    == tree[n].filter
      gone   == Childless(n)
      left   == Restrict([tree EXCEPT ![n].user = 0], DOMAIN tree \ gone)
      mothers == { p \in Way(n) \ gone : left[p].filter = old }
  IN /\ a.mode = "remove"
     /\ \/ /\ mothers = {}
           /\ tree' = left
           /\ Destroy({tree[p].filter : p \in gone \cap owners}, {tree[n].user} \ {0})
           /\ owners' = owners \ gone
        \/ \E p \in mothers :
             /\ \A q \in mothers : Above(q, p)
             /\ \/ \E s \in NextStrings(left, p, old) :
                     /\ tree' = [q \in DOMAIN left |->
                                   IF q \in mothers THEN [left[q] EXCEPT !.filter = s] ELSE left[q]]
                     /\ Destroy({old} \cup {tree[q].filter : q \in (gone \cap owners) \ {n}},
                                {tree[n].user} \ {0})
                     /\ owners' = owners \ (gone \cup {n})
                \/ /\ NextStrings(left, p, old) = {}
                   /\ failed' = failed \cup {"no_new_filter"}
                   /\ UNCHANGED <<tree, owners, freed, cleaned>>

\* An action whose node was not found, or is not there any more.
CommitMissing(a) ==
  /\ failed' = failed \cup {IF a.node = <<>> THEN "no_node" ELSE "stale_node"}
  /\ UNCHANGED <<tree, owners, freed, cleaned>>

\* s_topic_tree_action_commit for the next action.
ActionCommit ==
  /\ phase = "commit" /\ Runs
  /\ LET a == Head(transaction)
     IN IF a.node \in DOMAIN tree THEN CommitInsert(a) \/ CommitRemove(a) ELSE CommitMissing(a)
  /\ Done(Tail(transaction))
  /\ UNCHANGED <<filter, made>>

-----------------------------------------------------------------------------
(* s_topic_tree_action_roll_back and the clean up *)

\* The nodes that were created for an insert are destroyed, and its string is.
ActionRollBack ==
  /\ phase = "roll_back" /\ Runs
  /\ LET a    == transaction[Len(transaction)]
         gone == IF a.mode = "add" THEN {p \in DOMAIN tree : Above(a.first, p)} ELSE {}
     IN /\ tree' = Restrict(tree, DOMAIN tree \ gone)
        /\ owners' = owners \ gone
        /\ Destroy({tree[p].filter : p \in gone \cap owners}
                     \cup (IF a.mode = "add" THEN {a.string} \ {0} ELSE {}),
                   {tree[p].user : p \in gone} \ {0})
  /\ Done(SubSeq(transaction, 1, Len(transaction) - 1))
  /\ UNCHANGED <<filter, made>>

\* aws_mqtt_topic_tree_clean_up: every node is destroyed.
CleanUp ==
  /\ Makes({"clean_up"})
  /\ phase = "open" /\ transaction = <<>> /\ Runs
  /\ phase' = "gone"
  /\ tree' = Restrict(tree, {}) /\ owners' = {}
  /\ Destroy({tree[p].filter : p \in owners}, {tree[p].user : p \in DOMAIN tree} \ {0})
  /\ UNCHANGED <<filter, transaction>>

Next ==
  \/ \E f \in Filters : TransactionInsert(f) \/ TransactionRemove(f)
  \/ Starts("commit") \/ Starts("roll_back")
  \/ ActionCommit \/ ActionRollBack \/ CleanUp

Spec == Init /\ [][Next]_vars

-----------------------------------------------------------------------------
(* Properties *)

\* No transaction is open.
Quiet == phase = "open" /\ transaction = <<>>

\* The program inserts a filter once per transaction, and removes filters that it
\* has subscribed to only.
Ordinary == made \cap {"repeat", "remove_any"} = {}

\* With ordinary calls, the string a node points into has not been destroyed, and
\* passes through the node: otherwise its topic, the key under which its parent
\* holds it, is garbage (topic_tree.c:411-445).
StringsAreUsable ==
  Ordinary =>
    \A p \in DOMAIN tree : tree[p].filter \notin freed /\ Above(p, filter[tree[p].filter])

\* With ordinary calls, a string is owned by the node of its filter and by no other,
\* and between transactions exactly the subscriptions own one: so it is destroyed
\* once, and not before the last node that points into it has another.
OwnersSubscribe ==
  Ordinary =>
    /\ \A p \in owners : filter[tree[p].filter] = p
    /\ Quiet => owners = {p \in DOMAIN tree : IsSubscription(p)}

\* Between transactions every node without children is a subscription (the
\* "subscription-less and child-less" nodes are removed, topic_tree.c:319-391), and
\* the parents of a node are there.
LeavesSubscribe ==
  /\ \A p \in DOMAIN tree : Way(p) \subseteq DOMAIN tree
  /\ Quiet => \A p \in DOMAIN tree : \E q \in DOMAIN tree : Above(p, q) /\ IsSubscription(q)

\* The tree has the nodes that its subscriptions need and the strings that they
\* own, and no others: the two above together.
TreeIsTight == OwnersSubscribe /\ LeavesSubscribe

\* User data that was handed back to cleanup is not used by a node any more, nor
\* handed back again, whatever calls are made.
CleanedOnce ==
  /\ \A p \in DOMAIN tree : tree[p].user \notin cleaned
  /\ "double_clean_up" \notin failed

Actions ==
  [mode : {"add", "update", "remove"}, node : Filters \cup {<<>>}, string : Nat, user : Nat,
   first : Seq(STRING)]

\* The types of the variables; a commit or a roll back has an action to go on with.
TreeTypes ==
  /\ filter \in Seq(Filters) /\ Len(filter) <= MaxInserts
  /\ tree \in [DOMAIN tree -> [filter : Nat, user : Nat]]
  /\ DOMAIN tree \subseteq Seq(STRING) \ {<<>>}
  /\ transaction \in Seq(Actions)
  /\ phase \in {"open", "commit", "roll_back", "gone"}
  /\ phase \in {"commit", "roll_back"} => transaction # <<>>

Inserts == {k \in DOMAIN transaction : transaction[k].mode # "remove"}

\* Why CleanedOnce holds: user data is held by one action, by one node, or was
\* handed back, and by no two of these.
UsersAreOnce ==
  /\ cleaned \subseteq 1..Len(filter) /\ "double_clean_up" \notin failed
  /\ \A p \in DOMAIN tree : tree[p].user \in (0..Len(filter)) \ cleaned
  /\ \A p, q \in DOMAIN tree : tree[p].user = tree[q].user => p = q \/ tree[p].user = 0
  /\ \A k \in Inserts :
       /\ transaction[k].node \in Filters
       /\ transaction[k].user \in (1..Len(filter)) \ cleaned
       /\ \A p \in DOMAIN tree : tree[p].user # transaction[k].user
       /\ \A l \in Inserts : transaction[k].user = transaction[l].user => k = l

\* Why a roll back does not show: the nodes that were created by the transaction,
\* and all below them, are not subscribed before the commit.
NodesAreNew ==
  /\ \A p \in DOMAIN tree : Way(p) \subseteq DOMAIN tree
  /\ phase \in {"open", "roll_back"} =>
       \A k \in DOMAIN transaction, p \in DOMAIN tree :
         transaction[k].mode = "add" /\ Above(transaction[k].first, p) => tree[p].user = 0

\* Why LeavesSubscribe holds: below every node is a subscription, or the node of an
\* insert that is still to be committed, or rolled back together with the node.
LeavesFit ==
  /\ Inserts \in {{}, DOMAIN transaction}
  /\ phase \in {"open", "commit"} => \A k \in Inserts : transaction[k].node \in DOMAIN tree
  /\ \A p \in DOMAIN tree :
       \/ \E q \in DOMAIN tree : Above(p, q) /\ tree[q].user # 0
       \/ \E k \in Inserts :
            /\ Above(p, transaction[k].node)
            /\ phase # "commit" => transaction[k].mode = "add" /\ Above(transaction[k].first, p)

\* String s is held by the node of its filter ...
IsOwned(s) == filter[s] \in owners /\ tree[filter[s]].filter = s

\* ... or by an insert; before the commit only the nodes created for it use it.
IsPending(p, s) ==
  \E k \in Inserts :
    /\ transaction[k].string = s
    /\ phase # "commit" => transaction[k].mode = "add" /\ Above(transaction[k].first, p)

\* Why the strings stay usable with ordinary calls: the subscriptions own their
\* strings, and a node points into one that is owned or will be.
StringsFit ==
  /\ failed = {}
  /\ freed \subseteq 1..Len(filter)
  /\ owners = {p \in DOMAIN tree : tree[p].user # 0}
  /\ \A p \in DOMAIN tree :
       /\ tree[p].filter \in (1..Len(filter)) \ freed
       /\ Above(p, filter[tree[p].filter])
       /\ p \in owners => filter[tree[p].filter] = p
       /\ IsOwned(tree[p].filter) \/ IsPending(p, tree[p].filter)

\* ... and the actions of a transaction do not meet at a node: an insert brings a
\* string exactly if its node has none, and a remove finds a subscription.
ActionsFit ==
  /\ \A k, l \in DOMAIN transaction : transaction[k].node = transaction[l].node => k = l
  /\ \A k \in DOMAIN transaction \ Inserts : transaction[k].node \in owners
  /\ \A k \in Inserts :
       /\ transaction[k].string \in {0, transaction[k].user} \ freed
       /\ filter[transaction[k].user] = transaction[k].node
       /\ transaction[k].string = 0 <=> transaction[k].node \in owners

OrdinaryFit == Ordinary => StringsFit /\ ActionsFit

\* Why nothing is lost without a roll back: the transaction holds what the nodes do
\* not hold and was not handed back.
StringIsHeld(i) ==
  \/ i \in freed
  \/ \E p \in owners : tree[p].filter = i
  \/ \E k \in Inserts : transaction[k].string = i

UserIsHeld(i) ==
  \/ i \in cleaned
  \/ \E p \in DOMAIN tree : tree[p].user = i
  \/ \E k \in Inserts : transaction[k].user = i

HeldFit ==
  /\ phase = "roll_back" => "roll_back" \in made
  /\ phase = "gone" => transaction = <<>>
  /\ made \subseteq {"clean_up"} => \A i \in DOMAIN filter : StringIsHeld(i) /\ UserIsHeld(i)

\* With ordinary calls, roll backs included, no assertion of the tree fails (273,
\* 431), no node of an action is stale, and no string is destroyed twice.
NothingFails == Ordinary => failed = {}

\* With ordinary calls and no roll back nothing is lost: between transactions, and
\* after the clean up, every string has been destroyed or is owned, and all user
\* data was handed back or is a subscription's.
NothingIsLost ==
  made \subseteq {"clean_up"} /\ (Quiet \/ phase = "gone") =>
    \A i \in DOMAIN filter :
      /\ i \in freed \/ \E p \in owners : tree[p].filter = i
      /\ i \in cleaned \/ \E p \in DOMAIN tree : tree[p].user = i

\* The filters that are subscribed to, and their user data.
Map == INSTANCE SubscriptionMap WITH
         Users <- Strings,
         subs  <- [f \in {p \in DOMAIN tree : IsSubscription(p)} |-> tree[f].user]

\* The tree is a map from filters to user data: committing an insert changes the
\* entry of its filter only, committing a remove takes that entry away and no
\* other, and inserting nodes, roll backs and changes of strings do not show.
MapImplemented == Map!Spec
=============================================================================
