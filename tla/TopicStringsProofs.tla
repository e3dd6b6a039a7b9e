------------------------ MODULE TopicStringsProofs ------------------------
(***************************************************************************)
(* Proofs about the nodes and the strings of TopicTree: below every node   *)
(* is a subscription, and with ordinary calls every string that a node     *)
(* points into is there, is owned once and is destroyed once.              *)
(***************************************************************************)
EXTENDS TopicTreeProofs

-----------------------------------------------------------------------------
(* What the steps do *)

\* A way up from a node of the tree.
LEMMA NodePaths ==
  ASSUME TreeInv
  PROVE  /\ DOMAIN tree \subseteq Paths
         /\ \A p \in DOMAIN tree : Above(p, p) /\ Way(p) \subseteq DOMAIN tree
         /\ \A p, q, r \in DOMAIN tree : Above(p, q) /\ Above(q, r) => Above(p, r)
         /\ \A p, q \in DOMAIN tree : p \in Way(q) <=> Above(p, q)
<1>1. DOMAIN tree \subseteq Paths /\ \A p \in DOMAIN tree : Way(p) \subseteq DOMAIN tree
  BY DEF TreeInv, TreeTypes, NodesAreNew, Paths
<1>2. \A p, q, r \in DOMAIN tree : Above(p, p) /\ (Above(p, q) /\ Above(q, r) => Above(p, r))
  BY <1>1, AboveOrder DEF Paths
<1>3. \A p, q \in DOMAIN tree : p \in Way(q) <=> Above(p, q)
  BY <1>1, WayIsAbove, AboveIsWay
<1> QED
  BY <1>1, <1>2, <1>3

\* An insert adds the nodes that are missing on the way, and an action a for them.
InsertAdds(f, new, i, a) ==
  /\ f \in Filters /\ f \in Paths /\ phase = "open" /\ phase' = "open"
  /\ new \subseteq Way(f) /\ f \in DOMAIN tree \cup new /\ new \cap DOMAIN tree = {}
  /\ f \in DOMAIN tree => new = {}
  /\ i = Len(filter) + 1 /\ i \in Nat /\ filter' = Append(filter, f)
  /\ DOMAIN tree' = DOMAIN tree \cup new
  /\ \A p \in DOMAIN tree : tree'[p] = tree[p]
  /\ \A p \in new : tree'[p].filter = i /\ tree'[p].user = 0 /\ p \in Paths /\ Above(p, f)
  /\ a.node = f /\ a.user = i /\ a.string = (IF f \in owners THEN 0 ELSE i)
  /\ a.mode \in {"add", "update"} /\ a \in Actions
  /\ new # {} => a.mode = "add" /\ \A p \in new : Above(a.first, p)
  /\ owners' = owners /\ cleaned' = cleaned /\ failed' = failed
  /\ freed' = IF f \in owners THEN freed \cup {i} ELSE freed

\* TransactionInsert does that.
LEMMA InsertDoes ==
  ASSUME TreeInv, NEW f \in Filters, TransactionInsert(f)
  PROVE  \E new, i, a : InsertAdds(f, new, i, a) /\ transaction' = Append(transaction, a)
<1> DEFINE i   == Len(filter) + 1
           new == Way(f) \ DOMAIN tree
           a   == Action(IF new = {} THEN "update" ELSE "add", f, IF f \in owners THEN 0 ELSE i, i,
                         IF new = {} THEN <<>> ELSE CHOOSE p \in new : \A q \in new : Above(p, q))
<1>1. f \in Paths /\ f \in Way(f) /\ \A p \in Way(f) : p \in Paths /\ Above(p, f)
  BY FilterIsPath, WayIsAbove, WayIsClosed
<1>2. new # {} => a.first \in new /\ \A q \in new : Above(a.first, q)
  BY <1>1, FirstExists, Zenon DEF Action
<1>3. i \in Nat
  BY DEF TreeInv, TreeTypes
<1>4. a \in Actions
  <2>1. a.first \in Seq(STRING)
    <3>1. CASE new = {}
      BY <3>1 DEF Action
    <3>2. CASE new # {}
      BY <1>1, <1>2, <3>2, Zenon DEF Paths
    <3> QED
      BY <3>1, <3>2
  <2> QED
    BY <1>3, <2>1 DEF Action, Actions
<1>5. /\ a.node = f /\ a.user = i /\ a.string = (IF f \in owners THEN 0 ELSE i)
      /\ a.mode = (IF new = {} THEN "update" ELSE "add")
  BY DEF Action
<1>6. f \in DOMAIN tree => new = {}
  BY DEF TreeInv, NodesAreNew
<1>7. /\ transaction' = Append(transaction, a) /\ phase = "open" /\ phase' = "open"
      /\ filter' = Append(filter, f)
      /\ owners' = owners /\ cleaned' = cleaned /\ failed' = failed
      /\ freed' = IF f \in owners THEN freed \cup {i} ELSE freed
      /\ tree' = [p \in DOMAIN tree \cup new |->
                    IF p \in new THEN [filter |-> i, user |-> 0] ELSE tree[p]]
  BY Zenon DEF TransactionInsert, Takes
<1> HIDE DEF a
<1>8. /\ DOMAIN tree' = DOMAIN tree \cup new
      /\ \A p \in DOMAIN tree : tree'[p] = tree[p]
      /\ \A p \in new : tree'[p].filter = i /\ tree'[p].user = 0
  BY <1>7
<1>9. new \subseteq Way(f) /\ f \in DOMAIN tree \cup new /\ new \cap DOMAIN tree = {}
  BY <1>1
<1>10. InsertAdds(f, new, i, a)
  <2> HIDE DEF new, i
  <2> QED
    BY <1>1, <1>2, <1>3, <1>4, <1>5, <1>6, <1>7, <1>8, <1>9, Zenon DEF InsertAdds, new, i
<1> QED
  BY <1>7, <1>10, Zenon

\* The actions of a transaction that has grown by a.
LEMMA AppendActions ==
  ASSUME TreeInv, NEW a \in Actions, transaction' = Append(transaction, a)
  PROVE  \E m : /\ DOMAIN transaction' = DOMAIN transaction \cup {m} /\ m \notin DOMAIN transaction
                /\ transaction'[m] = a
                /\ \A k \in DOMAIN transaction : transaction'[k] = transaction[k]
                /\ Inserts' = Inserts \cup (IF a.mode = "remove" THEN {} ELSE {m})
<1>1. transaction \in Seq(Actions)
  BY DEF TreeInv, TreeTypes
<1> DEFINE m == Len(transaction) + 1
<1>2. /\ DOMAIN transaction' = DOMAIN transaction \cup {m} /\ m \notin DOMAIN transaction
      /\ transaction'[m] = a
      /\ \A k \in DOMAIN transaction : transaction'[k] = transaction[k]
  BY <1>1
<1> HIDE DEF m
<1>3. Inserts' = Inserts \cup (IF a.mode = "remove" THEN {} ELSE {m})
  BY <1>2 DEF Inserts
<1> QED
  BY <1>2, <1>3

\* The actions that are left are the old ones without d at the front.
ActionsLeft(d) ==
  \A k \in DOMAIN transaction' :
    k \in Nat \ {0} /\ k + d \in DOMAIN transaction /\ transaction'[k] = transaction[k + d]

\* Then they are of the same kind, and are inserts if they were.
LEMMA LeftActions ==
  ASSUME NEW d, ActionsLeft(d)
  PROVE  /\ \A k \in Inserts' : k + d \in Inserts /\ transaction'[k] = transaction[k + d]
         /\ \A k \in DOMAIN transaction' \ Inserts' : k + d \in DOMAIN transaction \ Inserts
         /\ Inserts \in {{}, DOMAIN transaction} => Inserts' \in {{}, DOMAIN transaction'}
         /\ Inserts = {} => Inserts' = {}
<1>1. \A k \in DOMAIN transaction' : k \in Inserts' <=> k + d \in Inserts
  BY DEF ActionsLeft, Inserts
<1>2. Inserts' \subseteq DOMAIN transaction'
  BY DEF Inserts
<1> QED
  BY <1>1, <1>2 DEF ActionsLeft

\* A commit takes the first action.
LEMMA CommitTakes ==
  ASSUME TreeInv, ActionCommit
  PROVE  /\ ActionsLeft(1) /\ phase = "commit" /\ filter' = filter /\ made' = made
         /\ 1 \in DOMAIN transaction /\ Head(transaction) = transaction[1]
         /\ \A k \in DOMAIN transaction : k # 1 => k - 1 \in DOMAIN transaction' /\ k - 1 + 1 = k
         /\ phase' = "commit" \/ (phase' = "open" /\ Inserts' = {} /\ DOMAIN transaction' = {})
         /\ LET a == transaction[1]
            IN IF a.node \in DOMAIN tree THEN CommitInsert(a) \/ CommitRemove(a) ELSE CommitMissing(a)
<1>1. /\ phase = "commit" /\ transaction' = Tail(transaction) /\ filter' = filter /\ made' = made
      /\ phase' = IF transaction' = <<>> THEN "open" ELSE phase
  BY DEF ActionCommit, Done
<1>2. transaction \in Seq(Actions) /\ transaction # <<>>
  BY <1>1 DEF TreeInv, TreeTypes
<1>3. ActionsLeft(1) /\ 1 \in DOMAIN transaction /\ Head(transaction) = transaction[1]
  BY <1>1, <1>2, TailOf DEF ActionsLeft
<1>4. \A k \in DOMAIN transaction : k # 1 => k - 1 \in DOMAIN transaction' /\ k - 1 + 1 = k
  BY <1>1, <1>2
<1>5. transaction' = <<>> => DOMAIN transaction' = {} /\ Inserts' = {}
  BY DEF Inserts
<1>6. phase' = "commit" \/ (phase' = "open" /\ Inserts' = {} /\ DOMAIN transaction' = {})
  BY <1>1, <1>5
<1>7. LET a == transaction[1]
      IN IF a.node \in DOMAIN tree THEN CommitInsert(a) \/ CommitRemove(a) ELSE CommitMissing(a)
  BY <1>3, Zenon DEF ActionCommit
<1> QED
  BY <1>1, <1>3, <1>4, <1>6, <1>7, Zenon

\* A roll back takes the last one.
LEMMA RollBackTakes ==
  ASSUME TreeInv, ActionRollBack
  PROVE  \E m \in DOMAIN transaction :
           /\ ActionsLeft(0) /\ phase = "roll_back" /\ phase' \in {"open", "roll_back"}
           /\ DOMAIN transaction' = DOMAIN transaction \ {m}
           /\ filter' = filter /\ made' = made
           /\ LET a    == transaction[m]
                  gone == IF a.mode = "add" THEN {p \in DOMAIN tree : Above(a.first, p)} ELSE {}
              IN /\ a \in Actions
                 /\ DOMAIN tree' = DOMAIN tree \ gone
                 /\ \A p \in DOMAIN tree' : tree'[p] = tree[p]
                 /\ \A p \in gone : tree[p].user = 0
                 /\ owners' = owners \ gone
                 /\ Destroy({tree[p].filter : p \in gone \cap owners}
                              \cup (IF a.mode = "add" THEN {a.string} \ {0} ELSE {}),
                            {tree[p].user : p \in gone} \ {0})
<1> DEFINE m    == Len(transaction)
           a    == transaction[m]
           gone == IF a.mode = "add" THEN {p \in DOMAIN tree : Above(a.first, p)} ELSE {}
<1>1. m \in DOMAIN transaction /\ m \in Nat /\ m # 0 /\ a \in Actions
      /\ phase = "roll_back" /\ DOMAIN transaction = 1..m
  BY DEF ActionRollBack, TreeInv, TreeTypes
<1>2. /\ transaction' = SubSeq(transaction, 1, m - 1)
      /\ phase' \in {"open", "roll_back"} /\ filter' = filter /\ made' = made
      /\ tree' = Restrict(tree, DOMAIN tree \ gone) /\ owners' = owners \ gone
      /\ Destroy({tree[p].filter : p \in gone \cap owners}
                   \cup (IF a.mode = "add" THEN {a.string} \ {0} ELSE {}),
                 {tree[p].user : p \in gone} \ {0})
  BY <1>1 DEF ActionRollBack, Done
<1>3. /\ DOMAIN transaction' = 1..(m - 1)
      /\ \A k \in 1..(m - 1) : transaction'[k] = transaction[k]
  BY <1>1, <1>2, FrontOf DEF TreeInv, TreeTypes
<1>4. DOMAIN transaction' = DOMAIN transaction \ {m} /\ ActionsLeft(0)
  BY <1>1, <1>3 DEF ActionsLeft
<1>5. DOMAIN tree' = DOMAIN tree \ gone /\ \A p \in DOMAIN tree' : tree'[p] = tree[p]
  BY <1>2 DEF Restrict
<1>6. \A p \in gone : tree[p].user = 0
  BY <1>1 DEF TreeInv, NodesAreNew
<1> HIDE DEF m
<1> QED
  BY <1>1, <1>2, <1>4, <1>5, <1>6, Zenon

\* The commit of an insert changes its node only.
LEMMA CommitInsertDoes ==
  ASSUME TreeInv, ActionCommit, transaction[1].node \in DOMAIN tree, CommitInsert(transaction[1])
  PROVE  LET a == transaction[1]
         IN /\ 1 \in Inserts /\ a.user \in 1..Len(filter) /\ a.user # 0
            /\ DOMAIN tree' = DOMAIN tree
            /\ \A p \in DOMAIN tree : p # a.node => tree'[p] = tree[p]
            /\ tree'[a.node].filter = IF a.string = 0 THEN tree[a.node].filter ELSE a.string
            /\ tree'[a.node].user = a.user
            /\ owners' = IF a.string = 0 THEN owners ELSE owners \cup {a.node}
            /\ freed' = freed /\ (failed = {} => failed' = {})
            /\ cleaned' = cleaned \cup ({tree[a.node].user} \ {0})
<1> DEFINE a == transaction[1]
<1>1. 1 \in DOMAIN transaction
  BY CommitTakes
<1>2. 1 \in Inserts
  BY <1>1 DEF Inserts, CommitInsert
<1>3. a.user \in 1..Len(filter) /\ Len(filter) \in Nat
  BY <1>2 DEF TreeInv, UsersAreOnce, TreeTypes
<1>4. ({tree[a.node].user} \ {0}) \cap cleaned = {}
  BY DEF TreeInv, UsersAreOnce
<1>5. /\ freed' = freed /\ (failed = {} => failed' = {})
      /\ cleaned' = cleaned \cup ({tree[a.node].user} \ {0})
      /\ owners' = IF a.string = 0 THEN owners ELSE owners \cup {a.node}
  BY <1>4 DEF CommitInsert, Destroy
<1>6. tree' = [tree EXCEPT ![a.node] =
                [filter |-> IF a.string = 0 THEN @.filter ELSE a.string, user |-> a.user]]
  BY Zenon DEF CommitInsert
<1>7. /\ DOMAIN tree' = DOMAIN tree
      /\ \A p \in DOMAIN tree : p # a.node => tree'[p] = tree[p]
      /\ tree'[a.node].filter = IF a.string = 0 THEN tree[a.node].filter ELSE a.string
      /\ tree'[a.node].user = a.user
  <2> HIDE DEF a
  <2> QED
    BY <1>6 DEF a
<1> QED
  BY <1>2, <1>3, <1>5, <1>7

-----------------------------------------------------------------------------
(* Below every node is a subscription *)

\* The nodes that an insert creates lead to its own.
LEMMA LeavesInsert ==
  ASSUME TreeInv, LeavesFit, NEW f \in Filters, TransactionInsert(f)
  PROVE  LeavesFit'
<1>1. PICK new, i, a : InsertAdds(f, new, i, a) /\ transaction' = Append(transaction, a)
  BY InsertDoes
<1>2. PICK m : /\ DOMAIN transaction' = DOMAIN transaction \cup {m} /\ transaction'[m] = a
               /\ \A k \in DOMAIN transaction : transaction'[k] = transaction[k]
               /\ Inserts' = Inserts \cup {m}
  BY <1>1, AppendActions, Zenon DEF InsertAdds
<1>3. Inserts = DOMAIN transaction
  BY Zenon DEF Inserts, TransactionInsert, Takes
<1>4. Inserts' \in {{}, DOMAIN transaction'}
  BY <1>2, <1>3
<1>5. \A k \in Inserts' : transaction'[k].node \in DOMAIN tree'
  BY <1>1, <1>2, <1>3 DEF LeavesFit, InsertAdds
<1>6. ASSUME NEW p \in DOMAIN tree'
      PROVE  \/ \E q \in DOMAIN tree' : Above(p, q) /\ tree'[q].user # 0
             \/ \E k \in Inserts' : /\ Above(p, transaction'[k].node) /\ transaction'[k].mode = "add"
                                    /\ Above(transaction'[k].first, p)
  <2>1. CASE p \in new
    BY <1>1, <1>2, <2>1 DEF InsertAdds
  <2>2. CASE p \in DOMAIN tree
    <3>1. \/ \E q \in DOMAIN tree : Above(p, q) /\ tree[q].user # 0
          \/ \E k \in Inserts : /\ Above(p, transaction[k].node) /\ transaction[k].mode = "add"
                                /\ Above(transaction[k].first, p)
      BY <1>1, <2>2 DEF LeavesFit, InsertAdds
    <3> QED
      BY <3>1, <1>1, <1>2, <1>3 DEF InsertAdds
  <2> QED
    BY <1>1, <2>1, <2>2, Zenon DEF InsertAdds
<1> QED
  BY <1>4, <1>5, <1>6 DEF LeavesFit

\* A remove, and the start of a commit or roll back, change no node.
LEMMA LeavesQuiet ==
  ASSUME TreeInv, LeavesFit,
         (\E f \in Filters : TransactionRemove(f)) \/ Starts("commit") \/ Starts("roll_back")
  PROVE  LeavesFit'
<1>1. ASSUME NEW f \in Filters, TransactionRemove(f) PROVE LeavesFit'
  <2> DEFINE a == Action("remove", IF f \in DOMAIN tree THEN f ELSE <<>>, 0, 0, <<>>)
  <2>1. a \in Actions /\ a.mode = "remove"
    BY DEF Action, Actions
  <2>2. transaction' = Append(transaction, a) /\ UNCHANGED <<tree, phase>> /\ Inserts = {}
    BY <1>1 DEF TransactionRemove, Takes, Inserts
  <2> HIDE DEF a
  <2>3. Inserts' = {}
    BY <2>1, <2>2, AppendActions
  <2> QED
    BY <2>2, <2>3 DEF LeavesFit
<1>2. ASSUME NEW p \in {"commit", "roll_back"}, Starts(p) PROVE LeavesFit'
  <2>1. /\ phase = "open" /\ phase' = p /\ UNCHANGED <<tree, transaction>> /\ Inserts' = Inserts
    BY <1>2 DEF Starts, Inserts
  <2> QED
    BY <2>1 DEF LeavesFit
<1> QED
  BY <1>1, <1>2

\* A roll back takes away the nodes that lead to the node of its insert only.
LEMMA LeavesRollBack ==
  ASSUME TreeInv, LeavesFit, ActionRollBack
  PROVE  LeavesFit'
<1>1. PICK m \in DOMAIN transaction :
        /\ ActionsLeft(0) /\ phase = "roll_back" /\ phase' \in {"open", "roll_back"}
        /\ DOMAIN transaction' = DOMAIN transaction \ {m}
        /\ \A p \in DOMAIN tree' : p \in DOMAIN tree /\ tree'[p] = tree[p]
        /\ \A p \in DOMAIN tree \ DOMAIN tree' : tree[p].user = 0
        /\ transaction[m].mode = "add" => \A p \in DOMAIN tree' : ~Above(transaction[m].first, p)
  BY RollBackTakes, Zenon
<1>2. phase' = "open" => Inserts' = {}
  BY DEF ActionRollBack, Done, Inserts
<1>3. Inserts' = Inserts \ {m} /\ \A k \in Inserts' : transaction'[k] = transaction[k]
  BY <1>1 DEF ActionsLeft, Inserts, TreeInv, TreeTypes
<1>4. ASSUME NEW p \in DOMAIN tree'
      PROVE  \/ \E q \in DOMAIN tree' : Above(p, q) /\ tree'[q].user # 0
             \/ \E k \in Inserts' : /\ Above(p, transaction'[k].node) /\ transaction'[k].mode = "add"
                                    /\ Above(transaction'[k].first, p)
  <2>1. \/ \E q \in DOMAIN tree : Above(p, q) /\ tree[q].user # 0
        \/ \E k \in Inserts : /\ Above(p, transaction[k].node) /\ transaction[k].mode = "add"
                              /\ Above(transaction[k].first, p)
    BY <1>1 DEF LeavesFit
  <2> QED
    BY <2>1, <1>1, <1>3
<1>5. Inserts' \in {{}, DOMAIN transaction'}
  BY <1>1, LeftActions DEF LeavesFit
<1> QED
  BY <1>1, <1>2, <1>4, <1>5 DEF LeavesFit

\* Committing an insert subscribes the node that the new nodes lead to; committing
\* a remove takes away all nodes that lead nowhere else.
LEMMA LeavesCommit ==
  ASSUME TreeInv, LeavesFit, ActionCommit
  PROVE  LeavesFit'
<1> DEFINE a == transaction[1]
           n == a.node
<1>1. ActionsLeft(1) /\ 1 \in DOMAIN transaction /\ phase = "commit"
  BY CommitTakes
<1>2. /\ \A k \in Inserts' : k + 1 \in Inserts /\ transaction'[k] = transaction[k + 1]
      /\ Inserts' \in {{}, DOMAIN transaction'}
      /\ Inserts = {} => Inserts' = {}
  BY <1>1, LeftActions DEF LeavesFit
<1>3. ASSUME \A k \in Inserts' : transaction'[k].node \in DOMAIN tree',
             \A p \in DOMAIN tree' :
               \/ \E q \in DOMAIN tree' : Above(p, q) /\ tree'[q].user # 0
               \/ \E k \in Inserts' : Above(p, transaction'[k].node)
      PROVE  LeavesFit'
  <2>1. phase' = "commit" \/ Inserts' = {}
    BY CommitTakes
  <2> QED
    BY <1>2, <1>3, <2>1 DEF LeavesFit
<1>4. CASE 1 \in Inserts
  <2>1. n \in DOMAIN tree
    BY <1>1, <1>4 DEF LeavesFit
  <2>2. CommitInsert(a)
    BY <1>4, <2>1, CommitTakes, Zenon DEF Inserts, CommitRemove
  <2>3. /\ DOMAIN tree' = DOMAIN tree /\ tree'[n].user # 0
        /\ \A p \in DOMAIN tree : p # n => tree'[p] = tree[p]
    BY <2>1, <2>2, CommitInsertDoes
  <2>4. ASSUME NEW p \in DOMAIN tree'
        PROVE  \/ \E q \in DOMAIN tree' : Above(p, q) /\ tree'[q].user # 0
               \/ \E k \in Inserts' : Above(p, transaction'[k].node)
    <3>1. CASE \E q \in DOMAIN tree : Above(p, q) /\ tree[q].user # 0
      BY <3>1, <2>1, <2>3
    <3>2. ASSUME NEW k \in Inserts, Above(p, transaction[k].node)
          PROVE  <2>4!2
      <4>1. CASE k = 1
        BY <3>2, <4>1, <2>1, <2>3
      <4>2. CASE k # 1
        <5>1. k - 1 \in DOMAIN transaction' /\ k - 1 + 1 = k
          BY <4>2, CommitTakes DEF Inserts
        <5>2. transaction'[k - 1] = transaction[k] /\ k - 1 \in Inserts'
          BY <5>1, <1>1 DEF ActionsLeft, Inserts
        <5> QED
          BY <5>2, <3>2
      <4> QED
        BY <4>1, <4>2
    <3> QED
      BY <2>3, <3>1, <3>2 DEF LeavesFit
  <2>5. \A k \in Inserts' : transaction'[k].node \in DOMAIN tree'
    BY <1>1, <1>2, <2>3 DEF LeavesFit
  <2> QED
    BY <1>3, <2>4, <2>5
<1>5. CASE 1 \notin Inserts
  <2>1. Inserts = {} /\ Inserts' = {} /\ ~CommitInsert(a)
    BY <1>1, <1>2, <1>5 DEF LeavesFit, Inserts, CommitInsert
  <2>2. \A p \in DOMAIN tree : \E q \in DOMAIN tree : Above(p, q) /\ tree[q].user # 0
    BY <2>1 DEF LeavesFit
  <2>3. CASE tree' = tree
    BY <2>1, <2>2, <2>3, <1>3
  <2>4. CASE tree' # tree
    <3>1. n \in DOMAIN tree /\ CommitRemove(a)
      BY <2>1, <2>4, CommitTakes DEF CommitMissing
    <3>2. /\ DOMAIN tree' = DOMAIN tree \ Childless(n)
          /\ \A p \in DOMAIN tree' : tree'[p].user = IF p = n THEN 0 ELSE tree[p].user
      BY <3>1, <2>4, CommitRemoveTree
    <3>3. ASSUME NEW q \in DOMAIN tree, tree[q].user # 0, q # n
          PROVE  q \in DOMAIN tree' /\ tree'[q].user # 0
      BY <3>1, <3>2, <3>3, ChildlessNodes
    <3>4. ASSUME NEW p \in DOMAIN tree'
          PROVE  \E q \in DOMAIN tree : Above(p, q) /\ tree[q].user # 0 /\ q # n
      <4>1. ASSUME NEW r \in DOMAIN tree, Above(p, r), r \notin Way(n)
            PROVE  \E q \in DOMAIN tree : Above(p, q) /\ tree[q].user # 0 /\ q # n
        <5>1. PICK q \in DOMAIN tree : Above(r, q) /\ tree[q].user # 0
          BY <2>2
        <5>2. q # n /\ Above(p, q)
          BY <3>1, <3>2, <4>1, <5>1, NodePaths
        <5> QED
          BY <5>1, <5>2
      <4>2. CASE p \notin Way(n)
        BY <3>2, <4>1, <4>2, NodePaths
      <4>3. CASE p \in Way(n)
        <5>1. PICK q \in DOMAIN tree : Above(p, q) /\ ~(q \in Way(n) /\ (q = n \/ tree[q].user = 0))
          BY <3>2, <4>3 DEF Childless
        <5> QED
          BY <4>1, <5>1
      <4> QED
        BY <4>2, <4>3
    <3>5. \A p \in DOMAIN tree' : \E q \in DOMAIN tree' : Above(p, q) /\ tree'[q].user # 0
      BY <3>3, <3>4
    <3> QED
      BY <2>1, <3>5, <1>3
  <2> QED
    BY <2>3, <2>4
<1> QED
  BY <1>4, <1>5

\* Every step keeps LeavesFit.
LEMMA LeavesStep ==
  ASSUME TreeInv, LeavesFit, [Next]_vars
  PROVE  LeavesFit'
<1>1. CASE CleanUp
  <2>1. DOMAIN tree' = {} /\ Inserts' = {}
    BY <1>1 DEF CleanUp, Restrict, Inserts
  <2> QED
    BY <2>1 DEF LeavesFit
<1>2. CASE UNCHANGED vars
  BY <1>2 DEF vars, LeavesFit, Inserts
<1> QED
  BY <1>1, <1>2, LeavesInsert, LeavesQuiet, LeavesRollBack, LeavesCommit DEF Next

-----------------------------------------------------------------------------
(* Strings *)

\* An action on a filter that an ordinary program takes.
LEMMA OrdinaryTakes ==
  ASSUME NEW f \in Filters, NEW modes, Takes(f, modes), Ordinary'
  PROVE  /\ \A k \in DOMAIN transaction : transaction[k].node # f
         /\ "remove" \in modes => IsSubscription(f)
<1>1. "repeat" \notin made' /\ "remove_any" \notin made'
  BY DEF Ordinary
<1> QED
  BY <1>1 DEF Takes, Makes

\* StringsFit after a step, said of each node and its string.
LEMMA StringsNext ==
  ASSUME failed' = {}, freed' \subseteq 1..Len(filter'),
         owners' = {p \in DOMAIN tree' : tree'[p].user # 0},
         \A p \in DOMAIN tree' : \A s : s = tree'[p].filter =>
           /\ s \in (1..Len(filter')) \ freed' /\ Above(p, filter'[s])
           /\ p \in owners' => filter'[s] = p
           /\ IsOwned(s)' \/ IsPending(p, s)'
  PROVE  StringsFit'
<1>1. ASSUME NEW p \in DOMAIN tree'
      PROVE  /\ tree'[p].filter \in (1..Len(filter')) \ freed' /\ Above(p, filter'[tree'[p].filter])
             /\ p \in owners' => filter'[tree'[p].filter] = p
  OBVIOUS
<1>2. ASSUME NEW p \in DOMAIN tree'
      PROVE  (IsOwned(tree[p].filter) \/ IsPending(p, tree[p].filter))'
  BY Zenon DEF IsOwned, IsPending
<1> QED
  BY <1>1, <1>2, Zenon DEF StringsFit

\* An insert brings a new string, for its own nodes only, or destroys it at once.
LEMMA StringsInsert ==
  ASSUME TreeInv, LeavesFit, StringsFit, ActionsFit, NEW f \in Filters, TransactionInsert(f), Ordinary'
  PROVE  StringsFit' /\ ActionsFit'
<1>1. PICK new, i, a : InsertAdds(f, new, i, a) /\ transaction' = Append(transaction, a)
  BY InsertDoes
<1>2. PICK m : /\ DOMAIN transaction' = DOMAIN transaction \cup {m} /\ m \notin DOMAIN transaction
               /\ transaction'[m] = a
               /\ \A k \in DOMAIN transaction : transaction'[k] = transaction[k]
               /\ Inserts' = Inserts \cup {m}
  BY <1>1, AppendActions, Zenon DEF InsertAdds
<1>3. /\ \A k \in DOMAIN transaction : transaction[k].node # f
      /\ Inserts = DOMAIN transaction
  BY OrdinaryTakes, Zenon DEF TransactionInsert, Takes, Inserts
<1> DEFINE N == Len(filter)
<1>4. /\ N \in Nat /\ i = N + 1 /\ Len(filter') = N + 1 /\ filter'[i] = f
      /\ \A s \in 1..N : filter'[s] = filter[s]
  BY <1>1 DEF InsertAdds, TreeInv, TreeTypes
<1> HIDE DEF N
<1>5. /\ freed \subseteq 1..N /\ i \notin 1..N
      /\ \A p \in DOMAIN tree : tree[p].filter \in 1..N /\ tree[p].filter # i
      /\ \A s \in 1..N : s \in 1..(N + 1) /\ s # i
      /\ i \in 1..(N + 1) /\ i # 0
  BY <1>4 DEF StringsFit, N
<1>6. owners' = {p \in DOMAIN tree' : tree'[p].user # 0}
  BY <1>1 DEF InsertAdds, StringsFit
<1>7. freed' \subseteq 1..Len(filter')
  BY <1>1, <1>4, <1>5, Zenon DEF InsertAdds
<1>8. ASSUME NEW p \in new
      PROVE  /\ tree'[p].filter \in (1..Len(filter')) \ freed'
             /\ Above(p, filter'[tree'[p].filter])
             /\ p \in owners' => filter'[tree'[p].filter] = p
             /\ tree'[p].filter = i /\ IsPending(p, i)'
  <2>1. f \notin owners /\ freed' = freed /\ a.string = i /\ tree'[p].filter = i
    BY <1>1 DEF InsertAdds, StringsFit
  <2>2. p \notin owners'
    BY <1>1, <1>6 DEF InsertAdds
  <2>3. m \in Inserts' /\ transaction'[m].string = i /\ a.mode = "add" /\ Above(a.first, p) /\ Above(p, f)
    BY <1>1, <1>2, <2>1 DEF InsertAdds
  <2>4. IsPending(p, i)'
    BY <2>1, <2>3, <1>2 DEF IsPending
  <2> QED
    BY <2>1, <2>2, <2>3, <2>4, <1>4, <1>5
<1>9. ASSUME NEW p \in DOMAIN tree, NEW s, s = tree[p].filter
      PROVE  /\ tree'[p].filter \in (1..Len(filter')) \ freed'
             /\ Above(p, filter'[tree'[p].filter])
             /\ p \in owners' => filter'[tree'[p].filter] = p
             /\ IsOwned(s)' \/ IsPending(p, s)'
  <2>1. /\ s \in 1..N /\ s \notin freed /\ Above(p, filter[s]) /\ (p \in owners => filter[s] = p)
        /\ IsOwned(s) \/ IsPending(p, s)
    BY <1>5, <1>9 DEF StringsFit
  <2>2. tree'[p] = tree[p] /\ s \notin freed' /\ owners' = owners /\ filter'[s] = filter[s]
    BY <1>1, <1>4, <1>5, <2>1 DEF InsertAdds
  <2>3. CASE IsOwned(s)
    <3>1. filter[s] \in DOMAIN tree
      BY <2>3 DEF IsOwned, StringsFit
    <3> QED
      BY <1>1, <1>4, <1>5, <1>9, <2>1, <2>2, <2>3, <3>1 DEF IsOwned, InsertAdds
  <2>4. CASE IsPending(p, s)
    <3>1. PICK k \in Inserts : /\ transaction[k].string = s
                               /\ transaction[k].mode = "add" /\ Above(transaction[k].first, p)
      BY <2>4, <1>1 DEF IsPending, InsertAdds
    <3>2. k \in Inserts' /\ transaction'[k] = transaction[k]
      BY <3>1, <1>2, <1>3
    <3>3. IsPending(p, s)'
      BY <3>1, <3>2, <2>2 DEF IsPending
    <3> QED
      BY <1>4, <1>5, <1>9, <2>1, <2>2, <3>3
  <2> QED
    BY <2>1, <2>3, <2>4
<1>10. StringsFit'
  <2>1. failed' = {}
    BY <1>1 DEF InsertAdds, StringsFit
  <2>2. \A p \in DOMAIN tree : tree'[p] = tree[p]
    BY <1>1 DEF InsertAdds
  <2>3. DOMAIN tree' = DOMAIN tree \cup new
    BY <1>1 DEF InsertAdds
  <2>4. ASSUME NEW p \in DOMAIN tree', NEW s, s = tree'[p].filter
        PROVE  /\ s \in (1..Len(filter')) \ freed' /\ Above(p, filter'[s])
               /\ p \in owners' => filter'[s] = p
               /\ IsOwned(s)' \/ IsPending(p, s)'
    <3>1. CASE p \in new
      BY <1>8, <2>4, <3>1
    <3>2. CASE p \in DOMAIN tree
      BY <1>9, <2>2, <2>4, <3>2
    <3> QED
      BY <2>3, <3>1, <3>2
  <2> QED
    BY <1>6, <1>7, <2>1, <2>4, StringsNext, Zenon
<1>11. \A k, l \in DOMAIN transaction' : transaction'[k].node = transaction'[l].node => k = l
  BY <1>1, <1>2, <1>3 DEF ActionsFit, InsertAdds
<1>12. ASSUME NEW k \in Inserts'
       PROVE  /\ transaction'[k].string \in {0, transaction'[k].user} \ freed'
              /\ filter'[transaction'[k].user] = transaction'[k].node
              /\ transaction'[k].string = 0 <=> transaction'[k].node \in owners'
  <2>1. CASE k = m
    BY <1>1, <1>2, <1>4, <1>5, <2>1 DEF InsertAdds
  <2>2. CASE k \in Inserts
    <3>1. transaction'[k] = transaction[k] /\ transaction[k].user \in 1..N
      BY <1>2, <1>3, <2>2 DEF TreeInv, UsersAreOnce, N
    <3>2. transaction[k].user \notin freed => transaction[k].user \notin freed'
      BY <1>1, <1>5, <3>1 DEF InsertAdds
    <3>3. 0 \notin freed'
      BY <1>1, <1>5 DEF InsertAdds
    <3> QED
      BY <1>1, <1>4, <2>2, <3>1, <3>2, <3>3 DEF ActionsFit, InsertAdds
  <2> QED
    BY <1>2, <2>1, <2>2
<1>13. ActionsFit'
  BY <1>2, <1>3, <1>11, <1>12 DEF ActionsFit
<1> QED
  BY <1>10, <1>13

\* What the fields of the tree and the pending strings were, they are.
LEMMA StringsStay ==
  ASSUME StringsFit, UNCHANGED <<filter, tree, owners, freed, failed>>,
         \A p \in DOMAIN tree : \A s : IsPending(p, s) => IsPending(p, s)'
  PROVE  StringsFit'
<1>1. \A p \in DOMAIN tree' : \A s : s = tree'[p].filter =>
        /\ s \in (1..Len(filter')) \ freed' /\ Above(p, filter'[s])
        /\ p \in owners' => filter'[s] = p
        /\ IsOwned(s)' \/ IsPending(p, s)'
  BY DEF StringsFit, IsOwned
<1> QED
  BY <1>1, StringsNext, Zenon DEF StringsFit

\* A remove, and the start of a commit or roll back, change no string.
LEMMA StringsQuiet ==
  ASSUME TreeInv, LeavesFit, StringsFit, ActionsFit, Ordinary',
         (\E f \in Filters : TransactionRemove(f)) \/ Starts("commit") \/ Starts("roll_back")
  PROVE  StringsFit' /\ ActionsFit'
<1>1. ASSUME NEW f \in Filters, TransactionRemove(f) PROVE StringsFit' /\ ActionsFit'
  <2> DEFINE a == Action("remove", f, 0, 0, <<>>)
  <2>1. IsSubscription(f) /\ \A k \in DOMAIN transaction : transaction[k].node # f
    BY <1>1, OrdinaryTakes DEF TransactionRemove
  <2>2. a \in Actions /\ a.mode = "remove" /\ a.node = f
    BY DEF Action, Actions
  <2>3. /\ transaction' = Append(transaction, a) /\ Inserts = {}
        /\ UNCHANGED <<filter, tree, owners, freed, failed, phase>>
    BY <1>1, <2>1 DEF TransactionRemove, Takes, Inserts, IsSubscription
  <2> HIDE DEF a
  <2>4. PICK m : /\ DOMAIN transaction' = DOMAIN transaction \cup {m}
                 /\ transaction'[m] = a /\ Inserts' = {}
                 /\ \A k \in DOMAIN transaction : transaction'[k] = transaction[k]
    BY <2>2, <2>3, AppendActions
  <2>5. StringsFit'
    BY <2>3, <2>4, StringsStay DEF IsPending
  <2>6. f \in owners
    BY <2>1 DEF StringsFit, IsSubscription
  <2> QED
    BY <2>1, <2>2, <2>3, <2>4, <2>5, <2>6 DEF ActionsFit
<1>2. ASSUME NEW c \in {"commit", "roll_back"}, Starts(c) PROVE StringsFit' /\ ActionsFit'
  <2>1. /\ phase = "open" /\ UNCHANGED <<filter, tree, owners, freed, failed, transaction>>
        /\ Inserts' = Inserts
    BY <1>2 DEF Starts, Inserts
  <2>2. StringsFit'
    BY <2>1, StringsStay DEF IsPending
  <2> QED
    BY <2>1, <2>2 DEF ActionsFit
<1> QED
  BY <1>1, <1>2

\* A pending string is not an owner's, and belongs to one insert.
LEMMA PendingIsNotOwned ==
  ASSUME TreeInv, StringsFit, ActionsFit, NEW k \in Inserts, transaction[k].string # 0
  PROVE  /\ ~IsOwned(transaction[k].string)
         /\ \A l \in Inserts : transaction[l].string = transaction[k].string => l = k
         /\ transaction[k].string \in (1..Len(filter)) \ freed
         /\ filter[transaction[k].string] = transaction[k].node
<1>1. /\ transaction[k].string = transaction[k].user /\ transaction[k].string \notin freed
      /\ filter[transaction[k].user] = transaction[k].node /\ transaction[k].node \notin owners
  BY DEF ActionsFit
<1>2. \A l \in Inserts : transaction[l].string = transaction[k].string => l = k
  BY <1>1 DEF ActionsFit, TreeInv, UsersAreOnce
<1>3. transaction[k].user \in 1..Len(filter)
  BY DEF TreeInv, UsersAreOnce
<1> QED
  BY <1>1, <1>2, <1>3 DEF IsOwned

\* A roll back destroys the string of its insert together with the nodes that use it.
LEMMA StringsRollBack ==
  ASSUME TreeInv, LeavesFit, StringsFit, ActionsFit, ActionRollBack
  PROVE  StringsFit' /\ ActionsFit'
<1>1. PICK m \in DOMAIN transaction :
           /\ ActionsLeft(0) /\ phase = "roll_back" /\ phase' \in {"open", "roll_back"}
           /\ DOMAIN transaction' = DOMAIN transaction \ {m}
           /\ filter' = filter /\ made' = made
           /\ LET a    == transaction[m]
                  gone == IF a.mode = "add" THEN {p \in DOMAIN tree : Above(a.first, p)} ELSE {}
              IN /\ a \in Actions
                 /\ DOMAIN tree' = DOMAIN tree \ gone
                 /\ \A p \in DOMAIN tree' : tree'[p] = tree[p]
                 /\ \A p \in gone : tree[p].user = 0
                 /\ owners' = owners \ gone
                 /\ Destroy({tree[p].filter : p \in gone \cap owners}
                              \cup (IF a.mode = "add" THEN {a.string} \ {0} ELSE {}),
                            {tree[p].user : p \in gone} \ {0})
  BY RollBackTakes, Zenon
<1> DEFINE a    == transaction[m]
           gone == IF a.mode = "add" THEN {p \in DOMAIN tree : Above(a.first, p)} ELSE {}
           S    == IF a.mode = "add" THEN {a.string} \ {0} ELSE {}
<1>2. /\ DOMAIN tree' = DOMAIN tree \ gone /\ \A p \in DOMAIN tree' : tree'[p] = tree[p]
      /\ gone \cap owners = {} /\ owners' = owners
  BY <1>1 DEF StringsFit
<1>3. {tree[p].filter : p \in gone \cap owners} = {} /\ {tree[p].user : p \in gone} \ {0} = {}
  BY <1>1, <1>2
<1>4. Inserts' = Inserts \ {m} /\ \A k \in DOMAIN transaction' : transaction'[k] = transaction[k]
  BY <1>1 DEF ActionsLeft, Inserts, TreeInv, TreeTypes
<1>5. ASSUME NEW s \in S
      PROVE  /\ m \in Inserts /\ a.mode = "add" /\ s = a.string /\ s # 0
             /\ s \in (1..Len(filter)) \ freed /\ ~IsOwned(s)
             /\ \A k \in Inserts : transaction[k].string = s => k = m
  <2>1. a.mode = "add" /\ s = a.string /\ s # 0 /\ m \in Inserts
    BY <1>5 DEF Inserts
  <2> QED
    BY <2>1, PendingIsNotOwned
<1>6. freed' = freed \cup S /\ failed' = {}
  <2>1. Destroy(S, {})
    BY <1>1, <1>3, Zenon
  <2>2. S \cap freed = {} /\ failed = {}
    BY <1>5 DEF StringsFit
  <2> QED
    BY <2>1, <2>2 DEF Destroy
<1>7. ASSUME NEW p \in DOMAIN tree', NEW s, s = tree'[p].filter
      PROVE  /\ s \in (1..Len(filter')) \ freed' /\ Above(p, filter'[s])
             /\ p \in owners' => filter'[s] = p
             /\ IsOwned(s)' \/ IsPending(p, s)'
  <2>1. p \in DOMAIN tree /\ p \notin gone /\ s = tree[p].filter /\ filter' = filter
    BY <1>1, <1>2, <1>7
  <2>2. /\ s \in (1..Len(filter)) \ freed /\ Above(p, filter[s]) /\ (p \in owners => filter[s] = p)
        /\ IsOwned(s) \/ IsPending(p, s)
    BY <2>1 DEF StringsFit
  <2>3. CASE IsOwned(s)
    <3>1. filter[s] \in DOMAIN tree'
      BY <1>2, <2>3 DEF IsOwned, StringsFit
    <3>2. IsOwned(s)'
      BY <1>2, <2>1, <2>3, <3>1 DEF IsOwned
    <3>3. s \notin freed'
      BY <1>5, <1>6, <2>2, <2>3
    <3> QED
      BY <1>2, <2>1, <2>2, <3>2, <3>3
  <2>4. CASE IsPending(p, s)
    <3>1. PICK k \in Inserts : /\ transaction[k].string = s /\ transaction[k].mode = "add"
                               /\ Above(transaction[k].first, p)
      BY <2>4, <1>1 DEF IsPending
    <3>2. k # m
      BY <2>1, <3>1
    <3>3. IsPending(p, s)'
      BY <1>4, <3>1, <3>2 DEF IsPending, Inserts
    <3>4. s \notin freed'
      BY <1>5, <1>6, <2>2, <3>1, <3>2, Zenon
    <3> QED
      BY <1>2, <2>1, <2>2, <3>3, <3>4, Zenon
  <2> QED
    BY <2>2, <2>3, <2>4
<1>8. StringsFit'
  <2>1. freed' \subseteq 1..Len(filter')
    BY <1>1, <1>5, <1>6, Zenon DEF StringsFit
  <2>2. owners' = {p \in DOMAIN tree' : tree'[p].user # 0}
    BY <1>2 DEF StringsFit
  <2> QED
    BY <1>6, <1>7, <2>1, <2>2, StringsNext, Zenon
<1>9. ActionsFit'
  <2>1. \A k \in Inserts' : transaction[k].string \notin freed'
    BY <1>4, <1>5, <1>6 DEF ActionsFit
  <2>2. \A k \in Inserts' : k \in Inserts /\ transaction'[k] = transaction[k]
    BY <1>4 DEF Inserts
  <2>3. \A k \in DOMAIN transaction' \ Inserts' : k \in DOMAIN transaction \ Inserts
    BY <1>1, <1>4, Zenon
  <2> QED
    BY <1>1, <1>2, <1>4, <2>1, <2>2, <2>3 DEF ActionsFit
<1> QED
  BY <1>8, <1>9

\* The commit of an insert makes its node the owner of the string that it brings,
\* and so of all nodes that were created for it.
LEMMA StringsCommitInsert ==
  ASSUME TreeInv, LeavesFit, StringsFit, ActionsFit, ActionCommit, 1 \in Inserts
  PROVE  StringsFit' /\ ActionsFit'
<1> DEFINE a == transaction[1]
           n == a.node
<1>1. ActionsLeft(1) /\ phase = "commit" /\ filter' = filter
  BY CommitTakes
<1>2. n \in DOMAIN tree /\ CommitInsert(a)
  BY <1>1, CommitTakes, Zenon DEF LeavesFit, Inserts, CommitRemove
<1>3. /\ a.user # 0 /\ DOMAIN tree' = DOMAIN tree
      /\ \A p \in DOMAIN tree : p # n => tree'[p] = tree[p]
      /\ tree'[n].filter = IF a.string = 0 THEN tree[n].filter ELSE a.string
      /\ tree'[n].user = a.user
      /\ owners' = IF a.string = 0 THEN owners ELSE owners \cup {n}
      /\ freed' = freed /\ failed' = {}
  BY <1>2, CommitInsertDoes, Zenon DEF StringsFit
<1>4. /\ a.string = 0 <=> n \in owners
      /\ a.string # 0 => a.string \in (1..Len(filter)) \ freed /\ filter[a.string] = n
  BY PendingIsNotOwned DEF ActionsFit
<1>5. owners' = owners \cup {n} /\ owners' = {p \in DOMAIN tree' : tree'[p].user # 0}
  BY <1>2, <1>3, <1>4 DEF StringsFit
<1>6. ASSUME NEW p \in DOMAIN tree', NEW s, s = tree'[p].filter
      PROVE  /\ s \in (1..Len(filter')) \ freed' /\ Above(p, filter'[s])
             /\ p \in owners' => filter'[s] = p
             /\ IsOwned(s)' \/ IsPending(p, s)'
  <2>1. CASE p = n /\ a.string # 0
    <3>1. s = a.string /\ filter[s] = n /\ s \in (1..Len(filter)) \ freed
      BY <1>3, <1>4, <1>6, <2>1, Zenon
    <3>2. IsOwned(s)'
      BY <1>1, <1>5, <1>6, <2>1, <3>1, Zenon DEF IsOwned
    <3>3. Above(n, n)
      BY <1>2, NodePaths
    <3> QED
      BY <1>1, <1>3, <2>1, <3>1, <3>2, <3>3
  <2>2. CASE p # n \/ a.string = 0
    <3>1. p \in DOMAIN tree /\ s = tree[p].filter /\ (p \in owners' => p \in owners)
      BY <1>3, <1>6, <2>2
    <3>2. /\ s \in (1..Len(filter)) \ freed /\ Above(p, filter[s]) /\ (p \in owners => filter[s] = p)
          /\ IsOwned(s) \/ IsPending(p, s)
      BY <3>1 DEF StringsFit
    <3>3. CASE IsOwned(s)
      <4>1. filter[s] \in DOMAIN tree /\ (filter[s] = n => a.string = 0)
        BY <1>4, <3>3 DEF IsOwned, StringsFit
      <4>2. IsOwned(s)'
        BY <1>1, <1>3, <1>5, <3>3, <4>1 DEF IsOwned
      <4> QED
        BY <1>1, <1>3, <3>1, <3>2, <4>2, Zenon
    <3>4. CASE IsPending(p, s)
      <4>1. PICK k \in Inserts : transaction[k].string = s
        BY <3>4 DEF IsPending
      <4>2. CASE k = 1
        <5>1. s # 0
          BY <3>2 DEF TreeInv, TreeTypes
        <5>2. IsOwned(s)'
          BY <1>1, <1>3, <1>4, <1>5, <4>1, <4>2, <5>1, Zenon DEF IsOwned
        <5> QED
          BY <1>1, <1>3, <3>1, <3>2, <5>2
      <4>3. CASE k # 1
        <5>1. k - 1 \in DOMAIN transaction' /\ k - 1 + 1 = k
          BY <4>3, CommitTakes DEF Inserts
        <5>2. transaction'[k - 1] = transaction[k] /\ k - 1 \in Inserts' /\ phase' = "commit"
          BY <5>1, <1>1, CommitTakes DEF ActionsLeft, Inserts
        <5>3. IsPending(p, s)'
          BY <5>2, <4>1 DEF IsPending
        <5> QED
          BY <1>1, <1>3, <3>1, <3>2, <5>3
      <4> QED
        BY <4>2, <4>3
    <3> QED
      BY <3>2, <3>3, <3>4
  <2> QED
    BY <2>1, <2>2
<1>7. StringsFit'
  <2>1. freed' \subseteq 1..Len(filter')
    BY <1>1, <1>3 DEF StringsFit
  <2> QED
    BY <1>3, <1>5, <1>6, <2>1, StringsNext, Zenon
<1>8. ActionsFit'
  <2>1. /\ \A k \in DOMAIN transaction' :
             k \in Nat \ {0} /\ k + 1 \in DOMAIN transaction /\ transaction'[k] = transaction[k + 1]
        /\ \A k \in Inserts' : k + 1 \in Inserts
        /\ \A k \in DOMAIN transaction' \ Inserts' : k + 1 \in DOMAIN transaction \ Inserts
    BY <1>1, LeftActions DEF ActionsLeft
  <2>2. \A k, l \in DOMAIN transaction' : transaction'[k].node = transaction'[l].node => k = l
    <3> TAKE k, l \in DOMAIN transaction'
    <3>1. transaction'[k].node = transaction'[l].node => k + 1 = l + 1
      BY <2>1 DEF ActionsFit
    <3> QED
      BY <2>1, <3>1
  <2>3. \A k \in DOMAIN transaction' : transaction'[k].node # n
    <3>1. \A k \in DOMAIN transaction' : k + 1 # 1
      BY <2>1
    <3>2. \A k \in DOMAIN transaction : transaction[k].node = n => k = 1
      BY DEF ActionsFit, Inserts
    <3> QED
      BY <2>1, <3>1, <3>2
  <2>4. Inserts' \subseteq DOMAIN transaction'
    BY DEF Inserts
  <2> QED
    BY <1>1, <1>3, <1>5, <2>1, <2>2, <2>3, <2>4 DEF ActionsFit
<1> QED
  BY <1>7, <1>8

\* s_topic_node_string_finder finds a string: below the last node that uses the one
\* to be destroyed is a node that uses another.
LEMMA FinderFinds ==
  ASSUME TreeInv, StringsFit, NEW n \in owners, NEW left,
         left = Restrict([tree EXCEPT ![n].user = 0], DOMAIN tree \ Childless(n)),
         NEW p \in Way(n) \ Childless(n), left[p].filter = tree[n].filter,
         \A q \in Way(n) \ Childless(n) : left[q].filter = tree[n].filter => Above(q, p)
  PROVE  NextStrings(left, p, tree[n].filter) # {}
<1> DEFINE old == tree[n].filter
<1>1. n \in DOMAIN tree /\ Way(n) \subseteq DOMAIN tree /\ filter[old] = n
  BY NodePaths DEF StringsFit
<1>2. /\ DOMAIN left = DOMAIN tree \ Childless(n)
      /\ \A q \in DOMAIN left : left[q].filter = tree[q].filter
  BY <1>1, Zenon DEF Restrict, TreeInv, TreeTypes
<1>3. p \in DOMAIN left /\ DOMAIN left \subseteq Paths /\ p \in Seq(STRING)
  BY <1>1, <1>2, NodePaths, Zenon DEF Paths
<1>4. PICK r \in DOMAIN left : Above(p, r) /\ r # p
  <2>1. PICK r \in DOMAIN tree : Above(p, r) /\ ~(r \in Way(n) /\ (r = n \/ tree[r].user = 0))
    BY DEF Childless
  <2>2. r \notin Childless(n)
    BY <1>1, <2>1, ChildlessNodes DEF Childless
  <2>3. ASSUME r = p PROVE FALSE
    <3>1. p \in owners /\ p # n
      BY <2>1, <2>3 DEF StringsFit
    <3>2. filter[tree[p].filter] = p /\ tree[p].filter = old
      BY <3>1, <1>2, <1>3, Zenon DEF StringsFit
    <3> QED
      BY <3>1, <3>2, <1>1
  <2> QED
    BY <1>2, <2>1, <2>2, <2>3
<1> DEFINE k == Len(p) + 1
           q == SubSeq(r, 1, k)
<1>5. r \in Paths /\ k \in 1..Len(r)
  <2>1. r \in Seq(STRING) /\ Len(p) <= Len(r) /\ \A j \in 1..Len(p) : p[j] = r[j]
    BY <1>3, <1>4, Zenon DEF Paths, Above
  <2>2. Len(p) # Len(r)
    BY <1>3, <1>4, <2>1
  <2>3. Len(p) \in Nat /\ Len(r) \in Nat
    BY <1>3, <2>1
  <2>4. k \in 1..Len(r)
    BY <2>1, <2>2, <2>3
  <2> QED
    BY <1>3, <1>4, <2>4, Zenon
<1>6. q \in Way(r) /\ q \in Seq(STRING) /\ Len(q) = k /\ \A j \in 1..k : q[j] = r[j]
  <2> HIDE DEF k
  <2>1. q \in Way(r)
    BY <1>5 DEF Way
  <2> QED
    BY <1>5, <2>1 DEF Paths
<1> HIDE DEF q
<1>7. Above(p, q) /\ q # p
  BY <1>3, <1>4, <1>6 DEF Above
<1>8. q \in DOMAIN left
  <2>1. r \in DOMAIN tree /\ r \notin Childless(n)
    BY <1>2, <1>4
  <2>2. q \in DOMAIN tree
    BY <1>6, <2>1, NodePaths
  <2> QED
    BY <1>1, <1>2, <1>6, <2>1, <2>2, ChildlessNodes
<1>9. left[q].filter # old
  <2> SUFFICES ASSUME left[q].filter = old PROVE FALSE
    OBVIOUS
  <2>1. q \in DOMAIN tree /\ tree[q].filter = old
    BY <1>2, <1>8, Zenon
  <2>2. q \in Way(n)
    BY <1>1, <2>1, NodePaths DEF StringsFit
  <2>3. Above(q, p)
    BY <1>2, <1>8, <2>2, Zenon
  <2> QED
    BY <2>3, <1>3, <1>6 DEF Above
<1>10. ASSUME NEW t \in DOMAIN left, Above(p, t), Above(t, q), t \notin {p, q}
       PROVE  FALSE
  <2>1. t \in Seq(STRING)
    BY <1>3, Zenon DEF Paths
  <2>2. Len(t) = Len(p) \/ Len(t) = Len(q)
    BY <2>1, <1>3, <1>6, <1>10 DEF Above
  <2>3. Len(t) = Len(p) => t = p
    BY <2>1, <1>3, <1>10 DEF Above
  <2>4. Len(t) = Len(q) => t = q
    BY <2>1, <1>6, <1>10 DEF Above
  <2> QED
    BY <1>10, <2>2, <2>3, <2>4
<1>11. left[q].filter \in NextStrings(left, p, old)
  BY <1>7, <1>8, <1>9, <1>10, Zenon DEF NextStrings
<1> QED
  BY <1>11, Zenon

\* The commit of a remove destroys the string of its node n and no other, and the
\* nodes that used it get the string of a node below them.
Removes(n, old) ==
  /\ n \in owners /\ n \in DOMAIN tree /\ old = tree[n].filter /\ filter[old] = n
  /\ DOMAIN tree' = DOMAIN tree \ Childless(n) /\ owners' = owners \ {n}
  /\ freed' = freed \cup {old} /\ cleaned' = cleaned \cup {tree[n].user} /\ failed' = {}
  /\ \A p \in DOMAIN tree' :
       /\ tree'[p].user = IF p = n THEN 0 ELSE tree[p].user
       /\ tree[p].filter # old => tree'[p].filter = tree[p].filter
       /\ tree[p].filter = old =>
            \E q \in DOMAIN tree :
              tree[q].filter # old /\ tree'[p].filter = tree[q].filter /\ Above(p, q)

\* CommitRemove does that, and finds a string.
LEMMA CommitRemoveDoes ==
  ASSUME TreeInv, LeavesFit, StringsFit, ActionsFit, ActionCommit, 1 \notin Inserts
  PROVE  Removes(transaction[1].node, tree[transaction[1].node].filter)
<1> DEFINE a       == transaction[1]
           n       == a.node
           old     == tree[n].filter
           gone    == Childless(n)
           left    == Restrict([tree EXCEPT ![n].user = 0], DOMAIN tree \ gone)
           mothers == { p \in Way(n) \ gone : left[p].filter = old }
<1>1. 1 \in DOMAIN transaction /\ n \in owners /\ n \in DOMAIN tree /\ filter[old] = n /\ tree[n].user # 0
  BY CommitTakes DEF ActionsFit, StringsFit
<1>2. CommitRemove(a)
  BY <1>1, CommitTakes DEF Inserts, CommitInsert
<1>3. gone \cap owners \subseteq {n} /\ {tree[n].user} \ {0} = {tree[n].user}
  BY <1>1, ChildlessNodes DEF StringsFit
<1>4. old \notin freed /\ tree[n].user \notin cleaned /\ failed = {}
  BY <1>1 DEF StringsFit, TreeInv, UsersAreOnce
<1>5. Destroy({old}, {tree[n].user}) =>
        freed' = freed \cup {old} /\ cleaned' = cleaned \cup {tree[n].user} /\ failed' = {}
  BY <1>4 DEF Destroy
<1>6. /\ DOMAIN left = DOMAIN tree \ gone /\ n \in Way(n) /\ Way(n) \subseteq DOMAIN tree
      /\ \A p \in DOMAIN left : left[p].filter = tree[p].filter
      /\ \A p \in DOMAIN left : left[p].user = IF p = n THEN 0 ELSE tree[p].user
  <2>1. n \in Way(n) /\ Way(n) \subseteq DOMAIN tree
    BY <1>1, NodePaths
  <2> QED
    BY <2>1, Zenon DEF Restrict, TreeInv, TreeTypes
<1>7. \A p \in DOMAIN left : tree[p].filter = old => p \in mothers
  <2>1. ASSUME NEW p \in DOMAIN tree, tree[p].filter = old PROVE p \in Way(n)
    BY <1>1, <2>1, NodePaths DEF StringsFit
  <2> HIDE DEF left, gone
  <2> QED
    BY <1>6, <2>1
<1>8. CASE /\ mothers = {} /\ tree' = left /\ owners' = owners \ gone
           /\ Destroy({tree[p].filter : p \in gone \cap owners}, {tree[n].user} \ {0})
  <2>1. n \in gone
    BY <1>6, <1>7, <1>8, <1>1, Zenon
  <2>2. gone \cap owners = {n} /\ owners \ gone = owners \ {n}
    BY <1>1, <1>3, <2>1
  <2>3. {tree[p].filter : p \in gone \cap owners} = {old}
    BY <2>2, Zenon
  <2>4. Destroy({old}, {tree[n].user})
    BY <1>3, <1>8, <2>3, Zenon
  <2>5. \A p \in DOMAIN tree' : tree[p].filter # old
    BY <1>7, <1>8, Zenon
  <2> HIDE DEF left, mothers, gone
  <2> QED
    BY <1>1, <1>5, <1>6, <1>8, <2>2, <2>4, <2>5, Zenon DEF Removes, gone
<1>9. ASSUME NEW p \in mothers, \A q \in mothers : Above(q, p),
             NEW s \in NextStrings(left, p, old),
             tree' = [q \in DOMAIN left |->
                        IF q \in mothers THEN [left[q] EXCEPT !.filter = s] ELSE left[q]],
             Destroy({old} \cup {tree[q].filter : q \in (gone \cap owners) \ {n}}, {tree[n].user} \ {0}),
             owners' = owners \ (gone \cup {n})
      PROVE  Removes(n, old)
  <2>1. (gone \cap owners) \ {n} = {} /\ owners' = owners \ {n}
    BY <1>3, <1>9, Zenon
  <2>2. Destroy({old}, {tree[n].user})
    <3>1. {old} \cup {tree[q].filter : q \in (gone \cap owners) \ {n}} = {old}
      BY <2>1
    <3> QED
      BY <1>3, <1>9, <3>1, Zenon
  <2>3. PICK q \in DOMAIN left : s = left[q].filter /\ Above(p, q) /\ s # old
    BY <1>9, Zenon DEF NextStrings
  <2>4. q \in DOMAIN tree /\ tree[q].filter = s /\ p \in DOMAIN tree
    BY <1>6, <2>3, Zenon
  <2>5. \A r \in mothers : r \in DOMAIN left /\ r \in DOMAIN tree /\ Above(r, q)
    BY <1>6, <1>9, <2>3, <2>4, NodePaths, Zenon
  <2>6. \A r \in DOMAIN left : left[r] \in [filter : Nat, user : Nat]
    BY Zenon DEF Restrict, TreeInv, TreeTypes
  <2>7. \A r \in mothers : left[r].filter = old
    OBVIOUS
  <2> HIDE DEF left, mothers, gone
  <2>8. DOMAIN tree' = DOMAIN left
    BY <1>9
  <2>9. ASSUME NEW r \in DOMAIN left
        PROVE  /\ tree'[r].user = left[r].user
               /\ tree'[r].filter = IF r \in mothers THEN s ELSE left[r].filter
    BY <1>9, <2>6
  <2>10. ASSUME NEW r \in DOMAIN left
         PROVE  /\ tree'[r].user = IF r = n THEN 0 ELSE tree[r].user
                /\ tree[r].filter # old => tree'[r].filter = tree[r].filter
                /\ tree[r].filter = old =>
                     tree[q].filter # old /\ tree'[r].filter = tree[q].filter /\ Above(r, q)
    BY <1>6, <1>7, <2>3, <2>4, <2>5, <2>7, <2>9
  <2> QED
    BY <1>1, <1>5, <1>6, <2>1, <2>2, <2>4, <2>8, <2>10, Zenon DEF Removes, gone
<1>10. ASSUME NEW p \in mothers, \A q \in mothers : Above(q, p)
       PROVE  NextStrings(left, p, old) # {}
  <2>1. \A q \in Way(n) \ Childless(n) : left[q].filter = old => Above(q, p)
    BY <1>10, Zenon
  <2> QED
    BY <1>1, <2>1, FinderFinds, Zenon
<1> QED
  BY <1>2, <1>8, <1>9, <1>10, Zenon DEF CommitRemove

\* So every node still points into a string that is owned.
LEMMA StringsCommitRemove ==
  ASSUME TreeInv, LeavesFit, StringsFit, ActionsFit, ActionCommit, 1 \notin Inserts
  PROVE  StringsFit' /\ ActionsFit'
<1>1. PICK n, old : n = transaction[1].node /\ Removes(n, old)
  BY CommitRemoveDoes
<1>2. ActionsLeft(1) /\ filter' = filter /\ 1 \in DOMAIN transaction
  BY CommitTakes
<1>3. Inserts = {} /\ Inserts' = {}
  BY <1>2, LeftActions DEF LeavesFit
<1>4. owners' = {p \in DOMAIN tree' : tree'[p].user # 0}
  BY <1>1, ChildlessNodes DEF Removes, StringsFit
<1>5. ASSUME NEW q \in DOMAIN tree, NEW s, s = tree[q].filter, s # old
      PROVE  /\ s \in (1..Len(filter')) \ freed' /\ Above(q, filter[s]) /\ IsOwned(s)'
             /\ filter[s] \in Paths
  <2>1. s \in (1..Len(filter)) \ freed /\ Above(q, filter[s]) /\ IsOwned(s)
    BY <1>3, <1>5 DEF StringsFit, IsPending
  <2>2. filter[s] \in owners /\ tree[filter[s]].filter = s /\ filter[s] # n
    BY <1>1, <1>5, <2>1 DEF IsOwned, Removes
  <2>3. filter[s] \in owners' /\ filter[s] \in DOMAIN tree' /\ tree'[filter[s]].filter = s
    BY <1>1, <1>4, <1>5, <2>2 DEF Removes
  <2>4. filter[s] \in Paths
    BY <2>2, NodePaths DEF StringsFit
  <2> QED
    BY <1>1, <1>2, <1>5, <2>1, <2>3, <2>4 DEF IsOwned, Removes
<1>6. ASSUME NEW p \in DOMAIN tree', NEW s, s = tree'[p].filter
      PROVE  /\ s \in (1..Len(filter')) \ freed' /\ Above(p, filter'[s])
             /\ p \in owners' => filter'[s] = p
             /\ IsOwned(s)' \/ IsPending(p, s)'
  <2>0. p \in DOMAIN tree
    BY <1>1 DEF Removes
  <2>1. CASE tree[p].filter # old
    <3>1. s = tree[p].filter
      BY <1>1, <1>6, <2>1 DEF Removes
    <3>2. p \in owners' => filter[s] = p
      BY <1>1, <2>0, <3>1 DEF Removes, StringsFit
    <3> QED
      BY <1>2, <1>5, <2>0, <2>1, <3>1, <3>2
  <2>2. CASE tree[p].filter = old
    <3>1. PICK q \in DOMAIN tree : tree[q].filter # old /\ s = tree[q].filter /\ Above(p, q)
      BY <1>1, <1>6, <2>2 DEF Removes
    <3>2. /\ s \in (1..Len(filter')) \ freed' /\ Above(q, filter[s]) /\ IsOwned(s)'
          /\ filter[s] \in Paths
      BY <1>5, <3>1
    <3>3. Above(p, filter[s])
      BY <2>0, <3>1, <3>2, NodePaths, AboveOrder DEF Paths
    <3>4. p \notin owners'
      BY <1>1, <2>0, <2>2 DEF Removes, StringsFit
    <3> QED
      BY <1>2, <3>2, <3>3, <3>4
  <2> QED
    BY <2>1, <2>2
<1>7. StringsFit'
  <2>1. old \in 1..Len(filter) /\ freed \subseteq 1..Len(filter)
    BY <1>1 DEF Removes, StringsFit
  <2>2. freed' \subseteq 1..Len(filter') /\ failed' = {}
    BY <1>1, <1>2, <2>1, Zenon DEF Removes
  <2> QED
    BY <1>4, <1>6, <2>2, StringsNext, Zenon
<1>8. ActionsFit'
  <2>1. \A k \in DOMAIN transaction' :
          k \in Nat \ {0} /\ k + 1 \in DOMAIN transaction /\ transaction'[k] = transaction[k + 1]
    BY <1>2 DEF ActionsLeft
  <2>2. \A k, l \in DOMAIN transaction' : transaction'[k].node = transaction'[l].node => k = l
    <3> TAKE k, l \in DOMAIN transaction'
    <3>1. transaction'[k].node = transaction'[l].node => k + 1 = l + 1
      BY <2>1 DEF ActionsFit
    <3> QED
      BY <2>1, <3>1
  <2>3. ASSUME NEW k \in DOMAIN transaction' PROVE transaction'[k].node \in owners'
    <3>1. k + 1 # 1 /\ k + 1 \in DOMAIN transaction /\ transaction'[k] = transaction[k + 1]
      BY <2>1
    <3>2. transaction[k + 1].node # n /\ transaction[k + 1].node \in owners
      BY <1>1, <1>2, <1>3, <3>1 DEF ActionsFit
    <3> QED
      BY <1>1, <3>1, <3>2 DEF Removes
  <2> QED
    BY <1>3, <2>2, <2>3 DEF ActionsFit
<1> QED
  BY <1>7, <1>8

\* The clean up destroys the strings of the owners, which are all there.
LEMMA StringsCleanUp ==
  ASSUME TreeInv, StringsFit, ActionsFit, CleanUp
  PROVE  StringsFit' /\ ActionsFit'
<1> DEFINE S == {tree[p].filter : p \in owners}
           U == {tree[p].user : p \in DOMAIN tree} \ {0}
<1>1. /\ DOMAIN tree' = {} /\ owners' = {} /\ DOMAIN transaction' = {} /\ Inserts' = {}
      /\ filter' = filter /\ Destroy(S, U)
  BY DEF CleanUp, Restrict, Inserts
<1>2. S \subseteq (1..Len(filter)) \ freed /\ U \cap cleaned = {} /\ failed = {}
  BY DEF StringsFit, TreeInv, UsersAreOnce
<1>3. freed' = freed \cup S /\ failed' = {}
  BY <1>1, <1>2 DEF Destroy
<1>4. freed' \subseteq 1..Len(filter')
  BY <1>1, <1>2, <1>3, Zenon DEF StringsFit
<1>5. StringsFit'
  BY <1>1, <1>3, <1>4 DEF StringsFit
<1> QED
  BY <1>1, <1>5 DEF ActionsFit

\* Calls that were made stay made.
LEMMA MadeGrows ==
  ASSUME [Next]_vars
  PROVE  made \subseteq made' /\ (Ordinary' => Ordinary)
<1>1. made \subseteq made'
  BY Zenon DEF Next, TransactionInsert, TransactionRemove, Takes, Starts, ActionCommit, ActionRollBack,
      CleanUp, Makes, vars
<1> QED
  BY <1>1 DEF Ordinary

\* Every step keeps OrdinaryFit.
LEMMA OrdinaryStep ==
  ASSUME TreeInv, LeavesFit, OrdinaryFit, [Next]_vars
  PROVE  OrdinaryFit'
<1> SUFFICES ASSUME Ordinary' PROVE StringsFit' /\ ActionsFit'
  BY DEF OrdinaryFit
<1>1. StringsFit /\ ActionsFit
  BY MadeGrows DEF OrdinaryFit
<1>2. CASE UNCHANGED vars
  <2>1. UNCHANGED <<filter, tree, owners, transaction, phase, freed, failed>>
    BY <1>2 DEF vars
  <2>2. Inserts' = Inserts
    BY <2>1 DEF Inserts
  <2>3. StringsFit'
    BY <1>1, <2>1, <2>2, StringsStay DEF IsPending
  <2> QED
    BY <1>1, <2>1, <2>2, <2>3 DEF ActionsFit
<1>3. CASE ActionCommit
  BY <1>1, <1>3, StringsCommitInsert, StringsCommitRemove
<1> QED
  BY <1>1, <1>2, <1>3, StringsInsert, StringsQuiet, StringsRollBack, StringsCleanUp DEF Next

-----------------------------------------------------------------------------
(* Nothing is lost *)

\* Every step but a roll back passes on the strings and user data of nodes and
\* actions, or hands them back.
LEMMA HeldStep ==
  ASSUME TreeInv, LeavesFit, OrdinaryFit, HeldFit, [Next]_vars
  PROVE  HeldFit'
<1>1. /\ phase' = "roll_back" => "roll_back" \in made'
      /\ phase' = "gone" => transaction' = <<>>
  BY Zenon DEF HeldFit, Next, TransactionInsert, TransactionRemove, Takes, Starts, ActionCommit,
      ActionRollBack, CleanUp, Makes, Done, vars
<1> SUFFICES ASSUME made' \subseteq {"clean_up"}, NEW i \in DOMAIN filter'
             PROVE  StringIsHeld(i)' /\ UserIsHeld(i)'
  BY <1>1 DEF HeldFit
<1>2. /\ phase # "roll_back" /\ StringsFit /\ ActionsFit /\ Ordinary'
      /\ \A j \in DOMAIN filter : StringIsHeld(j) /\ UserIsHeld(j)
  BY MadeGrows, Zenon DEF HeldFit, OrdinaryFit, Ordinary
<1>3. ASSUME NEW f \in Filters, TransactionInsert(f) PROVE StringIsHeld(i)' /\ UserIsHeld(i)'
  <2>1. PICK new, j, a : InsertAdds(f, new, j, a) /\ transaction' = Append(transaction, a)
    BY <1>3, InsertDoes
  <2>2. PICK m : /\ transaction'[m] = a
                 /\ \A k \in DOMAIN transaction : transaction'[k] = transaction[k]
                 /\ Inserts' = Inserts \cup {m}
    BY <2>1, AppendActions, Zenon DEF InsertAdds
  <2>3. \A k \in Inserts : k \in Inserts' /\ transaction'[k] = transaction[k]
    BY <2>2 DEF Inserts
  <2>4. CASE i = j
    <3>1. m \in Inserts' /\ transaction'[m].user = i /\ (i \in freed' \/ transaction'[m].string = i)
      BY <2>1, <2>2, <2>4 DEF InsertAdds
    <3> QED
      BY <3>1 DEF StringIsHeld, UserIsHeld
  <2>5. CASE i # j
    <3>1. i \in DOMAIN filter
      BY <2>1, <2>5 DEF InsertAdds, TreeInv, TreeTypes
    <3>2. StringIsHeld(i) /\ UserIsHeld(i)
      BY <1>2, <3>1
    <3>3. owners \subseteq DOMAIN tree
      BY <1>2 DEF StringsFit
    <3> QED
      BY <2>1, <2>3, <3>2, <3>3, Zenon DEF InsertAdds, StringIsHeld, UserIsHeld
  <2> QED
    BY <2>4, <2>5
<1>4. ASSUME UNCHANGED <<filter, tree, owners, freed, cleaned>>,
             \A k \in Inserts : k \in Inserts' /\ transaction'[k] = transaction[k]
      PROVE  StringIsHeld(i)' /\ UserIsHeld(i)'
  BY <1>2, <1>4 DEF StringIsHeld, UserIsHeld
<1>5. CASE (\E f \in Filters : TransactionRemove(f)) \/ Starts("commit") \/ Starts("roll_back")
  <2>1. ASSUME NEW f \in Filters, TransactionRemove(f) PROVE Inserts = {}
    BY <2>1 DEF TransactionRemove, Takes, Inserts
  <2>2. UNCHANGED <<filter, tree, owners, freed, cleaned>> /\ (Inserts = {} \/ UNCHANGED transaction)
    BY <1>5, <2>1 DEF TransactionRemove, Starts
  <2>3. \A k \in Inserts : k \in Inserts' /\ transaction'[k] = transaction[k]
    BY <2>2 DEF Inserts
  <2> QED
    BY <1>4, <2>2, <2>3
<1>6. CASE UNCHANGED vars
  BY <1>4, <1>6 DEF vars, Inserts
<1>7. CASE CleanUp
  <2>1. /\ freed' = freed \cup {tree[p].filter : p \in owners} /\ filter' = filter
        /\ cleaned' = cleaned \cup ({tree[p].user : p \in DOMAIN tree} \ {0})
        /\ Inserts = {}
    BY <1>7 DEF CleanUp, Destroy, Inserts
  <2>2. i \in DOMAIN filter /\ i # 0
    BY <2>1 DEF TreeInv, TreeTypes
  <2> QED
    BY <1>2, <2>1, <2>2 DEF StringIsHeld, UserIsHeld
<1>8. CASE ActionCommit
  <2>1. ActionsLeft(1) /\ filter' = filter
    BY <1>8, CommitTakes
  <2>2. i \in DOMAIN filter /\ i # 0 /\ StringIsHeld(i) /\ UserIsHeld(i)
    BY <1>2, <2>1 DEF TreeInv, TreeTypes
  <2>3. ASSUME NEW k \in Inserts, k # 1 PROVE \E l \in Inserts' : transaction'[l] = transaction[k]
    <3>1. k - 1 \in DOMAIN transaction' /\ k - 1 + 1 = k
      BY <1>8, <2>3, CommitTakes DEF Inserts
    <3>2. transaction'[k - 1] = transaction[k] /\ k - 1 \in Inserts'
      BY <2>1, <3>1 DEF ActionsLeft, Inserts
    <3> QED
      BY <3>2
  <2>4. CASE 1 \in Inserts
    <3> DEFINE a == transaction[1]
    <3>1. a.node \in DOMAIN tree /\ CommitInsert(a)
      BY <1>8, <2>4, CommitTakes, Zenon DEF LeavesFit, Inserts, CommitRemove
    <3>2. /\ DOMAIN tree' = DOMAIN tree
          /\ \A p \in DOMAIN tree : p # a.node => tree'[p] = tree[p]
          /\ tree'[a.node].filter = (IF a.string = 0 THEN tree[a.node].filter ELSE a.string)
          /\ tree'[a.node].user = a.user /\ freed' = freed
          /\ owners' = (IF a.string = 0 THEN owners ELSE owners \cup {a.node})
          /\ cleaned' = cleaned \cup ({tree[a.node].user} \ {0})
      BY <1>8, <3>1, CommitInsertDoes
    <3>3. a.string = 0 <=> a.node \in owners
      BY <1>2, <2>4 DEF ActionsFit
    <3>4. owners \subseteq DOMAIN tree
      BY <1>2 DEF StringsFit
    <3> HIDE DEF a
    <3>5. StringIsHeld(i)'
      BY <2>2, <2>3, <3>2, <3>3, <3>4 DEF StringIsHeld, a
    <3>6. UserIsHeld(i)'
      BY <2>2, <2>3, <3>1, <3>2 DEF UserIsHeld, a
    <3> QED
      BY <3>5, <3>6
  <2>5. CASE 1 \notin Inserts
    <3>1. PICK n, old : Removes(n, old)
      BY <1>2, <1>8, <2>5, CommitRemoveDoes
    <3>2. Inserts = {}
      BY <1>8, <2>5, CommitTakes DEF LeavesFit
    <3>3. owners' = {p \in DOMAIN tree' : tree'[p].user # 0}
      BY <1>2, <1>8, <2>5, StringsCommitRemove DEF StringsFit
    <3>4. ASSUME NEW p \in owners, p # n PROVE p \in owners' /\ tree'[p].filter = tree[p].filter
      <4>1. p \in owners' /\ p \in DOMAIN tree'
        BY <3>1, <3>3, <3>4 DEF Removes
      <4>2. filter[tree[p].filter] = p /\ filter[old] = n
        BY <1>2, <3>1 DEF Removes, StringsFit
      <4> QED
        BY <3>1, <3>4, <4>1, <4>2 DEF Removes
    <3>5. StringIsHeld(i)'
      BY <2>2, <3>1, <3>2, <3>4 DEF StringIsHeld, Removes
    <3>6. UserIsHeld(i)'
      <4>1. CASE i \in cleaned
        BY <4>1, <3>1 DEF Removes, UserIsHeld
      <4>2. ASSUME NEW p \in DOMAIN tree, tree[p].user = i PROVE UserIsHeld(i)'
        <5>1. p \in owners
          BY <1>2, <2>2, <4>2 DEF StringsFit
        <5>2. CASE p = n
          BY <5>2, <4>2, <3>1 DEF Removes, UserIsHeld
        <5>3. CASE p # n
          <6>1. p \in DOMAIN tree'
            BY <5>1, <5>3, <3>3, <3>4
          <6> QED
            BY <4>2, <5>3, <6>1, <3>1 DEF Removes, UserIsHeld
        <5> QED
          BY <5>2, <5>3
      <4> QED
        BY <2>2, <3>2, <4>1, <4>2 DEF UserIsHeld
    <3> QED
      BY <3>5, <3>6
  <2> QED
    BY <2>4, <2>5
<1>9. ~ActionRollBack
  BY <1>2 DEF ActionRollBack
<1> QED
  BY <1>3, <1>5, <1>6, <1>7, <1>8, <1>9 DEF Next

-----------------------------------------------------------------------------
(* Theorems *)

\* The invariants of the nodes and strings.
StringsInv == TreeInv /\ LeavesFit /\ OrdinaryFit /\ HeldFit

\* They hold of the empty tree, and every step keeps them.
LEMMA StringsInvStep == (Init => StringsInv) /\ (StringsInv /\ [Next]_vars => StringsInv')
<1>1. ASSUME Init PROVE StringsInv
  <2>1. DOMAIN tree = {} /\ Inserts = {} /\ DOMAIN transaction = {} /\ DOMAIN filter = {}
    BY <1>1 DEF Init, Inserts
  <2>2. TreeInv
    BY <1>1, TreeInit
  <2>3. StringsFit
    BY <1>1, <2>1 DEF Init, StringsFit
  <2> QED
    BY <1>1, <2>1, <2>2, <2>3
       DEF StringsInv, Init, LeavesFit, OrdinaryFit, ActionsFit, HeldFit
<1>2. StringsInv /\ [Next]_vars => StringsInv'
  BY TreeStep, LeavesStep, OrdinaryStep, HeldStep DEF StringsInv
<1> QED
  BY <1>1, <1>2

\* They always hold.
THEOREM StringsCorrect == Spec => []StringsInv
  BY StringsInvStep, PTL DEF Spec

\* With ordinary calls, roll backs included, a node's topic is never garbage: its
\* string is there and passes through the node.
THEOREM StringsAreUsableHolds == Spec => []StringsAreUsable
<1>1. StringsInv => StringsAreUsable
  BY DEF StringsInv, OrdinaryFit, StringsFit, StringsAreUsable
<1> QED
  BY <1>1, StringsCorrect, PTL

\* Exactly the subscriptions own strings, each its own; and whatever calls are made,
\* between transactions no node is left that leads to no subscription.
THEOREM TreeIsTightHolds == Spec => []TreeIsTight
<1>1. ASSUME StringsInv PROVE TreeIsTight
  <2>1. OwnersSubscribe
    <3>1. Ordinary => StringsFit
      BY <1>1 DEF StringsInv, OrdinaryFit
    <3>2. StringsFit => /\ \A p \in owners : filter[tree[p].filter] = p
                        /\ owners = {p \in DOMAIN tree : IsSubscription(p)}
      BY DEF StringsFit, IsSubscription
    <3> QED
      BY <3>1, <3>2 DEF OwnersSubscribe
  <2>2. ASSUME Quiet, NEW p \in DOMAIN tree
        PROVE  \E q \in DOMAIN tree : Above(p, q) /\ IsSubscription(q)
    <3>1. Inserts = {}
      BY <2>2 DEF Quiet, Inserts
    <3> QED
      BY <1>1, <3>1 DEF StringsInv, LeavesFit, IsSubscription
  <2>3. \A p \in DOMAIN tree : Way(p) \subseteq DOMAIN tree
    BY <1>1 DEF StringsInv, TreeInv, NodesAreNew
  <2> QED
    BY <2>1, <2>2, <2>3 DEF TreeIsTight, LeavesSubscribe
<1> QED
  BY <1>1, StringsCorrect, PTL

\* With ordinary calls no assertion of topic_tree.c fails: in particular
\* s_topic_node_string_finder always finds a string for the nodes above.
THEOREM NothingFailsHolds == Spec => []NothingFails
<1>1. StringsInv => NothingFails
  BY DEF StringsInv, OrdinaryFit, StringsFit, NothingFails
<1> QED
  BY <1>1, StringsCorrect, PTL

\* With ordinary calls and no roll back, no string and no user data is lost.
THEOREM NothingIsLostHolds == Spec => []NothingIsLost
<1>1. ASSUME StringsInv PROVE NothingIsLost
  <2> SUFFICES ASSUME made \subseteq {"clean_up"}, Quiet \/ phase = "gone", NEW i \in DOMAIN filter
               PROVE  /\ i \in freed \/ \E p \in owners : tree[p].filter = i
                      /\ i \in cleaned \/ \E p \in DOMAIN tree : tree[p].user = i
    BY DEF NothingIsLost
  <2>1. StringIsHeld(i) /\ UserIsHeld(i)
    BY <1>1 DEF StringsInv, HeldFit
  <2>2. Inserts = {}
    BY <1>1 DEF Quiet, Inserts, StringsInv, HeldFit
  <2> QED
    BY <2>1, <2>2 DEF StringIsHeld, UserIsHeld
<1> QED
  BY <1>1, StringsCorrect, PTL
=============================================================================
