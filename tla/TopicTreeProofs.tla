-------------------------- MODULE TopicTreeProofs --------------------------
(***************************************************************************)
(* Proofs about TopicTree, for any set of filters, any number of inserts,  *)
(* transactions of any length and any calls.                               *)
(***************************************************************************)
EXTENDS TopicTree, WellFoundedInduction, TLAPS

-----------------------------------------------------------------------------
(* Paths *)

\* The ways from the root to a node.
Paths == Seq(STRING) \ {<<>>}

\* A node on the way to q is a path, and above q.
LEMMA WayIsAbove ==
  ASSUME NEW q \in Paths, NEW p \in Way(q)
  PROVE  p \in Paths /\ Above(p, q) /\ Len(p) <= Len(q)
<1>1. PICK k \in 1..Len(q) : p = SubSeq(q, 1, k)
  BY DEF Way
<1>2. p \in Seq(STRING) /\ Len(p) = k /\ \A j \in 1..k : p[j] = q[j]
  BY <1>1 DEF Paths
<1> QED
  BY <1>2 DEF Paths, Above

\* A path above q is on the way to q.
LEMMA AboveIsWay ==
  ASSUME NEW q \in Paths, NEW p \in Paths, Above(p, q)
  PROVE  p \in Way(q)
<1>1. Len(p) \in 1..Len(q)
  BY DEF Paths, Above
<1>2. SubSeq(q, 1, Len(p)) \in Seq(STRING) /\ Len(SubSeq(q, 1, Len(p))) = Len(p)
  BY <1>1 DEF Paths
<1>3. \A j \in 1..Len(p) : SubSeq(q, 1, Len(p))[j] = p[j]
  BY <1>1 DEF Paths, Above
<1>4. p = SubSeq(q, 1, Len(p))
  BY <1>2, <1>3 DEF Paths
<1> QED
  BY <1>1, <1>4, Zenon DEF Way

\* Above is reflexive and transitive.
LEMMA AboveOrder ==
  ASSUME NEW p \in Seq(STRING), NEW q \in Seq(STRING), NEW r \in Seq(STRING)
  PROVE  Above(p, p) /\ (Above(p, q) /\ Above(q, r) => Above(p, r))
  BY DEF Above

\* The nodes on one way are above each other.
LEMMA WayIsChain ==
  ASSUME NEW f \in Paths, NEW p \in Way(f), NEW q \in Way(f), Len(p) <= Len(q)
  PROVE  Above(p, q)
<1>1. p \in Paths /\ Above(p, f) /\ q \in Paths /\ Above(q, f)
  BY WayIsAbove
<1> QED
  BY <1>1 DEF Above, Paths

\* A way is closed, and ends in its filter.
LEMMA WayIsClosed ==
  ASSUME NEW f \in Paths
  PROVE  f \in Way(f) /\ \A p \in Way(f) : Way(p) \subseteq Way(f)
<1>1. f \in Way(f)
  BY AboveOrder, AboveIsWay DEF Paths
<1>2. ASSUME NEW p \in Way(f), NEW r \in Way(p) PROVE r \in Way(f)
  <2>1. p \in Paths /\ Above(p, f)
    BY WayIsAbove
  <2>2. r \in Paths /\ Above(r, p)
    BY <2>1, WayIsAbove
  <2> QED
    BY <2>1, <2>2, AboveOrder, AboveIsWay DEF Paths
<1> QED
  BY <1>1, <1>2

\* Of the nodes that are missing on a way one is above all the others.
LEMMA FirstExists ==
  ASSUME NEW f \in Paths, NEW new \in SUBSET Way(f), new # {}
  PROVE  \E p \in new : \A q \in new : Above(p, q)
<1> DEFINE T == {Len(p) : p \in new}
<1>1. \A p \in new : p \in Paths /\ Len(p) \in Nat
  BY WayIsAbove DEF Paths
<1>2. T \subseteq Nat /\ T # {}
  BY <1>1, Zenon
<1>3. PICK x \in T : \A y \in T : ~(<<y, x>> \in OpToRel(<, Nat))
  BY <1>2, WFMin, NatLessThanWellFounded, Zenon
<1>4. \A y \in T : x <= y
  <2> SUFFICES ASSUME NEW y \in T, y < x PROVE FALSE
    BY <1>2
  <2>1. x \in Nat /\ y \in Nat
    BY <1>2
  <2>2. <<y, x>> \in OpToRel(<, Nat)
    BY <2>1 DEF OpToRel
  <2> QED
    BY <2>2, <1>3, Zenon
<1>5. PICK p \in new : Len(p) = x
  BY <1>3, Zenon
<1>6. \A q \in new : Len(p) <= Len(q)
  BY <1>4, <1>5
<1> QED
  BY <1>6, WayIsChain

\* The actions that are left when the last one is done.
LEMMA FrontOf ==
  ASSUME NEW S, NEW t \in Seq(S), Len(t) # 0
  PROVE  /\ SubSeq(t, 1, Len(t) - 1) \in Seq(S)
         /\ Len(SubSeq(t, 1, Len(t) - 1)) = Len(t) - 1
         /\ \A k \in 1..(Len(t) - 1) : SubSeq(t, 1, Len(t) - 1)[k] = t[k]
<1> DEFINE n == Len(t) - 1
<1>1. n \in Nat /\ \A k \in 1..n : t[k] \in S
  OBVIOUS
<1>2. SubSeq(t, 1, n) = [k \in 1..n |-> t[k]]
  BY <1>1
<1> HIDE DEF n
<1>3. [k \in 1..n |-> t[k]] \in Seq(S) /\ Len([k \in 1..n |-> t[k]]) = n
  BY <1>1
<1>4. \A k \in 1..n : [j \in 1..n |-> t[j]][k] = t[k]
  OBVIOUS
<1> QED
  BY <1>2, <1>3, <1>4, Zenon DEF n

\* The actions that are left when the first one is done.
LEMMA TailOf ==
  ASSUME NEW S, NEW t \in Seq(S), t # <<>>
  PROVE  /\ Head(t) = t[1] /\ Head(t) \in S /\ 1 \in DOMAIN t
         /\ Tail(t) \in Seq(S)
         /\ \A k \in DOMAIN Tail(t) :
              k \in Nat /\ k + 1 \in DOMAIN t /\ k + 1 # 1 /\ Tail(t)[k] = t[k + 1]
  OBVIOUS

-----------------------------------------------------------------------------
(* Steps of a transaction *)

\* The inductive invariant.
TreeInv == TreeTypes /\ UsersAreOnce /\ NodesAreNew

\* The map that the tree stands for.
Subs == [f \in {p \in DOMAIN tree : IsSubscription(p)} |-> tree[f].user]

\* It holds the nodes with user data.
LEMMA SubsAreUsers ==
  /\ DOMAIN Subs = {p \in DOMAIN tree : tree[p].user # 0}
  /\ \A p \in DOMAIN Subs : Subs[p] = tree[p].user
  /\ DOMAIN Subs' = {p \in DOMAIN tree' : tree'[p].user # 0}
  /\ \A p \in DOMAIN Subs' : Subs'[p] = tree'[p].user
  /\ Subs' = [g \in DOMAIN Subs' |-> Subs'[g]]
<1>1. /\ DOMAIN Subs = {p \in DOMAIN tree : tree[p].user # 0}
      /\ \A p \in DOMAIN Subs : Subs[p] = tree[p].user
  BY DEF Subs, IsSubscription
<1>2. /\ DOMAIN Subs' = {p \in DOMAIN tree' : tree'[p].user # 0}
      /\ \A p \in DOMAIN Subs' : Subs'[p] = tree'[p].user
  BY DEF Subs, IsSubscription
<1>3. Subs' = [g \in DOMAIN Subs' |-> Subs'[g]]
  BY DEF Subs
<1> QED
  BY <1>1, <1>2, <1>3

\* A filter is a path.
LEMMA FilterIsPath == Filters \subseteq Paths
  BY TreeAssumption DEF Paths

\* An insert takes user data that nobody has, and creates nodes that are not
\* subscribed and whose first was not there.
LEMMA InsertStep ==
  ASSUME TreeInv, NEW f \in Filters, TransactionInsert(f)
  PROVE  TreeInv' /\ Subs' = Subs
<1> DEFINE i   == Len(filter) + 1
           new == Way(f) \ DOMAIN tree
           a   == Action(IF new = {} THEN "update" ELSE "add", f, IF f \in owners THEN 0 ELSE i, i,
                         IF new = {} THEN <<>> ELSE CHOOSE p \in new : \A q \in new : Above(p, q))
<1>1. f \in Paths /\ Way(f) \subseteq Paths
  BY FilterIsPath, WayIsAbove
<1>2. i \in Nat /\ i <= MaxInserts /\ filter' \in Seq(Filters) /\ Len(filter') = i
  BY TreeAssumption DEF TreeInv, TreeTypes, TransactionInsert
<1>3. new # {} => a.first \in new
  BY <1>1, FirstExists, Zenon DEF Action
<1>4. a \in Actions /\ a.node = f /\ a.user = i /\ a.mode # "remove" /\ (a.mode = "add" => new # {})
  <2>1. CASE new = {}
    <3>1. a.first = <<>>
      BY <2>1 DEF Action
    <3> QED
      BY <1>2, <2>1, <3>1 DEF Action, Actions
  <2>2. CASE new # {}
    <3>1. a.first \in Seq(STRING)
      BY <1>1, <1>3, <2>2, Zenon DEF Paths
    <3> QED
      BY <1>2, <2>2, <3>1 DEF Action, Actions
  <2> QED
    BY <2>1, <2>2
<1> HIDE DEF a
<1>5. /\ transaction' = Append(transaction, a) /\ phase = "open" /\ phase' = "open"
      /\ cleaned' = cleaned /\ failed' = failed
  BY DEF TransactionInsert, Takes, a
<1>6. /\ DOMAIN tree' = DOMAIN tree \cup new
      /\ \A p \in DOMAIN tree : tree'[p] = tree[p]
      /\ \A p \in new : tree'[p] = [filter |-> i, user |-> 0]
      /\ tree' \in [DOMAIN tree' -> [filter : Nat, user : Nat]]
  BY <1>2 DEF TransactionInsert, TreeInv, TreeTypes
<1>7. TreeTypes'
  BY <1>1, <1>2, <1>4, <1>5, <1>6 DEF TreeInv, TreeTypes, Paths
<1>8. /\ DOMAIN transaction' = DOMAIN transaction \cup {Len(transaction) + 1}
      /\ \A k \in DOMAIN transaction : transaction'[k] = transaction[k] /\ k # Len(transaction) + 1
      /\ transaction'[Len(transaction) + 1] = a
  BY <1>5, <1>4 DEF TreeInv, TreeTypes
<1>9. UsersAreOnce'
  <2> DEFINE m == Len(transaction) + 1
  <2> HIDE DEF m, new
  <2>1. Inserts' = Inserts \cup {m}
    BY <1>8, <1>4 DEF Inserts, m
  <2>2. /\ \A k \in Inserts : transaction'[k] = transaction[k] /\ k # m
        /\ transaction'[m] = a
    BY <1>8 DEF Inserts, m
  <2>3. Len(filter) \in Nat /\ Len(filter') = Len(filter) + 1
    BY <1>2 DEF TreeInv, TreeTypes
  <2>4. /\ cleaned' \subseteq 1..Len(filter') /\ "double_clean_up" \notin failed'
        /\ \A p \in DOMAIN tree' : tree'[p].user \in (0..Len(filter')) \ cleaned'
        /\ \A p \in DOMAIN tree' : tree'[p].user # i
    BY <1>5, <1>6, <2>3 DEF TreeInv, UsersAreOnce
  <2>5. \A p, q \in DOMAIN tree' : tree'[p].user = tree'[q].user => p = q \/ tree'[p].user = 0
    BY <1>6 DEF TreeInv, UsersAreOnce
  <2>6. ASSUME NEW k \in Inserts'
        PROVE  /\ transaction'[k].node \in Filters
               /\ transaction'[k].user \in (1..Len(filter')) \ cleaned'
               /\ \A p \in DOMAIN tree' : tree'[p].user # transaction'[k].user
    <3>1. CASE k = m
      BY <3>1, <2>2, <1>4, <2>3, <2>4, <1>5 DEF TreeInv, UsersAreOnce
    <3>2. CASE k \in Inserts
      <4>1. transaction'[k] = transaction[k]
        BY <3>2, <2>2
      <4>2. transaction[k].node \in Filters /\ transaction[k].user \in (1..Len(filter)) \ cleaned
        BY <3>2 DEF TreeInv, UsersAreOnce
      <4>3. transaction[k].user \in (1..Len(filter')) \ cleaned' /\ transaction[k].user # 0
        BY <4>2, <2>3, <1>5
      <4>4. \A p \in DOMAIN tree : tree[p].user # transaction[k].user
        BY <3>2 DEF TreeInv, UsersAreOnce
      <4>5. \A p \in DOMAIN tree' : tree'[p].user # transaction[k].user
        BY <4>3, <4>4, <1>6
      <4> QED
        BY <4>1, <4>2, <4>3, <4>5
    <3> QED
      BY <3>1, <3>2, <2>1
  <2>7. ASSUME NEW k \in Inserts', NEW l \in Inserts', transaction'[k].user = transaction'[l].user
        PROVE  k = l
    <3>1. \A j \in Inserts : transaction'[j].user # i
      BY <2>2, <2>3 DEF TreeInv, UsersAreOnce
    <3> QED
      BY <3>1, <2>7, <2>1, <2>2, <1>4 DEF TreeInv, UsersAreOnce
  <2> QED
    BY <2>4, <2>5, <2>6, <2>7 DEF UsersAreOnce
<1>10. \A p \in DOMAIN tree' : Way(p) \subseteq DOMAIN tree'
  BY <1>1, <1>6, WayIsClosed DEF TreeInv, NodesAreNew
<1>11. ASSUME NEW k \in DOMAIN transaction', NEW p \in DOMAIN tree',
              transaction'[k].mode = "add", Above(transaction'[k].first, p)
       PROVE  tree'[p].user = 0
  <2>1. CASE p \in new
    BY <2>1, <1>6
  <2>2. CASE p \in DOMAIN tree /\ k \in DOMAIN transaction
    BY <2>2, <1>5, <1>6, <1>8, <1>11 DEF TreeInv, NodesAreNew
  <2>3. CASE p \in DOMAIN tree /\ transaction'[k] = a
    <3>1. a.first \in new /\ Above(a.first, p)
      BY <2>3, <1>11, <1>4, <1>3
    <3>2. a.first \in Paths /\ p \in Paths
      BY <3>1, <2>3, <1>1 DEF TreeInv, TreeTypes, Paths
    <3>3. a.first \in Way(p)
      BY <3>1, <3>2, AboveIsWay
    <3> QED
      BY <3>1, <3>3, <2>3 DEF TreeInv, NodesAreNew
  <2> QED
    BY <2>1, <2>2, <2>3, <1>6, <1>8
<1>12. NodesAreNew'
  BY <1>10, <1>11 DEF NodesAreNew
<1>13. Subs' = Subs
  <2>1. {p \in DOMAIN tree' : tree'[p].user # 0} = {p \in DOMAIN tree : tree[p].user # 0}
    BY <1>6
  <2> QED
    BY <1>6, <2>1 DEF Subs, IsSubscription
<1> QED
  BY <1>7, <1>9, <1>12, <1>13 DEF TreeInv

\* The actions of the transaction are the old ones without d at the front, and at
\* most the node n changes: it gets no user data or that of an action that is gone,
\* and its own, U, is handed back.
UsersMove(d, n, u, U) ==
  /\ filter' = filter /\ "double_clean_up" \notin failed'
  /\ d \in {0, 1}
  /\ \A k \in Inserts' : k \in Nat /\ k + d \in Inserts /\ transaction'[k] = transaction[k + d]
  /\ u # 0 => \E j \in Inserts : u = transaction[j].user /\ \A k \in Inserts' : k + d # j
  /\ \A p \in DOMAIN tree' :
       p \in DOMAIN tree /\ tree'[p].user = IF p = n THEN u ELSE tree[p].user
  /\ cleaned' = cleaned \cup U
  /\ \A v \in U : v # 0 /\ n \in DOMAIN tree /\ v = tree[n].user

\* Then user data stays with one holder.
LEMMA UsersStep ==
  ASSUME TreeTypes, UsersAreOnce, NEW d, NEW n, NEW u, NEW U, UsersMove(d, n, u, U)
  PROVE  UsersAreOnce'
<1> USE DEF UsersMove
<1> DEFINE N == Len(filter)
<1>1. N \in Nat /\ Len(filter') = N
  BY DEF TreeTypes
<1> HIDE DEF N
<1>a. /\ cleaned \subseteq 1..N
      /\ \A p \in DOMAIN tree : tree[p].user \in (0..N) \ cleaned
      /\ \A p, q \in DOMAIN tree : tree[p].user = tree[q].user => p = q \/ tree[p].user = 0
      /\ \A k \in Inserts : transaction[k].node \in Filters /\ transaction[k].user \in (1..N) \ cleaned
      /\ \A k \in Inserts, p \in DOMAIN tree : tree[p].user # transaction[k].user
      /\ \A k, l \in Inserts : transaction[k].user = transaction[l].user => k = l
  BY DEF UsersAreOnce, N
<1>2. cleaned' \subseteq 1..N
  <2>1. \A v \in U : v \in 1..N
    BY <1>1, <1>a
  <2> QED
    BY <2>1, <1>a, Zenon
<1>3. /\ u \in (0..N) \ cleaned'
      /\ \A p \in DOMAIN tree : u # 0 => tree[p].user # u
      /\ \A k \in Inserts' : transaction'[k].user # u
  <2>1. CASE u = 0
    BY <2>1, <1>1, <1>a
  <2>2. ASSUME NEW j \in Inserts, u = transaction[j].user, \A k \in Inserts' : k + d # j
        PROVE  <1>3!1 /\ <1>3!2 /\ <1>3!3
    BY <2>2, <1>1, <1>a
  <2> QED
    BY <2>1, <2>2
<1>4. \A p \in DOMAIN tree' : tree'[p].user \in (0..N) \ cleaned'
  BY <1>3, <1>1, <1>a
<1>5. \A p, q \in DOMAIN tree' : tree'[p].user = tree'[q].user => p = q \/ tree'[p].user = 0
  BY <1>3, <1>a
<1>6. \A k \in Inserts' :
        transaction'[k].node \in Filters /\ transaction'[k].user \in (1..N) \ cleaned'
  BY <1>1, <1>a
<1>7. \A k \in Inserts', p \in DOMAIN tree' : tree'[p].user # transaction'[k].user
  BY <1>3, <1>a
<1>8. \A k, l \in Inserts' : transaction'[k].user = transaction'[l].user => k = l
  <2> TAKE k, l \in Inserts'
  <2>1. transaction'[k].user = transaction'[l].user => k + d = l + d
    BY <1>a
  <2> QED
    BY <2>1
<1> QED
  BY <1>1, <1>2, <1>4, <1>5, <1>6, <1>7, <1>8 DEF UsersAreOnce

\* A remove, or the start of a commit or roll back, changes no node.
LEMMA QuietStep ==
  ASSUME TreeInv, (\E f \in Filters : TransactionRemove(f)) \/ Starts("commit") \/ Starts("roll_back")
  PROVE  TreeInv' /\ Subs' = Subs
<1>0. Subs' = Subs
  BY DEF TransactionRemove, Starts, Subs, IsSubscription
<1>1. ASSUME NEW f \in Filters, TransactionRemove(f) PROVE TreeInv'
  <2> DEFINE a == Action("remove", IF f \in DOMAIN tree THEN f ELSE <<>>, 0, 0, <<>>)
  <2>1. a \in Actions /\ a.mode = "remove"
    BY DEF Action, Actions
  <2> HIDE DEF a
  <2>2. /\ transaction' = Append(transaction, a) /\ phase = "open"
        /\ UNCHANGED <<filter, tree, phase, cleaned, failed>>
    BY <1>1 DEF TransactionRemove, Takes, a
  <2>3. /\ DOMAIN transaction' = DOMAIN transaction \cup {Len(transaction) + 1}
        /\ \A k \in DOMAIN transaction : transaction'[k] = transaction[k]
        /\ transaction'[Len(transaction) + 1] = a
    BY <2>1, <2>2 DEF TreeInv, TreeTypes
  <2>4. TreeTypes'
    BY <2>1, <2>2 DEF TreeInv, TreeTypes
  <2>5. Inserts' = Inserts /\ \A k \in Inserts : transaction'[k] = transaction[k]
    BY <2>1, <2>3 DEF Inserts
  <2>6. UsersAreOnce'
    <3>1. \A k \in Inserts' : k \in Nat /\ k + 0 \in Inserts /\ transaction'[k] = transaction[k + 0]
      BY <2>5 DEF Inserts, TreeInv, TreeTypes
    <3>2. \A p \in DOMAIN tree' :
            p \in DOMAIN tree /\ tree'[p].user = IF p = <<>> THEN 0 ELSE tree[p].user
      BY <2>2 DEF TreeInv, TreeTypes
    <3>3. UsersMove(0, <<>>, 0, {})
      BY <2>2, <3>1, <3>2, Zenon DEF UsersMove, TreeInv, UsersAreOnce
    <3> QED
      BY <3>3, UsersStep DEF TreeInv
  <2>7. NodesAreNew'
    BY <2>1, <2>2, <2>3 DEF TreeInv, NodesAreNew
  <2> QED
    BY <2>4, <2>6, <2>7 DEF TreeInv
<1>2. ASSUME NEW p \in {"commit", "roll_back"}, Starts(p) PROVE TreeInv'
  <2>1. TreeTypes'
    BY <1>2 DEF Starts, TreeInv, TreeTypes
  <2>2. UsersAreOnce'
    BY <1>2 DEF Starts, TreeInv, UsersAreOnce, Inserts
  <2>3. NodesAreNew'
    BY <1>2 DEF Starts, TreeInv, NodesAreNew
  <2> QED
    BY <2>1, <2>2, <2>3 DEF TreeInv
<1> QED
  BY <1>0, <1>1, <1>2

-----------------------------------------------------------------------------
(* Roll back and clean up *)

\* What a roll back destroys was created by the transaction, and has no user data.
LEMMA RollBackStep ==
  ASSUME TreeInv, ActionRollBack
  PROVE  TreeInv' /\ Subs' = Subs
<1> DEFINE m    == Len(transaction)
           a    == transaction[m]
           gone == IF a.mode = "add" THEN {p \in DOMAIN tree : Above(a.first, p)} ELSE {}
           rest == SubSeq(transaction, 1, m - 1)
<1>1. m \in Nat /\ m # 0 /\ a \in Actions /\ phase = "roll_back"
  BY DEF ActionRollBack, TreeInv, TreeTypes
<1>2. /\ rest \in Seq(Actions) /\ Len(rest) = m - 1
      /\ \A k \in 1..(m - 1) : rest[k] = transaction[k]
  BY <1>1, FrontOf DEF TreeInv, TreeTypes
<1>3. /\ tree' = Restrict(tree, DOMAIN tree \ gone)
      /\ transaction' = rest /\ phase' = (IF rest = <<>> THEN "open" ELSE phase) /\ filter' = filter
      /\ cleaned' = cleaned \cup ({tree[p].user : p \in gone} \ {0})
      /\ "double_clean_up" \in failed' => "double_clean_up" \in failed
                                          \/ ({tree[p].user : p \in gone} \ {0}) \cap cleaned # {}
  BY DEF ActionRollBack, Destroy, Done
<1> HIDE DEF rest
<1>4. \A k \in DOMAIN transaction' : k \in DOMAIN transaction /\ transaction'[k] = transaction[k]
  <2>1. DOMAIN transaction = 1..m
    BY DEF TreeInv, TreeTypes
  <2>2. DOMAIN rest = 1..(m - 1) /\ 1..(m - 1) \subseteq 1..m
    BY <1>1, <1>2
  <2> QED
    BY <1>2, <1>3, <2>1, <2>2, Zenon
<1>5. \A p \in gone : p \in DOMAIN tree /\ tree[p].user = 0
  <2>1. m \in DOMAIN transaction
    BY <1>1 DEF TreeInv, TreeTypes
  <2> QED
    BY <1>1, <2>1 DEF TreeInv, NodesAreNew
<1>6. DOMAIN tree' = DOMAIN tree \ gone /\ \A p \in DOMAIN tree' : tree'[p] = tree[p]
  BY <1>3 DEF Restrict
<1>7. tree' \in [DOMAIN tree' -> [filter : Nat, user : Nat]]
  BY <1>3, <1>6 DEF Restrict, TreeInv, TreeTypes
<1>8. TreeTypes'
  BY <1>1, <1>2, <1>3, <1>6, <1>7, Zenon DEF TreeInv, TreeTypes
<1>9. UsersAreOnce'
  <2>1. \A k \in Inserts' : k \in Nat /\ k + 0 \in Inserts /\ transaction'[k] = transaction[k + 0]
    BY <1>4 DEF Inserts, TreeInv, TreeTypes
  <2>2. \A p \in DOMAIN tree' :
          p \in DOMAIN tree /\ tree'[p].user = IF p = <<>> THEN 0 ELSE tree[p].user
    BY <1>6 DEF TreeInv, TreeTypes
  <2>3. {tree[p].user : p \in gone} \ {0} = {}
    BY <1>5
  <2>4. UsersMove(0, <<>>, 0, {})
    BY <1>3, <2>1, <2>2, <2>3, Zenon DEF UsersMove, TreeInv, UsersAreOnce
  <2> QED
    BY <2>4, UsersStep DEF TreeInv
<1>10. ASSUME NEW p \in DOMAIN tree', NEW r \in Way(p) PROVE r \in DOMAIN tree'
  <2>1. p \in DOMAIN tree /\ p \notin gone /\ r \in DOMAIN tree
    BY <1>6 DEF TreeInv, NodesAreNew
  <2>2. p \in Paths /\ r \in Paths /\ Above(r, p)
    BY <2>1, WayIsAbove DEF TreeInv, TreeTypes, Paths
  <2>3. ASSUME r \in gone PROVE FALSE
    <3>1. a.mode = "add" /\ Above(a.first, r) /\ a.first \in Seq(STRING)
      BY <1>1, <2>3 DEF Actions
    <3>2. Above(a.first, p)
      BY <3>1, <2>2, AboveOrder DEF Paths
    <3> QED
      BY <3>1, <3>2, <2>1
  <2> QED
    BY <2>1, <2>3, <1>6
<1>11. NodesAreNew'
  BY <1>1, <1>4, <1>6, <1>10 DEF TreeInv, NodesAreNew
<1>12. Subs' = Subs
  <2>1. {p \in DOMAIN tree' : tree'[p].user # 0} = {p \in DOMAIN tree : tree[p].user # 0}
    BY <1>5, <1>6
  <2> QED
    BY <1>6, <2>1 DEF Subs, IsSubscription
<1> QED
  BY <1>8, <1>9, <1>11, <1>12 DEF TreeInv

\* The clean up hands back what the nodes hold, each of which is in one node.
LEMMA CleanUpStep ==
  ASSUME TreeInv, CleanUp
  PROVE  TreeInv' /\ Subs' = [f \in {} |-> 0]
<1>1. /\ tree' = [p \in {} |-> tree[p]] /\ filter' = filter /\ phase' = "gone"
      /\ transaction' = <<>> /\ transaction = <<>>
      /\ cleaned' = cleaned \cup ({tree[p].user : p \in DOMAIN tree} \ {0})
      /\ "double_clean_up" \in failed' => "double_clean_up" \in failed
                                          \/ ({tree[p].user : p \in DOMAIN tree} \ {0}) \cap cleaned # {}
  BY DEF CleanUp, Restrict, Destroy
<1>2. DOMAIN tree' = {} /\ Inserts' = {}
  BY <1>1 DEF Inserts
<1>3. TreeTypes'
  BY <1>1, <1>2 DEF TreeInv, TreeTypes
<1>4. UsersAreOnce'
  <2>1. Len(filter) \in Nat
    BY DEF TreeInv, TreeTypes
  <2>2. \A v \in {tree[p].user : p \in DOMAIN tree} \ {0} : v \in 1..Len(filter) /\ v \notin cleaned
    BY <2>1 DEF TreeInv, UsersAreOnce
  <2>3. cleaned' \subseteq 1..Len(filter') /\ "double_clean_up" \notin failed'
    BY <1>1, <2>2, Zenon DEF TreeInv, UsersAreOnce
  <2> QED
    BY <1>2, <2>3 DEF UsersAreOnce
<1>5. NodesAreNew'
  BY <1>1, <1>2 DEF NodesAreNew
<1> QED
  BY <1>2, <1>3, <1>4, <1>5 DEF TreeInv, Subs, IsSubscription

-----------------------------------------------------------------------------
(* Commit *)

\* What is left of the transaction when its first action is done.
LEMMA CommitRest ==
  ASSUME TreeInv, ActionCommit
  PROVE  /\ Head(transaction) = transaction[1] /\ Head(transaction) \in Actions
         /\ 1 \in DOMAIN transaction /\ phase = "commit" /\ filter' = filter
         /\ transaction' \in Seq(Actions)
         /\ \/ phase' = "commit" /\ transaction' # <<>>
            \/ phase' = "open" /\ transaction' = <<>>
         /\ \A k \in Inserts' :
              k \in Nat /\ k + 1 \in Inserts /\ k + 1 # 1 /\ transaction'[k] = transaction[k + 1]
<1>1. /\ phase = "commit" /\ transaction' = Tail(transaction) /\ filter' = filter
      /\ phase' = IF transaction' = <<>> THEN "open" ELSE phase
  BY DEF ActionCommit, Done
<1>2. transaction \in Seq(Actions) /\ transaction # <<>>
  BY <1>1 DEF TreeInv, TreeTypes
<1>3. \A k \in DOMAIN transaction' :
        k \in Nat /\ k + 1 \in DOMAIN transaction /\ k + 1 # 1 /\ transaction'[k] = transaction[k + 1]
  BY <1>1, <1>2, TailOf
<1>4. \A k \in Inserts' :
        k \in Nat /\ k + 1 \in Inserts /\ k + 1 # 1 /\ transaction'[k] = transaction[k + 1]
  BY <1>3 DEF Inserts
<1> QED
  BY <1>1, <1>2, <1>4, TailOf, Zenon

\* A commit that finds no node, or no string, changes nothing.
LEMMA CommitFails ==
  ASSUME TreeInv, ActionCommit, NEW l \in Labels \ {"double_clean_up"},
         failed' = failed \cup {l}, UNCHANGED <<tree, cleaned>>
  PROVE  TreeInv' /\ Subs' = Subs
<1>1. TreeTypes'
  BY CommitRest DEF TreeInv, TreeTypes
<1>2. \A p \in DOMAIN tree' :
        p \in DOMAIN tree /\ tree'[p].user = IF p = <<>> THEN 0 ELSE tree[p].user
  BY DEF TreeInv, TreeTypes
<1>3. UsersMove(1, <<>>, 0, {})
  BY <1>2, CommitRest DEF UsersMove, TreeInv, UsersAreOnce
<1>4. UsersAreOnce'
  BY <1>3, UsersStep DEF TreeInv
<1>5. NodesAreNew'
  BY CommitRest DEF TreeInv, NodesAreNew
<1> QED
  BY <1>1, <1>4, <1>5 DEF TreeInv, Subs, IsSubscription

\* The commit of an insert gives the user data of the action to its node, and
\* hands back what the node had.
LEMMA CommitInsertStep ==
  ASSUME TreeInv, ActionCommit, NEW a, a = Head(transaction), a.node \in DOMAIN tree, CommitInsert(a)
  PROVE  TreeInv' /\ Map!Next
<1> DEFINE n == a.node
           U == {tree[n].user} \ {0}
<1>1. /\ a \in Actions /\ 1 \in Inserts /\ a = transaction[1]
      /\ n \in Filters /\ a.user \in 1..Len(filter) /\ a.user # 0 /\ Len(filter) \in Nat
  <2>1. a \in Actions /\ 1 \in Inserts /\ a = transaction[1]
    BY CommitRest DEF Inserts, CommitInsert
  <2>2. Len(filter) \in Nat
    BY DEF TreeInv, TreeTypes
  <2> QED
    BY <2>1, <2>2 DEF TreeInv, UsersAreOnce
<1>2. /\ DOMAIN tree' = DOMAIN tree
      /\ tree' \in [DOMAIN tree' -> [filter : Nat, user : Nat]]
      /\ \A p \in DOMAIN tree : tree'[p].user = IF p = n THEN a.user ELSE tree[p].user
  BY <1>1, Zenon DEF CommitInsert, TreeInv, TreeTypes, Actions
<1>3. /\ cleaned' = cleaned \cup U
      /\ "double_clean_up" \in failed' => "double_clean_up" \in failed \/ U \cap cleaned # {}
  BY DEF CommitInsert, Destroy
<1>4. U \cap cleaned = {} /\ "double_clean_up" \notin failed'
  BY <1>3 DEF TreeInv, UsersAreOnce
<1>5. TreeTypes'
  BY <1>2, CommitRest, Zenon DEF TreeInv, TreeTypes
<1>6. UsersMove(1, n, a.user, U)
  <2>1. \E j \in Inserts : a.user = transaction[j].user /\ \A k \in Inserts' : k + 1 # j
    BY <1>1, CommitRest
  <2>2. \A v \in U : v # 0 /\ n \in DOMAIN tree /\ v = tree[n].user
    OBVIOUS
  <2>3. \A p \in DOMAIN tree' :
          p \in DOMAIN tree /\ tree'[p].user = IF p = n THEN a.user ELSE tree[p].user
    BY <1>2
  <2>4. /\ filter' = filter
        /\ \A k \in Inserts' : k \in Nat /\ k + 1 \in Inserts /\ transaction'[k] = transaction[k + 1]
    BY CommitRest
  <2> HIDE DEF n, U
  <2> QED
    BY <1>3, <1>4, <2>1, <2>2, <2>3, <2>4, Zenon DEF UsersMove
<1>7. UsersAreOnce'
  BY <1>6, UsersStep DEF TreeInv
<1>8. NodesAreNew'
  BY <1>2, CommitRest DEF TreeInv, NodesAreNew
<1>9. Map!Subscribe(n, a.user)
  <2> HIDE DEF n
  <2>1. {p \in DOMAIN tree' : tree'[p].user # 0} = {p \in DOMAIN tree : tree[p].user # 0} \cup {n}
    BY <1>1, <1>2 DEF n
  <2>2. /\ DOMAIN Subs' = DOMAIN Subs \cup {n}
        /\ \A g \in DOMAIN Subs' : Subs'[g] = IF g = n THEN a.user ELSE Subs[g]
    <3>1. DOMAIN Subs' = DOMAIN Subs \cup {n} /\ DOMAIN Subs' \subseteq DOMAIN tree
      BY <1>2, <2>1, SubsAreUsers
    <3>2. ASSUME NEW g \in DOMAIN Subs' PROVE Subs'[g] = IF g = n THEN a.user ELSE Subs[g]
      <4>1. Subs'[g] = IF g = n THEN a.user ELSE tree[g].user
        BY <1>2, <3>1, SubsAreUsers
      <4>2. g # n => Subs[g] = tree[g].user
        BY <3>1, SubsAreUsers
      <4> QED
        BY <4>1, <4>2
    <3> QED
      BY <3>1, <3>2
  <2>3. Subs' = [g \in DOMAIN Subs \cup {n} |-> IF g = n THEN a.user ELSE Subs[g]]
    BY <2>2, SubsAreUsers
  <2> QED
    BY <2>3 DEF Map!Subscribe, Subs
<1>10. a.user \in Strings
  BY <1>1, TreeAssumption DEF Strings, TreeInv, TreeTypes
<1> QED
  BY <1>1, <1>5, <1>7, <1>8, <1>9, <1>10 DEF TreeInv, Map!Next

\* The nodes that a remove takes away are its own and nodes without user data, and
\* no other node is below them.
LEMMA ChildlessNodes ==
  ASSUME TreeInv, NEW n \in DOMAIN tree
  PROVE  /\ \A p \in Childless(n) : p \in DOMAIN tree /\ (p = n \/ tree[p].user = 0)
         /\ \A p \in DOMAIN tree : \A r \in Way(p) : r \in Childless(n) => p \in Childless(n)
<1>1. n \in Paths /\ Way(n) \subseteq DOMAIN tree /\ DOMAIN tree \subseteq Paths
  BY DEF TreeInv, TreeTypes, NodesAreNew, Paths
<1>2. ASSUME NEW p \in Childless(n)
      PROVE  p \in DOMAIN tree /\ (p = n \/ tree[p].user = 0)
  <2>1. p \in Way(n) /\ p \in DOMAIN tree
    BY <1>1 DEF Childless
  <2>2. Above(p, p)
    BY <2>1, <1>1, AboveOrder DEF Paths
  <2> QED
    BY <2>1, <2>2 DEF Childless
<1>3. ASSUME NEW p \in DOMAIN tree, NEW r \in Way(p), r \in Childless(n)
      PROVE  p \in Childless(n)
  <2>1. p \in Paths /\ r \in Paths /\ Above(r, p)
    BY <1>1, WayIsAbove
  <2>2. p \in Way(n)
    BY <1>3, <2>1 DEF Childless
  <2>3. \A q \in DOMAIN tree : Above(p, q) => Above(r, q)
    BY <2>1, <1>1, AboveOrder DEF Paths
  <2> QED
    BY <1>3, <2>2, <2>3 DEF Childless
<1> QED
  BY <1>2, <1>3

\* What the commit of a remove does to the nodes, with or without a new string.
LEMMA CommitRemoveTree ==
  ASSUME TreeInv, NEW a, a.node \in DOMAIN tree, CommitRemove(a),
         failed' # failed \cup {"no_new_filter"} \/ tree' # tree \/ cleaned' # cleaned
  PROVE  /\ DOMAIN tree' = DOMAIN tree \ Childless(a.node)
         /\ tree' \in [DOMAIN tree' -> [filter : Nat, user : Nat]]
         /\ \A p \in DOMAIN tree' : tree'[p].user = IF p = a.node THEN 0 ELSE tree[p].user
         /\ cleaned' = cleaned \cup ({tree[a.node].user} \ {0})
         /\ "double_clean_up" \in failed' =>
              "double_clean_up" \in failed \/ ({tree[a.node].user} \ {0}) \cap cleaned # {}
<1> DEFINE n       == a.node
           old     == tree[n].filter
           gone    == Childless(n)
           left    == Restrict([tree EXCEPT ![n].user = 0], DOMAIN tree \ gone)
           mothers == { p \in Way(n) \ gone : left[p].filter = old }
<1>1. /\ DOMAIN left = DOMAIN tree \ gone
      /\ \A p \in DOMAIN left : left[p] \in [filter : Nat, user : Nat]
      /\ \A p \in DOMAIN left : left[p].user = IF p = n THEN 0 ELSE tree[p].user
      /\ left = [p \in DOMAIN left |-> left[p]]
  BY Zenon DEF Restrict, TreeInv, TreeTypes
<1>2. CASE /\ tree' = left
           /\ Destroy({tree[p].filter : p \in gone \cap owners}, {tree[n].user} \ {0})
  BY <1>1, <1>2, Zenon DEF Destroy
<1>3. ASSUME NEW p \in mothers, NEW s \in NextStrings(left, p, old),
             tree' = [q \in DOMAIN left |->
                        IF q \in mothers THEN [left[q] EXCEPT !.filter = s] ELSE left[q]],
             Destroy({old} \cup {tree[q].filter : q \in (gone \cap owners) \ {n}}, {tree[n].user} \ {0})
      PROVE  /\ DOMAIN tree' = DOMAIN tree \ gone
             /\ tree' \in [DOMAIN tree' -> [filter : Nat, user : Nat]]
             /\ \A q \in DOMAIN tree' : tree'[q].user = IF q = n THEN 0 ELSE tree[q].user
             /\ cleaned' = cleaned \cup ({tree[n].user} \ {0})
             /\ "double_clean_up" \in failed' =>
                  "double_clean_up" \in failed \/ ({tree[n].user} \ {0}) \cap cleaned # {}
  <2> HIDE DEF left, mothers, gone
  <2>1. s \in Nat
    BY <1>1 DEF NextStrings
  <2>2. \A q \in DOMAIN left :
          tree'[q] \in [filter : Nat, user : Nat] /\ tree'[q].user = left[q].user
    BY <1>1, <1>3, <2>1
  <2>3. DOMAIN tree' = DOMAIN left /\ tree' = [q \in DOMAIN left |-> tree'[q]]
    BY <1>3
  <2> QED
    BY <1>1, <1>3, <2>2, <2>3 DEF Destroy
<1> QED
  BY <1>2, <1>3, Zenon DEF CommitRemove

\* The commit of a remove takes the entry of its node away, if it has one.
LEMMA CommitRemoveStep ==
  ASSUME TreeInv, ActionCommit, NEW a, a = Head(transaction), a.node \in DOMAIN tree, CommitRemove(a)
  PROVE  TreeInv' /\ (Map!Next \/ Subs' = Subs)
<1> DEFINE n == a.node
           U == {tree[n].user} \ {0}
<1>1. CASE failed' = failed \cup {"no_new_filter"} /\ tree' = tree /\ cleaned' = cleaned
  BY <1>1, CommitFails DEF Labels
<1>2. CASE ~(failed' = failed \cup {"no_new_filter"} /\ tree' = tree /\ cleaned' = cleaned)
  <2>1. n \in Filters
    <3>1. a \in Actions
      BY CommitRest
    <3>2. n # <<>>
      BY DEF TreeInv, TreeTypes
    <3> QED
      BY <3>1, <3>2 DEF Actions
  <2>2. /\ DOMAIN tree' = DOMAIN tree \ Childless(n)
        /\ tree' \in [DOMAIN tree' -> [filter : Nat, user : Nat]]
        /\ \A p \in DOMAIN tree' : tree'[p].user = IF p = n THEN 0 ELSE tree[p].user
        /\ cleaned' = cleaned \cup U
        /\ "double_clean_up" \in failed' => "double_clean_up" \in failed \/ U \cap cleaned # {}
    BY <1>2, CommitRemoveTree
  <2>3. U \cap cleaned = {} /\ "double_clean_up" \notin failed'
    BY <2>2 DEF TreeInv, UsersAreOnce
  <2>4. TreeTypes'
    BY <2>2, CommitRest, Zenon DEF TreeInv, TreeTypes
  <2>5. UsersMove(1, n, 0, U)
    BY <2>2, <2>3, CommitRest DEF UsersMove
  <2>6. UsersAreOnce'
    BY <2>5, UsersStep DEF TreeInv
  <2>7. \A p \in DOMAIN tree' : Way(p) \subseteq DOMAIN tree'
    BY <2>2, ChildlessNodes DEF TreeInv, NodesAreNew
  <2>8. NodesAreNew'
    BY <2>7, CommitRest DEF NodesAreNew
  <2>9. /\ DOMAIN Subs' = DOMAIN Subs \ {n}
        /\ \A g \in DOMAIN Subs' : Subs'[g] = Subs[g]
    <3>1. \A p \in Childless(n) : p = n \/ tree[p].user = 0
      BY ChildlessNodes
    <3>2. {p \in DOMAIN tree' : tree'[p].user # 0} = {p \in DOMAIN tree : tree[p].user # 0} \ {n}
      BY <3>1, <2>2
    <3>3. \A g \in DOMAIN Subs' : g \in DOMAIN tree' /\ g # n
      BY <3>2, SubsAreUsers
    <3> QED
      BY <3>2, <3>3, <2>2, SubsAreUsers
  <2>10. Subs' = [g \in DOMAIN Subs \ {n} |-> Subs[g]]
    BY <2>9, SubsAreUsers
  <2>11. CASE n \in DOMAIN Subs
    <3>1. Map!Unsubscribe(n)
      BY <2>10, <2>11 DEF Map!Unsubscribe, Subs
    <3> QED
      BY <3>1, <2>1, <2>4, <2>6, <2>8 DEF Map!Next, TreeInv
  <2>12. CASE n \notin DOMAIN Subs
    <3>1. DOMAIN Subs \ {n} = DOMAIN Subs /\ Subs = [g \in DOMAIN Subs |-> Subs[g]]
      BY <2>12 DEF Subs
    <3> QED
      BY <3>1, <2>10, <2>4, <2>6, <2>8 DEF TreeInv
  <2> QED
    BY <2>11, <2>12
<1> QED
  BY <1>1, <1>2

-----------------------------------------------------------------------------
(* Theorems *)

\* Every step keeps the invariant, and shows as a step of the map or not at all.
LEMMA TreeStep ==
  ASSUME TreeInv, [Next]_vars
  PROVE  TreeInv' /\ [Map!Next]_Subs
<1>1. ASSUME NEW f \in Filters, TransactionInsert(f) PROVE TreeInv' /\ [Map!Next]_Subs
  BY <1>1, InsertStep
<1>2. CASE (\E f \in Filters : TransactionRemove(f)) \/ Starts("commit") \/ Starts("roll_back")
  BY <1>2, QuietStep
<1>3. CASE ActionCommit
  <2> DEFINE a == Head(transaction)
  <2>1. CASE a.node \notin DOMAIN tree
    <3>1. CommitMissing(a)
      BY <1>3, <2>1 DEF ActionCommit
    <3>2. CASE a.node = <<>>
      BY <1>3, <3>1, <3>2, CommitFails DEF CommitMissing, Labels
    <3>3. CASE a.node # <<>>
      BY <1>3, <3>1, <3>3, CommitFails DEF CommitMissing, Labels
    <3> QED
      BY <3>2, <3>3
  <2>2. CASE a.node \in DOMAIN tree
    <3>1. CommitInsert(a) \/ CommitRemove(a)
      BY <1>3, <2>2 DEF ActionCommit
    <3> QED
      BY <1>3, <2>2, <3>1, CommitInsertStep, CommitRemoveStep
  <2> QED
    BY <2>1, <2>2
<1>4. CASE ActionRollBack
  BY <1>4, RollBackStep
<1>5. CASE CleanUp
  <2>1. Map!Clear
    BY <1>5, CleanUpStep DEF Map!Clear, Subs
  <2> QED
    BY <2>1, <1>5, CleanUpStep DEF Map!Next
<1>6. CASE UNCHANGED vars
  <2>1. UNCHANGED <<filter, tree, transaction, phase, cleaned, failed>>
    BY <1>6 DEF vars
  <2>2. Inserts' = Inserts
    BY <2>1 DEF Inserts
  <2>3. TreeTypes' /\ NodesAreNew' /\ Subs' = Subs
    BY <2>1 DEF TreeInv, TreeTypes, NodesAreNew, Subs, IsSubscription
  <2>4. UsersAreOnce'
    BY <2>1, <2>2 DEF TreeInv, UsersAreOnce
  <2> QED
    BY <2>3, <2>4 DEF TreeInv
<1> QED
  BY <1>1, <1>2, <1>3, <1>4, <1>5, <1>6 DEF Next

\* An empty tree has nothing to go wrong, and stands for the empty map.
LEMMA TreeInit == Init => TreeInv /\ Map!Init
<1> SUFFICES ASSUME Init PROVE TreeInv /\ Map!Init
  OBVIOUS
<1>1. DOMAIN tree = {} /\ Inserts = {} /\ filter \in Seq(Filters) /\ Len(filter) = 0
  BY DEF Init, Inserts
<1>2. TreeTypes
  BY <1>1, TreeAssumption DEF Init, TreeTypes
<1>3. UsersAreOnce /\ NodesAreNew
  BY <1>1 DEF Init, UsersAreOnce, NodesAreNew
<1>4. Map!Init
  BY <1>1 DEF Map!Init
<1> QED
  BY <1>2, <1>3, <1>4 DEF TreeInv

\* User data that was handed back to cleanup is in no node any more and is not
\* handed back again, whatever is inserted, removed, rolled back and cleaned up.
THEOREM CleanedOnceHolds == Spec => []CleanedOnce
<1>1. Init => TreeInv
  BY TreeInit
<1>2. TreeInv /\ [Next]_vars => TreeInv'
  BY TreeStep
<1>3. TreeInv => CleanedOnce
  BY DEF TreeInv, UsersAreOnce, CleanedOnce
<1> QED
  BY <1>1, <1>2, <1>3, PTL DEF Spec

\* The tree is a map from filters to user data, whatever the filters share and
\* whatever calls are made: a commit changes the entry of its filter only, and
\* nodes, strings and roll backs do not show.
THEOREM MapImplementedHolds == Spec => MapImplemented
<1>1. Init => TreeInv /\ Map!Init
  BY TreeInit
<1>2. TreeInv /\ [Next]_vars => TreeInv' /\ [Map!Next]_Subs
  BY TreeStep
<1> QED
  BY <1>1, <1>2, PTL DEF Spec, MapImplemented, Map!Spec, Subs
=============================================================================
