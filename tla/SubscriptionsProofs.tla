------------------------ MODULE SubscriptionsProofs ------------------------
(***************************************************************************)
(* Proofs about MqttSubscriptions: the strings that a SUBSCRIBE packet and *)
(* its SUBACK refer to are there, for a program that subscribes to filters *)
(* that it has not subscribed to and unsubscribes after the SUBACK only.   *)
(***************************************************************************)
EXTENDS MqttSubscriptions, TopicStringsProofs

\* What subscribing does to the tree, the tree can do.
LEMMA TreeSteps == [SNext]_svars => [Next]_vars
<1> SUFFICES ASSUME [SNext]_svars PROVE [Next]_vars
  OBVIOUS
<1>1. CASE UNCHANGED svars
  BY <1>1 DEF svars
<1>2. ASSUME NEW f \in Filters, SubscribeAdds(f) \/ UnsubscribeRemoves(f) PROVE [Next]_vars
  BY <1>2 DEF SubscribeAdds, UnsubscribeRemoves, Next
<1>3. CASE SubscribeSends \/ UnsubscribeSends
  BY <1>3 DEF SubscribeSends, UnsubscribeSends, Next
<1>4. ASSUME NEW i \in unacked, Suback(i) PROVE [Next]_vars
  BY <1>4 DEF Suback
<1> QED
  BY <1>1, <1>2, <1>3, <1>4 DEF SNext, Next

\* So the invariants of the tree hold, and all theorems about it.
THEOREM TreeIsUsed == SSpec => Spec
<1>1. SInit => Init
  BY DEF SInit
<1> QED
  BY <1>1, TreeSteps, PTL DEF SSpec, Spec

\* The strings are in order for a careful program.
LEMMA CarefulIsOrdinary ==
  ASSUME CarefulCalls, StringsInv, SubackFit
  PROVE  StringsFit /\ ActionsFit /\ Ordinary
  BY DEF CarefulCalls, StringsInv, SubackFit, OrdinaryFit, Ordinary

\* The calls made are those the program makes.
LEMMA MadeAreCalls ==
  ASSUME made \subseteq Calls, [Next]_vars
  PROVE  made' \subseteq Calls
  BY Zenon DEF Next, TransactionInsert, TransactionRemove, Takes, Starts, ActionCommit, ActionRollBack,
      CleanUp, Makes, vars

\* A filter that is not subscribed to is inserted with a string of its own.
LEMMA AddStep ==
  ASSUME CarefulCalls, StringsInv, SubackFit, NEW f \in Filters, SubscribeAdds(f)
  PROVE  /\ \A k \in Inserts' : transaction'[k].string = transaction'[k].user
         /\ PacketCursorsAreValid => PacketCursorsAreValid'
         /\ made = {} =>
              /\ \A i \in unacked' : \E p \in owners' : tree'[p].user = i /\ tree'[p].filter = i
              /\ Inserts' = DOMAIN transaction'
<1>1. TransactionInsert(f) /\ TreeInv /\ unacked' = unacked /\ ~IsSubscription(f)
  BY DEF SubscribeAdds, StringsInv, CarefulCalls
<1>2. PICK new, i, a : InsertAdds(f, new, i, a) /\ transaction' = Append(transaction, a)
  BY <1>1, InsertDoes
<1>3. PICK m : /\ DOMAIN transaction' = DOMAIN transaction \cup {m} /\ transaction'[m] = a
               /\ \A k \in DOMAIN transaction : transaction'[k] = transaction[k]
               /\ Inserts' = Inserts \cup {m}
  BY <1>1, <1>2, AppendActions, Zenon DEF InsertAdds
<1>4. StringsFit
  BY CarefulIsOrdinary
<1>5. f \notin owners /\ freed' = freed /\ a.string = i /\ a.user = i /\ i \notin freed /\ phase = "open"
  <2>1. f \notin owners
    BY <1>1, <1>4 DEF StringsFit, IsSubscription
  <2>2. i \notin freed
    BY <1>2, <1>4 DEF StringsFit, InsertAdds, TreeInv, TreeTypes
  <2> QED
    BY <1>2, <2>1, <2>2 DEF InsertAdds
<1>6. Inserts = DOMAIN transaction
  BY <1>1, Zenon DEF Inserts, TransactionInsert, Takes
<1>7. \A k \in Inserts' : transaction'[k].string = transaction'[k].user
  BY <1>3, <1>5, <1>6 DEF SubackFit
<1>8. PacketCursorsAreValid => PacketCursorsAreValid'
  BY <1>3, <1>5 DEF PacketCursorsAreValid
<1>9. ASSUME made = {}, NEW j \in unacked'
      PROVE  \E p \in owners' : tree'[p].user = j /\ tree'[p].filter = j
  <2>1. PICK p \in owners : tree[p].user = j /\ tree[p].filter = j
    BY <1>1, <1>5, <1>9 DEF SubackFit
  <2>2. p \in DOMAIN tree
    BY <1>4 DEF StringsFit
  <2> QED
    BY <1>2, <2>1, <2>2 DEF InsertAdds
<1> QED
  BY <1>3, <1>6, <1>7, <1>8, <1>9

\* A filter is removed after its SUBACK.
LEMMA RemoveStep ==
  ASSUME CarefulCalls, StringsInv, SubackFit, NEW f \in Filters, UnsubscribeRemoves(f), Ordinary'
  PROVE  /\ UNCHANGED <<tree, owners, freed, cleaned, phase, unacked>> /\ Inserts' = {}
         /\ phase = "open"
         /\ \A k \in DOMAIN transaction' :
              transaction'[k].user = 0 /\ tree[transaction'[k].node].user \notin unacked
<1>1. /\ TransactionRemove(f) /\ TreeInv /\ unacked' = unacked /\ transaction = <<>>
      /\ tree[f].user \notin unacked
  BY DEF UnsubscribeRemoves, StringsInv, CarefulCalls
<1>2. IsSubscription(f)
  BY <1>1, OrdinaryTakes DEF TransactionRemove
<1> DEFINE a == Action("remove", f, 0, 0, <<>>)
<1>3. a \in Actions /\ a.mode = "remove" /\ a.node = f /\ a.user = 0
  BY DEF Action, Actions
<1>4. /\ transaction' = Append(transaction, a) /\ phase = "open"
      /\ UNCHANGED <<tree, owners, freed, cleaned, phase, unacked>>
  BY <1>1, <1>2 DEF TransactionRemove, Takes, IsSubscription
<1> HIDE DEF a
<1>5. PICK m : /\ DOMAIN transaction' = DOMAIN transaction \cup {m}
               /\ transaction'[m] = a /\ Inserts' = Inserts
  BY <1>1, <1>3, <1>4, AppendActions, Zenon
<1>6. DOMAIN transaction = {} /\ Inserts = {}
  BY <1>1 DEF Inserts
<1> QED
  BY <1>1, <1>3, <1>4, <1>5, <1>6

\* The commit of an insert gives the node the string and the user data of the
\* action; the commit of a remove leaves other nodes theirs.
LEMMA CommitStep ==
  ASSUME CarefulCalls, StringsInv, SubackFit, ActionCommit, made = {}
  PROVE  /\ \A i \in unacked :
              \/ \E p \in owners' : tree'[p].user = i /\ tree'[p].filter = i
              \/ phase' = "commit" /\ \E k \in Inserts' : transaction'[k].user = i
         /\ \A k \in DOMAIN transaction' \ Inserts' : tree'[transaction'[k].node].user \notin unacked
<1>1. TreeInv /\ LeavesFit /\ StringsFit /\ ActionsFit
  BY CarefulIsOrdinary DEF StringsInv
<1>2. /\ ActionsLeft(1) /\ 1 \in DOMAIN transaction /\ phase = "commit"
      /\ phase' = "commit" \/ Inserts' = {}
  BY <1>1, CommitTakes
<1>3. owners \subseteq DOMAIN tree
  BY <1>1 DEF StringsFit
<1>4. CASE 1 \in Inserts
  <2> DEFINE a == transaction[1]
             n == a.node
  <2>1. n \in DOMAIN tree /\ CommitInsert(a)
    BY <1>1, <1>2, <1>4, CommitTakes DEF LeavesFit, Inserts, CommitRemove
  <2>2. a.string = a.user /\ a.user # 0 /\ n \notin owners
    BY <1>1, <1>4, <2>1, CommitInsertDoes DEF SubackFit, ActionsFit
  <2>3. /\ \A p \in DOMAIN tree : p # n => tree'[p] = tree[p]
        /\ tree'[n].filter = a.user /\ tree'[n].user = a.user /\ owners' = owners \cup {n}
    BY <1>1, <2>1, <2>2, CommitInsertDoes
  <2>4. ASSUME NEW i \in unacked
        PROVE  \/ \E p \in owners' : tree'[p].user = i /\ tree'[p].filter = i
               \/ phase' = "commit" /\ \E k \in Inserts' : transaction'[k].user = i
    <3>1. CASE \E p \in owners : tree[p].user = i /\ tree[p].filter = i
      BY <1>3, <2>2, <2>3, <3>1
    <3>2. ASSUME NEW k \in Inserts, transaction[k].user = i
          PROVE  \/ \E p \in owners' : tree'[p].user = i /\ tree'[p].filter = i
                 \/ phase' = "commit" /\ \E j \in Inserts' : transaction'[j].user = i
      <4>1. CASE k = 1
        BY <2>3, <3>2, <4>1
      <4>2. CASE k # 1
        <5>1. k - 1 \in DOMAIN transaction' /\ k - 1 + 1 = k
          BY <1>1, <4>2, CommitTakes DEF Inserts
        <5>2. transaction'[k - 1] = transaction[k] /\ k - 1 \in Inserts'
          BY <5>1, <1>2 DEF ActionsLeft, Inserts
        <5> QED
          BY <1>2, <3>2, <5>2
      <4> QED
        BY <4>1, <4>2
    <3> QED
      BY <3>1, <3>2 DEF SubackFit
  <2>5. DOMAIN transaction' \ Inserts' = {}
    BY <1>1, <1>2, <1>4, LeftActions DEF LeavesFit
  <2> QED
    BY <2>4, <2>5
<1>5. CASE 1 \notin Inserts
  <2>1. PICK n, old : n = transaction[1].node /\ Removes(n, old)
    BY <1>1, <1>5, CommitRemoveDoes
  <2>2. Inserts = {} /\ owners' = {p \in DOMAIN tree' : tree'[p].user # 0} /\ ActionsFit' /\ Inserts' = {}
    BY <1>1, <1>2, <1>5, StringsCommitRemove, LeftActions DEF LeavesFit, StringsFit
  <2>3. tree[n].user \notin unacked
    BY <1>2, <1>5, <2>1 DEF SubackFit
  <2>4. ASSUME NEW p \in owners, p # n
        PROVE  p \in owners' /\ tree'[p].filter = tree[p].filter /\ tree'[p].user = tree[p].user
    <3>1. p \in owners' /\ p \in DOMAIN tree'
      BY <2>1, <2>2, <2>4 DEF Removes
    <3>2. filter[tree[p].filter] = p /\ filter[old] = n
      BY <1>1, <2>1 DEF Removes, StringsFit
    <3> QED
      BY <2>1, <2>4, <3>1, <3>2 DEF Removes
  <2>5. ASSUME NEW i \in unacked
        PROVE  \E p \in owners' : tree'[p].user = i /\ tree'[p].filter = i
    <3>1. PICK p \in owners : tree[p].user = i /\ tree[p].filter = i
      BY <2>2 DEF SubackFit
    <3> QED
      BY <2>3, <2>4, <3>1
  <2>6. ASSUME NEW k \in DOMAIN transaction' \ Inserts'
        PROVE  tree'[transaction'[k].node].user \notin unacked
    <3>1. k + 1 \in DOMAIN transaction \ Inserts /\ transaction'[k] = transaction[k + 1]
      BY <1>2, LeftActions DEF ActionsLeft
    <3>2. tree[transaction'[k].node].user \notin unacked /\ transaction'[k].node \in owners
      BY <1>1, <3>1 DEF SubackFit, ActionsFit
    <3>3. transaction'[k].node # n
      BY <2>1, <2>2 DEF ActionsFit, Removes
    <3> QED
      BY <2>4, <3>2, <3>3
  <2> QED
    BY <2>5, <2>6
<1> QED
  BY <1>4, <1>5

\* What a careful program relies on.
SubsInv == StringsInv /\ SubackFit /\ PacketCursorsAreValid

\* Starting a commit or a roll back leaves the actions as they are.
LEMMA SendStep ==
  ASSUME CarefulCalls, StringsInv, SubackFit, SubscribeSends \/ UnsubscribeSends
  PROVE  SubackFit' /\ PacketCursorsAreValid'
<1>1. LeavesFit /\ transaction # <<>> /\ (Starts("commit") \/ Starts("roll_back"))
  BY DEF StringsInv, SubscribeSends, UnsubscribeSends
<1>2. /\ UNCHANGED <<tree, owners, freed, cleaned, transaction>> /\ phase = "open" /\ phase' # "open"
      /\ phase' = "commit" \/ made' # {}
      /\ made \subseteq made'
  BY <1>1 DEF Starts, Makes
<1>3. Inserts' = Inserts
  BY <1>2 DEF Inserts
<1>4. made' \subseteq Calls
  BY <1>1, MadeAreCalls DEF SubackFit, Next
<1>5. 1 \in DOMAIN transaction
  BY <1>1 DEF StringsInv, TreeInv, TreeTypes
<1>6. ASSUME made' = {}, NEW i \in unacked'
      PROVE  \/ \E p \in owners' : tree'[p].user = i /\ tree'[p].filter = i
             \/ phase' = "commit" /\ \E k \in Inserts' : transaction'[k].user = i
  <2>1. CASE i \in unacked
    BY <1>2, <1>3, <1>6, <2>1 DEF SubackFit
  <2>2. CASE SubscribeSends /\ i \notin unacked
    <3>1. PICK k \in DOMAIN transaction : i = transaction[k].user
      BY <1>6, <2>2 DEF SubscribeSends
    <3>2. Inserts = DOMAIN transaction
      BY <1>1, <1>5, <2>2 DEF SubscribeSends, LeavesFit, Inserts
    <3> QED
      BY <1>2, <1>3, <1>6, <3>1, <3>2
  <2> QED
    BY <1>6, <2>1, <2>2 DEF UnsubscribeSends
<1>7. ASSUME made' = {}, NEW k \in DOMAIN transaction' \ Inserts'
      PROVE  tree'[transaction'[k].node].user \notin unacked'
  <2>1. CASE SubscribeSends
    BY <1>1, <1>2, <1>3, <1>7, <1>5, <2>1 DEF SubscribeSends, LeavesFit, Inserts
  <2>2. CASE UnsubscribeSends
    BY <1>2, <1>3, <1>7, <2>2 DEF SubackFit, UnsubscribeSends
  <2> QED
    BY <2>1, <2>2
<1> QED
  BY <1>2, <1>3, <1>4, <1>6, <1>7 DEF SubackFit, PacketCursorsAreValid

\* A step of the commit or of the roll back.
LEMMA ActionStep ==
  ASSUME CarefulCalls, SubsInv, ActionCommit \/ ActionRollBack, UNCHANGED unacked
  PROVE  SubackFit' /\ PacketCursorsAreValid'
<1>1. TreeInv /\ StringsInv /\ SubackFit
  BY DEF SubsInv, StringsInv
<1>2. ActionsLeft(1) \/ ActionsLeft(0)
  BY <1>1, CommitTakes, RollBackTakes, Zenon
<1>3. \A k \in Inserts' : transaction'[k].string = transaction'[k].user
  BY <1>1, <1>2, LeftActions DEF SubackFit
<1>4. PacketCursorsAreValid'
  <2>1. phase # "open" /\ phase' = IF transaction' = <<>> THEN "open" ELSE phase
    <3>1. ASSUME NEW rest, Done(rest)
          PROVE  phase' = IF transaction' = <<>> THEN "open" ELSE phase
      BY <3>1 DEF Done
    <3> QED
      BY <3>1, Zenon DEF ActionCommit, ActionRollBack
  <2> QED
    BY <2>1 DEF PacketCursorsAreValid
<1>5. made' = made
  BY <1>1, CommitTakes, RollBackTakes, Zenon
<1>6. ActionRollBack => made # {}
  BY <1>1 DEF ActionRollBack, StringsInv, HeldFit
<1>7. CASE made # {}
  BY <1>1, <1>3, <1>4, <1>5, <1>7 DEF SubackFit
<1>8. CASE made = {}
  BY <1>1, <1>3, <1>4, <1>5, <1>6, <1>8, CommitStep DEF SubackFit
<1> QED
  BY <1>7, <1>8

\* The invariants hold of the empty tree, and every step keeps them.
LEMMA SubsInvStep ==
  CarefulCalls => (SInit => SubsInv) /\ (SubsInv /\ [SNext]_svars => SubsInv')
<1> SUFFICES ASSUME CarefulCalls
             PROVE  (SInit => SubsInv) /\ (SubsInv /\ [SNext]_svars => SubsInv')
  OBVIOUS
<1>1. SInit => SubsInv
  <2>1. Init => StringsInv
    BY StringsInvStep
  <2> QED
    BY <2>1 DEF SInit, Init, SubsInv, SubackFit, PacketCursorsAreValid, Inserts
<1>2. ASSUME SubsInv, [SNext]_svars PROVE SubsInv'
  <2>1. [Next]_vars /\ StringsInv /\ SubackFit /\ PacketCursorsAreValid
    BY <1>2, TreeSteps DEF SubsInv
  <2>2. StringsInv' /\ made' \subseteq Calls
    BY <2>1, StringsInvStep, MadeAreCalls DEF SubackFit
  <2> SUFFICES SubackFit' /\ PacketCursorsAreValid'
    BY <2>2 DEF SubsInv
  <2>3. ASSUME NEW f \in Filters, SubscribeAdds(f) PROVE SubackFit' /\ PacketCursorsAreValid'
    <3>1. made \subseteq made' /\ unacked' = unacked
      BY <2>3 DEF SubscribeAdds, TransactionInsert, Takes, Makes
    <3> QED
      BY <2>1, <2>2, <2>3, <3>1, AddStep DEF SubackFit
  <2>4. ASSUME NEW f \in Filters, UnsubscribeRemoves(f) PROVE SubackFit' /\ PacketCursorsAreValid'
    <3>1. Ordinary' /\ made \subseteq made'
      BY <2>2, <2>4 DEF CarefulCalls, Ordinary, UnsubscribeRemoves, TransactionRemove, Takes, Makes
    <3>2. /\ UNCHANGED <<tree, owners, freed, cleaned, phase, unacked>> /\ Inserts' = {}
          /\ phase = "open"
          /\ \A k \in DOMAIN transaction' :
               transaction'[k].user = 0 /\ tree[transaction'[k].node].user \notin unacked
      BY <2>1, <2>4, <3>1, RemoveStep
    <3>3. 0 \notin freed
      BY <2>1, CarefulIsOrdinary DEF StringsFit
    <3> QED
      BY <2>1, <2>2, <3>1, <3>2, <3>3 DEF SubackFit, PacketCursorsAreValid
  <2>5. CASE SubscribeSends \/ UnsubscribeSends
    BY <2>1, <2>5, SendStep
  <2>6. CASE (ActionCommit \/ ActionRollBack) /\ UNCHANGED unacked
    BY <1>2, <2>6, ActionStep
  <2>7. CASE UNCHANGED vars /\ unacked' \subseteq unacked
    <3>1. Inserts' = Inserts
      BY <2>7 DEF vars, Inserts
    <3> QED
      BY <2>1, <2>7, <3>1 DEF vars, SubackFit, PacketCursorsAreValid
  <2> QED
    BY <1>2, <2>3, <2>4, <2>5, <2>6, <2>7 DEF SNext, Suback, svars
<1> QED
  BY <1>1, <1>2

\* They always hold for a careful program that puts no filter twice into a packet.
THEOREM SubscriptionsCorrect == CarefulCalls => (SSpec => []SubsInv)
<1> SUFFICES ASSUME CarefulCalls PROVE SSpec => []SubsInv
  OBVIOUS
<1>1. (SInit => SubsInv) /\ (SubsInv /\ [SNext]_svars => SubsInv')
  BY SubsInvStep
<1> QED
  BY <1>1, PTL DEF SSpec

\* The packet that a careful program's s_subscribe_send encodes reads no string that
\* the insert has destroyed, however many filters it has.
THEOREM PacketCursorsAreValidHolds == CarefulCalls => (SSpec => []PacketCursorsAreValid)
<1> SUFFICES ASSUME CarefulCalls PROVE SSpec => []PacketCursorsAreValid
  OBVIOUS
<1>1. SSpec => []SubsInv
  BY SubscriptionsCorrect
<1>2. SubsInv => PacketCursorsAreValid
  BY DEF SubsInv
<1> QED
  BY <1>1, <1>2, PTL

\* A careful program's on_suback is given the filter of a subscribe_task_topic that
\* has not been released, as long as no send fails.
THEOREM SubackTopicIsLiveHolds == CarefulCalls => (SSpec => []SubackTopicIsLive)
<1> SUFFICES ASSUME CarefulCalls PROVE SSpec => []SubackTopicIsLive
  OBVIOUS
<1>1. SSpec => []SubsInv
  BY SubscriptionsCorrect
<1>2. ASSUME SubsInv, made = {}, Quiet, NEW i \in unacked
      PROVE  i \notin freed /\ i \notin cleaned
  <2>1. StringsFit /\ TreeInv
    BY <1>2, CarefulIsOrdinary DEF SubsInv, StringsInv
  <2>2. PICK p \in owners : tree[p].user = i /\ tree[p].filter = i
    BY <1>2 DEF SubsInv, SubackFit, Quiet
  <2>3. p \in DOMAIN tree /\ i \notin freed
    BY <2>1, <2>2 DEF StringsFit
  <2>4. i \notin cleaned
    BY <2>1, <2>2, <2>3 DEF TreeInv, UsersAreOnce
  <2> QED
    BY <2>3, <2>4
<1>3. SubsInv => SubackTopicIsLive
  BY <1>2 DEF SubackTopicIsLive
<1> QED
  BY <1>1, <1>3, PTL
=============================================================================
