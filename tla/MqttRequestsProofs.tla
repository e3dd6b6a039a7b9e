------------------------- MODULE MqttRequestsProofs -------------------------
(***************************************************************************)
(* Proofs about MqttRequests, for any number of requests and of ids.       *)
(***************************************************************************)
EXTENDS MqttRequests, TLAPS

-----------------------------------------------------------------------------
(* Types *)

\* The types hold at the start, ...
LEMMA FieldsInit == Init => Fields
<1> SUFFICES ASSUME Init PROVE Fields
  OBVIOUS
<1>1. kind \in [Requests -> KindNames]
  BY RequestsAssumption DEF Init
<1>2. /\ acks \in [Requests -> 0..MaxSends] /\ recs \in [Requests -> 0..MaxSends]
      /\ id \in [Requests -> 0..MaxId] /\ done \in [Requests -> 0..2]
  BY RequestsAssumption DEF Init
<1> QED
  BY <1>1, <1>2 DEF Init, Fields, States, Idle

\* on_complete is called: the counters keep their types.
LEMMA CompleteType ==
  ASSUME Fields, NEW r \in Requests, Complete(r)
  PROVE  done' \in [Requests -> 0..2] /\ failed' \subseteq Labels
<1>1. CASE kind[r] = "ping"
  BY <1>1 DEF Complete, Fields
<1>2. CASE kind[r] # "ping"
  <2>1. failed' \subseteq Labels
    BY <1>2, Zenon DEF Complete, Fields, Labels
  <2>2. done' = [done EXCEPT ![r] = IF @ = 2 THEN 2 ELSE @ + 1]
    BY <1>2 DEF Complete
  <2>3. done' \in [Requests -> 0..2]
    BY <2>2 DEF Fields
  <2> QED BY <2>1, <2>3
<1> QED BY <1>1, <1>2

\* s_request_timeout_task, wherever it is called from.
LEMMA TaskType ==
  ASSUME Fields, NEW r \in Requests, NEW q \in SUBSET Requests, RequestTask(r, q)
  PROVE  /\ mem' \in [Requests -> {"unused", "live", "released"}]
         /\ initiated' \subseteq Requests /\ completed' \subseteq Requests
         /\ cancelled' \subseteq Requests
         /\ table' \in [Ids -> Requests \cup {NoRequest}]
         /\ pending' \subseteq Requests /\ tasks' \subseteq Requests
         /\ acks' \in [Requests -> 0..MaxSends] /\ recs' \in [Requests -> 0..MaxSends]
         /\ done' \in [Requests -> 0..2]
         /\ failed' \subseteq Labels
<1>1. CASE RunCancelled(r, q)
  BY <1>1 DEF Fields, RunCancelled, flags, wire
<1>2. CASE RunCompleted(r, q)
  BY <1>2, Zenon DEF Fields, RunCompleted, ReleaseRequest, wire
<1>3. CASE RunFinishes(r, q)
  <2>1. done' \in [Requests -> 0..2] /\ failed' \subseteq Labels
    BY <1>3, CompleteType DEF RunFinishes
  <2> QED
    BY <1>3, <2>1, Zenon DEF Fields, RunFinishes, ReleaseRequest, wire
<1>4. CASE RunSends(r, q)
  <2>1. PICK s \in SendRequest(r) :
          /\ s.answer = "ack" => acks[r] < MaxSends
          /\ s.answer = "rec" => recs[r] < MaxSends
          /\ acks' = [acks EXCEPT ![r] = IF s.answer = "ack" THEN @ + 1 ELSE @]
          /\ recs' = [recs EXCEPT ![r] = IF s.answer = "rec" THEN @ + 1 ELSE @]
    BY <1>4, Zenon DEF RunSends
  <2>2. acks' \in [Requests -> 0..MaxSends] /\ recs' \in [Requests -> 0..MaxSends]
    BY <2>1, RequestsAssumption DEF Fields
  <2> QED
    BY <1>4, <2>2 DEF Fields, RunSends
<1> QED BY <1>1, <1>2, <1>3, <1>4 DEF RequestTask

\* ... and every step keeps them.
LEMMA FieldsNext == ASSUME Fields, [Next]_vars PROVE Fields'
<1> USE RequestsAssumption
<1>1. ASSUME NEW r \in Requests, CreateStores(r) PROVE Fields'
  <2>1. CASE \A i \in Ids : table[i] # NoRequest
    BY <1>1, <2>1, Zenon DEF Fields, CreateStores, conn, flags, wire, Labels
  <2>2. ASSUME NEW i \in Ids, id' = [id EXCEPT ![r] = i], table' = [table EXCEPT ![i] = r],
               mem' = [mem EXCEPT ![r] = "live"], caller' = [pc |-> "state", r |-> r],
               UNCHANGED failed
        PROVE  Fields'
    <3>1. id' \in [Requests -> 0..MaxId]
      BY <2>2 DEF Fields, Ids
    <3>2. caller' \in [pc : {"state", "push", "dispatch"}, r : Requests]
      BY <2>2
    <3> QED
      BY <1>1, <2>2, <3>1, <3>2 DEF Fields, CreateStores, conn, flags, wire
  <2> QED BY <1>1, <2>1, <2>2 DEF CreateStores
<1>3. ASSUME NEW r \in Requests, TaskRuns(r) PROVE Fields'
  <2>1. RequestTask(r, tasks \ {r}) /\ tasks \ {r} \in SUBSET Requests
    BY <1>3 DEF TaskRuns, Fields
  <2> QED BY <1>3, <2>1, TaskType DEF TaskRuns, Fields, conn
<1>4. ASSUME NEW r \in Requests, Ack(r) PROVE Fields'
  <2>1. acks' \in [Requests -> 0..MaxSends]
    BY <1>4 DEF Ack, Fields
  <2>2. /\ done' \in [Requests -> 0..2] /\ failed' \subseteq Labels
        /\ completed' \subseteq Requests
    BY <1>4, CompleteType, Zenon DEF Ack, Fields, Labels
  <2> QED BY <1>4, <2>1, <2>2 DEF Fields, Ack, conn, object, places
<1>5. ASSUME NEW r \in Requests, Pubrec(r) PROVE Fields'
  <2>1. acks' \in [Requests -> 0..MaxSends] /\ recs' \in [Requests -> 0..MaxSends]
    BY <1>5 DEF Pubrec, Fields
  <2> QED BY <1>5, <2>1 DEF Fields, Pubrec, conn, object, places, flags
<1>6. CASE CreateReadsState
  <2>1. caller \in [pc : {"state", "push", "dispatch"}, r : Requests]
    BY <1>6 DEF CreateReadsState, Fields, Idle
  <2>2. caller' \in [pc : {"state", "push", "dispatch"}, r : Requests]
    BY <1>6, <2>1 DEF CreateReadsState
  <2> QED BY <1>6, <2>2 DEF Fields, CreateReadsState, conn, object, places, flags, wire
<1>7. CASE CreatePushes
  <2>1. caller.r \in Requests
    BY <1>7 DEF CreatePushes, Fields, Idle
  <2> QED BY <1>7, <2>1 DEF Fields, CreatePushes, conn, object, flags, wire
<1>8. CASE CreateDispatches
  <2>1. caller.r \in Requests /\ tasks \in SUBSET Requests
    BY <1>8 DEF CreateDispatches, Fields, Idle
  <2>2. CASE RequestTask(caller.r, tasks) /\ caller' = Idle
    BY <1>8, <2>1, <2>2, TaskType DEF CreateDispatches, Fields, conn
  <2> QED BY <1>8, <2>1, <2>2, Zenon DEF Fields, CreateDispatches, conn, object, flags, places, wire, Labels
<1>9. CASE Connect \/ Disconnect \/ ChannelUp \/ Connack \/ ConnackEnds
  BY <1>9 DEF Fields, Connect, Disconnect, ChannelUp, Connack, ConnackEnds, States, Ids, object, flags, places, wire
<1>10. CASE ChannelStops \/ ShutdownClearsSlot \/ Interrupted
  BY <1>10 DEF Fields, ChannelStops, ShutdownClearsSlot, Interrupted, States, Ids, object, flags, places, wire
<1>11. CASE Destroy \/ Shutdown
  BY <1>11 DEF Fields, Destroy, Shutdown, ClearTable, States, Ids, object, flags, places, wire
<1>12. CASE UNCHANGED vars
  BY <1>12 DEF Fields, vars, conn, object, flags, places, wire
<1> QED
  BY <1>1, <1>3, <1>4, <1>5, <1>6, <1>7, <1>8, <1>9, <1>10, <1>11, <1>12
  DEF Next, Create, Loop

\* alive is Boolean; by itself because only Zenon does it.
LEMMA AliveNext == alive \in BOOLEAN /\ [Next]_vars => alive' \in BOOLEAN
<1> SUFFICES ASSUME alive \in BOOLEAN, [Next]_vars PROVE alive' \in BOOLEAN
  OBVIOUS
<1> USE DEF conn
<1>1. CASE Destroy
  BY <1>1, Zenon DEF Destroy
<1>2. CASE Connect \/ Disconnect \/ Create \/ Loop
  BY <1>2 DEF Connect, Disconnect, Create, CreateReadsState, CreatePushes, CreateDispatches,
     Loop, ChannelUp, Connack, ConnackEnds, ChannelStops, ShutdownClearsSlot, Shutdown, Interrupted
<1>3. ASSUME NEW r \in Requests, CreateStores(r) \/ TaskRuns(r) \/ Ack(r) \/ Pubrec(r)
      PROVE  alive' \in BOOLEAN
  BY <1>3 DEF CreateStores, TaskRuns, Ack, Pubrec
<1>4. CASE UNCHANGED vars
  BY <1>4 DEF vars
<1> QED
  BY <1>1, <1>2, <1>3, <1>4 DEF Next

\* Every field of the connection and of its requests keeps its type.
THEOREM TypeCorrect == Spec => []TypeOK
<1>1. Init => TypeOK
  <2> SUFFICES ASSUME Init PROVE TypeOK
    OBVIOUS
  <2>1. alive \in BOOLEAN
    BY DEF Init
  <2> QED BY <2>1, FieldsInit DEF TypeOK
<1>2. TypeOK /\ [Next]_vars => TypeOK'
  BY FieldsNext, AliveNext DEF TypeOK
<1> QED BY <1>1, <1>2, PTL DEF Spec

-----------------------------------------------------------------------------
(* Where a request is *)

\* Only a request that was made is cancelled.
CancelledWasMade == \A r \in cancelled : mem[r] # "unused"

\* The inductive invariant: none of its parts is inductive without the others.
\* ClearTable releases what is stored and cancelled, which must not be held
\* (ContainersAreGone), and leaves the rest to its task, which must exist
\* (NoRequestForgotten); s_request_timeout_task releases a cancelled request
\* without looking at the table, and any other together with its entry, which
\* must be its own (TableIsSound).
Storage ==
  /\ Fields /\ CancelledWasMade
  /\ TableIsSound /\ HeldOnce /\ ContainersAreGone /\ NoRequestForgotten

\* The places that hold a request agree at the start, ...
LEMMA StorageInit == Init => Storage
<1> SUFFICES ASSUME Init PROVE Storage
  OBVIOUS
<1>1. Fields
  BY FieldsInit
<1> QED
  BY <1>1, RequestsAssumption DEF Init, Storage, CancelledWasMade, TableIsSound, HeldOnce,
     ContainersAreGone, NoRequestForgotten, Held, Idle, Ids

\* A step that leaves the places of the requests alone.
LEMMA StorageUnchanged ==
  ASSUME Storage, Fields', UNCHANGED <<mem, id, cancelled, places, caller>>
  PROVE  Storage'
BY DEF Storage, CancelledWasMade, TableIsSound, HeldOnce, ContainersAreGone,
   NoRequestForgotten, Held, places

\* s_request_timeout_task runs for a scheduled request, or for the caller's.
LEMMA StorageTask ==
  ASSUME Storage, Fields', NEW r \in Requests, NEW q \in SUBSET Requests,
         \/ r \in tasks /\ q = tasks \ {r} /\ UNCHANGED caller
         \/ r = caller.r /\ q = tasks /\ caller' = Idle,
         RequestTask(r, q), UNCHANGED id
  PROVE  Storage'
<1> USE RequestsAssumption DEF Storage, Idle
<1>1. mem[r] = "live" /\ Held(r) /\ r \notin pending
  BY DEF HeldOnce, Held
<1>2. CASE RunCancelled(r, q)
  <2>1. \A i \in Ids : table[i] # r
    BY <1>1, <1>2 DEF RunCancelled, ContainersAreGone
  <2> QED
    BY <1>1, <1>2, <2>1 DEF RunCancelled, flags, Fields, CancelledWasMade, TableIsSound, HeldOnce,
       ContainersAreGone, NoRequestForgotten, Held
<1>3. CASE (RunCompleted(r, q) \/ RunFinishes(r, q))
  <2>1. /\ r \notin cancelled /\ cancelled' = cancelled /\ pending' = pending /\ tasks' = q
        /\ ReleaseRequest(r)
    BY <1>3 DEF RunCompleted, RunFinishes
  <2>2. id[r] \in Ids /\ table[id[r]] = r
    BY <1>1, <2>1 DEF TableIsSound
  <2> QED
    BY <1>1, <2>1, <2>2 DEF ReleaseRequest, Fields, CancelledWasMade, TableIsSound, HeldOnce,
       ContainersAreGone, NoRequestForgotten, Held
<1>4. CASE RunSends(r, q)
  BY <1>1, <1>4 DEF RunSends, Fields, CancelledWasMade, TableIsSound, HeldOnce,
     ContainersAreGone, NoRequestForgotten, Held
<1> QED
  BY <1>2, <1>3, <1>4 DEF RequestTask

\* ... every step keeps them so, ...
LEMMA StorageNext == Storage /\ [Next]_vars => Storage'
<1> SUFFICES ASSUME Storage, [Next]_vars PROVE Storage'
  OBVIOUS
<1> Fields /\ Fields'
  BY FieldsNext DEF Storage
<1> USE RequestsAssumption
<1>1. ASSUME NEW r \in Requests, CreateStores(r) PROVE Storage'
  <2>1. CASE UNCHANGED <<id, table, mem, caller>>
    BY <1>1, <2>1, StorageUnchanged DEF CreateStores, flags, places
  <2>2. ASSUME NEW i \in Ids, table[i] = NoRequest, id' = [id EXCEPT ![r] = i],
               table' = [table EXCEPT ![i] = r], mem' = [mem EXCEPT ![r] = "live"],
               caller' = [pc |-> "state", r |-> r]
        PROVE  Storage'
    <3>1. /\ mem[r] = "unused" /\ caller.r = NoRequest
          /\ UNCHANGED <<cancelled, pending, tasks>>
      BY <1>1 DEF CreateStores, UserReady, Idle, flags
    <3>2. r \notin cancelled /\ r \notin tasks \cup pending /\ \A j \in Ids : table[j] # r
      BY <3>1 DEF Storage, CancelledWasMade, HeldOnce, Held, TableIsSound, Fields
    <3>3. TableIsSound'
      BY <2>2, <3>1, <3>2 DEF Storage, TableIsSound, Fields
    <3> QED
      BY <2>2, <3>1, <3>2, <3>3 DEF Storage, Fields, CancelledWasMade, HeldOnce, ContainersAreGone,
         NoRequestForgotten, Held
  <2> QED BY <1>1, <2>1, <2>2 DEF CreateStores
<1>2. ASSUME NEW r \in Requests, TaskRuns(r) PROVE Storage'
  BY <1>2, StorageTask, tasks \ {r} \in SUBSET Requests DEF TaskRuns, Fields
<1>3. ASSUME NEW r \in Requests, Ack(r) \/ Pubrec(r) PROVE Storage'
  BY <1>3, StorageUnchanged DEF Ack, Pubrec, object, flags
<1>4. CASE CreateReadsState
  BY <1>4 DEF CreateReadsState, Fields, Storage, CancelledWasMade, TableIsSound, HeldOnce, ContainersAreGone,
     NoRequestForgotten, Held, object, flags, places, Idle
<1>5. CASE CreatePushes
  BY <1>5 DEF CreatePushes, Fields, Storage, CancelledWasMade, TableIsSound, HeldOnce, ContainersAreGone,
     NoRequestForgotten, Held, object, flags, Idle
<1>6. CASE CreateDispatches
  <2>1. caller.r \in Requests /\ tasks \in SUBSET Requests
    BY <1>6 DEF CreateDispatches, Fields, Idle
  <2>2. CASE UNCHANGED <<mem, flags, places, caller>>
    BY <1>6, <2>2, StorageUnchanged DEF CreateDispatches, flags
  <2>3. CASE RequestTask(caller.r, tasks) /\ caller' = Idle
    BY <1>6, <2>1, <2>3, StorageTask DEF CreateDispatches
  <2>4. ASSUME caller' = Idle, UNCHANGED <<mem, id, table, pending>>,
               tasks' = IF channel = "down" THEN tasks ELSE tasks \cup {caller.r},
               cancelled' = IF channel = "down" THEN cancelled \cup {caller.r} ELSE cancelled
        PROVE  Storage'
    BY <2>1, <2>4 DEF Fields, Storage, CancelledWasMade, TableIsSound, HeldOnce, ContainersAreGone,
       NoRequestForgotten, Held, Idle
  <2> QED BY <1>6, <2>2, <2>3, <2>4 DEF CreateDispatches
<1>7. CASE Connect \/ Disconnect \/ ChannelUp \/ Connack \/ ShutdownClearsSlot \/ Interrupted
  BY <1>7, StorageUnchanged DEF Connect, Disconnect, ChannelUp, Connack, ShutdownClearsSlot, Interrupted,
     object, flags
<1>8. CASE ConnackEnds
  BY <1>8 DEF ConnackEnds, Fields, Storage, CancelledWasMade, TableIsSound, HeldOnce, ContainersAreGone,
     NoRequestForgotten, Held, object, flags
<1>9. CASE ChannelStops
  BY <1>9 DEF ChannelStops, Fields, Storage, CancelledWasMade, TableIsSound, HeldOnce, ContainersAreGone,
     NoRequestForgotten, Held, object
<1>10. CASE ClearTable /\ UNCHANGED <<id, pending, tasks, caller>>
  BY <1>10 DEF ClearTable, Fields, Storage, CancelledWasMade, TableIsSound, HeldOnce, ContainersAreGone,
     NoRequestForgotten, Held
<1>11. CASE Destroy \/ Shutdown
  BY <1>10, <1>11, StorageUnchanged DEF Destroy, Shutdown, places
<1>12. CASE UNCHANGED vars
  BY <1>12, StorageUnchanged DEF vars, object, flags
<1> QED
  BY <1>1, <1>2, <1>3, <1>4, <1>5, <1>6, <1>7, <1>8, <1>9, <1>11, <1>12 DEF Next, Create, Loop

\* ... and so they always do.
LEMMA StorageHolds == Spec => []Storage
BY StorageInit, StorageNext, PTL DEF Spec

\* An id of the table leads to a live request that carries it, and a request that
\* was not cancelled is found under its id, however requests are made, answered,
\* timed out, cancelled and released, by one thread or two.
THEOREM TableIsSoundHolds == Spec => []TableIsSound
BY StorageHolds, PTL DEF Storage

\* No request is in two places, and none that is in some place was released.
THEOREM HeldOnceHolds == Spec => []HeldOnce
BY StorageHolds, PTL DEF Storage

\* A cancelled request that s_request_timeout_task will just free is not in the
\* table any more.
THEOREM ContainersAreGoneHolds == Spec => []ContainersAreGone
BY StorageHolds, PTL DEF Storage

\* A live request that was not cancelled is scheduled, pending or being created.
THEOREM NoRequestForgottenHolds == Spec => []NoRequestForgotten
BY StorageHolds, PTL DEF Storage

-----------------------------------------------------------------------------
(* What is reported *)

\* A completed request was reported, unless it is a ping, which has no callback.
CompletedIsReported ==
  \A r \in completed : kind[r] # "ping" => done[r] >= 1

Reported == Fields /\ CompletedIsReported /\ ReleasedIsReported

\* on_complete is called.
LEMMA CompleteCounts ==
  ASSUME Fields, NEW r \in Requests, Complete(r)
  PROVE  /\ kind[r] # "ping" => done'[r] >= 1
         /\ \A s \in Requests : done[s] >= 1 => done'[s] >= 1
<1>1. CASE kind[r] = "ping"
  BY <1>1 DEF Complete, Fields
<1>2. CASE kind[r] # "ping"
  <2>1. done' = [done EXCEPT ![r] = IF @ = 2 THEN 2 ELSE @ + 1]
    BY <1>2 DEF Complete
  <2> QED BY <2>1 DEF Fields
<1> QED BY <1>1, <1>2

\* s_request_timeout_task reports before it releases.
LEMMA ReportedTask ==
  ASSUME Reported, Fields', NEW r \in Requests, NEW q, RequestTask(r, q), UNCHANGED kind
  PROVE  Reported'
<1> USE DEF Reported, CompletedIsReported, ReleasedIsReported
<1>1. CASE RunCancelled(r, q) \/ RunCompleted(r, q) \/ RunSends(r, q)
  BY <1>1 DEF RunCancelled, RunCompleted, RunSends, ReleaseRequest, flags, Fields
<1>2. CASE RunFinishes(r, q)
  <2>1. /\ completed' = completed \cup {r} /\ UNCHANGED cancelled
        /\ mem' = [mem EXCEPT ![r] = "released"] /\ Complete(r)
    BY <1>2 DEF RunFinishes, ReleaseRequest
  <2> QED BY <2>1, CompleteCounts DEF Fields
<1> QED BY <1>1, <1>2 DEF RequestTask

\* Every step keeps the count of the reports.
LEMMA ReportedNext == Reported /\ [Next]_vars => Reported'
<1> SUFFICES ASSUME Reported, [Next]_vars PROVE Reported'
  OBVIOUS
<1> Fields /\ Fields'
  BY FieldsNext DEF Reported
<1> USE DEF object, flags, places, wire
<1>1. ASSUME UNCHANGED <<mem, kind, completed, done>>, cancelled \subseteq cancelled'
      PROVE  Reported'
  BY <1>1 DEF Reported, CompletedIsReported, ReleasedIsReported
<1>2. ASSUME NEW r \in Requests, CreateStores(r) PROVE Reported'
  BY <1>2 DEF CreateStores, Reported, CompletedIsReported, ReleasedIsReported, Fields
<1>3. ASSUME NEW r \in Requests, TaskRuns(r) PROVE Reported'
  BY <1>3, ReportedTask DEF TaskRuns
<1>4. ASSUME NEW r \in Requests, Ack(r) PROVE Reported'
  <2>1. CASE Complete(r) /\ completed' = completed \cup {r}
    BY <1>4, <2>1, CompleteCounts DEF Ack, Reported, CompletedIsReported, ReleasedIsReported, Fields
  <2> QED BY <1>1, <1>4, <2>1 DEF Ack
<1>5. ASSUME NEW r \in Requests, Pubrec(r) PROVE Reported'
  BY <1>1, <1>5 DEF Pubrec
<1>6. CASE CreateDispatches
  <2>1. caller.r \in Requests
    BY <1>6 DEF CreateDispatches, Fields, Idle
  <2> QED BY <1>1, <1>6, <2>1, ReportedTask DEF CreateDispatches
<1>7. CASE CreateReadsState \/ CreatePushes \/ Connect \/ Disconnect
  BY <1>1, <1>7 DEF CreateReadsState, CreatePushes, Connect, Disconnect
<1>8. CASE ChannelUp \/ Connack \/ ConnackEnds \/ ChannelStops \/ ShutdownClearsSlot \/ Interrupted
  BY <1>1, <1>8 DEF ChannelUp, Connack, ConnackEnds, ChannelStops, ShutdownClearsSlot, Interrupted
<1>9. CASE ClearTable /\ UNCHANGED <<kind, completed, done>>
  BY <1>9 DEF ClearTable, Reported, CompletedIsReported, ReleasedIsReported, Fields
<1>10. CASE Destroy \/ Shutdown
  BY <1>1, <1>9, <1>10 DEF Destroy, Shutdown
<1>11. CASE UNCHANGED vars
  BY <1>1, <1>11 DEF vars
<1> QED
  BY <1>2, <1>3, <1>4, <1>5, <1>6, <1>7, <1>8, <1>10, <1>11 DEF Next, Create, Loop

\* on_complete was called for a released request, unless it was cancelled.
THEOREM ReleasedIsReportedHolds == Spec => []ReleasedIsReported
<1>1. Init => Reported
  <2> SUFFICES ASSUME Init PROVE Reported
    OBVIOUS
  <2>1. Fields
    BY FieldsInit
  <2> QED BY <2>1 DEF Init, Reported, CompletedIsReported, ReleasedIsReported
<1> QED
  BY <1>1, ReportedNext, PTL DEF Spec, Reported

\* Somebody is left to end every request, its caller is told, and a cancelled one
\* is freed by one party only.
THEOREM RequestsAreKeptHolds == Spec => []RequestsAreKept
<1>1. ContainersAreGone /\ NoRequestForgotten /\ ReleasedIsReported => RequestsAreKept
  BY DEF RequestsAreKept
<1> QED BY <1>1, ContainersAreGoneHolds, NoRequestForgottenHolds, ReleasedIsReportedHolds, PTL

-----------------------------------------------------------------------------
(* Calls on the channel's thread *)

\* With the program's calls on the channel's thread, what mqtt_create_request
\* has read of the connection stays true until it returns.
Serial ==
  /\ Fields
  /\ state = "CONNECTED" /\ channel = "none" => el = "shutdown"
  /\ el = "on_interrupted" => state # "CONNECTED"
  /\ el = "on_connack" => channel \in {"up", "refused"}
  /\ caller # Idle => el # "shutdown"
  /\ caller.pc = "dispatch" => state = "CONNECTED"
  /\ caller.pc = "push" => state # "CONNECTED"
  /\ PendingIsOffline /\ SlotIsThere

\* s_request_timeout_task makes a request pending only while offline.
LEMMA TaskPends ==
  ASSUME NEW r, NEW q, RequestTask(r, q)
  PROVE  /\ state = "CONNECTED" => pending' = pending
         /\ "null_slot" \notin failed => "null_slot" \notin failed'
BY DEF RequestTask, RunCancelled, RunCompleted, RunFinishes, RunSends, Complete

\* With one event loop every step keeps Serial, ...
LEMMA SerialNext == OneLoop /\ Serial /\ [Next]_vars => Serial'
<1> SUFFICES ASSUME OneLoop, Serial, [Next]_vars PROVE Serial'
  OBVIOUS
<1> Fields /\ Fields'
  BY FieldsNext DEF Serial
<1> USE DEF Serial, PendingIsOffline, SlotIsThere, Idle, places
<1>1. ASSUME NEW r \in Requests, CreateStores(r) PROVE Serial'
  BY <1>1 DEF CreateStores, UserReady, conn
<1>2. ASSUME NEW r \in Requests, TaskRuns(r) PROVE Serial'
  BY <1>2, TaskPends DEF TaskRuns, LoopReady, conn
<1>3. ASSUME NEW r \in Requests, Ack(r) \/ Pubrec(r) PROVE Serial'
  BY <1>3 DEF Ack, Pubrec, Complete, conn
<1>4. CASE CreateReadsState
  BY <1>4 DEF CreateReadsState, conn, Fields
<1>5. CASE CreatePushes
  BY <1>5 DEF CreatePushes, conn
<1>6. CASE CreateDispatches
  <2>1. state = "CONNECTED" /\ channel # "none"
    BY <1>6 DEF CreateDispatches
  <2> QED BY <1>6, <2>1, TaskPends DEF CreateDispatches, conn
<1>7. CASE Connect \/ Disconnect \/ Destroy
  BY <1>7 DEF Connect, Disconnect, Destroy, UserReady
<1>8. CASE ChannelUp \/ Connack \/ ConnackEnds
  BY <1>8 DEF ChannelUp, Connack, ConnackEnds, LoopReady, LoopContinues
<1>9. CASE ChannelStops \/ ShutdownClearsSlot \/ Shutdown \/ Interrupted
  BY <1>9 DEF ChannelStops, ShutdownClearsSlot, Shutdown, Interrupted, LoopReady, LoopContinues
<1>10. CASE UNCHANGED vars
  BY <1>10 DEF vars, conn
<1> QED
  BY <1>1, <1>2, <1>3, <1>4, <1>5, <1>6, <1>7, <1>8, <1>9, <1>10 DEF Next, Create, Loop

\* ... and so it always holds.
LEMMA SerialHolds == OneLoop => (Spec => []Serial)
<1> SUFFICES ASSUME OneLoop PROVE Spec => []Serial
  OBVIOUS
<1>1. Init => Serial
  <2> SUFFICES ASSUME Init PROVE Serial
    OBVIOUS
  <2>1. Fields
    BY FieldsInit
  <2> QED BY <2>1 DEF Init, Serial, PendingIsOffline, SlotIsThere, Idle
<1>2. Serial /\ [Next]_vars => Serial'
  BY SerialNext
<1> QED BY <1>1, <1>2, PTL DEF Spec

\* When the program's calls run on the channel's thread, no request is left
\* pending on an online connection ...
THEOREM PendingIsOfflineHolds == OneLoop => (Spec => []PendingIsOffline)
<1> SUFFICES ASSUME OneLoop PROVE Spec => []PendingIsOffline
  OBVIOUS
<1>1. Serial => PendingIsOffline
  BY DEF Serial
<1>2. Spec => []Serial
  BY SerialHolds
<1> QED BY <1>1, <1>2, PTL

\* ... and mqtt_create_request never reads a slot that has been cleared.
THEOREM SlotIsThereHolds == OneLoop => (Spec => []SlotIsThere)
<1> SUFFICES ASSUME OneLoop PROVE Spec => []SlotIsThere
  OBVIOUS
<1>1. Serial => SlotIsThere
  BY DEF Serial
<1>2. Spec => []Serial
  BY SerialHolds
<1> QED BY <1>1, <1>2, PTL

-----------------------------------------------------------------------------
(* Answers *)

\* When answers come within the timeout: at most one is under way for a request,
\* on a channel that is up, and the request waits for it in its place.
Prompt ==
  /\ Storage
  /\ \A r \in Requests : acks[r] + recs[r] <= 1
  /\ \A r \in Requests : acks[r] + recs[r] > 0 =>
       /\ r \in tasks \cup pending
       /\ r \notin completed \cup cancelled
       /\ channel \in {"up", "refused"}
  /\ \A r \in Requests : r \notin completed => done[r] = 0
  /\ el \in {"shutdown", "on_interrupted"} \/ state = "DISCONNECTED" => channel = "none"
  /\ OneLoop /\ caller # Idle => channel # "down"
  /\ AnswersMatch

\* Nothing but an answer that is taken, a request that is sent or a shutdown
\* changes what is under way.
LEMMA PromptUnchanged ==
  ASSUME Prompt, Storage', UNCHANGED <<acks, recs, completed, done, failed>>,
         cancelled' \cap {r \in Requests : acks[r] + recs[r] > 0} = {},
         tasks \cup pending \subseteq tasks' \cup pending',
         channel \in {"up", "refused"} => channel' \in {"up", "refused"},
         el' \in {"shutdown", "on_interrupted"} \/ state' = "DISCONNECTED" => channel' = "none",
         OneLoop /\ caller' # Idle => channel' # "down"
  PROVE  Prompt'
BY DEF Prompt, AnswersMatch

\* s_request_timeout_task runs on time.
LEMMA PromptTask ==
  ASSUME "late" \notin Faults, Prompt, Storage', NEW r \in Requests, NEW q \in SUBSET Requests,
         tasks \subseteq q \cup {r}, RequestTask(r, q), UNCHANGED conn,
         caller' \in {caller, Idle}, channel \in {"up", "refused"}
  PROVE  Prompt'
<1> USE DEF conn
<1> Fields /\ Fields'
  BY DEF Prompt, Storage
<1>1. /\ el' \in {"shutdown", "on_interrupted"} \/ state' = "DISCONNECTED" => channel' = "none"
      /\ OneLoop /\ caller' # Idle => channel' # "down"
  BY DEF Prompt
<1>2. CASE RunCancelled(r, q) \/ RunCompleted(r, q)
  BY <1>1, <1>2 DEF Prompt, RunCancelled, RunCompleted, AnswersMatch, Fields, wire, flags
<1>3. CASE RunFinishes(r, q)
  <2>1. acks[r] + recs[r] = 0 /\ r \notin completed /\ Complete(r) /\ completed' = completed \cup {r}
        /\ tasks' = q /\ UNCHANGED <<pending, cancelled, acks, recs>>
    BY <1>3 DEF RunFinishes, TimeoutDue, wire
  <2>2. AnswersMatch' /\ \A s \in Requests : s \notin completed' => done'[s] = 0
    BY <2>1 DEF Complete, Prompt, AnswersMatch, Fields
  <2> QED BY <1>1, <2>1, <2>2 DEF Prompt, Fields
<1>4. CASE RunSends(r, q)
  <2>1. PICK s \in SendRequest(r) :
          /\ acks' = [acks EXCEPT ![r] = IF s.answer = "ack" THEN @ + 1 ELSE @]
          /\ recs' = [recs EXCEPT ![r] = IF s.answer = "rec" THEN @ + 1 ELSE @]
    BY <1>4, Zenon DEF RunSends
  <2>2. acks[r] + recs[r] = 0 /\ r \notin completed \cup cancelled
        /\ UNCHANGED <<completed, cancelled, done, failed>>
        /\ r \in tasks' \cup pending' /\ q \cup pending \subseteq tasks' \cup pending'
    BY <1>4 DEF RunSends, TimeoutDue
  <2>3. acks[r] = 0 /\ recs[r] = 0
    BY <2>2 DEF Fields
  <2>4. \A t \in Requests : acks'[t] + recs'[t] <= 1 /\ (t # r => acks'[t] = acks[t] /\ recs'[t] = recs[t])
    BY <2>1, <2>3 DEF Prompt, Fields
  <2> QED BY <1>1, <2>2, <2>4 DEF Prompt, AnswersMatch
<1> QED BY <1>2, <1>3, <1>4 DEF RequestTask

\* An acknowledgement comes.
LEMMA PromptAck ==
  ASSUME Prompt, Storage', NEW r \in Requests, Ack(r)
  PROVE  Prompt'
<1> Fields /\ Fields'
  BY DEF Prompt, Storage
<1>1. acks[r] = 1 /\ recs[r] = 0 /\ r \in tasks \cup pending /\ r \notin completed \cup cancelled
  BY DEF Prompt, Ack, Fields
<1>2. table[id[r]] = r /\ r # NoRequest
  BY <1>1, RequestsAssumption DEF Prompt, Storage, HeldOnce, Held, TableIsSound
<1>3. /\ acks' = [acks EXCEPT ![r] = @ - 1] /\ Complete(r) /\ completed' = completed \cup {r}
      /\ UNCHANGED <<conn, cancelled, tasks, pending, caller, recs>>
  BY <1>2 DEF Ack, places
<1>4. AnswersMatch' /\ \A s \in Requests : s \notin completed' => done'[s] = 0
  BY <1>1, <1>3 DEF Complete, Prompt, AnswersMatch, Fields
<1>5. acks'[r] + recs'[r] = 0 /\ \A t \in Requests : t # r => acks'[t] = acks[t] /\ recs'[t] = recs[t]
  BY <1>1, <1>3 DEF Fields
<1>6. \A t \in Requests : acks'[t] + recs'[t] <= 1
  BY <1>5 DEF Prompt, Fields
<1>7. \A t \in Requests : acks'[t] + recs'[t] > 0 =>
        /\ t \in tasks' \cup pending' /\ t \notin completed' \cup cancelled'
        /\ channel' \in {"up", "refused"}
  <2> SUFFICES ASSUME NEW t \in Requests, acks'[t] + recs'[t] > 0
               PROVE  /\ t \in tasks' \cup pending' /\ t \notin completed' \cup cancelled'
                      /\ channel' \in {"up", "refused"}
    OBVIOUS
  <2>1. t # r /\ acks[t] + recs[t] > 0
    BY <1>5
  <2> QED BY <1>3, <2>1 DEF Prompt, conn
<1>8. /\ el' \in {"shutdown", "on_interrupted"} \/ state' = "DISCONNECTED" => channel' = "none"
      /\ OneLoop /\ caller' # Idle => channel' # "down"
  BY <1>3 DEF Prompt, conn
<1> QED BY <1>4, <1>6, <1>7, <1>8 DEF Prompt

\* Every step keeps Prompt.
LEMMA PromptNext == "late" \notin Faults /\ Prompt /\ [Next]_vars => Prompt'
<1> SUFFICES ASSUME "late" \notin Faults, Prompt, [Next]_vars, Next PROVE Prompt'
  BY StorageNext, PromptUnchanged DEF vars, conn, object, flags, places, wire, Prompt
<1> Fields /\ Fields' /\ Storage /\ Storage'
  BY StorageNext DEF Prompt, Storage
<1> USE DEF object, flags, places, wire
<1>1. ASSUME NEW r \in Requests, CreateStores(r) PROVE Prompt'
  BY <1>1 DEF CreateStores, UserReady, conn, Prompt, AnswersMatch
<1>2. ASSUME NEW r \in Requests, TaskRuns(r) PROVE Prompt'
  BY <1>2, PromptTask, tasks \ {r} \in SUBSET Requests DEF TaskRuns, Fields
<1>3. ASSUME NEW r \in Requests, Ack(r) PROVE Prompt'
  BY <1>3, PromptAck
<1>4. ASSUME NEW r \in Requests, Pubrec(r) PROVE Prompt'
  <2>1. \A t \in Requests : acks'[t] + recs'[t] <= acks[t] + recs[t] /\ acks'[t] + recs'[t] \in Nat
    BY <1>4 DEF Pubrec, Fields
  <2>2. \A t \in Requests : acks[t] + recs[t] \in Nat
    BY DEF Fields
  <2>3. \A t \in Requests :
          acks'[t] + recs'[t] <= 1 /\ (acks'[t] + recs'[t] > 0 => acks[t] + recs[t] > 0)
    BY <2>1, <2>2 DEF Prompt
  <2>4. UNCHANGED <<conn, flags, tasks, pending, caller, done, failed>>
    BY <1>4 DEF Pubrec
  <2> QED BY <2>3, <2>4 DEF Prompt, AnswersMatch, conn
<1>5. CASE CreateReadsState \/ CreatePushes
  BY <1>5, PromptUnchanged DEF CreateReadsState, CreatePushes, conn, Prompt, Idle
<1>6. CASE CreateDispatches
  <2>1. caller.r \in Requests /\ tasks \in SUBSET Requests /\ caller.r \notin tasks \cup pending /\ caller # Idle
    BY <1>6 DEF CreateDispatches, Fields, Idle, Storage, HeldOnce
  <2>2. CASE OneLoop /\ channel # "none"
    BY <1>6, <2>1, <2>2, PromptTask DEF CreateDispatches, Prompt, Fields
  <2>3. CASE channel = "none"
    BY <1>6, <2>3 DEF CreateDispatches, conn, Prompt, AnswersMatch
  <2>4. CASE ~OneLoop /\ channel # "none"
    BY <1>6, <2>1, <2>4, PromptUnchanged DEF CreateDispatches, conn, Prompt
  <2> QED BY <2>2, <2>3, <2>4
<1>7. CASE Connect \/ Disconnect \/ ChannelUp \/ Connack \/ ConnackEnds
  BY <1>7, PromptUnchanged DEF Connect, Disconnect, ChannelUp, Connack, ConnackEnds, LoopReady,
     LoopContinues, UserReady, Prompt
<1>8. CASE ChannelStops
  <2>1. \A t \in Requests : acks'[t] = 0 /\ recs'[t] = 0
    BY <1>8 DEF ChannelStops
  <2>2. UNCHANGED <<state, el, completed, caller, done, failed>> /\ channel # "none"
        /\ el = "idle" /\ (OneLoop => caller = Idle)
    BY <1>8 DEF ChannelStops, LoopReady
  <2>3. ~(el' \in {"shutdown", "on_interrupted"} \/ state' = "DISCONNECTED")
    BY <2>2 DEF Prompt
  <2>4. \A t \in Requests : acks'[t] + recs'[t] <= 1 /\ ~(acks'[t] + recs'[t] > 0)
    BY <2>1
  <2>5. AnswersMatch' /\ \A t \in Requests : t \notin completed' => done'[t] = 0
    BY <2>2 DEF Prompt, AnswersMatch
  <2> HIDE DEF object, flags, places, wire
  <2> QED BY <2>2, <2>3, <2>4, <2>5 DEF Prompt
<1>9. CASE ShutdownClearsSlot \/ Interrupted
  BY <1>9 DEF ShutdownClearsSlot, Interrupted, LoopReady, LoopContinues, Prompt, AnswersMatch
<1>10. CASE Destroy \/ Shutdown
  <2>1. channel = "none" /\ UNCHANGED <<channel, acks, recs, completed, done, failed, caller>>
    BY <1>10 DEF Destroy, Shutdown, Prompt
  <2> QED BY <2>1 DEF Prompt, AnswersMatch
<1> QED
  BY <1>1, <1>2, <1>3, <1>4, <1>5, <1>6, <1>7, <1>8, <1>9, <1>10 DEF Next, Create, Loop

\* When the server answers within the timeout, an answer always finds the request
\* it belongs to, and no request is completed twice.
THEOREM AnswersMatchHolds == "late" \notin Faults => (Spec => []AnswersMatch)
<1> SUFFICES ASSUME "late" \notin Faults PROVE Spec => []AnswersMatch
  OBVIOUS
<1>1. Init => Prompt
  <2> SUFFICES ASSUME Init PROVE Prompt
    OBVIOUS
  <2>1. Storage
    BY StorageInit
  <2> QED BY <2>1 DEF Init, Prompt, AnswersMatch, Idle
<1>2. Prompt /\ [Next]_vars => Prompt'
  BY PromptNext
<1>3. Prompt => AnswersMatch
  BY DEF Prompt
<1> QED BY <1>1, <1>2, <1>3, PTL DEF Spec

\* On one event loop, with answers that come in time, every answer finds its
\* request, and every request a slot to be sent through.
THEOREM RequestsAreSafeHolds ==
  OneLoop /\ "late" \notin Faults => (Spec => []RequestsAreSafe)
<1> SUFFICES ASSUME OneLoop, "late" \notin Faults PROVE Spec => []RequestsAreSafe
  OBVIOUS
<1>1. AnswersMatch /\ SlotIsThere => RequestsAreSafe
  BY DEF RequestsAreSafe
<1>2. (Spec => []AnswersMatch) /\ (Spec => []SlotIsThere)
  BY AnswersMatchHolds, SlotIsThereHolds
<1> QED BY <1>1, <1>2, PTL
=============================================================================
