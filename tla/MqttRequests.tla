---------------------------- MODULE MqttRequests ----------------------------
(***************************************************************************)
(* The requests of a connection (publish, subscribe, unsubscribe, ping):   *)
(* their message ids and the table of outstanding requests, the list of    *)
(* requests made while offline, the timeout task that sends, retries and   *)
(* releases a request, the acknowledgements, and what becomes of requests  *)
(* when the channel is lost or the connection is closed or destroyed.      *)
(*                                                                         *)
(* Of the connection only what decides about requests is kept: its state,  *)
(* its slot and the callbacks in which the program may make calls (see     *)
(* MqttConnection for the rest).  With OneLoop the program's calls run on  *)
(* the channel's thread; without it they interleave with its handlers.     *)
(* The shutdown of a channel tests and sets the state in one step here;    *)
(* MqttConnection has the finer grain.                                     *)
(***************************************************************************)
EXTENDS Naturals, FiniteSets

CONSTANTS
  Requests,  \* the requests the program may make, each used once
  NoRequest, \* an empty entry of the table
  MaxId,     \* the largest message id (65535 in the code)
  MaxSends,  \* bound on the answers to one request that are under way
  OneLoop,   \* TRUE when the program's calls run on the channel's thread
  Kinds,     \* the kinds of request to consider
  Calls,     \* the calls the program makes, besides requests and connect()
  Faults     \* the failures to consider; "late": answers may miss the timeout

KindNames  == {"publish0", "publish1", "publish2", "subscribe", "unsubscribe", "ping"}
CallNames  == {"disconnect", "destroy"}
FaultNames == {"send", "hangup", "refuse", "late"}

ASSUME RequestsAssumption ==
  /\ NoRequest \notin Requests
  /\ MaxId \in Nat \ {0}
  /\ MaxSends \in Nat \ {0}
  /\ OneLoop \in BOOLEAN
  /\ Kinds \subseteq KindNames
  /\ Calls \subseteq CallNames
  /\ Faults \subseteq FaultNames

VARIABLES
  state,     \* connection->state
  channel,   \* "none": no slot; "up"; "refused": up after a refused CONNACK;
             \* "down": its tasks are cancelled and the slot is still set
  el,        \* where the handler that the event loop runs is
  mem,       \* the memory of each request
  id,        \* request->message_id
  kind,      \* which function request->send_request is
  initiated, completed, cancelled, \* the requests whose flag is set
  table,     \* outstanding_requests.table
  pending,   \* pending_requests.list
  tasks,     \* the requests whose timeout task is scheduled on the channel
  caller,    \* where mqtt_create_request is, and for which request
  acks,      \* PUBACK, PUBCOMP, SUBACK and UNSUBACK packets under way
  recs,      \* PUBREC packets under way
  done,      \* how often on_complete was called
  alive,     \* the connection has not been destroyed
  failed     \* assertions that did not hold, and invalid accesses made

conn    == <<state, channel, el, alive>>
flags   == <<initiated, completed, cancelled>>
object  == <<mem, id, kind>>
places  == <<table, pending, tasks>>
wire    == <<acks, recs>>
vars    == <<conn, object, flags, places, caller, wire, done, failed>>

Ids    == 1..MaxId
States == {"CONNECTING", "CONNECTED", "RECONNECTING", "DISCONNECTING", "DISCONNECTED"}
Labels == {"ids_exhausted", "null_slot", "no_request", "wrong_request", "recompleted"}

Idle == [pc |-> "idle", r |-> NoRequest]

Fields ==
  /\ state \in States
  /\ channel \in {"none", "up", "refused", "down"}
  /\ el \in {"idle", "on_connack", "shutdown", "on_interrupted"}
  /\ mem \in [Requests -> {"unused", "live", "released"}]
  /\ id \in [Requests -> 0..MaxId]
  /\ kind \in [Requests -> KindNames]
  /\ initiated \subseteq Requests /\ completed \subseteq Requests
  /\ cancelled \subseteq Requests
  /\ table \in [Ids -> Requests \cup {NoRequest}]
  /\ pending \subseteq Requests /\ tasks \subseteq Requests
  /\ caller \in {Idle} \cup [pc : {"state", "push", "dispatch"}, r : Requests]
  /\ acks \in [Requests -> 0..MaxSends] /\ recs \in [Requests -> 0..MaxSends]
  /\ done \in [Requests -> 0..2]
  /\ failed \subseteq Labels

\* Every field of the connection and of its requests has its type.
TypeOK == Fields /\ alive \in BOOLEAN

\* aws_mqtt_client_connection_new
Init ==
  /\ state = "DISCONNECTED" /\ channel = "none" /\ el = "idle" /\ alive = TRUE
  /\ mem = [r \in Requests |-> "unused"]
  /\ id = [r \in Requests |-> 0]
  /\ kind \in [Requests -> Kinds]
  /\ initiated = {} /\ completed = {} /\ cancelled = {}
  /\ table = [i \in Ids |-> NoRequest]
  /\ pending = {} /\ tasks = {}
  /\ caller = Idle
  /\ acks = [r \in Requests |-> 0] /\ recs = [r \in Requests |-> 0]
  /\ done = [r \in Requests |-> 0]
  /\ failed = {}

-----------------------------------------------------------------------------
(* Threads *)

LoopReady == el = "idle" /\ (OneLoop => caller = Idle)

LoopContinues == OneLoop => caller = Idle

UserReady == alive /\ caller = Idle /\ (OneLoop => el # "shutdown" /\ channel # "down")

-----------------------------------------------------------------------------
(* s_request_timeout_task *)

\* request->on_complete is called; its argument is released by the first call.
\* A ping has no on_complete.
Complete(r) ==
  IF kind[r] = "ping" THEN UNCHANGED <<done, failed>>
  ELSE /\ done' = [done EXCEPT ![r] = IF @ = 2 THEN 2 ELSE @ + 1]
       /\ failed' = IF done[r] = 0 THEN failed ELSE failed \cup {"recompleted"}

\* What a send function reports, and the answer it makes the server send.
Report(result, answer) == [result |-> result, answer |-> answer]

\* s_publish_send
PublishSend(r) ==
  { Report(IF kind[r] = "publish0" THEN "complete" ELSE "ongoing",
           CASE kind[r] = "publish0" -> "none"
             [] kind[r] = "publish1" -> "ack"
             [] kind[r] = "publish2" -> "rec") }
  \cup IF "send" \in Faults THEN {Report("error", "none")} ELSE {}

\* s_subscribe_send: a message that could not be sent is left to the retry.
SubscribeSend(r) ==
  { Report("ongoing", "ack") }
  \cup IF "send" \in Faults THEN {Report("ongoing", "none"), Report("error", "none")} ELSE {}

\* s_unsubscribe_send
UnsubscribeSend(r) ==
  { Report("ongoing", "ack") }
  \cup IF "send" \in Faults THEN {Report("ongoing", "none"), Report("error", "none")} ELSE {}

\* s_pingreq_send: the second call is the check for PINGRESP; a channel that it
\* closes for want of one is one that hangs up here.
PingreqSend(r) ==
  IF r \in initiated THEN { Report("complete", "none") }
  ELSE { Report("ongoing", "none") }
       \cup IF "send" \in Faults THEN {Report("error", "none")} ELSE {}

SendRequest(r) ==
  CASE kind[r] = "ping"        -> PingreqSend(r)
    [] kind[r] = "subscribe"   -> SubscribeSend(r)
    [] kind[r] = "unsubscribe" -> UnsubscribeSend(r)
    [] OTHER                   -> PublishSend(r)

\* Mutant of ReleaseRequest: the entry of the table is kept.
ReleaseMemory(r) ==
  /\ mem' = [mem EXCEPT ![r] = "released"]
  /\ UNCHANGED table

\* The request is removed from the table and its memory returned to the pool.
ReleaseRequest(r) ==
  /\ table' = [table EXCEPT ![id[r]] = NoRequest]
  /\ mem' = [mem EXCEPT ![r] = "released"]

\* The task runs after the timeout: without late answers, only when none is due.
TimeoutDue(r) == "late" \in Faults \/ acks[r] + recs[r] = 0

\* The table is gone: only the memory is released.
RunCancelled(r, q) ==
  /\ r \in cancelled
  /\ mem' = [mem EXCEPT ![r] = "released"]
  /\ tasks' = q
  /\ UNCHANGED <<table, pending, flags, wire, done, failed>>

\* An acknowledgement has completed the request: it is removed.
RunCompleted(r, q) ==
  /\ r \notin cancelled /\ r \in completed
  /\ ReleaseRequest(r)
  /\ initiated' = initiated \cup {r}
  /\ tasks' = q
  /\ UNCHANGED <<pending, completed, cancelled, wire, done, failed>>

\* The request is sent (again) and is over.
RunFinishes(r, q) ==
  /\ r \notin cancelled /\ r \notin completed
  /\ TimeoutDue(r)
  /\ \E s \in SendRequest(r) : s.result \in {"complete", "error"}
  /\ Complete(r)
  /\ completed' = completed \cup {r}
  /\ initiated' = initiated \cup {r}
  /\ ReleaseRequest(r)
  /\ tasks' = q
  /\ UNCHANGED <<pending, cancelled, wire>>

\* Mutant of RunSends: the task is only rescheduled while CONNECTED.
RunSendsOnce(r, q) ==
  /\ r \notin cancelled /\ r \notin completed
  /\ TimeoutDue(r)
  /\ \E s \in SendRequest(r) : s.result = "ongoing"
  /\ initiated' = initiated \cup {r}
  /\ tasks' = IF state = "CONNECTED" THEN q \cup {r} ELSE q
  /\ UNCHANGED <<pending, wire, table, mem, completed, cancelled, done, failed>>

\* The request is sent (again) and waits for its answer: the retry is scheduled,
\* or the request put in the pending list when the connection is not CONNECTED.
RunSends(r, q) ==
  /\ r \notin cancelled /\ r \notin completed
  /\ TimeoutDue(r)
  /\ \E s \in SendRequest(r) :
       /\ s.result = "ongoing"
       /\ s.answer = "ack" => acks[r] < MaxSends
       /\ s.answer = "rec" => recs[r] < MaxSends
       /\ acks' = [acks EXCEPT ![r] = IF s.answer = "ack" THEN @ + 1 ELSE @]
       /\ recs' = [recs EXCEPT ![r] = IF s.answer = "rec" THEN @ + 1 ELSE @]
  /\ initiated' = initiated \cup {r}
  /\ IF state = "CONNECTED" THEN tasks' = q \cup {r} /\ UNCHANGED pending
                            ELSE tasks' = q /\ pending' = pending \cup {r}
  /\ UNCHANGED <<table, mem, completed, cancelled, done, failed>>

\* s_request_timeout_task with status RUN_READY, with the tasks q scheduled.
RequestTask(r, q) ==
  RunCancelled(r, q) \/ RunCompleted(r, q) \/ RunFinishes(r, q) \/ RunSends(r, q)

\* The channel runs a timeout task.
TaskRuns(r) ==
  /\ LoopReady
  /\ r \in tasks /\ channel \in {"up", "refused"}
  /\ RequestTask(r, tasks \ {r})
  /\ UNCHANGED <<conn, id, kind, caller>>

-----------------------------------------------------------------------------
(* mqtt_create_request *)

\* The request gets the first free id and is stored under it, in one critical
\* section.  With every id taken, next_id wraps to 0 (assertion at 611).
CreateStores(r) ==
  /\ UserReady
  /\ mem[r] = "unused"
  /\ \/ /\ \E i \in Ids :
             /\ table[i] = NoRequest
             /\ \A j \in 1..(i - 1) : table[j] # NoRequest
             /\ id' = [id EXCEPT ![r] = i]
             /\ table' = [table EXCEPT ![i] = r]
        /\ mem' = [mem EXCEPT ![r] = "live"]
        /\ caller' = [pc |-> "state", r |-> r]
        /\ UNCHANGED failed
     \/ /\ \A i \in Ids : table[i] # NoRequest
        /\ failed' = failed \cup {"ids_exhausted"}
        /\ UNCHANGED <<id, table, mem, caller>>
  /\ UNCHANGED <<conn, kind, flags, pending, tasks, wire, done>>

\* connection->state is read ...
CreateReadsState ==
  /\ caller.pc = "state"
  /\ caller' = [caller EXCEPT !.pc = IF state = "CONNECTED" THEN "dispatch" ELSE "push"]
  /\ UNCHANGED <<conn, object, flags, places, wire, done, failed>>

\* ... and the request is put in the pending list ...
CreatePushes ==
  /\ caller.pc = "push"
  /\ pending' = pending \cup {caller.r}
  /\ caller' = Idle
  /\ UNCHANGED <<conn, object, flags, table, tasks, wire, done, failed>>

\* ... or its task is run, or scheduled on the channel from another thread.  A
\* channel that has shut down runs the task as cancelled.
CreateDispatches ==
  /\ caller.pc = "dispatch"
  /\ \/ /\ channel = "none"
        /\ failed' = failed \cup {"null_slot"}
        /\ UNCHANGED <<mem, flags, places, caller, wire, done>>
     \/ /\ channel # "none" /\ OneLoop
        /\ RequestTask(caller.r, tasks)
        /\ caller' = Idle
     \/ /\ channel # "none" /\ ~OneLoop
        /\ caller' = Idle
        /\ tasks' = IF channel = "down" THEN tasks ELSE tasks \cup {caller.r}
        /\ cancelled' = IF channel = "down" THEN cancelled \cup {caller.r} ELSE cancelled
        /\ UNCHANGED <<mem, initiated, completed, table, pending, wire, done, failed>>
  /\ UNCHANGED <<conn, id, kind>>

-----------------------------------------------------------------------------
(* Acknowledgements *)

\* Mutant of Ack: the request is removed at once, and its task is left.
AckReleases(r) ==
  /\ LoopReady
  /\ channel \in {"up", "refused"} /\ acks[r] > 0
  /\ acks' = [acks EXCEPT ![r] = @ - 1]
  /\ Complete(r)
  /\ ReleaseRequest(r)
  /\ UNCHANGED <<conn, id, kind, flags, pending, tasks, caller, recs>>

\* Mutant of Ack: the request is not marked as completed.
AckForgets(r) ==
  /\ LoopReady
  /\ channel \in {"up", "refused"} /\ acks[r] > 0
  /\ acks' = [acks EXCEPT ![r] = @ - 1]
  /\ Complete(r)
  /\ UNCHANGED <<conn, object, flags, places, caller, recs>>

\* s_packet_handler_ack and mqtt_request_complete, for the answer to request r:
\* it carries the message id only.
Ack(r) ==
  /\ LoopReady
  /\ channel \in {"up", "refused"} /\ acks[r] > 0
  /\ acks' = [acks EXCEPT ![r] = @ - 1]
  /\ LET found == table[id[r]] IN
     \/ /\ found = NoRequest
        /\ failed' = failed \cup {"no_request"}
        /\ UNCHANGED <<completed, done>>
     \/ /\ found = r
        /\ Complete(r)
        /\ completed' = completed \cup {r}
     \/ /\ found \notin {r, NoRequest}
        /\ failed' = failed \cup {"wrong_request"}
        /\ UNCHANGED <<completed, done>>
  /\ UNCHANGED <<conn, object, initiated, cancelled, places, caller, recs>>

\* Mutant of Pubrec: PUBREL is not sent.
PubrecSilent(r) ==
  /\ LoopReady
  /\ channel \in {"up", "refused"} /\ recs[r] > 0
  /\ recs' = [recs EXCEPT ![r] = @ - 1]
  /\ UNCHANGED <<conn, object, flags, places, caller, acks, done, failed>>

\* s_packet_handler_pubrec: PUBREL is sent, which the server answers by PUBCOMP.
Pubrec(r) ==
  /\ LoopReady
  /\ channel \in {"up", "refused"} /\ recs[r] > 0
  /\ recs' = [recs EXCEPT ![r] = @ - 1]
  /\ \/ acks[r] < MaxSends /\ acks' = [acks EXCEPT ![r] = @ + 1]
     \/ "send" \in Faults /\ UNCHANGED acks
  /\ UNCHANGED <<conn, object, flags, places, caller, done, failed>>

-----------------------------------------------------------------------------
(* The connection *)

\* connect() and disconnect()
Connect ==
  /\ UserReady
  /\ state = "DISCONNECTED" /\ channel = "none"
  /\ state' = "CONNECTING"
  /\ UNCHANGED <<channel, el, alive, object, flags, places, caller, wire, done, failed>>

Disconnect ==
  /\ "disconnect" \in Calls
  /\ UserReady
  /\ state \in {"CONNECTED", "RECONNECTING"}
  /\ state' = "DISCONNECTING"
  /\ UNCHANGED <<channel, el, alive, object, flags, places, caller, wire, done, failed>>

\* s_outstanding_request_destroy, called for every request of the table when it
\* is cleared: a request whose task ran as cancelled is released, any other is
\* left to its task.
ClearTable ==
  LET stored == {r \in Requests : \E i \in Ids : table[i] = r}
  IN /\ mem' = [r \in Requests |-> IF r \in stored \cap cancelled THEN "released" ELSE mem[r]]
     /\ cancelled' = cancelled \cup stored
     /\ table' = [i \in Ids |-> NoRequest]

\* aws_mqtt_client_connection_destroy
Destroy ==
  /\ "destroy" \in Calls
  /\ UserReady /\ el = "idle"
  /\ state = "DISCONNECTED"
  /\ alive' = FALSE
  /\ ClearTable
  /\ UNCHANGED <<state, channel, el, id, kind, initiated, completed, pending, tasks,
                 caller, wire, done, failed>>

\* s_mqtt_client_init: the slot is created.
ChannelUp ==
  /\ LoopReady /\ alive
  /\ channel = "none" /\ state # "DISCONNECTED"
  /\ channel' = "up"
  /\ UNCHANGED <<state, el, alive, object, flags, places, caller, wire, done, failed>>

\* s_packet_handler_connack: CONNECTED is set and the program called back; a
\* refused connection is about to be closed.
Connack ==
  /\ LoopReady
  /\ channel = "up" /\ state \in {"CONNECTING", "RECONNECTING"}
  /\ state' = "CONNECTED"
  /\ el' = "on_connack"
  /\ channel' \in {"up"} \cup IF "refuse" \in Faults THEN {"refused"} ELSE {}
  /\ UNCHANGED <<alive, object, flags, places, caller, wire, done, failed>>

\* Mutant of ConnackEnds: the pending requests are not scheduled.
ConnackEndsAtOnce ==
  /\ el = "on_connack" /\ LoopContinues
  /\ el' = "idle"
  /\ UNCHANGED <<state, channel, alive, object, flags, places, caller, wire, done, failed>>

\* The pending requests are scheduled, unless the connection was refused.
ConnackEnds ==
  /\ el = "on_connack" /\ LoopContinues
  /\ el' = "idle"
  /\ IF channel = "up" THEN tasks' = tasks \cup pending /\ pending' = {}
                       ELSE UNCHANGED <<tasks, pending>>
  /\ UNCHANGED <<state, channel, alive, object, flags, table, caller, wire, done, failed>>

\* s_request_timeout_task with status CANCELED: the channel shuts down, because
\* of a disconnect, a refusal or the network.
ChannelStops ==
  /\ LoopReady
  /\ channel \in {"up", "refused"}
  /\ state = "DISCONNECTING" \/ channel = "refused" \/ "hangup" \in Faults
  /\ channel' = "down"
  /\ cancelled' = cancelled \cup tasks
  /\ tasks' = {}
  /\ acks' = [r \in Requests |-> 0] /\ recs' = [r \in Requests |-> 0]
  /\ UNCHANGED <<state, el, alive, object, initiated, completed, table, pending, caller, done, failed>>

\* s_mqtt_client_shutdown, for a channel or a failed attempt: the slot is cleared.
\* A channel lost before the CONNACK counts as a lost connection.
ShutdownClearsSlot ==
  /\ LoopReady
  /\ \/ channel = "down"
     \/ channel = "none" /\ state # "DISCONNECTED" /\ "hangup" \in Faults
  /\ channel' = "none"
  /\ state' = IF channel = "down" /\ state = "CONNECTING" THEN "CONNECTED" ELSE state
  /\ el' = "shutdown"
  /\ UNCHANGED <<alive, object, flags, places, caller, wire, done, failed>>

\* The rest of s_mqtt_client_shutdown: the table is cleared after a disconnect.
Shutdown ==
  /\ el = "shutdown" /\ LoopContinues
  /\ \/ /\ state = "DISCONNECTING"
        /\ state' = "DISCONNECTED" /\ el' = "idle"
        /\ ClearTable
     \/ /\ state = "CONNECTING"
        /\ state' = "DISCONNECTED" /\ el' = "idle"
        /\ UNCHANGED <<mem, cancelled, table>>
     \/ /\ state = "CONNECTED"
        /\ state' = "RECONNECTING" /\ el' = "on_interrupted"
        /\ UNCHANGED <<mem, cancelled, table>>
     \/ /\ state = "RECONNECTING"
        /\ el' = "idle"
        /\ UNCHANGED <<state, mem, cancelled, table>>
  /\ UNCHANGED <<channel, alive, id, kind, initiated, completed, pending, tasks,
                 caller, wire, done, failed>>

\* on_interrupted returns; the program may have disconnected in it.
Interrupted ==
  /\ el = "on_interrupted" /\ LoopContinues
  /\ el' = "idle"
  /\ state' = IF state = "DISCONNECTING" THEN "DISCONNECTED" ELSE state
  /\ UNCHANGED <<channel, alive, object, flags, places, caller, wire, done, failed>>

-----------------------------------------------------------------------------
Create == CreateReadsState \/ CreatePushes \/ CreateDispatches

Loop ==
  \/ ChannelUp \/ Connack \/ ConnackEnds \/ ChannelStops
  \/ ShutdownClearsSlot \/ Shutdown \/ Interrupted

\* A failed assertion or an invalid access ends the program.
Next ==
  /\ failed = {}
  /\ \/ \E r \in Requests : CreateStores(r) \/ TaskRuns(r) \/ Ack(r) \/ Pubrec(r)
     \/ Create \/ Connect \/ Disconnect \/ Destroy \/ Loop

Spec == Init /\ [][Next]_vars

\* The caller goes on, the event loop runs tasks that are due and finishes its
\* handlers, and the server answers.  Nobody has to lose or close the channel.
Fairness ==
  /\ WF_vars(Create)
  /\ WF_vars(ConnackEnds)
  /\ \A r \in Requests : WF_vars(TaskRuns(r)) /\ WF_vars(Ack(r)) /\ WF_vars(Pubrec(r))

FairSpec == Spec /\ Fairness

-----------------------------------------------------------------------------
(* Properties *)

\* Something will run the timeout task of r, or put it in a place that does.
Held(r) == r \in tasks \/ r \in pending \/ caller.r = r

\* The table and the requests agree: an id leads to a live request that carries
\* it, and a request that was not cancelled is found under its id.  So an answer
\* reaches its own request, and s_request_timeout_task removes its own entry
\* (assertion at 563).
TableIsSound ==
  /\ \A i \in Ids : table[i] # NoRequest => mem[table[i]] = "live" /\ id[table[i]] = i
  /\ \A r \in Requests :
       mem[r] = "live" /\ r \notin cancelled => id[r] \in Ids /\ table[id[r]] = r

\* No request is in two places (it has one list node and one task), and none of
\* them is used after its release.
HeldOnce ==
  /\ tasks \cap pending = {}
  /\ caller.r \notin tasks \cup pending
  /\ \A r \in Requests : Held(r) => mem[r] = "live"

\* s_request_timeout_task "just frees" a cancelled request: a cancelled request
\* that is still to run is no longer in the table.
ContainersAreGone ==
  \A r \in cancelled : Held(r) => \A i \in Ids : table[i] # r

\* No request is forgotten: until it is cancelled, a live request is scheduled,
\* pending or just being created.
NoRequestForgotten ==
  \A r \in Requests : mem[r] = "live" /\ r \notin cancelled => Held(r)

\* on_complete is called before a request is released, unless it was cancelled.
ReleasedIsReported ==
  \A r \in Requests :
    mem[r] = "released" /\ r \notin cancelled /\ kind[r] # "ping" => done[r] >= 1

\* Whatever happens to a request, somebody is left who will end it: it is not
\* forgotten, its caller is told, and whoever frees it after a cancellation is
\* the only one (s_request_timeout_task and the clearing of the table).
RequestsAreKept == ContainersAreGone /\ NoRequestForgotten /\ ReleasedIsReported

\* When the server answers within the timeout, an answer always finds the request
\* it belongs to, and no request is completed twice: ids are not reused too early.
AnswersMatch == failed \cap {"no_request", "wrong_request", "recompleted"} = {}

\* mqtt_create_request reads connection->slot only while it is set.
SlotIsThere == "null_slot" \notin failed

\* On the channel's thread, with a server that answers within the timeout, the
\* handlers and mqtt_create_request meet what they expect: the request of the
\* answer, not yet answered, and the slot.
RequestsAreSafe == AnswersMatch /\ SlotIsThere

\* While the connection is online and no handler runs, no request is left in the
\* pending list: nothing would ever send it.  (client_impl.h:131, "List of all
\* requests that cannot be scheduled until the connection comes online")
PendingIsOffline ==
  state = "CONNECTED" /\ channel = "up" /\ el = "idle" => pending = {}

\* If the connection lasts from some time on, sends succeed and the server answers,
\* every request, made before or after, is released by s_request_timeout_task,
\* unless a lost channel cancelled it.
EveryRequestEnds ==
  <>[](state = "CONNECTED" /\ channel = "up" /\ failed = {}) =>
    \A r \in Requests : (mem[r] = "live") ~> (mem[r] = "released" \/ r \in cancelled)

-----------------------------------------------------------------------------
(* What comments say *)

\* client_channel_handler.c:510, "If task cancelled, assume safe shutdown is in
\* progress": a task is cancelled only by the shutdown that follows disconnect().
CancelledByShutdown ==
  [][cancelled # cancelled' => state \in {"DISCONNECTING", "DISCONNECTED"}]_vars
=============================================================================
