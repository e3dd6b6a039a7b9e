-------------------------- MODULE MqttConnection --------------------------
(***************************************************************************)
(* The life cycle of one aws_mqtt_client_connection: the user's calls      *)
(* (connect, disconnect, reconnect, destroy), the callbacks that the       *)
(* bootstrap makes when a channel is set up and shut down, the CONNACK     *)
(* handler, the disconnect task and the heap-allocated reconnect task.     *)
(*                                                                         *)
(* A channel (aws-c-io) is external: it is modelled by when it calls back. *)
(* The event loop runs one handler at a time.  With OneLoop, the user's    *)
(* calls and the reconnect timer run on that same thread, so a call can    *)
(* start only between handlers or inside a user callback.  Without it they *)
(* have threads of their own and interleave with every step of a handler;  *)
(* a step then holds at most one decisive access to the shared fields.     *)
(***************************************************************************)
EXTENDS Naturals, Sequences

CONSTANTS
  MaxConnects,  \* bound on connect() calls; each allocates a reconnect task
  MaxQueue,     \* bound on disconnect tasks queued by unexpected packets
  OneLoop,      \* TRUE when every thread of the above is one event loop
  Calls,        \* the API calls the program makes, besides connect()
  Faults        \* the failures of calls into other libraries to consider

CallNames  == {"disconnect", "reconnect", "destroy"}
FaultNames == {"slot", "send", "bootstrap", "setup", "refuse"}

ASSUME ConstantsAssumption ==
  /\ MaxConnects \in Nat \ {0}
  /\ MaxQueue \in Nat
  /\ OneLoop \in BOOLEAN
  /\ Calls \subseteq CallNames
  /\ Faults \subseteq FaultNames

VARIABLES
  state,          \* connection->state
  slot,           \* connection->slot is not NULL
  count,          \* connection->connection_count, which is only compared with 1
  reconnect_task, \* connection->reconnect_task, 0 for NULL
  mem,            \* the memory of each reconnect task
  attached,       \* the tasks whose connection_ptr is not NULL
  queued,         \* the tasks scheduled on an event loop
  stamped,        \* the tasks whose timestamp is not 0
  channel,        \* the channel of the connection
  server,         \* what the server has received and answered on the channel
  dq,             \* disconnect tasks scheduled on the channel
  el,             \* where the handler that the event loop runs is
  ack,            \* the CONNACK being handled
  att,            \* where s_attempt_reconect is
  user,           \* where the user's call is
  connects,       \* number of connect() calls made
  alive,          \* the connection has not been destroyed
  announced,      \* what on_connection_complete reported since connect()
  resumed,        \* on_resumed reported an accepted CONNACK since connect()
  owed,           \* disconnect() succeeded and on_disconnect has not come yet
  failed          \* assertions that did not hold, and invalid accesses made

tasks   == <<mem, attached, queued, stamped>>
network == <<channel, server, dq>>
pcs     == <<el, ack, att, user>>
history == <<connects, alive, announced, resumed, owed, failed>>
vars == <<state, slot, count, reconnect_task, tasks, network, pcs, history>>

Tasks  == 1..MaxConnects
States == {"CONNECTING", "CONNECTED", "RECONNECTING", "DISCONNECTING", "DISCONNECTED"}
Channels == {"none", "opening", "open", "closing_clean", "closing_error"}
Fatal    == {"overlap", "null_task", "null_slot", "freed_task", "double_free", "requeued"}
Accesses == Fatal \cup {"assert_636", "early_packet"}

FlagsAreBoolean == {slot, alive, resumed, owed} \subseteq BOOLEAN

\* Every field of the connection, of the tasks and of the callers has its type.
TypeOK ==
  /\ FlagsAreBoolean
  /\ state \in States
  /\ count \in 0..2
  /\ reconnect_task \in 0..MaxConnects
  /\ mem \in [Tasks -> {"unused", "live", "freed"}]
  /\ attached \subseteq Tasks
  /\ queued \subseteq Tasks
  /\ stamped \subseteq Tasks
  /\ channel \in Channels
  /\ server \in {"silent", "asked", "answered", "ignored"}
  /\ dq \in Seq({"clean", "error"})
  /\ el \in {"idle", "shutdown", "interrupt", "on_interrupted", "resume",
            "connack", "on_connack"}
  /\ ack \in [rc : {"accepted", "refused"}, was_reconnecting : BOOLEAN]
  /\ att \in {"idle", "returning"}
  /\ user \in {"idle", "disconnect", "impl", "schedule"}
  /\ connects \in 0..MaxConnects
  /\ announced \in {"nothing", "refused", "accepted"}
  /\ failed \subseteq Accesses

Init ==
  /\ state = "DISCONNECTED"
  /\ slot = FALSE
  /\ count = 0
  /\ reconnect_task = 0
  /\ mem = [t \in Tasks |-> "unused"]
  /\ attached = {}
  /\ queued = {}
  /\ stamped = {}
  /\ channel = "none"
  /\ server = "silent"
  /\ dq = <<>>
  /\ el = "idle"
  /\ ack = [rc |-> "accepted", was_reconnecting |-> FALSE]
  /\ att = "idle"
  /\ user = "idle"
  /\ connects = 0
  /\ alive = TRUE
  /\ announced = "nothing"
  /\ resumed = FALSE
  /\ owed = FALSE
  /\ failed = {}
-----------------------------------------------------------------------------
(* Threads and invalid accesses *)

\* The event loop can start a handler.
LoopReady == el = "idle" /\ (OneLoop => user = "idle" /\ att = "idle")

\* The event loop can go on with a handler it is in.
LoopContinues == OneLoop => user = "idle" /\ att = "idle"

\* The user can start a call.
UserReady ==
  /\ alive
  /\ user = "idle"
  /\ OneLoop => el \in {"idle", "on_interrupted", "on_connack"} /\ att = "idle"

\* The label of an assertion or access, when its condition does not hold.
Unless(condition, label) == IF condition THEN {} ELSE {label}

\* Dereferencing connection->reconnect_task.
DerefTask ==
  Unless(reconnect_task # 0, "null_task") \cup
  Unless(reconnect_task # 0 => mem[reconnect_task] = "live", "freed_task")

\* aws_event_loop_schedule_task_future, with the tasks q on the event loops: it
\* sets the task's timestamp.
ScheduleTask(q) ==
  /\ failed' = failed \cup DerefTask \cup
       Unless(reconnect_task \notin q, "requeued")
  /\ queued' = (q \cup {reconnect_task}) \ {0}
  /\ stamped' = (stamped \cup {reconnect_task}) \ {0}

\* The channel that aws_mqtt_client_connection_reconnect asks the bootstrap for.
NewChannel ==
  /\ channel' = "opening"
  /\ server' = "silent"
  /\ dq' = <<>>

-----------------------------------------------------------------------------
(* The user's calls *)

\* aws_mqtt_client_connection_connect, when every step of it succeeds.
Connect ==
  /\ UserReady
  /\ state = "DISCONNECTED"
  /\ connects < MaxConnects
  /\ connects' = connects + 1
  /\ state' = "CONNECTING"
  /\ count' = 0
  /\ reconnect_task' = connects + 1
  /\ mem' = [mem EXCEPT ![connects + 1] = "live"]
  /\ attached' = attached \cup {connects + 1}
  /\ announced' = "nothing"
  /\ resumed' = FALSE
  /\ failed' = failed \cup Unless(reconnect_task = 0, "assert_636")
                     \cup Unless(channel = "none", "overlap")
  /\ NewChannel
  /\ UNCHANGED <<slot, queued, stamped, pcs, alive, owed>>

\* aws_mqtt_client_connection_connect, when a step fails: the TLS options or
\* the task cannot be allocated (nothing to undo), the client id cannot be
\* copied (the task is released), or reconnect() fails (it is released twice).
ConnectFails ==
  /\ UserReady
  /\ state = "DISCONNECTED"
  /\ connects < MaxConnects
  /\ connects' = connects + 1
  /\ state' = "CONNECTING"
  /\ count' = 0
  /\ announced' = "nothing"
  /\ resumed' = FALSE
  /\ \/ /\ "setup" \in Faults
        /\ reconnect_task' \in {reconnect_task, 0}
        /\ UNCHANGED <<mem, attached, failed>>
     \/ /\ "setup" \in Faults
        /\ reconnect_task' = connects + 1
        /\ mem' = [mem EXCEPT ![connects + 1] = "freed"]
        /\ attached' = attached \cup {connects + 1}
        /\ \E label \in {{}, {"double_free"}} :
             failed' = failed \cup label \cup Unless(reconnect_task = 0, "assert_636")
  /\ UNCHANGED <<slot, queued, stamped, network, pcs, alive, owed>>

\* aws_mqtt_client_connection_reconnect, as a program may call it: connect()
\* was called before, and no channel is left.  It does not set the state.
Reconnect ==
  /\ "reconnect" \in Calls
  /\ UserReady
  /\ connects > 0 /\ channel = "none"
  /\ NewChannel
  /\ UNCHANGED <<state, slot, count, reconnect_task, tasks, pcs, history>>

\* aws_mqtt_client_connection_disconnect: the state is tested ...
Disconnect ==
  /\ "disconnect" \in Calls
  /\ UserReady
  /\ state \in {"CONNECTED", "RECONNECTING"}
  /\ user' = "disconnect"
  /\ UNCHANGED <<state, slot, count, reconnect_task, tasks, network, el, ack, att, history>>

\* ... and set.
DisconnectSets ==
  /\ user = "disconnect"
  /\ state' = "DISCONNECTING"
  /\ owed' = TRUE
  /\ user' = "impl"
  /\ UNCHANGED <<slot, count, reconnect_task, tasks, network, el, ack, att,
                 connects, alive, announced, resumed, failed>>

\* mqtt_disconnect_impl, called by the user: it does nothing without a slot.
DisconnectImpl ==
  /\ user = "impl"
  /\ user' = IF slot THEN "schedule" ELSE "idle"
  /\ UNCHANGED <<state, slot, count, reconnect_task, tasks, network, el, ack, att, history>>

\* mqtt_disconnect_impl schedules the disconnect task on connection->slot->channel.
DisconnectSchedules ==
  /\ user = "schedule"
  /\ user' = "idle"
  /\ failed' = failed \cup Unless(slot, "null_slot")
  /\ dq' = Append(dq, "clean")
  /\ UNCHANGED <<state, slot, count, reconnect_task, tasks, channel, server, el, ack, att,
                 connects, alive, announced, resumed, owed>>

\* aws_mqtt_client_connection_destroy, whose assertion is a duty of the caller.
Destroy ==
  /\ "destroy" \in Calls
  /\ UserReady
  /\ state = "DISCONNECTED"
  /\ alive' = FALSE
  /\ UNCHANGED <<state, slot, count, reconnect_task, tasks, network, pcs,
                 connects, announced, resumed, owed, failed>>

-----------------------------------------------------------------------------
(* The reconnect task *)

\* Mutant of AttemptStarts: the timer of the next attempt is set right away.
AttemptStartsTwice(t, q) ==
  /\ failed' = failed \cup Unless(mem[t] = "live", "freed_task")
                     \cup Unless(channel = "none", "overlap")
  /\ queued' = q \cup {t}
  /\ NewChannel
  /\ att' = "returning"
  /\ UNCHANGED <<mem, stamped>>

\* s_attempt_reconect up to the return of aws_mqtt_client_connection_reconnect,
\* for task t, with the tasks q left on the event loops: a channel is asked for.
AttemptStarts(t, q) ==
  /\ failed' = failed \cup Unless(mem[t] = "live", "freed_task")
                     \cup Unless(channel = "none", "overlap")
  /\ queued' = q
  /\ NewChannel
  /\ att' = "returning"
  /\ UNCHANGED <<mem, stamped>>

\* Mutant of AttemptFails: the timestamp is cleared after a failure too.
AttemptFailsUnstamped(q) ==
  /\ failed' = failed \cup DerefTask
  /\ queued' = (q \cup {reconnect_task}) \ {0}
  /\ stamped' = stamped \ {reconnect_task}
  /\ UNCHANGED <<mem, network, att>>

\* ... aws_mqtt_client_connection_reconnect fails: the next attempt is scheduled.
AttemptFails(q) ==
  /\ ScheduleTask(q)
  /\ UNCHANGED <<mem, network, att>>

\* s_attempt_reconect of a task that was detached: the task frees itself.
AttemptIsStale(t, q) ==
  /\ failed' = failed \cup Unless(mem[t] = "live", "freed_task")
  /\ queued' = q
  /\ mem' = [mem EXCEPT ![t] = "freed"]
  /\ UNCHANGED <<stamped, network, att>>

AttemptReconnect(t, q) ==
  \/ t \in attached /\ AttemptStarts(t, q)
  \/ t \in attached /\ "bootstrap" \in Faults /\ AttemptFails(q)
  \/ t \notin attached /\ AttemptIsStale(t, q)

\* The event loop that the task was scheduled on runs it.
TimerFires(t) ==
  /\ t \in queued
  /\ OneLoop => LoopReady
  /\ att = "idle"
  /\ AttemptReconnect(t, queued \ {t})
  /\ UNCHANGED <<state, slot, count, reconnect_task, attached, el, ack, user,
                 connects, alive, announced, resumed, owed>>

\* reconnect() has succeeded: connection->reconnect_task->task.timestamp = 0.
AttemptReturns ==
  /\ att = "returning"
  /\ att' = "idle"
  /\ failed' = failed \cup DerefTask
  /\ stamped' = stamped \ {reconnect_task}
  /\ UNCHANGED <<state, slot, count, reconnect_task, mem, attached, queued, network, el, ack, user,
                 connects, alive, announced, resumed, owed>>

-----------------------------------------------------------------------------
(* The channel: s_mqtt_client_init, s_mqtt_disconnect_task and              *)
(* s_mqtt_client_shutdown                                                   *)

\* s_mqtt_client_init without an error: the slot is created and CONNECT sent.
\* If the slot cannot be created the channel is shut down; if CONNECT cannot
\* be sent on_connection_complete is called and the channel stays.
ChannelUp ==
  /\ LoopReady
  /\ channel = "opening"
  /\ \/ slot' = TRUE /\ channel' = "open" /\ server' = "asked"
     \/ "send" \in Faults /\ slot' = TRUE /\ channel' = "open" /\ server' = "silent"
     \/ "slot" \in Faults /\ slot' = FALSE /\ channel' = "closing_error" /\ server' = "silent"
  /\ UNCHANGED <<state, count, reconnect_task, tasks, dq, pcs, history>>

\* The server or the network closes the channel.
Hangup ==
  /\ LoopReady
  /\ channel = "open"
  /\ channel' = "closing_error"
  /\ UNCHANGED <<state, slot, count, reconnect_task, tasks, server, dq, pcs, history>>

\* The reconnect task is released unless it is scheduled.
ReleaseTask ==
  mem' = IF reconnect_task \in stamped THEN mem ELSE [mem EXCEPT ![reconnect_task] = "freed"]

\* Mutant of ForgetTask: the pointer to the released task is kept.
KeepTask == UNCHANGED reconnect_task

ForgetTask == reconnect_task' = 0

\* The reconnect task is detached from the connection being disconnected.
CancelReconnect ==
  \/ /\ state = "DISCONNECTING" /\ reconnect_task # 0
     /\ attached' = attached \ {reconnect_task}
     /\ ReleaseTask
     /\ ForgetTask
     /\ failed' = failed \cup DerefTask
  \/ /\ ~(state = "DISCONNECTING" /\ reconnect_task # 0)
     /\ UNCHANGED <<attached, mem, reconnect_task, failed>>

\* s_mqtt_disconnect_task: aws_channel_shutdown is idempotent.
RunDisconnectTask ==
  /\ LoopReady
  /\ dq # <<>>
  /\ channel \in {"open", "closing_clean", "closing_error"}
  /\ CancelReconnect
  /\ channel' = IF channel # "open" THEN channel
                ELSE IF Head(dq) = "clean" THEN "closing_clean" ELSE "closing_error"
  /\ dq' = Tail(dq)
  /\ UNCHANGED <<state, slot, count, queued, stamped, server, pcs,
                 connects, alive, announced, resumed, owed>>

\* The attempt fails, or a channel that is being shut down is gone.  The
\* channel first runs its tasks as cancelled (s_mqtt_disconnect_task ignores
\* that), then s_mqtt_client_shutdown clears the slot.
ChannelDown ==
  /\ LoopReady
  /\ channel \in {"opening", "closing_clean", "closing_error"}
  /\ IF dq # <<>> THEN CancelReconnect
     ELSE UNCHANGED <<attached, mem, reconnect_task, failed>>
  /\ channel' = "none" /\ server' = "silent" /\ dq' = <<>>
  /\ slot' = FALSE
  /\ state' = IF slot /\ state = "CONNECTING" THEN "CONNECTED" ELSE state
  /\ el' = "shutdown"
  /\ UNCHANGED <<count, queued, stamped, ack, att, user,
                 connects, alive, announced, resumed, owed>>

\* Mutant of ShutdownRetries: the next attempt is not scheduled.
ShutdownStops ==
  /\ el = "shutdown" /\ LoopContinues
  /\ state = "RECONNECTING"
  /\ el' = "idle"
  /\ UNCHANGED <<state, slot, count, reconnect_task, tasks, network, ack, att, user, history>>

\* s_mqtt_client_shutdown: a reconnect attempt failed, try again later.
ShutdownRetries ==
  /\ el = "shutdown" /\ LoopContinues
  /\ state = "RECONNECTING"
  /\ ScheduleTask(queued)
  /\ el' = "idle"
  /\ UNCHANGED <<state, slot, count, reconnect_task, mem, attached, network, ack, att, user,
                 connects, alive, announced, resumed, owed>>

\* Mutant of ShutdownDisconnects: the state is not set.
ShutdownStaysDisconnecting ==
  /\ el = "shutdown" /\ LoopContinues
  /\ state = "DISCONNECTING"
  /\ owed' = FALSE
  /\ el' = "idle"
  /\ UNCHANGED <<state, slot, count, reconnect_task, tasks, network, ack, att, user,
                 connects, alive, announced, resumed, failed>>

\* ... the disconnect is complete: on_disconnect is called.
ShutdownDisconnects ==
  /\ el = "shutdown" /\ LoopContinues
  /\ state = "DISCONNECTING"
  /\ state' = "DISCONNECTED"
  /\ owed' = FALSE
  /\ el' = "idle"
  /\ UNCHANGED <<slot, count, reconnect_task, tasks, network, ack, att, user,
                 connects, alive, announced, resumed, failed>>

\* ... the first attempt failed: on_connection_complete is called with an error.
ShutdownGivesUp ==
  /\ el = "shutdown" /\ LoopContinues
  /\ state = "CONNECTING"
  /\ state' = "DISCONNECTED"
  /\ el' = "idle"
  /\ UNCHANGED <<slot, count, reconnect_task, tasks, network, ack, att, user, history>>

\* ... otherwise a connection was lost, or there was none (DISCONNECTED).
ShutdownInterrupts ==
  /\ el = "shutdown" /\ LoopContinues
  /\ state \in {"CONNECTED", "DISCONNECTED"}
  /\ el' = IF state = "CONNECTED" THEN "interrupt" ELSE "resume"
  /\ UNCHANGED <<state, slot, count, reconnect_task, tasks, network, ack, att, user, history>>

\* Mutant of Interrupt: the connection stays CONNECTED while it is down.
InterruptStaysConnected ==
  /\ el = "interrupt" /\ LoopContinues
  /\ el' = "on_interrupted"
  /\ UNCHANGED <<state, slot, count, reconnect_task, tasks, network, ack, att, user, history>>

\* on_interrupted is called ...
Interrupt ==
  /\ el = "interrupt" /\ LoopContinues
  /\ state' = "RECONNECTING"
  /\ el' = "on_interrupted"
  /\ UNCHANGED <<slot, count, reconnect_task, tasks, network, ack, att, user, history>>

\* ... and returns; the user may have disconnected in it.
Interrupted ==
  /\ el = "on_interrupted" /\ LoopContinues
  /\ \/ /\ state = "DISCONNECTING"
        /\ state' = "DISCONNECTED"
        /\ owed' = FALSE
        /\ el' = "idle"
     \/ /\ state # "DISCONNECTING"
        /\ el' = "resume"
        /\ UNCHANGED <<state, owed>>
  /\ UNCHANGED <<slot, count, reconnect_task, tasks, network, ack, att, user,
                 connects, alive, announced, resumed, failed>>

\* s_mqtt_client_shutdown calls the function of connection->reconnect_task.
Resume ==
  /\ el = "resume" /\ LoopContinues
  /\ el' = "idle"
  /\ \/ /\ reconnect_task = 0
        /\ failed' = failed \cup {"null_task"}
        /\ UNCHANGED <<mem, queued, stamped, network, att>>
     \/ /\ reconnect_task # 0
        /\ AttemptReconnect(reconnect_task, queued)
  /\ UNCHANGED <<state, slot, count, reconnect_task, attached, ack, user,
                 connects, alive, announced, resumed, owed>>

-----------------------------------------------------------------------------
(* Packets: s_process_mqtt_packet and s_packet_handler_connack *)

\* Mutant of IgnoresConnack: the comparison is strict.
IgnoresConnackStrictly == state = "DISCONNECTED"

\* The user requested a disconnect (state >= DISCONNECTING).
IgnoresConnack == state \in {"DISCONNECTING", "DISCONNECTED"}

\* What the handler keeps while it calls back.
ConnackFields(rc) == [rc |-> rc, was_reconnecting |-> state = "RECONNECTING"]

\* The CONNACK arrives, and is ignored after a disconnect().
Connack(rc) ==
  /\ LoopReady
  /\ channel = "open" /\ server = "asked"
  /\ rc = "refused" => "refuse" \in Faults
  /\ IF IgnoresConnack
     THEN server' = "ignored" /\ UNCHANGED <<el, ack>>
     ELSE server' = "answered" /\ el' = "connack" /\ ack' = ConnackFields(rc)
  /\ UNCHANGED <<state, slot, count, reconnect_task, tasks, channel, dq, att, user, history>>

\* Mutant of Resumes: the first CONNACK is not told apart.
ResumesAlways(n) == ack.was_reconnecting

\* on_resumed is called, rather than on_connection_complete, for CONNACK number n.
Resumes(n) == ack.was_reconnecting /\ n > 1

\* The connection is up: on_resumed or on_connection_complete is called.
ConnackConnects ==
  /\ el = "connack" /\ LoopContinues
  /\ state' = "CONNECTED"
  /\ count' = IF count = 2 THEN 2 ELSE count + 1
  /\ IF Resumes(count')
     THEN /\ resumed' = (resumed \/ ack.rc = "accepted")
          /\ UNCHANGED announced
     ELSE /\ announced' = IF announced = "accepted" THEN announced ELSE ack.rc
          /\ UNCHANGED resumed
  /\ el' = "on_connack"
  /\ UNCHANGED <<slot, reconnect_task, tasks, network, ack, att, user,
                 connects, alive, owed, failed>>

\* After the callback: a refused connection is closed.
ConnackEnds ==
  /\ el = "on_connack" /\ LoopContinues
  /\ el' = "idle"
  /\ dq' = IF ack.rc = "refused" /\ slot THEN Append(dq, "error") ELSE dq
  /\ UNCHANGED <<state, slot, count, reconnect_task, tasks, channel, server, ack, att, user, history>>

\* A packet other than CONNACK arrives before the CONNACK.
EarlyPacket ==
  /\ LoopReady
  /\ channel = "open" /\ server \in {"silent", "asked"}
  /\ \/ /\ state = "CONNECTING" /\ Len(dq) < MaxQueue
        /\ dq' = IF slot THEN Append(dq, "error") ELSE dq
        /\ UNCHANGED failed
     \/ /\ state # "CONNECTING"
        /\ failed' = failed \cup {"early_packet"}
        /\ UNCHANGED dq
  /\ UNCHANGED <<state, slot, count, reconnect_task, tasks, channel, server, pcs,
                 connects, alive, announced, resumed, owed>>

\* s_pingreq_send finds that PINGRESP is overdue.
PingTimeout ==
  /\ LoopReady
  /\ channel = "open" /\ server = "answered"
  /\ slot /\ Len(dq) < MaxQueue
  /\ dq' = Append(dq, "error")
  /\ UNCHANGED <<state, slot, count, reconnect_task, tasks, channel, server, pcs, history>>

-----------------------------------------------------------------------------
User ==
  \/ Connect \/ ConnectFails \/ Reconnect \/ Disconnect \/ Destroy

UserContinues == DisconnectSets \/ DisconnectImpl \/ DisconnectSchedules

Timer == \E t \in Tasks : TimerFires(t)

Shutdown ==
  \/ ShutdownRetries \/ ShutdownDisconnects \/ ShutdownGivesUp \/ ShutdownInterrupts
  \/ Interrupt \/ Interrupted \/ Resume

Packets ==
  \/ \E rc \in {"accepted", "refused"} : Connack(rc)
  \/ ConnackConnects \/ ConnackEnds \/ EarlyPacket \/ PingTimeout

\* An invalid access ends the program.
Next ==
  /\ failed \cap Fatal = {}
  /\ \/ User \/ UserContinues
     \/ Timer \/ AttemptReturns
     \/ ChannelUp \/ ChannelDown \/ Hangup \/ RunDisconnectTask \/ Shutdown
     \/ Packets

Spec == Init /\ [][Next]_vars

Fairness ==
  /\ WF_vars(UserContinues)
  /\ WF_vars(Timer) /\ WF_vars(AttemptReturns)
  /\ WF_vars(ChannelUp \/ ChannelDown)
  /\ WF_vars(RunDisconnectTask)
  /\ WF_vars(Shutdown)
  /\ WF_vars(ConnackConnects \/ ConnackEnds)

FairSpec == Spec /\ Fairness

-----------------------------------------------------------------------------
(* Properties of one event loop *)

\* No step dereferences a NULL slot, a NULL or released reconnect task,
\* schedules a task twice or opens a channel beside another one.
NoInvalidAccess == failed \cap Fatal = {}

\* A scheduled reconnect task has not been released, and its timestamp tells
\* s_mqtt_disconnect_task that it is scheduled.
TimerTaskIsLive == \A t \in queued : mem[t] = "live" /\ t \in stamped

\* A reconnect task is never forgotten: the connection or an event loop holds
\* every live one, unless connect() overwrote the pointer (assertion at 636).
NoTaskForgotten ==
  "assert_636" \notin failed =>
    \A t \in Tasks : mem[t] = "live" => t = reconnect_task \/ t \in queued

\* Something that will report back on the connection is under way.
Pending == channel # "none" \/ el # "idle" \/ queued \cap attached # {}

\* The retry of a lost connection is never dropped by s_mqtt_client_shutdown or
\* s_attempt_reconect: while RECONNECTING, an attempt is under way or scheduled.
RetryIsPending == state = "RECONNECTING" /\ failed \cap Fatal = {} => Pending

\* After disconnect() something is still to come that can end in on_disconnect.
DisconnectIsPending == state = "DISCONNECTING" /\ failed \cap Fatal = {} => Pending

\* After destroy(), no handler, channel or timer refers to the connection.
DestroyedIsQuiet ==
  ~alive => ~Pending /\ att = "idle" /\ user = "idle"

\* Reconnect tasks and connection end together: no task is released too early or
\* forgotten, and a destroyed connection has no handler, channel or timer left.
\* s_mqtt_disconnect_task, s_mqtt_client_shutdown and destroy() have to agree on it.
TasksAreHeld == TimerTaskIsLive /\ NoTaskForgotten /\ DestroyedIsQuiet

\* mqtt_create_request uses connection->slot when it reads CONNECTED: between
\* handlers the slot is there.
ConnectedHasSlot == state = "CONNECTED" /\ el = "idle" => slot

\* A DISCONNECTED connection may be connected or destroyed: no channel is left.
DisconnectedHasNoChannel == state = "DISCONNECTED" => channel = "none"

\* Between handlers the state tells the truth of the channel: what
\* mqtt_create_request, connect() and destroy() rely on.
ChannelFitsState == ConnectedHasSlot /\ DisconnectedHasNoChannel

\* on_resumed never comes before on_connection_complete has reported a CONNACK,
\* even when the first channel was lost before its CONNACK.
ResumedAfterComplete == resumed => announced # "nothing"

\* on_disconnect is owed from a disconnect() until the shutdown that ends it, and
\* at no other time: no path of the code loses it or calls it twice.
DisconnectOwed == owed <=> state = "DISCONNECTING"

\* A channel is closed without an error, which sends DISCONNECT and makes the
\* server drop the will, only because the user called disconnect().
CleanCloseOnRequest == channel = "closing_clean" => state = "DISCONNECTING"

\* Once DISCONNECTING, a connection goes nowhere but to DISCONNECTED.
DisconnectIsFinal == [][state = "DISCONNECTING" => state' = "DISCONNECTED"]_state

\* The callbacks come in the order that ConnectionContract allows.  A channel
\* lost before the CONNACK passes through CONNECTED on its way to RECONNECTING.
Phase ==
  CASE state = "CONNECTING" -> "opening"
    [] state = "CONNECTED" /\ el \in {"shutdown", "interrupt"} -> "lost"
    [] state = "CONNECTED" /\ el \notin {"shutdown", "interrupt"} -> "online"
    [] state = "RECONNECTING" -> "lost"
    [] state = "DISCONNECTING" -> "closing"
    [] state = "DISCONNECTED" -> "closed"

Contract == INSTANCE ConnectionContract WITH phase <- Phase, known <- announced # "nothing"

\* The connection implements the contract.
ContractHolds == Contract!Spec

-----------------------------------------------------------------------------
(* The inductive invariant of one event loop *)

\* The user's call is not interleaved with the steps of a handler.
CallsNest ==
  /\ el \in {"shutdown", "interrupt", "resume", "connack"} => user = "idle" /\ att = "idle"
  /\ user = "disconnect" => state \in {"CONNECTED", "RECONNECTING"}
  /\ user \in {"impl", "schedule"} => state = "DISCONNECTING"
  /\ user = "schedule" => slot

\* What a handler has found out still holds at its later steps.
HandlersKnow ==
  /\ el = "interrupt" => state = "CONNECTED"
  /\ el = "on_interrupted" => state \in {"RECONNECTING", "DISCONNECTING"}
  /\ el = "resume" => state \in {"RECONNECTING", "DISCONNECTED"}
  /\ el = "connack" => /\ state \in {"CONNECTING", "RECONNECTING"}
                       /\ ack.was_reconnecting <=> state = "RECONNECTING"
  /\ el = "on_connack" => state \in {"CONNECTED", "DISCONNECTING"}
  /\ el \in {"connack", "on_connack"} => channel = "open" /\ server = "answered"
  /\ el \in {"shutdown", "interrupt", "on_interrupted", "resume"} =>
       ~slot /\ dq = <<>> /\ channel \in {"none", "opening"}

\* The slot belongs to a channel, and a CONNECTED connection has an answered one.
ChannelMatches ==
  /\ channel = "open" => slot
  /\ state = "CONNECTED" /\ el \notin {"shutdown", "interrupt"} =>
       slot /\ (failed \cap Fatal = {} => server = "answered" /\ channel \notin {"none", "opening"})
  /\ \A i \in 1..Len(dq) : dq[i] = "clean" => state = "DISCONNECTING"

\* connection_count tells whether on_connection_complete has been called.
CountMatches ==
  /\ count = 0 <=> announced = "nothing"
  /\ state = "CONNECTING" => count = 0

\* The connection's own reconnect task is never a detached one.
OwnTaskIsAttached == reconnect_task # 0 => reconnect_task \in attached

\* Everything the callback contract of one event loop rests on: no step of any
\* handler or call breaks it (client.c and client_channel_handler.c as a whole).
LoopInvariant ==
  /\ CallsNest /\ HandlersKnow /\ ChannelMatches /\ CountMatches /\ OwnTaskIsAttached
  /\ ResumedAfterComplete /\ DisconnectOwed /\ CleanCloseOnRequest
  /\ RetryIsPending /\ DisconnectIsPending

-----------------------------------------------------------------------------
(* Properties of several threads *)

\* No released reconnect task is used, whatever the threads do.
NoUseAfterRelease == failed \cap {"freed_task", "double_free"} = {}

\* One attempt at a time: no channel is opened beside another one, and no timer
\* for the next attempt is left while there is a channel.
OneAttempt == "overlap" \notin failed /\ (channel # "none" => queued = {})

-----------------------------------------------------------------------------
(* The inductive invariants of the reconnect task *)

\* The program leaves reconnecting to the library, and no step of connect() fails.
LibraryRetries == "reconnect" \notin Calls /\ "setup" \notin Faults

\* Why there is one attempt at a time, on any number of threads: the connection's
\* own task is the only one that is scheduled, and is not while there is a channel,
\* a handler of its end, or no connection.
AttemptsFit ==
  /\ reconnect_task # 0 => mem[reconnect_task] = "live" /\ reconnect_task \in attached
  /\ queued \subseteq {reconnect_task}
  /\ channel # "none" => queued = {}
  /\ el \in {"shutdown", "interrupt", "on_interrupted", "resume"} => channel = "none" /\ queued = {}
  /\ state = "DISCONNECTED" => channel = "none" /\ el = "idle" /\ queued = {}
  /\ state = "RECONNECTING" /\ failed \cap Fatal = {} /\ channel = "none" /\ el = "idle" => queued # {}
  /\ failed \cap {"overlap", "freed_task", "double_free", "requeued"} = {}

\* What the handlers know of state and slot, whatever the user's thread does.
ThreadsFit ==
  /\ slot => channel \in {"open", "closing_clean", "closing_error"}
  /\ channel = "open" => slot
  /\ el \in {"connack", "on_connack"} => channel = "open"
  /\ el \in {"on_interrupted", "resume"} => state \in {"RECONNECTING", "DISCONNECTING"}
  /\ state = "CONNECTED" => slot \/ el \in {"shutdown", "interrupt"}
  /\ user = "disconnect" => state \in {"CONNECTED", "RECONNECTING"}

\* Why the task is released in time and not forgotten, on one event loop: the
\* connection has one until s_mqtt_disconnect_task takes it away, and the timestamp
\* tells whether it is scheduled, except inside s_attempt_reconect.
TasksFit ==
  /\ state \in {"CONNECTING", "CONNECTED", "RECONNECTING"} => reconnect_task # 0
  /\ att = "returning" => reconnect_task # 0 /\ queued = {} /\ user = "idle" /\ el = "idle"
  /\ queued \subseteq stamped
  /\ stamped \subseteq queued \cup (IF att = "returning" THEN {reconnect_task} ELSE {})
  /\ ~alive => state = "DISCONNECTED" /\ att = "idle" /\ user = "idle"
  /\ NoTaskForgotten
  /\ failed \cap Fatal = {}

-----------------------------------------------------------------------------
(* Liveness *)

\* A disconnect() that found a slot, and so scheduled s_mqtt_disconnect_task,
\* ends in on_disconnect.
ScheduledDisconnectCompletes ==
  (state = "DISCONNECTING" /\ dq # <<>>) ~> (state = "DISCONNECTED")

\* A lost connection is tried again: a channel is asked for, unless the user
\* disconnects first.
LostConnectionIsRetried ==
  (state = "RECONNECTING" /\ channel = "none") ~>
  (state # "RECONNECTING" \/ channel # "none")

=============================================================================
