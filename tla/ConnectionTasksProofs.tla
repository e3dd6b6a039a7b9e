----------------------- MODULE ConnectionTasksProofs -----------------------
(***************************************************************************)
(* Proofs about the reconnect task of MqttConnection: first for any number *)
(* of threads, then for one event loop.  The program does not call         *)
(* reconnect() itself, and no step of connect() fails.                     *)
(***************************************************************************)
EXTENDS MqttConnectionProofs

-----------------------------------------------------------------------------
(* Steps that touch the task *)

\* A dereference of the connection's own task is valid.
LEMMA OwnTaskIsLive ==
  ASSUME AttemptsFit
  PROVE  DerefTask = IF reconnect_task = 0 THEN {"null_task"} ELSE {}
  BY DEF AttemptsFit, DerefTask, Unless

\* Scheduling the connection's own task, when none is scheduled.
LEMMA ScheduleOwn ==
  ASSUME AttemptsFit, ScheduleTask({}) 
  PROVE  /\ failed' = failed \cup (IF reconnect_task = 0 THEN {"null_task"} ELSE {})
         /\ queued' = {reconnect_task} \ {0}
         /\ stamped' = (stamped \cup {reconnect_task}) \ {0}
  BY OwnTaskIsLive DEF ScheduleTask, Unless

\* s_attempt_reconect of the connection's own task, when there is no channel: a
\* channel is asked for, or the task is scheduled again.
LEMMA AttemptOwn ==
  ASSUME AttemptsFit, reconnect_task # 0, channel = "none",
         AttemptReconnect(reconnect_task, {})
  PROVE  /\ mem' = mem /\ failed' = failed
         /\ \/ /\ channel' = "opening" /\ queued' = {} /\ att' = "returning"
               /\ stamped' = stamped
            \/ /\ UNCHANGED <<channel, att>> /\ queued' = {reconnect_task}
               /\ stamped' = (stamped \cup {reconnect_task}) \ {0}
<1>1. reconnect_task \in attached /\ mem[reconnect_task] = "live"
  BY DEF AttemptsFit
<1>2. CASE AttemptStarts(reconnect_task, {})
  BY <1>1, <1>2 DEF AttemptStarts, NewChannel, Unless
<1>3. CASE AttemptFails({})
  BY <1>3, ScheduleOwn, Zenon DEF AttemptFails, network
<1> QED
  BY <1>1, <1>2, <1>3 DEF AttemptReconnect

\* A timer that fires is the connection's own, and finds no channel and no handler
\* of the connection.
LEMMA TimerFinds ==
  ASSUME TypeOK, AttemptsFit, ThreadsFit, NEW t \in queued
  PROVE  /\ t = reconnect_task /\ reconnect_task # 0 /\ queued \ {t} = {}
         /\ channel = "none" /\ el = "idle" /\ state # "DISCONNECTED"
  BY ConstantsAssumption DEF TypeOK, Tasks, AttemptsFit, ThreadsFit

\* s_mqtt_disconnect_task, while there is a channel.
LEMMA CancelOwn ==
  ASSUME TypeOK, AttemptsFit, CancelReconnect
  PROVE  /\ failed' = failed
         /\ \/ UNCHANGED <<attached, mem, reconnect_task>>
            \/ /\ state = "DISCONNECTING" /\ reconnect_task # 0 /\ reconnect_task' = 0
               /\ attached' = attached \ {reconnect_task}
               /\ mem' = IF reconnect_task \in stamped THEN mem
                         ELSE [mem EXCEPT ![reconnect_task] = "freed"]
  BY OwnTaskIsLive DEF CancelReconnect, ReleaseTask, ForgetTask

-----------------------------------------------------------------------------
(* Any number of threads *)

\* Every step keeps what the handlers know of state and slot.
LEMMA ThreadsStep ==
  ASSUME LibraryRetries, TypeOK, AttemptsFit, ThreadsFit, Next
  PROVE  ThreadsFit'
<1> USE DEF ThreadsFit, TypeOK, States, Channels, FlagsAreBoolean, tasks, network, pcs, history,
      LoopReady, UserReady
<1>1. CASE Connect
  BY <1>1 DEF Connect, NewChannel, AttemptsFit
<1>2. CASE ConnectFails \/ Reconnect
  BY <1>2 DEF ConnectFails, Reconnect, LibraryRetries
<1>3. CASE Disconnect \/ Destroy \/ UserContinues
  BY <1>3 DEF Disconnect, Destroy, UserContinues, DisconnectSets, DisconnectImpl,
      DisconnectSchedules
<1>4. ASSUME NEW t \in Tasks, TimerFires(t) PROVE ThreadsFit'
  <2>1. t = reconnect_task /\ reconnect_task # 0 /\ queued \ {t} = {} /\ channel = "none"
    BY <1>4, TimerFinds DEF TimerFires
  <2>2. AttemptReconnect(reconnect_task, {})
    BY <1>4, <2>1, Zenon DEF TimerFires
  <2>3. channel' \in {"none", "opening"}
    BY <2>1, <2>2, AttemptOwn
  <2> QED
    BY <1>4, <2>1, <2>3 DEF TimerFires
<1>5. CASE AttemptReturns
  BY <1>5 DEF AttemptReturns
<1>6. CASE ChannelUp
  BY <1>6 DEF ChannelUp
<1>7. CASE ChannelDown
  BY <1>7 DEF ChannelDown
<1>8. CASE Hangup \/ RunDisconnectTask
  BY <1>8 DEF Hangup, RunDisconnectTask
<1>9. CASE ShutdownRetries \/ ShutdownDisconnects \/ ShutdownGivesUp \/ ShutdownInterrupts
  BY <1>9 DEF ShutdownRetries, ShutdownDisconnects, ShutdownGivesUp, ShutdownInterrupts, AttemptsFit
<1>10. CASE Interrupt \/ Interrupted
  BY <1>10 DEF Interrupt, Interrupted, AttemptsFit
<1>11. CASE Resume
  <2>1. channel = "none" /\ queued = {}
    BY <1>11 DEF Resume, AttemptsFit
  <2>2. channel' \in {"none", "opening"}
    <3>1. CASE reconnect_task = 0
      BY <1>11, <2>1, <3>1 DEF Resume
    <3>2. CASE reconnect_task # 0
      BY <1>11, <2>1, <3>2, AttemptOwn DEF Resume
    <3> QED
      BY <3>1, <3>2
  <2> QED
    BY <1>11, <2>1, <2>2 DEF Resume
<1>12. CASE Packets
  BY <1>12 DEF Packets, Connack, ConnackConnects, ConnackEnds, EarlyPacket, PingTimeout
<1> QED
  BY <1>1, <1>2, <1>3, <1>4, <1>5, <1>6, <1>7, <1>8, <1>9, <1>10, <1>11, <1>12, Zenon
     DEF Next, User, Timer, Shutdown

\* Every step keeps AttemptsFit.
LEMMA AttemptsStep ==
  ASSUME LibraryRetries, TypeOK, AttemptsFit, ThreadsFit, Next
  PROVE  AttemptsFit'
<1> USE DEF AttemptsFit, tasks, network, pcs, history, LoopReady, UserReady
<1>1. CASE Connect
  <2>1. connects + 1 \in Tasks /\ mem'[connects + 1] = "live" /\ reconnect_task' = connects + 1
    BY <1>1, ConstantsAssumption DEF Connect, TypeOK, Tasks
  <2>2. failed' \cap {"overlap", "freed_task", "double_free", "requeued"} = {}
    BY <1>1 DEF Connect, Unless
  <2> QED
    BY <1>1, <2>1, <2>2 DEF Connect, NewChannel
<1>2. CASE ConnectFails \/ Reconnect
  BY <1>2 DEF ConnectFails, Reconnect, LibraryRetries
<1>3. CASE Disconnect \/ Destroy
  BY <1>3 DEF Disconnect, Destroy
<1>4. CASE UserContinues
  BY <1>4 DEF UserContinues, DisconnectSets, DisconnectImpl, DisconnectSchedules, Unless, ThreadsFit
<1>5. ASSUME NEW t \in Tasks, TimerFires(t) PROVE AttemptsFit'
  BY <1>5, TimerFinds, AttemptOwn DEF TimerFires
<1>6. CASE AttemptReturns
  BY <1>6, OwnTaskIsLive DEF AttemptReturns
<1>7. CASE ChannelUp \/ Hangup
  BY <1>7 DEF ChannelUp, Hangup
<1>8. CASE ChannelDown
  BY <1>8, CancelOwn DEF ChannelDown
<1>9. CASE RunDisconnectTask
  BY <1>9, CancelOwn DEF RunDisconnectTask
<1>10. CASE ShutdownRetries
  BY <1>10, ScheduleOwn DEF ShutdownRetries, Fatal
<1>11. CASE ShutdownDisconnects \/ ShutdownGivesUp \/ ShutdownInterrupts
  BY <1>11 DEF ShutdownDisconnects, ShutdownGivesUp, ShutdownInterrupts
<1>12. CASE Interrupt \/ Interrupted
  BY <1>12 DEF Interrupt, Interrupted
<1>13. CASE Resume
  <2>1. channel = "none" /\ queued = {}
    BY <1>13 DEF Resume
  <2>2. CASE reconnect_task = 0
    BY <1>13, <2>1, <2>2 DEF Resume, Fatal
  <2>3. CASE reconnect_task # 0
    BY <1>13, <2>1, <2>3, AttemptOwn DEF Resume
  <2> QED
    BY <2>2, <2>3
<1>14. CASE Packets
  BY <1>14 DEF Packets, Connack, ConnackConnects, ConnackEnds, EarlyPacket, PingTimeout, ThreadsFit
<1> QED
  BY <1>1, <1>2, <1>3, <1>4, <1>5, <1>6, <1>7, <1>8, <1>9, <1>10, <1>11, <1>12, <1>13, <1>14, Zenon
     DEF Next, User, Timer, Shutdown

\* On any number of threads the two invariants always hold.
THEOREM ThreadsCorrect == LibraryRetries => (Spec => [](AttemptsFit /\ ThreadsFit))
<1> SUFFICES ASSUME LibraryRetries PROVE Spec => [](AttemptsFit /\ ThreadsFit)
  OBVIOUS
<1>1. Init => AttemptsFit /\ ThreadsFit
  BY DEF Init, AttemptsFit, ThreadsFit
<1>2. AttemptsFit /\ ThreadsFit /\ UNCHANGED vars => AttemptsFit' /\ ThreadsFit'
  BY DEF AttemptsFit, ThreadsFit, vars, tasks, network, pcs, history
<1>3. TypeOK /\ AttemptsFit /\ ThreadsFit /\ [Next]_vars => AttemptsFit' /\ ThreadsFit'
  BY <1>2, AttemptsStep, ThreadsStep
<1> QED
  BY <1>1, <1>3, TypeCorrect, PTL DEF Spec

\* However the threads interleave, s_attempt_reconect and connect() never open a
\* channel beside another one, and no timer is left beside a channel.
THEOREM OneAttemptHolds == LibraryRetries => (Spec => []OneAttempt)
<1>1. AttemptsFit => OneAttempt
  BY DEF AttemptsFit, OneAttempt
<1> QED
  BY <1>1, ThreadsCorrect, PTL

\* However the threads interleave, no handler uses a reconnect task that
\* s_mqtt_disconnect_task has released.
THEOREM NoUseAfterReleaseHolds == LibraryRetries => (Spec => []NoUseAfterRelease)
<1>1. AttemptsFit => NoUseAfterRelease
  BY DEF AttemptsFit, NoUseAfterRelease
<1> QED
  BY <1>1, ThreadsCorrect, PTL

\* However the threads interleave, a CONNECTED connection has its slot and a
\* DISCONNECTED one no channel, whenever no handler runs.
THEOREM ChannelFitsStateHolds == LibraryRetries => (Spec => []ChannelFitsState)
<1>1. AttemptsFit /\ ThreadsFit => ChannelFitsState
  BY DEF AttemptsFit, ThreadsFit, ChannelFitsState, ConnectedHasSlot, DisconnectedHasNoChannel
<1> QED
  BY <1>1, ThreadsCorrect, PTL

\* However the threads interleave, a lost connection has a retry under way or
\* scheduled.
THEOREM RetryOnThreadsHolds == LibraryRetries => (Spec => []RetryIsPending)
<1>1. ASSUME TypeOK, AttemptsFit PROVE RetryIsPending
  <2>1. queued \subseteq attached
    BY <1>1, ConstantsAssumption DEF AttemptsFit, TypeOK, Tasks
  <2> QED
    BY <1>1, <2>1 DEF AttemptsFit, RetryIsPending, Pending
<1> QED
  BY <1>1, TypeCorrect, ThreadsCorrect, PTL

-----------------------------------------------------------------------------
(* One event loop *)

\* Every step keeps TasksFit.
LEMMA TasksStep ==
  ASSUME OneLoop, LibraryRetries, TypeOK, LoopInvariant, AttemptsFit, ThreadsFit, TasksFit, Next
  PROVE  TasksFit'
<1> USE DEF TasksFit, NoTaskForgotten, tasks, network, pcs, history, LoopReady, LoopContinues, UserReady
<1>1. CASE Connect
  <2>1. connects + 1 \in Tasks /\ connects + 1 # 0 /\ reconnect_task' = connects + 1
    BY <1>1, ConstantsAssumption DEF Connect, TypeOK, Tasks
  <2>2. failed' \cap Fatal = {}
    BY <1>1 DEF Connect, Unless, AttemptsFit, Fatal
  <2>3. queued = {} /\ stamped = {}
    BY <1>1 DEF Connect, AttemptsFit
  <2>4. NoTaskForgotten'
    <3> SUFFICES ASSUME "assert_636" \notin failed', NEW t \in Tasks, mem'[t] = "live", t # connects + 1
                 PROVE  FALSE
      BY <2>1
    <3>1. reconnect_task = 0 /\ "assert_636" \notin failed
      BY <1>1 DEF Connect, Unless
    <3>2. mem[t] = "live"
      BY <1>1 DEF Connect, TypeOK
    <3> QED
      BY <2>3, <3>1, <3>2, ConstantsAssumption DEF Tasks
  <2> QED
    BY <1>1, <2>1, <2>2, <2>3, <2>4 DEF Connect
<1>2. CASE ConnectFails \/ Reconnect
  BY <1>2 DEF ConnectFails, Reconnect, LibraryRetries
<1>3. CASE Disconnect \/ Destroy
  BY <1>3 DEF Disconnect, Destroy
<1>4. CASE UserContinues
  BY <1>4 DEF UserContinues, DisconnectSets, DisconnectImpl, DisconnectSchedules, Unless,
      LoopInvariant, CallsNest
<1>5. ASSUME NEW t \in Tasks, TimerFires(t) PROVE TasksFit'
  <2>1. /\ t = reconnect_task /\ reconnect_task # 0 /\ queued \ {t} = {} /\ t \in queued
        /\ channel = "none" /\ el = "idle" /\ state # "DISCONNECTED"
    BY <1>5, TimerFinds DEF TimerFires
  <2>2. AttemptReconnect(reconnect_task, {})
    BY <1>5, <2>1 DEF TimerFires
  <2> QED
    BY <1>5, <2>1, <2>2, AttemptOwn DEF TimerFires
<1>6. CASE AttemptReturns
  BY <1>6, OwnTaskIsLive DEF AttemptReturns
<1>7. CASE ChannelUp \/ Hangup
  BY <1>7 DEF ChannelUp, Hangup
<1>8. ASSUME CancelReconnect, LoopReady, channel # "none"
      PROVE  /\ failed' = failed
             /\ state # "DISCONNECTING" => UNCHANGED reconnect_task
             /\ \A t \in Tasks : mem'[t] = "live" => mem[t] = "live" /\ (t = reconnect_task => t = reconnect_task')
  <2>1. stamped = {}
    BY <1>8 DEF AttemptsFit
  <2>2. reconnect_task # 0 => reconnect_task \in Tasks
    BY ConstantsAssumption DEF TypeOK, Tasks
  <2> QED
    BY <1>8, <2>1, <2>2, CancelOwn DEF TypeOK
<1>9. CASE ChannelDown
  BY <1>8, <1>9 DEF ChannelDown, AttemptsFit
<1>10. CASE RunDisconnectTask
  BY <1>8, <1>10 DEF RunDisconnectTask, AttemptsFit
<1>11. CASE ShutdownRetries
  BY <1>11, ScheduleOwn DEF ShutdownRetries, AttemptsFit
<1>12. CASE ShutdownDisconnects \/ ShutdownGivesUp \/ ShutdownInterrupts
  BY <1>12 DEF ShutdownDisconnects, ShutdownGivesUp, ShutdownInterrupts
<1>13. CASE Interrupt \/ Interrupted
  BY <1>13 DEF Interrupt, Interrupted, LoopInvariant, HandlersKnow
<1>14. CASE Resume
  <2>1. channel = "none" /\ queued = {} /\ state = "RECONNECTING" /\ reconnect_task # 0
    BY <1>14 DEF Resume, AttemptsFit, LoopInvariant, HandlersKnow
  <2>2. AttemptReconnect(reconnect_task, {})
    BY <1>14, <2>1 DEF Resume
  <2> QED
    BY <1>14, <2>1, <2>2, AttemptOwn DEF Resume
<1>15. CASE Packets
  BY <1>15 DEF Packets, Connack, ConnackConnects, ConnackEnds, EarlyPacket, PingTimeout,
      LoopInvariant, HandlersKnow, Fatal
<1> QED
  BY <1>1, <1>2, <1>3, <1>4, <1>5, <1>6, <1>7, <1>9, <1>10, <1>11, <1>12, <1>13, <1>14, <1>15, Zenon
     DEF Next, User, Timer, Shutdown

\* With one event loop the connection has its task whenever a handler needs it.
THEOREM TasksCorrect == OneLoop /\ LibraryRetries => (Spec => []TasksFit)
<1> SUFFICES ASSUME OneLoop, LibraryRetries PROVE Spec => []TasksFit
  OBVIOUS
<1>1. Init => TasksFit
  BY DEF Init, TasksFit, NoTaskForgotten
<1>2. TasksFit /\ UNCHANGED vars => TasksFit'
  BY DEF TasksFit, NoTaskForgotten, vars, tasks, network, pcs, history
<1>3. TypeOK /\ LoopInvariant /\ AttemptsFit /\ ThreadsFit /\ TasksFit /\ [Next]_vars => TasksFit'
  BY <1>2, TasksStep
<1> QED
  BY <1>1, <1>3, TypeCorrect, LoopCorrect, ThreadsCorrect, PTL DEF Spec

\* With one event loop no step of client.c and client_channel_handler.c makes an
\* invalid access: every assertion on the slot and on the reconnect task holds.
THEOREM NoInvalidAccessHolds == OneLoop /\ LibraryRetries => (Spec => []NoInvalidAccess)
<1>1. TasksFit => NoInvalidAccess
  BY DEF TasksFit, NoInvalidAccess
<1> QED
  BY <1>1, TasksCorrect, PTL

\* With one event loop no reconnect task is released early or forgotten, and
\* destroy() leaves none behind that refers to the connection.
THEOREM TasksAreHeldHolds == OneLoop /\ LibraryRetries => (Spec => []TasksAreHeld)
<1>1. TypeOK /\ AttemptsFit /\ TasksFit => TasksAreHeld
  <2> SUFFICES ASSUME TypeOK, AttemptsFit, TasksFit PROVE TasksAreHeld
    OBVIOUS
  <2>1. TimerTaskIsLive
    BY ConstantsAssumption DEF TimerTaskIsLive, AttemptsFit, TasksFit, TypeOK, Tasks
  <2>2. DestroyedIsQuiet
    BY DEF DestroyedIsQuiet, Pending, AttemptsFit, TasksFit
  <2> QED
    BY <2>1, <2>2 DEF TasksAreHeld, TasksFit
<1> QED
  BY <1>1, TypeCorrect, ThreadsCorrect, TasksCorrect, PTL
=============================================================================
