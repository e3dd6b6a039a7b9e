------------------------ MODULE MqttConnectionProofs ------------------------
(***************************************************************************)
(* Proofs about MqttConnection, for any number of connect() calls, any     *)
(* bound on the queue, any calls and any faults.                           *)
(***************************************************************************)
EXTENDS MqttConnection, TLAPS

-----------------------------------------------------------------------------
(* Types *)

\* The flags stay Boolean; a lemma of its own because Zenon does it best.
LEMMA FlagsStep == TypeOK /\ [Next]_vars => FlagsAreBoolean'
<1> SUFFICES ASSUME FlagsAreBoolean, [Next]_vars PROVE FlagsAreBoolean'
  BY DEF TypeOK
<1> USE DEF FlagsAreBoolean, tasks, network, pcs, history
<1>1. CASE User
  BY <1>1, Zenon DEF User, Connect, ConnectFails, Reconnect, Disconnect, Destroy
<1>2. CASE UserContinues
  BY <1>2, Zenon DEF UserContinues, DisconnectSets, DisconnectImpl, DisconnectSchedules
<1>3. CASE Timer \/ AttemptReturns
  BY <1>3, Zenon DEF Timer, TimerFires, AttemptReturns
<1>4. CASE ChannelUp \/ ChannelDown \/ Hangup \/ RunDisconnectTask
  BY <1>4, Zenon DEF ChannelUp, ChannelDown, Hangup, RunDisconnectTask
<1>5. CASE Shutdown
  BY <1>5, Zenon DEF Shutdown, ShutdownRetries, ShutdownDisconnects, ShutdownGivesUp,
      ShutdownInterrupts, Interrupt, Interrupted, Resume
<1>6. CASE Packets
  <2>1. CASE ConnackConnects
    BY <2>1, Zenon DEF ConnackConnects
  <2> QED
    BY <1>6, <2>1 DEF Packets, Connack, ConnackEnds, EarlyPacket, PingTimeout
<1>7. CASE UNCHANGED vars
  BY <1>7 DEF vars
<1> QED
  BY <1>1, <1>2, <1>3, <1>4, <1>5, <1>6, <1>7 DEF Next

\* The labels of an access are labels.
LEMMA LabelType ==
  /\ DerefTask \subseteq Accesses
  /\ {{"null_task"}, {"double_free"}, {"early_packet"}} \subseteq SUBSET Accesses
  /\ \A c \in BOOLEAN : Unless(c, "overlap") \subseteq Accesses
  /\ \A c \in BOOLEAN : Unless(c, "null_slot") \subseteq Accesses
  /\ Unless(reconnect_task = 0, "assert_636") \subseteq Accesses
  /\ Unless(reconnect_task = 0, "assert_636") \cap Fatal = {}
  BY DEF DerefTask, Unless, Accesses, Fatal

\* What s_attempt_reconect leaves behind, wherever it is called from.
LEMMA AttemptType ==
  ASSUME TypeOK, NEW t \in Tasks, NEW q \in SUBSET Tasks, AttemptReconnect(t, q)
  PROVE  /\ mem' \in [Tasks -> {"unused", "live", "freed"}]
         /\ queued' \subseteq Tasks
         /\ stamped' \subseteq Tasks
         /\ failed' \subseteq Accesses
         /\ att' \in {"idle", "returning"}
         /\ channel' \in Channels
         /\ server' \in {"silent", "asked", "answered", "ignored"}
         /\ dq' \in Seq({"clean", "error"})
<1> USE ConstantsAssumption DEF TypeOK, Tasks, Channels, Fatal, Accesses, network, Unless
<1>1. CASE AttemptStarts(t, q)
  BY <1>1 DEF AttemptStarts, NewChannel
<1>2. CASE AttemptFails(q)
  BY <1>2 DEF AttemptFails, ScheduleTask, DerefTask
<1>3. CASE AttemptIsStale(t, q)
  BY <1>3 DEF AttemptIsStale
<1> QED
  BY <1>1, <1>2, <1>3 DEF AttemptReconnect

\* What s_mqtt_disconnect_task does to the reconnect task.
LEMMA CancelType ==
  ASSUME TypeOK, CancelReconnect
  PROVE  /\ mem' \in [Tasks -> {"unused", "live", "freed"}]
         /\ attached' \subseteq Tasks
         /\ reconnect_task' \in 0..MaxConnects
         /\ failed' \subseteq Accesses
<1> USE ConstantsAssumption DEF TypeOK, Tasks
<1>1. CASE state = "DISCONNECTING" /\ reconnect_task # 0
  <2>1. /\ attached' = attached \ {reconnect_task}
        /\ mem' = IF reconnect_task \in stamped THEN mem
                  ELSE [mem EXCEPT ![reconnect_task] = "freed"]
        /\ reconnect_task' = 0
        /\ failed' = failed \cup DerefTask
    BY <1>1 DEF CancelReconnect, ReleaseTask, ForgetTask
  <2>2. mem' \in [Tasks -> {"unused", "live", "freed"}]
    BY <2>1, Zenon
  <2>3. failed' \subseteq Accesses
    BY <2>1, LabelType
  <2> QED
    BY <2>1, <2>2, <2>3
<1>2. CASE ~(state = "DISCONNECTING" /\ reconnect_task # 0)
  BY <1>2, Zenon DEF CancelReconnect
<1> QED
  BY <1>1, <1>2

\* Every step of every thread keeps every field of the connection in its type.
LEMMA TypeStep == TypeOK /\ [Next]_vars => TypeOK'
<1> SUFFICES ASSUME TypeOK, [Next]_vars PROVE TypeOK'
  OBVIOUS
<1>0. FlagsAreBoolean'
  BY FlagsStep
<1> USE <1>0, ConstantsAssumption DEF TypeOK, States, Channels, Tasks, tasks, network, pcs, history
<1>1. CASE Connect
  <2>1. failed' \subseteq Accesses
    BY <1>1, LabelType, Zenon DEF Connect
  <2> QED
    BY <1>1, <2>1 DEF Connect, NewChannel
<1>2. CASE ConnectFails
  <2>1. failed' \subseteq Accesses
    BY <1>2, LabelType DEF ConnectFails
  <2>2. /\ mem' \in [Tasks -> {"unused", "live", "freed"}]
        /\ reconnect_task' \in 0..MaxConnects
        /\ attached' \subseteq Tasks
    <3>1. CASE reconnect_task' \in {reconnect_task, 0} /\ UNCHANGED <<mem, attached>>
      BY <3>1
    <3>2. CASE /\ reconnect_task' = connects + 1
               /\ mem' = [mem EXCEPT ![connects + 1] = "freed"]
               /\ attached' = attached \cup {connects + 1}
      <4>1. connects + 1 \in Tasks
        BY <1>2 DEF ConnectFails
      <4> QED
        BY <3>2, <4>1
    <3> QED
      BY <1>2, <3>1, <3>2 DEF ConnectFails
  <2> QED
    BY <1>2, <2>1, <2>2 DEF ConnectFails
<1>3. CASE Reconnect
  BY <1>3 DEF Reconnect, NewChannel
<1>4. CASE Disconnect
  BY <1>4 DEF Disconnect
<1>5. CASE Destroy
  BY <1>5 DEF Destroy
<1>6. CASE DisconnectSets
  BY <1>6 DEF DisconnectSets
<1>7. CASE DisconnectImpl
  BY <1>7 DEF DisconnectImpl
<1>8. CASE DisconnectSchedules
  BY <1>8, LabelType DEF DisconnectSchedules, FlagsAreBoolean
<1>9. ASSUME NEW t \in Tasks, TimerFires(t) PROVE TypeOK'
  BY <1>9, AttemptType DEF TimerFires
<1>10. CASE AttemptReturns
  BY <1>10, LabelType DEF AttemptReturns
<1>11. CASE ChannelUp
  BY <1>11 DEF ChannelUp
<1>12. CASE ChannelDown
  <2>1. /\ mem' \in [Tasks -> {"unused", "live", "freed"}]
        /\ attached' \subseteq Tasks
        /\ reconnect_task' \in 0..MaxConnects
        /\ failed' \subseteq Accesses
    BY <1>12, CancelType, Zenon DEF ChannelDown
  <2> QED
    BY <1>12, <2>1 DEF ChannelDown
<1>13. CASE Hangup
  BY <1>13 DEF Hangup
<1>14. CASE RunDisconnectTask
  BY <1>14, CancelType DEF RunDisconnectTask
<1>15. CASE ShutdownRetries
  BY <1>15 DEF ShutdownRetries, ScheduleTask, DerefTask, Unless, Accesses, Fatal
<1>16. CASE ShutdownDisconnects
  BY <1>16 DEF ShutdownDisconnects
<1>17. CASE ShutdownGivesUp
  BY <1>17 DEF ShutdownGivesUp
<1>18. CASE ShutdownInterrupts
  BY <1>18 DEF ShutdownInterrupts
<1>19. CASE Interrupt
  BY <1>19 DEF Interrupt
<1>20. CASE Interrupted
  BY <1>20 DEF Interrupted
<1>21. CASE Resume
  <2>1. CASE reconnect_task = 0
    <3>1. failed' \subseteq Accesses
      BY <1>21, <2>1, LabelType DEF Resume
    <3>2. UNCHANGED <<mem, queued, stamped, network, att>> /\ el' = "idle"
      BY <1>21, <2>1 DEF Resume
    <3> QED
      BY <1>21, <3>1, <3>2 DEF Resume
  <2>2. CASE reconnect_task # 0
    BY <1>21, <2>2, AttemptType DEF Resume
  <2> QED
    BY <2>1, <2>2
<1>22. ASSUME NEW rc \in {"accepted", "refused"}, Connack(rc) PROVE TypeOK'
  <2>1. ConnackFields(rc) \in [rc : {"accepted", "refused"}, was_reconnecting : BOOLEAN]
    BY <1>22 DEF ConnackFields
  <2> QED
    BY <1>22, <2>1 DEF Connack
<1>23. CASE ConnackConnects
  BY <1>23 DEF ConnackConnects
<1>24. CASE ConnackEnds
  BY <1>24 DEF ConnackEnds
<1>25. CASE EarlyPacket
  <2>1. dq' \in Seq({"clean", "error"})
    BY <1>25 DEF EarlyPacket
  <2>2. failed' \subseteq Accesses
    BY <1>25, LabelType DEF EarlyPacket
  <2> QED
    BY <1>25, <2>1, <2>2 DEF EarlyPacket
<1>26. CASE PingTimeout
  BY <1>26 DEF PingTimeout
<1>27. CASE UNCHANGED vars
  BY <1>27 DEF vars
<1> QED
  BY <1>1, <1>2, <1>3, <1>4, <1>5, <1>6, <1>7, <1>8, <1>9, <1>10, <1>11, <1>12, <1>13, Zenon,
     <1>14, <1>15, <1>16, <1>17, <1>18, <1>19, <1>20, <1>21, <1>22, <1>23, <1>24, <1>25,
     <1>26, <1>27
     DEF Next, User, UserContinues, Timer, Shutdown, Packets

-----------------------------------------------------------------------------
(* One event loop *)

\* Unless the program ends, a task that is scheduled is the connection's own.
LEMMA ScheduleKeeps ==
  ASSUME NEW q, ScheduleTask(q), failed' \cap Fatal = {}
  PROVE  reconnect_task # 0 /\ reconnect_task \in queued'
<1>1. reconnect_task # 0
  BY DEF ScheduleTask, DerefTask, Unless, Fatal
<1> QED
  BY <1>1 DEF ScheduleTask

\* Unless the program ends, s_attempt_reconect of a task that is attached leaves
\* a new channel where there was none, or the task of the next attempt scheduled.
LEMMA AttemptKeeps ==
  ASSUME NEW t, NEW q, AttemptReconnect(t, q), t \in attached, failed' \cap Fatal = {}
  PROVE  \/ channel = "none" /\ channel' = "opening" /\ dq' = <<>>
         \/ reconnect_task # 0 /\ reconnect_task \in queued' /\ UNCHANGED network
<1>1. CASE AttemptStarts(t, q)
  BY <1>1 DEF AttemptStarts, NewChannel, Unless, Fatal
<1>2. CASE AttemptFails(q)
  BY <1>2, ScheduleKeeps DEF AttemptFails
<1> QED
  BY <1>1, <1>2 DEF AttemptReconnect

\* Every step keeps LoopInvariant.
LEMMA LoopStep ==
  ASSUME OneLoop, TypeOK, TypeOK', LoopInvariant, Next
  PROVE  LoopInvariant'
<1>0. failed \cap Fatal = {}
  BY DEF Next
<1> USE <1>0, ConstantsAssumption DEF TypeOK, States, Channels, Tasks, FlagsAreBoolean,
      tasks, network, pcs, history, LoopInvariant,
      CallsNest, HandlersKnow, ChannelMatches, CountMatches, OwnTaskIsAttached,
      ResumedAfterComplete, DisconnectOwed, CleanCloseOnRequest, RetryIsPending,
      DisconnectIsPending, Pending
<1>1. CASE Connect
  <2>1. HandlersKnow' /\ CallsNest'
    BY <1>1 DEF Connect, NewChannel, UserReady
  <2>2. ChannelMatches' /\ CountMatches' /\ OwnTaskIsAttached'
    BY <1>1 DEF Connect, NewChannel, UserReady
  <2> QED
    BY <1>1, <2>1, <2>2 DEF Connect, NewChannel
<1>2. CASE ConnectFails
  BY <1>2 DEF ConnectFails, UserReady
<1>3. CASE Reconnect
  BY <1>3 DEF Reconnect, NewChannel, UserReady
<1>4. CASE Disconnect
  BY <1>4 DEF Disconnect, UserReady
<1>5. CASE Destroy
  BY <1>5 DEF Destroy, UserReady
<1>6. CASE DisconnectSets
  BY <1>6 DEF DisconnectSets
<1>7. CASE DisconnectImpl
  BY <1>7 DEF DisconnectImpl
<1>8. CASE DisconnectSchedules
  BY <1>8, Zenon DEF DisconnectSchedules
<1>9. ASSUME NEW t \in Tasks, TimerFires(t) PROVE LoopInvariant'
  <2>1. CASE t \in attached
    <3>1. \/ failed' \cap Fatal # {}
          \/ channel = "none" /\ channel' = "opening" /\ dq' = <<>>
          \/ reconnect_task # 0 /\ reconnect_task \in queued' /\ UNCHANGED network
      BY <1>9, <2>1, AttemptKeeps DEF TimerFires
    <3>2. \/ channel' = "opening" /\ dq' = <<>>
          \/ UNCHANGED network
      BY <1>9, <2>1 DEF TimerFires, AttemptReconnect, AttemptStarts, AttemptFails, NewChannel
    <3>8. CallsNest' /\ HandlersKnow' /\ ChannelMatches' /\ CountMatches' /\ OwnTaskIsAttached'
      BY <1>9, <3>1, <3>2 DEF TimerFires, LoopReady
    <3>9. RetryIsPending' /\ DisconnectIsPending'
      BY <1>9, <3>1, <3>2 DEF TimerFires, LoopReady
    <3> QED
      BY <1>9, <3>1, <3>2, <3>8, <3>9 DEF TimerFires, LoopReady
  <2>2. CASE t \notin attached
    <3>1. queued' = queued \ {t} /\ UNCHANGED network
      BY <1>9, <2>2 DEF TimerFires, AttemptReconnect, AttemptIsStale
    <3>2. queued' \cap attached' = queued \cap attached
      BY <1>9, <2>2, <3>1 DEF TimerFires
    <3>8. CallsNest' /\ HandlersKnow' /\ ChannelMatches' /\ CountMatches' /\ OwnTaskIsAttached'
      BY <1>9, <3>1, <3>2 DEF TimerFires, LoopReady
    <3>9. RetryIsPending' /\ DisconnectIsPending'
      BY <1>9, <3>1, <3>2 DEF TimerFires, LoopReady
    <3> QED
      BY <1>9, <3>1, <3>2, <3>8, <3>9 DEF TimerFires, LoopReady
  <2> QED
    BY <2>1, <2>2
<1>10. CASE AttemptReturns
  BY <1>10 DEF AttemptReturns
<1>11. CASE ChannelUp
  BY <1>11 DEF ChannelUp, LoopReady
<1>12. CASE ChannelDown
  BY <1>12 DEF ChannelDown, LoopReady, CancelReconnect, ForgetTask
<1>13. CASE Hangup
  BY <1>13 DEF Hangup, LoopReady
<1>14. CASE RunDisconnectTask
  BY <1>14 DEF RunDisconnectTask, LoopReady, CancelReconnect, ForgetTask
<1>15. CASE ShutdownRetries
  <2>1. failed' \cap Fatal = {} => Pending'
    BY <1>15, ScheduleKeeps DEF ShutdownRetries
  <2> QED
    BY <1>15, <2>1 DEF ShutdownRetries, LoopContinues
<1>16. CASE ShutdownDisconnects
  BY <1>16 DEF ShutdownDisconnects, LoopContinues
<1>17. CASE ShutdownGivesUp
  BY <1>17 DEF ShutdownGivesUp, LoopContinues
<1>18. CASE ShutdownInterrupts
  BY <1>18 DEF ShutdownInterrupts, LoopContinues
<1>19. CASE Interrupt
  BY <1>19 DEF Interrupt, LoopContinues
<1>20. CASE Interrupted
  BY <1>20 DEF Interrupted, LoopContinues
<1>21. CASE Resume
  <2>1. CASE reconnect_task = 0
    <3>1. failed' \cap Fatal # {} /\ UNCHANGED network
      BY <1>21, <2>1 DEF Resume, Fatal
    <3> QED
      BY <1>21, <3>1 DEF Resume, LoopContinues
  <2>2. CASE reconnect_task # 0
    <3>1. AttemptReconnect(reconnect_task, queued) /\ reconnect_task \in attached
      BY <1>21, <2>2 DEF Resume
    <3>2. \/ failed' \cap Fatal # {}
          \/ channel = "none" /\ channel' = "opening" /\ dq' = <<>>
          \/ reconnect_task # 0 /\ reconnect_task \in queued' /\ UNCHANGED network
      BY <3>1, AttemptKeeps
    <3>3. \/ channel' = "opening" /\ dq' = <<>>
          \/ UNCHANGED network
      BY <3>1 DEF AttemptReconnect, AttemptStarts, AttemptFails, NewChannel
    <3> QED
      BY <1>21, <3>1, <3>2, <3>3 DEF Resume, LoopContinues
  <2> QED
    BY <2>1, <2>2
<1>22. ASSUME NEW rc \in {"accepted", "refused"}, Connack(rc) PROVE LoopInvariant'
  <2>1. CASE IgnoresConnack
    BY <1>22, <2>1 DEF Connack, LoopReady, IgnoresConnack
  <2>2. CASE ~IgnoresConnack
    <3>1. ack'.was_reconnecting <=> state = "RECONNECTING"
      BY <1>22, <2>2 DEF Connack, ConnackFields
    <3> QED
      BY <1>22, <2>2, <3>1 DEF Connack, LoopReady, IgnoresConnack
  <2> QED
    BY <2>1, <2>2
<1>23. CASE ConnackConnects
  BY <1>23 DEF ConnackConnects, LoopContinues, Resumes
<1>24. CASE ConnackEnds
  BY <1>24 DEF ConnackEnds, LoopContinues
<1>25. CASE EarlyPacket
  <2>1. dq' = dq \/ dq' = Append(dq, "error")
    BY <1>25 DEF EarlyPacket
  <2>2. \A i \in 1..Len(dq') : dq'[i] = "clean" => state = "DISCONNECTING"
    <3>1. CASE dq' = dq
      BY <3>1
    <3>2. CASE dq' = Append(dq, "error")
      BY <3>2
    <3> QED
      BY <2>1, <3>1, <3>2
  <2> QED
    BY <1>25, <2>2 DEF EarlyPacket, LoopReady
<1>26. CASE PingTimeout
  BY <1>26 DEF PingTimeout, LoopReady
<1> QED
  BY <1>1, <1>2, <1>3, <1>4, <1>5, <1>6, <1>7, <1>8, <1>9, <1>10, <1>11, <1>12, <1>13, <1>14, <1>15, <1>16, <1>17, <1>18, <1>19, <1>20, <1>21, <1>22, <1>23, <1>24, <1>25, <1>26, ZenonT(30)
     DEF Next, User, UserContinues, Timer, Shutdown, Packets

\* The initial state satisfies the invariants.
LEMMA InitOK == Init => TypeOK /\ LoopInvariant
<1> SUFFICES ASSUME Init PROVE TypeOK /\ LoopInvariant
  OBVIOUS
<1>1. FlagsAreBoolean
  BY Zenon DEF Init, FlagsAreBoolean
<1>2. TypeOK
  BY <1>1, ConstantsAssumption DEF Init, TypeOK, Tasks, States, Channels
<1>3. LoopInvariant
  BY DEF Init, LoopInvariant, CallsNest, HandlersKnow, ChannelMatches, CountMatches,
      OwnTaskIsAttached, ResumedAfterComplete, DisconnectOwed, CleanCloseOnRequest,
      RetryIsPending, DisconnectIsPending, Pending
<1> QED
  BY <1>2, <1>3

\* The fields keep their types, with one event loop or with several threads.
THEOREM TypeCorrect == Spec => []TypeOK
<1>1. TypeOK /\ [Next]_vars => TypeOK'
  BY TypeStep
<1> QED
  BY <1>1, InitOK, PTL DEF Spec

\* With one event loop LoopInvariant always holds, whatever the program calls and
\* whatever fails: the handlers of client.c and client_channel_handler.c agree
\* on the state, the slot, the channel and the callbacks.
THEOREM LoopCorrect == OneLoop => (Spec => []LoopInvariant)
<1> SUFFICES ASSUME OneLoop PROVE Spec => []LoopInvariant
  OBVIOUS
<1>1. LoopInvariant /\ UNCHANGED vars => LoopInvariant'
  BY DEF vars, tasks, network, pcs, history, LoopInvariant, CallsNest, HandlersKnow,
      ChannelMatches, CountMatches, OwnTaskIsAttached, ResumedAfterComplete, DisconnectOwed,
      CleanCloseOnRequest, RetryIsPending, DisconnectIsPending, Pending
<1>2. TypeOK /\ TypeOK' /\ LoopInvariant /\ [Next]_vars => LoopInvariant'
  BY <1>1, LoopStep
<1> QED
  BY <1>2, InitOK, TypeCorrect, PTL DEF Spec

\* on_resumed never comes before on_connection_complete.
THEOREM ResumedAfterCompleteHolds == OneLoop => (Spec => []ResumedAfterComplete)
<1>1. LoopInvariant => ResumedAfterComplete
  BY DEF LoopInvariant
<1> QED
  BY <1>1, LoopCorrect, PTL

\* on_disconnect is owed exactly while the connection is DISCONNECTING.
THEOREM DisconnectOwedHolds == OneLoop => (Spec => []DisconnectOwed)
<1>1. LoopInvariant => DisconnectOwed
  BY DEF LoopInvariant
<1> QED
  BY <1>1, LoopCorrect, PTL

\* A channel is closed without an error only on the user's request.
THEOREM CleanCloseHolds == OneLoop => (Spec => []CleanCloseOnRequest)
<1>1. LoopInvariant => CleanCloseOnRequest
  BY DEF LoopInvariant
<1> QED
  BY <1>1, LoopCorrect, PTL

\* A lost connection always has a retry under way or scheduled.
THEOREM RetryIsPendingHolds == OneLoop => (Spec => []RetryIsPending)
<1>1. LoopInvariant => RetryIsPending
  BY DEF LoopInvariant
<1> QED
  BY <1>1, LoopCorrect, PTL

\* Between handlers a CONNECTED connection has its slot.
THEOREM ConnectedHasSlotHolds == OneLoop => (Spec => []ConnectedHasSlot)
<1>1. LoopInvariant => ConnectedHasSlot
  BY DEF LoopInvariant, ChannelMatches, ConnectedHasSlot
<1> QED
  BY <1>1, LoopCorrect, PTL

\* No step but the shutdown of the channel takes a connection out of DISCONNECTING.
THEOREM DisconnectIsFinalHolds == OneLoop => (Spec => DisconnectIsFinal)
<1>1. ASSUME LoopInvariant, [Next]_vars
      PROVE  [state = "DISCONNECTING" => state' = "DISCONNECTED"]_state
  <2>1. CASE User
    BY <2>1 DEF User, Connect, ConnectFails, Reconnect, Disconnect, Destroy
  <2>2. CASE UserContinues
    BY <1>1, <2>2 DEF UserContinues, DisconnectSets, DisconnectImpl, DisconnectSchedules,
        LoopInvariant, CallsNest
  <2>3. CASE Timer \/ AttemptReturns
    BY <2>3, Zenon DEF Timer, TimerFires, AttemptReturns
  <2>4. CASE ChannelUp \/ ChannelDown \/ Hangup \/ RunDisconnectTask
    BY <2>4 DEF ChannelUp, ChannelDown, Hangup, RunDisconnectTask
  <2>5. CASE Shutdown
    <3>1. CASE Interrupt \/ Interrupted
      BY <1>1, <3>1 DEF Interrupt, Interrupted, LoopInvariant, HandlersKnow
    <3> QED
      BY <2>5, <3>1 DEF Shutdown, ShutdownRetries, ShutdownDisconnects, ShutdownGivesUp,
          ShutdownInterrupts, Resume
  <2>6. CASE Packets
    <3>1. CASE ConnackConnects
      BY <1>1, <3>1 DEF ConnackConnects, LoopInvariant, HandlersKnow
    <3> QED
      BY <2>6, <3>1 DEF Packets, Connack, ConnackEnds, EarlyPacket, PingTimeout
  <2>7. CASE UNCHANGED vars
    BY <2>7 DEF vars
  <2> QED
    BY <1>1, <2>1, <2>2, <2>3, <2>4, <2>5, <2>6, <2>7 DEF Next
<1> QED
  BY <1>1, LoopCorrect, PTL DEF Spec, DisconnectIsFinal

-----------------------------------------------------------------------------
(* The connection implements the callback contract *)

\* Steps that change neither the state, the handler nor the callbacks made are
\* invisible to the program.
LEMMA ContractStutter ==
  UNCHANGED <<state, announced>> /\ (UNCHANGED el \/ state # "CONNECTED") =>
    UNCHANGED <<Phase, announced # "nothing">>
  BY DEF Phase

\* Every step is one of the contract's, or a stutter.
LEMMA ContractStep ==
  ASSUME TypeOK, LoopInvariant, Next
  PROVE  Contract!Next \/ UNCHANGED Contract!cvars
<1> USE DEF Contract!Next, Contract!cvars, Contract!Open, Contract!Fail, Contract!Complete,
      Contract!Lose, Contract!Resume, Contract!Close, Contract!Closed
<1>1. CASE Connect \/ ConnectFails
  BY <1>1 DEF Connect, ConnectFails, Phase
<1>2. CASE DisconnectSets
  BY <1>2 DEF DisconnectSets, Phase, LoopInvariant, CallsNest
<1>3. CASE Reconnect \/ Disconnect \/ Destroy \/ DisconnectImpl \/ DisconnectSchedules
  BY <1>3, ContractStutter DEF Reconnect, Disconnect, Destroy, DisconnectImpl,
      DisconnectSchedules, pcs, history
<1>4. CASE Timer \/ AttemptReturns
  BY <1>4, ContractStutter, Zenon DEF Timer, TimerFires, AttemptReturns
<1>5. CASE ChannelUp \/ Hangup \/ RunDisconnectTask
  BY <1>5, ContractStutter DEF ChannelUp, Hangup, RunDisconnectTask, pcs, history
<1>6. CASE ChannelDown
  BY <1>6 DEF ChannelDown, LoopReady, Phase, TypeOK, States
<1>7. CASE ShutdownRetries \/ ShutdownDisconnects \/ ShutdownGivesUp \/ ShutdownInterrupts
  BY <1>7 DEF ShutdownRetries, ShutdownDisconnects, ShutdownGivesUp, ShutdownInterrupts,
      history, Phase
<1>8. CASE Interrupt \/ Interrupted \/ Resume
  BY <1>8 DEF Interrupt, Interrupted, Resume, history, Phase, LoopInvariant, HandlersKnow
<1>9. ASSUME NEW rc \in {"accepted", "refused"}, Connack(rc)
      PROVE  UNCHANGED Contract!cvars
  BY <1>9 DEF Connack, LoopReady, history, Phase
<1>10. CASE ConnackConnects
  BY <1>10 DEF ConnackConnects, Resumes, Phase, TypeOK, LoopInvariant, HandlersKnow, CountMatches
<1>11. CASE ConnackEnds \/ EarlyPacket \/ PingTimeout
  BY <1>11, Zenon DEF ConnackEnds, EarlyPacket, PingTimeout, pcs, history, Phase
<1> QED
  BY <1>1, <1>2, <1>3, <1>4, <1>5, <1>6, <1>7, <1>8, <1>9, <1>10, <1>11, Zenon
     DEF Next, User, UserContinues, Timer, Shutdown, Packets

\* With one event loop the callbacks come in the order that the contract allows.
THEOREM ContractImplemented == OneLoop => (Spec => ContractHolds)
<1>1. Init => Contract!Init
  BY DEF Init, Contract!Init, Phase
<1>2. UNCHANGED vars => UNCHANGED Contract!cvars
  BY DEF vars, pcs, history, Contract!cvars, Phase
<1>3. TypeOK /\ LoopInvariant /\ [Next]_vars => [Contract!Next]_(Contract!cvars)
  BY <1>2, ContractStep
<1> QED
  BY <1>1, <1>3, TypeCorrect, LoopCorrect, PTL DEF Spec, ContractHolds, Contract!Spec
=============================================================================
