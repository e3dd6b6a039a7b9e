-------------------------- MODULE ConnectionTimers --------------------------
(***************************************************************************)
(* The clock of a connection: the back-off between attempts to reconnect,  *)
(* the pings that keep it alive, and the check that each was answered.     *)
(*                                                                         *)
(* Times are kept as distances from now (ages, and what is left to wait),  *)
(* and a tick of the clock moves them all.  The tasks of the channel run   *)
(* when they are due or up to MaxLate ticks later; a read may be handled   *)
(* between any two tasks.  The program connects once it has set its        *)
(* options, and does not disconnect: MqttConnection is about that.         *)
(***************************************************************************)
EXTENDS Integers, Sequences, FiniteSetsExt

CONSTANTS
  Limits,            \* the [min, max] given to set_reconnect_timeout
  DefaultLimits,     \* those of connection_new
  Options,           \* the [keep_alive, ping_timeout] given to connect
  DefaultKeepAlive,  \* s_default_keep_alive_ping_freq_secs
  DefaultTimeout,    \* s_default_request_timeout_ns
  Width,             \* the number of bits of a reconnect timeout
  MaxLate,           \* how late a task of the channel may run
  MaxPings           \* the pings under way beyond which the program starts none

ASSUME TimersAssumption ==
  /\ Width \in Nat /\ 2^Width \in Nat /\ MaxLate \in Nat /\ MaxPings \in Nat
  /\ DefaultLimits \in Limits
  /\ \A l \in Limits : l.min \in 1..l.max /\ l.max \in 1..(2^Width - 1)
  /\ DefaultKeepAlive \in Nat \ {0} /\ DefaultTimeout \in Nat \ {0}
  /\ Options \subseteq [keep_alive : Nat, ping_timeout : Nat]

VARIABLES
  state,         \* connection->state
  phase,         \* the channel: "none", "waiting", "opening", "open", "up", "closing"
  limits,        \* reconnect_timeouts.min and max
  current,       \* reconnect_timeouts.current
  retry_in,      \* what is left until reconnect_timeouts.next_attempt
  options,       \* keep_alive_time_secs and ping_timeout_ms
  ping_in,       \* what is left until ping_task, or NoTask
  pings,         \* the age of every ping that has not been checked, the oldest first
  since_resp,    \* the age of last_pingresp_timestamp
  unanswered,    \* the PINGREQs that the server has not answered
  fresh,         \* history: a socket has opened since the last attempt to reconnect
  delay,         \* history: the wait that is due after that attempt
  gap,           \* history: the time since it was made, up to that wait
  quiet          \* history: the time since the CONNACK or the last PINGRESP

backoff == <<limits, current, retry_in, fresh, delay, gap>>
keepalive == <<ping_in, pings, since_resp, unanswered, quiet>>
vars == <<state, phase, options, backoff, keepalive>>

\* No task is scheduled: a time further back than a task can be.
NoTask == -(MaxLate + 1)

\* s_schedule_ping
PingInterval == IF options.keep_alive = 0 THEN DefaultKeepAlive ELSE options.keep_alive

\* request_timeout_ns, as connect sets it.
RequestTimeout == IF options.ping_timeout = 0 THEN DefaultTimeout ELSE options.ping_timeout

\* The ages after which nothing changes any more.
OldResp  == RequestTimeout + MaxLate + 1
Detected == PingInterval + RequestTimeout + 2 * MaxLate

Init ==
  /\ state = "DISCONNECTED"
  /\ phase = "none"
  /\ limits = DefaultLimits
  /\ current = 0 /\ retry_in = 0
  /\ options \in Options
  /\ ping_in = NoTask /\ pings = <<>> /\ since_resp = OldResp
  /\ unanswered = 0
  /\ fresh = FALSE /\ delay = 0 /\ gap = 0 /\ quiet = 0

-----------------------------------------------------------------------------
(* Calls of the program *)

\* aws_mqtt_client_connection_set_reconnect_timeout, before connecting.
SetReconnectTimeout(l) ==
  /\ state = "DISCONNECTED"
  /\ limits' = l
  /\ UNCHANGED <<state, phase, options, current, retry_in, fresh, delay, gap, keepalive>>

\* aws_mqtt_client_connection_connect
Connect ==
  /\ state = "DISCONNECTED"
  /\ state' = "CONNECTING"
  /\ phase' = "opening"
  /\ UNCHANGED <<options, backoff, keepalive>>

\* s_pingreq_send, the first time: the PINGREQ is sent, and the request comes
\* back when request_timeout_ns has passed.
SendPing ==
  /\ pings' = Append(pings, 0)
  /\ unanswered' = Min({unanswered + 1, MaxPings})

\* aws_mqtt_client_connection_ping by the program, on the channel's thread.
Ping ==
  /\ state = "CONNECTED" /\ phase \in {"up", "closing"}
  /\ Len(pings) < MaxPings
  /\ SendPing
  /\ UNCHANGED <<state, phase, options, backoff, ping_in, since_resp, quiet>>

-----------------------------------------------------------------------------
(* Reconnecting *)

\* It is doubled once more before it is compared.
AttemptReconnectOverflows ==
  /\ retry_in' = current
  /\ current' = IF current > limits.max THEN limits.max ELSE (current * 2) % 2^Width
  /\ delay' = IF fresh THEN limits.min ELSE Min({2 * delay, limits.max})
  /\ fresh' = FALSE
  /\ gap' = 0
  /\ phase' \in {"opening", "waiting"}
  /\ UNCHANGED limits

\* s_attempt_reconect.  The back-off is doubled for the time after, in Width
\* bits.  The attempt fails at once, or the channel is on its way.
AttemptReconnect ==
  /\ retry_in' = current
  /\ current' = IF current > limits.max \div 2 THEN limits.max ELSE (current * 2) % 2^Width
  /\ delay' = IF fresh THEN limits.min ELSE Min({2 * delay, limits.max})
  /\ fresh' = FALSE
  /\ gap' = 0
  /\ phase' \in {"opening", "waiting"}
  /\ UNCHANGED limits

\* The reconnect task runs.
Retry ==
  /\ phase = "waiting"
  /\ retry_in = 0
  /\ AttemptReconnect
  /\ UNCHANGED <<state, options, keepalive>>

\* s_mqtt_client_init: the socket is open, and the CONNECT is sent.
SocketOpens ==
  /\ phase = "opening"
  /\ phase' = "open"
  /\ current' = limits.min
  /\ fresh' = TRUE
  /\ UNCHANGED <<state, options, limits, retry_in, delay, gap, keepalive>>

\* An attempt that fails is the last.
ShutdownStops ==
  /\ ping_in' = NoTask /\ pings' = <<>>
  /\ unanswered' = 0 /\ quiet' = 0
  /\ \/ /\ state = "RECONNECTING"
        /\ phase' = "none"
        /\ UNCHANGED <<state, backoff>>
     \/ /\ state = "CONNECTED" \/ (state = "CONNECTING" /\ phase # "opening")
        /\ state' = "RECONNECTING"
        /\ AttemptReconnect
     \/ /\ state = "CONNECTING" /\ phase = "opening"
        /\ state' = "DISCONNECTED"
        /\ phase' = "none"
        /\ UNCHANGED backoff
  /\ UNCHANGED <<options, since_resp>>

\* s_mqtt_client_shutdown: the tasks of the channel are cancelled.  A first
\* attempt that fails is the last; one that had a socket, or a connection, is
\* followed by another at once; and any other attempt by one at next_attempt.
Shutdown ==
  /\ ping_in' = NoTask /\ pings' = <<>>
  /\ unanswered' = 0 /\ quiet' = 0
  /\ \/ /\ state = "RECONNECTING"
        /\ phase' = "waiting"
        /\ UNCHANGED <<state, backoff>>
     \/ /\ state = "CONNECTED" \/ (state = "CONNECTING" /\ phase # "opening")
        /\ state' = "RECONNECTING"
        /\ AttemptReconnect
     \/ /\ state = "CONNECTING" /\ phase = "opening"
        /\ state' = "DISCONNECTED"
        /\ phase' = "none"
        /\ UNCHANGED backoff
  /\ UNCHANGED <<options, since_resp>>

\* The socket cannot be opened, or the server hangs up.
Hangup == phase \in {"opening", "open", "up"} /\ Shutdown

\* The channel has been shut down by the connection itself.
ChannelCloses == phase = "closing" /\ Shutdown

-----------------------------------------------------------------------------
(* Keeping alive *)

\* s_packet_handler_connack; a refused connection is shut down.
Connack(accepted) ==
  /\ phase = "open"
  /\ state' = "CONNECTED"
  /\ phase' = IF accepted THEN "up" ELSE "closing"
  /\ ping_in' = PingInterval
  /\ quiet' = 0
  /\ UNCHANGED <<options, backoff, pings, since_resp, unanswered>>

\* The next ping is not scheduled.
TimeToPingOnce ==
  /\ ping_in # NoTask /\ ping_in <= 0
  /\ SendPing
  /\ ping_in' = NoTask
  /\ UNCHANGED <<state, phase, options, backoff, since_resp, quiet>>

\* s_on_time_to_ping
TimeToPing ==
  /\ ping_in # NoTask /\ ping_in <= 0
  /\ SendPing
  /\ ping_in' = PingInterval
  /\ UNCHANGED <<state, phase, options, backoff, since_resp, quiet>>

\* s_packet_handler_pingresp
Pingresp ==
  /\ phase \in {"up", "closing"}
  /\ unanswered > 0
  /\ unanswered' = unanswered - 1
  /\ since_resp' = 0
  /\ quiet' = 0
  /\ UNCHANGED <<state, phase, options, backoff, ping_in, pings>>

TooLongAtOnce == since_resp >= RequestTimeout

\* The test of s_pingreq_send.
TooLong == since_resp > RequestTimeout

\* s_pingreq_send, the second time: the oldest ping is checked.
CheckPing ==
  /\ pings # <<>> /\ Head(pings) >= RequestTimeout
  /\ pings' = Tail(pings)
  /\ phase' = IF TooLong THEN "closing" ELSE phase
  /\ UNCHANGED <<state, options, backoff, ping_in, since_resp, unanswered, quiet>>

-----------------------------------------------------------------------------
\* Time passes, unless a task of the channel would be later than MaxLate.
Tick ==
  /\ ping_in # -MaxLate
  /\ \A i \in DOMAIN pings : pings[i] < RequestTimeout + MaxLate
  /\ retry_in' = Max({0, retry_in - 1})
  /\ ping_in' = IF ping_in = NoTask THEN NoTask ELSE ping_in - 1
  /\ pings' = [i \in DOMAIN pings |-> pings[i] + 1]
  /\ since_resp' = Min({since_resp + 1, OldResp})
  /\ gap' = IF state = "RECONNECTING" THEN Min({gap + 1, delay}) ELSE 0
  /\ quiet' = IF phase = "up" THEN Min({quiet + 1, Detected + 1}) ELSE 0
  /\ UNCHANGED <<state, phase, options, limits, current, unanswered, fresh, delay>>

Next ==
  \/ \E l \in Limits : SetReconnectTimeout(l)
  \/ Connect \/ Ping
  \/ Retry \/ SocketOpens \/ Hangup \/ ChannelCloses
  \/ \E accepted \in BOOLEAN : Connack(accepted)
  \/ TimeToPing \/ Pingresp \/ CheckPing
  \/ Tick

Spec == Init /\ [][Next]_vars

\* Time passes and the event loops run their tasks; a server to which the
\* client keeps coming back takes it in the end.
FairSpec ==
  /\ Spec
  /\ WF_vars(Tick) /\ WF_vars(Retry) /\ WF_vars(ChannelCloses)
  /\ WF_vars(TimeToPing) /\ WF_vars(CheckPing)
  /\ SF_vars(Retry /\ phase' = "opening")
  /\ SF_vars(SocketOpens) /\ SF_vars(Connack(TRUE))

-----------------------------------------------------------------------------

\* The wait before an attempt to reconnect is min after the first, doubles with
\* every one for which no socket opened, and is never more than max: that is
\* what s_attempt_reconect leaves in next_attempt, in spite of the width of its
\* numbers, and a channel that closes leaves it alone.
BackoffDoubles ==
  phase = "waiting" => retry_in = Max({0, delay - gap})

\* Why: `current` is the wait after the next attempt, whenever there may be one.
BackoffIsNext ==
  /\ limits \in Limits
  /\ delay \in Nat /\ gap \in Nat /\ retry_in \in Nat
  /\ state = "CONNECTED" => phase \in {"up", "closing"}
  /\ state = "CONNECTING" => phase \in {"opening", "open"}
  /\ state = "RECONNECTING" => retry_in = Max({0, delay - gap})
  /\ state = "DISCONNECTED" => phase = "none"
  /\ phase \in {"open", "up", "closing"} => fresh
  /\ ping_in # NoTask \/ pings # <<>> => phase \in {"up", "closing"}
  /\ phase = "waiting" => state = "RECONNECTING"
  /\ state = "RECONNECTING" \/ phase \in {"open", "up", "closing"} =>
       current = IF fresh THEN limits.min ELSE Min({2 * delay, limits.max})

\* A connection whose server stops answering is not kept for longer than a ping
\* interval, the time a ping may take, and the lateness of the two tasks.
SilenceIsDetected == phase = "up" => quiet <= Detected

\* Why: the next ping is not further away than an interval from the time the
\* server was last heard of, or one has been sent since that is not checked yet,
\* and whose check will find that it has been too long.
SilenceIsCounted ==
  /\ ping_in \in {NoTask} \cup (-MaxLate)..PingInterval
  /\ pings \in Seq(Nat) /\ since_resp \in Nat /\ quiet \in Nat
  /\ \A i \in DOMAIN pings : pings[i] <= RequestTimeout + MaxLate
  /\ phase = "up" =>
       /\ ping_in # NoTask
       /\ quiet <= since_resp \/ since_resp = OldResp
       /\ \/ ping_in + quiet <= PingInterval
          \/ \E i \in DOMAIN pings :
               pings[i] < quiet /\ quiet <= pings[i] + PingInterval + MaxLate

\* A connection is not closed by the check of a ping that was answered, unless
\* the answer came sooner after the ping than the check came after its time.
AnsweredIsKept ==
  [][phase = "up" /\ phase' = "closing" /\ pings # <<>>
       => Head(pings) - since_resp < MaxLate]_vars

\* A connection that is lost is there again in the end, if the server takes it
\* back when it is asked often enough.
LostIsFoundAgain == state = "RECONNECTING" ~> phase = "up"
=============================================================================
