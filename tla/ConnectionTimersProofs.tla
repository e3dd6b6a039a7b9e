----------------------- MODULE ConnectionTimersProofs -----------------------
(***************************************************************************)
(* Proofs about ConnectionTimers, for any interval, timeout and lateness.  *)
(***************************************************************************)
EXTENDS ConnectionTimers, TLAPS

\* The smaller of two numbers, ...
LEMMA MinOfTwo ==
  ASSUME NEW a \in Int, NEW b \in Int
  PROVE  Min({a, b}) = IF a <= b THEN a ELSE b
<1> DEFINE m == IF a <= b THEN a ELSE b
<1>1. m \in {a, b} /\ \A y \in {a, b} : m <= y
  OBVIOUS
<1>2. \A x \in {a, b} : (\A y \in {a, b} : x <= y) => x = m
  OBVIOUS
<1> QED BY <1>1, <1>2 DEF Min

\* ... and the larger.
LEMMA MaxOfTwo ==
  ASSUME NEW a \in Int, NEW b \in Int
  PROVE  Max({a, b}) = IF a >= b THEN a ELSE b
<1> DEFINE m == IF a >= b THEN a ELSE b
<1>1. m \in {a, b} /\ \A y \in {a, b} : m >= y
  OBVIOUS
<1>2. \A x \in {a, b} : (\A y \in {a, b} : x >= y) => x = m
  OBVIOUS
<1> QED BY <1>1, <1>2 DEF Max

-----------------------------------------------------------------------------
(* Keeping alive *)

\* The interval and the timeout are those that connect was given, or the
\* library's own: never zero, and they stay.
Constant == options \in Options

\* The keep-alive intervals are not zero ...
LEMMA IntervalsArePositive ==
  ASSUME Constant
  PROVE  PingInterval \in Nat \ {0} /\ RequestTimeout \in Nat \ {0}
BY TimersAssumption DEF Constant, PingInterval, RequestTimeout

\* ... and change with the options only.
LEMMA IntervalsStay ==
  ASSUME UNCHANGED options
  PROVE  PingInterval' = PingInterval /\ RequestTimeout' = RequestTimeout /\ OldResp' = OldResp
BY DEF PingInterval, RequestTimeout, OldResp

\* A connection that is not up has nothing to show for.
LEMMA NotUp ==
  ASSUME Constant, SilenceIsCounted, UNCHANGED options, phase' # "up",
         ping_in' = ping_in, pings' = pings, since_resp' = since_resp, quiet' \in Nat
  PROVE  SilenceIsCounted'
BY IntervalsStay DEF SilenceIsCounted, NoTask

\* The shutdown ends the count of the silence.
LEMMA ShutdownCounts ==
  ASSUME Constant, SilenceIsCounted, Shutdown, phase # "waiting"
  PROVE  SilenceIsCounted'
<1>1. phase' # "up" /\ UNCHANGED options
  BY DEF Shutdown, AttemptReconnect
<1>2. ping_in' = NoTask /\ pings' = <<>> /\ quiet' = 0 /\ since_resp' = since_resp
  BY DEF Shutdown
<1> QED BY <1>1, <1>2, IntervalsStay DEF SilenceIsCounted, NoTask

\* A PINGREQ is sent: its answer is waited for.
LEMMA PingCounts ==
  ASSUME Constant, SilenceIsCounted, Ping
  PROVE  SilenceIsCounted'
<1>1. /\ UNCHANGED <<options, phase, ping_in, since_resp, quiet>>
      /\ pings' = Append(pings, 0)
  BY DEF Ping, SendPing
<1>2. /\ pings' \in Seq(Nat)
      /\ \A i \in DOMAIN pings : i \in DOMAIN pings' /\ pings'[i] = pings[i]
      /\ \A i \in DOMAIN pings' : i \in DOMAIN pings \/ pings'[i] = 0
  BY <1>1 DEF SilenceIsCounted
<1>3. PingInterval \in Nat /\ RequestTimeout \in Nat /\ MaxLate \in Nat
  BY IntervalsArePositive, TimersAssumption
<1>4. \A i \in DOMAIN pings' : pings'[i] <= RequestTimeout + MaxLate
  <2> SUFFICES ASSUME NEW i \in DOMAIN pings' PROVE pings'[i] <= RequestTimeout + MaxLate
    OBVIOUS
  <2>1. CASE i \in DOMAIN pings
    BY <1>2, <2>1 DEF SilenceIsCounted
  <2>2. CASE pings'[i] = 0
    BY <1>3, <2>2
  <2> QED BY <1>2, <2>1, <2>2
<1> QED BY <1>1, <1>2, <1>3, <1>4, IntervalsStay DEF SilenceIsCounted, NoTask

\* The timer's ping: it is sent at most an interval and a lateness after the
\* server was heard of.
LEMMA TimeToPingCounts ==
  ASSUME Constant, SilenceIsCounted, TimeToPing
  PROVE  SilenceIsCounted'
<1>1. /\ UNCHANGED <<options, phase, since_resp, quiet>>
      /\ ping_in' = PingInterval /\ ping_in # NoTask /\ ping_in <= 0
      /\ pings' = Append(pings, 0)
  BY DEF TimeToPing, SendPing
<1>2. /\ pings' \in Seq(Nat)
      /\ \A i \in DOMAIN pings : i \in DOMAIN pings' /\ pings'[i] = pings[i]
      /\ \A i \in DOMAIN pings' : i \in DOMAIN pings \/ pings'[i] = 0
      /\ Len(pings') \in DOMAIN pings' /\ pings'[Len(pings')] = 0
  BY <1>1 DEF SilenceIsCounted
<1>3. PingInterval \in Nat \ {0} /\ RequestTimeout \in Nat /\ MaxLate \in Nat
  BY IntervalsArePositive, TimersAssumption
<1>4. \A i \in DOMAIN pings' : pings'[i] <= RequestTimeout + MaxLate
  BY <1>2, <1>3 DEF SilenceIsCounted
<1>5. CASE phase = "up" /\ ping_in + quiet <= PingInterval /\ quiet # 0
  <2>1. quiet \in Nat /\ ping_in \in (-MaxLate)..PingInterval
    BY <1>1 DEF SilenceIsCounted
  <2>2. 0 < quiet /\ quiet <= 0 + PingInterval + MaxLate
    BY <1>3, <1>5, <2>1
  <2> QED
    BY <1>1, <1>2, <1>3, <1>4, <1>5, <2>2, IntervalsStay DEF SilenceIsCounted, NoTask
<1>6. CASE quiet = 0
  BY <1>1, <1>2, <1>3, <1>4, <1>6, IntervalsStay DEF SilenceIsCounted, NoTask
<1>7. CASE phase = "up" /\ ~(ping_in + quiet <= PingInterval)
  BY <1>1, <1>2, <1>3, <1>4, <1>7, IntervalsStay DEF SilenceIsCounted, NoTask
<1>8. CASE phase # "up"
  BY <1>1, <1>2, <1>3, <1>4, <1>8, IntervalsStay DEF SilenceIsCounted, NoTask
<1> QED BY <1>5, <1>6, <1>7, <1>8

\* The check of a ping that was sent after the server was heard of closes the
\* connection; any other one leaves the witness in place.
LEMMA CheckPingCounts ==
  ASSUME Constant, SilenceIsCounted, CheckPing
  PROVE  SilenceIsCounted'
<1>1. /\ UNCHANGED <<options, ping_in, since_resp, quiet>>
      /\ pings # <<>> /\ Head(pings) >= RequestTimeout
      /\ pings' = Tail(pings)
      /\ phase' = IF since_resp > RequestTimeout THEN "closing" ELSE phase
  BY DEF CheckPing, TooLong
<1>2. /\ pings' \in Seq(Nat) /\ pings[1] = Head(pings)
      /\ \A i \in DOMAIN pings' : i + 1 \in DOMAIN pings /\ pings'[i] = pings[i + 1]
      /\ \A i \in DOMAIN pings : i # 1 => i - 1 \in DOMAIN pings' /\ pings'[i - 1] = pings[i]
  BY <1>1 DEF SilenceIsCounted
<1>3. PingInterval \in Nat \ {0} /\ RequestTimeout \in Nat /\ MaxLate \in Nat
  BY IntervalsArePositive, TimersAssumption
<1>4. \A i \in DOMAIN pings' : pings'[i] <= RequestTimeout + MaxLate
  BY <1>2 DEF SilenceIsCounted
<1>5. ASSUME phase' = "up", ~(ping_in + quiet <= PingInterval)
      PROVE  \E i \in DOMAIN pings' :
               pings'[i] < quiet /\ quiet <= pings'[i] + PingInterval + MaxLate
  <2>1. phase = "up" /\ ~(since_resp > RequestTimeout)
    BY <1>1, <1>5
  <2>2. PICK i \in DOMAIN pings : pings[i] < quiet /\ quiet <= pings[i] + PingInterval + MaxLate
    BY <1>5, <2>1 DEF SilenceIsCounted
  <2>3. quiet <= RequestTimeout
    BY <1>3, <2>1 DEF SilenceIsCounted, OldResp
  <2>4. i # 1
    BY <1>1, <1>2, <1>3, <2>2, <2>3 DEF SilenceIsCounted
  <2> QED BY <1>2, <2>2, <2>4
<1>6. phase' = "up" => phase = "up"
  BY <1>1
<1> QED
  BY <1>1, <1>2, <1>3, <1>4, <1>5, <1>6, IntervalsStay DEF SilenceIsCounted, NoTask

\* A tick brings the next ping nearer and makes everything else older.
LEMMA TickCounts ==
  ASSUME Constant, SilenceIsCounted, SilenceIsDetected, Tick
  PROVE  SilenceIsCounted'
<1>1. /\ UNCHANGED <<options, phase>>
      /\ ping_in # -MaxLate
      /\ \A i \in DOMAIN pings : pings[i] < RequestTimeout + MaxLate
      /\ ping_in' = IF ping_in = NoTask THEN NoTask ELSE ping_in - 1
      /\ pings' = [i \in DOMAIN pings |-> pings[i] + 1]
      /\ since_resp' = Min({since_resp + 1, OldResp})
      /\ quiet' = IF phase = "up" THEN Min({quiet + 1, Detected + 1}) ELSE 0
  BY DEF Tick
<1>2. /\ PingInterval \in Nat \ {0} /\ RequestTimeout \in Nat /\ MaxLate \in Nat
      /\ OldResp \in Nat /\ Detected \in Nat
  BY IntervalsArePositive, TimersAssumption DEF OldResp, Detected
<1>3. /\ pings' \in Seq(Nat) /\ DOMAIN pings' = DOMAIN pings
      /\ \A i \in DOMAIN pings : pings'[i] = pings[i] + 1
  <2>1. pings \in Seq(Nat)
    BY DEF SilenceIsCounted
  <2>2. /\ DOMAIN pings = 1..Len(pings) /\ Len(pings) \in Nat
        /\ \A i \in DOMAIN pings : pings[i] + 1 \in Nat
    BY <2>1
  <2>3. pings' \in [1..Len(pings) -> Nat]
    BY <1>1, <2>2
  <2> QED BY <1>1, <2>2, <2>3
<1>4. \A i \in DOMAIN pings' : pings'[i] <= RequestTimeout + MaxLate
  BY <1>1, <1>2, <1>3 DEF SilenceIsCounted
<1>5. since_resp' = IF since_resp + 1 <= OldResp THEN since_resp + 1 ELSE OldResp
  <2>1. since_resp + 1 \in Int /\ OldResp \in Int
    BY <1>2 DEF SilenceIsCounted
  <2> QED BY <1>1, <2>1, MinOfTwo
<1>6. phase = "up" => quiet' = quiet + 1
  <2> SUFFICES ASSUME phase = "up" PROVE quiet' = quiet + 1
    OBVIOUS
  <2>1. quiet \in Nat /\ quiet <= Detected
    BY DEF SilenceIsDetected, SilenceIsCounted
  <2>2. Min({quiet + 1, Detected + 1}) = quiet + 1
    BY <1>2, <2>1, MinOfTwo
  <2> QED BY <1>1, <2>2
<1>7. ping_in' \in {NoTask} \cup (-MaxLate)..PingInterval
  BY <1>1, <1>2 DEF SilenceIsCounted, NoTask
<1>8. quiet' \in Nat /\ since_resp' \in Nat
  <2>1. quiet \in Nat /\ since_resp \in Nat
    BY DEF SilenceIsCounted
  <2>2. phase # "up" => quiet' = 0
    BY <1>1
  <2> QED BY <1>2, <1>5, <1>6, <2>1, <2>2
<1>9. ASSUME phase = "up"
      PROVE  /\ ping_in' # NoTask
             /\ quiet' <= since_resp' \/ since_resp' = OldResp
             /\ \/ ping_in' + quiet' <= PingInterval
                \/ \E i \in DOMAIN pings' :
                     pings'[i] < quiet' /\ quiet' <= pings'[i] + PingInterval + MaxLate
  <2>1. ping_in' = ping_in - 1 /\ ping_in' # NoTask
    BY <1>1, <1>2, <1>9 DEF SilenceIsCounted, NoTask
  <2>2. quiet' <= since_resp' \/ since_resp' = OldResp
    BY <1>2, <1>5, <1>6, <1>9 DEF SilenceIsCounted
  <2>3. CASE ping_in + quiet <= PingInterval
    BY <1>2, <1>6, <1>9, <2>1, <2>2, <2>3 DEF SilenceIsCounted, NoTask
  <2>4. CASE ~(ping_in + quiet <= PingInterval)
    <3>1. PICK i \in DOMAIN pings :
            pings[i] < quiet /\ quiet <= pings[i] + PingInterval + MaxLate
      BY <1>9, <2>4 DEF SilenceIsCounted
    <3>2. pings[i] \in Nat /\ quiet \in Nat
      BY DEF SilenceIsCounted
    <3>3. pings'[i] < quiet' /\ quiet' <= pings'[i] + PingInterval + MaxLate
      BY <1>2, <1>3, <1>6, <1>9, <3>1, <3>2
    <3> QED BY <1>3, <2>1, <2>2, <3>3
  <2> QED BY <2>3, <2>4
<1> QED
  BY <1>1, <1>3, <1>4, <1>7, <1>8, <1>9, IntervalsStay, Zenon DEF SilenceIsCounted, NoTask

\* The count bounds the silence.
LEMMA CountedIsDetected ==
  ASSUME Constant, SilenceIsCounted
  PROVE  SilenceIsDetected
<1> SUFFICES ASSUME phase = "up" PROVE quiet <= Detected
  BY DEF SilenceIsDetected
<1>1. PingInterval \in Nat \ {0} /\ RequestTimeout \in Nat /\ MaxLate \in Nat
  BY IntervalsArePositive, TimersAssumption
<1>2. CASE ping_in + quiet <= PingInterval
  BY <1>1, <1>2 DEF SilenceIsCounted, Detected, NoTask
<1>3. CASE ~(ping_in + quiet <= PingInterval)
  <2>1. PICK i \in DOMAIN pings : quiet <= pings[i] + PingInterval + MaxLate
    BY <1>3 DEF SilenceIsCounted
  <2>2. pings[i] \in Nat /\ pings[i] <= RequestTimeout + MaxLate /\ quiet \in Nat
    BY DEF SilenceIsCounted
  <2> QED BY <1>1, <2>1, <2>2 DEF Detected
<1> QED BY <1>2, <1>3

\* The count is right at the start, ...
LEMMA CountedInit ==
  ASSUME Init
  PROVE  Constant /\ SilenceIsCounted
<1>1. Constant
  BY DEF Init, Constant
<1>2. OldResp \in Nat
  BY <1>1, IntervalsArePositive, TimersAssumption DEF OldResp
<1> QED BY <1>1, <1>2 DEF Init, SilenceIsCounted

\* ... every step keeps it right, ...
LEMMA CountedNext ==
  ASSUME Constant, SilenceIsCounted, [Next]_vars
  PROVE  Constant' /\ SilenceIsCounted'
<1> USE DEF backoff, keepalive
<1>0. SilenceIsDetected
  BY CountedIsDetected
<1>a. UNCHANGED options
  BY DEF Next, vars, SetReconnectTimeout, Connect, Ping, Retry, SocketOpens, Hangup,
         ChannelCloses, Shutdown, Connack, TimeToPing, Pingresp, CheckPing, Tick
<1>b. Constant'
  BY <1>a DEF Constant
<1> SUFFICES SilenceIsCounted'
  BY <1>b
<1>1. ASSUME NEW l \in Limits, SetReconnectTimeout(l) PROVE SilenceIsCounted'
  BY <1>1, IntervalsStay DEF SetReconnectTimeout, SilenceIsCounted, NoTask
<1>2. CASE Connect
  BY <1>2, NotUp DEF Connect, SilenceIsCounted
<1>3. CASE Ping
  BY <1>3, PingCounts
<1>4. CASE Retry
  BY <1>4, NotUp DEF Retry, AttemptReconnect, SilenceIsCounted
<1>5. CASE SocketOpens
  BY <1>5, NotUp DEF SocketOpens, SilenceIsCounted
<1>6. CASE Hangup \/ ChannelCloses
  BY <1>6, ShutdownCounts DEF Hangup, ChannelCloses
<1>7. ASSUME NEW accepted \in BOOLEAN, Connack(accepted) PROVE SilenceIsCounted'
  <2>1. /\ UNCHANGED <<options, pings, since_resp>>
        /\ ping_in' = PingInterval /\ quiet' = 0
    BY <1>7 DEF Connack
  <2>2. PingInterval \in Nat \ {0} /\ RequestTimeout \in Nat /\ MaxLate \in Nat
    BY IntervalsArePositive, TimersAssumption
  <2> QED
    BY <2>1, <2>2, IntervalsStay DEF SilenceIsCounted, NoTask
<1>8. CASE TimeToPing
  BY <1>8, TimeToPingCounts
<1>9. CASE Pingresp
  <2>1. /\ UNCHANGED <<options, phase, pings, ping_in>>
        /\ since_resp' = 0 /\ quiet' = 0
    BY <1>9 DEF Pingresp
  <2>2. PingInterval \in Nat \ {0} /\ RequestTimeout \in Nat /\ MaxLate \in Nat
    BY IntervalsArePositive, TimersAssumption
  <2>3. phase = "up" => ping_in + 0 <= PingInterval
    BY <2>2 DEF SilenceIsCounted, NoTask
  <2>4. 0 <= 0 /\ 0 \in Nat
    OBVIOUS
  <2> QED
    BY <2>1, <2>3, <2>4, IntervalsStay DEF SilenceIsCounted, NoTask
<1>10. CASE CheckPing
  BY <1>10, CheckPingCounts
<1>11. CASE Tick
  BY <1>0, <1>11, TickCounts
<1>12. CASE UNCHANGED vars
  BY <1>12, IntervalsStay DEF vars, SilenceIsCounted, NoTask
<1> QED
  BY <1>1, <1>2, <1>3, <1>4, <1>5, <1>6, <1>7, <1>8, <1>9, <1>10, <1>11, <1>12 DEF Next

\* ... and so it always is.
LEMMA CountedAlways == Spec => [](Constant /\ SilenceIsCounted)
<1>1. Init => Constant /\ SilenceIsCounted
  BY CountedInit
<1>2. Constant /\ SilenceIsCounted /\ [Next]_vars => (Constant /\ SilenceIsCounted)'
  BY CountedNext
<1> QED BY <1>1, <1>2, PTL DEF Spec

\* A connection whose server has stopped answering is closed by the check of a
\* ping in time, whatever the keep alive interval and the timeout are, however
\* late tasks run, and whenever the program pings in between.
THEOREM SilenceIsDetectedHolds == Spec => []SilenceIsDetected
<1>1. Constant /\ SilenceIsCounted => SilenceIsDetected
  BY CountedIsDetected
<1> QED BY <1>1, CountedAlways, PTL

\* s_pingreq_send's comparison closes no connection because of a ping that was
\* answered, except in the time by which its check was late.
THEOREM AnsweredIsKeptHolds == Spec => AnsweredIsKept
<1>1. ASSUME Constant, SilenceIsCounted, [Next]_vars,
             phase = "up", phase' = "closing", pings # <<>>
      PROVE  Head(pings) - since_resp < MaxLate
  <2>1. CheckPing
    BY <1>1 DEF Next, vars, SetReconnectTimeout, Connect, Ping, Retry, AttemptReconnect,
                SocketOpens, Hangup, ChannelCloses, Shutdown, Connack, TimeToPing, Pingresp, Tick
  <2>2. since_resp > RequestTimeout
    BY <1>1, <2>1 DEF CheckPing, TooLong
  <2>3. Head(pings) \in Nat /\ Head(pings) <= RequestTimeout + MaxLate /\ since_resp \in Nat
    BY <1>1 DEF SilenceIsCounted
  <2>4. RequestTimeout \in Nat /\ MaxLate \in Nat
    BY <1>1, IntervalsArePositive, TimersAssumption
  <2> QED BY <2>2, <2>3, <2>4
<1>2. Constant /\ SilenceIsCounted /\ [Next]_vars
        => [phase = "up" /\ phase' = "closing" /\ pings # <<>>
              => Head(pings) - since_resp < MaxLate]_vars
  BY <1>1
<1> QED BY <1>2, CountedAlways, PTL DEF Spec, AnsweredIsKept

-----------------------------------------------------------------------------
(* The back-off *)

\* A number below the width does not wrap.
LEMMA SmallModulus ==
  ASSUME NEW a \in Nat, NEW k \in Nat, a < k
  PROVE  a % k = a
OBVIOUS

\* The doubling of s_attempt_reconect, in Width bits, is the doubling of a
\* number that has no width, up to max.
LEMMA Doubling ==
  ASSUME NEW l \in Limits, NEW c \in Nat
  PROVE  (IF c > l.max \div 2 THEN l.max ELSE (c * 2) % 2^Width) = Min({2 * c, l.max})
<1>1. /\ l.max \in Nat /\ 2^Width \in Nat /\ l.max < 2^Width
  BY TimersAssumption
<1>2. Min({2 * c, l.max}) = IF 2 * c <= l.max THEN 2 * c ELSE l.max
  BY <1>1, MinOfTwo
<1>3. CASE c > l.max \div 2
  BY <1>1, <1>2, <1>3
<1>4. CASE ~(c > l.max \div 2)
  <2>1. 2 * c <= l.max /\ c * 2 = 2 * c
    BY <1>1, <1>4
  <2>2. 2 * c \in Nat /\ 2 * c < 2^Width
    BY <1>1, <2>1
  <2>3. (2 * c) % 2^Width = 2 * c
    BY <1>1, <2>2, SmallModulus
  <2> QED BY <1>2, <1>4, <2>1, <2>3
<1> QED BY <1>3, <1>4

\* The wait that is due after the next attempt.
NextDelay == IF fresh THEN limits.min ELSE Min({2 * delay, limits.max})

\* The next delay is a number.
LEMMA NextDelayType ==
  ASSUME BackoffIsNext
  PROVE  NextDelay \in Nat
<1>1. limits.min \in Nat /\ limits.max \in Nat
  BY TimersAssumption DEF BackoffIsNext
<1>2. Min({2 * delay, limits.max}) \in Nat
  <2>1. 2 * delay \in Nat
    BY DEF BackoffIsNext
  <2> QED BY <1>1, <2>1, MinOfTwo
<1> QED BY <1>1, <1>2 DEF NextDelay

\* An attempt to reconnect, of a connection that has had a socket.
LEMMA AttemptKeepsBackoff ==
  ASSUME BackoffIsNext, AttemptReconnect, state' = "RECONNECTING",
         state = "RECONNECTING" \/ phase \in {"open", "up", "closing"},
         ping_in' = NoTask, pings' = <<>>
  PROVE  BackoffIsNext'
<1>1. current = NextDelay /\ current \in Nat
  BY NextDelayType DEF BackoffIsNext, NextDelay
<1>2. /\ retry_in' = current /\ delay' = current /\ gap' = 0 /\ fresh' = FALSE
      /\ phase' \in {"opening", "waiting"} /\ limits' = limits
  BY <1>1 DEF AttemptReconnect, NextDelay
<1>3. current' = Min({2 * current, limits.max})
  BY <1>1, Doubling DEF AttemptReconnect, BackoffIsNext
<1>4. Max({0, delay' - gap'}) = retry_in'
  <2>1. delay' - gap' = current
    BY <1>1, <1>2
  <2> QED BY <1>1, <1>2, <2>1, MaxOfTwo
<1> QED BY <1>1, <1>2, <1>3, <1>4 DEF BackoffIsNext

\* The shutdown schedules the next attempt.
LEMMA ShutdownKeepsBackoff ==
  ASSUME BackoffIsNext, Shutdown
  PROVE  BackoffIsNext'
<1>0. ping_in' = NoTask /\ pings' = <<>>
  BY DEF Shutdown
<1>1. CASE state = "RECONNECTING" /\ phase' = "waiting" /\ UNCHANGED <<state, backoff>>
  BY <1>0, <1>1 DEF BackoffIsNext, backoff
<1>2. CASE /\ state = "CONNECTED" \/ (state = "CONNECTING" /\ phase # "opening")
           /\ state' = "RECONNECTING" /\ AttemptReconnect
  <2>1. phase \in {"open", "up", "closing"}
    BY <1>2 DEF BackoffIsNext
  <2> QED BY <1>0, <1>2, <2>1, AttemptKeepsBackoff
<1>3. CASE state' = "DISCONNECTED" /\ phase' = "none" /\ UNCHANGED backoff
  BY <1>0, <1>3 DEF BackoffIsNext, backoff
<1> QED BY <1>1, <1>2, <1>3 DEF Shutdown

\* Time passes up to the attempt, and not beyond it.
LEMMA TickKeepsBackoff ==
  ASSUME BackoffIsNext, Tick
  PROVE  BackoffIsNext'
<1>1. /\ UNCHANGED <<state, phase, limits, current, fresh, delay>>
      /\ retry_in' = Max({0, retry_in - 1})
      /\ gap' = IF state = "RECONNECTING" THEN Min({gap + 1, delay}) ELSE 0
  BY DEF Tick
<1>2. delay \in Nat /\ gap \in Nat /\ retry_in \in Nat
  BY DEF BackoffIsNext
<1>3. retry_in' = IF 0 >= retry_in - 1 THEN 0 ELSE retry_in - 1
  BY <1>1, <1>2, MaxOfTwo
<1>4. Min({gap + 1, delay}) = IF gap + 1 <= delay THEN gap + 1 ELSE delay
  BY <1>2, MinOfTwo
<1>5. gap' \in Nat /\ retry_in' \in Nat
  BY <1>1, <1>2, <1>3, <1>4
<1>6. ASSUME state = "RECONNECTING" PROVE retry_in' = Max({0, delay' - gap'})
  <2>1. retry_in = IF 0 >= delay - gap THEN 0 ELSE delay - gap
    BY <1>2, <1>6, MaxOfTwo DEF BackoffIsNext
  <2>2. Max({0, delay' - gap'}) = IF 0 >= delay' - gap' THEN 0 ELSE delay' - gap'
    <3>1. delay' - gap' \in Int
      BY <1>1, <1>2, <1>5
    <3>2. \A d \in Int : Max({0, d}) = IF 0 >= d THEN 0 ELSE d
      BY MaxOfTwo
    <3> QED BY <3>1, <3>2
  <2>3. delay' = delay /\ gap' = IF gap + 1 <= delay THEN gap + 1 ELSE delay
    BY <1>1, <1>4, <1>6
  <2> QED BY <1>2, <1>3, <2>1, <2>2, <2>3
<1>7. ping_in' # NoTask \/ pings' # <<>> => ping_in # NoTask \/ pings # <<>>
  BY DEF Tick
<1> QED BY <1>1, <1>2, <1>5, <1>6, <1>7 DEF BackoffIsNext

\* Every step keeps BackoffIsNext.
LEMMA BackoffNext ==
  ASSUME BackoffIsNext, [Next]_vars
  PROVE  BackoffIsNext'
<1> USE DEF backoff, keepalive
<1>1. ASSUME NEW l \in Limits, SetReconnectTimeout(l) PROVE BackoffIsNext'
  BY <1>1 DEF SetReconnectTimeout, BackoffIsNext
<1>2. CASE Connect
  BY <1>2 DEF Connect, BackoffIsNext
<1>3. CASE Ping
  BY <1>3 DEF Ping, BackoffIsNext
<1>4. CASE Retry
  BY <1>4, AttemptKeepsBackoff DEF Retry, BackoffIsNext
<1>5. CASE SocketOpens
  BY <1>5 DEF SocketOpens, BackoffIsNext
<1>6. CASE Hangup \/ ChannelCloses
  BY <1>6, ShutdownKeepsBackoff DEF Hangup, ChannelCloses
<1>7. ASSUME NEW accepted \in BOOLEAN, Connack(accepted) PROVE BackoffIsNext'
  BY <1>7 DEF Connack, BackoffIsNext
<1>8. CASE TimeToPing
  BY <1>8 DEF TimeToPing, BackoffIsNext
<1>9. CASE Pingresp
  BY <1>9 DEF Pingresp, BackoffIsNext
<1>10. CASE CheckPing
  BY <1>10 DEF CheckPing, BackoffIsNext
<1>11. CASE Tick
  BY <1>11, TickKeepsBackoff
<1>12. CASE UNCHANGED vars
  BY <1>12 DEF vars, BackoffIsNext
<1> QED
  BY <1>1, <1>2, <1>3, <1>4, <1>5, <1>6, <1>7, <1>8, <1>9, <1>10, <1>11, <1>12 DEF Next

\* The wait between two attempts to reconnect is min, then twice as long after
\* every one for which no socket opened, and never more than max, for all limits
\* with min <= max that fit in the width of the numbers; a channel that fails
\* late does not start it again.
THEOREM BackoffDoublesHolds == Spec => []BackoffDoubles
<1>1. Init => BackoffIsNext
  BY TimersAssumption DEF Init, BackoffIsNext
<1>2. BackoffIsNext /\ [Next]_vars => BackoffIsNext'
  BY BackoffNext
<1>3. BackoffIsNext => BackoffDoubles
  BY DEF BackoffIsNext, BackoffDoubles
<1> QED BY <1>1, <1>2, <1>3, PTL DEF Spec
=============================================================================
