------------------------- MODULE ConnectionContract -------------------------
(***************************************************************************)
(* What a connection promises to the program that owns it: in which order  *)
(* the callbacks of client.h come, whatever the network does.              *)
(*                                                                         *)
(* Between connect() and the end of the connection, on_connection_complete *)
(* reports success at most once and before any on_resumed, on_interrupted  *)
(* and on_resumed take turns, and after disconnect() no callback but       *)
(* on_disconnect comes.                                                    *)
(***************************************************************************)
VARIABLES
  phase,  \* what the program may know of the connection
  known   \* on_connection_complete has reported a CONNACK since connect()

cvars == <<phase, known>>

Init == phase = "closed" /\ known = FALSE

\* connect()
Open == phase = "closed" /\ phase' = "opening" /\ known' = FALSE

\* on_connection_complete with an error
Fail == phase = "opening" /\ phase' = "closed" /\ UNCHANGED known

\* on_connection_complete without an error; the first attempt may have been
\* interrupted before its CONNACK
Complete ==
  /\ phase \in {"opening", "lost"}
  /\ ~known
  /\ phase' = "online"
  /\ known' = TRUE

\* on_interrupted
Lose == phase \in {"opening", "online"} /\ phase' = "lost" /\ UNCHANGED known

\* on_resumed
Resume == phase = "lost" /\ known /\ phase' = "online" /\ UNCHANGED known

\* disconnect()
Close == phase \in {"online", "lost"} /\ phase' = "closing" /\ UNCHANGED known

\* on_disconnect
Closed == phase = "closing" /\ phase' = "closed" /\ UNCHANGED known

Next == Open \/ Fail \/ Complete \/ Lose \/ Resume \/ Close \/ Closed

Spec == Init /\ [][Next]_cvars
=============================================================================
