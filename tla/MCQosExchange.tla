--------------------------- MODULE MCQosExchange ---------------------------
(***************************************************************************)
(* A message in each direction, of either quality of service.              *)
(***************************************************************************)
EXTENDS QosExchange

CONSTANTS o, i

McOut    == {o}
McIn     == {i}
McFaults == {"send", "late"}
=============================================================================
