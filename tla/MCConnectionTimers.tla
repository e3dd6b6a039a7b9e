------------------------- MODULE MCConnectionTimers -------------------------
(***************************************************************************)
(* A tick stands for a second.  Doubling from 3 overshoots 7, and 2 * 4    *)
(* would not fit into the three bits of a timeout.  One pair of options    *)
(* has a ping time out before the next is sent, the other after it.        *)
(***************************************************************************)
EXTENDS ConnectionTimers

McDefaultLimits == [min |-> 1, max |-> 4]
McLimits == {McDefaultLimits, [min |-> 3, max |-> 7]}
McOptions == {[keep_alive |-> 0, ping_timeout |-> 0], [keep_alive |-> 2, ping_timeout |-> 3]}
=============================================================================
