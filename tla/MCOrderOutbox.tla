---------------------------- MODULE MCOrderOutbox ----------------------------
(* Instances of OrderOutbox for TLC: the second change of an order does    *)
(* not parse.                                                              *)
EXTENDS OrderOutbox

MCPoison == Orders \X {2}
==============================================================================
