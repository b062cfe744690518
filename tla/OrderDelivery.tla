---------------------------- MODULE OrderDelivery ----------------------------
(***************************************************************************)
(* What the order outbox promises about the events of orders.  An event    *)
(* that was sent may be delivered to the read models any number of times,  *)
(* its side effect happens at most once, and it is acknowledged only after *)
(* a delivery.  An acknowledgement may be withdrawn: the event is then     *)
(* delivered again.  A poison event has no effect and is not acknowledged. *)
(***************************************************************************)
EXTENDS Naturals

CONSTANTS Events, Poison

VARIABLES
  sent,       \* events committed together with their order
  delivered,  \* events a read model has shown at some time
  effects,    \* effects[e]: how often the side effect of e happened
  acked       \* events the outbox counts as published

vars == <<sent, delivered, effects, acked>>

Init ==
  /\ sent = {}
  /\ delivered = {}
  /\ effects = [e \in Events |-> 0]
  /\ acked = {}

Send ==
  /\ \E e \in Events \ sent : sent' = sent \cup {e}
  /\ UNCHANGED <<delivered, effects, acked>>

(* One read of an order shows every change made so far.                    *)
Deliver ==
  /\ \E E \in SUBSET sent : delivered' = delivered \cup E
  /\ UNCHANGED <<sent, effects, acked>>

Effect ==
  /\ \E e \in sent \ Poison :
       /\ effects[e] = 0
       /\ effects' = [effects EXCEPT ![e] = 1]
  /\ UNCHANGED <<sent, delivered, acked>>

Acknowledge ==
  /\ \E e \in delivered \ Poison : acked' = acked \cup {e}
  /\ UNCHANGED <<sent, delivered, effects>>

Withdraw ==
  /\ \E e \in acked : acked' = acked \ {e}
  /\ UNCHANGED <<sent, delivered, effects>>

Next == Send \/ Deliver \/ Effect \/ Acknowledge \/ Withdraw

Spec == Init /\ [][Next]_vars
==============================================================================
