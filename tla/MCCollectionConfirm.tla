------------------------- MODULE MCCollectionConfirm -------------------------
(* Instances of CollectionConfirm for TLC.                                 *)
EXTENDS CollectionConfirm

CONSTANTS a1, a2, a3, o1, d1, d2, d3, k1, k2, i1, i2, i3, cash, card

Sends(kind, o, k, i, m) == [kind |-> kind, order |-> o, key |-> k, intent |-> i, money |-> m]

(* Two cashiers at one incoming order with different keys and money, and    *)
(* a direct sale under the key of the second, which may be collected beside *)
(* the first, so that the book gets two invoices.                           *)
MCCommands ==
  {Sends("incoming", o1, k1, i1, cash), Sends("incoming", o1, k2, i2, card),
   Sends("direct", NoOrder, k2, i3, cash)}

AnySnapshot == {"begin", "firstRead"}

=============================================================================
