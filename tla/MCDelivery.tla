------------------------------ MODULE MCDelivery ------------------------------
(***************************************************************************)
(* Two executions for one customer, one of the channel orders the demo has *)
(***************************************************************************)
EXTENDS Delivery, TLC

CONSTANTS e1, e2

MCOne == {e1}
MCExecs == {e1, e2}
SymExecs == Permutations(MCExecs)
MCEdited == {"whatsapp"}
MCOrders == {<<"email", "whatsapp", "sms">>}
=============================================================================
